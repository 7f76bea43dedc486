--------------------------- MODULE MCProxyResponse ---------------------------
(***************************************************************************)
(* Every operation on two buckets, mapped with and without a path prefix,   *)
(* to path-style and to virtual-hosted addresses; requests that differ from *)
(* these in one parameter, header, address or signature, and requests that  *)
(* change on their way.  A listing that streams and a listing of parts that *)
(* is bounded have one element of every class of their tables.              *)
(***************************************************************************)
EXTENDS Gateway

Path(names) == <<"root">> \o names

Table(class) == [p \in {c[1] : c \in class} |-> CHOOSE x \in Classes : <<p, x>> \in class]

MCSchema ==
  [ListObjects |-> Table(
     {<<Path(<<"IsTruncated">>), "boolean">>, <<Path(<<"Next">>), "token">>,
      <<Path(<<"Name">>), "checked">>, <<Path(<<"Contents">>), "container">>,
      <<Path(<<"Contents", "Key">>), "key">>, <<Path(<<"Contents", "ETag">>), "plain">>,
      <<Path(<<"Contents", "Owner">>), "identity">>}),
   ListParts |-> Table(
     {<<Path(<<"IsTruncated">>), "boolean">>, <<Path(<<"Next">>), "checked">>,
      <<Path(<<"Key">>), "key">>, <<Path(<<"UploadId">>), "token">>, <<Path(<<"Part">>), "container">>,
      <<Path(<<"Part", "ETag">>), "plain">>, <<Path(<<"Owner">>), "identity">>}),
   ListMultipartUploads |-> Table(
     {<<Path(<<"IsTruncated">>), "boolean">>, <<Path(<<"Next">>), "token">>,
      <<Path(<<"Part">>), "container">>, <<Path(<<"Part", "Key">>), "key">>}),
   CreateMultipartUpload |-> Table({<<Path(<<"Key">>), "key">>, <<Path(<<"UploadId">>), "token">>}),
   CompleteMultipartUpload |-> Table({<<Path(<<"Key">>), "key">>, <<Path(<<"Name">>), "checked">>}),
   CopyObject |-> Table({<<Path(<<"ETag">>), "checked">>, <<Path(<<"Part">>), "plain">>})]

MCRequired ==
  [ListObjects |-> {}, ListMultipartUploads |-> {},
   ListParts |-> {Path(<<"Key">>), Path(<<"UploadId">>), Path(<<"IsTruncated">>)},
   CreateMultipartUpload |-> {Path(<<"Key">>), Path(<<"UploadId">>)},
   CompleteMultipartUpload |-> {Path(<<"Key">>), Path(<<"Name">>)},
   CopyObject |-> {Path(<<"ETag">>)}]

MCNames ==
  UNION {{p[i] : i \in DOMAIN p} : p \in UNION {DOMAIN MCSchema[f] : f \in DOMAIN MCSchema}}
    \cup {"Other", "Foreign"}

(***************************************************************************)
(* What is resolved.                                                       *)
(***************************************************************************)
K == <<<<"k">>>>
P == <<<<"p">>>>
MCBaseHosts == {<<"s3">>, <<"eu", "s3">>}
MCIPAddresses == {<<"10", "1">>}
MCSecrets == [AK |-> "virtual"]
MCMappings ==
  [b \in {<<"b">>, <<"b", "c">>, <<"b", "eu">>} |->
     [bucket |-> IF b = <<"b", "eu">> THEN <<"q">> ELSE <<"r">>, endpoint |-> <<"aws">>,
      region |-> "eu", accessKey |-> "AR", secret |-> "real",
      prefix |-> IF b = <<"b">> THEN P ELSE <<>>, pathStyle |-> b = <<"b">>]]

MCNumber ==
  [n \in {"0", "1", "1000", "1001", "10000", "10001"} |->
     CASE n = "0" -> 0 [] n = "1" -> 1 [] n = "1000" -> 1000 [] n = "1001" -> 1001
       [] n = "10000" -> 10000 [] n = "10001" -> 10001]

MCSourceOf ==
  LET From(bucket, key, version) == [bucket |-> bucket, key |-> key, version |-> version]
  IN  [s \in {"b/k", "b/k?v", "b/k?raw", "b/k?u", "b/..", "b.c/k", "r/k", "r/p/k", "r/p/k?v"} |->
         CASE s = "b/k" -> From(<<"b">>, K, "") [] s = "b/k?v" -> From(<<"b">>, K, "vb1.version")
           [] s = "b/k?raw" -> From(<<"b">>, K, "raw") [] s = "b/k?u" -> From(<<"b">>, K, "vb1.upload")
           [] s = "b/.." -> From(<<"b">>, <<<<"", "", "">>>>, "")
           [] s = "b.c/k" -> From(<<"b", "c">>, K, "") [] s = "r/k" -> From(<<"r">>, K, "")
           [] s = "r/p/k" -> From(<<"r">>, P \o K, "") [] s = "r/p/k?v" -> From(<<"r">>, P \o K, "version")]

MCOpened ==
  [continuation |-> [t \in {"vb1.continuation"} |-> "next"], upload |-> [t \in {"vb1.upload"} |-> "upload"],
   version |-> [t \in {"vb1.version"} |-> "version"]]
MCWithPrefix ==
  [x \in {P} |-> [t \in {"", "k", "1000"} |-> CASE t = "" -> "p/" [] t = "k" -> "p/k" [] OTHER -> "p/1000"]]

MCDateOf ==
  [d \in {"1T2", "1T1", "1T0", "0T2"} |->
     CASE d = "1T2" -> [day |-> 1, second |-> 12] [] d = "1T1" -> [day |-> 1, second |-> 11]
       [] d = "1T0" -> [day |-> 1, second |-> 10] [] OTHER -> [day |-> 0, second |-> 2]]

(***************************************************************************)
(* What clients sign.                                                      *)
(***************************************************************************)
\* A value the planner accepts for a parameter, one that it mostly refuses, and
\* an accepted value for a header.
Keys == {"prefix", "marker", "start-after", "key-marker"}
ParameterText(name) ==
  CASE name = "list-type" -> "2" [] name = "continuation-token" -> "vb1.continuation"
    [] name \in {"uploadId", "upload-id-marker"} -> "vb1.upload" [] name = "versionId" -> "vb1.version"
    [] name \in Keys -> "k" [] name \in {"uploads", "acl", "tagging", "policy", "versions"} -> ""
    [] name = "encoding-type" -> "url" [] name = "fetch-owner" -> "true" [] OTHER -> "1"
OtherText(name) ==
  CASE name \in Keys -> ".." [] name = "fetch-owner" -> "1" [] name = "versionId" -> "vb1.upload"
    [] name \in TokenFields -> "vb1.version" [] OTHER -> "10001"
HeaderText(h) ==
  CASE h = CopySource -> "b/k" [] h = "x-amz-acl" -> "private" [] h \in Directives -> "COPY"
    [] h \in {SSE, "x-amz-server-side-encryption-customer-algorithm"} -> "AES256"
    [] h \in ChecksumAlgorithms -> "CRC32" [] h = "x-amz-checksum-type" -> "COMPOSITE"
    [] h = "x-amz-date" -> Now [] h = "x-amz-content-sha256" -> UnsignedPayload [] OTHER -> "1"

Put(f, x, v) == [y \in DOMAIN f \cup {x} |-> IF y = x THEN v ELSE f[y]]
Without(f, x) == [y \in DOMAIN f \ {x} |-> f[y]]
Stamps == {"x-amz-date", "x-amz-content-sha256"}

\* The plain request of a row for a bucket and, in its scope, the key.
Plain(row, bucket) ==
  LET q == row.flags \cup row.values
      h == Stamps \cup (IF row.kind = "CopyObject" THEN {CopySource} ELSE {})
      key == IF row.scope = "object" THEN K ELSE <<>>
  IN  [method |-> row.method, bucket |-> IF row.scope = "service" THEN <<>> ELSE bucket, key |-> key,
       host |-> <<"s3">>,
       path |-> IF row.scope = "service" THEN <<Empty>> ELSE <<bucket>> \o key,
       query |-> [n \in q |-> <<ParameterText(n)>>],
       headers |-> [n \in h |-> <<IF n = CopySource /\ Len(bucket) = 2 THEN "b.c/k" ELSE HeaderText(n)>>],
       nominated |-> {}, trailer |-> {}, malformedQuery |-> FALSE, body |-> BodyKind(row.kind) # "empty"]

Parameters ==
  UNION {Rows[i].flags \cup Rows[i].values \cup Rows[i].optional : i \in DOMAIN Rows}
    \cup Selectors("PUT") \cup {"x-id", "other"}
Headers ==
  AmzHeaders \cup GeneralHeaders \cup {"range", "if-match", "content-type", "content-md5", "cookie"}

OtherQueries(m) ==
  {[m EXCEPT !.query = Put(@, n, <<v>>)] : n \in Parameters, v \in {"", "1000"}}
    \cup {[m EXCEPT !.query = Put(@, n, v)] :
             <<n, v>> \in UNION {{n} \X {<<ParameterText(n)>>, <<OtherText(n)>>, <<"1", "1">>} : n \in Parameters}}
    \cup {[m EXCEPT !.query = Put(@, "x-id", <<Rows[i].kind>>)] : i \in DOMAIN Rows}
    \cup {[m EXCEPT !.query = Without(@, n)] : n \in DOMAIN m.query}
WithHeaders(m) == {[m EXCEPT !.headers = Put(@, h, <<HeaderText(h)>>)] : h \in Headers}
OtherHeaders(m) ==
  WithHeaders(m)
    \cup {[m EXCEPT !.headers = Put(@, h, <<HeaderText(h)>>), !.nominated = {h}] : h \in Headers}
    \cup {[m EXCEPT !.headers = Put(@, h, v)] : h \in Headers, v \in {<<"">>, <<"x">>, <<"x", "x">>}}
    \cup {[m EXCEPT !.headers = Put(@, CopySource, <<s>>)] : s \in DOMAIN SourceOf}
    \cup {[m EXCEPT !.headers = Put(Put(@, g, <<HeaderText(g)>>), h, <<HeaderText(h)>>)] :
             g \in {SSE, "x-amz-acl", "x-amz-checksum-crc32"}, h \in Singletons}
    \cup {[m EXCEPT !.headers = [n \in DOMAIN @ \cup CustomerKey |-> <<HeaderText(n)>>]]}
OtherAddresses(m) ==
  {[m EXCEPT !.host = m.bucket \o base, !.path = IF m.key = <<>> THEN <<Empty>> ELSE m.key] : base \in BaseHosts}
    \cup {[m EXCEPT !.host = h] : h \in {<<"eu", "s3">>, <<"else">>, <<"10", "1">>, <<"-">>}}
    \cup {[m EXCEPT !.path = Append(@, s), !.key = Append(@, s)] : s \in Dots \cup {Unprintable, Empty, <<"j">>}}
    \cup {[m EXCEPT !.path = <<<<"-">>>> \o K, !.bucket = <<"-">>, !.key = K],
          [m EXCEPT !.path = <<Empty>> \o K, !.bucket = <<>>, !.key = K],
          [m EXCEPT !.path = <<<<"d">>>> \o K, !.bucket = <<"d">>, !.key = K]}
Others(m) ==
  {m} \cup OtherQueries(m) \cup OtherHeaders(m) \cup OtherAddresses(m)
    \cup {[m EXCEPT !.body = ~@], [m EXCEPT !.malformedQuery = TRUE], [m EXCEPT !.trailer = {"x"}]}

Everything(m) == {"host"} \cup DOMAIN m.headers
WithAuth(m, key, secret, datetime, headers) ==
  [n \in DOMAIN m \cup {"auth"} |->
     IF n = "auth" THEN Authorization(m, key, secret, "any", datetime, headers) ELSE m[n]]
SignedBy(m) == WithAuth(m, "AK", "virtual", IF m.headers["x-amz-date"][1] \in DOMAIN DateOf
                                           THEN m.headers["x-amz-date"][1] ELSE Now, Everything(m))

\* Wrong signatures, and signatures of another time.
Signatures(m) ==
  {WithAuth(m, "AK", "virtual", Now, {"host"}), WithAuth(m, "AK", "virtual", Now, {"host", "x-amz-date"}),
   WithAuth(m, "AK", "virtual", Now, DOMAIN m.headers),
   WithAuth(m, "AK", "guess", Now, Everything(m)), WithAuth(m, "AX", "virtual", Now, Everything(m)),
   WithAuth(m, "AK", "virtual", "0T2", Everything(m)),
   [SignedBy(m) EXCEPT !.auth.form = "malformed"], [SignedBy(m) EXCEPT !.auth.scope.service = "ec2"]}
    \cup {SignedBy([m EXCEPT !.headers = Put(@, "x-amz-date", <<d>>)]) : d \in DOMAIN DateOf \cup {"x"}}

\* The requests that change on their way, some with an x-amz- header to lose.
Changing ==
  {SignedBy(Plain(Rows[i], <<"b">>)) : i \in DOMAIN Rows}
    \cup {SignedBy([Plain(Rows[i], <<"b">>) EXCEPT !.headers = Put(@, h, <<HeaderText(h)>>)]) :
             i \in {i \in DOMAIN Rows : Rows[i].kind \in PutKinds}, h \in Metadata \cup {SSE}}
    \cup {SignedBy([Plain(Rows[i], <<"b">>) EXCEPT !.headers = Put(@, CopySource, <<"">>)]) :
             i \in {i \in DOMAIN Rows : Rows[i].kind \in PutKinds}}

MCMade ==
  UNION {{SignedBy(m) : m \in Others(Plain(Rows[i], <<"b">>))} : i \in DOMAIN Rows}
    \cup UNION {{SignedBy(m) : m \in WithHeaders(Plain(Rows[i], <<"b", "c">>))
                                 \cup OtherAddresses(Plain(Rows[i], <<"b", "c">>))} : i \in DOMAIN Rows}
    \cup UNION {Signatures(Plain(Rows[i], <<"b">>)) : i \in DOMAIN Rows}
    \cup Changing

Changed(r) ==
  {[r EXCEPT !.headers = Put(@, h, v)] : h \in Headers, v \in {<<"">>, <<"x">>, <<"x", "x">>}}
    \cup WithHeaders(r)
    \cup {[r EXCEPT !.headers = Without(@, h)] : h \in DOMAIN r.headers}
    \cup {[r EXCEPT !.nominated = {h}] : h \in Headers}
    \cup {[r EXCEPT !.query = Put(@, n, <<ParameterText(n)>>)] : n \in Parameters}
    \cup {[r EXCEPT !.method = x] : x \in {"GET", "HEAD", "PUT", "DELETE", "POST"}}
    \cup {[r EXCEPT !.malformedQuery = TRUE], [r EXCEPT !.body = ~@], [r EXCEPT !.trailer = {"x"}],
          [r EXCEPT !.host = <<"b", "s3">>],
          [r EXCEPT !.path = <<<<"b", "c">>>> \o K]}

MCArriving(m) == {m} \cup (IF m \in Changing THEN Changed(m) ELSE {})
=============================================================================
