------------------------------- MODULE Gateway -------------------------------
(***************************************************************************)
(* A request on its way through the proxy: S3Auth and proxyS3Request        *)
(* (http_server/s3_middleware.go, http_server/s3_proxy.go) from the bytes   *)
(* that arrive to the signed request that leaves, and from there to the     *)
(* answer, which is ProxyResponse.                                          *)
(*                                                                          *)
(* A client signs a request for a bucket and a key; what arrives may differ *)
(* from it.  Base hosts, credentials and mappings are those of one          *)
(* resolution: Resolution models how they change meanwhile.                 *)
(***************************************************************************)
EXTENDS ProxyResponse, Planning, SigV4

CONSTANTS
  Made,          \* the requests that clients sign
  Arriving(_),   \* what may arrive of a request
  Secrets,       \* [access key |-> the secret of its virtual credentials]
  BaseHosts,     \* Client.baseHosts
  Labels,        \* the labels that a host or a bucket name may have
  IPAddresses,   \* the hosts that are one
  Mappings,      \* [bucket |-> its VBucketConfig, normalized]
  WithPrefix,    \* [path prefix |-> [text |-> the text after the prefix]]
  Opened         \* [kind of token |-> [token |-> what is sealed in it]]

VARIABLES
  made,      \* the request as its client signed it, with the bucket and key it is for
  request,   \* the request as it arrived
  planned,   \* S3OperationPlan, and what AuthorizeS3Plan grants with it
  outbound   \* the request to the real S3

gateway == <<made, request, planned, outbound>>
None == [kind |-> "none"]

\* writeS3Error before anything else is written.
Refuse == WriteError /\ UNCHANGED <<plan, upstream, rewriter, history, gateway>>

(***************************************************************************)
(* Phase 1 of S3Auth.                                                      *)
(***************************************************************************)
Authenticated(r) ==
  /\ ParsedOK(r.auth)
  /\ r.auth.key \in DOMAIN Secrets
  /\ VerifySignature(r, Secrets[r.auth.key], AmzHeaders)

Authenticate ==
  /\ phase = "authenticate"
  /\ IF Authenticated(request)
     THEN /\ phase' = "resolve"
          /\ UNCHANGED <<plan, upstream, rewriter, history, client, gateway>>
     ELSE Refuse

(***************************************************************************)
(* resolveBucket and the plan.                                             *)
(***************************************************************************)
HostOK(host) == host \in IPAddresses \/ \A i \in DOMAIN host : host[i] \in Labels

\* Where the registered base hosts begin that host ends with.
BaseHostStarts(host) ==
  {i \in DOMAIN host : host \notin IPAddresses /\ SubSeq(host, i, Len(host)) \in BaseHosts}

\* LookupBaseHost: the longest one.
LookupBaseHost(host) == CHOOSE i \in BaseHostStarts(host) : \A j \in BaseHostStarts(host) : i <= j

IsVHost(host) == BaseHostStarts(host) # {} /\ LookupBaseHost(host) > 1

Key(segments) == IF segments = <<Empty>> THEN <<>> ELSE segments

\* resolveBucket.
ResolveBucket(r) ==
  IF IsVHost(r.host)
  THEN [bucket |-> SubSeq(r.host, 1, LookupBaseHost(r.host) - 1), key |-> Key(r.path)]
  ELSE [bucket |-> IF r.path[1] = Empty THEN <<>> ELSE r.path[1], key |-> Key(Tail(r.path))]

\* isValidBucketName.
BucketOK(bucket) == \A i \in DOMAIN bucket : bucket[i] \in Labels

PlanRequest ==
  LET address == ResolveBucket(request)
      kind == KindOf(request, Scope(address.bucket, address.key))
  IN  /\ phase = "resolve"
      /\ IF /\ HostOK(request.host) /\ BucketOK(address.bucket)
            /\ PlanOK(request, address.bucket, address.key)
         THEN /\ planned' = [kind |-> kind, bucket |-> address.bucket, key |-> address.key,
                             checks |-> IAMChecks(OperationOf(request, kind)),
                             context |-> WireContext(request, kind)]
              /\ phase' = "authorize"
              /\ UNCHANGED <<plan, upstream, rewriter, history, client, made, request, outbound>>
         ELSE Refuse

(***************************************************************************)
(* The rest of phase 2.  CreateBucket and ListBuckets go to the control    *)
(* plane (BucketCalls), any other operation to the bucket of the mapping.  *)
(***************************************************************************)
\* The body of a CreateBucket or CompleteMultipartUpload is malformed, the
\* policy denies a check, or what was resolved is no longer current.
Deny == phase = "authorize" /\ Refuse

Dispatch ==
  /\ phase = "authorize"
  /\ IF planned.kind \in {"CreateBucket", "ListBuckets"}
     THEN /\ phase' = "bucketCall"
          /\ UNCHANGED <<plan, upstream, rewriter, history, client, gateway>>
     ELSE IF planned.bucket \in DOMAIN Mappings
     THEN /\ phase' = "forward"
          /\ UNCHANGED <<plan, upstream, rewriter, history, client, gateway>>
     ELSE Refuse

(***************************************************************************)
(* proxyS3Request up to proxyClient.Do.                                    *)
(***************************************************************************)
mapping == Mappings[planned.bucket]

TokenFields == {"continuation-token", "upload-id-marker", "uploadId", "versionId"}

KeyField ==
  [ListObjects |-> "marker", ListObjectsV2 |-> "start-after", ListMultipartUploads |-> "key-marker"]

\* The kind of token that a parameter takes.
TokenKind(name) ==
  CASE name = "continuation-token" -> "continuation"
    [] name = "versionId" -> "version"
    [] OTHER -> "upload"

Sealed(q) == {name \in TokenFields \cap DOMAIN q : q[name] # <<"">>}

\* decodeOpaqueToken: every token opens under the mapping, as one of its kind.
TokensOK(q) == \A name \in Sealed(q) : q[name][1] \in DOMAIN Opened[TokenKind(name)]

\* rewriteOutboundQuery: the path prefix goes before the prefix and the marker
\* of a listing.
RewriteQuery(q, kind) ==
  LET prefixes == Transform(kind) = "listQuery" /\ mapping.prefix # <<>>
      given(name) == IF name \in DOMAIN q THEN q[name][1] ELSE ""
      prefixed == {"prefix"} \cup {name \in DOMAIN q : name = KeyField[kind] /\ given(name) # ""}
      rewritten == IF prefixes THEN prefixed ELSE {}
  IN  [name \in DOMAIN q \cup rewritten |->
         IF name \in rewritten THEN <<WithPrefix[mapping.prefix][given(name)]>>
         ELSE IF name \in Sealed(q) THEN <<Opened[TokenKind(name)][q[name][1]]>>
         ELSE q[name]]

\* copyOutboundRequestHeaders, without the headers signRequest sets.
CopyHeaders(r, kind) ==
  LET dropped == HopHeaders \cup r.nominated \cup {"x-amz-date", "x-amz-content-sha256"}
  IN  [h \in {h \in DOMAIN r.headers \ dropped : SafeOutbound(h, kind)} |-> r.headers[h]]

Source == SourceOf[request.headers[CopySource][1]]
SourceVersionOK == Source.version = "" \/ Source.version \in DOMAIN Opened["version"]

\* buildCopySource: the text that is read as this source of the real bucket.
BuildCopySource ==
  CHOOSE text \in DOMAIN SourceOf :
    SourceOf[text] = [bucket  |-> mapping.bucket,
                      key     |-> mapping.prefix \o Source.key,
                      version |-> IF Source.version = "" THEN "" ELSE Opened["version"][Source.version]]

WithCopySource(r) ==
  IF planned.kind # "CopyObject" THEN r
  ELSE [r EXCEPT !.headers = [h \in DOMAIN r.headers \cup {CopySource} |->
                                IF h = CopySource THEN <<BuildCopySource>> ELSE r.headers[h]]]

\* buildOutboundURL and the host of the request.
Unsigned ==
  LET key == (IF Transform(planned.kind) = "objectPath" THEN mapping.prefix ELSE <<>>) \o planned.key
  IN  [request EXCEPT
         !.host = IF mapping.pathStyle THEN mapping.endpoint ELSE mapping.bucket \o mapping.endpoint,
         !.path = IF mapping.pathStyle THEN <<mapping.bucket>> \o key
                  ELSE IF key = <<>> THEN <<Empty>> ELSE key,
         !.query = RewriteQuery(request.query, planned.kind),
         !.headers = CopyHeaders(request, planned.kind),
         !.nominated = {},
         !.trailer = {}]

Signed(r) == SignRequest(r, mapping.accessKey, mapping.secret, mapping.region)

\* Mutant: the copy source is set on the signed request.
OutboundSignedEarly == WithCopySource(Signed(Unsigned))

Outbound == Signed(WithCopySource(Unsigned))

Forward ==
  /\ phase = "forward"
  /\ IF TokensOK(request.query) /\ (planned.kind = "CopyObject" => SourceVersionOK)
     THEN /\ outbound' = Outbound
          /\ phase' = "send"
          /\ UNCHANGED <<plan, upstream, rewriter, history, client, made, request, planned>>
     ELSE Refuse

\* proxyClient.Do; of the request its plan remains.
Send ==
  /\ phase = "send"
  /\ plan' = [profile    |-> Profile(planned.kind),
              head       |-> request.method = "HEAD",
              fetchOwner |-> /\ "fetch-owner" \in DOMAIN request.query
                             /\ request.query["fetch-owner"] = <<"true">>]
  /\ phase' = "prepare"
  /\ made' = None /\ request' = None /\ planned' = None /\ outbound' = None
  /\ UNCHANGED <<upstream, rewriter, history, client>>

(***************************************************************************)
(* What is assumed of clients, of their connections and of what is         *)
(* resolved.                                                               *)
(***************************************************************************)
Fields ==
  {"method", "bucket", "key", "host", "path", "query", "headers", "nominated", "trailer",
   "malformedQuery", "body", "auth"}

\* A request that net/http hands on: what has a name has a value.
WellFormed(r) ==
  /\ DOMAIN r = Fields
  /\ r.host \in Seq(STRING) /\ r.path \in Seq(Seq(STRING)) \ {<<>>}
  /\ \A name \in DOMAIN r.query : r.query[name] \in Seq(STRING) \ {<<>>}
  /\ \A h \in DOMAIN r.headers : r.headers[h] \in Seq(STRING) \ {<<>>}

\* The host names no bucket and the path does, or the host ends with a base host
\* and with no longer one, and the path is the key.
Addressed(m) ==
  /\ m.bucket \in Seq(STRING) \ {Empty} /\ m.key \in Seq(Seq(STRING))
  /\ \/ /\ m.host \in BaseHosts \cup IPAddresses \/ BaseHostStarts(m.host) = {}
        /\ m.path = <<IF m.bucket = <<>> THEN Empty ELSE m.bucket>> \o m.key
     \/ /\ m.bucket # <<>> /\ m.key # <<Empty>> /\ m.host \notin IPAddresses
        /\ \E base \in BaseHosts : m.host = m.bucket \o base
        /\ \A i \in DOMAIN m.bucket : SubSeq(m.host, i, Len(m.host)) \notin BaseHosts
        /\ m.path = IF m.key = <<>> THEN <<Empty>> ELSE m.key

\* A client says in path and host what it asks for, and signs what it sends.
\* What verifies was signed by the client, as nobody else has its secret; and a
\* client that signs at all signs its x-amz- headers.
ASSUME ClientAssumption ==
  \A m \in Made :
    /\ WellFormed(m) /\ Addressed(m)
    /\ m.auth.signature.canonical = CanonicalRequest(m, m.auth.signedHeaders)
    /\ \A r \in Arriving(m) :
         /\ WellFormed(r)
         /\ Authenticated(r) =>
              r.auth.signature = m.auth.signature /\ AmzHeadersSigned(m, AmzHeaders)

\* baseHostDeltaDomain, NormalizeVBucketConfig.  A source that buildCopySource writes
\* can be read; no version is sealed around nothing.
ASSUME ResolvedAssumption ==
  /\ BaseHosts \subseteq Seq(STRING) \ {<<>>}
  /\ \A t \in DOMAIN Opened["version"] : Opened["version"][t] # ""
  /\ \A b \in DOMAIN Mappings :
       LET m == Mappings[b]
       IN  /\ m.bucket \in Seq(STRING) \ {<<>>} /\ m.endpoint \in Seq(STRING)
           /\ m.prefix \in Seq(Seq(STRING)) /\ m.pathStyle \in BOOLEAN
           /\ \A source \in {SourceOf[text] : text \in DOMAIN SourceOf} :
                /\ source.bucket = b /\ KeyOK(source.key)
                /\ source.version \in DOMAIN Opened["version"] \cup {""}
                =>
                  \E text \in DOMAIN SourceOf :
                    SourceOf[text] =
                      [bucket |-> m.bucket, key |-> m.prefix \o source.key,
                       version |-> IF source.version = "" THEN "" ELSE Opened["version"][source.version]]

GatewayInit ==
  /\ made \in Made /\ request \in Arriving(made)
  /\ planned = None /\ outbound = None
  /\ plan = [profile |-> "headers", head |-> FALSE, fetchOwner |-> FALSE]
  /\ phase = "authenticate" /\ Unanswered

Respond == ResponseNext /\ UNCHANGED gateway

GatewayNext ==
  \/ Authenticate \/ PlanRequest \/ Deny \/ Dispatch \/ Forward \/ Send
  \/ Respond

GatewaySpec == GatewayInit /\ [][GatewayNext]_<<response, gateway>>

(***************************************************************************)
(* The real S3: which operation it takes a request for, on what, with      *)
(* which rights.                                                           *)
(***************************************************************************)
Means(kind, method, scope, selectors, copies) ==
  [kind |-> kind, method |-> method, scope |-> scope, selectors |-> selectors, copies |-> copies]

\* An operation is selected by these parameters and by nothing else, whatever
\* their values.
Selectors(method) ==
  {"uploads", "uploadId", "versionId", "list-type", "acl", "tagging", "policy", "versions"}
    \cup (IF method = "PUT" THEN {"partNumber"} ELSE {})

Meanings ==
  {Means("HeadBucket", "HEAD", "bucket", {}, FALSE),
   Means("DeleteBucket", "DELETE", "bucket", {}, FALSE),
   Means("ListObjects", "GET", "bucket", {}, FALSE),
   Means("ListObjectsV2", "GET", "bucket", {"list-type"}, FALSE),
   Means("ListMultipartUploads", "GET", "bucket", {"uploads"}, FALSE),
   Means("ListObjectVersions", "GET", "bucket", {"versions"}, FALSE),
   Means("GetBucketPolicy", "GET", "bucket", {"policy"}, FALSE),
   Means("GetObject", "GET", "object", {}, FALSE),
   Means("GetObjectVersion", "GET", "object", {"versionId"}, FALSE),
   Means("GetObjectAcl", "GET", "object", {"acl"}, FALSE),
   Means("GetObjectTagging", "GET", "object", {"tagging"}, FALSE),
   Means("ListParts", "GET", "object", {"uploadId"}, FALSE),
   Means("HeadObject", "HEAD", "object", {}, FALSE),
   Means("HeadObjectVersion", "HEAD", "object", {"versionId"}, FALSE),
   Means("PutObject", "PUT", "object", {}, FALSE),
   Means("CopyObject", "PUT", "object", {}, TRUE),
   Means("PutObjectAcl", "PUT", "object", {"acl"}, FALSE),
   Means("PutObjectTagging", "PUT", "object", {"tagging"}, FALSE),
   Means("UploadPart", "PUT", "object", {"partNumber", "uploadId"}, FALSE),
   Means("UploadPartCopy", "PUT", "object", {"partNumber", "uploadId"}, TRUE),
   Means("DeleteObject", "DELETE", "object", {}, FALSE),
   Means("DeleteObjectVersion", "DELETE", "object", {"versionId"}, FALSE),
   Means("DeleteObjectTagging", "DELETE", "object", {"tagging"}, FALSE),
   Means("AbortMultipartUpload", "DELETE", "object", {"uploadId"}, FALSE),
   Means("CreateMultipartUpload", "POST", "object", {"uploads"}, FALSE),
   Means("CompleteMultipartUpload", "POST", "object", {"uploadId"}, FALSE)}

UpstreamAddress(r) ==
  IF r.host = mapping.endpoint THEN [bucket |-> r.path[1], key |-> Tail(r.path)]
  ELSE [bucket |-> SubSeq(r.host, 1, Len(r.host) - Len(mapping.endpoint)), key |-> Key(r.path)]

Readings(r) ==
  LET address == UpstreamAddress(r)
  IN  {m.kind : m \in {m \in Meanings :
         /\ m.method = r.method
         /\ m.scope = Scope(address.bucket, address.key)
         /\ m.selectors = Selectors(r.method) \cap DOMAIN r.query
         /\ m.copies = HasHeader(r, CopySource)}}

\* The action that the real S3 requires for an operation, by its documentation.
S3Action(kind) ==
  CASE kind \in {"HeadBucket", "ListObjects", "ListObjectsV2"} -> "s3:ListBucket"
    [] kind = "DeleteBucket" -> "s3:DeleteBucket"
    [] kind = "ListMultipartUploads" -> "s3:ListBucketMultipartUploads"
    [] kind = "ListObjectVersions" -> "s3:ListBucketVersions"
    [] kind = "GetBucketPolicy" -> "s3:GetBucketPolicy"
    [] kind \in {"GetObject", "HeadObject"} -> "s3:GetObject"
    [] kind \in {"GetObjectVersion", "HeadObjectVersion"} -> "s3:GetObjectVersion"
    [] kind = "GetObjectAcl" -> "s3:GetObjectAcl"
    [] kind = "GetObjectTagging" -> "s3:GetObjectTagging"
    [] kind = "ListParts" -> "s3:ListMultipartUploadParts"
    [] kind \in {"PutObject", "CopyObject", "UploadPart", "UploadPartCopy",
                 "CreateMultipartUpload", "CompleteMultipartUpload"} -> "s3:PutObject"
    [] kind = "PutObjectAcl" -> "s3:PutObjectAcl"
    [] kind = "PutObjectTagging" -> "s3:PutObjectTagging"
    [] kind = "DeleteObject" -> "s3:DeleteObject"
    [] kind = "DeleteObjectVersion" -> "s3:DeleteObjectVersion"
    [] kind = "DeleteObjectTagging" -> "s3:DeleteObjectTagging"
    [] kind = "AbortMultipartUpload" -> "s3:AbortMultipartUpload"

\* The rights that an operation takes of who may perform it: its action on the
\* resource that is addressed, and what its headers take besides.
UsedRights(r, kind) ==
  LET address == UpstreamAddress(r)
  IN  {Check(S3Action(kind), Scope(address.bucket, address.key))}
        \cup (IF kind # "CopyObject" THEN {}
              ELSE {Check(IF SourceOf[r.headers[CopySource][1]].version = "" THEN "s3:GetObject"
                          ELSE "s3:GetObjectVersion", "source")})
        \cup (IF ACLHeaders \cap DOMAIN r.headers = {} THEN {} ELSE {Check("s3:PutObjectAcl", "object")})
        \cup (IF HasHeader(r, "x-amz-tagging") THEN {Check("s3:PutObjectTagging", "object")} ELSE {})

\* net/http sends one User-Agent, its own when the request has none.
Wire(r) ==
  [r EXCEPT !.headers = [h \in DOMAIN r.headers \cup {"user-agent"} |->
     IF h # "user-agent" THEN r.headers[h]
     ELSE IF HasHeader(r, h) THEN <<r.headers[h][1]>> ELSE <<"Go">>]]

(***************************************************************************)
(* Properties.                                                             *)
(***************************************************************************)
\* What reaches the real S3 is the operation the policy granted: the real S3 can
\* take it for no other operation, on the object under the prefix of the mapping
\* that the client named, and with no right that was not checked; the conditions
\* of the policy saw the listing and the headers that are sent
\* (planS3Operation, buildS3IAMWireContext, proxyS3Request).
PerformedAsAuthorized ==
  phase = "send" =>
    /\ Readings(outbound) = {planned.kind}
    /\ UsedRights(outbound, planned.kind) \subseteq {planned.checks[i] : i \in DOMAIN planned.checks}
    /\ UpstreamAddress(outbound) =
         [bucket |-> Mappings[made.bucket].bucket,
          key    |-> IF made.key = <<>> THEN <<>> ELSE Mappings[made.bucket].prefix \o made.key]
    /\ \A h \in ConditionHeaders \ {CopySource} :
         HeaderValues(outbound, h) = IF h \in DOMAIN planned.context.headers
                                     THEN planned.context.headers[h] ELSE <<>>
    /\ \A name \in DOMAIN planned.context.query : outbound.query[name] = planned.context.query[name]
    /\ planned.kind \in DOMAIN KeyField /\ mapping.prefix # <<>> =>
         outbound.query["prefix"] = <<WithPrefix[mapping.prefix][planned.context.prefix[1]]>>

\* What reaches the real S3 is what the client signed: no method, parameter or
\* x-amz- header was added, changed or lost after it signed, on the way to the
\* proxy or in it; an empty header reads like none (requireSignedAmzHeaders,
\* validateHeadersForOperation).
ForwardedAsSigned ==
  phase = "send" =>
    /\ outbound.method = made.method
    /\ \A h \in AmzHeaders \ {"x-amz-date", "x-amz-content-sha256", CopySource} :
         CanonicalValues(outbound, h) = CanonicalValues(made, h)
    /\ HasHeader(outbound, CopySource) <=> CanonicalValues(made, CopySource) # <<"">>
    /\ DOMAIN outbound.query \ {"prefix"} = DOMAIN made.query \ {"prefix"}
    /\ \A name \in DOMAIN made.query
                     \ ({"prefix", "marker", "start-after", "key-marker"} \cup TokenFields) :
         outbound.query[name] = made.query[name]

\* The real S3 accepts the signature of what the proxy sends, whatever headers
\* the client sent: nothing that is signed changes between signRequest and the
\* wire.  (A second User-Agent would: net/http sends one.)
UpstreamAccepts ==
  phase = "send" /\ Len(Values(request, "user-agent")) <= 1 =>
    ParsedOK(outbound.auth) /\ VerifySignature(Wire(outbound), mapping.secret, AmzHeaders)
=============================================================================
