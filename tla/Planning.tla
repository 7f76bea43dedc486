------------------------------ MODULE Planning ------------------------------
(***************************************************************************)
(* What a request asks for (http_server/s3_operation.go): the one operation *)
(* its method, address, query and headers spell, and the rights that        *)
(* operation takes.  Whatever is not exactly one supported operation is     *)
(* refused.                                                                 *)
(*                                                                          *)
(* A request has a method, a query and headers that map each name to the    *)
(* sequence of its values, the set of headers its Connection header         *)
(* nominates, and a body or none; a name stands for all its spellings.      *)
(* Where the code treats several headers alike, one or two stand for all.   *)
(* A path is the sequence of its segments, and a segment or a bucket the    *)
(* sequence of what its dots separate; no bucket and no key are <<>>.       *)
(***************************************************************************)
EXTENDS Integers, Sequences, Rights

CONSTANTS
  Number,    \* [text |-> the integer it is read as]
  SourceOf   \* [text |-> the bucket, the key and the version of a copy source]

(***************************************************************************)
(* Headers.                                                                *)
(***************************************************************************)
CopySource == "x-amz-copy-source"
Grants == {"x-amz-grant-read", "x-amz-grant-write"}
ACLHeaders == {"x-amz-acl"} \cup Grants
Directives == {"x-amz-metadata-directive", "x-amz-tagging-directive"}
SSE == "x-amz-server-side-encryption"
CustomerKey ==
  {"x-amz-server-side-encryption-customer-algorithm", "x-amz-server-side-encryption-customer-key",
   "x-amz-server-side-encryption-customer-key-md5"}
Metadata == {"x-amz-meta-color"}
ChecksumAlgorithms == {"x-amz-sdk-checksum-algorithm", "x-amz-checksum-algorithm"}
ChecksumOf == [CRC32 |-> "x-amz-checksum-crc32", SHA256 |-> "x-amz-checksum-sha256"]
ChecksumValues == {ChecksumOf[a] : a \in DOMAIN ChecksumOf}
Unsupported == {"x-amz-object-lock-mode", "x-amz-server-side-encryption-context"}

Singletons ==
  {CopySource, SSE, "x-amz-tagging", "x-amz-storage-class", "x-amz-checksum-type"}
    \cup ACLHeaders \cup Directives \cup CustomerKey \cup Metadata
    \cup ChecksumAlgorithms \cup ChecksumValues

AmzHeaders ==
  Singletons \cup Unsupported
    \cup {"x-amz-date", "x-amz-content-sha256", "x-amz-security-token", "x-amz-trailer", "x-amz-other"}

HasHeader(r, h) == h \in DOMAIN r.headers
Values(r, h) == IF HasHeader(r, h) THEN r.headers[h] ELSE <<>>
FirstIn(r, h, accepted) == HasHeader(r, h) => r.headers[h][1] \in accepted

\* validateChecksumHeaders: the algorithms and values present agree.
ChecksumsOK(r) ==
  LET algorithms == {r.headers[h][1] : h \in ChecksumAlgorithms \cap DOMAIN r.headers}
                      \cup {a \in DOMAIN ChecksumOf : HasHeader(r, ChecksumOf[a])}
  IN  /\ algorithms \subseteq DOMAIN ChecksumOf
      /\ \A a, b \in algorithms : a = b
      /\ FirstIn(r, "x-amz-checksum-type", {"COMPOSITE", "FULL_OBJECT"})

\* validateSSECustomerHeaders: all three or none, and no other encryption.
EncryptionOK(r) ==
  CustomerKey \cap DOMAIN r.headers # {} =>
    /\ CustomerKey \subseteq DOMAIN r.headers
    /\ FirstIn(r, "x-amz-server-side-encryption-customer-algorithm", {"AES256"})
    /\ ~HasHeader(r, SSE)

\* validateOperationHeaders: what holds for every operation.
OperationHeadersOK(r) ==
  /\ Unsupported \cap DOMAIN r.headers = {}
  /\ \A h \in Singletons \cap DOMAIN r.headers : Len(r.headers[h]) = 1 /\ r.headers[h][1] # ""
  /\ FirstIn(r, SSE, {"AES256"})
  /\ FirstIn(r, "x-amz-acl", {"private", "public-read"})
  /\ HasHeader(r, "x-amz-acl") => Grants \cap DOMAIN r.headers = {}
  /\ EncryptionOK(r)
  /\ ChecksumsOK(r)
  /\ \A h \in Directives : FirstIn(r, h, {"COPY", "REPLACE"})

\* checksumHeaderAllowed.
ChecksumHeaders(kind) ==
  (IF kind \in {"PutObject", "UploadPart"} THEN {"x-amz-sdk-checksum-algorithm"} ELSE {})
    \cup (IF kind = "CreateMultipartUpload" THEN {"x-amz-checksum-algorithm"} ELSE {})
    \cup (IF kind \in {"CreateMultipartUpload", "CompleteMultipartUpload"}
          THEN {"x-amz-checksum-type"} ELSE {})
    \cup (IF kind \in {"PutObject", "UploadPart", "CompleteMultipartUpload"}
          THEN ChecksumValues ELSE {})

\* The x-amz- headers that validateHeadersForOperation admits.
AmzHeadersOf(kind) ==
  {"x-amz-date", "x-amz-content-sha256"} \cup ChecksumHeaders(kind)
    \cup (IF kind \in PutKinds \cup {"PutObjectAcl"} THEN ACLHeaders ELSE {})
    \cup (IF kind \in PutKinds
          THEN {"x-amz-tagging", "x-amz-storage-class", SSE} \cup Metadata \cup CustomerKey ELSE {})
    \cup (IF kind = "CopyObject" THEN {CopySource} \cup Directives ELSE {})

\* objectReadHeaderAllowed.
ReadKinds == {"GetObject", "GetObjectVersion", "HeadObject", "HeadObjectVersion"}
ReadHeaders(kind) == IF kind \in ReadKinds THEN {"range", "if-match"} ELSE {}

\* objectBodyHeaderAllowed.
BodyHeaders(kind) ==
  IF kind \in PutKinds \cup {"CreateBucket", "PutObjectAcl", "PutObjectTagging", "UploadPart",
                             "CompleteMultipartUpload"}
  THEN {"content-type", "content-md5"} ELSE {}

\* The headers of validateGenericHeadersForOperation that any operation may
\* have, and of them those that go no further than the proxy.
HopHeaders == {"connection", "keep-alive", "te", "trailer", "transfer-encoding", "upgrade"}
GeneralHeaders ==
  {"authorization", "accept", "accept-encoding", "user-agent", "content-length", "traceparent"}
    \cup HopHeaders

\* safeOutboundRequestHeader.
SafeOutbound(h, kind) ==
  \/ h \in AmzHeaders
  \/ h \in {"accept", "user-agent"}
  \/ h = "accept-encoding" /\ kind \in ReadKinds
  \/ h \in ReadHeaders(kind) \cup BodyHeaders(kind)

\* Connection nominates no header that the operation depends on.
NominationsOK(r, kind) ==
  \A h \in r.nominated :
    ~SafeOutbound(h, kind) /\ h \notin {"authorization", "host", "content-length"}

\* validateHeadersForOperation.
HeadersOK(r, kind) ==
  /\ NominationsOK(r, kind)
  /\ HasHeader(r, "x-amz-sdk-checksum-algorithm") => ChecksumValues \cap DOMAIN r.headers # {}
  /\ DOMAIN r.headers \subseteq
       AmzHeadersOf(kind) \cup ReadHeaders(kind) \cup BodyHeaders(kind) \cup GeneralHeaders

(***************************************************************************)
(* The operations, in the order planS3Operation tries them.                *)
(***************************************************************************)
\* A row: the method and the scope, flags without a value and parameters with
\* one that must be there, and the parameters that may be.
Row(kind, method, scope, flags, values, optional) ==
  [kind |-> kind, method |-> method, scope |-> scope, flags |-> flags, values |-> values,
   optional |-> optional]

GetParameters == {"partNumber", "response-content-type"}

Rows ==
  <<Row("ListBuckets", "GET", "service", {}, {}, {}),
    Row("CreateBucket", "PUT", "bucket", {}, {}, {}),
    Row("HeadBucket", "HEAD", "bucket", {}, {}, {}),
    Row("ListMultipartUploads", "GET", "bucket", {"uploads"}, {},
        {"delimiter", "encoding-type", "key-marker", "max-uploads", "prefix", "upload-id-marker"}),
    Row("ListObjectsV2", "GET", "bucket", {}, {"list-type"},
        {"prefix", "delimiter", "continuation-token", "fetch-owner", "max-keys", "encoding-type",
         "start-after"}),
    Row("ListObjects", "GET", "bucket", {}, {},
        {"prefix", "delimiter", "marker", "max-keys", "encoding-type"}),
    Row("ListParts", "GET", "object", {}, {"uploadId"}, {"max-parts", "part-number-marker"}),
    Row("GetObjectVersion", "GET", "object", {}, {"versionId"}, GetParameters),
    Row("GetObject", "GET", "object", {}, {}, GetParameters),
    Row("HeadObjectVersion", "HEAD", "object", {}, {"versionId"}, {"partNumber"}),
    Row("HeadObject", "HEAD", "object", {}, {}, {"partNumber"}),
    Row("CopyObject", "PUT", "object", {}, {}, {}),
    Row("PutObjectTagging", "PUT", "object", {"tagging"}, {}, {}),
    Row("PutObjectAcl", "PUT", "object", {"acl"}, {}, {}),
    Row("UploadPart", "PUT", "object", {}, {"partNumber", "uploadId"}, {}),
    Row("PutObject", "PUT", "object", {}, {}, {}),
    Row("AbortMultipartUpload", "DELETE", "object", {}, {"uploadId"}, {}),
    Row("DeleteObjectVersion", "DELETE", "object", {}, {"versionId"}, {}),
    Row("DeleteObject", "DELETE", "object", {}, {}, {}),
    Row("CreateMultipartUpload", "POST", "object", {"uploads"}, {}, {}),
    Row("CompleteMultipartUpload", "POST", "object", {}, {"uploadId"}, {})>>

\* The x-id an SDK sends with an operation does not tell versions apart.
XID(kind) ==
  CASE kind = "GetObjectVersion" -> "GetObject"
    [] kind = "HeadObjectVersion" -> "HeadObject"
    [] kind = "DeleteObjectVersion" -> "DeleteObject"
    [] OTHER -> kind

\* Mutant: parameters that the row does not list are passed over.
QueryMatchesRequired(q, row) ==
  /\ row.flags \cup row.values \subseteq DOMAIN q
  /\ \A f \in row.flags : q[f] = <<"">>
  /\ \A v \in row.values : IF v = "list-type" THEN q[v] = <<"2">> ELSE q[v] # <<"">>

\* queryMatchesWithValue.
QueryMatches(q, row) ==
  /\ row.flags \cup row.values \subseteq DOMAIN q
  /\ DOMAIN q \subseteq row.flags \cup row.values \cup row.optional \cup {"x-id"}
  /\ \A f \in row.flags : q[f] = <<"">>
  /\ \A v \in row.values : IF v = "list-type" THEN q[v] = <<"2">> ELSE q[v] # <<"">>
  /\ "x-id" \in DOMAIN q => q["x-id"] = <<XID(row.kind)>>

RowMatches(r, scope, row) ==
  /\ row.method = r.method /\ row.scope = scope
  /\ QueryMatches(r.query, row)
  /\ row.method = "PUT" => (HasHeader(r, CopySource) <=> row.kind = "CopyObject")

MatchingRows(r, scope) == {i \in DOMAIN Rows : RowMatches(r, scope, Rows[i])}

\* The first row that matches.
KindOf(r, scope) ==
  Rows[CHOOSE i \in MatchingRows(r, scope) : \A j \in MatchingRows(r, scope) : i <= j].kind

(***************************************************************************)
(* Keys, queries, copy sources, bodies.                                    *)
(***************************************************************************)
\* Segments and texts with a backslash, a control character or no UTF-8.
Empty == <<"">>
Dots == {<<"", "">>, <<"", "", "">>}
Unprintable == <<"\\">>
UnsafeTexts == {".", "..", "\\"}

\* validateVirtualObjectKey.
KeyOK(key) == \A i \in DOMAIN key : key[i] \notin Dots \cup {Unprintable}

\* validateOptionalInteger.
IntegerIn(q, name, low, high) ==
  name \in DOMAIN q => q[name][1] \in DOMAIN Number /\ Number[q[name][1]] \in low..high

\* validateQueryForOperation; a key in the query is one text here.
QueryOK(q) ==
  /\ "encoding-type" \in DOMAIN q => q["encoding-type"] = <<"url">>
  /\ "fetch-owner" \in DOMAIN q => q["fetch-owner"][1] \in {"true", "false"}
  /\ \A name \in {"prefix", "marker", "start-after", "key-marker"} \cap DOMAIN q :
       q[name][1] \notin UnsafeTexts
  /\ IntegerIn(q, "max-keys", 0, 1000) /\ IntegerIn(q, "max-uploads", 1, 1000)
  /\ IntegerIn(q, "max-parts", 0, 1000) /\ IntegerIn(q, "part-number-marker", 0, 10000)
  /\ IntegerIn(q, "partNumber", 1, 10000)

\* parseCopySource: a key of the bucket the copy goes to.
CopySourceOK(r, bucket) ==
  LET text == r.headers[CopySource][1]
  IN  /\ text \in DOMAIN SourceOf   \* readable
      /\ SourceOf[text].bucket = bucket
      /\ KeyOK(SourceOf[text].key)

\* bodyKindForOperation.
BodyKind(kind) ==
  CASE kind \in {"PutObject", "PutObjectAcl", "PutObjectTagging", "UploadPart"} -> "streaming"
    [] kind = "CreateBucket" -> "configuration"
    [] kind = "CompleteMultipartUpload" -> "parts"
    [] OTHER -> "empty"

(***************************************************************************)
(* planS3Operation.                                                        *)
(***************************************************************************)
Scope(bucket, key) ==
  IF key # <<>> THEN "object" ELSE IF bucket # <<>> THEN "bucket" ELSE "service"

PlanOK(r, bucket, key) ==
  LET scope == Scope(bucket, key)
      kind == KindOf(r, scope)
  IN  /\ KeyOK(key)
      /\ scope = "bucket" /\ Len(r.path) > 1 => r.path[Len(r.path)] # Empty
      /\ ~r.malformedQuery
      /\ \A name \in DOMAIN r.query : Len(r.query[name]) = 1
      /\ OperationHeadersOK(r)
      /\ MatchingRows(r, scope) # {}
      /\ kind = "CopyObject" => CopySourceOK(r, bucket)
      /\ HeadersOK(r, kind)
      /\ QueryOK(r.query)
      /\ BodyKind(kind) = "empty" => ~r.body

\* The operation of the plan, for its rights.
OperationOf(r, kind) ==
  [kind |-> kind,
   acl |-> ACLHeaders \cap DOMAIN r.headers # {},
   tagging |-> HasHeader(r, "x-amz-tagging"),
   sourceVersion |-> kind = "CopyObject" /\ SourceOf[r.headers[CopySource][1]].version # ""]

\* buildS3IAMWireContext: what the conditions of a policy see of a request.
ConditionHeaders ==
  ACLHeaders \cup Directives \cup {CopySource, SSE, "x-amz-storage-class", "x-amz-tagging"}

WireContext(r, kind) ==
  LET lists == kind \in {"ListObjects", "ListObjectsV2", "ListMultipartUploads"}
      listed == IF lists THEN {"delimiter", "max-keys"} \cap DOMAIN r.query ELSE {}
  IN  [prefix  |-> IF ~lists THEN <<>>
                   ELSE IF "prefix" \in DOMAIN r.query THEN r.query["prefix"] ELSE <<"">>,
       query   |-> [name \in listed |-> r.query[name]],
       headers |-> [h \in ConditionHeaders \cap DOMAIN r.headers |-> r.headers[h]]]

\* S3ResponseProfile, by the names ProxyResponse gives the profiles.
Profile(kind) ==
  CASE kind \in {"ListObjects", "ListObjectsV2"} -> "ListObjects"
    [] kind \in {"GetObject", "GetObjectVersion"} -> "object"
    [] kind \in {"ListMultipartUploads", "CreateMultipartUpload", "ListParts",
                 "CompleteMultipartUpload", "CopyObject"} -> kind
    [] OTHER -> "headers"

\* classifyS3RequestTransform.
Transform(kind) ==
  CASE kind \in {"ListBuckets", "CreateBucket", "HeadBucket"} -> "bucketRoot"
    [] kind \in {"ListObjects", "ListObjectsV2", "ListMultipartUploads"} -> "listQuery"
    [] OTHER -> "objectPath"
=============================================================================
