------------------------------- MODULE Rights -------------------------------
(***************************************************************************)
(* The rights an operation takes: the IAM checks planS3Operation lists for  *)
(* it (http_server/s3_operation.go).  Resources are told apart by what they *)
(* name: the bucket, the object, the source of a copy.                      *)
(***************************************************************************)
EXTENDS Sequences

Check(action, resource) == [action |-> action, resource |-> resource]

KindCheck ==
  [ListBuckets             |-> Check("s3:ListAllMyBuckets", "*"),
   CreateBucket            |-> Check("s3:CreateBucket", "bucket"),
   HeadBucket              |-> Check("s3:ListBucket", "bucket"),
   ListMultipartUploads    |-> Check("s3:ListBucketMultipartUploads", "bucket"),
   ListObjectsV2           |-> Check("s3:ListBucket", "bucket"),
   ListObjects             |-> Check("s3:ListBucket", "bucket"),
   ListParts               |-> Check("s3:ListMultipartUploadParts", "object"),
   GetObjectVersion        |-> Check("s3:GetObjectVersion", "object"),
   GetObject               |-> Check("s3:GetObject", "object"),
   HeadObjectVersion       |-> Check("s3:GetObjectVersion", "object"),
   HeadObject              |-> Check("s3:GetObject", "object"),
   CopyObject              |-> Check("s3:PutObject", "object"),
   PutObjectTagging        |-> Check("s3:PutObjectTagging", "object"),
   PutObjectAcl            |-> Check("s3:PutObjectAcl", "object"),
   UploadPart              |-> Check("s3:PutObject", "object"),
   PutObject               |-> Check("s3:PutObject", "object"),
   AbortMultipartUpload    |-> Check("s3:AbortMultipartUpload", "object"),
   DeleteObjectVersion     |-> Check("s3:DeleteObjectVersion", "object"),
   DeleteObject            |-> Check("s3:DeleteObject", "object"),
   CreateMultipartUpload   |-> Check("s3:PutObject", "object"),
   CompleteMultipartUpload |-> Check("s3:PutObject", "object")]

PutKinds == {"PutObject", "CopyObject", "CreateMultipartUpload"}

\* An accepted request: its kind, whether it has ACL headers and a tagging
\* header, and whether its copy source names a version.
Operations ==
  {o \in [kind: DOMAIN KindCheck, acl: BOOLEAN, tagging: BOOLEAN, sourceVersion: BOOLEAN] :
     /\ o.acl => o.kind \in PutKinds \cup {"PutObjectAcl"}
     /\ o.tagging => o.kind \in PutKinds
     /\ o.sourceVersion => o.kind = "CopyObject"}

If(condition, checks) == IF condition THEN checks ELSE <<>>

\* copySourceAction.
SourceCheck(o) ==
  Check(IF o.sourceVersion THEN "s3:GetObjectVersion" ELSE "s3:GetObject", "source")

\* appendPutHeaderChecks.
PutHeaderChecks(o) ==
  If(o.kind \in PutKinds /\ o.acl, <<Check("s3:PutObjectAcl", "object")>>)
    \o If(o.kind \in PutKinds /\ o.tagging, <<Check("s3:PutObjectTagging", "object")>>)

IAMChecks(o) ==
  <<KindCheck[o.kind]>> \o If(o.kind = "CopyObject", <<SourceCheck(o)>>) \o PutHeaderChecks(o)
=============================================================================
