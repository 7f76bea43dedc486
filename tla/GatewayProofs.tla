---------------------------- MODULE GatewayProofs ----------------------------
(***************************************************************************)
(* Proofs about the way of a request through the proxy, for all clients,    *)
(* mappings and base hosts: what is sent is what the client signed and the  *)
(* policy granted, and the real S3 accepts it.                              *)
(***************************************************************************)
EXTENDS Gateway, TLAPS

(***************************************************************************)
(* The inductive invariant: what is known of a request in each phase.      *)
(***************************************************************************)
Incoming == {"authenticate", "resolve", "authorize", "forward", "send"}

address == ResolveBucket(request)

\* What planS3Operation has accepted, and the plan it has made of it.
PlannedInv ==
  LET kind == KindOf(request, Scope(address.bucket, address.key))
  IN  /\ PlanOK(request, address.bucket, address.key)
      /\ planned = [kind |-> kind, bucket |-> address.bucket, key |-> address.key,
                    checks |-> IAMChecks(OperationOf(request, kind)),
                    context |-> WireContext(request, kind)]

RequestInv ==
  /\ phase \in Incoming => made \in Made /\ request \in Arriving(made)
  /\ phase \in Incoming \ {"authenticate"} => Authenticated(request)
  /\ phase \in {"authorize", "forward", "send"} => PlannedInv
  /\ phase \in {"forward", "send"} =>
       planned.kind \notin {"CreateBucket", "ListBuckets"} /\ planned.bucket \in DOMAIN Mappings
  /\ phase = "send" =>
       /\ outbound = Outbound
       /\ planned.kind = "CopyObject" => SourceVersionOK

\* A response never goes back to the request.
LEMMA RespondLeaves == ASSUME ResponseNext PROVE phase' \notin Incoming
<1>1. ASSUME NEW n \in Names,
             RefuseElement(n) \/ SkipElement(n) \/ OpenElement(n) \/ WriteIdentity(n)
               \/ RewriteField(n)
      PROVE  phase' \notin Incoming
  BY <1>1 DEF RefuseElement, SkipElement, OpenElement, WriteIdentity, RewriteField, AtElement, Fail,
              WriteError, Abort, response, Incoming
<1>2. CASE CloseElement \/ CharData \/ BreakDocument \/ EndDocument
  BY <1>2 DEF CloseElement, CharData, BreakDocument, EndDocument, Fail, WriteError, Abort, Incoming
<1>3. CASE ~Token
  BY <1>3 DEF ResponseNext, RefuseLocally, Answer, Redirect, WriteHeadOnly, WriteUpstreamError,
              StartObject, EndObject, BreakObject, StartListing, ReadBounded, Fail, WriteError, Abort,
              Incoming
<1> QED BY <1>1, <1>2, <1>3 DEF Token

\* What the plan rests on does not change.
LEMMA PlannedKept == ASSUME PlannedInv, UNCHANGED <<request, planned>> PROVE PlannedInv'
BY DEF PlannedInv, address

LEMMA OutboundKept ==
  ASSUME UNCHANGED <<request, planned>>
  PROVE  Outbound' = Outbound /\ SourceVersionOK' = SourceVersionOK
BY DEF Outbound, Signed, WithCopySource, Unsigned, mapping, RewriteQuery, BuildCopySource, Source,
       SourceVersionOK

\* Every step keeps the invariant.
LEMMA RequestHolds == RequestInv /\ [GatewayNext]_<<response, gateway>> => RequestInv'
<1> SUFFICES ASSUME RequestInv, [GatewayNext]_<<response, gateway>>
             PROVE  RequestInv'
  OBVIOUS
<1>1. CASE phase' \notin Incoming
  BY <1>1 DEF RequestInv, Incoming
<1>2. CASE UNCHANGED <<response, gateway>>
  <2>1. UNCHANGED <<phase, made, request, planned, outbound>>
    BY <1>2 DEF response, gateway
  <2>2. Outbound' = Outbound /\ SourceVersionOK' = SourceVersionOK
    BY <2>1, OutboundKept
  <2> QED BY <2>1, <2>2, PlannedKept DEF RequestInv
<1>3. CASE Authenticate /\ phase' \in Incoming
  BY <1>3 DEF Authenticate, Refuse, WriteError, RequestInv, Incoming, gateway
<1>4. CASE PlanRequest /\ phase' \in Incoming
  <2>1. /\ phase = "resolve" /\ phase' = "authorize" /\ UNCHANGED <<made, request>>
        /\ PlannedInv'
    BY <1>4 DEF PlanRequest, Refuse, WriteError, Incoming, PlannedInv, address
  <2> QED BY <2>1 DEF RequestInv, Incoming
<1>5. CASE Dispatch /\ phase' \in Incoming
  <2>1. /\ phase = "authorize" /\ phase' = "forward" /\ UNCHANGED <<made, request, planned>>
        /\ planned.kind \notin {"CreateBucket", "ListBuckets"} /\ planned.bucket \in DOMAIN Mappings
    BY <1>5 DEF Dispatch, Refuse, WriteError, Incoming, gateway
  <2>2. PlannedInv'
    BY <2>1, PlannedKept DEF RequestInv
  <2> QED BY <2>1, <2>2 DEF RequestInv, Incoming
<1>6. CASE Forward /\ phase' \in Incoming
  <2>1. /\ phase = "forward" /\ phase' = "send" /\ UNCHANGED <<made, request, planned>>
        /\ outbound' = Outbound /\ (planned.kind = "CopyObject" => SourceVersionOK)
    BY <1>6 DEF Forward, Refuse, WriteError, Incoming
  <2>2. PlannedInv'
    BY <2>1, PlannedKept DEF RequestInv
  <2>3. Outbound' = Outbound /\ SourceVersionOK' = SourceVersionOK
    BY <2>1, OutboundKept
  <2> QED BY <2>1, <2>2, <2>3 DEF RequestInv, Incoming
<1>7. CASE (Deny \/ Send) /\ phase' \in Incoming
  BY <1>7 DEF Deny, Send, Refuse, WriteError, Incoming
<1> QED BY <1>1, <1>2, <1>3, <1>4, <1>5, <1>6, <1>7, RespondLeaves DEF GatewayNext, Respond

\* A request that is sent was authenticated and planned, and what is sent was made
\* of it.
THEOREM RequestInvariant == GatewaySpec => []RequestInv
<1>1. GatewayInit => RequestInv
  BY DEF GatewayInit, RequestInv, Incoming
<1> QED BY <1>1, RequestHolds, PTL DEF GatewaySpec

(***************************************************************************)
(* Sequences.                                                              *)
(***************************************************************************)
LEMMA SeqLength ==
  ASSUME NEW S, NEW s \in Seq(S)
  PROVE  /\ Len(s) \in Nat /\ DOMAIN s = 1..Len(s)
         /\ s # <<>> => Len(s) \in Nat \ {0}
OBVIOUS

LEMMA OneValue ==
  ASSUME NEW S, NEW s \in Seq(S), s # <<>>, Len(s) <= 1
  PROVE  s = <<s[1]>>
<1>1. Len(s) \in Nat \ {0}
  BY SeqLength, Zenon
<1>2. Len(s) = 1
  BY <1>1
<1>3. <<s[1]>> \in Seq(S) /\ Len(<<s[1]>>) = 1
  BY <1>2
<1> QED BY <1>2, <1>3

\* The two parts of a sequence.
LEMMA ConcatParts ==
  ASSUME NEW S, NEW s \in Seq(S), NEW t \in Seq(S)
  PROVE  /\ s \o t \in Seq(S) /\ Len(s \o t) = Len(s) + Len(t)
         /\ SubSeq(s \o t, 1, Len(s)) = s
         /\ SubSeq(s \o t, Len(s) + 1, Len(s \o t)) = t
         /\ s = <<>> => s \o t = t
         /\ s # <<>> => s \o t # t
OBVIOUS

\* The first element and the rest.
LEMMA FirstAndRest ==
  ASSUME NEW S, NEW e, NEW s \in Seq(S)
  PROVE  /\ (<<e>> \o s)[1] = e /\ Tail(<<e>> \o s) = s
         /\ Len(<<e>> \o s) = Len(s) + 1
         /\ s # <<>> => (<<e>> \o s)[Len(s) + 1] = s[Len(s)]
<1>1. s \in Seq(S \cup {e}) /\ <<e>> \in Seq(S \cup {e})
  OBVIOUS
<1> QED BY <1>1

(***************************************************************************)
(* Signatures.                                                             *)
(***************************************************************************)
SigningHeaders == {"x-amz-date", "x-amz-content-sha256"}

\* What signRequest changes of a request.
SignedAs(s, r, key, secret, region) ==
  /\ DOMAIN s = Fields
  /\ \A f \in Fields \ {"headers", "auth"} : s[f] = r[f]
  /\ DOMAIN s.headers = DOMAIN r.headers \cup SigningHeaders
  /\ \A h \in DOMAIN r.headers \ SigningHeaders : s.headers[h] = r.headers[h]
  /\ s.headers["x-amz-date"] = <<Now>>
  /\ s.headers["x-amz-content-sha256"] = <<UnsignedPayload>>
  /\ s.auth = Authorization(s, key, secret, region, Now, {"host"} \cup DOMAIN s.headers)

LEMMA SignShape ==
  ASSUME NEW r, DOMAIN r = Fields, NEW key, NEW secret, NEW region
  PROVE  SignedAs(SignRequest(r, key, secret, region), r, key, secret, region)
<1> DEFINE t == Stamped(r, Now)
           a == Authorization(t, key, secret, region, Now, {"host"} \cup DOMAIN t.headers)
           s == [t EXCEPT !.auth = a]
<1>1. /\ DOMAIN t = Fields
      /\ \A f \in Fields \ {"headers"} : t[f] = r[f]
      /\ DOMAIN t.headers = DOMAIN r.headers \cup SigningHeaders
      /\ \A h \in DOMAIN r.headers \ SigningHeaders : t.headers[h] = r.headers[h]
      /\ t.headers["x-amz-date"] = <<Now>>
      /\ t.headers["x-amz-content-sha256"] = <<UnsignedPayload>>
  BY DEF Stamped, Fields, SigningHeaders
<1> HIDE DEF t, a
<1>2. /\ DOMAIN s = Fields /\ s.auth = a
      /\ \A f \in Fields \ {"auth"} : s[f] = t[f]
  BY <1>1 DEF Fields
<1>3. s.headers = t.headers /\ s.method = t.method /\ s.path = t.path /\ s.query = t.query
      /\ s.host = t.host
  BY <1>2 DEF Fields
<1>4. \A h : CanonicalValues(s, h) = CanonicalValues(t, h)
  BY <1>3 DEF CanonicalValues, HeaderValues
<1>5. CanonicalRequest(s, {"host"} \cup DOMAIN s.headers) = CanonicalRequest(t, {"host"} \cup DOMAIN t.headers)
  BY <1>3, <1>4 DEF CanonicalRequest
<1>6. a = Authorization(s, key, secret, region, Now, {"host"} \cup DOMAIN s.headers)
  BY <1>3, <1>5 DEF a, Authorization
<1>7. \A f \in Fields \ {"headers", "auth"} : s[f] = r[f]
  BY <1>1, <1>2
<1>8. SignRequest(r, key, secret, region) = s
  BY DEF SignRequest, t, a
<1> HIDE DEF s
<1> QED BY <1>1, <1>2, <1>3, <1>6, <1>7, <1>8 DEF SignedAs

\* A request as net/http sends it verifies if it was signed as it is, but for a
\* User-Agent that was not there.
LEMMA SentVerifies ==
  ASSUME NEW r, DOMAIN r = Fields, NEW key, NEW secret, NEW region,
         {"x-amz-security-token", "x-amz-trailer"} \cap DOMAIN r.headers = {}, r.trailer = {},
         "user-agent" \in DOMAIN r.headers =>
           r.headers["user-agent"] = <<r.headers["user-agent"][1]>>
  PROVE  LET s == SignRequest(r, key, secret, region)
         IN  ParsedOK(s.auth) /\ VerifySignature(Wire(s), secret, AmzHeaders)
<1> DEFINE s == SignRequest(r, key, secret, region)
           w == Wire(s)
           signed == {"host"} \cup DOMAIN s.headers
<1>1. SignedAs(s, r, key, secret, region)
  BY SignShape
<1> HIDE DEF s
<1>2. /\ DOMAIN w.headers = DOMAIN s.headers \cup {"user-agent"}
      /\ \A h \in DOMAIN s.headers : w.headers[h] = s.headers[h]
      /\ w.method = s.method /\ w.path = s.path /\ w.query = s.query /\ w.host = s.host
      /\ w.auth = s.auth /\ w.trailer = s.trailer
  <2>1. /\ w.headers = [h \in DOMAIN s.headers \cup {"user-agent"} |->
                         IF h # "user-agent" THEN s.headers[h]
                         ELSE IF HasHeader(s, h) THEN <<s.headers[h][1]>> ELSE <<"Go">>]
        /\ w.method = s.method /\ w.path = s.path /\ w.query = s.query /\ w.host = s.host
        /\ w.auth = s.auth /\ w.trailer = s.trailer
    BY <1>1 DEF SignedAs, Wire, Fields
  <2>2. "user-agent" \in DOMAIN s.headers => s.headers["user-agent"] = <<s.headers["user-agent"][1]>>
    BY <1>1 DEF SignedAs, SigningHeaders
  <2> HIDE DEF w
  <2> QED BY <2>1, <2>2 DEF HasHeader
<1> HIDE DEF w
<1>3. \A h \in signed : CanonicalValues(w, h) = CanonicalValues(s, h)
  BY <1>2 DEF CanonicalValues, HeaderValues
<1>4. CanonicalValues(w, "x-amz-content-sha256") = CanonicalValues(s, "x-amz-content-sha256")
  BY <1>1, <1>3 DEF SignedAs, SigningHeaders
<1>5. CanonicalRequest(w, signed) = CanonicalRequest(s, signed)
  BY <1>2, <1>3, <1>4 DEF CanonicalRequest
<1>6. /\ s.auth.form = "wellFormed" /\ s.auth.signedHeaders = signed
      /\ s.auth.scope = [day |-> DateOf[Now].day, region |-> region, service |-> "s3"]
      /\ s.auth.signature = Signature(secret, Now, s.auth.scope, CanonicalRequest(s, signed))
  BY <1>1 DEF SignedAs, Authorization
<1>7. ParsedOK(s.auth)
  BY <1>1, <1>6 DEF SignedAs, ParsedOK, SigningHeaders
<1>8. /\ HeaderValues(w, "x-amz-date") = <<Now>>
      /\ HeaderValues(w, "x-amz-content-sha256") = <<UnsignedPayload>>
  BY <1>1, <1>2 DEF SignedAs, HeaderValues, SigningHeaders
<1>9. {"x-amz-security-token", "x-amz-trailer"} \cap DOMAIN w.headers = {} /\ w.trailer = {}
  BY <1>1, <1>2 DEF SignedAs, SigningHeaders, Fields
<1>10. AmzHeadersSigned(w, AmzHeaders)
  <2>1. "user-agent" \notin AmzHeaders
    BY DEF AmzHeaders, Singletons, Unsupported, CopySource, SSE, ACLHeaders, Grants, Directives,
           CustomerKey, Metadata, ChecksumAlgorithms, ChecksumValues, ChecksumOf
  <2> QED BY <1>2, <1>6, <2>1 DEF AmzHeadersSigned
<1>11. ~Skewed(Now)
  BY ClockAssumption DEF Skewed
<1>12. VerifySignature(w, secret, AmzHeaders)
  <2>1. <<Now>>[1] = Now /\ Len(<<Now>>) = 1
    OBVIOUS
  <2> QED BY <1>2, <1>5, <1>6, <1>8, <1>9, <1>10, <1>11, <2>1, ClockAssumption DEF VerifySignature
<1> QED BY <1>7, <1>12 DEF w, s

(***************************************************************************)
(* What is sent.                                                           *)
(***************************************************************************)
Sending == RequestInv /\ phase = "send"

\* What is known of a request when it is sent.
LEMMA Arrived ==
  ASSUME Sending
  PROVE  /\ made \in Made /\ request \in Arriving(made)
         /\ WellFormed(request) /\ Authenticated(request)
         /\ PlanOK(request, planned.bucket, planned.key)
         /\ planned.kind = KindOf(request, Scope(planned.bucket, planned.key))
         /\ planned.bucket = ResolveBucket(request).bucket
         /\ planned.key = ResolveBucket(request).key
         /\ planned.checks = IAMChecks(OperationOf(request, planned.kind))
         /\ planned.context = WireContext(request, planned.kind)
<1>1. made \in Made /\ request \in Arriving(made) /\ Authenticated(request) /\ PlannedInv
  BY DEF Sending, RequestInv, Incoming
<1>2. WellFormed(request)
  BY <1>1, ClientAssumption
<1> QED BY <1>1, <1>2 DEF PlannedInv, address

\* The headers of the request that go on.
Kept ==
  {h \in DOMAIN request.headers \ (HopHeaders \cup request.nominated \cup SigningHeaders) :
     SafeOutbound(h, planned.kind)}

Copied == IF planned.kind = "CopyObject" THEN {CopySource} ELSE {}

\* What the proxy signs.
LEMMA UnsignedShape ==
  ASSUME WellFormed(request)
  PROVE  LET u == WithCopySource(Unsigned)
         IN  /\ DOMAIN u = Fields
             /\ \A f \in Fields \ {"host", "path", "query", "headers", "nominated", "trailer"} : u[f] = request[f]
             /\ u.host = Unsigned.host /\ u.path = Unsigned.path /\ u.trailer = {}
             /\ u.query = RewriteQuery(request.query, planned.kind)
             /\ DOMAIN u.headers = Kept \cup Copied
             /\ \A h \in Kept \ Copied : u.headers[h] = request.headers[h]
             /\ \A h \in Copied : u.headers[h] = <<BuildCopySource>>
<1> DEFINE v == Unsigned
<1>1. /\ DOMAIN v = Fields
      /\ \A f \in Fields \ {"host", "path", "query", "headers", "nominated", "trailer"} : v[f] = request[f]
      /\ v.query = RewriteQuery(request.query, planned.kind)
      /\ v.headers = CopyHeaders(request, planned.kind) /\ v.trailer = {}
  BY DEF WellFormed, Unsigned, Fields
<1>2. DOMAIN v.headers = Kept /\ \A h \in Kept : v.headers[h] = request.headers[h]
  BY <1>1 DEF CopyHeaders, Kept, SigningHeaders
<1> HIDE DEF v
<1>3. CASE planned.kind # "CopyObject"
  <2>1. WithCopySource(v) = v /\ Copied = {}
    BY <1>3 DEF WithCopySource, Copied
  <2> QED BY <1>1, <1>2, <2>1 DEF v
<1>4. CASE planned.kind = "CopyObject"
  <2> DEFINE u == WithCopySource(v)
  <2>1. Copied = {CopySource}
    BY <1>4 DEF Copied
  <2>2. /\ DOMAIN u = Fields
        /\ \A f \in Fields \ {"headers"} : u[f] = v[f]
        /\ u.headers = [h \in DOMAIN v.headers \cup {CopySource} |->
                          IF h = CopySource THEN <<BuildCopySource>> ELSE v.headers[h]]
    BY <1>1, <1>4 DEF WithCopySource, Fields
  <2>3. u.host = v.host /\ u.path = v.path /\ u.query = v.query /\ u.trailer = v.trailer
    BY <2>2 DEF Fields
  <2>4. \A f \in Fields \ {"host", "path", "query", "headers", "nominated", "trailer"} : u[f] = request[f]
    BY <1>1, <2>2
  <2>5. /\ DOMAIN u.headers = Kept \cup Copied
        /\ \A h \in Kept \ Copied : u.headers[h] = request.headers[h]
        /\ \A h \in Copied : u.headers[h] = <<BuildCopySource>>
    BY <1>2, <2>1, <2>2
  <2> HIDE DEF u
  <2> QED BY <1>1, <2>2, <2>3, <2>4, <2>5 DEF u, v
<1> QED BY <1>3, <1>4

(***************************************************************************)
(* The tables of headers.                                                  *)
(***************************************************************************)
Admitted(kind) == AmzHeadersOf(kind) \cup ReadHeaders(kind) \cup BodyHeaders(kind) \cup GeneralHeaders

\* The headers that take a right of their own, by the operations that may have them.
LEMMA AdmittedHeaders ==
  ASSUME NEW kind
  PROVE  /\ {"x-amz-security-token", "x-amz-trailer"} \cap Admitted(kind) = {}
         /\ CopySource \in Admitted(kind) => kind = "CopyObject"
         /\ ACLHeaders \cap Admitted(kind) # {} => kind \in PutKinds \cup {"PutObjectAcl"}
         /\ "x-amz-tagging" \in Admitted(kind) => kind \in PutKinds
<1> USE DEF Admitted, AmzHeadersOf, ChecksumHeaders, ReadHeaders, BodyHeaders, GeneralHeaders, HopHeaders,
            CopySource, ACLHeaders, Grants, SSE, Metadata, CustomerKey, Directives, ChecksumValues,
            ChecksumOf
<1>1. {"x-amz-security-token", "x-amz-trailer"} \cap Admitted(kind) = {}
  OBVIOUS
<1>2. CopySource \in Admitted(kind) => kind = "CopyObject"
  OBVIOUS
<1>3. ACLHeaders \cap Admitted(kind) # {} => kind \in PutKinds \cup {"PutObjectAcl"}
  OBVIOUS
<1>4. "x-amz-tagging" \in Admitted(kind) => kind \in PutKinds
  OBVIOUS
<1> QED BY <1>1, <1>2, <1>3, <1>4

\* The x-amz- headers are no headers of the hop.
LEMMA AmzHeadersGoOn == AmzHeaders \cap HopHeaders = {} /\ "user-agent" \notin AmzHeaders
BY DEF AmzHeaders, HopHeaders, Singletons, Unsupported, CopySource, SSE, ACLHeaders, Grants, Directives,
       CustomerKey, Metadata, ChecksumAlgorithms, ChecksumValues, ChecksumOf

\* What PlanOK says of the headers.
LEMMA HeadersAdmitted ==
  ASSUME Sending
  PROVE  DOMAIN request.headers \subseteq Admitted(planned.kind) /\ NominationsOK(request, planned.kind)
<1>1. HeadersOK(request, planned.kind)
  BY Arrived DEF PlanOK
<1> QED BY <1>1 DEF HeadersOK, Admitted

\* Every x-amz- header of the request goes on but those signRequest sets.
LEMMA AmzHeadersKept ==
  ASSUME Sending
  PROVE  (DOMAIN request.headers \cap AmzHeaders) \ SigningHeaders \subseteq Kept
<1> SUFFICES ASSUME NEW h \in (DOMAIN request.headers \cap AmzHeaders) \ SigningHeaders
             PROVE  h \in Kept
  OBVIOUS
<1>1. SafeOutbound(h, planned.kind)
  BY DEF SafeOutbound
<1>2. h \notin HopHeaders \cup request.nominated
  BY <1>1, HeadersAdmitted, AmzHeadersGoOn DEF NominationsOK
<1> QED BY <1>1, <1>2 DEF Kept

(***************************************************************************)
(* The real S3 accepts the signature.                                      *)
(***************************************************************************)
LEMMA SendingAccepted == ASSUME Sending PROVE UpstreamAccepts
<1> SUFFICES ASSUME Len(Values(request, "user-agent")) <= 1
             PROVE  ParsedOK(outbound.auth) /\ VerifySignature(Wire(outbound), mapping.secret, AmzHeaders)
  BY DEF UpstreamAccepts
<1> DEFINE u == WithCopySource(Unsigned)
<1>1. WellFormed(request)
  BY Arrived
<1>2. /\ DOMAIN u = Fields /\ u.trailer = {}
      /\ DOMAIN u.headers = Kept \cup Copied
      /\ \A h \in Kept \ Copied : u.headers[h] = request.headers[h]
  BY <1>1, UnsignedShape
<1>3. outbound = SignRequest(u, mapping.accessKey, mapping.secret, mapping.region)
  BY DEF Sending, RequestInv, Outbound, Signed
<1> HIDE DEF u
<1>4. {"x-amz-security-token", "x-amz-trailer"} \cap DOMAIN u.headers = {}
  <2>1. Kept \subseteq Admitted(planned.kind)
    BY HeadersAdmitted DEF Kept
  <2> QED BY <1>2, <2>1, AdmittedHeaders DEF Copied, CopySource
<1>5. ASSUME "user-agent" \in DOMAIN u.headers
      PROVE  u.headers["user-agent"] = <<u.headers["user-agent"][1]>>
  <2>1. "user-agent" \in Kept \ Copied
    BY <1>2, <1>5 DEF Copied, CopySource
  <2>2. /\ u.headers["user-agent"] = request.headers["user-agent"]
        /\ request.headers["user-agent"] \in Seq(STRING) \ {<<>>}
        /\ Len(request.headers["user-agent"]) <= 1
    BY <1>1, <1>2, <2>1 DEF Kept, WellFormed, Values, HasHeader
  <2> QED BY <2>2, OneValue
<1> QED BY <1>2, <1>3, <1>4, <1>5, SentVerifies

\* The real S3 accepts the signature of whatever the proxy sends, for all requests
\* and mappings (signRequest, copyOutboundRequestHeaders).
THEOREM UpstreamAlwaysAccepts == GatewaySpec => []UpstreamAccepts
<1>1. RequestInv => UpstreamAccepts
  BY SendingAccepted DEF Sending, UpstreamAccepts
<1> QED BY <1>1, RequestInvariant, PTL

(***************************************************************************)
(* The rows of planS3Operation.                                            *)
(***************************************************************************)
LEMMA RowCount == DOMAIN Rows = 1..21
BY DEF Rows

\* One of several rows is the first.
LEMMA LeastRow ==
  ASSUME NEW T, T \subseteq 1..21, T # {}
  PROVE  \E x \in T : \A y \in T : x <= y
<1> SUFFICES ASSUME \A x \in T : \E y \in T : y < x
             PROVE  FALSE
  OBVIOUS
<1>1. \A x \in T : x > 3
  OBVIOUS
<1>2. \A x \in T : x > 6
  BY <1>1
<1>3. \A x \in T : x > 9
  BY <1>2
<1>4. \A x \in T : x > 12
  BY <1>3
<1>5. \A x \in T : x > 15
  BY <1>4
<1>6. \A x \in T : x > 18
  BY <1>5
<1>7. \A x \in T : x > 21
  BY <1>6
<1>8. PICK x \in T : TRUE
  OBVIOUS
<1> QED BY <1>7, <1>8

\* The operation of a plan is that of a row that matches the request.
LEMMA KindOfRow ==
  ASSUME NEW r, NEW scope, MatchingRows(r, scope) # {}
  PROVE  \E i \in DOMAIN Rows : RowMatches(r, scope, Rows[i]) /\ KindOf(r, scope) = Rows[i].kind
<1> DEFINE T == MatchingRows(r, scope)
<1>1. T \subseteq 1..21 /\ T # {}
  BY RowCount DEF MatchingRows
<1>2. PICK x \in T : \A y \in T : x <= y
  <2> HIDE DEF T
  <2> QED BY <1>1, LeastRow
<1> DEFINE c == CHOOSE i \in T : \A j \in T : i <= j
<1>3. c \in T
  BY <1>2
<1> HIDE DEF c
<1>4. c \in DOMAIN Rows /\ RowMatches(r, scope, Rows[c])
  BY <1>3 DEF MatchingRows
<1>5. KindOf(r, scope) = Rows[c].kind
  BY DEF KindOf, c
<1> QED BY <1>4, <1>5

\* CopyObject is a PUT; every operation takes a right.
LEMMA RowKinds ==
  \A i \in DOMAIN Rows :
    /\ Rows[i].kind \in DOMAIN KindCheck
    /\ Rows[i].kind = "CopyObject" => Rows[i].method = "PUT"
<1> SUFFICES ASSUME NEW i \in 1..21
             PROVE  /\ Rows[i].kind \in DOMAIN KindCheck
                    /\ Rows[i].kind = "CopyObject" => Rows[i].method = "PUT"
  BY RowCount
<1>1. Rows[i].kind \in DOMAIN KindCheck
  BY SMTT(30) DEF Rows, Row, KindCheck
<1>2. Rows[i].kind = "CopyObject" => Rows[i].method = "PUT"
  BY SMTT(30) DEF Rows, Row
<1> QED BY <1>1, <1>2

\* A request has a copy source exactly when it is planned as a copy.
LEMMA CopyHasSource ==
  ASSUME Sending
  PROVE  /\ HasHeader(request, CopySource) <=> planned.kind = "CopyObject"
         /\ planned.kind \in DOMAIN KindCheck
<1> DEFINE scope == Scope(planned.bucket, planned.key)
<1>1. MatchingRows(request, scope) # {} /\ planned.kind = KindOf(request, scope)
  BY Arrived DEF PlanOK
<1>2. PICK i \in DOMAIN Rows : RowMatches(request, scope, Rows[i]) /\ planned.kind = Rows[i].kind
  <2> HIDE DEF scope
  <2> QED BY <1>1, KindOfRow
<1>3. planned.kind = "CopyObject" => HasHeader(request, CopySource)
  BY <1>2, RowKinds DEF RowMatches
<1>4. HasHeader(request, CopySource) => planned.kind = "CopyObject"
  BY HeadersAdmitted, AdmittedHeaders DEF HasHeader
<1> QED BY <1>2, <1>3, <1>4, RowKinds

(***************************************************************************)
(* What arrives is what was signed.                                        *)
(***************************************************************************)
\* A request that is sent has the method, the address and the query the client
\* signed, and its signed headers read as they did.
LEMMA AsSigned ==
  ASSUME Sending
  PROVE  /\ request.method = made.method /\ request.host = made.host
         /\ request.path = made.path /\ request.query = made.query
         /\ request.auth.signedHeaders = made.auth.signedHeaders
         /\ \A h \in made.auth.signedHeaders : CanonicalValues(request, h) = CanonicalValues(made, h)
         /\ AmzHeadersSigned(request, AmzHeaders) /\ AmzHeadersSigned(made, AmzHeaders)
<1> DEFINE c == CanonicalRequest(request, request.auth.signedHeaders)
           d == CanonicalRequest(made, made.auth.signedHeaders)
<1>1. made \in Made /\ request \in Arriving(made) /\ Authenticated(request)
  BY Arrived
<1>2. /\ request.auth.signature = made.auth.signature /\ AmzHeadersSigned(made, AmzHeaders)
      /\ made.auth.signature.canonical = d
  BY <1>1, ClientAssumption
<1>3. PICK secret, datetime, scope :
        request.auth.signature = Signature(secret, datetime, scope, c)
  BY <1>1 DEF Authenticated, VerifySignature
<1>4. request.auth.signature.canonical = c
  BY <1>3 DEF Signature
<1>5. c = d
  BY <1>2, <1>4
<1>6. /\ c.method = request.method /\ c.path = request.path /\ c.query = request.query
      /\ c.headers = [h \in request.auth.signedHeaders |-> CanonicalValues(request, h)]
  BY DEF CanonicalRequest
<1>7. /\ d.method = made.method /\ d.path = made.path /\ d.query = made.query
      /\ d.headers = [h \in made.auth.signedHeaders |-> CanonicalValues(made, h)]
  BY DEF CanonicalRequest
<1> HIDE DEF c, d
<1>8. request.auth.signedHeaders = made.auth.signedHeaders
  <2>1. DOMAIN c.headers = request.auth.signedHeaders
    BY <1>6
  <2>2. DOMAIN d.headers = made.auth.signedHeaders
    BY <1>7
  <2> QED BY <1>5, <2>1, <2>2
<1>9. ASSUME NEW h \in made.auth.signedHeaders
      PROVE  CanonicalValues(request, h) = CanonicalValues(made, h)
  <2>1. c.headers[h] = CanonicalValues(request, h)
    BY <1>6, <1>8
  <2>2. d.headers[h] = CanonicalValues(made, h)
    BY <1>7
  <2> QED BY <1>5, <2>1, <2>2
<1>10. "host" \in request.auth.signedHeaders /\ AmzHeadersSigned(request, AmzHeaders)
  BY <1>1 DEF Authenticated, ParsedOK, VerifySignature
<1>11. request.host = made.host
  BY <1>8, <1>9, <1>10 DEF CanonicalValues
<1>12. request.method = made.method /\ request.path = made.path /\ request.query = made.query
  BY <1>5, <1>6, <1>7
<1> QED BY <1>2, <1>8, <1>9, <1>10, <1>11, <1>12

\* The request that is sent, header by header.
LEMMA SentHeaders ==
  ASSUME Sending
  PROVE  /\ outbound.method = request.method
         /\ outbound.host = Unsigned.host /\ outbound.path = Unsigned.path
         /\ outbound.query = RewriteQuery(request.query, planned.kind)
         /\ DOMAIN outbound.headers = Kept \cup Copied \cup SigningHeaders
         /\ \A h \in Kept \ Copied : outbound.headers[h] = request.headers[h]
         /\ \A h \in Copied : outbound.headers[h] = <<BuildCopySource>>
<1> DEFINE u == WithCopySource(Unsigned)
<1>1. WellFormed(request)
  BY Arrived
<1>2. /\ DOMAIN u = Fields
      /\ \A f \in Fields \ {"host", "path", "query", "headers", "nominated", "trailer"} : u[f] = request[f]
      /\ u.host = Unsigned.host /\ u.path = Unsigned.path
      /\ u.query = RewriteQuery(request.query, planned.kind)
      /\ DOMAIN u.headers = Kept \cup Copied
      /\ \A h \in Kept \ Copied : u.headers[h] = request.headers[h]
      /\ \A h \in Copied : u.headers[h] = <<BuildCopySource>>
  BY <1>1, UnsignedShape
<1>3. outbound = SignRequest(u, mapping.accessKey, mapping.secret, mapping.region)
  BY DEF Sending, RequestInv, Outbound, Signed
<1> HIDE DEF u
<1>4. SignedAs(outbound, u, mapping.accessKey, mapping.secret, mapping.region)
  BY <1>2, <1>3, SignShape
<1>5. /\ outbound.method = u.method /\ outbound.host = u.host /\ outbound.path = u.path
      /\ outbound.query = u.query /\ u.method = request.method
  BY <1>2, <1>4 DEF SignedAs, Fields
<1>6. /\ DOMAIN outbound.headers = Kept \cup Copied \cup SigningHeaders
      /\ \A h \in (Kept \cup Copied) \ SigningHeaders : outbound.headers[h] = u.headers[h]
  BY <1>2, <1>4 DEF SignedAs
<1>7. Kept \cap SigningHeaders = {} /\ Copied \cap SigningHeaders = {}
  BY DEF Kept, Copied, CopySource, SigningHeaders
<1> QED BY <1>2, <1>5, <1>6, <1>7

\* Listings are what has its query rewritten.
LEMMA ListTransform ==
  ASSUME NEW kind
  PROVE  /\ DOMAIN KeyField = {"ListObjects", "ListObjectsV2", "ListMultipartUploads"}
         /\ Transform(kind) = "listQuery" <=> kind \in DOMAIN KeyField
         /\ kind \in DOMAIN KeyField => KeyField[kind] \in {"marker", "start-after", "key-marker"}
BY DEF Transform, KeyField

\* The query of the request that is sent: names are not added but the prefix of a
\* listing, and only keys and tokens have other values.
LEMMA SentQuery ==
  ASSUME Sending
  PROVE  /\ DOMAIN outbound.query \ {"prefix"} = DOMAIN request.query \ {"prefix"}
         /\ \A name \in DOMAIN request.query
                          \ ({"prefix", "marker", "start-after", "key-marker"} \cup TokenFields) :
              outbound.query[name] = request.query[name]
         /\ planned.kind \in DOMAIN KeyField /\ mapping.prefix # <<>> =>
              outbound.query["prefix"] =
                <<WithPrefix[mapping.prefix][IF "prefix" \in DOMAIN request.query
                                             THEN request.query["prefix"][1] ELSE ""]>>
<1> DEFINE q == request.query
           kind == planned.kind
           prefixes == Transform(kind) = "listQuery" /\ mapping.prefix # <<>>
           given(name) == IF name \in DOMAIN q THEN q[name][1] ELSE ""
           prefixed == {"prefix"} \cup {name \in DOMAIN q : name = KeyField[kind] /\ given(name) # ""}
           rewritten == IF prefixes THEN prefixed ELSE {}
<1>1. outbound.query =
        [name \in DOMAIN q \cup rewritten |->
           IF name \in rewritten THEN <<WithPrefix[mapping.prefix][given(name)]>>
           ELSE IF name \in Sealed(q) THEN <<Opened[TokenKind(name)][q[name][1]]>>
           ELSE q[name]]
  BY SentHeaders DEF RewriteQuery
<1>2. rewritten \subseteq DOMAIN q \cup {"prefix"}
  OBVIOUS
<1>3. rewritten \subseteq {"prefix", "marker", "start-after", "key-marker"}
  BY ListTransform
<1>4. Sealed(q) \subseteq TokenFields
  BY DEF Sealed
<1>5. kind \in DOMAIN KeyField /\ mapping.prefix # <<>> => "prefix" \in rewritten
  BY ListTransform
<1> HIDE DEF rewritten
<1>6. DOMAIN outbound.query \ {"prefix"} = DOMAIN request.query \ {"prefix"}
  BY <1>1, <1>2
<1>7. \A name \in DOMAIN request.query
                    \ ({"prefix", "marker", "start-after", "key-marker"} \cup TokenFields) :
        outbound.query[name] = request.query[name]
  BY <1>1, <1>3, <1>4
<1>8. "prefix" \in rewritten => outbound.query["prefix"] = <<WithPrefix[mapping.prefix][given("prefix")]>>
  BY <1>1
<1> QED BY <1>5, <1>6, <1>7, <1>8

\* An x-amz- header is what the client signed.
LEMMA SendingAsSigned == ASSUME Sending PROVE ForwardedAsSigned
<1>1. ASSUME NEW h \in AmzHeaders \ {"x-amz-date", "x-amz-content-sha256", CopySource}
      PROVE  CanonicalValues(outbound, h) = CanonicalValues(made, h)
  <2>1. h # "host" /\ h \notin SigningHeaders /\ h \notin Copied
    BY <1>1 DEF SigningHeaders, Copied, AmzHeaders, Singletons, Unsupported, CopySource, SSE, ACLHeaders,
                Grants, Directives, CustomerKey, Metadata, ChecksumAlgorithms, ChecksumValues, ChecksumOf
  <2>2. CanonicalValues(outbound, h) = CanonicalValues(request, h)
    <3>1. CASE h \in DOMAIN request.headers
      <4>1. h \in Kept \ Copied
        BY <2>1, <3>1, AmzHeadersKept
      <4>2. h \in DOMAIN outbound.headers /\ outbound.headers[h] = request.headers[h]
        BY <4>1, SentHeaders
      <4> QED BY <2>1, <3>1, <4>2 DEF CanonicalValues, HeaderValues
    <3>2. CASE h \notin DOMAIN request.headers
      <4>1. h \notin DOMAIN outbound.headers
        BY <2>1, <3>2, SentHeaders DEF Kept
      <4> QED BY <2>1, <3>2, <4>1 DEF CanonicalValues, HeaderValues
    <3> QED BY <3>1, <3>2
  <2>3. CASE h \in DOMAIN request.headers \cup DOMAIN made.headers
    <3>1. h \in made.auth.signedHeaders
      BY <1>1, <2>1, <2>3, AsSigned DEF AmzHeadersSigned, SigningHeaders
    <3> QED BY <2>2, <3>1, AsSigned
  <2>4. CASE h \notin DOMAIN request.headers \cup DOMAIN made.headers
    BY <2>1, <2>2, <2>4 DEF CanonicalValues, HeaderValues
  <2> QED BY <2>3, <2>4
<1>2. HasHeader(outbound, CopySource) <=> CanonicalValues(made, CopySource) # <<"">>
  <2>1. CopySource \in AmzHeaders /\ CopySource \in Singletons /\ CopySource # "host"
        /\ CopySource \notin SigningHeaders
    BY DEF AmzHeaders, Singletons, CopySource, SigningHeaders
  <2>2. HasHeader(outbound, CopySource) <=> HasHeader(request, CopySource)
    BY <2>1, SentHeaders, CopyHasSource DEF HasHeader, Kept, Copied
  <2>3. CASE HasHeader(request, CopySource)
    <3>1. /\ request.headers[CopySource] \in Seq(STRING) \ {<<>>}
          /\ request.headers[CopySource][1] # ""
      BY <2>1, <2>3, Arrived DEF HasHeader, WellFormed, PlanOK, OperationHeadersOK
    <3>2. CanonicalValues(request, CopySource) # <<"">>
      <4>1. CanonicalValues(request, CopySource) = request.headers[CopySource]
        BY <2>1, <2>3, <3>1 DEF CanonicalValues, HeaderValues, HasHeader
      <4>2. <<"">>[1] = ""
        OBVIOUS
      <4> QED BY <3>1, <4>1, <4>2
    <3>3. CopySource \in made.auth.signedHeaders
      BY <2>1, <2>3, AsSigned DEF AmzHeadersSigned, SigningHeaders, HasHeader
    <3> QED BY <2>2, <2>3, <3>2, <3>3, AsSigned
  <2>4. CASE ~HasHeader(request, CopySource)
    <3>1. CanonicalValues(request, CopySource) = <<"">>
      BY <2>1, <2>4 DEF CanonicalValues, HeaderValues, HasHeader
    <3>2. CASE CopySource \in DOMAIN made.headers
      <4>1. CopySource \in made.auth.signedHeaders
        BY <2>1, <3>2, AsSigned DEF AmzHeadersSigned, SigningHeaders
      <4> QED BY <2>2, <2>4, <3>1, <4>1, AsSigned
    <3>3. CASE CopySource \notin DOMAIN made.headers
      <4>1. CanonicalValues(made, CopySource) = <<"">>
        BY <2>1, <3>3 DEF CanonicalValues, HeaderValues
      <4> QED BY <2>2, <2>4, <4>1
    <3> QED BY <3>2, <3>3
  <2> QED BY <2>3, <2>4
<1>3. /\ outbound.method = made.method
      /\ DOMAIN outbound.query \ {"prefix"} = DOMAIN made.query \ {"prefix"}
      /\ \A name \in DOMAIN made.query
                       \ ({"prefix", "marker", "start-after", "key-marker"} \cup TokenFields) :
           outbound.query[name] = made.query[name]
  BY AsSigned, SentHeaders, SentQuery
<1> QED BY <1>1, <1>2, <1>3 DEF ForwardedAsSigned

\* What reaches the real S3 is what the client signed, for all requests, changes on
\* the way and mappings (requireSignedAmzHeaders, validateHeadersForOperation).
THEOREM AlwaysForwardedAsSigned == GatewaySpec => []ForwardedAsSigned
<1>1. RequestInv => ForwardedAsSigned
  BY SendingAsSigned DEF Sending, ForwardedAsSigned
<1> QED BY <1>1, RequestInvariant, PTL

(***************************************************************************)
(* The real S3 can take a request for one operation only.                  *)
(***************************************************************************)
RowSelectors(row) == Selectors(row.method) \cap (row.flags \cup row.values)

Selects(m, row) ==
  /\ m.method = row.method /\ m.scope = row.scope /\ m.selectors = RowSelectors(row)
  /\ m.copies <=> row.kind = "CopyObject"

\* No parameter that a row admits beside its own selects an operation.
LEMMA OptionalSelectsNothing ==
  ASSUME NEW i \in 1..21
  PROVE  Selectors(Rows[i].method) \cap (Rows[i].optional \cup {"x-id", "prefix"}) = {}
BY DEF Rows, Row, Selectors, GetParameters

\* A row of an operation that is forwarded selects that operation and no other.
LEMMA RowMeans ==
  ASSUME NEW i \in 3..21
  PROVE  /\ \E m \in Meanings : Selects(m, Rows[i]) /\ m.kind = Rows[i].kind
         /\ \A m \in Meanings : Selects(m, Rows[i]) => m.kind = Rows[i].kind
<1>3. CASE i = 3
  <2>1. /\ Rows[i].kind = "HeadBucket" /\ Rows[i].method = "HEAD" /\ Rows[i].scope = "bucket"
        /\ RowSelectors(Rows[i]) = {}
    BY <1>3 DEF Rows, Row, RowSelectors, Selectors
  <2>2. Means("HeadBucket", "HEAD", "bucket", {}, FALSE) \in Meanings
    BY DEF Meanings
  <2>3. \E m \in Meanings : Selects(m, Rows[i]) /\ m.kind = Rows[i].kind
    BY <2>1, <2>2 DEF Selects, Means
  <2>4. \A m \in Meanings : Selects(m, Rows[i]) => m.kind = Rows[i].kind
    BY <2>1, SMTT(30) DEF Selects, Meanings, Means
  <2> QED BY <2>3, <2>4
<1>4. CASE i = 4
  <2>1. /\ Rows[i].kind = "ListMultipartUploads" /\ Rows[i].method = "GET" /\ Rows[i].scope = "bucket"
        /\ RowSelectors(Rows[i]) = {"uploads"}
    BY <1>4 DEF Rows, Row, RowSelectors, Selectors
  <2>2. Means("ListMultipartUploads", "GET", "bucket", {"uploads"}, FALSE) \in Meanings
    BY DEF Meanings
  <2>3. \E m \in Meanings : Selects(m, Rows[i]) /\ m.kind = Rows[i].kind
    BY <2>1, <2>2 DEF Selects, Means
  <2>4. \A m \in Meanings : Selects(m, Rows[i]) => m.kind = Rows[i].kind
    BY <2>1, SMTT(30) DEF Selects, Meanings, Means
  <2> QED BY <2>3, <2>4
<1>5. CASE i = 5
  <2>1. /\ Rows[i].kind = "ListObjectsV2" /\ Rows[i].method = "GET" /\ Rows[i].scope = "bucket"
        /\ RowSelectors(Rows[i]) = {"list-type"}
    BY <1>5 DEF Rows, Row, RowSelectors, Selectors
  <2>2. Means("ListObjectsV2", "GET", "bucket", {"list-type"}, FALSE) \in Meanings
    BY DEF Meanings
  <2>3. \E m \in Meanings : Selects(m, Rows[i]) /\ m.kind = Rows[i].kind
    BY <2>1, <2>2 DEF Selects, Means
  <2>4. \A m \in Meanings : Selects(m, Rows[i]) => m.kind = Rows[i].kind
    BY <2>1, SMTT(30) DEF Selects, Meanings, Means
  <2> QED BY <2>3, <2>4
<1>6. CASE i = 6
  <2>1. /\ Rows[i].kind = "ListObjects" /\ Rows[i].method = "GET" /\ Rows[i].scope = "bucket"
        /\ RowSelectors(Rows[i]) = {}
    BY <1>6 DEF Rows, Row, RowSelectors, Selectors
  <2>2. Means("ListObjects", "GET", "bucket", {}, FALSE) \in Meanings
    BY DEF Meanings
  <2>3. \E m \in Meanings : Selects(m, Rows[i]) /\ m.kind = Rows[i].kind
    BY <2>1, <2>2 DEF Selects, Means
  <2>4. \A m \in Meanings : Selects(m, Rows[i]) => m.kind = Rows[i].kind
    BY <2>1, SMTT(30) DEF Selects, Meanings, Means
  <2> QED BY <2>3, <2>4
<1>7. CASE i = 7
  <2>1. /\ Rows[i].kind = "ListParts" /\ Rows[i].method = "GET" /\ Rows[i].scope = "object"
        /\ RowSelectors(Rows[i]) = {"uploadId"}
    BY <1>7 DEF Rows, Row, RowSelectors, Selectors
  <2>2. Means("ListParts", "GET", "object", {"uploadId"}, FALSE) \in Meanings
    BY DEF Meanings
  <2>3. \E m \in Meanings : Selects(m, Rows[i]) /\ m.kind = Rows[i].kind
    BY <2>1, <2>2 DEF Selects, Means
  <2>4. \A m \in Meanings : Selects(m, Rows[i]) => m.kind = Rows[i].kind
    BY <2>1, SMTT(30) DEF Selects, Meanings, Means
  <2> QED BY <2>3, <2>4
<1>8. CASE i = 8
  <2>1. /\ Rows[i].kind = "GetObjectVersion" /\ Rows[i].method = "GET" /\ Rows[i].scope = "object"
        /\ RowSelectors(Rows[i]) = {"versionId"}
    BY <1>8 DEF Rows, Row, RowSelectors, Selectors
  <2>2. Means("GetObjectVersion", "GET", "object", {"versionId"}, FALSE) \in Meanings
    BY DEF Meanings
  <2>3. \E m \in Meanings : Selects(m, Rows[i]) /\ m.kind = Rows[i].kind
    BY <2>1, <2>2 DEF Selects, Means
  <2>4. \A m \in Meanings : Selects(m, Rows[i]) => m.kind = Rows[i].kind
    BY <2>1, SMTT(30) DEF Selects, Meanings, Means
  <2> QED BY <2>3, <2>4
<1>9. CASE i = 9
  <2>1. /\ Rows[i].kind = "GetObject" /\ Rows[i].method = "GET" /\ Rows[i].scope = "object"
        /\ RowSelectors(Rows[i]) = {}
    BY <1>9 DEF Rows, Row, RowSelectors, Selectors
  <2>2. Means("GetObject", "GET", "object", {}, FALSE) \in Meanings
    BY DEF Meanings
  <2>3. \E m \in Meanings : Selects(m, Rows[i]) /\ m.kind = Rows[i].kind
    BY <2>1, <2>2 DEF Selects, Means
  <2>4. \A m \in Meanings : Selects(m, Rows[i]) => m.kind = Rows[i].kind
    BY <2>1, SMTT(30) DEF Selects, Meanings, Means
  <2> QED BY <2>3, <2>4
<1>10. CASE i = 10
  <2>1. /\ Rows[i].kind = "HeadObjectVersion" /\ Rows[i].method = "HEAD" /\ Rows[i].scope = "object"
        /\ RowSelectors(Rows[i]) = {"versionId"}
    BY <1>10 DEF Rows, Row, RowSelectors, Selectors
  <2>2. Means("HeadObjectVersion", "HEAD", "object", {"versionId"}, FALSE) \in Meanings
    BY DEF Meanings
  <2>3. \E m \in Meanings : Selects(m, Rows[i]) /\ m.kind = Rows[i].kind
    BY <2>1, <2>2 DEF Selects, Means
  <2>4. \A m \in Meanings : Selects(m, Rows[i]) => m.kind = Rows[i].kind
    BY <2>1, SMTT(30) DEF Selects, Meanings, Means
  <2> QED BY <2>3, <2>4
<1>11. CASE i = 11
  <2>1. /\ Rows[i].kind = "HeadObject" /\ Rows[i].method = "HEAD" /\ Rows[i].scope = "object"
        /\ RowSelectors(Rows[i]) = {}
    BY <1>11 DEF Rows, Row, RowSelectors, Selectors
  <2>2. Means("HeadObject", "HEAD", "object", {}, FALSE) \in Meanings
    BY DEF Meanings
  <2>3. \E m \in Meanings : Selects(m, Rows[i]) /\ m.kind = Rows[i].kind
    BY <2>1, <2>2 DEF Selects, Means
  <2>4. \A m \in Meanings : Selects(m, Rows[i]) => m.kind = Rows[i].kind
    BY <2>1, SMTT(30) DEF Selects, Meanings, Means
  <2> QED BY <2>3, <2>4
<1>12. CASE i = 12
  <2>1. /\ Rows[i].kind = "CopyObject" /\ Rows[i].method = "PUT" /\ Rows[i].scope = "object"
        /\ RowSelectors(Rows[i]) = {}
    BY <1>12 DEF Rows, Row, RowSelectors, Selectors
  <2>2. Means("CopyObject", "PUT", "object", {}, TRUE) \in Meanings
    BY DEF Meanings
  <2>3. \E m \in Meanings : Selects(m, Rows[i]) /\ m.kind = Rows[i].kind
    BY <2>1, <2>2 DEF Selects, Means
  <2>4. \A m \in Meanings : Selects(m, Rows[i]) => m.kind = Rows[i].kind
    BY <2>1, SMTT(30) DEF Selects, Meanings, Means
  <2> QED BY <2>3, <2>4
<1>13. CASE i = 13
  <2>1. /\ Rows[i].kind = "PutObjectTagging" /\ Rows[i].method = "PUT" /\ Rows[i].scope = "object"
        /\ RowSelectors(Rows[i]) = {"tagging"}
    BY <1>13 DEF Rows, Row, RowSelectors, Selectors
  <2>2. Means("PutObjectTagging", "PUT", "object", {"tagging"}, FALSE) \in Meanings
    BY DEF Meanings
  <2>3. \E m \in Meanings : Selects(m, Rows[i]) /\ m.kind = Rows[i].kind
    BY <2>1, <2>2 DEF Selects, Means
  <2>4. \A m \in Meanings : Selects(m, Rows[i]) => m.kind = Rows[i].kind
    BY <2>1, SMTT(30) DEF Selects, Meanings, Means
  <2> QED BY <2>3, <2>4
<1>14. CASE i = 14
  <2>1. /\ Rows[i].kind = "PutObjectAcl" /\ Rows[i].method = "PUT" /\ Rows[i].scope = "object"
        /\ RowSelectors(Rows[i]) = {"acl"}
    BY <1>14 DEF Rows, Row, RowSelectors, Selectors
  <2>2. Means("PutObjectAcl", "PUT", "object", {"acl"}, FALSE) \in Meanings
    BY DEF Meanings
  <2>3. \E m \in Meanings : Selects(m, Rows[i]) /\ m.kind = Rows[i].kind
    BY <2>1, <2>2 DEF Selects, Means
  <2>4. \A m \in Meanings : Selects(m, Rows[i]) => m.kind = Rows[i].kind
    BY <2>1, SMTT(30) DEF Selects, Meanings, Means
  <2> QED BY <2>3, <2>4
<1>15. CASE i = 15
  <2>1. /\ Rows[i].kind = "UploadPart" /\ Rows[i].method = "PUT" /\ Rows[i].scope = "object"
        /\ RowSelectors(Rows[i]) = {"partNumber", "uploadId"}
    BY <1>15 DEF Rows, Row, RowSelectors, Selectors
  <2>2. Means("UploadPart", "PUT", "object", {"partNumber", "uploadId"}, FALSE) \in Meanings
    BY DEF Meanings
  <2>3. \E m \in Meanings : Selects(m, Rows[i]) /\ m.kind = Rows[i].kind
    BY <2>1, <2>2 DEF Selects, Means
  <2>4. \A m \in Meanings : Selects(m, Rows[i]) => m.kind = Rows[i].kind
    BY <2>1, SMTT(30) DEF Selects, Meanings, Means
  <2> QED BY <2>3, <2>4
<1>16. CASE i = 16
  <2>1. /\ Rows[i].kind = "PutObject" /\ Rows[i].method = "PUT" /\ Rows[i].scope = "object"
        /\ RowSelectors(Rows[i]) = {}
    BY <1>16 DEF Rows, Row, RowSelectors, Selectors
  <2>2. Means("PutObject", "PUT", "object", {}, FALSE) \in Meanings
    BY DEF Meanings
  <2>3. \E m \in Meanings : Selects(m, Rows[i]) /\ m.kind = Rows[i].kind
    BY <2>1, <2>2 DEF Selects, Means
  <2>4. \A m \in Meanings : Selects(m, Rows[i]) => m.kind = Rows[i].kind
    BY <2>1, SMTT(30) DEF Selects, Meanings, Means
  <2> QED BY <2>3, <2>4
<1>17. CASE i = 17
  <2>1. /\ Rows[i].kind = "AbortMultipartUpload" /\ Rows[i].method = "DELETE" /\ Rows[i].scope = "object"
        /\ RowSelectors(Rows[i]) = {"uploadId"}
    BY <1>17 DEF Rows, Row, RowSelectors, Selectors
  <2>2. Means("AbortMultipartUpload", "DELETE", "object", {"uploadId"}, FALSE) \in Meanings
    BY DEF Meanings
  <2>3. \E m \in Meanings : Selects(m, Rows[i]) /\ m.kind = Rows[i].kind
    BY <2>1, <2>2 DEF Selects, Means
  <2>4. \A m \in Meanings : Selects(m, Rows[i]) => m.kind = Rows[i].kind
    BY <2>1, SMTT(30) DEF Selects, Meanings, Means
  <2> QED BY <2>3, <2>4
<1>18. CASE i = 18
  <2>1. /\ Rows[i].kind = "DeleteObjectVersion" /\ Rows[i].method = "DELETE" /\ Rows[i].scope = "object"
        /\ RowSelectors(Rows[i]) = {"versionId"}
    BY <1>18 DEF Rows, Row, RowSelectors, Selectors
  <2>2. Means("DeleteObjectVersion", "DELETE", "object", {"versionId"}, FALSE) \in Meanings
    BY DEF Meanings
  <2>3. \E m \in Meanings : Selects(m, Rows[i]) /\ m.kind = Rows[i].kind
    BY <2>1, <2>2 DEF Selects, Means
  <2>4. \A m \in Meanings : Selects(m, Rows[i]) => m.kind = Rows[i].kind
    BY <2>1, SMTT(30) DEF Selects, Meanings, Means
  <2> QED BY <2>3, <2>4
<1>19. CASE i = 19
  <2>1. /\ Rows[i].kind = "DeleteObject" /\ Rows[i].method = "DELETE" /\ Rows[i].scope = "object"
        /\ RowSelectors(Rows[i]) = {}
    BY <1>19 DEF Rows, Row, RowSelectors, Selectors
  <2>2. Means("DeleteObject", "DELETE", "object", {}, FALSE) \in Meanings
    BY DEF Meanings
  <2>3. \E m \in Meanings : Selects(m, Rows[i]) /\ m.kind = Rows[i].kind
    BY <2>1, <2>2 DEF Selects, Means
  <2>4. \A m \in Meanings : Selects(m, Rows[i]) => m.kind = Rows[i].kind
    BY <2>1, SMTT(30) DEF Selects, Meanings, Means
  <2> QED BY <2>3, <2>4
<1>20. CASE i = 20
  <2>1. /\ Rows[i].kind = "CreateMultipartUpload" /\ Rows[i].method = "POST" /\ Rows[i].scope = "object"
        /\ RowSelectors(Rows[i]) = {"uploads"}
    BY <1>20 DEF Rows, Row, RowSelectors, Selectors
  <2>2. Means("CreateMultipartUpload", "POST", "object", {"uploads"}, FALSE) \in Meanings
    BY DEF Meanings
  <2>3. \E m \in Meanings : Selects(m, Rows[i]) /\ m.kind = Rows[i].kind
    BY <2>1, <2>2 DEF Selects, Means
  <2>4. \A m \in Meanings : Selects(m, Rows[i]) => m.kind = Rows[i].kind
    BY <2>1, SMTT(30) DEF Selects, Meanings, Means
  <2> QED BY <2>3, <2>4
<1>21. CASE i = 21
  <2>1. /\ Rows[i].kind = "CompleteMultipartUpload" /\ Rows[i].method = "POST" /\ Rows[i].scope = "object"
        /\ RowSelectors(Rows[i]) = {"uploadId"}
    BY <1>21 DEF Rows, Row, RowSelectors, Selectors
  <2>2. Means("CompleteMultipartUpload", "POST", "object", {"uploadId"}, FALSE) \in Meanings
    BY DEF Meanings
  <2>3. \E m \in Meanings : Selects(m, Rows[i]) /\ m.kind = Rows[i].kind
    BY <2>1, <2>2 DEF Selects, Means
  <2>4. \A m \in Meanings : Selects(m, Rows[i]) => m.kind = Rows[i].kind
    BY <2>1, SMTT(30) DEF Selects, Meanings, Means
  <2> QED BY <2>3, <2>4
<1>22. i \in {3, 4, 5, 6, 7, 8, 9, 10, 11, 12, 13, 14, 15, 16, 17, 18, 19, 20, 21}
  OBVIOUS
<1> QED BY <1>3, <1>4, <1>5, <1>6, <1>7, <1>8, <1>9, <1>10, <1>11, <1>12,
           <1>13, <1>14, <1>15, <1>16, <1>17, <1>18, <1>19, <1>20, <1>21, <1>22

(***************************************************************************)
(* The bucket and the key of a request.                                    *)
(***************************************************************************)
\* LookupBaseHost has an answer, and it is the least there is.
LEMMA LookupIs ==
  ASSUME NEW host \in Seq(STRING), NEW i \in BaseHostStarts(host),
         \A j \in BaseHostStarts(host) : i <= j
  PROVE  LookupBaseHost(host) = i
<1> DEFINE c == CHOOSE x \in BaseHostStarts(host) : \A j \in BaseHostStarts(host) : x <= j
<1>1. c \in BaseHostStarts(host) /\ \A j \in BaseHostStarts(host) : c <= j
  OBVIOUS
<1> HIDE DEF c
<1>2. BaseHostStarts(host) \subseteq Nat
  BY SeqLength DEF BaseHostStarts
<1>3. c = i
  BY <1>1, <1>2
<1> QED BY <1>3 DEF LookupBaseHost, c

\* A base host names no bucket.
LEMMA BaseHostItself ==
  ASSUME NEW host \in BaseHosts
  PROVE  ~IsVHost(host)
<1>1. host \in Seq(STRING) /\ host # <<>>
  BY ResolvedAssumption
<1>2. Len(host) \in Nat \ {0} /\ DOMAIN host = 1..Len(host)
  BY <1>1, SeqLength, Zenon
<1>3. SubSeq(host, 1, Len(host)) = host
  BY <1>1
<1>4. CASE host \in IPAddresses
  BY <1>4 DEF IsVHost, BaseHostStarts
<1>5. CASE host \notin IPAddresses
  <2>1. 1 \in DOMAIN host /\ \A j \in DOMAIN host : 1 <= j
    BY <1>2
  <2>2. 1 \in BaseHostStarts(host) /\ \A j \in BaseHostStarts(host) : 1 <= j
    BY <1>3, <1>5, <2>1 DEF BaseHostStarts
  <2>3. LookupBaseHost(host) = 1
    BY <1>1, <2>2, LookupIs
  <2> QED BY <2>3 DEF IsVHost
<1> QED BY <1>4, <1>5

\* The bucket before a base host.
LEMMA BucketInHost ==
  ASSUME NEW bucket \in Seq(STRING), bucket # <<>>, NEW base \in BaseHosts, NEW host, host = bucket \o base,
         host \notin IPAddresses,
         \A i \in DOMAIN bucket : SubSeq(host, i, Len(host)) \notin BaseHosts
  PROVE  IsVHost(host) /\ SubSeq(host, 1, LookupBaseHost(host) - 1) = bucket
<1> DEFINE n == Len(bucket) + 1
<1>1. base \in Seq(STRING) /\ base # <<>>
  BY ResolvedAssumption
<1>2. Len(bucket) \in Nat \ {0} /\ Len(base) \in Nat \ {0}
  BY <1>1, SeqLength, Zenon
<1>3. /\ host \in Seq(STRING) /\ Len(host) = Len(bucket) + Len(base)
      /\ SubSeq(host, 1, Len(bucket)) = bucket
      /\ SubSeq(host, n, Len(host)) = base
  BY <1>1, ConcatParts
<1>4. DOMAIN host = 1..Len(host) /\ DOMAIN bucket = 1..Len(bucket)
  BY <1>3, SeqLength
<1>5. n \in Nat /\ n > 1 /\ n \in DOMAIN host /\ n - 1 = Len(bucket)
      /\ \A j \in DOMAIN host : j \in DOMAIN bucket \/ n <= j
  BY <1>2, <1>3, <1>4
<1> HIDE DEF n
<1>6. n \in BaseHostStarts(host)
  BY <1>3, <1>5 DEF BaseHostStarts
<1>7. \A j \in BaseHostStarts(host) : n <= j
  BY <1>5 DEF BaseHostStarts
<1>8. LookupBaseHost(host) = n
  BY <1>3, <1>6, <1>7, LookupIs
<1>9. IsVHost(host)
  BY <1>5, <1>6, <1>8 DEF IsVHost
<1> QED BY <1>3, <1>5, <1>8, <1>9

\* resolveBucket finds the bucket and the key that a client has put into the host
\* and the path; a key that is one empty segment reads like none.
LEMMA AddressResolves ==
  ASSUME NEW m, Addressed(m), NEW r, r.host = m.host, r.path = m.path
  PROVE  /\ ResolveBucket(r).bucket = m.bucket /\ ResolveBucket(r).key = Key(m.key)
         /\ m.key = <<Empty>> => Len(r.path) = 2 /\ r.path[2] = Empty
<1> DEFINE bucket == m.bucket
           key == m.key
           host == m.host
           path == m.path
           first == IF bucket = <<>> THEN Empty ELSE bucket
<1>1. bucket \in Seq(STRING) /\ bucket # Empty /\ key \in Seq(Seq(STRING))
  BY DEF Addressed
<1>2. CASE /\ host \in BaseHosts \cup IPAddresses \/ BaseHostStarts(host) = {}
           /\ path = <<first>> \o key
  <2>1. ~IsVHost(host)
    <3>1. CASE BaseHostStarts(host) = {}
      BY <3>1 DEF IsVHost
    <3>2. CASE host \in IPAddresses
      BY <3>2 DEF IsVHost, BaseHostStarts
    <3> QED BY <1>2, <3>1, <3>2, BaseHostItself
  <2>2. /\ ResolveBucket(r).bucket = IF path[1] = Empty THEN <<>> ELSE path[1]
        /\ ResolveBucket(r).key = Key(Tail(path))
    BY <2>1 DEF ResolveBucket
  <2> HIDE DEF path, key, bucket, host
  <2>3. bucket = IF first = Empty THEN <<>> ELSE first
    BY <1>1
  <2> HIDE DEF first
  <2>4. /\ path[1] = first /\ Tail(path) = key /\ Len(path) = Len(key) + 1
        /\ key # <<>> => path[Len(key) + 1] = key[Len(key)]
    BY <1>1, <1>2, FirstAndRest
  <2>5. key = <<Empty>> => Len(path) = 2 /\ path[2] = Empty
    <3>1. Len(<<Empty>>) = 1 /\ <<Empty>>[1] = Empty /\ <<Empty>> # <<>>
      OBVIOUS
    <3> QED BY <2>4, <3>1
  <2>6. ResolveBucket(r).bucket = bucket /\ ResolveBucket(r).key = Key(key)
    BY <2>2, <2>3, <2>4
  <2> QED BY <2>5, <2>6 DEF path, key, bucket
<1>3. CASE /\ bucket # <<>> /\ key # <<Empty>> /\ host \notin IPAddresses
           /\ \E base \in BaseHosts : host = bucket \o base
           /\ \A i \in DOMAIN bucket : SubSeq(host, i, Len(host)) \notin BaseHosts
           /\ path = IF key = <<>> THEN <<Empty>> ELSE key
  <2>1. PICK base \in BaseHosts : host = bucket \o base
    BY <1>3
  <2>2. IsVHost(host) /\ SubSeq(host, 1, LookupBaseHost(host) - 1) = bucket
    <3> HIDE DEF host, bucket
    <3> QED BY <1>1, <1>3, <2>1, BucketInHost
  <2>3. /\ ResolveBucket(r).bucket = SubSeq(host, 1, LookupBaseHost(host) - 1)
        /\ ResolveBucket(r).key = Key(path)
    BY <2>2 DEF ResolveBucket
  <2>4. Key(path) = Key(key)
    BY <1>3 DEF Key
  <2> QED BY <1>3, <2>2, <2>3, <2>4
<1> QED BY <1>2, <1>3 DEF Addressed

\* Objects are what an operation on an object is sent to.
LEMMA RowScopes ==
  ASSUME NEW i \in 1..21
  PROVE  /\ Rows[i].kind \in {"ListBuckets", "CreateBucket"} <=> i \in 1..2
         /\ i \in 3..21 => Rows[i].scope \in {"bucket", "object"}
         /\ i \in 3..21 => (Rows[i].scope = "object" <=> Transform(Rows[i].kind) = "objectPath")
BY DEF Rows, Row, Transform

LEMMA PlannedRow ==
  ASSUME Sending
  PROVE  \E i \in 3..21 : /\ RowMatches(request, Scope(planned.bucket, planned.key), Rows[i])
                          /\ planned.kind = Rows[i].kind
<1> DEFINE scope == Scope(planned.bucket, planned.key)
<1>1. MatchingRows(request, scope) # {} /\ planned.kind = KindOf(request, scope)
  BY Arrived DEF PlanOK
<1>2. PICK i \in DOMAIN Rows : RowMatches(request, scope, Rows[i]) /\ planned.kind = Rows[i].kind
  <2> HIDE DEF scope
  <2> QED BY <1>1, KindOfRow
<1>3. planned.kind \notin {"CreateBucket", "ListBuckets"}
  BY DEF Sending, RequestInv
<1>4. i \in 3..21
  BY <1>2, <1>3, RowCount, RowScopes
<1> QED BY <1>2, <1>4

\* The plan is for the bucket and the key the client named.
LEMMA PlannedAddress ==
  ASSUME Sending
  PROVE  /\ planned.bucket = made.bucket /\ planned.key = made.key
         /\ planned.key \in Seq(Seq(STRING)) /\ planned.key # <<Empty>>
         /\ Transform(planned.kind) = "objectPath" <=> planned.key # <<>>
<1>1. made \in Made /\ Addressed(made)
  BY Arrived, ClientAssumption
<1>2. /\ planned.bucket = made.bucket /\ planned.key = Key(made.key)
      /\ made.key = <<Empty>> => Len(request.path) = 2 /\ request.path[2] = Empty
  <2>1. request.host = made.host /\ request.path = made.path
    BY AsSigned
  <2>2. /\ ResolveBucket(request).bucket = made.bucket /\ ResolveBucket(request).key = Key(made.key)
        /\ made.key = <<Empty>> => Len(request.path) = 2 /\ request.path[2] = Empty
    BY <1>1, <2>1, AddressResolves
  <2> QED BY <2>2, Arrived
<1>3. PICK i \in 3..21 : /\ RowMatches(request, Scope(planned.bucket, planned.key), Rows[i])
                         /\ planned.kind = Rows[i].kind
  BY PlannedRow
<1>4. /\ Scope(planned.bucket, planned.key) = Rows[i].scope
      /\ Rows[i].scope \in {"bucket", "object"}
      /\ Rows[i].scope = "object" <=> Transform(planned.kind) = "objectPath"
  BY <1>3, RowScopes DEF RowMatches
<1>5. planned.key # <<>> <=> Rows[i].scope = "object"
  BY <1>4 DEF Scope
<1>6. made.key # <<Empty>>
  <2> SUFFICES ASSUME made.key = <<Empty>> PROVE FALSE
    OBVIOUS
  <2>1. planned.key = <<>>
    BY <1>2 DEF Key
  <2>2. Scope(planned.bucket, planned.key) = "bucket"
    BY <1>4, <1>5, <2>1
  <2>3. Len(request.path) > 1 => request.path[Len(request.path)] # Empty
    BY <2>2, Arrived DEF PlanOK
  <2> QED BY <1>2, <2>3
<1>7. planned.key = made.key
  BY <1>2, <1>6 DEF Key
<1> QED BY <1>1, <1>2, <1>4, <1>5, <1>6, <1>7 DEF Addressed

\* The real S3 reads the address of a key in a mapping as that key.
LEMMA AddressRead ==
  ASSUME NEW bucket \in Seq(STRING), bucket # <<>>, NEW endpoint \in Seq(STRING),
         NEW key \in Seq(Seq(STRING)), key # <<Empty>>
  PROVE  /\ (<<bucket>> \o key)[1] = bucket /\ Tail(<<bucket>> \o key) = key
         /\ bucket \o endpoint # endpoint
         /\ SubSeq(bucket \o endpoint, 1, Len(bucket \o endpoint) - Len(endpoint)) = bucket
         /\ Key(IF key = <<>> THEN <<Empty>> ELSE key) = key
<1>1. (<<bucket>> \o key)[1] = bucket /\ Tail(<<bucket>> \o key) = key
  BY FirstAndRest
<1>2. bucket \o endpoint # endpoint
  BY ConcatParts
<1>3. Len(bucket \o endpoint) - Len(endpoint) = Len(bucket)
  BY ConcatParts, SeqLength
<1>4. SubSeq(bucket \o endpoint, 1, Len(bucket)) = bucket
  BY ConcatParts
<1>5. Key(IF key = <<>> THEN <<Empty>> ELSE key) = key
  BY DEF Key
<1> QED BY <1>1, <1>2, <1>3, <1>4, <1>5

\* What is sent is for the key under the prefix of the mapping.
LEMMA SentAddress ==
  ASSUME Sending
  PROVE  /\ UpstreamAddress(outbound).bucket = mapping.bucket
         /\ UpstreamAddress(outbound).key = IF made.key = <<>> THEN <<>> ELSE mapping.prefix \o made.key
         /\ DOMAIN UpstreamAddress(outbound) = {"bucket", "key"}
         /\ mapping.bucket # <<>> /\ (UpstreamAddress(outbound).key # <<>> <=> made.key # <<>>)
<1> DEFINE key == (IF Transform(planned.kind) = "objectPath" THEN mapping.prefix ELSE <<>>) \o planned.key
           bucket == mapping.bucket
           endpoint == mapping.endpoint
           prefix == mapping.prefix
           name == made.key
<1>1. /\ bucket \in Seq(STRING) /\ bucket # <<>> /\ endpoint \in Seq(STRING)
      /\ prefix \in Seq(Seq(STRING)) /\ mapping.pathStyle \in BOOLEAN
  <2>1. planned.bucket \in DOMAIN Mappings
    BY DEF Sending, RequestInv
  <2> QED BY <2>1, ResolvedAssumption DEF mapping
<1>2. /\ name \in Seq(Seq(STRING)) /\ name # <<Empty>> /\ planned.key = name
      /\ Transform(planned.kind) = "objectPath" <=> name # <<>>
  BY PlannedAddress
<1>3. key = IF name = <<>> THEN <<>> ELSE prefix \o name
  <2>1. CASE name = <<>>
    <3>1. key = <<>> \o name
      BY <1>2, <2>1
    <3>2. <<>> \o name = name
      BY <1>2, ConcatParts
    <3> QED BY <2>1, <3>1, <3>2
  <2>2. CASE name # <<>>
    BY <1>2, <2>2
  <2> QED BY <2>1, <2>2
<1>4. WellFormed(request)
  BY Arrived
<1>5. /\ outbound.host = IF mapping.pathStyle THEN endpoint ELSE bucket \o endpoint
      /\ outbound.path = IF mapping.pathStyle THEN <<bucket>> \o key
                         ELSE IF key = <<>> THEN <<Empty>> ELSE key
  BY <1>4, SentHeaders DEF Unsigned, WellFormed, Fields
<1> HIDE DEF key, bucket, endpoint, prefix, name
<1>6. key \in Seq(Seq(STRING)) /\ key # <<Empty>> /\ (key = <<>> <=> name = <<>>)
  <2>1. CASE name = <<>>
    BY <1>2, <1>3, <2>1
  <2>2. CASE name # <<>>
    <3>1. Len(name) \in Nat \ {0} /\ Len(prefix) \in Nat
      BY <1>1, <1>2, <2>2, SeqLength, Zenon
    <3>2. key = prefix \o name /\ key \in Seq(Seq(STRING)) /\ Len(key) = Len(prefix) + Len(name)
      <4>1. key = prefix \o name
        BY <1>3, <2>2
      <4> QED BY <1>1, <1>2, <4>1, ConcatParts
    <3>3. key # <<>>
      BY <3>1, <3>2
    <3>4. ASSUME key = <<Empty>> PROVE FALSE
      <4>1. Len(key) = 1 /\ key[1] = Empty
        BY <3>4
      <4>2. prefix = <<>>
        BY <1>1, <3>1, <3>2, <4>1, SeqLength
      <4>3. key = name
        BY <1>2, <3>2, <4>2, ConcatParts
      <4> QED BY <1>2, <3>4, <4>3
    <3> QED BY <2>2, <3>2, <3>3, <3>4
  <2> QED BY <2>1, <2>2
<1>7. UpstreamAddress(outbound).bucket = bucket /\ UpstreamAddress(outbound).key = key
  <2>1. /\ (<<bucket>> \o key)[1] = bucket /\ Tail(<<bucket>> \o key) = key
        /\ bucket \o endpoint # endpoint
        /\ SubSeq(bucket \o endpoint, 1, Len(bucket \o endpoint) - Len(endpoint)) = bucket
        /\ Key(IF key = <<>> THEN <<Empty>> ELSE key) = key
    BY <1>1, <1>6, AddressRead
  <2>2. CASE mapping.pathStyle
    BY <1>5, <2>1, <2>2 DEF UpstreamAddress, endpoint
  <2>3. CASE ~mapping.pathStyle
    BY <1>5, <2>1, <2>3 DEF UpstreamAddress, endpoint
  <2> QED BY <1>1, <2>2, <2>3
<1>8. DOMAIN UpstreamAddress(outbound) = {"bucket", "key"}
  BY DEF UpstreamAddress
<1> QED BY <1>1, <1>3, <1>6, <1>7, <1>8 DEF bucket, prefix, name

\* The parameters of what is sent that select an operation are those of its row.
LEMMA SentSelectors ==
  ASSUME Sending, NEW i \in 3..21,
         RowMatches(request, Scope(planned.bucket, planned.key), Rows[i]), planned.kind = Rows[i].kind
  PROVE  /\ outbound.method = Rows[i].method
         /\ Selectors(outbound.method) \cap DOMAIN outbound.query = RowSelectors(Rows[i])
         /\ HasHeader(outbound, CopySource) <=> Rows[i].kind = "CopyObject"
         /\ Scope(UpstreamAddress(outbound).bucket, UpstreamAddress(outbound).key) = Rows[i].scope
<1> DEFINE row == Rows[i]
<1>1. outbound.method = row.method
  BY SentHeaders DEF RowMatches
<1>2. Selectors(row.method) \cap DOMAIN outbound.query = RowSelectors(row)
  <2>1. /\ row.flags \cup row.values \subseteq DOMAIN request.query
        /\ DOMAIN request.query \subseteq row.flags \cup row.values \cup row.optional \cup {"x-id"}
    BY DEF RowMatches, QueryMatches
  <2>2. Selectors(row.method) \cap (row.optional \cup {"x-id", "prefix"}) = {}
    BY OptionalSelectsNothing
  <2>3. DOMAIN outbound.query \ {"prefix"} = DOMAIN request.query \ {"prefix"}
    BY SentQuery
  <2> HIDE DEF row
  <2> QED BY <2>1, <2>2, <2>3 DEF RowSelectors
<1>3. HasHeader(outbound, CopySource) <=> row.kind = "CopyObject"
  <2>1. CopySource \notin SigningHeaders
    BY DEF CopySource, SigningHeaders
  <2> QED BY <2>1, SentHeaders, CopyHasSource DEF HasHeader, Kept, Copied
<1>4. Scope(UpstreamAddress(outbound).bucket, UpstreamAddress(outbound).key) = row.scope
  <2>1. Scope(planned.bucket, planned.key) = row.scope /\ row.scope \in {"bucket", "object"}
    BY RowScopes DEF RowMatches
  <2>2. /\ UpstreamAddress(outbound).bucket # <<>>
        /\ UpstreamAddress(outbound).key # <<>> <=> planned.key # <<>>
    BY SentAddress, PlannedAddress
  <2> QED BY <2>1, <2>2 DEF Scope
<1> QED BY <1>1, <1>2, <1>3, <1>4

LEMMA MeaningsBoolean == \A m \in Meanings : m.copies \in BOOLEAN
<1>1. /\ \A kind, method, scope, selectors : Means(kind, method, scope, selectors, TRUE).copies \in BOOLEAN
      /\ \A kind, method, scope, selectors : Means(kind, method, scope, selectors, FALSE).copies \in BOOLEAN
  BY DEF Means
<1> QED BY <1>1, Zenon DEF Meanings

\* The real S3 takes what is sent for the planned operation.
LEMMA SentReading ==
  ASSUME Sending
  PROVE  Readings(outbound) = {planned.kind}
<1>1. PICK i \in 3..21 : /\ RowMatches(request, Scope(planned.bucket, planned.key), Rows[i])
                         /\ planned.kind = Rows[i].kind
  BY PlannedRow
<1> DEFINE row == Rows[i]
           addressed == Scope(UpstreamAddress(outbound).bucket, UpstreamAddress(outbound).key)
           Reads(m) == /\ m.method = outbound.method
                       /\ m.scope = addressed
                       /\ m.selectors = Selectors(outbound.method) \cap DOMAIN outbound.query
                       /\ m.copies = HasHeader(outbound, CopySource)
<1>2. /\ outbound.method = row.method
      /\ Selectors(outbound.method) \cap DOMAIN outbound.query = RowSelectors(row)
      /\ HasHeader(outbound, CopySource) <=> row.kind = "CopyObject"
      /\ addressed = row.scope
  BY <1>1, SentSelectors
<1>3. /\ \E m \in Meanings : Selects(m, row) /\ m.kind = row.kind
      /\ \A m \in Meanings : Selects(m, row) => m.kind = row.kind
  BY RowMeans
<1>4. Readings(outbound) = {m.kind : m \in {m \in Meanings : Reads(m)}}
  BY DEF Readings
<1> HIDE DEF row, addressed
<1>5. ASSUME NEW m \in Meanings
      PROVE  Reads(m) <=> Selects(m, row)
  <2>1. m.copies = HasHeader(outbound, CopySource) <=> (m.copies <=> row.kind = "CopyObject")
    <3>1. m.copies \in BOOLEAN
      BY MeaningsBoolean
    <3>2. ASSUME NEW a \in BOOLEAN, NEW x, NEW S
          PROVE  (a = (x \in S)) <=> (a <=> x \in S)
      <4>1. CASE a = TRUE
        BY <4>1
      <4>2. CASE a = FALSE
        BY <4>2
      <4> QED BY <4>1, <4>2, Zenon
    <3>3. m.copies = (CopySource \in DOMAIN outbound.headers) <=> (m.copies <=> CopySource \in DOMAIN outbound.headers)
      BY <3>1, <3>2, Zenon
    <3> QED BY <1>2, <3>3 DEF HasHeader
  <2> QED BY <1>2, <2>1 DEF Selects
<1> HIDE DEF Reads
<1> QED BY <1>1, <1>3, <1>4, <1>5 DEF row

(***************************************************************************)
(* The rights and the conditions.                                          *)
(***************************************************************************)
Elements(s) == {s[i] : i \in DOMAIN s}

LEMMA ElementsOfConcat ==
  ASSUME NEW S, NEW s \in Seq(S), NEW t \in Seq(S)
  PROVE  Elements(s) \cup Elements(t) \subseteq Elements(s \o t)
<1>1. \A i \in DOMAIN s : i \in DOMAIN (s \o t) /\ (s \o t)[i] = s[i]
  OBVIOUS
<1>2. \A i \in DOMAIN t : Len(s) + i \in DOMAIN (s \o t) /\ (s \o t)[Len(s) + i] = t[i]
  OBVIOUS
<1> QED BY <1>1, <1>2 DEF Elements

\* The checks of an operation.
LEMMA ChecksOf ==
  ASSUME NEW o
  PROVE  /\ KindCheck[o.kind] \in Elements(IAMChecks(o))
         /\ o.kind = "CopyObject" => SourceCheck(o) \in Elements(IAMChecks(o))
         /\ o.kind \in PutKinds /\ o.acl => Check("s3:PutObjectAcl", "object") \in Elements(IAMChecks(o))
         /\ o.kind \in PutKinds /\ o.tagging =>
              Check("s3:PutObjectTagging", "object") \in Elements(IAMChecks(o))
<1> DEFINE acl == Check("s3:PutObjectAcl", "object")
           tagging == Check("s3:PutObjectTagging", "object")
           S == {KindCheck[o.kind], SourceCheck(o), acl, tagging}
           a == <<KindCheck[o.kind]>>
           b == If(o.kind = "CopyObject", <<SourceCheck(o)>>)
           c == If(o.kind \in PutKinds /\ o.acl, <<acl>>)
           d == If(o.kind \in PutKinds /\ o.tagging, <<tagging>>)
<1>1. \A e : e \in Elements(<<e>>)
  BY DEF Elements
<1>2. \A e \in S : <<e>> \in Seq(S)
  OBVIOUS
<1>3. <<>> \in Seq(S)
  OBVIOUS
<1>4. a \in Seq(S) /\ b \in Seq(S) /\ c \in Seq(S) /\ d \in Seq(S)
  <2>1. KindCheck[o.kind] \in S /\ SourceCheck(o) \in S /\ acl \in S /\ tagging \in S
    OBVIOUS
  <2> HIDE DEF S, acl, tagging
  <2> QED BY <1>2, <1>3, <2>1, Zenon DEF If
<1>5. /\ KindCheck[o.kind] \in Elements(a)
      /\ o.kind = "CopyObject" => SourceCheck(o) \in Elements(b)
      /\ o.kind \in PutKinds /\ o.acl => acl \in Elements(c)
      /\ o.kind \in PutKinds /\ o.tagging => tagging \in Elements(d)
  <2> HIDE DEF acl, tagging
  <2> QED BY <1>1, Zenon DEF If
<1>6. IAMChecks(o) = (a \o b) \o (c \o d)
  BY DEF IAMChecks, PutHeaderChecks
<1> HIDE DEF S, a, b, c, d
<1>7. a \o b \in Seq(S) /\ c \o d \in Seq(S)
  BY <1>4, ConcatParts
<1>8. Elements(a) \cup Elements(b) \subseteq Elements(a \o b)
  BY <1>4, ElementsOfConcat
<1>9. Elements(c) \cup Elements(d) \subseteq Elements(c \o d)
  BY <1>4, ElementsOfConcat
<1>10. Elements(a \o b) \cup Elements(c \o d) \subseteq Elements(IAMChecks(o))
  BY <1>6, <1>7, ElementsOfConcat
<1> HIDE DEF acl, tagging
<1> QED BY <1>5, <1>8, <1>9, <1>10 DEF acl, tagging

\* The copy source that is sent names a version exactly when the client's did.
LEMMA SentSource ==
  ASSUME Sending, planned.kind = "CopyObject"
  PROVE  SourceOf[outbound.headers[CopySource][1]].version = "" <=> Source.version = ""
<1> DEFINE version == IF Source.version = "" THEN "" ELSE Opened["version"][Source.version]
           Built(text) ==
             SourceOf[text] = [bucket  |-> mapping.bucket,
                               key     |-> mapping.prefix \o Source.key,
                               version |-> version]
<1>1. /\ request.headers[CopySource][1] \in DOMAIN SourceOf
      /\ Source.bucket = planned.bucket /\ KeyOK(Source.key)
  BY Arrived DEF PlanOK, CopySourceOK, Source
<1>2. planned.bucket \in DOMAIN Mappings /\ Source.version \in DOMAIN Opened["version"] \cup {""}
  BY DEF Sending, RequestInv, SourceVersionOK
<1>3. Source \in {SourceOf[text] : text \in DOMAIN SourceOf}
  BY <1>1 DEF Source
<1>4. \E text \in DOMAIN SourceOf : Built(text)
  <2>1. \A source \in {SourceOf[text] : text \in DOMAIN SourceOf} :
          /\ source.bucket = planned.bucket /\ KeyOK(source.key)
          /\ source.version \in DOMAIN Opened["version"] \cup {""}
          =>
            \E text \in DOMAIN SourceOf :
              SourceOf[text] =
                [bucket |-> mapping.bucket, key |-> mapping.prefix \o source.key,
                 version |-> IF source.version = "" THEN "" ELSE Opened["version"][source.version]]
    BY <1>2, ResolvedAssumption DEF mapping
  <2> QED BY <1>1, <1>2, <1>3, <2>1
<1>5. Built(CHOOSE text \in DOMAIN SourceOf : Built(text))
  <2> HIDE DEF Built
  <2> QED BY <1>4
<1>6. Built(BuildCopySource)
  BY <1>5 DEF BuildCopySource
<1>7. SourceOf[BuildCopySource].version = version
  <2> DEFINE text == BuildCopySource
             key == mapping.prefix \o Source.key
  <2>1. SourceOf[text] = [bucket |-> mapping.bucket, key |-> key, version |-> version]
    BY <1>6
  <2> HIDE DEF text, key, version
  <2> QED BY <2>1 DEF text
<1>8. outbound.headers[CopySource][1] = BuildCopySource
  BY SentHeaders DEF Copied
<1> QED BY <1>2, <1>7, <1>8, ResolvedAssumption

\* The check of an operation names the action that the real S3 requires.
LEMMA RowActions ==
  ASSUME NEW i \in 3..21
  PROVE  KindCheck[Rows[i].kind] = Check(S3Action(Rows[i].kind), Rows[i].scope)
<1> DEFINE buckets == {"HeadBucket", "ListMultipartUploads", "ListObjectsV2", "ListObjects"}
           objects == {"ListParts", "GetObjectVersion", "GetObject", "HeadObjectVersion",
                      "HeadObject", "CopyObject", "PutObjectTagging", "PutObjectAcl",
                      "UploadPart", "PutObject", "AbortMultipartUpload", "DeleteObjectVersion",
                      "DeleteObject", "CreateMultipartUpload", "CompleteMultipartUpload"}
<1>1. /\ i \in 3..6 => Rows[i].kind \in buckets /\ Rows[i].scope = "bucket"
      /\ i \in 7..14 => Rows[i].kind \in objects /\ Rows[i].scope = "object"
      /\ i \in 15..21 => Rows[i].kind \in objects /\ Rows[i].scope = "object"
  <2>1. i \in 3..6 => Rows[i].kind \in buckets /\ Rows[i].scope = "bucket"
    BY DEF Rows, Row
  <2>2. i \in 7..14 => Rows[i].kind \in objects /\ Rows[i].scope = "object"
    BY DEF Rows, Row
  <2>3. i \in 15..21 => Rows[i].kind \in objects /\ Rows[i].scope = "object"
    BY DEF Rows, Row
  <2> QED BY <2>1, <2>2, <2>3
<1>2. ASSUME NEW kind \in buckets
      PROVE  KindCheck[kind] = Check(S3Action(kind), "bucket")
  BY <1>2, SMTT(30) DEF KindCheck, S3Action
<1>3. ASSUME NEW kind \in objects
      PROVE  KindCheck[kind] = Check(S3Action(kind), "object")
  BY <1>3, SMTT(30) DEF KindCheck, S3Action
<1> QED BY <1>1, <1>2, <1>3

\* Its resource is the one that is addressed at the real S3.
LEMMA MainRight ==
  ASSUME Sending
  PROVE  KindCheck[planned.kind] =
           Check(S3Action(planned.kind),
                 Scope(UpstreamAddress(outbound).bucket, UpstreamAddress(outbound).key))
<1>1. PICK i \in 3..21 : /\ RowMatches(request, Scope(planned.bucket, planned.key), Rows[i])
                         /\ planned.kind = Rows[i].kind
  BY PlannedRow
<1>2. Scope(UpstreamAddress(outbound).bucket, UpstreamAddress(outbound).key) = Rows[i].scope
  BY <1>1, SentSelectors
<1> QED BY <1>1, <1>2, RowActions

\* Every right the operation takes was checked.
LEMMA SentRights ==
  ASSUME Sending
  PROVE  UsedRights(outbound, planned.kind) \subseteq Elements(planned.checks)
<1> DEFINE kind == planned.kind
           o == OperationOf(request, kind)
           acl == Check("s3:PutObjectAcl", "object")
           tagging == Check("s3:PutObjectTagging", "object")
<1>1. planned.checks = IAMChecks(o)
  BY Arrived
<1>2. /\ o.kind = kind
      /\ o.acl <=> ACLHeaders \cap DOMAIN request.headers # {}
      /\ o.tagging <=> HasHeader(request, "x-amz-tagging")
      /\ o.sourceVersion <=> kind = "CopyObject" /\ SourceOf[request.headers[CopySource][1]].version # ""
  BY DEF OperationOf
<1> HIDE DEF o
<1>3. KindCheck[kind] \in Elements(planned.checks)
  BY <1>1, <1>2, ChecksOf
<1>4. ASSUME kind = "CopyObject"
      PROVE  Check(IF SourceOf[outbound.headers[CopySource][1]].version = "" THEN "s3:GetObject"
                   ELSE "s3:GetObjectVersion", "source") \in Elements(planned.checks)
  <2>1. SourceCheck(o) \in Elements(planned.checks)
    BY <1>1, <1>2, <1>4, ChecksOf
  <2>2. SourceOf[outbound.headers[CopySource][1]].version = "" <=> ~o.sourceVersion
    BY <1>2, <1>4, SentSource DEF Source
  <2> QED BY <2>1, <2>2 DEF SourceCheck
<1>5. DOMAIN outbound.headers \cap (ACLHeaders \cup {"x-amz-tagging"}) \subseteq DOMAIN request.headers
  <2>1. (ACLHeaders \cup {"x-amz-tagging"}) \cap (Copied \cup SigningHeaders) = {}
    BY DEF ACLHeaders, Grants, Copied, CopySource, SigningHeaders
  <2> QED BY <2>1, SentHeaders DEF Kept
<1>6. ASSUME ACLHeaders \cap DOMAIN outbound.headers # {}
      PROVE  acl \in Elements(planned.checks)
  <2>1. ACLHeaders \cap DOMAIN request.headers # {}
    BY <1>5, <1>6
  <2>2. kind \in PutKinds \cup {"PutObjectAcl"}
    BY <2>1, HeadersAdmitted, AdmittedHeaders
  <2>3. CASE kind \in PutKinds
    BY <1>1, <1>2, <2>1, <2>3, ChecksOf
  <2>4. CASE kind = "PutObjectAcl"
    <3>1. KindCheck["PutObjectAcl"] = acl
      BY DEF KindCheck
    <3> QED BY <1>3, <2>4, <3>1
  <2> QED BY <2>2, <2>3, <2>4
<1>7. ASSUME HasHeader(outbound, "x-amz-tagging")
      PROVE  tagging \in Elements(planned.checks)
  <2>1. HasHeader(request, "x-amz-tagging")
    BY <1>5, <1>7 DEF HasHeader
  <2>2. kind \in PutKinds
    BY <2>1, HeadersAdmitted, AdmittedHeaders DEF HasHeader
  <2> QED BY <1>1, <1>2, <2>1, <2>2, ChecksOf
<1> QED BY <1>3, <1>4, <1>6, <1>7, MainRight DEF UsedRights

\* The conditions saw the headers and the listing that are sent.
LEMMA SentContext ==
  ASSUME Sending
  PROVE  /\ \A h \in ConditionHeaders \ {CopySource} :
              HeaderValues(outbound, h) = IF h \in DOMAIN planned.context.headers
                                          THEN planned.context.headers[h] ELSE <<>>
         /\ \A name \in DOMAIN planned.context.query :
              outbound.query[name] = planned.context.query[name]
         /\ planned.kind \in DOMAIN KeyField /\ mapping.prefix # <<>> =>
              outbound.query["prefix"] = <<WithPrefix[mapping.prefix][planned.context.prefix[1]]>>
<1> DEFINE q == request.query
           seen == planned.context
<1>1. /\ seen.headers = [h \in ConditionHeaders \cap DOMAIN request.headers |-> request.headers[h]]
      /\ planned.kind \in DOMAIN KeyField =>
           seen.prefix = IF "prefix" \in DOMAIN q THEN q["prefix"] ELSE <<"">>
      /\ DOMAIN seen.query \subseteq {"delimiter", "max-keys"} \cap DOMAIN q
      /\ \A name \in DOMAIN seen.query : seen.query[name] = q[name]
  <2> DEFINE lists == planned.kind \in {"ListObjects", "ListObjectsV2", "ListMultipartUploads"}
             listed == IF lists THEN {"delimiter", "max-keys"} \cap DOMAIN q ELSE {}
             prefix == IF ~lists THEN <<>> ELSE IF "prefix" \in DOMAIN q THEN q["prefix"] ELSE <<"">>
             headers == [h \in ConditionHeaders \cap DOMAIN request.headers |-> request.headers[h]]
  <2>1. seen = [prefix |-> prefix, query |-> [name \in listed |-> q[name]], headers |-> headers]
    BY Arrived DEF WireContext
  <2>2. listed \subseteq {"delimiter", "max-keys"} \cap DOMAIN q
    OBVIOUS
  <2> HIDE DEF listed, prefix, headers, q, seen
  <2>3. seen.prefix = prefix /\ seen.query = [name \in listed |-> q[name]] /\ seen.headers = headers
    BY <2>1
  <2>4. planned.kind \in DOMAIN KeyField => lists
    BY ListTransform
  <2> QED BY <2>2, <2>3, <2>4 DEF prefix, headers
<1>2. ASSUME NEW h \in ConditionHeaders \ {CopySource}
      PROVE  HeaderValues(outbound, h) = IF h \in DOMAIN seen.headers THEN seen.headers[h] ELSE <<>>
  <2>1. h \in AmzHeaders /\ h \notin SigningHeaders /\ h \notin Copied
    BY <1>2 DEF ConditionHeaders, AmzHeaders, Singletons, SigningHeaders, Copied, ACLHeaders, Grants,
                Directives, SSE
  <2>2. h \in DOMAIN request.headers => h \in Kept \ Copied
    BY <2>1, AmzHeadersKept
  <2>3. h \in DOMAIN outbound.headers <=> h \in DOMAIN request.headers
    BY <2>1, <2>2, SentHeaders DEF Kept
  <2>4. h \in DOMAIN request.headers => outbound.headers[h] = request.headers[h]
    BY <2>2, SentHeaders
  <2> QED BY <1>1, <1>2, <2>3, <2>4 DEF HeaderValues
<1>3. ASSUME NEW name \in DOMAIN seen.query
      PROVE  outbound.query[name] = seen.query[name]
  <2>1. name \in DOMAIN q \ ({"prefix", "marker", "start-after", "key-marker"} \cup TokenFields)
    BY <1>1 DEF TokenFields
  <2> QED BY <1>1, <2>1, SentQuery
<1>4. ASSUME planned.kind \in DOMAIN KeyField, mapping.prefix # <<>>
      PROVE  outbound.query["prefix"] = <<WithPrefix[mapping.prefix][seen.prefix[1]]>>
  <2>1. seen.prefix[1] = IF "prefix" \in DOMAIN q THEN q["prefix"][1] ELSE ""
    <3>1. <<"">>[1] = ""
      OBVIOUS
    <3> QED BY <1>1, <1>4, <3>1
  <2> QED BY <1>4, <2>1, SentQuery
<1> QED BY <1>2, <1>3, <1>4

LEMMA SendingAuthorized == ASSUME Sending PROVE PerformedAsAuthorized
<1> DEFINE read == UpstreamAddress(outbound)
           under == IF made.key = <<>> THEN <<>> ELSE Mappings[made.bucket].prefix \o made.key
<1>1. read.bucket = Mappings[made.bucket].bucket /\ read.key = under
  BY SentAddress, PlannedAddress DEF mapping
<1>2. read = [bucket |-> read.bucket, key |-> read.key]
  BY DEF UpstreamAddress
<1>3. read = [bucket |-> Mappings[made.bucket].bucket, key |-> under]
  <2> HIDE DEF read, under
  <2> QED BY <1>1, <1>2
<1>4. UsedRights(outbound, planned.kind) \subseteq {planned.checks[i] : i \in DOMAIN planned.checks}
  BY SentRights DEF Elements
<1> QED BY <1>3, <1>4, SentReading, SentContext DEF PerformedAsAuthorized

\* What reaches the real S3 is the operation the policy granted, on the object the
\* client named, for all requests, policies and mappings (planS3Operation,
\* buildS3IAMWireContext, proxyS3Request).
THEOREM AlwaysPerformedAsAuthorized == GatewaySpec => []PerformedAsAuthorized
<1>1. RequestInv => PerformedAsAuthorized
  BY SendingAuthorized DEF Sending, PerformedAsAuthorized
<1> QED BY <1>1, RequestInvariant, PTL
=============================================================================
