-------------------------------- MODULE SigV4 --------------------------------
(***************************************************************************)
(* AWS Signature Version 4 as the proxy checks and makes it                 *)
(* (http_server/s3_auth.go).  A signature is the record of all that goes    *)
(* into it, so two are equal only when all of it is.  Requests are those of *)
(* Planning, with a host, the set of the trailers it declares and an        *)
(* authorization: its form, the access key, the scope, the set of signed    *)
(* headers and the signature.                                               *)
(***************************************************************************)
EXTENDS Integers, Sequences

CONSTANTS
  DateOf,     \* [text of x-amz-date |-> its day and its second]
  Now,        \* the text of the present
  MaxSkew     \* SigV4MaxClockSkew; 0 for none

ASSUME ClockAssumption ==
  /\ Now \in DOMAIN DateOf /\ MaxSkew \in Nat
  /\ \A d \in DOMAIN DateOf : DateOf[d].second \in Int

UnsignedPayload == "UNSIGNED-PAYLOAD"

HeaderValues(r, h) == IF h \in DOMAIN r.headers THEN r.headers[h] ELSE <<>>

\* The values of a header as buildCanonicalRequest writes them: an absent header
\* reads like an empty one.
CanonicalValues(r, h) ==
  IF h = "host" THEN r.host
  ELSE IF HeaderValues(r, h) = <<>> THEN <<"">> ELSE r.headers[h]

\* buildCanonicalRequest: what r.URL.Query() cannot read is not in it.
CanonicalRequest(r, signedHeaders) ==
  [method  |-> r.method,
   path    |-> r.path,
   query   |-> r.query,
   headers |-> [h \in signedHeaders |-> CanonicalValues(r, h)],
   payload |-> CanonicalValues(r, "x-amz-content-sha256")[1]]

\* computeSigningKey, buildStringToSign and signatureForCanonicalRequest.
Signature(secret, datetime, scope, canonical) ==
  [secret |-> secret, datetime |-> datetime, scope |-> scope, canonical |-> canonical]

(***************************************************************************)
(* parseAuthorizationHeader and verifySignatureAtTime.                     *)
(***************************************************************************)
\* The header is there once, its three parts are in order and well formed;
\* validateSignedHeaders.
ParsedOK(auth) ==
  /\ auth.form = "wellFormed"
  /\ auth.scope.service = "s3"
  /\ {"host", "x-amz-date"} \subseteq auth.signedHeaders

\* Mutant: x-amz- headers need not be signed.
AmzHeadersUnsigned(r, amz) == TRUE

\* requireSignedAmzHeaders.
AmzHeadersSigned(r, amz) ==
  (DOMAIN r.headers \cap amz) \ {"x-amz-content-sha256"} \subseteq r.auth.signedHeaders

Skewed(datetime) ==
  LET skew == DateOf[Now].second - DateOf[datetime].second
  IN  MaxSkew > 0 /\ (skew > MaxSkew \/ -skew > MaxSkew)

VerifySignature(r, secret, amz) ==
  LET datetime == HeaderValues(r, "x-amz-date")
  IN  /\ {"x-amz-security-token", "x-amz-trailer"} \cap DOMAIN r.headers = {} /\ r.trailer = {}
      /\ HeaderValues(r, "x-amz-content-sha256") = <<UnsignedPayload>>
      /\ Len(datetime) = 1
      /\ AmzHeadersSigned(r, amz)
      /\ datetime[1] \in DOMAIN DateOf
      /\ r.auth.scope.day = DateOf[datetime[1]].day
      /\ ~Skewed(datetime[1])
      /\ r.auth.signature =
           Signature(secret, datetime[1], r.auth.scope, CanonicalRequest(r, r.auth.signedHeaders))

(***************************************************************************)
(* signRequest.                                                            *)
(***************************************************************************)
Stamped(r, datetime) ==
  [r EXCEPT !.headers =
     [h \in DOMAIN r.headers \cup {"x-amz-date", "x-amz-content-sha256"} |->
        CASE h = "x-amz-date" -> <<datetime>>
          [] h = "x-amz-content-sha256" -> <<UnsignedPayload>>
          [] OTHER -> r.headers[h]]]

\* The authorization of r under the given headers.
Authorization(r, key, secret, region, datetime, signedHeaders) ==
  LET scope == [day |-> DateOf[datetime].day, region |-> region, service |-> "s3"]
  IN  [form |-> "wellFormed", key |-> key, scope |-> scope, signedHeaders |-> signedHeaders,
       signature |-> Signature(secret, datetime, scope, CanonicalRequest(r, signedHeaders))]

\* Every header that is present is signed.
SignRequest(r, key, secret, region) ==
  LET stamped == Stamped(r, Now)
  IN  [stamped EXCEPT !.auth =
         Authorization(stamped, key, secret, region, Now, {"host"} \cup DOMAIN stamped.headers)]
=============================================================================
