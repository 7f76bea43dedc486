---------------------------- MODULE ProxyResponse ----------------------------
(***************************************************************************)
(* How the answer of the real S3 becomes the answer to the client           *)
(* (http_server/s3_proxy.go, http_server/s3_response.go): what is written   *)
(* when, how a response is refused before and after its status is out, and  *)
(* how the XML of a listing is rewritten as it streams.                     *)
(*                                                                          *)
(* The upstream body is read token by token and may end, break or turn out  *)
(* malformed at any token.  A text is told apart only by what the rules for *)
(* its field accept; a path is the sequence of element names from the root. *)
(***************************************************************************)
EXTENDS Naturals, Sequences

CONSTANTS
  Schema,      \* [profile |-> [path |-> its class]]: knownResponsePaths, responseFieldRules
  Streaming,   \* the profiles that stream; the other profiles of Schema are bounded
  Required,    \* [profile |-> the paths that must occur]
  Names        \* element names

\* A container has elements of its own; so has the root of every document.
ASSUME SchemaAssumption ==
  /\ "object" \notin DOMAIN Schema
  /\ Streaming \subseteq DOMAIN Schema
  /\ \A profile \in DOMAIN Schema :
       /\ DOMAIN Schema[profile] \subseteq Seq(Names) \ {<<>>}
       /\ \A path \in DOMAIN Schema[profile] \cup {<<"root">>} :
            path = <<"root">> \/ Schema[profile][path] = "container" =>
              \E q \in DOMAIN Schema[profile] :
                Len(q) > Len(path) /\ SubSeq(q, 1, Len(path)) = path

VARIABLES
  plan,        \* S3OperationPlan: the profile, the method HEAD, fetch-owner=true
  upstream,    \* the head of the upstream response; its root element
  phase,       \* what proxyS3Request is doing
  stack,       \* rewriteNamespaceXML: the open elements
  seenRoot,
  seenFields,  \* the paths of the rewritten fields
  truncated,   \* IsTruncated: "unknown", "true" or "false"
  emptyMarker, \* the last next marker was empty
  ownerSeen,   \* listContentsOwnerSeen, for the open Contents
  pending,     \* the encoder holds output that is not written
  output,      \* the last text encoded: where, and "raw" or "virtual"
  whole,       \* history: the upstream body was read to its end
  outside,     \* history: a key was read that the mapping does not reach
  client       \* what the client has: the head and how the response ended

rewriter == <<stack, seenRoot, seenFields, truncated, emptyMarker, ownerSeen, pending, output>>
history == <<whole, outside>>
response == <<plan, upstream, phase, rewriter, history, client>>

Classes == {"container", "plain", "identity", "key", "token", "boolean", "checked"}
Texts ==
  [key |-> {"inside", "outside"}, token |-> {"value", "empty"},
   boolean |-> {"true", "false", "other"}, checked |-> {"expected", "other"}]
Truncation == <<"root", "IsTruncated">>
Marker == <<"root", "Next">>   \* NextContinuationToken, NextUploadIdMarker, NextPartNumberMarker
Contents == <<"root", "Contents">>
Owner == <<"root", "Contents", "Owner">>

Plans ==
  {p \in [profile: {"object", "headers"} \cup DOMAIN Schema, head: BOOLEAN, fetchOwner: BOOLEAN] :
     /\ p.head => p.profile = "headers"
     /\ p.fetchOwner => p.profile = "ListObjects"}

Nothing == [path |-> <<>>, text |-> "virtual"]

\* Nothing is read and nothing is written.
Unanswered ==
  /\ upstream = [status |-> "none", headersOK |-> TRUE, root |-> "root"]
  /\ stack = <<>> /\ seenRoot = FALSE /\ seenFields = {}
  /\ truncated = "unknown" /\ emptyMarker = FALSE /\ ownerSeen = FALSE
  /\ pending = FALSE /\ output = Nothing
  /\ whole = FALSE /\ outside = FALSE
  /\ client = [heads |-> 0, status |-> "none", headers |-> FALSE, end |-> "open"]

ResponseInit == plan \in Plans /\ phase = "prepare" /\ Unanswered

(***************************************************************************)
(* What is written to the client.                                          *)
(***************************************************************************)
\* writeS3Error, and the handler returns.
WriteError ==
  /\ client' = [client EXCEPT !.heads = @ + 1, !.status = "own", !.end = "clean"]
  /\ phase' = "done"

\* WriteHeader with the headers copySafeResponseHeaders staged.
WithHead(end) ==
  [client EXCEPT !.heads = @ + 1, !.status = "upstream", !.headers = TRUE, !.end = end]

\* Mutant: the handler returns normally although the stream has failed.
AbortQuietly == client' = [client EXCEPT !.end = "clean"] /\ phase' = "done"

\* ErrAbortHandler: the connection ends without the end of the body.
Abort == client' = [client EXCEPT !.end = "aborted"] /\ phase' = "done"

\* A failure of rewriteNamespaceXML or of what feeds it.
Fail == IF client.status = "none" THEN WriteError ELSE Abort

(***************************************************************************)
(* proxyS3Request up to the head of the upstream response.                 *)
(***************************************************************************)
\* The mapping is invalid or the upstream does not answer.
RefuseLocally ==
  /\ phase = "prepare"
  /\ WriteError
  /\ UNCHANGED <<plan, upstream, rewriter, history>>

Answer ==
  /\ phase = "prepare"
  /\ \E s \in {"2xx", "304", "redirect", "error"}, ok \in BOOLEAN, root \in {"root", "Other"} :
       upstream' = [status |-> s, headersOK |-> ok, root |-> root]
  /\ phase' = "answered"
  /\ UNCHANGED <<plan, rewriter, history, client>>

Redirect ==
  /\ phase = "answered" /\ upstream.status = "redirect"
  /\ WriteError
  /\ UNCHANGED <<plan, upstream, rewriter, history>>

\* A HEAD, a 304 and a profile without a body have a head only.
HeadOnly ==
  \/ plan.head
  \/ upstream.status = "304"
  \/ upstream.status = "2xx" /\ plan.profile = "headers"

WriteHeadOnly ==
  /\ phase = "answered" /\ upstream.status # "redirect" /\ HeadOnly
  /\ IF upstream.headersOK THEN client' = WithHead("clean") /\ phase' = "done" ELSE WriteError
  /\ UNCHANGED <<plan, upstream, rewriter, history>>

\* The error document is read whole, checked, and replaced by one of the proxy.
WriteUpstreamError ==
  /\ phase = "answered" /\ upstream.status = "error" /\ ~HeadOnly
  /\ \/ WriteError                       \* too long, broken or not an S3 error
     \/ IF upstream.headersOK THEN client' = WithHead("clean") /\ phase' = "done" ELSE WriteError
  /\ UNCHANGED <<plan, upstream, rewriter, history>>

(***************************************************************************)
(* The body of an object (responseStreamObject).                           *)
(***************************************************************************)
StartObject ==
  /\ phase = "answered" /\ upstream.status = "2xx" /\ plan.profile = "object"
  /\ IF upstream.headersOK THEN client' = WithHead("open") /\ phase' = "copy" ELSE WriteError
  /\ UNCHANGED <<plan, upstream, rewriter, history>>

EndObject ==
  /\ phase = "copy"
  /\ whole' = TRUE
  /\ client' = [client EXCEPT !.end = "clean"] /\ phase' = "done"
  /\ UNCHANGED <<plan, upstream, rewriter, outside>>

BreakObject ==
  /\ phase = "copy"
  /\ Fail
  /\ UNCHANGED <<plan, upstream, rewriter, history>>

(***************************************************************************)
(* XML: a listing streams once its root is known to be right; any other    *)
(* document is read and rewritten in memory before its head is written.    *)
(***************************************************************************)
\* preflightStreamingXMLRoot.
StartListing ==
  /\ phase = "answered" /\ upstream.status = "2xx" /\ plan.profile \in Streaming
  /\ \/ WriteError                       \* no root within the bound
     \/ IF upstream.root = "root" /\ upstream.headersOK
        THEN client' = WithHead("open") /\ phase' = "rewrite"
        ELSE WriteError
  /\ UNCHANGED <<plan, upstream, rewriter, history>>

\* Mutant: the head is out before the document is rewritten.
ReadBoundedCommitted ==
  /\ phase = "answered" /\ upstream.status = "2xx" /\ plan.profile \in DOMAIN Schema \ Streaming
  /\ client' = WithHead("open") /\ phase' = "rewrite"
  /\ UNCHANGED <<plan, upstream, rewriter, history>>

\* readBoundedControlXML.
ReadBounded ==
  /\ phase = "answered" /\ upstream.status = "2xx" /\ plan.profile \in DOMAIN Schema \ Streaming
  /\ \/ WriteError                       \* too long or broken
     \/ phase' = "rewrite" /\ UNCHANGED client
  /\ UNCHANGED <<plan, upstream, rewriter, history>>

(***************************************************************************)
(* rewriteNamespaceXML: one action per kind of token.  An element that is  *)
(* skipped or whose text is read as a whole is one token.                  *)
(***************************************************************************)
Known(path) == path = <<"root">> \/ path \in DOMAIN Schema[plan.profile]

Class(path) == IF path = <<"root">> THEN "container" ELSE Schema[plan.profile][path]

\* responsePathIsContainer.
IsContainer(path) ==
  \/ \E q \in DOMAIN Schema[plan.profile] :
       Len(q) > Len(path) /\ SubSeq(q, 1, Len(path)) = path
  \/ Class(path) = "identity"

\* The next token starts an element called n.
AtElement(n) ==
  /\ phase = "rewrite"
  /\ ~seenRoot => n = upstream.root

ElementRefused(n) ==
  \/ seenRoot /\ stack = <<>>
  \/ n = "Foreign"
  \/ ~seenRoot /\ n # "root"
  \/ ~Known(Append(stack, n)) /\ stack # <<>> /\ ~IsContainer(stack)

RefuseElement(n) ==
  /\ AtElement(n) /\ ElementRefused(n)
  /\ Fail
  /\ UNCHANGED <<plan, upstream, rewriter, history>>

\* An unknown element is left out.
SkipElement(n) ==
  /\ AtElement(n) /\ ~ElementRefused(n)
  /\ ~Known(Append(stack, n))
  /\ UNCHANGED response

\* The output of the encoder is written when its buffer is full.
Encode == pending' \in BOOLEAN

OpenElement(n) ==
  LET path == Append(stack, n)
  IN  /\ AtElement(n) /\ ~ElementRefused(n)
      /\ Known(path) /\ Class(path) \in {"container", "plain"}
      /\ stack' = path /\ seenRoot' = TRUE
      /\ ownerSeen' = (ownerSeen /\ path # Contents)
      /\ Encode
      /\ UNCHANGED <<plan, upstream, phase, seenFields, truncated, emptyMarker,
                     output, history, client>>

\* The owner is replaced by one named after the virtual bucket.
WriteIdentity(n) ==
  LET path == Append(stack, n)
  IN  /\ AtElement(n) /\ ~ElementRefused(n)
      /\ Known(path) /\ Class(path) = "identity"
      /\ ownerSeen' = (ownerSeen \/ path = Owner)
      /\ output' = [path |-> path, text |-> "virtual"] /\ Encode
      /\ UNCHANGED <<plan, upstream, phase, stack, seenRoot, seenFields, truncated, emptyMarker,
                     history, client>>

\* applyResponseTextTransform: the texts it accepts.  "outside" is a key without
\* the prefix of the mapping, not the one requested, or no valid key without it;
\* "other" is an echo or a value that is not the expected one.
TextOK(path, text) ==
  /\ text \notin {"outside", "other"}
  /\ text = "empty" => path = Marker

RewriteField(n) ==
  LET path == Append(stack, n)
  IN  /\ AtElement(n) /\ ~ElementRefused(n)
      /\ Known(path) /\ Class(path) \in DOMAIN Texts
      /\ \E text \in Texts[Class(path)] :
           /\ outside' = (outside \/ text = "outside")
           /\ IF TextOK(path, text)
              THEN /\ output' = [path |-> path, text |-> "virtual"] /\ Encode
                   /\ seenFields' = seenFields \cup {path}
                   /\ truncated' = IF path = Truncation THEN text ELSE truncated
                   /\ emptyMarker' = IF path = Marker THEN text = "empty" ELSE emptyMarker
                   /\ UNCHANGED <<phase, client>>
              ELSE /\ Fail
                   /\ UNCHANGED <<output, pending, seenFields, truncated, emptyMarker>>
      /\ UNCHANGED <<plan, upstream, stack, seenRoot, ownerSeen, whole>>

CloseElement ==
  /\ phase = "rewrite" /\ stack # <<>>
  /\ IF stack = Contents /\ plan.fetchOwner /\ ~ownerSeen
     THEN Fail /\ UNCHANGED <<stack, pending>>
     ELSE /\ stack' = SubSeq(stack, 1, Len(stack) - 1)
          /\ Encode
          /\ UNCHANGED <<phase, client>>
  /\ UNCHANGED <<plan, upstream, seenRoot, seenFields, truncated, emptyMarker,
                 ownerSeen, output, history>>

\* Mutant: any text passes.
TextPlacedAnywhere == TRUE

\* Text belongs in a known element that has no elements of its own.
TextPlaced == Known(stack) /\ ~IsContainer(stack)

CharData ==
  /\ phase = "rewrite"
  /\ IF TextPlaced
     THEN output' = [path |-> stack, text |-> "raw"] /\ Encode /\ UNCHANGED <<phase, client>>
     ELSE Fail /\ UNCHANGED <<output, pending>>
  /\ UNCHANGED <<plan, upstream, stack, seenRoot, seenFields, truncated, emptyMarker,
                 ownerSeen, history>>

\* The body breaks, is not well formed, has an element inside a text field, or
\* the client is gone.
BreakDocument ==
  /\ phase = "rewrite"
  /\ Fail
  /\ UNCHANGED <<plan, upstream, rewriter, history>>

DocumentOK ==
  /\ seenRoot
  /\ Required[plan.profile] \subseteq seenFields
  /\ plan.profile = "ListParts" /\ truncated = "true" => Marker \in seenFields
  /\ Marker \in seenFields /\ emptyMarker => truncated = "false"

Flush == pending' = FALSE

EndDocument ==
  /\ phase = "rewrite" /\ stack = <<>>
  /\ whole' = TRUE
  /\ \/ /\ ~DocumentOK
        /\ Fail /\ UNCHANGED pending
     \/ /\ DocumentOK /\ plan.profile \in Streaming
        /\ Flush
        /\ client' = [client EXCEPT !.end = "clean"] /\ phase' = "done"
     \/ /\ DocumentOK /\ plan.profile \notin Streaming
        /\ Flush
        /\ IF upstream.headersOK THEN client' = WithHead("clean") /\ phase' = "done" ELSE WriteError
  /\ UNCHANGED <<plan, upstream, stack, seenRoot, seenFields, truncated, emptyMarker,
                 ownerSeen, output, outside>>

Token ==
  \/ \E n \in Names :
       RefuseElement(n) \/ SkipElement(n) \/ OpenElement(n) \/ WriteIdentity(n) \/ RewriteField(n)
  \/ CloseElement \/ CharData \/ BreakDocument \/ EndDocument

ResponseNext ==
  \/ RefuseLocally \/ Answer \/ Redirect \/ WriteHeadOnly \/ WriteUpstreamError
  \/ StartObject \/ EndObject \/ BreakObject
  \/ StartListing \/ ReadBounded \/ Token

ResponseSpec == ResponseInit /\ [][ResponseNext]_response

(***************************************************************************)
(* Properties.                                                             *)
(***************************************************************************)
HasBody == upstream.status = "2xx" /\ ~HeadOnly

\* A response that ends cleanly is one response: it has one head, and an error of
\* the proxy has no header of the upstream.  When it carries the body of a
\* successful answer the client has all of it: the upstream body was read to its
\* end, nothing is left in the encoder, and a document was complete and of this
\* mapping only.  "Returning normally would turn a failed chunked stream into
\* clean EOF" (s3_proxy.go).
CleanMeansWhole ==
  /\ client.end = "clean" => client.heads = 1 /\ (client.status = "own" => ~client.headers)
  /\ client.status = "upstream" /\ client.end = "clean" /\ HasBody =>
    /\ whole /\ ~outside /\ ~pending /\ stack = <<>>
    /\ plan.profile \in DOMAIN Schema =>
         /\ Required[plan.profile] \subseteq seenFields
         /\ plan.profile = "ListParts" /\ truncated = "true" => Marker \in seenFields
         /\ Marker \in seenFields /\ emptyMarker => truncated = "false"

\* A document that does not stream is all or nothing: no part of it, and not its
\* status, is out before the whole of it is read, checked and rewritten
\* (responseCreateMultipart and the other bounded profiles).
BoundedIsAtomic ==
  client.status = "upstream" /\ HasBody /\ plan.profile \in DOMAIN Schema \ Streaming =>
    client.end = "clean" /\ whole /\ DocumentOK

\* Text of the upstream is passed on unchanged only in the elements the schema
\* lists as plain; in every field that names buckets, keys, uploads or owners, or
\* echoes the request, it is rewritten or checked first (responseFieldRules).
OnlyPlainTextIsRaw ==
  output.text = "raw" => Known(output.path) /\ Class(output.path) = "plain"
=============================================================================
