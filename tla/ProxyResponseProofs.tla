------------------------- MODULE ProxyResponseProofs -------------------------
(***************************************************************************)
(* Proofs about the answers of the proxy, for all requests, mappings and    *)
(* response tables: whatever happens on the way, a response that ends       *)
(* cleanly is whole, a bounded document is all or nothing, and text of the  *)
(* upstream passes unchanged only where the tables say so.                  *)
(***************************************************************************)
EXTENDS Gateway, TLAPS

(***************************************************************************)
(* The inductive invariant: what the client has in each phase.             *)
(***************************************************************************)
Shape == DOMAIN client = {"heads", "status", "headers", "end"}

Fresh == Shape /\ client.heads = 0 /\ client.status = "none" /\ ~client.headers /\ client.end = "open"
Headed == Shape /\ client.heads = 1 /\ client.status = "upstream" /\ client.end = "open"
Own == client.heads = 1 /\ client.status = "own" /\ ~client.headers /\ client.end = "clean"
Clean == client.heads = 1 /\ client.status = "upstream" /\ client.end = "clean"
Aborted == client.status = "upstream" /\ client.end = "aborted"

Early ==
  {"authenticate", "resolve", "authorize", "bucketCall", "forward", "send", "prepare", "answered"}

\* A body that is complete; of a document, also its fields.
WholeBody ==
  /\ whole /\ ~outside /\ ~pending /\ stack = <<>>
  /\ plan.profile \in DOMAIN Schema => DocumentOK

PhaseInv ==
  /\ phase \in Early \cup {"copy", "rewrite", "done"}
  /\ phase \in Early => Fresh /\ ~outside /\ ~pending /\ stack = <<>>
  /\ phase = "copy" =>
       Headed /\ plan.profile = "object" /\ ~outside /\ ~pending /\ stack = <<>>
  /\ phase = "rewrite" =>
       /\ plan.profile \in DOMAIN Schema /\ ~outside
       /\ IF plan.profile \in Streaming THEN Headed ELSE Fresh
  /\ phase = "done" =>
       \/ Own
       \/ Clean /\ (HasBody => WholeBody)
       \/ Aborted /\ plan.profile \notin DOMAIN Schema \ Streaming

\* The invariant implies the properties of ProxyResponse.
LEMMA PhaseGives == ASSUME PhaseInv PROVE CleanMeansWhole /\ BoundedIsAtomic
<1>1. CASE phase # "done"
  <2>1. Fresh \/ (Headed /\ plan.profile \notin DOMAIN Schema \ Streaming)
    <3>1. "object" \notin DOMAIN Schema
      BY SchemaAssumption
    <3>2. CASE phase \in Early
      BY <3>2 DEF PhaseInv
    <3>3. CASE phase = "copy"
      BY <3>1, <3>3 DEF PhaseInv
    <3>4. CASE phase = "rewrite"
      BY <3>4 DEF PhaseInv
    <3> QED BY <1>1, <3>2, <3>3, <3>4 DEF PhaseInv
  <2> QED BY <2>1 DEF Fresh, Headed, CleanMeansWhole, BoundedIsAtomic
<1>2. CASE phase = "done"
  <2>1. CASE Own
    BY <2>1 DEF Own, CleanMeansWhole, BoundedIsAtomic
  <2>2. CASE Clean /\ (HasBody => WholeBody)
    BY <2>2 DEF Clean, WholeBody, DocumentOK, CleanMeansWhole, BoundedIsAtomic
  <2>3. CASE Aborted /\ plan.profile \notin DOMAIN Schema \ Streaming
    BY <2>3 DEF Aborted, CleanMeansWhole, BoundedIsAtomic
  <2> QED BY <1>2, <2>1, <2>2, <2>3 DEF PhaseInv
<1> QED BY <1>1, <1>2

(***************************************************************************)
(* The ways a response is written.                                         *)
(***************************************************************************)
\* Before the head is out, an error of the proxy is the whole answer.
LEMMA ErrorHolds == ASSUME Fresh, WriteError PROVE PhaseInv'
<1>1. Own' /\ phase' = "done"
  BY DEF Shape, Fresh, Own, WriteError
<1> QED BY <1>1 DEF PhaseInv, Early

\* A failure never ends a response cleanly once its head is out.
LEMMA FailHolds ==
  ASSUME PhaseInv, Fail, phase \in {"copy", "rewrite"}, UNCHANGED plan
  PROVE  PhaseInv'
<1>1. CASE Fresh
  <2>1. WriteError
    BY <1>1 DEF Fail, Fresh
  <2> QED BY <1>1, <2>1, ErrorHolds
<1>2. CASE Headed
  <2>1. Aborted' /\ phase' = "done"
    BY <1>2 DEF Shape, Fail, Abort, Headed, Aborted
  <2>2. plan'.profile \notin DOMAIN Schema \ Streaming
    <3>1. phase = "rewrite" /\ plan.profile \notin Streaming => Fresh
      BY DEF PhaseInv
    <3> QED BY <1>2, <3>1, SchemaAssumption DEF PhaseInv, Fresh, Headed
  <2> QED BY <2>1, <2>2 DEF PhaseInv, Early
<1> QED BY <1>1, <1>2 DEF PhaseInv

\* A head without a body.
LEMMA HeadHolds ==
  ASSUME Fresh, client' = WithHead("clean"), phase' = "done", ~HasBody'
  PROVE  PhaseInv'
<1>1. Clean'
  BY DEF Shape, Fresh, Clean, WithHead
<1> QED BY <1>1 DEF PhaseInv, Early

\* After the head of a stream the response is open.
LEMMA HeadOut == ASSUME Fresh, client' = WithHead("open") PROVE Headed'
BY DEF Shape, Fresh, Headed, WithHead

(***************************************************************************)
(* The steps of a response.                                                *)
(***************************************************************************)
\* Up to the head of the upstream response nothing is out; answers without a body
\* are written at once.
LEMMA BeforeBody ==
  ASSUME PhaseInv,
         RefuseLocally \/ Answer \/ Redirect \/ WriteHeadOnly \/ WriteUpstreamError
  PROVE  PhaseInv'
<1>1. phase \in Early /\ Fresh
  BY DEF PhaseInv, Early, RefuseLocally, Answer, Redirect, WriteHeadOnly, WriteUpstreamError
<1>2. CASE WriteError
  BY <1>1, <1>2, ErrorHolds
<1>3. CASE Answer
  BY <1>1, <1>3 DEF Answer, PhaseInv, Early, rewriter, history, Fresh, Shape
<1>4. CASE WriteHeadOnly /\ ~WriteError
  <2>1. client' = WithHead("clean") /\ phase' = "done" /\ HeadOnly /\ plan' = plan
        /\ upstream' = upstream
    BY <1>4 DEF WriteHeadOnly
  <2>2. ~HasBody'
    BY <2>1 DEF HasBody, HeadOnly
  <2> QED BY <1>1, <2>1, <2>2, HeadHolds
<1>5. CASE WriteUpstreamError /\ ~WriteError
  <2>1. client' = WithHead("clean") /\ phase' = "done" /\ upstream.status = "error"
        /\ upstream' = upstream
    BY <1>5 DEF WriteUpstreamError
  <2>2. ~HasBody'
    BY <2>1 DEF HasBody
  <2> QED BY <1>1, <2>1, <2>2, HeadHolds
<1> QED BY <1>2, <1>3, <1>4, <1>5 DEF RefuseLocally, Redirect

\* A body starts to stream after its head, a bounded document is read before it.
LEMMA BodyStarts ==
  ASSUME PhaseInv, StartObject \/ StartListing \/ ReadBounded
  PROVE  PhaseInv'
<1>1. /\ phase \in Early /\ Fresh /\ ~outside /\ ~pending /\ stack = <<>>
      /\ plan' = plan /\ outside' = outside /\ pending' = pending /\ stack' = stack
  BY DEF PhaseInv, Early, StartObject, StartListing, ReadBounded, rewriter, history
<1>2. CASE WriteError
  BY <1>1, <1>2, ErrorHolds
<1>3. CASE StartObject /\ ~WriteError
  <2>1. client' = WithHead("open") /\ phase' = "copy" /\ plan.profile = "object"
    BY <1>3 DEF StartObject
  <2>2. Headed'
    BY <1>1, <2>1, HeadOut
  <2> QED BY <1>1, <2>1, <2>2 DEF PhaseInv, Early
<1>4. CASE StartListing /\ ~WriteError
  <2>1. client' = WithHead("open") /\ phase' = "rewrite" /\ plan.profile \in Streaming
    BY <1>4 DEF StartListing
  <2>2. Headed'
    BY <1>1, <2>1, HeadOut
  <2>3. plan.profile \in DOMAIN Schema
    BY <2>1, SchemaAssumption
  <2> QED BY <1>1, <2>1, <2>2, <2>3 DEF PhaseInv, Early
<1>5. CASE ReadBounded /\ ~WriteError
  <2>1. client' = client /\ phase' = "rewrite" /\ plan.profile \in DOMAIN Schema \ Streaming
    BY <1>5 DEF ReadBounded
  <2>2. Fresh'
    BY <1>1, <2>1 DEF Fresh, Shape
  <2> QED BY <1>1, <2>1, <2>2 DEF PhaseInv, Early
<1> QED BY <1>2, <1>3, <1>4, <1>5

\* The body of an object ends cleanly only when all of it was read.
LEMMA ObjectEnds == ASSUME PhaseInv, EndObject \/ BreakObject PROVE PhaseInv'
<1>1. CASE EndObject
  <2>1. /\ Headed /\ plan.profile = "object" /\ ~outside /\ ~pending /\ stack = <<>>
        /\ client' = [client EXCEPT !.end = "clean"] /\ phase' = "done" /\ plan' = plan
        /\ outside' = outside /\ pending' = pending /\ stack' = stack /\ whole'
    BY <1>1 DEF PhaseInv, EndObject, rewriter
  <2>2. Clean'
    BY <2>1 DEF Headed, Shape, Clean
  <2>3. "object" \notin DOMAIN Schema
    BY SchemaAssumption
  <2>4. WholeBody'
    BY <2>1, <2>3 DEF WholeBody
  <2> QED BY <2>1, <2>2, <2>4 DEF PhaseInv, Early
<1>2. CASE BreakObject
  BY <1>2, FailHolds DEF BreakObject
<1> QED BY <1>1, <1>2

\* A token of a document is passed on, or the response fails.
LEMMA TokenPasses ==
  ASSUME PhaseInv, phase = "rewrite", UNCHANGED <<plan, phase, client>>, ~outside'
  PROVE  PhaseInv'
<1>1. (Fresh => Fresh') /\ (Headed => Headed')
  BY DEF Fresh, Headed, Shape
<1> QED BY <1>1 DEF PhaseInv, Early

\* An element is skipped, passed on or refused.
LEMMA ElementHolds ==
  ASSUME PhaseInv, NEW n \in Names,
         RefuseElement(n) \/ SkipElement(n) \/ OpenElement(n) \/ WriteIdentity(n) \/ RewriteField(n)
  PROVE  PhaseInv'
<1>1. phase = "rewrite" /\ plan' = plan
  BY DEF RefuseElement, SkipElement, OpenElement, WriteIdentity, RewriteField, AtElement, response
<1>2. CASE Fail
  BY <1>1, <1>2, FailHolds
<1>3. CASE SkipElement(n) \/ OpenElement(n) \/ WriteIdentity(n)
  <2>1. UNCHANGED <<phase, client>> /\ ~outside'
    BY <1>1, <1>3 DEF SkipElement, OpenElement, WriteIdentity, response, history, PhaseInv
  <2> QED BY <1>1, <2>1, TokenPasses
<1>4. CASE RewriteField(n) /\ ~Fail
  <2>1. PICK text \in Texts[Class(Append(stack, n))] :
          /\ outside' = (outside \/ text = "outside")
          /\ TextOK(Append(stack, n), text)
          /\ UNCHANGED <<phase, client>>
    BY <1>4 DEF RewriteField
  <2>2. ~outside'
    BY <1>1, <2>1 DEF TextOK, PhaseInv
  <2> QED BY <1>1, <2>1, <2>2, TokenPasses
<1> QED BY <1>2, <1>3, <1>4 DEF RefuseElement

\* So is any other token.
LEMMA OtherTokenHolds ==
  ASSUME PhaseInv, CloseElement \/ CharData \/ BreakDocument
  PROVE  PhaseInv'
<1>1. phase = "rewrite" /\ plan' = plan
  BY DEF CloseElement, CharData, BreakDocument
<1>2. CASE Fail
  BY <1>1, <1>2, FailHolds
<1>3. CASE ~Fail
  BY <1>1, <1>3, TokenPasses DEF CloseElement, CharData, BreakDocument, history, PhaseInv
<1> QED BY <1>2, <1>3

\* A document ends cleanly only when it is complete.
LEMMA EndHolds == ASSUME PhaseInv, EndDocument PROVE PhaseInv'
<1>1. /\ phase = "rewrite" /\ stack = <<>> /\ whole' /\ ~outside /\ plan.profile \in DOMAIN Schema
      /\ UNCHANGED <<plan, stack, seenRoot, seenFields, truncated, emptyMarker, outside>>
  BY DEF EndDocument, PhaseInv
<1>2. CASE Fail
  BY <1>1, <1>2, FailHolds
<1>3. CASE DocumentOK /\ plan.profile \in Streaming /\ ~pending'
           /\ client' = [client EXCEPT !.end = "clean"] /\ phase' = "done"
  <2>1. Headed
    BY <1>1, <1>3 DEF PhaseInv
  <2>2. Clean'
    BY <1>3, <2>1 DEF Headed, Shape, Clean
  <2>3. DocumentOK'
    BY <1>1, <1>3 DEF DocumentOK
  <2>4. WholeBody'
    BY <1>1, <1>3, <2>3 DEF WholeBody
  <2> QED BY <1>3, <2>2, <2>4 DEF PhaseInv, Early
<1>4. CASE DocumentOK /\ plan.profile \notin Streaming /\ ~pending'
           /\ client' = WithHead("clean") /\ phase' = "done"
  <2>1. Fresh
    BY <1>1, <1>4 DEF PhaseInv
  <2>2. Clean'
    BY <1>4, <2>1 DEF Fresh, Shape, Clean, WithHead
  <2>3. DocumentOK'
    BY <1>1, <1>4 DEF DocumentOK
  <2>4. WholeBody'
    BY <1>1, <1>4, <2>3 DEF WholeBody
  <2> QED BY <1>4, <2>2, <2>4 DEF PhaseInv, Early
<1>5. CASE plan.profile \notin Streaming /\ WriteError
  <2>1. Fresh
    BY <1>1, <1>5 DEF PhaseInv
  <2> QED BY <1>5, <2>1, ErrorHolds
<1> QED BY <1>2, <1>3, <1>4, <1>5 DEF EndDocument, Flush

\* Every step of a response keeps the invariant.
LEMMA ResponseHolds == ASSUME PhaseInv, ResponseNext PROVE PhaseInv'
<1>1. CASE Token
  BY <1>1, ElementHolds, OtherTokenHolds, EndHolds DEF Token
<1> QED BY <1>1, BeforeBody, BodyStarts, ObjectEnds DEF ResponseNext

(***************************************************************************)
(* The steps of the gateway before a request is sent.                      *)
(***************************************************************************)
\* Nothing is written before a request is sent but a refusal.
LEMMA GatewayHolds ==
  ASSUME PhaseInv,
         Authenticate \/ PlanRequest \/ Deny \/ Dispatch \/ Forward \/ Send
  PROVE  PhaseInv'
<1>1. phase \in Early /\ Fresh /\ ~outside /\ ~pending /\ stack = <<>>
  BY DEF PhaseInv, Early, Authenticate, PlanRequest, Deny, Dispatch, Forward, Send
<1>2. CASE Refuse
  BY <1>1, <1>2, ErrorHolds DEF Refuse
<1>3. CASE ~Refuse
  <2>1. /\ phase' \in Early
        /\ UNCHANGED <<client, outside, pending, stack>>
    BY <1>3 DEF Authenticate, PlanRequest, Deny, Dispatch, Forward, Send, Early, rewriter, history
  <2>2. Fresh'
    BY <1>1, <2>1 DEF Fresh, Shape
  <2> QED BY <1>1, <2>1, <2>2 DEF PhaseInv, Early
<1> QED BY <1>2, <1>3

\* Nothing is written at the beginning.
LEMMA InitHolds == ASSUME Unanswered, phase \in Early PROVE PhaseInv
<1>1. Fresh
  BY DEF Unanswered, Fresh, Shape
<1> QED BY <1>1 DEF Unanswered, PhaseInv, Early

\* Every step keeps the invariant.
LEMMA StepHolds == PhaseInv /\ [GatewayNext]_<<response, gateway>> => PhaseInv'
<1> SUFFICES ASSUME PhaseInv, [GatewayNext]_<<response, gateway>>
             PROVE  PhaseInv'
  OBVIOUS
<1>1. CASE UNCHANGED <<response, gateway>>
  BY <1>1 DEF response, rewriter, history, PhaseInv, Fresh, Headed, Own, Clean, Aborted, Shape,
              WholeBody, DocumentOK, HasBody, HeadOnly
<1>2. CASE Respond
  BY <1>2, ResponseHolds DEF Respond
<1> QED BY <1>1, <1>2, GatewayHolds DEF GatewayNext

\* What the client has fits the phase of the proxy, whatever arrives and whatever
\* the real S3 answers.
THEOREM PhaseInvariant == GatewaySpec => []PhaseInv
<1>1. GatewayInit => PhaseInv
  BY InitHolds DEF GatewayInit, Early
<1> QED BY <1>1, StepHolds, PTL DEF GatewaySpec

\* A response that ends cleanly is one response and has the whole body, for all
\* response tables (proxyS3Request, rewriteNamespaceXML).
THEOREM CleanIsWhole == GatewaySpec => []CleanMeansWhole
<1>1. PhaseInv => CleanMeansWhole
  BY PhaseGives
<1> QED BY <1>1, PhaseInvariant, PTL

\* A document that does not stream is all or nothing, for all response tables.
THEOREM BoundedAllOrNothing == GatewaySpec => []BoundedIsAtomic
<1>1. PhaseInv => BoundedIsAtomic
  BY PhaseGives
<1> QED BY <1>1, PhaseInvariant, PTL

(***************************************************************************)
(* Text: the open elements are containers or plain, so an element in which  *)
(* text may stand is plain.                                                 *)
(***************************************************************************)
Openable(path) == Known(path) /\ Class(path) \in {"container", "plain"}

AllOpenable(s) == \A i \in 1..Len(s) : Openable(SubSeq(s, 1, i))

TextInv ==
  /\ stack \in Seq(Names)
  /\ phase \in Early \cup {"copy"} => output.text # "raw"
  /\ phase = "rewrite" => AllOpenable(stack)
  /\ OnlyPlainTextIsRaw

\* Opening an element keeps the stack one of containers and plain elements.
LEMMA AppendOpenable ==
  ASSUME NEW s \in Seq(Names), NEW n \in Names, AllOpenable(s), Openable(Append(s, n))
  PROVE  AllOpenable(Append(s, n))
<1> DEFINE t == Append(s, n)
<1>1. t \in Seq(Names) /\ Len(t) = Len(s) + 1 /\ Len(s) \in Nat
  OBVIOUS
<1>2. ASSUME NEW i \in 1..Len(t)
      PROVE  Openable(SubSeq(t, 1, i))
  <2>1. CASE i = Len(t)
    <3>1. SubSeq(t, 1, i) = t
      BY <1>1, <2>1
    <3> QED BY <3>1
  <2>2. CASE i # Len(t)
    <3>1. i \in 1..Len(s)
      BY <1>1, <2>2
    <3>2. SubSeq(t, 1, i) = SubSeq(s, 1, i)
      BY <3>1
    <3> HIDE DEF t
    <3> QED BY <3>1, <3>2 DEF AllOpenable
  <2> QED BY <2>1, <2>2
<1> QED BY <1>2 DEF AllOpenable

\* So does closing one.
LEMMA PopOpenable ==
  ASSUME NEW s \in Seq(Names), s # <<>>, AllOpenable(s)
  PROVE  LET t == SubSeq(s, 1, Len(s) - 1) IN t \in Seq(Names) /\ AllOpenable(t)
<1> DEFINE t == SubSeq(s, 1, Len(s) - 1)
<1>1. Len(s) \in Nat /\ Len(s) >= 1
  OBVIOUS
<1>2. t \in Seq(Names) /\ Len(t) = Len(s) - 1 /\ \A i \in 1..(Len(s) - 1) : t[i] = s[i]
  <2> DEFINE n == Len(s) - 1
  <2>1. n \in Nat /\ \A i \in 1..n : i \in 1..Len(s)
    BY <1>1
  <2> HIDE DEF n
  <2>2. SubSeq(s, 1, n) \in Seq(Names)
    BY <2>1
  <2>3. Len(SubSeq(s, 1, n)) = n
    BY <2>1
  <2>4. \A i \in 1..n : SubSeq(s, 1, n)[i] = s[i]
    BY <2>1
  <2> QED BY <2>2, <2>3, <2>4 DEF n
<1> HIDE DEF t
<1>3. ASSUME NEW i \in 1..Len(t)
      PROVE  Openable(SubSeq(t, 1, i))
  <2>1. i \in 1..Len(s)
    BY <1>1, <1>2
  <2>2. SubSeq(t, 1, i) = SubSeq(s, 1, i)
    BY <1>1, <1>2
  <2> QED BY <2>1, <2>2 DEF AllOpenable
<1>4. t \in Seq(Names) /\ AllOpenable(t)
  BY <1>2, <1>3 DEF AllOpenable
<1> QED BY <1>4 DEF t

\* An open element that has no elements of its own is plain.
LEMMA TextIsPlain ==
  ASSUME TextInv, phase = "rewrite", plan.profile \in DOMAIN Schema, TextPlaced
  PROVE  Known(stack) /\ Class(stack) = "plain"
<1>1. Known(stack) /\ ~IsContainer(stack)
  BY DEF TextPlaced
<1>2. stack # <<>>
  <2>1. <<>> \notin DOMAIN Schema[plan.profile]
    BY SchemaAssumption
  <2>2. <<"root">> # <<>>
    OBVIOUS
  <2> QED BY <1>1, <2>1, <2>2 DEF Known
<1>3. Len(stack) \in 1..Len(stack) /\ SubSeq(stack, 1, Len(stack)) = stack
  BY <1>2 DEF TextInv
<1>4. Class(stack) \in {"container", "plain"}
  BY <1>3 DEF TextInv, AllOpenable, Openable
<1>5. Class(stack) # "container"
  <2> SUFFICES ASSUME Class(stack) = "container"
               PROVE  FALSE
    OBVIOUS
  <2>1. /\ stack \in DOMAIN Schema[plan.profile] \cup {<<"root">>}
        /\ stack = <<"root">> \/ Schema[plan.profile][stack] = "container"
    BY <1>1 DEF Known, Class
  <2>2. \E q \in DOMAIN Schema[plan.profile] :
          Len(q) > Len(stack) /\ SubSeq(q, 1, Len(stack)) = stack
    BY <2>1, SchemaAssumption
  <2> QED BY <1>1, <2>2 DEF IsContainer
<1> QED BY <1>1, <1>4, <1>5

\* A step after which the response goes on or ends, with plan and output as they were.
LEMMA TextKept ==
  ASSUME TextInv, UNCHANGED <<plan, stack, output>>,
         \/ phase' = phase
         \/ phase' = "done"
         \/ phase' = "rewrite" /\ stack = <<>>
         \/ phase' = "copy" /\ phase \in Early
         \/ phase' \in Early /\ phase \in Early
  PROVE  TextInv'
<1>1. OnlyPlainTextIsRaw'
  BY DEF TextInv, OnlyPlainTextIsRaw, Known, Class
<1>2. AllOpenable(stack) => AllOpenable(stack)'
  BY DEF AllOpenable, Openable, Known, Class
<1>3. stack = <<>> => AllOpenable(stack)
  BY DEF AllOpenable
<1>4. phase' \in Early \cup {"copy"} => output'.text # "raw"
  BY DEF TextInv, Early
<1>5. phase' = "rewrite" => AllOpenable(stack)'
  BY <1>2, <1>3 DEF TextInv, Early
<1> QED BY <1>1, <1>4, <1>5 DEF TextInv

\* A failure ends the response.
LEMMA FailEnds == ASSUME Fail PROVE phase' = "done"
BY DEF Fail, WriteError, Abort

\* A token keeps the invariant about text.
LEMMA TokenText ==
  ASSUME PhaseInv, TextInv, Token
  PROVE  TextInv'
<1>1. phase = "rewrite" /\ plan.profile \in DOMAIN Schema /\ plan' = plan
  <2>1. phase = "rewrite" /\ plan' = plan
    BY DEF Token, RefuseElement, SkipElement, OpenElement, WriteIdentity, RewriteField,
           CloseElement, CharData, BreakDocument, EndDocument, AtElement, response
  <2> QED BY <2>1 DEF PhaseInv
<1>2. ASSUME UNCHANGED <<stack, output>>, phase' = phase \/ phase' = "done"
      PROVE  TextInv'
  BY <1>1, <1>2, TextKept
<1>3. ASSUME stack' = stack, output'.text = "virtual", phase' = phase
      PROVE  TextInv'
  <2>1. OnlyPlainTextIsRaw'
    BY <1>3 DEF OnlyPlainTextIsRaw
  <2>2. AllOpenable(stack)'
    BY <1>1, <1>3 DEF TextInv, AllOpenable, Openable, Known, Class
  <2> QED BY <1>1, <1>3, <2>1, <2>2 DEF TextInv
<1>4. ASSUME NEW n \in Names,
             RefuseElement(n) \/ SkipElement(n) \/ OpenElement(n) \/ WriteIdentity(n)
               \/ RewriteField(n)
      PROVE  TextInv'
  <2>1. CASE RefuseElement(n)
    BY <1>2, <2>1, FailEnds DEF RefuseElement, rewriter
  <2>2. CASE SkipElement(n)
    BY <1>2, <2>2 DEF SkipElement, response, rewriter
  <2>3. CASE OpenElement(n)
    <3>1. /\ stack' = Append(stack, n) /\ Openable(Append(stack, n))
          /\ output' = output /\ phase' = phase
      BY <2>3 DEF OpenElement, Openable
    <3>2. stack \in Seq(Names) /\ AllOpenable(stack)
      BY <1>1 DEF TextInv
    <3>3. Append(stack, n) \in Seq(Names) /\ AllOpenable(Append(stack, n))
      BY <3>1, <3>2, AppendOpenable
    <3>4. AllOpenable(stack)'
      BY <1>1, <3>1, <3>3 DEF AllOpenable, Openable, Known, Class
    <3>5. OnlyPlainTextIsRaw'
      BY <1>1, <3>1 DEF TextInv, OnlyPlainTextIsRaw, Known, Class
    <3> QED BY <1>1, <3>1, <3>3, <3>4, <3>5 DEF TextInv, Early
  <2>4. CASE WriteIdentity(n)
    BY <1>3, <2>4 DEF WriteIdentity
  <2>5. CASE RewriteField(n)
    <3>1. CASE Fail
      <4>1. stack' = stack /\ phase' = "done"
        BY <2>5, <3>1, FailEnds DEF RewriteField
      <4>2. output' = output \/ output'.text = "virtual"
        BY <2>5 DEF RewriteField
      <4>3. CASE output' = output
        BY <1>2, <4>1, <4>3
      <4>4. CASE output'.text = "virtual"
        BY <4>1, <4>4 DEF TextInv, OnlyPlainTextIsRaw, Early
      <4> QED BY <4>2, <4>3, <4>4
    <3>2. CASE ~Fail
      BY <1>3, <2>5, <3>2 DEF RewriteField
    <3> QED BY <3>1, <3>2
  <2> QED BY <1>4, <2>1, <2>2, <2>3, <2>4, <2>5
<1>5. CASE CloseElement
  <2>1. CASE Fail
    <3>1. phase' = "done" /\ output' = output /\ stack' \in {stack, SubSeq(stack, 1, Len(stack) - 1)}
      BY <1>5, <2>1, FailEnds DEF CloseElement
    <3>2. stack' \in Seq(Names)
      BY <1>1, <1>5, <3>1, PopOpenable DEF TextInv, CloseElement
    <3>3. OnlyPlainTextIsRaw'
      BY <1>1, <3>1 DEF TextInv, OnlyPlainTextIsRaw, Known, Class
    <3> QED BY <3>1, <3>2, <3>3 DEF TextInv, Early
  <2>2. CASE ~Fail
    <3> DEFINE t == SubSeq(stack, 1, Len(stack) - 1)
    <3>1. stack' = t /\ phase' = phase /\ output' = output
      BY <1>5, <2>2 DEF CloseElement
    <3>2. t \in Seq(Names) /\ AllOpenable(t)
      BY <1>1, <1>5, PopOpenable DEF TextInv, CloseElement
    <3> HIDE DEF t
    <3>3. AllOpenable(stack)'
      BY <1>1, <3>1, <3>2 DEF AllOpenable, Openable, Known, Class
    <3>4. OnlyPlainTextIsRaw'
      BY <1>1, <3>1 DEF TextInv, OnlyPlainTextIsRaw, Known, Class
    <3> QED BY <1>1, <3>1, <3>2, <3>3, <3>4 DEF TextInv, Early
  <2> QED BY <2>1, <2>2
<1>6. CASE CharData
  <2>1. CASE TextPlaced
    <3>1. /\ output' = [path |-> stack, text |-> "raw"] /\ stack' = stack /\ phase' = phase
          /\ Known(stack) /\ Class(stack) = "plain"
      BY <1>1, <1>6, <2>1, TextIsPlain DEF CharData
    <3>2. output'.path = stack
      BY <3>1
    <3>3. OnlyPlainTextIsRaw'
      BY <1>1, <3>1, <3>2 DEF OnlyPlainTextIsRaw, Known, Class
    <3>4. AllOpenable(stack)'
      BY <1>1, <3>1 DEF TextInv, AllOpenable, Openable, Known, Class
    <3> QED BY <1>1, <3>1, <3>3, <3>4 DEF TextInv, Early
  <2>2. CASE ~TextPlaced
    BY <1>2, <1>6, <2>2, FailEnds DEF CharData
  <2> QED BY <2>1, <2>2
<1>7. CASE BreakDocument
  BY <1>2, <1>7, FailEnds DEF BreakDocument, rewriter
<1>8. CASE EndDocument
  BY <1>2, <1>8, FailEnds DEF EndDocument, WriteError
<1> QED BY <1>4, <1>5, <1>6, <1>7, <1>8 DEF Token

\* So does what happens before the first token and after the last.
LEMMA OtherText ==
  ASSUME PhaseInv, TextInv,
         \/ RefuseLocally \/ Answer \/ Redirect \/ WriteHeadOnly \/ WriteUpstreamError
         \/ StartObject \/ EndObject \/ BreakObject \/ StartListing \/ ReadBounded
  PROVE  TextInv'
<1>1. UNCHANGED <<plan, stack, output>> /\ phase \in Early \cup {"copy"}
  BY DEF RefuseLocally, Answer, Redirect, WriteHeadOnly, WriteUpstreamError, StartObject,
         EndObject, BreakObject, StartListing, ReadBounded, rewriter, Early
<1>2. phase' \in {"done", "answered", "copy", "rewrite"} /\ (phase = "copy" => phase' = "done")
  BY FailEnds DEF RefuseLocally, Answer, Redirect, WriteHeadOnly, WriteUpstreamError, StartObject,
         EndObject, BreakObject, StartListing, ReadBounded, WriteError
<1>3. stack = <<>>
  BY <1>1 DEF PhaseInv
<1> QED BY <1>1, <1>2, <1>3, TextKept DEF Early

\* No text is out before a request is sent.
LEMMA GatewayText ==
  ASSUME PhaseInv, TextInv,
         Authenticate \/ PlanRequest \/ Deny \/ Dispatch \/ Forward \/ Send
  PROVE  TextInv'
<1>1. /\ phase \in Early /\ UNCHANGED <<stack, output>>
      /\ phase' \in Early \cup {"done"}
  BY DEF Authenticate, PlanRequest, Deny, Dispatch, Forward, Send, Refuse, WriteError, rewriter,
         Early
<1>2. output.text # "raw"
  BY <1>1 DEF TextInv
<1> QED BY <1>1, <1>2 DEF TextInv, OnlyPlainTextIsRaw, Early

\* Text of the upstream passes unchanged only in plain elements, for all response
\* tables (rewriteNamespaceXML, responsePathIsContainer).
THEOREM RawTextIsPlain == GatewaySpec => []OnlyPlainTextIsRaw
<1>1. GatewayInit => TextInv
  <2> SUFFICES ASSUME GatewayInit
               PROVE  TextInv
    OBVIOUS
  <2>1. stack = <<>> /\ output.text # "raw" /\ phase \in Early
    BY DEF GatewayInit, Unanswered, Nothing, Early
  <2> QED BY <2>1 DEF TextInv, OnlyPlainTextIsRaw, Early
<1>2. PhaseInv /\ TextInv /\ [GatewayNext]_<<response, gateway>> => TextInv'
  <2> SUFFICES ASSUME PhaseInv, TextInv, [GatewayNext]_<<response, gateway>>
               PROVE  TextInv'
    OBVIOUS
  <2>1. CASE UNCHANGED <<response, gateway>>
    BY <2>1, TextKept DEF response, rewriter
  <2>2. CASE Respond
    BY <2>2, TokenText, OtherText DEF Respond, ResponseNext
  <2> QED BY <2>1, <2>2, GatewayText DEF GatewayNext
<1>3. TextInv => OnlyPlainTextIsRaw
  BY DEF TextInv
<1> QED BY <1>1, <1>2, <1>3, PhaseInvariant, PTL DEF GatewaySpec
=============================================================================
