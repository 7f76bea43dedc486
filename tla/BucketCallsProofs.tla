-------------------------- MODULE BucketCallsProofs --------------------------
(***************************************************************************)
(* Proofs about BucketCalls, for any number of creates and lists under way *)
(* and on top of all that ControlPlaneProofs shows of the client: what a   *)
(* call returns agrees with the world and with what other calls returned.  *)
(***************************************************************************)
EXTENDS BucketCalls, ControlPlaneProofs

(***************************************************************************)
(* The inductive invariant.                                                *)
(***************************************************************************)
BucketCall ==
  [at: {"idle", "create", "created", "list", "listed", "stamped", "checked", "answered"},
   revision: Nat, epoch: Nat, resp: Nat, buckets: SUBSET Entities,
   committed: BOOLEAN, status: {"none", "200", "400", "403", "409", "502", "503"}]

\* What a call under way holds was true when it was read and is still part of
\* the history of the world; only an executed create is marked committed.
CallFits(c) ==
  /\ call[c].at \notin {"idle", "answered"} => call[c].revision \in 1..revision
  /\ call[c].at = "created" => call[c].resp \in (call[c].revision + 1)..newest
  /\ call[c].at = "listed" =>
       call[c].resp \in call[c].revision..newest /\ call[c].buckets = BucketsAt(call[c].resp)
  /\ call[c].at \in {"stamped", "checked"} => call[c].buckets = BucketsAt(call[c].revision)
  /\ call[c].committed => call[c].at \in {"created", "answered"}

\* The history of confirmed creates is covered by the evidence that the client
\* keeps, until it shuts down and takes no more of it.
CallsInv ==
  /\ CPInv
  /\ call \in [Callers -> BucketCall] /\ confirmed \in Nat
  /\ \A c \in Callers : CallFits(c)
  /\ state # "Shutdown" => confirmed <= evidence
  /\ CommittedIsNotRefused

(***************************************************************************)
(* The steps of the client and of other calls.                             *)
(***************************************************************************)

\* No step shortens the history, moves the client back, makes it forget what it
\* has heard of, or ends its shutdown.
LEMMA HistoryGrows ==
  ASSUME CPInv, [CPNext]_cpState
  PROVE  /\ revision \in Nat /\ revision' \in Nat /\ revision' >= revision
         /\ newest \in Nat /\ newest' \in Nat /\ newest' >= newest
         /\ \A r \in 1..newest : log'[r] = log[r]
         /\ evidence \in Nat /\ evidence' \in Nat /\ evidence' >= evidence
         /\ state = "Shutdown" => state' = "Shutdown"
<1>1. CPInv' /\ [Next]_syncState
  BY CPNextInv, StepIsClientStep
<1>2. revision' >= revision /\ (state = "Shutdown" => state' = "Shutdown")
  BY <1>1, PairStep, ShutdownStep, CoreFacts
<1>3. newest' >= newest /\ \A r \in 1..newest : log'[r] = log[r]
  <2>1. CASE Change
    BY <2>1, ChangeGrows, CoreFacts DEF Change
  <2>2. CASE UNCHANGED log
    BY <2>2, CoreFacts DEF newest
  <2> QED
    BY <2>1, <2>2
    DEF CPNext, Undisturbed, Uncached, SendFrame, SendBegin, SendHost, SendSnapshotBarrier,
        SendReplayBarrier, SendMutation, SendHeartbeat, ClientStep, ServeWatch, ClientSignal,
        Answer, LookupStep, Fault, ResetStream, cpState
<1>4. revision' \in Nat /\ newest' \in Nat /\ evidence' \in Nat
  <2>1. TypeOK' /\ log' \in Seq(Version')
    BY <1>1 DEF CPInv, CPTypeOK, WorldInv
  <2>2. newest' \in Nat
    BY <2>1 DEF newest
  <2>3. revision' \in Nat /\ evidence' \in Nat
    BY <2>1, SyncAssumption DEF TypeOK
  <2> QED BY <2>2, <2>3
<1>5. evidence' >= evidence
  BY <1>1, EvidenceGrows, CoreFacts
<1> QED BY <1>1, <1>2, <1>3, <1>4, <1>5, CoreFacts

\* So what a call holds stays true while other steps are taken.
LEMMA CallKept ==
  ASSUME CallsInv, [CPNext]_cpState, NEW c \in Callers, call'[c] = call[c]
  PROVE  CallFits(c)'
<1>1. /\ CallFits(c) /\ CPInv
      /\ call[c].revision \in Nat /\ call[c].resp \in Nat
  BY DEF CallsInv, BucketCall
<1>2. \A r \in 1..newest : BucketsAt(r)' = BucketsAt(r)
  BY <1>1, HistoryGrows DEF BucketsAt
<1>3. /\ revision \in Nat /\ revision' \in Nat /\ revision <= newest /\ revision' >= revision
      /\ newest \in Nat /\ newest' \in Nat /\ newest' >= newest
  BY <1>1, HistoryGrows, CoreFacts
<1> HIDE DEF newest
<1>4. call[c].at \notin {"idle", "answered"} =>
        call[c].revision \in 1..revision' /\ call[c].revision \in 1..newest
  BY <1>1, <1>3 DEF CallFits
<1>5. call[c].at = "created" => call[c].resp \in (call[c].revision + 1)..newest'
  BY <1>1, <1>3 DEF CallFits
<1>6. call[c].at = "listed" =>
        call[c].resp \in call[c].revision..newest' /\ call[c].buckets = BucketsAt(call[c].resp)'
  <2> SUFFICES ASSUME call[c].at = "listed"
               PROVE  /\ call[c].resp \in call[c].revision..newest'
                      /\ call[c].buckets = BucketsAt(call[c].resp)'
    OBVIOUS
  <2>1. /\ call[c].resp \in call[c].revision..newest
        /\ call[c].buckets = BucketsAt(call[c].resp)
    BY <1>1 DEF CallFits
  <2>2. call[c].resp \in 1..newest /\ call[c].resp \in call[c].revision..newest'
    BY <1>1, <1>3, <1>4, <2>1
  <2> QED BY <1>2, <2>1, <2>2
<1>7. call[c].at \in {"stamped", "checked"} => call[c].buckets = BucketsAt(call[c].revision)'
  BY <1>1, <1>2, <1>4 DEF CallFits
<1> QED BY <1>1, <1>4, <1>5, <1>6, <1>7, Zenon DEF CallFits

\* A step of one call is judged by what becomes of that call.
LEMMA OneCall ==
  ASSUME CallsInv, [CPNext]_cpState, NEW c \in Callers, NEW k \in BucketCall,
         call' = [call EXCEPT ![c] = k], CallFits(c)',
         k.committed /\ k.at = "answered" => k.status \in {"200", "502", "503"}
  PROVE  /\ call' \in [Callers -> BucketCall]
         /\ \A x \in Callers : CallFits(x)'
         /\ CommittedIsNotRefused'
<1>1. call \in [Callers -> BucketCall] /\ CommittedIsNotRefused
  BY DEF CallsInv
<1>2. call'[c] = k /\ \A x \in Callers \ {c} : call'[x] = call[x]
  BY <1>1
<1>3. \A x \in Callers : CallFits(x)'
  BY <1>2, CallKept
<1>4. call' \in [Callers -> BucketCall]
  BY <1>1
<1>5. CommittedIsNotRefused'
  BY <1>1, <1>2 DEF CommittedIsNotRefused
<1> QED BY <1>3, <1>4, <1>5

\* The invariant without the part about the control plane and the client.
CallsFit ==
  /\ call \in [Callers -> BucketCall] /\ confirmed \in Nat
  /\ \A c \in Callers : CallFits(c)
  /\ state # "Shutdown" => confirmed <= evidence
  /\ CommittedIsNotRefused

\* Every step, of a call or of anything else, is one that ControlPlane allows:
\* a create is a change of the world, and its answer one of a unary call.
LEMMA CallIsCPStep ==
  ASSUME CallsInv, [CallsNext]_bucketState
  PROVE  [CPNext]_cpState
<1>1. CASE UNCHANGED bucketState
  BY <1>1 DEF bucketState
<1>2. CASE CPNext
  BY <1>2
<1>3. ASSUME NEW c \in Callers, CreateStep(c) \/ ListStep(c) PROVE [CPNext]_cpState
  <2>a. CallFits(c) /\ CPInv
    BY DEF CallsInv
  <2>1. CASE CommitCreate(c)
    <3>1. ChangeWorld /\ UNCHANGED <<syncState, feed>>
      BY <2>1 DEF CommitCreate, ChangeWorld
    <3> QED BY <3>1 DEF Change, CPNext, Undisturbed, Uncached
  <2>2. CASE ReturnCreate(c)
    <3>1. /\ call[c].revision \in 1..revision
          /\ call[c].resp \in (call[c].revision + 1)..newest
          /\ CreateReply(call[c].resp, call[c].revision) /\ UNCHANGED <<log, feed>>
      BY <2>2, <2>a DEF ReturnCreate, CallIs, CallFits
    <3> QED BY <3>1 DEF AnswerCreate, Answer, CPNext, Undisturbed, Uncached
  <2>3. CASE CheckListRevision(c) /\ call[c].resp # call[c].revision
    <3>1. /\ call[c].revision \in 1..revision
          /\ call[c].resp \in call[c].revision..newest
          /\ CheckUnaryRevision(call[c].resp, call[c].revision) /\ UNCHANGED <<log, feed>>
      BY <2>3, <2>a DEF CheckListRevision, CallIs, CallFits
    <3> QED BY <3>1 DEF AnswerAhead, Answer, CPNext, Undisturbed, Uncached
  <2>4. CASE UNCHANGED cpState
    BY <2>4
  <2> QED
    BY <1>3, <2>1, <2>2, <2>3, <2>4, Zenon
    DEF CreateStep, ListStep, StartCall, RefuseCreate, LoseCreate, AnswerList, FailList,
        CheckListRevision, CheckListStamp, RejectList, ReturnList
<1> QED BY <1>1, <1>2, <1>3 DEF CallsNext, CallStep

\* Answering a call, with a status that does not deny a committed create.
LEMMA AnsweredFits ==
  ASSUME CallsInv, [CPNext]_cpState, NEW c \in Callers,
         NEW s \in {"200", "400", "403", "409", "502", "503"}, Answered(c, s),
         call[c].committed => s \in {"200", "502", "503"},
         confirmed' \in Nat, state' # "Shutdown" => confirmed' <= evidence'
  PROVE  CallsFit'
<1> DEFINE k == [NoBucketCall EXCEPT
                   !.at = "answered", !.status = s, !.committed = call[c].committed]
<1>1. call[c] \in BucketCall
  BY DEF CallsInv
<1>2. call[c].committed \in BOOLEAN
  BY <1>1 DEF BucketCall
<1>3. /\ k \in BucketCall /\ k.at = "answered" /\ k.status = s
      /\ k.committed = call[c].committed
  BY <1>2, Zenon DEF NoBucketCall, BucketCall
<1>4. call' = [call EXCEPT ![c] = k]
  BY DEF Answered
<1>5. call'[c] = k
  BY <1>4 DEF CallsInv
<1> HIDE DEF k
<1>6. CallFits(c)'
  BY <1>3, <1>5 DEF CallFits
<1> QED BY <1>3, <1>4, <1>6, OneCall, Zenon DEF CallsFit

\* The statuses that the errors of the control plane end in: a transport error
\* never ends in a refusal.
LEMMA Statuses ==
  ASSUME NEW code \in Codes
  PROVE  /\ CreateStatus(CreateError(code)) \in {"400", "403", "409", "502", "503"}
         /\ ResolverStatus(ListError(code)) \in {"400", "403", "409", "502", "503"}
         /\ code \in TransportCodes => CreateStatus(CreateError(code)) \in {"502", "503"}
<1>1. ResolverError(code) \in {"notFound", "denied", "throttled", "unavailable"}
  BY DEF ResolverError
<1>2. code \in TransportCodes =>
        CreateError(code) \in {"throttled", "unavailable"}
  BY DEF TransportCodes, CreateError, ResolverError
<1>3. CreateError(code) \in {"ownedByYou", "exists", "invalidArgument", "denied",
                             "notFound", "throttled", "unavailable"}
  BY <1>1 DEF CreateError
<1>4. ListError(code) \in {"denied", "notFound", "throttled", "unavailable"}
  BY <1>1 DEF ListError
<1> QED BY <1>2, <1>3, <1>4 DEF CreateStatus, ResolverStatus

(***************************************************************************)
(* Preservation of the invariant.                                          *)
(***************************************************************************)

\* The calls start idle, with nothing confirmed.
LEMMA CallsInitInv == CallsInit => CallsInv
<1> SUFFICES ASSUME CallsInit PROVE CallsInv
  OBVIOUS
<1>1. CPInv
  BY CPInitInv DEF CallsInit
<1>2. NoBucketCall \in BucketCall
  BY DEF NoBucketCall, BucketCall
<1>3. call = [c \in Callers |-> NoBucketCall] /\ confirmed = 0
  BY DEF CallsInit
<1>4. \A c \in Callers : CallFits(c)
  BY <1>3 DEF CallFits, NoBucketCall
<1>5. CommittedIsNotRefused
  BY <1>3 DEF CommittedIsNotRefused, NoBucketCall
<1> QED BY <1>1, <1>2, <1>3, <1>4, <1>5, CoreFacts DEF CallsInv

\* The steps that leave the client alone and do not answer.
LEMMA CallAdvances ==
  ASSUME CallsInv, NEW c \in Callers,
         \/ StartCall(c, "create") \/ StartCall(c, "list") \/ AnswerList(c)
         \/ CheckListRevision(c) /\ call[c].resp = call[c].revision
         \/ CheckListStamp(c) /\ SnapshotCurrent(c)
         \/ CommitCreate(c)
  PROVE  CallsFit'
<1>a. call[c] \in BucketCall /\ CallFits(c) /\ CPInv /\ confirmed \in Nat
  BY Zenon DEF CallsInv
<1>b. [CPNext]_cpState /\ confirmed' = confirmed /\ UNCHANGED syncState
  <2>1. [CallsNext]_bucketState
    BY DEF CallsNext, CallStep, CreateStep, ListStep
  <2> QED
    BY <2>1, CallIsCPStep, Zenon
    DEF StartCall, AnswerList, CheckListRevision, CheckListStamp, CommitCreate, cpState
<1>c. state' # "Shutdown" => confirmed' <= evidence'
  BY <1>b DEF CallsInv, syncState
<1>d. ASSUME NEW k \in BucketCall, call' = [call EXCEPT ![c] = k],
             k.at # "answered", CallFits(c)'
      PROVE  CallsFit'
  BY <1>a, <1>b, <1>c, <1>d, OneCall, Zenon DEF CallsFit
<1>e. ASSUME NEW k, call' = [call EXCEPT ![c] = k] PROVE call'[c] = k
  BY <1>e, Zenon DEF CallsInv
<1>f. revision' = revision /\ revision \in Nat /\ newest \in Nat /\ revision <= newest
  BY <1>a, <1>b, CoreFacts, Zenon DEF syncState
<1>1. ASSUME NEW location \in {"create", "list"}, StartCall(c, location) PROVE CallsFit'
  <2> DEFINE k == [NoBucketCall EXCEPT !.at = location, !.revision = revision, !.epoch = epoch]
  <2>1. call' = [call EXCEPT ![c] = k] /\ state = "Ready"
    BY <1>1 DEF StartCall
  <2>2. revision \in 1..revision /\ epoch \in Nat
    BY <2>1, <1>a, <1>f, CoreFacts DEF SyncInv, ReadyIsSynchronized, TypeOK
  <2>3. /\ k \in BucketCall /\ k.at = location /\ k.revision = revision /\ ~k.committed
    BY <2>2, <1>f, Zenon DEF NoBucketCall, BucketCall
  <2> HIDE DEF k
  <2>4. CallFits(c)'
    BY <2>1, <2>2, <2>3, <1>e, <1>f, Zenon DEF CallFits
  <2> QED BY <2>1, <2>3, <2>4, <1>d, Zenon
<1>2. CASE AnswerList(c)
  <2>1. PICK r \in call[c].revision..newest :
          call' = [call EXCEPT ![c] = [@ EXCEPT !.at = "listed", !.resp = r,
                                                !.buckets = BucketsAt(r)]]
    BY <1>2, Zenon DEF AnswerList
  <2> DEFINE k == [call[c] EXCEPT !.at = "listed", !.resp = r, !.buckets = BucketsAt(r)]
  <2>2. call[c].at = "list" /\ log' = log
    BY <1>2, Zenon DEF AnswerList, CallIs, cpState
  <2>3. call[c].revision \in 1..revision /\ ~call[c].committed /\ r \in Nat
    BY <2>1, <2>2, <1>a, <1>f DEF CallFits
  <2>4. call' = [call EXCEPT ![c] = k] /\ BucketsAt(r) \in SUBSET Entities
    BY <2>1 DEF BucketsAt, CallsInv
  <2>5. /\ k \in BucketCall /\ k.at = "listed" /\ k.resp = r /\ k.buckets = BucketsAt(r)
        /\ k.revision = call[c].revision /\ k.committed = call[c].committed
    BY <2>3, <2>4, <1>a, Zenon DEF BucketCall
  <2>6. BucketsAt(r)' = BucketsAt(r) /\ newest' = newest
    BY <2>2, Zenon DEF BucketsAt, newest
  <2> HIDE DEF k
  <2>7. CallFits(c)'
    BY <2>1, <2>3, <2>4, <2>5, <2>6, <1>e, <1>f, Zenon DEF CallFits
  <2> QED BY <2>4, <2>5, <2>7, <1>d, Zenon
<1>3. ASSUME NEW location \in {"stamped", "checked"}, log' = log,
             call' = [call EXCEPT ![c] = [@ EXCEPT !.at = location]],
             \/ call[c].at = "listed" /\ call[c].resp = call[c].revision
             \/ call[c].at = "stamped"
      PROVE  CallsFit'
  <2> DEFINE k == [call[c] EXCEPT !.at = location]
  <2>1. call' = [call EXCEPT ![c] = k]
    BY <1>3 DEF CallsInv
  <2>2. /\ call[c].revision \in 1..revision /\ ~call[c].committed
        /\ call[c].buckets = BucketsAt(call[c].revision)
    BY <1>3, <1>a DEF CallFits
  <2>3. /\ k \in BucketCall /\ k.at = location /\ k.buckets = call[c].buckets
        /\ k.revision = call[c].revision /\ k.committed = call[c].committed
    BY <1>a DEF BucketCall
  <2> HIDE DEF k
  <2>4. CallFits(c)'
    <3>1. call'[c] = k
      BY <2>1, <1>e, Zenon
    <3>2. call'[c].buckets = {e \in Entities : log[call'[c].revision].value[e] # Absent}
      BY <2>2, <2>3, <3>1 DEF BucketsAt
    <3> QED BY <2>2, <2>3, <3>1, <3>2, <1>3, <1>f DEF CallFits, BucketsAt
  <2> QED BY <2>1, <2>3, <2>4, <1>d, Zenon
<1>4. CASE CommitCreate(c)
  <2> DEFINE k == [call[c] EXCEPT !.at = "created", !.resp = newest + 1, !.committed = TRUE]
  <2>1. call' = [call EXCEPT ![c] = k] /\ call[c].at = "create" /\ ChangeWorld
    BY <1>4 DEF CommitCreate, CallIs, ChangeWorld, CallsInv
  <2>2. /\ newest' = newest + 1 /\ newest + 1 \in Nat
        /\ call[c].revision \in 1..revision
    BY <2>1, <1>a, <1>f, ChangeGrows, CoreFacts DEF CallFits
  <2>3. k.at = "created" /\ k.resp = newest + 1 /\ k.revision = call[c].revision
    BY <1>a DEF BucketCall
  <2>4. ASSUME NEW n \in Nat
        PROVE  [call[c] EXCEPT !.at = "created", !.resp = n, !.committed = TRUE] \in BucketCall
    BY <1>a, Zenon DEF BucketCall
  <2>5. k \in BucketCall
    BY <2>2, <2>4, Zenon
  <2>6. call'[c] = k
    BY <2>1, <1>e, Zenon
  <2> HIDE DEF k
  <2>7. /\ call'[c].at = "created" /\ call'[c].revision \in 1..revision'
        /\ call'[c].resp \in (call'[c].revision + 1)..newest'
    <3>1. (call[c].revision + 1) <= newest + 1 /\ call[c].revision \in Nat
      BY <2>2, <1>f
    <3>2. newest + 1 \in (call[c].revision + 1)..(newest + 1)
      BY <2>2, <3>1, <1>f
    <3> QED BY <2>2, <2>3, <2>6, <3>2, <1>f, Zenon
  <2>8. CallFits(c)'
    BY <2>7, Zenon DEF CallFits
  <2> QED BY <2>1, <2>3, <2>5, <2>8, <1>d, Zenon
<1> QED
  BY <1>1, <1>2, <1>3, <1>4 DEF CheckListRevision, CheckListStamp, CallIs, cpState

\* Every step preserves the invariant.
LEMMA CallsNextInv == CallsInv /\ [CallsNext]_bucketState => CallsInv'
<1> SUFFICES ASSUME CallsInv, [CallsNext]_bucketState PROVE CallsInv'
  OBVIOUS
<1>a. CPInv /\ [CPNext]_cpState /\ CPInv'
  BY CallIsCPStep, CPNextInv DEF CallsInv
<1>b. /\ evidence \in Nat /\ evidence' \in Nat /\ evidence' >= evidence
      /\ state = "Shutdown" => state' = "Shutdown"
  BY <1>a, HistoryGrows
<1>c. /\ confirmed \in Nat /\ (state # "Shutdown" => confirmed <= evidence)
      /\ call \in [Callers -> BucketCall]
  BY DEF CallsInv
<1>d. ASSUME confirmed' = confirmed
      PROVE  confirmed' \in Nat /\ (state' # "Shutdown" => confirmed' <= evidence')
  BY <1>b, <1>c, <1>d
<1>1. CASE UNCHANGED callState
  <2>1. call' = call /\ confirmed' = confirmed
    BY <1>1 DEF callState
  <2>2. \A c \in Callers : CallFits(c)'
    BY <2>1, <1>a, CallKept
  <2>3. CommittedIsNotRefused'
    BY <2>1 DEF CallsInv, CommittedIsNotRefused
  <2> QED BY <2>1, <2>2, <2>3, <1>a, <1>c, <1>d DEF CallsInv
<1>2. ASSUME NEW c \in Callers, CreateStep(c) \/ ListStep(c) PROVE CallsFit'
  <2>a. CallFits(c)
    BY DEF CallsInv
  <2>b. ASSUME confirmed' = confirmed, NEW s \in {"400", "403", "409", "502", "503"},
               Answered(c, s), ~call[c].committed
        PROVE  CallsFit'
    BY <2>b, <1>a, <1>d, AnsweredFits
  <2>1. CASE RefuseCreate(c)
    <3>1. PICK code \in Codes : Answered(c, CreateStatus(CreateError(code)))
      BY <2>1 DEF RefuseCreate
    <3>2. confirmed' = confirmed /\ ~call[c].committed
      BY <2>1, <2>a DEF RefuseCreate, CallIs, CallFits
    <3> QED BY <3>1, <3>2, <2>b, Statuses
  <2>2. CASE LoseCreate(c)
    <3>1. PICK code \in TransportCodes : Answered(c, CreateStatus(CreateError(code)))
      BY <2>2 DEF LoseCreate
    <3>2. code \in Codes
      BY DEF Codes, TransportCodes
    <3>3. CreateStatus(CreateError(code)) \in {"502", "503"}
      BY <3>2, Statuses
    <3>4. confirmed' = confirmed
      BY <2>2 DEF LoseCreate
    <3> QED BY <3>1, <3>3, <3>4, <1>a, <1>d, AnsweredFits
  <2>3. CASE ReturnCreate(c)
    <3>1. /\ Answered(c, "200") /\ confirmed' = Larger(confirmed, call[c].resp)
          /\ CreateReply(call[c].resp, call[c].revision) /\ call[c].at = "created"
      BY <2>3 DEF ReturnCreate, CallIs
    <3>2. call[c].resp \in Nat /\ call[c].revision \in Nat /\ call[c].resp > call[c].revision
      BY <3>1, <2>a, <1>a, <1>c, CoreFacts DEF CallFits, BucketCall
    <3>3. confirmed' \in Nat
      BY <3>1, <3>2, <1>c DEF Larger
    <3>4. state # "Shutdown" => evidence' = Larger(evidence, call[c].resp)
      <4>1. ~(call[c].resp <= call[c].revision)
        BY <3>2
      <4>2. state # "Shutdown" => Require(call[c].resp, {"Ready", "Synchronizing"})
        BY <3>1, <4>1, Zenon DEF CreateReply
      <4> QED BY <4>2, Zenon DEF Require
    <3>5. state' # "Shutdown" => confirmed' <= evidence'
      <4> SUFFICES ASSUME state' # "Shutdown" PROVE confirmed' <= evidence'
        OBVIOUS
      <4>1. confirmed <= evidence /\ evidence' = Larger(evidence, call[c].resp)
        BY <3>4, <1>b, <1>c
      <4> QED BY <3>1, <3>2, <4>1, <1>b, <1>c DEF Larger
    <3> QED BY <3>1, <3>3, <3>5, <1>a, AnsweredFits
  <2>4. CASE FailList(c)
    <3>1. PICK code \in Codes : Answered(c, ResolverStatus(ListError(code)))
      BY <2>4 DEF FailList
    <3>2. confirmed' = confirmed /\ ~call[c].committed
      BY <2>4, <2>a DEF FailList, CallIs, CallFits
    <3> QED BY <3>1, <3>2, <2>b, Statuses
  <2>5. CASE \/ CheckListRevision(c) /\ call[c].resp # call[c].revision
             \/ CheckListStamp(c) /\ ~SnapshotCurrent(c)
             \/ RejectList(c) \/ ReturnList(c)
    <3>1. /\ confirmed' = confirmed
          /\ Answered(c, "200") \/ Answered(c, "502") \/ Answered(c, "503")
      BY <2>5 DEF CheckListRevision, CheckListStamp, RejectList, ReturnList
    <3> QED BY <3>1, <1>a, <1>d, AnsweredFits
  <2>6. CASE \/ StartCall(c, "create") \/ StartCall(c, "list") \/ AnswerList(c)
             \/ CheckListRevision(c) /\ call[c].resp = call[c].revision
             \/ CheckListStamp(c) /\ SnapshotCurrent(c)
             \/ CommitCreate(c)
    BY <2>6, CallAdvances
  <2> QED BY <1>2, <2>1, <2>2, <2>3, <2>4, <2>5, <2>6, Zenon DEF CreateStep, ListStep
<1>3. CallsFit' => CallsInv'
  BY <1>a DEF CallsFit, CallsInv
<1> QED
  BY <1>1, <1>2, <1>3 DEF CallsNext, CallStep, bucketState

(***************************************************************************)
(* What it implies.                                                        *)
(***************************************************************************)

\* The invariant holds with any number of calls under way.
THEOREM CallsInvariant == CallsSpec => []CallsInv
BY CallsInitInv, CallsNextInv, PTL DEF CallsSpec

\* A committed create is never answered with a refusal, however many creates
\* and lists are under way.
THEOREM CommitsSound == CallsSpec => []CommittedIsNotRefused
<1>1. CallsInv => CommittedIsNotRefused
  BY DEF CallsInv
<1> QED BY <1>1, CallsInvariant, PTL

\* The calls of the handlers are within what ControlPlane allows its callers,
\* so all that is proved of the client holds while they are under way.
THEOREM CallsImplementControlPlane == CallsSpec => CPSpec
<1>1. CallsInit => CPInit
  BY DEF CallsInit
<1>2. CallsInv /\ [CallsNext]_bucketState => [CPNext]_cpState
  BY CallIsCPStep
<1> QED BY <1>1, <1>2, CallsInvariant, PTL DEF CallsSpec, CPSpec

\* A list returns the buckets of the accepted revision, with every bucket whose
\* creation was confirmed, in every interleaving of any number of calls.
THEOREM ListsSound == CallsSpec => ListReadsConfirmed
<1> DEFINE Reads ==
      \A c \in Callers : call'[c].at = "answered" /\ call[c].at = "checked"
        /\ call'[c].status = "200" =>
           /\ state = "Ready"
           /\ call[c].buckets = BucketsAt(revision)
           /\ revision >= confirmed
<1>1. CallsInv /\ [CallsNext]_bucketState => [Reads]_bucketState
  <2> SUFFICES ASSUME CallsInv, CallsNext, NEW c \in Callers,
                      call'[c].at = "answered", call[c].at = "checked",
                      call'[c].status = "200"
               PROVE  /\ state = "Ready"
                      /\ call[c].buckets = BucketsAt(revision)
                      /\ revision >= confirmed
    OBVIOUS
  <2>1. call \in [Callers -> BucketCall] /\ CallFits(c) /\ CPInv
    BY DEF CallsInv
  <2>2. call' # call
    OBVIOUS
  <2>3. PICK d \in Callers : CreateStep(d) \/ ListStep(d)
    BY <2>2 DEF CallsNext, CallStep, callState
  <2>4. d = c
    BY <2>1, <2>3, Zenon
    DEF CreateStep, ListStep, StartCall, CommitCreate, RefuseCreate, LoseCreate, ReturnCreate,
        AnswerList, FailList, CheckListRevision, CheckListStamp, RejectList, ReturnList, Answered
  <2>5. RejectList(c) \/ ReturnList(c)
    BY <2>3, <2>4, Zenon
    DEF CreateStep, ListStep, StartCall, CommitCreate, RefuseCreate, LoseCreate, ReturnCreate,
        AnswerList, FailList, CheckListRevision, CheckListStamp, CallIs
  <2>6. ASSUME NEW s, Answered(c, s) PROVE call'[c].status = s
    BY <2>1, <2>6 DEF Answered, NoBucketCall
  <2>7. SnapshotCurrent(c)
    BY <2>5, <2>6 DEF RejectList, ReturnList
  <2>8. evidence <= revision /\ confirmed <= evidence
    BY <2>1, <2>7, CoreFacts
    DEF SnapshotCurrent, SyncInv, ReadyIsSynchronized, EvidenceKept, CallsInv
  <2>9. confirmed \in Nat /\ evidence \in Nat /\ revision \in Nat
    BY <2>1, CoreFacts DEF CallsInv
  <2>10. state = "Ready" /\ call[c].revision = revision
    BY <2>7 DEF SnapshotCurrent
  <2>11. call[c].buckets = BucketsAt(call[c].revision)
    BY <2>1 DEF CallFits
  <2>12. confirmed <= revision
    BY <2>8, <2>9
  <2> QED BY <2>9, <2>10, <2>11, <2>12
<1> QED BY <1>1, CallsInvariant, PTL DEF CallsSpec, ListReadsConfirmed

=============================================================================
