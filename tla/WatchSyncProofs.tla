--------------------------- MODULE WatchSyncProofs ---------------------------
(***************************************************************************)
(* Proofs about WatchSync, for every set of revisions, cursors, base       *)
(* domains and cache keys, and for a control plane that sends anything.    *)
(***************************************************************************)
EXTENDS WatchSync, FiniteSetTheorems, TLAPS

(***************************************************************************)
(* Type correctness.                                                       *)
(***************************************************************************)

\* The fields of a frame, by its kind.
LEMMA FrameFields ==
  ASSUME NEW f \in Frame
  PROVE  /\ f.revision \in Revisions
         /\ f.revision \in Nat
         /\ f.cursor \in AnyCursor
         /\ f.kind = "baseHost" => f.host \in Hosts /\ f.remove \in BOOLEAN
         /\ f.kind = "entity" => f.entity \in Entities /\ f.remove \in BOOLEAN
BY SyncAssumption DEF Frame

\* transitionLocked preserves the types of what it changes.
LEMMA TransitionType ==
  ASSUME TypeOK, NEW s \in States, Transition(s)
  PROVE  /\ state' \in States
         /\ epoch' \in Nat
         /\ stateChanged' \in BOOLEAN
BY DEF TypeOK, Transition, States

\* So does requestResyncLocked.
LEMMA RequestResyncType ==
  ASSUME TypeOK, RequestResync
  PROVE  /\ state' \in States
         /\ epoch' \in Nat
         /\ stateChanged' \in BOOLEAN
         /\ barrierRequired' \in BOOLEAN
         /\ resync' \in BOOLEAN
<1>1. CASE state = "Shutdown"
  BY <1>1 DEF TypeOK, RequestResync
<1>2. CASE state # "Shutdown"
  BY <1>2, TransitionType DEF TypeOK, RequestResync, States
<1> QED BY <1>1, <1>2

\* And a cache insertion.
LEMMA CacheSetType ==
  ASSUME TypeOK, NEW e \in Entities, NEW entry \in CacheEntry, CacheSet(e, entry)
  PROVE  cache' \in [Entities -> CacheEntry \cup {NoEntry}]
BY DEF TypeOK, CacheSet

\* Every step of the goroutine of Run preserves the types.
LEMMA RunStepType == TypeOK /\ RunStep => TypeOK'
<1> SUFFICES ASSUME TypeOK, RunStep PROVE TypeOK'
  OBVIOUS
<1> USE DEF TypeOK, runState, Locations
<1>1. CASE StartConnect
  BY <1>1, TransitionType DEF StartConnect, Unsynchronize, States
<1>2. CASE DrainResync
  BY <1>2 DEF DrainResync
<1>3. CASE Dial
  BY <1>3 DEF Dial
<1>4. CASE OpenWatch
  BY <1>4, TransitionType DEF OpenWatch, States
<1>5. CASE RefreshSyncTimer
  BY <1>5 DEF RefreshSyncTimer
<1>6. CASE MarkDisconnected
  BY <1>6, TransitionType DEF MarkDisconnected, Unsynchronize, States
<1>7. CASE CloseConn
  BY <1>7 DEF CloseConn
<1>8. CASE Backoff
  BY <1>8 DEF Backoff
<1>9. CASE LeaveLoop
  BY <1>9 DEF LeaveLoop
<1>10. CASE Shutdown
  BY <1>10, TransitionType DEF Shutdown, Unsynchronize, States
<1> QED
  BY <1>1, <1>2, <1>3, <1>4, <1>5, <1>6, <1>7, <1>8, <1>9, <1>10 DEF RunStep

\* Every frame preserves the types.
LEMMA ReceiveType ==
  ASSUME TypeOK, NEW f \in Frame, Receive(f)
  PROVE  TypeOK'
<1> USE FrameFields DEF TypeOK, streamState, Locations
<1>a. pc' \in Locations
  BY DEF Receive
<1>1. CASE Reject(f)
  BY <1>1, <1>a, TransitionType DEF Receive, Reject, States
<1>2. CASE AcceptBegin(f)
  <2>1. snapshot' \in Staged
    BY <1>2 DEF AcceptBegin, Staged, AnyCursor
  <2> QED
    BY <1>2, <1>a, <2>1, TransitionType DEF Receive, AcceptBegin, States
<1>3. CASE AcceptSnapshotBarrier(f)
  <2>1. baseHosts' \in SUBSET Hosts
    BY <1>3 DEF AcceptSnapshotBarrier, SnapshotBarrierOK, Staged
  <2> QED
    BY <1>3, <1>a, <2>1, TransitionType
    DEF Receive, AcceptSnapshotBarrier, States
<1>4. CASE AcceptResumeBarrier(f)
  BY <1>4, <1>a, TransitionType DEF Receive, AcceptResumeBarrier, States
<1>5. CASE AcceptHeartbeat(f)
  BY <1>5, <1>a DEF Receive, AcceptHeartbeat
<1>6. CASE StageBaseHost(f)
  <2>1. snapshot' \in Staged
    BY <1>6 DEF StageBaseHost, StageOK, Staged
  <2> QED
    BY <1>6, <1>a, <2>1 DEF Receive, StageBaseHost
<1>b. ASSUME Advance(f)
      PROVE  /\ revision' \in Nat /\ cursor' \in AnyCursor
             /\ requiredRevision' \in Nat /\ state' \in States
             /\ epoch' \in Nat /\ stateChanged' \in BOOLEAN
             /\ snapshot' = snapshot /\ barrierRequired' = barrierRequired
  BY <1>b, TransitionType DEF Advance, States
<1>7. CASE ApplyBaseHost(f)
  <2>1. baseHosts' \in SUBSET Hosts
    BY <1>7 DEF ApplyBaseHost, BaseHostOK
  <2> QED
    BY <1>7, <1>a, <1>b, <2>1 DEF Receive, ApplyBaseHost
<1>8. CASE ApplyEntity(f)
  <2>1. cache' \in [Entities -> CacheEntry \cup {NoEntry}]
    <3>1. f.entity \in Entities
      BY <1>8 DEF ApplyEntity, EntityOK
    <3>2. [value |-> Absent, revision |-> f.revision] \in CacheEntry
      BY DEF CacheEntry
    <3> QED
      BY <1>8, <3>1, <3>2, CacheSetType DEF ApplyEntity
  <2> QED
    BY <1>8, <1>a, <1>b, <2>1 DEF Receive, ApplyEntity
<1> QED
  BY <1>1, <1>2, <1>3, <1>4, <1>5, <1>6, <1>7, <1>8 DEF Receive, Accept

\* The other branches of the select loop preserve the types.
LEMMA SelectType ==
  TypeOK /\ (SelectSignal \/ ReceiveEmpty \/ StreamLost \/ Cancel) => TypeOK'
BY ZenonT(30) DEF TypeOK, Locations, runState, SelectSignal, SelectCtxDone,
       SelectStateChanged, SelectResync, SyncTimeout, ReceiveEmpty, StreamLost,
       Cancel

\* Remembering a required revision preserves the types of what it changes.
LEMMA RequireType ==
  ASSUME TypeOK, NEW resp \in Nat, NEW downgraded, Require(resp, downgraded)
  PROVE  /\ evidence' \in Nat /\ requiredRevision' \in Nat
         /\ state' \in States /\ epoch' \in Nat /\ stateChanged' \in BOOLEAN
         /\ barrierRequired' \in BOOLEAN /\ resync' \in BOOLEAN
BY TransitionType DEF TypeOK, Require, Larger, States

\* Request goroutines preserve the types.
LEMMA UnaryType == TypeOK /\ UnaryEvent => TypeOK'
<1> SUFFICES ASSUME TypeOK, UnaryEvent PROVE TypeOK'
  OBVIOUS
<1> USE DEF TypeOK, unaryState
<1>1. ASSUME NEW resp \in Revisions, NEW expected \in 0..revision,
             CheckUnaryRevision(resp, expected)
      PROVE  TypeOK'
  <2>1. resp \in Nat
    BY SyncAssumption
  <2> QED
    BY <1>1, <2>1, RequestResyncType, RequireType DEF CheckUnaryRevision
<1>2. ASSUME NEW resp \in Revisions, NEW minimum \in 0..revision,
             CreateReply(resp, minimum)
      PROVE  TypeOK'
  <2>1. resp \in Nat
    BY SyncAssumption
  <2> QED
    BY <1>2, <2>1, RequestResyncType, RequireType DEF CreateReply
<1>3. CASE ListReplyMissing
  BY <1>3, RequestResyncType DEF ListReplyMissing
<1>4. ASSUME NEW e \in Entities, NEW v \in Values \cup {Absent},
             NEW rev \in 0..revision, NEW ep \in 0..epoch,
             CommitLoad(e, v, rev, ep)
      PROVE  TypeOK'
  <2>1. [value |-> v, revision |-> rev] \in CacheEntry
    BY DEF CacheEntry
  <2>2. cache' \in [Entities -> CacheEntry \cup {NoEntry}]
    BY <1>4, <2>1, CacheSetType DEF CommitLoad
  <2> QED
    BY <1>4, <2>2, RequestResyncType DEF CommitLoad
<1>5. ASSUME NEW e \in Entities, Evict(e)
      PROVE  TypeOK'
  BY <1>5 DEF Evict
<1> QED
  BY <1>1, <1>2, <1>3, <1>4, <1>5 DEF UnaryEvent

\* One step of the client preserves the types.
LEMMA NextType == TypeOK /\ [Next]_syncState => TypeOK'
<1> SUFFICES ASSUME TypeOK, [Next]_syncState PROVE TypeOK'
  OBVIOUS
<1>1. CASE UNCHANGED syncState
  BY <1>1 DEF TypeOK, syncState
<1>2. CASE Next
  BY <1>2, RunStepType, ReceiveType, SelectType, UnaryType DEF Next, StreamEvent
<1> QED BY <1>1, <1>2

\* The initial state is well typed.
LEMMA InitType == ASSUME Init PROVE TypeOK
<1>1. /\ barrierRequired \in BOOLEAN /\ client \in BOOLEAN /\ resync \in BOOLEAN
      /\ stateChanged \in BOOLEAN /\ syncTimer \in BOOLEAN /\ ctxDone \in BOOLEAN
  BY Zenon DEF Init
<1>2. cache \in [Entities -> CacheEntry \cup {NoEntry}]
  BY DEF Init
<1> QED
  BY <1>1, <1>2 DEF Init, TypeOK, States, Locations, AnyCursor

\* Every reachable state is well typed.
THEOREM TypeCorrect == Spec => []TypeOK
BY InitType, NextType, PTL DEF Spec

(***************************************************************************)
(* The inductive invariant.                                                *)
(***************************************************************************)

\* It holds initially.
LEMMA InitInv == Init => SyncInv
BY DEF Init, SyncInv, LocationFitsState, BarrierOwed, PairComplete, StagedOnView,
       EvidenceKept, ReadyIsSynchronized, CatchUpHasTarget,
       SynchronizingIsTimed, CacheNotAhead

\* The goroutine of Run preserves it.
LEMMA RunStepInv == TypeOK /\ SyncInv /\ RunStep => SyncInv'
<1> SUFFICES ASSUME TypeOK, SyncInv, RunStep PROVE SyncInv'
  OBVIOUS
<1> USE DEF TypeOK, SyncInv, LocationFitsState, BarrierOwed, PairComplete,
            StagedOnView, EvidenceKept, ReadyIsSynchronized, CatchUpHasTarget,
            SynchronizingIsTimed, CacheNotAhead, runState, Locations, States
<1>1. CASE StartConnect
  BY <1>1 DEF StartConnect, Unsynchronize, Transition
<1>2. CASE DrainResync
  BY <1>2 DEF DrainResync
<1>3. CASE Dial
  BY <1>3 DEF Dial
<1>4. CASE OpenWatch
  BY <1>4 DEF OpenWatch, Transition
<1>5. CASE RefreshSyncTimer
  BY <1>5 DEF RefreshSyncTimer
<1>6. CASE MarkDisconnected
  BY <1>6 DEF MarkDisconnected, Unsynchronize, Transition
<1>7. CASE CloseConn
  BY <1>7 DEF CloseConn
<1>8. CASE Backoff
  BY <1>8 DEF Backoff
<1>9. CASE LeaveLoop
  BY <1>9 DEF LeaveLoop
<1>10. CASE Shutdown
  BY <1>10 DEF Shutdown, Unsynchronize, Transition
<1> QED
  BY <1>1, <1>2, <1>3, <1>4, <1>5, <1>6, <1>7, <1>8, <1>9, <1>10 DEF RunStep

\* Advancing the revision leaves the entries of the cache behind.
LEMMA CacheStaysBehind ==
  ASSUME TypeOK, CacheNotAhead, cache' = cache, revision' \in Nat, revision' >= revision
  PROVE  CacheNotAhead'
BY DEF TypeOK, CacheNotAhead, CacheEntry

\* Every frame preserves it.
LEMMA ReceiveInv ==
  ASSUME TypeOK, SyncInv, NEW f \in Frame, Receive(f)
  PROVE  SyncInv'
<1> USE FrameFields
    DEF TypeOK, SyncInv, LocationFitsState, BarrierOwed, PairComplete,
        StagedOnView, EvidenceKept, ReadyIsSynchronized, CatchUpHasTarget,
        SynchronizingIsTimed, CacheNotAhead, streamState, States
<1>a. pc = "select" /\ UNCHANGED streamState
  BY DEF Receive
<1>b. state # "Shutdown" /\ client
  BY <1>a
<1>1. CASE Reject(f) /\ pc' = "return"
  <2>1. CacheNotAhead'
    BY <1>1 DEF Reject
  <2>2. state' = "Disconnected"
    BY <1>1, <1>b DEF Reject, Transition
  <2> QED
    BY <1>1, <1>a, <2>1, <2>2 DEF Reject
<1>2. CASE Accept(f) /\ pc' = "refresh"
  <2>a. state \in {"Ready", "Synchronizing"}
    BY <1>2 DEF Accept
  <2>1. CASE AcceptBegin(f)
    BY <1>2, <1>a, <2>1 DEF AcceptBegin, BeginOK, Transition
  <2>2. CASE AcceptSnapshotBarrier(f)
    <3>1. revision' # 0 /\ cursor' # NoCursor /\ revision' >= revision
      BY <2>2 DEF AcceptSnapshotBarrier, SnapshotBarrierOK, Staged
    <3>a. CacheNotAhead'
      BY <2>2, <3>1, CacheStaysBehind DEF AcceptSnapshotBarrier
    <3>2. CASE f.revision >= requiredRevision
      <4>1. state' = "Ready" /\ requiredRevision' = 0
        BY <2>a, <2>2, <3>2 DEF AcceptSnapshotBarrier, Transition
      <4> QED
        BY <1>2, <1>a, <1>b, <2>2, <3>1, <3>a, <3>2, <4>1 DEF AcceptSnapshotBarrier
    <3>3. CASE ~(f.revision >= requiredRevision)
      <4>1. state' = "Synchronizing" /\ requiredRevision' = requiredRevision
        BY <2>a, <2>2, <3>3 DEF AcceptSnapshotBarrier, Transition
      <4> QED
        BY <1>2, <1>a, <1>b, <2>2, <3>1, <3>a, <3>3, <4>1 DEF AcceptSnapshotBarrier
    <3> QED BY <3>2, <3>3
  <2>3. CASE AcceptResumeBarrier(f)
    BY <1>2, <1>a, <2>3 DEF AcceptResumeBarrier, ResumeBarrierOK, Transition
  <2>4. CASE AcceptHeartbeat(f)
    BY <1>2, <1>a, <2>4 DEF AcceptHeartbeat
  <2>5. CASE StageBaseHost(f)
    BY <1>2, <1>a, <2>5 DEF StageBaseHost, StageOK, Staged
  <2>6. ASSUME MutationOK(f), Advance(f), CacheNotAhead'
        PROVE  SyncInv'
    BY <1>2, <1>a, <1>b, <2>a, <2>6 DEF MutationOK, Advance, Transition
  <2>7. CASE ApplyBaseHost(f)
    <3>1. MutationOK(f) /\ Advance(f) /\ cache' = cache
      BY <2>7 DEF ApplyBaseHost, BaseHostOK
    <3>2. CacheNotAhead'
      BY SMTT(30), <3>1, CacheStaysBehind DEF MutationOK, Advance
    <3> QED BY <2>6, <3>1, <3>2
  <2>8. CASE ApplyEntity(f)
    <3>1. MutationOK(f) /\ Advance(f) /\ f.entity \in Entities
      BY <2>8 DEF ApplyEntity, EntityOK
    <3>2. revision' = f.revision /\ revision' >= revision
      BY <3>1 DEF MutationOK, Advance
    <3>3. CacheNotAhead'
      BY SMTT(30), <2>8, <3>1, <3>2 DEF ApplyEntity, CacheSet, CacheEntry
    <3> QED BY <2>6, <3>1, <3>3
  <2> QED
    BY <1>2, <2>1, <2>2, <2>3, <2>4, <2>5, <2>7, <2>8 DEF Accept
<1> QED
  BY <1>1, <1>2 DEF Receive

\* The other branches of the select loop preserve it.
LEMMA SelectInv ==
  TypeOK /\ SyncInv /\ (SelectSignal \/ ReceiveEmpty \/ StreamLost \/ Cancel) => SyncInv'
BY DEF TypeOK, SyncInv, LocationFitsState, BarrierOwed, PairComplete,
       StagedOnView, EvidenceKept, ReadyIsSynchronized, CatchUpHasTarget,
       SynchronizingIsTimed, CacheNotAhead, runState, SelectSignal,
       SelectCtxDone, SelectStateChanged, SelectResync, SyncTimeout,
       ReceiveEmpty, StreamLost, Cancel

\* Request goroutines preserve it.
LEMMA UnaryInv == TypeOK /\ SyncInv /\ UnaryEvent => SyncInv'
<1> SUFFICES ASSUME TypeOK, SyncInv, UnaryEvent PROVE SyncInv'
  OBVIOUS
<1> USE DEF TypeOK, SyncInv, LocationFitsState, BarrierOwed, PairComplete,
            StagedOnView, EvidenceKept, ReadyIsSynchronized, CatchUpHasTarget,
            SynchronizingIsTimed, CacheNotAhead, unaryState, States
<1>1. ASSUME NEW resp \in Revisions, NEW expected \in 0..revision,
             CheckUnaryRevision(resp, expected)
      PROVE  SyncInv'
  <2>1. resp \in Nat
    BY SyncAssumption
  <2> QED
    BY <1>1, <2>1 DEF CheckUnaryRevision, RequestResync, Transition, Require, Larger
<1>2. ASSUME NEW resp \in Revisions, NEW minimum \in 0..revision,
             CreateReply(resp, minimum)
      PROVE  SyncInv'
  <2>1. resp \in Nat
    BY SyncAssumption
  <2> QED
    BY <1>2, <2>1 DEF CreateReply, RequestResync, Transition, Require, Larger
<1>3. CASE ListReplyMissing
  BY <1>3 DEF ListReplyMissing, RequestResync, Transition
<1>4. ASSUME NEW e \in Entities, NEW v \in Values \cup {Absent},
             NEW rev \in 0..revision, NEW ep \in 0..epoch,
             CommitLoad(e, v, rev, ep)
      PROVE  SyncInv'
  BY <1>4 DEF CommitLoad, LoadAhead, LoadStores, RequestResync, Transition, CacheSet
<1>5. ASSUME NEW e \in Entities, Evict(e)
      PROVE  SyncInv'
  BY <1>5 DEF Evict
<1> QED
  BY <1>1, <1>2, <1>3, <1>4, <1>5 DEF UnaryEvent

\* One step of the client preserves it.
LEMMA NextInv == TypeOK /\ SyncInv /\ [Next]_syncState => SyncInv'
<1> SUFFICES ASSUME TypeOK, SyncInv, [Next]_syncState PROVE SyncInv'
  OBVIOUS
<1>1. CASE UNCHANGED syncState
  BY <1>1 DEF SyncInv, LocationFitsState, BarrierOwed, PairComplete, StagedOnView,
              EvidenceKept, ReadyIsSynchronized, CatchUpHasTarget,
              SynchronizingIsTimed, CacheNotAhead, syncState
<1>2. CASE Next
  BY <1>2, RunStepInv, ReceiveInv, SelectInv, UnaryInv DEF Next, StreamEvent
<1> QED BY <1>1, <1>2

\* The inductive invariant holds in every reachable state.
THEOREM SyncInvariant == Spec => []SyncInv
BY InitInv, TypeCorrect, NextInv, PTL DEF Spec

\* Readiness is never claimed without a complete, live view.
THEOREM ReadinessSound == Spec => []ReadyIsSynchronized
<1>1. SyncInv => ReadyIsSynchronized
  BY DEF SyncInv
<1> QED BY <1>1, SyncInvariant, PTL

\* A Ready client covers every revision an answer has shown to exist.
THEOREM EvidenceCovered == Spec => []EvidenceHonoured
<1>1. SyncInv => EvidenceHonoured
  BY DEF SyncInv, ReadyIsSynchronized, EvidenceKept, EvidenceHonoured
<1> QED BY <1>1, SyncInvariant, PTL

\* Catch-up always has a target it has not reached.
THEOREM CatchUpSound == Spec => []CatchUpHasTarget
<1>1. SyncInv => CatchUpHasTarget
  BY DEF SyncInv
<1> QED BY <1>1, SyncInvariant, PTL

\* Synchronizing never runs without a deadline.
THEOREM DeadlineSound == Spec => []SynchronizingIsTimed
<1>1. SyncInv => SynchronizingIsTimed
  BY DEF SyncInv
<1> QED BY <1>1, SyncInvariant, PTL

\* The select loop never waits on a stream that was given up.
THEOREM RetirementSound == Spec => []RetiredStreamIsSignalled
<1>1. SyncInv => RetiredStreamIsSignalled
  BY DEF SyncInv, LocationFitsState, RetiredStreamIsSignalled
<1> QED BY <1>1, SyncInvariant, PTL

(***************************************************************************)
(* The bound on the registry.                                              *)
(***************************************************************************)

\* One more host in a set of hosts below the bound stays within the bound.
LEMMA AddHostBounded ==
  ASSUME NEW S \in SUBSET Hosts, NEW h \in Hosts, Cardinality(S) < BaseHostMax
  PROVE  Cardinality(S \cup {h}) <= BaseHostMax
<1>1. IsFiniteSet(S)
  BY SyncAssumption, FS_Subset
<1>2. Cardinality(S) \in Nat
  BY <1>1, FS_CardinalityType
<1>3. Cardinality(S \cup {h}) = Cardinality(S) \/ Cardinality(S \cup {h}) = Cardinality(S) + 1
  BY <1>1, FS_AddElement
<1> QED BY <1>2, <1>3, SyncAssumption

\* One host less does, too.
LEMMA RemoveHostBounded ==
  ASSUME NEW S \in SUBSET Hosts, NEW h \in Hosts, Cardinality(S) <= BaseHostMax
  PROVE  Cardinality(S \ {h}) <= BaseHostMax
<1>1. IsFiniteSet(S)
  BY SyncAssumption, FS_Subset
<1>2. Cardinality(S) \in Nat
  BY <1>1, FS_CardinalityType
<1>3. Cardinality(S \ {h}) = Cardinality(S) \/ Cardinality(S \ {h}) = Cardinality(S) - 1
  BY <1>1, FS_RemoveElement
<1> QED BY <1>2, <1>3, SyncAssumption

\* The empty registry is within any bound.
LEMMA EmptyBounded == Cardinality({}) <= BaseHostMax
BY FS_EmptySet, SyncAssumption

\* One step keeps both registries within the bound.
LEMMA NextBounded == TypeOK /\ RegistryBounded /\ [Next]_syncState => RegistryBounded'
<1> SUFFICES ASSUME TypeOK, RegistryBounded, [Next]_syncState PROVE RegistryBounded'
  OBVIOUS
<1> USE DEF RegistryBounded
<1>a. ASSUME UNCHANGED <<snapshot, baseHosts>> PROVE RegistryBounded'
  BY <1>a
<1>b. ASSUME snapshot' = NoSnapshot, baseHosts' = baseHosts PROVE RegistryBounded'
  BY <1>b
<1>1. ASSUME NEW f \in Frame, Receive(f) PROVE RegistryBounded'
  <2>1. CASE Reject(f) \/ AcceptHeartbeat(f) \/ AcceptResumeBarrier(f) \/ ApplyEntity(f)
    BY <2>1, <1>a DEF Reject, AcceptHeartbeat, AcceptResumeBarrier, ApplyEntity, Advance
  <2>2. CASE AcceptBegin(f)
    BY <2>2, EmptyBounded DEF AcceptBegin
  <2>3. CASE AcceptSnapshotBarrier(f)
    BY <2>3 DEF AcceptSnapshotBarrier, SnapshotBarrierOK
  <2>4. CASE StageBaseHost(f)
    <3>1. snapshot \in Staged /\ f.host \in Hosts
      BY <2>4, FrameFields DEF TypeOK, StageBaseHost, StageOK
    <3>2. snapshot'.baseHosts = snapshot.baseHosts \cup {f.host}
      BY <2>4, <3>1 DEF StageBaseHost, Staged
    <3>3. snapshot.baseHosts \in SUBSET Hosts
      BY <3>1 DEF Staged
    <3>4. Cardinality(snapshot'.baseHosts) <= BaseHostMax
      BY <2>4, <3>1, <3>2, <3>3, AddHostBounded DEF StageBaseHost, StageOK
    <3> QED BY <2>4, <3>4 DEF StageBaseHost
  <2>5. CASE ApplyBaseHost(f)
    <3>1. f.host \in Hosts /\ baseHosts \in SUBSET Hosts
      BY <2>5, FrameFields DEF TypeOK, ApplyBaseHost, BaseHostOK
    <3>2. snapshot' = snapshot
      BY <2>5 DEF ApplyBaseHost, Advance
    <3>3. CASE f.remove
      BY <2>5, <3>1, <3>2, <3>3, RemoveHostBounded DEF ApplyBaseHost
    <3>4. CASE ~f.remove /\ f.host \in baseHosts
      <4>1. baseHosts' = baseHosts
        BY <2>5, <3>4 DEF ApplyBaseHost
      <4> QED BY <4>1, <3>2, <1>a
    <3>5. CASE ~f.remove /\ f.host \notin baseHosts
      BY <2>5, <3>1, <3>2, <3>5, AddHostBounded DEF ApplyBaseHost, BaseHostOK
    <3> QED BY <3>3, <3>4, <3>5
  <2> QED
    BY <1>1, <2>1, <2>2, <2>3, <2>4, <2>5 DEF Receive, Accept
<1>2. CASE RunStep
  BY <1>2, <1>a, <1>b
  DEF RunStep, StartConnect, DrainResync, Dial, OpenWatch, RefreshSyncTimer,
      MarkDisconnected, CloseConn, Backoff, LeaveLoop, Shutdown, Unsynchronize, runState
<1>3. CASE SelectSignal \/ ReceiveEmpty \/ StreamLost \/ Cancel
  BY <1>3, <1>a DEF SelectSignal, SelectCtxDone, SelectStateChanged, SelectResync,
                    SyncTimeout, ReceiveEmpty, StreamLost, Cancel, runState
<1>4. CASE UnaryEvent
  BY <1>4, <1>a DEF UnaryEvent, CheckUnaryRevision, CreateReply, ListReplyMissing,
                    CommitLoad, Evict, unaryState
<1>5. CASE UNCHANGED syncState
  BY <1>5, <1>a DEF syncState
<1> QED
  BY <1>1, <1>2, <1>3, <1>4, <1>5 DEF Next, StreamEvent

\* The registry of base domains never outgrows its bound, published or staged.
THEOREM RegistryStaysBounded == Spec => []RegistryBounded
<1>1. Init => RegistryBounded
  BY EmptyBounded DEF Init, RegistryBounded
<1> QED BY <1>1, TypeCorrect, NextBounded, PTL DEF Spec

(***************************************************************************)
(* What a step may never do.                                               *)
(***************************************************************************)

\* The revision and the cursor change only when a frame is received, and both
\* change together.
LEMMA PairStep ==
  TypeOK /\ SyncInv /\ [Next]_syncState =>
    /\ revision' >= revision
    /\ revision' # revision <=> cursor' # cursor
<1> SUFFICES ASSUME TypeOK, SyncInv, [Next]_syncState
             PROVE  /\ revision' >= revision
                    /\ revision' # revision <=> cursor' # cursor
  OBVIOUS
<1>a. revision \in Nat
  BY DEF TypeOK
<1>1. ASSUME NEW f \in Frame, Receive(f)
      PROVE  /\ revision' >= revision
             /\ revision' # revision <=> cursor' # cursor
  <2>1. CASE Reject(f) \/ AcceptBegin(f) \/ AcceptHeartbeat(f) \/ AcceptResumeBarrier(f)
             \/ StageBaseHost(f)
    BY <2>1, <1>a DEF Reject, AcceptBegin, AcceptHeartbeat, AcceptResumeBarrier,
                      StageBaseHost
  <2>2. CASE AcceptSnapshotBarrier(f)
    <3>1. /\ f.revision = snapshot.revision /\ f.cursor # NoCursor
          /\ revision' = f.revision /\ cursor' = f.cursor
          /\ snapshot.expectedCursor # NoCursor => f.cursor = snapshot.expectedCursor
          /\ (snapshot.revision > revision /\ snapshot.previousCursor # NoCursor)
               => f.cursor # snapshot.previousCursor
      BY <2>2 DEF AcceptSnapshotBarrier, SnapshotBarrierOK
    <3>2. /\ snapshot.revision # 0 /\ snapshot.revision >= revision
          /\ snapshot.previousCursor = cursor
          /\ snapshot.expectedCursor =
               IF snapshot.revision = revision THEN cursor ELSE NoCursor
          /\ revision = 0 <=> cursor = NoCursor
      BY <2>2 DEF SyncInv, StagedOnView, PairComplete, AcceptSnapshotBarrier,
                  SnapshotBarrierOK
    <3>3. f.revision \in Nat
      BY FrameFields
    <3> QED BY <1>a, <3>1, <3>2, <3>3
  <2>3. CASE ApplyBaseHost(f) \/ ApplyEntity(f)
    BY <2>3, <1>a, FrameFields DEF ApplyBaseHost, ApplyEntity, BaseHostOK, EntityOK,
                                   MutationOK, Advance
  <2> QED
    BY <1>1, <2>1, <2>2, <2>3 DEF Receive, Accept
<1>2. CASE RunStep
  BY <1>2, <1>a
  DEF RunStep, StartConnect, DrainResync, Dial, OpenWatch, RefreshSyncTimer,
      MarkDisconnected, CloseConn, Backoff, LeaveLoop, Shutdown, runState
<1>3. CASE SelectSignal \/ ReceiveEmpty \/ StreamLost \/ Cancel
  BY <1>3, <1>a DEF SelectSignal, SelectCtxDone, SelectStateChanged, SelectResync,
                    SyncTimeout, ReceiveEmpty, StreamLost, Cancel, runState
<1>4. CASE UnaryEvent
  <2>1. revision' = revision /\ cursor' = cursor
    BY <1>4 DEF UnaryEvent, CheckUnaryRevision, CreateReply, ListReplyMissing,
                CommitLoad, Evict, unaryState
  <2> QED BY <2>1, <1>a
<1>5. CASE UNCHANGED syncState
  BY <1>5, <1>a DEF syncState
<1> QED
  BY <1>1, <1>2, <1>3, <1>4, <1>5 DEF Next, StreamEvent

\* Revisions never go back, and every accepted revision has one cursor.
THEOREM PairAdvances == Spec => RevisionAndCursorAdvance
BY PairStep, TypeCorrect, SyncInvariant, PTL DEF Spec, RevisionAndCursorAdvance

\* Leaving Ready retires the epoch; within Ready the base domains change only
\* with the revision.
LEMMA StampStep ==
  TypeOK /\ SyncInv /\ [Next]_syncState =>
    /\ epoch' >= epoch
    /\ (state = "Ready" /\ revision' = revision /\ epoch' = epoch) =>
         state' = "Ready" /\ baseHosts' = baseHosts
<1> SUFFICES ASSUME TypeOK, SyncInv, [Next]_syncState
             PROVE  /\ epoch' >= epoch
                    /\ (state = "Ready" /\ revision' = revision /\ epoch' = epoch) =>
                         state' = "Ready" /\ baseHosts' = baseHosts
  OBVIOUS
<1> DEFINE Kept == /\ epoch' >= epoch
                   /\ (state = "Ready" /\ epoch' = epoch) => state' = "Ready"
<1>a. epoch \in Nat
  BY DEF TypeOK
<1>b. ASSUME NEW s, Transition(s) PROVE Kept
  BY <1>a, <1>b DEF Transition
<1>c. ASSUME UNCHANGED <<state, epoch>> PROVE Kept
  BY <1>a, <1>c
<1>d. ASSUME RequestResync PROVE Kept
  BY <1>b, <1>c, <1>d DEF RequestResync
<1> HIDE DEF Kept
<1>1. ASSUME NEW f \in Frame, Receive(f)
      PROVE  Kept /\ ((state = "Ready" /\ revision' = revision) => baseHosts' = baseHosts)
  <2>1. CASE Reject(f) \/ AcceptBegin(f) \/ AcceptResumeBarrier(f)
    BY <2>1, <1>b DEF Reject, AcceptBegin, AcceptResumeBarrier
  <2>2. CASE AcceptHeartbeat(f) \/ StageBaseHost(f)
    BY <2>2, <1>c DEF AcceptHeartbeat, StageBaseHost
  <2>3. CASE AcceptSnapshotBarrier(f)
    BY <2>3, <1>b DEF AcceptSnapshotBarrier, SnapshotBarrierOK, SyncInv,
                      ReadyIsSynchronized
  <2>4. CASE ApplyBaseHost(f) \/ ApplyEntity(f)
    <3>1. Kept
      BY <2>4, <1>b, <1>c DEF ApplyBaseHost, ApplyEntity, Advance
    <3>2. revision' # revision
      BY <2>4, FrameFields DEF ApplyBaseHost, ApplyEntity, BaseHostOK, EntityOK,
                               MutationOK, Advance, TypeOK
    <3> QED BY <3>1, <3>2
  <2> QED
    BY <1>1, <2>1, <2>2, <2>3, <2>4 DEF Receive, Accept
<1>2. CASE RunStep
  BY <1>2, <1>b, <1>c
  DEF RunStep, StartConnect, DrainResync, Dial, OpenWatch, RefreshSyncTimer, Kept,
      MarkDisconnected, CloseConn, Backoff, LeaveLoop, Shutdown, Unsynchronize, runState
<1>3. CASE SelectSignal \/ ReceiveEmpty \/ StreamLost \/ Cancel
  BY <1>3, <1>c DEF SelectSignal, SelectCtxDone, SelectStateChanged, SelectResync, Kept,
                    SyncTimeout, ReceiveEmpty, StreamLost, Cancel, runState
<1>4. CASE UnaryEvent
  <2>1. Kept
    BY <1>4, <1>b, <1>c, <1>d DEF UnaryEvent, CheckUnaryRevision, CreateReply,
       ListReplyMissing, CommitLoad, Evict, Require
  <2>2. baseHosts' = baseHosts
    BY <1>4 DEF UnaryEvent, CheckUnaryRevision, CreateReply, ListReplyMissing,
                CommitLoad, Evict, unaryState
  <2> QED BY <2>1, <2>2 DEF Kept
<1>5. CASE UNCHANGED syncState
  BY <1>5, <1>c DEF syncState, Kept
<1> QED
  BY <1>1, <1>2, <1>3, <1>4, <1>5 DEF Next, StreamEvent, Kept

\* A stamp taken while Ready pins the view for as long as it is current.
THEOREM StampSound == Spec => StampPinsView
BY StampStep, TypeCorrect, SyncInvariant, PTL DEF Spec, StampPinsView

\* Once the client has shut down, no step changes what a request can see.
LEMMA ShutdownStep ==
  TypeOK /\ SyncInv /\ [Next]_syncState =>
    (state = "Shutdown" =>
       /\ UNCHANGED <<state, revision, cursor, epoch, snapshot, requiredRevision,
                      barrierRequired, baseHosts>>
       /\ \A e \in Entities : cache'[e] \in {cache[e], NoEntry})
<1> DEFINE Unseen == /\ UNCHANGED <<state, revision, cursor, epoch, snapshot,
                                    requiredRevision, barrierRequired, baseHosts>>
                     /\ \A e \in Entities : cache'[e] \in {cache[e], NoEntry}
<1> SUFFICES ASSUME TypeOK, SyncInv, [Next]_syncState, state = "Shutdown"
             PROVE  Unseen
  OBVIOUS
<1>a. pc = "done"
  BY DEF SyncInv, LocationFitsState
<1>1. ~RunStep /\ ~SelectSignal /\ ~StreamEvent
  BY <1>a DEF RunStep, StartConnect, DrainResync, Dial, OpenWatch, RefreshSyncTimer,
     MarkDisconnected, CloseConn, Backoff, LeaveLoop, Shutdown, SelectSignal,
     SelectCtxDone, SelectStateChanged, SelectResync, SyncTimeout, StreamEvent,
     ReceiveEmpty, StreamLost, Receive
<1>2. CASE Cancel
  BY <1>2 DEF Cancel, runState
<1>3. ASSUME NEW resp \in Revisions, NEW expected \in 0..revision,
             CheckUnaryRevision(resp, expected) \/ CreateReply(resp, expected)
      PROVE  Unseen
  BY <1>3 DEF CheckUnaryRevision, CreateReply, RequestResync, unaryState
<1>4. CASE ListReplyMissing
  BY <1>4 DEF ListReplyMissing, RequestResync, unaryState
<1>5. ASSUME NEW e \in Entities, NEW v, NEW rev, NEW ep, CommitLoad(e, v, rev, ep)
      PROVE  Unseen
  BY <1>5 DEF CommitLoad, LoadAhead, LoadStores, LoadCurrent, unaryState
<1>6. ASSUME NEW e \in Entities, Evict(e)
      PROVE  Unseen
  BY <1>6 DEF Evict, unaryState, TypeOK
<1>7. CASE UNCHANGED syncState
  BY <1>7 DEF syncState
<1> QED
  BY <1>1, <1>2, <1>3, <1>4, <1>5, <1>6, <1>7 DEF Next, UnaryEvent

\* Shutdown is final: no late answer restores readiness or stores an entry.
THEOREM ShutdownSound == Spec => ShutdownIsFinal
BY ShutdownStep, TypeCorrect, SyncInvariant, PTL DEF Spec, ShutdownIsFinal

\* Exactly the steps that leave Ready retire the epoch.
EpochRule ==
  epoch' = IF state = "Ready" /\ state' # "Ready" THEN epoch + 1 ELSE epoch

\* Every step of the client follows it, because the state changes only through
\* transitionLocked.
LEMMA EpochStep ==
  ASSUME SyncInv, [Next]_syncState
  PROVE  EpochRule
<1>a. ASSUME NEW s, Transition(s) PROVE EpochRule
  BY <1>a DEF Transition, EpochRule
<1>b. ASSUME UNCHANGED <<state, epoch>> PROVE EpochRule
  BY <1>b DEF EpochRule
<1>1. ASSUME NEW f \in Frame, Receive(f) PROVE EpochRule
  BY <1>1, <1>a, <1>b DEF Receive, Accept, Reject, AcceptBegin, AcceptSnapshotBarrier,
     AcceptResumeBarrier, AcceptHeartbeat, StageBaseHost, ApplyBaseHost, ApplyEntity, Advance
<1>2. CASE RunStep
  BY <1>2, <1>a, <1>b
  DEF RunStep, StartConnect, DrainResync, Dial, OpenWatch, RefreshSyncTimer,
      MarkDisconnected, CloseConn, Backoff, LeaveLoop, Shutdown, Unsynchronize
<1>3. CASE SelectSignal \/ ReceiveEmpty \/ StreamLost \/ Cancel
  BY <1>3, <1>b DEF SelectSignal, SelectCtxDone, SelectStateChanged, SelectResync,
                    SyncTimeout, ReceiveEmpty, StreamLost, Cancel
<1>4. CASE UnaryEvent
  BY <1>4, <1>a, <1>b, Zenon DEF UnaryEvent, CheckUnaryRevision, CreateReply,
     ListReplyMissing, CommitLoad, Evict, Require, RequestResync
<1>5. CASE UNCHANGED syncState
  BY <1>5, <1>b DEF syncState
<1> QED BY <1>1, <1>2, <1>3, <1>4, <1>5 DEF Next, StreamEvent

\* Evidence is only ever added to.
LEMMA EvidenceGrows ==
  ASSUME TypeOK, [Next]_syncState
  PROVE  evidence' >= evidence
<1>a. ASSUME evidence' = evidence PROVE evidence' >= evidence
  BY <1>a DEF TypeOK
<1>b. ASSUME NEW resp \in Revisions, evidence' = Larger(evidence, resp)
      PROVE  evidence' >= evidence
  BY <1>b, SyncAssumption DEF TypeOK, Larger
<1>1. ASSUME NEW f \in Frame, Receive(f) PROVE evidence' = evidence
  BY <1>1 DEF Receive, Accept, Reject, AcceptBegin, AcceptSnapshotBarrier, streamState,
     AcceptResumeBarrier, AcceptHeartbeat, StageBaseHost, ApplyBaseHost, ApplyEntity, Advance
<1>2. CASE RunStep
  BY <1>2, <1>a
  DEF RunStep, StartConnect, DrainResync, Dial, OpenWatch, RefreshSyncTimer, runState,
      MarkDisconnected, CloseConn, Backoff, LeaveLoop, Shutdown, Unsynchronize
<1>3. CASE SelectSignal \/ ReceiveEmpty \/ StreamLost \/ Cancel
  BY <1>3, <1>a DEF SelectSignal, SelectCtxDone, SelectStateChanged, SelectResync,
                    SyncTimeout, ReceiveEmpty, StreamLost, Cancel, runState
<1>4. CASE UnaryEvent
  BY <1>4, <1>a, <1>b, Zenon DEF UnaryEvent, CheckUnaryRevision, CreateReply,
     ListReplyMissing, CommitLoad, Evict, Require
<1>5. CASE UNCHANGED syncState
  BY <1>5, <1>a DEF syncState
<1> QED BY <1>1, <1>2, <1>3, <1>4, <1>5, <1>a DEF Next, StreamEvent

=============================================================================
