------------------------------ MODULE WatchSync ------------------------------
(***************************************************************************)
(* The synchronized state of the control-plane client                      *)
(* (controlplane/client.go, watch.go and the parts of lookup.go that change *)
(* it), driven by a control plane about which nothing is assumed: every     *)
(* frame of every shape can arrive in every state, and every unary answer   *)
(* can carry every revision.                                                *)
(*                                                                          *)
(* The fields guarded by Client.syncMu are variables of the same name.  A   *)
(* critical section of syncMu is one step.  The goroutine that executes     *)
(* Client.Run and Client.connect has a program counter, so that request     *)
(* goroutines interleave with it wherever the code holds no lock.           *)
(*                                                                          *)
(* A revision is a natural number, 0 meaning "none yet".  A cursor is an    *)
(* opaque value, NoCursor standing for the empty string.  An entity is a    *)
(* cache key: the access key of a credential or the key of a mapping.  The  *)
(* two caches have the same protocol, so one function represents both; that *)
(* an entry can expire or be evicted at any time stands for TTL and LRU.    *)
(***************************************************************************)
EXTENDS Integers, FiniteSets

CONSTANTS
  Revisions,    \* the revisions a frame or a unary answer can carry
  Cursors,      \* the non-empty cursors
  NoCursor,     \* the empty cursor
  Hosts,        \* base domains that normalize successfully
  BaseHostMax,  \* Client.baseHostMax
  Entities,     \* keys of the credential cache and of the vbucket cache
  Values,       \* credentials and mappings, as far as the caches tell them apart
  Absent,       \* the value of a negative entry (Found = false)
  NoSnapshot,   \* Client.snapshot = nil
  NoEntry       \* no cache entry

AnyCursor == Cursors \cup {NoCursor}

Staged ==
  [revision: Revisions, expectedCursor: AnyCursor, previousCursor: AnyCursor,
   baseHosts: SUBSET Hosts]

CacheEntry == [value: Values \cup {Absent}, revision: Nat]

ASSUME SyncAssumption ==
  /\ Revisions \subseteq Nat
  /\ NoCursor \notin Cursors
  /\ IsFiniteSet(Hosts)
  /\ BaseHostMax \in Nat
  /\ Absent \notin Values
  /\ NoSnapshot \notin Staged
  /\ NoEntry \notin CacheEntry

VARIABLES
  state, revision, cursor, epoch, snapshot, requiredRevision, barrierRequired,
  baseHosts,
  cache,         \* caches.credentials and caches.vbuckets
  client,        \* Client.client # nil
  resync,        \* the one-slot channel Client.resync is full
  stateChanged,  \* the one-slot channel Client.stateChanged is full
  pc,            \* where the goroutine of Run is
  syncTimer,     \* syncTimerC # nil: the synchronization timer is armed
  ctxDone,       \* the context of Run is cancelled
  evidence       \* history: the highest revision a unary answer has shown to exist

syncState ==
  <<state, revision, cursor, epoch, snapshot, requiredRevision, barrierRequired,
    baseHosts, cache, client, resync, stateChanged, pc, syncTimer, ctxDone,
    evidence>>

States ==
  {"Startup", "Connecting", "Synchronizing", "Ready", "Disconnected", "Shutdown"}

Locations ==
  {"loop", "connect", "dial", "open", "select", "refresh", "return", "close",
   "backoff", "exit", "done"}

TypeOK ==
  /\ state \in States
  /\ revision \in Nat
  /\ cursor \in AnyCursor
  /\ epoch \in Nat
  /\ snapshot \in Staged \cup {NoSnapshot}
  /\ requiredRevision \in Nat
  /\ barrierRequired \in BOOLEAN
  /\ baseHosts \in SUBSET Hosts
  /\ cache \in [Entities -> CacheEntry \cup {NoEntry}]
  /\ client \in BOOLEAN
  /\ resync \in BOOLEAN
  /\ stateChanged \in BOOLEAN
  /\ pc \in Locations
  /\ syncTimer \in BOOLEAN
  /\ ctxDone \in BOOLEAN
  /\ evidence \in Nat

Init ==
  /\ state = "Startup"
  /\ revision = 0
  /\ cursor = NoCursor
  /\ epoch = 0
  /\ snapshot = NoSnapshot
  /\ requiredRevision = 0
  /\ barrierRequired = TRUE
  /\ baseHosts = {}
  /\ cache = [e \in Entities |-> NoEntry]
  /\ client = FALSE
  /\ resync = FALSE
  /\ stateChanged = FALSE
  /\ pc = "loop"
  /\ syncTimer = FALSE
  /\ ctxDone = FALSE
  /\ evidence = 0

Larger(m, n) == IF m >= n THEN m ELSE n

(***************************************************************************)
(* Transitions of the lifecycle state.                                     *)
(***************************************************************************)

\* Mutant: a change of state is not signalled.
TransitionSilently(s) ==
  LET next == IF state = "Shutdown" THEN "Shutdown" ELSE s
  IN  /\ state' = next
      /\ epoch' = IF state = "Ready" /\ next # "Ready" THEN epoch + 1 ELSE epoch
      /\ stateChanged' = stateChanged

\* Mutant: leaving Ready does not retire the epoch.
TransitionKeepingEpoch(s) ==
  LET next == IF state = "Shutdown" THEN "Shutdown" ELSE s
  IN  /\ state' = next
      /\ epoch' = epoch
      /\ stateChanged' = (stateChanged \/ next # state)

\* transitionLocked: Shutdown is final, leaving Ready retires the epoch, and a
\* change is signalled on the one-slot channel stateChanged.
Transition(s) ==
  LET next == IF state = "Shutdown" THEN "Shutdown" ELSE s
  IN  /\ state' = next
      /\ epoch' = IF state = "Ready" /\ next # "Ready" THEN epoch + 1 ELSE epoch
      /\ stateChanged' = (stateChanged \/ next # state)

\* Mutant: the stream is given up but the select loop is not told.
RequestResyncUnsignalled ==
  IF state = "Shutdown"
  THEN UNCHANGED <<state, epoch, stateChanged, barrierRequired, resync>>
  ELSE /\ barrierRequired' = TRUE
       /\ Transition("Disconnected")
       /\ UNCHANGED resync

\* requestResyncLocked, which leaves a client that has shut down alone.
RequestResync ==
  IF state = "Shutdown"
  THEN UNCHANGED <<state, epoch, stateChanged, barrierRequired, resync>>
  ELSE /\ barrierRequired' = TRUE
       /\ Transition("Disconnected")
       /\ resync' = TRUE

\* markUnsynchronized, and the body of markDisconnected in connect.
Unsynchronize(s) ==
  /\ Transition(s)
  /\ snapshot' = NoSnapshot
  /\ barrierRequired' = TRUE

(***************************************************************************)
(* The goroutine of Run, outside the select loop of connect.               *)
(***************************************************************************)
runState == <<revision, cursor, requiredRevision, baseHosts, cache, evidence>>

\* One iteration of Run: not yet cancelled, so connect again.
StartConnect ==
  /\ pc = "loop"
  /\ ~ctxDone
  /\ Unsynchronize("Connecting")
  /\ pc' = "connect"
  /\ UNCHANGED <<runState, client, resync, syncTimer, ctxDone>>

\* A stale resync signal is discarded before the replacement stream is opened.
DrainResync ==
  /\ pc = "connect"
  /\ resync' = FALSE
  /\ pc' = "dial"
  /\ UNCHANGED <<runState, state, epoch, snapshot, barrierRequired, client,
                 stateChanged, syncTimer, ctxDone>>

\* The dial options are built and the client is published, or either fails.
Dial ==
  /\ pc = "dial"
  /\ \/ client' = TRUE /\ pc' = "open"
     \/ client' = client /\ pc' = "return"
  /\ UNCHANGED <<runState, state, epoch, snapshot, barrierRequired, resync,
                 stateChanged, syncTimer, ctxDone>>

\* Synchronizing is entered, the request (cursor, revision) is read and the
\* stream is opened with the synchronization timer running, or opening fails.
OpenWatch ==
  /\ pc = "open"
  /\ Transition("Synchronizing")
  /\ \/ pc' = "select" /\ syncTimer' = TRUE
     \/ pc' = "return" /\ syncTimer' = syncTimer
  /\ UNCHANGED <<runState, snapshot, barrierRequired, client, resync, ctxDone>>

\* markDisconnected, which the deferred calls run before anything is torn down.
MarkDisconnected ==
  /\ pc = "return"
  /\ Unsynchronize("Disconnected")
  /\ syncTimer' = FALSE
  /\ pc' = "close"
  /\ UNCHANGED <<runState, client, resync, ctxDone>>

\* The connection is closed and the client is withdrawn.
CloseConn ==
  /\ pc = "close"
  /\ client' = FALSE
  /\ pc' = "backoff"
  /\ UNCHANGED <<runState, state, epoch, snapshot, barrierRequired, resync,
                 stateChanged, syncTimer, ctxDone>>

\* After connect returns: leave the loop when cancelled, else wait and retry.
Backoff ==
  /\ pc = "backoff"
  /\ pc' = IF ctxDone THEN "exit" ELSE "loop"
  /\ UNCHANGED <<runState, state, epoch, snapshot, barrierRequired, client,
                 resync, stateChanged, syncTimer, ctxDone>>

\* The loop condition of Run is false.
LeaveLoop ==
  /\ pc = "loop"
  /\ ctxDone
  /\ pc' = "exit"
  /\ UNCHANGED <<runState, state, epoch, snapshot, barrierRequired, client,
                 resync, stateChanged, syncTimer, ctxDone>>

\* Mutant: Run ends like any other connection.
ShutdownUnmarked ==
  /\ pc = "exit"
  /\ Unsynchronize("Disconnected")
  /\ pc' = "done"
  /\ UNCHANGED <<runState, client, resync, syncTimer, ctxDone>>

\* The last statement of Run.
Shutdown ==
  /\ pc = "exit"
  /\ Unsynchronize("Shutdown")
  /\ pc' = "done"
  /\ UNCHANGED <<runState, client, resync, syncTimer, ctxDone>>

\* The process receives SIGINT or SIGTERM.
Cancel ==
  /\ ~ctxDone
  /\ ctxDone' = TRUE
  /\ UNCHANGED <<runState, state, epoch, snapshot, barrierRequired, client,
                 resync, stateChanged, pc, syncTimer>>

(***************************************************************************)
(* Frames of the watch stream.  A "malformed" frame is an event of an      *)
(* unknown type, or one without the key or the valid base domain that its  *)
(* type needs.  The field ttlOK of an entity frame says that its           *)
(* NegativeTtl is as required: positive on a removal, missing otherwise.   *)
(***************************************************************************)
Frame ==
  [kind: {"begin", "barrier", "heartbeat", "malformed"}, revision: Revisions,
   cursor: AnyCursor]
  \cup [kind: {"baseHost"}, revision: Revisions, cursor: AnyCursor,
        host: Hosts, remove: BOOLEAN]
  \cup [kind: {"entity"}, revision: Revisions, cursor: AnyCursor,
        entity: Entities, remove: BOOLEAN, ttlOK: BOOLEAN]

\* Mutant: a snapshot must be newer than the accepted revision.
BeginStrictlyNewer(f) ==
  /\ f.kind = "begin"
  /\ snapshot = NoSnapshot
  /\ f.revision # 0 /\ f.cursor = NoCursor /\ f.revision > revision

\* A snapshot begins: no other is open, and it cuts no earlier than what the
\* client has accepted.
BeginOK(f) ==
  /\ f.kind = "begin"
  /\ snapshot = NoSnapshot
  /\ f.revision # 0 /\ f.cursor = NoCursor /\ f.revision >= revision

\* Mutant: a snapshot of the accepted revision may bring another cursor.
SnapshotBarrierAnyCursor(f) ==
  /\ f.kind = "barrier"
  /\ snapshot # NoSnapshot
  /\ f.revision # 0 /\ f.cursor # NoCursor
  /\ f.revision = snapshot.revision
  /\ (snapshot.revision > revision /\ snapshot.previousCursor # NoCursor)
       => f.cursor # snapshot.previousCursor

\* A barrier closes the open snapshot at its cut, with the cursor this
\* revision already has, or with one the previous revision does not have.
SnapshotBarrierOK(f) ==
  /\ f.kind = "barrier"
  /\ snapshot # NoSnapshot
  /\ f.revision # 0 /\ f.cursor # NoCursor
  /\ f.revision = snapshot.revision
  /\ snapshot.expectedCursor # NoCursor => f.cursor = snapshot.expectedCursor
  /\ (snapshot.revision > revision /\ snapshot.previousCursor # NoCursor)
       => f.cursor # snapshot.previousCursor

\* A barrier without a snapshot repeats the accepted pair.
ResumeBarrierOK(f) ==
  /\ f.kind = "barrier"
  /\ snapshot = NoSnapshot
  /\ f.revision # 0 /\ f.cursor # NoCursor
  /\ f.revision = revision /\ f.cursor = cursor

HeartbeatOK(f) ==
  /\ f.kind = "heartbeat"
  /\ snapshot = NoSnapshot
  /\ f.revision = revision /\ f.cursor = cursor /\ f.cursor # NoCursor

\* An entry of the open snapshot: a new base domain within the bound.
StageOK(f) ==
  /\ f.kind = "baseHost"
  /\ snapshot # NoSnapshot
  /\ f.revision # 0 /\ f.revision <= snapshot.revision /\ f.cursor = NoCursor
  /\ ~f.remove
  /\ f.host \notin snapshot.baseHosts
  /\ Cardinality(snapshot.baseHosts) < BaseHostMax

\* The envelope of a live mutation: the next revision, under a new cursor.
MutationOK(f) ==
  /\ snapshot = NoSnapshot
  /\ revision # 0 /\ cursor # NoCursor
  /\ f.revision = revision + 1
  /\ f.cursor # NoCursor /\ f.cursor # cursor

BaseHostOK(f) ==
  /\ f.kind = "baseHost"
  /\ MutationOK(f)
  /\ f.remove \/ f.host \in baseHosts \/ Cardinality(baseHosts) < BaseHostMax

EntityOK(f) ==
  /\ f.kind = "entity"
  /\ MutationOK(f)
  /\ f.ttlOK

\* The frames processWatch accepts.
Acceptable(f) ==
  /\ state \in {"Ready", "Synchronizing"}
  /\ \/ BeginOK(f) \/ SnapshotBarrierOK(f) \/ ResumeBarrierOK(f)
     \/ HeartbeatOK(f) \/ StageOK(f) \/ BaseHostOK(f) \/ EntityOK(f)

(***************************************************************************)
(* processWatch, one action per kind of accepted frame.                    *)
(***************************************************************************)
streamState == <<client, resync, syncTimer, ctxDone, evidence>>

\* The cache keeps what it holds or loses it: Set can evict other entries.
CacheSet(e, entry) ==
  \E kept \in SUBSET Entities :
    cache' = [x \in Entities |->
                IF x = e THEN entry ELSE IF x \in kept THEN cache[x] ELSE NoEntry]

AcceptBegin(f) ==
  /\ BeginOK(f)
  /\ Transition("Synchronizing")
  /\ barrierRequired' = TRUE
  /\ cache' = [e \in Entities |-> NoEntry]
  /\ snapshot' = [revision |-> f.revision,
                  expectedCursor |-> IF f.revision = revision THEN cursor ELSE NoCursor,
                  previousCursor |-> cursor,
                  baseHosts |-> {}]
  /\ UNCHANGED <<revision, cursor, requiredRevision, baseHosts>>

\* Mutant: a snapshot adds to the registry instead of replacing it.
AcceptSnapshotBarrierMerging(f) ==
  /\ SnapshotBarrierOK(f)
  /\ baseHosts' = baseHosts \cup snapshot.baseHosts
  /\ snapshot' = NoSnapshot
  /\ revision' = f.revision
  /\ cursor' = f.cursor
  /\ barrierRequired' = FALSE
  /\ requiredRevision' = IF f.revision >= requiredRevision THEN 0 ELSE requiredRevision
  /\ Transition(IF f.revision >= requiredRevision THEN "Ready" ELSE "Synchronizing")
  /\ UNCHANGED cache

AcceptSnapshotBarrier(f) ==
  /\ SnapshotBarrierOK(f)
  /\ baseHosts' = snapshot.baseHosts
  /\ snapshot' = NoSnapshot
  /\ revision' = f.revision
  /\ cursor' = f.cursor
  /\ barrierRequired' = FALSE
  /\ requiredRevision' = IF f.revision >= requiredRevision THEN 0 ELSE requiredRevision
  /\ Transition(IF f.revision >= requiredRevision THEN "Ready" ELSE "Synchronizing")
  /\ UNCHANGED cache

\* Mutant: a barrier short of the required revision does not count.
AcceptResumeBarrierLate(f) ==
  /\ ResumeBarrierOK(f)
  /\ barrierRequired' = (revision < requiredRevision)
  /\ requiredRevision' = IF revision >= requiredRevision THEN 0 ELSE requiredRevision
  /\ Transition(IF revision >= requiredRevision THEN "Ready" ELSE "Synchronizing")
  /\ UNCHANGED <<revision, cursor, snapshot, baseHosts, cache>>

AcceptResumeBarrier(f) ==
  /\ ResumeBarrierOK(f)
  /\ barrierRequired' = FALSE
  /\ requiredRevision' = IF revision >= requiredRevision THEN 0 ELSE requiredRevision
  /\ Transition(IF revision >= requiredRevision THEN "Ready" ELSE "Synchronizing")
  /\ UNCHANGED <<revision, cursor, snapshot, baseHosts, cache>>

AcceptHeartbeat(f) ==
  /\ HeartbeatOK(f)
  /\ UNCHANGED <<state, revision, cursor, epoch, snapshot, requiredRevision,
                 barrierRequired, baseHosts, cache, stateChanged>>

StageBaseHost(f) ==
  /\ StageOK(f)
  /\ snapshot' = [snapshot EXCEPT !.baseHosts = @ \cup {f.host}]
  /\ UNCHANGED <<state, revision, cursor, epoch, requiredRevision,
                 barrierRequired, baseHosts, cache, stateChanged>>

\* Mutant: reaching the target restores readiness though a barrier is owed.
AdvanceIgnoringBarrier(f) ==
  /\ revision' = f.revision
  /\ cursor' = f.cursor
  /\ IF requiredRevision # 0 /\ f.revision >= requiredRevision
     THEN requiredRevision' = 0 /\ Transition("Ready")
     ELSE UNCHANGED <<requiredRevision, state, epoch, stateChanged>>
  /\ UNCHANGED <<snapshot, barrierRequired>>

\* The end of processWatch for a live mutation: the pair advances, and a
\* catch-up that has reached its target restores readiness unless a barrier is
\* still owed.
Advance(f) ==
  /\ revision' = f.revision
  /\ cursor' = f.cursor
  /\ IF requiredRevision # 0 /\ f.revision >= requiredRevision
     THEN /\ requiredRevision' = 0
          /\ Transition(IF barrierRequired THEN state ELSE "Ready")
     ELSE UNCHANGED <<requiredRevision, state, epoch, stateChanged>>
  /\ UNCHANGED <<snapshot, barrierRequired>>

ApplyBaseHost(f) ==
  /\ BaseHostOK(f)
  /\ baseHosts' = IF f.remove THEN baseHosts \ {f.host} ELSE baseHosts \cup {f.host}
  /\ UNCHANGED cache
  /\ Advance(f)

\* Mutant: an update leaves the cached value in place.
ApplyEntityKeeping(f) ==
  /\ EntityOK(f)
  /\ IF f.remove /\ cache[f.entity] # NoEntry
     THEN CacheSet(f.entity, [value |-> Absent, revision |-> f.revision])
     ELSE UNCHANGED cache
  /\ UNCHANGED baseHosts
  /\ Advance(f)

\* A removal turns a hot entry into a tombstone; an update forgets it.
ApplyEntity(f) ==
  /\ EntityOK(f)
  /\ IF f.remove /\ cache[f.entity] # NoEntry
     THEN CacheSet(f.entity, [value |-> Absent, revision |-> f.revision])
     ELSE cache' = [cache EXCEPT ![f.entity] = NoEntry]
  /\ UNCHANGED baseHosts
  /\ Advance(f)

\* A removal without a valid TTL forgets the entry before it fails.
Forgotten(f) ==
  IF f.kind = "entity" /\ state \in {"Ready", "Synchronizing"} /\ MutationOK(f) /\ f.remove
  THEN {f.entity} ELSE {}

\* Any other frame retires the stream and makes a new barrier necessary.
Reject(f) ==
  /\ ~Acceptable(f)
  /\ barrierRequired' = TRUE
  /\ Transition("Disconnected")
  /\ cache' = [e \in Entities |-> IF e \in Forgotten(f) THEN NoEntry ELSE cache[e]]
  /\ UNCHANGED <<revision, cursor, snapshot, requiredRevision, baseHosts>>

Accept(f) ==
  /\ state \in {"Ready", "Synchronizing"}
  /\ \/ AcceptBegin(f)
     \/ AcceptSnapshotBarrier(f)
     \/ AcceptResumeBarrier(f)
     \/ AcceptHeartbeat(f)
     \/ StageBaseHost(f)
     \/ ApplyBaseHost(f)
     \/ ApplyEntity(f)

(***************************************************************************)
(* The select loop of connect.                                             *)
(***************************************************************************)

\* A frame is received and processed; on success the timers are refreshed next.
Receive(f) ==
  /\ pc = "select"
  /\ \/ Accept(f) /\ pc' = "refresh"
     \/ Reject(f) /\ pc' = "return"
  /\ UNCHANGED streamState

\* processWatch rejects an event without a payload before it takes the lock:
\* the state changes only when connect returns.
ReceiveEmpty ==
  /\ pc = "select"
  /\ pc' = "return"
  /\ UNCHANGED <<runState, state, epoch, snapshot, barrierRequired, client,
                 resync, stateChanged, syncTimer, ctxDone>>

\* stream.Recv fails, or no frame has arrived for WatchSilenceTimeout.
StreamLost ==
  /\ pc = "select"
  /\ pc' = "return"
  /\ UNCHANGED <<runState, state, epoch, snapshot, barrierRequired, client,
                 resync, stateChanged, syncTimer, ctxDone>>

SelectCtxDone ==
  /\ pc = "select"
  /\ ctxDone
  /\ pc' = "return"
  /\ UNCHANGED <<runState, state, epoch, snapshot, barrierRequired, client,
                 resync, stateChanged, syncTimer, ctxDone>>

SelectStateChanged ==
  /\ pc = "select"
  /\ stateChanged
  /\ stateChanged' = FALSE
  /\ pc' = "refresh"
  /\ UNCHANGED <<runState, state, epoch, snapshot, barrierRequired, client,
                 resync, syncTimer, ctxDone>>

SelectResync ==
  /\ pc = "select"
  /\ resync
  /\ resync' = FALSE
  /\ pc' = "return"
  /\ UNCHANGED <<runState, state, epoch, snapshot, barrierRequired, client,
                 stateChanged, syncTimer, ctxDone>>

\* The synchronization timer fires.
SyncTimeout ==
  /\ pc = "select"
  /\ syncTimer
  /\ pc' = "return"
  /\ UNCHANGED <<runState, state, epoch, snapshot, barrierRequired, client,
                 resync, stateChanged, syncTimer, ctxDone>>

\* refreshSyncTimer reads the state again: Ready disarms the timer,
\* Synchronizing arms it or finds its deadline already past.
RefreshSyncTimer ==
  /\ pc = "refresh"
  /\ \/ state = "Ready" /\ syncTimer' = FALSE /\ pc' = "select"
     \/ state = "Synchronizing" /\ syncTimer' = TRUE /\ pc' = "select"
     \/ state = "Synchronizing" /\ syncTimer' = syncTimer /\ pc' = "return"
     \/ state \notin {"Ready", "Synchronizing"} /\ syncTimer' = syncTimer /\ pc' = "select"
  /\ UNCHANGED <<runState, state, epoch, snapshot, barrierRequired, client,
                 resync, stateChanged, ctxDone>>

(***************************************************************************)
(* Request goroutines.  A unary call is made at the revision and the epoch *)
(* its goroutine read under syncMu, so "expected" is never ahead.          *)
(***************************************************************************)
unaryState == <<revision, cursor, snapshot, baseHosts, client, pc, syncTimer, ctxDone>>

\* Mutant: the last answer replaces the highest one.
RequireLatest(resp, downgraded) ==
  /\ evidence' = Larger(evidence, resp)
  /\ IF resp > revision
     THEN /\ requiredRevision' = resp
          /\ IF state \in downgraded
             THEN Transition("Synchronizing")
             ELSE UNCHANGED <<state, epoch, stateChanged>>
     ELSE UNCHANGED <<requiredRevision, state, epoch, stateChanged>>
  /\ UNCHANGED <<barrierRequired, resync>>

\* An answer that shows a revision to exist is remembered until it is reached.
Require(resp, downgraded) ==
  /\ evidence' = Larger(evidence, resp)
  /\ IF resp > revision
     THEN /\ requiredRevision' = Larger(requiredRevision, resp)
          /\ IF state \in downgraded
             THEN Transition("Synchronizing")
             ELSE UNCHANGED <<state, epoch, stateChanged>>
     ELSE UNCHANGED <<requiredRevision, state, epoch, stateChanged>>
  /\ UNCHANGED <<barrierRequired, resync>>

\* checkUnaryRevision on an answer at another revision than the expected one.
CheckUnaryRevision(resp, expected) ==
  /\ resp # expected
  /\ \/ /\ state = "Shutdown"
        /\ UNCHANGED <<state, epoch, stateChanged, barrierRequired, resync,
                       requiredRevision, evidence>>
     \/ /\ state # "Shutdown" /\ resp < expected
        /\ RequestResync
        /\ UNCHANGED <<requiredRevision, evidence>>
     \/ /\ state # "Shutdown" /\ resp > expected
        /\ Require(resp, {"Ready"})
  /\ UNCHANGED <<unaryState, cache>>

\* Mutant: a late create reply is applied after shutdown.
CreateReplyAfterShutdown(resp, minimum) ==
  /\ \/ /\ resp <= minimum
        /\ RequestResync
        /\ UNCHANGED <<requiredRevision, evidence>>
     \/ /\ resp > minimum
        /\ Require(resp, {"Ready", "Synchronizing"})
  /\ UNCHANGED <<unaryState, cache>>

\* CreateVBucket after its RPC: resp is the committed revision, 0 if missing.
CreateReply(resp, minimum) ==
  /\ \/ /\ resp <= minimum
        /\ RequestResync
        /\ UNCHANGED <<requiredRevision, evidence>>
     \/ /\ resp > minimum /\ state = "Shutdown"
        /\ UNCHANGED <<state, epoch, stateChanged, barrierRequired, resync,
                       requiredRevision, evidence>>
     \/ /\ resp > minimum /\ state # "Shutdown"
        /\ Require(resp, {"Ready", "Synchronizing"})
  /\ UNCHANGED <<unaryState, cache>>

\* ListVBuckets on a missing answer.
ListReplyMissing ==
  /\ RequestResync
  /\ UNCHANGED <<unaryState, requiredRevision, evidence, cache>>

\* What the last critical section of a loader does with its candidate, which
\* was read at rev and whose call was made in epoch ep.  An entry at the
\* current revision that is not older than the candidate is returned instead.
LoadCurrent(ep) == state = "Ready" /\ epoch = ep

LoadCached(e, rev, ep) ==
  /\ LoadCurrent(ep)
  /\ cache[e] # NoEntry
  /\ \/ cache[e].revision > rev /\ cache[e].revision = revision
     \/ cache[e].revision >= rev /\ rev = revision

\* A candidate ahead of the watch retires the stream.
LoadAhead(rev, ep) == LoadCurrent(ep) /\ rev > revision

\* A candidate at the current revision is stored.
LoadStores(e, rev, ep) ==
  LoadCurrent(ep) /\ rev = revision /\ ~LoadCached(e, rev, ep)

CommitLoad(e, value, rev, ep) ==
  /\ IF LoadAhead(rev, ep)
     THEN RequestResync
     ELSE UNCHANGED <<state, epoch, stateChanged, barrierRequired, resync>>
  /\ IF LoadStores(e, rev, ep)
     THEN CacheSet(e, [value |-> value, revision |-> rev])
     ELSE UNCHANGED cache
  /\ UNCHANGED <<unaryState, requiredRevision, evidence>>

\* An entry expires or is evicted.
Evict(e) ==
  /\ cache[e] # NoEntry
  /\ cache' = [cache EXCEPT ![e] = NoEntry]
  /\ UNCHANGED <<unaryState, state, epoch, stateChanged, barrierRequired, resync,
                 requiredRevision, evidence>>

(***************************************************************************)
(* The specification.                                                      *)
(***************************************************************************)
RunStep ==
  \/ StartConnect \/ DrainResync \/ Dial \/ OpenWatch \/ RefreshSyncTimer
  \/ MarkDisconnected \/ CloseConn \/ Backoff \/ LeaveLoop \/ Shutdown

SelectSignal == SelectCtxDone \/ SelectStateChanged \/ SelectResync \/ SyncTimeout

StreamEvent == ReceiveEmpty \/ StreamLost \/ \E f \in Frame : Receive(f)

UnaryEvent ==
  \/ \E resp \in Revisions, expected \in 0..revision :
       CheckUnaryRevision(resp, expected) \/ CreateReply(resp, expected)
  \/ ListReplyMissing
  \/ \E e \in Entities, v \in Values \cup {Absent}, rev \in 0..revision, ep \in 0..epoch :
       CommitLoad(e, v, rev, ep)
  \/ \E e \in Entities : Evict(e)

Next == RunStep \/ SelectSignal \/ StreamEvent \/ UnaryEvent \/ Cancel

Spec == Init /\ [][Next]_syncState

\* The goroutine of Run is scheduled, and a select picks among its ready cases
\* at random, so a case that stays or keeps becoming ready is picked.  Nothing
\* is assumed of the stream, of the requests or of the network.
Fairness ==
  /\ WF_syncState(RunStep)
  /\ SF_syncState(SelectCtxDone)
  /\ SF_syncState(SelectStateChanged)
  /\ SF_syncState(SelectResync)
  /\ SF_syncState(SyncTimeout)

FairSpec == Spec /\ Fairness

(***************************************************************************)
(* Safety.                                                                 *)
(***************************************************************************)

\* Readiness is only ever claimed with a complete view: a barrier has been
\* accepted, no snapshot is half staged, no revision known to exist is still
\* missing, the view has a revision and a cursor, the client is published and
\* the stream that justifies it has not been torn down (client.go Ready,
\* watch.go processWatch and the deferred calls of connect).
ReadyIsSynchronized ==
  state = "Ready" =>
    /\ ~barrierRequired /\ snapshot = NoSnapshot /\ requiredRevision = 0
    /\ revision # 0 /\ cursor # NoCursor
    /\ client /\ pc \in {"select", "refresh", "return"}

\* Evidence is never forgotten: a revision that an answer to a lookup, a list
\* or a create has shown to exist is covered whenever the client is Ready,
\* whatever disconnects, snapshots and replays happened in between
\* (requiredRevision in lookup.go and watch.go).
EvidenceHonoured == state = "Ready" => evidence <= revision

\* A client that owes no barrier but is not Ready waits for a revision it has
\* not reached; otherwise no frame could ever make it Ready again on this
\* stream (the two ends of catch-up in watch.go).
CatchUpHasTarget ==
  state = "Synchronizing" /\ ~barrierRequired => requiredRevision > revision

\* Synchronizing is always under a deadline: the timer is armed, or the signal
\* that makes the select loop arm it is pending (stateChanged and
\* refreshSyncTimer in watch.go).
SynchronizingIsTimed ==
  pc = "select" /\ state = "Synchronizing" => syncTimer \/ stateChanged

\* The select loop never waits on a stream that has been given up: when the
\* state is Disconnected the resync signal that ends the loop is pending, so
\* discarding stale signals in connect never discards a needed one.
RetiredStreamIsSignalled ==
  pc = "select" => state \in {"Synchronizing", "Ready"} \/ (state = "Disconnected" /\ resync)

\* Neither the published registry nor the staged one exceeds its bound
\* (baseHostMax in processWatch and applyEntityLocked).
RegistryBounded ==
  /\ Cardinality(baseHosts) <= BaseHostMax
  /\ snapshot # NoSnapshot => Cardinality(snapshot.baseHosts) <= BaseHostMax

\* No cache entry is newer than the view it belongs to.
CacheNotAhead == \A e \in Entities : cache[e] # NoEntry => cache[e].revision <= revision

(***************************************************************************)
(* The inductive invariant behind the safety properties.                   *)
(***************************************************************************)

\* The lifecycle state fits the place where the goroutine of Run is.
LocationFitsState ==
  /\ pc \in {"loop", "connect", "dial", "open", "close", "backoff", "exit"} =>
       state \in {"Startup", "Connecting", "Disconnected"}
  /\ state = "Shutdown" <=> pc = "done"
  /\ pc \in {"open", "select", "refresh"} => client
  /\ pc \in {"select", "refresh"} =>
       state \in {"Synchronizing", "Ready"} \/ (state = "Disconnected" /\ resync)

\* A barrier is owed whenever there is no live, complete view.
BarrierOwed ==
  state \notin {"Ready", "Synchronizing"} \/ snapshot # NoSnapshot => barrierRequired

\* The accepted revision and cursor are both there or both missing.
PairComplete == revision = 0 <=> cursor = NoCursor

\* The open snapshot was cut at or after the view it will replace, and that
\* view has not changed since the snapshot began.
StagedOnView ==
  snapshot # NoSnapshot =>
    /\ snapshot.revision # 0 /\ snapshot.revision >= revision
    /\ snapshot.previousCursor = cursor
    /\ snapshot.expectedCursor = IF snapshot.revision = revision THEN cursor ELSE NoCursor

\* requiredRevision is the highest revision known to exist, or 0 once reached.
EvidenceKept ==
  /\ requiredRevision = 0 => evidence <= revision
  /\ requiredRevision # 0 => requiredRevision = evidence /\ requiredRevision > revision

\* The invariant that every step preserves.
SyncInv ==
  /\ LocationFitsState
  /\ BarrierOwed
  /\ PairComplete
  /\ StagedOnView
  /\ EvidenceKept
  /\ ReadyIsSynchronized
  /\ CatchUpHasTarget
  /\ SynchronizingIsTimed
  /\ CacheNotAhead

(***************************************************************************)
(* What a step may never do.                                               *)
(***************************************************************************)

\* Revisions never go back, and every accepted revision has one cursor: the
\* pair changes in both halves or in neither, across reconnects and snapshots.
RevisionAndCursorAdvance ==
  [][ /\ revision' >= revision
      /\ revision' # revision <=> cursor' # cursor ]_syncState

\* A stamp (revision, epoch) taken while Ready pins the whole view: as long as
\* both are unchanged the client has stayed Ready and routes by the same base
\* domains (stillCurrent and ValidateResolution in lookup.go).
StampPinsView ==
  [][ /\ epoch' >= epoch
      /\ (state = "Ready" /\ revision' = revision /\ epoch' = epoch) =>
           state' = "Ready" /\ baseHosts' = baseHosts ]_syncState

\* After shutdown nothing a request can see changes any more, whatever calls
\* still complete; in particular no late answer restores readiness or stores
\* an entry.
ShutdownIsFinal ==
  [][ state = "Shutdown" =>
        /\ UNCHANGED <<state, revision, cursor, epoch, snapshot, requiredRevision,
                       barrierRequired, baseHosts>>
        /\ \A e \in Entities : cache'[e] \in {cache[e], NoEntry} ]_syncState

(***************************************************************************)
(* Liveness, whatever the control plane sends or withholds.                *)
(***************************************************************************)

\* Synchronizing cannot last: a stream that keeps sending frames but never the
\* barrier or the missing revision is given up (syncTimer in connect).
SynchronizingEnds == state = "Synchronizing" ~> state # "Synchronizing"

\* A client that is Disconnected synchronizes again or shuts down: the loop
\* is never left waiting on the stream it has given up (resync in connect).
DisconnectedEnds == state = "Disconnected" ~> state # "Disconnected"

\* Cancelling the context of Run ends in Shutdown from wherever Run is.
CancelShutsDown == ctxDone ~> state = "Shutdown"

=============================================================================
