---------------------------- MODULE ControlPlane ----------------------------
(***************************************************************************)
(* The client of WatchSync together with a control plane that keeps the     *)
(* contract of api/v1/controlplane.proto.  The control plane is not part of *)
(* the repository: it is modelled from the requests the client makes and    *)
(* the frames and answers it accepts.                                       *)
(*                                                                          *)
(* The control plane answers a watch with a snapshot or with a replay of    *)
(* contiguous changes, then a barrier, then live changes and heartbeats.  A *)
(* unary answer is evaluated at any revision between the requested minimum  *)
(* and the newest one.  A frame is constructed when it is delivered: the    *)
(* stream is first-in first-out, so the client's revision is the position   *)
(* of the sender.                                                           *)
(***************************************************************************)
EXTENDS WatchSync, Sequences

ASSUME ServerAssumption ==
  /\ NoCursor = 0
  /\ Cursors = Revisions \ {0}   \* a revision has one canonical cursor
  /\ Values = Revisions \ {0}    \* and a value is told apart by the revision
  /\ 1 \in Revisions            \* that wrote it, the first of them being 1

VARIABLES
  log,   \* the world of module World
  feed   \* the sending end of the open stream

INSTANCE World

\* What requests see of the client.
V == INSTANCE View WITH ready <- state = "Ready"

cpState == <<syncState, log, feed>>

NoFeed == [phase |-> "none", cut |-> 0, todo |-> {}]

ServerTypeOK ==
  /\ log \in Seq(Version)
  /\ feed \in [phase: {"none", "begin", "snapshot", "replay", "live"},
               cut: Revisions \cup {0}, todo: SUBSET Hosts]

CPTypeOK == TypeOK /\ ServerTypeOK

CPInit == Init /\ WorldInit /\ feed = NoFeed

Change == ChangeWorld /\ UNCHANGED <<syncState, feed>>

(***************************************************************************)
(* The stream.                                                             *)
(***************************************************************************)

\* The live frame that reports the change made by revision r.
Mutation(r) ==
  LET d == log[r].delta
  IN  IF d.kind = "entity"
      THEN [kind |-> "entity", revision |-> r, cursor |-> r,
            entity |-> d.entity, remove |-> d.remove, ttlOK |-> TRUE]
      ELSE [kind |-> "baseHost", revision |-> r, cursor |-> r,
            host |-> d.host, remove |-> d.remove]

\* A watch is answered with a snapshot, or with a replay when the request
\* names a revision and the control plane can still resume from it.
ServeWatch ==
  /\ OpenWatch
  /\ IF pc' = "select"
     THEN \/ feed' = [NoFeed EXCEPT !.phase = "begin"]
          \/ revision # 0 /\ feed' = [NoFeed EXCEPT !.phase = "replay"]
     ELSE UNCHANGED feed
  /\ UNCHANGED log

\* The snapshot is cut at a revision the request does not go beyond.
SendBegin ==
  /\ feed.phase = "begin"
  /\ \E cut \in revision..newest :
       /\ cut # 0
       /\ Receive([kind |-> "begin", revision |-> cut, cursor |-> NoCursor])
       /\ feed' = [phase |-> "snapshot", cut |-> cut, todo |-> log[cut].hosts]
  /\ UNCHANGED log

SendHost ==
  /\ feed.phase = "snapshot"
  /\ \E h \in feed.todo, r \in 1..feed.cut :
       /\ Receive([kind |-> "baseHost", revision |-> r, cursor |-> NoCursor,
                   host |-> h, remove |-> FALSE])
       /\ feed' = [feed EXCEPT !.todo = @ \ {h}]
  /\ UNCHANGED log

SendSnapshotBarrier ==
  /\ feed.phase = "snapshot" /\ feed.todo = {}
  /\ Receive([kind |-> "barrier", revision |-> feed.cut, cursor |-> feed.cut])
  /\ feed' = [NoFeed EXCEPT !.phase = "live"]
  /\ UNCHANGED log

SendReplayBarrier ==
  /\ feed.phase = "replay"
  /\ Receive([kind |-> "barrier", revision |-> revision, cursor |-> revision])
  /\ feed' = [NoFeed EXCEPT !.phase = "live"]
  /\ UNCHANGED log

SendMutation ==
  /\ feed.phase \in {"replay", "live"}
  /\ revision < newest
  /\ Receive(Mutation(revision + 1))
  /\ UNCHANGED <<log, feed>>

SendHeartbeat ==
  /\ feed.phase = "live"
  /\ Receive([kind |-> "heartbeat", revision |-> revision, cursor |-> revision])
  /\ UNCHANGED <<log, feed>>

\* The control plane replaces a live stream by a reset snapshot.
ResetStream ==
  /\ feed.phase = "live"
  /\ pc = "select"
  /\ feed' = [NoFeed EXCEPT !.phase = "begin"]
  /\ UNCHANGED <<syncState, log>>

SendFrame ==
  \/ SendBegin \/ SendHost \/ SendSnapshotBarrier \/ SendReplayBarrier
  \/ SendMutation \/ SendHeartbeat

(***************************************************************************)
(* Steps of the client that involve no frame.  Once connect has returned   *)
(* the stream is gone.                                                     *)
(***************************************************************************)
Connected == pc' # "return"

ClientStep ==
  \/ /\ \/ StartConnect \/ DrainResync \/ (Dial /\ Connected)
        \/ (RefreshSyncTimer /\ Connected) \/ CloseConn \/ Backoff \/ LeaveLoop \/ Shutdown
     /\ UNCHANGED <<log, feed>>
  \/ ServeWatch /\ Connected
  \/ MarkDisconnected /\ feed' = NoFeed /\ UNCHANGED log

ClientSignal ==
  /\ SelectCtxDone \/ SelectStateChanged \/ SelectResync \/ Cancel
  /\ UNCHANGED <<log, feed>>

\* What a network and its deadlines do to the client: the stream breaks or
\* falls silent, synchronizing takes too long, connecting or opening fails.
Fault ==
  \/ /\ \/ StreamLost \/ SyncTimeout \/ (RefreshSyncTimer /\ ~Connected)
        \/ (Dial /\ ~Connected)
     /\ UNCHANGED <<log, feed>>
  \/ ServeWatch /\ ~Connected
  \/ ListReplyMissing /\ UNCHANGED <<log, feed>>
  \/ ResetStream

(***************************************************************************)
(* Unary answers.  A call was made at a revision the client had accepted   *)
(* and in an epoch it had reached; it can be answered, and the answer can  *)
(* be processed, at any later time.                                        *)
(***************************************************************************)
AnswerAhead ==
  \E expected \in 1..revision : \E resp \in expected..newest :
    CheckUnaryRevision(resp, expected)

AnswerLookup ==
  \E e \in Entities, rev \in 1..revision, ep \in 0..epoch :
    CommitLoad(e, log[rev].value[e], rev, ep)

AnswerCreate ==
  \E minimum \in 1..revision : \E resp \in (minimum + 1)..newest :
    CreateReply(resp, minimum)

Answer == (AnswerAhead \/ AnswerCreate) /\ UNCHANGED <<log, feed>>

LookupStep ==
  /\ AnswerLookup \/ \E e \in Entities : Evict(e)
  /\ UNCHANGED <<log, feed>>

Uncached == Change \/ SendFrame \/ ClientStep \/ ClientSignal \/ Answer

Undisturbed == Uncached \/ LookupStep

CPNext == Undisturbed \/ Fault

CPSpec == CPInit /\ [][CPNext]_cpState

\* The goroutine of Run is scheduled; the control plane keeps sending what it
\* owes, and a select that keeps finding a case ready picks it.
SendOwed ==
  SendBegin \/ SendHost \/ SendSnapshotBarrier \/ SendReplayBarrier \/ SendMutation

CPFairness ==
  /\ WF_cpState(ClientStep)
  /\ SF_cpState(SendOwed)
  /\ SF_cpState(SelectResync /\ UNCHANGED <<log, feed>>)

(***************************************************************************)
(* What the client guarantees against such a control plane.                *)
(***************************************************************************)

\* The base domains by which requests are routed are exactly those of the
\* accepted revision, in every state, however snapshots, replays, resets and
\* broken streams alternated (processWatch stages a snapshot privately and
\* swaps it in at its barrier).
BaseHostsExact == revision # 0 => baseHosts = log[revision].hosts

\* Whatever a cache holds is the value at the accepted revision: no update,
\* removal or snapshot leaves an older value behind and no late load brings
\* one back (applyEntityLocked and the last critical section of the loaders).
CacheFresh ==
  \A e \in Entities : cache[e] # NoEntry =>
    cache[e].revision \in 1..revision /\ cache[e].value = log[revision].value[e]

\* The client refuses no frame of a conforming stream that it has not itself
\* given up: every next frame is acceptable (processWatch).
ConformingFramesAccepted ==
  pc = "select" /\ state \in {"Ready", "Synchronizing"} =>
    /\ feed.phase = "begin" => \A cut \in (revision..newest) \ {0} :
         Acceptable([kind |-> "begin", revision |-> cut, cursor |-> NoCursor])
    /\ feed.phase = "snapshot" => \A h \in feed.todo :
         Acceptable([kind |-> "baseHost", revision |-> feed.cut, cursor |-> NoCursor,
                     host |-> h, remove |-> FALSE])
    /\ feed.phase = "snapshot" /\ feed.todo = {} =>
         Acceptable([kind |-> "barrier", revision |-> feed.cut, cursor |-> feed.cut])
    /\ feed.phase \in {"replay", "live"} =>
         /\ Acceptable([kind |-> "barrier", revision |-> revision, cursor |-> revision])
         /\ Acceptable([kind |-> "heartbeat", revision |-> revision, cursor |-> revision])
         /\ revision < newest => Acceptable(Mutation(revision + 1))

\* A stream on which a conforming control plane sends nothing but heartbeats is
\* not one on which the client waits for a barrier: after its barrier the
\* client is Ready, catching up to a revision that exists, or has given up.
LiveStreamSuffices ==
  pc = "select" /\ feed.phase = "live" =>
    \/ state = "Ready"
    \/ state = "Synchronizing" /\ ~barrierRequired /\ requiredRevision \in (revision + 1)..newest
    \/ state = "Disconnected" /\ resync

\* Once disturbances stop, a client that is not shut down becomes Ready at the
\* newest revision and stays so: no interleaving of lost streams, timeouts,
\* resets and answers from ahead leaves it stuck or permanently behind.
Converges == <>ctxDone \/ <>[](state = "Ready" /\ revision = newest)

\* The watch protocol in full keeps the promise of module View: requests may
\* reason about readiness, revision, epoch, base domains and caches without
\* knowing of frames, timers or connections.
ImplementsView == V!ViewSpec

=============================================================================
