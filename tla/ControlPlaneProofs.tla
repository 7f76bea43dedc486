-------------------------- MODULE ControlPlaneProofs --------------------------
(***************************************************************************)
(* Proofs about ControlPlane, for every set of revisions, base domains and *)
(* cache keys, and for every behaviour of a control plane that keeps its   *)
(* contract: the client's view is exactly one revision of the world, the   *)
(* client refuses nothing it is owed, and it implements module View.       *)
(***************************************************************************)
EXTENDS ControlPlane, WatchSyncProofs

(***************************************************************************)
(* The inductive invariant.                                                *)
(***************************************************************************)

\* Revision r differs from the one before by the change it reports.
ReportsItsChange(r) ==
  LET d == log[r].delta
      before == log[r - 1]
  IN  \/ /\ d.kind = "entity"
         /\ d.entity \in Entities /\ d.remove \in BOOLEAN
         /\ log[r].hosts = before.hosts
         /\ \A e \in Entities \ {d.entity} : log[r].value[e] = before.value[e]
         /\ d.remove => log[r].value[d.entity] = Absent
      \/ /\ d.kind = "baseHost"
         /\ d.host \in Hosts /\ d.remove \in BOOLEAN
         /\ log[r].value = before.value
         /\ log[r].hosts = IF d.remove THEN before.hosts \ {d.host}
                           ELSE before.hosts \cup {d.host}

\* The world: revisions without a gap, each within the bound on base domains
\* and each made by one change.
WorldInv ==
  /\ log \in Seq(Version)
  /\ 1 \in DOMAIN log
  /\ \A r \in DOMAIN log : r \in Revisions /\ Cardinality(log[r].hosts) <= BaseHostMax
  /\ \A r \in DOMAIN log : r # 1 => ReportsItsChange(r)

\* What the client has accepted or heard of exists, and the cursor it holds is
\* the one of its revision.
ClientBehindWorld ==
  /\ revision <= newest /\ evidence <= newest
  /\ cursor = revision

\* While a snapshot is staged the caches are empty: they were emptied when it
\* began and nothing is stored before the client is Ready.
StagedMeansEmpty == snapshot # NoSnapshot => \A e \in Entities : cache[e] = NoEntry

\* The sending end of an open stream and the client agree on what has been sent:
\* a staged snapshot holds the base domains of its cut that are not still owed,
\* and only a client that has accepted something is sent a replay.
FeedFits ==
  pc \in {"select", "refresh"} =>
    /\ feed.phase \in {"begin", "snapshot", "replay", "live"}
    /\ feed.phase = "snapshot" <=> snapshot # NoSnapshot
    /\ feed.phase = "snapshot" =>
         /\ feed.cut \in DOMAIN log
         /\ feed.todo \subseteq log[feed.cut].hosts
         /\ snapshot.revision = feed.cut
         /\ snapshot.baseHosts = log[feed.cut].hosts \ feed.todo
    /\ feed.phase \in {"replay", "live"} => revision # 0
    /\ feed.phase = "live" /\ state # "Disconnected" => ~barrierRequired

\* No stream is open and nothing is staged outside of connect.
NothingStaged == pc \notin {"select", "refresh", "return"} => snapshot = NoSnapshot

CPInv ==
  /\ CPTypeOK /\ SyncInv
  /\ WorldInv /\ ClientBehindWorld
  /\ BaseHostsExact /\ CacheFresh
  /\ StagedMeansEmpty /\ FeedFits /\ NothingStaged

(***************************************************************************)
(* The world.                                                              *)
(***************************************************************************)

\* The versions of the log and their numbers.
LEMMA LogFacts ==
  ASSUME WorldInv
  PROVE  /\ newest \in Nat /\ newest >= 1 /\ DOMAIN log = 1..newest
         /\ \A r \in 1..newest :
              /\ r \in Revisions /\ r \in Nat /\ r # 0
              /\ log[r].value \in [Entities -> Values \cup {Absent}]
              /\ log[r].hosts \in SUBSET Hosts
<1>1. newest \in Nat /\ DOMAIN log = 1..newest
  BY DEF WorldInv, newest
<1>2. newest >= 1
  BY <1>1 DEF WorldInv
<1>3. \A r \in 1..newest : log[r] \in Version
  BY <1>1 DEF WorldInv, newest
<1> QED BY <1>1, <1>2, <1>3 DEF WorldInv, Version

\* A new version keeps the log in shape when it reports its own change.
LEMMA PublishKeeps ==
  ASSUME WorldInv, NEW v \in Version, Publish(v),
         Cardinality(v.hosts) <= BaseHostMax,
         LET d == v.delta
         IN  \/ /\ d.kind = "entity" /\ d.entity \in Entities /\ d.remove \in BOOLEAN
                /\ v.hosts = log[newest].hosts
                /\ \A e \in Entities \ {d.entity} : v.value[e] = log[newest].value[e]
                /\ d.remove => v.value[d.entity] = Absent
             \/ /\ d.kind = "baseHost" /\ d.host \in Hosts /\ d.remove \in BOOLEAN
                /\ v.value = log[newest].value
                /\ v.hosts = IF d.remove THEN log[newest].hosts \ {d.host}
                             ELSE log[newest].hosts \cup {d.host}
  PROVE  WorldInv'
<1>1. /\ newest \in Nat /\ newest >= 1 /\ DOMAIN log = 1..newest
      /\ newest + 1 \in Revisions
      /\ log' = Append(log, v)
  BY LogFacts DEF Publish
<1>2. log' \in Seq(Version)
  BY <1>1 DEF WorldInv
<1>3. DOMAIN log' = 1..(newest + 1)
  BY <1>1 DEF WorldInv, newest
<1>4. log'[newest + 1] = v /\ \A r \in 1..newest : log'[r] = log[r]
  BY <1>1 DEF WorldInv, newest
<1>5. \A r \in DOMAIN log' : r \in Revisions /\ Cardinality(log'[r].hosts) <= BaseHostMax
  BY <1>1, <1>3, <1>4 DEF WorldInv
<1>6. ASSUME NEW r \in DOMAIN log', r # 1 PROVE ReportsItsChange(r)'
  <2>1. CASE r = newest + 1
    <3>1. log'[r] = v /\ log'[r - 1] = log[newest]
      BY <2>1, <1>1, <1>4
    <3> QED BY <3>1 DEF ReportsItsChange
  <2>2. CASE r \in 2..newest
    <3>1. log'[r] = log[r] /\ log'[r - 1] = log[r - 1]
      BY <2>2, <1>1, <1>4
    <3>2. ReportsItsChange(r)
      BY <2>2, <1>1 DEF WorldInv
    <3> QED BY <3>1, <3>2 DEF ReportsItsChange
  <2> QED BY <1>1, <1>3, <1>6, <2>1, <2>2
<1> QED BY <1>1, <1>2, <1>3, <1>5, <1>6 DEF WorldInv

\* A change of the world adds one version and leaves the others as they are.
LEMMA ChangeGrows ==
  ASSUME WorldInv, ChangeWorld
  PROVE  newest' = newest + 1 /\ \A r \in 1..newest : log'[r] = log[r]
<1>1. PICK v : log' = Append(log, v)
  BY Zenon DEF ChangeWorld, PutEntity, RemoveEntity, PutHost, RemoveHost, Publish
<1>2. newest \in Nat /\ DOMAIN log = 1..newest
  BY LogFacts
<1>3. log \in Seq(Version \cup {v})
  BY DEF WorldInv
<1> QED BY <1>1, <1>2, <1>3 DEF newest

\* Every change keeps the world in shape.
LEMMA ChangeKeepsWorld ==
  ASSUME WorldInv, ChangeWorld
  PROVE  WorldInv'
<1>a. /\ newest \in Nat /\ newest \in DOMAIN log /\ newest + 1 \in Nat
      /\ log[newest].value \in [Entities -> Values \cup {Absent}]
      /\ log[newest].hosts \in SUBSET Hosts
      /\ Cardinality(log[newest].hosts) <= BaseHostMax
  BY LogFacts DEF WorldInv
<1>b. newest + 1 \in Values
  <2>1. newest + 1 \in Revisions
    BY Zenon DEF ChangeWorld, PutEntity, RemoveEntity, PutHost, RemoveHost, Publish
  <2> QED BY <2>1, <1>a, ServerAssumption
<1>1. ASSUME NEW e \in Entities, PutEntity(e) PROVE WorldInv'
  <2> DEFINE v == [value |-> [log[newest].value EXCEPT ![e] = newest + 1],
                   hosts |-> log[newest].hosts,
                   delta |-> [kind |-> "entity", entity |-> e, remove |-> FALSE]]
  <2>1. v \in Version
    BY <1>a, <1>b DEF Version, Deltas
  <2>2. Publish(v)
    BY <1>1 DEF PutEntity
  <2> QED BY <1>a, <2>1, <2>2, PublishKeeps, Zenon
<1>2. ASSUME NEW e \in Entities, RemoveEntity(e) PROVE WorldInv'
  <2> DEFINE v == [value |-> [log[newest].value EXCEPT ![e] = Absent],
                   hosts |-> log[newest].hosts,
                   delta |-> [kind |-> "entity", entity |-> e, remove |-> TRUE]]
  <2>1. v \in Version
    BY <1>a DEF Version, Deltas
  <2>2. Publish(v)
    BY <1>2 DEF RemoveEntity
  <2> QED BY <1>a, <2>1, <2>2, PublishKeeps, Zenon
<1>3. ASSUME NEW h \in Hosts, PutHost(h) PROVE WorldInv'
  <2> DEFINE v == [value |-> log[newest].value,
                   hosts |-> log[newest].hosts \cup {h},
                   delta |-> [kind |-> "baseHost", host |-> h, remove |-> FALSE]]
  <2>1. v \in Version
    BY <1>a DEF Version, Deltas
  <2>2. Publish(v) /\ Cardinality(v.hosts) <= BaseHostMax
    BY <1>3 DEF PutHost
  <2> QED BY <1>a, <2>1, <2>2, PublishKeeps, Zenon
<1>4. ASSUME NEW h \in Hosts, RemoveHost(h) PROVE WorldInv'
  <2> DEFINE v == [value |-> log[newest].value,
                   hosts |-> log[newest].hosts \ {h},
                   delta |-> [kind |-> "baseHost", host |-> h, remove |-> TRUE]]
  <2>1. v \in Version
    BY <1>a DEF Version, Deltas
  <2>2. Publish(v)
    BY <1>4 DEF RemoveHost
  <2>3. Cardinality(v.hosts) <= BaseHostMax
    BY <1>a, RemoveHostBounded
  <2> QED BY <1>a, <2>1, <2>2, <2>3, PublishKeeps, Zenon
<1> QED BY <1>1, <1>2, <1>3, <1>4 DEF ChangeWorld

\* The first version is in shape.
LEMMA WorldStarts == WorldInit => WorldInv
<1> SUFFICES ASSUME NEW v \in [Entities -> {1, Absent}], NEW h \in SUBSET Hosts,
                    Cardinality(h) <= BaseHostMax,
                    log = <<[value |-> v, hosts |-> h, delta |-> NoDelta]>>
             PROVE  WorldInv
  BY DEF WorldInit
<1>1. 1 \in Values
  BY ServerAssumption
<1>2. [value |-> v, hosts |-> h, delta |-> NoDelta] \in Version
  BY <1>1 DEF Version, Deltas
<1>3. log \in Seq(Version) /\ DOMAIN log = {1} /\ log[1].hosts = h
  BY <1>2
<1> QED BY <1>3, ServerAssumption DEF WorldInv

(***************************************************************************)
(* Against a control plane that keeps its contract the client takes only   *)
(* the steps it takes against any control plane, so that what is proved in *)
(* WatchSyncProofs holds here as well.                                     *)
(***************************************************************************)

\* The frame of a change has the fields of a live frame.
LEMMA MutationFields ==
  ASSUME WorldInv, NEW r \in 1..newest, r # 1
  PROVE  /\ Mutation(r) \in Frame
         /\ Mutation(r).revision = r /\ Mutation(r).cursor = r
         /\ Mutation(r).kind = log[r].delta.kind
         /\ Mutation(r).remove = log[r].delta.remove
         /\ log[r].delta.kind = "entity" =>
              Mutation(r).entity = log[r].delta.entity /\ Mutation(r).ttlOK
         /\ log[r].delta.kind = "baseHost" => Mutation(r).host = log[r].delta.host
<1>1. r \in Revisions /\ r \in AnyCursor
  BY LogFacts, ServerAssumption DEF AnyCursor
<1>2. ReportsItsChange(r)
  BY LogFacts DEF WorldInv
<1>3. CASE log[r].delta.kind = "entity"
  <2>1. log[r].delta.entity \in Entities /\ log[r].delta.remove \in BOOLEAN
    BY <1>2, <1>3 DEF ReportsItsChange
  <2>2. Mutation(r) = [kind |-> "entity", revision |-> r, cursor |-> r,
                       entity |-> log[r].delta.entity, remove |-> log[r].delta.remove,
                       ttlOK |-> TRUE]
    BY <1>3 DEF Mutation
  <2> QED BY <1>1, <1>3, <2>1, <2>2 DEF Frame
<1>4. CASE log[r].delta.kind = "baseHost"
  <2>1. log[r].delta.host \in Hosts /\ log[r].delta.remove \in BOOLEAN
    BY <1>2, <1>4 DEF ReportsItsChange
  <2>2. Mutation(r) = [kind |-> "baseHost", revision |-> r, cursor |-> r,
                       host |-> log[r].delta.host, remove |-> log[r].delta.remove]
    BY <1>4 DEF Mutation
  <2> QED BY <1>1, <1>4, <2>1, <2>2 DEF Frame
<1> QED BY <1>2, <1>3, <1>4 DEF ReportsItsChange

\* Every frame the control plane sends is one the client is prepared for.
LEMMA SendIsReceive ==
  ASSUME CPInv, SendFrame
  PROVE  pc = "select" /\ \E f \in Frame : Receive(f)
<1>a. revision \in Nat /\ newest \in Nat /\ revision <= newest
  BY LogFacts DEF CPInv, CPTypeOK, TypeOK, ClientBehindWorld
<1>b. \A r \in 1..newest : r \in Revisions /\ r \in AnyCursor
  BY LogFacts, ServerAssumption DEF CPInv, AnyCursor
<1>c. pc = "select"
  BY Zenon DEF SendFrame, SendBegin, SendHost, SendSnapshotBarrier, SendReplayBarrier,
         SendMutation, SendHeartbeat, Receive
<1>d. pc = "select" /\ feed.phase = "snapshot" => feed.cut \in 1..newest
  BY LogFacts DEF CPInv, FeedFits
<1>e. feed.phase \in {"replay", "live"} => revision \in 1..newest
  BY <1>a, <1>c DEF CPInv, FeedFits
<1>f. NoCursor \in AnyCursor
  BY DEF AnyCursor
<1>1. CASE SendBegin
  <2>1. PICK cut \in revision..newest :
          cut # 0 /\ Receive([kind |-> "begin", revision |-> cut, cursor |-> NoCursor])
    BY <1>1 DEF SendBegin
  <2>2. cut \in Revisions
    BY <2>1, <1>a, <1>b
  <2>3. [kind |-> "begin", revision |-> cut, cursor |-> NoCursor] \in Frame
    BY <2>2, <1>f DEF Frame
  <2> QED BY <1>c, <2>1, <2>3
<1>2. CASE SendHost
  <2>1. PICK h \in feed.todo, r \in 1..feed.cut :
          Receive([kind |-> "baseHost", revision |-> r, cursor |-> NoCursor,
                   host |-> h, remove |-> FALSE])
    BY <1>2, Zenon DEF SendHost
  <2>2. r \in Revisions /\ h \in Hosts
    BY <1>2, <1>a, <1>b, <1>c, <1>d, <2>1 DEF SendHost, CPInv, CPTypeOK, ServerTypeOK
  <2>3. [kind |-> "baseHost", revision |-> r, cursor |-> NoCursor,
         host |-> h, remove |-> FALSE] \in Frame
    BY <2>2, <1>f DEF Frame
  <2> QED BY <1>c, <2>1, <2>3
<1>3. CASE SendSnapshotBarrier
  <2>1. feed.cut \in Revisions /\ feed.cut \in AnyCursor
    BY <1>3, <1>b, <1>c, <1>d DEF SendSnapshotBarrier
  <2>2. [kind |-> "barrier", revision |-> feed.cut, cursor |-> feed.cut] \in Frame
    BY <2>1 DEF Frame
  <2> QED BY <1>3, <1>c, <2>2 DEF SendSnapshotBarrier
<1>4. CASE SendReplayBarrier
  <2>1. [kind |-> "barrier", revision |-> revision, cursor |-> revision] \in Frame
    BY <1>4, <1>b, <1>e DEF SendReplayBarrier, Frame
  <2> QED BY <1>4, <1>c, <2>1 DEF SendReplayBarrier
<1>5. CASE SendMutation
  <2>1. revision + 1 \in 1..newest /\ revision + 1 # 1
    BY <1>5, <1>a, <1>e DEF SendMutation
  <2>2. Mutation(revision + 1) \in Frame
    BY <2>1, MutationFields DEF CPInv
  <2> QED BY <1>5, <1>c, <2>2 DEF SendMutation
<1>6. CASE SendHeartbeat
  <2>1. [kind |-> "heartbeat", revision |-> revision, cursor |-> revision] \in Frame
    BY <1>6, <1>b, <1>e DEF SendHeartbeat, Frame
  <2> QED BY <1>6, <1>c, <2>1 DEF SendHeartbeat
<1> QED BY <1>1, <1>2, <1>3, <1>4, <1>5, <1>6 DEF SendFrame

\* So every step is a step of the client against any control plane.
LEMMA StepIsClientStep ==
  ASSUME CPInv, [CPNext]_cpState
  PROVE  [Next]_syncState
<1>a. revision \in Nat /\ newest \in Nat /\ revision <= newest
  BY LogFacts DEF CPInv, CPTypeOK, TypeOK, ClientBehindWorld
<1>b. \A r \in 1..newest : r \in Revisions /\ log[r].value \in [Entities -> Values \cup {Absent}]
  BY LogFacts DEF CPInv
<1>1. CASE Change \/ ResetStream \/ UNCHANGED cpState
  BY <1>1 DEF Change, ResetStream, cpState
<1>2. CASE SendFrame
  BY <1>2, SendIsReceive DEF Next, StreamEvent
<1>3. CASE ClientStep \/ ClientSignal
  BY <1>3 DEF ClientStep, ClientSignal, ServeWatch, Next, RunStep, SelectSignal
<1>4. CASE Fault /\ ~ResetStream
  BY <1>4 DEF Fault, ServeWatch, Next, RunStep, SelectSignal, StreamEvent, UnaryEvent
<1>5. CASE AnswerAhead
  <2>0. PICK expected \in 1..revision :
          \E resp \in expected..newest : CheckUnaryRevision(resp, expected)
    BY <1>5 DEF AnswerAhead
  <2>1. PICK resp \in expected..newest : CheckUnaryRevision(resp, expected)
    BY <2>0
  <2>2. resp \in Revisions /\ expected \in 0..revision
    BY <2>1, <1>a, <1>b
  <2> QED BY <2>1, <2>2 DEF Next, UnaryEvent
<1>6. CASE AnswerCreate
  <2>0. PICK minimum \in 1..revision :
          \E resp \in (minimum + 1)..newest : CreateReply(resp, minimum)
    BY <1>6 DEF AnswerCreate
  <2>1. PICK resp \in (minimum + 1)..newest : CreateReply(resp, minimum)
    BY <2>0
  <2>2. resp \in Revisions /\ minimum \in 0..revision
    BY <2>1, <1>a, <1>b
  <2> QED BY <2>1, <2>2 DEF Next, UnaryEvent
<1>7. CASE LookupStep
  <2>1. CASE AnswerLookup
    <3>1. PICK e \in Entities, rev \in 1..revision, ep \in 0..epoch :
            CommitLoad(e, log[rev].value[e], rev, ep)
      BY <2>1 DEF AnswerLookup
    <3>2. log[rev].value[e] \in Values \cup {Absent} /\ rev \in 0..revision
      BY <3>1, <1>a, <1>b
    <3> QED BY <3>1, <3>2 DEF Next, UnaryEvent
  <2>2. CASE \E e \in Entities : Evict(e)
    BY <2>2 DEF Next, UnaryEvent
  <2> QED BY <1>7, <2>1, <2>2 DEF LookupStep
<1> QED
  BY <1>1, <1>2, <1>3, <1>4, <1>5, <1>6, <1>7 DEF CPNext, Undisturbed, Uncached, Answer

(***************************************************************************)
(* Preservation of the part of the invariant that says what the client     *)
(* holds.                                                                  *)
(***************************************************************************)
HoldsOneRevision ==
  ClientBehindWorld /\ BaseHostsExact /\ CacheFresh /\ StagedMeansEmpty

\* The types of what the following lemmas reason about.
LEMMA CoreFacts ==
  ASSUME CPInv
  PROVE  /\ TypeOK /\ SyncInv /\ WorldInv /\ HoldsOneRevision
         /\ revision \in Nat /\ newest \in Nat /\ revision <= newest
         /\ evidence \in Nat /\ evidence <= newest
         /\ revision # 0 => revision \in 1..newest
BY LogFacts DEF CPInv, CPTypeOK, TypeOK, ClientBehindWorld, HoldsOneRevision

\* The caches lose entries and gain none.
CacheShrinks == \A e \in Entities : cache'[e] \in {cache[e], NoEntry}

\* A step that leaves the view alone, and at most loses cache entries.
LEMMA QuietStep ==
  ASSUME CPInv, UNCHANGED <<log, revision, cursor, baseHosts>>,
         evidence' \in Nat, evidence' <= newest, CacheShrinks,
         snapshot' \in {snapshot, NoSnapshot}
  PROVE  HoldsOneRevision'
<1> USE CoreFacts DEF HoldsOneRevision
<1>1. ClientBehindWorld' /\ BaseHostsExact'
  BY DEF ClientBehindWorld, BaseHostsExact, newest
<1>2. CacheFresh'
  BY DEF CacheFresh, CacheShrinks
<1>3. StagedMeansEmpty'
  BY DEF StagedMeansEmpty, CacheShrinks
<1> QED BY <1>1, <1>2, <1>3

\* A refused frame is such a step.
LEMMA RejectHolds ==
  ASSUME CPInv, NEW f, Reject(f), UNCHANGED <<log, evidence>>
  PROVE  HoldsOneRevision'
<1>1. CacheShrinks
  BY DEF Reject, CacheShrinks
<1> QED BY <1>1, QuietStep, CoreFacts DEF Reject

\* A snapshot that begins empties the caches and leaves the view alone.
LEMMA BeginHolds ==
  ASSUME CPInv, NEW f, AcceptBegin(f), UNCHANGED <<log, evidence>>
  PROVE  HoldsOneRevision'
BY CoreFacts
DEF AcceptBegin, HoldsOneRevision, ClientBehindWorld, BaseHostsExact, CacheFresh,
    StagedMeansEmpty, newest

\* The barrier of a snapshot publishes the base domains of its cut; the caches
\* are still empty.
LEMMA SnapshotBarrierHolds ==
  ASSUME CPInv, NEW f, AcceptSnapshotBarrier(f), UNCHANGED <<log, evidence>>,
         f.revision \in 1..newest, f.cursor = f.revision,
         snapshot.baseHosts = log[f.revision].hosts
  PROVE  HoldsOneRevision'
<1>1. \A e \in Entities : cache'[e] = NoEntry
  BY CoreFacts DEF HoldsOneRevision, StagedMeansEmpty, AcceptSnapshotBarrier, SnapshotBarrierOK
<1>2. /\ revision' = f.revision /\ cursor' = f.revision
      /\ baseHosts' = log[f.revision].hosts
  BY DEF AcceptSnapshotBarrier
<1> QED
  BY CoreFacts, <1>1, <1>2
  DEF HoldsOneRevision, ClientBehindWorld, BaseHostsExact, CacheFresh,
      StagedMeansEmpty, newest

\* A change leaves everything but what it reports as it was, so an entry for
\* anything else is as true of the new revision as of the one before.
LEMMA ChangeKeepsOthers ==
  ASSUME CPInv, revision # 0, revision < newest,
         NEW e \in Entities, cache[e] # NoEntry,
         log[revision + 1].delta.kind = "entity" => e # log[revision + 1].delta.entity
  PROVE  /\ cache[e].revision \in 1..(revision + 1)
         /\ cache[e].value = log[revision + 1].value[e]
<1>1. ReportsItsChange(revision + 1)
  BY CoreFacts, LogFacts DEF WorldInv
<1>2. (revision + 1) - 1 = revision
  BY CoreFacts
<1>3. log[revision + 1].value[e] = log[revision].value[e]
  BY <1>1, <1>2 DEF ReportsItsChange
<1>4. cache[e].revision \in 1..revision /\ cache[e].value = log[revision].value[e]
  BY CoreFacts DEF HoldsOneRevision, CacheFresh
<1> QED BY <1>3, <1>4, CoreFacts

\* A live change of a base domain carries the registry to the next revision.
LEMMA BaseHostHolds ==
  ASSUME CPInv, revision # 0, revision < newest,
         ApplyBaseHost(Mutation(revision + 1)), UNCHANGED <<log, evidence>>
  PROVE  HoldsOneRevision' /\ revision' = revision + 1 /\ cache' = cache
<1>a. revision + 1 \in 1..newest /\ revision + 1 # 1 /\ (revision + 1) - 1 = revision
  BY CoreFacts
<1>b. /\ Mutation(revision + 1).revision = revision + 1
      /\ Mutation(revision + 1).cursor = revision + 1
      /\ Mutation(revision + 1).kind = log[revision + 1].delta.kind
      /\ Mutation(revision + 1).remove = log[revision + 1].delta.remove
      /\ log[revision + 1].delta.kind = "baseHost" =>
           Mutation(revision + 1).host = log[revision + 1].delta.host
  BY <1>a, CoreFacts, MutationFields
<1>1. log[revision + 1].delta.kind = "baseHost"
  BY <1>b DEF ApplyBaseHost, BaseHostOK
<1>2. /\ revision' = revision + 1 /\ cursor' = revision + 1
      /\ cache' = cache /\ snapshot' = snapshot /\ snapshot = NoSnapshot
  BY <1>b DEF ApplyBaseHost, BaseHostOK, MutationOK, Advance
<1>3. ReportsItsChange(revision + 1)
  BY CoreFacts, LogFacts, <1>a DEF WorldInv
<1>4. baseHosts' = log[revision + 1].hosts
  <2>1. baseHosts = log[revision].hosts
    BY CoreFacts DEF HoldsOneRevision, BaseHostsExact
  <2> QED BY <1>1, <1>3, <1>a, <1>b, <2>1, Zenon DEF ReportsItsChange, ApplyBaseHost
<1>5. CacheFresh'
  BY <1>1, <1>2, ChangeKeepsOthers DEF CacheFresh
<1>6. ClientBehindWorld' /\ BaseHostsExact' /\ StagedMeansEmpty'
  BY <1>a, <1>2, <1>4, CoreFacts DEF ClientBehindWorld, BaseHostsExact, StagedMeansEmpty, newest
<1> QED BY <1>2, <1>5, <1>6 DEF HoldsOneRevision

\* A live change of an entity removes what it contradicts from the caches.
LEMMA EntityHolds ==
  ASSUME CPInv, revision # 0, revision < newest,
         ApplyEntity(Mutation(revision + 1)), UNCHANGED <<log, evidence>>
  PROVE  HoldsOneRevision' /\ revision' = revision + 1 /\ baseHosts' = log[revision + 1].hosts
<1> DEFINE d == log[revision + 1].delta
<1>a. revision + 1 \in 1..newest /\ revision + 1 # 1 /\ (revision + 1) - 1 = revision
  BY CoreFacts
<1>b. /\ Mutation(revision + 1).revision = revision + 1
      /\ Mutation(revision + 1).cursor = revision + 1
      /\ Mutation(revision + 1).kind = d.kind
      /\ Mutation(revision + 1).remove = d.remove
      /\ d.kind = "entity" => Mutation(revision + 1).entity = d.entity
  BY <1>a, CoreFacts, MutationFields
<1>1. d.kind = "entity" /\ Mutation(revision + 1).entity = d.entity
  BY <1>b DEF ApplyEntity, EntityOK
<1>2. /\ revision' = revision + 1 /\ cursor' = revision + 1
      /\ baseHosts' = baseHosts /\ snapshot' = snapshot /\ snapshot = NoSnapshot
  BY <1>b DEF ApplyEntity, EntityOK, MutationOK, Advance
<1>3. ReportsItsChange(revision + 1)
  BY CoreFacts, LogFacts, <1>a DEF WorldInv
<1>4. d.entity \in Entities /\ (d.remove => log[revision + 1].value[d.entity] = Absent)
      /\ log[revision + 1].hosts = log[revision].hosts
  BY <1>1, <1>3, <1>a DEF ReportsItsChange
<1>5. baseHosts' = log[revision + 1].hosts
  BY <1>2, <1>4, CoreFacts DEF HoldsOneRevision, BaseHostsExact
<1>c. cache \in [Entities -> CacheEntry \cup {NoEntry}]
  BY CoreFacts DEF TypeOK
<1>6. /\ \A e \in Entities \ {d.entity} : cache'[e] \in {cache[e], NoEntry}
      /\ \/ cache'[d.entity] = NoEntry
         \/ d.remove /\ cache'[d.entity] = [value |-> Absent, revision |-> revision + 1]
  BY <1>b, <1>c, <1>1, <1>4 DEF ApplyEntity, CacheSet
<1>7. ASSUME NEW e \in Entities, cache'[e] # NoEntry
      PROVE  /\ cache'[e].revision \in 1..(revision + 1)
             /\ cache'[e].value = log[revision + 1].value[e]
  <2>1. CASE e = d.entity
    <3>1. cache'[e] = [value |-> Absent, revision |-> revision + 1] /\ d.remove
      BY <1>6, <1>7, <2>1
    <3>2. cache'[e].revision = revision + 1 /\ cache'[e].value = Absent
      BY <3>1
    <3>3. log[revision + 1].value[e] = Absent /\ revision + 1 \in 1..(revision + 1)
      BY <1>a, <1>4, <2>1, <3>1, CoreFacts
    <3> QED BY <3>2, <3>3
  <2>2. CASE e # d.entity
    BY <1>6, <1>7, <2>2, ChangeKeepsOthers
  <2> QED BY <2>1, <2>2
<1>8. CacheFresh'
  BY <1>2, <1>7 DEF CacheFresh
<1>9. ClientBehindWorld' /\ BaseHostsExact' /\ StagedMeansEmpty'
  BY <1>a, <1>2, <1>5, CoreFacts DEF ClientBehindWorld, BaseHostsExact, StagedMeansEmpty, newest
<1> QED BY <1>2, <1>5, <1>8, <1>9 DEF HoldsOneRevision

(***************************************************************************)
(* Preservation by the frames of the stream.                               *)
(***************************************************************************)
Feeds ==
  [phase: {"none", "begin", "snapshot", "replay", "live"},
   cut: Revisions \cup {0}, todo: SUBSET Hosts]

StreamFits == feed \in Feeds /\ FeedFits /\ NothingStaged

\* After a refused frame connect returns, and nothing is claimed of the stream.
LEMMA RefusedFits ==
  ASSUME feed' \in Feeds, pc' = "return"
  PROVE  StreamFits'
BY DEF StreamFits, FeedFits, NothingStaged

\* What the invariant says of the stream, and the shape of the feed.
LEMMA StreamFacts ==
  ASSUME CPInv
  PROVE  StreamFits /\ DOMAIN log = 1..newest /\ NoFeed \in Feeds
BY LogFacts DEF CPInv, CPTypeOK, ServerTypeOK, StreamFits, Feeds, NoFeed

\* The beginning of a snapshot.
LEMMA SendBeginHolds ==
  ASSUME CPInv, SendBegin
  PROVE  HoldsOneRevision' /\ StreamFits'
<1>1. PICK cut \in revision..newest :
        /\ cut # 0
        /\ Receive([kind |-> "begin", revision |-> cut, cursor |-> NoCursor])
        /\ feed' = [phase |-> "snapshot", cut |-> cut, todo |-> log[cut].hosts]
  BY DEF SendBegin
<1> DEFINE f == [kind |-> "begin", revision |-> cut, cursor |-> NoCursor]
<1>2. UNCHANGED <<log, evidence>> /\ cut \in 1..newest
  BY <1>1, CoreFacts DEF SendBegin, Receive, streamState
<1>3. feed' \in Feeds
  BY <1>1, <1>2, CoreFacts, LogFacts DEF Feeds
<1>4. CASE Reject(f) /\ pc' = "return"
  BY <1>2, <1>3, <1>4, RejectHolds, RefusedFits
<1>5. CASE Accept(f) /\ pc' = "refresh"
  <2>1. AcceptBegin(f)
    BY <1>5 DEF Accept, AcceptSnapshotBarrier, SnapshotBarrierOK, AcceptResumeBarrier,
                ResumeBarrierOK, AcceptHeartbeat, HeartbeatOK, StageBaseHost, StageOK,
                ApplyBaseHost, BaseHostOK, ApplyEntity, EntityOK
  <2>2. snapshot' = [revision |-> cut,
                     expectedCursor |-> IF cut = revision THEN cursor ELSE NoCursor,
                     previousCursor |-> cursor, baseHosts |-> {}]
    BY <2>1 DEF AcceptBegin
  <2>3. snapshot' # NoSnapshot /\ snapshot'.revision = cut /\ snapshot'.baseHosts = {}
    <3>1. cut \in Revisions
      BY <1>2, CoreFacts, LogFacts
    <3>2. cursor \in AnyCursor /\ NoCursor \in AnyCursor
      BY CoreFacts DEF TypeOK, AnyCursor
    <3>3. snapshot' \in Staged
      BY <2>2, <3>1, <3>2 DEF Staged
    <3> QED BY <2>2, <3>3, SyncAssumption
  <2>4. FeedFits'
    BY <1>1, <1>2, <1>3, <2>3, StreamFacts DEF FeedFits
  <2> QED BY <1>2, <1>3, <1>5, <2>1, <2>4, BeginHolds DEF StreamFits, NothingStaged
<1> QED BY <1>1, <1>4, <1>5 DEF Receive

\* An entry of a snapshot.
LEMMA SendHostHolds ==
  ASSUME CPInv, SendHost
  PROVE  HoldsOneRevision' /\ StreamFits'
<1>1. PICK h \in feed.todo, r \in 1..feed.cut :
        /\ Receive([kind |-> "baseHost", revision |-> r, cursor |-> NoCursor,
                    host |-> h, remove |-> FALSE])
        /\ feed' = [feed EXCEPT !.todo = @ \ {h}]
  BY Zenon DEF SendHost
<1> DEFINE f == [kind |-> "baseHost", revision |-> r, cursor |-> NoCursor,
                 host |-> h, remove |-> FALSE]
<1>2. UNCHANGED <<log, evidence>> /\ feed.phase = "snapshot" /\ pc = "select"
  BY <1>1 DEF SendHost, Receive, streamState
<1>3. /\ feed' \in Feeds /\ feed'.phase = feed.phase /\ feed'.cut = feed.cut
      /\ feed'.todo = feed.todo \ {h}
  BY <1>1, StreamFacts DEF Feeds, StreamFits
<1>4. CASE Reject(f) /\ pc' = "return"
  BY <1>2, <1>3, <1>4, RejectHolds, RefusedFits
<1>5. CASE Accept(f) /\ pc' = "refresh"
  <2>1. snapshot # NoSnapshot /\ snapshot \in Staged
    BY <1>2, StreamFacts, CoreFacts DEF StreamFits, FeedFits, TypeOK
  <2>2. StageBaseHost(f)
    BY <1>5, <2>1 DEF Accept, AcceptBegin, BeginOK, AcceptSnapshotBarrier, SnapshotBarrierOK,
                AcceptResumeBarrier, ResumeBarrierOK, AcceptHeartbeat, HeartbeatOK,
                ApplyBaseHost, BaseHostOK, MutationOK, ApplyEntity, EntityOK
  <2>3. /\ snapshot' = [snapshot EXCEPT !.baseHosts = @ \cup {h}]
        /\ UNCHANGED <<state, revision, cursor, baseHosts, cache, barrierRequired>>
    BY <2>2 DEF StageBaseHost
  <2>4. /\ snapshot' \in Staged /\ snapshot' # NoSnapshot
        /\ snapshot'.revision = snapshot.revision
        /\ snapshot'.baseHosts = snapshot.baseHosts \cup {h}
    <3>1. h \in Hosts
      BY <1>1, StreamFacts DEF StreamFits, Feeds
    <3>2. snapshot' \in Staged
      BY <2>1, <2>3, <3>1 DEF Staged
    <3> QED BY <2>1, <2>3, <3>2, SyncAssumption DEF Staged
  <2>5. HoldsOneRevision'
    BY <1>2, <2>1, <2>3, CoreFacts
    DEF HoldsOneRevision, ClientBehindWorld, BaseHostsExact, CacheFresh, StagedMeansEmpty, newest
  <2>6. FeedFits'
    <3>1. /\ feed.cut \in DOMAIN log /\ feed.todo \subseteq log[feed.cut].hosts
          /\ snapshot.revision = feed.cut
          /\ snapshot.baseHosts = log[feed.cut].hosts \ feed.todo
      BY <1>2, StreamFacts DEF StreamFits, FeedFits
    <3>2. snapshot'.baseHosts = log[feed.cut].hosts \ feed'.todo
      BY <1>1, <1>3, <2>4, <3>1
    <3> QED BY <1>2, <1>3, <2>4, <3>1, <3>2 DEF FeedFits
  <2> QED BY <1>3, <1>5, <2>5, <2>6 DEF StreamFits, NothingStaged
<1> QED BY <1>1, <1>4, <1>5 DEF Receive

\* The end of a snapshot.
LEMMA SendSnapshotBarrierHolds ==
  ASSUME CPInv, SendSnapshotBarrier
  PROVE  HoldsOneRevision' /\ StreamFits'
<1> DEFINE f == [kind |-> "barrier", revision |-> feed.cut, cursor |-> feed.cut]
<1>1. /\ Receive(f) /\ feed.phase = "snapshot" /\ feed.todo = {} /\ pc = "select"
      /\ feed' = [NoFeed EXCEPT !.phase = "live"]
      /\ UNCHANGED <<log, evidence>>
  BY DEF SendSnapshotBarrier, Receive, streamState
<1>2. feed' \in Feeds /\ feed'.phase = "live"
  BY <1>1 DEF Feeds, NoFeed
<1>3. /\ feed.cut \in 1..newest /\ snapshot # NoSnapshot
      /\ snapshot.revision = feed.cut /\ snapshot.baseHosts = log[feed.cut].hosts
  BY <1>1, StreamFacts DEF StreamFits, FeedFits
<1>4. CASE Reject(f) /\ pc' = "return"
  BY <1>1, <1>2, <1>4, RejectHolds, RefusedFits
<1>5. CASE Accept(f) /\ pc' = "refresh"
  <2>1. AcceptSnapshotBarrier(f)
    BY <1>3, <1>5 DEF Accept, AcceptBegin, BeginOK, AcceptResumeBarrier, ResumeBarrierOK,
                AcceptHeartbeat, HeartbeatOK, StageBaseHost, StageOK,
                ApplyBaseHost, BaseHostOK, ApplyEntity, EntityOK
  <2>2. HoldsOneRevision'
    BY <1>1, <1>3, <2>1, SnapshotBarrierHolds
  <2>3. /\ snapshot' = NoSnapshot /\ revision' = feed.cut /\ ~barrierRequired'
    BY <2>1 DEF AcceptSnapshotBarrier
  <2>4. revision' # 0
    BY <1>3, <2>3, CoreFacts
  <2> QED BY <1>2, <1>5, <2>2, <2>3, <2>4 DEF StreamFits, FeedFits, NothingStaged
<1> QED BY <1>1, <1>4, <1>5 DEF Receive

\* The end of a replay.
LEMMA SendReplayBarrierHolds ==
  ASSUME CPInv, SendReplayBarrier
  PROVE  HoldsOneRevision' /\ StreamFits'
<1> DEFINE f == [kind |-> "barrier", revision |-> revision, cursor |-> revision]
<1>1. /\ Receive(f) /\ feed.phase = "replay" /\ pc = "select"
      /\ feed' = [NoFeed EXCEPT !.phase = "live"]
      /\ UNCHANGED <<log, evidence>>
  BY DEF SendReplayBarrier, Receive, streamState
<1>2. feed' \in Feeds /\ feed'.phase = "live"
  BY <1>1 DEF Feeds, NoFeed
<1>3. snapshot = NoSnapshot /\ revision # 0
  BY <1>1, StreamFacts DEF StreamFits, FeedFits
<1>4. CASE Reject(f) /\ pc' = "return"
  BY <1>1, <1>2, <1>4, RejectHolds, RefusedFits
<1>5. CASE Accept(f) /\ pc' = "refresh"
  <2>1. AcceptResumeBarrier(f)
    BY <1>3, <1>5 DEF Accept, AcceptBegin, BeginOK, AcceptSnapshotBarrier, SnapshotBarrierOK,
                AcceptHeartbeat, HeartbeatOK, StageBaseHost, StageOK,
                ApplyBaseHost, BaseHostOK, ApplyEntity, EntityOK
  <2>2. /\ UNCHANGED <<revision, cursor, snapshot, baseHosts, cache>> /\ ~barrierRequired'
    BY <2>1 DEF AcceptResumeBarrier
  <2>3. HoldsOneRevision'
    BY <1>1, <2>2, QuietStep, CoreFacts DEF CacheShrinks
  <2> QED BY <1>2, <1>3, <1>5, <2>2, <2>3 DEF StreamFits, FeedFits, NothingStaged
<1> QED BY <1>1, <1>4, <1>5 DEF Receive

\* A change, replayed or live.
LEMMA SendMutationHolds ==
  ASSUME CPInv, SendMutation
  PROVE  HoldsOneRevision' /\ StreamFits'
<1> DEFINE f == Mutation(revision + 1)
<1>1. /\ Receive(f) /\ feed.phase \in {"replay", "live"} /\ pc = "select"
      /\ revision < newest /\ feed' = feed /\ UNCHANGED <<log, evidence>>
  BY DEF SendMutation, Receive, streamState
<1>2. feed' \in Feeds
  BY <1>1, StreamFacts DEF StreamFits
<1>3. snapshot = NoSnapshot /\ revision # 0
  BY <1>1, StreamFacts DEF StreamFits, FeedFits
<1>4. CASE Reject(f) /\ pc' = "return"
  BY <1>1, <1>2, <1>4, RejectHolds, RefusedFits
<1>5. CASE Accept(f) /\ pc' = "refresh"
  <2>a. f.kind \in {"entity", "baseHost"}
    <3>1. revision + 1 \in 1..newest /\ revision + 1 # 1
      BY <1>1, <1>3, CoreFacts
    <3>2. ReportsItsChange(revision + 1)
      BY <3>1, CoreFacts, LogFacts DEF WorldInv
    <3> QED BY <3>1, <3>2, CoreFacts, MutationFields DEF ReportsItsChange
  <2>1. ApplyBaseHost(f) \/ ApplyEntity(f)
    BY <1>3, <1>5, <2>a
    DEF Accept, AcceptBegin, BeginOK, AcceptSnapshotBarrier, SnapshotBarrierOK,
        AcceptResumeBarrier, ResumeBarrierOK, AcceptHeartbeat, HeartbeatOK,
        StageBaseHost, StageOK
  <2>2. HoldsOneRevision' /\ revision' = revision + 1
    BY <1>1, <1>3, <2>1, BaseHostHolds, EntityHolds
  <2>3. Advance(f)
    BY <2>1 DEF ApplyBaseHost, ApplyEntity
  <2>4. snapshot' = NoSnapshot /\ barrierRequired' = barrierRequired
    BY <1>3, <2>3 DEF Advance
  <2>5. feed.phase = "live" => ~barrierRequired
    BY <1>1, <1>5, StreamFacts DEF StreamFits, FeedFits, Accept
  <2>6. revision' # 0
    BY <2>2, CoreFacts
  <2> QED BY <1>1, <1>2, <1>5, <2>2, <2>4, <2>5, <2>6 DEF StreamFits, FeedFits, NothingStaged
<1> QED BY <1>1, <1>4, <1>5 DEF Receive

\* A heartbeat.
LEMMA SendHeartbeatHolds ==
  ASSUME CPInv, SendHeartbeat
  PROVE  HoldsOneRevision' /\ StreamFits'
<1> DEFINE f == [kind |-> "heartbeat", revision |-> revision, cursor |-> revision]
<1>1. /\ Receive(f) /\ feed.phase = "live" /\ pc = "select"
      /\ feed' = feed /\ UNCHANGED <<log, evidence>>
  BY DEF SendHeartbeat, Receive, streamState
<1>2. feed' \in Feeds
  BY <1>1, StreamFacts DEF StreamFits
<1>4. CASE Reject(f) /\ pc' = "return"
  BY <1>1, <1>2, <1>4, RejectHolds, RefusedFits
<1>5. CASE Accept(f) /\ pc' = "refresh"
  <2>1. AcceptHeartbeat(f)
    BY <1>5 DEF Accept, AcceptBegin, BeginOK, AcceptSnapshotBarrier, SnapshotBarrierOK,
                AcceptResumeBarrier, ResumeBarrierOK, StageBaseHost, StageOK,
                ApplyBaseHost, BaseHostOK, ApplyEntity, EntityOK
  <2>2. UNCHANGED <<state, revision, cursor, snapshot, baseHosts, cache, barrierRequired>>
    BY <2>1 DEF AcceptHeartbeat
  <2>3. HoldsOneRevision'
    BY <1>1, <2>2, QuietStep, CoreFacts DEF CacheShrinks
  <2>4. FeedFits'
    BY <1>1, <2>2, StreamFacts DEF StreamFits, FeedFits
  <2> QED BY <1>2, <1>5, <2>3, <2>4 DEF StreamFits, NothingStaged
<1> QED BY <1>1, <1>4, <1>5 DEF Receive

(***************************************************************************)
(* Preservation by the other steps.                                        *)
(***************************************************************************)

\* A change of the world does not concern the client.
LEMMA ChangeHolds ==
  ASSUME CPInv, Change
  PROVE  HoldsOneRevision' /\ StreamFits'
<1>1. /\ newest' = newest + 1 /\ \A r \in 1..newest : log'[r] = log[r]
      /\ UNCHANGED <<syncState, feed>>
  BY CoreFacts, ChangeGrows DEF Change
<1>2. DOMAIN log' = 1..(newest + 1)
  BY <1>1, CoreFacts, ChangeKeepsWorld, LogFacts DEF Change, WorldInv, newest
<1>3. ClientBehindWorld' /\ BaseHostsExact' /\ CacheFresh' /\ StagedMeansEmpty'
  <2>1. ClientBehindWorld'
    BY <1>1, CoreFacts DEF HoldsOneRevision, ClientBehindWorld, syncState
  <2>2. BaseHostsExact'
    BY <1>1, CoreFacts DEF HoldsOneRevision, BaseHostsExact, syncState
  <2>3. CacheFresh'
    <3> SUFFICES ASSUME NEW e \in Entities, cache[e] # NoEntry
                 PROVE  /\ cache[e].revision \in 1..revision
                        /\ cache[e].value = log'[revision].value[e]
      BY <1>1 DEF CacheFresh, syncState
    <3>1. cache[e].revision \in 1..revision /\ cache[e].value = log[revision].value[e]
      BY CoreFacts DEF HoldsOneRevision, CacheFresh
    <3>2. revision \in 1..newest
      BY <3>1, CoreFacts
    <3> QED BY <1>1, <3>1, <3>2
  <2>4. StagedMeansEmpty'
    BY <1>1, CoreFacts DEF HoldsOneRevision, StagedMeansEmpty, syncState
  <2> QED BY <2>1, <2>2, <2>3, <2>4
<1>4. FeedFits'
  BY <1>1, <1>2, StreamFacts, CoreFacts DEF StreamFits, FeedFits, syncState
<1> QED BY <1>1, <1>3, <1>4, StreamFacts DEF HoldsOneRevision, StreamFits, NothingStaged, syncState

\* A stream is opened, or opening it fails.
LEMMA ServeWatchHolds ==
  ASSUME CPInv, ServeWatch
  PROVE  HoldsOneRevision' /\ StreamFits'
<1>1. /\ UNCHANGED <<log, revision, cursor, baseHosts, cache, evidence, snapshot>>
      /\ pc = "open" /\ pc' \in {"select", "return"}
  BY DEF ServeWatch, OpenWatch, runState
<1>2. HoldsOneRevision'
  BY <1>1, QuietStep, CoreFacts DEF CacheShrinks
<1>3. snapshot' = NoSnapshot
  BY <1>1, StreamFacts DEF StreamFits, NothingStaged
<1>4. CASE pc' = "select"
  <2>1. /\ feed' \in Feeds /\ feed'.phase \in {"begin", "replay"}
        /\ feed'.phase = "replay" => revision # 0
    BY <1>4 DEF ServeWatch, Feeds, NoFeed
  <2> QED BY <1>1, <1>2, <1>3, <1>4, <2>1 DEF StreamFits, FeedFits, NothingStaged
<1>5. CASE pc' = "return"
  BY <1>2, <1>5, StreamFacts, RefusedFits DEF ServeWatch, StreamFits
<1> QED BY <1>1, <1>4, <1>5

\* The steps of the goroutine of Run that receive no frame.
LEMMA RunHolds ==
  ASSUME CPInv,
         \/ ClientStep \/ ClientSignal
         \/ /\ StreamLost \/ SyncTimeout \/ RefreshSyncTimer \/ Dial
            /\ UNCHANGED <<log, feed>>
  PROVE  HoldsOneRevision' /\ StreamFits'
<1>1. CASE ServeWatch
  BY <1>1, ServeWatchHolds
<1>2. CASE MarkDisconnected /\ feed' = NoFeed /\ UNCHANGED log
  <2>1. /\ UNCHANGED <<log, revision, cursor, baseHosts, cache, evidence>>
        /\ snapshot' = NoSnapshot /\ pc' = "close"
    BY <1>2 DEF MarkDisconnected, Unsynchronize, runState
  <2>2. HoldsOneRevision'
    BY <2>1, QuietStep, CoreFacts DEF CacheShrinks
  <2> QED BY <1>2, <2>1, <2>2, StreamFacts DEF StreamFits, FeedFits, NothingStaged
<1>3. CASE /\ StartConnect \/ DrainResync \/ Dial \/ CloseConn \/ Backoff \/ LeaveLoop \/ Shutdown
           /\ UNCHANGED <<log, feed>>
  <2>1. /\ UNCHANGED <<log, revision, cursor, baseHosts, cache, evidence>>
        /\ snapshot' \in {snapshot, NoSnapshot}
        /\ pc \notin {"select", "refresh", "return"} /\ pc' \notin {"select", "refresh"}
    BY <1>3 DEF StartConnect, DrainResync, Dial, CloseConn, Backoff, LeaveLoop, Shutdown,
                Unsynchronize, runState
  <2>2. HoldsOneRevision'
    BY <2>1, QuietStep, CoreFacts DEF CacheShrinks
  <2> QED BY <1>3, <2>1, <2>2, StreamFacts DEF StreamFits, FeedFits, NothingStaged
<1>4. CASE /\ \/ RefreshSyncTimer \/ SelectCtxDone \/ SelectStateChanged \/ SelectResync
              \/ StreamLost \/ SyncTimeout
           /\ UNCHANGED <<log, feed>>
  <2>1. /\ UNCHANGED <<log, revision, cursor, baseHosts, cache, evidence, snapshot, state,
                       barrierRequired>>
        /\ pc \in {"select", "refresh"} /\ pc' \in {"select", "refresh", "return"}
    BY <1>4 DEF RefreshSyncTimer, SelectCtxDone, SelectStateChanged, SelectResync,
                StreamLost, SyncTimeout, runState
  <2>2. HoldsOneRevision'
    BY <2>1, QuietStep, CoreFacts DEF CacheShrinks
  <2> QED BY <1>4, <2>1, <2>2, StreamFacts DEF StreamFits, FeedFits, NothingStaged
<1>5. CASE Cancel /\ UNCHANGED <<log, feed>>
  <2>1. UNCHANGED <<log, revision, cursor, baseHosts, cache, evidence, snapshot, state,
                    barrierRequired, pc, feed>>
    BY <1>5 DEF Cancel, runState
  <2>2. HoldsOneRevision'
    BY <2>1, QuietStep, CoreFacts DEF CacheShrinks
  <2> QED BY <2>1, <2>2, StreamFacts DEF StreamFits, FeedFits, NothingStaged
<1> QED BY <1>1, <1>2, <1>3, <1>4, <1>5 DEF ClientStep, ClientSignal

\* A step of a request goroutine leaves the stream alone, whatever it does to
\* the state: it retires the stream or keeps the barrier as it is.
LEMMA UnaryFits ==
  ASSUME CPInv, UNCHANGED <<log, feed, revision, snapshot, pc>>,
         \/ RequestResync
         \/ /\ barrierRequired' = barrierRequired
            /\ state' # "Disconnected" => state # "Disconnected"
  PROVE  StreamFits'
<1>1. pc \in {"select", "refresh"} => state # "Shutdown"
  BY CoreFacts DEF SyncInv, LocationFitsState
<1>2. pc \in {"select", "refresh"} =>
        \/ state' = "Disconnected"
        \/ barrierRequired' = barrierRequired /\ (state' # "Disconnected" => state # "Disconnected")
  BY <1>1 DEF RequestResync, Transition
<1> QED BY <1>2, StreamFacts DEF StreamFits, FeedFits, NothingStaged

\* An answer that shows a revision to exist keeps the barrier as it is.
LEMMA RequireFits ==
  ASSUME NEW resp, NEW downgraded \in SUBSET {"Ready", "Synchronizing"},
         Require(resp, downgraded)
  PROVE  barrierRequired' = barrierRequired /\ (state' # "Disconnected" => state # "Disconnected")
BY DEF Require, Transition

\* Answers that carry a revision.
LEMMA AnswerHolds ==
  ASSUME CPInv, Answer \/ (ListReplyMissing /\ UNCHANGED <<log, feed>>)
  PROVE  HoldsOneRevision' /\ StreamFits'
<1>a. /\ UNCHANGED <<log, feed, revision, cursor, snapshot, baseHosts, pc, cache>>
  BY DEF Answer, AnswerAhead, AnswerCreate, CheckUnaryRevision, CreateReply,
         ListReplyMissing, unaryState
<1>b. ASSUME evidence' \in Nat, evidence' <= newest PROVE HoldsOneRevision'
  BY <1>a, <1>b, QuietStep DEF CacheShrinks
<1>c. ASSUME NEW resp \in 1..newest, NEW s, Require(resp, s)
      PROVE  evidence' \in Nat /\ evidence' <= newest
  BY <1>c, CoreFacts DEF Require, Larger
<1>1. ASSUME NEW expected \in 1..revision, NEW resp \in expected..newest,
             CheckUnaryRevision(resp, expected)
      PROVE  HoldsOneRevision' /\ StreamFits'
  <2>1. resp \in 1..newest
    BY <1>1, CoreFacts
  <2>2. evidence' \in Nat /\ evidence' <= newest
    BY <1>1, <1>c, <2>1, CoreFacts DEF CheckUnaryRevision
  <2>3. \/ RequestResync
        \/ barrierRequired' = barrierRequired /\ (state' # "Disconnected" => state # "Disconnected")
    BY <1>1, RequireFits DEF CheckUnaryRevision
  <2> QED BY <1>a, <1>b, <2>2, <2>3, UnaryFits
<1>2. ASSUME NEW minimum \in 1..revision, NEW resp \in (minimum + 1)..newest,
             CreateReply(resp, minimum)
      PROVE  HoldsOneRevision' /\ StreamFits'
  <2>1. resp \in 1..newest
    BY <1>2, CoreFacts
  <2>2. evidence' \in Nat /\ evidence' <= newest
    BY <1>2, <1>c, <2>1, CoreFacts DEF CreateReply
  <2>3. \/ RequestResync
        \/ barrierRequired' = barrierRequired /\ (state' # "Disconnected" => state # "Disconnected")
    BY <1>2, RequireFits DEF CreateReply
  <2> QED BY <1>a, <1>b, <2>2, <2>3, UnaryFits
<1>3. CASE ListReplyMissing
  BY <1>3, <1>a, <1>b, CoreFacts, UnaryFits DEF ListReplyMissing
<1> QED BY <1>1, <1>2, <1>3 DEF Answer, AnswerAhead, AnswerCreate

\* A load that stores does so in a Ready client and at its revision.
LEMMA LookupHolds ==
  ASSUME CPInv, LookupStep
  PROVE  HoldsOneRevision' /\ StreamFits'
<1>1. ASSUME NEW e \in Entities, NEW rev \in 1..revision, NEW ep \in 0..epoch,
             CommitLoad(e, log[rev].value[e], rev, ep), UNCHANGED <<log, feed>>
      PROVE  HoldsOneRevision' /\ StreamFits'
  <2>1. ~LoadAhead(rev, ep)
    BY CoreFacts DEF LoadAhead
  <2>2. UNCHANGED <<state, barrierRequired, revision, cursor, snapshot, baseHosts, pc, evidence>>
    BY <1>1, <2>1 DEF CommitLoad, unaryState
  <2>3. StreamFits'
    BY <1>1, <2>2, UnaryFits
  <2>4. CASE LoadStores(e, rev, ep)
    <3>1. rev = revision /\ state = "Ready" /\ snapshot = NoSnapshot
      BY <2>4, CoreFacts DEF LoadStores, LoadCurrent, SyncInv, ReadyIsSynchronized
    <3>2. /\ cache'[e] = [value |-> log[revision].value[e], revision |-> revision]
          /\ \A x \in Entities \ {e} : cache'[x] \in {cache[x], NoEntry}
      BY <1>1, <2>4, <3>1 DEF CommitLoad, CacheSet
    <3>3. CacheFresh'
      BY <1>1, <2>2, <3>1, <3>2, CoreFacts DEF HoldsOneRevision, CacheFresh
    <3>4. ClientBehindWorld' /\ BaseHostsExact' /\ StagedMeansEmpty'
      BY <1>1, <2>2, <3>1, CoreFacts
      DEF HoldsOneRevision, ClientBehindWorld, BaseHostsExact, StagedMeansEmpty, newest
    <3> QED BY <2>3, <3>3, <3>4 DEF HoldsOneRevision
  <2>5. CASE ~LoadStores(e, rev, ep)
    <3>1. cache' = cache
      BY <1>1, <2>5 DEF CommitLoad
    <3> QED BY <1>1, <2>2, <2>3, <3>1, QuietStep, CoreFacts DEF CacheShrinks
  <2> QED BY <2>4, <2>5
<1>2. ASSUME NEW e \in Entities, Evict(e), UNCHANGED <<log, feed>>
      PROVE  HoldsOneRevision' /\ StreamFits'
  <2>1. UNCHANGED <<state, barrierRequired, revision, cursor, snapshot, baseHosts, pc, evidence>>
    BY <1>2 DEF Evict, unaryState
  <2>2. CacheShrinks
    BY <1>2, CoreFacts DEF Evict, CacheShrinks, TypeOK
  <2> QED BY <1>2, <2>1, <2>2, QuietStep, UnaryFits, CoreFacts
<1> QED BY <1>1, <1>2 DEF LookupStep, AnswerLookup

\* A reset begins with nothing staged.
LEMMA ResetHolds ==
  ASSUME CPInv, ResetStream
  PROVE  HoldsOneRevision' /\ StreamFits'
<1>1. UNCHANGED <<log, revision, cursor, baseHosts, cache, evidence, snapshot, pc, state,
                  barrierRequired>>
  BY DEF ResetStream, syncState
<1>2. feed' \in Feeds /\ feed'.phase = "begin" /\ feed.phase = "live"
  BY DEF ResetStream, NoFeed, Feeds
<1>3. HoldsOneRevision'
  BY <1>1, QuietStep, CoreFacts DEF CacheShrinks
<1> QED BY <1>1, <1>2, <1>3, StreamFacts DEF StreamFits, FeedFits, NothingStaged

(***************************************************************************)
(* The invariant, and the properties it implies.                           *)
(***************************************************************************)

\* The parts make up the whole.
LEMMA PartsMakeInv ==
  ASSUME TypeOK, SyncInv, WorldInv, HoldsOneRevision, StreamFits
  PROVE  CPInv
BY DEF CPInv, CPTypeOK, ServerTypeOK, WorldInv, HoldsOneRevision, StreamFits, Feeds

\* The initial states satisfy it.
LEMMA CPInitInv == CPInit => CPInv
<1> SUFFICES ASSUME CPInit PROVE CPInv
  OBVIOUS
<1>1. Init /\ WorldInv /\ feed = NoFeed
  BY WorldStarts DEF CPInit
<1>2. SyncInv
  BY <1>1, InitInv
<1>3. TypeOK
  BY <1>1, InitType
<1>4. HoldsOneRevision
  BY <1>1, LogFacts, ServerAssumption
  DEF Init, HoldsOneRevision, ClientBehindWorld, BaseHostsExact, CacheFresh, StagedMeansEmpty
<1>5. StreamFits
  BY <1>1 DEF Init, StreamFits, FeedFits, NothingStaged, Feeds, NoFeed
<1> QED BY <1>1, <1>2, <1>3, <1>4, <1>5, PartsMakeInv

\* Every step preserves it.
LEMMA CPNextInv == CPInv /\ [CPNext]_cpState => CPInv'
<1> SUFFICES ASSUME CPInv, [CPNext]_cpState PROVE CPInv'
  OBVIOUS
<1>1. TypeOK' /\ SyncInv'
  BY StepIsClientStep, NextType, NextInv, CoreFacts
<1>2. WorldInv'
  <2>1. CASE Change
    BY <2>1, ChangeKeepsWorld, CoreFacts DEF Change
  <2>2. CASE UNCHANGED log
    BY <2>2, CoreFacts, Zenon DEF WorldInv, ReportsItsChange
  <2> QED
    BY <2>1, <2>2
    DEF CPNext, Undisturbed, Uncached, SendFrame, SendBegin, SendHost, SendSnapshotBarrier,
        SendReplayBarrier, SendMutation, SendHeartbeat, ClientStep, ServeWatch, ClientSignal,
        Answer, LookupStep, Fault, ResetStream, cpState
<1>3. HoldsOneRevision' /\ StreamFits'
  <2>1. CASE UNCHANGED cpState
    <3>1. UNCHANGED <<log, feed, revision, cursor, snapshot, baseHosts, pc, cache, evidence,
                      state, barrierRequired>>
      BY <2>1 DEF cpState, syncState
    <3> QED BY <3>1, QuietStep, CoreFacts, UnaryFits DEF CacheShrinks
  <2>2. CASE SendFrame
    BY <2>2, SendBeginHolds, SendHostHolds, SendSnapshotBarrierHolds, SendReplayBarrierHolds,
       SendMutationHolds, SendHeartbeatHolds DEF SendFrame
  <2>3. CASE Fault
    BY <2>3, RunHolds, ServeWatchHolds, AnswerHolds, ResetHolds DEF Fault
  <2>4. CASE Change
    BY <2>4, ChangeHolds
  <2>5. CASE ClientStep \/ ClientSignal
    BY <2>5, RunHolds
  <2>6. CASE Answer
    BY <2>6, AnswerHolds
  <2>7. CASE LookupStep
    BY <2>7, LookupHolds
  <2> QED
    BY <2>1, <2>2, <2>3, <2>4, <2>5, <2>6, <2>7 DEF CPNext, Undisturbed, Uncached
<1> QED
  <2>1. TypeOK' /\ SyncInv' /\ WorldInv' /\ HoldsOneRevision' /\ StreamFits' => CPInv'
    BY PartsMakeInv, PTL
  <2> QED BY <1>1, <1>2, <1>3, <2>1

\* The client's view and the stream fit together in every reachable state.
THEOREM CPInvariant == CPSpec => []CPInv
BY CPInitInv, CPNextInv, PTL DEF CPSpec

\* The registry that requests are routed by is that of the accepted revision.
THEOREM RegistryExact == CPSpec => []BaseHostsExact
<1>1. CPInv => BaseHostsExact
  BY DEF CPInv
<1> QED BY <1>1, CPInvariant, PTL

\* No cache entry contradicts the accepted revision.
THEOREM CachesFresh == CPSpec => []CacheFresh
<1>1. CPInv => CacheFresh
  BY DEF CPInv
<1> QED BY <1>1, CPInvariant, PTL

\* A stream without changes needs no barrier.
THEOREM LiveStreamSound == CPSpec => []LiveStreamSuffices
<1>1. CPInv => LiveStreamSuffices
  <2> SUFFICES ASSUME CPInv, pc = "select", feed.phase = "live"
               PROVE  \/ state = "Ready"
                      \/ /\ state = "Synchronizing" /\ ~barrierRequired
                         /\ requiredRevision \in (revision + 1)..newest
                      \/ state = "Disconnected" /\ resync
    BY DEF LiveStreamSuffices
  <2>1. state \in {"Synchronizing", "Ready"} \/ (state = "Disconnected" /\ resync)
    BY CoreFacts DEF SyncInv, LocationFitsState
  <2>2. CASE state = "Synchronizing"
    <3>1. ~barrierRequired
      BY <2>2, StreamFacts DEF StreamFits, FeedFits
    <3>2. requiredRevision > revision /\ requiredRevision \in Nat
      BY <2>2, <3>1, CoreFacts DEF SyncInv, CatchUpHasTarget, TypeOK
    <3>3. requiredRevision = evidence
      BY <3>2, CoreFacts DEF SyncInv, EvidenceKept
    <3> QED BY <2>2, <3>1, <3>2, <3>3, CoreFacts
  <2> QED BY <2>1, <2>2
<1> QED BY <1>1, CPInvariant, PTL

\* One host more fits when the whole it belongs to fits.
LEMMA RoomForHost ==
  ASSUME NEW S \in SUBSET Hosts, NEW T \in SUBSET Hosts, NEW h \in T,
         S \subseteq T, h \notin S, Cardinality(T) <= BaseHostMax
  PROVE  Cardinality(S) < BaseHostMax
<1>1. IsFiniteSet(T)
  BY SyncAssumption, FS_Subset
<1>2. IsFiniteSet(S)
  BY <1>1, FS_Subset
<1>3. IsFiniteSet(S \cup {h}) /\ Cardinality(S \cup {h}) = Cardinality(S) + 1
  BY <1>2, FS_AddElement
<1>4. Cardinality(S \cup {h}) <= Cardinality(T)
  BY <1>1, FS_Subset
<1>5. Cardinality(S) \in Nat /\ Cardinality(T) \in Nat
  BY <1>1, <1>2, FS_CardinalityType
<1> QED BY <1>3, <1>4, <1>5, SyncAssumption

\* The next change fits into the registry of the accepted revision.
LEMMA MutationAcceptable ==
  ASSUME CPInv, state \in {"Ready", "Synchronizing"}, snapshot = NoSnapshot,
         revision # 0, revision < newest
  PROVE  Acceptable(Mutation(revision + 1))
<1>a. revision + 1 \in 1..newest /\ revision + 1 # 1 /\ (revision + 1) - 1 = revision
  BY CoreFacts
<1>b. /\ Mutation(revision + 1).revision = revision + 1
      /\ Mutation(revision + 1).cursor = revision + 1
      /\ Mutation(revision + 1).kind = log[revision + 1].delta.kind
      /\ Mutation(revision + 1).remove = log[revision + 1].delta.remove
      /\ log[revision + 1].delta.kind = "entity" => Mutation(revision + 1).ttlOK
      /\ log[revision + 1].delta.kind = "baseHost" =>
           Mutation(revision + 1).host = log[revision + 1].delta.host
  BY <1>a, CoreFacts, MutationFields
<1>c. ReportsItsChange(revision + 1)
  BY CoreFacts, LogFacts, <1>a DEF WorldInv
<1>1. MutationOK(Mutation(revision + 1))
  <2>1. cursor = revision
    BY CoreFacts DEF HoldsOneRevision, ClientBehindWorld
  <2> QED BY <1>a, <1>b, <2>1, CoreFacts, ServerAssumption DEF MutationOK
<1>2. CASE log[revision + 1].delta.kind = "entity"
  BY <1>1, <1>2, <1>b DEF Acceptable, EntityOK
<1>3. CASE log[revision + 1].delta.kind = "baseHost"
  <2> DEFINE d == log[revision + 1].delta
  <2>1. CASE d.remove \/ d.host \in baseHosts
    BY <1>1, <1>3, <1>b, <2>1 DEF Acceptable, BaseHostOK
  <2>2. CASE ~d.remove /\ d.host \notin baseHosts
    <3>1. baseHosts = log[revision].hosts
      BY CoreFacts DEF HoldsOneRevision, BaseHostsExact
    <3>2. log[revision + 1].hosts = baseHosts \cup {d.host} /\ d.host \in Hosts
      BY <1>3, <1>a, <1>c, <2>2, <3>1 DEF ReportsItsChange
    <3>3. Cardinality(log[revision + 1].hosts) <= BaseHostMax
      BY <1>a, CoreFacts, LogFacts DEF WorldInv
    <3>4. baseHosts \in SUBSET Hosts
      BY CoreFacts DEF TypeOK
    <3>5. Cardinality(baseHosts) < BaseHostMax
      BY <2>2, <3>2, <3>3, <3>4, RoomForHost
    <3> QED BY <1>1, <1>3, <1>b, <3>5 DEF Acceptable, BaseHostOK
  <2> QED BY <2>1, <2>2
<1> QED BY <1>2, <1>3, <1>c DEF ReportsItsChange

\* The client refuses nothing that a conforming stream owes it next.
THEOREM ConformingSound == CPSpec => []ConformingFramesAccepted
<1>1. CPInv => ConformingFramesAccepted
  <2> SUFFICES ASSUME CPInv, pc = "select", state \in {"Ready", "Synchronizing"}
               PROVE  ConformingFramesAccepted
    BY DEF ConformingFramesAccepted
  <2>a. /\ feed.phase = "snapshot" <=> snapshot # NoSnapshot
        /\ feed.phase = "snapshot" =>
             /\ feed.cut \in 1..newest
             /\ feed.todo \subseteq log[feed.cut].hosts
             /\ snapshot.revision = feed.cut
             /\ snapshot.baseHosts = log[feed.cut].hosts \ feed.todo
        /\ feed.phase \in {"replay", "live"} => revision # 0
    BY StreamFacts DEF StreamFits, FeedFits
  <2>b. cursor = revision /\ NoCursor = 0
    BY CoreFacts, ServerAssumption DEF HoldsOneRevision, ClientBehindWorld
  <2>1. ASSUME feed.phase = "begin", NEW cut \in (revision..newest) \ {0}
        PROVE  Acceptable([kind |-> "begin", revision |-> cut, cursor |-> NoCursor])
    <3>1. snapshot = NoSnapshot /\ cut # 0 /\ cut >= revision
      BY <2>1, <2>a, CoreFacts
    <3> QED BY <3>1 DEF Acceptable, BeginOK
  <2>2. ASSUME feed.phase = "snapshot", NEW h \in feed.todo
        PROVE  Acceptable([kind |-> "baseHost", revision |-> feed.cut, cursor |-> NoCursor,
                           host |-> h, remove |-> FALSE])
    <3>1. log[feed.cut].hosts \in SUBSET Hosts /\ Cardinality(log[feed.cut].hosts) <= BaseHostMax
      BY <2>2, <2>a, CoreFacts, LogFacts DEF WorldInv
    <3>2. Cardinality(snapshot.baseHosts) < BaseHostMax
      BY <2>2, <2>a, <3>1, RoomForHost
    <3>3. feed.cut # 0 /\ feed.cut <= snapshot.revision
      BY <2>2, <2>a, CoreFacts
    <3>4. snapshot # NoSnapshot /\ h \notin snapshot.baseHosts
      BY <2>2, <2>a
    <3> QED BY <3>2, <3>3, <3>4 DEF Acceptable, StageOK
  <2>3. ASSUME feed.phase = "snapshot"
        PROVE  Acceptable([kind |-> "barrier", revision |-> feed.cut, cursor |-> feed.cut])
    <3>1. /\ snapshot.revision # 0 /\ snapshot.revision >= revision
          /\ snapshot.previousCursor = cursor
          /\ snapshot.expectedCursor = IF snapshot.revision = revision THEN cursor ELSE NoCursor
      BY <2>3, <2>a, CoreFacts DEF SyncInv, StagedOnView
    <3>2. snapshot # NoSnapshot /\ feed.cut = snapshot.revision
      BY <2>3, <2>a
    <3> QED BY <2>b, <3>1, <3>2, CoreFacts DEF Acceptable, SnapshotBarrierOK
  <2>4. ASSUME feed.phase \in {"replay", "live"}
        PROVE  /\ Acceptable([kind |-> "barrier", revision |-> revision, cursor |-> revision])
               /\ Acceptable([kind |-> "heartbeat", revision |-> revision, cursor |-> revision])
               /\ revision < newest => Acceptable(Mutation(revision + 1))
    BY <2>4, <2>a, <2>b, MutationAcceptable DEF Acceptable, ResumeBarrierOK, HeartbeatOK
  <2> QED BY <2>1, <2>2, <2>3, <2>4 DEF ConformingFramesAccepted
<1> QED BY <1>1, CPInvariant, PTL

(***************************************************************************)
(* The client implements module View.                                      *)
(***************************************************************************)

\* Losing entries is what the abstract caches may always do.
LEMMA ShrinkFollows ==
  ASSUME CPInv, CPInv', log' = log, CacheShrinks
  PROVE  V!CacheFollows(revision')
<1> DEFINE kept == {e \in Entities : cache'[e] = cache[e]}
<1>1. /\ cache \in [Entities -> CacheEntry \cup {NoEntry}]
      /\ cache' \in [Entities -> CacheEntry \cup {NoEntry}]
  BY DEF CPInv, CPTypeOK, TypeOK
<1>2. cache' = [e \in Entities |->
                  IF cache[e] = NoEntry \/ e \notin kept THEN NoEntry
                  ELSE IF e \in {} THEN [value |-> Absent, revision |-> revision'] ELSE cache[e]]
  BY <1>1 DEF CacheShrinks
<1>3. \A e \in Entities : V!FreshAt(revision', e, cache'[e])
  BY DEF CPInv, CacheFresh, V!FreshAt
<1>4. kept \in SUBSET Entities /\ {} \in SUBSET kept
  OBVIOUS
<1> HIDE DEF kept
<1> QED BY <1>2, <1>3, <1>4, Zenon DEF V!CacheFollows

\* So is turning the entry of something that was removed into a tombstone.
LEMMA TombstoneFollows ==
  ASSUME CPInv, CPInv', log' = log, NEW e \in Entities, cache[e] # NoEntry,
         CacheSet(e, [value |-> Absent, revision |-> revision'])
  PROVE  V!CacheFollows(revision')
<1>1. PICK others \in SUBSET Entities :
        cache' = [x \in Entities |->
                    IF x = e THEN [value |-> Absent, revision |-> revision']
                    ELSE IF x \in others THEN cache[x] ELSE NoEntry]
  BY DEF CacheSet
<1> DEFINE kept == others \cup {e}
<1>2. cache' = [x \in Entities |->
                  IF cache[x] = NoEntry \/ x \notin kept THEN NoEntry
                  ELSE IF x \in {e} THEN [value |-> Absent, revision |-> revision'] ELSE cache[x]]
  BY <1>1
<1>3. \A x \in Entities : V!FreshAt(revision', x, cache'[x])
  BY DEF CPInv, CacheFresh, V!FreshAt
<1>4. kept \in SUBSET Entities /\ {e} \in SUBSET kept
  OBVIOUS
<1> QED BY <1>2, <1>3, <1>4, Zenon DEF V!CacheFollows

\* A step that leaves revision and registry alone and stores nothing: readiness
\* lapses, is restored, or stays what it was while entries expire.
LEMMA QuietRefines ==
  ASSUME CPInv, CPInv', EpochRule, UNCHANGED <<log, revision, baseHosts>>, CacheShrinks
  PROVE  V!ViewNext
<1>1. V!CacheFollows(revision)
  BY ShrinkFollows
<1>2. CASE state = "Ready" /\ state' # "Ready"
  BY <1>1, <1>2 DEF EpochRule, V!Lapse, V!ViewNext
<1>3. CASE state # "Ready" /\ state' = "Ready"
  <2>1. revision # 0
    BY <1>3 DEF CPInv, SyncInv, ReadyIsSynchronized
  <2>2. revision \in revision..V!newest /\ baseHosts' = log[revision].hosts
    BY <2>1, CoreFacts DEF HoldsOneRevision, BaseHostsExact, newest, V!newest
  <2>3. epoch' = epoch
    BY <1>3 DEF EpochRule
  <2> QED BY <1>1, <1>3, <2>1, <2>2, <2>3 DEF V!Resync, V!ViewNext
<1>4. CASE (state = "Ready") = (state' = "Ready")
  BY <1>1, <1>4 DEF EpochRule, V!Expire, V!ViewNext
<1> QED BY <1>2, <1>3, <1>4

\* A step that moves the view: to a later revision while not Ready, to the next
\* one while Ready.
LEMMA MoveRefines ==
  ASSUME CPInv, CPInv', EpochRule, log' = log,
         V!CacheFollows(revision'), revision' # 0,
         \/ state # "Ready" /\ revision' \in revision..newest
         \/ state = "Ready" /\ state' = "Ready" /\ revision' = revision + 1
  PROVE  V!ViewNext
<1>1. baseHosts' = log[revision'].hosts
  BY DEF CPInv, BaseHostsExact
<1>2. newest' = newest /\ V!newest = newest
  BY DEF newest, V!newest
<1>3. CASE state # "Ready" /\ revision' \in revision..newest
  <2>1. epoch' = epoch
    BY <1>3 DEF EpochRule
  <2> QED BY <1>1, <1>2, <1>3, <2>1 DEF V!Resync, V!ViewNext
<1>4. CASE state = "Ready" /\ state' = "Ready" /\ revision' = revision + 1
  <2>1. epoch' = epoch
    BY <1>4 DEF EpochRule
  <2>2. revision < newest
    <3>1. revision' <= newest'
      BY DEF CPInv, ClientBehindWorld
    <3> QED BY <1>2, <1>4, <3>1, CoreFacts
  <2> QED BY <1>1, <1>2, <1>4, <2>1, <2>2 DEF V!Advance, V!ViewNext
<1> QED BY <1>3, <1>4

\* A frame refines a step of the view.
LEMMA SendRefines ==
  ASSUME CPInv, CPInv', EpochRule, SendFrame
  PROVE  V!ViewNext
<1>a. log' = log
  BY DEF SendFrame, SendBegin, SendHost, SendSnapshotBarrier, SendReplayBarrier,
         SendMutation, SendHeartbeat
<1>1. ASSUME NEW f, Reject(f) \/ AcceptBegin(f) \/ AcceptResumeBarrier(f)
                      \/ AcceptHeartbeat(f) \/ StageBaseHost(f)
      PROVE  V!ViewNext
  <2>1. UNCHANGED <<revision, baseHosts>> /\ CacheShrinks
    BY <1>1 DEF Reject, AcceptBegin, AcceptResumeBarrier, AcceptHeartbeat, StageBaseHost,
                CacheShrinks
  <2> QED BY <1>a, <2>1, QuietRefines
<1>2. ASSUME NEW f, AcceptSnapshotBarrier(f)
      PROVE  V!ViewNext
  <2>1. /\ snapshot # NoSnapshot /\ f.revision = snapshot.revision
        /\ revision' = f.revision /\ cache' = cache
    BY <1>2 DEF AcceptSnapshotBarrier, SnapshotBarrierOK
  <2>2. state # "Ready" /\ snapshot.revision # 0 /\ snapshot.revision >= revision
    BY <2>1, CoreFacts DEF SyncInv, ReadyIsSynchronized, StagedOnView
  <2>3. revision' <= newest /\ revision' \in Nat
    BY <1>a DEF CPInv, CPTypeOK, TypeOK, ClientBehindWorld, newest
  <2>4. V!CacheFollows(revision')
    BY <1>a, <2>1, ShrinkFollows DEF CacheShrinks
  <2>5. revision' # 0 /\ revision' \in revision..newest
    BY <2>1, <2>2, <2>3, CoreFacts
  <2> QED BY <1>a, <2>2, <2>4, <2>5, MoveRefines
<1>3. ASSUME revision # 0, revision < newest,
             ApplyBaseHost(Mutation(revision + 1)) \/ ApplyEntity(Mutation(revision + 1)),
             UNCHANGED <<log, evidence>>
      PROVE  V!ViewNext
  <2> DEFINE f == Mutation(revision + 1)
  <2>1. revision' = revision + 1 /\ Advance(f)
    BY <1>3, BaseHostHolds, EntityHolds, Zenon DEF ApplyBaseHost, ApplyEntity
  <2>2. state = "Ready" => state' = "Ready"
    BY <2>1, CoreFacts DEF Advance, SyncInv, ReadyIsSynchronized
  <2>3. V!CacheFollows(revision')
    <3>1. CASE ApplyBaseHost(f)
      <4>1. CacheShrinks
        BY <3>1 DEF ApplyBaseHost, CacheShrinks
      <4> QED BY <1>a, <4>1, ShrinkFollows
    <3>2. CASE ApplyEntity(f)
      <4>0. revision + 1 \in 1..newest /\ revision + 1 # 1
        BY <1>3, CoreFacts
      <4>1. f.revision = revision' /\ f.entity \in Entities
        <5>1. f \in Frame /\ f.revision = revision + 1
          BY <4>0, CoreFacts, MutationFields
        <5> QED BY <2>1, <3>2, <5>1, FrameFields DEF ApplyEntity, EntityOK
      <4>2. CASE f.remove /\ cache[f.entity] # NoEntry
        <5>1. CacheSet(f.entity, [value |-> Absent, revision |-> revision'])
          BY <3>2, <4>1, <4>2 DEF ApplyEntity
        <5> HIDE DEF f
        <5> QED BY <1>a, <4>1, <4>2, <5>1, TombstoneFollows
      <4>3. CASE ~(f.remove /\ cache[f.entity] # NoEntry)
        <5>1. cache' = [cache EXCEPT ![f.entity] = NoEntry]
          BY <3>2, <4>3 DEF ApplyEntity
        <5>2. CacheShrinks
          BY <4>1, <5>1, CoreFacts DEF CacheShrinks, TypeOK
        <5> QED BY <1>a, <5>2, ShrinkFollows
      <4> QED BY <4>2, <4>3
    <3> QED BY <1>3, <3>1, <3>2
  <2>4. revision' # 0 /\ revision' \in revision..newest
    BY <1>3, <2>1, CoreFacts
  <2> QED BY <1>a, <2>1, <2>2, <2>3, <2>4, MoveRefines
<1>4. ASSUME NEW f, Receive(f), f.kind \in {"begin", "barrier", "heartbeat"}
      PROVE  V!ViewNext
  BY <1>1, <1>2, <1>4 DEF Receive, Accept, ApplyBaseHost, ApplyEntity, BaseHostOK, EntityOK
<1>5. CASE SendHost
  <2>1. PICK h \in feed.todo, r \in 1..feed.cut :
          Receive([kind |-> "baseHost", revision |-> r, cursor |-> NoCursor,
                   host |-> h, remove |-> FALSE])
    BY <1>5, Zenon DEF SendHost
  <2> DEFINE f == [kind |-> "baseHost", revision |-> r, cursor |-> NoCursor,
                   host |-> h, remove |-> FALSE]
  <2>2. snapshot # NoSnapshot
    BY <1>5, <2>1, StreamFacts DEF SendHost, Receive, StreamFits, FeedFits
  <2>3. ~ApplyBaseHost(f) /\ ~ApplyEntity(f)
    BY <2>2, Zenon DEF ApplyBaseHost, BaseHostOK, MutationOK, ApplyEntity, EntityOK
  <2>4. Receive(f)
    BY <2>1
  <2> HIDE DEF f
  <2> QED BY <1>1, <1>2, <2>3, <2>4 DEF Receive, Accept
<1>6. CASE SendMutation
  <2> DEFINE f == Mutation(revision + 1)
  <2>1. Receive(f) /\ revision < newest /\ UNCHANGED <<log, evidence>>
    BY <1>6 DEF SendMutation, Receive, streamState
  <2>2. revision # 0
    BY <1>6, <2>1, StreamFacts DEF SendMutation, Receive, StreamFits, FeedFits
  <2>3. ApplyBaseHost(f) \/ ApplyEntity(f) => V!ViewNext
    BY <1>3, <2>1, <2>2
  <2> HIDE DEF f
  <2> QED BY <1>1, <1>2, <2>1, <2>3 DEF Receive, Accept
<1>7. CASE SendBegin \/ SendSnapshotBarrier \/ SendReplayBarrier \/ SendHeartbeat
  BY <1>4, <1>7, Zenon DEF SendBegin, SendSnapshotBarrier, SendReplayBarrier, SendHeartbeat
<1> QED BY <1>5, <1>6, <1>7 DEF SendFrame

\* A load that is stored is the abstract store; any other step of a lookup
\* loses entries at most.
LEMMA LookupRefines ==
  ASSUME CPInv, CPInv', EpochRule, LookupStep
  PROVE  V!ViewNext
<1>1. ASSUME NEW e \in Entities, NEW rev \in 1..revision, NEW ep \in 0..epoch,
             CommitLoad(e, log[rev].value[e], rev, ep), UNCHANGED <<log, feed>>
      PROVE  V!ViewNext
  <2>1. ~LoadAhead(rev, ep)
    BY CoreFacts DEF LoadAhead
  <2>2. UNCHANGED <<state, epoch, revision, baseHosts>>
    BY <1>1, <2>1 DEF CommitLoad, unaryState
  <2>3. CASE LoadStores(e, rev, ep)
    <3>1. rev = revision /\ state = "Ready"
      BY <2>3 DEF LoadStores, LoadCurrent
    <3>2. CacheSet(e, [value |-> log[revision].value[e], revision |-> revision])
      BY <1>1, <2>3, <3>1 DEF CommitLoad
    <3> QED BY <1>1, <2>2, <3>1, <3>2, Zenon DEF CacheSet, V!Store, V!ViewNext
  <2>4. CASE ~LoadStores(e, rev, ep)
    <3>1. CacheShrinks
      BY <1>1, <2>4 DEF CommitLoad, CacheShrinks
    <3> QED BY <1>1, <2>2, <3>1, QuietRefines
  <2> QED BY <2>3, <2>4
<1>2. ASSUME NEW e \in Entities, Evict(e), UNCHANGED <<log, feed>>
      PROVE  V!ViewNext
  <2>1. UNCHANGED <<revision, baseHosts>> /\ CacheShrinks
    BY <1>2, CoreFacts DEF Evict, unaryState, CacheShrinks, TypeOK
  <2> QED BY <1>2, <2>1, QuietRefines
<1> QED BY <1>1, <1>2 DEF LookupStep, AnswerLookup

\* The two modules count alike.
LEMMA SameCardinality == ASSUME NEW S PROVE V!Cardinality(S) = Cardinality(S)
BY Zenon DEF Cardinality, V!Cardinality

\* Every step of the client and its control plane is a step of the view.
LEMMA StepRefines ==
  ASSUME CPInv, CPInv', [CPNext]_cpState
  PROVE  [V!ViewNext]_(V!viewState)
<1>a. EpochRule
  BY StepIsClientStep, EpochStep, CoreFacts
<1>1. CASE UNCHANGED cpState
  BY <1>1 DEF cpState, syncState, V!viewState
<1>2. CASE Change
  <2>1. V!ChangeWorld
    <3>a. V!newest = newest
      BY DEF newest, V!newest
    <3>b. ASSUME NEW v, Publish(v) PROVE V!Publish(v)
      BY <3>a, <3>b DEF Publish, V!Publish
    <3>1. ASSUME NEW e \in Entities, PutEntity(e) PROVE V!PutEntity(e)
      BY <3>1, <3>a, <3>b, Zenon DEF PutEntity, V!PutEntity
    <3>2. ASSUME NEW e \in Entities, RemoveEntity(e) PROVE V!RemoveEntity(e)
      BY <3>2, <3>a, <3>b, Zenon DEF RemoveEntity, V!RemoveEntity
    <3>3. ASSUME NEW h \in Hosts, PutHost(h) PROVE V!PutHost(h)
      BY <3>3, <3>a, <3>b, SameCardinality, Zenon DEF PutHost, V!PutHost
    <3>4. ASSUME NEW h \in Hosts, RemoveHost(h) PROVE V!RemoveHost(h)
      BY <3>4, <3>a, <3>b, Zenon DEF RemoveHost, V!RemoveHost
    <3> QED BY <1>2, <3>1, <3>2, <3>3, <3>4 DEF Change, ChangeWorld, V!ChangeWorld
  <2> QED BY <1>2, <2>1 DEF Change, syncState, V!Change, V!ViewNext
<1>3. CASE SendFrame
  BY <1>3, <1>a, SendRefines
<1>4. CASE LookupStep
  BY <1>4, <1>a, LookupRefines
<1>5. CASE ClientStep \/ ClientSignal \/ Answer \/ Fault
  <2>1. UNCHANGED <<log, revision, baseHosts, cache>>
    BY <1>5
    DEF ClientStep, ClientSignal, Answer, Fault, StartConnect, DrainResync, Dial, OpenWatch,
        ServeWatch, RefreshSyncTimer, MarkDisconnected, CloseConn, Backoff, LeaveLoop, Shutdown,
        SelectCtxDone, SelectStateChanged, SelectResync, SyncTimeout, StreamLost, Cancel,
        AnswerAhead, AnswerCreate, CheckUnaryRevision, CreateReply, ListReplyMissing,
        ResetStream, runState, unaryState, syncState
  <2>2. CacheShrinks
    BY <2>1 DEF CacheShrinks
  <2> QED BY <1>a, <2>1, <2>2, QuietRefines
<1> QED
  BY <1>1, <1>2, <1>3, <1>4, <1>5 DEF CPNext, Undisturbed, Uncached

\* The watch protocol in full implements the view that requests reason about.
THEOREM ViewImplemented == CPSpec => ImplementsView
<1>1. ASSUME CPInit PROVE V!ViewInit
  <2>1. V!WorldInit
    BY <1>1, SameCardinality, Zenon DEF CPInit, WorldInit, V!WorldInit, NoDelta, V!NoDelta
  <2>2. (state = "Ready") = FALSE
    BY <1>1 DEF CPInit, Init
  <2> QED BY <1>1, <2>1, <2>2 DEF CPInit, Init, V!ViewInit
<1>2. CPInv /\ CPInv' /\ [CPNext]_cpState => [V!ViewNext]_(V!viewState)
  BY StepRefines
<1> QED BY <1>1, <1>2, CPInvariant, PTL DEF CPSpec, ImplementsView, V!ViewSpec

=============================================================================
