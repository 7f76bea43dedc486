-------------------------------- MODULE View --------------------------------
(***************************************************************************)
(* What the synchronization of the control-plane client promises to the     *)
(* requests that use it: an abstract specification.  The client is ready or *)
(* not, and holds the base domains of exactly one revision and caches that  *)
(* never contradict it.  Readiness lapses at any time, retiring the epoch;  *)
(* while ready the view follows the world one revision at a time, and while *)
(* it is not it may jump ahead.                                             *)
(*                                                                          *)
(* ControlPlane, which has the watch protocol in full, implements it, and   *)
(* Resolution runs requests on it.                                          *)
(***************************************************************************)
EXTENDS World

CONSTANT NoEntry   \* no cache entry

CacheEntry == [value: Values \cup {Absent}, revision: Nat]

ASSUME ViewAssumption == NoEntry \notin CacheEntry

VARIABLES
  ready,      \* Client.state = StateReady
  revision,   \* Client.revision
  epoch,      \* Client.epoch
  baseHosts,  \* Client.baseHosts
  cache       \* caches.credentials and caches.vbuckets

viewState == <<log, ready, revision, epoch, baseHosts, cache>>

ViewInit ==
  /\ WorldInit
  /\ ready = FALSE
  /\ revision = 0
  /\ epoch = 0
  /\ baseHosts = {}
  /\ cache = [e \in Entities |-> NoEntry]

\* An entry of the cache does not contradict revision r.
FreshAt(r, e, entry) ==
  entry # NoEntry => entry.revision \in 1..r /\ entry.value = log[r].value[e]

\* From now on the cache holds no more than it did, except that the entry of
\* something that does not exist at revision r may have become a tombstone.
CacheFollows(r) ==
  /\ \E kept \in SUBSET Entities : \E removed \in SUBSET kept :
       cache' = [e \in Entities |->
                   IF cache[e] = NoEntry \/ e \notin kept THEN NoEntry
                   ELSE IF e \in removed THEN [value |-> Absent, revision |-> r] ELSE cache[e]]
  /\ \A e \in Entities : FreshAt(r, e, cache'[e])

Change == ChangeWorld /\ UNCHANGED <<ready, revision, epoch, baseHosts, cache>>

\* Readiness lapses: the stream breaks, a snapshot begins or a revision turns
\* out to be missing.
Lapse ==
  /\ ready
  /\ ready' = FALSE
  /\ epoch' = epoch + 1
  /\ CacheFollows(revision)
  /\ UNCHANGED <<log, revision, baseHosts>>

\* The view follows a snapshot or a replay, and may become ready.
Resync ==
  /\ ~ready
  /\ ready' \in BOOLEAN
  /\ \E r \in revision..newest :
       /\ r # 0
       /\ revision' = r
       /\ baseHosts' = log[r].hosts
       /\ CacheFollows(r)
  /\ UNCHANGED <<log, epoch>>

\* The view follows a live change.
Advance ==
  /\ ready
  /\ revision < newest
  /\ revision' = revision + 1
  /\ baseHosts' = log[revision + 1].hosts
  /\ CacheFollows(revision + 1)
  /\ UNCHANGED <<log, ready, epoch>>

\* Entries expire or are evicted.
Expire ==
  /\ CacheFollows(revision)
  /\ UNCHANGED <<log, ready, revision, epoch, baseHosts>>

\* A load stores what the accepted revision says.
Store ==
  /\ ready
  /\ \E e \in Entities, kept \in SUBSET Entities :
       cache' = [x \in Entities |->
                   IF x = e THEN [value |-> log[revision].value[e], revision |-> revision]
                   ELSE IF x \in kept THEN cache[x] ELSE NoEntry]
  /\ UNCHANGED <<log, ready, revision, epoch, baseHosts>>

ViewNext == Change \/ Lapse \/ Resync \/ Advance \/ Expire \/ Store

ViewSpec == ViewInit /\ [][ViewNext]_viewState

=============================================================================
