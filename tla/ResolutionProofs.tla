--------------------------- MODULE ResolutionProofs ---------------------------
(***************************************************************************)
(* Theorems about Resolution, for any number of requests, keys, base        *)
(* domains and revisions.                                                   *)
(***************************************************************************)
EXTENDS Resolution, TLAPS

USE DEF newest

(***************************************************************************)
(* The view.                                                               *)
(***************************************************************************)

\* Publishing a version keeps every earlier one.
LEMMA PublishKeeps ==
  ASSUME NEW version \in Version, log \in Seq(Version), Publish(version)
  PROVE  /\ log' \in Seq(Version)
         /\ Len(log') = Len(log) + 1
         /\ \A r \in 1..Len(log) : log'[r] = log[r]
BY DEF Publish

\* The log of the control plane is append-only.
LEMMA WorldGrows ==
  ASSUME log \in Seq(Version), newest >= 1, ChangeWorld
  PROVE  /\ log' \in Seq(Version)
         /\ newest' = newest + 1
         /\ \A r \in 1..newest : log'[r] = log[r]
<1> DEFINE last == log[newest]
<1>1. last \in Version
  OBVIOUS
<1>2. newest + 1 \in Nat \ {0}
  OBVIOUS
<1>3. CASE \E e \in Entities : PutEntity(e) \/ RemoveEntity(e)
  <2>1. PICK e \in Entities : PutEntity(e) \/ RemoveEntity(e)
    BY <1>3
  <2>2. CASE PutEntity(e)
    <3>1. newest + 1 \in Values
      BY <2>2, <1>2, WorldAssumption DEF PutEntity, Publish
    <3>2. [value |-> [last.value EXCEPT ![e] = newest + 1], hosts |-> last.hosts,
           delta |-> [kind |-> "entity", entity |-> e, remove |-> FALSE]] \in Version
      BY <3>1, <1>1 DEF Version, Deltas
    <3> QED BY <3>2, <2>2, PublishKeeps DEF PutEntity
  <2>3. CASE RemoveEntity(e)
    <3>2. [value |-> [last.value EXCEPT ![e] = Absent], hosts |-> last.hosts,
           delta |-> [kind |-> "entity", entity |-> e, remove |-> TRUE]] \in Version
      BY <1>1 DEF Version, Deltas
    <3> QED BY <3>2, <2>3, PublishKeeps DEF RemoveEntity
  <2> QED BY <2>1, <2>2, <2>3
<1>4. CASE \E h \in Hosts : PutHost(h) \/ RemoveHost(h)
  <2>1. PICK h \in Hosts : PutHost(h) \/ RemoveHost(h)
    BY <1>4
  <2>2. CASE PutHost(h)
    <3>2. [value |-> last.value, hosts |-> last.hosts \cup {h},
           delta |-> [kind |-> "baseHost", host |-> h, remove |-> FALSE]] \in Version
      BY <1>1 DEF Version, Deltas
    <3> QED BY <3>2, <2>2, PublishKeeps DEF PutHost
  <2>3. CASE RemoveHost(h)
    <3>2. [value |-> last.value, hosts |-> last.hosts \ {h},
           delta |-> [kind |-> "baseHost", host |-> h, remove |-> TRUE]] \in Version
      BY <1>1 DEF Version, Deltas
    <3> QED BY <3>2, <2>3, PublishKeeps DEF RemoveHost
  <2> QED BY <2>1, <2>2, <2>3
<1> QED BY <1>3, <1>4 DEF ChangeWorld

\* How the view moves, as far as requests care.
ViewMoves ==
  /\ revision' >= revision
  /\ epoch' >= epoch
  /\ epoch' = epoch /\ ready => ready'
  /\ newest' >= newest
  /\ \A r \in 1..newest : log'[r] = log[r]

\* A cache that follows revision r is one.
LEMMA CacheFollowing ==
  ASSUME cache \in [Entities -> CacheEntry \cup {NoEntry}],
         NEW r \in Nat, CacheFollows(r), UNCHANGED log
  PROVE  /\ cache' \in [Entities -> CacheEntry \cup {NoEntry}]
         /\ \A e \in Entities : cache'[e] # NoEntry =>
              cache'[e].revision \in 1..r /\ cache'[e].value = log[r].value[e]
<1>1. PICK kept \in SUBSET Entities, removed \in SUBSET Entities :
        cache' = [e \in Entities |->
                   IF cache[e] = NoEntry \/ e \notin kept THEN NoEntry
                   ELSE IF e \in removed THEN [value |-> Absent, revision |-> r] ELSE cache[e]]
  BY DEF CacheFollows
<1>2. [value |-> Absent, revision |-> r] \in CacheEntry
  BY DEF CacheEntry
<1>3. cache' \in [Entities -> CacheEntry \cup {NoEntry}]
  BY <1>1, <1>2
<1>4. \A e \in Entities : FreshAt(r, e, cache'[e])
  BY DEF CacheFollows
<1> QED BY <1>3, <1>4 DEF FreshAt

LEMMA ViewStepInv ==
  ASSUME ViewInv, Change \/ Lapse \/ Resync \/ Advance \/ Expire
  PROVE  ViewInv' /\ ViewMoves
<1>1. CASE Change
  <2>1. /\ log' \in Seq(Version) /\ newest' = newest + 1
        /\ \A r \in 1..newest : log'[r] = log[r]
    BY <1>1, WorldGrows DEF Change, ViewInv
  <2>2. \A e \in Entities : FreshAt(revision, e, cache[e])'
    <3> SUFFICES ASSUME NEW e \in Entities, cache[e] # NoEntry
                 PROVE  cache[e].revision \in 1..revision /\ cache[e].value = log'[revision].value[e]
      BY <1>1 DEF FreshAt, Change
    <3>1. cache[e].revision \in 1..revision /\ cache[e].value = log[revision].value[e]
      BY DEF ViewInv, FreshAt
    <3>2. revision \in 1..newest
      BY <3>1 DEF ViewInv
    <3> QED BY <3>1, <3>2, <2>1
  <2>3. UNCHANGED <<ready, revision, epoch, baseHosts, cache>>
    BY <1>1 DEF Change
  <2>4. revision # 0 => baseHosts' = log'[revision].hosts
    BY <2>1, <2>3 DEF ViewInv
  <2>5. ViewMoves
    BY <2>1, <2>3 DEF ViewInv, ViewMoves
  <2>6. ViewInv'
    BY <2>1, <2>2, <2>3, <2>4 DEF ViewInv
  <2> QED BY <2>5, <2>6
<1>2. CASE Lapse
  <2>1. ready' \in BOOLEAN /\ ~ready'
    BY <1>2, Zenon DEF Lapse
  <2>2. ViewMoves
    BY <1>2 DEF Lapse, ViewInv, ViewMoves
  <2>3. cache' \in [Entities -> CacheEntry \cup {NoEntry}] /\ \A e \in Entities : FreshAt(revision, e, cache[e])'
    BY <1>2, CacheFollowing DEF Lapse, ViewInv, FreshAt
  <2>4. ViewInv'
    BY <1>2, <2>1, <2>3 DEF Lapse, ViewInv
  <2> QED BY <2>2, <2>4
<1>3. CASE Resync
  BY <1>3, CacheFollowing DEF Resync, ViewInv, ViewMoves, FreshAt
<1>4. CASE Advance
  BY <1>4, CacheFollowing DEF Advance, ViewInv, ViewMoves, FreshAt
<1>5. CASE Expire
  BY <1>5, CacheFollowing DEF Expire, ViewInv, ViewMoves, FreshAt
<1> QED BY <1>1, <1>2, <1>3, <1>4, <1>5

(***************************************************************************)
(* What a step that is not about a request or a call leaves true of it.    *)
(***************************************************************************)

LEMMA TakenKept ==
  ASSUME ViewInv, ViewInv', ViewMoves, NEW revN \in Nat, NEW epN \in Nat,
         revN \in 1..revision, epN \in 0..epoch, epN = epoch => ready
  PROVE  revN \in 1..revision' /\ epN \in 0..epoch' /\ (epN = epoch' => ready')
BY DEF ViewInv, ViewMoves

LEMMA RequestFrame ==
  ASSUME ViewInv, ViewInv', ViewMoves, RequestTypeOK,
         NEW p \in Procs, RequestInv(p),
         at'[p] = at[p], stamp'[p] = stamp[p], look'[p] = look[p], got'[p] = got[p],
         at[p] = "wait" => calls'[look[p].entity] # NoCall
  PROVE  RequestInv(p)'
<1> SUFFICES ASSUME at[p] # "idle"
             PROVE  RequestInv(p)'
  BY DEF RequestInv
<1>1. /\ stamp[p].revision \in Nat /\ stamp[p].epoch \in Nat
      /\ look[p].revision \in Nat /\ look[p].epoch \in Nat
  BY DEF RequestTypeOK, Stamp, Lookup
<1>2. TakenWhileReady(stamp[p])'
  BY <1>1, TakenKept DEF RequestInv, TakenWhileReady
<1>3. at[p] \in {"read", "hit", "miss", "wait", "loaded"} => TakenWhileReady(look[p])'
  BY <1>1, TakenKept DEF RequestInv, TakenWhileReady
<1>4. InLookup(p)' = InLookup(p) /\ PastCredential(p)' = PastCredential(p) /\ PastHost(p)' = PastHost(p)
  BY DEF InLookup, PastCredential, PastHost
<1>5. at[p] = "hit" =>
         /\ look[p].result.kind = "entry"
         /\ revision' = look[p].revision =>
              look[p].result.value = log'[revision'].value[look[p].entity]
  BY DEF RequestInv, TakenWhileReady, ViewInv, ViewMoves
<1>6. at[p] = "loaded" => look[p].result # Pending /\ TrueResult(look[p].entity, look[p].result)'
  BY DEF RequestInv, TrueResult, AbsentAt, ViewInv, ViewMoves
<1>7. revision' = stamp[p].revision => ReadAtStamp(p)'
  <2> SUFFICES ASSUME revision' = stamp[p].revision
               PROVE  ReadAtStamp(p)'
    OBVIOUS
  <2>1. revision = revision' /\ revision \in 1..newest
    BY DEF RequestInv, TakenWhileReady, ViewInv, ViewMoves
  <2>2. log'[revision'] = log[revision] /\ ReadAtStamp(p)
    BY <2>1 DEF RequestInv, ViewMoves
  <2> QED BY <2>2, <1>4 DEF ReadAtStamp
<1>8. at[p] = "dispatched" => ActsOnOneWorld(p)'
  <2>1. log'[stamp[p].revision] = log[stamp[p].revision]
    BY DEF RequestInv, TakenWhileReady, ViewInv, ViewMoves
  <2> QED BY <2>1 DEF RequestInv, ActsOnOneWorld
<1> QED BY <1>2, <1>3, <1>4, <1>5, <1>6, <1>7, <1>8 DEF RequestInv

LEMMA CallFrame ==
  ASSUME ViewInv, ViewInv', ViewMoves, RequestTypeOK,
         NEW e \in Entities, CallInv(e), calls'[e] = calls[e]
  PROVE  CallInv(e)'
<1> SUFFICES ASSUME calls[e] # NoCall
             PROVE  CallInv(e)'
  BY DEF CallInv
<1>1. calls[e].revision \in Nat /\ calls[e].epoch \in Nat
  BY DEF RequestTypeOK, Call
<1>2. TakenWhileReady(calls[e])'
  BY <1>1, TakenKept DEF CallInv, TakenWhileReady
<1>3. TrueResult(e, calls[e].result)'
  BY DEF CallInv, TrueResult, AbsentAt, ViewInv, ViewMoves
<1> QED BY <1>2, <1>3 DEF CallInv

(***************************************************************************)
(* The steps of a request.                                                 *)
(***************************************************************************)

LEMMA Constants ==
  /\ NoStamp \in Stamp
  /\ NoLookup \in Lookup
  /\ NoLookup.entity = Credential /\ NoLookup.result = Pending
  /\ Nothing \in Resolved
  /\ Nothing.mapping = Absent
  /\ \A entry \in CacheEntry :
       /\ Entry(entry) \in Results /\ Entry(entry).kind = "entry"
       /\ Entry(entry).value = entry.value /\ Entry(entry).revision = entry.revision
       /\ Entry(entry) # Pending
  /\ Race # Pending /\ Failure # Pending /\ Race.kind # "entry" /\ Failure.kind # "entry"
  /\ NotFoundStatus # Pending /\ NotFoundStatus.kind # "entry"
  /\ Race # NotFoundStatus /\ Failure # NotFoundStatus
  /\ \A entry \in CacheEntry : Entry(entry) # NotFoundStatus
  /\ Pending.kind # "entry"
BY DEF NoStamp, NoLookup, Nothing, Stamp, Lookup, Resolved, Results, Pending, Race, Failure, NotFoundStatus,
       Entry, CacheEntry

\* The key of a lookup is a cache key.
LEMMA LookedUp ==
  ASSUME RequestTypeOK, NEW p \in Procs
  PROVE  look[p].entity \in Entities
<1>1. look[p] \in Lookup
  BY DEF RequestTypeOK
<1> QED BY <1>1, ResolutionAssumption DEF Lookup

LEMMA ReadyRevision ==
  ASSUME ViewInv, ready
  PROVE  revision \in 1..newest
BY DEF ViewInv

\* Nobody but p is concerned.
OnlyRequest(p) ==
  \A q \in Procs \ {p} :
    at'[q] = at[q] /\ stamp'[q] = stamp[q] /\ look'[q] = look[q] /\ got'[q] = got[q]

\* What changes of one request, by its new values.
LEMMA RequestChange ==
  ASSUME RequestTypeOK, NEW p \in Procs, NEW a \in RequestLocations, NEW s \in Stamp,
         NEW l \in Lookup, NEW g \in Resolved,
         at' = [at EXCEPT ![p] = a], stamp' = [stamp EXCEPT ![p] = s],
         look' = [look EXCEPT ![p] = l], got' = [got EXCEPT ![p] = g],
         calls' \in [Entities -> Call \cup {NoCall}]
  PROVE  /\ RequestTypeOK' /\ OnlyRequest(p)
         /\ at'[p] = a /\ stamp'[p] = s /\ look'[p] = l /\ got'[p] = g
BY DEF RequestTypeOK, OnlyRequest

\* A request that ends is idle, and idle requests promise nothing.
LEMMA RefuseStep ==
  ASSUME RequestTypeOK, NEW p \in Procs, Refuse(p), UNCHANGED calls
  PROVE  RequestTypeOK' /\ OnlyRequest(p) /\ RequestInv(p)'
BY Constants DEF RequestTypeOK, Refuse, Goto, OnlyRequest, RequestInv, RequestLocations

LEMMA BeginStep ==
  ASSUME RequestTypeOK, ResolutionInv, NEW p \in Procs, BeginResolution(p), UNCHANGED viewState
  PROVE  RequestTypeOK' /\ OnlyRequest(p) /\ RequestInv(p)'
<1>0. [NoLookup EXCEPT !.entity = Credential, !.retry = TRUE] \in Lookup
  BY Constants DEF Lookup
<1>1. RequestTypeOK' /\ OnlyRequest(p)
  BY <1>0 DEF RequestTypeOK, Stamp, BeginResolution, StartLookup, Goto, OnlyRequest, RequestLocations,
     ResolutionInv, ViewInv
<1>2. /\ at'[p] = "lookup" /\ look'[p].entity = Credential /\ got'[p].mapping = Absent
      /\ stamp'[p].revision = revision /\ stamp'[p].epoch = epoch
  BY Constants DEF RequestTypeOK, BeginResolution, StartLookup, Goto, ResolutionInv, RequestInv
<1>3. RequestInv(p)'
  BY SMTT(30), <1>2, ResolutionAssumption DEF RequestInv, TakenWhileReady, PastCredential, PastHost, InLookup, ReadAtStamp,
     ResolutionInv, ViewInv, viewState, BeginResolution
<1> QED BY <1>1, <1>3

\* Entering a lookup, from the plan or to retry.
LEMMA LookupRecord ==
  /\ \A e \in {Credential, Mapping} :
       LET l == [NoLookup EXCEPT !.entity = e]
       IN  /\ l \in Lookup
           /\ l.entity = e
  /\ LET l == [NoLookup EXCEPT !.entity = Mapping, !.retry = TRUE]
     IN  /\ l \in Lookup
         /\ l.entity = Mapping
BY Constants DEF Lookup

LEMMA HostStep ==
  ASSUME RequestTypeOK, ResolutionInv, NEW p \in Procs, LookupBaseHost(p), UNCHANGED viewState
  PROVE  RequestTypeOK' /\ OnlyRequest(p) /\ RequestInv(p)'
<1>1. CASE ~ready
  BY <1>1, RefuseStep DEF LookupBaseHost
<1>2. CASE ready
  <2> DEFINE g == [got[p] EXCEPT !.hosts = baseHosts]
  <2>a. revision \in 1..Len(log) /\ log \in Seq(Version) /\ baseHosts = log[revision].hosts
    BY <1>2 DEF ResolutionInv, ViewInv
  <2>e. log[revision] \in Version
    BY <2>a
  <2>0. baseHosts \in SUBSET Hosts /\ baseHosts = log[revision].hosts
    BY <2>a, <2>e DEF Version
  <2>b. got[p] \in Resolved
    BY DEF RequestTypeOK
  <2>c. /\ g \in Resolved /\ g.creds = got[p].creds /\ g.mapping = got[p].mapping
        /\ g.hosts = baseHosts
    BY <2>0, <2>b DEF Resolved
  <2>d. /\ at' = [at EXCEPT ![p] = "plan"] /\ stamp' = [stamp EXCEPT ![p] = stamp[p]]
        /\ look' = [look EXCEPT ![p] = look[p]] /\ got' = [got EXCEPT ![p] = g]
        /\ stamp[p] \in Stamp /\ look[p] \in Lookup /\ "plan" \in RequestLocations
        /\ calls' \in [Entities -> Call \cup {NoCall}] /\ at[p] = "host"
    BY <1>2 DEF RequestTypeOK, LookupBaseHost, Goto, RequestLocations
  <2> HIDE DEF g
  <2>1. /\ RequestTypeOK' /\ OnlyRequest(p)
        /\ at'[p] = "plan" /\ stamp'[p] = stamp[p] /\ look'[p] = look[p] /\ got'[p] = g
    BY <2>c, <2>d, RequestChange
  <2>2. /\ at'[p] = "plan" /\ at[p] = "host" /\ stamp'[p] = stamp[p] /\ look'[p] = look[p]
        /\ got'[p].creds = got[p].creds /\ got'[p].mapping = got[p].mapping
        /\ got'[p].hosts = baseHosts
    BY <2>c, <2>d, <2>1
  <2>3. RequestInv(p)'
    BY <2>0, <2>2 DEF RequestInv, TakenWhileReady, PastCredential, PastHost, InLookup, ReadAtStamp,
       ResolutionInv, viewState
  <2> QED BY <2>1, <2>3
<1> QED BY <1>1, <1>2

LEMMA PlanStep ==
  ASSUME RequestTypeOK, ResolutionInv, NEW p \in Procs, PlanOperation(p), UNCHANGED viewState
  PROVE  RequestTypeOK' /\ OnlyRequest(p) /\ RequestInv(p)'
<1>1. RequestTypeOK' /\ OnlyRequest(p)
  BY LookupRecord DEF RequestTypeOK, PlanOperation, StartLookup, Goto, OnlyRequest, RequestLocations
<1>2. /\ at[p] = "plan" /\ stamp'[p] = stamp[p] /\ got'[p] = got[p]
      /\ at'[p] = "validate" \/ (at'[p] = "lookup" /\ look'[p].entity = Mapping)
  BY LookupRecord DEF RequestTypeOK, PlanOperation, StartLookup, Goto
<1>3. RequestInv(p)'
  BY <1>2 DEF RequestInv, TakenWhileReady, PastCredential, PastHost, InLookup, ReadAtStamp,
     ResolutionInv, viewState
<1> QED BY <1>1, <1>3

LEMMA ValidateStep ==
  ASSUME RequestTypeOK, ResolutionInv, NEW p \in Procs, ValidateResolution(p), UNCHANGED viewState
  PROVE  RequestTypeOK' /\ OnlyRequest(p) /\ RequestInv(p)'
<1>1. CASE ~StillCurrent(stamp[p].revision, stamp[p].epoch)
  BY <1>1, RefuseStep DEF ValidateResolution
<1>2. CASE StillCurrent(stamp[p].revision, stamp[p].epoch)
  <2>1. RequestTypeOK' /\ OnlyRequest(p)
    BY <1>2 DEF RequestTypeOK, ValidateResolution, Goto, OnlyRequest, RequestLocations
  <2>2. /\ at'[p] = "dispatched" /\ at[p] = "validate" /\ stamp'[p] = stamp[p]
        /\ look'[p] = look[p] /\ got'[p] = got[p] /\ revision = stamp[p].revision
    BY <1>2 DEF RequestTypeOK, ValidateResolution, Goto, StillCurrent
  <2>3. RequestInv(p)'
    BY <2>2 DEF RequestInv, TakenWhileReady, PastCredential, PastHost, InLookup, ReadAtStamp,
       ResolutionInv, viewState, ActsOnOneWorld
  <2> QED BY <2>1, <2>3
<1> QED BY <1>1, <1>2

LEMMA SnapshotStep ==
  ASSUME RequestTypeOK, ResolutionInv, NEW p \in Procs, LookupSnapshot(p), UNCHANGED viewState
  PROVE  RequestTypeOK' /\ OnlyRequest(p) /\ RequestInv(p)'
<1>1. CASE ~ready
  BY <1>1, RefuseStep DEF LookupSnapshot
<1>2. CASE ready
  <2>0. revision \in Nat \ {0} /\ epoch \in Nat
    BY <1>2 DEF ResolutionInv, ViewInv
  <2> DEFINE l == [look[p] EXCEPT !.revision = revision, !.epoch = epoch]
  <2>b. look[p] \in Lookup
    BY DEF RequestTypeOK
  <2>c. l \in Lookup /\ l.entity = look[p].entity /\ l.revision = revision /\ l.epoch = epoch
    BY <2>0, <2>b DEF Lookup
  <2>d. /\ at' = [at EXCEPT ![p] = "read"] /\ stamp' = [stamp EXCEPT ![p] = stamp[p]]
        /\ look' = [look EXCEPT ![p] = l] /\ got' = [got EXCEPT ![p] = got[p]]
        /\ stamp[p] \in Stamp /\ got[p] \in Resolved /\ "read" \in RequestLocations
        /\ calls' \in [Entities -> Call \cup {NoCall}] /\ at[p] = "lookup"
    BY <1>2 DEF RequestTypeOK, LookupSnapshot, Goto, RequestLocations
  <2> HIDE DEF l
  <2>1. /\ RequestTypeOK' /\ OnlyRequest(p)
        /\ at'[p] = "read" /\ stamp'[p] = stamp[p] /\ look'[p] = l /\ got'[p] = got[p]
    BY <2>c, <2>d, RequestChange
  <2>2. /\ at'[p] = "read" /\ at[p] = "lookup" /\ stamp'[p] = stamp[p] /\ got'[p] = got[p]
        /\ look'[p].entity = look[p].entity /\ look'[p].revision = revision
        /\ look'[p].epoch = epoch
    BY <2>c, <2>d, <2>1
  <2>3. RequestInv(p)'
    BY SMTT(30), <1>2, <2>0, <2>2 DEF RequestInv, TakenWhileReady, PastCredential, PastHost, InLookup,
       ReadAtStamp, ResolutionInv, viewState
  <2> QED BY <2>1, <2>3
<1> QED BY <1>1, <1>2

LEMMA ReadStep ==
  ASSUME RequestTypeOK, ResolutionInv, NEW p \in Procs, ReadCache(p), UNCHANGED viewState
  PROVE  RequestTypeOK' /\ OnlyRequest(p) /\ RequestInv(p)'
<1> DEFINE entry == cache[look[p].entity]
<1>0. look[p].entity \in Entities
  BY LookedUp
<1>1. CASE entry # NoEntry /\ entry.revision <= look[p].revision
  <2>0. entry \in CacheEntry /\ entry.value = log[revision].value[look[p].entity]
    BY <1>0, <1>1 DEF ResolutionInv, ViewInv, FreshAt
  <2> DEFINE l == [look[p] EXCEPT !.result = Entry(entry)]
  <2>b. look[p] \in Lookup
    BY DEF RequestTypeOK
  <2>c. /\ l \in Lookup /\ l.entity = look[p].entity /\ l.revision = look[p].revision
        /\ l.epoch = look[p].epoch /\ l.result = Entry(entry)
    BY <2>0, <2>b, Constants DEF Lookup
  <2>d. /\ at' = [at EXCEPT ![p] = "hit"] /\ stamp' = [stamp EXCEPT ![p] = stamp[p]]
        /\ look' = [look EXCEPT ![p] = l] /\ got' = [got EXCEPT ![p] = got[p]]
        /\ stamp[p] \in Stamp /\ got[p] \in Resolved /\ "hit" \in RequestLocations
        /\ calls' \in [Entities -> Call \cup {NoCall}] /\ at[p] = "read"
    BY <1>1 DEF RequestTypeOK, ReadCache, Goto, RequestLocations
  <2> HIDE DEF l
  <2>e. l \in Lookup
    BY <2>c
  <2>1. /\ RequestTypeOK' /\ OnlyRequest(p)
        /\ at'[p] = "hit" /\ stamp'[p] = stamp[p] /\ look'[p] = l /\ got'[p] = got[p]
    BY <2>d, <2>e, RequestChange
  <2>2. /\ at'[p] = "hit" /\ at[p] = "read" /\ stamp'[p] = stamp[p] /\ got'[p] = got[p]
        /\ look'[p].entity = look[p].entity /\ look'[p].revision = look[p].revision
        /\ look'[p].epoch = look[p].epoch /\ look'[p].result = Entry(entry)
    BY <2>c, <2>d, <2>1
  <2>3. RequestInv(p)'
    BY SMTT(30), <2>0, <2>2, Constants DEF RequestInv, TakenWhileReady, PastCredential, PastHost, InLookup,
       ReadAtStamp, ResolutionInv, viewState
  <2> QED BY <2>1, <2>3
<1>2. CASE ~(entry # NoEntry /\ entry.revision <= look[p].revision)
  <2>1. RequestTypeOK' /\ OnlyRequest(p)
    BY <1>2 DEF RequestTypeOK, ReadCache, Goto, OnlyRequest, RequestLocations
  <2>2. /\ at'[p] = "miss" /\ at[p] = "read" /\ stamp'[p] = stamp[p] /\ got'[p] = got[p]
        /\ look'[p] = look[p]
    BY <1>2 DEF RequestTypeOK, ReadCache, Goto
  <2>3. RequestInv(p)'
    BY <2>2 DEF RequestInv, TakenWhileReady, PastCredential, PastHost, InLookup,
       ReadAtStamp, ResolutionInv, viewState
  <2> QED BY <2>1, <2>3
<1> QED BY <1>1, <1>2

\* A lookup that returns the value at the accepted revision.
LEMMA ReturnStep ==
  ASSUME RequestTypeOK, ResolutionInv, NEW p \in Procs, NEW value \in Values \cup {Absent},
         at[p] \in {"hit", "loaded"}, Return(p, value),
         value # Absent => value = log[revision].value[look[p].entity], UNCHANGED <<viewState, calls>>
  PROVE  RequestTypeOK' /\ OnlyRequest(p) /\ RequestInv(p)'
<1> DEFINE l == [NoLookup EXCEPT !.entity = look[p].entity]
           g == IF value = Absent THEN got[p]
                ELSE IF look[p].entity = Credential THEN [got[p] EXCEPT !.creds = value]
                ELSE [got[p] EXCEPT !.mapping = value]
           a == IF value = Absent THEN "notFound"
                ELSE IF look[p].entity = Credential THEN "host" ELSE "validate"
<1>0. look[p] \in Lookup /\ got[p] \in Resolved /\ stamp[p] \in Stamp
  BY DEF RequestTypeOK
<1>1. look[p].entity \in {Credential, Mapping}
  BY <1>0 DEF Lookup
<1>2. l \in Lookup /\ l.entity = look[p].entity
  BY <1>1, LookupRecord
<1>3. /\ g \in Resolved /\ g.hosts = got[p].hosts
      /\ value # Absent /\ look[p].entity = Credential =>
           g.creds = value /\ g.mapping = got[p].mapping
      /\ value # Absent /\ look[p].entity = Mapping =>
           g.mapping = value /\ g.creds = got[p].creds
  BY <1>0, ResolutionAssumption DEF Resolved
<1>4. a \in RequestLocations
  BY DEF RequestLocations
<1>5. /\ at' = [at EXCEPT ![p] = a] /\ stamp' = [stamp EXCEPT ![p] = stamp[p]]
      /\ look' = [look EXCEPT ![p] = l] /\ got' = [got EXCEPT ![p] = g]
      /\ calls' \in [Entities -> Call \cup {NoCall}]
  BY DEF Return, Goto, RequestTypeOK
<1>6. /\ a = "notFound" => value = Absent
      /\ a = "host" => value # Absent /\ look[p].entity = Credential
      /\ a = "validate" => value # Absent /\ look[p].entity = Mapping
      /\ a \in {"notFound", "host", "validate"}
  BY <1>1
<1> HIDE DEF l, g, a
<1>10. l \in Lookup /\ g \in Resolved
  BY <1>2, <1>3
<1>7. /\ RequestTypeOK' /\ OnlyRequest(p)
      /\ at'[p] = a /\ stamp'[p] = stamp[p] /\ look'[p] = l /\ got'[p] = g
  BY <1>0, <1>10, <1>4, <1>5, RequestChange
<1>8. RequestInv(p) /\ InLookup(p) /\ at[p] # "idle"
  BY DEF ResolutionInv, InLookup
<1>9. RequestInv(p)'
  <2>1. TakenWhileReady(stamp[p])'
    BY <1>7, <1>8 DEF RequestInv, TakenWhileReady, viewState
  <2>2. CASE a = "notFound"
    BY <2>1, <2>2, <1>7 DEF RequestInv, PastCredential, PastHost, InLookup, ReadAtStamp
  <2>3. CASE a = "host"
    BY <2>1, <2>3, <1>3, <1>6, <1>7, <1>8
       DEF RequestInv, PastCredential, PastHost, InLookup, ReadAtStamp, viewState
  <2>4. CASE a = "validate"
    BY <2>1, <2>4, <1>3, <1>6, <1>7, <1>8
       DEF RequestInv, PastCredential, PastHost, InLookup, ReadAtStamp, viewState
  <2> QED BY <2>2, <2>3, <2>4, <1>6
<1> QED BY <1>7, <1>9

LEMMA AgainStep ==
  ASSUME RequestTypeOK, ResolutionInv, NEW p \in Procs, at[p] \in {"hit", "loaded"},
         Goto(p, "again"), UNCHANGED <<stamp, look, got>>, UNCHANGED <<viewState, calls>>
  PROVE  RequestTypeOK' /\ OnlyRequest(p) /\ RequestInv(p)'
<1>1. RequestTypeOK' /\ OnlyRequest(p) /\ at'[p] = "again"
  BY DEF RequestTypeOK, Goto, OnlyRequest, RequestLocations
<1>2. RequestInv(p)'
  BY <1>1 DEF RequestInv, TakenWhileReady, PastCredential, PastHost, InLookup,
     ReadAtStamp, ResolutionInv, viewState
<1> QED BY <1>1, <1>2

\* What the log and the cache say of a key is a value.
LEMMA LogValue ==
  ASSUME ViewInv, NEW r \in 1..newest, NEW e \in Entities
  PROVE  log[r].value[e] \in Values \cup {Absent}
<1>1. log[r] \in Version
  BY DEF ViewInv
<1> QED BY <1>1 DEF Version

LEMMA HitStep ==
  ASSUME RequestTypeOK, ResolutionInv, NEW p \in Procs, CheckHit(p), UNCHANGED viewState
  PROVE  RequestTypeOK' /\ OnlyRequest(p) /\ RequestInv(p)'
<1>1. CASE StillCurrent(look[p].revision, look[p].epoch)
  <2>1. look[p].result.value = log[revision].value[look[p].entity]
    BY <1>1 DEF CheckHit, StillCurrent, ResolutionInv, RequestInv
  <2>2. look[p].entity \in Entities /\ revision \in 1..newest
    BY <1>1, LookedUp, ReadyRevision DEF StillCurrent, ResolutionInv
  <2>3. look[p].result.value \in Values \cup {Absent}
    BY <2>1, <2>2, LogValue DEF ResolutionInv
  <2> QED BY <1>1, <2>1, <2>3, ReturnStep DEF CheckHit
<1>2. CASE ~StillCurrent(look[p].revision, look[p].epoch)
  BY <1>2, AgainStep DEF CheckHit
<1> QED BY <1>1, <1>2

LEMMA LoadedStep ==
  ASSUME RequestTypeOK, ResolutionInv, NEW p \in Procs, CheckLoaded(p), UNCHANGED viewState
  PROVE  RequestTypeOK' /\ OnlyRequest(p) /\ RequestInv(p)'
<1>1. CASE look[p].result.kind = "entry" /\ StillCurrent(look[p].result.revision, look[p].epoch)
  <2>1. look[p].result.value = log[revision].value[look[p].entity]
    BY <1>1 DEF CheckLoaded, StillCurrent, ResolutionInv, RequestInv, TrueResult
  <2>2. look[p].entity \in Entities /\ revision \in 1..newest
    BY <1>1, LookedUp, ReadyRevision DEF StillCurrent, ResolutionInv
  <2>3. look[p].result.value \in Values \cup {Absent}
    BY <2>1, <2>2, LogValue DEF ResolutionInv
  <2>4. Return(p, look[p].result.value) /\ UNCHANGED calls /\ at[p] = "loaded"
    BY <1>1, Constants DEF CheckLoaded, NotFoundStatus
  <2> QED BY <2>1, <2>3, <2>4, ReturnStep
<1>2. CASE look[p].result = NotFoundStatus
  BY <1>2, ReturnStep, Constants DEF CheckLoaded, Race, Failure, NotFoundStatus
<1>3. CASE /\ ~(look[p].result.kind = "entry" /\ StillCurrent(look[p].result.revision, look[p].epoch))
           /\ look[p].result # NotFoundStatus
  <2>1. \/ Goto(p, "again") /\ UNCHANGED <<stamp, look, got>>
        \/ Refuse(p)
    BY <1>3 DEF CheckLoaded
  <2> QED BY <2>1, AgainStep, RefuseStep DEF CheckLoaded
<1> QED BY <1>1, <1>2, <1>3

LEMMA RetryStep ==
  ASSUME RequestTypeOK, ResolutionInv, NEW p \in Procs, Retry(p), UNCHANGED viewState
  PROVE  RequestTypeOK' /\ OnlyRequest(p) /\ RequestInv(p)'
<1>1. CASE look[p].retry /\ ready
  <2> DEFINE l == [NoLookup EXCEPT !.entity = look[p].entity]
  <2>1. look[p] \in Lookup /\ got[p] \in Resolved /\ stamp[p] \in Stamp
    BY DEF RequestTypeOK
  <2>2. look[p].entity \in {Credential, Mapping}
    BY <2>1 DEF Lookup
  <2>3. l \in Lookup /\ l.entity = look[p].entity
    BY <2>2, LookupRecord
  <2>4. /\ at' = [at EXCEPT ![p] = "lookup"] /\ stamp' = [stamp EXCEPT ![p] = stamp[p]]
        /\ look' = [look EXCEPT ![p] = l] /\ got' = [got EXCEPT ![p] = got[p]]
        /\ calls' \in [Entities -> Call \cup {NoCall}] /\ "lookup" \in RequestLocations
    BY <1>1 DEF Retry, Goto, RequestTypeOK, RequestLocations
  <2> HIDE DEF l
  <2>5. /\ RequestTypeOK' /\ OnlyRequest(p)
        /\ at'[p] = "lookup" /\ stamp'[p] = stamp[p] /\ look'[p] = l /\ got'[p] = got[p]
    BY ZenonT(30), <2>1, <2>3, <2>4, RequestChange
  <2>6. RequestInv(p)'
    BY <2>3, <2>5 DEF Retry, RequestInv, TakenWhileReady, PastCredential, PastHost, InLookup,
       ReadAtStamp, ResolutionInv, viewState
  <2> QED BY <2>5, <2>6
<1>2. CASE ~(look[p].retry /\ ready)
  BY <1>2, RefuseStep DEF Retry
<1> QED BY <1>1, <1>2

LEMMA JoinStep ==
  ASSUME RequestTypeOK, ResolutionInv, NEW p \in Procs, JoinLoad(p), UNCHANGED viewState
  PROVE  RequestTypeOK' /\ OnlyRequest(p) /\ RequestInv(p)'
<1>1. RequestTypeOK' /\ OnlyRequest(p) /\ at'[p] = "wait"
  BY DEF RequestTypeOK, JoinLoad, Goto, OnlyRequest, RequestLocations
<1>2. RequestInv(p)'
  BY <1>1 DEF JoinLoad, RequestInv, TakenWhileReady, PastCredential, PastHost, InLookup,
     ReadAtStamp, ResolutionInv, viewState
<1> QED BY <1>1, <1>2

LEMMA StartStep ==
  ASSUME RequestTypeOK, ResolutionInv, NEW p \in Procs, StartLoad(p), UNCHANGED viewState
  PROVE  /\ RequestTypeOK' /\ OnlyRequest(p) /\ RequestInv(p)'
         /\ \A e \in Entities : calls[e] # NoCall => calls'[e] = calls[e]
         /\ \A e \in Entities : calls'[e] = calls[e] \/ CallInv(e)'
<1> DEFINE e0 == look[p].entity
           call == [phase |-> "rpc", revision |-> look[p].revision, epoch |-> look[p].epoch,
                    result |-> Pending]
<1>1. CASE Refuse(p) /\ UNCHANGED calls
  BY <1>1, RefuseStep
<1>2. CASE ~(Refuse(p) /\ UNCHANGED calls)
  <2>1. /\ at' = [at EXCEPT ![p] = "wait"] /\ UNCHANGED <<stamp, look, got>>
        /\ calls' = [calls EXCEPT ![e0] = call] /\ calls[e0] = NoCall /\ at[p] = "miss"
    BY <1>2 DEF StartLoad, Goto
  <2>2. e0 \in Entities /\ look[p] \in Lookup
    BY LookedUp DEF RequestTypeOK
  <2>3. call \in Call /\ call.result = Pending /\ call.phase = "rpc"
    BY <2>2 DEF Call, Lookup, Results
  <2>4. call # NoCall
    BY <2>3, CallAssumption
  <2>5. call.revision = look[p].revision /\ call.epoch = look[p].epoch
    OBVIOUS
  <2> HIDE DEF call
  <2>6. RequestTypeOK' /\ OnlyRequest(p) /\ at'[p] = "wait" /\ calls'[e0] = call
    BY <2>1, <2>2, <2>3 DEF RequestTypeOK, OnlyRequest, RequestLocations
  <2>7. RequestInv(p)'
    BY <2>1, <2>4, <2>6 DEF RequestInv, TakenWhileReady, PastCredential, PastHost, InLookup,
       ReadAtStamp, ResolutionInv, viewState
  <2>8. CallInv(e0)'
    <3>1. TakenWhileReady(look[p])
      BY <2>1 DEF ResolutionInv, RequestInv
    <3>2. TakenWhileReady(calls[e0])'
      BY <3>1, <2>1, <2>5, <2>6 DEF TakenWhileReady, viewState
    <3>3. TrueResult(e0, calls[e0].result)'
      BY <2>1, <2>3, <2>6, Constants DEF TrueResult
    <3> QED BY <3>2, <3>3, <2>1, <2>3, <2>6 DEF CallInv
  <2>9. \A e \in Entities : e # e0 => calls'[e] = calls[e]
    BY <2>1 DEF RequestTypeOK
  <2>10. e0' = e0
    BY <2>1
  <2>11. \A e \in Entities : calls'[e] = calls[e] \/ CallInv(e)'
    <3> SUFFICES ASSUME NEW e \in Entities, e = e0
                 PROVE  CallInv(e)'
      BY <2>9
    <3> QED BY <2>8, <2>10 DEF CallInv, TakenWhileReady, TrueResult, AbsentAt
  <2>12. \A e \in Entities : calls[e] # NoCall => calls'[e] = calls[e]
    BY <2>1, <2>9
  <2> QED BY <2>6, <2>7, <2>11, <2>12
<1> QED BY <1>1, <1>2

LEMMA RequestSteps ==
  ASSUME RequestTypeOK, ResolutionInv, NEW p \in Procs, RequestStep(p), UNCHANGED viewState
  PROVE  RequestTypeOK' /\ ResolutionInv'
<1>1. /\ RequestTypeOK' /\ OnlyRequest(p) /\ RequestInv(p)'
      /\ \A e \in Entities : calls[e] # NoCall => calls'[e] = calls[e]
      /\ \A e \in Entities : calls'[e] = calls[e] \/ CallInv(e)'
  <2>1. CASE BeginResolution(p)
    BY <2>1, BeginStep DEF BeginResolution
  <2>2. CASE LookupBaseHost(p)
    BY <2>2, HostStep DEF LookupBaseHost
  <2>3. CASE PlanOperation(p)
    BY <2>3, PlanStep DEF PlanOperation
  <2>4. CASE ValidateResolution(p)
    BY <2>4, ValidateStep DEF ValidateResolution
  <2>5. CASE EndRequest(p)
    BY <2>5, RefuseStep DEF EndRequest
  <2>6. CASE LookupSnapshot(p)
    BY <2>6, SnapshotStep DEF LookupSnapshot
  <2>7. CASE ReadCache(p)
    BY <2>7, ReadStep DEF ReadCache
  <2>8. CASE CheckHit(p)
    BY <2>8, HitStep DEF CheckHit
  <2>9. CASE JoinLoad(p)
    BY <2>9, JoinStep DEF JoinLoad
  <2>10. CASE StartLoad(p)
    BY <2>10, StartStep
  <2>11. CASE CheckLoaded(p)
    BY <2>11, LoadedStep DEF CheckLoaded
  <2>12. CASE Retry(p)
    BY <2>12, RetryStep DEF Retry
  <2> QED BY <2>1, <2>2, <2>3, <2>4, <2>5, <2>6, <2>7, <2>8, <2>9, <2>10, <2>11, <2>12
          DEF RequestStep
<1>2. ViewInv /\ ViewInv' /\ ViewMoves
  BY DEF ResolutionInv, ViewInv, ViewMoves, viewState, FreshAt
<1>3. \A e \in Entities : CallInv(e)'
  BY <1>1, <1>2, CallFrame DEF ResolutionInv
<1>4. \A q \in Procs : RequestInv(q)'
  <2> SUFFICES ASSUME NEW q \in Procs, q # p
               PROVE  RequestInv(q)'
    BY <1>1
  <2>1. at[q] = "wait" => calls'[look[q].entity] # NoCall
    BY <1>1, LookedUp DEF ResolutionInv, RequestInv
  <2> QED BY <1>1, <1>2, <2>1, RequestFrame DEF ResolutionInv, OnlyRequest
<1> QED BY <1>1, <1>2, <1>3, <1>4 DEF ResolutionInv

(***************************************************************************)
(* The steps of a load.                                                    *)
(***************************************************************************)

\* What a result says stays true.
LEMMA TrueKept ==
  ASSUME ViewInv, ViewInv', ViewMoves, NEW e \in Entities, NEW result, TrueResult(e, result)
  PROVE  TrueResult(e, result)'
<1>1. /\ revision \in 0..newest /\ newest \in Nat /\ newest' \in Nat /\ revision' \in Nat
      /\ newest' >= newest /\ revision' >= revision
      /\ \A r \in 1..newest : log'[r] = log[r]
  BY DEF ViewInv, ViewMoves
<1>2. ASSUME result.kind = "entry"
      PROVE  result.revision \in 1..revision' /\ result.value = log'[result.revision].value[e]
  <2>1. result.revision \in 1..revision /\ result.value = log[result.revision].value[e]
    BY <1>2 DEF TrueResult
  <2>2. result.revision \in 1..newest /\ result.revision \in 1..revision'
    BY <1>1, <2>1
  <2> QED BY <1>1, <2>1, <2>2
<1>3. ASSUME result = NotFoundStatus
      PROVE  \E r \in 1..newest' : log'[r].value[e] = Absent
  <2>1. PICK r \in 1..newest : log[r].value[e] = Absent
    BY <1>3 DEF TrueResult, AbsentAt
  <2>2. r \in 1..newest'
    BY <1>1, <2>1
  <2> QED BY <1>1, <2>1, <2>2
<1> QED BY <1>2, <1>3 DEF TrueResult, AbsentAt

\* A call that moves on and leaves the requests alone.
LEMMA CallMoves ==
  ASSUME RequestTypeOK, ResolutionInv, ViewInv', ViewMoves, NEW e \in Entities,
         NEW call \in Call, calls[e] # NoCall, calls' = [calls EXCEPT ![e] = call],
         UNCHANGED <<at, stamp, look, got>>,
         call.revision = calls[e].revision, call.epoch = calls[e].epoch,
         call.phase = "done" <=> call.result # Pending,
         TrueResult(e, call.result)
  PROVE  RequestTypeOK' /\ ResolutionInv'
<1>1. call # NoCall
  BY CallAssumption
<1>2. RequestTypeOK' /\ calls'[e] = call /\ \A x \in Entities \ {e} : calls'[x] = calls[x]
  BY DEF RequestTypeOK
<1>3. CallInv(e)'
  <2>1. TakenWhileReady(calls[e]) /\ calls[e].revision \in Nat /\ calls[e].epoch \in Nat
    BY DEF ResolutionInv, CallInv, RequestTypeOK, Call
  <2>2. TakenWhileReady(calls[e])'
    BY <2>1, <1>2, TakenKept DEF TakenWhileReady, ResolutionInv
  <2>3. TrueResult(e, calls[e].result)'
    <3>1. TrueResult(e, call.result)'
      BY TrueKept DEF ResolutionInv
    <3> QED BY <1>2, <3>1 DEF TrueResult
  <2> QED BY <2>2, <2>3, <1>1, <1>2 DEF CallInv
<1>4. \A x \in Entities : CallInv(x)'
  BY <1>2, <1>3, CallFrame DEF ResolutionInv
<1>5. \A q \in Procs : RequestInv(q)'
  <2> SUFFICES ASSUME NEW q \in Procs
               PROVE  RequestInv(q)'
    OBVIOUS
  <2>1. at[q] = "wait" => calls'[look[q].entity] # NoCall
    BY <1>1, <1>2, LookedUp DEF ResolutionInv, RequestInv
  <2> QED BY <2>1, RequestFrame DEF ResolutionInv
<1> QED BY <1>2, <1>4, <1>5 DEF ResolutionInv

LEMMA UnmovedView ==
  ASSUME ViewInv, UNCHANGED viewState
  PROVE  ViewInv' /\ ViewMoves
BY DEF ViewInv, ViewMoves, viewState, FreshAt

LEMMA AnsweredStep ==
  ASSUME RequestTypeOK, ResolutionInv, NEW e \in Entities, LoadAnswered(e)
  PROVE  RequestTypeOK' /\ ResolutionInv'
<1> DEFINE call == [calls[e] EXCEPT !.phase = "checked"]
<1>1. calls[e] \in Call /\ calls[e].phase = "rpc"
  BY DEF LoadAnswered, RequestTypeOK
<1>2. /\ call \in Call /\ call.phase = "checked" /\ call.revision = calls[e].revision
      /\ call.epoch = calls[e].epoch /\ call.result = calls[e].result
  BY <1>1 DEF Call
<1>3. /\ calls' = [calls EXCEPT ![e] = call] /\ UNCHANGED <<at, stamp, look, got>>
      /\ UNCHANGED viewState /\ calls[e] # NoCall
  BY DEF LoadAnswered
<1>4. CallInv(e)
  BY DEF ResolutionInv
<1> HIDE DEF call
<1>5. call.result = Pending
  BY <1>1, <1>2, <1>3, <1>4 DEF CallInv
<1>6. ViewInv' /\ ViewMoves
  BY <1>3, UnmovedView DEF ResolutionInv
<1>7. TrueResult(e, call.result)
  BY <1>5, Constants DEF TrueResult
<1> QED BY <1>2, <1>3, <1>5, <1>6, <1>7, CallMoves

\* A call that ends with a result that is not Pending and is true.
LEMMA FinishStep ==
  ASSUME RequestTypeOK, ResolutionInv, ViewInv', ViewMoves, NEW e \in Entities, calls[e] # NoCall,
         NEW result \in Results, result # Pending, Finish(e, result),
         UNCHANGED <<at, stamp, look, got>>,
         TrueResult(e, result)
  PROVE  RequestTypeOK' /\ ResolutionInv'
<1> DEFINE call == [calls[e] EXCEPT !.phase = "done", !.result = result]
<1>1. calls[e] \in Call
  BY DEF RequestTypeOK
<1>2. /\ call \in Call /\ call.phase = "done" /\ call.revision = calls[e].revision
      /\ call.epoch = calls[e].epoch /\ call.result = result
  BY <1>1 DEF Call
<1>3. calls' = [calls EXCEPT ![e] = call]
  BY DEF Finish
<1> HIDE DEF call
<1> QED BY <1>2, <1>3, CallMoves

LEMMA OvertakenStep ==
  ASSUME RequestTypeOK, ResolutionInv, NEW e \in Entities, LoadOvertaken(e)
  PROVE  RequestTypeOK' /\ ResolutionInv'
<1>1. PICK resp \in Int : CheckUnaryRevision(resp)
  BY DEF LoadOvertaken, ResolutionInv, ViewInv, RequestTypeOK, Call
<1>2. /\ UNCHANGED <<log, revision, baseHosts, cache>>
      /\ \/ ready /\ ~ready' /\ ready' \in BOOLEAN /\ epoch' = epoch + 1
         \/ UNCHANGED <<ready, epoch>>
  BY <1>1, Zenon DEF CheckUnaryRevision
<1>3. ViewInv' /\ ViewMoves
  BY <1>2 DEF ResolutionInv, ViewInv, ViewMoves, FreshAt
<1>4. Race \in Results
  BY DEF Results
<1> QED BY <1>3, <1>4, FinishStep, Constants DEF LoadOvertaken, TrueResult

LEMMA FailsStep ==
  ASSUME RequestTypeOK, ResolutionInv, NEW e \in Entities, LoadFails(e)
  PROVE  RequestTypeOK' /\ ResolutionInv'
<1>1. ViewInv' /\ ViewMoves
  BY UnmovedView DEF ResolutionInv, LoadFails
<1>2. Failure \in Results
  BY DEF Results
<1> QED BY <1>1, <1>2, FinishStep, Constants DEF LoadFails, TrueResult

LEMMA NotFoundLoadStep ==
  ASSUME RequestTypeOK, ResolutionInv, NEW e \in Entities, LoadNotFound(e)
  PROVE  RequestTypeOK' /\ ResolutionInv'
<1>1. ViewInv' /\ ViewMoves
  BY UnmovedView DEF ResolutionInv, LoadNotFound
<1>2. NotFoundStatus \in Results
  BY DEF Results
<1>3. TrueResult(e, NotFoundStatus)
  <2>1. calls[e] # NoCall /\ CallInv(e)
    BY DEF LoadNotFound, ResolutionInv
  <2>2. calls[e].revision \in 1..revision
    BY <2>1 DEF CallInv, TakenWhileReady
  <2>3. newest \in Nat /\ revision \in 0..newest
    BY DEF ResolutionInv, ViewInv
  <2>4. PICK r \in calls[e].revision..newest : log[r].value[e] = Absent
    BY DEF LoadNotFound
  <2>5. r \in 1..newest
    BY <2>2, <2>3, <2>4
  <2> QED BY <2>4, <2>5, Constants DEF TrueResult, AbsentAt
<1> QED BY <1>1, <1>2, <1>3, FinishStep, Constants DEF LoadNotFound

LEMMA CommittedStep ==
  ASSUME RequestTypeOK, ResolutionInv, NEW e \in Entities, LoadCommitted(e)
  PROVE  RequestTypeOK' /\ ResolutionInv'
<1> DEFINE rev == calls[e].revision
           ep == calls[e].epoch
           candidate == [value |-> log[rev].value[e], revision |-> rev]
           result == IF LoadCached(e, rev, ep) THEN Entry(cache[e])
                     ELSE IF LoadStores(e, rev, ep) THEN Entry(candidate) ELSE Race
<1>1. /\ calls[e] # NoCall /\ CommitLoad(e, candidate, ep) /\ Finish(e, result)
      /\ UNCHANGED <<at, stamp, look, got>>
  BY DEF LoadCommitted
<1>2. rev \in 1..revision /\ rev \in Nat /\ ViewInv /\ rev \in 1..newest
  <2>1. ViewInv /\ CallInv(e)
    BY DEF ResolutionInv
  <2>2. TakenWhileReady(calls[e])
    BY <1>1, <2>1 DEF CallInv
  <2>3. rev \in 1..revision
    BY <2>2 DEF TakenWhileReady
  <2>4. revision \in 0..newest /\ newest \in Nat
    BY <2>1 DEF ViewInv
  <2> QED BY <2>1, <2>3, <2>4
<1>3. candidate \in CacheEntry /\ candidate.revision = rev /\ candidate.value = log[rev].value[e]
  BY <1>2, LogValue DEF CacheEntry
<1> HIDE DEF candidate
<1>4. ViewInv' /\ ViewMoves
  <2>1. UNCHANGED <<log, ready, revision, epoch, baseHosts>>
    BY <1>1 DEF CommitLoad
  <2>2. CASE LoadStores(e, rev, ep)
    <3>1. PICK kept \in SUBSET Entities :
            cache' = [x \in Entities |->
                        IF x = e THEN candidate ELSE IF x \in kept THEN cache[x] ELSE NoEntry]
      BY <1>1, <1>3, <2>2 DEF CommitLoad
    <3>2. cache' \in [Entities -> CacheEntry \cup {NoEntry}]
      BY <3>1, <1>2, <1>3 DEF ViewInv
    <3>3. rev = revision
      BY <2>2 DEF LoadStores
    <3>4. \A x \in Entities : FreshAt(revision, x, cache[x])'
      BY <3>1, <3>3, <2>1, <1>2, <1>3 DEF FreshAt, ViewInv
    <3> QED BY <3>2, <3>4, <2>1, <1>2 DEF ViewInv, ViewMoves
  <2>3. CASE ~LoadStores(e, rev, ep)
    <3>1. UNCHANGED cache
      BY <1>1, <1>3, <2>3 DEF CommitLoad
    <3> QED BY <3>1, <2>1, <1>2, UnmovedView DEF viewState
  <2> QED BY <2>2, <2>3
<1>5. result \in Results /\ result # Pending /\ TrueResult(e, result)
  <2>1. CASE LoadCached(e, rev, ep)
    <3>1. /\ cache[e] \in CacheEntry /\ cache[e].revision = revision
          /\ cache[e].value = log[revision].value[e] /\ revision \in 1..revision
      BY <2>1, <1>2 DEF LoadCached, ViewInv, FreshAt, CacheEntry
    <3> QED BY <2>1, <3>1, Constants DEF TrueResult
  <2>2. CASE ~LoadCached(e, rev, ep) /\ LoadStores(e, rev, ep)
    BY <2>2, <1>2, <1>3, Constants DEF TrueResult
  <2>3. CASE ~LoadCached(e, rev, ep) /\ ~LoadStores(e, rev, ep)
    BY <2>3, Constants DEF Results, TrueResult
  <2> QED BY <2>1, <2>2, <2>3
<1> HIDE DEF result
<1> QED BY <1>1, <1>4, <1>5, FinishStep

LEMMA PublishedStep ==
  ASSUME RequestTypeOK, ResolutionInv, NEW e \in Entities, LoadPublished(e)
  PROVE  RequestTypeOK' /\ ResolutionInv'
<1> DEFINE waiters == {p \in Procs : at[p] = "wait" /\ look[p].entity = e}
<1>1. /\ calls[e] # NoCall /\ calls[e].phase = "done"
      /\ at' = [p \in Procs |-> IF p \in waiters THEN "loaded" ELSE at[p]]
      /\ look' = [p \in Procs |->
                   IF p \in waiters THEN [look[p] EXCEPT !.result = calls[e].result] ELSE look[p]]
      /\ calls' = [calls EXCEPT ![e] = NoCall]
      /\ UNCHANGED <<viewState, stamp, got>>
  BY DEF LoadPublished
<1>2. calls[e] \in Call /\ CallInv(e) /\ ViewInv /\ ViewInv' /\ ViewMoves
  BY <1>1, UnmovedView DEF RequestTypeOK, ResolutionInv
<1>3. \A p \in Procs :
        LET l == [look[p] EXCEPT !.result = calls[e].result]
        IN  /\ l \in Lookup /\ l.entity = look[p].entity /\ l.revision = look[p].revision
            /\ l.epoch = look[p].epoch /\ l.result = calls[e].result
  BY <1>2 DEF RequestTypeOK, Lookup, Call
<1>4. RequestTypeOK'
  <2>1. look' \in [Procs -> Lookup]
    BY <1>1, <1>3 DEF RequestTypeOK
  <2>2. at' \in [Procs -> RequestLocations]
    BY <1>1 DEF RequestTypeOK, RequestLocations
  <2> QED BY <1>1, <2>1, <2>2 DEF RequestTypeOK
<1>5. \A x \in Entities : CallInv(x)'
  <2>1. \A x \in Entities \ {e} : calls'[x] = calls[x]
    BY <1>1 DEF RequestTypeOK
  <2>2. CallInv(e)'
    BY <1>1 DEF CallInv, RequestTypeOK
  <2> QED BY <2>1, <2>2, <1>2, CallFrame DEF ResolutionInv
<1>6. ASSUME NEW p \in Procs
      PROVE  RequestInv(p)'
  <2>1. CASE p \in waiters
    <3>1. /\ at[p] = "wait" /\ at'[p] = "loaded" /\ look[p].entity = e
          /\ stamp'[p] = stamp[p] /\ got'[p] = got[p]
          /\ look'[p].entity = look[p].entity /\ look'[p].revision = look[p].revision
          /\ look'[p].epoch = look[p].epoch /\ look'[p].result = calls[e].result
      BY <1>1, <1>3, <2>1
    <3>2. calls[e].result # Pending /\ TrueResult(e, calls[e].result)
      BY <1>1, <1>2 DEF CallInv
    <3>3. look'[p].result # Pending /\ TrueResult(look[p].entity, look[p].result)'
      BY <1>1, <3>1, <3>2 DEF TrueResult, AbsentAt, viewState
    <3> QED BY <1>1, <3>1, <3>3 DEF RequestInv, TakenWhileReady, PastCredential, PastHost, InLookup,
           ReadAtStamp, ResolutionInv, viewState
  <2>2. CASE p \notin waiters
    <3>1. at'[p] = at[p] /\ stamp'[p] = stamp[p] /\ look'[p] = look[p] /\ got'[p] = got[p]
      BY <1>1, <2>2
    <3>2. at[p] = "wait" => calls'[look[p].entity] # NoCall
      BY <1>1, <2>2, LookedUp DEF ResolutionInv, RequestInv, RequestTypeOK
    <3> QED BY <3>1, <3>2, <1>2, RequestFrame DEF ResolutionInv
  <2> QED BY <2>1, <2>2
<1> QED BY <1>2, <1>4, <1>5, <1>6 DEF ResolutionInv

(***************************************************************************)
(* The theorems.                                                           *)
(***************************************************************************)

LEMMA InitEstablishes ==
  ResolutionInit => RequestTypeOK /\ ResolutionInv
<1> SUFFICES ASSUME ResolutionInit
             PROVE  RequestTypeOK /\ ResolutionInv
  OBVIOUS
<1>1. RequestTypeOK
  BY Constants DEF ResolutionInit, RequestTypeOK, RequestLocations
<1>2. log \in Seq(Version) /\ newest = 1
  <2>1. PICK v \in [Entities -> {1, Absent}], h \in SUBSET Hosts :
          log = <<[value |-> v, hosts |-> h, delta |-> NoDelta]>>
    BY DEF ResolutionInit, ViewInit, WorldInit
  <2>2. 1 \in Values
    BY WorldAssumption
  <2>3. [value |-> v, hosts |-> h, delta |-> NoDelta] \in Version
    BY <2>2 DEF Version, Deltas
  <2> QED BY <2>1, <2>3
<1>3. ready \in BOOLEAN /\ ~ready
  BY Zenon DEF ResolutionInit, ViewInit
<1>4. ViewInv
  BY SMTT(30), <1>2, <1>3 DEF ResolutionInit, ViewInit, ViewInv, FreshAt
<1>5. (\A p \in Procs : RequestInv(p)) /\ \A e \in Entities : CallInv(e)
  BY DEF ResolutionInit, RequestInv, CallInv
<1> QED BY <1>1, <1>4, <1>5 DEF ResolutionInv

LEMMA NextPreserves ==
  RequestTypeOK /\ ResolutionInv /\ [ResolutionNext]_resolutionState =>
    RequestTypeOK' /\ ResolutionInv'
<1> SUFFICES ASSUME RequestTypeOK, ResolutionInv, [ResolutionNext]_resolutionState
             PROVE  RequestTypeOK' /\ ResolutionInv'
  OBVIOUS
<1>1. ASSUME UNCHANGED requestState, ViewInv', ViewMoves
      PROVE  RequestTypeOK' /\ ResolutionInv'
  <2>1. RequestTypeOK'
    BY <1>1 DEF requestState, RequestTypeOK
  <2>2. \A p \in Procs : RequestInv(p)'
    BY <1>1, RequestFrame DEF requestState, ResolutionInv, RequestInv
  <2>3. \A e \in Entities : CallInv(e)'
    BY <1>1, CallFrame DEF requestState, ResolutionInv
  <2> QED BY <1>1, <2>1, <2>2, <2>3 DEF ResolutionInv
<1>2. CASE ViewStep
  BY <1>1, <1>2, ViewStepInv DEF ViewStep, ResolutionInv
<1>3. CASE \E p \in Procs : RequestStep(p) /\ UNCHANGED viewState
  BY <1>3, RequestSteps
<1>4. CASE \E e \in Entities : LoadStep(e)
  BY <1>4, AnsweredStep, OvertakenStep, NotFoundLoadStep, FailsStep, CommittedStep, PublishedStep
  DEF LoadStep
<1>5. CASE UNCHANGED resolutionState
  BY <1>1, <1>5, UnmovedView DEF resolutionState, ResolutionInv
<1> QED BY <1>2, <1>3, <1>4, <1>5 DEF ResolutionNext

\* Everything a request, a load and the view remember is consistent, in every
\* reachable state (lookup.go, s3_middleware.go S3Auth).
THEOREM ResolutionInvariant == ResolutionSpec => [](RequestTypeOK /\ ResolutionInv)
BY InitEstablishes, NextPreserves, PTL DEF ResolutionSpec

\* A dispatched request acts on the credential, the base domains and the
\* mapping of one revision (S3Auth).
THEOREM OneRevision == ResolutionSpec => []DispatchedAtOneRevision
<1>1. ResolutionInv => DispatchedAtOneRevision
  BY DEF ResolutionInv, DispatchedAtOneRevision, RequestInv
<1> QED BY <1>1, ResolutionInvariant, PTL

\* While the epoch of a stamp is current the client is ready (BeginResolution,
\* transitionLocked).
THEOREM StampSound == ResolutionSpec => []StampCurrentMeansReady
<1>1. ResolutionInv => StampCurrentMeansReady
  BY DEF ResolutionInv, StampCurrentMeansReady, RequestInv, TakenWhileReady
<1> QED BY <1>1, ResolutionInvariant, PTL

\* A load hands its waiters the value at the revision it names (the last
\* critical sections of loadCredentials and loadVBucket).
THEOREM LoadsTrue == ResolutionSpec => []LoadedResultsTrue
<1>1. ResolutionInv => LoadedResultsTrue
  BY DEF ResolutionInv, LoadedResultsTrue, CallInv, TrueResult
<1> QED BY <1>1, ResolutionInvariant, PTL

\* Nobody waits for a load that is gone (loadGroup.Do).
THEOREM NoLostWaiter == ResolutionSpec => []WaitersHaveALoad
<1>1. ResolutionInv => WaitersHaveALoad
  BY DEF ResolutionInv, WaitersHaveALoad, RequestInv
<1> QED BY <1>1, ResolutionInvariant, PTL

LEMMA NotFoundStep ==
  RequestTypeOK /\ ResolutionInv /\ [ResolutionNext]_resolutionState =>
    [\A p \in Procs : ToldNotFound(p) =>
        IF look[p].result = NotFoundStatus
        THEN \E r \in 1..newest : AbsentAt(look[p].entity, r)
        ELSE ready /\ AbsentAt(look[p].entity, revision)]_resolutionState
<1> SUFFICES ASSUME RequestTypeOK, ResolutionInv, ResolutionNext, NEW p \in Procs,
                    at[p] # "notFound", at'[p] = "notFound"
             PROVE  IF look[p].result = NotFoundStatus
                    THEN \E r \in 1..newest : AbsentAt(look[p].entity, r)
                    ELSE ready /\ AbsentAt(look[p].entity, revision)
  BY DEF ToldNotFound
<1>1. \E q \in Procs : RequestStep(q) /\ UNCHANGED viewState
  <2>1. ~ViewStep
    BY DEF ViewStep, requestState
  <2>2. \A e \in Entities : ~LoadStep(e)
    BY DEF LoadStep, LoadAnswered, LoadOvertaken, LoadNotFound, LoadFails, LoadCommitted, LoadPublished
  <2> QED BY <2>1, <2>2 DEF ResolutionNext
<1>2. PICK q \in Procs : RequestStep(q) /\ UNCHANGED viewState
  BY <1>1
<1>3. CheckHit(q) \/ CheckLoaded(q)
  BY <1>2 DEF RequestStep, RequestTypeOK, BeginResolution, StartLookup, LookupBaseHost, PlanOperation,
     ValidateResolution, EndRequest, LookupSnapshot, ReadCache, JoinLoad, StartLoad, Retry, Refuse, Goto
<1>4. q = p
  BY <1>3 DEF CheckHit, CheckLoaded, Return, Refuse, Goto, RequestTypeOK
<1>5. CASE CheckHit(q)
  <2>1. StillCurrent(look[p].revision, look[p].epoch) /\ Return(p, look[p].result.value) /\ at[p] = "hit"
    BY <1>4, <1>5 DEF CheckHit, Goto, RequestTypeOK
  <2>2. look[p].result.value = Absent
    BY <2>1 DEF Return, Goto, RequestTypeOK
  <2>3. look[p].result # NotFoundStatus
    BY <2>1, Constants DEF ResolutionInv, RequestInv
  <2> QED BY <2>1, <2>2, <2>3 DEF StillCurrent, ResolutionInv, RequestInv, AbsentAt
<1>6. CASE CheckLoaded(q)
  <2>1. /\ at[p] = "loaded"
        /\ \/ /\ look[p].result.kind = "entry" /\ StillCurrent(look[p].result.revision, look[p].epoch)
              /\ Return(p, look[p].result.value)
           \/ look[p].result = NotFoundStatus
    BY <1>4, <1>6 DEF CheckLoaded, Goto, Refuse, RequestTypeOK
  <2>2. TrueResult(look[p].entity, look[p].result)
    BY <2>1 DEF ResolutionInv, RequestInv
  <2>3. CASE look[p].result = NotFoundStatus
    BY <2>2, <2>3 DEF TrueResult
  <2>4. CASE look[p].result # NotFoundStatus
    <3>1. look[p].result.value = Absent
      BY <2>1, <2>4 DEF Return, Goto, RequestTypeOK
    <3> QED BY <2>1, <2>2, <2>4, <3>1 DEF StillCurrent, TrueResult, AbsentAt
  <2> QED BY <2>3, <2>4
<1> QED BY <1>3, <1>5, <1>6

\* "No such key" and "no such bucket" are answers about the accepted revision,
\* given while Ready, unless they are the status NotFound of a call, which was
\* true at some revision (lookupCredentials, lookupVBucket, mapResolverError).
THEOREM NotFoundSound == ResolutionSpec => NotFoundIsTrue
BY ResolutionInvariant, NotFoundStep, PTL DEF ResolutionSpec, NotFoundIsTrue

(***************************************************************************)
(* Resolution implements AtomicAuthorization.                              *)
(***************************************************************************)

LEMMA SameCardinality == \A S : Cardinality(S) = Atomic!Cardinality(S)
BY Zenon DEF Cardinality, Atomic!Cardinality, IsFiniteSet, Atomic!IsFiniteSet

LEMMA SameWorld == ChangeWorld => Atomic!ChangeWorld
<1>0. \A version : Publish(version) = Atomic!Publish(version)
  BY DEF Publish, Atomic!Publish, Atomic!newest
<1>1. \A e : PutEntity(e) = Atomic!PutEntity(e)
  BY <1>0 DEF PutEntity, Atomic!PutEntity, Atomic!newest
<1>2. \A e : RemoveEntity(e) = Atomic!RemoveEntity(e)
  BY <1>0 DEF RemoveEntity, Atomic!RemoveEntity, Atomic!newest
<1>3. \A h : PutHost(h) = Atomic!PutHost(h)
  BY <1>0, SameCardinality DEF PutHost, Atomic!PutHost, Atomic!newest
<1>4. \A h : RemoveHost(h) = Atomic!RemoveHost(h)
  BY <1>0 DEF RemoveHost, Atomic!RemoveHost, Atomic!newest
<1> QED BY <1>1, <1>2, <1>3, <1>4 DEF ChangeWorld, Atomic!ChangeWorld

\* The grants of the requests change only as those of one request do.
LEMMA GrantedOne ==
  ASSUME NEW p \in Procs, OnlyRequest(p)
  PROVE  [q \in Procs |-> Granted(q)]' =
           [[q \in Procs |-> Granted(q)] EXCEPT ![p] = Granted(p)']
BY DEF OnlyRequest, Granted

LEMMA AtomicRequestStep ==
  ASSUME RequestTypeOK, ResolutionInv, NEW p \in Procs, RequestStep(p), UNCHANGED viewState
  PROVE  \/ UNCHANGED <<log, ready, revision, [q \in Procs |-> Granted(q)]>>
         \/ Atomic!Grant(p) \/ Atomic!Release(p)
<1> DEFINE granted == [q \in Procs |-> Granted(q)]
<1>0. UNCHANGED <<log, ready, revision>>
  BY DEF viewState
<1>1. CASE ValidateResolution(p) /\ StillCurrent(stamp[p].revision, stamp[p].epoch)
  <2>1. at' = [at EXCEPT ![p] = "dispatched"] /\ UNCHANGED <<stamp, got>> /\ at[p] = "validate"
    BY <1>1 DEF ValidateResolution, Goto
  <2>2. OnlyRequest(p)
    BY <1>1, ValidateStep
  <2>3. Granted(p) = NoCall
    BY <2>1 DEF Granted
  <2>4. /\ ready /\ revision = stamp[p].revision
        /\ got[p].creds # Absent /\ got[p].creds = log[revision].value[Credential]
        /\ got[p].hosts = log[revision].hosts
        /\ got[p].mapping \in {Absent, log[revision].value[Mapping]}
    BY <1>1, <2>1 DEF StillCurrent, ResolutionInv, RequestInv, ReadAtStamp, PastCredential, PastHost
  <2>5. Granted(p)' = [revision |-> revision, creds |-> log[revision].value[Credential],
                       hosts |-> log[revision].hosts, mapping |-> got[p].mapping]
    BY <2>1, <2>4 DEF Granted, RequestTypeOK
  <2>6. granted' = [granted EXCEPT ![p] = Granted(p)']
    BY <2>2, GrantedOne
  <2>7. granted[p] = NoCall
    BY <2>3
  <2>8. Atomic!Grant(p)
    BY <1>0, <2>4, <2>5, <2>6, <2>7 DEF Atomic!Grant
  <2> QED BY <2>8
<1>2. CASE Refuse(p) /\ UNCHANGED calls
  <2>1. OnlyRequest(p) /\ at'[p] = "idle"
    BY <1>2, RefuseStep DEF Refuse, Goto, RequestTypeOK
  <2>2. Granted(p)' = NoCall
    BY <2>1 DEF Granted
  <2>3. granted' = [granted EXCEPT ![p] = NoCall]
    BY <2>1, <2>2, GrantedOne
  <2> QED BY <1>0, <2>3 DEF Atomic!Release
<1>3. CASE ~(Refuse(p) /\ UNCHANGED calls) /\ ~(ValidateResolution(p) /\ StillCurrent(stamp[p].revision, stamp[p].epoch))
  <2>1. OnlyRequest(p)
    BY <1>3, BeginStep, HostStep, PlanStep, SnapshotStep, ReadStep, HitStep, JoinStep, StartStep,
       LoadedStep, RetryStep, ValidateStep DEF RequestStep, EndRequest
  <2>2. at[p] # "dispatched" /\ at'[p] # "dispatched"
    BY <1>3 DEF RequestStep, RequestTypeOK, BeginResolution, StartLookup, LookupBaseHost, PlanOperation,
       ValidateResolution, EndRequest, LookupSnapshot, ReadCache, JoinLoad, StartLoad, Retry, Goto,
       CheckHit, CheckLoaded, Return
  <2>3. Granted(p)' = NoCall /\ Granted(p) = NoCall
    BY <2>2 DEF Granted
  <2>4. granted' = granted
    BY <2>1, <2>3, GrantedOne
  <2> QED BY <1>0, <2>4
<1> QED BY <1>1, <1>2, <1>3

LEMMA AtomicLoadStep ==
  ASSUME RequestTypeOK, ResolutionInv, NEW e \in Entities, LoadStep(e)
  PROVE  Atomic!Follow
<1>1. [q \in Procs |-> Granted(q)]' = [q \in Procs |-> Granted(q)]
  <2>1. CASE LoadPublished(e)
    <3> SUFFICES ASSUME NEW q \in Procs
                 PROVE  Granted(q)' = Granted(q)
      OBVIOUS
    <3>1. /\ at'[q] = at[q] \/ (at[q] = "wait" /\ at'[q] = "loaded")
          /\ stamp'[q] = stamp[q] /\ got'[q] = got[q]
      BY <2>1 DEF LoadPublished
    <3> QED BY <3>1 DEF Granted
  <2>2. CASE UNCHANGED <<at, stamp, look, got>>
    BY <2>2 DEF Granted
  <2> QED BY <2>1, <2>2 DEF LoadStep, LoadAnswered, LoadOvertaken, LoadNotFound, LoadFails, LoadCommitted
<1>2. UNCHANGED <<log, revision>>
  BY DEF LoadStep, LoadAnswered, LoadOvertaken, LoadNotFound, LoadFails, LoadCommitted, LoadPublished, CommitLoad,
     CheckUnaryRevision, viewState
<1>3. ready' \in BOOLEAN
  <2>1. ResolutionInv'
    BY AnsweredStep, OvertakenStep, NotFoundLoadStep, FailsStep, CommittedStep, PublishedStep
  DEF LoadStep
  <2> QED BY <2>1 DEF ResolutionInv, ViewInv
<1>4. revision \in revision..Len(log)
  BY DEF ResolutionInv, ViewInv
<1> QED BY <1>1, <1>2, <1>3, <1>4 DEF Atomic!Follow, Atomic!newest

LEMMA AtomicStep ==
  RequestTypeOK /\ ResolutionInv /\ [ResolutionNext]_resolutionState =>
    [Atomic!AtomicNext]_(Atomic!atomicState)
<1> SUFFICES ASSUME RequestTypeOK, ResolutionInv, [ResolutionNext]_resolutionState
             PROVE  [Atomic!AtomicNext]_(Atomic!atomicState)
  OBVIOUS
<1> DEFINE granted == [p \in Procs |-> Granted(p)]
<1>1. ASSUME UNCHANGED <<at, stamp, got>>
      PROVE  granted' = granted
  BY <1>1 DEF Granted
<1>2. CASE ViewStep
  <2>1. granted' = granted
    BY <1>1, <1>2 DEF ViewStep, requestState
  <2>2. CASE Change
    BY <2>1, <2>2, SameWorld DEF Change, Atomic!AtomicNext, Atomic!ChangeOutside
  <2>3. CASE Lapse \/ Resync \/ Advance \/ Expire
    <3>1. ViewInv' /\ ViewMoves
      BY <2>3, ViewStepInv DEF ResolutionInv
    <3>2. UNCHANGED log
      BY <2>3 DEF Lapse, Resync, Advance, Expire
    <3>3. ready' \in BOOLEAN /\ revision' \in revision..Len(log)
      BY <3>1, <3>2 DEF ResolutionInv, ViewInv, ViewMoves
    <3> QED BY <3>2, <3>3, <2>1 DEF Atomic!AtomicNext, Atomic!Follow, Atomic!newest
  <2> QED BY <1>2, <2>2, <2>3 DEF ViewStep
<1>3. CASE \E p \in Procs : RequestStep(p) /\ UNCHANGED viewState
  BY <1>3, AtomicRequestStep DEF Atomic!AtomicNext, Atomic!atomicState
<1>4. CASE \E e \in Entities : LoadStep(e)
  BY <1>4, AtomicLoadStep DEF Atomic!AtomicNext
<1>5. CASE UNCHANGED resolutionState
  BY <1>1, <1>5 DEF resolutionState, requestState, viewState, Atomic!atomicState
<1> QED BY <1>2, <1>3, <1>4, <1>5 DEF ResolutionNext

\* Resolving a request in many interleaved steps implements granting it in one
\* (S3Auth between BeginResolution and ValidateResolution).
THEOREM ResolutionIsAtomic == ResolutionSpec => AuthorizationIsAtomic
<1>1. ResolutionInit => Atomic!AtomicInit
  <2> SUFFICES ASSUME ResolutionInit
               PROVE  Atomic!AtomicInit
    OBVIOUS
  <2>1. Atomic!WorldInit
    BY SameCardinality DEF ResolutionInit, ViewInit, WorldInit, NoDelta, Atomic!WorldInit, Atomic!NoDelta
  <2>2. [p \in Procs |-> Granted(p)] = [p \in Procs |-> NoCall]
    BY DEF ResolutionInit, Granted
  <2> QED BY <2>1, <2>2 DEF ResolutionInit, ViewInit, Atomic!AtomicInit
<1> QED BY <1>1, AtomicStep, ResolutionInvariant, PTL
        DEF ResolutionSpec, AuthorizationIsAtomic, Atomic!AtomicSpec

=============================================================================
