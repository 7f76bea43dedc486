----------------------------- MODULE Resolution -----------------------------
(***************************************************************************)
(* Requests that resolve their credentials, their base domain and their     *)
(* mapping (http_server/s3_middleware.go S3Auth, controlplane/lookup.go)    *)
(* while the view of module View changes under them.                        *)
(*                                                                          *)
(* A step of a request is one critical section of syncMu, of a cache or of  *)
(* a loadGroup.  A cold lookup is loaded by a goroutine of its own, shared  *)
(* by every request for the same key and not cancelled with the request     *)
(* that started it.  Signature, request grammar and policy are evaluated    *)
(* between these steps from what was read; they can refuse the request,     *)
(* and so can the cancellation of its context.                              *)
(***************************************************************************)
EXTENDS View

CONSTANTS
  Procs,       \* request goroutines
  Credential,  \* the cache key of the access key the requests use
  Mapping,     \* the cache key of the mapping they use
  NoCall       \* no call for this key in the loadGroup

ASSUME ResolutionAssumption ==
  Credential \in Entities /\ Mapping \in Entities /\ Credential # Mapping

Pending == [kind |-> "none"]
Race == [kind |-> "race"]
Failure == [kind |-> "error"]
NotFoundStatus == [kind |-> "notFound"]
Entry(entry) == [kind |-> "entry", value |-> entry.value, revision |-> entry.revision]

Results ==
  {Pending, Race, Failure, NotFoundStatus}
    \cup [kind: {"entry"}, value: Values \cup {Absent}, revision: Nat]

Call == [phase: {"rpc", "checked", "done"}, revision: Nat, epoch: Nat, result: Results]

ASSUME CallAssumption == NoCall \notin Call

VARIABLES
  at,      \* where each request is
  stamp,   \* its ResolutionStamp
  look,    \* the lookup it is in: key, retries left, the snapshot it took, its result
  got,     \* what it has resolved
  calls    \* loadGroup.calls of the credential loads and of the mapping loads

requestState == <<at, stamp, look, got, calls>>
resolutionState == <<viewState, requestState>>

RequestLocations ==
  {"idle", "lookup", "read", "hit", "miss", "wait", "loaded", "again", "host",
   "plan", "validate", "dispatched", "notFound"}

NoStamp == [revision |-> 0, epoch |-> 0]
NoLookup == [entity |-> Credential, retry |-> FALSE, revision |-> 0, epoch |-> 0,
             result |-> Pending]
Nothing == [creds |-> Absent, hosts |-> {}, mapping |-> Absent]

Stamp == [revision: Nat, epoch: Nat]
Lookup ==
  [entity: {Credential, Mapping}, retry: BOOLEAN, revision: Nat, epoch: Nat, result: Results]
Resolved ==
  [creds: Values \cup {Absent}, hosts: SUBSET Hosts, mapping: Values \cup {Absent}]

RequestTypeOK ==
  /\ at \in [Procs -> RequestLocations]
  /\ stamp \in [Procs -> Stamp]
  /\ look \in [Procs -> Lookup]
  /\ got \in [Procs -> Resolved]
  /\ calls \in [Entities -> Call \cup {NoCall}]

ResolutionInit ==
  /\ ViewInit
  /\ at = [p \in Procs |-> "idle"]
  /\ stamp = [p \in Procs |-> NoStamp]
  /\ look = [p \in Procs |-> NoLookup]
  /\ got = [p \in Procs |-> Nothing]
  /\ calls = [e \in Entities |-> NoCall]

StillCurrent(rev, ep) == ready /\ revision = rev /\ epoch = ep

Goto(p, location) == at' = [at EXCEPT ![p] = location]

\* The request ends without having been dispatched.
Refuse(p) ==
  /\ Goto(p, "idle")
  /\ stamp' = [stamp EXCEPT ![p] = NoStamp]
  /\ look' = [look EXCEPT ![p] = NoLookup]
  /\ got' = [got EXCEPT ![p] = Nothing]

StartLookup(p, e) ==
  /\ Goto(p, "lookup")
  /\ look' = [look EXCEPT ![p] = [NoLookup EXCEPT !.entity = e, !.retry = TRUE]]

(***************************************************************************)
(* The request, outside its lookups.                                       *)
(***************************************************************************)

\* BeginResolution, which a client that is not Ready refuses.
BeginResolution(p) ==
  /\ at[p] = "idle"
  /\ ready
  /\ stamp' = [stamp EXCEPT ![p] = [revision |-> revision, epoch |-> epoch]]
  /\ StartLookup(p, Credential)
  /\ UNCHANGED <<got, calls>>

\* The lookup of e returns value: the request goes on with it, or ends when
\* the control plane has no such credential or mapping.
Return(p, value) ==
  /\ look' = [look EXCEPT ![p] = [NoLookup EXCEPT !.entity = look[p].entity]]
  /\ IF value = Absent
     THEN Goto(p, "notFound") /\ UNCHANGED got
     ELSE IF look[p].entity = Credential
     THEN Goto(p, "host") /\ got' = [got EXCEPT ![p] = [@ EXCEPT !.creds = value]]
     ELSE Goto(p, "validate") /\ got' = [got EXCEPT ![p] = [@ EXCEPT !.mapping = value]]
  /\ UNCHANGED stamp

\* LookupBaseHost: the registry is read under the lock, only while Ready.
LookupBaseHost(p) ==
  /\ at[p] = "host"
  /\ IF ready
     THEN /\ Goto(p, "plan")
          /\ got' = [got EXCEPT ![p] = [@ EXCEPT !.hosts = baseHosts]]
          /\ UNCHANGED <<stamp, look>>
     ELSE Refuse(p)
  /\ UNCHANGED calls

\* The planned operation needs a mapping, or is a list or create of buckets.
PlanOperation(p) ==
  /\ at[p] = "plan"
  /\ \/ StartLookup(p, Mapping)
     \/ Goto(p, "validate") /\ UNCHANGED look
  /\ UNCHANGED <<stamp, got, calls>>

\* Mutant: only the epoch of the stamp is compared.
ValidateEpochOnly(p) ==
  /\ at[p] = "validate"
  /\ IF ready /\ epoch = stamp[p].epoch
     THEN Goto(p, "dispatched") /\ UNCHANGED <<stamp, look, got>>
     ELSE Refuse(p)
  /\ UNCHANGED calls

\* ValidateResolution and the dispatch that follows it.
ValidateResolution(p) ==
  /\ at[p] = "validate"
  /\ IF StillCurrent(stamp[p].revision, stamp[p].epoch)
     THEN Goto(p, "dispatched") /\ UNCHANGED <<stamp, look, got>>
     ELSE Refuse(p)
  /\ UNCHANGED calls

\* A request is answered, is refused by what it read, or loses its context; a
\* load it started goes on.
EndRequest(p) ==
  /\ at[p] # "idle"
  /\ Refuse(p)
  /\ UNCHANGED calls

(***************************************************************************)
(* lookupCredentials and lookupVBucket.                                    *)
(***************************************************************************)

\* lookupSnapshot.  A ready client is connected, so there is one to call.
LookupSnapshot(p) ==
  /\ at[p] = "lookup"
  /\ IF ready
     THEN /\ Goto(p, "read")
          /\ look' = [look EXCEPT ![p] = [@ EXCEPT !.revision = revision, !.epoch = epoch]]
          /\ UNCHANGED <<stamp, got>>
     ELSE Refuse(p)
  /\ UNCHANGED calls

\* The cache is read without syncMu: by now the view may have moved on.
ReadCache(p) ==
  /\ at[p] = "read"
  /\ LET entry == cache[look[p].entity]
     IN  IF entry # NoEntry /\ entry.revision <= look[p].revision
         THEN /\ Goto(p, "hit")
              /\ look' = [look EXCEPT ![p] = [@ EXCEPT !.result = Entry(entry)]]
         ELSE Goto(p, "miss") /\ UNCHANGED look
  /\ UNCHANGED <<stamp, got, calls>>

\* Mutant: only the epoch of the snapshot is compared.
CheckHitEpochOnly(p) ==
  /\ at[p] = "hit"
  /\ IF ready /\ epoch = look[p].epoch
     THEN Return(p, look[p].result.value)
     ELSE Goto(p, "again") /\ UNCHANGED <<stamp, look, got>>
  /\ UNCHANGED calls

\* A cached value is returned only if the snapshot is still current.
CheckHit(p) ==
  /\ at[p] = "hit"
  /\ IF StillCurrent(look[p].revision, look[p].epoch)
     THEN Return(p, look[p].result.value)
     ELSE Goto(p, "again") /\ UNCHANGED <<stamp, look, got>>
  /\ UNCHANGED calls

\* loadGroup.Do joins the call for this key.
JoinLoad(p) ==
  /\ at[p] = "miss"
  /\ calls[look[p].entity] # NoCall
  /\ Goto(p, "wait")
  /\ UNCHANGED <<stamp, look, got, calls>>

\* loadGroup.Do starts a call, which keeps the snapshot of this request, or
\* missAdmission rejects the miss.
StartLoad(p) ==
  /\ at[p] = "miss"
  /\ calls[look[p].entity] = NoCall
  /\ \/ /\ Goto(p, "wait")
        /\ calls' = [calls EXCEPT ![look[p].entity] =
                       [phase |-> "rpc", revision |-> look[p].revision,
                        epoch |-> look[p].epoch, result |-> Pending]]
        /\ UNCHANGED <<stamp, look, got>>
     \/ Refuse(p) /\ UNCHANGED calls

\* Mutant: what a load returns is used as it is.
CheckLoadedUnchecked(p) ==
  /\ at[p] = "loaded"
  /\ LET result == look[p].result
     IN  \/ result.kind = "entry" /\ Return(p, result.value)
         \/ result = Race /\ Goto(p, "again") /\ UNCHANGED <<stamp, look, got>>
         \/ result = Failure /\ Refuse(p)
         \/ result = NotFoundStatus /\ Return(p, Absent)
  /\ UNCHANGED calls

\* The shared result is checked against the epoch of the request itself.  An
\* error is not: a race is tried again, and the status NotFound of the control
\* plane becomes ErrResolverNotFound whatever the view is by now.
CheckLoaded(p) ==
  /\ at[p] = "loaded"
  /\ LET result == look[p].result
     IN  \/ /\ result.kind = "entry"
            /\ IF StillCurrent(result.revision, look[p].epoch)
               THEN Return(p, result.value)
               ELSE Goto(p, "again") /\ UNCHANGED <<stamp, look, got>>
         \/ result = Race /\ Goto(p, "again") /\ UNCHANGED <<stamp, look, got>>
         \/ result = Failure /\ Refuse(p)
         \/ result = NotFoundStatus /\ Return(p, Absent)
  /\ UNCHANGED calls

\* A lookup that lost a race is tried once more if the client is Ready.
Retry(p) ==
  /\ at[p] = "again"
  /\ IF look[p].retry /\ ready
     THEN /\ Goto(p, "lookup")
          /\ look' = [look EXCEPT ![p] = [NoLookup EXCEPT !.entity = look[p].entity]]
          /\ UNCHANGED <<stamp, got>>
     ELSE Refuse(p)
  /\ UNCHANGED calls

(***************************************************************************)
(* The goroutine of a load.                                                *)
(***************************************************************************)
\* checkUnaryRevision on an answer that is ahead of the call: readiness lapses
\* unless the watch has delivered that revision in the meantime.
CheckUnaryRevision(resp) ==
  /\ IF ready /\ resp > revision
     THEN ready' = FALSE /\ epoch' = epoch + 1
     ELSE UNCHANGED <<ready, epoch>>
  /\ UNCHANGED <<log, revision, baseHosts, cache>>

\* What the last critical section of a loader does with its candidate, which
\* was read at rev by a call made in epoch ep.  An entry at the accepted
\* revision that is not older than the candidate is returned instead.
LoadCurrent(ep) == ready /\ epoch = ep

LoadCached(e, rev, ep) ==
  /\ LoadCurrent(ep)
  /\ cache[e] # NoEntry
  /\ \/ cache[e].revision > rev /\ cache[e].revision = revision
     \/ cache[e].revision >= rev /\ rev = revision

LoadStores(e, rev, ep) ==
  LoadCurrent(ep) /\ rev = revision /\ ~LoadCached(e, rev, ep)

\* Storing a candidate can evict other entries.
CommitLoad(e, candidate, ep) ==
  /\ IF LoadStores(e, candidate.revision, ep)
     THEN \E kept \in SUBSET Entities :
            cache' = [x \in Entities |->
                        IF x = e THEN candidate ELSE IF x \in kept THEN cache[x] ELSE NoEntry]
     ELSE UNCHANGED cache
  /\ UNCHANGED <<log, ready, revision, epoch, baseHosts>>

Finish(e, result) ==
  calls' = [calls EXCEPT ![e] = [@ EXCEPT !.phase = "done", !.result = result]]

\* The answer is at the revision of the call.
LoadAnswered(e) ==
  /\ calls[e] # NoCall /\ calls[e].phase = "rpc"
  /\ calls' = [calls EXCEPT ![e] = [@ EXCEPT !.phase = "checked"]]
  /\ UNCHANGED <<viewState, at, stamp, look, got>>

\* Mutant: a newer answer is used as if it were at the revision of the call.
LoadOvertakenUsed(e) ==
  /\ calls[e] # NoCall /\ calls[e].phase = "rpc"
  /\ \E resp \in (calls[e].revision + 1)..newest :
       /\ CheckUnaryRevision(resp)
       /\ Finish(e, Entry([value |-> log[resp].value[e], revision |-> calls[e].revision]))
  /\ UNCHANGED <<at, stamp, look, got>>

\* The answer is at a newer revision: it is discarded, its revision is kept.
LoadOvertaken(e) ==
  /\ calls[e] # NoCall /\ calls[e].phase = "rpc"
  /\ \E resp \in (calls[e].revision + 1)..newest : CheckUnaryRevision(resp)
  /\ Finish(e, Race)
  /\ UNCHANGED <<at, stamp, look, got>>

\* The control plane fails the call with codes.NotFound: at a revision that is
\* not older than the call it has no such credential or mapping.  The error
\* carries no revision, and nothing is cached.
LoadNotFound(e) ==
  /\ calls[e] # NoCall /\ calls[e].phase = "rpc"
  /\ \E resp \in calls[e].revision..newest : log[resp].value[e] = Absent
  /\ Finish(e, NotFoundStatus)
  /\ UNCHANGED <<viewState, at, stamp, look, got>>

\* The call fails with any other status or times out, or its answer is malformed.
LoadFails(e) ==
  /\ calls[e] # NoCall /\ calls[e].phase \in {"rpc", "checked"}
  /\ Finish(e, Failure)
  /\ UNCHANGED <<viewState, at, stamp, look, got>>

\* The last critical section of the loader.
LoadCommitted(e) ==
  /\ calls[e] # NoCall /\ calls[e].phase = "checked"
  /\ LET rev == calls[e].revision
         ep == calls[e].epoch
         candidate == [value |-> log[rev].value[e], revision |-> rev]
     IN  /\ CommitLoad(e, candidate, ep)
         /\ Finish(e, IF LoadCached(e, rev, ep) THEN Entry(cache[e])
                      ELSE IF LoadStores(e, rev, ep) THEN Entry(candidate) ELSE Race)
  /\ UNCHANGED <<at, stamp, look, got>>

\* Mutant: those who joined at another revision are not woken.
LoadPublishedToRevision(e) ==
  /\ calls[e] # NoCall /\ calls[e].phase = "done"
  /\ LET waiters == {p \in Procs : /\ at[p] = "wait" /\ look[p].entity = e
                                   /\ look[p].revision = calls[e].revision}
     IN  /\ at' = [p \in Procs |-> IF p \in waiters THEN "loaded" ELSE at[p]]
         /\ look' = [p \in Procs |->
                       IF p \in waiters THEN [look[p] EXCEPT !.result = calls[e].result]
                                        ELSE look[p]]
  /\ calls' = [calls EXCEPT ![e] = NoCall]
  /\ UNCHANGED <<viewState, stamp, got>>

\* The call leaves the group and its result reaches everyone who waits for it.
LoadPublished(e) ==
  /\ calls[e] # NoCall /\ calls[e].phase = "done"
  /\ LET waiters == {p \in Procs : at[p] = "wait" /\ look[p].entity = e}
     IN  /\ at' = [p \in Procs |-> IF p \in waiters THEN "loaded" ELSE at[p]]
         /\ look' = [p \in Procs |->
                       IF p \in waiters THEN [look[p] EXCEPT !.result = calls[e].result]
                                        ELSE look[p]]
  /\ calls' = [calls EXCEPT ![e] = NoCall]
  /\ UNCHANGED <<viewState, stamp, got>>

(***************************************************************************)
(* The specification.                                                      *)
(***************************************************************************)
RequestStep(p) ==
  \/ BeginResolution(p) \/ LookupBaseHost(p) \/ PlanOperation(p) \/ ValidateResolution(p)
  \/ EndRequest(p) \/ LookupSnapshot(p) \/ ReadCache(p) \/ CheckHit(p) \/ JoinLoad(p)
  \/ StartLoad(p) \/ CheckLoaded(p) \/ Retry(p)

LoadStep(e) ==
  \/ LoadAnswered(e) \/ LoadOvertaken(e) \/ LoadNotFound(e) \/ LoadFails(e)
  \/ LoadCommitted(e) \/ LoadPublished(e)

\* The watch, the control plane and expiry, which know nothing of requests.
ViewStep == (Change \/ Lapse \/ Resync \/ Advance \/ Expire) /\ UNCHANGED requestState

ResolutionNext ==
  \/ ViewStep
  \/ \E p \in Procs : RequestStep(p) /\ UNCHANGED viewState
  \/ \E e \in Entities : LoadStep(e)

ResolutionSpec == ResolutionInit /\ [][ResolutionNext]_resolutionState

\* A request goroutine and a load goroutine are scheduled; a call to the
\* control plane ends by its deadline (Client.rpcContext).  Nothing is assumed
\* of the view: it may lapse for good.
RequestProgress(p) ==
  \/ LookupBaseHost(p) \/ PlanOperation(p) \/ ValidateResolution(p) \/ LookupSnapshot(p)
  \/ ReadCache(p) \/ CheckHit(p) \/ JoinLoad(p) \/ StartLoad(p) \/ CheckLoaded(p) \/ Retry(p)

ResolutionFairness ==
  /\ \A p \in Procs : WF_resolutionState(RequestProgress(p) /\ UNCHANGED viewState)
  /\ \A e \in Entities : WF_resolutionState(LoadStep(e))

(***************************************************************************)
(* Safety.                                                                 *)
(***************************************************************************)

ActsOnOneWorld(p) ==
  LET world == log[stamp[p].revision]
  IN  /\ got[p].creds = world.value[Credential] /\ got[p].creds # Absent
      /\ got[p].hosts = world.hosts
      /\ got[p].mapping \in {Absent, world.value[Mapping]}

\* A dispatched request acts on one world: its credential with the policy, the
\* base domains it was routed by and its mapping are all those of the revision
\* of its stamp, though they were read at different times, from the cache, from
\* a load of its own or from a load of another request (S3Auth).
DispatchedAtOneRevision ==
  \A p \in Procs : at[p] = "dispatched" => ActsOnOneWorld(p)

\* The epoch of a stamp is retired the moment readiness lapses: while it is
\* current the client has been Ready ever since the stamp was taken.
StampCurrentMeansReady ==
  \A p \in Procs : at[p] # "idle" /\ stamp[p].epoch = epoch =>
    ready

\* A result that a load hands to its waiters is the value at its revision.
LoadedResultsTrue ==
  \A e \in Entities : calls[e] # NoCall /\ calls[e].result.kind = "entry" =>
    /\ calls[e].result.revision \in 1..revision
    /\ calls[e].result.value = log[calls[e].result.revision].value[e]

\* Someone who waits for a load waits for one that exists.
WaitersHaveALoad ==
  \A p \in Procs : at[p] = "wait" => calls[look[p].entity] # NoCall

(***************************************************************************)
(* What a step may never do.                                               *)
(***************************************************************************)

AbsentAt(e, r) == log[r].value[e] = Absent

ToldNotFound(p) == at[p] # "notFound" /\ at'[p] = "notFound"

\* A request is told that its credential or mapping does not exist only when
\* that is so at the revision the client has accepted, while it is Ready:
\* neither a stale tombstone nor a load that lost a race nor a cached failure
\* denies access.  The one exception is the status NotFound of the control
\* plane, which stands for some revision that the client does not know.
NotFoundIsTrue ==
  [][\A p \in Procs : ToldNotFound(p) =>
        IF look[p].result = NotFoundStatus
        THEN \E r \in 1..newest : AbsentAt(look[p].entity, r)
        ELSE ready /\ AbsentAt(look[p].entity, revision)]_resolutionState

\* What the synchronization contract says of negative answers: they are
\* revisioned, and none that is older than what the request has observed is
\* returned to it.  The status NotFound of a shared load is.
NotFoundIsNotOlder ==
  [][\A p \in Procs : ToldNotFound(p) =>
        \E r \in stamp[p].revision..newest : AbsentAt(look[p].entity, r)]_resolutionState

\* A request ends as if everything it acts on had been read in one instant.
Granted(p) ==
  IF at[p] = "dispatched"
  THEN [revision |-> stamp[p].revision, creds |-> got[p].creds, hosts |-> got[p].hosts,
        mapping |-> got[p].mapping]
  ELSE NoCall

Atomic == INSTANCE AtomicAuthorization
            WITH granted <- [p \in Procs |-> Granted(p)], None <- NoCall

\* Resolving a request in many steps implements granting it in one, whatever
\* the watch, the caches and other requests do in between (S3Auth and the
\* lookups of the client).
AuthorizationIsAtomic == Atomic!AtomicSpec

(***************************************************************************)
(* Liveness.                                                               *)
(***************************************************************************)

\* Every request comes to an end: a shared load always reaches everyone who
\* joined it, and a lookup that keeps losing races gives up (loadGroup.Do).
RequestsEnd ==
  \A p \in Procs : at[p] # "idle" ~> at[p] \in {"idle", "dispatched", "notFound"}

(***************************************************************************)
(* The inductive invariant.                                                *)
(***************************************************************************)

\* The view holds exactly one revision.
ViewInv ==
  /\ log \in Seq(Version) /\ newest >= 1
  /\ ready \in BOOLEAN
  /\ epoch \in Nat
  /\ revision \in 0..newest
  /\ ready => revision # 0
  /\ revision # 0 => baseHosts = log[revision].hosts
  /\ cache \in [Entities -> CacheEntry \cup {NoEntry}]
  /\ \A e \in Entities : FreshAt(revision, e, cache[e])

\* A pair taken while ready is never ahead, and while its epoch is current the
\* client is ready.
TakenWhileReady(pair) ==
  /\ pair.revision \in 1..revision /\ pair.epoch \in 0..epoch
  /\ pair.epoch = epoch => ready

\* A result that claims revision r for key e says what r says; a status
\* NotFound was true at some revision.
TrueResult(e, result) ==
  /\ result.kind = "entry" =>
       result.revision \in 1..revision /\ result.value = log[result.revision].value[e]
  /\ result = NotFoundStatus => \E r \in 1..newest : AbsentAt(e, r)

InLookup(p) == at[p] \in {"lookup", "read", "hit", "miss", "wait", "loaded", "again"}

PastCredential(p) ==
  at[p] \in {"host", "plan", "validate"} \/ (InLookup(p) /\ look[p].entity = Mapping)

PastHost(p) ==
  at[p] \in {"plan", "validate"} \/ (InLookup(p) /\ look[p].entity = Mapping)

\* What a request has read is what its stamp says, as long as the view has not
\* moved past the stamp.
ReadAtStamp(p) ==
  LET world == log[revision]
  IN  /\ PastCredential(p) => got[p].creds = world.value[Credential]
      /\ PastHost(p) => got[p].hosts = world.hosts
      /\ at[p] = "validate" => got[p].mapping \in {Absent, world.value[Mapping]}

RequestInv(p) ==
  /\ at[p] = "idle" => got[p] = Nothing
  /\ at[p] # "idle" =>
      /\ TakenWhileReady(stamp[p])
      /\ at[p] \in {"read", "hit", "miss", "wait", "loaded"} => TakenWhileReady(look[p])
      /\ PastCredential(p) => got[p].creds # Absent
      /\ InLookup(p) \/ at[p] \in {"host", "plan"} => got[p].mapping = Absent
      /\ at[p] = "hit" =>
           /\ look[p].result.kind = "entry"
           /\ revision = look[p].revision =>
                look[p].result.value = log[revision].value[look[p].entity]
      /\ at[p] = "wait" => calls[look[p].entity] # NoCall
      /\ at[p] = "loaded" =>
           look[p].result # Pending /\ TrueResult(look[p].entity, look[p].result)
      /\ revision = stamp[p].revision => ReadAtStamp(p)
      /\ at[p] = "dispatched" => ActsOnOneWorld(p)

CallInv(e) ==
  calls[e] # NoCall =>
    /\ TakenWhileReady(calls[e])
    /\ calls[e].phase = "done" <=> calls[e].result # Pending
    /\ TrueResult(e, calls[e].result)

\* The invariant that every step preserves.
ResolutionInv ==
  /\ ViewInv
  /\ \A p \in Procs : RequestInv(p)
  /\ \A e \in Entities : CallInv(e)

=============================================================================
