# A TLA+ model of vbuckets

vbuckets is an S3 proxy. A request arrives under a virtual access key for a virtual bucket; the
proxy verifies it, authorizes it by the IAM policy of the key, finds the real bucket behind the
virtual one, forwards the request and rewrites the answer so that nothing of the real bucket shows.
Keys, policies, base domains and mappings belong to a *control plane*, an external gRPC service with
a single sequence of revisions. The proxy follows it over a watch stream, caches what it looks up,
and must never answer a request from a mixture of revisions.

This directory models that program from the watch stream to the rewritten answer, checks it with TLC
on small instances, and proves the central properties with TLAPS for every instance.

## 1. The system

| Part | Source | State | Operations |
|---|---|---|---|
| Watch synchronization | `controlplane/watch.go`, `client.go` | fields under `Client.syncMu`: lifecycle state, accepted revision and cursor, epoch, staged snapshot, barrier and required revision, base domains; channels `resync`, `stateChanged`; timers | `Run`, `connect` and its select loop, `processWatch`, `applyEntityLocked` |
| Lookups | `controlplane/lookup.go` | caches of credentials and mappings | `BeginResolution`, `LookupCredentials`, `LookupBaseHost`, `LookupVBucket`, `ValidateResolution`, `checkUnaryRevision` |
| Sharing and admission of loads | `controlplane/cache.go` | `loadGroup.calls`, `missAdmission` (token bucket, slots) | `Do`, `acquire`, `release` |
| Local cache | `controlplane/cache.go` | LRU list and map with TTL | `GetIfPresent`, `Set`, `Invalidate`, `InvalidateAll` |
| Control-plane operations | `controlplane/lookup.go`, `http_server/s3_proxy.go` | none of its own | `CreateVBucket`, `ListVBuckets` |
| Request boundary | `http_server/s3_middleware.go`, `vbucket.go` | what one request has resolved | `S3Auth`, `resolveBucket` |
| IAM | `iam/policy.go`, `http_server/iam.go` | compiled policy | `ParsePolicyJSON`, `Authorize`, `AuthorizeS3Plan` |
| Operation planning | `http_server/s3_operation.go` | the plan of a request | `planS3Operation` and its validators |
| Mappings | `http_server/vbucket.go` | the normalized mapping of a bucket | `NormalizeVBucketConfig`, `resolveBucket` |
| Proxy and responses | `http_server/s3_proxy.go`, `s3_response.go` | what of a response is out, the state of the XML rewriter | `proxyS3Request`, `writeVirtualizedUpstreamResponse`, `rewriteNamespaceXML` |
| SigV4 | `http_server/s3_auth.go` | none | `verifySignatureAtTime`, `signRequest` |
| Tokens, copy source, list queries | `http_server/s3_token.go`, `s3_copy.go`, `s3_list_rewrite.go` | none | encode, decode, rewrite |
| Servers, configuration, transport | `main.go`, `http_server/server.go`, `env/env.go`, `controlplane/transport.go` | configuration | start and stop |

How they interact: the goroutine of `Run` owns the stream and moves the shared view forward. Request
goroutines read the view in several short critical sections, start loads that outlive them, and feed
what they learn (a revision the watch has not delivered, an answer that is too old) back into the
view. A request that is through the boundary is planned, authorized, rewritten for its real bucket,
signed again and sent; these steps are sequential, but each of them reads the request anew and all
of them must read the same. The IAM evaluator must be independent of the order of its inputs, and
the response rewriter can fail between any two tokens. Clients keep tokens and page through listings
while their bucket is mapped elsewhere.

What is hard here, and where it bites, is listed with line numbers under `hazards` in
`PROJECT.json`. The properties were chosen from that list.

## 2. The modules

```
                      World                    the versioned state of the control plane (external)
                     /     \
                View         AtomicAuthorization       what is promised to requests
               /    \              |
 implements  /       \ extends     | implemented by
     ControlPlane     Resolution --+           requests, lookups, shared loads
      |        \
  WatchSync     BucketCalls                    creates and lists of buckets
  the watch client against any control plane

  Rights --- Planning    SigV4    ProxyResponse        VirtualStore   what is promised of objects
     \             \       |      /                         |
   PolicyEval       \______|_____/                          | implemented by
                        Gateway                         Namespace
     decisions       the path of a request      keys, tokens, listings, uploads

  LoadGroup      LocalCache                    components on their own
```

Each `MC…` module adds bounds and values for TLC. Each `…Proofs` module extends the component it is
about. Two are about `Gateway`: `GatewayProofs` about a request on its way in, `ProxyResponseProofs`
about the answer on its way back. `ComponentProofs` is about the components on their own,
`PolicyEval`, `LoadGroup` and `LocalCache`.

### WatchSync: the client against an arbitrary control plane

The variables are the fields of `Client` under `syncMu`, the two signal channels, the armed timer,
and `pc`, the place of the `Run` goroutine. One critical section is one action. `Receive(f)` is
`processWatch` for *any* frame `f` in *any* state: it accepts or rejects as the code does.
`CheckUnaryRevision`, `CreateReply`, `ListReplyMissing` and `CommitLoad` are what request goroutines
do to the same fields; they interleave everywhere no lock is held. `Evict` is TTL and LRU.
`evidence` is a history variable: the highest revision an answer has shown to exist.

The sends into `resync` and `stateChanged` do not block and the channels hold one signal, so each is
a Boolean. A timer is a Boolean too: armed, it may fire at any time. The cache has a mutex of its
own, but `Set` and the invalidations happen under `syncMu`, so they belong to the step; a read
outside `syncMu` is a step of its own (in `Resolution`).

### World, ControlPlane, View: the client against a conforming control plane

`World` keeps every revision in `log`. `ControlPlane` puts the client of `WatchSync` beside a stream
that keeps its contract: snapshot or replay, barrier, then live mutations and heartbeats, with
resets and faults anywhere. A frame is constructed when it is delivered; gRPC keeps order within a
stream and the log only grows, so a frame that waited would be the same. `View` is the promise to
requests, with no frames, timers or connections in it: one revision, its base domains, caches that
do not contradict it, and an epoch that is retired whenever readiness lapses. `ControlPlane`
implements `View` (`ImplementsView`).

### BucketCalls: creating and listing buckets

`CreateVBucket` and `ListVBuckets` as processes on `ControlPlane`: a call takes its snapshot while
the client is Ready, the control plane evaluates it at some later revision, and its answer arrives
later still or is lost. The two looks a list takes at its stamp, before and after it converts the
answer, are two steps. Resolver errors are translated to the status of the request as the handlers
do, so that a committed create is told apart from one that was refused.

### LocalCache: map, list and deadlines

Every operation of `localCache` is one action, since each is one critical section of its mutex.
`promised` and `since` are history: the entry last set for a key, and the other keys used since the
key was. They say what a caller can count on without mentioning the list. The other modules use the
weaker abstraction that an entry can vanish at any time.

### Resolution and AtomicAuthorization: the life of a request

`Resolution` runs requests and their loads on `View`. A request takes a stamp (revision and epoch),
looks up its credential, reads the base domains, looks up its mapping, and validates the stamp; each
critical section is a step, and the view can move between any two. A lookup reads the cache, checks
that its own snapshot is still current, or joins or starts a load; it retries once. Signature,
grammar and policy may refuse the request between the steps. The specification it implements,
`AtomicAuthorization`, has one action for all of it: everything a granted request acts on is read in
one instant.

There are two ways to be told "does not exist". A negative answer, cached or fresh, has a revision
and is checked like a positive one. A lookup that fails with the gRPC status `NotFound`
(`LoadNotFound`) has none: it is returned unchecked to every request that waits for the load, and is
not cached. What is assumed of the control plane is that such a status is true at some revision that
is not older than the call.

Two simplifications are justified elsewhere: a load leaves the group and wakes its waiters in one
step here (`LoadGroup` separates them), and admission is a possible failure (`LoadGroup` says when).
The branches `lookup.go` 98-100, 156-159, 272-274 and 331-334 cannot be reached by a conforming
control plane while the client is Ready; `WatchSync` includes the second kind all the same.

### LoadGroup: sharing and admission of cold lookups

Callers, calls, the group, the token bucket and the slots. `Start` is the critical section of `Do`
that misses, asks `missAdmission.acquire` and registers the call; `LoadReturns`, `Remove` and
`Close` are the loader goroutine. Tokens and time are counted in parts of a token (`Grain`), so the
model is exact for rational rates. `now` is read while the group is locked, so time does not run
backwards. The time since the last refill is kept only as long as it can still fill the bucket. A
`loadCall` may be used again for a later load once nobody refers to it, which is what allocation
amounts to.

### Rights and PolicyEval: policies from document to decision

`Parse`, `Compile` and `Install` are `ParsePolicyJSON`: which documents, statements, string lists,
operators, keys and operands are refused. `Arrive` … `Grant` are the two loops of `AuthorizeS3Plan`
and `Policy.Authorize`, a statement at a time with its early returns. `Rights` has the list of
rights that `planS3Operation` derives from an operation; `PolicyEval` decides on them and `Planning`
attaches them to a plan. A wildcard pattern is the set of strings it matches (`Matched`), a string
is what it parses to as a number, date or Boolean (`Reading`).

### Planning, SigV4, Gateway, ProxyResponse: the path of a request

`Gateway` follows one request from the moment its client signs it. What arrives may differ from what
was signed. `Authenticate` is phase 1 of `S3Auth`; `PlanRequest` is `resolveBucket` and
`planS3Operation` (module `Planning`: the table of operations, the grammar of queries and headers,
copy sources, hop-by-hop nominations, the context of the policy); `Deny` is a policy that refuses;
`Dispatch` and `Forward` are `proxyS3Request` up to the signed request for the real bucket; `Send`
and `Respond` are the rest of it, in `ProxyResponse`. Where the code treats many headers alike, one
or two stand for their class. A host is the sequence of its labels and a path that of its segments,
because that is where the code cuts them. A signature (`SigV4`) is the record of all that goes into
it: HMAC is taken to be injective, and everything the code leaves out of the canonical request is
left out here.

Against this stands `Meanings`: how the *real* S3 reads a request, stated on its own from the
request's method, address, selecting parameters and copy header, and `UsedRights`, the rights that
the operation then takes: the action S3 documents for it (`S3Action`) on the resource that is
addressed, and those for its copy source, ACL and tags. They are external and not derived from the
proxy's table.

In `ProxyResponse`, `client` is what the client has: how many heads, whose status, whether upstream
headers are in it, and whether the response ended cleanly or was cut off
(`panic(http.ErrAbortHandler)`; net/http and the recoverer of the router, both external, close the
connection without the end of the body). The XML rewriter is one action per kind of token, with the
element stack, the fields seen and the encoder's buffer as state. The tables of the code are the
constants `Schema` and `Required`; texts are told apart only by what their rule accepts. The
upstream may break or be malformed at every token.

### Namespace and VirtualStore: keys, tokens, listings and uploads

`Namespace` has the objects and uploads of the real S3, one client that writes, copies and uploads,
and one that pages through listings, while the bucket is remapped: to another prefix or endpoint, to
the same place spelled differently, with rotated credentials or another routing key. A request keeps
the mapping it was authorized with until it is performed or lost. Prefixes and keys are sequences of
characters, since the code trims, splits, joins and compares them. A token is the record of what is
sealed and of the routing it is bound to; base64 and AES-GCM are the identity on such records except
that nothing else opens them.

`VirtualStore` is the promise: every place that a bucket can be mapped to is a store of its own, and
one request changes one key of one place. `Namespace` implements it as long as no place lies inside
another (`PlacesApart`), which is an obligation on whoever configures mappings: the proxy cannot see
it.

Two things the code does that a reader may not expect are part of the model. An object whose key is
exactly the path prefix (a folder marker) makes a listing fail instead of showing an empty key. And
`ListObjects` (version 1) goes on from a key and not from a token, so a walk continues in the new
place when the mapping moves; `WalkComplete` claims only walks that were not moved for it.

## 3. What TLC checks

| Run | Question | Properties |
|---|---|---|
| `watch_sync` | Is the client sound whatever the control plane sends? | `ReadyIsSynchronized`, `EvidenceHonoured`, `SynchronizingIsTimed`, `RevisionAndCursorAdvance`, `StampPinsView`, `ShutdownIsFinal` |
| `watch_sync_live` | Can it get stuck, whatever the control plane sends or withholds? | `SynchronizingEnds`, `DisconnectedEnds`, `CancelShutsDown` |
| `control_plane` | Against a conforming control plane, is the view exact and is no good frame refused? | `BaseHostsExact`, `CacheFresh`, `ConformingFramesAccepted`, `LiveStreamSuffices`, `ImplementsView` |
| `convergence` | Does it become Ready at the newest revision once faults stop, and do creates and lists tell the truth meanwhile? | `Converges`, `CommittedIsNotRefused`, `ListReadsConfirmed` |
| `local_cache` | Do map and list stay in step, and is a live entry lost too early? | `OrderMatchesEntries`, `AnswersAsPromised` |
| `resolution` | Does a request act on one revision while everything moves? | `DispatchedAtOneRevision`, `NotFoundIsTrue`, `AuthorizationIsAtomic` |
| `shared_load` | The same for two requests that meet in one load, and does each of them end? | `LoadedResultsTrue`, `AuthorizationIsAtomic`, `RequestsEnd` |
| `not_found_status` | Can an answer older than what a request has observed tell it "does not exist"? | `NotFoundIsNotOlder` (violated) |
| `load_group` | Do slots leak, keys load twice, admissions exceed their rate, callers hang? | `SlotsHeldByLoads`, `RegisteredUntilRemoved`, `AdmissionBounded`, `CallersReturn` |
| `policy_eval` | Do the loops decide what the policy means? | `DecisionIsPolicy`, `OperandsDecide` |
| `proxy_response` | Is what is sent what was signed and authorized, and can a broken answer look complete? | `PerformedAsAuthorized`, `ForwardedAsSigned`, `UpstreamAccepts`, `CleanMeansWhole`, `BoundedIsAtomic`, `OnlyPlainTextIsRaw` |
| `namespace` | Is every place a store of its own, are walks complete, do tokens work exactly where they were issued? | `ImplementsVirtualStore`, `WalkComplete`, `TokensExact` |

All but `NotFoundIsNotOlder` hold. Every property that holds has a mutant in `PROJECT.json`: a small
change of the modelled code, of a kind a programmer could make, under which TLC finds the property
violated.

`NotFoundIsNotOlder` states the contract of the repository's README: no older lookup is "returned
after a newer revision has been observed", and negative results are revisioned. The code keeps it
for answers and not for the status `NotFound`. Loads are shared by key, whatever revision they were
begun at. In the trace one request starts a load at revision 1, where the credential does not exist;
it is created at revision 2; a second request starts there, joins the load and is told that the
credential does not exist. That request is refused with 403 and not tried again; nothing is granted
that should not be, and nothing wrong is cached. A control plane that answers `found=false`, as the
contract describes, is not affected. `NotFoundIsTrue` says what the code does promise.

`UpstreamAccepts` is claimed for requests with at most one `User-Agent`: the signature covers all
values of a header, and net/http sends only the first of this one.

**Bounds.** Three revisions (plus 0, "none") are enough for a view to be behind, at and ahead of an
answer, a snapshot and a mutation, and for a gap. Two base domains with room for one put the
registry at its bound. One entity suffices for the caches of `WatchSync`, whose steps treat entities
independently; a request has two, its credential and its mapping. `MaxEpoch` bounds how often
readiness is *established* in one behaviour: two, so that it is lost and regained (one in
`watch_sync_live` and `shared_load`, where losing it is what matters). It disables no step
that leaves Ready. `MaxFaults`
is two disturbances in `convergence`, so that a second one can hit the recovery from the first; its
one caller creates and lists again and again, and other creates come from `AnswerCreate`.
`shared_load` has two requests that need no mapping, so that both are in the loads of one
credential; `resolution` has one request with both lookups, and loads that outlive it. In both, one
entity at most is missing at first, and what is missing is created next, so that a negative entry is
cached and goes stale. `load_group` has two callers, two keys,
two slots and a burst of two tokens in halves: calls are shared, abandoned and retried, and both the
bucket and the slots run out. Its windows of three ticks slide (`Measure` begins a new one at any
time). `local_cache` has four keys for a bound of two, so that the key that is evicted matters, and
lifetimes from "already over" to longer than a step of the clock. `policy_eval` takes every pair of
twenty statements, among them Deny before and after Allow, `NotAction`, `NotResource` and each
family of conditions, and documents the parser refuses. `proxy_response` takes every operation, on
path-style and virtual-hosted addresses, with and without a path prefix, and from each of them
single deviations of query (tokens of the wrong kind among them), headers, trailers, address or
signature, made before or after signing; of the
tables of responses it has two that stream and others that are bounded, with an element of every
class; repetition of elements needs no bound, because the state is finite. `namespace` has one
remap, one upload at a time, pages of one key, two keys of which one begins like a prefix, and two
starts, one of them with a folder marker; more keys, values, uploads and remaps are what the proof
is for.

**Deadlock** is checked except in `convergence`, where a client that was told to stop stops;
`policy_eval`, where a refused document is the end; `proxy_response`, where a finished response is;
and `namespace`, where a mapping that cannot be used stops everything once remaps are used up.

**Symmetry** is used in `local_cache` over keys and values; it checks invariants only.

**Fairness.** In `WatchSync`, weak fairness of the `Run` goroutine outside its select (Go schedules
a runnable goroutine; dialling and opening have deadlines) and strong fairness of each signal case
of the select (Go chooses among ready cases at random, so a case that is ready again and again is
chosen; an armed timer fires). Nothing is assumed of the stream. `convergence` also assumes that the
control plane keeps sending what it owes. In `Resolution` and `LoadGroup`, loaders end, because
every RPC runs under `UnaryTimeout`, and a woken goroutine continues. `ProxyResponse` has no
liveness property: the code sets no deadline for a body.

## 4. What is proved

All proofs are checked by TLAPS from the assumptions on constants stated in the modules: revisions
are natural numbers, the "no such thing" values differ from real ones, sets of calls, cache keys and
domains are finite, a token has at least one part, the tables of responses nest as the code's do
(`SchemaAssumption`), no place lies in another (`PlacesApart`), keys are finite texts over ordered
characters and a page holds at least one key (`NamespaceAssumption`). Three are about requests:
the clock can be read (`ClockAssumption`); a client says in path and host what it asks for and signs
it with its x-amz- headers, and what verifies was signed by it (`ClientAssumption`: nobody else has
the secret); the names a mapping is resolved to are not empty, and a copy source that is written can
be read again (`ResolvedAssumption`). TLC evaluates each of them in the runs. There is no bound on
revisions, cursors, domains, entities, requests, callers, statements, keys, objects, page sizes,
uploads, remaps or time.

**WatchSyncProofs** (for every control plane). `TypeCorrect`, then `SyncInvariant`: `SyncInv` is
inductive. `ReadyIsSynchronized` alone is not, because whether a barrier may make the client Ready
depends on what is remembered while it is not. The strengthening says where the goroutine can be in
which state (`LocationFitsState`), that a barrier is owed whenever there is no live complete view
(`BarrierOwed`), that revision and cursor come together (`PairComplete`), that an open snapshot was
cut on the current view (`StagedOnView`), and that `requiredRevision` is the evidence or the
evidence is covered (`EvidenceKept`). From it: `ReadinessSound`, `EvidenceCovered`, `CatchUpSound`,
`DeadlineSound`, `RetirementSound`, and the action properties `PairAdvances`, `StampSound` and
`ShutdownSound`. `RegistryStaysBounded` is inductive with the types.

**ControlPlaneProofs** (for every conforming control plane). A step of the composition is a step of
`WatchSync` (`StepIsClientStep`), so `SyncInv` carries over. `CPInv` adds that every revision
differs from the one before by the change it reports (`WorldInv`), that the client is not ahead of
the world, that the caches are empty while a snapshot is staged (`StagedMeansEmpty`), and that a
staged snapshot has exactly the base domains of its cut that the stream does not still owe
(`FeedFits`). The last two are why a snapshot may be swapped in at its barrier without looking at
the caches. From it: `RegistryExact`, `CachesFresh`, `ConformingSound`, `LiveStreamSound`, and
`ViewImplemented`, the step simulation onto `View`: a barrier or a replayed change is `Resync`, a
live change `Advance`, a stored load `Store`, leaving Ready `Lapse`, losing entries `Expire`,
everything else a stutter. With `ResolutionIsAtomic`, which is proved on `View`, this is the chain
from frames on the wire to requests that act on one revision.

**BucketCallsProofs** (for any number of creates and lists under way). Every step of a call is one
that `ControlPlane` allows its callers (`CallsImplementControlPlane`), so `CPInv` carries over.
`CallsInv` adds that what a call holds is still part of the history of the world (`CallFits`; the
log only grows, `HistoryGrows`), that only an executed create is marked committed, and that the
confirmed revisions are covered by the evidence the client keeps, until it shuts down. From it
`CommitsSound`, by cases on the codes of a failed RPC, and `ListsSound`: a list is returned only
while Ready, and a Ready client has reached all evidence.

**ResolutionProofs** (for any number of requests). `ResolutionInvariant`: the view is one revision
(`ViewInv`); a stamp or a lookup's snapshot was taken while Ready, and while its epoch is current
the client is Ready (`TakenWhileReady`); as long as the view is at the stamp's revision, what the
request has read is what that revision says (`ReadAtStamp`); a load's result is the truth at the
revision it names, and a status `NotFound` was true at some revision (`CallInv`). The point of the epoch is the second: equal epochs mean continuous
readiness, so that an equal revision at validation means nothing moved. From it: `OneRevision`,
`StampSound`, `LoadsTrue`, `NoLostWaiter`, `NotFoundSound`, and `ResolutionIsAtomic`, the step
simulation onto `AtomicAuthorization`: validation maps to `Grant`, the end of a dispatched request
to `Release`, steps of the view to `Follow` or a stutter, everything else to a stutter.

**ComponentProofs**, about `LoadGroup` (for any number of callers, keys, slots, tokens). `LoadInv` is
inductive: `SlotsConserved`, `RegistrationSound` and `AdmissionSound` follow. The admission bound
needs `admitted + Refilled <= Burst + window`: what has been let in plus what is in the bucket.

About `LocalCache` (for any keys, lifetimes and bound). `CacheInv` relates the list to the history:
of two keys in the list the one in front was used after the other (`InOrder`), the map has what was
promised, and a live entry it does not have was followed by as many other keys as fit (`Kept`). From
it `ListMatchesMap` and `CacheKeepsPromises`. The count is where the bound enters: the entry at the
end of a full list has every other key of the list after it.

About `PolicyEval` (for every document and request). The loop invariant says that the checks
before this one are permitted, that no statement so far denies, and that `allowed` records whether
one allowed; with it `DecisionSound`: a request is granted exactly when every check is allowed by
some statement and denied by none. `OperandsSound`: no installed numeric or date operand is void.

**ProxyResponseProofs** (for the whole path of `Gateway`, any requests, mappings and tables).
`PhaseInv` says what the client has in each phase: nothing yet, a head, an answer of the proxy's
own, a clean end, or a broken one; `TextInv` that every open element is a container or plain. From
them `CleanIsWhole`, `BoundedAllOrNothing` and `RawTextIsPlain`.

**GatewayProofs** (for all requests, changes of a request on its way, base hosts and mappings).
`RequestInv` says what is known in each phase: the request arrived from one that a client made, it
was authenticated, `planned` is the plan of this request, and `outbound` is what the plan and the
mapping make of it. The properties are then facts about one request. `UpstreamAlwaysAccepts`: no
header that is signed is dropped or changed on the wire (`AdmittedHeaders`, `SentVerifies`).
`AlwaysForwardedAsSigned`: equal canonical requests have equal parameters and x-amz- headers
(`AsSigned`), and the operation's allow-lists refuse what would not be passed on (`SentHeaders`,
`SentQuery`). `AlwaysPerformedAsAuthorized` has four parts. The bucket and key that the proxy reads
in host and path are those the client wrote (`AddressResolves`), and the real S3 reads the mapped
ones back (`SentAddress`). What distinguishes operations is sent unchanged (`SentSelectors`), and
each row of the operation table excludes the readings of all others (`RowMeans`, the one lemma that
goes through the table row by row), so there is one reading (`SentReading`). The check of
an operation names the action and the resource that S3 requires (`RowActions`, `MainRight`), each
right the request makes use of is among the checks (`SentRights`), and the conditions saw what is
sent (`SentContext`).

**NamespaceProofs** (for all mappings whose places are apart, all keys, any number of remaps and
uploads). `Separate`: a real key determines the place and the virtual key it belongs to; this is
where the "/" between prefix and key and `PlacesApart` are needed. `OpensExactly`: a token opens
under the routing it was sealed under and no other. `NamespaceInv` says that objects are one per
real key, that every token held, every request under way and every walk carry a usable mapping, and
what each was authorized for. From it `TokensSound` and `VirtualStoreRefined`, the step simulation
onto `VirtualStore`.

`WalksComplete` needs more, because `WalkComplete` speaks of finished walks only. `ListingInv` says
of a walk that stayed in its place that what it has seen is in order, that it goes on from the real
key of the last key it has seen, and that a key that was there all the time has been seen or comes
after that one. A page keeps this (`PageContinues`) because the order of keys is a strict total
order (`BeforeTransitive`, `BeforeTotal`) that a common prefix does not change
(`BeforeUnderPrefix`), finitely many keys can be put in it (`InOrderProperties`), and a page is an
initial segment that is not empty unless nothing is left (`PageProperties`). The next request keeps
it because a token opens only under the routing it was sealed under, and a marker is given the same
prefix again. The order of a page is written out in `Namespace` (`InOrder`): the prover cannot look
into the sorting operator of the library.

**Only model-checked:** liveness, that is `SynchronizingEnds`, `DisconnectedEnds`,
`CancelShutsDown`, `Converges`, `RequestsEnd` and `CallersReturn`: fairness and `ENABLED` are out
of the prover's reach. Every other property that holds is proved.

## 5. What is not modelled

Byte-level functions: base64, AES-GCM, HMAC, percent-encoding and the canonical forms built from
them; what they are needed for (that nothing else opens a token, that different requests have
different signatures) is assumed. The allow-lists of headers of answers and the tables of error
codes are data. Durations are abstracted: the length of the backoff and its jitter, the values of
TTLs and of the silence timer. Metrics and logging are left out. Of the servers only the
cancellation of `Run` is modelled: listeners, the readiness endpoint and the grace period are I/O
around it. Configuration, the gRPC transport and the generated API code do not change state.
`PROJECT.json` gives the reason for each part.

## 6. Plan

Done, in this order: `WatchSync` and its proofs; `World`, `ControlPlane` and `View`; `Resolution`,
its refinement and its proofs; `LoadGroup` and `PolicyEval` with their proofs; `ProxyResponse`;
`LocalCache`; `BucketCalls`; `Namespace` and `VirtualStore`; `Planning`, `SigV4` and `Gateway`; the
proofs about `LocalCache`, `ProxyResponse`, `Namespace`, `ControlPlane` and `BucketCalls`, then those
about requests in `Gateway` and about complete walks in `Namespace`.

Next: startup and shutdown of the servers around `Run`, with readiness.
