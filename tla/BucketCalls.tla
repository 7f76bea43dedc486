----------------------------- MODULE BucketCalls -----------------------------
(***************************************************************************)
(* CreateVBucket and ListVBuckets (controlplane/lookup.go) and the handlers *)
(* that call them (http_server/s3_proxy.go), on the client and the control  *)
(* plane of module ControlPlane.                                            *)
(*                                                                          *)
(* A call takes its snapshot while the client is Ready; the control plane   *)
(* evaluates it at some later revision; its answer reaches the client later *)
(* still, or is lost.  A bucket is an entity of the world that exists.      *)
(***************************************************************************)
EXTENDS ControlPlane

CONSTANT Callers   \* request goroutines in one of the two handlers

VARIABLES
  call,      \* the call each of them is in, or how its last one was answered
  confirmed  \* history: the highest revision of a create answered with 200

callState == <<call, confirmed>>
bucketState == <<cpState, callState>>

\* What a call holds: the snapshot it took, the answer of the control plane
\* (at a revision, with the buckets it lists), whether the control plane has
\* committed the create, and the status its client was given.
NoBucketCall ==
  [at |-> "idle", revision |-> 0, epoch |-> 0, resp |-> 0, buckets |-> {},
   committed |-> FALSE, status |-> "none"]

BucketsAt(r) == {e \in Entities : log[r].value[e] # Absent}

CallsInit == CPInit /\ call = [c \in Callers |-> NoBucketCall] /\ confirmed = 0

(***************************************************************************)
(* From the status of an RPC to the status of the request.                 *)
(***************************************************************************)

Codes ==
  {"AlreadyExists", "Aborted", "FailedPrecondition", "InvalidArgument", "PermissionDenied",
   "Unauthenticated", "NotFound", "ResourceExhausted", "Canceled", "DeadlineExceeded",
   "Unavailable", "Internal", "Unknown"}

\* Codes a client sees when the call itself failed; the control plane may or
\* may not have executed it.
TransportCodes ==
  {"ResourceExhausted", "Canceled", "DeadlineExceeded", "Unavailable", "Internal", "Unknown"}

\* The errors of the resolver: the cause it is mapped to, by mapResolverError.
ResolverError(code) ==
  CASE code = "NotFound" -> "notFound"
    [] code \in {"PermissionDenied", "Unauthenticated"} -> "denied"
    [] code = "ResourceExhausted" -> "throttled"
    [] OTHER -> "unavailable"

\* Mutant: a canceled call is taken for a refused one.
CreateErrorOfCanceled(code) ==
  CASE code = "AlreadyExists" -> "ownedByYou"
    [] code \in {"Aborted", "FailedPrecondition", "Canceled"} -> "exists"
    [] code = "InvalidArgument" -> "invalidArgument"
    [] code \in {"PermissionDenied", "Unauthenticated", "NotFound"} -> "denied"
    [] OTHER -> ResolverError(code)

\* mapCreateVBucketError, and mapResolverError on what it leaves alone.
CreateError(code) ==
  CASE code = "AlreadyExists" -> "ownedByYou"
    [] code \in {"Aborted", "FailedPrecondition"} -> "exists"
    [] code = "InvalidArgument" -> "invalidArgument"
    [] code \in {"PermissionDenied", "Unauthenticated", "NotFound"} -> "denied"
    [] OTHER -> ResolverError(code)

\* mapListVBucketsError likewise.
ListError(code) ==
  IF code \in {"PermissionDenied", "Unauthenticated", "NotFound"} THEN "denied"
  ELSE ResolverError(code)

\* writeResolverError for an error that is not about credentials.
ResolverStatus(error) ==
  CASE error \in {"notFound", "denied"} -> "403"
    [] error \in {"throttled", "unavailable"} -> "503"
    [] error = "invalidArgument" -> "400"
    [] OTHER -> "502"

\* writeCreateVBucketError
CreateStatus(error) ==
  CASE error \in {"ownedByYou", "exists"} -> "409"
    [] error = "invalidArgument" -> "400"
    [] error = "denied" -> "403"
    [] OTHER -> ResolverStatus(error)

(***************************************************************************)
(* The calls.                                                              *)
(***************************************************************************)

CallIs(c, location) == call[c].at = location

Answered(c, status) ==
  call' = [call EXCEPT ![c] = [NoBucketCall EXCEPT
             !.at = "answered", !.status = status, !.committed = call[c].committed]]

\* A new request reaches a handler: lookupSnapshot refuses it unless Ready.
StartCall(c, location) ==
  /\ call[c].at \in {"idle", "answered"}
  /\ state = "Ready"
  /\ call' = [call EXCEPT ![c] = [NoBucketCall EXCEPT
                !.at = location, !.revision = revision, !.epoch = epoch]]
  /\ UNCHANGED <<cpState, confirmed>>

\* The control plane commits the create at its next revision.
CommitCreate(c) ==
  /\ CallIs(c, "create")
  /\ \E e \in Entities \ BucketsAt(newest) : PutEntity(e)
  /\ call' = [call EXCEPT ![c] = [@ EXCEPT !.at = "created", !.resp = newest + 1,
                                           !.committed = TRUE]]
  /\ UNCHANGED <<syncState, feed, confirmed>>

\* The control plane refuses the create.
RefuseCreate(c) ==
  /\ CallIs(c, "create")
  /\ \E code \in Codes : Answered(c, CreateStatus(CreateError(code)))
  /\ UNCHANGED <<cpState, confirmed>>

\* The answer is lost: a deadline, a cancellation or a broken connection.
LoseCreate(c) ==
  /\ CallIs(c, "created")
  /\ \E code \in TransportCodes : Answered(c, CreateStatus(CreateError(code)))
  /\ UNCHANGED <<cpState, confirmed>>

\* The answer arrives.  Its revision is newer than the snapshot's: nothing
\* that has happened to the client since turns the success into an error.
ReturnCreate(c) ==
  /\ CallIs(c, "created")
  /\ CreateReply(call[c].resp, call[c].revision)
  /\ Answered(c, "200")
  /\ confirmed' = Larger(confirmed, call[c].resp)
  /\ UNCHANGED <<log, feed>>

\* The control plane lists the buckets of a revision not below the snapshot's.
AnswerList(c) ==
  /\ CallIs(c, "list")
  /\ \E r \in call[c].revision..newest :
       call' = [call EXCEPT ![c] = [@ EXCEPT !.at = "listed", !.resp = r,
                                             !.buckets = BucketsAt(r)]]
  /\ UNCHANGED <<cpState, confirmed>>

\* The control plane refuses the list, or its answer is lost.
FailList(c) ==
  /\ CallIs(c, "list")
  /\ \E code \in Codes : Answered(c, ResolverStatus(ListError(code)))
  /\ UNCHANGED <<cpState, confirmed>>

\* checkUnaryRevision: an answer from ahead is evidence, and no answer.
CheckListRevision(c) ==
  /\ CallIs(c, "listed")
  /\ IF call[c].resp = call[c].revision
     THEN /\ call' = [call EXCEPT ![c] = [@ EXCEPT !.at = "stamped"]]
          /\ UNCHANGED cpState
     ELSE /\ CheckUnaryRevision(call[c].resp, call[c].revision)
          /\ Answered(c, "503")
          /\ UNCHANGED <<log, feed>>
  /\ UNCHANGED confirmed

SnapshotCurrent(c) == state = "Ready" /\ revision = call[c].revision /\ epoch = call[c].epoch

\* The first look at the stamp, before the answer is converted.
CheckListStamp(c) ==
  /\ CallIs(c, "stamped")
  /\ IF SnapshotCurrent(c)
     THEN call' = [call EXCEPT ![c] = [@ EXCEPT !.at = "checked"]]
     ELSE Answered(c, "503")
  /\ UNCHANGED <<cpState, confirmed>>

\* A bucket of the answer has no valid name or creation date, or occurs twice.
RejectList(c) ==
  /\ CallIs(c, "checked")
  /\ Answered(c, "502")
  /\ UNCHANGED <<cpState, confirmed>>

\* Mutant: the stamp is not looked at again.
ReturnListUnchecked(c) ==
  /\ CallIs(c, "checked")
  /\ Answered(c, "200")
  /\ UNCHANGED <<cpState, confirmed>>

\* The second look, after it was converted.
ReturnList(c) ==
  /\ CallIs(c, "checked")
  /\ Answered(c, IF SnapshotCurrent(c) THEN "200" ELSE "503")
  /\ UNCHANGED <<cpState, confirmed>>

CreateStep(c) ==
  StartCall(c, "create") \/ CommitCreate(c) \/ RefuseCreate(c) \/ LoseCreate(c) \/ ReturnCreate(c)

ListStep(c) ==
  \/ StartCall(c, "list") \/ AnswerList(c) \/ FailList(c)
  \/ CheckListRevision(c) \/ CheckListStamp(c) \/ RejectList(c) \/ ReturnList(c)

CallStep == \E c \in Callers : CreateStep(c) \/ ListStep(c)

CallsNext == CallStep \/ (CPNext /\ UNCHANGED callState)

CallsSpec == CallsInit /\ [][CallsNext]_bucketState

(***************************************************************************)
(* What callers can rely on.                                               *)
(***************************************************************************)

\* A list that is returned has the buckets of the revision the client has
\* accepted at that moment, and that revision includes every bucket whose
\* creation this proxy had confirmed by then: no interleaving of creates,
\* watch frames and reconnects lets a client list without the bucket it has
\* just created (ListVBuckets looks at its stamp before and after converting
\* the answer, CreateVBucket requires the revision it was given).
ListReadsConfirmed ==
  [][\A c \in Callers : call'[c].at = "answered" /\ call[c].at = "checked"
        /\ call'[c].status = "200" =>
           /\ state = "Ready"
           /\ call[c].buckets = BucketsAt(revision)
           /\ revision >= confirmed]_bucketState

\* A create that the control plane has committed is answered with success or
\* with an error that leaves its outcome open, never with a refusal: however
\* the answer was lost, the two maps of errors and the handler end in 200, 502
\* or 503 (mapCreateVBucketError, mapResolverError, writeCreateVBucketError).
CommittedIsNotRefused ==
  \A c \in Callers : call[c].committed /\ call[c].at = "answered" =>
    call[c].status \in {"200", "502", "503"}

=============================================================================
