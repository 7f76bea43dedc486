---------------------------- MODULE MCResolution ----------------------------
(***************************************************************************)
(* Small instances of Resolution.  MaxEpoch bounds how often readiness is  *)
(* established in one behaviour, Revisions the changes of the world.       *)
(***************************************************************************)
EXTENDS Resolution

CONSTANT MaxEpoch

\* At most one entity is missing at first.
MCInit ==
  /\ ResolutionInit
  /\ \A e, x \in Entities : AbsentAt(e, 1) /\ AbsentAt(x, 1) => e = x
  /\ log[1].hosts = Hosts

\* What is missing is created next, so that its tombstones go stale, and the
\* registry is not replaced by itself.
WorldBound ==
  \A r \in 2..newest :
    /\ \A e \in Entities : AbsentAt(e, r - 1) => ~AbsentAt(e, r)
    /\ log[r].delta.kind = "baseHost" => log[r].delta.remove

MCNext == ResolutionNext /\ (ready' => epoch' < MaxEpoch) /\ WorldBound'

MCSpec == MCInit /\ [][MCNext]_resolutionState

\* Two requests that need no mapping and so meet in the loads of one credential,
\* the only entity of their world that changes.
SharedInit == MCInit /\ ~AbsentAt(Mapping, 1)

SharedNext ==
  /\ MCNext
  /\ \A p \in Procs : at[p] = "plan" => at'[p] # "lookup"
  /\ log'[Len(log')].value[Mapping] = 1

SharedSpec == SharedInit /\ [][SharedNext]_resolutionState

SharedFairSpec == SharedSpec /\ ResolutionFairness
=============================================================================
