--------------------------- MODULE MCConvergence ---------------------------
(***************************************************************************)
(* ControlPlane and its bucket calls with a bounded number of disturbances, *)
(* for liveness: after the last one nothing but the protocol itself can     *)
(* delay the client.  Lookups, which only change the caches, are left out.  *)
(***************************************************************************)
EXTENDS BucketCalls

CONSTANT MaxFaults

VARIABLE faults

MCInit == CallsInit /\ faults = 0

MCNext ==
  \/ CallStep /\ UNCHANGED faults
  \/ Uncached /\ UNCHANGED <<callState, faults>>
  \/ Fault /\ UNCHANGED callState /\ faults < MaxFaults /\ faults' = faults + 1

MCSpec == MCInit /\ [][MCNext]_<<bucketState, faults>> /\ CPFairness

=============================================================================
