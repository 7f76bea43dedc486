---------------------------- MODULE MCWatchSync ----------------------------
(***************************************************************************)
(* Small instances of WatchSync.  MaxEpoch bounds how often readiness is   *)
(* established in one behaviour; no step that leaves Ready is cut off.     *)
(***************************************************************************)
EXTENDS WatchSync

CONSTANT MaxEpoch

MCNext == Next /\ (state' = "Ready" => epoch' < MaxEpoch)

MCSpec == Init /\ [][MCNext]_syncState

MCFairSpec == MCSpec /\ Fairness

=============================================================================
