-------------------------- MODULE MCControlPlane --------------------------
(***************************************************************************)
(* Small instances of ControlPlane.  MaxEpoch bounds how often readiness   *)
(* is established in one behaviour; Revisions bounds the changes of the    *)
(* world.                                                                  *)
(***************************************************************************)
EXTENDS ControlPlane

CONSTANT MaxEpoch

MCNext == CPNext /\ (state' = "Ready" => epoch' < MaxEpoch)

MCSpec == CPInit /\ [][MCNext]_cpState

=============================================================================
