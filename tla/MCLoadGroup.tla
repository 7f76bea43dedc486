----------------------------- MODULE MCLoadGroup -----------------------------
(* LoadGroup for TLC: stretches of time of at most MaxWindow ticks.          *)
EXTENDS LoadGroup

CONSTANT MaxWindow

MCNext == LoadNext /\ window' <= MaxWindow

MCSpec == LoadInit /\ [][MCNext]_loadState /\ LoadFairness
=============================================================================
