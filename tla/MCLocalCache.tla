---------------------------- MODULE MCLocalCache ----------------------------
(***************************************************************************)
(* A small instance of LocalCache: more keys than it may hold, and time    *)
(* enough for an entry to outlive another and to be renewed.               *)
(***************************************************************************)
EXTENDS LocalCache, TLC

CONSTANT MaxTime

MCNext == CacheNext /\ clock' <= MaxTime

MCSpec == CacheInit /\ [][MCNext]_cacheState

KeySymmetry == Permutations(Keys) \cup Permutations(Values)

=============================================================================
