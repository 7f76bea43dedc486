---------------------------- MODULE VirtualStore ----------------------------
(***************************************************************************)
(* What the proxy promises of the objects behind it: every place that a     *)
(* virtual bucket can be mapped to is a store of its own, with its own keys *)
(* and its own uploads.  One request changes one key of one place.          *)
(***************************************************************************)
CONSTANTS
  Places,   \* where a mapping can lead
  Keys,     \* the keys a client can name
  Values,   \* what an object can hold
  Ids       \* what tells uploads of one place and key apart

CONSTANT Absent

VARIABLES
  store,     \* [Places -> [Keys -> the object, or Absent]]
  uploads    \* the uploads that are neither completed nor aborted

StoreInit ==
  /\ store \in [Places -> [Keys -> Values \cup {Absent}]]
  /\ uploads = {}

Put(p, k, v) == store' = [store EXCEPT ![p][k] = v] /\ UNCHANGED uploads

Delete(p, k) == store' = [store EXCEPT ![p][k] = Absent] /\ UNCHANGED uploads

\* The object of one key becomes that of another, in the same place.
Copy(p, from, k) ==
  /\ store[p][from] # Absent
  /\ store' = [store EXCEPT ![p][k] = store[p][from]]
  /\ UNCHANGED uploads

Begin(p, k, id) ==
  /\ uploads' = uploads \cup {[place |-> p, key |-> k, id |-> id]}
  /\ UNCHANGED store

Complete(u) ==
  /\ uploads' = uploads \ {u}
  /\ \E v \in Values : store' = [store EXCEPT ![u.place][u.key] = v]

Forget(u) == uploads' = uploads \ {u} /\ UNCHANGED store

StoreNext ==
  \/ \E p \in Places, k \in Keys :
       \/ \E v \in Values : Put(p, k, v)
       \/ Delete(p, k)
       \/ \E from \in Keys : Copy(p, from, k)
       \/ \E id \in Ids : Begin(p, k, id)
  \/ \E u \in uploads : Complete(u) \/ Forget(u)

StoreSpec == StoreInit /\ [][StoreNext]_<<store, uploads>>
=============================================================================
