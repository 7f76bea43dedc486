------------------------------ MODULE LoadGroup ------------------------------
(***************************************************************************)
(* How cold lookups are shared and admitted: loadGroup.Do and               *)
(* missAdmission (controlplane/cache.go).  The credential loads and the     *)
(* mapping loads each have a group and an admission of their own; this is   *)
(* one of them.                                                             *)
(*                                                                          *)
(* A step is a critical section of the group's mutex, or a step of a        *)
(* loader goroutine between two of them.  What a loader does is the         *)
(* subject of module Resolution; here it only takes time.                   *)
(*                                                                          *)
(* Tokens and time are counted in parts of a token: one tick of the clock   *)
(* earns one part, Grain parts are a token.                                 *)
(***************************************************************************)
EXTENDS Naturals, FiniteSets

CONSTANTS
  Callers,      \* goroutines that call Do
  LoadKeys,
  Calls,        \* the loadCall objects; one is used again once nobody refers to it
  NoCall,
  Grain,        \* the parts of a token
  Burst,        \* missAdmission.burst, in parts
  InflightMax   \* the capacity of missAdmission.inflight

ASSUME LoadGroupAssumption ==
  /\ NoCall \notin Calls
  /\ IsFiniteSet(Calls)
  /\ Grain \in Nat \ {0}
  /\ Burst \in Nat
  /\ InflightMax \in Nat

VARIABLES
  calls,     \* loadGroup.calls
  call,      \* each loadCall: its key and how far its goroutine has come
  on,        \* the call each caller waits for
  tokens,    \* missAdmission.tokens
  elapsed,   \* time since missAdmission.last, as far as it can still fill the bucket
  inflight,  \* the occupied slots of missAdmission.inflight
  window,    \* history: the length of a stretch of time that began at some moment
  admitted   \* history: the tokens spent on loads in that stretch

group == <<calls, call, on>>
admission == <<tokens, elapsed, inflight>>
history == <<window, admitted>>
loadState == <<group, admission, history>>

\* "open": load() runs.  "loaded": it has returned.  "removed": the call is no
\* longer in the group.  "done": its channel is closed.
Phases == {"open", "loaded", "removed", "done"}

LoadTypeOK ==
  /\ calls \in [LoadKeys -> Calls \cup {NoCall}]
  /\ call \in [Calls -> [key: LoadKeys, phase: Phases]]
  /\ on \in [Callers -> Calls \cup {NoCall}]
  /\ tokens \in 0..Burst /\ elapsed \in 0..Burst /\ inflight \in 0..InflightMax
  /\ window \in Nat /\ admitted \in Nat

LoadInit ==
  /\ calls = [k \in LoadKeys |-> NoCall]
  /\ call \in [Calls -> [key: LoadKeys, phase: {"done"}]]
  /\ on = [p \in Callers |-> NoCall]
  /\ tokens = Burst /\ elapsed = 0 /\ inflight = 0
  /\ window = 0 /\ admitted = 0

(***************************************************************************)
(* missAdmission.acquire, which Do calls under the mutex of the group.     *)
(***************************************************************************)
Smaller(a, b) == IF a <= b THEN a ELSE b

\* Mutant: an idle bucket fills beyond its burst.
RefilledUncapped == tokens + elapsed

\* The tokens once the time since the last acquire has been credited.
Refilled == Smaller(Burst, tokens + elapsed)

\* There is no token: the time is credited and nothing is spent.
NoToken ==
  /\ Refilled < Grain
  /\ tokens' = Refilled /\ elapsed' = 0
  /\ UNCHANGED <<inflight, admitted>>

\* A token is spent, and lost when every slot is taken.
NoSlot ==
  /\ Refilled >= Grain
  /\ inflight >= InflightMax
  /\ tokens' = Refilled - Grain /\ elapsed' = 0
  /\ UNCHANGED <<inflight, admitted>>

Acquire ==
  /\ Refilled >= Grain
  /\ inflight < InflightMax
  /\ tokens' = Refilled - Grain /\ elapsed' = 0
  /\ inflight' = inflight + 1
  /\ admitted' = admitted + Grain

(***************************************************************************)
(* loadGroup.Do.                                                           *)
(***************************************************************************)
Unreferenced(c) == call[c].phase = "done" /\ \A p \in Callers : on[p] # c

Join(p, k) ==
  /\ on[p] = NoCall
  /\ calls[k] # NoCall
  /\ on' = [on EXCEPT ![p] = calls[k]]
  /\ UNCHANGED <<calls, call, admission, history>>

Start(p, k) ==
  /\ on[p] = NoCall
  /\ calls[k] = NoCall
  /\ Acquire
  /\ \E c \in Calls :
       /\ Unreferenced(c)
       /\ calls' = [calls EXCEPT ![k] = c]
       /\ call' = [call EXCEPT ![c] = [key |-> k, phase |-> "open"]]
       /\ on' = [on EXCEPT ![p] = c]
  /\ UNCHANGED window

\* ErrMissRejected.
Rejected(p, k) ==
  /\ on[p] = NoCall
  /\ calls[k] = NoCall
  /\ NoToken \/ NoSlot
  /\ UNCHANGED <<group, window>>

\* The caller receives what the call returned.
Receive(p) ==
  /\ on[p] # NoCall
  /\ call[on[p]].phase = "done"
  /\ on' = [on EXCEPT ![p] = NoCall]
  /\ UNCHANGED <<calls, call, admission, history>>

\* The context of the caller is done first.
GiveUp(p) ==
  /\ on[p] # NoCall
  /\ on' = [on EXCEPT ![p] = NoCall]
  /\ UNCHANGED <<calls, call, admission, history>>

(***************************************************************************)
(* The goroutine of a call.                                                *)
(***************************************************************************)
Enter(c, phase) == call' = [call EXCEPT ![c].phase = phase]

\* Mutant: the slot is kept when load() returns.
LoadReturnsHoldingSlot(c) ==
  /\ call[c].phase = "open"
  /\ Enter(c, "loaded")
  /\ UNCHANGED <<calls, on, admission, history>>

\* load() returns, and its deferred release gives the slot back.
LoadReturns(c) ==
  /\ call[c].phase = "open"
  /\ Enter(c, "loaded")
  /\ inflight' = inflight - 1
  /\ UNCHANGED <<calls, on, tokens, elapsed, history>>

\* Mutant: the call stays in the group.
RemoveNothing(c) ==
  /\ call[c].phase = "loaded"
  /\ Enter(c, "removed")
  /\ UNCHANGED <<calls, on, admission, history>>

\* The call leaves the group, if it is still the one in it.
Remove(c) ==
  /\ call[c].phase = "loaded"
  /\ Enter(c, "removed")
  /\ calls' = IF calls[call[c].key] = c
              THEN [calls EXCEPT ![call[c].key] = NoCall] ELSE calls
  /\ UNCHANGED <<on, admission, history>>

\* Mutant: done is closed only for a call that is still in the group.
CloseRegistered(c) ==
  /\ call[c].phase = "removed"
  /\ calls[call[c].key] = c
  /\ Enter(c, "done")
  /\ UNCHANGED <<calls, on, admission, history>>

\* done is closed.
Close(c) ==
  /\ call[c].phase = "removed"
  /\ Enter(c, "done")
  /\ UNCHANGED <<calls, on, admission, history>>

(***************************************************************************)
(* Time.                                                                   *)
(***************************************************************************)
Elapse ==
  /\ elapsed' = Smaller(Burst, elapsed + 1)
  /\ window' = window + 1
  /\ UNCHANGED <<group, tokens, inflight, admitted>>

\* History: another stretch of time begins.
Measure == window' = 0 /\ admitted' = 0 /\ UNCHANGED <<group, admission>>

CallerStep(p) ==
  \/ \E k \in LoadKeys : Join(p, k) \/ Start(p, k) \/ Rejected(p, k)
  \/ Receive(p) \/ GiveUp(p)

LoaderStep(c) == LoadReturns(c) \/ Remove(c) \/ Close(c)

LoadNext ==
  \/ \E p \in Callers : CallerStep(p)
  \/ \E c \in Calls : LoaderStep(c)
  \/ Elapse \/ Measure

LoadSpec == LoadInit /\ [][LoadNext]_loadState

\* A loader ends, because its RPC has a deadline and its goroutine runs on; a
\* caller whose call is done wakes up.
LoadFairness ==
  /\ \A c \in Calls : WF_loadState(LoaderStep(c))
  /\ \A p \in Callers : WF_loadState(Receive(p))

(***************************************************************************)
(* Properties.                                                             *)
(***************************************************************************)

\* A slot is held exactly by each load that runs, whoever started it and
\* whether anybody still waits for it: release never blocks, no slot leaks, and
\* the capacity bounds the loads at the control plane (defer release in the
\* loaders, missAdmission.acquire).
SlotsHeldByLoads ==
  /\ inflight = Cardinality({c \in Calls : call[c].phase = "open"})
  /\ inflight <= InflightMax

\* The group holds a call exactly from its start until its goroutine removes
\* it: one key is never loaded twice at a time, and nobody joins a call whose
\* completion was published, so a retry after a lost race loads afresh ("a
\* revision-race retry must create a fresh load", cache.go).
RegisteredUntilRemoved ==
  \A k \in LoadKeys, c \in Calls :
    calls[k] = c <=> call[c].key = k /\ call[c].phase \in {"open", "loaded"}

\* In any stretch of time the admission lets no more loads start than its
\* burst and what that time earns (missAdmission.acquire).
AdmissionBounded == admitted <= Burst + window

\* A caller never waits forever: its call ends and wakes it, even when the
\* caller that started the call has gone (loadGroup.Do).
CallersReturn == \A p \in Callers : on[p] # NoCall ~> on[p] = NoCall

\* What the steps preserve.  A caller only waits for a call that has begun, and
\* the bucket never owes more than the stretch has earned.
LoadInv ==
  /\ LoadTypeOK
  /\ SlotsHeldByLoads
  /\ RegisteredUntilRemoved
  /\ admitted + Refilled <= Burst + window
=============================================================================
