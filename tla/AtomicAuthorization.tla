------------------------- MODULE AtomicAuthorization -------------------------
(***************************************************************************)
(* What a request is promised (http_server/vbucket.go Resolver): it is      *)
(* authorized and routed as if its credential with the policy, the base     *)
(* domains and its mapping had all been read in one instant, from the       *)
(* revision the proxy has accepted, while the proxy was ready.              *)
(***************************************************************************)
EXTENDS World

CONSTANTS Procs, Credential, Mapping,
          None   \* no request of this goroutine has been granted

VARIABLES
  ready,     \* the proxy is synchronized
  revision,  \* the revision it has accepted
  granted    \* what each granted request acts on

atomicState == <<log, ready, revision, granted>>

AtomicInit ==
  /\ WorldInit
  /\ ready = FALSE
  /\ revision = 0
  /\ granted = [p \in Procs |-> None]

ChangeOutside == ChangeWorld /\ UNCHANGED <<ready, revision, granted>>

\* The accepted revision never goes back and never runs ahead of the world.
Follow ==
  /\ ready' \in BOOLEAN
  /\ revision' \in revision..newest
  /\ UNCHANGED <<log, granted>>

\* Everything the request acts on, as it is at the accepted revision.  A
\* request that needs no mapping has none.
Grant(p) ==
  /\ ready
  /\ granted[p] = None
  /\ LET world == log[revision]
     IN  /\ world.value[Credential] # Absent
         /\ \E mapping \in {Absent, world.value[Mapping]} :
              granted' = [granted EXCEPT ![p] =
                            [revision |-> revision, creds |-> world.value[Credential],
                             hosts |-> world.hosts, mapping |-> mapping]]
  /\ UNCHANGED <<log, ready, revision>>

Release(p) ==
  /\ granted' = [granted EXCEPT ![p] = None]
  /\ UNCHANGED <<log, ready, revision>>

AtomicNext == ChangeOutside \/ Follow \/ \E p \in Procs : Grant(p) \/ Release(p)

AtomicSpec == AtomicInit /\ [][AtomicNext]_atomicState

=============================================================================
