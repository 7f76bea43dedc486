------------------------------- MODULE World -------------------------------
(***************************************************************************)
(* The state the control plane owns: credentials, mappings and base         *)
(* domains, and every revision of them.  The control plane is not part of   *)
(* the repository; it is modelled from the requests the proxy makes and the *)
(* frames and answers it accepts (api/v1/controlplane.proto).               *)
(***************************************************************************)
EXTENDS Integers, Sequences, FiniteSets

CONSTANTS
  Revisions,    \* the revisions that can be used
  Hosts,        \* base domains
  BaseHostMax,  \* the largest registry the proxy is configured for
  Entities,     \* cache keys of credentials and of mappings
  Values,       \* their values, told apart by the revision that wrote them
  Absent        \* the value of a credential or mapping that does not exist

ASSUME WorldAssumption ==
  /\ Revisions \subseteq Nat
  /\ 1 \in Revisions
  /\ Values = Revisions \ {0}
  /\ Absent \notin Values
  /\ IsFiniteSet(Hosts)
  /\ BaseHostMax \in Nat

VARIABLE log   \* log[r]: the world at revision r, and the change that made it

NoDelta == [kind |-> "none"]

Deltas ==
  {NoDelta} \cup [kind: {"entity"}, entity: Entities, remove: BOOLEAN]
            \cup [kind: {"baseHost"}, host: Hosts, remove: BOOLEAN]

Version ==
  [value: [Entities -> Values \cup {Absent}], hosts: SUBSET Hosts, delta: Deltas]

newest == Len(log)

WorldInit ==
  \E v \in [Entities -> {1, Absent}], h \in SUBSET Hosts :
    /\ Cardinality(h) <= BaseHostMax
    /\ log = <<[value |-> v, hosts |-> h, delta |-> NoDelta]>>

Publish(version) ==
  /\ newest + 1 \in Revisions
  /\ log' = Append(log, version)

PutEntity(e) ==
  Publish([value |-> [log[newest].value EXCEPT ![e] = newest + 1],
           hosts |-> log[newest].hosts,
           delta |-> [kind |-> "entity", entity |-> e, remove |-> FALSE]])

RemoveEntity(e) ==
  /\ log[newest].value[e] # Absent
  /\ Publish([value |-> [log[newest].value EXCEPT ![e] = Absent],
              hosts |-> log[newest].hosts,
              delta |-> [kind |-> "entity", entity |-> e, remove |-> TRUE]])

\* The registry stays within the bound the proxy is configured with.
PutHost(h) ==
  /\ Cardinality(log[newest].hosts \cup {h}) <= BaseHostMax
  /\ Publish([value |-> log[newest].value,
              hosts |-> log[newest].hosts \cup {h},
              delta |-> [kind |-> "baseHost", host |-> h, remove |-> FALSE]])

RemoveHost(h) ==
  /\ h \in log[newest].hosts
  /\ Publish([value |-> log[newest].value,
              hosts |-> log[newest].hosts \ {h},
              delta |-> [kind |-> "baseHost", host |-> h, remove |-> TRUE]])

ChangeWorld ==
  \/ \E e \in Entities : PutEntity(e) \/ RemoveEntity(e)
  \/ \E h \in Hosts : PutHost(h) \/ RemoveHost(h)

=============================================================================
