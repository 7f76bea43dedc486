----------------------------- MODULE LocalCache -----------------------------
(***************************************************************************)
(* localCache of controlplane/cache.go: a bounded map with a deadline per   *)
(* entry and a list of its keys in the order of their use, which every      *)
(* operation has to keep in step.  Each operation is one critical section   *)
(* of the cache's mutex.                                                    *)
(*                                                                          *)
(* The history variables record what a caller may count on, whatever the    *)
(* cache does with its map and its list: the entry that was last set for a  *)
(* key, and the other keys used since the key was.                          *)
(***************************************************************************)
EXTENDS Integers, Sequences, FiniteSets

CONSTANTS
  Keys,
  Values,
  Lifetimes,   \* the ttl arguments of Set
  Configured,  \* the maximum the cache is configured with
  NoEntry      \* no entry was set, or it was invalidated

Entry == [value: Values, expiresAt: Int]

ASSUME CacheAssumption ==
  /\ IsFiniteSet(Keys)
  /\ Lifetimes \subseteq Int
  /\ Configured \in Int
  /\ NoEntry \notin Entry

VARIABLES
  entries,   \* localCache.entries
  order,     \* localCache.order, most recently used first
  clock,     \* now()
  answer,    \* what the last operation returned, if it was GetIfPresent
  promised,  \* history: the last entry set for a key and not invalidated
  since      \* history: the other keys used since a key was last used

cacheState == <<entries, order, clock, answer, promised, since>>

\* newLocalCache
Maximum == IF Configured < 1 THEN 1 ELSE Configured

NoAnswer == [kind |-> "none"]
Hit(k, v) == [kind |-> "hit", key |-> k, value |-> v]
Miss(k) == [kind |-> "miss", key |-> k]

Answers ==
  {NoAnswer} \cup [kind: {"hit"}, key: Keys, value: Values] \cup [kind: {"miss"}, key: Keys]

LocalCacheTypeOK ==
  /\ entries \in [DOMAIN entries -> Entry]
  /\ DOMAIN entries \subseteq Keys
  /\ order \in Seq(Keys)
  /\ clock \in Nat
  /\ answer \in Answers
  /\ promised \in [Keys -> Entry \cup {NoEntry}]
  /\ since \in [Keys -> SUBSET Keys]

CacheInit ==
  /\ entries = << >>
  /\ order = << >>
  /\ clock = 0
  /\ answer = NoAnswer
  /\ promised = [k \in Keys |-> NoEntry]
  /\ since = [k \in Keys |-> {}]

(***************************************************************************)
(* The list and the map.                                                   *)
(***************************************************************************)

Position(k) == CHOOSE i \in DOMAIN order : order[i] = k

\* list.Remove
Without(k) ==
  SubSeq(order, 1, Position(k) - 1) \o SubSeq(order, Position(k) + 1, Len(order))

\* list.MoveToFront
MovedToFront(k) == <<k>> \o Without(k)

Deleted(k) == [x \in DOMAIN entries \ {k} |-> entries[x]]

Stored(k, entry) ==
  [x \in DOMAIN entries \cup {k} |-> IF x = k THEN entry ELSE entries[x]]

\* k is used: it is the most recent key for all others.
Used(k) == since' = [x \in Keys |-> IF x = k THEN {} ELSE since[x] \cup {k}]

(***************************************************************************)
(* The operations.                                                         *)
(***************************************************************************)

GetAbsent(k) ==
  /\ k \notin DOMAIN entries
  /\ answer' = Miss(k)
  /\ UNCHANGED <<entries, order, clock, promised, since>>

\* An entry is gone at its deadline, not only after it.
GetExpired(k) ==
  /\ k \in DOMAIN entries
  /\ entries[k].expiresAt <= clock
  /\ order' = Without(k)
  /\ entries' = Deleted(k)
  /\ answer' = Miss(k)
  /\ UNCHANGED <<clock, promised, since>>

\* Mutant: a hit leaves the list alone, so the oldest insertion is evicted.
HitInPlace(k) ==
  /\ k \in DOMAIN entries
  /\ entries[k].expiresAt > clock
  /\ answer' = Hit(k, entries[k].value)
  /\ Used(k)
  /\ UNCHANGED <<entries, order, clock, promised>>

GetPresent(k) ==
  /\ k \in DOMAIN entries
  /\ entries[k].expiresAt > clock
  /\ order' = MovedToFront(k)
  /\ answer' = Hit(k, entries[k].value)
  /\ Used(k)
  /\ UNCHANGED <<entries, clock, promised>>

GetIfPresent(k) == GetAbsent(k) \/ GetExpired(k) \/ GetPresent(k)

\* A set without a lifetime changes nothing: an older entry stays.
SetNothing(k, ttl) ==
  /\ ttl <= 0
  /\ answer' = NoAnswer
  /\ UNCHANGED <<entries, order, clock, promised, since>>

SetExisting(k, v, ttl) ==
  LET entry == [value |-> v, expiresAt |-> clock + ttl]
  IN  /\ ttl > 0
      /\ k \in DOMAIN entries
      /\ entries' = Stored(k, entry)
      /\ order' = MovedToFront(k)
      /\ answer' = NoAnswer
      /\ promised' = [promised EXCEPT ![k] = entry]
      /\ Used(k)
      /\ UNCHANGED clock

\* A new key is pushed to the front; the key at the back makes room for it.
SetNew(k, v, ttl) ==
  LET entry == [value |-> v, expiresAt |-> clock + ttl]
      all == Stored(k, entry)
      oldest == order[Len(order)]
  IN  /\ ttl > 0
      /\ k \notin DOMAIN entries
      /\ IF Cardinality(DOMAIN entries) + 1 <= Maximum
         THEN /\ entries' = all
              /\ order' = <<k>> \o order
         ELSE /\ entries' = [x \in DOMAIN all \ {oldest} |-> all[x]]
              /\ order' = <<k>> \o SubSeq(order, 1, Len(order) - 1)
      /\ answer' = NoAnswer
      /\ promised' = [promised EXCEPT ![k] = entry]
      /\ Used(k)
      /\ UNCHANGED clock

Set(k, v, ttl) == SetNothing(k, ttl) \/ SetExisting(k, v, ttl) \/ SetNew(k, v, ttl)

\* Mutant: the key stays in the list.
InvalidateEntryOnly(k) ==
  /\ entries' = Deleted(k)
  /\ answer' = NoAnswer
  /\ promised' = [promised EXCEPT ![k] = NoEntry]
  /\ UNCHANGED <<order, clock, since>>

Invalidate(k) ==
  /\ order' = IF k \in DOMAIN entries THEN Without(k) ELSE order
  /\ entries' = Deleted(k)
  /\ answer' = NoAnswer
  /\ promised' = [promised EXCEPT ![k] = NoEntry]
  /\ UNCHANGED <<clock, since>>

InvalidateAll ==
  /\ entries' = << >>
  /\ order' = << >>
  /\ answer' = NoAnswer
  /\ promised' = [k \in Keys |-> NoEntry]
  /\ UNCHANGED <<clock, since>>

\* Time passes between operations.
Tick ==
  /\ clock' = clock + 1
  /\ answer' = NoAnswer
  /\ UNCHANGED <<entries, order, promised, since>>

CacheNext ==
  \/ \E k \in Keys : GetIfPresent(k) \/ Invalidate(k)
  \/ \E k \in Keys, v \in Values, ttl \in Lifetimes : Set(k, v, ttl)
  \/ InvalidateAll
  \/ Tick

CacheSpec == CacheInit /\ [][CacheNext]_cacheState

(***************************************************************************)
(* What the cache guarantees.                                              *)
(***************************************************************************)

\* The list has every key of the map exactly once, and the map is within its
\* bound: no operation leaves a key in one structure that the other has lost,
\* which would evict the wrong entry or none (cache.go, every operation).
OrderMatchesEntries ==
  /\ \A k \in Keys : k \in DOMAIN entries <=> \E i \in DOMAIN order : order[i] = k
  /\ \A i, j \in DOMAIN order : order[i] = order[j] => i = j
  /\ Cardinality(DOMAIN entries) <= Maximum

Live(k) == promised[k] # NoEntry /\ promised[k].expiresAt > clock

\* GetIfPresent returns the entry that was last set, not one that was replaced,
\* invalidated or past its deadline; and it misses a live entry only when at
\* least Maximum other keys have been used since that key was (eviction takes
\* the least recently used key and no more keys than it must).
AnswersAsPromised ==
  /\ answer.kind = "hit" => Live(answer.key) /\ answer.value = promised[answer.key].value
  /\ answer.kind = "miss" /\ Live(answer.key) => Cardinality(since[answer.key]) >= Maximum

=============================================================================
