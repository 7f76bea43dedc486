--------------------------- MODULE NamespaceProofs ---------------------------
(***************************************************************************)
(* Proofs about Namespace, for all mappings, keys and prefixes: places do   *)
(* not share real keys, so the real S3 behind the proxy implements          *)
(* VirtualStore, tokens work exactly where they were issued, and a listing  *)
(* that was walked to its end is complete.                                  *)
(***************************************************************************)
EXTENDS Namespace, FiniteSetTheorems, WellFoundedInduction, TLAPS

Text == Seq(DOMAIN Characters)

(***************************************************************************)
(* Prefixes.                                                               *)
(***************************************************************************)
\* A set of numbers that has an element has a least one.
LEMMA MinProperties ==
  ASSUME NEW T \in SUBSET Nat, T # {}
  PROVE  Min(T) \in T /\ \A y \in T : Min(T) <= y
<1> DEFINE R == {ss \in Nat \X Nat : ss[1] < ss[2]}
<1>1. IsWellFoundedOn(R, Nat)
  BY NatLessThanWellFounded, Zenon DEF OpToRel
<1>2. PICK x \in T : \A y \in T : ~ (<<y, x>> \in R)
  <2> HIDE DEF R
  <2> QED BY <1>1, WFMin
<1>3. \A y \in T : x <= y
  <2> SUFFICES ASSUME NEW y \in T, y < x
               PROVE  FALSE
    OBVIOUS
  <2>1. <<y, x>> \in Nat \X Nat /\ <<y, x>>[1] < <<y, x>>[2]
    OBVIOUS
  <2> QED BY <2>1, <1>2
<1> QED BY <1>3 DEF Min

\* A set of numbers up to n that has an element has a greatest one.
LEMMA MaxProperties ==
  ASSUME NEW n \in Nat, NEW T \in SUBSET (1..n), T # {}
  PROVE  Max(T) \in T /\ \A y \in T : y <= Max(T)
<1> DEFINE D == {n - i : i \in T}
<1>1. D \in SUBSET Nat /\ D # {}
  <2>1. \A i \in T : i \in 1..n
    OBVIOUS
  <2>2. \A i \in T : n - i \in Nat
    BY <2>1
  <2> QED BY <2>2
<1>2. Min(D) \in D /\ \A d \in D : Min(D) <= d
  <2> HIDE DEF D
  <2> QED BY <1>1, MinProperties
<1>3. PICK x \in T : Min(D) = n - x
  BY <1>2
<1>4. \A y \in T : n - x <= n - y
  BY <1>2, <1>3
<1>5. \A y \in T : x >= y
  BY <1>4
<1> QED BY <1>5 DEF Max

\* What is left of a text when slashes are cut off its ends is a text.
LEMMA TrimType == ASSUME NEW s \in Text PROVE Trim(s) \in Text
<1> DEFINE kept == {i \in DOMAIN s : s[i] # "/"}
<1>1. CASE kept = {}
  BY <1>1 DEF Trim, Text
<1>2. CASE kept # {}
  <2>1. kept \in SUBSET (1..Len(s)) /\ Len(s) \in Nat /\ kept \in SUBSET Nat
    BY DEF Text
  <2> HIDE DEF kept
  <2>2. Min(kept) \in kept /\ Max(kept) \in kept
    BY <1>2, <2>1, MinProperties, MaxProperties
  <2>3. Min(kept) \in 1..Len(s) /\ Max(kept) \in 1..Len(s)
    BY <2>1, <2>2
  <2>4. SubSeq(s, Min(kept), Max(kept)) \in Text
    BY <2>3 DEF Text
  <2> QED BY <1>2, <2>4 DEF Trim, kept
<1> QED BY <1>1, <1>2

\* The prefix of a place is a text.
LEMMA PlaceType == ASSUME NEW p \in Places PROVE p.prefix \in Text
<1>1. PICK m \in Mappings : p = Place(Normalize(m))
  BY DEF Places
<1>2. m.prefix \in Text
  BY NamespaceAssumption DEF Text
<1> QED BY <1>1, <1>2, TrimType DEF Place, Normalize

\* Of two texts that begin a third one, the shorter begins the longer.
LEMMA PrefixOfPrefix ==
  ASSUME NEW s \in Text, NEW t \in Text, NEW k \in Text, NEW l \in Text,
         s \o k = t \o l, Len(s) <= Len(t)
  PROVE  IsPrefix(s, t)
<1>1. Len(s) \in Nat /\ Len(t) \in Nat
  BY DEF Text
<1>2. \A i \in 1..Len(s) : s[i] = (s \o k)[i] /\ t[i] = (t \o l)[i]
  BY <1>1 DEF Text
<1>3. \A i \in 1..Len(s) : s[i] = t[i]
  BY <1>2
<1>4. SubSeq(s, 1, Len(s)) = SubSeq(t, 1, Len(s))
  BY <1>1, <1>3 DEF Text
<1> QED BY <1>4 DEF IsPrefix

\* Texts that are the same after the same prefix are the same.
LEMMA SameAfterPrefix ==
  ASSUME NEW p \in Text, NEW s \in Text, NEW t \in Text, p \o s = p \o t
  PROVE  s = t
<1>1. Len(p) \in Nat /\ Len(s) \in Nat /\ Len(t) \in Nat
  BY DEF Text
<1>2. Len(p \o s) = Len(p) + Len(s) /\ Len(p \o t) = Len(p) + Len(t)
  BY DEF Text
<1>3. Len(s) = Len(t)
  BY <1>1, <1>2
<1>4. \A i \in 1..Len(s) : s[i] = (p \o s)[Len(p) + i] /\ t[i] = (p \o t)[Len(p) + i]
  BY <1>1, <1>3 DEF Text
<1>5. \A i \in 1..Len(s) : s[i] = t[i]
  BY <1>4
<1> QED BY <1>3, <1>5 DEF Text

\* One real key belongs to one key of one place: what PlacesApart asks of the
\* prefixes, and the slash that follows them, keep the places apart.
LEMMA Separate ==
  ASSUME NEW p \in Places, NEW q \in Places, NEW k \in Keys, NEW l \in Keys,
         At(p) = At(q), RealKey(p, k) = RealKey(q, l)
  PROVE  p = q /\ k = l
<1>1. p.prefix \in Text /\ q.prefix \in Text /\ k \in Text /\ l \in Text
  BY PlaceType, NamespaceAssumption DEF Text
<1>2. p.endpoint = q.endpoint /\ p.bucket = q.bucket
  BY DEF At
<1>3. p = q
  <2> SUFFICES ASSUME p # q
               PROVE  FALSE
    OBVIOUS
  <2>1. /\ p.prefix # <<>> /\ ~IsPrefix(Append(p.prefix, "/"), Append(q.prefix, "/"))
        /\ q.prefix # <<>> /\ ~IsPrefix(Append(q.prefix, "/"), Append(p.prefix, "/"))
    BY <1>2, PlacesApart
  <2>2. Append(p.prefix, "/") \o k = Append(q.prefix, "/") \o l
    BY <2>1 DEF RealKey, NormalizedPrefix
  <2>3. Append(p.prefix, "/") \in Text /\ Append(q.prefix, "/") \in Text
    BY <1>1, NamespaceAssumption DEF Text
  <2>4. Len(Append(p.prefix, "/")) \in Nat /\ Len(Append(q.prefix, "/")) \in Nat
    BY <2>3 DEF Text
  <2>5. CASE Len(Append(p.prefix, "/")) <= Len(Append(q.prefix, "/"))
    BY <1>1, <2>1, <2>2, <2>3, <2>5, PrefixOfPrefix
  <2>6. CASE Len(Append(q.prefix, "/")) <= Len(Append(p.prefix, "/"))
    BY <1>1, <2>1, <2>2, <2>3, <2>6, PrefixOfPrefix
  <2> QED BY <2>4, <2>5, <2>6
<1>4. NormalizedPrefix(p) \in Text
  <2>1. Append(p.prefix, "/") \in Text /\ <<>> \in Text
    BY <1>1, NamespaceAssumption DEF Text
  <2> QED BY <2>1 DEF NormalizedPrefix
<1>5. NormalizedPrefix(p) \o k = NormalizedPrefix(p) \o l
  BY <1>3 DEF RealKey
<1> QED BY <1>1, <1>3, <1>4, <1>5, SameAfterPrefix

(***************************************************************************)
(* The inductive invariant.                                                *)
(***************************************************************************)
Routed(m) == Place(m) \in Places

\* A request of the writer has the mapping of a place, and the token it came with
\* was issued under the mapping it remembers.
WriteInv ==
  /\ write.op \in {"put", "delete", "copy", "begin", "complete", "abort"} =>
       Routed(write.m) /\ write.key \in Keys
  /\ write.op = "copy" => write.from \in Keys
  /\ write.op \in {"complete", "abort"} => write.id \in 1..MaxUploads
  /\ write.op \in {"complete", "abort"} => SameRouting(write.m, write.under)
  /\ write.op = "refused" => ~SameRouting(write.m, write.under)

HeldInv ==
  \A h \in held : /\ h.key \in Keys
                  /\ h.token.value \in 1..MaxUploads
                  /\ h.token = Seal(h.under, "upload", h.token.value)

\* A walk has these parts.
WalkShape(w) ==
  w = [op |-> w.op, version |-> w.version, prefix |-> w.prefix, m |-> w.m, after |-> w.after,
       seen |-> w.seen, first |-> w.first, under |-> w.under, moved |-> w.moved,
       steady |-> w.steady]

\* Between two pages a walk has a token of the mapping of the last one.
WalkInv ==
  /\ walk # None => WalkShape(walk)
  /\ walk.op = "between" /\ walk.version = 2 =>
       walk.after = Seal(walk.m, "continuation", walk.after.value)
  /\ walk.op = "refused" => ~SameRouting(walk.m, walk.under)

\* The real S3 has one object under a key.
ObjectsInv ==
  /\ \A o \in objects : o.value \in Values
  /\ \A o, u \in objects : o.at = u.at /\ o.key = u.key => o = u

NamespaceInv ==
  /\ mapped \in Mappings
  /\ begun \in 0..MaxUploads
  /\ ObjectsInv /\ HeldInv /\ WriteInv /\ WalkInv

\* A token opens under exactly the mappings it shares its routing with.
LEMMA OpensExactly ==
  ASSUME NEW m, NEW n, NEW kind, NEW value
  PROVE  Opens(m, kind, Seal(n, kind, value)) <=> SameRouting(m, n)
BY DEF Opens, Seal, Binding, SameRouting, Place

\* A mapping that can be normalized leads to a place.
LEMMA MappedIsRouted ==
  ASSUME mapped \in Mappings, MappingOK(mapped)
  PROVE  Routed(Normalize(mapped))
BY DEF Routed, Places

\* The bucket is mapped, and nothing is on its way.
LEMMA InitInv == NamespaceInit => NamespaceInv
<1> SUFFICES ASSUME NamespaceInit
             PROVE  NamespaceInv
  OBVIOUS
<1>1. PICK s \in Starts : mapped = s.mapping /\ objects = s.objects
  BY DEF NamespaceInit
<1>2. mapped \in Mappings /\ ObjectsInv
  BY <1>1, NamespaceAssumption DEF ObjectsInv
<1>3. HeldInv /\ WriteInv /\ WalkInv
  BY DEF NamespaceInit, HeldInv, WriteInv, WalkInv, None
<1>4. begun \in 0..MaxUploads
  BY NamespaceAssumption DEF NamespaceInit
<1> QED BY <1>2, <1>3, <1>4 DEF NamespaceInv

\* A request is authorized with the mapping of a place.
LEMMA StartWriteInv ==
  ASSUME NamespaceInv, NEW op \in {"put", "delete", "copy", "begin"}, NEW key \in Keys,
         NEW from \in Keys, StartWrite(op, key, from)
  PROVE  NamespaceInv'
<1>1. Routed(Normalize(mapped))
  BY MappedIsRouted DEF NamespaceInv, StartWrite
<1>2. WriteInv'
  BY <1>1 DEF StartWrite, WriteInv, Routed
<1> QED BY <1>2 DEF NamespaceInv, StartWrite, ObjectsInv, HeldInv, WalkInv

\* An upload call goes on exactly when its token is one of the mapping.
LEMMA StartUploadCallInv ==
  ASSUME NamespaceInv, NEW op \in {"complete", "abort"}, NEW handle \in held,
         StartUploadCall(op, handle)
  PROVE  NamespaceInv'
<1> DEFINE m == Normalize(mapped)
<1>1. Routed(m)
  BY MappedIsRouted DEF NamespaceInv, StartUploadCall
<1>2. /\ handle.key \in Keys /\ handle.token.value \in 1..MaxUploads
      /\ handle.token = Seal(handle.under, "upload", handle.token.value)
  BY DEF NamespaceInv, HeldInv
<1> HIDE DEF m
<1>3. Opens(m, "upload", handle.token) <=> SameRouting(m, handle.under)
  BY <1>2, OpensExactly
<1>4. WriteInv'
  <2>1. CASE Opens(m, "upload", handle.token)
    <3>1. write' = [op |-> op, m |-> m, key |-> handle.key, id |-> handle.token.value,
                    under |-> handle.under]
      BY <2>1 DEF StartUploadCall, m
    <3> QED BY <1>1, <1>2, <1>3, <2>1, <3>1 DEF WriteInv, Routed, SameRouting
  <2>2. CASE ~Opens(m, "upload", handle.token)
    <3>1. write' = [op |-> "refused", m |-> m, under |-> handle.under]
      BY <2>2 DEF StartUploadCall, m
    <3> QED BY <1>3, <2>2, <3>1 DEF WriteInv, SameRouting
  <2> QED BY <2>1, <2>2
<1> QED BY <1>4 DEF NamespaceInv, StartUploadCall, ObjectsInv, HeldInv, WalkInv

\* An object that is written replaces the one under its key.
LEMMA StoredInv ==
  ASSUME ObjectsInv, NEW m, NEW key, NEW v \in Values, objects' = Stored(m, key, v)
  PROVE  ObjectsInv'
BY DEF ObjectsInv, Stored, ObjectsAt

\* What a request does to the real S3 keeps one object under a key.
LEMMA PerformInv == ASSUME NamespaceInv, Perform PROVE NamespaceInv'
<1>1. WriteInv'
  BY DEF Perform, WriteInv, None
<1>2. WalkInv'
  <2>1. CASE walk = None
    BY <2>1 DEF Perform, Observe, WalkInv, None
  <2>2. CASE walk # None
    <3>1. PICK steady : walk' = [walk EXCEPT !.steady = steady]
      BY <2>2 DEF Perform, Observe
    <3>2. WalkShape(walk)
      BY <2>2 DEF NamespaceInv, WalkInv
    <3>3. WalkShape(walk') /\ walk'.op = walk.op /\ walk'.version = walk.version
          /\ walk'.after = walk.after /\ walk'.m = walk.m /\ walk'.under = walk.under
      BY <3>1, <3>2 DEF WalkShape
    <3> QED BY <3>3 DEF NamespaceInv, WalkInv
  <2> QED BY <2>1, <2>2
<1>3. mapped' \in Mappings
  BY DEF Perform, NamespaceInv
<1>4. ObjectsInv'
  <2>1. CASE DoPut
    BY <2>1, StoredInv DEF DoPut, NamespaceInv
  <2>2. CASE DoDelete
    BY <2>2 DEF DoDelete, NamespaceInv, ObjectsInv
  <2>3. CASE DoCopy
    <3> DEFINE sources == ObjectsAt(write.m, RealKey(write.m, write.from))
    <3>1. CASE sources = {}
      BY <2>3, <3>1 DEF DoCopy, NamespaceInv, ObjectsInv
    <3>2. CASE sources # {}
      <4>1. (CHOOSE o \in sources : TRUE) \in objects
        BY <3>2 DEF ObjectsAt
      <4>2. (CHOOSE o \in sources : TRUE).value \in Values
        BY <4>1 DEF NamespaceInv, ObjectsInv
      <4> QED BY <2>3, <3>2, <4>2, StoredInv DEF DoCopy, NamespaceInv
    <3> QED BY <3>1, <3>2
  <2>4. CASE DoComplete
    <3>1. CASE Upload \in pending
      BY <2>4, <3>1, StoredInv DEF DoComplete, NamespaceInv
    <3>2. CASE Upload \notin pending
      BY <2>4, <3>2 DEF DoComplete, NamespaceInv, ObjectsInv
    <3> QED BY <3>1, <3>2
  <2>5. CASE DoBegin \/ DoAbort
    BY <2>5 DEF DoBegin, DoAbort, NamespaceInv, ObjectsInv
  <2> QED BY <2>1, <2>2, <2>3, <2>4, <2>5 DEF Perform
<1>5. begun' \in 0..MaxUploads /\ HeldInv'
  <2>1. CASE DoBegin
    <3>1. begun + 1 \in 1..MaxUploads
      BY <2>1, NamespaceAssumption DEF DoBegin, NamespaceInv
    <3>2. write.key \in Keys
      BY <2>1 DEF DoBegin, NamespaceInv, WriteInv
    <3>3. \A h \in held' : h \in held \/
            h = [token |-> Seal(write.m, "upload", begun + 1), key |-> write.key, under |-> write.m]
      BY <2>1 DEF DoBegin
    <3>4. HeldInv'
      <4> SUFFICES ASSUME NEW h \in held'
                   PROVE  /\ h.key \in Keys /\ h.token.value \in 1..MaxUploads
                          /\ h.token = Seal(h.under, "upload", h.token.value)
        BY DEF HeldInv
      <4>1. CASE h \in held
        BY <4>1 DEF NamespaceInv, HeldInv
      <4>2. CASE h \notin held
        <5>1. /\ h.token = Seal(write.m, "upload", begun + 1)
              /\ h.key = write.key /\ h.under = write.m
          BY <3>3, <4>2
        <5>2. h.token.value = begun + 1
          BY <5>1 DEF Seal
        <5> QED BY <3>1, <3>2, <5>1, <5>2
      <4> QED BY <4>1, <4>2
    <3> QED BY <2>1, <3>1, <3>4, NamespaceAssumption DEF DoBegin
  <2>2. CASE DoPut \/ DoDelete \/ DoCopy \/ DoComplete \/ DoAbort
    BY <2>2 DEF DoPut, DoDelete, DoCopy, DoComplete, DoAbort, NamespaceInv, HeldInv
  <2> QED BY <2>1, <2>2 DEF Perform
<1> QED BY <1>1, <1>2, <1>3, <1>4, <1>5 DEF NamespaceInv

\* A page that is not the last comes with a token of its mapping.
LEMMA FetchPageInv == ASSUME NamespaceInv, FetchPage PROVE NamespaceInv'
<1> DEFINE page == InOrder(Page(Listed(walk.m, RealKey(walk.m, walk.prefix), walk.after)))
<1>0. WalkShape(walk)
  BY DEF FetchPage, NamespaceInv, WalkInv, None
<1>1. \/ walk' = None
      \/ \E seen : walk' = [walk EXCEPT !.op = "done", !.seen = seen]
      \/ \E seen : walk' = [walk EXCEPT !.op = "between", !.seen = seen,
                              !.after = IF walk.version = 1 THEN Last(seen)
                                        ELSE Seal(walk.m, "continuation", Last(page))]
  BY DEF FetchPage
<1> HIDE DEF page
<1>2. WalkInv'
  <2>1. CASE walk' = None
    BY <2>1 DEF WalkInv, None
  <2>2. ASSUME NEW seen, walk' = [walk EXCEPT !.op = "done", !.seen = seen]
        PROVE  WalkInv'
    BY <1>0, <2>2 DEF WalkInv, WalkShape
  <2>3. ASSUME NEW seen,
               walk' = [walk EXCEPT !.op = "between", !.seen = seen,
                          !.after = IF walk.version = 1 THEN Last(seen)
                                    ELSE Seal(walk.m, "continuation", Last(page))]
        PROVE  WalkInv'
    <3>1. /\ WalkShape(walk') /\ walk'.op = "between"
          /\ walk'.version # 1 => walk'.after = Seal(walk'.m, "continuation", Last(page))
      BY <1>0, <2>3 DEF WalkShape
    <3>2. walk'.version # 1 => walk'.after.value = Last(page)
      BY <3>1 DEF Seal
    <3> QED BY <3>1, <3>2 DEF WalkInv
  <2> QED BY <1>1, <2>1, <2>2, <2>3
<1> QED BY <1>2 DEF FetchPage, NamespaceInv, ObjectsInv, HeldInv, WriteInv

\* A walk goes on, or is refused because the routing has changed.
LEMMA NextPageInv == ASSUME NamespaceInv, NextPage PROVE NamespaceInv'
<1> DEFINE m == Normalize(mapped)
           page(after) == [walk EXCEPT !.op = "page", !.m = m, !.after = after,
                             !.moved = @ \/ Place(m) # Place(walk.first)]
<1>1. WalkShape(walk)
  BY DEF NextPage, NamespaceInv, WalkInv, None
<1>2. \/ \E after : walk' = page(after)
      \/ /\ walk.version = 2 /\ walk.op = "between" /\ ~Opens(m, "continuation", walk.after)
         /\ walk' = [walk EXCEPT !.op = "refused", !.under = walk.m, !.m = m]
  BY DEF NextPage
<1>3. WalkInv'
  <2>1. ASSUME NEW after, walk' = page(after)
        PROVE  WalkInv'
    BY <1>1, <2>1 DEF WalkInv, WalkShape
  <2>2. CASE /\ walk.version = 2 /\ walk.op = "between" /\ ~Opens(m, "continuation", walk.after)
             /\ walk' = [walk EXCEPT !.op = "refused", !.under = walk.m, !.m = m]
    <3> HIDE DEF m
    <3>1. walk.after = Seal(walk.m, "continuation", walk.after.value)
      BY <2>2 DEF NamespaceInv, WalkInv
    <3>2. ~SameRouting(m, walk.m)
      BY <2>2, <3>1, OpensExactly
    <3>3. WalkShape(walk') /\ walk'.op = "refused" /\ walk'.under = walk.m /\ walk'.m = m
      BY <1>1, <2>2 DEF WalkShape
    <3> QED BY <3>2, <3>3 DEF WalkInv, SameRouting
  <2> QED BY <1>2, <2>1, <2>2
<1> QED BY <1>3 DEF NextPage, NamespaceInv, ObjectsInv, HeldInv, WriteInv

\* One step of any kind.
LEMMA StepInv == NamespaceInv /\ [NamespaceNext]_vars => NamespaceInv'
<1> SUFFICES ASSUME NamespaceInv, [NamespaceNext]_vars
             PROVE  NamespaceInv'
  OBVIOUS
<1>1. CASE Remap
  BY <1>1 DEF Remap, NamespaceInv, ObjectsInv, HeldInv, WriteInv, WalkInv
<1>2. ASSUME NEW op \in {"put", "delete", "copy", "begin"}, NEW key \in Keys, NEW from \in Keys,
             StartWrite(op, key, from)
      PROVE  NamespaceInv'
  BY <1>2, StartWriteInv
<1>3. ASSUME NEW op \in {"complete", "abort"}, NEW handle \in held, StartUploadCall(op, handle)
      PROVE  NamespaceInv'
  BY <1>3, StartUploadCallInv
<1>4. CASE Perform
  BY <1>4, PerformInv
<1>5. CASE LoseWrite
  BY <1>5 DEF LoseWrite, NamespaceInv, ObjectsInv, HeldInv, WriteInv, WalkInv, None
<1>6. ASSUME NEW version \in {1, 2}, NEW prefix \in ListPrefixes, StartWalk(version, prefix)
      PROVE  NamespaceInv'
  <2>1. WalkInv'
    BY <1>6 DEF StartWalk, WalkInv, WalkShape
  <2> QED BY <1>6, <2>1 DEF StartWalk, NamespaceInv, ObjectsInv, HeldInv, WriteInv
<1>7. CASE FetchPage
  BY <1>7, FetchPageInv
<1>8. CASE NextPage
  BY <1>8, NextPageInv
<1>9. CASE EndWalk
  BY <1>9 DEF EndWalk, NamespaceInv, ObjectsInv, HeldInv, WriteInv, WalkInv, None
<1>10. CASE UNCHANGED vars
  BY <1>10 DEF vars, NamespaceInv, ObjectsInv, HeldInv, WriteInv, WalkInv
<1> QED BY <1>1, <1>2, <1>3, <1>4, <1>5, <1>6, <1>7, <1>8, <1>9, <1>10 DEF NamespaceNext

\* The inductive invariant holds of every reachable state, for all mappings and keys
\* (proxyS3Request, encodeOpaqueToken).
THEOREM NamespaceInvariant == NamespaceSpec => []NamespaceInv
BY InitInv, StepInv, PTL DEF NamespaceSpec

\* A token works exactly where it was issued, for all mappings and keys
\* (encodeOpaqueToken, decodeOpaqueToken).
THEOREM TokensSound == NamespaceSpec => []TokensExact
<1>1. NamespaceInv => TokensExact
  BY DEF NamespaceInv, WriteInv, WalkInv, TokensExact
<1> QED BY <1>1, NamespaceInvariant, PTL

(***************************************************************************)
(* Refinement: the real S3 behind the proxy implements VirtualStore.        *)
(***************************************************************************)
Store == [p \in Places |-> [k \in Keys |-> ValueAt(p, k)]]
Uploads == {u \in [place: Places, key: Keys, id: 1..MaxUploads] :
              UploadOf(u.place, u.key, u.id) \in pending}

\* A mapping names the same objects as its place.
LEMMA MappingAsPlace ==
  ASSUME NEW m, NEW key
  PROVE  At(m) = At(Place(m)) /\ RealKey(m, key) = RealKey(Place(m), key)
BY DEF At, Place, RealKey, NormalizedPrefix

\* An object that is written is seen under its key in its place and nowhere else.
LEMMA StoredRefines ==
  ASSUME NEW m, Routed(m), NEW key \in Keys, NEW v \in Values,
         objects' = Stored(m, RealKey(m, key), v)
  PROVE  Store' = [Store EXCEPT ![Place(m)][key] = v]
<1> DEFINE q == Place(m)
<1>1. q \in Places
  BY DEF Routed
<1>2. objects' = (objects \ ObjectsAt(q, RealKey(q, key)))
                   \cup {[at |-> At(q), key |-> RealKey(q, key), value |-> v]}
  BY MappingAsPlace DEF Stored, ObjectsAt
<1> HIDE DEF q
<1>3. ValueAt(q, key)' = v
  <2>1. ObjectsAt(q, RealKey(q, key))' = {[at |-> At(q), key |-> RealKey(q, key), value |-> v]}
    <3> DEFINE o == [at |-> At(q), key |-> RealKey(q, key), value |-> v]
    <3>1. o.at = At(q) /\ o.key = RealKey(q, key)
      OBVIOUS
    <3>2. ObjectsAt(q, RealKey(q, key))' =
            {u \in objects' : u.at = At(q) /\ u.key = RealKey(q, key)}
      BY DEF ObjectsAt
    <3> HIDE DEF o
    <3>3. objects' = (objects \ ObjectsAt(q, RealKey(q, key))) \cup {o}
      BY <1>2 DEF o
    <3>4. ObjectsAt(q, RealKey(q, key))' = {o}
      BY <3>1, <3>2, <3>3 DEF ObjectsAt
    <3> QED BY <3>4 DEF o
  <2> DEFINE o == [at |-> At(q), key |-> RealKey(q, key), value |-> v]
             found == ObjectsAt(q, RealKey(q, key))'
  <2>2. o.value = v
    OBVIOUS
  <2>3. ValueAt(q, key)' = IF found = {} THEN Absent ELSE (CHOOSE x \in found : TRUE).value
    BY DEF ValueAt, ObjectsAt
  <2>4. found = {o}
    BY <2>1
  <2> HIDE DEF o, found
  <2>5. found # {} /\ (CHOOSE x \in found : TRUE) = o
    BY <2>4
  <2> QED BY <2>2, <2>3, <2>5
<1>4. ASSUME NEW p \in Places, NEW k \in Keys, p # q \/ k # key
      PROVE  ValueAt(p, k)' = ValueAt(p, k)
  <2>1. ~(At(p) = At(q) /\ RealKey(p, k) = RealKey(q, key))
    BY <1>1, <1>4, Separate
  <2>2. ObjectsAt(p, RealKey(p, k))' = ObjectsAt(p, RealKey(p, k))
    BY <1>2, <2>1 DEF ObjectsAt
  <2> QED BY <2>2 DEF ValueAt
<1>5. Store' = [Store EXCEPT ![q][key] = v]
  BY <1>1, <1>3, <1>4 DEF Store
<1> QED BY <1>5 DEF q

\* So is one that is deleted.
LEMMA DeletedRefines ==
  ASSUME NEW m, Routed(m), NEW key \in Keys,
         objects' = objects \ ObjectsAt(m, RealKey(m, key))
  PROVE  Store' = [Store EXCEPT ![Place(m)][key] = Absent]
<1> DEFINE q == Place(m)
<1>1. q \in Places
  BY DEF Routed
<1>2. objects' = objects \ ObjectsAt(q, RealKey(q, key))
  BY MappingAsPlace DEF ObjectsAt
<1> HIDE DEF q
<1>3. ValueAt(q, key)' = Absent
  <2>1. ObjectsAt(q, RealKey(q, key))' = {}
    BY <1>2 DEF ObjectsAt
  <2> QED BY <2>1 DEF ValueAt
<1>4. ASSUME NEW p \in Places, NEW k \in Keys, p # q \/ k # key
      PROVE  ValueAt(p, k)' = ValueAt(p, k)
  <2>1. ~(At(p) = At(q) /\ RealKey(p, k) = RealKey(q, key))
    BY <1>1, <1>4, Separate
  <2>2. ObjectsAt(p, RealKey(p, k))' = ObjectsAt(p, RealKey(p, k))
    BY <1>2, <2>1 DEF ObjectsAt
  <2> QED BY <2>2 DEF ValueAt
<1>5. Store' = [Store EXCEPT ![q][key] = Absent]
  BY <1>1, <1>3, <1>4 DEF Store
<1> QED BY <1>5 DEF q

\* What leaves the objects alone leaves the stores alone.
LEMMA SameObjects == ASSUME objects' = objects PROVE Store' = Store
BY DEF Store, ValueAt, ObjectsAt

\* What leaves the uploads alone leaves those of each place alone.
LEMMA SamePending == ASSUME pending' = pending PROVE Uploads' = Uploads
BY DEF Uploads

\* An upload of the real S3 is one upload of one place.
LEMMA UploadsApart ==
  ASSUME NEW p \in Places, NEW q \in Places, NEW k \in Keys, NEW l \in Keys, NEW i, NEW j,
         UploadOf(p, k, i) = UploadOf(q, l, j)
  PROVE  p = q /\ k = l /\ i = j
<1>1. At(p) = At(q) /\ RealKey(p, k) = RealKey(q, l) /\ i = j
  BY DEF UploadOf
<1> QED BY <1>1, Separate

\* An upload that begins is an upload of its place and of no other.
LEMMA BeginRefines ==
  ASSUME NEW q \in Places, NEW key \in Keys, NEW id \in 1..MaxUploads,
         pending' = pending \cup {UploadOf(q, key, id)}
  PROVE  Uploads' = Uploads \cup {[place |-> q, key |-> key, id |-> id]}
<1> DEFINE u == [place |-> q, key |-> key, id |-> id]
<1>1. u \in [place: Places, key: Keys, id: 1..MaxUploads]
  OBVIOUS
<1>2. ASSUME NEW w \in [place: Places, key: Keys, id: 1..MaxUploads]
      PROVE  UploadOf(w.place, w.key, w.id) = UploadOf(q, key, id) <=> w = u
  <2>1. ASSUME UploadOf(w.place, w.key, w.id) = UploadOf(q, key, id)
        PROVE  w = u
    <3>1. w.place \in Places /\ w.key \in Keys
      OBVIOUS
    <3>2. w.place = q /\ w.key = key /\ w.id = id
      BY <2>1, <3>1, UploadsApart
    <3> QED BY <3>2
  <2> QED BY <2>1
<1> HIDE DEF u
<1>3. Uploads' = Uploads \cup {u}
  BY <1>1, <1>2 DEF Uploads
<1> QED BY <1>3 DEF u

\* An upload that ends is gone from its place and from no other.
LEMMA RemoveRefines ==
  ASSUME NEW q \in Places, NEW key \in Keys, NEW id \in 1..MaxUploads,
         pending' = pending \ {UploadOf(q, key, id)}
  PROVE  /\ Uploads' = Uploads \ {[place |-> q, key |-> key, id |-> id]}
         /\ UploadOf(q, key, id) \in pending => [place |-> q, key |-> key, id |-> id] \in Uploads
         /\ UploadOf(q, key, id) \notin pending => Uploads' = Uploads
<1> DEFINE u == [place |-> q, key |-> key, id |-> id]
<1>1. u \in [place: Places, key: Keys, id: 1..MaxUploads]
  OBVIOUS
<1>2. ASSUME NEW w \in [place: Places, key: Keys, id: 1..MaxUploads]
      PROVE  UploadOf(w.place, w.key, w.id) = UploadOf(q, key, id) <=> w = u
  <2>1. ASSUME UploadOf(w.place, w.key, w.id) = UploadOf(q, key, id)
        PROVE  w = u
    <3>1. w.place \in Places /\ w.key \in Keys
      OBVIOUS
    <3>2. w.place = q /\ w.key = key /\ w.id = id
      BY <2>1, <3>1, UploadsApart
    <3> QED BY <3>2
  <2> QED BY <2>1
<1>3. UploadOf(u.place, u.key, u.id) = UploadOf(q, key, id)
  OBVIOUS
<1> HIDE DEF u
<1>4. Uploads' = Uploads \ {u}
  BY <1>1, <1>2 DEF Uploads
<1>5. UploadOf(q, key, id) \in pending => u \in Uploads
  BY <1>1, <1>3 DEF Uploads
<1>6. UploadOf(q, key, id) \notin pending => Uploads' = Uploads
  BY <1>1, <1>2, <1>4 DEF Uploads
<1> QED BY <1>4, <1>5, <1>6 DEF u

\* What a request does to the real S3 is one step of VirtualStore, or none.
LEMMA PerformRefines ==
  ASSUME NamespaceInv, Perform
  PROVE  [VS!StoreNext]_<<Store, Uploads>>
<1> DEFINE q == Place(write.m)
<1>1. Routed(write.m) /\ q \in Places /\ write.key \in Keys
  BY DEF Perform, DoPut, DoDelete, DoCopy, DoBegin, DoComplete, DoAbort, NamespaceInv, WriteInv,
         Routed
<1>2. Target = RealKey(write.m, write.key)
  BY DEF Target
<1>3. CASE DoPut
  <2>1. PICK v \in Values : objects' = Stored(write.m, RealKey(write.m, write.key), v)
    BY <1>2, <1>3 DEF DoPut
  <2>2. Store' = [Store EXCEPT ![q][write.key] = v]
    BY <1>1, <2>1, StoredRefines
  <2>3. Uploads' = Uploads
    BY <1>3, SamePending DEF DoPut
  <2>4. VS!Put(q, write.key, v)
    BY <2>2, <2>3 DEF VS!Put, Store, Uploads
  <2> QED BY <1>1, <2>4 DEF VS!StoreNext
<1>4. CASE DoDelete
  <2>1. Store' = [Store EXCEPT ![q][write.key] = Absent]
    BY <1>1, <1>2, <1>4, DeletedRefines DEF DoDelete
  <2>2. Uploads' = Uploads
    BY <1>4, SamePending DEF DoDelete
  <2>3. VS!Delete(q, write.key)
    BY <2>1, <2>2 DEF VS!Delete, Store, Uploads
  <2> QED BY <1>1, <2>3 DEF VS!StoreNext
<1>5. CASE DoCopy
  <2> DEFINE sources == ObjectsAt(write.m, RealKey(write.m, write.from))
             v == (CHOOSE o \in sources : TRUE).value
  <2>1. Uploads' = Uploads
    BY <1>5, SamePending DEF DoCopy
  <2>2. CASE sources = {}
    <3>1. Store' = Store
      BY <1>5, <2>2, SameObjects DEF DoCopy
    <3> QED BY <2>1, <3>1
  <2>3. CASE sources # {}
    <3>1. write.from \in Keys
      BY <1>5 DEF DoCopy, NamespaceInv, WriteInv
    <3>2. (CHOOSE o \in sources : TRUE) \in objects
      BY <2>3 DEF ObjectsAt
    <3>3. v \in Values
      BY <3>2 DEF NamespaceInv, ObjectsInv
    <3>4. ObjectsAt(q, RealKey(q, write.from)) = sources
      BY MappingAsPlace DEF ObjectsAt
    <3>5. ValueAt(q, write.from) = v
      BY <2>3, <3>4 DEF ValueAt
    <3>6. Store[q][write.from] = v
      BY <1>1, <3>1, <3>5 DEF Store
    <3>7. objects' = Stored(write.m, RealKey(write.m, write.key), v)
      BY <1>2, <1>5, <2>3 DEF DoCopy
    <3> HIDE DEF v
    <3>8. Store' = [Store EXCEPT ![q][write.key] = v]
      BY <1>1, <3>3, <3>7, StoredRefines
    <3>9. v # Absent
      BY <3>3, NamespaceAssumption
    <3>10. VS!Copy(q, write.from, write.key)
      BY <2>1, <3>6, <3>8, <3>9 DEF VS!Copy, Store, Uploads
    <3> QED BY <1>1, <3>1, <3>10 DEF VS!StoreNext
  <2> QED BY <2>2, <2>3
<1>6. CASE DoBegin
  <2>1. begun + 1 \in 1..MaxUploads
    <3>1. begun \in 0..MaxUploads /\ MaxUploads \in Nat
      BY NamespaceAssumption DEF NamespaceInv
    <3>2. begun + 1 <= MaxUploads
      BY <1>6 DEF DoBegin
    <3> QED BY <3>1, <3>2
  <2>2. pending' = pending \cup {UploadOf(q, write.key, begun + 1)}
    BY <1>2, <1>6, MappingAsPlace DEF DoBegin, UploadOf
  <2>3. Uploads' = Uploads \cup {[place |-> q, key |-> write.key, id |-> begun + 1]}
    BY <1>1, <2>1, <2>2, BeginRefines
  <2>4. Store' = Store
    BY <1>6, SameObjects DEF DoBegin
  <2>5. VS!Begin(q, write.key, begun + 1)
    BY <2>3, <2>4 DEF VS!Begin, Store, Uploads
  <2> QED BY <1>1, <2>1, <2>5 DEF VS!StoreNext
<1>7. CASE DoComplete \/ DoAbort
  <2> DEFINE u == [place |-> q, key |-> write.key, id |-> write.id]
  <2>1. write.id \in 1..MaxUploads
    BY <1>7 DEF DoComplete, DoAbort, NamespaceInv, WriteInv
  <2>2. Upload = UploadOf(q, write.key, write.id)
    BY <1>2, MappingAsPlace DEF Upload, UploadOf
  <2>3. pending' = pending \ {UploadOf(q, write.key, write.id)}
    BY <1>7, <2>2 DEF DoComplete, DoAbort
  <2>4. /\ Uploads' = Uploads \ {u}
        /\ Upload \in pending => u \in Uploads
        /\ Upload \notin pending => Uploads' = Uploads
    BY <1>1, <2>1, <2>2, <2>3, RemoveRefines
  <2>5. CASE DoComplete /\ Upload \in pending
    <3>1. PICK v \in Values : objects' = Stored(write.m, RealKey(write.m, write.key), v)
      BY <1>2, <2>5 DEF DoComplete
    <3>2. Store' = [Store EXCEPT ![u.place][u.key] = v]
      BY <1>1, <3>1, StoredRefines
    <3>3. VS!Complete(u)
      BY <2>4, <3>2 DEF VS!Complete, Store, Uploads
    <3>4. u \in Uploads
      BY <2>4, <2>5
    <3> QED BY <3>3, <3>4 DEF VS!StoreNext, Uploads
  <2>6. CASE Upload \notin pending
    <3>1. Store' = Store
      BY <1>7, <2>6, SameObjects DEF DoComplete, DoAbort
    <3> QED BY <2>4, <2>6, <3>1
  <2>7. CASE DoAbort /\ Upload \in pending
    <3>1. Store' = Store
      BY <2>7, SameObjects DEF DoAbort
    <3>2. VS!Forget(u)
      BY <2>4, <3>1 DEF VS!Forget, Store, Uploads
    <3>3. u \in Uploads
      BY <2>4, <2>7
    <3> QED BY <3>2, <3>3 DEF VS!StoreNext, Uploads
  <2> QED BY <1>7, <2>5, <2>6, <2>7
<1> QED BY <1>3, <1>4, <1>5, <1>6, <1>7 DEF Perform

\* No other step touches the real S3.
LEMMA StepRefines ==
  ASSUME NamespaceInv, [NamespaceNext]_vars
  PROVE  [VS!StoreNext]_<<Store, Uploads>>
<1>1. CASE Perform
  BY <1>1, PerformRefines
<1>2. CASE ~Perform
  <2>1. objects' = objects /\ pending' = pending
    BY <1>2 DEF NamespaceNext, vars, Remap, StartWrite, StartUploadCall, LoseWrite, StartWalk,
                FetchPage, NextPage, EndWalk
  <2> QED BY <2>1, SameObjects, SamePending
<1> QED BY <1>1, <1>2

\* What is there at the beginning is a state of the virtual stores.
LEMMA InitRefines == ASSUME NamespaceInit PROVE VS!StoreInit
<1>1. ObjectsInv
  BY InitInv DEF NamespaceInv
<1>2. ASSUME NEW p \in Places, NEW k \in Keys
      PROVE  ValueAt(p, k) \in Values \cup {Absent}
  <2> DEFINE found == ObjectsAt(p, RealKey(p, k))
  <2>1. found # {} => (CHOOSE o \in found : TRUE) \in objects
    BY DEF ObjectsAt
  <2> QED BY <1>1, <2>1 DEF ValueAt, ObjectsInv
<1>3. Store \in [Places -> [Keys -> Values \cup {Absent}]]
  BY <1>2 DEF Store
<1>4. Uploads = {}
  BY DEF NamespaceInit, Uploads
<1> QED BY <1>3, <1>4 DEF VS!StoreInit, Store, Uploads

\* Each place is a store of its own, for all mappings whose prefixes keep their
\* places apart, all keys and values and any number of remaps (proxyS3Request).
THEOREM VirtualStoreRefined == NamespaceSpec => ImplementsVirtualStore
<1>1. [VS!StoreNext]_<<Store, Uploads>> <=>
        [VS!StoreNext]_<<[p \in Places |-> [k \in Keys |-> ValueAt(p, k)]],
                         {u \in [place: Places, key: Keys, id: 1..MaxUploads] :
                            UploadOf(u.place, u.key, u.id) \in pending}>>
  BY DEF Store, Uploads
<1>2. NamespaceInv /\ [NamespaceNext]_vars =>
        [VS!StoreNext]_<<[p \in Places |-> [k \in Keys |-> ValueAt(p, k)]],
                         {u \in [place: Places, key: Keys, id: 1..MaxUploads] :
                            UploadOf(u.place, u.key, u.id) \in pending}>>
  BY <1>1, StepRefines
<1> QED BY <1>2, InitRefines, NamespaceInvariant, PTL
        DEF NamespaceSpec, ImplementsVirtualStore, VS!StoreSpec


(***************************************************************************)
(* The order of keys.                                                      *)
(***************************************************************************)
\* Two texts are the same up to a place.
Agree(s, t, n) == \A i \in 1..n : s[i] = t[i]

\* A text comes before another where they first differ, or by its end.
LEMMA BeforeMeans ==
  ASSUME NEW s \in Text, NEW t \in Text
  PROVE  Before(s, t) <=>
           \/ Len(s) < Len(t) /\ Agree(s, t, Len(s))
           \/ \E i \in 1..Len(s) : /\ i <= Len(t) /\ Agree(s, t, i - 1)
                                   /\ Characters[s[i]] < Characters[t[i]]
<1>1. Len(s) \in Nat /\ Len(t) \in Nat /\ DOMAIN s = 1..Len(s) /\ DOMAIN t = 1..Len(t)
  BY DEF Text
<1>2. ASSUME NEW n \in Nat, n <= Len(s), n <= Len(t)
      PROVE  SubSeq(s, 1, n) = SubSeq(t, 1, n) <=> Agree(s, t, n)
  <2>1. ASSUME SubSeq(s, 1, n) = SubSeq(t, 1, n)
        PROVE  Agree(s, t, n)
    <3>1. \A i \in 1..n : SubSeq(s, 1, n)[i] = s[i] /\ SubSeq(t, 1, n)[i] = t[i]
      BY <1>1, <1>2 DEF Text
    <3> QED BY <2>1, <3>1 DEF Agree
  <2>2. ASSUME Agree(s, t, n)
        PROVE  SubSeq(s, 1, n) = SubSeq(t, 1, n)
    BY <1>1, <1>2, <2>2 DEF Agree, Text
  <2> QED BY <2>1, <2>2
<1>3. IsPrefix(s, t) /\ s # t <=> Len(s) < Len(t) /\ Agree(s, t, Len(s))
  <2>1. SubSeq(s, 1, Len(s)) = s
    BY <1>1 DEF Text
  <2>2. IsPrefix(s, t) <=> Len(s) <= Len(t) /\ Agree(s, t, Len(s))
    <3>1. CASE Len(s) <= Len(t)
      BY <1>1, <1>2, <2>1, <3>1 DEF IsPrefix
    <3>2. CASE ~(Len(s) <= Len(t))
      BY <3>2 DEF IsPrefix
    <3> QED BY <3>1, <3>2
  <2>3. Len(s) = Len(t) /\ Agree(s, t, Len(s)) => s = t
    BY <1>1 DEF Agree, Text
  <2>4. Len(s) < Len(t) => s # t
    BY <1>1
  <2>5. CASE Len(s) < Len(t)
    BY <1>1, <2>2, <2>4, <2>5
  <2>6. CASE Len(s) = Len(t)
    BY <1>1, <2>2, <2>3, <2>6
  <2>7. CASE Len(t) < Len(s)
    <3>1. ~(Len(s) <= Len(t)) /\ ~(Len(s) < Len(t))
      BY <1>1, <2>7
    <3> QED BY <2>2, <3>1
  <2>8. Len(s) < Len(t) \/ Len(s) = Len(t) \/ Len(t) < Len(s)
    <3>1. Len(s) \in Int /\ Len(t) \in Int
      BY <1>1
    <3> QED BY <3>1
  <2> QED BY <2>5, <2>6, <2>7, <2>8
<1>4. ASSUME NEW i \in 1..Len(s), i <= Len(t)
      PROVE  SubSeq(s, 1, i - 1) = SubSeq(t, 1, i - 1) <=> Agree(s, t, i - 1)
  BY <1>1, <1>2, <1>4
<1>5. \A i : i \in DOMAIN s \cap DOMAIN t <=> i \in 1..Len(s) /\ i <= Len(t)
  BY <1>1
<1> QED BY <1>3, <1>4, <1>5 DEF Before

\* Characters have their places.
LEMMA CharacterType ==
  ASSUME NEW s \in Text, NEW i \in 1..Len(s)
  PROVE  s[i] \in DOMAIN Characters /\ Characters[s[i]] \in Int
<1>1. s[i] \in DOMAIN Characters
  BY DEF Text
<1> QED BY <1>1, NamespaceAssumption

\* No text comes before itself.
LEMMA BeforeIrreflexive == ASSUME NEW s \in Text PROVE ~Before(s, s)
<1>1. Len(s) \in Nat
  BY DEF Text
<1>2. \A i \in 1..Len(s) : ~(Characters[s[i]] < Characters[s[i]])
  BY CharacterType
<1> QED BY <1>1, <1>2, BeforeMeans

\* The order goes through.
LEMMA BeforeTransitive ==
  ASSUME NEW s \in Text, NEW t \in Text, NEW u \in Text, Before(s, t), Before(t, u)
  PROVE  Before(s, u)
<1>1. Len(s) \in Nat /\ Len(t) \in Nat /\ Len(u) \in Nat
  BY DEF Text
<1> DEFINE ends(x, y) == Len(x) < Len(y) /\ Agree(x, y, Len(x))
           differs(x, y, i) == /\ i \in 1..Len(x) /\ i <= Len(y) /\ Agree(x, y, i - 1)
                               /\ Characters[x[i]] < Characters[y[i]]
<1>2. /\ ends(s, t) \/ \E i \in 1..Len(s) : differs(s, t, i)
      /\ ends(t, u) \/ \E i \in 1..Len(t) : differs(t, u, i)
  BY BeforeMeans
<1>3. SUFFICES ends(s, u) \/ \E i \in 1..Len(s) : differs(s, u, i)
  BY BeforeMeans
<1>4. CASE ends(s, t) /\ ends(t, u)
  BY <1>1, <1>4 DEF Agree
<1>5. ASSUME ends(s, t), NEW j \in 1..Len(t), differs(t, u, j)
      PROVE  ends(s, u) \/ \E i \in 1..Len(s) : differs(s, u, i)
  <2>1. CASE j <= Len(s)
    <3>1. differs(s, u, j)
      BY <1>1, <1>5, <2>1 DEF Agree
    <3> QED BY <1>1, <2>1, <3>1
  <2>2. CASE j > Len(s)
    BY <1>1, <1>5, <2>2 DEF Agree
  <2> QED BY <1>1, <2>1, <2>2
<1>6. ASSUME ends(t, u), NEW i \in 1..Len(s), differs(s, t, i)
      PROVE  differs(s, u, i)
  BY <1>1, <1>6 DEF Agree
<1>7. ASSUME NEW i \in 1..Len(s), differs(s, t, i), NEW j \in 1..Len(t), differs(t, u, j)
      PROVE  \E k \in 1..Len(s) : differs(s, u, k)
  <2>1. CASE i < j
    <3>1. differs(s, u, i)
      BY <1>1, <1>7, <2>1 DEF Agree
    <3> QED BY <3>1
  <2>2. CASE j < i
    <3>1. differs(s, u, j)
      BY <1>1, <1>7, <2>2 DEF Agree
    <3> QED BY <1>1, <1>7, <2>2, <3>1
  <2>3. CASE i = j
    <3>1. Characters[s[i]] \in Int /\ Characters[t[i]] \in Int /\ Characters[u[i]] \in Int
      BY <1>1, <1>7, <2>3, CharacterType
    <3>2. Characters[s[i]] < Characters[u[i]]
      BY <1>7, <2>3, <3>1
    <3>3. differs(s, u, i)
      BY <1>1, <1>7, <2>3, <3>2 DEF Agree
    <3> QED BY <3>3
  <2> QED BY <1>1, <2>1, <2>2, <2>3
<1> QED BY <1>2, <1>4, <1>5, <1>6, <1>7

\* Of two texts one comes before the other.
LEMMA BeforeTotal ==
  ASSUME NEW s \in Text, NEW t \in Text, s # t
  PROVE  Before(s, t) \/ Before(t, s)
<1>1. Len(s) \in Nat /\ Len(t) \in Nat
  BY DEF Text
<1> DEFINE apart == {i \in 1..Len(s) : i <= Len(t) /\ s[i] # t[i]}
<1>2. CASE apart = {}
  <2>1. \A i \in 1..Len(s) : i <= Len(t) => s[i] = t[i]
    BY <1>2
  <2>2. Len(s) # Len(t)
    BY <1>1, <2>1 DEF Text
  <2>3. CASE Len(s) < Len(t)
    <3>1. Agree(s, t, Len(s))
      BY <1>1, <2>1, <2>3 DEF Agree
    <3> QED BY <2>3, <3>1, BeforeMeans
  <2>4. CASE Len(t) < Len(s)
    <3>1. Agree(t, s, Len(t))
      BY <1>1, <2>1, <2>4 DEF Agree
    <3> QED BY <2>4, <3>1, BeforeMeans
  <2> QED BY <1>1, <2>2, <2>3, <2>4
<1>3. CASE apart # {}
  <2> DEFINE i == Min(apart)
  <2>1. apart \in SUBSET Nat
    BY <1>1
  <2>2. i \in apart /\ \A j \in apart : i <= j
    <3> HIDE DEF apart
    <3> QED BY <1>3, <2>1, MinProperties
  <2> HIDE DEF i
  <2>3. /\ i \in 1..Len(s) /\ i \in 1..Len(t) /\ s[i] # t[i]
        /\ Agree(s, t, i - 1) /\ Agree(t, s, i - 1)
    BY <1>1, <2>2 DEF Agree
  <2>4. /\ Characters[s[i]] \in Int /\ Characters[t[i]] \in Int
        /\ s[i] \in DOMAIN Characters /\ t[i] \in DOMAIN Characters
    BY <2>3, CharacterType
  <2>5. Characters[s[i]] # Characters[t[i]]
    BY <2>3, <2>4, NamespaceAssumption
  <2>6. CASE Characters[s[i]] < Characters[t[i]]
    BY <1>1, <2>3, <2>6, BeforeMeans
  <2>7. CASE Characters[t[i]] < Characters[s[i]]
    BY <1>1, <2>3, <2>7, BeforeMeans
  <2> QED BY <2>4, <2>5, <2>6, <2>7
<1> QED BY <1>2, <1>3

\* Under one prefix texts come in the order of what follows it.
LEMMA BeforeUnderPrefix ==
  ASSUME NEW p \in Text, NEW s \in Text, NEW t \in Text
  PROVE  Before(p \o s, p \o t) <=> Before(s, t)
<1>1. Len(p) \in Nat /\ Len(s) \in Nat /\ Len(t) \in Nat /\ p \o s \in Text /\ p \o t \in Text
  BY DEF Text
<1>2. ASSUME NEW x \in Text, NEW y \in Text, Before(x, y), p \o x \in Text, p \o y \in Text
      PROVE  Before(p \o x, p \o y)
  <2>1. Len(x) \in Nat /\ Len(y) \in Nat
    BY DEF Text
  <2>2. Len(p \o x) = Len(p) + Len(x) /\ Len(p \o y) = Len(p) + Len(y)
    BY DEF Text
  <2>3. ASSUME NEW n \in 0..Len(x), n <= Len(y), Agree(x, y, n)
        PROVE  Agree(p \o x, p \o y, Len(p) + n)
    <3> SUFFICES ASSUME NEW i \in 1..(Len(p) + n)
                 PROVE  (p \o x)[i] = (p \o y)[i]
      BY DEF Agree
    <3>1. CASE i <= Len(p)
      BY <1>1, <2>1, <2>3, <3>1 DEF Text
    <3>2. CASE i > Len(p)
      <4>1. i - Len(p) \in 1..n
        BY <1>1, <2>1, <3>2
      <4>2. (p \o x)[i] = x[i - Len(p)] /\ (p \o y)[i] = y[i - Len(p)]
        BY <1>1, <2>1, <2>3, <3>2, <4>1 DEF Text
      <4> QED BY <2>3, <4>1, <4>2 DEF Agree
    <3>3. i <= Len(p) \/ i > Len(p)
      BY <1>1, <2>1
    <3> QED BY <3>1, <3>2, <3>3
  <2>4. CASE Len(x) < Len(y) /\ Agree(x, y, Len(x))
    <3>1. Agree(p \o x, p \o y, Len(p \o x))
      BY <2>1, <2>2, <2>3, <2>4
    <3>2. Len(p \o x) < Len(p \o y)
      BY <1>1, <2>1, <2>2, <2>4
    <3> QED BY <1>2, <3>1, <3>2, BeforeMeans
  <2>5. ASSUME NEW i \in 1..Len(x), i <= Len(y), Agree(x, y, i - 1),
               Characters[x[i]] < Characters[y[i]]
        PROVE  Before(p \o x, p \o y)
    <3>1. Agree(p \o x, p \o y, Len(p) + (i - 1))
      BY <2>1, <2>3, <2>5
    <3>2. Len(p) + (i - 1) = (Len(p) + i) - 1
      BY <1>1, <2>1
    <3>3. (p \o x)[Len(p) + i] = x[i] /\ (p \o y)[Len(p) + i] = y[i]
      BY <1>1, <2>1, <2>5 DEF Text
    <3>4. Len(p) + i \in 1..Len(p \o x) /\ Len(p) + i <= Len(p \o y)
      BY <1>1, <2>1, <2>2, <2>5
    <3> QED BY <1>2, <2>5, <3>1, <3>2, <3>3, <3>4, BeforeMeans
  <2> QED BY <1>2, <2>4, <2>5, BeforeMeans
<1>3. ASSUME Before(p \o s, p \o t), ~Before(s, t)
      PROVE  FALSE
  <2>1. CASE s = t
    BY <1>1, <1>3, <2>1, BeforeIrreflexive
  <2>2. CASE Before(t, s)
    <3>1. Before(p \o t, p \o s)
      BY <1>1, <1>2, <2>2
    <3>2. Before(p \o s, p \o s)
      BY <1>1, <1>3, <3>1, BeforeTransitive
    <3> QED BY <1>1, <3>2, BeforeIrreflexive
  <2> QED BY <1>3, <2>1, <2>2, BeforeTotal
<1> QED BY <1>1, <1>2, <1>3

(***************************************************************************)
(* A page.                                                                 *)
(***************************************************************************)
Sorted(s) == \A i, j \in DOMAIN s : i < j => Before(s[i], s[j])

\* The keys before a key are fewer than those before a later one, and than all.
LEMMA FewerBefore ==
  ASSUME NEW keys \in SUBSET Text, IsFiniteSet(keys), NEW k \in keys
  PROVE  LET rank(x) == Cardinality({j \in keys : Before(j, x)})
         IN  /\ rank(k) \in 0..(Cardinality(keys) - 1)
             /\ \A l \in keys : Before(k, l) => rank(k) < rank(l)
<1> DEFINE earlier(x) == {j \in keys : Before(j, x)}
<1>1. ASSUME NEW S \in SUBSET keys, earlier(k) \subseteq S, k \in S
      PROVE  Cardinality(earlier(k)) \in Nat /\ Cardinality(earlier(k)) < Cardinality(S)
  <2>1. IsFiniteSet(S) /\ Cardinality(S) \in Nat
    BY FS_Subset, FS_CardinalityType
  <2>2. earlier(k) \in SUBSET S /\ k \notin earlier(k)
    BY <1>1, BeforeIrreflexive
  <2> HIDE DEF earlier
  <2>3. IsFiniteSet(earlier(k)) /\ Cardinality(earlier(k)) <= Cardinality(S)
        /\ Cardinality(S) # Cardinality(earlier(k))
    BY <1>1, <2>1, <2>2, FS_Subset
  <2>4. Cardinality(earlier(k)) \in Nat
    BY <2>3, FS_CardinalityType
  <2> QED BY <2>1, <2>3, <2>4
<1>2. Cardinality(keys) \in Nat
  BY FS_CardinalityType
<1>3. Cardinality(earlier(k)) \in 0..(Cardinality(keys) - 1)
  <2>1. earlier(k) \subseteq keys
    OBVIOUS
  <2> HIDE DEF earlier
  <2> QED BY <1>1, <1>2, <2>1
<1>4. ASSUME NEW l \in keys, Before(k, l)
      PROVE  Cardinality(earlier(k)) < Cardinality(earlier(l))
  <2>1. earlier(l) \in SUBSET keys /\ earlier(k) \subseteq earlier(l) /\ k \in earlier(l)
    BY <1>4, BeforeTransitive
  <2> HIDE DEF earlier
  <2> QED BY <1>1, <2>1
<1> QED BY <1>3, <1>4

\* Finitely many keys can be put in their order, each once.
LEMMA InOrderProperties ==
  ASSUME NEW keys \in SUBSET Text, IsFiniteSet(keys)
  PROVE  /\ Cardinality(keys) \in Nat /\ Sorted(InOrder(keys))
         /\ InOrder(keys) \in [1..Cardinality(keys) -> keys]
         /\ \A k \in keys : \E i \in 1..Cardinality(keys) : InOrder(keys)[i] = k
<1> DEFINE n == Cardinality(keys)
           rank(x) == Cardinality({j \in keys : Before(j, x)})
           place == [k \in keys |-> rank(k) + 1]
           row == [i \in 1..n |-> CHOOSE k \in keys : place[k] = i]
<1>1. n \in Nat /\ IsFiniteSet(1..n) /\ Cardinality(1..n) = n
  <2>1. n \in Nat
    BY FS_CardinalityType
  <2>2. IsFiniteSet(1..n) /\ Cardinality(1..n) = IF 1 > n THEN 0 ELSE n - 1 + 1
    BY <2>1, FS_Interval
  <2> QED BY <2>1, <2>2
<1>2. /\ \A k \in keys : rank(k) \in 0..(n - 1)
      /\ \A k, l \in keys : Before(k, l) => rank(k) < rank(l)
  BY FewerBefore
<1> HIDE DEF n, rank
<1>3. place \in [keys -> 1..n] /\ \A k, l \in keys : Before(k, l) => place[k] < place[l]
  BY <1>1, <1>2
<1>4. \A i \in 1..n : \E k \in keys : place[k] = i
  <2>1. \A k \in keys : place[k] \in Nat
    BY <1>1, <1>3
  <2>2. \A k, l \in keys : place[k] = place[l] => k = l
    BY <1>3, <2>1, BeforeTotal
  <2>3. place \in Injection(keys, 1..n)
    <3> HIDE DEF place
    <3> QED BY <1>3, <2>2 DEF Injection, IsInjective
  <2>4. place \in Surjection(keys, 1..n)
    <3> HIDE DEF place
    <3> QED BY <1>1, <2>3, FS_Injection DEF n
  <2> HIDE DEF place
  <2> QED BY <2>4 DEF Surjection
<1> HIDE DEF place
<1>5. \A i \in 1..n : row[i] \in keys /\ place[row[i]] = i
  BY <1>4
<1>6. row \in [1..n -> keys]
  BY <1>5
<1>7. Sorted(row)
  <2> SUFFICES ASSUME NEW i \in 1..n, NEW j \in 1..n, i < j
               PROVE  Before(row[i], row[j])
    BY DEF Sorted
  <2> HIDE DEF row
  <2>1. /\ row[i] \in keys /\ row[j] \in keys /\ place[row[i]] = i /\ place[row[j]] = j
        /\ i \in Int /\ j \in Int
    BY <1>1, <1>5
  <2>2. row[i] # row[j] /\ ~Before(row[j], row[i])
    BY <1>3, <2>1
  <2> QED BY <2>1, <2>2, BeforeTotal
<1> HIDE DEF row
<1>8. InOrder(keys) \in [1..n -> keys] /\ Sorted(InOrder(keys))
  BY <1>6, <1>7 DEF InOrder, Sorted, n
<1>9. \A k \in keys : \E i \in 1..n : InOrder(keys)[i] = k
  <2> DEFINE s == InOrder(keys)
  <2>1. s \in [1..n -> keys] /\ \A i, j \in 1..n : i < j => Before(s[i], s[j])
    BY <1>8 DEF Sorted
  <2> HIDE DEF s
  <2>2. \A i, j \in 1..n : s[i] = s[j] => i = j
    <3> SUFFICES ASSUME NEW i \in 1..n, NEW j \in 1..n, s[i] = s[j], i < j
                 PROVE  FALSE
      BY <1>1
    <3>1. s[i] \in Text /\ Before(s[i], s[i])
      BY <2>1
    <3> QED BY <3>1, BeforeIrreflexive
  <2>3. s \in Injection(1..n, keys)
    BY <2>1, <2>2 DEF Injection, IsInjective
  <2>4. s \in Surjection(1..n, keys)
    BY <1>1, <2>3, FS_Injection DEF n
  <2>5. \A k \in keys : \E i \in 1..n : s[i] = k
    BY <2>4 DEF Surjection
  <2> QED BY <2>5 DEF s
<1> QED BY <1>1, <1>8, <1>9 DEF n

\* A page has the first keys: all of them if they fit, and at least one if not.
LEMMA PageProperties ==
  ASSUME NEW keys \in SUBSET Text, IsFiniteSet(keys)
  PROVE  /\ Page(keys) \in SUBSET Text /\ IsFiniteSet(Page(keys)) /\ Page(keys) \subseteq keys
         /\ \A k \in Page(keys), l \in keys \ Page(keys) : Before(k, l)
         /\ Cardinality(keys) <= PageSize => Page(keys) = keys
         /\ ~(Cardinality(keys) <= PageSize) => Page(keys) # {}
<1> DEFINE rank(x) == Cardinality({j \in keys : Before(j, x)})
<1>1. Cardinality(keys) \in Nat /\ PageSize \in Nat /\ PageSize > 0
  BY FS_CardinalityType, NamespaceAssumption
<1>2. /\ \A k \in keys : rank(k) \in 0..(Cardinality(keys) - 1)
      /\ \A k, l \in keys : Before(k, l) => rank(k) < rank(l)
  BY FewerBefore
<1>3. Page(keys) = {k \in keys : rank(k) < PageSize}
  BY DEF Page
<1>4. Cardinality(keys) > 0 => \E k \in keys : rank(k) = 0
  <2> SUFFICES ASSUME Cardinality(keys) > 0
               PROVE  \E k \in keys : rank(k) = 0
    OBVIOUS
  <2>1. PICK k \in keys : k = InOrder(keys)[1]
    BY <1>1, InOrderProperties
  <2>2. ASSUME NEW j \in keys, Before(j, k)
        PROVE  FALSE
    <3>1. PICK i \in 1..Cardinality(keys) : InOrder(keys)[i] = j
      BY InOrderProperties
    <3>2. i = 1 \/ Before(k, j)
      BY <1>1, <2>1, <3>1, InOrderProperties DEF Sorted
    <3>3. Before(k, k)
      BY <2>1, <2>2, <3>1, <3>2, BeforeTransitive
    <3> QED BY <3>3, BeforeIrreflexive
  <2>3. {j \in keys : Before(j, k)} = {}
    BY <2>2
  <2>4. rank(k) = 0
    BY <2>3, FS_EmptySet
  <2> QED BY <2>4
<1> HIDE DEF rank
<1>5. Page(keys) \subseteq keys /\ Page(keys) \in SUBSET Text
  BY <1>3
<1>6. IsFiniteSet(Page(keys))
  BY <1>5, FS_Subset
<1>7. ASSUME NEW k \in Page(keys), NEW l \in keys \ Page(keys)
      PROVE  Before(k, l)
  <2>1. k \in keys /\ l \in keys /\ rank(k) < PageSize /\ ~(rank(l) < PageSize) /\ k # l
    BY <1>3
  <2>2. rank(k) \in Int /\ rank(l) \in Int
    BY <1>2, <2>1
  <2>3. ~Before(l, k)
    BY <1>1, <1>2, <2>1, <2>2
  <2> QED BY <2>1, <2>3, BeforeTotal
<1>8. Cardinality(keys) <= PageSize => Page(keys) = keys
  BY <1>1, <1>2, <1>3
<1>9. ~(Cardinality(keys) <= PageSize) => Page(keys) # {}
  BY <1>1, <1>3, <1>4
<1> QED BY <1>5, <1>6, <1>7, <1>8, <1>9

(***************************************************************************)
(* The inductive invariant of a walk.                                      *)
(***************************************************************************)
\* The real S3 has finitely many objects.
StorageInv == IsFiniteSet(objects) /\ \A o \in objects : o.key \in Text

\* Each request of the walk goes to the place of the first.
InPlace(w) == w.version = 1 => ~w.moved

\* Such a walk has seen the keys up to the last one in order, and goes on from it:
\* a key that was there all the time has been seen or is still to come.
SeenInv(w) ==
  /\ Place(w.m) = Place(w.first)
  /\ w.seen \in Seq(Text \ {<<>>}) /\ Sorted(w.seen)
  /\ w.op = "page" => w.after = IF w.seen = <<>> THEN <<>> ELSE RealKey(w.m, Last(w.seen))
  /\ w.op = "between" => /\ w.seen # <<>>
                         /\ w.after = IF w.version = 1 THEN Last(w.seen)
                                      ELSE Seal(w.m, "continuation", RealKey(w.m, Last(w.seen)))
  /\ \A k \in w.steady : \/ k \in Range(w.seen)
                         \/ w.op # "done" /\ (w.seen = <<>> \/ Before(Last(w.seen), k))

ListingInv ==
  walk.op \in {"page", "between", "done"} =>
    /\ walk.version \in {1, 2} /\ walk.prefix \in Text /\ Routed(walk.m) /\ Routed(walk.first)
    /\ \A k \in walk.steady : /\ k \in Keys /\ IsPrefix(walk.prefix, k)
                              /\ ObjectsAt(walk.first, RealKey(walk.first, k)) # {}
    /\ InPlace(walk) => SeenInv(walk)

\* What stands before the keys of a place is a text.
LEMMA PrefixType == ASSUME NEW m, Routed(m) PROVE NormalizedPrefix(m) \in Text
<1>1. m.prefix \in Text
  BY PlaceType DEF Routed, Place
<1>2. Append(m.prefix, "/") \in Text /\ <<>> \in Text
  BY <1>1, NamespaceAssumption DEF Text
<1> QED BY <1>2 DEF NormalizedPrefix

\* Keys are listed from finitely many.
LEMMA ListedType ==
  ASSUME StorageInv, NEW m, NEW prefix, NEW after
  PROVE  Listed(m, prefix, after) \in SUBSET Text /\ IsFiniteSet(Listed(m, prefix, after))
<1> DEFINE here == {o \in objects : o.at = At(m)}
           keys == {o.key : o \in here}
           f == [o \in here |-> o.key]
<1>1. IsFiniteSet(here)
  BY FS_Subset DEF StorageInv
<1>2. f \in Surjection(here, keys)
  BY DEF Surjection
<1>3. IsFiniteSet(keys)
  <2> HIDE DEF here, keys, f
  <2> QED BY <1>1, <1>2, FS_Surjection
<1>4. keys \in SUBSET Text
  BY DEF StorageInv
<1>5. Listed(m, prefix, after) \in SUBSET keys
  BY DEF Listed
<1> HIDE DEF keys
<1> QED BY <1>3, <1>4, <1>5, FS_Subset

\* What can be virtualized is the real key of its virtual key.
LEMMA VirtualizableMeans ==
  ASSUME NEW m, Routed(m), NEW key \in Text, Virtualizable(m, key)
  PROVE  VirtualKey(m, key) \in Text \ {<<>>} /\ RealKey(m, VirtualKey(m, key)) = key
<1> DEFINE p == NormalizedPrefix(m)
<1>1. p \in Text /\ Len(p) \in Nat /\ Len(key) \in Nat
  BY PrefixType DEF Text
<1> HIDE DEF p
<1>2. Len(p) < Len(key) /\ IsPrefix(p, key)
  BY <1>1 DEF Virtualizable, p
<1>3. VirtualKey(m, key) = SubSeq(key, Len(p) + 1, Len(key))
  BY DEF VirtualKey, p
<1>4. SubSeq(key, Len(p) + 1, Len(key)) \in Text \ {<<>>}
  <2>1. SubSeq(key, Len(p) + 1, Len(key)) \in Text
    BY <1>1, <1>2 DEF Text
  <2>2. Len(SubSeq(key, Len(p) + 1, Len(key))) = Len(key) - Len(p)
    BY <1>1, <1>2 DEF Text
  <2>3. Len(SubSeq(key, Len(p) + 1, Len(key))) # 0
    BY <1>1, <1>2, <2>2
  <2>4. Len(<<>>) = 0
    OBVIOUS
  <2> QED BY <2>1, <2>3, <2>4
<1>5. \A i \in 1..Len(p) : p[i] = key[i]
  <2>1. p = SubSeq(key, 1, Len(p))
    BY <1>1, <1>2 DEF IsPrefix, Text
  <2>2. \A i \in 1..Len(p) : SubSeq(key, 1, Len(p))[i] = key[i]
    BY <1>1, <1>2 DEF Text
  <2> QED BY <2>1, <2>2
<1>6. p \o SubSeq(key, Len(p) + 1, Len(key)) = key
  BY <1>1, <1>2, <1>5 DEF Text
<1> QED BY <1>3, <1>4, <1>6 DEF RealKey, p

\* A key is before another exactly when its real key is.
LEMMA RealKeysInOrder ==
  ASSUME NEW m, Routed(m), NEW s \in Text, NEW t \in Text
  PROVE  /\ RealKey(m, s) \in Text
         /\ Before(RealKey(m, s), RealKey(m, t)) <=> Before(s, t)
         /\ RealKey(m, s) = RealKey(m, t) => s = t
<1>1. NormalizedPrefix(m) \in Text
  BY PrefixType
<1>2. NormalizedPrefix(m) \o s \in Text
  BY <1>1 DEF Text
<1> QED BY <1>1, <1>2, BeforeUnderPrefix, SameAfterPrefix DEF RealKey

\* A function on 1..n is a sequence.
LEMMA FunctionAsSequence ==
  ASSUME NEW S, NEW n \in Nat, NEW f \in [1..n -> S]
  PROVE  f \in Seq(S) /\ Len(f) = n
OBVIOUS

\* What was seen, and what a page adds to it.
Continued(m, seen, page) == seen \o [i \in DOMAIN page |-> VirtualKey(m, page[i])]

\* A page continues what was seen: in order, and up to its last key without a gap.
Continues(m, seen, keys, page, more) ==
  /\ more \in Seq(Text \ {<<>>}) /\ Sorted(more) /\ Range(seen) \subseteq Range(more)
  /\ \A k \in Text : RealKey(m, k) \in keys =>
       \/ k \in Range(more)
       \/ ~(Cardinality(keys) <= PageSize) /\ Before(Last(more), k)
  /\ ~(Cardinality(keys) <= PageSize) => more # <<>> /\ Last(page) = RealKey(m, Last(more))

LEMMA PageContinues ==
  ASSUME NEW m, Routed(m), NEW keys \in SUBSET Text, IsFiniteSet(keys),
         NEW seen \in Seq(Text \ {<<>>}), Sorted(seen),
         seen # <<>> => \A k \in keys : Before(RealKey(m, Last(seen)), k),
         \A i \in DOMAIN InOrder(Page(keys)) : Virtualizable(m, InOrder(Page(keys))[i])
  PROVE  Continues(m, seen, keys, InOrder(Page(keys)), Continued(m, seen, InOrder(Page(keys))))
<1> DEFINE page == InOrder(Page(keys))
           more == Continued(m, seen, page)
           n == Cardinality(Page(keys))
           new == [i \in 1..n |-> VirtualKey(m, page[i])]
           len == Len(seen)
<1>0. \A i \in DOMAIN page : Virtualizable(m, page[i])
  OBVIOUS
<1>1. /\ n \in Nat /\ page \in [1..n -> Page(keys)] /\ DOMAIN page = 1..n /\ Sorted(page)
      /\ \A k \in Page(keys) : \E i \in 1..n : page[i] = k
  BY PageProperties, InOrderProperties
<1> HIDE DEF n, page
<1>2. \A i \in 1..n : page[i] \in keys /\ page[i] \in Text
  BY <1>1, PageProperties
<1>3. \A i \in 1..n : new[i] \in Text \ {<<>>} /\ RealKey(m, new[i]) = page[i]
  BY <1>0, <1>1, <1>2, VirtualizableMeans
<1>4. new \in Seq(Text \ {<<>>}) /\ Len(new) = n
  <2>1. new \in [1..n -> Text \ {<<>>}]
    BY <1>3
  <2> HIDE DEF new
  <2> QED BY <1>1, <2>1, FunctionAsSequence
<1>5. more = seen \o new
  BY <1>1 DEF Continued
<1> HIDE DEF new, more
<1>6. /\ more \in Seq(Text \ {<<>>}) /\ Len(more) = len + n /\ len \in Nat
      /\ \A i \in 1..len : more[i] = seen[i] /\ seen[i] \in Text
      /\ \A i \in 1..n : more[len + i] = new[i]
      /\ DOMAIN more = 1..(len + n) /\ DOMAIN seen = 1..len
  <2> DEFINE S == Text \ {<<>>}
  <2>1. seen \in Seq(S) /\ new \in Seq(S) /\ \A s \in S : s \in Text
    BY <1>4
  <2> HIDE DEF S
  <2>2. /\ more \in Seq(S) /\ Len(more) = len + Len(new) /\ len \in Nat
        /\ \A i \in 1..len : more[i] = seen[i] /\ seen[i] \in S
        /\ \A i \in 1..Len(new) : more[len + i] = new[i]
        /\ DOMAIN more = 1..(len + Len(new)) /\ DOMAIN seen = 1..len
    <3>1. seen \o new \in Seq(S) /\ Len(seen \o new) = len + Len(new) /\ len \in Nat
      BY <2>1
    <3>2. /\ \A i \in 1..len : (seen \o new)[i] = seen[i] /\ seen[i] \in S
          /\ \A i \in 1..Len(new) : (seen \o new)[len + i] = new[i]
      BY <2>1
    <3>3. DOMAIN (seen \o new) = 1..(len + Len(new)) /\ DOMAIN seen = 1..len
      BY <2>1
    <3> QED BY <1>5, <3>1, <3>2, <3>3, Zenon
  <2>3. more \in Seq(Text \ {<<>>})
    BY <2>2 DEF S
  <2> QED BY <1>4, <2>1, <2>2, <2>3, Zenon
<1>6a. n \in Int /\ len \in Int /\ n >= 0 /\ len >= 0
  BY <1>1, <1>6
<1>7. len > 0 => /\ Last(seen) = seen[len] /\ Last(seen) \in Text
                 /\ \A i \in 1..len : i = len \/ Before(seen[i], Last(seen))
                 /\ \A j \in 1..n : Before(Last(seen), new[j])
  <2> SUFFICES ASSUME len > 0
               PROVE  /\ Last(seen) = seen[len] /\ Last(seen) \in Text
                      /\ \A i \in 1..len : i = len \/ Before(seen[i], Last(seen))
                      /\ \A j \in 1..n : Before(Last(seen), new[j])
    OBVIOUS
  <2>1. Last(seen) = seen[len] /\ Last(seen) \in Text /\ seen # <<>>
    BY <1>6 DEF Last
  <2>2. \A i \in 1..len : i = len \/ Before(seen[i], Last(seen))
    <3>1. len \in DOMAIN seen /\ \A i \in 1..len : i \in DOMAIN seen /\ (i = len \/ i < len)
      <4>1. DOMAIN seen = 1..len /\ len \in Nat
        BY <1>6
      <4> HIDE DEF len
      <4> QED BY <4>1
    <3> QED BY <2>1, <3>1 DEF Sorted
  <2>3. ASSUME NEW j \in 1..n
        PROVE  Before(Last(seen), new[j])
    <3>1. Before(RealKey(m, Last(seen)), RealKey(m, new[j]))
      BY <1>2, <1>3, <2>1
    <3> QED BY <1>3, <2>1, <3>1, RealKeysInOrder
  <2> QED BY <2>1, <2>2, <2>3
<1>8. Sorted(more)
  <2> SUFFICES ASSUME NEW i \in 1..(len + n), NEW j \in 1..(len + n), i < j
               PROVE  Before(more[i], more[j])
    BY <1>6 DEF Sorted
  <2>1. CASE j <= len
    <3>1. i \in 1..len /\ j \in 1..len /\ DOMAIN seen = 1..len
      BY <1>1, <1>6, <2>1
    <3> QED BY <1>6, <3>1 DEF Sorted
  <2>2. CASE i <= len /\ len < j
    <3>1. i \in 1..len /\ j - len \in 1..n /\ len > 0
      BY <1>6a, <2>2
    <3>2. more[i] = seen[i] /\ more[j] = new[j - len]
      <4>1. more[len + (j - len)] = new[j - len]
        BY <1>6, <3>1
      <4>2. len + (j - len) = j
        BY <1>6a
      <4> QED BY <1>6, <3>1, <4>1, <4>2
    <3>3. Before(Last(seen), new[j - len]) /\ new[j - len] \in Text /\ seen[i] \in Text
      BY <1>3, <1>6, <1>7, <3>1
    <3>4. i = len \/ Before(seen[i], Last(seen))
      BY <1>7, <3>1
    <3>5. Last(seen) = seen[len] /\ Last(seen) \in Text
      BY <1>7, <3>1
    <3> QED BY <3>2, <3>3, <3>4, <3>5, BeforeTransitive
  <2>3. CASE len < i
    <3>1. i - len \in 1..n /\ j - len \in 1..n /\ i - len < j - len
      BY <1>6a, <2>3
    <3>2. more[i] = new[i - len] /\ more[j] = new[j - len]
      <4>1. more[len + (j - len)] = new[j - len] /\ more[len + (i - len)] = new[i - len]
        BY <1>6, <3>1
      <4>2. len + (j - len) = j /\ len + (i - len) = i
        BY <1>6a
      <4> QED BY <4>1, <4>2
    <3>3. Before(page[i - len], page[j - len])
      BY <1>1, <3>1 DEF Sorted
    <3>4. Before(RealKey(m, new[i - len]), RealKey(m, new[j - len]))
      BY <1>3, <3>1, <3>3
    <3> QED BY <1>3, <3>1, <3>2, <3>4, RealKeysInOrder
  <2> QED BY <1>6a, <2>1, <2>2, <2>3
<1>9. Range(seen) \subseteq Range(more) /\ \A i \in 1..n : new[i] \in Range(more)
  <2>1. /\ DOMAIN seen = 1..len /\ \A i \in 1..len : i \in DOMAIN more
        /\ \A i \in 1..n : len + i \in DOMAIN more
    BY <1>1, <1>6
  <2> QED BY <1>6, <2>1 DEF Range
<1>10. n > 0 => /\ more # <<>> /\ Last(more) = new[n] /\ Last(page) = page[n]
                /\ Last(page) = RealKey(m, Last(more)) /\ Last(more) \in Text
  <2> SUFFICES ASSUME n > 0
               PROVE  /\ more # <<>> /\ Last(more) = new[n] /\ Last(page) = page[n]
                      /\ Last(page) = RealKey(m, Last(more)) /\ Last(more) \in Text
    OBVIOUS
  <2>1. n \in 1..n /\ len + n > 0
    BY <1>6a
  <2>2. Last(more) = new[n]
    BY <1>6, <2>1 DEF Last
  <2>4. more # <<>>
    <3>1. Len(<<>>) = 0
      OBVIOUS
    <3>2. Len(more) # 0
      BY <1>1, <1>6, <2>1
    <3> QED BY <3>1, <3>2
  <2>3. Last(page) = page[n]
    <3>1. page \in Seq(Page(keys)) /\ Len(page) = n
      BY <1>1
    <3> QED BY <3>1 DEF Last
  <2> QED BY <1>3, <2>1, <2>2, <2>3, <2>4
<1>11. ~(Cardinality(keys) <= PageSize) => n > 0
  <2> SUFFICES ASSUME ~(Cardinality(keys) <= PageSize)
               PROVE  n > 0
    OBVIOUS
  <2>1. Page(keys) # {} /\ IsFiniteSet(Page(keys))
    BY PageProperties
  <2>2. n # 0
    BY <2>1, FS_EmptySet DEF n
  <2> QED BY <1>1, <2>2
<1>12. ASSUME NEW k \in Text, RealKey(m, k) \in keys
       PROVE  \/ k \in Range(more)
              \/ ~(Cardinality(keys) <= PageSize) /\ Before(Last(more), k)
  <2>1. CASE RealKey(m, k) \in Page(keys)
    <3>1. PICK i \in 1..n : page[i] = RealKey(m, k)
      BY <1>1, <2>1
    <3>2. new[i] = k
      BY <1>3, <3>1, RealKeysInOrder
    <3> QED BY <1>9, <3>2
  <2>2. CASE RealKey(m, k) \notin Page(keys)
    <3>1. ~(Cardinality(keys) <= PageSize)
      BY <1>12, <2>2, PageProperties
    <3>2. n > 0
      BY <1>11, <3>1
    <3>3. Last(page) \in Page(keys)
      BY <1>1, <1>10, <3>2
    <3>4. Before(RealKey(m, Last(more)), RealKey(m, k))
      BY <1>10, <1>12, <2>2, <3>2, <3>3, PageProperties
    <3> QED BY <1>10, <3>1, <3>2, <3>4, RealKeysInOrder
  <2> QED BY <2>1, <2>2
<1>13. Continues(m, seen, keys, page, more)
  BY <1>6, <1>8, <1>9, <1>10, <1>11, <1>12 DEF Continues
<1> QED BY <1>13 DEF page, more

\* What begins a key begins it under the prefix of a mapping.
LEMMA PrefixedPrefix ==
  ASSUME NEW m, Routed(m), NEW s \in Text, NEW t \in Text, IsPrefix(s, t)
  PROVE  IsPrefix(RealKey(m, s), RealKey(m, t))
<1> DEFINE p == NormalizedPrefix(m)
<1>1. p \in Text
  BY PrefixType
<1> HIDE DEF p
<1>2. Len(p) \in Nat /\ Len(s) \in Nat /\ Len(t) \in Nat /\ Len(s) <= Len(t)
  BY <1>1 DEF Text, IsPrefix
<1>3. \A i \in 1..Len(s) : s[i] = t[i]
  <2>1. SubSeq(s, 1, Len(s)) = SubSeq(t, 1, Len(s))
    BY DEF IsPrefix
  <2>2. \A i \in 1..Len(s) : SubSeq(s, 1, Len(s))[i] = s[i] /\ SubSeq(t, 1, Len(s))[i] = t[i]
    BY <1>2 DEF Text
  <2> QED BY <2>1, <2>2
<1>4. Len(p \o s) = Len(p) + Len(s) /\ Len(p \o t) = Len(p) + Len(t)
  BY <1>1 DEF Text
<1>5. \A i \in 1..(Len(p) + Len(s)) : (p \o s)[i] = (p \o t)[i]
  BY <1>1, <1>2, <1>3 DEF Text
<1>6. p \o s \in Text /\ p \o t \in Text
  BY <1>1 DEF Text
<1>7. SubSeq(p \o s, 1, Len(p \o s)) = SubSeq(p \o t, 1, Len(p \o s))
  <2> DEFINE x == p \o s
             y == p \o t
  <2>1. x \in Text /\ y \in Text /\ Len(x) \in Nat /\ Len(y) \in Nat /\ Len(x) <= Len(y)
    BY <1>2, <1>4, <1>6
  <2>2. \A i \in 1..Len(x) : x[i] = y[i]
    BY <1>4, <1>5
  <2> HIDE DEF x, y
  <2>3. SubSeq(x, 1, Len(x)) = SubSeq(y, 1, Len(x))
    BY <2>1, <2>2 DEF Text
  <2> QED BY <2>3 DEF x, y
<1>8. Len(p \o s) <= Len(p \o t)
  BY <1>2, <1>4
<1> QED BY <1>7, <1>8 DEF IsPrefix, RealKey, p

\* The real key of a key has characters.
LEMMA RealKeyNonempty ==
  ASSUME NEW m, Routed(m), NEW key \in Text \ {<<>>}
  PROVE  RealKey(m, key) # <<>>
<1>1. NormalizedPrefix(m) \in Text
  BY PrefixType
<1>2. Len(NormalizedPrefix(m)) \in Nat /\ Len(key) \in Nat /\ Len(key) # 0
  BY <1>1 DEF Text
<1>3. Len(NormalizedPrefix(m) \o key) = Len(NormalizedPrefix(m)) + Len(key)
  BY <1>1 DEF Text
<1>4. Len(NormalizedPrefix(m) \o key) # 0 /\ Len(<<>>) = 0
  BY <1>2, <1>3
<1> QED BY <1>4 DEF RealKey

\* The objects stay finitely many.
LEMMA StorageStep ==
  ASSUME NamespaceInv, StorageInv, [NamespaceNext]_vars
  PROVE  StorageInv'
<1>1. ASSUME NEW m, Routed(m), NEW key \in Keys, NEW v, objects' = Stored(m, RealKey(m, key), v)
      PROVE  StorageInv'
  <2> DEFINE o == [at |-> At(m), key |-> RealKey(m, key), value |-> v]
             rest == objects \ ObjectsAt(m, RealKey(m, key))
  <2>1. o.key = RealKey(m, key) /\ objects' = rest \cup {o}
    BY <1>1 DEF Stored
  <2>2. o.key \in Text
    <3>1. key \in Text
      BY NamespaceAssumption DEF Text
    <3> QED BY <1>1, <2>1, <3>1, RealKeysInOrder
  <2>3. rest \in SUBSET objects
    OBVIOUS
  <2> HIDE DEF o, rest
  <2>4. IsFiniteSet(rest \cup {o})
    BY <2>3, FS_Subset, FS_AddElement DEF StorageInv
  <2> QED BY <2>1, <2>2, <2>3, <2>4 DEF StorageInv
<1>2. CASE Perform
  <2>1. Routed(write.m) /\ write.key \in Keys /\ Target = RealKey(write.m, write.key)
    BY <1>2 DEF Perform, DoPut, DoDelete, DoCopy, DoBegin, DoComplete, DoAbort, NamespaceInv,
                WriteInv, Target
  <2>2. \/ \E v : objects' = Stored(write.m, Target, v)
        \/ objects' \in SUBSET objects
    BY <1>2 DEF Perform, DoPut, DoDelete, DoCopy, DoBegin, DoComplete, DoAbort
  <2>3. CASE objects' \in SUBSET objects
    BY <2>3, FS_Subset DEF StorageInv
  <2> QED BY <1>1, <2>1, <2>2, <2>3
<1>3. CASE ~Perform
  <2>1. objects' = objects
    BY <1>3 DEF NamespaceNext, vars, Remap, StartWrite, StartUploadCall, LoseWrite, StartWalk,
                FetchPage, NextPage, EndWalk
  <2> QED BY <2>1 DEF StorageInv
<1> QED BY <1>2, <1>3

\* A request of the writer takes from a walk the keys that are gone.
LEMMA PerformListing ==
  ASSUME NamespaceInv, ListingInv, Perform
  PROVE  ListingInv'
<1>1. CASE walk = None
  BY <1>1 DEF Perform, Observe, ListingInv, None
<1>2. CASE walk # None
  <2> DEFINE still == {k \in walk.steady : \E o \in objects' : /\ o.at = At(walk.first)
                                                              /\ o.key = RealKey(walk.first, k)}
  <2>1. walk' = [walk EXCEPT !.steady = still]
    BY <1>2 DEF Perform, Observe
  <2>2. WalkShape(walk)
    BY <1>2 DEF NamespaceInv, WalkInv
  <2> HIDE DEF still
  <2>3. /\ walk'.op = walk.op /\ walk'.version = walk.version /\ walk'.prefix = walk.prefix
        /\ walk'.m = walk.m /\ walk'.after = walk.after /\ walk'.seen = walk.seen
        /\ walk'.first = walk.first /\ walk'.moved = walk.moved /\ walk'.steady = still
    BY <2>1, <2>2 DEF WalkShape
  <2>4. \A k \in still : k \in walk.steady /\ ObjectsAt(walk.first, RealKey(walk.first, k))' # {}
    BY <2>3 DEF still, ObjectsAt
  <2>5. ASSUME InPlace(walk)', walk.op \in {"page", "between", "done"}
        PROVE  SeenInv(walk)'
    <3>1. SeenInv(walk)
      BY <2>3, <2>5 DEF ListingInv, InPlace
    <3> QED BY <2>3, <2>4, <3>1 DEF SeenInv
  <2> QED BY <2>3, <2>4, <2>5 DEF ListingInv, Routed
<1> QED BY <1>1, <1>2

\* A walk begins with everything still to come.
LEMMA StartWalkListing ==
  ASSUME NamespaceInv, NEW version \in {1, 2}, NEW prefix \in ListPrefixes,
         StartWalk(version, prefix)
  PROVE  ListingInv'
<1> DEFINE m == Normalize(mapped)
           steady == {k \in Keys : IsPrefix(prefix, k) /\ ObjectsAt(m, RealKey(m, k)) # {}}
<1>1. Routed(m) /\ prefix \in Text
  BY MappedIsRouted, NamespaceAssumption DEF NamespaceInv, StartWalk, Text
<1>2. \A k \in steady : /\ k \in Keys /\ IsPrefix(prefix, k)
                        /\ {o \in objects' : o.at = At(m) /\ o.key = RealKey(m, k)} # {}
  BY DEF StartWalk, ObjectsAt
<1>3. walk' = [op |-> "page", version |-> version, prefix |-> prefix, m |-> m, after |-> <<>>,
               seen |-> <<>>, first |-> m, under |-> m, moved |-> FALSE, steady |-> steady]
  BY DEF StartWalk
<1> HIDE DEF m, steady
<1>4. /\ walk'.op = "page" /\ walk'.version = version /\ walk'.prefix = prefix /\ walk'.m = m
      /\ walk'.after = <<>> /\ walk'.seen = <<>> /\ walk'.first = m /\ walk'.steady = steady
  BY <1>3
<1>5. SeenInv(walk)'
  <2>1. Sorted(<<>>) /\ <<>> \in Seq(Text \ {<<>>})
    BY DEF Sorted
  <2> QED BY <1>4, <2>1 DEF SeenInv
<1>6. \A k \in walk'.steady : ObjectsAt(walk.first, RealKey(walk.first, k))' # {}
  BY <1>2, <1>4 DEF ObjectsAt
<1> QED BY <1>1, <1>2, <1>4, <1>5, <1>6 DEF ListingInv, Routed

\* A page is fetched: the walk has seen every key up to its last.
LEMMA FetchPageListing ==
  ASSUME NamespaceInv, StorageInv, ListingInv, FetchPage
  PROVE  ListingInv'
<1> DEFINE m == walk.m
           keys == Listed(m, RealKey(m, walk.prefix), walk.after)
           page == InOrder(Page(keys))
           more == walk.seen \o [i \in DOMAIN page |-> VirtualKey(m, page[i])]
           last == Cardinality(keys) <= PageSize
           after == IF walk.version = 1 THEN Last(more) ELSE Seal(m, "continuation", Last(page))
<1>1. WalkShape(walk) /\ walk.op = "page"
  BY DEF FetchPage, NamespaceInv, WalkInv, None
<1>2. objects' = objects
  BY DEF FetchPage
<1>3. CASE \E i \in DOMAIN page : ~Virtualizable(m, page[i])
  <2>1. walk' = None
    BY <1>3 DEF FetchPage
  <2> QED BY <2>1 DEF ListingInv, None
<1>4. CASE \A i \in DOMAIN page : Virtualizable(m, page[i])
  <2>1. /\ last => walk' = [walk EXCEPT !.op = "done", !.seen = more]
        /\ ~last => walk' = [walk EXCEPT !.op = "between", !.seen = more, !.after = after]
    BY <1>4 DEF FetchPage
  <2> HIDE DEF more, after, last
  <2>2. /\ last => walk'.op = "done"
        /\ ~last => walk'.op = "between" /\ walk'.after = after
        /\ walk'.seen = more
        /\ walk'.version = walk.version /\ walk'.prefix = walk.prefix /\ walk'.m = walk.m
        /\ walk'.first = walk.first /\ walk'.moved = walk.moved /\ walk'.steady = walk.steady
    <3>1. CASE last
      BY <1>1, <2>1, <3>1 DEF WalkShape
    <3>2. CASE ~last
      BY <1>1, <2>1, <3>2 DEF WalkShape
    <3> QED BY <3>1, <3>2
  <2>3. /\ walk.version \in {1, 2} /\ walk.prefix \in Text /\ Routed(m) /\ Routed(walk.first)
        /\ \A k \in walk.steady : /\ k \in Keys /\ IsPrefix(walk.prefix, k)
                                  /\ ObjectsAt(walk.first, RealKey(walk.first, k)) # {}
    BY <1>1 DEF ListingInv
  <2>4. ASSUME InPlace(walk)
        PROVE  SeenInv(walk)'
    <3>1. SeenInv(walk)
      BY <1>1, <2>4 DEF ListingInv
    <3>2. /\ Place(m) = Place(walk.first) /\ walk.seen \in Seq(Text \ {<<>>}) /\ Sorted(walk.seen)
          /\ walk.after = IF walk.seen = <<>> THEN <<>> ELSE RealKey(m, Last(walk.seen))
          /\ \A k \in walk.steady : \/ k \in Range(walk.seen)
                                    \/ walk.seen = <<>> \/ Before(Last(walk.seen), k)
      BY <1>1, <3>1 DEF SeenInv
    <3>3. walk.seen # <<>> => Last(walk.seen) \in Text /\ walk.after # <<>>
      <4> SUFFICES ASSUME walk.seen # <<>>
                   PROVE  Last(walk.seen) \in Text /\ walk.after # <<>>
        OBVIOUS
      <4>1. Last(walk.seen) \in Text \ {<<>>}
        BY <3>2 DEF Last
      <4>2. RealKey(m, Last(walk.seen)) # <<>>
        BY <2>3, <4>1, RealKeyNonempty
      <4> QED BY <3>2, <4>1, <4>2
    <3>4. keys \in SUBSET Text /\ IsFiniteSet(keys)
      BY ListedType
    <3>5. walk.seen # <<>> => \A k \in keys : Before(RealKey(m, Last(walk.seen)), k)
      BY <3>2, <3>3 DEF Listed
    <3>6. /\ more \in Seq(Text \ {<<>>}) /\ Sorted(more) /\ Range(walk.seen) \subseteq Range(more)
          /\ \A k \in Text : RealKey(m, k) \in keys =>
               k \in Range(more) \/ (~last /\ Before(Last(more), k))
          /\ ~last => more # <<>> /\ Last(page) = RealKey(m, Last(more))
      <4>1. more = Continued(m, walk.seen, page)
        BY DEF more, Continued
      <4>2. Continues(m, walk.seen, keys, page, Continued(m, walk.seen, page))
        <5> HIDE DEF m, keys
        <5> QED BY <1>4, <2>3, <3>2, <3>4, <3>5, PageContinues
      <4> QED BY <4>1, <4>2 DEF Continues, last
    <3>7. ASSUME NEW k \in walk.steady
          PROVE  k \in Range(more) \/ (~last /\ Before(Last(more), k))
      <4>1. /\ k \in Keys /\ k \in Text /\ IsPrefix(walk.prefix, k)
            /\ ObjectsAt(walk.first, RealKey(walk.first, k)) # {}
        BY <2>3, NamespaceAssumption DEF Text
      <4>2. CASE k \in Range(walk.seen)
        BY <3>6, <4>2
      <4>3. CASE k \notin Range(walk.seen)
        <5>1. At(walk.first) = At(m) /\ RealKey(walk.first, k) = RealKey(m, k)
          BY <3>2, MappingAsPlace
        <5>2. RealKey(m, k) \in {o.key : o \in {o \in objects : o.at = At(m)}}
          BY <4>1, <5>1 DEF ObjectsAt
        <5>3. IsPrefix(RealKey(m, walk.prefix), RealKey(m, k))
          BY <2>3, <4>1, PrefixedPrefix
        <5>4. walk.after = <<>> \/ Before(walk.after, RealKey(m, k))
          <6>1. CASE walk.seen = <<>>
            BY <3>2, <6>1
          <6>2. CASE walk.seen # <<>>
            <7>1. Before(Last(walk.seen), k)
              BY <3>2, <4>3, <6>2
            <7>2. Before(RealKey(m, Last(walk.seen)), RealKey(m, k))
              BY <2>3, <3>3, <4>1, <6>2, <7>1, RealKeysInOrder
            <7> QED BY <3>2, <6>2, <7>2
          <6> QED BY <6>1, <6>2
        <5>5. RealKey(m, k) \in keys
          BY <5>2, <5>3, <5>4 DEF Listed
        <5> QED BY <3>6, <4>1, <5>5
      <4> QED BY <4>2, <4>3
    <3>8. CASE last
      BY <2>2, <3>2, <3>6, <3>7, <3>8 DEF SeenInv
    <3>9. CASE ~last
      BY <2>2, <3>2, <3>6, <3>7, <3>9 DEF SeenInv, after
    <3> QED BY <3>8, <3>9
  <2>5. \A k \in walk.steady : ObjectsAt(walk.first, RealKey(walk.first, k))' # {}
    BY <1>2, <2>2, <2>3 DEF ObjectsAt
  <2>6. InPlace(walk)' => SeenInv(walk)'
    BY <2>2, <2>4 DEF InPlace
  <2> QED BY <2>2, <2>3, <2>5, <2>6 DEF ListingInv, Routed
<1> QED BY <1>3, <1>4

\* A walk goes on from the last key it has seen, or is no longer in its place.
LEMMA NextPageListing ==
  ASSUME NamespaceInv, ListingInv, NextPage
  PROVE  ListingInv'
<1> DEFINE m == Normalize(mapped)
           moved == walk.moved \/ Place(m) # Place(walk.first)
           page(after) == [walk EXCEPT !.op = "page", !.m = m, !.after = after, !.moved = moved]
<1>1. /\ WalkShape(walk) /\ walk.op = "between" /\ objects' = objects /\ Routed(m)
  BY MappedIsRouted DEF NextPage, NamespaceInv, WalkInv, None
<1>2. \/ walk.version = 1 /\ walk' = page(OutboundMarker(m, walk.after))
      \/ /\ walk.version = 2 /\ Opens(m, "continuation", walk.after)
         /\ walk' = page(walk.after.value)
      \/ walk' = [walk EXCEPT !.op = "refused", !.under = walk.m, !.m = m]
  BY DEF NextPage
<1>3. ~moved => ~walk.moved /\ Place(m) = Place(walk.first)
  BY Zenon
<1> HIDE DEF m, moved
<1>4. ASSUME NEW after, walk' = page(after),
             SeenInv(walk) /\ (walk.version = 1 => ~moved) =>
               Place(m) = Place(walk.first) /\ after = RealKey(m, Last(walk.seen))
      PROVE  ListingInv'
  <2>1. /\ walk'.op = "page" /\ walk'.m = m /\ walk'.after = after /\ walk'.moved = moved
        /\ walk'.version = walk.version /\ walk'.prefix = walk.prefix /\ walk'.seen = walk.seen
        /\ walk'.first = walk.first /\ walk'.steady = walk.steady
    BY <1>1, <1>4 DEF WalkShape
  <2>2. /\ walk.version \in {1, 2} /\ walk.prefix \in Text /\ Routed(walk.first)
        /\ \A k \in walk.steady : /\ k \in Keys /\ IsPrefix(walk.prefix, k)
                                  /\ ObjectsAt(walk.first, RealKey(walk.first, k)) # {}
    BY <1>1 DEF ListingInv
  <2>3. \A k \in walk.steady : ObjectsAt(walk.first, RealKey(walk.first, k))' # {}
    BY <1>1, <2>1, <2>2 DEF ObjectsAt
  <2>4. ASSUME walk.version = 1 => ~moved
        PROVE  SeenInv(walk)'
    <3>1. SeenInv(walk)
      BY <1>1, <1>3, <2>4 DEF ListingInv, InPlace
    <3> QED BY <1>1, <1>4, <2>1, <2>4, <3>1 DEF SeenInv
  <2>5. InPlace(walk)' => (walk.version = 1 => ~moved)
    BY <2>1 DEF InPlace
  <2> QED BY <1>1, <2>1, <2>2, <2>3, <2>4, <2>5 DEF ListingInv, Routed
<1>5. CASE walk.version = 1 /\ walk' = page(OutboundMarker(m, walk.after))
  <2>1. SeenInv(walk) /\ (walk.version = 1 => ~moved) =>
          Place(m) = Place(walk.first) /\ OutboundMarker(m, walk.after) = RealKey(m, Last(walk.seen))
    BY <1>1, <1>3, <1>5 DEF SeenInv, OutboundMarker
  <2> QED BY <1>4, <1>5, <2>1
<1>6. CASE /\ walk.version = 2 /\ Opens(m, "continuation", walk.after)
           /\ walk' = page(walk.after.value)
  <2>1. ASSUME SeenInv(walk)
        PROVE  Place(m) = Place(walk.first) /\ walk.after.value = RealKey(m, Last(walk.seen))
    <3>1. /\ walk.after = Seal(walk.m, "continuation", RealKey(walk.m, Last(walk.seen)))
          /\ Place(walk.m) = Place(walk.first)
      BY <1>1, <1>6, <2>1 DEF SeenInv
    <3>2. SameRouting(m, walk.m)
      BY <1>6, <3>1, OpensExactly
    <3>3. Place(m) = Place(walk.m)
      BY <3>2 DEF SameRouting
    <3>4. walk.after.value = RealKey(walk.m, Last(walk.seen))
      BY <3>1 DEF Seal
    <3>5. RealKey(walk.m, Last(walk.seen)) = RealKey(m, Last(walk.seen))
      BY <3>3, MappingAsPlace
    <3> QED BY <3>1, <3>3, <3>4, <3>5
  <2> QED BY <1>4, <1>6, <2>1
<1>7. CASE walk' = [walk EXCEPT !.op = "refused", !.under = walk.m, !.m = m]
  <2>1. walk'.op = "refused"
    BY <1>1, <1>7 DEF WalkShape
  <2> QED BY <2>1 DEF ListingInv
<1> QED BY <1>2, <1>5, <1>6, <1>7

\* One step of any kind.
LEMMA ListingStep ==
  ASSUME NamespaceInv, StorageInv, ListingInv, [NamespaceNext]_vars
  PROVE  ListingInv'
<1>1. CASE Perform
  BY <1>1, PerformListing
<1>2. ASSUME NEW version \in {1, 2}, NEW prefix \in ListPrefixes, StartWalk(version, prefix)
      PROVE  ListingInv'
  BY <1>2, StartWalkListing
<1>3. CASE FetchPage
  BY <1>3, FetchPageListing
<1>4. CASE NextPage
  BY <1>4, NextPageListing
<1>5. CASE EndWalk
  BY <1>5 DEF EndWalk, ListingInv, None
<1>6. CASE walk' = walk /\ objects' = objects
  BY <1>6 DEF ListingInv, ObjectsAt, InPlace, SeenInv, Routed
<1>7. \/ Perform \/ FetchPage \/ NextPage \/ EndWalk \/ (walk' = walk /\ objects' = objects)
      \/ \E version \in {1, 2}, prefix \in ListPrefixes : StartWalk(version, prefix)
  BY DEF NamespaceNext, vars, Remap, StartWrite, StartUploadCall, LoseWrite
<1> QED BY <1>1, <1>2, <1>3, <1>4, <1>5, <1>6, <1>7

\* What a walk has seen and what is still to come, for all mappings, keys, objects and
\* page sizes (rewriteOutboundQuery, virtualizeResponseKey).
THEOREM ListingInvariant == NamespaceSpec => [](NamespaceInv /\ StorageInv /\ ListingInv)
<1>1. NamespaceInit => NamespaceInv /\ StorageInv /\ ListingInv
  <2> SUFFICES ASSUME NamespaceInit
               PROVE  NamespaceInv /\ StorageInv /\ ListingInv
    OBVIOUS
  <2>1. PICK s \in Starts : objects = s.objects
    BY DEF NamespaceInit
  <2>2. StorageInv
    BY <2>1, NamespaceAssumption DEF StorageInv, Text
  <2>3. ListingInv
    BY DEF NamespaceInit, ListingInv, None
  <2> QED BY <2>2, <2>3, InitInv
<1>2. NamespaceInv /\ StorageInv /\ ListingInv /\ [NamespaceNext]_vars =>
        (NamespaceInv /\ StorageInv /\ ListingInv)'
  BY StepInv, StorageStep, ListingStep
<1> QED BY <1>1, <1>2, PTL DEF NamespaceSpec

\* A listing that was walked to its end has the keys of one place in order and once,
\* among them every key that was there all the time, for all mappings, keys, objects
\* and page sizes (rewriteOutboundQuery, virtualizeResponseKey).
THEOREM WalksComplete == NamespaceSpec => []WalkComplete
<1>1. ListingInv => WalkComplete
  <2> SUFFICES ASSUME ListingInv, walk.op = "done", walk.version = 1 => ~walk.moved
               PROVE  /\ Place(walk.m) = Place(walk.first)
                      /\ walk.steady \subseteq Range(walk.seen)
                      /\ \A i, j \in DOMAIN walk.seen : i < j => Before(walk.seen[i], walk.seen[j])
    BY DEF WalkComplete
  <2>1. SeenInv(walk)
    BY DEF ListingInv, InPlace
  <2> QED BY <2>1 DEF SeenInv, Sorted
<1> QED BY <1>1, ListingInvariant, PTL

=============================================================================
