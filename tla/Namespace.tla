------------------------------ MODULE Namespace ------------------------------
(***************************************************************************)
(* The objects of the real S3 as clients of a virtual bucket see them while *)
(* the bucket is mapped elsewhere: path prefixes, sealed tokens, paged      *)
(* listings and uploads (http_server/vbucket.go, s3_proxy.go, s3_token.go,  *)
(* s3_list_rewrite.go, s3_response.go).                                     *)
(*                                                                          *)
(* A text is a sequence of characters where the code cuts it apart.  One    *)
(* client writes, another walks through a listing; each request keeps the   *)
(* mapping it was authorized with.                                          *)
(***************************************************************************)
EXTENDS Integers, Sequences, SequencesExt, FiniteSets, FiniteSetsExt

CONSTANTS
  Mappings,    \* mappings as the control plane spells them
  Starts,      \* mappings to begin with, each with the objects that are there
  EndpointOf,  \* [text of an endpoint |-> the URL it is read as], if it is one
  Characters,  \* [character |-> its place in the order of keys]
  Keys,        \* virtual keys
  ListPrefixes,  \* what listings may ask for
  Values,
  PageSize,    \* the keys on a page
  MaxUploads,  \* bound: uploads begun
  MaxRemaps    \* bound: changes of the mapping

VARIABLES
  mapped,    \* the mapping of the virtual bucket at the control plane
  objects,   \* the real S3: objects by endpoint, bucket and key
  pending,   \* the real S3: uploads by endpoint, bucket, key and id
  begun,     \* the real S3: how many uploads have begun
  held,      \* the upload tokens the writer has been given
  write,     \* the request of the writer
  walk,      \* the listing of the walker, a request at a time
  remaps     \* how often the mapping has changed

vars == <<mapped, objects, pending, begun, held, write, walk, remaps>>

None == [op |-> "none"]
Absent == "absent"

(***************************************************************************)
(* NormalizeVBucketConfig.                                                 *)
(***************************************************************************)
\* strings.Trim(s, "/").
Trim(s) ==
  LET kept == {i \in DOMAIN s : s[i] # "/"}
  IN  IF kept = {} THEN <<>> ELSE SubSeq(s, Min(kept), Max(kept))

\* No segment of the path prefix is empty or a dot.
PrefixOK(prefix) ==
  LET cuts == {0, Len(prefix) + 1} \cup {i \in DOMAIN prefix : prefix[i] = "/"}
      adjacent(i, j) == i < j /\ \A c \in cuts : c <= i \/ j <= c
  IN  \/ prefix = <<>>
      \/ \A i, j \in cuts :
           adjacent(i, j) => SubSeq(prefix, i + 1, j - 1) \notin {<<>>, <<".">>, <<".", ".">>}

MappingOK(m) == m.endpoint \in DOMAIN EndpointOf /\ PrefixOK(Trim(m.prefix))

Normalize(m) ==
  [endpoint |-> EndpointOf[m.endpoint], bucket |-> m.bucket, prefix |-> Trim(m.prefix),
   routingKey |-> m.routingKey, credentials |-> m.credentials]

Place(m) == [endpoint |-> m.endpoint, bucket |-> m.bucket, prefix |-> m.prefix]
Places == {Place(Normalize(m)) : m \in {m \in Mappings : MappingOK(m)}}

ASSUME NamespaceAssumption ==
  /\ "/" \in DOMAIN Characters
  /\ \A c \in DOMAIN Characters : Characters[c] \in Int
  /\ \A c, d \in DOMAIN Characters : Characters[c] = Characters[d] => c = d
  /\ \A m \in Mappings : m.prefix \in Seq(DOMAIN Characters)
  /\ Keys \cup ListPrefixes \subseteq Seq(DOMAIN Characters)
  /\ MaxUploads \in Nat /\ PageSize \in Nat \ {0} /\ Absent \notin Values
  /\ \A s \in Starts :
       /\ s.mapping \in Mappings /\ IsFiniteSet(s.objects)
       /\ \A o \in s.objects : o.value \in Values /\ o.key \in Seq(DOMAIN Characters)
       /\ \A o, u \in s.objects : o.at = u.at /\ o.key = u.key => o = u

\* No place lies in another.
ASSUME PlacesApart ==
  \A p, q \in Places :
    p.endpoint = q.endpoint /\ p.bucket = q.bucket /\ p # q =>
      p.prefix # <<>> /\ ~IsPrefix(Append(p.prefix, "/"), Append(q.prefix, "/"))

(***************************************************************************)
(* Keys and tokens under a normalized mapping.                             *)
(***************************************************************************)
\* Mutant: nothing stands between the prefix and the key.
UnseparatedPrefix(m) == m.prefix

\* normalizedPrefix of proxyS3Request.
NormalizedPrefix(m) == IF m.prefix = <<>> THEN <<>> ELSE Append(m.prefix, "/")

RealKey(m, key) == NormalizedPrefix(m) \o key

\* Mutant: a marker goes on as the client sent it.
MarkerUnprefixed(m, key) == key

\* rewriteOutboundQuery: marker.
OutboundMarker(m, key) == RealKey(m, key)

\* virtualizeResponseKey.
Virtualizable(m, key) ==
  IsPrefix(NormalizedPrefix(m), key) /\ Len(key) > Len(NormalizedPrefix(m))

VirtualKey(m, key) == SubSeq(key, Len(NormalizedPrefix(m)) + 1, Len(key))

\* Mutant: the prefix of the mapping takes no part.
BindingOfBucket(m) == [endpoint |-> m.endpoint, bucket |-> m.bucket, routingKey |-> m.routingKey]

\* routingTokenSubkey and opaqueTokenAAD: what a token is sealed with.
Binding(m) ==
  [endpoint |-> m.endpoint, bucket |-> m.bucket, prefix |-> m.prefix, routingKey |-> m.routingKey]

\* encodeOpaqueToken.
Seal(m, kind, value) == [kind |-> kind, binding |-> Binding(m), value |-> value]

\* decodeOpaqueToken.
Opens(m, kind, token) == token.kind = kind /\ token.binding = Binding(m)

(***************************************************************************)
(* The real S3.                                                            *)
(***************************************************************************)
At(m) == [endpoint |-> m.endpoint, bucket |-> m.bucket]

ObjectsAt(m, key) == {o \in objects : o.at = At(m) /\ o.key = key}

Stored(m, key, value) ==
  (objects \ ObjectsAt(m, key)) \cup {[at |-> At(m), key |-> key, value |-> value]}

\* The order of keys.
Before(s, t) ==
  \/ IsPrefix(s, t) /\ s # t
  \/ \E i \in DOMAIN s \cap DOMAIN t :
       /\ SubSeq(s, 1, i - 1) = SubSeq(t, 1, i - 1)
       /\ Characters[s[i]] < Characters[t[i]]

\* The real keys that a listing goes through after a key.
Listed(m, prefix, after) ==
  {k \in {o.key : o \in {o \in objects : o.at = At(m)}} :
     IsPrefix(prefix, k) /\ (after = <<>> \/ Before(after, k))}

\* The first of them, a page full.
Page(keys) == {k \in keys : Cardinality({j \in keys : Before(j, k)}) < PageSize}

\* Keys in their order.
InOrder(keys) ==
  CHOOSE s \in [1..Cardinality(keys) -> keys] : \A i, j \in DOMAIN s : i < j => Before(s[i], s[j])

(***************************************************************************)
(* The writer: a request is authorized with the mapping of the moment, and  *)
(* performed later or never.  A mapping that cannot be normalized is        *)
(* refused.                                                                 *)
(***************************************************************************)
StartWrite(op, key, from) ==
  /\ write = None /\ MappingOK(mapped)
  /\ write' = [op |-> op, m |-> Normalize(mapped), key |-> key, from |-> from]
  /\ UNCHANGED <<mapped, objects, pending, begun, held, walk, remaps>>

\* CompleteMultipartUpload and AbortMultipartUpload: uploadId is a token.
StartUploadCall(op, handle) ==
  LET m == Normalize(mapped)
  IN  /\ write = None /\ MappingOK(mapped)
      /\ IF Opens(m, "upload", handle.token)
         THEN write' = [op |-> op, m |-> m, key |-> handle.key, id |-> handle.token.value,
                        under |-> handle.under]
         ELSE write' = [op |-> "refused", m |-> m, under |-> handle.under]
      /\ UNCHANGED <<mapped, objects, pending, begun, held, walk, remaps>>

\* The object that a request of the writer is about.
Target == RealKey(write.m, write.key)

\* The keys that have been there since the walk began still are.
Observe ==
  walk' = IF walk = None THEN None
          ELSE [walk EXCEPT !.steady =
                  {k \in @ : \E o \in objects' : o.at = At(walk.first) /\ o.key = RealKey(walk.first, k)}]

DoPut ==
  /\ write.op = "put"
  /\ \E v \in Values : objects' = Stored(write.m, Target, v)
  /\ UNCHANGED <<pending, begun, held>>

DoDelete ==
  /\ write.op = "delete"
  /\ objects' = objects \ ObjectsAt(write.m, Target)
  /\ UNCHANGED <<pending, begun, held>>

\* Both keys are under the prefix of one mapping.
DoCopy ==
  /\ write.op = "copy"
  /\ LET sources == ObjectsAt(write.m, RealKey(write.m, write.from))
     IN  objects' = IF sources = {} THEN objects
                    ELSE Stored(write.m, Target, (CHOOSE o \in sources : TRUE).value)
  /\ UNCHANGED <<pending, begun, held>>

\* The answer with the upload id may be lost.
DoBegin ==
  LET m == write.m
      id == begun + 1
  IN  /\ write.op = "begin" /\ id <= MaxUploads
      /\ begun' = id
      /\ pending' = pending \cup {[at |-> At(m), key |-> Target, id |-> id]}
      /\ \/ held' = held \cup {[token |-> Seal(m, "upload", id), key |-> write.key, under |-> m]}
         \/ UNCHANGED held
      /\ UNCHANGED objects

Upload == [at |-> At(write.m), key |-> Target, id |-> write.id]

DoComplete ==
  /\ write.op = "complete"
  /\ IF Upload \in pending
     THEN \E v \in Values : objects' = Stored(write.m, Target, v)
     ELSE UNCHANGED objects
  /\ pending' = pending \ {Upload}
  /\ UNCHANGED <<begun, held>>

DoAbort ==
  /\ write.op = "abort"
  /\ pending' = pending \ {Upload}
  /\ UNCHANGED <<objects, begun, held>>

Perform ==
  /\ DoPut \/ DoDelete \/ DoCopy \/ DoBegin \/ DoComplete \/ DoAbort
  /\ write' = None
  /\ Observe
  /\ UNCHANGED <<mapped, remaps>>

\* The answer is a refusal, or the request or its answer is lost.
LoseWrite ==
  /\ write # None
  /\ write' = None
  /\ UNCHANGED <<mapped, objects, pending, begun, held, walk, remaps>>

(***************************************************************************)
(* The walker: ListObjects goes on from a key, ListObjectsV2 from a token.  *)
(***************************************************************************)
StartWalk(version, prefix) ==
  LET m == Normalize(mapped)
  IN  /\ walk = None /\ MappingOK(mapped)
      /\ walk' = [op |-> "page", version |-> version, prefix |-> prefix, m |-> m, after |-> <<>>,
                  seen |-> <<>>, first |-> m, under |-> m, moved |-> FALSE,
                  steady |-> {k \in Keys : IsPrefix(prefix, k) /\ ObjectsAt(m, RealKey(m, k)) # {}}]
      /\ UNCHANGED <<mapped, objects, pending, begun, held, write, remaps>>

\* A page is answered; one key that cannot be virtualized fails the listing.
FetchPage ==
  LET m == walk.m
      keys == Listed(m, RealKey(m, walk.prefix), walk.after)
      page == InOrder(Page(keys))
      seen == walk.seen \o [i \in DOMAIN page |-> VirtualKey(m, page[i])]
  IN  /\ walk.op = "page"
      /\ walk' = IF \E i \in DOMAIN page : ~Virtualizable(m, page[i]) THEN None
                 ELSE IF Cardinality(keys) <= PageSize
                 THEN [walk EXCEPT !.op = "done", !.seen = seen]
                 ELSE [walk EXCEPT !.op = "between", !.seen = seen,
                         !.after = IF walk.version = 1 THEN Last(seen)
                                   ELSE Seal(m, "continuation", Last(page))]
      /\ UNCHANGED <<mapped, objects, pending, begun, held, write, remaps>>

\* rewriteOutboundQuery: marker gets the prefix, continuation-token is opened.
NextPage ==
  LET m == Normalize(mapped)
      page(after) == [walk EXCEPT !.op = "page", !.m = m, !.after = after,
                        !.moved = @ \/ Place(m) # Place(walk.first)]
  IN  /\ walk.op = "between" /\ MappingOK(mapped)
      /\ \/ /\ walk.version = 1
            /\ walk' = page(OutboundMarker(m, walk.after))
         \/ /\ walk.version = 2 /\ Opens(m, "continuation", walk.after)
            /\ walk' = page(walk.after.value)
         \/ /\ walk.version = 2 /\ ~Opens(m, "continuation", walk.after)
            /\ walk' = [walk EXCEPT !.op = "refused", !.under = walk.m, !.m = m]
      /\ UNCHANGED <<mapped, objects, pending, begun, held, write, remaps>>

EndWalk ==
  /\ walk.op \in {"done", "between", "refused"}
  /\ walk' = None
  /\ UNCHANGED <<mapped, objects, pending, begun, held, write, remaps>>

(***************************************************************************)
(* The specification.                                                      *)
(***************************************************************************)
\* The control plane maps the bucket elsewhere, rotates its credentials or its
\* routing key, or spells the mapping otherwise.
Remap ==
  /\ mapped' \in Mappings \ {mapped}
  /\ remaps < MaxRemaps /\ remaps' = remaps + 1
  /\ UNCHANGED <<objects, pending, begun, held, write, walk>>

NamespaceInit ==
  /\ \E s \in Starts : mapped = s.mapping /\ objects = s.objects
  /\ pending = {} /\ held = {} /\ begun = 0
  /\ write = None /\ walk = None /\ remaps = 0

NamespaceNext ==
  \/ Remap
  \/ \E op \in {"put", "delete", "copy", "begin"}, key, from \in Keys :
       (op # "copy" => from = key) /\ StartWrite(op, key, from)
  \/ \E op \in {"complete", "abort"}, handle \in held : StartUploadCall(op, handle)
  \/ Perform \/ LoseWrite
  \/ \E version \in {1, 2}, prefix \in ListPrefixes : StartWalk(version, prefix)
  \/ FetchPage \/ NextPage \/ EndWalk

NamespaceSpec == NamespaceInit /\ [][NamespaceNext]_vars

(***************************************************************************)
(* Properties.                                                             *)
(***************************************************************************)
ValueAt(p, key) ==
  IF ObjectsAt(p, RealKey(p, key)) = {} THEN Absent
  ELSE (CHOOSE o \in ObjectsAt(p, RealKey(p, key)) : TRUE).value

UploadOf(p, key, id) == [at |-> At(p), key |-> RealKey(p, key), id |-> id]

VS == INSTANCE VirtualStore WITH
        Ids <- 1..MaxUploads,
        store <- [p \in Places |-> [k \in Keys |-> ValueAt(p, k)]],
        uploads <- {u \in [place: Places, key: Keys, id: 1..MaxUploads] :
                      UploadOf(u.place, u.key, u.id) \in pending}

\* Whatever the prefixes, each place is a store of its own: a request changes one
\* key of the place it was authorized for and nothing a client of another place
\* can see, also when the bucket is mapped elsewhere while the request is on its
\* way (proxyS3Request).
ImplementsVirtualStore == VS!StoreSpec

\* A listing that was walked to its end is true: it has the keys of one place in
\* order and once, among them every key that was there all the time.  A change of
\* the mapping between two pages of a ListObjectsV2 ends the walk; ListObjects
\* goes on from a key, so only a walk that was not moved is complete
\* (rewriteOutboundQuery, virtualizeResponseKey).
WalkComplete ==
  walk.op = "done" /\ (walk.version = 1 => ~walk.moved) =>
    /\ Place(walk.m) = Place(walk.first)
    /\ walk.steady \subseteq Range(walk.seen)
    /\ \A i, j \in DOMAIN walk.seen : i < j => Before(walk.seen[i], walk.seen[j])

SameRouting(m, n) == Place(m) = Place(n) /\ m.routingKey = n.routingKey

\* A token works exactly where it was issued: an upload is only ever completed or
\* aborted in its own place, and no token is refused while endpoint, bucket,
\* prefix and routing key are those it was issued under, whatever the spelling of
\* the mapping and its credentials (encodeOpaqueToken, decodeOpaqueToken).
TokensExact ==
  /\ write.op \in {"complete", "abort"} => SameRouting(write.m, write.under)
  /\ write.op = "refused" => ~SameRouting(write.m, write.under)
  /\ walk.op = "refused" => ~SameRouting(walk.m, walk.under)
=============================================================================
