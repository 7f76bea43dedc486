--------------------------- MODULE ComponentProofs ---------------------------
(***************************************************************************)
(* Proofs about the components that know nothing of the others: the policy  *)
(* and the two halves of cache.go.                                          *)
(*                                                                          *)
(* The decision of a policy is what its statements mean, for every document *)
(* and every request.  LoadGroup is correct for every set of callers, keys  *)
(* and calls, every burst and every capacity.  LocalCache keeps its list    *)
(* and its map in step for all keys, lifetimes and bounds, and misses a     *)
(* live entry only when at least as many other keys as fit were used since  *)
(* it was.                                                                  *)
(***************************************************************************)
EXTENDS PolicyEval, LoadGroup, LocalCache, FiniteSetTheorems, TLAPS

(***************************************************************************)
(* PolicyEval: the invariant is that of the two nested loops.  The checks   *)
(* before the current one are permitted, no statement before the current    *)
(* one denies the current check, and allowed says whether one of them       *)
(* matched it.                                                              *)
(***************************************************************************)
\* The statements of the document that compileStatement accepts, compiled.
AcceptedStatements ==
  {Compiled(document["Statement"][i]) : i \in {j \in Nat : StatementOK(document["Statement"][j])}}

Deciding == phase \in {"evaluate"} \cup Decisions

LoopInv ==
  phase = "evaluate" =>
    /\ stmt <= Len(policy) + 1
    /\ PermittedBefore(check)
    /\ \A i \in 1..(stmt - 1) :
         Matches(policy[i], request.checks[check], request.context) => policy[i].effect = "Allow"
    /\ allowed <=> \E i \in 1..(stmt - 1) :
                     Matches(policy[i], request.checks[check], request.context)

PolicyInv ==
  /\ policy \in Seq(AcceptedStatements)
  /\ stmt \in Nat \ {0} /\ check \in Nat \ {0} /\ allowed \in BOOLEAN
  /\ Deciding => Len(request.checks) \in Nat
  /\ phase = "evaluate" => check <= Len(request.checks) + 1
  /\ LoopInv
  /\ DecisionIsPolicy

\* A compiled statement allows or denies.
LEMMA EffectKnown ==
  ASSUME policy \in Seq(AcceptedStatements), NEW i \in 1..Len(policy)
  PROVE  policy[i].effect \in {"Allow", "Deny"}
<1>1. policy[i] \in AcceptedStatements
  OBVIOUS
<1>2. PICK j \in Nat : StatementOK(document["Statement"][j])
                       /\ policy[i] = Compiled(document["Statement"][j])
  BY <1>1 DEF AcceptedStatements
<1>3. policy[i].effect = document["Statement"][j]["Effect"]
  BY <1>2 DEF Compiled
<1> QED BY <1>2, <1>3 DEF StatementOK

LEMMA OptionalCheck ==
  ASSUME NEW S, NEW x \in S, NEW p
  PROVE  <<x>> \in Seq(S) /\ If(p, <<x>>) \in Seq(S)
BY DEF If

\* An operation has finitely many checks.
LEMMA ChecksCounted ==
  ASSUME NEW o
  PROVE  Len(IAMChecks(o)) \in Nat
<1> DEFINE S == {KindCheck[o.kind], SourceCheck(o), Check("s3:PutObjectAcl", "object"),
                 Check("s3:PutObjectTagging", "object")}
<1> DEFINE a == <<KindCheck[o.kind]>>
<1> DEFINE b == If(o.kind = "CopyObject", <<SourceCheck(o)>>)
<1> DEFINE c == If(o.kind \in PutKinds /\ o.acl, <<Check("s3:PutObjectAcl", "object")>>)
<1> DEFINE d == If(o.kind \in PutKinds /\ o.tagging, <<Check("s3:PutObjectTagging", "object")>>)
<1>1. KindCheck[o.kind] \in S /\ SourceCheck(o) \in S /\ Check("s3:PutObjectAcl", "object") \in S
      /\ Check("s3:PutObjectTagging", "object") \in S
  OBVIOUS
<1>2. IAMChecks(o) = a \o b \o (c \o d)
  BY DEF IAMChecks, PutHeaderChecks
<1>3. a \in Seq(S) /\ b \in Seq(S) /\ c \in Seq(S) /\ d \in Seq(S)
  <2> HIDE DEF S
  <2> QED BY <1>1, OptionalCheck
<1> HIDE DEF S, a, b, c, d
<1> QED BY <1>2, <1>3

LEMMA PolicyInitHolds ==
  ASSUME PolicyInit
  PROVE  PolicyInv
<1>1. policy \in Seq(AcceptedStatements) /\ stmt \in Nat \ {0} /\ check \in Nat \ {0} /\ phase = "parse"
  BY DEF PolicyInit
<1>2. allowed \in BOOLEAN
  BY DEF PolicyInit
<1> QED BY <1>1, <1>2 DEF PolicyInv, Deciding, Decisions, LoopInv, DecisionIsPolicy

\* While the policy is being compiled nothing is decided.
LEMMA CompileStep ==
  ASSUME PolicyInv, Parse \/ Compile \/ Install
  PROVE  PolicyInv'
<1>1. document' = document /\ phase' \in {"compile", "refused", "installed"}
      /\ check' = check /\ allowed' = allowed
  BY DEF Parse, Compile, Install
<1>2. policy' \in Seq(AcceptedStatements) /\ stmt' \in Nat \ {0}
  <2>1. CASE UNCHANGED <<policy, stmt>>
    BY <2>1 DEF PolicyInv
  <2>2. CASE ~UNCHANGED <<policy, stmt>>
    <3> DEFINE raw == document["Statement"][stmt]
    <3>1. StatementOK(raw) /\ policy' = Append(policy, Compiled(raw)) /\ stmt' = stmt + 1
      BY <2>2 DEF Parse, Compile, Install
    <3>2. stmt \in Nat \ {0} /\ policy \in Seq(AcceptedStatements)
      BY DEF PolicyInv
    <3>3. Compiled(raw) \in AcceptedStatements
      BY <3>1, <3>2 DEF AcceptedStatements
    <3> HIDE DEF raw
    <3> QED BY <3>1, <3>2, <3>3
  <2> QED BY <2>1, <2>2
<1>3. AcceptedStatements' = AcceptedStatements
  BY <1>1 DEF AcceptedStatements
<1> QED BY <1>1, <1>2, <1>3 DEF PolicyInv, Deciding, Decisions, LoopInv, DecisionIsPolicy

\* A request starts with its first check and the first statement.
LEMMA ArriveStep ==
  ASSUME PolicyInv, Arrive
  PROVE  PolicyInv'
<1>1. /\ UNCHANGED <<document, policy>>
      /\ phase' = "evaluate" /\ check' = 1 /\ stmt' = 1 /\ allowed' = FALSE
  BY DEF Arrive
<1>2. Len(request'.checks) \in Nat
  <2>1. PICK o, context : request' = [operation |-> o, checks |-> IAMChecks(o), context |-> context]
    BY DEF Arrive
  <2>2. request'.checks = IAMChecks(o)
    BY <2>1
  <2> QED BY <2>2, ChecksCounted
<1>3. AcceptedStatements' = AcceptedStatements /\ policy \in Seq(AcceptedStatements)
  BY <1>1 DEF AcceptedStatements, PolicyInv
<1>4. LoopInv'
  <2>1. \A i \in 1..(stmt' - 1) : FALSE
    BY <1>1
  <2>2. \A j \in 1..(check' - 1) : FALSE
    BY <1>1
  <2>3. stmt' <= Len(policy') + 1
    BY <1>1, <1>3
  <2>4. ~allowed'
    BY <1>1
  <2> QED BY <2>1, <2>2, <2>3, <2>4 DEF LoopInv, PermittedBefore
<1>5. DecisionIsPolicy'
  BY <1>1 DEF DecisionIsPolicy
<1>6. allowed' \in BOOLEAN
  BY <1>1
<1> QED BY <1>1, <1>2, <1>3, <1>4, <1>5, <1>6 DEF PolicyInv


\* What a statement means for a check does not depend on where the loops are.
LEMMA MeaningFixed ==
  ASSUME UNCHANGED <<policy, request>>
  PROVE  /\ \A k : Denied(k)' <=> Denied(k)
         /\ \A k : SomeMatch("Allow", k)' <=> SomeMatch("Allow", k)
         /\ \A k : Permitted(k)' <=> Permitted(k)
         /\ \A k : PermittedBefore(k)' <=> PermittedBefore(k)
BY DEF Denied, SomeMatch, Permitted, PermittedBefore, Matches

\* Policy.Authorize goes on to the next statement, or returns at a Deny.
LEMMA StatementStep ==
  ASSUME PolicyInv, EvaluateStatement
  PROVE  PolicyInv'
<1> DEFINE M(i) == Matches(policy[i], request.checks[check], request.context)
<1>0. /\ policy \in Seq(AcceptedStatements) /\ stmt \in Nat \ {0} /\ check \in Nat \ {0}
      /\ Len(request.checks) \in Nat /\ check <= Len(request.checks) /\ stmt <= Len(policy)
      /\ phase = "evaluate" /\ LoopInv /\ allowed \in BOOLEAN
  BY DEF PolicyInv, Deciding, EvaluateStatement
<1>1. UNCHANGED <<document, policy, request, check>>
  BY DEF EvaluateStatement
<1>2. AcceptedStatements' = AcceptedStatements
  BY <1>1 DEF AcceptedStatements
<1>3. stmt \in 1..Len(policy) /\ check \in 1..Len(request.checks)
  BY <1>0
<1>4. CASE M(stmt) /\ policy[stmt].effect = "Deny"
  <2>1. phase' = "explicit deny" /\ UNCHANGED <<stmt, allowed>>
    BY <1>4 DEF EvaluateStatement, StatementMatches
  <2>2. Denied(check) /\ PermittedBefore(check)
    BY <1>0, <1>3, <1>4 DEF Denied, SomeMatch, LoopInv
  <2>3. DecisionIsPolicy'
    BY <1>1, <1>3, <2>1, <2>2, MeaningFixed DEF DecisionIsPolicy
  <2>4. LoopInv'
    BY <2>1 DEF LoopInv
  <2> QED BY <1>0, <1>1, <1>2, <2>1, <2>3, <2>4 DEF PolicyInv, Deciding
<1>5. CASE ~(M(stmt) /\ policy[stmt].effect = "Deny")
  <2>1. phase' = phase /\ stmt' = stmt + 1 /\ allowed' = (allowed \/ M(stmt))
    BY <1>5 DEF EvaluateStatement, StatementMatches
  <2>2. \A i \in 1..stmt : i \in 1..(stmt - 1) \/ i = stmt
    BY <1>0
  <2>3. stmt' - 1 = stmt
    BY <1>0, <2>1
  <2>4. M(stmt) => policy[stmt].effect = "Allow"
    BY <1>0, <1>3, <1>5, EffectKnown
  <2>5. \A i \in 1..stmt : M(i) => policy[i].effect = "Allow"
    BY <1>0, <2>2, <2>4 DEF LoopInv
  <2>6. allowed' <=> \E i \in 1..stmt : M(i)
    <3>1. allowed <=> \E i \in 1..(stmt - 1) : M(i)
      BY <1>0 DEF LoopInv
    <3>2. stmt \in 1..stmt /\ \A i \in 1..(stmt - 1) : i \in 1..stmt
      BY <1>0
    <3>3. allowed' <=> (allowed \/ M(stmt))
      BY <2>1
    <3> HIDE DEF M
    <3> QED BY <2>2, <3>1, <3>2, <3>3, Zenon
  <2>7. stmt' <= Len(policy') + 1
    BY <1>0, <1>1, <2>1
  <2>8. PermittedBefore(check)'
    BY <1>0, <1>1, MeaningFixed DEF LoopInv
  <2>9. LoopInv'
    BY <1>1, <2>3, <2>5, <2>6, <2>7, <2>8 DEF LoopInv
  <2>10. DecisionIsPolicy'
    BY <1>0, <2>1 DEF DecisionIsPolicy
  <2>11. allowed' \in BOOLEAN
    BY <2>1, <1>0
  <2> QED BY <1>0, <1>1, <1>2, <2>1, <2>9, <2>10, <2>11 DEF PolicyInv, Deciding
<1> QED BY <1>4, <1>5


\* A check that was allowed gives way to the next one; a check that was not is
\* denied.
LEMMA CheckStep ==
  ASSUME PolicyInv, EndCheck
  PROVE  PolicyInv'
<1> DEFINE M(i) == Matches(policy[i], request.checks[check], request.context)
<1>0. /\ policy \in Seq(AcceptedStatements) /\ stmt \in Nat \ {0} /\ check \in Nat \ {0}
      /\ Len(request.checks) \in Nat /\ check <= Len(request.checks) /\ stmt = Len(policy) + 1
      /\ phase = "evaluate" /\ LoopInv
  <2>1. /\ policy \in Seq(AcceptedStatements) /\ stmt \in Nat \ {0} /\ check \in Nat \ {0}
        /\ Len(request.checks) \in Nat /\ check <= Len(request.checks) /\ stmt > Len(policy)
        /\ phase = "evaluate" /\ LoopInv
    BY DEF PolicyInv, Deciding, EndCheck
  <2>2. stmt <= Len(policy) + 1
    BY <2>1 DEF LoopInv
  <2> QED BY <2>1, <2>2
<1>1. UNCHANGED <<document, policy, request>>
  BY DEF EndCheck
<1>2. AcceptedStatements' = AcceptedStatements
  BY <1>1 DEF AcceptedStatements
<1>3. stmt - 1 = Len(policy) /\ check \in 1..Len(request.checks)
  BY <1>0
<1>4. ~Denied(check)
  BY <1>0, <1>3 DEF Denied, SomeMatch, LoopInv
<1>5. allowed <=> SomeMatch("Allow", check)
  BY <1>0, <1>3 DEF SomeMatch, LoopInv
<1>6. CASE allowed
  <2>1. phase' = phase /\ check' = check + 1 /\ stmt' = 1 /\ allowed' = FALSE
    BY <1>6 DEF EndCheck, NextCheck
  <2>2. Permitted(check)
    BY <1>4, <1>5, <1>6 DEF Permitted
  <2>3. \A j \in 1..check : Permitted(j)
    BY <1>0, <2>2 DEF LoopInv, PermittedBefore
  <2>4. check' - 1 = check /\ check' \in Nat \ {0} /\ check' <= Len(request'.checks) + 1
    BY <1>0, <1>1, <2>1
  <2>5. PermittedBefore(check)'
    BY <1>1, <2>3, <2>4, MeaningFixed DEF PermittedBefore
  <2>6. \A i \in 1..(stmt' - 1) : FALSE
    BY <2>1
  <2>7. stmt' <= Len(policy') + 1 /\ ~allowed'
    BY <1>0, <1>1, <2>1
  <2>8. LoopInv'
    BY <2>5, <2>6, <2>7 DEF LoopInv
  <2>9. DecisionIsPolicy'
    BY <1>0, <2>1 DEF DecisionIsPolicy
  <2>10. allowed' \in BOOLEAN
    BY <2>1
  <2>11. stmt' \in Nat \ {0}
    BY <2>1
  <2> QED BY <1>0, <1>1, <1>2, <2>1, <2>4, <2>8, <2>9, <2>10, <2>11 DEF PolicyInv, Deciding
<1>7. CASE ~allowed
  <2>1. phase' = "implicit deny" /\ UNCHANGED <<check, stmt, allowed>>
    BY <1>7 DEF EndCheck
  <2>2. PermittedBefore(check) /\ ~SomeMatch("Allow", check)
    BY <1>0, <1>5, <1>7 DEF LoopInv
  <2>3. DecisionIsPolicy'
    BY <1>1, <1>3, <1>4, <2>1, <2>2, MeaningFixed DEF DecisionIsPolicy
  <2>4. LoopInv'
    BY <2>1 DEF LoopInv
  <2>5. allowed \in BOOLEAN
    BY DEF PolicyInv
  <2> QED BY <1>0, <1>1, <1>2, <2>1, <2>3, <2>4, <2>5 DEF PolicyInv, Deciding
<1> QED BY <1>6, <1>7

\* The request is granted after its last check, and leaves.
LEMMA EndStep ==
  ASSUME PolicyInv, Grant \/ Leave
  PROVE  PolicyInv'
<1>1. UNCHANGED <<document, policy, check, stmt, allowed>>
  BY DEF Grant, Leave
<1>2. AcceptedStatements' = AcceptedStatements
  BY <1>1 DEF AcceptedStatements
<1>3. CASE Grant
  <2>1. /\ phase = "evaluate" /\ phase' = "granted" /\ request' = request
        /\ check > Len(request.checks) /\ Len(request.checks) \in Nat /\ check \in Nat
    BY <1>3 DEF Grant, PolicyInv, Deciding
  <2>2. \A k \in 1..Len(request.checks) : k \in 1..(check - 1)
    BY <2>1
  <2>3. \A k \in 1..Len(request.checks) : Permitted(k)
    BY <2>1, <2>2 DEF PolicyInv, LoopInv, PermittedBefore
  <2>4. DecisionIsPolicy'
    BY <1>1, <2>1, <2>3, MeaningFixed DEF DecisionIsPolicy
  <2> QED BY <1>1, <1>2, <2>1, <2>4 DEF PolicyInv, Deciding, LoopInv
<1>4. CASE Leave
  BY <1>1, <1>2, <1>4 DEF Leave, PolicyInv, Deciding, Decisions, LoopInv, DecisionIsPolicy
<1> QED BY <1>3, <1>4

LEMMA PolicyStepPreserves ==
  ASSUME PolicyInv, [PolicyNext]_evaluation
  PROVE  PolicyInv'
<1>1. CASE UNCHANGED evaluation
  BY <1>1, MeaningFixed DEF evaluation, PolicyInv, Deciding, Decisions, LoopInv, DecisionIsPolicy,
     AcceptedStatements
<1>2. CASE PolicyNext
  BY <1>2, CompileStep, ArriveStep, StatementStep, CheckStep, EndStep DEF PolicyNext
<1> QED BY <1>1, <1>2

\* PolicyInv holds of every reachable state, for every document and request.
THEOREM PolicyInvariant == PolicySpec => []PolicyInv
BY PolicyInitHolds, PolicyStepPreserves, PTL DEF PolicySpec

\* A request is granted exactly when the statements permit each of its checks
\* (Policy.Authorize, AuthorizeS3Plan).
THEOREM DecisionSound == PolicySpec => []DecisionIsPolicy
<1>1. PolicyInv => DecisionIsPolicy
  BY DEF PolicyInv
<1> QED BY <1>1, PolicyInvariant, PTL


\* Two readable strings are compared as the integers they are read as.
LEMMA ReadableCompare ==
  ASSUME NEW type \in {"Numeric", "Date"}, NEW s \in Strings, NEW e \in Strings,
         Readable(type, s), Readable(type, e), NEW relation
  PROVE  /\ Reading[type][s] \in Int /\ Reading[type][e] \in Int
         /\ ValueMatches(Operator(type, relation, FALSE), s, e)
              <=> Compare(relation, Reading[type][s], Reading[type][e])
BY PolicyAssumption DEF ValueMatches, Operator, Readable

LEMMA Trichotomy ==
  ASSUME NEW a \in Int, NEW b \in Int
  PROVE  /\ Compare("<", a, b) <=> ~Compare(">=", a, b)
         /\ Compare("<=", a, b) <=> ~Compare(">", a, b)
         /\ Compare("=", a, b) <=> Compare("<=", a, b) /\ Compare(">=", a, b)
BY DEF Compare

\* The conditions of a compiled statement have passed validateConditionOperands.
LEMMA OperandsRead ==
  ASSUME policy \in Seq(AcceptedStatements), NEW i \in 1..Len(policy),
         NEW c \in policy[i].conditions, c.operator.type \in {"Numeric", "Date"},
         NEW e \in c.values
  PROVE  Readable(c.operator.type, e)
<1>1. policy[i] \in AcceptedStatements
  OBVIOUS
<1>2. PICK j \in Nat : StatementOK(document["Statement"][j])
                       /\ policy[i] = Compiled(document["Statement"][j])
  BY <1>1 DEF AcceptedStatements
<1> DEFINE raw == document["Statement"][j]
           conditions == raw["Condition"]
<1>3. Has(raw, "Condition") /\ c \in CompiledConditions(conditions)
  BY <1>2 DEF Compiled
<1>4. ConditionsOK(conditions)
  BY <1>2, <1>3 DEF StatementOK
<1>5. PICK o \in DOMAIN conditions : \E k \in DOMAIN conditions[o] :
        c = [operator |-> Operators[o], key |-> k, values |-> conditions[o][k]]
  BY <1>3 DEF CompiledConditions
<1>6. PICK k \in DOMAIN conditions[o] :
        c = [operator |-> Operators[o], key |-> k, values |-> conditions[o][k]]
  BY <1>5
<1>7. c.operator = Operators[o] /\ c.values = conditions[o][k]
  BY <1>6
<1>8. OperandsOK(Operators[o], KeyTypes[k], conditions[o][k])
  BY <1>4, <1>5, <1>6 DEF ConditionsOK
<1> HIDE DEF conditions
<1> QED BY <1>7, <1>8 DEF OperandsOK

\* An installed numeric or date operand is at, above or below every readable
\* value (validateConditionOperands).
THEOREM OperandsSound == PolicySpec => []OperandsDecide
<1>1. ASSUME PolicyInv PROVE OperandsDecide
  <2> SUFFICES ASSUME NEW i \in 1..Len(policy), NEW c \in policy[i].conditions,
                      c.operator.type \in {"Numeric", "Date"},
                      NEW e \in c.values \cap Strings, NEW s \in Strings,
                      Readable(c.operator.type, s)
               PROVE  LET Holds(relation) == ValueMatches(Operator(c.operator.type, relation, FALSE), s, e)
                      IN  /\ Holds("<") <=> ~Holds(">=")
                          /\ Holds("<=") <=> ~Holds(">")
                          /\ Holds("=") <=> Holds("<=") /\ Holds(">=")
    BY DEF OperandsDecide
  <2>1. Readable(c.operator.type, e)
    BY <1>1, OperandsRead DEF PolicyInv
  <2> DEFINE a == Reading[c.operator.type][s]
             b == Reading[c.operator.type][e]
  <2>2. a \in Int /\ b \in Int
    BY <2>1, ReadableCompare
  <2>3. \A relation : ValueMatches(Operator(c.operator.type, relation, FALSE), s, e)
                        <=> Compare(relation, a, b)
    BY <2>1, ReadableCompare
  <2>4. /\ Compare("<", a, b) <=> ~Compare(">=", a, b)
        /\ Compare("<=", a, b) <=> ~Compare(">", a, b)
        /\ Compare("=", a, b) <=> Compare("<=", a, b) /\ Compare(">=", a, b)
    <3> HIDE DEF a, b
    <3> QED BY <2>2, Trichotomy
  <2> HIDE DEF a, b
  <2> QED BY <2>3, <2>4, Zenon
<1> QED BY <1>1, PolicyInvariant, PTL

(***************************************************************************)
(* LoadGroup: LoadInv is inductive, and the properties are its conjuncts   *)
(* or follow from them.                                                    *)
(***************************************************************************)
Open == {c \in Calls : call[c].phase = "open"}

\* The bucket after crediting time is a number between nothing and the burst.
LEMMA RefilledType ==
  ASSUME LoadTypeOK
  PROVE  Refilled \in 0..Burst
BY LoadGroupAssumption DEF LoadTypeOK, Refilled, Smaller

\* The loads that run are finitely many, and adding or removing one changes
\* their number by one.
LEMMA OpenFinite == IsFiniteSet(Open) /\ Cardinality(Open) \in Nat
<1>1. IsFiniteSet(Open)
  BY LoadGroupAssumption, FS_Subset DEF Open
<1> QED BY <1>1, FS_CardinalityType

LEMMA OpenSame ==
  ASSUME LoadTypeOK,
         \A c \in Calls : call'[c].phase = "open" <=> call[c].phase = "open"
  PROVE  Cardinality(Open') = Cardinality(Open)
<1>1. Open' = Open
  BY DEF Open
<1> QED BY <1>1

\* What a step that leaves calls, call and inflight alone preserves.
LEMMA GroupUntouched ==
  ASSUME LoadTypeOK, SlotsHeldByLoads, RegisteredUntilRemoved,
         UNCHANGED <<calls, call, inflight>>
  PROVE  SlotsHeldByLoads' /\ RegisteredUntilRemoved'
BY DEF SlotsHeldByLoads, RegisteredUntilRemoved

\* What the bucket owes when neither it nor the history changes.
LEMMA BucketUntouched ==
  ASSUME admitted + Refilled <= Burst + window,
         UNCHANGED <<tokens, elapsed, window, admitted>>
  PROVE  (admitted + Refilled <= Burst + window)'
BY DEF Refilled

LEMMA LoadInitHolds == LoadInit => LoadInv
<1> SUFFICES ASSUME LoadInit
             PROVE  LoadInv
  OBVIOUS
<1>1. LoadTypeOK
  BY LoadGroupAssumption DEF LoadInit, LoadTypeOK, Phases
<1>2. SlotsHeldByLoads
  <2>1. {c \in Calls : call[c].phase = "open"} = {}
    BY DEF LoadInit
  <2>2. Cardinality({}) = 0
    BY FS_EmptySet
  <2> QED BY <2>1, <2>2, LoadGroupAssumption DEF SlotsHeldByLoads, LoadInit
<1>3. RegisteredUntilRemoved
  BY LoadGroupAssumption DEF LoadInit, RegisteredUntilRemoved
<1>4. admitted + Refilled <= Burst + window
  BY LoadGroupAssumption DEF LoadInit, Refilled, Smaller
<1> QED BY <1>1, <1>2, <1>3, <1>4 DEF LoadInv

\* Joining, receiving and giving up only change who waits for what.
LEMMA WaitingStep ==
  ASSUME LoadInv, NEW p \in Callers,
         (\E k \in LoadKeys : Join(p, k)) \/ Receive(p) \/ GiveUp(p)
  PROVE  LoadInv'
<1>1. /\ UNCHANGED <<calls, call, admission, history>>
      /\ on' \in [Callers -> Calls \cup {NoCall}]
  BY DEF Join, Receive, GiveUp, LoadInv, LoadTypeOK
<1>2. LoadTypeOK'
  BY <1>1 DEF LoadInv, LoadTypeOK, admission, history
<1> QED BY <1>1, <1>2, GroupUntouched, BucketUntouched DEF LoadInv, admission, history

LEMMA RejectedStep ==
  ASSUME LoadInv, NEW p \in Callers, NEW k \in LoadKeys, Rejected(p, k)
  PROVE  LoadInv'
<1>0. LoadTypeOK /\ Refilled \in 0..Burst
  BY RefilledType DEF LoadInv
<1>1. /\ UNCHANGED <<calls, call, on, inflight, admitted, window>>
      /\ tokens' \in 0..Refilled /\ elapsed' = 0
  BY <1>0, LoadGroupAssumption DEF Rejected, NoToken, NoSlot, group
<1>2. LoadTypeOK'
  BY <1>0, <1>1, LoadGroupAssumption DEF LoadTypeOK
<1>3. PICK t \in 0..Refilled : tokens' = t
  BY <1>1
<1>4. (admitted + Refilled <= Burst + window)'
  <2>1. Refilled' = Smaller(Burst, t + 0)
    BY <1>1, <1>3 DEF Refilled
  <2>2. Smaller(Burst, t + 0) = t
    BY <1>0, <1>3, LoadGroupAssumption DEF Smaller
  <2>3. admitted + Refilled <= Burst + window /\ admitted \in Nat /\ window \in Nat
    BY DEF LoadInv, LoadTypeOK
  <2>4. admitted + t <= Burst + window
    BY <1>0, <2>3, LoadGroupAssumption
  <2> QED BY <1>1, <2>1, <2>2, <2>4
<1> QED BY <1>1, <1>2, <1>4, GroupUntouched DEF LoadInv

\* A load starts: one call, one slot, one token.
LEMMA StartStep ==
  ASSUME LoadInv, NEW p \in Callers, NEW k \in LoadKeys, Start(p, k)
  PROVE  LoadInv'
<1>0. LoadTypeOK /\ Refilled \in 0..Burst
  BY RefilledType DEF LoadInv
<1>1. PICK c \in Calls :
        /\ Unreferenced(c)
        /\ calls' = [calls EXCEPT ![k] = c]
        /\ call' = [call EXCEPT ![c] = [key |-> k, phase |-> "open"]]
        /\ on' = [on EXCEPT ![p] = c]
  BY DEF Start
<1>2. /\ calls[k] = NoCall /\ UNCHANGED window
      /\ tokens' = Refilled - Grain /\ elapsed' = 0 /\ Refilled >= Grain
      /\ inflight' = inflight + 1 /\ inflight < InflightMax
      /\ admitted' = admitted + Grain
  BY DEF Start, Acquire
<1>3. LoadTypeOK'
  <2>1. tokens' \in 0..Burst /\ elapsed' \in 0..Burst /\ inflight' \in 0..InflightMax
        /\ window' \in Nat /\ admitted' \in Nat
    BY <1>0, <1>2, LoadGroupAssumption DEF LoadTypeOK
  <2>2. [key |-> k, phase |-> "open"] \in [key: LoadKeys, phase: Phases]
    BY DEF Phases
  <2> QED BY <1>0, <1>1, <2>1, <2>2 DEF LoadTypeOK
<1>4. SlotsHeldByLoads'
  <2>1. call[c].phase = "done" /\ c \notin Open
    BY <1>1 DEF Unreferenced, Open
  <2>2. Open' = Open \cup {c}
    BY <1>0, <1>1 DEF Open, LoadTypeOK
  <2>3. Cardinality(Open') = Cardinality(Open) + 1
    BY <2>1, <2>2, OpenFinite, FS_AddElement
  <2> QED BY <1>0, <1>2, <2>3, LoadGroupAssumption DEF LoadInv, SlotsHeldByLoads, Open, LoadTypeOK
<1>5. RegisteredUntilRemoved'
  <2> SUFFICES ASSUME NEW x \in LoadKeys, NEW d \in Calls
               PROVE  (calls[x] = d <=> call[d].key = x /\ call[d].phase \in {"open", "loaded"})'
    BY DEF RegisteredUntilRemoved
  <2>1. calls[x] = d <=> call[d].key = x /\ call[d].phase \in {"open", "loaded"}
    BY DEF LoadInv, RegisteredUntilRemoved
  <2>2. call[c].phase = "done"
    BY <1>1 DEF Unreferenced
  <2>3. CASE d = c
    BY <1>0, <1>1, <2>1, <2>2, <2>3 DEF LoadTypeOK
  <2>4. CASE d # c
    BY <1>0, <1>1, <1>2, <2>1, <2>4, LoadGroupAssumption DEF LoadTypeOK
  <2> QED BY <2>3, <2>4
<1>6. (admitted + Refilled <= Burst + window)'
  <2>1. Refilled' = Refilled - Grain
    BY <1>0, <1>2, LoadGroupAssumption DEF Refilled, Smaller
  <2> QED BY <1>0, <1>2, <2>1, LoadGroupAssumption DEF LoadInv, LoadTypeOK
<1> QED BY <1>3, <1>4, <1>5, <1>6 DEF LoadInv

LEMMA ReturnsStep ==
  ASSUME LoadInv, NEW c \in Calls, LoadReturns(c)
  PROVE  LoadInv'
<1>0. LoadTypeOK
  BY DEF LoadInv
<1>1. /\ call[c].phase = "open" /\ call' = [call EXCEPT ![c].phase = "loaded"]
      /\ inflight' = inflight - 1 /\ UNCHANGED <<calls, on, tokens, elapsed, window, admitted>>
  BY DEF LoadReturns, Enter, history
<1>2. inflight' \in 0..InflightMax /\ SlotsHeldByLoads'
  <2>1. c \in Open /\ Open' = Open \ {c}
    BY <1>0, <1>1 DEF Open, LoadTypeOK
  <2>2. Cardinality(Open') = Cardinality(Open) - 1
    BY <2>1, OpenFinite, FS_RemoveElement
  <2>3. inflight = Cardinality(Open) /\ inflight <= InflightMax
    BY DEF LoadInv, SlotsHeldByLoads, Open
  <2>4. Cardinality(Open) # 0
    BY <2>1, OpenFinite, FS_EmptySet
  <2> QED BY <1>1, <2>2, <2>3, <2>4, OpenFinite, LoadGroupAssumption DEF SlotsHeldByLoads, Open
<1>3. LoadTypeOK'
  BY <1>0, <1>1, <1>2 DEF LoadTypeOK, Phases
<1>4. RegisteredUntilRemoved'
  BY <1>0, <1>1 DEF LoadInv, RegisteredUntilRemoved, LoadTypeOK
<1> QED BY <1>1, <1>2, <1>3, <1>4, BucketUntouched DEF LoadInv

\* Removing and closing a call leave the loads that run alone.
LEMMA RemoveStep ==
  ASSUME LoadInv, NEW c \in Calls, Remove(c)
  PROVE  LoadInv'
<1>0. LoadTypeOK
  BY DEF LoadInv
<1>1. /\ call[c].phase = "loaded" /\ call' = [call EXCEPT ![c].phase = "removed"]
      /\ UNCHANGED <<on, inflight, tokens, elapsed, window, admitted>>
  BY DEF Remove, Enter, history, admission
<1>2. calls[call[c].key] = c
  BY <1>0, <1>1 DEF LoadInv, RegisteredUntilRemoved, LoadTypeOK
<1>3. calls' = [calls EXCEPT ![call[c].key] = NoCall]
  BY <1>2 DEF Remove
<1>4. LoadTypeOK'
  BY <1>0, <1>1, <1>3 DEF LoadTypeOK, Phases
<1>5. SlotsHeldByLoads'
  <2>1. Cardinality(Open') = Cardinality(Open)
    BY <1>0, <1>1, OpenSame DEF LoadTypeOK
  <2> QED BY <1>1, <2>1 DEF LoadInv, SlotsHeldByLoads, Open
<1>6. RegisteredUntilRemoved'
  <2> SUFFICES ASSUME NEW x \in LoadKeys, NEW d \in Calls
               PROVE  (calls[x] = d <=> call[d].key = x /\ call[d].phase \in {"open", "loaded"})'
    BY DEF RegisteredUntilRemoved
  <2>1. calls[x] = d <=> call[d].key = x /\ call[d].phase \in {"open", "loaded"}
    BY DEF LoadInv, RegisteredUntilRemoved
  <2>2. CASE d = c
    BY <1>0, <1>1, <1>3, <2>1, <2>2, LoadGroupAssumption DEF LoadTypeOK
  <2>3. CASE d # c
    BY <1>0, <1>1, <1>2, <1>3, <2>1, <2>3, LoadGroupAssumption DEF LoadTypeOK
  <2> QED BY <2>2, <2>3
<1> QED BY <1>1, <1>4, <1>5, <1>6, BucketUntouched DEF LoadInv

LEMMA CloseStep ==
  ASSUME LoadInv, NEW c \in Calls, Close(c)
  PROVE  LoadInv'
<1>0. LoadTypeOK
  BY DEF LoadInv
<1>1. /\ call[c].phase = "removed" /\ call' = [call EXCEPT ![c].phase = "done"]
      /\ UNCHANGED <<calls, on, inflight, tokens, elapsed, window, admitted>>
  BY DEF Close, Enter, history, admission
<1>2. LoadTypeOK'
  BY <1>0, <1>1 DEF LoadTypeOK, Phases
<1>3. SlotsHeldByLoads'
  <2>1. Cardinality(Open') = Cardinality(Open)
    BY <1>0, <1>1, OpenSame DEF LoadTypeOK
  <2> QED BY <1>1, <2>1 DEF LoadInv, SlotsHeldByLoads, Open
<1>4. RegisteredUntilRemoved'
  BY <1>0, <1>1 DEF LoadInv, RegisteredUntilRemoved, LoadTypeOK
<1> QED BY <1>1, <1>2, <1>3, <1>4, BucketUntouched DEF LoadInv

\* Time fills the bucket no faster than it passes.
LEMMA TimeStep ==
  ASSUME LoadInv, Elapse \/ Measure
  PROVE  LoadInv'
<1>0. LoadTypeOK /\ Refilled \in 0..Burst
  BY RefilledType DEF LoadInv
<1>1. UNCHANGED <<calls, call, on, tokens, inflight>>
  BY DEF Elapse, Measure, group, admission
<1>2. LoadTypeOK'
  BY <1>0, <1>1, LoadGroupAssumption DEF LoadTypeOK, Elapse, Measure, Smaller, admission
<1>3. (admitted + Refilled <= Burst + window)'
  <2>1. CASE Elapse
    <3>1. PICK r \in 0..(Refilled + 1) : Refilled' = r
      <4>0. elapsed \in 0..Burst /\ tokens \in 0..Burst
        BY <1>0 DEF LoadTypeOK
      <4>1. PICK e \in elapsed..(elapsed + 1) : elapsed' = e
        BY <2>1, <4>0, LoadGroupAssumption DEF Elapse, Smaller
      <4>2. Refilled' = Smaller(Burst, tokens + e)
        BY <1>1, <4>1 DEF Refilled
      <4>3. Smaller(Burst, tokens + e) \in 0..(Refilled + 1)
        BY <4>0, LoadGroupAssumption DEF Refilled, Smaller
      <4> QED BY <4>2, <4>3
    <3>2. admitted + Refilled <= Burst + window /\ admitted \in Nat /\ window \in Nat
      BY DEF LoadInv, LoadTypeOK
    <3>3. window' = window + 1 /\ admitted' = admitted
      BY <2>1 DEF Elapse
    <3>4. admitted + r <= Burst + (window + 1)
      BY <1>0, <3>1, <3>2, LoadGroupAssumption
    <3> QED BY <3>1, <3>3, <3>4
  <2>2. CASE Measure
    <3>1. Refilled' = Refilled
      BY <2>2 DEF Measure, admission, Refilled
    <3> QED BY <1>0, <2>2, <3>1, LoadGroupAssumption DEF Measure
  <2> QED BY <2>1, <2>2
<1> QED BY <1>1, <1>2, <1>3, GroupUntouched DEF LoadInv

LEMMA StepPreserves ==
  ASSUME LoadInv, [LoadNext]_loadState
  PROVE  LoadInv'
<1>1. ASSUME NEW p \in Callers, CallerStep(p)
      PROVE  LoadInv'
  BY <1>1, WaitingStep, StartStep, RejectedStep DEF CallerStep
<1>2. ASSUME NEW c \in Calls, LoaderStep(c)
      PROVE  LoadInv'
  BY <1>2, ReturnsStep, RemoveStep, CloseStep DEF LoaderStep
<1>3. CASE UNCHANGED loadState
  <2>1. UNCHANGED <<calls, call, on, tokens, elapsed, inflight, window, admitted>>
    BY <1>3 DEF loadState, group, admission, history
  <2>2. LoadTypeOK'
    BY <2>1 DEF LoadInv, LoadTypeOK
  <2> QED BY <2>1, <2>2, GroupUntouched, BucketUntouched DEF LoadInv
<1> QED BY <1>1, <1>2, <1>3, TimeStep DEF LoadNext

\* LoadInv holds in every state: types, slots, registration and the bucket
\* (loadGroup.Do, missAdmission).
THEOREM LoadInvariant == LoadSpec => []LoadInv
BY LoadInitHolds, StepPreserves, PTL DEF LoadSpec

\* The slots of missAdmission are held exactly by the loads that run.
THEOREM SlotsConserved == LoadSpec => []SlotsHeldByLoads
<1>1. LoadInv => SlotsHeldByLoads
  BY DEF LoadInv
<1> QED BY <1>1, LoadInvariant, PTL

\* A key is in the group exactly while its load has not been removed, so it is
\* never loaded twice at a time and a published result is never joined.
THEOREM RegistrationSound == LoadSpec => []RegisteredUntilRemoved
<1>1. LoadInv => RegisteredUntilRemoved
  BY DEF LoadInv
<1> QED BY <1>1, LoadInvariant, PTL

\* In any stretch of time no more loads start than the burst and the time allow.
THEOREM AdmissionSound == LoadSpec => []AdmissionBounded
<1>1. LoadInv => AdmissionBounded
  BY RefilledType, LoadGroupAssumption DEF LoadInv, LoadTypeOK, AdmissionBounded
<1> QED BY <1>1, LoadInvariant, PTL

(***************************************************************************)
(* LocalCache: the inductive invariant.  Whoever is behind in the list has *)
(* been left behind by everyone before it: that is what makes the last one *)
(* the least recently used, and, as no key leaves itself behind, what      *)
(* keeps the list free of duplicates.                                      *)
(***************************************************************************)
ListType == order \in Seq(Keys) /\ since \in [Keys -> SUBSET Keys]

InOrder ==
  /\ \A i, j \in DOMAIN order : i < j => order[i] \in since[order[j]]
  /\ \A k \in Keys : k \notin since[k]

SameKeys ==
  /\ \A i \in DOMAIN order : order[i] \in DOMAIN entries
  /\ \A k \in DOMAIN entries : \E i \in DOMAIN order : order[i] = k

MapType ==
  /\ DOMAIN entries \subseteq Keys
  /\ clock \in Int
  /\ promised \in [Keys -> Entry \cup {NoEntry}]

\* The map has what was promised, and a live entry it has not was evicted.
Kept ==
  /\ \A k \in DOMAIN entries : entries[k] = promised[k] /\ promised[k] \in Entry
  /\ \A k \in Keys \ DOMAIN entries : Live(k) => Cardinality(since[k]) >= Maximum

Bounded == Cardinality(DOMAIN entries) <= Maximum

CacheInv ==
  /\ ListType /\ InOrder /\ SameKeys /\ MapType /\ Kept /\ Bounded
  /\ AnswersAsPromised

(***************************************************************************)
(* The list.                                                               *)
(***************************************************************************)
\* A key of the map has one position in the list.
LEMMA PositionUnique ==
  ASSUME CacheInv, NEW k \in DOMAIN entries
  PROVE  /\ Position(k) \in 1..Len(order) /\ order[Position(k)] = k
         /\ \A i \in 1..Len(order) : order[i] = k => i = Position(k)
<1>1. Len(order) \in Nat /\ DOMAIN order = 1..Len(order) /\ k \in Keys
  BY DEF CacheInv, ListType, MapType
<1>2. Position(k) \in 1..Len(order) /\ order[Position(k)] = k
  BY <1>1 DEF Position, CacheInv, SameKeys
<1>3. ASSUME NEW i \in 1..Len(order), order[i] = k
      PROVE  i = Position(k)
  <2>1. CASE i < Position(k)
    BY <1>1, <1>2, <1>3, <2>1 DEF CacheInv, InOrder
  <2>2. CASE i > Position(k)
    BY <1>1, <1>2, <1>3, <2>2 DEF CacheInv, InOrder
  <2> QED BY <1>1, <1>2, <2>1, <2>2
<1> QED BY <1>2, <1>3

\* What list.Remove leaves: the positions behind the key move up.
LEMMA WithoutIndexed ==
  ASSUME CacheInv, NEW k \in DOMAIN entries
  PROVE  /\ Without(k) \in Seq(Keys)
         /\ Len(Without(k)) = Len(order) - 1
         /\ \A i \in 1..(Len(order) - 1) :
              Without(k)[i] = IF i < Position(k) THEN order[i] ELSE order[i + 1]
<1> DEFINE p == Position(k)
           n == Len(order)
<1>1. n \in Nat /\ order \in Seq(Keys) /\ p \in 1..n
  BY PositionUnique DEF CacheInv, ListType
<1> HIDE DEF p, n
<1> DEFINE front == SubSeq(order, 1, p - 1)
           back == SubSeq(order, p + 1, n)
<1>2. /\ front \in Seq(Keys) /\ Len(front) = p - 1
      /\ \A i \in 1..(p - 1) : front[i] = order[i]
  BY <1>1 DEF n
<1>3. /\ back \in Seq(Keys) /\ Len(back) = n - p
      /\ \A i \in 1..(n - p) : back[i] = order[p + i]
  BY <1>1 DEF n
<1>4. Without(k) = front \o back
  BY DEF Without, p, n
<1> HIDE DEF front, back
<1>5. Without(k) \in Seq(Keys) /\ Len(Without(k)) = n - 1
  BY <1>1, <1>2, <1>3, <1>4
<1>6. ASSUME NEW i \in 1..(n - 1)
      PROVE  Without(k)[i] = IF i < p THEN order[i] ELSE order[i + 1]
  <2>1. CASE i < p
    BY <1>1, <1>2, <1>3, <1>4, <2>1
  <2>2. CASE i >= p
    <3>1. i - (p - 1) \in 1..(n - p) /\ p + (i - (p - 1)) = i + 1
      BY <1>1, <2>2
    <3>2. (front \o back)[i] = back[i - (p - 1)]
      BY <1>1, <1>2, <1>3, <2>2
    <3> QED BY <1>1, <1>3, <1>4, <2>2, <3>1, <3>2
  <2> QED BY <1>1, <2>1, <2>2
<1> QED BY <1>5, <1>6 DEF p, n

\* list.Remove takes one key out and keeps the others in order.
LEMMA WithoutOrdered ==
  ASSUME CacheInv, NEW k \in DOMAIN entries
  PROVE  LET w == Without(k)
         IN  /\ w \in Seq(Keys)
             /\ \A i, j \in DOMAIN w : i < j => w[i] \in since[w[j]]
             /\ \A i \in DOMAIN w : w[i] \in DOMAIN entries \ {k}
             /\ \A x \in DOMAIN entries \ {k} : \E i \in DOMAIN w : w[i] = x
<1> DEFINE w == Without(k)
           p == Position(k)
           n == Len(order)
           f(i) == IF i < p THEN i ELSE i + 1
<1>1. n \in Nat /\ DOMAIN order = 1..n /\ order \in Seq(Keys)
  BY DEF CacheInv, ListType
<1>2. /\ p \in 1..n /\ order[p] = k
      /\ \A i \in 1..n : order[i] = k => i = p
  BY PositionUnique
<1>3. w \in Seq(Keys) /\ Len(w) = n - 1 /\ DOMAIN w = 1..(n - 1)
  <2>1. w \in Seq(Keys) /\ Len(w) = n - 1
    BY WithoutIndexed
  <2> HIDE DEF w, n
  <2> QED BY <2>1
<1>4. \A i \in 1..(n - 1) : w[i] = order[f(i)]
  BY WithoutIndexed
<1> HIDE DEF w, p, n
<1>5. ASSUME NEW i \in 1..(n - 1)
      PROVE  f(i) \in 1..n /\ f(i) # p
  BY <1>1, <1>2
<1>6. ASSUME NEW i \in DOMAIN w, NEW j \in DOMAIN w, i < j
      PROVE  w[i] \in since[w[j]]
  <2>1. f(i) \in 1..n /\ f(j) \in 1..n /\ f(i) < f(j)
    BY <1>1, <1>2, <1>3, <1>6
  <2> HIDE DEF f
  <2>2. order[f(i)] \in since[order[f(j)]]
    BY <1>1, <2>1 DEF CacheInv, InOrder
  <2> QED BY <1>3, <1>4, <1>6, <2>2
<1>7. ASSUME NEW i \in DOMAIN w
      PROVE  w[i] \in DOMAIN entries \ {k}
  <2>1. f(i) \in 1..n /\ f(i) # p /\ w[i] = order[f(i)]
    BY <1>3, <1>4, <1>5
  <2> HIDE DEF f
  <2> QED BY <1>1, <1>2, <2>1 DEF CacheInv, SameKeys
<1>8. ASSUME NEW x \in DOMAIN entries \ {k}
      PROVE  \E i \in DOMAIN w : w[i] = x
  <2>1. PICK j \in 1..n : order[j] = x
    BY <1>1 DEF CacheInv, SameKeys
  <2>2. j # p
    BY <1>2, <2>1
  <2>3. CASE j < p
    <3>1. j \in 1..(n - 1) /\ f(j) = j
      BY <1>1, <1>2, <2>3
    <3> QED BY <1>3, <1>4, <2>1, <3>1
  <2>4. CASE j > p
    <3>1. j - 1 \in 1..(n - 1) /\ f(j - 1) = j
      BY <1>1, <1>2, <2>4
    <3> QED BY <1>3, <1>4, <2>1, <3>1
  <2> QED BY <1>1, <1>2, <2>2, <2>3, <2>4
<1> QED BY <1>3, <1>6, <1>7, <1>8 DEF w

\* A key that is used goes before a list without it.
LEMMA PushedInOrder ==
  ASSUME CacheInv, NEW k \in Keys, NEW s \in Seq(Keys),
         \A i, j \in DOMAIN s : i < j => s[i] \in since[s[j]],
         \A i \in DOMAIN s : s[i] # k,
         order' = <<k>> \o s, Used(k)
  PROVE  /\ ListType' /\ InOrder'
         /\ \A i \in DOMAIN order' : order'[i] = k \/ \E j \in DOMAIN s : order'[i] = s[j]
         /\ \E i \in DOMAIN order' : order'[i] = k
         /\ \A j \in DOMAIN s : \E i \in DOMAIN order' : order'[i] = s[j]
<1> DEFINE o == <<k>> \o s
           z == [x \in Keys |-> IF x = k THEN {} ELSE since[x] \cup {k}]
<1>1. order' = o /\ since' = z
  BY DEF Used
<1>2. Len(s) \in Nat /\ DOMAIN s = 1..Len(s)
  OBVIOUS
<1>3. /\ o \in Seq(Keys) /\ Len(o) = Len(s) + 1 /\ DOMAIN o = 1..(Len(s) + 1) /\ o[1] = k
      /\ \A i \in 1..Len(s) : o[i + 1] = s[i]
  BY <1>2
<1>4. \A i \in 2..(Len(s) + 1) : i - 1 \in 1..Len(s) /\ o[i] = s[i - 1]
  BY <1>2, <1>3
<1>5. since \in [Keys -> SUBSET Keys] /\ \A x \in Keys : x \notin since[x]
  BY DEF CacheInv, ListType, InOrder
<1>6. z \in [Keys -> SUBSET Keys] /\ \A x \in Keys : x \notin z[x]
  BY <1>5
<1> HIDE DEF o
<1>7. ASSUME NEW i \in DOMAIN o, NEW j \in DOMAIN o, i < j
      PROVE  o[i] \in z[o[j]]
  <2>1. j \in 2..(Len(s) + 1)
    BY <1>2, <1>3, <1>7
  <2>2. j - 1 \in DOMAIN s /\ o[j] = s[j - 1] /\ s[j - 1] \in Keys /\ s[j - 1] # k
    BY <1>2, <1>4, <2>1
  <2>3. z[o[j]] = since[s[j - 1]] \cup {k}
    BY <2>2
  <2>4. CASE i = 1
    BY <1>3, <2>3, <2>4
  <2>5. CASE i # 1
    <3>1. i \in 2..(Len(s) + 1)
      BY <1>2, <1>3, <2>5
    <3>2. i - 1 \in DOMAIN s /\ o[i] = s[i - 1]
      BY <1>2, <1>4, <3>1
    <3>3. i - 1 < j - 1
      BY <1>7, <2>1, <3>1
    <3> QED BY <2>2, <2>3, <3>2, <3>3
  <2> QED BY <2>4, <2>5
<1> HIDE DEF z
<1>8. ListType' /\ InOrder'
  BY <1>1, <1>3, <1>6, <1>7 DEF ListType, InOrder
<1>9. \A i \in DOMAIN o : o[i] = k \/ \E j \in DOMAIN s : o[i] = s[j]
  <2> SUFFICES ASSUME NEW i \in DOMAIN o, i # 1
               PROVE  \E j \in DOMAIN s : o[i] = s[j]
    BY <1>3
  <2>1. i \in 2..(Len(s) + 1)
    BY <1>2, <1>3
  <2> QED BY <1>2, <1>4, <2>1
<1>10. \E i \in DOMAIN o : o[i] = k
  BY <1>2, <1>3
<1>11. ASSUME NEW j \in DOMAIN s
       PROVE  \E i \in DOMAIN o : o[i] = s[j]
  <2>1. j + 1 \in DOMAIN o /\ o[j + 1] = s[j]
    BY <1>2, <1>3
  <2> QED BY <2>1
<1> QED BY <1>1, <1>8, <1>9, <1>10, <1>11

(***************************************************************************)
(* Counting.                                                               *)
(***************************************************************************)
\* newLocalCache raises the bound to one.
LEMMA MaximumType == Maximum \in Nat /\ Maximum >= 1
BY CacheAssumption DEF Maximum

\* A set of keys can be counted.
LEMMA KeysFinite ==
  ASSUME NEW S \in SUBSET Keys
  PROVE  IsFiniteSet(S) /\ Cardinality(S) \in Nat
BY CacheAssumption, FS_Subset, FS_CardinalityType

\* A part has no more keys than the whole.
LEMMA CountMonotone ==
  ASSUME NEW S \in SUBSET Keys, NEW T \in SUBSET S
  PROVE  Cardinality(T) <= Cardinality(S)
BY KeysFinite, FS_Subset

\* A use leaves no key with fewer others used since, but the one used.
LEMMA UsedGrows ==
  ASSUME CacheInv, NEW k \in Keys, Used(k), NEW x \in Keys, x # k,
         Cardinality(since[x]) >= Maximum
  PROVE  Cardinality(since'[x]) >= Maximum
<1>1. since[x] \in SUBSET Keys /\ since'[x] = since[x] \cup {k}
  BY DEF Used, CacheInv, ListType
<1>2. since'[x] \in SUBSET Keys /\ since[x] \in SUBSET since'[x]
  BY <1>1
<1>3. Cardinality(since[x]) <= Cardinality(since'[x])
  BY <1>2, CountMonotone
<1>4. Cardinality(since[x]) \in Nat /\ Cardinality(since'[x]) \in Nat
  BY <1>1, <1>2, KeysFinite
<1> QED BY <1>3, <1>4, MaximumType

(***************************************************************************)
(* The operations.                                                         *)
(***************************************************************************)
\* An empty cache is consistent.
LEMMA InitHolds == CacheInit => CacheInv
<1> SUFFICES ASSUME CacheInit
             PROVE  CacheInv
  OBVIOUS
<1>1. DOMAIN entries = {} /\ DOMAIN order = {}
  BY DEF CacheInit
<1>2. ListType /\ InOrder /\ SameKeys
  BY <1>1 DEF CacheInit, ListType, InOrder, SameKeys
<1>3. MapType /\ Kept
  BY <1>1 DEF CacheInit, MapType, Kept, Live
<1>4. Bounded
  BY <1>1, FS_EmptySet, MaximumType DEF Bounded
<1>5. AnswersAsPromised
  BY DEF CacheInit, AnswersAsPromised, NoAnswer
<1> QED BY <1>2, <1>3, <1>4, <1>5 DEF CacheInv

\* A key is taken out of the list and the map.
LEMMA RemoveHolds ==
  ASSUME CacheInv, NEW k \in DOMAIN entries, order' = Without(k), entries' = Deleted(k),
         since' = since
  PROVE  /\ ListType' /\ InOrder' /\ SameKeys' /\ Bounded'
         /\ DOMAIN entries' = DOMAIN entries \ {k}
         /\ \A x \in DOMAIN entries' : entries'[x] = entries[x]
<1>1. /\ DOMAIN entries' = DOMAIN entries \ {k}
      /\ \A x \in DOMAIN entries' : entries'[x] = entries[x]
  BY DEF Deleted
<1> DEFINE w == Without(k)
<1>2. /\ w \in Seq(Keys)
      /\ \A i, j \in DOMAIN w : i < j => w[i] \in since[w[j]]
      /\ \A i \in DOMAIN w : w[i] \in DOMAIN entries \ {k}
      /\ \A x \in DOMAIN entries \ {k} : \E i \in DOMAIN w : w[i] = x
  BY WithoutOrdered
<1>3. order' = w
  OBVIOUS
<1> HIDE DEF w
<1>4. ListType' /\ InOrder'
  BY <1>2, <1>3 DEF CacheInv, ListType, InOrder
<1>5. SameKeys'
  BY <1>1, <1>2, <1>3 DEF SameKeys
<1>6. Bounded'
  <2>1. DOMAIN entries \in SUBSET Keys /\ DOMAIN entries' \in SUBSET DOMAIN entries
    BY <1>1 DEF CacheInv, MapType
  <2>2. Cardinality(DOMAIN entries') <= Cardinality(DOMAIN entries)
    BY <2>1, CountMonotone
  <2>3. Cardinality(DOMAIN entries') \in Nat /\ Cardinality(DOMAIN entries) \in Nat
    BY <2>1, KeysFinite
  <2> QED BY <2>2, <2>3, MaximumType DEF CacheInv, Bounded
<1> QED BY <1>1, <1>4, <1>5, <1>6

\* A key of the map goes to the front of the list.
LEMMA MoveHolds ==
  ASSUME CacheInv, NEW k \in DOMAIN entries, order' = MovedToFront(k), Used(k),
         DOMAIN entries' = DOMAIN entries
  PROVE  ListType' /\ InOrder' /\ SameKeys' /\ Bounded'
<1> DEFINE w == Without(k)
<1>1. /\ w \in Seq(Keys)
      /\ \A i, j \in DOMAIN w : i < j => w[i] \in since[w[j]]
      /\ \A i \in DOMAIN w : w[i] \in DOMAIN entries \ {k}
      /\ \A x \in DOMAIN entries \ {k} : \E i \in DOMAIN w : w[i] = x
  BY WithoutOrdered
<1>2. order' = <<k>> \o w /\ k \in Keys
  BY DEF MovedToFront, CacheInv, MapType
<1> HIDE DEF w
<1>a. \A i \in DOMAIN w : w[i] # k
  BY <1>1
<1>b. \A i, j \in DOMAIN w : i < j => w[i] \in since[w[j]]
  BY <1>1
<1>3. /\ ListType' /\ InOrder'
      /\ \A i \in DOMAIN order' : order'[i] = k \/ \E j \in DOMAIN w : order'[i] = w[j]
      /\ \E i \in DOMAIN order' : order'[i] = k
      /\ \A j \in DOMAIN w : \E i \in DOMAIN order' : order'[i] = w[j]
  BY <1>1, <1>2, <1>a, <1>b, PushedInOrder, Zenon
<1>4. SameKeys'
  BY <1>1, <1>3 DEF SameKeys
<1>5. Bounded'
  BY DEF CacheInv, Bounded
<1> QED BY <1>3, <1>4, <1>5

\* GetIfPresent keeps the invariant, and its answer is the one promised.
LEMMA GetHolds == ASSUME CacheInv, NEW k \in Keys, GetIfPresent(k) PROVE CacheInv'
<1>1. CASE GetAbsent(k)
  <2>1. AnswersAsPromised'
    BY <1>1 DEF GetAbsent, Miss, AnswersAsPromised, Live, CacheInv, Kept
  <2> QED BY <1>1, <2>1 DEF GetAbsent, CacheInv, ListType, InOrder, SameKeys, MapType, Kept, Live,
                            Bounded
<1>2. CASE GetExpired(k)
  <2>1. /\ k \in DOMAIN entries
        /\ ListType' /\ InOrder' /\ SameKeys' /\ Bounded'
        /\ DOMAIN entries' = DOMAIN entries \ {k}
        /\ \A x \in DOMAIN entries' : entries'[x] = entries[x]
    BY <1>2, RemoveHolds DEF GetExpired
  <2>2. MapType'
    BY <1>2, <2>1 DEF GetExpired, CacheInv, MapType
  <2>3. ~Live(k)'
    BY <1>2, <2>1 DEF GetExpired, CacheInv, Kept, MapType, Live, Entry
  <2>4. Kept'
    BY <1>2, <2>1, <2>3 DEF GetExpired, CacheInv, Kept, Live
  <2>5. AnswersAsPromised'
    BY <1>2, <2>3 DEF GetExpired, Miss, AnswersAsPromised
  <2> QED BY <2>1, <2>2, <2>4, <2>5 DEF CacheInv
<1>3. CASE GetPresent(k)
  <2>1. k \in DOMAIN entries /\ Used(k) /\ entries' = entries
    BY <1>3 DEF GetPresent
  <2>2. ListType' /\ InOrder' /\ SameKeys' /\ Bounded'
    BY <1>3, <2>1, MoveHolds DEF GetPresent
  <2>3. MapType'
    BY <1>3 DEF GetPresent, CacheInv, MapType
  <2>4. ASSUME NEW x \in Keys \ DOMAIN entries', Live(x)'
        PROVE  Cardinality(since'[x]) >= Maximum
    <3>1. x # k /\ x \in Keys \ DOMAIN entries /\ Live(x)
      BY <1>3, <2>1, <2>4 DEF GetPresent, Live
    <3>2. Cardinality(since[x]) >= Maximum
      BY <3>1 DEF CacheInv, Kept
    <3> QED BY <2>1, <3>1, <3>2, UsedGrows
  <2>5. Kept'
    BY <1>3, <2>1, <2>4 DEF GetPresent, CacheInv, Kept
  <2>6. promised[k] = entries[k] /\ promised[k] # NoEntry
    BY <2>1, CacheAssumption DEF CacheInv, Kept
  <2>7. AnswersAsPromised'
    BY <1>3, <2>6 DEF GetPresent, Hit, AnswersAsPromised, Live
  <2> QED BY <2>2, <2>3, <2>5, <2>7 DEF CacheInv
<1> QED BY <1>1, <1>2, <1>3 DEF GetIfPresent

\* Invalidate takes the key and its promise away together.
LEMMA InvalidateHolds == ASSUME CacheInv, NEW k \in Keys, Invalidate(k) PROVE CacheInv'
<1>1. DOMAIN entries' = DOMAIN entries \ {k} /\ \A x \in DOMAIN entries' : entries'[x] = entries[x]
  BY DEF Invalidate, Deleted
<1>2. ListType' /\ InOrder' /\ SameKeys' /\ Bounded'
  <2>1. CASE k \in DOMAIN entries
    BY <2>1, RemoveHolds DEF Invalidate
  <2>2. CASE k \notin DOMAIN entries
    <3>1. DOMAIN entries' = DOMAIN entries /\ order' = order /\ since' = since
      BY <1>1, <2>2 DEF Invalidate
    <3> QED BY <3>1 DEF CacheInv, ListType, InOrder, SameKeys, Bounded
  <2> QED BY <2>1, <2>2
<1>3. /\ promised' \in [Keys -> Entry \cup {NoEntry}]
      /\ promised'[k] = NoEntry /\ \A x \in Keys : x # k => promised'[x] = promised[x]
  BY DEF Invalidate, CacheInv, MapType
<1>4. MapType'
  BY <1>1, <1>3 DEF Invalidate, CacheInv, MapType
<1>5. Kept'
  <2>1. ASSUME NEW x \in DOMAIN entries'
        PROVE  entries'[x] = promised'[x] /\ promised'[x] \in Entry
    BY <1>1, <1>3 DEF CacheInv, Kept, MapType
  <2>2. ASSUME NEW x \in Keys \ DOMAIN entries', Live(x)'
        PROVE  Cardinality(since'[x]) >= Maximum
    <3>1. x # k
      BY <1>3, <2>2 DEF Live
    <3>2. x \in Keys \ DOMAIN entries /\ Live(x)
      BY <1>1, <1>3, <2>2, <3>1 DEF Live, Invalidate
    <3> QED BY <3>2 DEF CacheInv, Kept, Invalidate
  <2> QED BY <2>1, <2>2 DEF Kept
<1>6. AnswersAsPromised'
  BY DEF Invalidate, NoAnswer, AnswersAsPromised
<1> QED BY <1>2, <1>4, <1>5, <1>6 DEF CacheInv

\* InvalidateAll leaves nothing behind.
LEMMA InvalidateAllHolds == ASSUME CacheInv, InvalidateAll PROVE CacheInv'
<1>1. DOMAIN entries' = {} /\ DOMAIN order' = {} /\ order' \in Seq(Keys)
  BY DEF InvalidateAll
<1>2. ListType' /\ InOrder' /\ SameKeys'
  BY <1>1 DEF InvalidateAll, CacheInv, ListType, InOrder, SameKeys
<1>3. MapType' /\ Kept'
  BY <1>1 DEF InvalidateAll, CacheInv, MapType, Kept, Live
<1>4. Bounded'
  BY <1>1, FS_EmptySet, MaximumType DEF Bounded
<1>5. AnswersAsPromised'
  BY DEF InvalidateAll, NoAnswer, AnswersAsPromised
<1> QED BY <1>2, <1>3, <1>4, <1>5 DEF CacheInv

\* Time only makes entries expire.
LEMMA TickHolds == ASSUME CacheInv, Tick PROVE CacheInv'
<1>1. ListType' /\ InOrder' /\ SameKeys' /\ MapType' /\ Bounded'
  BY DEF Tick, CacheInv, ListType, InOrder, SameKeys, MapType, Bounded
<1>2. ASSUME NEW x \in Keys, Live(x)'
      PROVE  Live(x)
  <2>1. promised[x] \in Entry /\ clock \in Int
    BY <1>2 DEF Tick, Live, CacheInv, MapType
  <2>2. promised[x].expiresAt \in Int
    BY <2>1 DEF Entry
  <2> QED BY <1>2, <2>1, <2>2 DEF Tick, Live
<1>3. Kept'
  BY <1>2 DEF Tick, CacheInv, Kept
<1>4. AnswersAsPromised'
  BY DEF Tick, NoAnswer, AnswersAsPromised
<1> QED BY <1>1, <1>3, <1>4 DEF CacheInv

\* Set of a key that is there replaces its entry and moves it to the front.
LEMMA SetExistingHolds ==
  ASSUME CacheInv, NEW k \in Keys, NEW v \in Values, NEW ttl \in Lifetimes, SetExisting(k, v, ttl)
  PROVE  CacheInv'
<1> DEFINE entry == [value |-> v, expiresAt |-> clock + ttl]
<1>1. clock \in Int /\ ttl \in Int
  BY CacheAssumption DEF CacheInv, MapType
<1>2. entry \in Entry
  BY <1>1 DEF Entry
<1>3. /\ k \in DOMAIN entries /\ order' = MovedToFront(k) /\ Used(k) /\ clock' = clock
      /\ promised' = [promised EXCEPT ![k] = entry] /\ entries' = Stored(k, entry)
  BY DEF SetExisting
<1> HIDE DEF entry
<1>4. /\ DOMAIN entries' = DOMAIN entries /\ entries'[k] = entry
      /\ \A x \in DOMAIN entries : x # k => entries'[x] = entries[x]
  BY <1>3 DEF Stored
<1>5. ListType' /\ InOrder' /\ SameKeys' /\ Bounded'
  BY <1>3, <1>4, MoveHolds
<1>6. /\ promised' \in [Keys -> Entry \cup {NoEntry}]
      /\ promised'[k] = entry /\ \A x \in Keys : x # k => promised'[x] = promised[x]
  BY <1>2, <1>3 DEF CacheInv, MapType
<1>7. MapType'
  BY <1>3, <1>4, <1>6 DEF CacheInv, MapType
<1>8. Kept'
  <2>1. ASSUME NEW x \in DOMAIN entries'
        PROVE  entries'[x] = promised'[x] /\ promised'[x] \in Entry
    BY <1>2, <1>4, <1>6 DEF CacheInv, Kept, MapType
  <2>2. ASSUME NEW x \in Keys \ DOMAIN entries', Live(x)'
        PROVE  Cardinality(since'[x]) >= Maximum
    <3>1. x # k /\ x \in Keys \ DOMAIN entries /\ Live(x)
      BY <1>3, <1>4, <1>6, <2>2 DEF Live
    <3>2. Cardinality(since[x]) >= Maximum
      BY <3>1 DEF CacheInv, Kept
    <3> QED BY <1>3, <3>1, <3>2, UsedGrows
  <2> QED BY <2>1, <2>2 DEF Kept
<1>9. AnswersAsPromised'
  BY DEF SetExisting, NoAnswer, AnswersAsPromised
<1> QED BY <1>5, <1>7, <1>8, <1>9 DEF CacheInv

\* There is room for one more key.
LEMMA InsertHolds ==
  ASSUME CacheInv, NEW k \in Keys \ DOMAIN entries, Used(k), order' = <<k>> \o order,
         DOMAIN entries' = DOMAIN entries \cup {k},
         Cardinality(DOMAIN entries) + 1 <= Maximum
  PROVE  ListType' /\ InOrder' /\ SameKeys' /\ Bounded'
<1>1. /\ order \in Seq(Keys)
      /\ \A i, j \in DOMAIN order : i < j => order[i] \in since[order[j]]
      /\ \A i \in DOMAIN order : order[i] # k
  BY DEF CacheInv, ListType, InOrder, SameKeys
<1>2. /\ ListType' /\ InOrder'
      /\ \A i \in DOMAIN order' : order'[i] = k \/ \E j \in DOMAIN order : order'[i] = order[j]
      /\ \E i \in DOMAIN order' : order'[i] = k
      /\ \A j \in DOMAIN order : \E i \in DOMAIN order' : order'[i] = order[j]
  BY <1>1, PushedInOrder
<1>3. SameKeys'
  <2>1. ASSUME NEW i \in DOMAIN order'
        PROVE  order'[i] \in DOMAIN entries'
    BY <1>2 DEF CacheInv, SameKeys
  <2>2. ASSUME NEW x \in DOMAIN entries'
        PROVE  \E i \in DOMAIN order' : order'[i] = x
    <3>1. CASE x = k
      BY <1>2, <3>1
    <3>2. CASE x # k
      <4>1. PICK j \in DOMAIN order : order[j] = x
        BY <3>2 DEF CacheInv, SameKeys
      <4> QED BY <1>2, <4>1
    <3> QED BY <3>1, <3>2
  <2> QED BY <2>1, <2>2 DEF SameKeys
<1>4. IsFiniteSet(DOMAIN entries)
  BY KeysFinite DEF CacheInv, MapType
<1>5. Cardinality(DOMAIN entries') = Cardinality(DOMAIN entries) + 1
  BY <1>4, FS_AddElement
<1> QED BY <1>2, <1>3, <1>5 DEF Bounded

\* The key at the back makes room for another: the list is what the map keeps,
\* and all that it keeps was used since the key that goes was.
LEMMA EvictHolds ==
  ASSUME CacheInv, NEW k \in Keys \ DOMAIN entries, Used(k),
         order' = <<k>> \o SubSeq(order, 1, Len(order) - 1),
         DOMAIN entries' = (DOMAIN entries \cup {k}) \ {order[Len(order)]},
         ~(Cardinality(DOMAIN entries) + 1 <= Maximum)
  PROVE  /\ ListType' /\ InOrder' /\ SameKeys' /\ Bounded'
         /\ order[Len(order)] \in DOMAIN entries
         /\ Cardinality(since'[order[Len(order)]]) >= Maximum
<1> DEFINE n == Len(order)
           s == SubSeq(order, 1, n - 1)
           oldest == order[n]
<1>1. DOMAIN entries \in SUBSET Keys
  BY DEF CacheInv, MapType
<1>2. IsFiniteSet(DOMAIN entries) /\ Cardinality(DOMAIN entries) \in Nat
  BY <1>1, KeysFinite
<1>3. Cardinality(DOMAIN entries) = Maximum
  BY <1>2, MaximumType DEF CacheInv, Bounded
<1>4. DOMAIN entries # {}
  BY <1>3, FS_EmptySet, MaximumType
<1>5. order \in Seq(Keys) /\ n \in Nat /\ DOMAIN order = 1..n
  BY DEF CacheInv, ListType
<1>6. n >= 1
  BY <1>4, <1>5 DEF CacheInv, SameKeys
<1> HIDE DEF n
<1>7. /\ s \in Seq(Keys) /\ DOMAIN s = 1..(n - 1)
      /\ \A i \in 1..(n - 1) : s[i] = order[i]
  <2>1. s \in Seq(Keys) /\ Len(s) = n - 1 /\ \A i \in 1..(n - 1) : s[i] = order[i]
    BY <1>5, <1>6 DEF n
  <2> HIDE DEF s
  <2> QED BY <2>1
<1> HIDE DEF s
<1>8. \A i, j \in DOMAIN s : i < j => s[i] \in since[s[j]]
  BY <1>5, <1>6, <1>7 DEF CacheInv, InOrder
<1>9. \A i \in DOMAIN s : s[i] # k
  BY <1>5, <1>6, <1>7 DEF CacheInv, SameKeys
<1>10. order' = <<k>> \o s
  BY DEF s, n
<1>11. /\ ListType' /\ InOrder'
       /\ \A i \in DOMAIN order' : order'[i] = k \/ \E j \in DOMAIN s : order'[i] = s[j]
       /\ \E i \in DOMAIN order' : order'[i] = k
       /\ \A j \in DOMAIN s : \E i \in DOMAIN order' : order'[i] = s[j]
  BY <1>7, <1>8, <1>9, <1>10, PushedInOrder, Zenon
<1>12. oldest \in DOMAIN entries /\ oldest \in Keys /\ oldest # k
  BY <1>1, <1>5, <1>6 DEF CacheInv, SameKeys
<1>13. \A j \in DOMAIN s : s[j] \in DOMAIN entries /\ s[j] \in since[oldest] /\ s[j] # oldest
  <2> SUFFICES ASSUME NEW j \in DOMAIN s
               PROVE  s[j] \in DOMAIN entries /\ s[j] \in since[oldest] /\ s[j] # oldest
    OBVIOUS
  <2>1. j \in 1..n /\ j < n /\ n \in 1..n /\ s[j] = order[j]
    BY <1>5, <1>6, <1>7
  <2>2. order[j] \in DOMAIN entries /\ order[j] \in since[oldest]
    BY <1>5, <2>1 DEF CacheInv, SameKeys, InOrder
  <2>3. oldest \notin since[oldest]
    BY <1>12 DEF CacheInv, InOrder
  <2> QED BY <2>1, <2>2, <2>3
<1>14. \A x \in DOMAIN entries : x # oldest => \E j \in DOMAIN s : s[j] = x
  <2> SUFFICES ASSUME NEW x \in DOMAIN entries, x # oldest
               PROVE  \E j \in DOMAIN s : s[j] = x
    OBVIOUS
  <2>1. PICK j \in 1..n : order[j] = x
    BY <1>5 DEF CacheInv, SameKeys
  <2>2. j \in 1..(n - 1)
    BY <1>5, <1>6, <2>1
  <2> QED BY <1>7, <2>1, <2>2
<1>15. DOMAIN entries' = (DOMAIN entries \cup {k}) \ {oldest}
  BY DEF n
<1> HIDE DEF oldest
<1>16. SameKeys'
  <2>1. ASSUME NEW i \in DOMAIN order'
        PROVE  order'[i] \in DOMAIN entries'
    BY <1>11, <1>12, <1>13, <1>15
  <2>2. ASSUME NEW x \in DOMAIN entries'
        PROVE  \E i \in DOMAIN order' : order'[i] = x
    <3>1. CASE x = k
      BY <1>11, <3>1
    <3>2. CASE x # k
      <4>1. PICK j \in DOMAIN s : s[j] = x
        BY <1>14, <1>15, <3>2
      <4> QED BY <1>11, <4>1
    <3> QED BY <3>1, <3>2
  <2> QED BY <2>1, <2>2 DEF SameKeys
<1>17. Cardinality(DOMAIN entries') = Maximum
  <2>1. IsFiniteSet(DOMAIN entries \cup {k}) /\ Cardinality(DOMAIN entries \cup {k}) = Maximum + 1
    BY <1>2, <1>3, FS_AddElement
  <2>2. Cardinality(DOMAIN entries') = Cardinality(DOMAIN entries \cup {k}) - 1
    BY <1>12, <1>15, <2>1, FS_RemoveElement
  <2> QED BY <2>1, <2>2, MaximumType
<1>18. Cardinality(since'[oldest]) >= Maximum
  <2>1. since'[oldest] = since[oldest] \cup {k} /\ since[oldest] \in SUBSET Keys
    BY <1>12 DEF Used, CacheInv, ListType
  <2>2. DOMAIN entries' \in SUBSET since'[oldest] /\ since'[oldest] \in SUBSET Keys
    BY <1>13, <1>14, <1>15, <2>1
  <2>3. Cardinality(DOMAIN entries') <= Cardinality(since'[oldest])
    BY <2>2, CountMonotone
  <2>4. Cardinality(since'[oldest]) \in Nat
    BY <2>2, KeysFinite
  <2> QED BY <1>17, <2>3, <2>4, MaximumType
<1>19. Bounded'
  BY <1>17, MaximumType DEF Bounded
<1> QED BY <1>11, <1>12, <1>16, <1>18, <1>19 DEF oldest, n

\* Set of a new key inserts it, and evicts the last of the list when there is no room.
LEMMA SetNewHolds ==
  ASSUME CacheInv, NEW k \in Keys, NEW v \in Values, NEW ttl \in Lifetimes, SetNew(k, v, ttl)
  PROVE  CacheInv'
<1> DEFINE entry == [value |-> v, expiresAt |-> clock + ttl]
           oldest == order[Len(order)]
           room == Cardinality(DOMAIN entries) + 1 <= Maximum
<1>1. clock \in Int /\ ttl \in Int
  BY CacheAssumption DEF CacheInv, MapType
<1>2. entry \in Entry
  BY <1>1 DEF Entry
<1>3. /\ k \in Keys \ DOMAIN entries /\ Used(k) /\ clock' = clock
      /\ promised' = [promised EXCEPT ![k] = entry]
  BY DEF SetNew
<1>4. DOMAIN Stored(k, entry) = DOMAIN entries \cup {k}
  BY DEF Stored
<1>5. CASE room
  <2>1. order' = <<k>> \o order /\ entries' = Stored(k, entry)
    BY <1>5 DEF SetNew
  <2> QED
    <3>1. ListType' /\ InOrder' /\ SameKeys' /\ Bounded'
      BY <1>3, <1>4, <1>5, <2>1, InsertHolds
    <3> HIDE DEF entry
    <3>2. \A x \in DOMAIN entries' : entries'[x] = IF x = k THEN entry ELSE entries[x]
      BY <2>1 DEF Stored
    <3>3. /\ promised' \in [Keys -> Entry \cup {NoEntry}]
          /\ promised'[k] = entry /\ \A x \in Keys : x # k => promised'[x] = promised[x]
      BY <1>2, <1>3 DEF CacheInv, MapType
    <3>4. MapType' /\ DOMAIN entries' = DOMAIN entries \cup {k}
      BY <1>3, <1>4, <2>1, <3>3 DEF CacheInv, MapType
    <3>5. Kept'
      <4>1. ASSUME NEW x \in DOMAIN entries'
            PROVE  entries'[x] = promised'[x] /\ promised'[x] \in Entry
        BY <1>2, <3>2, <3>3, <3>4 DEF CacheInv, Kept, MapType
      <4>2. ASSUME NEW x \in Keys \ DOMAIN entries', Live(x)'
            PROVE  Cardinality(since'[x]) >= Maximum
        <5>1. x # k /\ x \in Keys \ DOMAIN entries /\ Live(x)
          BY <1>3, <3>3, <3>4, <4>2 DEF Live
        <5>2. Cardinality(since[x]) >= Maximum
          BY <5>1 DEF CacheInv, Kept
        <5> QED BY <1>3, <5>1, <5>2, UsedGrows
      <4> QED BY <4>1, <4>2 DEF Kept
    <3>6. AnswersAsPromised'
      BY DEF SetNew, NoAnswer, AnswersAsPromised
    <3> QED BY <3>1, <3>4, <3>5, <3>6 DEF CacheInv
<1>6. CASE ~room
  <2>1. /\ order' = <<k>> \o SubSeq(order, 1, Len(order) - 1)
        /\ entries' = [x \in DOMAIN Stored(k, entry) \ {oldest} |-> Stored(k, entry)[x]]
    BY <1>6 DEF SetNew
  <2>2. DOMAIN entries' = (DOMAIN entries \cup {k}) \ {order[Len(order)]}
    BY <1>4, <2>1
  <2>3. /\ ListType' /\ InOrder' /\ SameKeys' /\ Bounded'
        /\ oldest \in DOMAIN entries /\ Cardinality(since'[oldest]) >= Maximum
    BY <1>3, <1>6, <2>1, <2>2, EvictHolds
  <2> HIDE DEF entry, oldest
  <2>4. \A x \in DOMAIN entries' : entries'[x] = IF x = k THEN entry ELSE entries[x]
    BY <2>1 DEF Stored
  <2>5. /\ promised' \in [Keys -> Entry \cup {NoEntry}]
        /\ promised'[k] = entry /\ \A x \in Keys : x # k => promised'[x] = promised[x]
    BY <1>2, <1>3 DEF CacheInv, MapType
  <2>6. DOMAIN entries' = (DOMAIN entries \cup {k}) \ {oldest}
    BY <2>2 DEF oldest
  <2>7. MapType'
    BY <1>3, <2>5, <2>6 DEF CacheInv, MapType
  <2>8. Kept'
    <3>1. ASSUME NEW x \in DOMAIN entries'
          PROVE  entries'[x] = promised'[x] /\ promised'[x] \in Entry
      BY <1>2, <2>4, <2>5, <2>6 DEF CacheInv, Kept, MapType
    <3>2. ASSUME NEW x \in Keys \ DOMAIN entries', Live(x)'
          PROVE  Cardinality(since'[x]) >= Maximum
      <4>1. CASE x = oldest
        BY <2>3, <4>1
      <4>2. CASE x # oldest
        <5>1. x # k /\ x \in Keys \ DOMAIN entries /\ Live(x)
          BY <1>3, <2>3, <2>5, <2>6, <3>2, <4>2 DEF Live
        <5>2. Cardinality(since[x]) >= Maximum
          BY <5>1 DEF CacheInv, Kept
        <5> QED BY <1>3, <5>1, <5>2, UsedGrows
      <4> QED BY <4>1, <4>2
    <3> QED BY <3>1, <3>2 DEF Kept
  <2>9. AnswersAsPromised'
    BY DEF SetNew, NoAnswer, AnswersAsPromised
  <2> QED BY <2>3, <2>7, <2>8, <2>9 DEF CacheInv
<1> QED BY <1>5, <1>6

\* Set keeps the invariant.
LEMMA SetHolds ==
  ASSUME CacheInv, NEW k \in Keys, NEW v \in Values, NEW ttl \in Lifetimes, Set(k, v, ttl)
  PROVE  CacheInv'
<1>1. CASE SetNothing(k, ttl)
  BY <1>1 DEF SetNothing, NoAnswer, AnswersAsPromised, CacheInv, ListType, InOrder, SameKeys,
              MapType, Kept, Live, Bounded
<1> QED BY <1>1, SetExistingHolds, SetNewHolds DEF Set

(***************************************************************************)
(* The theorems.                                                           *)
(***************************************************************************)
\* So does every step.
LEMMA StepHolds == CacheInv /\ [CacheNext]_cacheState => CacheInv'
<1> SUFFICES ASSUME CacheInv, [CacheNext]_cacheState
             PROVE  CacheInv'
  OBVIOUS
<1>1. CASE UNCHANGED cacheState
  BY <1>1 DEF cacheState, AnswersAsPromised, CacheInv, ListType, InOrder, SameKeys, MapType, Kept,
              Live, Bounded
<1> QED BY <1>1, GetHolds, InvalidateHolds, SetHolds, InvalidateAllHolds, TickHolds DEF CacheNext

\* The inductive invariant holds of every reachable state of localCache, for all keys,
\* lifetimes and bounds.
THEOREM CacheInvariant == CacheSpec => []CacheInv
BY InitHolds, StepHolds, PTL DEF CacheSpec

\* The list and the map of localCache are in step, for every bound.
THEOREM ListMatchesMap == CacheSpec => []OrderMatchesEntries
<1>1. CacheInv => OrderMatchesEntries
  <2> SUFFICES ASSUME CacheInv
               PROVE  OrderMatchesEntries
    OBVIOUS
  <2>1. \A k \in Keys : k \in DOMAIN entries <=> \E i \in DOMAIN order : order[i] = k
    BY DEF CacheInv, SameKeys
  <2>2. \A i, j \in DOMAIN order : order[i] = order[j] => i = j
    <3> SUFFICES ASSUME NEW i \in DOMAIN order, NEW j \in DOMAIN order, order[i] = order[j]
                 PROVE  i = j
      OBVIOUS
    <3>1. order[i] \in DOMAIN entries /\ DOMAIN order = 1..Len(order)
      BY DEF CacheInv, SameKeys, ListType
    <3> QED BY <3>1, PositionUnique
  <2> QED BY <2>1, <2>2 DEF OrderMatchesEntries, CacheInv, Bounded
<1> QED BY <1>1, CacheInvariant, PTL

\* GetIfPresent answers with what was last set, and misses a live entry only
\* after at least Maximum other keys were used.
THEOREM CacheKeepsPromises == CacheSpec => []AnswersAsPromised
<1>1. CacheInv => AnswersAsPromised
  BY DEF CacheInv
<1> QED BY <1>1, CacheInvariant, PTL
=============================================================================
