----------------------------- MODULE PolicyEval -----------------------------
(***************************************************************************)
(* The identity policy of a credential (iam/policy.go) and the decision     *)
(* the proxy takes with it (http_server/iam.go): a document is compiled     *)
(* once, statement by statement; every request is then checked against the  *)
(* policy, check by check and statement by statement.                       *)
(*                                                                          *)
(* A wildcard is the set of strings it matches (Matched).  Reading gives    *)
(* the number, date or Boolean a string is read as, each as an integer.     *)
(* Actions are compared without regard to case and condition keys are       *)
(* lower-cased, so an action or a key stands here for all its spellings.    *)
(***************************************************************************)
EXTENDS Integers, Sequences, Rights

CONSTANTS
  Documents,    \* the policy documents a credential may carry
  Contexts,     \* the values of the condition keys of a request; {} for an absent key
  Strings,
  Matched,      \* [pattern |-> the strings it matches]
  Reading,      \* [type |-> [string |-> what it is read as]]
  Unreadable,
  Variables,    \* the strings with a policy variable, "${"
  Malformed,    \* a JSON value of another type than the element has
  KeyTypes      \* s3ConditionKeyTypes; its domain is s3AllowedConditionKeys

ASSUME PolicyAssumption ==
  /\ \A t \in {"Bool", "Numeric", "Date"}, s \in Strings :
       Reading[t][s] \in Int \cup {Unreadable}
  /\ Unreadable \notin Int

VARIABLES
  document,   \* the policy JSON
  policy,     \* Policy.statements, as far as it is compiled
  phase,      \* what happens, or how it ended
  request,    \* S3OperationPlan: the operation, its checks and their context
  check,      \* the check AuthorizeS3Plan is at
  stmt,       \* the statement ParsePolicyJSON or Policy.Authorize is at
  allowed     \* Policy.Authorize: some Allow has matched

evaluation == <<document, policy, phase, request, check, stmt, allowed>>

Decisions == {"granted", "explicit deny", "implicit deny"}

(***************************************************************************)
(* Conditions.                                                             *)
(***************************************************************************)
Operator(type, relation, negative) ==
  [type |-> type, relation |-> relation, negative |-> negative]

\* parseConditionOperator.
Operators ==
  [StringEquals             |-> Operator("String", "=", FALSE),
   StringNotEquals          |-> Operator("String", "=", TRUE),
   StringLike               |-> Operator("String", "like", FALSE),
   StringNotLike            |-> Operator("String", "like", TRUE),
   Bool                     |-> Operator("Bool", "=", FALSE),
   Null                     |-> Operator("Null", "=", FALSE),
   NumericEquals            |-> Operator("Numeric", "=", FALSE),
   NumericNotEquals         |-> Operator("Numeric", "=", TRUE),
   NumericLessThan          |-> Operator("Numeric", "<", FALSE),
   NumericLessThanEquals    |-> Operator("Numeric", "<=", FALSE),
   NumericGreaterThan       |-> Operator("Numeric", ">", FALSE),
   NumericGreaterThanEquals |-> Operator("Numeric", ">=", FALSE),
   DateEquals               |-> Operator("Date", "=", FALSE),
   DateNotEquals            |-> Operator("Date", "=", TRUE),
   DateLessThan             |-> Operator("Date", "<", FALSE),
   DateLessThanEquals       |-> Operator("Date", "<=", FALSE),
   DateGreaterThan          |-> Operator("Date", ">", FALSE),
   DateGreaterThanEquals    |-> Operator("Date", ">=", FALSE)]

Compare(relation, a, b) ==
  \/ relation = "=" /\ a = b
  \/ relation = "<" /\ a < b
  \/ relation = "<=" /\ a <= b
  \/ relation = ">" /\ a > b
  \/ relation = ">=" /\ a >= b

Readable(type, s) == Reading[type][s] # Unreadable

\* condition.valueMatches, and the patterns of valueMatchesAny.
ValueMatches(operator, actual, expected) ==
  IF operator.type = "String"
  THEN IF operator.relation = "like" THEN actual \in Matched[expected] ELSE actual = expected
  ELSE /\ Readable(operator.type, actual)
       /\ Readable(operator.type, expected)
       /\ Compare(operator.relation, Reading[operator.type][actual], Reading[operator.type][expected])

\* condition.matches: a negated operator holds of an absent key, any other
\* operator but Null does not.
ConditionMatches(c, context) ==
  LET values == context[c.key]
      wantNull == \E v \in c.values : Reading["Bool"][v] = 1
      anyMatch == \E v \in values, e \in c.values : ValueMatches(c.operator, v, e)
  IN  IF c.operator.type = "Null" THEN (values = {}) = wantNull
      ELSE IF values = {} THEN c.operator.negative
      ELSE anyMatch # c.operator.negative

\* Mutant: operands are not looked at.
OperandsUnchecked(operator, keyType, values) ==
  operator.type = "Null" \/ keyType \in {"Any", operator.type}

\* validateConditionOperands and operatorMatchesKeyType.
OperandsOK(operator, keyType, values) ==
  /\ operator.type = "Null" \/ keyType \in {"Any", operator.type}
  /\ operator.type \in {"Bool", "Null"} => values \subseteq {"true", "false"}
  /\ operator.type \in {"Numeric", "Date"} => \A v \in values : Readable(operator.type, v)

\* parseConditions.
ConditionsOK(conditions) ==
  /\ DOMAIN conditions # {}
  /\ \A o \in DOMAIN conditions :
       /\ o \in DOMAIN Operators
       /\ DOMAIN conditions[o] # {}
       /\ \A k \in DOMAIN conditions[o] :
            /\ k \in DOMAIN KeyTypes
            /\ conditions[o][k] # {} /\ conditions[o][k] \cap Variables = {}
            /\ OperandsOK(Operators[o], KeyTypes[k], conditions[o][k])

CompiledConditions(conditions) ==
  UNION {{[operator |-> Operators[o], key |-> k, values |-> conditions[o][k]] :
            k \in DOMAIN conditions[o]} : o \in DOMAIN conditions}

(***************************************************************************)
(* Statements.                                                             *)
(***************************************************************************)
Has(raw, element) == element \in DOMAIN raw

\* parseStringList.
StringListOK(list) == list # {} /\ "" \notin list /\ list \cap Variables = {}

\* compileStatement, its refusals.
StatementOK(raw) ==
  /\ DOMAIN raw \subseteq
       {"Sid", "Effect", "Action", "NotAction", "Resource", "NotResource", "Condition"}
  /\ \A e \in DOMAIN raw : raw[e] # Malformed
  /\ Has(raw, "Effect") /\ raw["Effect"] \in {"Allow", "Deny"}
  /\ Has(raw, "Action") # Has(raw, "NotAction")
  /\ Has(raw, "Resource") # Has(raw, "NotResource")
  /\ \A e \in DOMAIN raw \cap {"Action", "NotAction", "Resource", "NotResource"} :
       StringListOK(raw[e])
  /\ Has(raw, "Condition") => ConditionsOK(raw["Condition"])

\* compileStatement, its result.
Compiled(raw) ==
  [effect       |-> raw["Effect"],
   actionMode   |-> IF Has(raw, "NotAction") THEN "negative" ELSE "positive",
   actions      |-> IF Has(raw, "NotAction") THEN raw["NotAction"] ELSE raw["Action"],
   resourceMode |-> IF Has(raw, "NotResource") THEN "negative" ELSE "positive",
   resources    |-> IF Has(raw, "NotResource") THEN raw["NotResource"] ELSE raw["Resource"],
   conditions   |-> IF Has(raw, "Condition") THEN CompiledConditions(raw["Condition"]) ELSE {}]

MatchesByMode(mode, patterns, value) ==
  (\E p \in patterns : value \in Matched[p]) = (mode = "positive")

\* statement.matches.
Matches(s, c, context) ==
  /\ MatchesByMode(s.actionMode, s.actions, c.action)
  /\ MatchesByMode(s.resourceMode, s.resources, c.resource)
  /\ \A condition \in s.conditions : ConditionMatches(condition, context)

(***************************************************************************)
(* ParsePolicyJSON: one step per statement.                                *)
(***************************************************************************)
PolicyInit ==
  /\ document \in Documents
  /\ policy = <<>> /\ phase = "parse" /\ request = <<>>
  /\ check = 1 /\ stmt = 1 /\ allowed = FALSE

DocumentOK ==
  /\ DOMAIN document \subseteq {"Version", "Statement"}
  /\ Has(document, "Version") => document["Version"] \in {"2012-10-17", "2008-10-17"}
  /\ Has(document, "Statement")
  /\ document["Statement"] # Malformed /\ document["Statement"] # <<>>

Parse ==
  /\ phase = "parse"
  /\ phase' = IF DocumentOK THEN "compile" ELSE "refused"
  /\ UNCHANGED <<document, policy, request, check, stmt, allowed>>

Compile ==
  /\ phase = "compile"
  /\ stmt <= Len(document["Statement"])
  /\ IF StatementOK(document["Statement"][stmt])
     THEN /\ policy' = Append(policy, Compiled(document["Statement"][stmt]))
          /\ stmt' = stmt + 1
          /\ UNCHANGED phase
     ELSE /\ phase' = "refused"
          /\ UNCHANGED <<policy, stmt>>
  /\ UNCHANGED <<document, request, check, allowed>>

\* The credential with its policy is in use.
Install ==
  /\ phase = "compile"
  /\ stmt > Len(document["Statement"])
  /\ phase' = "installed"
  /\ UNCHANGED <<document, policy, request, check, stmt, allowed>>

(***************************************************************************)
(* AuthorizeS3Plan and Policy.Authorize: one step per statement.           *)
(***************************************************************************)
\* A planned request, every check of it sealed with the same context
\* (withAuthorizationContext), reaches the policy.
Arrive ==
  /\ phase = "installed"
  /\ \E o \in Operations, context \in Contexts :
       request' = [operation |-> o, checks |-> IAMChecks(o), context |-> context]
  /\ phase' = "evaluate" /\ check' = 1 /\ stmt' = 1 /\ allowed' = FALSE
  /\ UNCHANGED <<document, policy>>

\* Mutant: what one check allowed counts for the next.
NextCheckAllowed == check' = check + 1 /\ stmt' = 1 /\ UNCHANGED allowed

NextCheck == check' = check + 1 /\ stmt' = 1 /\ allowed' = FALSE

StatementMatches == Matches(policy[stmt], request.checks[check], request.context)

EvaluateStatement ==
  /\ phase = "evaluate" /\ check <= Len(request.checks)
  /\ stmt <= Len(policy)
  /\ IF StatementMatches /\ policy[stmt].effect = "Deny"
     THEN /\ phase' = "explicit deny"
          /\ UNCHANGED <<stmt, allowed>>
     ELSE /\ allowed' = (allowed \/ StatementMatches)
          /\ stmt' = stmt + 1
          /\ UNCHANGED phase
  /\ UNCHANGED <<document, policy, request, check>>

EndCheck ==
  /\ phase = "evaluate" /\ check <= Len(request.checks)
  /\ stmt > Len(policy)
  /\ IF allowed THEN NextCheck /\ UNCHANGED phase
     ELSE phase' = "implicit deny" /\ UNCHANGED <<check, stmt, allowed>>
  /\ UNCHANGED <<document, policy, request>>

Grant ==
  /\ phase = "evaluate" /\ check > Len(request.checks)
  /\ phase' = "granted"
  /\ UNCHANGED <<document, policy, request, check, stmt, allowed>>

\* The request ends.
Leave ==
  /\ phase \in Decisions
  /\ phase' = "installed" /\ request' = <<>>
  /\ UNCHANGED <<document, policy, check, stmt, allowed>>

PolicyNext ==
  \/ Parse \/ Compile \/ Install
  \/ Arrive \/ EvaluateStatement \/ EndCheck \/ Grant \/ Leave

PolicySpec == PolicyInit /\ [][PolicyNext]_evaluation

(***************************************************************************)
(* Properties.                                                             *)
(***************************************************************************)
SomeMatch(effect, k) ==
  \E i \in 1..Len(policy) :
    policy[i].effect = effect /\ Matches(policy[i], request.checks[k], request.context)

\* What an identity policy means for the k-th check of the request, whatever
\* the order of its statements.
Denied(k) == SomeMatch("Deny", k)
Permitted(k) == SomeMatch("Allow", k) /\ ~Denied(k)
PermittedBefore(k) == \A j \in 1..(k - 1) : Permitted(j)

\* A request is granted exactly when every check of it is permitted, and a
\* refusal names the first check that is not: an explicit Deny overrides every
\* Allow, before or after it, and a check that nothing matches is denied
\* (Policy.Authorize, AuthorizeS3Plan).
DecisionIsPolicy ==
  LET checks == 1..Len(request.checks)
  IN  CASE phase = "granted" -> \A k \in checks : Permitted(k)
        [] phase = "explicit deny" -> \E k \in checks : PermittedBefore(k) /\ Denied(k)
        [] phase = "implicit deny" ->
             \E k \in checks : PermittedBefore(k) /\ ~Denied(k) /\ ~SomeMatch("Allow", k)
        [] OTHER -> TRUE

\* An operand of an installed numeric or date condition decides: whatever
\* readable value a request brings, it is below, at or above the operand, and
\* exactly one of them, so that no condition of a Deny is void
\* (validateConditionOperands).
OperandsDecide ==
  \A i \in 1..Len(policy) : \A c \in policy[i].conditions :
    c.operator.type \in {"Numeric", "Date"} =>
      \A e \in c.values \cap Strings, s \in Strings :
        LET Holds(relation) == ValueMatches(Operator(c.operator.type, relation, FALSE), s, e)
        IN  Readable(c.operator.type, s) =>
              /\ Holds("<") <=> ~Holds(">=")
              /\ Holds("<=") <=> ~Holds(">")
              /\ Holds("=") <=> Holds("<=") /\ Holds(">=")
=============================================================================
