---------------------------- MODULE MCPolicyEval ----------------------------
(***************************************************************************)
(* Policies of one or two statements.  Some statements differ in what they *)
(* match, some in their conditions, some are refused.                      *)
(***************************************************************************)
EXTENDS PolicyEval

CONSTANTS Unread, Broken

Words == {"1", "2", "x", "true", "false"}
Names == {c.action : c \in {KindCheck[k] : k \in DOMAIN KindCheck}}
MCMatched ==
  [p \in {"*", "s3:*", "s3:Get*", "s3:Put*", "bucket", "object", "source", "1", "x", "${x}"} |->
     CASE p = "*" -> {"*", "bucket", "object", "source"} \cup Words
       [] p = "s3:*" -> Names
       [] p = "s3:Get*" -> {"s3:GetObject", "s3:GetObjectVersion"}
       [] p = "s3:Put*" -> {"s3:PutObject", "s3:PutObjectAcl", "s3:PutObjectTagging"}
       [] OTHER -> {p}]

Numbers == [w \in Words |-> CASE w = "1" -> 1 [] w = "2" -> 2 [] OTHER -> Unread]
MCReading ==
  [Numeric |-> Numbers, Date |-> Numbers,
   Bool |-> [w \in Words |-> CASE w \in {"1", "true"} -> 1 [] w = "false" -> 0 [] OTHER -> Unread]]

MCKeyTypes == [prefix |-> "String", age |-> "Numeric", tls |-> "Bool"]

MCContexts ==
  {[prefix |-> p, age |-> a, tls |-> t] :
     p \in {{}, {"x"}}, a \in {{}, {"1"}, {"x"}, {"1", "2"}}, t \in {{"true"}}}

Allow(actions, resources) == [Effect |-> "Allow", Action |-> actions, Resource |-> resources]
Plain ==
  {Allow({"s3:*"}, {"*"}), Allow({"s3:Put*"}, {"object"}), Allow({"s3:Get*"}, {"source", "bucket"}),
   [Effect |-> "Deny", Action |-> {"s3:Get*"}, Resource |-> {"source"}],
   [Effect |-> "Deny", NotAction |-> {"s3:Put*"}, NotResource |-> {"source"}],
   [Effect |-> "Allow", Sid |-> "1", NotAction |-> {"s3:Get*"}, Resource |-> {"*"}]}

Conditions ==
  {[NumericLessThan |-> [age |-> {"2"}]], [NumericNotEquals |-> [age |-> {"1"}]],
   [NumericGreaterThanEquals |-> [age |-> {"1", "2"}]], [Null |-> [prefix |-> {"true"}]],
   [StringNotLike |-> [prefix |-> {"x"}]], [StringEquals |-> [prefix |-> {"x"}]],
   [Bool |-> [tls |-> {"true"}], NumericEquals |-> [age |-> {"1"}]]}

\* Conditions that parseConditions refuses.
BadConditions ==
  {[NumericLessThan |-> [age |-> {"x"}]], [Bool |-> [tls |-> {"1"}]], [StringLike |-> [age |-> {"1"}]],
   [NumericEquals |-> [agent |-> {"1"}]], [DateIs |-> [age |-> {"1"}]], [Null |-> [prefix |-> {"${x}"}]]}

Conditional(effect, c) ==
  [Effect |-> effect, Action |-> {"s3:*"}, Resource |-> {"*"}, Condition |-> c]

Refused ==
  {[Effect |-> "Permit", Action |-> {"s3:*"}, Resource |-> {"*"}],
   [Effect |-> "Allow", Action |-> {"s3:*"}, NotAction |-> {"s3:Put*"}, Resource |-> {"*"}],
   [Effect |-> "Allow", Action |-> {"s3:*"}], [Effect |-> "Allow", Action |-> {}, Resource |-> {"*"}],
   [Effect |-> "Allow", Action |-> Broken, Resource |-> {"*"}],
   [Effect |-> "Allow", Principal |-> "*", Action |-> {"s3:*"}, Resource |-> {"*"}]}
  \cup {Conditional("Deny", c) : c \in BadConditions}

Accepted == Plain \cup {Conditional(e, c) : e \in {"Allow", "Deny"}, c \in Conditions}

MCDocuments ==
  {[Statement |-> <<s>>] : s \in Accepted \cup Refused}
    \cup {[Version |-> "2012-10-17", Statement |-> <<s, t>>] : s \in Accepted, t \in Accepted \cup Refused}
    \cup {[Version |-> "2020"], [Statement |-> <<>>], [Id |-> "1", Statement |-> <<>>], [Statement |-> Broken]}
=============================================================================
