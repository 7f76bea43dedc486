----------------------------- MODULE MCNamespace -----------------------------
EXTENDS Namespace

Spelled(endpoint, prefix, routingKey, credentials) ==
  [endpoint |-> endpoint, bucket |-> "r", prefix |-> prefix, routingKey |-> routingKey,
   credentials |-> credentials]

\* One place spelled twice, with its credentials rotated; another routing key; a
\* place whose prefix begins like the first; another endpoint, without a prefix;
\* a mapping that is no mapping.
A == Spelled("aws", <<"a">>, 1, 1)
AB == Spelled("aws", <<"a", "b">>, 1, 1)
Other == Spelled("other", <<>>, 1, 1)

MCMappings ==
  {A, Spelled("https://aws/", <<"/", "a", "/">>, 1, 2), Spelled("aws", <<"a">>, 2, 1),
   AB, Other, Spelled("aws", <<"a", "/", "/", "b">>, 1, 1)}

\* An object whose key is the prefix of a place and nothing more.
FolderMarker ==
  [at |-> [endpoint |-> "https://aws", bucket |-> "r"], key |-> <<"a", "b", "/">>, value |-> "v"]

MCStarts ==
  {[mapping |-> A, objects |-> {}], [mapping |-> AB, objects |-> {FolderMarker}]}

MCEndpointOf == [aws |-> "https://aws", other |-> "https://other"] @@ "https://aws/" :> "https://aws"

MCCharacters == "/" :> 1 @@ "a" :> 2 @@ "b" :> 3 @@ "x" :> 4

MCKeys == {<<"x">>, <<"b", "x">>}

MCListPrefixes == {<<>>, <<"x">>}
=============================================================================
