SPECIFICATION NamespaceSpec
CONSTANTS
  Mappings <- MCMappings
  Starts <- MCStarts
  EndpointOf <- MCEndpointOf
  Characters <- MCCharacters
  Keys <- MCKeys
  ListPrefixes <- MCListPrefixes
  Values = {"v"}
  PageSize = 1
  MaxUploads = 1
  MaxRemaps = 1
INVARIANTS
  WalkComplete
  TokensExact
PROPERTY
  ImplementsVirtualStore
CHECK_DEADLOCK FALSE
