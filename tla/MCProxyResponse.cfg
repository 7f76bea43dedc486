SPECIFICATION GatewaySpec
CONSTANTS
  Schema <- MCSchema
  Streaming = {"ListObjects", "ListMultipartUploads"}
  Required <- MCRequired
  Names <- MCNames
  Number <- MCNumber
  SourceOf <- MCSourceOf
  DateOf <- MCDateOf
  Now = "1T2"
  MaxSkew = 1
  Made <- MCMade
  Arriving <- MCArriving
  Secrets <- MCSecrets
  BaseHosts <- MCBaseHosts
  Labels = {"b", "c", "d", "eu", "s3", "else"}
  IPAddresses <- MCIPAddresses
  Mappings <- MCMappings
  WithPrefix <- MCWithPrefix
  Opened <- MCOpened
INVARIANTS
  CleanMeansWhole
  BoundedIsAtomic
  OnlyPlainTextIsRaw
  PerformedAsAuthorized
  ForwardedAsSigned
  UpstreamAccepts
CHECK_DEADLOCK FALSE
