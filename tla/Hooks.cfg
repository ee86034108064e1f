\* Calls judged one at a time, and sessions of calls.
CONSTANTS
  Dashed <- MCDashed
  Joined <- MCJoined
  Cluster <- MCCluster
  Assigned <- MCAssigned
  Var <- MCVar
  Phrase <- MCPhrase
  Wild <- MCWild
  Place <- MCPlace
  WithC <- MCWithC
  BaseName <- MCBaseName
  Script <- MCScript
  PackageScript <- MCPackageScript
  Repo <- MCRepo
  UserConfigs <- MCUserConfigs
  Refspec <- MCRefspec
  AwsConfig <- MCAwsConfig
  KubeContext <- MCKubeContext
  KubeFiles <- MCKubeFiles
  GcloudConfig <- MCGcloudConfig
  AzureDefault <- MCAzureDefault
  TfWorkspace <- MCTfWorkspace
  Statements <- MCStatements
  FileText <- MCFileText
  UrlHost <- MCUrlHost
  MCPTool <- MCMCPTool
  Versioned <- MCVersioned
  SourceSpec <- MCSourceSpec
  PackageJson <- MCPackageJson
  Requirements <- MCRequirements
  Malicious <- MCMalicious
  Vulnerable <- MCVulnerable
  HostIn <- MCHostIn
  Secrets <- MCSecrets
  ModelHost <- MCModelHost
  AtGateway <- MCAtGateway
  MCPFile <- MCMCPFile
  Within <- MCWithin
  Address <- MCAddress
  Loopback <- MCLoopback
  Dotted <- MCDotted
  Builtins <- MCBuiltins
  MCPName <- MCMCPName
  Keys <- MCKeys
  SessionWindow = 1
  SessionCalls = 2
  SessionTTL = 2
  MaxSessions = 2
  MaxHosts = 2
  Instances <- MCInstances
SPECIFICATION Spec
CHECK_DEADLOCK FALSE
INVARIANT SequenceCaught
INVARIANT WrappingHidesNothing
INVARIANT SourcesAlike
INVARIANT EveryAgentAlike
INVARIANT StricterStays
