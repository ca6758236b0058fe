SPECIFICATION MCSpec
CONSTANTS
  Scenarios = {"gateway", "proxies", "envoy", "table", "policies"}
  Gateways <- MCGateways
  RouteLists <- MCRouteLists
  ObjectSets <- MCObjectSets
  Worlds <- MCWorlds
  Ingresses <- MCIngresses
  HTTPProxies <- MCHTTPProxies
  Extensions <- MCExtensions
  Secrets <- MCSecrets
  Services <- MCServices
  CASecrets = {}
  Fixed <- MCFixed
  Configs <- MCConfigs
  HostOrder <- MCHostOrder
  MaxObjects = 3
  Routes <- MCRoutes
  MaxRoutes = 3
  Strings <- MCStrings
  Paths <- MCPaths
  PolicyValues <- MCPolicyValues
  Unset <- MCUnset
  Defaults <- MCDefaults
  MaxSet = 2
  WordSize = 8
CHECK_DEADLOCK FALSE
INVARIANTS
  ConflictsBlameOlder
  AcceptedMeansServed
  ListenerIsolation
  DuplicatesNotServed
  OrphansExact
  
  ValidMeansServed
  NoDanglingReferences
  
  HostsIndependent
  MostSpecificFirst
  HeaderValuesRender
  PoliciesKept
PROPERTIES
  StableTable
