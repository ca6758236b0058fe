SPECIFICATION MCSpec
CONSTANTS
  Scenarios = {"conditions", "metrics", "drain", "certificates", "configuration"}
  Mixes <- MCMixes
  Gateway <- MCGateway
  Instances = {i1, i2}
  MaxGen = 2
  ProxyUpdates <- MCProxyUpdates
  Listeners = {http, https, stats}
  Uncounted = {stats}
  minOpenConnections = 1
  MaxConnections = 2
  MaxOpened = 2
  Runs = {p, q}
  Options <- MCOptions
  MaxGenerations = 2
  Entries <- MCEntries
  MaxGiven = 3
CHECK_DEADLOCK FALSE
INVARIANTS
  
  GaugesExact
  StoppedOnlyDrained
  OutputsMatch
  
  SecretsReachable
PROPERTIES
  NewerVerdictStands
  
  EnvoyStopsInDrain
  EventuallyConnected
