SPECIFICATION Spec
CONSTANTS
  Ingresses <- MCIngresses
  HTTPProxies <- MCHTTPProxies
  Extensions <- MCExtensions
  Secrets <- MCSecrets
  Services <- MCServices
  CASecrets = {}
  Fixed <- MCFixed
  Configs <- MCConfigs
  HostOrder <- MCHostOrder
  MaxObjects = 1
INVARIANTS
  ClientCertificatesPublished
