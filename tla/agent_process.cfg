SPECIFICATION Spec
CONSTANTS
  i1 = i1
  r1 = r1
  boot = boot
  d1 = d1
  d2 = d2
  None = None
  Healer = healer
  Ids <- OneId
  Requests <- OneRequest
  Daemons <- OneDaemon
  Deploys <- TwoDeploys
  Specs <- Processes
  ExtPorts <- SglangPort
SYMMETRY Symmetry
INVARIANTS
  TypeOK
  ReadyHasEngine
  OnlyEvictionSplitsTheMaps
  RegisteredIsLoaded
  LoadingHasADeployer
  LiveProcessIsOwned
