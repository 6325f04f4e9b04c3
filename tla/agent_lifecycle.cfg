SPECIFICATION FairSpec
CONSTANTS
  i1 = i1
  r1 = r1
  boot = boot
  d1 = d1
  d2 = d2
  None = None
  Healer = healer
  Ids <- OneId
  Requests <- OneRequest
  Daemons <- NoDaemon
  Deploys <- TwoDeploys
  Specs <- Polled
  ExtPorts <- SglangPort
PROPERTIES
  ImplementsFairLifecycle
  CallsReturn
  SilenceEnds
