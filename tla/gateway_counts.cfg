SPECIFICATION GSpec
CONSTANTS
  i1 = i1
  i2 = i2
  r1 = r1
  boot1 = boot1
  d1 = d1
  d2 = d2
  q1 = q1
  q2 = q2
  remote = remote
  None = None
  Healer = healer
  Ids <- OneId
  Requests <- NoRequest
  Daemons <- OneDaemon
  Deploys <- TwoDeploys
  Specs <- FakeOnly
  ExtPorts <- NoPort
  Chats <- TwoChats
  Remotes <- OneRemote
  Removable <- OneRemote
SYMMETRY GSymmetry
INVARIANTS
  GTypeOK
  CountsMatch
