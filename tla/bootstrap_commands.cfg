SPECIFICATION Spec
CONSTANTS
  p1 = p1
  p2 = p2
  p3 = p3
  a1 = a1
  m1 = m1
  None = None
  Procs <- ThreeProcs
  Addrs <- OneAddr
  Models <- OneModel
  Cmds <- AllCmds
INVARIANTS
  TypeOK
  IdsAgree
  ClusterCanRun
  StatusIsWhole
  DaemonHasModels
PROPERTIES
  ClusterIsForever
  AddressIsKept
SYMMETRY BootSymmetry
CHECK_DEADLOCK FALSE
