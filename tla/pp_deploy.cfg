SPECIFICATION Spec
CONSTANTS
  n1 = n1
  n2 = n2
  c1 = c1
  c2 = c2
  None = None
  Healer = healer
  Nodes <- TwoNodes
  PP = 2
  Calls <- TwoCalls
  Home = n1
  Healed <- OtherNode
  Upsets = 1
  Losses = 1
INVARIANTS
  TypeOK
  SuccessIsWhole
  FailureIsRolledBack
PROPERTIES
  RollbackSparesOthers
  ImplementsAtomic
SYMMETRY PPSymmetry
CHECK_DEADLOCK FALSE
