SPECIFICATION FairCSpec
CONSTANTS
  n1 = n1
  n2 = n2
  Nodes <- TwoNodes
  Room = 2
INVARIANTS
  CTypeOK
  ViewAgrees
PROPERTY ComingIsTold
