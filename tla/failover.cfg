SPECIFICATION FairCSpec
CONSTANTS
  n1 = n1
  n2 = n2
  Nodes <- OneNode
  Room = 2
PROPERTY FailureIsHandled
