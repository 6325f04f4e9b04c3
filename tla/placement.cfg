SPECIFICATION SSpec
CONSTANTS
  n1 = n1
  n2 = n2
  n3 = n3
  single = single
  staged = staged
  None = None
  Nodes <- ThreeNodes
  Reports <- ThreeReports
  Models <- TwoModels
  Wants <- TwoWants
  MaxN = 5
  MaxJobs = 1
INVARIANTS
  STypeOK
  DecisionFits
  SpreadEvenly
  StagesApart
  NoneForgotten
SYMMETRY SchedSymmetry
