SPECIFICATION Spec
CONSTANTS
  h1 = h1
  h2 = h2
  None = None
  Healer = healer
  Booter = booter
  Handlers <- TwoHandlers
  Configs <- ThreeConfigs
  External <- Endpoints
  Begins = 3
  Upsets = 2
INVARIANTS
  TypeOK
  RecordAgrees
PROPERTIES
  StatusIsTrue
  OnlyOverlapUndoes
  AgentObeys
SYMMETRY AdminSymmetry
CHECK_DEADLOCK FALSE
