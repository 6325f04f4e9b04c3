SPECIFICATION Spec
CONSTANTS
  Rates <- SomeRates
  Cost = 3
  Horizon = 7
INVARIANT TypeOK
PROPERTY ImplementsRateLimit
