SPECIFICATION Spec
CONSTANTS
  PISize = 2
  gateSize = 3
  POSize = 2
  Netlists <- OneChain
INVARIANTS
  OnePathPairsRedundant
CHECK_DEADLOCK FALSE
