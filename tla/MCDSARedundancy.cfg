SPECIFICATION Spec
CONSTANTS
  PISize = 2
  gateSize = 3
  POSize = 2
  Netlists <- MCNetlists
INVARIANTS
  OnePathPairsExact
  DetectablePairsKept
CHECK_DEADLOCK FALSE
