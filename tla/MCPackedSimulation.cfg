SPECIFICATION Spec
CONSTANTS
  PISize = 1
  gateSize = 2
  POSize = 2
  WSIZE = 2
  MaxPatterns = 3
  Netlists <- MCNetlists
  FaultSets <- MCFaultSets
INVARIANTS
  CircuitRestored
PROPERTIES
  ImplementsFaultDetection
