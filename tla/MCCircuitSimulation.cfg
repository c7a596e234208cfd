SPECIFICATION Spec
CONSTANTS
  PISize = 2
  gateSize = 2
  POSize = 2
  Netlists <- MCNetlists
  FaultSets <- MCFaultSets
INVARIANTS CircuitRestored DetectionCorrect GoodValuesLeft MarksExact
