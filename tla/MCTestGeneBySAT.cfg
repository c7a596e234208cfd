SPECIFICATION BothSpec
CONSTANTS
  PISize = 2
  gateSize = 3
  POSize = 2
  Netlists <- MCNetlists
  FaultSets <- MCFaultSets
  IncNetlists <- MCIncNetlists
  IncFaultSets <- MCIncFaultSets
  MaxLeft = 1
INVARIANTS ModelsAreSimulations CNFRestored ModelsAreTests
PROPERTY ImplementsTestGeneration
CHECK_DEADLOCK FALSE
