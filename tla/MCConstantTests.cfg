SPECIFICATION BothSpec
CONSTANTS
  PISize = 2
  gateSize = 3
  POSize = 2
  Netlists <- MaskedNetlists
  FaultSets <- ConstantFaults
  IncNetlists <- MCIncNetlists
  IncFaultSets <- MCIncFaultSets
  MaxLeft = 1
INVARIANT UnsatMeansRedundant
