SPECIFICATION PreprocessingSpec
CONSTANTS
  PISize = 2
  gateSize = 2
  POSize = 2
  Files <- MCFiles
  Netlists = {}
INVARIANTS ConnectionsExact ConesExact ReconvergenceSound
PROPERTY GoodFileIsRead
CHECK_DEADLOCK FALSE
