SPECIFICATION Spec
CONSTANTS
  PISize = 2
  gateSize = 2
  POSize = 4
  Netlists <- MCNetlists
  MSASets <- MCMSASets
INVARIANTS StuckAt1TriplesExact FilesExact
CHECK_DEADLOCK FALSE
