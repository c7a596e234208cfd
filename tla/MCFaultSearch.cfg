\* CHECK_DEADLOCK FALSE: the search ends.
SPECIFICATION SearchSpec
CONSTANTS
  PISize = 4
  gateSize = 6
  POSize = 2
  Netlists <- SearchNetlists
  PatternLists <- MCPatternLists
INVARIANT PairsSettled
INVARIANT TriplesSettled
INVARIANT SingleMasksExact
INVARIANT DoubleMasksFound
CHECK_DEADLOCK FALSE
