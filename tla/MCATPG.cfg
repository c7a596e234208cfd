SPECIFICATION Spec
CONSTANTS
  allSSAFList <- Three
  collapsedSSAFList <- Collapsed
  Patterns <- MCPatterns
  InitialPatterns <- ShortLists
  DetectionTables <- MCTables
  BlockLists <- MCBlockLists
  DSABlockLists <- MCDSABlockLists
INVARIANTS SSAAccounted VerdictsSound DSAAccounted TSAAccounted AdditionalTestsNeeded
PROPERTY Terminates
CHECK_DEADLOCK FALSE
