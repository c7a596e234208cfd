SPECIFICATION Spec
CONSTANTS
    Values <- MCValues
    Sizes <- MCSizes
    MaxPushes = 7
    Elems = {c1, c2}
    NoElem = NoElem
    MaxSize = 4
    INT_MAX = 31
    nbThreads = 3
    bufferSize = 13
    SharedClauses <- MCSharedClauses
    MaxPushed = 3
    nbsolvers = 2
    Vars <- MCVars
    Formulas <- MCFormulas
    Eliminations <- MCEliminations
INVARIANT RingExact
INVARIANT VecSafe
INVARIANT BufferExact
INVARIANT ResultRight
PROPERTY KeepsOrder
PROPERTY UnitsImported
PROPERTY ThreadsEnd
CHECK_DEADLOCK FALSE
