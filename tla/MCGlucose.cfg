\* One run of the solver on small formulas.
CONSTANTS
    lbLBDFrozenClause = 30
    lbSizeMinimizingClause = 30
    lbLBDMinimizingClause = 6
    grow = 0
    clause_lim = 2
    subsumption_lim = 1000
    ConflictsToAdapt = 3
    lowLBDBound = 3
    highLBDBound = 2
    MaxRestart = 1
    MaxReduce = 1
    FirstReduceDB = 2
    MissingReturn = {}
    Formulas <- MCFormulas
    Unprocessed <- MCUnprocessed
SPECIFICATION Spec
INVARIANT ClausesImplied
INVARIANT PropagationComplete
INVARIANT EliminationSound
INVARIANT ListsExact
PROPERTY ImplementsSATPromise
