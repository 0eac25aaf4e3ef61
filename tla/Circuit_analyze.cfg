SPECIFICATION Spec
CONSTANTS
    Netlists <- MCNetlists
    Settings <- MCSettings
    MaxIter = 2
    MaxTime = 7
INVARIANTS AtRestored RowsDisjoint StampsOwnNode OperatingPointFirst
PROPERTIES SweepComplete TimeAdvances AnalyzeReturns
