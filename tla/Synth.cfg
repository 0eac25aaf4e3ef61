SPECIFICATION Spec
CONSTANTS
    Jobs <- AllJobs
    MaxRounds = 8
    Rewritten <- PassResults
    Equivalent <- Verified
CHECK_DEADLOCK FALSE
INVARIANTS DriversKept LimitsKept OmaxNoRegress VerifiedResult
PROPERTIES PassSound CutsOnlyBy
