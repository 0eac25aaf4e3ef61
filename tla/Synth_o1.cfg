SPECIFICATION Spec
CONSTANTS
    Jobs <- SafeJobs
    MaxRounds = 8
    Rewritten <- PassResults
    Equivalent <- Verified
CHECK_DEADLOCK FALSE
INVARIANT FunctionKept
