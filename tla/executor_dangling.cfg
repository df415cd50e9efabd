\* abort() when the worker did not wait for its own child.
CONSTANTS
    MaxJobs = 1
    PipeCapacity = 1
    Outputs <- OutputsFit
    MaxSubscriptions = 1
    Kinds = {"schedule"}
    ForkMayFail = FALSE
SPECIFICATION Spec
INVARIANT AbortedOrNothingToAbort
