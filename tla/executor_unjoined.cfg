\* abort() when the worker has reset child_pid itself.
CONSTANTS
    MaxJobs = 1
    PipeCapacity = 1
    Outputs <- OutputsFit
    MaxSubscriptions = 1
    Kinds = {"schedule"}
    ForkMayFail = FALSE
SPECIFICATION Spec
INVARIANT AbortResetsThread
