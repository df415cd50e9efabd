\* Every outcome of the dangling read of pid, a fork that may fail, outputs shorter
\* and longer than the pipe, and a subscription that is made twice.
CONSTANTS
    MaxJobs = 2
    PipeCapacity = 1
    Outputs <- OutputsLarge
    MaxSubscriptions = 2
    Kinds = {"schedule", "eta"}
    ForkMayFail = TRUE
SPECIFICATION FairSpec
INVARIANTS TypeOK OneWorker AbortLeavesNoChild EarlierChildrenReaped CallbackSeesWholeOutput
PROPERTIES ImplementsFeed CallsReturn
