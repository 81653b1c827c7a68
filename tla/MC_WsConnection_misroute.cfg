CONSTANTS
    t1 = t1
    t2 = t2
    Topics <- MCTopics
    MaxBatches = 2
    MaxFrames = 3
    AnyReplies = TRUE
SPECIFICATION Spec
CHECK_DEADLOCK FALSE
INVARIANT AckedWasReceived
