CONSTANTS
    t1 = t1
    t2 = t2
    Topics <- MCTopics
    MaxBatches = 2
    MaxFrames = 4
    AnyReplies = FALSE
SPECIFICATION Spec
CHECK_DEADLOCK FALSE
INVARIANTS ClientHoldsOneBatch AckedWasReceived
