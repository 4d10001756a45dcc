SPECIFICATION FairSpec
CONSTANTS
    NumThreads = 3
    MaxJobs = 3
    MaxSpurious = 1
INVARIANTS ExactlyOnce WaitMeansDone OwnSlot
PROPERTY CallsReturn
