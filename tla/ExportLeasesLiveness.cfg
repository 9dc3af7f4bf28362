\* One worker, two jobs: every export ends and is cleaned up.
SPECIFICATION FairSpec
CONSTANTS
    w1 = w1
    w2 = w2
    o1 = o1
    o2 = o2
    Workers = {w1}
    Root <- OneRoot
    Owners = {o1}
    NoOwner = NoOwner
    MaxJobs = 2
    OwnerLimit = 2
    MaxAbnormalResumes = 1
    MaxGeneration = 2
    MaxAttempt = 2
CHECK_DEADLOCK FALSE
PROPERTIES
    EveryExportEnds
