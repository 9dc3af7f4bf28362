\* One worker, two accounts, two jobs, a crash or a stop: the queue and the slots.
SPECIFICATION Spec
CONSTANTS
    w1 = w1
    w2 = w2
    o1 = o1
    o2 = o2
    Workers = {w1}
    Root <- OneRoot
    Owners = {o1, o2}
    NoOwner = NoOwner
    MaxJobs = 2
    OwnerLimit = 3
    MaxAbnormalResumes = 1
    MaxGeneration = 2
    MaxAttempt = 2
SYMMETRY OwnerSymmetry
CHECK_DEADLOCK FALSE
INVARIANTS
    SlotMatchesActive
    OneAtATime
