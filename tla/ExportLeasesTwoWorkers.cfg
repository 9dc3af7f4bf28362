\* Two workers, one account, one job: the database fences alone keep a zombie out.
SPECIFICATION Spec
CONSTANTS
    w1 = w1
    w2 = w2
    o1 = o1
    o2 = o2
    Workers = {w1, w2}
    Root <- TwoRoots
    Owners = {o1}
    NoOwner = NoOwner
    MaxJobs = 1
    OwnerLimit = 3
    MaxAbnormalResumes = 1
    MaxGeneration = 3
    MaxAttempt = 4
SYMMETRY WorkerSymmetry
CHECK_DEADLOCK FALSE
INVARIANTS
    TypeOK
    HeartbeatAgreesWithRow
    AtMostOneWriter
    TakeoversAreSound
PROPERTIES
    TerminalIsFinal
