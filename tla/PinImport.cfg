SPECIFICATION FairSpec
CONSTANTS
    None = None
    i1 = i1
    s1 = s1
    d1 = d1
    h1 = h1
    h2 = h2
    Handlers = {h1, h2}
    Items = {i1}
    Singles = {s1}
    Digests = {d1}
    Digest <- MCSameDigest
    CasReevaluationLimit = 2
    Commands = {"retry", "sweep"}
    Faults = {"crash", "retry", "final", "busy", "unlink", "slow"}
    MaxEvents = 2
INVARIANTS
    TypeOK
    AtMostOncePerItem
    OnlyOwnFailures
    ReferencedFilesPresent
    ImagesMatchPins
    NothingForgotten
PROPERTIES
    SettledByLeaseHolder
    ImportsSettle
CHECK_DEADLOCK FALSE
