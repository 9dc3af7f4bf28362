SPECIFICATION FairSpec
CONSTANTS
    p1 = p1
    p2 = p2
    p3 = p3
    Pins = {p1, p2, p3}
    Owned = {p1}
    Assets = {1, 2}
    AssetOf <- MCAssetOf
    Faults = {"crash", "stop", "busy", "storage", "hide", "delete", "account"}
    MaxEvents = 4
    MaxResumes = 1
INVARIANTS
    TypeOK
    SnapshotWhole
    NothingForgotten
    FailsForCause
PROPERTIES
    SnapshotSettles
\* An export that ended and was cleaned leaves nothing to do.
CHECK_DEADLOCK FALSE
