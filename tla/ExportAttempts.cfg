SPECIFICATION FairSpec
CONSTANTS
    Items = {i1, i2}
    Faults = {"crash", "stop", "busy", "storage", "capture", "damage", "foreign",
              "revoke", "delete"}
    MaxEvents = 3
    MaxResumes = 2
INVARIANTS
    TypeOK
    RowConstraints
    CompleteArchiveMatches
    NothingForgotten
PROPERTIES
    OnlyAllowedPublished
    GivenUpIsFinal
    NoStrangerRemoved
    ExportSettles
\* A job that ended and was cleaned leaves the worker nothing to do.
CHECK_DEADLOCK FALSE
