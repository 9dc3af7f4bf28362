SPECIFICATION Spec
CONSTANTS
    Items = {i1}
    Faults = {"crash", "delete"}
    MaxEvents = 2
    MaxResumes = 1
INVARIANTS
    BlockedOnlyByStrangers
CHECK_DEADLOCK FALSE
