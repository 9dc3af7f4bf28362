SPECIFICATION Spec
CONSTANTS
    Items = {i1}
    Faults = {"stop", "busy"}
    MaxEvents = 2
    MaxResumes = 1
INVARIANTS
    StopsFailNothing
CHECK_DEADLOCK FALSE
