SPECIFICATION Spec
CONSTANTS
    MaxReq = 1
    MaxEvents = 1
    Kinds = {"reset"}
    Faults = {}
    Overlap = TRUE
INVARIANTS
    WholeMessages
CHECK_DEADLOCK FALSE
