SPECIFICATION FairSpec
CONSTANTS
    MaxReq = 2
    MaxEvents = 1
    Kinds = {"reset", "cfg", "lpe"}
    Faults = {"flr", "mdd", "timeout", "clear"}
    Overlap = FALSE
INVARIANTS
    TypeOK
    MessagesSound

    
CHECK_DEADLOCK FALSE
