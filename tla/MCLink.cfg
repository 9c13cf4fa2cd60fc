SPECIFICATION MCSpec
CONSTANTS
    MaxNews = 2
    Sfp = TRUE
    Parts = {"link", "napi", "ptp", "ptprx", "atr", "sfp", "e610", "phy", "aci"}
INVARIANTS
    TypesOK
    LscNotStuck
    UsedAlone
PROPERTIES
    UpdateEnds
    WorkServed
    
    
CHECK_DEADLOCK FALSE
