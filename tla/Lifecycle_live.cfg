SPECIFICATION FairSpec
CONSTANTS
    Ops = {"open", "close", "reinit", "freeze", "remove"}
    Faults = {"alloc", "irq", "sfp", "reset_irq"}
    HotOps = {}
    HotFaults = {}
INVARIANTS
    UpSound
PROPERTIES
    OpsFinish
    ResetServed
