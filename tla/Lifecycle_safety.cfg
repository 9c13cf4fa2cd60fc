SPECIFICATION Spec
CONSTANTS
    Ops = {"open", "close", "reinit", "setup_tc", "suspend", "aer", "remove"}
    Faults = {"alloc", "enable", "surprise", "fw_error", "sfp", "bad_sfp",
              "reset_irq", "hung"}
    HotOps = {"open"}
    HotFaults = {"tca", "sfp", "reset_irq"}
INVARIANTS
    TypeOK
    UpSound
    DownSound
