SPECIFICATION FairSpec
CONSTANTS
    Ops = {"open", "close"}
    Faults = {}
    HotOps = {}
    HotFaults = {}
PROPERTIES
    CarrierKept
