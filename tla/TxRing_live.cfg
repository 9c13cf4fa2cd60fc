SPECIFICATION HSpec
CONSTANTS
    Count = 15
    DescNeeded = 7
    DataDescs = {4}
    WorkLimit = 1
    CtxDescs = {1}
    Events = {"drop", "stuck", "timer"}
INVARIANTS
    StoppedIsRung
PROPERTIES
    
    TxGoesOn
