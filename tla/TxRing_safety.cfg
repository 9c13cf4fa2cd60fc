SPECIFICATION Spec
CONSTANTS
    Count = 15
    DescNeeded = 7
    DataDescs = {4}
    CtxDescs = {1}
    WorkLimit = 2
    Events = {"drop", "link", "stuck", "xoff", "timer"}
INVARIANTS
    TypeOK
    TailGap
    NoEarlyFree
    
    PacketsTile
