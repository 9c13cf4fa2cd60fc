SPECIFICATION Spec
CONSTANTS
    Threads = {p0, p1}
    Res = {nvm, mng}
    SwOnly = {mng}
    MaxCalls = 1
    MaxCrashes = 1
    p0 = p0
    p1 = p1
    nvm = nvm
    mng = mng
SYMMETRY Symmetry
INVARIANTS
    TypeOK
    OwnersSound
    QuietFree
CHECK_DEADLOCK FALSE
