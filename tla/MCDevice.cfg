SPECIFICATION MCSpec
CONSTANTS
    Parts = {"rx", "xsk", "clock", "fc", "vlan", "mac", "iov", "vf", "queues",
             "dcb", "rings", "rules", "params", "info", "xarray", "probe",
             "reset", "test", "nvm", "eeprom", "i2c", "log", "pldm"}
    Sheets <- MCSheets
    TotalVfs = 2
    MaxOps = 3
    MaxErrs = 2
    NVfs = 2
    McHashes = {"h1", "h2"}
    VfWorlds <- MCVfWorlds
    MaxVfOps = 3
    PFs = {"pf0", "pf1"}
    NComps = 2
    NBlocks = 2
    Levels = {0}
    MaxUpdates = 2
    MaxFaults = 2
    Locs = {1, 2}
    FdHashes = {"h1", "h2"}
    Masks = {"m1", "m2", "bad"}
    BadMask = "bad"
    RingCounts = {1, 2}
INVARIANTS
    TypesOK
    
    ClockTrue
    
    
    TablesTrue
    
    
    
    
PROPERTIES
    VlansIsolated
    
    ArrayIsMap
CHECK_DEADLOCK FALSE
