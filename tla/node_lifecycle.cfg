SPECIFICATION FairSpec
CONSTANTS
    p1 = p1
    p2 = p2
    Procs = {p1, p2}
    Vms = {1, 2, 3}
    None = None
    MachinePoolSize = 2
    CniDirs <- MCCniDirs
    BinDirs <- MCBinDirs
    Worlds <- MCWorlds
INVARIANTS
    TypeOK
    OneNode
    
    StopLeavesNoVM
PROPERTY
    EverythingEnds
CHECK_DEADLOCK FALSE
