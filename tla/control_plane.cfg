SPECIFICATION FairSpec
CONSTANTS
    alice = alice
    bob = bob
    Clients = {alice, bob}
    Ids = {1, 2, 3}
    None = None
    Jobs <- MCJobs
    WorkloadTypes = {"elf", "v8", "wasm"}
    ValidIssuers = {"me"}
    MaxClock = 1
    Worlds <- MCWorlds
INVARIANTS
    TypeOK
    LameDuckAdmitsNoMore
    
    
    
    AutoStopReplaces
PROPERTY
    EssentialComesBack
CHECK_DEADLOCK FALSE
