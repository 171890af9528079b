SPECIFICATION FairSpec
CONSTANTS
    d1 = d1
    d2 = d2
    None = None
    Deploys = {d1, d2}
    Functions = {d2}
    QueueCap = 1
    MaxUndeploys = 2
    Env = {"reject", "exit", "output"}
INVARIANTS
    
    HaltInterruptsWorkload
PROPERTIES
    ExitReported
    DeployAnswered
    ShutdownEnds
    UndeployEnds
CHECK_DEADLOCK FALSE
