SPECIFICATION FairSpec
CONSTANTS
    p1 = p1
    r1 = r1
    None = None
    Procs = {p1}
    Reqs = {r1}
    TriggerReqs = {}
    PoolSize = 1
    Env = {"stop", "shutdown", "lateAck", "crash", "reject", "noAck",
           "slowHandshake"}
PROPERTIES
    DeployEnds
    StopEnds
    ManagerStopEnds
CHECK_DEADLOCK FALSE
