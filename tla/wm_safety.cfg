SPECIFICATION Spec
CONSTANTS
    p1 = p1
    p2 = p2
    r1 = r1
    None = None
    Procs = {p1, p2}
    Reqs = {r1}
    TriggerReqs = {}
    PoolSize = 1
    Env = {"stop", "shutdown", "earlyDeploy", "lateAck", "reject", "earlyExit",
           "noResponders"}
SYMMETRY Symmetry
INVARIANTS
    TypeOK
    
    PoolBounded
    
PROPERTIES
    StoppedStaysStopped
CHECK_DEADLOCK FALSE
