SPECIFICATION Spec
CONSTANTS
    p1 = p1
    r1 = r1
    None = None
    Procs = {p1}
    Reqs = {r1}
    TriggerReqs = {}
    PoolSize = 1
    Env = {"stop"}
SYMMETRY Symmetry
PROPERTIES
    StoppedIsPublished
CHECK_DEADLOCK FALSE
