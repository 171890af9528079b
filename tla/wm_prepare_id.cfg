SPECIFICATION Spec
CONSTANTS
    p1 = p1
    p2 = p2
    r1 = r1
    None = None
    Procs = {p1, p2}
    Reqs = {r1}
    TriggerReqs = {}
    PoolSize = 2
    Env = {}
SYMMETRY Symmetry
PROPERTIES
    PrepareAssociatesId
CHECK_DEADLOCK FALSE
