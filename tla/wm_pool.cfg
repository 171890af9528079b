SPECIFICATION Spec
CONSTANTS
    p1 = p1
    p2 = p2
    p3 = p3
    r1 = r1
    r2 = r2
    None = None
    Procs = {p1, p2, p3}
    Reqs = {r1, r2}
    TriggerReqs = {}
    PoolSize = 2
    Env = {"reject", "lateAck", "noResponders"}
SYMMETRY Symmetry
PROPERTIES
    PreparedOnce
CHECK_DEADLOCK FALSE
