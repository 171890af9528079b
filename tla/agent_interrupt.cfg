CONSTANTS
    d1 = d1
    None = None
    Deploys = {d1}
    Functions = {}
    QueueCap = 1
    MaxUndeploys = 0
    Env = {"exit"}
SPECIFICATION FairSpec
PROPERTIES
    InterruptHalts
CHECK_DEADLOCK FALSE
