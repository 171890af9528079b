CONSTANTS
    d1 = d1
    d2 = d2
    None = None
    Deploys = {d1, d2}
    Functions = {d2}
    QueueCap = 1
    MaxUndeploys = 1
    Env = {"reject", "badStart", "exit", "output", "race", "noHandshake"}
SPECIFICATION Spec
INVARIANTS
    TypeOK
    RefusedIsSilent
PROPERTIES
    KeepsContract
CHECK_DEADLOCK FALSE
