SPECIFICATION FairSpec
CONSTANTS
    f1 = f1
    f2 = f2
    f3 = f3
    None = None
    Funcs = {f1, f2, f3}
    V8Funcs = {f1, f2}
    Triggers = {1, 2}
    Namespace <- MCNamespace
    Name <- MCName
    Subject <- MCSubject
    Keys = {"k"}
    KvConfig <- NoOverride
    ObjConfig <- NoOverride
    Worlds <- MCWorlds
INVARIANTS
    TypeOK
    OneOutcome
    AnswersOwnTrigger
    AcknowledgedSetStays
    
PROPERTIES
    TriggerEnds
    
CHECK_DEADLOCK FALSE
