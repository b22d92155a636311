SPECIFICATION Spec
CONSTANTS
    r1 = r1  r2 = r2  r3 = r3
    k1 = k1  k2 = k2  k3 = k3
    Users = {x, y, z}
    Existing = {x, y}
    Keys = {k1, k2, k3}
    FirstKey = k1
    Runs = {r1, r2, r3}
    OldKey <- ChainOld
    NewKey <- ChainNew
    FailFast = {r3}
    Interruptible = {r1}
    OneRun = TRUE
    BrokerKeys = {k1, k2}
    SaveUpserts = TRUE
    None = None
INVARIANTS TypeOK PasswordsSurvive OldKeyRetiredOffline RerunFinishes
CHECK_DEADLOCK FALSE
