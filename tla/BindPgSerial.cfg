SPECIFICATION FairSpec
CONSTANTS
    a1 = a1  a2 = a2  a3 = a3
    u1 = u1  u2 = u2
    b1 = b1  b2 = b2  b3 = b3
    Attempts = {a1, a2, a3}
    Unbinders = {u1}
    BindingIds = {b1, b2, b3}
    BindingOf <- DistinctIds
    Engine = "postgres"
    SharedName = SharedName
    None = None
    Faults = {"save"}
    Serial = TRUE
    Orderly = TRUE
    SaveUpserts = FALSE
INVARIANTS HeldCredentialsWork LoginNeedsBinding
PROPERTIES RebindGetsNewPassword ReleaseCompletes KeepsPromise
CHECK_DEADLOCK FALSE
