SPECIFICATION Spec
CONSTANTS
    a1 = a1  a2 = a2  a3 = a3
    u1 = u1  u2 = u2
    b1 = b1  b2 = b2  b3 = b3
    Attempts = {a1, a2, a3}
    Unbinders = {u1, u2}
    BindingIds = {b1, b2, b3}
    BindingOf <- RetriedBind
    Engine = "mysql"
    SharedName = SharedName
    None = None
    Faults = {"save", "check", "alter", "create", "grant", "reply", "unlink", "revoke", "drop", "delete", "deleteUser"}
    Serial = FALSE
    Orderly = FALSE
    SaveUpserts = TRUE
SYMMETRY RetrySymmetry
INVARIANTS TypeOK HeldCredentialsWork ReleasedCredentialsDie EveryLoginIsRecorded
CHECK_DEADLOCK FALSE
