SPECIFICATION TeardownSpec
CONSTANTS
    a1 = a1  a2 = a2  a3 = a3
    u1 = u1  u2 = u2
    d1 = d1  d2 = d2
    b1 = b1  b2 = b2  b3 = b3
    Attempts = {a1, a2, a3}
    Unbinders = {u1, u2}
    Removers = {d1, d2}
    BindingIds = {b1, b2}
    BindingOf <- RetriedBind
    Engine = "postgres"
    SharedName = SharedName
    None = None
    Faults = {"save", "check", "alter", "create", "grant", "reply", "unlink", "revoke", "drop", "delete", "deleteUser"}
    Breaks = {"dropDB", "dropUser", "delete", "die"}
    Serial = FALSE
    Orderly = TRUE
    SaveUpserts = TRUE
SYMMETRY RequestSymmetry
INVARIANTS TeardownTypeOK LoginsAreFound TeardownIsComplete
CHECK_DEADLOCK FALSE
