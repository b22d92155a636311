SPECIFICATION Spec
CONSTANTS
    Provisions = {p1, p2}
    Deprovisions = {d1, d2}
    Polls = {l1}
    Updates = {m1}
    Plans <- AllPlans
    PlanUpdateable = TRUE
    Failing <- EveryCall
    Crashes = TRUE
    OneProvision = TRUE
    None = None
INVARIANTS TypeOK MasterCredentialsMatch UpdatesKeepKind
PROPERTIES KeepsLifecycle
CHECK_DEADLOCK FALSE
