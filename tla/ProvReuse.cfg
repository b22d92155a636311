SPECIFICATION FairSpec
CONSTANTS
    Provisions = {p1, p2}
    Deprovisions = {d1, d2}
    Polls = {l1}
    Updates = {m1}
    Plans <- AllPlans
    PlanUpdateable = TRUE
    Failing <- ReportedCalls
    Crashes = FALSE
    OneProvision = TRUE
    None = None
INVARIANTS InstanceIsRecorded ClusterIsRecorded RecordedDatabaseExists SnapshotAsProvisioned
PROPERTIES DeprovisionCompletes
CHECK_DEADLOCK FALSE
