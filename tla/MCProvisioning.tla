--------------------------- MODULE MCProvisioning ---------------------------
(* Instances of Provisioning for TLC. *)
EXTENDS Provisioning

Named(name, shared, engine, skip) ==
    [name |-> name, shared |-> shared, engine |-> engine, skipFinalSnapshot |-> skip]

SharedPlan == Named("shared", TRUE, "postgres", FALSE)
KeepPlan == Named("keep", FALSE, "postgres", FALSE)
SkipPlan == Named("skip", FALSE, "postgres", TRUE)
MysqlPlan == Named("mysql", FALSE, "mysql", FALSE)
AuroraPlan == Named("aurora", FALSE, "aurora", FALSE)
AuroraSkip == Named("aurora-skip", FALSE, "aurora", TRUE)

AllPlans == {SharedPlan, KeepPlan, SkipPlan, MysqlPlan, AuroraPlan, AuroraSkip}
EveryCall == Calls
\* The calls whose errors the caller learns of and can repeat.
ReportedCalls == Calls \ {"save", "deleteRecord", "deleteCluster", "describe"}
=============================================================================
