---------------------------- MODULE Provisioning ----------------------------
(***************************************************************************)
(* RDSBroker.Provision, Update, Deprovision and LastOperation              *)
(* (rdsbroker/broker.go) on one instance ID: the internal DBInstance       *)
(* record, the RDS instance, the Aurora cluster and the database on the    *)
(* shared server that go by that ID.  Requests run concurrently and each   *)
(* call to AWS, to an SQL server or to the internal database is one step.  *)
(*                                                                         *)
(* A provision is one Provision request.  It also names what the request   *)
(* may create: the DBInstance row and its random master user.              *)
(***************************************************************************)
EXTENDS Naturals

CONSTANTS
    Provisions,      \* Provision requests of the instance ID
    Deprovisions,    \* Deprovision requests in flight at one time
    Polls,           \* LastOperation requests in flight at one time
    Updates,         \* Update requests in flight at one time
    Plans,           \* plans of the service
    PlanUpdateable,  \* the service allows plan changes
    Failing,         \* calls that may return an error
    Crashes,         \* a handler may die between two calls
    OneProvision,    \* the platform sends one Provision at a time
    None

Engines == {"mysql", "postgres", "aurora"}
Plan == [name : STRING, shared : BOOLEAN, engine : Engines, skipFinalSnapshot : BOOLEAN]

Handlers == Deprovisions \cup Polls \cup Updates

ProvisionSteps == {"createDB", "createCluster", "createInstance", "save", "rollback"}
HandlerSteps == {"dropDB", "forget", "deleteInstance", "deleteCluster",
                 "describe", "forgetGone", "modifyCluster", "modifyInstance"}
Calls == {"createDB", "createCluster", "createInstance", "save", "dropDB", "deleteRecord",
          "deleteInstance", "deleteCluster", "describe", "modifyCluster", "modifyInstance"}

Record == [row : Provisions, plan : Plans]
Rds == [owner : Provisions, plan : Plans, snapshot : BOOLEAN,
        status : {"creating", "available", "modifying", "deleting"}]
Cluster == [owner : Provisions, plan : Plans, snapshot : BOOLEAN, deleting : BOOLEAN]

ASSUME PlanAssumption ==
    /\ Plans \subseteq Plan
    /\ \A p \in Plans : p.shared => p.engine # "aurora"
    /\ {PlanUpdateable, Crashes, OneProvision} \subseteq BOOLEAN
    /\ Failing \subseteq Calls
    /\ None \notin Provisions \cup Plans \cup Record \cup Rds \cup Cluster

ASSUME HandlerAssumption ==
    /\ Deprovisions \cap Polls = {}
    /\ Deprovisions \cap Updates = {}
    /\ Polls \cap Updates = {}

VARIABLES
    record,    \* the DBInstance row with the instance ID, or None
    rds,       \* the RDS instance with the ID, or None
    cluster,   \* the Aurora cluster with the ID, or None
    database,  \* whether the shared server has a database for the ID
    prov,      \* prov[p]: the next step of Provision
    order,     \* order[p]: the plan it was asked for
    step,      \* step[h]: the next step of another handler
    seen,      \* seen[h]: the DBInstance row it loaded
    wanted,    \* wanted[m]: the plan an Update was asked for
    accepted   \* rows whose Deprovision was answered with success

aws == <<rds, cluster>>
stores == <<record, rds, cluster, database>>
provisioning == <<prov, order>>
handlers == <<step, seen, wanted>>
vars == <<record, rds, cluster, database, prov, order, step, seen, wanted, accepted>>

TypeOK ==
    /\ record \in Record \cup {None}
    /\ rds \in Rds \cup {None}
    /\ cluster \in Cluster \cup {None}
    /\ database \in BOOLEAN
    /\ prov \in [Provisions -> ProvisionSteps \cup {"idle", "ok", "failed"}]
    /\ order \in [Provisions -> Plans \cup {None}]
    /\ step \in [Handlers -> HandlerSteps \cup {"idle"}]
    /\ seen \in [Handlers -> Record \cup {None}]
    /\ wanted \in [Handlers -> Plans \cup {None}]
    /\ accepted \subseteq Provisions

Init ==
    /\ record = None
    /\ rds = None
    /\ cluster = None
    /\ database = FALSE
    /\ prov = [p \in Provisions |-> "idle"]
    /\ order = [p \in Provisions |-> None]
    /\ step = [h \in Handlers |-> "idle"]
    /\ seen = [h \in Handlers |-> None]
    /\ wanted = [h \in Handlers |-> None]
    /\ accepted = {}

-----------------------------------------------------------------------------
IsAurora(plan) == plan.engine = "aurora"

\* What stays the same when CanUpdate lets an instance change plans.
Kind(plan) == <<plan.shared, plan.engine>>

\* Mutant: the engines are not compared.
CanUpdateEngine(old, new) ==
    /\ PlanUpdateable
    /\ old # new => old.shared = new.shared

CanUpdate(old, new) ==
    /\ PlanUpdateable
    /\ old # new => Kind(old) = Kind(new)

\* The snapshot flag of the RDS instance: an Aurora cluster has its own.
SkipInstanceSnapshot(plan) == plan.skipFinalSnapshot \/ IsAurora(plan)

\* AWS: neither a cluster with a member that is not being deleted nor one that is
\* being deleted itself can be deleted.
Deletable ==
    /\ cluster # None /\ ~cluster.deleting
    /\ rds # None /\ IsAurora(rds.plan) => rds.status = "deleting"

\* Mutant: the flag is passed on without negating it.
DeletedClusterSwapped(plan) ==
    [cluster EXCEPT !.deleting = TRUE, !.snapshot = plan.skipFinalSnapshot]

DeletedCluster(plan) ==
    [cluster EXCEPT !.deleting = TRUE, !.snapshot = ~plan.skipFinalSnapshot]

Provisioning == {p \in Provisions : prov[p] \in ProvisionSteps}
Busy(H) == \E h \in H : step[h] # "idle"

-----------------------------------------------------------------------------
(* Provision.                                                              *)

\* Mutant: a shared instance is saved without a database.
FirstStepUnmade(plan) ==
    IF plan.shared THEN "save"
    ELSE IF IsAurora(plan) THEN "createCluster" ELSE "createInstance"

FirstStep(plan) ==
    IF plan.shared THEN "createDB"
    ELSE IF IsAurora(plan) THEN "createCluster" ELSE "createInstance"

\* Mutant: nobody looks for an instance with the ID.
ProvisionStartUnchecked(p, plan) ==
    /\ prov[p] = "idle"
    /\ OneProvision => Provisioning = {}
    /\ order' = [order EXCEPT ![p] = plan]
    /\ prov' = [prov EXCEPT ![p] = FirstStep(plan)]
    /\ UNCHANGED <<stores, handlers, accepted>>

\* FindServicePlan, FindInstance finds nothing, NewInstance.
ProvisionStart(p, plan) ==
    /\ prov[p] = "idle"
    /\ OneProvision => Provisioning = {}
    /\ record = None
    /\ order' = [order EXCEPT ![p] = plan]
    /\ prov' = [prov EXCEPT ![p] = FirstStep(plan)]
    /\ UNCHANGED <<stores, handlers, accepted>>

\* "Instance already exists".
ProvisionExists(p) ==
    /\ prov[p] = "idle"
    /\ OneProvision => Provisioning = {}
    /\ record # None
    /\ prov' = [prov EXCEPT ![p] = "failed"]
    /\ UNCHANGED <<stores, order, handlers, accepted>>

\* CreateDB of a shared engine; it accepts a database that exists.
ProvisionCreateDB(p) ==
    /\ prov[p] = "createDB"
    /\ database' = TRUE
    /\ prov' = [prov EXCEPT ![p] = "save"]
    /\ UNCHANGED <<record, aws, order, handlers, accepted>>

\* AWS refuses a second cluster with the identifier.
ProvisionCreateCluster(p) ==
    /\ prov[p] = "createCluster"
    /\ cluster = None
    /\ cluster' = [owner |-> p, plan |-> order[p], snapshot |-> FALSE, deleting |-> FALSE]
    /\ prov' = [prov EXCEPT ![p] = "createInstance"]
    /\ UNCHANGED <<record, rds, database, order, handlers, accepted>>

\* AWS refuses a second instance with the identifier, and a member for a cluster
\* that is not there to stay.
CanCreateInstance(plan) ==
    /\ rds = None
    /\ IsAurora(plan) => cluster # None /\ ~cluster.deleting

ProvisionCreateInstance(p) ==
    /\ prov[p] = "createInstance"
    /\ CanCreateInstance(order[p])
    /\ rds' = [owner |-> p, plan |-> order[p], snapshot |-> FALSE, status |-> "creating"]
    /\ prov' = [prov EXCEPT ![p] = "save"]
    /\ UNCHANGED <<record, cluster, database, order, handlers, accepted>>

\* Mutant: no deferred function.
AfterErrorLeave(p) == "failed"

\* Where an error leads: the deferred function deletes the cluster it guards.
AfterError(p) == IF IsAurora(order[p]) THEN "rollback" ELSE "failed"

ProvisionCreateRefused(p) ==
    /\ \/ /\ prov[p] = "createDB"
          /\ "createDB" \in Failing
          /\ prov' = [prov EXCEPT ![p] = "failed"]
       \/ /\ prov[p] = "createCluster"
          /\ cluster # None \/ "createCluster" \in Failing
          /\ prov' = [prov EXCEPT ![p] = "failed"]
       \/ /\ prov[p] = "createInstance"
          /\ ~CanCreateInstance(order[p]) \/ "createInstance" \in Failing
          /\ prov' = [prov EXCEPT ![p] = AfterError(p)]
    /\ UNCHANGED <<stores, order, handlers, accepted>>

\* internalDB.Save of the new DBInstance; InstanceID has a unique index.
ProvisionSave(p) ==
    /\ prov[p] = "save"
    /\ record = None
    /\ record' = [row |-> p, plan |-> order[p]]
    /\ prov' = [prov EXCEPT ![p] = "ok"]
    /\ UNCHANGED <<aws, database, order, handlers, accepted>>

ProvisionSaveRefused(p) ==
    /\ prov[p] = "save"
    /\ record # None \/ "save" \in Failing
    /\ prov' = [prov EXCEPT ![p] = AfterError(p)]
    /\ UNCHANGED <<stores, order, handlers, accepted>>

\* The deferred dbCluster.Delete; nobody looks at its error.
ProvisionRollback(p) ==
    /\ prov[p] = "rollback"
    /\ \/ /\ Deletable
          /\ cluster' = DeletedCluster(order[p])
       \/ /\ ~Deletable \/ "deleteCluster" \in Failing
          /\ UNCHANGED cluster
    /\ prov' = [prov EXCEPT ![p] = "failed"]
    /\ UNCHANGED <<record, rds, database, order, handlers, accepted>>

ProvisionDie(p) ==
    /\ Crashes
    /\ p \in Provisioning
    /\ prov' = [prov EXCEPT ![p] = "failed"]
    /\ UNCHANGED <<stores, order, handlers, accepted>>

-----------------------------------------------------------------------------
(* The other handlers load the record first and keep what they saw.        *)

Load(h, next) ==
    /\ step[h] = "idle"
    /\ record # None
    /\ seen' = [seen EXCEPT ![h] = record]
    /\ step' = [step EXCEPT ![h] = next]

Goto(h, next) ==
    /\ step' = [step EXCEPT ![h] = next]
    /\ UNCHANGED <<seen, wanted>>

\* Mutant: the platform is told of the request instead of the instance.
AnswerRequest(h, ps) ==
    /\ step' = [step EXCEPT ![h] = "idle"]
    /\ seen' = [seen EXCEPT ![h] = None]
    /\ wanted' = [wanted EXCEPT ![h] = None]
    /\ accepted' = IF ps = {} THEN accepted ELSE accepted \cup {h}

\* The handler returns; ps are the rows whose Deprovision it reports successful.
Answer(h, ps) ==
    /\ step' = [step EXCEPT ![h] = "idle"]
    /\ seen' = [seen EXCEPT ![h] = None]
    /\ wanted' = [wanted EXCEPT ![h] = None]
    /\ accepted' = accepted \cup ps

\* Mutant: the row is deleted by its instance ID.
ForgetInstance(r) == record' = None

\* Mutant: the row is not deleted.
ForgetNothing(r) == UNCHANGED record

\* DBInstance.Delete removes the row that was loaded, by its primary key, with
\* its users and bindings.
ForgetRow(r) == record' = IF record # None /\ record.row = r THEN None ELSE record

HandlerDie(h) ==
    /\ Crashes
    /\ step[h] # "idle"
    /\ Answer(h, {})
    /\ UNCHANGED <<stores, provisioning>>

(* Deprovision. *)

DeprovisionFind(d) ==
    /\ record # None
    /\ Load(d, IF record.plan.shared THEN "dropDB" ELSE "deleteInstance")
    /\ UNCHANGED <<stores, provisioning, wanted, accepted>>

DeprovisionDropDB(d) ==
    /\ step[d] = "dropDB"
    /\ database' = FALSE
    /\ Goto(d, "forget")
    /\ UNCHANGED <<record, aws, provisioning, accepted>>

DeprovisionDropDBError(d) ==
    /\ step[d] = "dropDB"
    /\ "dropDB" \in Failing
    /\ Answer(d, {})
    /\ UNCHANGED <<stores, provisioning>>

\* The errors of instance.Delete are only logged: "the real database is gone".
DeprovisionForget(d) ==
    /\ step[d] = "forget"
    /\ \/ ForgetRow(seen[d].row)
       \/ "deleteRecord" \in Failing /\ UNCHANGED record
    /\ Answer(d, {seen[d].row})
    /\ UNCHANGED <<aws, database, provisioning>>

\* AWS refuses to delete twice, and a final snapshot of a cluster member.
CanDeleteInstance(plan) ==
    /\ rds # None
    /\ rds.status # "deleting"
    /\ IsAurora(rds.plan) => SkipInstanceSnapshot(plan)

\* The record stays: LastOperation still needs it.
DeprovisionDeleteInstance(d) ==
    /\ step[d] = "deleteInstance"
    /\ CanDeleteInstance(seen[d].plan)
    /\ rds' = [rds EXCEPT !.status = "deleting",
                          !.snapshot = ~SkipInstanceSnapshot(seen[d].plan)]
    /\ \/ /\ IsAurora(seen[d].plan)
          /\ Goto(d, "deleteCluster")
          /\ UNCHANGED accepted
       \/ /\ ~IsAurora(seen[d].plan)
          /\ Answer(d, {seen[d].row})
    /\ UNCHANGED <<record, cluster, database, provisioning>>

DeprovisionDeleteRefused(d) ==
    /\ step[d] = "deleteInstance"
    /\ ~CanDeleteInstance(seen[d].plan) \/ "deleteInstance" \in Failing
    /\ Answer(d, {})
    /\ UNCHANGED <<stores, provisioning>>

\* The result of dbCluster.Delete is ignored.
DeprovisionDeleteCluster(d) ==
    /\ step[d] = "deleteCluster"
    /\ \/ /\ Deletable
          /\ cluster' = DeletedCluster(seen[d].plan)
       \/ /\ ~Deletable \/ "deleteCluster" \in Failing
          /\ UNCHANGED cluster
    /\ Answer(d, {seen[d].row})
    /\ UNCHANGED <<record, rds, database, provisioning>>

(* LastOperation; a shared instance has none and nothing happens. *)

LastOperationFind(l) ==
    /\ record # None /\ ~record.plan.shared
    /\ Load(l, "describe")
    /\ UNCHANGED <<stores, provisioning, wanted, accepted>>

\* Mutant: any error of the call is taken for ErrDBInstanceDoesNotExist.
LastOperationAnyError(l) ==
    /\ step[l] = "describe"
    /\ rds = None \/ "describe" \in Failing
    /\ Goto(l, "forgetGone")
    /\ UNCHANGED <<stores, provisioning, accepted>>

\* ErrDBInstanceDoesNotExist: get rid of the local reference.
LastOperationGone(l) ==
    /\ step[l] = "describe"
    /\ rds = None
    /\ Goto(l, "forgetGone")
    /\ UNCHANGED <<stores, provisioning, accepted>>

\* The status is reported, or the error of the call is.
LastOperationReport(l) ==
    /\ step[l] = "describe"
    /\ rds # None \/ "describe" \in Failing
    /\ Answer(l, {})
    /\ UNCHANGED <<stores, provisioning>>

LastOperationForget(l) ==
    /\ step[l] = "forgetGone"
    /\ \/ ForgetRow(seen[l].row)
       \/ "deleteRecord" \in Failing /\ UNCHANGED record
    /\ Answer(l, {})
    /\ UNCHANGED <<aws, database, provisioning>>

(* Update; on a shared instance a plan change changes nothing. *)

UpdateFind(m, plan) ==
    /\ record # None
    /\ CanUpdate(record.plan, plan)
    /\ ~plan.shared
    /\ Load(m, IF IsAurora(plan) THEN "modifyCluster" ELSE "modifyInstance")
    /\ wanted' = [wanted EXCEPT ![m] = plan]
    /\ UNCHANGED <<stores, provisioning, accepted>>

CanModifyCluster == cluster # None /\ ~cluster.deleting

UpdateCluster(m) ==
    /\ step[m] = "modifyCluster"
    /\ CanModifyCluster
    /\ cluster' = [cluster EXCEPT !.plan = wanted[m]]
    /\ Goto(m, "modifyInstance")
    /\ UNCHANGED <<record, rds, database, provisioning, accepted>>

\* RDSDBCluster.Modify describes the modified cluster to tag it: an error of that
\* call fails the Update with the cluster modified and the instance not.
UpdateClusterUntagged(m) ==
    /\ step[m] = "modifyCluster"
    /\ CanModifyCluster
    /\ "modifyCluster" \in Failing
    /\ cluster' = [cluster EXCEPT !.plan = wanted[m]]
    /\ Answer(m, {})
    /\ UNCHANGED <<record, rds, database, provisioning>>

\* RDSDBInstance.Modify compares the engines; AWS wants an available instance.
CanModifyInstance(plan) ==
    rds # None /\ rds.status = "available" /\ rds.plan.engine = plan.engine

\* Nothing writes the new plan into the record.
UpdateInstance(m) ==
    /\ step[m] = "modifyInstance"
    /\ CanModifyInstance(wanted[m])
    /\ rds' = [rds EXCEPT !.plan = wanted[m], !.status = "modifying"]
    /\ Answer(m, {})
    /\ UNCHANGED <<record, cluster, database, provisioning>>

UpdateRefused(m) ==
    /\ \/ /\ step[m] = "modifyCluster"
          /\ ~CanModifyCluster \/ "modifyCluster" \in Failing
       \/ /\ step[m] = "modifyInstance"
          /\ ~CanModifyInstance(wanted[m]) \/ "modifyInstance" \in Failing
    /\ Answer(m, {})
    /\ UNCHANGED <<stores, provisioning>>

-----------------------------------------------------------------------------
(* What AWS does by itself.                                                *)

InstanceReady ==
    /\ rds # None /\ rds.status \in {"creating", "modifying"}
    /\ rds' = [rds EXCEPT !.status = "available"]
    /\ UNCHANGED <<record, cluster, database, provisioning, handlers, accepted>>

InstanceGone ==
    /\ rds # None /\ rds.status = "deleting"
    /\ rds' = None
    /\ UNCHANGED <<record, cluster, database, provisioning, handlers, accepted>>

ClusterGone ==
    /\ cluster # None /\ cluster.deleting
    /\ rds # None => ~IsAurora(rds.plan)
    /\ cluster' = None
    /\ UNCHANGED <<record, rds, database, provisioning, handlers, accepted>>

Aws == InstanceReady \/ InstanceGone \/ ClusterGone

-----------------------------------------------------------------------------
ProvisionStep(p) ==
    \/ ProvisionCreateDB(p) \/ ProvisionCreateCluster(p) \/ ProvisionCreateInstance(p)
    \/ ProvisionCreateRefused(p) \/ ProvisionSave(p) \/ ProvisionSaveRefused(p)
    \/ ProvisionRollback(p)

HandlerStep(h) ==
    \/ DeprovisionDropDB(h) \/ DeprovisionDropDBError(h) \/ DeprovisionForget(h)
    \/ DeprovisionDeleteInstance(h) \/ DeprovisionDeleteRefused(h)
    \/ DeprovisionDeleteCluster(h)
    \/ LastOperationGone(h) \/ LastOperationReport(h) \/ LastOperationForget(h)
    \/ UpdateCluster(h) \/ UpdateClusterUntagged(h)
    \/ UpdateInstance(h) \/ UpdateRefused(h)

Next ==
    \/ \E p \in Provisions :
          \/ \E plan \in Plans : ProvisionStart(p, plan)
          \/ ProvisionExists(p) \/ ProvisionStep(p) \/ ProvisionDie(p)
    \/ \E d \in Deprovisions : DeprovisionFind(d)
    \/ \E l \in Polls : LastOperationFind(l)
    \/ \E m \in Updates, plan \in Plans : UpdateFind(m, plan)
    \/ \E h \in Handlers : HandlerStep(h) \/ HandlerDie(h)
    \/ Aws

Spec == Init /\ [][Next]_vars

\* Handlers that have started go on, AWS finishes what it was asked for, and the
\* platform polls an instance for as long as the broker knows it.
FairSpec ==
    /\ Spec
    /\ \A p \in Provisions : WF_vars(ProvisionStep(p))
    /\ \A h \in Handlers : WF_vars(HandlerStep(h))
    /\ WF_vars(InstanceReady) /\ WF_vars(InstanceGone) /\ WF_vars(ClusterGone)
    /\ \A l \in Polls : WF_vars(LastOperationFind(l))

-----------------------------------------------------------------------------
(* Properties.                                                             *)

\* The master user in the record is the one the RDS instance (on Aurora, the
\* cluster) was created with, so that Bind can connect (broker.go, Provision
\* and dedicatedSqlEngine).
MasterCredentialsMatch ==
    record # None /\ ~record.plan.shared =>
        /\ rds # None => rds.owner = record.row
        /\ IsAurora(record.plan) /\ cluster # None => cluster.owner = record.row

\* An RDS instance that is not being deleted has a record, and it is its own,
\* once the Provision that created it has returned (broker.go, Provision,
\* Deprovision and LastOperation).
InstanceIsRecorded ==
    rds # None /\ rds.status # "deleting" /\ rds.owner \notin Provisioning =>
        record # None /\ record.row = rds.owner

\* The ID has not been used again: no more than one Provision has got anywhere.
OneLife ==
    \A p, q \in Provisions : {prov[p], prov[q]} \cap {"idle", "failed"} = {} => p = q

\* The ID was not used but by p.
OwnLife(p) == \A q \in Provisions \ {p} : prov[q] \in {"idle", "failed"}

\* Between requests of one life, a cluster that is not being deleted has its record
\* (broker.go, the deferred Delete of Provision and the one of Deprovision).
ClusterIsRecorded ==
    (/\ cluster # None /\ ~cluster.deleting
     /\ OneLife /\ Provisioning = {} /\ ~Busy(Deprovisions))
    => record # None /\ record.row = cluster.owner

\* The record of a shared instance has a database, as long as the ID is not used
\* again (broker.go, Deprovision).
RecordedDatabaseExists ==
    (/\ record # None /\ record.plan.shared /\ ~Busy(Deprovisions)
     /\ OneLife)
    => database

\* However many updates an instance has gone through, an Update asks AWS to modify
\* it only within its kind, although no Update is recorded: CanUpdate compares with
\* the plan of the Provision each time (broker_helpers.go, CanUpdate).
UpdatesKeepKind ==
    \A m \in Updates :
        (step[m] # "idle" /\ rds # None /\ rds.owner = seen[m].row)
        => Kind(wanted[m]) = Kind(rds.plan)

\* The final snapshot is the one the plan asked for at creation wants, and only
\* one resource of the pair makes it, unless another Provision of the ID has
\* succeeded or is under way (broker.go, Deprovision and the rollback of Provision).
SnapshotAsProvisioned ==
    /\ rds # None /\ rds.status = "deleting" /\ OwnLife(rds.owner) =>
          rds.snapshot = ~SkipInstanceSnapshot(order[rds.owner])
    /\ cluster # None /\ cluster.deleting /\ OwnLife(cluster.owner) =>
          cluster.snapshot = ~order[cluster.owner].skipFinalSnapshot

\* How far the instance of Provision p has got, in the terms of Lifecycle.
Exists(p) == IF record.plan.shared THEN database ELSE rds # None /\ rds.owner = p

Life(p) ==
    IF record # None /\ record.row = p
    THEN IF ~Exists(p) THEN "left"
         ELSE IF ~record.plan.shared /\ rds.status = "deleting" THEN "leaving" ELSE "kept"
    ELSE IF prov[p] = "ok" THEN "gone" ELSE "new"

lives == [p \in Provisions |-> Life(p)]

Lives == INSTANCE Lifecycle WITH Request <- Provisions, life <- lives

\* The instances of an ID take turns, and each goes through its life in order: known
\* to the broker first, then removed, then forgotten, whatever fails, dies, is late or
\* is sent twice (broker.go, Provision, Deprovision and LastOperation).
KeepsLifecycle == Lives!Spec

\* Once Deprovision was accepted, the record, the RDS instance and the cluster
\* are eventually gone, given that the platform polls (broker.go, Deprovision
\* and LastOperation).
DeprovisionCompletes ==
    \A p \in Provisions :
        p \in accepted ~>
            /\ record # None => record.row # p
            /\ rds # None => rds.owner # p
            /\ cluster # None => cluster.owner # p
=============================================================================
