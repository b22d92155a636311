------------------------- MODULE ProvisioningProofs -------------------------
(***************************************************************************)
(* Theorems of Provisioning, for any plans and any number of requests: the *)
(* type invariant, that the record's master user is the database's, that   *)
(* no RDS instance, cluster or database is left without its record or the  *)
(* other way round, that updates keep to the kind of the instance,         *)
(* which plan the final snapshot follows, and that the handlers implement  *)
(* Lifecycle.                                                              *)
(***************************************************************************)
EXTENDS Provisioning, TLAPS

USE PlanAssumption, HandlerAssumption
    DEF ProvisionSteps, HandlerSteps, Handlers

-----------------------------------------------------------------------------
(* Type correctness.                                                       *)

\* A running request has been asked for a plan and has loaded a record.
Asked ==
    /\ \A p \in Provisions : prov[p] \in ProvisionSteps => order[p] \in Plans
    /\ \A h \in Handlers : step[h] # "idle" => seen[h] \in Record
    /\ \A h \in Handlers :
          step[h] \in {"modifyCluster", "modifyInstance"} => wanted[h] \in Plans

TypeInv == TypeOK /\ Asked

\* The typed invariant holds initially.
LEMMA TypeInvInit == Init => TypeInv
BY DEF Init, TypeInv, TypeOK, Asked

\* Every step preserves it.
LEMMA TypeInvNext == TypeInv /\ [Next]_vars => TypeInv'
<1> SUFFICES ASSUME TypeInv, [Next]_vars
             PROVE  TypeInv'
    OBVIOUS
<1> USE DEF TypeInv, TypeOK, Asked, Record, Rds, Cluster, aws, stores, provisioning, handlers
<1>1. ASSUME NEW p \in Provisions, NEW plan \in Plans, ProvisionStart(p, plan)
      PROVE  TypeInv'
  BY <1>1 DEF ProvisionStart, FirstStep
<1>2. ASSUME NEW p \in Provisions, ProvisionExists(p)
      PROVE  TypeInv'
  BY <1>2 DEF ProvisionExists
<1>3. ASSUME NEW p \in Provisions, ProvisionCreateDB(p)
      PROVE  TypeInv'
  BY <1>3 DEF ProvisionCreateDB
<1>4. ASSUME NEW p \in Provisions, ProvisionCreateCluster(p)
      PROVE  TypeInv'
  BY <1>4 DEF ProvisionCreateCluster
<1>5. ASSUME NEW p \in Provisions, ProvisionCreateInstance(p)
      PROVE  TypeInv'
  BY <1>5 DEF ProvisionCreateInstance, CanCreateInstance
<1>6. ASSUME NEW p \in Provisions, ProvisionCreateRefused(p)
      PROVE  TypeInv'
  BY <1>6 DEF ProvisionCreateRefused, AfterError
<1>7. ASSUME NEW p \in Provisions, ProvisionSave(p)
      PROVE  TypeInv'
  BY <1>7 DEF ProvisionSave
<1>8. ASSUME NEW p \in Provisions, ProvisionSaveRefused(p)
      PROVE  TypeInv'
  BY <1>8 DEF ProvisionSaveRefused, AfterError
<1>9. ASSUME NEW p \in Provisions, ProvisionRollback(p)
      PROVE  TypeInv'
  BY <1>9 DEF ProvisionRollback, Deletable, DeletedCluster
<1>10. ASSUME NEW p \in Provisions, ProvisionDie(p)
       PROVE  TypeInv'
  BY <1>10 DEF ProvisionDie, Provisioning
<1>11. ASSUME NEW h \in Deprovisions, DeprovisionFind(h)
       PROVE  TypeInv'
  BY <1>11 DEF DeprovisionFind, Load
<1>12. ASSUME NEW h \in Handlers, DeprovisionDropDB(h)
       PROVE  TypeInv'
  BY <1>12 DEF DeprovisionDropDB, Goto
<1>13. ASSUME NEW h \in Handlers, DeprovisionDropDBError(h)
       PROVE  TypeInv'
  BY <1>13 DEF DeprovisionDropDBError, Answer
<1>14. ASSUME NEW h \in Handlers, DeprovisionForget(h)
       PROVE  TypeInv'
  BY <1>14 DEF DeprovisionForget, ForgetRow, Answer
<1>15. ASSUME NEW h \in Handlers, DeprovisionDeleteInstance(h)
       PROVE  TypeInv'
  <2>1. (~SkipInstanceSnapshot(seen[h].plan)) \in BOOLEAN
    BY DEF SkipInstanceSnapshot
  <2>2. rds \in Rds
    BY <1>15 DEF DeprovisionDeleteInstance, CanDeleteInstance
  <2>3. rds' \in Rds
    BY <1>15, <2>1, <2>2 DEF DeprovisionDeleteInstance
  <2>4. QED
    BY <1>15, <2>3 DEF DeprovisionDeleteInstance, Goto, Answer
<1>16. ASSUME NEW h \in Handlers, DeprovisionDeleteRefused(h)
       PROVE  TypeInv'
  BY <1>16 DEF DeprovisionDeleteRefused, Answer
<1>17. ASSUME NEW h \in Handlers, DeprovisionDeleteCluster(h)
       PROVE  TypeInv'
  BY <1>17 DEF DeprovisionDeleteCluster, Deletable, DeletedCluster, Answer
<1>18. ASSUME NEW h \in Polls, LastOperationFind(h)
       PROVE  TypeInv'
  BY <1>18 DEF LastOperationFind, Load
<1>19. ASSUME NEW h \in Handlers, LastOperationGone(h)
       PROVE  TypeInv'
  BY <1>19 DEF LastOperationGone, Goto
<1>20. ASSUME NEW h \in Handlers, LastOperationReport(h)
       PROVE  TypeInv'
  BY <1>20 DEF LastOperationReport, Answer
<1>21. ASSUME NEW h \in Handlers, LastOperationForget(h)
       PROVE  TypeInv'
  BY <1>21 DEF LastOperationForget, ForgetRow, Answer
<1>22. ASSUME NEW h \in Updates, NEW plan \in Plans, UpdateFind(h, plan)
       PROVE  TypeInv'
  BY <1>22 DEF UpdateFind, Load
<1>23. ASSUME NEW h \in Handlers, UpdateCluster(h)
       PROVE  TypeInv'
  BY <1>23 DEF UpdateCluster, CanModifyCluster, Goto
<1>24. ASSUME NEW h \in Handlers, UpdateInstance(h)
       PROVE  TypeInv'
  BY <1>24 DEF UpdateInstance, CanModifyInstance, Answer
<1>25. ASSUME NEW h \in Handlers, UpdateRefused(h)
       PROVE  TypeInv'
  BY <1>25 DEF UpdateRefused, Answer
<1>26. ASSUME NEW h \in Handlers, HandlerDie(h)
       PROVE  TypeInv'
  BY <1>26 DEF HandlerDie, Answer
<1>27. CASE InstanceReady
  BY <1>27 DEF InstanceReady
<1>28. CASE InstanceGone
  BY <1>28 DEF InstanceGone
<1>29. CASE ClusterGone
  BY <1>29 DEF ClusterGone
<1>30. CASE UNCHANGED vars
  BY <1>30 DEF vars
<1>31. ASSUME NEW h \in Handlers, UpdateClusterUntagged(h)
       PROVE  TypeInv'
  BY <1>31 DEF UpdateClusterUntagged, CanModifyCluster, Answer
<1>32. QED
  BY <1>1, <1>2, <1>3, <1>4, <1>5, <1>6, <1>7, <1>8, <1>9, <1>10, <1>11, <1>12,
     <1>13, <1>14, <1>15, <1>16, <1>17, <1>18, <1>19, <1>20, <1>21, <1>22, <1>23,
     <1>24, <1>25, <1>26, <1>27, <1>28, <1>29, <1>30, <1>31
  DEF Next, ProvisionStep, HandlerStep, Aws

\* Every variable keeps its type (broker.go, Provision, Update, Deprovision and
\* LastOperation).
THEOREM TypeCorrect == Spec => []TypeOK
<1>1. TypeInv => TypeOK
  BY DEF TypeInv
<1>2. QED
  BY TypeInvInit, TypeInvNext, <1>1, PTL DEF Spec

-----------------------------------------------------------------------------
(* The master user.                                                        *)

Active(p) == prov[p] \in ProvisionSteps

\* One Provision runs at a time, and only while there is no record.
Alone ==
    \A p \in Provisions : Active(p) =>
        /\ record = None
        /\ \A q \in Provisions : Active(q) => q = p

\* What a Provision is about to record is its own.
Own(p, plan) ==
    /\ rds # None => rds.owner = p
    /\ IsAurora(plan) /\ cluster # None => cluster.owner = p

Creates ==
    \A p \in Provisions :
        /\ prov[p] = "save" /\ ~order[p].shared => Own(p, order[p])
        /\ prov[p] = "createInstance" /\ IsAurora(order[p]) /\ cluster # None =>
              cluster.owner = p
        /\ prov[p] \in {"createCluster", "createInstance"} => ~order[p].shared
        /\ prov[p] = "createCluster" => IsAurora(order[p])
        /\ prov[p] = "createDB" => order[p].shared

MasterInv ==
    /\ TypeInv
    /\ Alone
    /\ Creates
    /\ MasterCredentialsMatch

\* The invariant of the master user holds initially.
LEMMA MasterInvInit == Init => MasterInv
<1>1. Init => TypeInv
  BY TypeInvInit
<1>2. QED
  BY <1>1 DEF Init, MasterInv, Alone, Active, Creates, MasterCredentialsMatch

\* Every step preserves it when Provisions come one at a time.
LEMMA MasterInvNext ==
    ASSUME OneProvision, MasterInv, [Next]_vars
    PROVE  MasterInv'
<1> DEFINE Rest == Alone /\ Creates /\ MasterCredentialsMatch
<1>0. TypeInv'
  BY TypeInvNext DEF MasterInv
<1> USE DEF MasterInv, TypeInv, TypeOK, Asked, Alone, Active, Creates, Own, IsAurora,
            MasterCredentialsMatch, Provisioning, Record, Rds, Cluster, Plan,
            aws, stores, provisioning, handlers
<1>1. ASSUME NEW p \in Provisions, NEW plan \in Plans, ProvisionStart(p, plan)
      PROVE  Rest'
  BY <1>1, <1>0 DEF ProvisionStart, FirstStep
<1>2. ASSUME NEW p \in Provisions, ProvisionExists(p)
      PROVE  Rest'
  BY <1>2, <1>0 DEF ProvisionExists
<1>3. ASSUME NEW p \in Provisions, ProvisionCreateDB(p)
      PROVE  Rest'
  BY <1>3, <1>0 DEF ProvisionCreateDB
<1>4. ASSUME NEW p \in Provisions, ProvisionCreateCluster(p)
      PROVE  Rest'
  BY <1>4, <1>0 DEF ProvisionCreateCluster
<1>5. ASSUME NEW p \in Provisions, ProvisionCreateInstance(p)
      PROVE  Rest'
  BY <1>5, <1>0 DEF ProvisionCreateInstance, CanCreateInstance
<1>6. ASSUME NEW p \in Provisions, ProvisionCreateRefused(p)
      PROVE  Rest'
  BY <1>6, <1>0 DEF ProvisionCreateRefused, AfterError
<1>7. ASSUME NEW p \in Provisions, ProvisionSave(p)
      PROVE  Rest'
  BY <1>7, <1>0 DEF ProvisionSave
<1>8. ASSUME NEW p \in Provisions, ProvisionSaveRefused(p)
      PROVE  Rest'
  BY <1>8, <1>0 DEF ProvisionSaveRefused, AfterError
<1>9. ASSUME NEW p \in Provisions, ProvisionRollback(p)
      PROVE  Rest'
  BY <1>9, <1>0 DEF ProvisionRollback, Deletable, DeletedCluster
<1>10. ASSUME NEW p \in Provisions, ProvisionDie(p)
       PROVE  Rest'
  BY <1>10, <1>0 DEF ProvisionDie, Provisioning
<1>11. ASSUME NEW h \in Deprovisions, DeprovisionFind(h)
       PROVE  Rest'
  BY <1>11, <1>0 DEF DeprovisionFind, Load
<1>12. ASSUME NEW h \in Handlers, DeprovisionDropDB(h)
       PROVE  Rest'
  BY <1>12, <1>0 DEF DeprovisionDropDB, Goto
<1>13. ASSUME NEW h \in Handlers, DeprovisionDropDBError(h)
       PROVE  Rest'
  BY <1>13, <1>0 DEF DeprovisionDropDBError, Answer
<1>14. ASSUME NEW h \in Handlers, DeprovisionForget(h)
       PROVE  Rest'
  BY <1>14, <1>0 DEF DeprovisionForget, ForgetRow, Answer
<1>15. ASSUME NEW h \in Handlers, DeprovisionDeleteInstance(h)
       PROVE  Rest'
  BY <1>15, <1>0 DEF DeprovisionDeleteInstance, CanDeleteInstance,
     SkipInstanceSnapshot, IsAurora, Goto, Answer
<1>16. ASSUME NEW h \in Handlers, DeprovisionDeleteRefused(h)
       PROVE  Rest'
  BY <1>16, <1>0 DEF DeprovisionDeleteRefused, Answer
<1>17. ASSUME NEW h \in Handlers, DeprovisionDeleteCluster(h)
       PROVE  Rest'
  BY <1>17, <1>0 DEF DeprovisionDeleteCluster, Deletable, DeletedCluster, Answer
<1>18. ASSUME NEW h \in Polls, LastOperationFind(h)
       PROVE  Rest'
  BY <1>18, <1>0 DEF LastOperationFind, Load
<1>19. ASSUME NEW h \in Handlers, LastOperationGone(h)
       PROVE  Rest'
  BY <1>19, <1>0 DEF LastOperationGone, Goto
<1>20. ASSUME NEW h \in Handlers, LastOperationReport(h)
       PROVE  Rest'
  BY <1>20, <1>0 DEF LastOperationReport, Answer
<1>21. ASSUME NEW h \in Handlers, LastOperationForget(h)
       PROVE  Rest'
  BY <1>21, <1>0 DEF LastOperationForget, ForgetRow, Answer
<1>22. ASSUME NEW h \in Updates, NEW plan \in Plans, UpdateFind(h, plan)
       PROVE  Rest'
  BY <1>22, <1>0 DEF UpdateFind, Load
<1>23. ASSUME NEW h \in Handlers, UpdateCluster(h)
       PROVE  Rest'
  BY <1>23, <1>0 DEF UpdateCluster, CanModifyCluster, Goto
<1>24. ASSUME NEW h \in Handlers, UpdateInstance(h)
       PROVE  Rest'
  BY <1>24, <1>0 DEF UpdateInstance, CanModifyInstance, Answer
<1>25. ASSUME NEW h \in Handlers, UpdateRefused(h)
       PROVE  Rest'
  BY <1>25, <1>0 DEF UpdateRefused, Answer
<1>26. ASSUME NEW h \in Handlers, HandlerDie(h)
       PROVE  Rest'
  BY <1>26, <1>0 DEF HandlerDie, Answer
<1>27. CASE InstanceReady
  BY <1>27, <1>0 DEF InstanceReady
<1>28. CASE InstanceGone
  BY <1>28, <1>0 DEF InstanceGone
<1>29. CASE ClusterGone
  BY <1>29, <1>0 DEF ClusterGone
<1>30. CASE UNCHANGED vars
  BY <1>30, <1>0 DEF vars
<1>31. ASSUME NEW h \in Handlers, UpdateClusterUntagged(h)
       PROVE  Rest'
  BY <1>31, <1>0 DEF UpdateClusterUntagged, CanModifyCluster, Answer
<1>32. QED
  BY <1>0, <1>1, <1>2, <1>3, <1>4, <1>5, <1>6, <1>7, <1>8, <1>9, <1>10, <1>11, <1>12,
     <1>13, <1>14, <1>15, <1>16, <1>17, <1>18, <1>19, <1>20, <1>21, <1>22, <1>23,
     <1>24, <1>25, <1>26, <1>27, <1>28, <1>29, <1>30, <1>31
  DEF Next, ProvisionStep, HandlerStep, Aws

\* Whatever fails, the broker's record holds the master user the database was
\* created with, provided the platform sends one Provision at a time (broker.go,
\* Provision: "There's a potential race condition here").
THEOREM MasterCredentials == ASSUME OneProvision PROVE Spec => []MasterCredentialsMatch
<1>1. MasterInv /\ [Next]_vars => MasterInv'
  BY MasterInvNext
<1>2. MasterInv => MasterCredentialsMatch
  BY DEF MasterInv
<1>3. QED
  BY MasterInvInit, <1>1, <1>2, PTL DEF Spec

-----------------------------------------------------------------------------
(* The record.                                                             *)

\* Rows that were loaded or stored come from a Provision that succeeded.
Stored(r) == prov[r.row] = "ok" /\ r.plan = order[r.row]

RowsStored ==
    /\ record # None => Stored(record)
    /\ \A h \in Handlers : step[h] # "idle" => Stored(seen[h])

\* An RDS instance comes from a Provision of a dedicated plan that got that far.
InstanceOwned ==
    /\ rds # None =>
          prov[rds.owner] \in {"save", "ok"} /\ ~order[rds.owner].shared
    /\ \A p \in Provisions :
          /\ prov[p] \in {"createCluster", "createInstance"} => ~order[p].shared
          /\ prov[p] = "createDB" => order[p].shared

\* A record about to be deleted has no RDS instance any more, or never had one.
ForgetsOnlyGone ==
    \A h \in Handlers :
        /\ step[h] \in {"dropDB", "forget"} => seen[h].plan.shared
        /\ step[h] = "forgetGone" => rds = None \/ rds.owner # seen[h].row

RecordInv ==
    /\ TypeInv
    /\ Alone
    /\ RowsStored
    /\ InstanceOwned
    /\ ForgetsOnlyGone
    /\ InstanceIsRecorded

\* The invariant of the record holds initially.
LEMMA RecordInvInit == Init => RecordInv
<1>1. Init => TypeInv
  BY TypeInvInit
<1>2. QED
  BY <1>1 DEF Init, RecordInv, Alone, Active, RowsStored, InstanceOwned,
              ForgetsOnlyGone, InstanceIsRecorded

\* Every step preserves it when Provisions come one at a time and are saved.
LEMMA RecordInvNext ==
    ASSUME OneProvision, ~Crashes, "save" \notin Failing, RecordInv, [Next]_vars
    PROVE  RecordInv'
<1> DEFINE Rest == Alone /\ RowsStored /\ InstanceOwned /\ ForgetsOnlyGone /\ InstanceIsRecorded
<1>0. TypeInv'
  BY TypeInvNext DEF RecordInv
<1> USE DEF RecordInv, TypeInv, TypeOK, Asked, Alone, Active, RowsStored, Stored,
            InstanceOwned, ForgetsOnlyGone, InstanceIsRecorded, IsAurora,
            Provisioning, Record, Rds, Cluster, Plan, aws, stores, provisioning, handlers
<1>1. ASSUME NEW p \in Provisions, NEW plan \in Plans, ProvisionStart(p, plan)
      PROVE  Rest'
  BY <1>1, <1>0 DEF ProvisionStart, FirstStep
<1>2. ASSUME NEW p \in Provisions, ProvisionExists(p)
      PROVE  Rest'
  BY <1>2, <1>0 DEF ProvisionExists
<1>3. ASSUME NEW p \in Provisions, ProvisionCreateDB(p)
      PROVE  Rest'
  BY <1>3, <1>0 DEF ProvisionCreateDB
<1>4. ASSUME NEW p \in Provisions, ProvisionCreateCluster(p)
      PROVE  Rest'
  BY <1>4, <1>0 DEF ProvisionCreateCluster
<1>5. ASSUME NEW p \in Provisions, ProvisionCreateInstance(p)
      PROVE  Rest'
  BY <1>5, <1>0 DEF ProvisionCreateInstance, CanCreateInstance
<1>6. ASSUME NEW p \in Provisions, ProvisionCreateRefused(p)
      PROVE  Rest'
  BY <1>6, <1>0 DEF ProvisionCreateRefused, AfterError
<1>7. ASSUME NEW p \in Provisions, ProvisionSave(p)
      PROVE  Rest'
  BY <1>7, <1>0 DEF ProvisionSave
<1>8. ASSUME NEW p \in Provisions, ProvisionSaveRefused(p)
      PROVE  Rest'
  BY <1>8, <1>0 DEF ProvisionSaveRefused, AfterError
<1>9. ASSUME NEW p \in Provisions, ProvisionRollback(p)
      PROVE  Rest'
  BY <1>9, <1>0 DEF ProvisionRollback, Deletable, DeletedCluster
<1>10. ASSUME NEW p \in Provisions, ProvisionDie(p)
       PROVE  Rest'
  BY <1>10, <1>0 DEF ProvisionDie, Provisioning
<1>11. ASSUME NEW h \in Deprovisions, DeprovisionFind(h)
       PROVE  Rest'
  BY <1>11, <1>0 DEF DeprovisionFind, Load
<1>12. ASSUME NEW h \in Handlers, DeprovisionDropDB(h)
       PROVE  Rest'
  BY <1>12, <1>0 DEF DeprovisionDropDB, Goto
<1>13. ASSUME NEW h \in Handlers, DeprovisionDropDBError(h)
       PROVE  Rest'
  BY <1>13, <1>0 DEF DeprovisionDropDBError, Answer
<1>14. ASSUME NEW h \in Handlers, DeprovisionForget(h)
       PROVE  Rest'
  BY <1>14, <1>0 DEF DeprovisionForget, ForgetRow, Answer
<1>15. ASSUME NEW h \in Handlers, DeprovisionDeleteInstance(h)
       PROVE  Rest'
  BY <1>15, <1>0 DEF DeprovisionDeleteInstance, CanDeleteInstance,
     SkipInstanceSnapshot, IsAurora, Goto, Answer
<1>16. ASSUME NEW h \in Handlers, DeprovisionDeleteRefused(h)
       PROVE  Rest'
  BY <1>16, <1>0 DEF DeprovisionDeleteRefused, Answer
<1>17. ASSUME NEW h \in Handlers, DeprovisionDeleteCluster(h)
       PROVE  Rest'
  BY <1>17, <1>0 DEF DeprovisionDeleteCluster, Deletable, DeletedCluster, Answer
<1>18. ASSUME NEW h \in Polls, LastOperationFind(h)
       PROVE  Rest'
  BY <1>18, <1>0 DEF LastOperationFind, Load
<1>19. ASSUME NEW h \in Handlers, LastOperationGone(h)
       PROVE  Rest'
  BY <1>19, <1>0 DEF LastOperationGone, Goto
<1>20. ASSUME NEW h \in Handlers, LastOperationReport(h)
       PROVE  Rest'
  BY <1>20, <1>0 DEF LastOperationReport, Answer
<1>21. ASSUME NEW h \in Handlers, LastOperationForget(h)
       PROVE  Rest'
  BY <1>21, <1>0 DEF LastOperationForget, ForgetRow, Answer
<1>22. ASSUME NEW h \in Updates, NEW plan \in Plans, UpdateFind(h, plan)
       PROVE  Rest'
  BY <1>22, <1>0 DEF UpdateFind, Load
<1>23. ASSUME NEW h \in Handlers, UpdateCluster(h)
       PROVE  Rest'
  BY <1>23, <1>0 DEF UpdateCluster, CanModifyCluster, Goto
<1>24. ASSUME NEW h \in Handlers, UpdateInstance(h)
       PROVE  Rest'
  BY <1>24, <1>0 DEF UpdateInstance, CanModifyInstance, Answer
<1>25. ASSUME NEW h \in Handlers, UpdateRefused(h)
       PROVE  Rest'
  BY <1>25, <1>0 DEF UpdateRefused, Answer
<1>26. ASSUME NEW h \in Handlers, HandlerDie(h)
       PROVE  Rest'
  BY <1>26, <1>0 DEF HandlerDie, Answer
<1>27. CASE InstanceReady
  BY <1>27, <1>0 DEF InstanceReady
<1>28. CASE InstanceGone
  BY <1>28, <1>0 DEF InstanceGone
<1>29. CASE ClusterGone
  BY <1>29, <1>0 DEF ClusterGone
<1>30. CASE UNCHANGED vars
  BY <1>30, <1>0 DEF vars
<1>31. ASSUME NEW h \in Handlers, UpdateClusterUntagged(h)
       PROVE  Rest'
  BY <1>31, <1>0 DEF UpdateClusterUntagged, CanModifyCluster, Answer
<1>32. QED
  BY <1>0, <1>1, <1>2, <1>3, <1>4, <1>5, <1>6, <1>7, <1>8, <1>9, <1>10, <1>11, <1>12,
     <1>13, <1>14, <1>15, <1>16, <1>17, <1>18, <1>19, <1>20, <1>21, <1>22, <1>23,
     <1>24, <1>25, <1>26, <1>27, <1>28, <1>29, <1>30, <1>31
  DEF Next, ProvisionStep, HandlerStep, Aws

\* An RDS instance that is not being deleted has its record, whatever else fails
\* and however late a Deprovision or LastOperation deletes the row it loaded: rows
\* go by primary key, not by instance ID (broker.go and models.go, Delete).
THEOREM InstanceRecorded ==
    ASSUME OneProvision, ~Crashes, "save" \notin Failing
    PROVE  Spec => []InstanceIsRecorded
<1>1. RecordInv /\ [Next]_vars => RecordInv'
  BY RecordInvNext
<1>2. RecordInv => InstanceIsRecorded
  BY DEF RecordInv
<1>3. QED
  BY RecordInvInit, <1>1, <1>2, PTL DEF Spec

-----------------------------------------------------------------------------
(* Kinds of plans.                                                         *)

\* An Update stays within the kind of the plan it found recorded, and so does what
\* RDS has of the instance, which came from the same order.
WithinKind ==
    /\ \A m \in Handlers :
          step[m] \in {"modifyCluster", "modifyInstance"} => m \in Updates
    /\ \A m \in Updates : step[m] # "idle" =>
          Kind(wanted[m]) = Kind(seen[m].plan) /\ ~wanted[m].shared
    /\ \A p \in Provisions :
          prov[p] \in {"createCluster", "createInstance"} => ~order[p].shared
    /\ rds # None =>
          /\ prov[rds.owner] # "idle"
          /\ Kind(rds.plan) = Kind(order[rds.owner])
          /\ ~rds.plan.shared

KindInv ==
    /\ TypeInv
    /\ RowsStored
    /\ WithinKind

\* The invariant of the kinds holds initially.
LEMMA KindInvInit == Init => KindInv
<1>1. Init => TypeInv
  BY TypeInvInit
<1>2. QED
  BY <1>1 DEF Init, KindInv, RowsStored, WithinKind

\* Every step preserves it.
LEMMA KindInvNext ==
    ASSUME KindInv, [Next]_vars
    PROVE  KindInv'
<1> DEFINE Rest == RowsStored /\ WithinKind
<1>0. TypeInv'
  BY TypeInvNext DEF KindInv
<1> USE DEF KindInv, RowsStored, Stored, WithinKind, Kind, IsAurora, Provisioning,
            TypeInv, TypeOK, Asked, Record, Rds, Cluster, Plan, aws, stores, provisioning, handlers
<1>1. ASSUME NEW p \in Provisions, NEW plan \in Plans, ProvisionStart(p, plan)
      PROVE  Rest'
  BY <1>1, <1>0 DEF ProvisionStart, FirstStep
<1>2. ASSUME NEW p \in Provisions, ProvisionExists(p)
      PROVE  Rest'
  BY <1>2, <1>0 DEF ProvisionExists
<1>3. ASSUME NEW p \in Provisions, ProvisionCreateDB(p)
      PROVE  Rest'
  BY <1>3, <1>0 DEF ProvisionCreateDB
<1>4. ASSUME NEW p \in Provisions, ProvisionCreateCluster(p)
      PROVE  Rest'
  BY <1>4, <1>0 DEF ProvisionCreateCluster
<1>5. ASSUME NEW p \in Provisions, ProvisionCreateInstance(p)
      PROVE  Rest'
  BY <1>5, <1>0 DEF ProvisionCreateInstance, CanCreateInstance
<1>6. ASSUME NEW p \in Provisions, ProvisionCreateRefused(p)
      PROVE  Rest'
  BY <1>6, <1>0 DEF ProvisionCreateRefused, AfterError
<1>7. ASSUME NEW p \in Provisions, ProvisionSave(p)
      PROVE  Rest'
  BY <1>7, <1>0 DEF ProvisionSave
<1>8. ASSUME NEW p \in Provisions, ProvisionSaveRefused(p)
      PROVE  Rest'
  BY <1>8, <1>0 DEF ProvisionSaveRefused, AfterError
<1>9. ASSUME NEW p \in Provisions, ProvisionRollback(p)
      PROVE  Rest'
  BY <1>9, <1>0 DEF ProvisionRollback, Deletable, DeletedCluster
<1>10. ASSUME NEW p \in Provisions, ProvisionDie(p)
       PROVE  Rest'
  BY <1>10, <1>0 DEF ProvisionDie, Provisioning
<1>11. ASSUME NEW h \in Deprovisions, DeprovisionFind(h)
       PROVE  Rest'
  BY <1>11, <1>0 DEF DeprovisionFind, Load
<1>12. ASSUME NEW h \in Handlers, DeprovisionDropDB(h)
       PROVE  Rest'
  BY <1>12, <1>0 DEF DeprovisionDropDB, Goto
<1>13. ASSUME NEW h \in Handlers, DeprovisionDropDBError(h)
       PROVE  Rest'
  BY <1>13, <1>0 DEF DeprovisionDropDBError, Answer
<1>14. ASSUME NEW h \in Handlers, DeprovisionForget(h)
       PROVE  Rest'
  BY <1>14, <1>0 DEF DeprovisionForget, ForgetRow, Answer
<1>15. ASSUME NEW h \in Handlers, DeprovisionDeleteInstance(h)
       PROVE  Rest'
  BY <1>15, <1>0 DEF DeprovisionDeleteInstance, CanDeleteInstance, Goto, Answer
<1>16. ASSUME NEW h \in Handlers, DeprovisionDeleteRefused(h)
       PROVE  Rest'
  BY <1>16, <1>0 DEF DeprovisionDeleteRefused, Answer
<1>17. ASSUME NEW h \in Handlers, DeprovisionDeleteCluster(h)
       PROVE  Rest'
  BY <1>17, <1>0 DEF DeprovisionDeleteCluster, Deletable, DeletedCluster, Answer
<1>18. ASSUME NEW h \in Polls, LastOperationFind(h)
       PROVE  Rest'
  BY <1>18, <1>0 DEF LastOperationFind, Load
<1>19. ASSUME NEW h \in Handlers, LastOperationGone(h)
       PROVE  Rest'
  BY <1>19, <1>0 DEF LastOperationGone, Goto
<1>20. ASSUME NEW h \in Handlers, LastOperationReport(h)
       PROVE  Rest'
  BY <1>20, <1>0 DEF LastOperationReport, Answer
<1>21. ASSUME NEW h \in Handlers, LastOperationForget(h)
       PROVE  Rest'
  BY <1>21, <1>0 DEF LastOperationForget, ForgetRow, Answer
<1>22. ASSUME NEW h \in Updates, NEW plan \in Plans, UpdateFind(h, plan)
       PROVE  Rest'
  BY <1>22, <1>0 DEF UpdateFind, Load, CanUpdate
<1>23. ASSUME NEW h \in Handlers, UpdateCluster(h)
       PROVE  Rest'
  BY <1>23, <1>0 DEF UpdateCluster, CanModifyCluster, Goto
<1>24. ASSUME NEW h \in Handlers, UpdateClusterUntagged(h)
       PROVE  Rest'
  BY <1>24, <1>0 DEF UpdateClusterUntagged, CanModifyCluster, Answer
<1>25. ASSUME NEW h \in Handlers, UpdateInstance(h)
       PROVE  Rest'
  BY <1>25, <1>0 DEF UpdateInstance, CanModifyInstance, Answer
<1>26. ASSUME NEW h \in Handlers, UpdateRefused(h)
       PROVE  Rest'
  BY <1>26, <1>0 DEF UpdateRefused, Answer
<1>27. ASSUME NEW h \in Handlers, HandlerDie(h)
       PROVE  Rest'
  BY <1>27, <1>0 DEF HandlerDie, Answer
<1>28. CASE InstanceReady
  BY <1>28, <1>0 DEF InstanceReady
<1>29. CASE InstanceGone
  BY <1>29, <1>0 DEF InstanceGone
<1>30. CASE ClusterGone
  BY <1>30, <1>0 DEF ClusterGone
<1>31. CASE UNCHANGED vars
  BY <1>31, <1>0 DEF vars
<1>32. QED
  BY <1>0, <1>1, <1>2, <1>3, <1>4, <1>5, <1>6, <1>7, <1>8, <1>9, <1>10, <1>11, <1>12, <1>13, <1>14, <1>15, <1>16, <1>17, <1>18, <1>19, <1>20, <1>21, <1>22, <1>23, <1>24, <1>25, <1>26, <1>27, <1>28, <1>29, <1>30, <1>31
  DEF Next, ProvisionStep, HandlerStep, Aws

\* Whatever Updates went before, overlap or failed half way, an Update asks RDS for a
\* plan of the same engine and never for a shared one (broker_helpers.go, CanUpdate,
\* which compares with a plan that is never brought up to date).
THEOREM KindsAreKept == Spec => []UpdatesKeepKind
<1>1. KindInv /\ [Next]_vars => KindInv'
  BY KindInvNext
<1>2. KindInv => UpdatesKeepKind
  BY DEF KindInv, TypeInv, TypeOK, Asked, RowsStored, Stored, WithinKind, UpdatesKeepKind
<1>3. QED
  BY KindInvInit, <1>1, <1>2, PTL DEF Spec

-----------------------------------------------------------------------------
(* The database of a shared instance.                                      *)

\* Only a Deprovision drops a database, and it has loaded the record; the first
\* Provision to succeed records a database that nobody has dropped yet.
DatabaseKept ==
    /\ \A h \in Handlers : step[h] \in {"dropDB", "forget"} => h \in Deprovisions
    /\ \A p \in Provisions :
          (/\ prov[p] = "save" /\ order[p].shared
           /\ \A q \in Provisions : prov[q] # "ok")
          => database
    /\ (/\ record # None /\ record.plan.shared
        /\ \A q \in Provisions : prov[q] = "ok" => q = record.row)
       => database \/ \E h \in Handlers : step[h] = "forget"

DedicatedSteps ==
    \A p \in Provisions :
        prov[p] \in {"createCluster", "createInstance"} => ~order[p].shared

DatabaseInv ==
    /\ TypeInv
    /\ RowsStored
    /\ DatabaseKept
    /\ DedicatedSteps

\* The invariant of the database holds initially.
LEMMA DatabaseInvInit == Init => DatabaseInv
<1>1. Init => TypeInv
  BY TypeInvInit
<1>2. QED
  BY <1>1 DEF Init, DatabaseInv, RowsStored, DatabaseKept, DedicatedSteps

\* Every step preserves it when a dropped database takes its record with it.
LEMMA DatabaseInvNext ==
    ASSUME ~Crashes, "deleteRecord" \notin Failing, DatabaseInv, [Next]_vars
    PROVE  DatabaseInv'
<1> DEFINE Rest == RowsStored /\ DatabaseKept /\ DedicatedSteps
<1>0. TypeInv'
  BY TypeInvNext DEF DatabaseInv
<1> USE DEF DatabaseInv, RowsStored, Stored, DatabaseKept, DedicatedSteps, IsAurora, Provisioning,
            TypeInv, TypeOK, Asked, Record, Rds, Cluster, Plan, aws, stores, provisioning, handlers
<1>1. ASSUME NEW p \in Provisions, NEW plan \in Plans, ProvisionStart(p, plan)
      PROVE  Rest'
  BY <1>1, <1>0 DEF ProvisionStart, FirstStep
<1>2. ASSUME NEW p \in Provisions, ProvisionExists(p)
      PROVE  Rest'
  BY <1>2, <1>0 DEF ProvisionExists
<1>3. ASSUME NEW p \in Provisions, ProvisionCreateDB(p)
      PROVE  Rest'
  BY <1>3, <1>0 DEF ProvisionCreateDB
<1>4. ASSUME NEW p \in Provisions, ProvisionCreateCluster(p)
      PROVE  Rest'
  BY <1>4, <1>0 DEF ProvisionCreateCluster
<1>5. ASSUME NEW p \in Provisions, ProvisionCreateInstance(p)
      PROVE  Rest'
  BY <1>5, <1>0 DEF ProvisionCreateInstance, CanCreateInstance
<1>6. ASSUME NEW p \in Provisions, ProvisionCreateRefused(p)
      PROVE  Rest'
  BY <1>6, <1>0 DEF ProvisionCreateRefused, AfterError
<1>7. ASSUME NEW p \in Provisions, ProvisionSave(p)
      PROVE  Rest'
  BY <1>7, <1>0 DEF ProvisionSave
<1>8. ASSUME NEW p \in Provisions, ProvisionSaveRefused(p)
      PROVE  Rest'
  BY <1>8, <1>0 DEF ProvisionSaveRefused, AfterError
<1>9. ASSUME NEW p \in Provisions, ProvisionRollback(p)
      PROVE  Rest'
  BY <1>9, <1>0 DEF ProvisionRollback, Deletable, DeletedCluster
<1>10. ASSUME NEW p \in Provisions, ProvisionDie(p)
       PROVE  Rest'
  BY <1>10, <1>0 DEF ProvisionDie, Provisioning
<1>11. ASSUME NEW h \in Deprovisions, DeprovisionFind(h)
       PROVE  Rest'
  BY <1>11, <1>0 DEF DeprovisionFind, Load
<1>12. ASSUME NEW h \in Handlers, DeprovisionDropDB(h)
       PROVE  Rest'
  BY <1>12, <1>0 DEF DeprovisionDropDB, Goto
<1>13. ASSUME NEW h \in Handlers, DeprovisionDropDBError(h)
       PROVE  Rest'
  BY <1>13, <1>0 DEF DeprovisionDropDBError, Answer
<1>14. ASSUME NEW h \in Handlers, DeprovisionForget(h)
       PROVE  Rest'
  BY <1>14, <1>0 DEF DeprovisionForget, ForgetRow, Answer
<1>15. ASSUME NEW h \in Handlers, DeprovisionDeleteInstance(h)
       PROVE  Rest'
  BY <1>15, <1>0 DEF DeprovisionDeleteInstance, CanDeleteInstance, Goto, Answer
<1>16. ASSUME NEW h \in Handlers, DeprovisionDeleteRefused(h)
       PROVE  Rest'
  BY <1>16, <1>0 DEF DeprovisionDeleteRefused, Answer
<1>17. ASSUME NEW h \in Handlers, DeprovisionDeleteCluster(h)
       PROVE  Rest'
  BY <1>17, <1>0 DEF DeprovisionDeleteCluster, Deletable, DeletedCluster, Answer
<1>18. ASSUME NEW h \in Polls, LastOperationFind(h)
       PROVE  Rest'
  BY <1>18, <1>0 DEF LastOperationFind, Load
<1>19. ASSUME NEW h \in Handlers, LastOperationGone(h)
       PROVE  Rest'
  BY <1>19, <1>0 DEF LastOperationGone, Goto
<1>20. ASSUME NEW h \in Handlers, LastOperationReport(h)
       PROVE  Rest'
  BY <1>20, <1>0 DEF LastOperationReport, Answer
<1>21. ASSUME NEW h \in Handlers, LastOperationForget(h)
       PROVE  Rest'
  BY <1>21, <1>0 DEF LastOperationForget, ForgetRow, Answer
<1>22. ASSUME NEW h \in Updates, NEW plan \in Plans, UpdateFind(h, plan)
       PROVE  Rest'
  BY <1>22, <1>0 DEF UpdateFind, Load, CanUpdate
<1>23. ASSUME NEW h \in Handlers, UpdateCluster(h)
       PROVE  Rest'
  BY <1>23, <1>0 DEF UpdateCluster, CanModifyCluster, Goto
<1>24. ASSUME NEW h \in Handlers, UpdateClusterUntagged(h)
       PROVE  Rest'
  BY <1>24, <1>0 DEF UpdateClusterUntagged, CanModifyCluster, Answer
<1>25. ASSUME NEW h \in Handlers, UpdateInstance(h)
       PROVE  Rest'
  BY <1>25, <1>0 DEF UpdateInstance, CanModifyInstance, Answer
<1>26. ASSUME NEW h \in Handlers, UpdateRefused(h)
       PROVE  Rest'
  BY <1>26, <1>0 DEF UpdateRefused, Answer
<1>27. ASSUME NEW h \in Handlers, HandlerDie(h)
       PROVE  Rest'
  BY <1>27, <1>0 DEF HandlerDie, Answer
<1>28. CASE InstanceReady
  BY <1>28, <1>0 DEF InstanceReady
<1>29. CASE InstanceGone
  BY <1>29, <1>0 DEF InstanceGone
<1>30. CASE ClusterGone
  BY <1>30, <1>0 DEF ClusterGone
<1>31. CASE UNCHANGED vars
  BY <1>31, <1>0 DEF vars
<1>32. QED
  BY <1>0, <1>1, <1>2, <1>3, <1>4, <1>5, <1>6, <1>7, <1>8, <1>9, <1>10, <1>11, <1>12, <1>13, <1>14, <1>15, <1>16, <1>17, <1>18, <1>19, <1>20, <1>21, <1>22, <1>23, <1>24, <1>25, <1>26, <1>27, <1>28, <1>29, <1>30, <1>31
  DEF Next, ProvisionStep, HandlerStep, Aws

\* However Deprovisions overlap, fail or come late, the record of a shared instance
\* has its database, if no handler dies and rows can be deleted (broker.go,
\* Deprovision: the database goes first).
THEOREM DatabaseOfRecordExists ==
    ASSUME ~Crashes, "deleteRecord" \notin Failing
    PROVE  Spec => []RecordedDatabaseExists
<1>1. DatabaseInv /\ [Next]_vars => DatabaseInv'
  BY DatabaseInvNext
<1>2. DatabaseInv => RecordedDatabaseExists
  <2> SUFFICES ASSUME DatabaseInv, record # None, record.plan.shared,
                      ~Busy(Deprovisions), OneLife
               PROVE  database
    BY DEF RecordedDatabaseExists
  <2>1. \A q \in Provisions : prov[q] = "ok" => q = record.row
    BY DEF DatabaseInv, TypeInv, TypeOK, Record, RowsStored, Stored, OneLife
  <2>2. \A h \in Handlers : step[h] # "forget"
    BY DEF DatabaseInv, DatabaseKept, Busy
  <2>3. QED
    BY <2>1, <2>2 DEF DatabaseInv, DatabaseKept
<1>3. QED
  BY DatabaseInvInit, <1>1, <1>2, PTL DEF Spec

-----------------------------------------------------------------------------
(* Final snapshots.                                                        *)

\* Another Provision of the ID has succeeded, for good.
Succeeded(p) == \E q \in Provisions : q # p /\ prov[q] = "ok"

InstanceSnapshot ==
    rds # None =>
        /\ prov[rds.owner] # "idle"
        /\ rds.status = "deleting" =>
              \/ rds.snapshot = ~SkipInstanceSnapshot(order[rds.owner])
              \/ Succeeded(rds.owner)

ClusterSnapshot ==
    cluster # None =>
        /\ prov[cluster.owner] # "idle"
        /\ cluster.deleting =>
              \/ cluster.snapshot = ~order[cluster.owner].skipFinalSnapshot
              \/ Succeeded(cluster.owner)

\* A Provision that guards a cluster finds its own, or another Provision of the ID has
\* succeeded: nobody else can have had the guarded cluster deleted.
OwnCluster ==
    \A p \in Provisions :
        /\ prov[p] = "rollback" => IsAurora(order[p])
        /\ prov[p] = "createDB" => order[p].shared
        /\ prov[p] \in {"createInstance", "save", "rollback"} /\ IsAurora(order[p]) =>
              \/ cluster # None /\ cluster.owner = p /\ ~cluster.deleting
              \/ /\ Succeeded(p)
                 /\ cluster # None => Succeeded(cluster.owner)

SnapshotInv ==
    /\ TypeInv
    /\ RowsStored
    /\ InstanceSnapshot
    /\ ClusterSnapshot
    /\ OwnCluster

\* The invariant of the snapshots holds initially.
LEMMA SnapshotInvInit == Init => SnapshotInv
<1>1. Init => TypeInv
  BY TypeInvInit
<1>2. QED
  BY <1>1 DEF Init, SnapshotInv, RowsStored, InstanceSnapshot, ClusterSnapshot,
              OwnCluster

\* Every step preserves it, however many Provisions of the ID overlap.
LEMMA SnapshotInvNext ==
    ASSUME SnapshotInv, [Next]_vars
    PROVE  SnapshotInv'
<1> DEFINE Rest == RowsStored /\ InstanceSnapshot /\ ClusterSnapshot /\ OwnCluster
<1>0. TypeInv'
  BY TypeInvNext DEF SnapshotInv
<1> USE DEF SnapshotInv, RowsStored, Stored, InstanceSnapshot, ClusterSnapshot,
            OwnCluster, Succeeded, SkipInstanceSnapshot, IsAurora, Provisioning,
            TypeInv, TypeOK, Asked, Record, Rds, Cluster, Plan, aws, stores, provisioning, handlers
<1>1. ASSUME NEW p \in Provisions, NEW plan \in Plans, ProvisionStart(p, plan)
      PROVE  Rest'
  BY <1>1, <1>0 DEF ProvisionStart, FirstStep
<1>2. ASSUME NEW p \in Provisions, ProvisionExists(p)
      PROVE  Rest'
  BY <1>2, <1>0 DEF ProvisionExists
<1>3. ASSUME NEW p \in Provisions, ProvisionCreateDB(p)
      PROVE  Rest'
  BY <1>3, <1>0 DEF ProvisionCreateDB
<1>4. ASSUME NEW p \in Provisions, ProvisionCreateCluster(p)
      PROVE  Rest'
  <2>1. /\ prov[p] = "createCluster" /\ cluster = None
        /\ cluster' = [owner |-> p, plan |-> order[p], snapshot |-> FALSE, deleting |-> FALSE]
        /\ prov' = [prov EXCEPT ![p] = "createInstance"]
        /\ UNCHANGED <<record, rds, order, step, seen>>
    BY <1>4 DEF ProvisionCreateCluster
  <2>2. cluster' # None /\ cluster'.owner = p /\ ~cluster'.deleting
    <3>1. order[p] \in Plans /\ FALSE \in BOOLEAN
      BY <2>1
    <3>2. cluster' \in Cluster
      BY <2>1, <3>1
    <3>3. QED
      BY <2>1, <3>2 DEF PlanAssumption
  <2>3. OwnCluster'
    <3>1. ASSUME NEW q \in Provisions \ {p},
                 prov[q] \in {"createInstance", "save", "rollback"}, IsAurora(order[q])
          PROVE  Succeeded(q)' /\ Succeeded(p)'
      BY <2>1, <3>1
    <3>2. QED
      BY <2>1, <2>2, <3>1
  <2>4. QED
    BY <2>1, <2>2, <2>3
<1>5. ASSUME NEW p \in Provisions, ProvisionCreateInstance(p)
      PROVE  Rest'
  BY <1>5, <1>0 DEF ProvisionCreateInstance, CanCreateInstance
<1>6. ASSUME NEW p \in Provisions, ProvisionCreateRefused(p)
      PROVE  Rest'
  BY <1>6, <1>0 DEF ProvisionCreateRefused, AfterError
<1>7. ASSUME NEW p \in Provisions, ProvisionSave(p)
      PROVE  Rest'
  BY <1>7, <1>0 DEF ProvisionSave
<1>8. ASSUME NEW p \in Provisions, ProvisionSaveRefused(p)
      PROVE  Rest'
  BY <1>8, <1>0 DEF ProvisionSaveRefused, AfterError
<1>9. ASSUME NEW p \in Provisions, ProvisionRollback(p)
      PROVE  Rest'
  <2>1. CASE UNCHANGED cluster
    BY <1>9, <2>1, <1>0 DEF ProvisionRollback
  <2>2. CASE Deletable /\ cluster' = DeletedCluster(order[p])
    <3>1. /\ cluster \in Cluster
          /\ cluster' = [cluster EXCEPT !.deleting = TRUE,
                                       !.snapshot = ~order[p].skipFinalSnapshot]
      BY <2>2 DEF Deletable, DeletedCluster
    <3>2. /\ cluster' # None /\ cluster'.owner = cluster.owner
          /\ cluster'.snapshot = ~order[p].skipFinalSnapshot
      <4>1. (~order[p].skipFinalSnapshot) \in BOOLEAN
        OBVIOUS
      <4>2. cluster' \in Cluster
        BY <3>1, <4>1
      <4>3. cluster' # None
        BY <4>2 DEF PlanAssumption
      <4>4. QED
        BY <3>1, <4>3
    <3>3. ClusterSnapshot'
      BY <1>9, <3>1, <3>2 DEF ProvisionRollback
    <3>4. (RowsStored /\ InstanceSnapshot /\ OwnCluster)'
      BY <1>9, <3>1, <3>2 DEF ProvisionRollback
    <3>5. QED
      BY <3>3, <3>4
  <2>3. QED
    BY <1>9, <2>1, <2>2 DEF ProvisionRollback
<1>10. ASSUME NEW p \in Provisions, ProvisionDie(p)
       PROVE  Rest'
  BY <1>10, <1>0 DEF ProvisionDie, Provisioning
<1>11. ASSUME NEW h \in Deprovisions, DeprovisionFind(h)
       PROVE  Rest'
  BY <1>11, <1>0 DEF DeprovisionFind, Load
<1>12. ASSUME NEW h \in Handlers, DeprovisionDropDB(h)
       PROVE  Rest'
  BY <1>12, <1>0 DEF DeprovisionDropDB, Goto
<1>13. ASSUME NEW h \in Handlers, DeprovisionDropDBError(h)
       PROVE  Rest'
  BY <1>13, <1>0 DEF DeprovisionDropDBError, Answer
<1>14. ASSUME NEW h \in Handlers, DeprovisionForget(h)
       PROVE  Rest'
  BY <1>14, <1>0 DEF DeprovisionForget, ForgetRow, Answer
<1>15. ASSUME NEW h \in Handlers, DeprovisionDeleteInstance(h)
       PROVE  Rest'
  BY <1>15, <1>0 DEF DeprovisionDeleteInstance, CanDeleteInstance, Goto, Answer
<1>16. ASSUME NEW h \in Handlers, DeprovisionDeleteRefused(h)
       PROVE  Rest'
  BY <1>16, <1>0 DEF DeprovisionDeleteRefused, Answer
<1>17. ASSUME NEW h \in Handlers, DeprovisionDeleteCluster(h)
       PROVE  Rest'
  <2>1. CASE UNCHANGED cluster
    BY <1>17, <2>1, <1>0 DEF DeprovisionDeleteCluster, Answer
  <2>2. CASE Deletable /\ cluster' = DeletedCluster(seen[h].plan)
    <3>1. /\ cluster \in Cluster
          /\ cluster' = [cluster EXCEPT !.deleting = TRUE,
                                       !.snapshot = ~seen[h].plan.skipFinalSnapshot]
      BY <2>2 DEF Deletable, DeletedCluster
    <3>2. /\ cluster' # None /\ cluster'.owner = cluster.owner
          /\ cluster'.snapshot = ~seen[h].plan.skipFinalSnapshot
      <4>1. (~seen[h].plan.skipFinalSnapshot) \in BOOLEAN
        OBVIOUS
      <4>2. cluster' \in Cluster
        BY <3>1, <4>1
      <4>3. cluster' # None
        BY <4>2 DEF PlanAssumption
      <4>4. QED
        BY <3>1, <4>3
    <3>3. ClusterSnapshot'
      BY <1>17, <3>1, <3>2 DEF DeprovisionDeleteCluster, Answer
    <3>4. (RowsStored /\ InstanceSnapshot /\ OwnCluster)'
      BY <1>17, <3>1, <3>2 DEF DeprovisionDeleteCluster, Answer
    <3>5. QED
      BY <3>3, <3>4
  <2>3. QED
    BY <1>17, <2>1, <2>2 DEF DeprovisionDeleteCluster
<1>18. ASSUME NEW h \in Polls, LastOperationFind(h)
       PROVE  Rest'
  BY <1>18, <1>0 DEF LastOperationFind, Load
<1>19. ASSUME NEW h \in Handlers, LastOperationGone(h)
       PROVE  Rest'
  BY <1>19, <1>0 DEF LastOperationGone, Goto
<1>20. ASSUME NEW h \in Handlers, LastOperationReport(h)
       PROVE  Rest'
  BY <1>20, <1>0 DEF LastOperationReport, Answer
<1>21. ASSUME NEW h \in Handlers, LastOperationForget(h)
       PROVE  Rest'
  BY <1>21, <1>0 DEF LastOperationForget, ForgetRow, Answer
<1>22. ASSUME NEW h \in Updates, NEW plan \in Plans, UpdateFind(h, plan)
       PROVE  Rest'
  BY <1>22, <1>0 DEF UpdateFind, Load, CanUpdate
<1>23. ASSUME NEW h \in Handlers, UpdateCluster(h)
       PROVE  Rest'
  BY <1>23, <1>0 DEF UpdateCluster, CanModifyCluster, Goto
<1>24. ASSUME NEW h \in Handlers, UpdateClusterUntagged(h)
       PROVE  Rest'
  BY <1>24, <1>0 DEF UpdateClusterUntagged, CanModifyCluster, Answer
<1>25. ASSUME NEW h \in Handlers, UpdateInstance(h)
       PROVE  Rest'
  BY <1>25, <1>0 DEF UpdateInstance, CanModifyInstance, Answer
<1>26. ASSUME NEW h \in Handlers, UpdateRefused(h)
       PROVE  Rest'
  BY <1>26, <1>0 DEF UpdateRefused, Answer
<1>27. ASSUME NEW h \in Handlers, HandlerDie(h)
       PROVE  Rest'
  BY <1>27, <1>0 DEF HandlerDie, Answer
<1>28. CASE InstanceReady
  BY <1>28, <1>0 DEF InstanceReady
<1>29. CASE InstanceGone
  BY <1>29, <1>0 DEF InstanceGone
<1>30. CASE ClusterGone
  BY <1>30, <1>0 DEF ClusterGone
<1>31. CASE UNCHANGED vars
  BY <1>31, <1>0 DEF vars
<1>32. QED
  BY <1>0, <1>1, <1>2, <1>3, <1>4, <1>5, <1>6, <1>7, <1>8, <1>9, <1>10, <1>11, <1>12, <1>13, <1>14, <1>15, <1>16, <1>17, <1>18, <1>19, <1>20, <1>21, <1>22, <1>23, <1>24, <1>25, <1>26, <1>27, <1>28, <1>29, <1>30, <1>31
  DEF Next, ProvisionStep, HandlerStep, Aws

\* The final snapshot of an instance, or of its cluster, is made once and follows the
\* plan of its Provision, however late the Deprovision or the rollback that asks for
\* it (broker.go, Deprovision and the deferred Delete of Provision).
THEOREM SnapshotsFollowProvision == Spec => []SnapshotAsProvisioned
<1>1. SnapshotInv /\ [Next]_vars => SnapshotInv'
  BY SnapshotInvNext
<1>2. SnapshotInv => SnapshotAsProvisioned
  BY DEF SnapshotInv, InstanceSnapshot, ClusterSnapshot, Succeeded, SnapshotAsProvisioned, OwnLife
<1>3. QED
  BY SnapshotInvInit, <1>1, <1>2, PTL DEF Spec

-----------------------------------------------------------------------------
(* The cluster.                                                            *)

\* A Deprovision that has started the deletion of the instance of row r is about to
\* delete its cluster.
Dismantled(r) ==
    /\ rds # None => rds.status = "deleting" \/ rds.owner # r
    /\ \E d \in Deprovisions : step[d] = "deleteCluster" /\ seen[d].row = r

Running(r) == rds # None /\ rds.owner = r /\ rds.status # "deleting"

\* A cluster that stays belongs to a Provision that is under way or has succeeded;
\* then it is recorded or about to be deleted, in the first life of the ID.
ClusterHeld ==
    cluster # None /\ ~cluster.deleting =>
        LET o == cluster.owner IN
        /\ IsAurora(order[o])
        /\ prov[o] \in {"createInstance", "save", "rollback", "ok"}
        /\ prov[o] = "save" => Running(o) \/ Succeeded(o)
        /\ prov[o] = "ok" =>
              \/ Succeeded(o)
              \/ Running(o) /\ record # None /\ record.row = o
              \/ Dismantled(o)

StepsOfKind ==
    /\ \A h \in Handlers : step[h] \in {"deleteInstance", "deleteCluster"} => h \in Deprovisions
    /\ \A p \in Provisions : prov[p] = "createCluster" => IsAurora(order[p])

ClusterInv ==
    /\ RecordInv
    /\ KindInv
    /\ SnapshotInv
    /\ StepsOfKind
    /\ ClusterHeld

\* The invariant of the cluster holds initially.
LEMMA ClusterInvInit == Init => ClusterInv
BY RecordInvInit, KindInvInit, SnapshotInvInit DEF Init, ClusterInv, StepsOfKind, ClusterHeld

\* Every step preserves it when Provisions come one at a time and the calls that nobody
\* checks succeed.
LEMMA ClusterInvNext ==
    ASSUME OneProvision, ~Crashes,
           {"save", "deleteCluster"} \cap Failing = {}, ClusterInv, [Next]_vars
    PROVE  ClusterInv'
<1> DEFINE Rest == StepsOfKind /\ ClusterHeld
<1>0. RecordInv' /\ KindInv' /\ SnapshotInv'
  BY RecordInvNext, KindInvNext, SnapshotInvNext DEF ClusterInv
<1> USE DEF ClusterInv, RecordInv, KindInv, SnapshotInv, Alone, Active, RowsStored, Stored, InstanceOwned,
            ForgetsOnlyGone, InstanceIsRecorded, WithinKind, Kind, InstanceSnapshot, ClusterSnapshot,
            OwnCluster, Succeeded, StepsOfKind, ClusterHeld, Running, Dismantled, IsAurora,
            Provisioning, TypeInv, TypeOK, Asked, Record, Rds, Cluster, Plan, aws, stores,
            provisioning, handlers
<1>1. ASSUME NEW p \in Provisions, NEW plan \in Plans, ProvisionStart(p, plan)
      PROVE  Rest'
  BY <1>1, <1>0 DEF ProvisionStart, FirstStep
<1>2. ASSUME NEW p \in Provisions, ProvisionExists(p)
      PROVE  Rest'
  BY <1>2, <1>0 DEF ProvisionExists
<1>3. ASSUME NEW p \in Provisions, ProvisionCreateDB(p)
      PROVE  Rest'
  BY <1>3, <1>0 DEF ProvisionCreateDB
<1>4. ASSUME NEW p \in Provisions, ProvisionCreateCluster(p)
      PROVE  Rest'
  BY <1>4, <1>0 DEF ProvisionCreateCluster
<1>5. ASSUME NEW p \in Provisions, ProvisionCreateInstance(p)
      PROVE  Rest'
  <2>1. /\ prov' = [prov EXCEPT ![p] = "save"]
        /\ UNCHANGED <<record, cluster, database, order, handlers, accepted>>
        /\ prov[p] = "createInstance" /\ rds = None
        /\ rds' = [owner |-> p, plan |-> order[p], snapshot |-> FALSE, status |-> "creating"]
    BY <1>5 DEF ProvisionCreateInstance, CanCreateInstance
  <2>2. rds' # None /\ rds'.owner = p /\ rds'.status = "creating"
    <3>1. order[p] \in Plans /\ FALSE \in BOOLEAN
      BY <2>1
    <3>2. rds' \in Rds
      BY <2>1, <3>1
    <3>3. rds' # None
      BY <3>2 DEF PlanAssumption
    <3>4. QED
      BY <2>1, <3>3
  <2>3. StepsOfKind'
    BY <2>1
  <2>4. ClusterHeld'
    <3>1. SUFFICES ASSUME cluster # None, ~cluster.deleting
                   PROVE  ClusterHeld'
      BY <2>1
    <3>2. cluster.owner = p \/ prov[cluster.owner] = "ok"
      BY <3>1, <2>1
    <3>3. CASE cluster.owner = p
      BY <3>1, <3>3, <2>1, <2>2
    <3>4. CASE cluster.owner # p
      BY <3>1, <3>2, <3>4, <2>1, <2>2
    <3>5. QED
      BY <3>3, <3>4
  <2>5. QED
    BY <2>3, <2>4
<1>6. ASSUME NEW p \in Provisions, ProvisionCreateRefused(p)
      PROVE  Rest'
  BY <1>6, <1>0 DEF ProvisionCreateRefused, AfterError
<1>7. ASSUME NEW p \in Provisions, ProvisionSave(p)
      PROVE  Rest'
  BY <1>7, <1>0 DEF ProvisionSave
<1>8. ASSUME NEW p \in Provisions, ProvisionSaveRefused(p)
      PROVE  Rest'
  BY <1>8, <1>0 DEF ProvisionSaveRefused, AfterError
<1>9. ASSUME NEW p \in Provisions, ProvisionRollback(p)
      PROVE  Rest'
  <2>1. /\ prov[p] = "rollback" /\ prov' = [prov EXCEPT ![p] = "failed"]
        /\ UNCHANGED <<record, rds, database, order, handlers, accepted>>
    BY <1>9 DEF ProvisionRollback
  <2>2. StepsOfKind'
    BY <2>1
  <2>3. rds = None \/ rds.status = "deleting"
    BY <2>1
  <2>4. CASE Deletable
    <3>1. cluster' = DeletedCluster(order[p])
      BY <1>9, <2>4 DEF ProvisionRollback
    <3>2. cluster \in Cluster
      BY <2>4 DEF Deletable
    <3>3. cluster'.deleting
      BY <3>1, <3>2 DEF DeletedCluster
    <3>4. QED
      BY <2>2, <3>3
  <2>5. CASE ~Deletable
    <3>1. UNCHANGED cluster
      BY <1>9, <2>5 DEF ProvisionRollback
    <3>2. cluster = None \/ cluster.deleting
      BY <2>3, <2>5 DEF Deletable
    <3>3. QED
      BY <2>2, <3>1, <3>2
  <2>6. QED
    BY <2>4, <2>5
<1>10. ASSUME NEW p \in Provisions, ProvisionDie(p)
       PROVE  Rest'
  BY <1>10, <1>0 DEF ProvisionDie, Provisioning
<1>11. ASSUME NEW h \in Deprovisions, DeprovisionFind(h)
       PROVE  Rest'
  BY <1>11, <1>0 DEF DeprovisionFind, Load
<1>12. ASSUME NEW h \in Handlers, DeprovisionDropDB(h)
       PROVE  Rest'
  BY <1>12, <1>0 DEF DeprovisionDropDB, Goto
<1>13. ASSUME NEW h \in Handlers, DeprovisionDropDBError(h)
       PROVE  Rest'
  BY <1>13, <1>0 DEF DeprovisionDropDBError, Answer
<1>14. ASSUME NEW h \in Handlers, DeprovisionForget(h)
       PROVE  Rest'
  BY <1>14, <1>0 DEF DeprovisionForget, ForgetRow, Answer
<1>15. ASSUME NEW h \in Handlers, DeprovisionDeleteInstance(h)
       PROVE  Rest'
  BY <1>15, <1>0 DEF DeprovisionDeleteInstance, CanDeleteInstance, Goto, Answer
<1>16. ASSUME NEW h \in Handlers, DeprovisionDeleteRefused(h)
       PROVE  Rest'
  BY <1>16, <1>0 DEF DeprovisionDeleteRefused, Answer
<1>17. ASSUME NEW h \in Handlers, DeprovisionDeleteCluster(h)
       PROVE  Rest'
  <2>1. /\ step[h] = "deleteCluster" /\ step' = [step EXCEPT ![h] = "idle"]
        /\ seen' = [seen EXCEPT ![h] = None]
        /\ UNCHANGED <<record, rds, database, provisioning>>
    BY <1>17 DEF DeprovisionDeleteCluster, Answer
  <2>2. StepsOfKind'
    BY <2>1
  <2>3. CASE Deletable
    <3>1. cluster' = DeletedCluster(seen[h].plan)
      BY <1>17, <2>3 DEF DeprovisionDeleteCluster
    <3>2. cluster \in Cluster
      BY <2>3 DEF Deletable
    <3>3. cluster'.deleting
      BY <3>1, <3>2 DEF DeletedCluster
    <3>4. QED
      BY <2>2, <3>3
  <2>4. CASE ~Deletable
    <3>1. UNCHANGED cluster
      BY <1>17, <2>4 DEF DeprovisionDeleteCluster
    <3>2. ASSUME cluster # None, ~cluster.deleting
          PROVE  /\ rds # None /\ rds.status # "deleting"
                 /\ Running(cluster.owner) \/ Succeeded(cluster.owner)
      <4>1. rds # None /\ IsAurora(rds.plan) /\ rds.status # "deleting"
        BY <3>2, <2>4 DEF Deletable
      <4>2. CASE rds.owner = cluster.owner
        BY <4>1, <4>2
      <4>3. CASE rds.owner # cluster.owner
        <5>1. prov[rds.owner] \in {"save", "ok"} /\ IsAurora(order[rds.owner])
          BY <4>1
        <5>2. prov[rds.owner] = "save" => Succeeded(cluster.owner)
          BY <4>3, <5>1, <3>2, <4>1
        <5>3. QED
          BY <4>1, <4>3, <5>1, <5>2
      <4>4. QED
        BY <4>2, <4>3
    <3>3. ClusterHeld'
      <4>1. SUFFICES ASSUME cluster # None, ~cluster.deleting
                     PROVE  ClusterHeld'
        BY <3>1
      <4>2. Running(cluster.owner) \/ Succeeded(cluster.owner)
        BY <3>2, <4>1
      <4>3. Running(cluster.owner) /\ prov[cluster.owner] = "ok" =>
              record # None /\ record.row = cluster.owner
        BY <4>1
      <4>4. QED
        BY <4>1, <4>2, <4>3, <3>1, <2>1
    <3>4. QED
      BY <2>2, <3>3
  <2>5. QED
    BY <2>3, <2>4
<1>18. ASSUME NEW h \in Polls, LastOperationFind(h)
       PROVE  Rest'
  BY <1>18, <1>0 DEF LastOperationFind, Load
<1>19. ASSUME NEW h \in Handlers, LastOperationGone(h)
       PROVE  Rest'
  BY <1>19, <1>0 DEF LastOperationGone, Goto
<1>20. ASSUME NEW h \in Handlers, LastOperationReport(h)
       PROVE  Rest'
  BY <1>20, <1>0 DEF LastOperationReport, Answer
<1>21. ASSUME NEW h \in Handlers, LastOperationForget(h)
       PROVE  Rest'
  BY <1>21, <1>0 DEF LastOperationForget, ForgetRow, Answer
<1>22. ASSUME NEW h \in Updates, NEW plan \in Plans, UpdateFind(h, plan)
       PROVE  Rest'
  BY <1>22, <1>0 DEF UpdateFind, Load, CanUpdate
<1>23. ASSUME NEW h \in Handlers, UpdateCluster(h)
       PROVE  Rest'
  BY <1>23, <1>0 DEF UpdateCluster, CanModifyCluster, Goto
<1>24. ASSUME NEW h \in Handlers, UpdateClusterUntagged(h)
       PROVE  Rest'
  BY <1>24, <1>0 DEF UpdateClusterUntagged, CanModifyCluster, Answer
<1>25. ASSUME NEW h \in Handlers, UpdateInstance(h)
       PROVE  Rest'
  <2>1. /\ step[h] = "modifyInstance" /\ step' = [step EXCEPT ![h] = "idle"]
        /\ seen' = [seen EXCEPT ![h] = None]
        /\ rds \in Rds /\ rds # None /\ rds.status = "available"
        /\ rds' = [rds EXCEPT !.plan = wanted[h], !.status = "modifying"]
        /\ UNCHANGED <<record, cluster, database, provisioning>>
    BY <1>25 DEF UpdateInstance, CanModifyInstance, Answer
  <2>2. rds' # None /\ rds'.owner = rds.owner /\ rds'.status = "modifying"
    <3>1. wanted[h] \in Plans
      BY <2>1
    <3>2. rds' \in Rds
      BY <2>1, <3>1
    <3>3. QED
      BY <2>1, <3>2
  <2>3. StepsOfKind'
    BY <2>1
  <2>4. \A r \in Provisions :
           /\ Running(r) => Running(r)'
           /\ Dismantled(r) => Dismantled(r)'
    BY <2>1, <2>2
  <2>5. ClusterHeld'
    BY <2>1, <2>4
  <2>6. QED
    BY <2>3, <2>5
<1>26. ASSUME NEW h \in Handlers, UpdateRefused(h)
       PROVE  Rest'
  BY <1>26, <1>0 DEF UpdateRefused, Answer
<1>27. ASSUME NEW h \in Handlers, HandlerDie(h)
       PROVE  Rest'
  BY <1>27, <1>0 DEF HandlerDie, Answer
<1>28. CASE InstanceReady
  BY <1>28, <1>0 DEF InstanceReady
<1>29. CASE InstanceGone
  BY <1>29, <1>0 DEF InstanceGone
<1>30. CASE ClusterGone
  BY <1>30, <1>0 DEF ClusterGone
<1>31. CASE UNCHANGED vars
  BY <1>31, <1>0 DEF vars
<1>32. QED
  BY <1>0, <1>1, <1>2, <1>3, <1>4, <1>5, <1>6, <1>7, <1>8, <1>9, <1>10, <1>11, <1>12, <1>13, <1>14, <1>15, <1>16, <1>17, <1>18, <1>19, <1>20, <1>21, <1>22, <1>23, <1>24, <1>25, <1>26, <1>27, <1>28, <1>29, <1>30, <1>31
  DEF Next, ProvisionStep, HandlerStep, Aws

\* In one life of the ID a cluster that is not being deleted has its record whenever no
\* Provision or Deprovision is under way, whichever of their other calls failed
\* (broker.go, the deferred Delete of Provision, and Deprovision).
THEOREM ClusterRecorded ==
    ASSUME OneProvision, ~Crashes, {"save", "deleteCluster"} \cap Failing = {}
    PROVE  Spec => []ClusterIsRecorded
<1>1. ClusterInv /\ [Next]_vars => ClusterInv'
  BY ClusterInvNext
<1>2. ClusterInv => ClusterIsRecorded
  BY DEF ClusterInv, SnapshotInv, TypeInv, TypeOK, Cluster, ClusterHeld, Succeeded, Dismantled,
         ClusterIsRecorded, OneLife, Busy, Provisioning
<1>3. QED
  BY ClusterInvInit, <1>1, <1>2, PTL DEF Spec
-----------------------------------------------------------------------------
(* The order of a deletion.                                                *)

\* What a handler that may delete the record has loaded, and knows to be gone.
ForgetsLast ==
    \A h \in Handlers :
        /\ step[h] \in {"dropDB", "forget"} => seen[h].plan.shared
        /\ step[h] \in {"describe", "forgetGone"} => ~seen[h].plan.shared
        /\ step[h] = "forgetGone" => rds = None \/ rds.owner # seen[h].row

\* No Provision makes the database of a record that is about to go.
DatabaseGone ==
    \A h \in Handlers :
        step[h] = "forget" /\ record # None /\ record.row = seen[h].row => ~database

\* A platform that sends one Provision at a time, or a service without shared plans.
NoDatabaseRace == OneProvision \/ \A plan \in Plans : ~plan.shared

GoneInv ==
    /\ TypeInv
    /\ RowsStored
    /\ ForgetsLast
    /\ OneProvision => Alone /\ DatabaseGone

\* The invariant of the deletion holds initially.
LEMMA GoneInvInit == Init => GoneInv
<1>1. Init => TypeInv
  BY TypeInvInit
<1>2. QED
  BY <1>1 DEF Init, GoneInv, RowsStored, ForgetsLast, Alone, Active, DatabaseGone

\* A step of Provision preserves it: it cannot give a loaded row its instance back.
LEMMA ProvisionKeepsGone ==
    ASSUME GoneInv, NEW p \in Provisions,
           \/ \E plan \in Plans : ProvisionStart(p, plan)
           \/ ProvisionExists(p) \/ ProvisionStep(p) \/ ProvisionDie(p)
    PROVE  (RowsStored /\ ForgetsLast /\ (OneProvision => Alone /\ DatabaseGone))'
<1> USE DEF GoneInv, TypeInv, TypeOK, Asked, RowsStored, Stored, ForgetsLast, Alone, Active,
            DatabaseGone, Provisioning, Record, Rds, aws, stores, handlers
<1>1. CASE \E plan \in Plans : ProvisionStart(p, plan)
  BY <1>1 DEF ProvisionStart, FirstStep
<1>2. CASE ProvisionExists(p)
  BY <1>2 DEF ProvisionExists
<1>3. CASE ProvisionCreateDB(p)
  BY <1>3 DEF ProvisionCreateDB
<1>4. CASE ProvisionCreateCluster(p)
  BY <1>4 DEF ProvisionCreateCluster
<1>5. CASE ProvisionCreateInstance(p)
  BY <1>5 DEF ProvisionCreateInstance
<1>6. CASE ProvisionCreateRefused(p) \/ ProvisionSaveRefused(p)
  BY <1>6 DEF ProvisionCreateRefused, ProvisionSaveRefused, AfterError
<1>7. CASE ProvisionSave(p)
  BY <1>7 DEF ProvisionSave
<1>8. CASE ProvisionRollback(p)
  BY <1>8 DEF ProvisionRollback
<1>9. CASE ProvisionDie(p)
  BY <1>9 DEF ProvisionDie
<1>10. QED
  BY <1>1, <1>2, <1>3, <1>4, <1>5, <1>6, <1>7, <1>8, <1>9 DEF ProvisionStep

\* So does a step of another handler.
LEMMA HandlerKeepsGone ==
    ASSUME GoneInv,
           \/ \E d \in Deprovisions : DeprovisionFind(d)
           \/ \E l \in Polls : LastOperationFind(l)
           \/ \E m \in Updates, plan \in Plans : UpdateFind(m, plan)
           \/ \E h \in Handlers : HandlerStep(h) \/ HandlerDie(h)
    PROVE  (RowsStored /\ ForgetsLast /\ (OneProvision => Alone /\ DatabaseGone))'
<1> DEFINE Rest == RowsStored /\ ForgetsLast /\ (OneProvision => Alone /\ DatabaseGone)
<1> USE DEF GoneInv, TypeInv, TypeOK, Asked, RowsStored, Stored, ForgetsLast, Alone, Active,
            DatabaseGone, Provisioning, Record, Rds, aws, stores, provisioning
<1>1. ASSUME NEW d \in Deprovisions, DeprovisionFind(d)
      PROVE  Rest'
  BY <1>1 DEF DeprovisionFind, Load
<1>2. ASSUME NEW l \in Polls, LastOperationFind(l)
      PROVE  Rest'
  BY <1>2 DEF LastOperationFind, Load
<1>3. ASSUME NEW m \in Updates, NEW plan \in Plans, UpdateFind(m, plan)
      PROVE  Rest'
  BY <1>3 DEF UpdateFind, Load
<1>4. ASSUME NEW h \in Handlers, DeprovisionDropDB(h)
      PROVE  Rest'
  BY <1>4 DEF DeprovisionDropDB, Goto
<1>5. ASSUME NEW h \in Handlers, DeprovisionForget(h) \/ LastOperationForget(h)
      PROVE  Rest'
  BY <1>5 DEF DeprovisionForget, LastOperationForget, ForgetRow, Answer
<1>6. ASSUME NEW h \in Handlers, DeprovisionDeleteInstance(h)
      PROVE  Rest'
  <2>1. rds # None /\ rds \in Rds
    BY <1>6 DEF DeprovisionDeleteInstance, CanDeleteInstance
  <2>2. rds'.owner = rds.owner
    BY <1>6, <2>1 DEF DeprovisionDeleteInstance
  <2>3. QED
    BY <1>6, <2>1, <2>2 DEF DeprovisionDeleteInstance, Goto, Answer
<1>7. ASSUME NEW h \in Handlers, LastOperationGone(h)
      PROVE  Rest'
  BY <1>7 DEF LastOperationGone, Goto
<1>8. ASSUME NEW h \in Handlers, UpdateCluster(h)
      PROVE  Rest'
  BY <1>8 DEF UpdateCluster, Goto
<1>9. ASSUME NEW h \in Handlers, UpdateInstance(h)
      PROVE  Rest'
  <2>1. rds # None /\ rds \in Rds
    BY <1>9 DEF UpdateInstance, CanModifyInstance
  <2>2. rds'.owner = rds.owner
    BY <1>9, <2>1 DEF UpdateInstance
  <2>3. QED
    BY <1>9, <2>1, <2>2 DEF UpdateInstance, Answer
<1>10. ASSUME NEW h \in Handlers,
              \/ DeprovisionDropDBError(h) \/ DeprovisionDeleteRefused(h)
              \/ DeprovisionDeleteCluster(h) \/ LastOperationReport(h)
              \/ UpdateClusterUntagged(h) \/ UpdateRefused(h) \/ HandlerDie(h)
       PROVE  Rest'
  <2>1. /\ UNCHANGED <<record, rds, database, provisioning>>
        /\ \A g \in Handlers : step'[g] # "idle" => step'[g] = step[g] /\ seen'[g] = seen[g]
    BY <1>10 DEF DeprovisionDropDBError, DeprovisionDeleteRefused, DeprovisionDeleteCluster,
       LastOperationReport, UpdateClusterUntagged, UpdateRefused, HandlerDie, Answer
  <2>2. QED
    BY <2>1
<1>11. QED
  BY <1>1, <1>2, <1>3, <1>4, <1>5, <1>6, <1>7, <1>8, <1>9, <1>10 DEF HandlerStep

\* Every step preserves the invariant of the deletion.
LEMMA GoneInvNext ==
    ASSUME GoneInv, [Next]_vars
    PROVE  GoneInv'
<1>0. TypeInv'
  BY TypeInvNext DEF GoneInv
<1> DEFINE Rest == RowsStored /\ ForgetsLast /\ (OneProvision => Alone /\ DatabaseGone)
<1> USE DEF GoneInv, TypeInv, TypeOK, RowsStored, Stored, ForgetsLast, Alone, Active,
            DatabaseGone, Rds, stores, provisioning, handlers
<1>1. CASE InstanceReady
  <2>1. rds # None /\ rds \in Rds /\ UNCHANGED <<record, database, provisioning, step, seen>>
    BY <1>1 DEF InstanceReady
  <2>2. rds'.owner = rds.owner
    BY <1>1, <2>1 DEF InstanceReady
  <2>3. QED
    BY <1>0, <2>1, <2>2
<1>2. CASE InstanceGone \/ ClusterGone \/ UNCHANGED vars
  <2>1. /\ UNCHANGED <<record, database, provisioning, step, seen>>
        /\ rds' = None \/ rds' = rds
    BY <1>2 DEF InstanceGone, ClusterGone, vars
  <2>2. QED
    BY <1>0, <2>1
<1>3. QED
  BY <1>0, <1>1, <1>2, ProvisionKeepsGone, HandlerKeepsGone DEF Next, Aws

\* Deprovision and LastOperation delete the record only when nothing is left that it
\* is needed for.
LEMMA RecordGoesLast ==
    ASSUME NoDatabaseRace, GoneInv, Next, record # None, record' = None
    PROVE  /\ ~Exists(record.row)
           /\ UNCHANGED <<prov, order>>
<1>1. PICK h \in Handlers : DeprovisionForget(h) \/ LastOperationForget(h)
  BY DEF Next, ProvisionStep, HandlerStep, Aws, aws, stores,
     ProvisionStart, ProvisionExists, ProvisionCreateDB, ProvisionCreateCluster,
     ProvisionCreateInstance, ProvisionCreateRefused, ProvisionSave, ProvisionSaveRefused,
     ProvisionRollback, ProvisionDie, HandlerDie, DeprovisionFind, DeprovisionDropDB,
     DeprovisionDropDBError, DeprovisionDeleteInstance, DeprovisionDeleteRefused,
     DeprovisionDeleteCluster, LastOperationFind, LastOperationGone, LastOperationReport,
     UpdateFind, UpdateCluster, UpdateClusterUntagged, UpdateInstance, UpdateRefused,
     InstanceReady, InstanceGone, ClusterGone
<1>2. /\ step[h] \in {"forget", "forgetGone"}
      /\ record.row = seen[h].row
      /\ UNCHANGED <<prov, order>>
  BY <1>1 DEF DeprovisionForget, LastOperationForget, ForgetRow, provisioning
<1>3. record.plan = seen[h].plan
  BY <1>2 DEF GoneInv, RowsStored, Stored
<1>4. CASE record.plan.shared
  <2>1. step[h] = "forget" /\ OneProvision
    BY <1>2, <1>3, <1>4 DEF GoneInv, ForgetsLast, NoDatabaseRace, TypeInv, TypeOK, Record
  <2>2. QED
    BY <1>2, <1>4, <2>1 DEF GoneInv, DatabaseGone, Exists
<1>5. CASE ~record.plan.shared
  BY <1>2, <1>3, <1>5 DEF GoneInv, ForgetsLast, Exists
<1>6. QED
  BY <1>4, <1>5

-----------------------------------------------------------------------------
(* The life of an instance.                                                *)

\* Of all instances only the one that is recorded is neither new nor gone.
LEMMA OthersRest ==
    ASSUME NEW p \in Provisions, ~(record # None /\ record.row = p)
    PROVE  /\ Life(p) = IF prov[p] = "ok" THEN "gone" ELSE "new"
           /\ Life(p) \in {"new", "gone"}
BY DEF Life

\* A step that leaves the record and the answers alone moves the recorded one only.
LEMMA RecordedMoves ==
    ASSUME GoneInv, record' = record,
           \A p \in Provisions : prov'[p] = "ok" <=> prov[p] = "ok"
    PROVE  /\ record = None => lives' = lives
           /\ record # None => /\ record.row \in Provisions
                               /\ lives' = [lives EXCEPT ![record.row] = Life(record.row)']
                               /\ lives[record.row] = Life(record.row)
<1>1. ASSUME NEW p \in Provisions, ~(record # None /\ record.row = p)
      PROVE  Life(p)' = Life(p)
  BY <1>1 DEF Life
<1>2. record # None => record.row \in Provisions
  BY DEF GoneInv, TypeInv, TypeOK, Record
<1>3. QED
  BY <1>1, <1>2 DEF lives

\* What a step does with a recorded instance that it neither records nor forgets.
LEMMA LifeGoesOn ==
    ASSUME NoDatabaseRace, GoneInv, Next, record # None, record' = record
    PROVE  \/ Life(record.row)' = Life(record.row)
           \/ Life(record.row) = "kept" /\ Life(record.row)' = "leaving"
           \/ Life(record.row) \in {"kept", "leaving"} /\ Life(record.row)' = "left"
<1> DEFINE r == record.row
           Same == Life(r)' = Life(r)
<1>0. r \in Provisions /\ prov[r] = "ok" /\ record \in Record /\ rds \in Rds \cup {None}
  BY DEF GoneInv, TypeInv, TypeOK, RowsStored, Stored, Record
<1>1. ASSUME NEW p \in Provisions, ProvisionCreateDB(p)
      PROVE  Same
  <2>1. ~OneProvision
    BY <1>1 DEF ProvisionCreateDB, GoneInv, Alone, Active, ProvisionSteps
  <2>2. ~record.plan.shared
    BY <1>0, <2>1 DEF NoDatabaseRace, Record
  <2>3. QED
    BY <1>1, <2>2 DEF ProvisionCreateDB, Life, Exists, aws
<1>2. ASSUME NEW p \in Provisions, ProvisionCreateInstance(p)
      PROVE  Same
  <2>1. /\ p # r /\ rds = None /\ database' = database /\ order[p] \in Plans
        /\ rds' = [owner |-> p, plan |-> order[p], snapshot |-> FALSE, status |-> "creating"]
    BY <1>0, <1>2 DEF ProvisionCreateInstance, CanCreateInstance, GoneInv, TypeInv, Asked
  <2>2. rds' \in Rds /\ rds'.owner = p
    BY <2>1 DEF Rds
  <2>3. rds' # None
    BY <2>2, PlanAssumption
  <2>4. QED
    BY <2>1, <2>2, <2>3 DEF Life, Exists
<1>3. ASSUME NEW h \in Handlers, DeprovisionDropDB(h)
      PROVE  Same \/ (Life(r) \in {"kept", "leaving"} /\ Life(r)' = "left")
  BY <1>3 DEF DeprovisionDropDB, Life, Exists, aws
<1>4. ASSUME NEW h \in Handlers, DeprovisionDeleteInstance(h)
      PROVE  Same \/ (Life(r) = "kept" /\ Life(r)' = "leaving")
  <2>1. /\ rds # None /\ rds.status # "deleting" /\ database' = database
        /\ rds' = [rds EXCEPT !.status = "deleting",
                              !.snapshot = ~SkipInstanceSnapshot(seen[h].plan)]
    BY <1>4 DEF DeprovisionDeleteInstance, CanDeleteInstance
  <2>2. rds' \in Rds
    <3>1. (~SkipInstanceSnapshot(seen[h].plan)) \in BOOLEAN
      BY DEF SkipInstanceSnapshot
    <3>2. QED
      BY <1>0, <2>1, <3>1 DEF Rds
  <2>3. rds' # None /\ rds'.owner = rds.owner /\ rds'.status = "deleting"
    BY <1>0, <2>1, <2>2, PlanAssumption DEF Rds
  <2>4. QED
    BY <2>1, <2>3 DEF Life, Exists
<1>5. ASSUME \/ InstanceReady
             \/ \E h \in Handlers : UpdateInstance(h)
      PROVE  Same
  <2>1. /\ rds # None /\ rds.status # "deleting" /\ database' = database
        /\ \/ rds' = [rds EXCEPT !.status = "available"]
           \/ \E plan \in Plans : rds' = [rds EXCEPT !.plan = plan, !.status = "modifying"]
    BY <1>5 DEF InstanceReady, UpdateInstance, CanModifyInstance, GoneInv, TypeInv, Asked
  <2>2. rds' \in Rds /\ rds'.owner = rds.owner /\ rds'.status # "deleting"
    BY <1>0, <2>1 DEF Rds
  <2>3. rds' # None
    BY <2>2, PlanAssumption
  <2>4. QED
    BY <2>1, <2>2, <2>3 DEF Life, Exists
<1>6. CASE InstanceGone
  BY <1>6 DEF InstanceGone, Life, Exists
<1>7. CASE UNCHANGED <<rds, database>>
  BY <1>7 DEF Life, Exists
<1>8. QED
  BY <1>1, <1>2, <1>3, <1>4, <1>5, <1>6, <1>7
  DEF Next, ProvisionStep, HandlerStep, Aws, aws, stores,
     ProvisionStart, ProvisionExists, ProvisionCreateCluster,
     ProvisionCreateRefused, ProvisionSave, ProvisionSaveRefused,
     ProvisionRollback, ProvisionDie, HandlerDie, DeprovisionFind,
     DeprovisionDropDBError, DeprovisionForget, DeprovisionDeleteRefused,
     DeprovisionDeleteCluster, LastOperationFind, LastOperationGone, LastOperationReport,
     LastOperationForget, UpdateFind, UpdateCluster, UpdateClusterUntagged, UpdateRefused,
     ClusterGone

\* Only ProvisionSave answers a Provision with success, or records an instance.
LEMMA OnlySaveRecords ==
    ASSUME GoneInv, Next, \A p \in Provisions : ~ProvisionSave(p)
    PROVE  /\ \A p \in Provisions : prov'[p] = "ok" <=> prov[p] = "ok"
           /\ record' \in {record, None}
<1> USE DEF GoneInv, TypeInv, TypeOK, aws, stores, provisioning
<1>1. ASSUME NEW p \in Provisions,
             \/ \E plan \in Plans : ProvisionStart(p, plan)
             \/ ProvisionExists(p) \/ ProvisionStep(p) \/ ProvisionDie(p)
      PROVE  /\ record' = record
             /\ \A q \in Provisions : prov'[q] = "ok" <=> prov[q] = "ok"
  BY <1>1 DEF ProvisionStep, ProvisionStart, FirstStep, ProvisionExists, ProvisionCreateDB,
     ProvisionCreateCluster, ProvisionCreateInstance, ProvisionCreateRefused, AfterError,
     ProvisionSaveRefused, ProvisionRollback, ProvisionDie, Provisioning
<1>2. ASSUME NEW h \in Handlers, HandlerStep(h) \/ HandlerDie(h)
      PROVE  prov' = prov /\ record' \in {record, None}
  BY <1>2 DEF HandlerStep, HandlerDie, DeprovisionDropDB, DeprovisionDropDBError,
     DeprovisionForget, ForgetRow, DeprovisionDeleteInstance, DeprovisionDeleteRefused,
     DeprovisionDeleteCluster, LastOperationGone, LastOperationReport, LastOperationForget,
     UpdateCluster, UpdateClusterUntagged, UpdateInstance, UpdateRefused
<1>3. CASE \/ \E d \in Deprovisions : DeprovisionFind(d)
           \/ \E l \in Polls : LastOperationFind(l)
           \/ \E m \in Updates, plan \in Plans : UpdateFind(m, plan)
           \/ Aws
  BY <1>3 DEF DeprovisionFind, LastOperationFind, UpdateFind, Aws, InstanceReady, InstanceGone,
     ClusterGone
<1>4. QED
  BY <1>1, <1>2, <1>3 DEF Next

\* Recording gives a free ID to the instance that asked for it.
LEMMA SaveClaims ==
    ASSUME GoneInv, NEW p \in Provisions, ProvisionSave(p)
    PROVE  Lives!Claim(p)
<1>1. /\ record = None /\ prov[p] = "save"
      /\ record' = [row |-> p, plan |-> order[p]] /\ order[p] \in Plans
      /\ prov' = [prov EXCEPT ![p] = "ok"]
  BY DEF ProvisionSteps, ProvisionSave, GoneInv, TypeInv, Asked
<1>2. record' # None /\ record'.row = p
  <2>1. record' \in Record
    BY <1>1 DEF Record
  <2>2. QED
    BY <1>1, <2>1, PlanAssumption
<1>3. \A q \in Provisions : Life(q) \in {"new", "gone"}
  BY <1>1, OthersRest
<1>4. Life(p) = "new"
  BY <1>1, OthersRest
<1>5. Life(p)' \in {"kept", "leaving", "left"}
  BY <1>2 DEF Life
<1>6. ASSUME NEW q \in Provisions, q # p
      PROVE  Life(q)' = Life(q)
  BY <1>1, <1>2, <1>6 DEF Life, GoneInv, TypeInv, TypeOK
<1>7. lives' = [lives EXCEPT ![p] = Life(p)']
  BY <1>6 DEF lives
<1>8. QED
  BY <1>3, <1>4, <1>5, <1>7 DEF Lives!Claim, Lives!Become, lives

\* Whatever plans there are and whatever fails, dies, overlaps or comes late, the
\* handlers and AWS take each instance of an ID through its life in order, one after
\* another; a database on the shared server asks that no second Provision is
\* creating it at the time (broker.go, Provision, Deprovision and LastOperation).
THEOREM ProvisioningKeepsLifecycle ==
    ASSUME NoDatabaseRace
    PROVE  Spec => KeepsLifecycle
<1>1. Init => Lives!Init
  BY DEF Init, Lives!Init, lives, Life
<1>2. GoneInv /\ [Next]_vars => [Lives!Next]_lives
  <2> SUFFICES ASSUME GoneInv, [Next]_vars
               PROVE  [Lives!Next]_lives
    OBVIOUS
  <2> USE DEF Lives!Next
  <2>1. CASE UNCHANGED vars
    BY <2>1 DEF vars, lives, Life, Exists
  <2>2. CASE \E p \in Provisions : ProvisionSave(p)
    BY <2>2, SaveClaims
  <2>3. CASE Next /\ \A p \in Provisions : ~ProvisionSave(p)
    <3>1. /\ \A p \in Provisions : prov'[p] = "ok" <=> prov[p] = "ok"
          /\ record' \in {record, None}
      BY <2>3, OnlySaveRecords
    <3>2. CASE record' = record /\ record = None
      BY <3>1, <3>2, RecordedMoves
    <3>3. CASE record' = record /\ record # None
      <4> DEFINE r == record.row
                 after == Life(r)'
      <4>1. /\ r \in Provisions
            /\ lives' = [lives EXCEPT ![r] = after]
            /\ lives[r] = Life(r)
        BY <3>1, <3>3, RecordedMoves
      <4>2. \/ after = Life(r)
            \/ Life(r) = "kept" /\ after = "leaving"
            \/ Life(r) \in {"kept", "leaving"} /\ after = "left"
        BY <2>3, <3>3, LifeGoesOn
      <4> HIDE DEF r, after
      <4>3. CASE after = Life(r)
        <5>1. lives' = lives
          BY <4>1, <4>3 DEF lives
        <5>2. QED
          BY <5>1
      <4>4. CASE Life(r) = "kept" /\ after = "leaving"
        BY <4>1, <4>4 DEF Lives!Leave, Lives!Become
      <4>5. CASE Life(r) \in {"kept", "leaving"} /\ after = "left"
        BY <4>1, <4>5 DEF Lives!Vanish, Lives!Become
      <4>6. QED
        BY <4>2, <4>3, <4>4, <4>5
    <3>4. CASE record' = None /\ record # None
      <4>1. PICK r \in Provisions : record.row = r /\ prov[r] = "ok"
        BY <3>4 DEF GoneInv, TypeInv, TypeOK, RowsStored, Stored, Record
      <4>2. ~Exists(r) /\ prov' = prov
        BY <2>3, <3>4, <4>1, RecordGoesLast
      <4>3. Life(r) = "left" /\ Life(r)' = "gone"
        BY <3>4, <4>1, <4>2 DEF Life
      <4>4. ASSUME NEW q \in Provisions, q # r
            PROVE  Life(q)' = Life(q)
        BY <3>4, <4>1, <4>2, <4>4 DEF Life
      <4>5. lives' = [lives EXCEPT ![r] = "gone"] /\ lives[r] = "left"
        BY <4>3, <4>4 DEF lives
      <4>6. QED
        BY <4>5 DEF Lives!End, Lives!Become
    <3>5. QED
      BY <3>1, <3>2, <3>3, <3>4
  <2>4. QED
    BY <2>1, <2>2, <2>3
<1>3. GoneInv /\ [Next]_vars => GoneInv'
  BY GoneInvNext
<1>4. QED
  BY GoneInvInit, <1>1, <1>2, <1>3, PTL DEF Spec, KeepsLifecycle, Lives!Spec
=============================================================================
