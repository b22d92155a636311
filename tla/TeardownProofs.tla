---------------------------- MODULE TeardownProofs ----------------------------
(***************************************************************************)
(* Theorems of Teardown, for any number of requests, wherever they fail or *)
(* stop: a Deprovision finds every login by a row and, once it is through, *)
(* has ended it or named it in its log; on MySQL for any platform, on      *)
(* PostgreSQL, where all bindings of an instance share one SQL user, for   *)
(* an orderly one.  Types are kept for any platform.                       *)
(***************************************************************************)
EXTENDS Teardown, BindingProofs

-----------------------------------------------------------------------------
(* The inductive invariant.                                                *)

RemoverTypes ==
    /\ {database, recorded} \subseteq BOOLEAN
    /\ removal \in [Removers -> {"idle", "dropDB", "rows"}]
    /\ todrop \in [Removers -> SUBSET Attempts]
    /\ toforget \in [Removers -> SUBSET Attempts]
    /\ missed \subseteq Names

\* What Bind and Unbind keep of the rows and the SQL users, but for those in M.
RowsInv(M) == IF Engine = "postgres" THEN PostgresInv(M) ELSE MysqlRows(M)

\* The rows in R lead to every SQL user that can log in and is not in the log.
Reach(R) ==
    \A n \in Names : role[n] = "login" => n \in missed \/ \E r \in R : Username(r) = n

\* A running Deprovision has the instance for itself: it has loaded every row, and
\* what it has yet to drop leads to all that can still log in.
Exclusive ==
    \A d \in Removers : removal[d] # "idle" =>
        /\ Quiet
        /\ users \subseteq toforget[d]
        /\ Reach(todrop[d])
        /\ removal[d] = "rows" => ~database

\* Nothing is left of an instance without a record, nor is a request running.
Removed ==
    ~recorded =>
        /\ Quiet
        /\ ~database
        /\ users = {}
        /\ Reach({})

TeardownInv ==
    /\ RowsInv(missed)
    /\ RemoverTypes
    /\ Exclusive
    /\ Removed

\* What the proofs ask of the platform: nothing on MySQL; on PostgreSQL it does not
\* unbind an ID it is still binding.
OrderlyOnPostgres == Engine = "postgres" => Orderly

\* The rows lead to the SQL users.
LEMMA RowsReach ==
    ASSUME RowsInv(missed)
    PROVE  TypeInv /\ Reach(users)
<1>1. CASE Engine = "postgres"
  BY <1>1 DEF RowsInv, PostgresInv, TypeInv, TypeOK, OwnerRecorded, Reach, Username, Names
<1>2. CASE Engine # "postgres"
  BY <1>2 DEF RowsInv, MysqlRows, Recorded, Reach, Username, Names
<1>3. QED
  BY <1>1, <1>2

\* The invariant holds initially.
LEMMA TeardownInvInit == TeardownInit => TeardownInv
<1> SUFFICES ASSUME TeardownInit
             PROVE  TeardownInv
  OBVIOUS
<1>1. RowsInv(missed)
  <2>1. PostgresInv({}) /\ MysqlRows({})
    BY PostgresInvInit, MysqlInvInit DEF TeardownInit, MysqlInv
  <2>2. QED
    BY <2>1 DEF TeardownInit, RowsInv
<1>2. QED
  BY <1>1 DEF TeardownInit, TeardownInv, RemoverTypes, Exclusive, Removed

\* What goes on when Bind and Unbind are quiet has been let in.
LEMMA QuietServesNobody ==
    ASSUME TypeInv, Quiet, Serve
    PROVE  Open
<1>1. \A a \in Attempts : ~BindFail(a) /\ ~BindStep(a)
  BY DEF Quiet, InFlight, BindSteps, BindFail, BindStep, BindSaveNew, BindSaveExisting,
         BindSaveRejected, BindCheckRole, BindAlterRole, BindCreateRole,
         BindGrant, BindReply
<1>2. \A u \in Unbinders : ~UnbindFail(u) /\ ~UnbindStep(u)
  BY DEF Quiet, UnbindSteps, UnbindFail, UnbindStep, UnbindUnlink, UnbindRevoke,
         UnbindRevokeRefused, UnbindDrop, UnbindDeleteUser, UnbindDeleteUserError
<1>3. QED
  BY <1>1, <1>2 DEF Serve

\* Binds and Unbinds are steps of Binding.
LEMMA ServeIsBinding == Serve => Next
BY DEF Serve, Next

\* Steps of Binding leave the rows in order while no Deprovision logs anything.
LEMMA BindingKeepsRows ==
    ASSUME OrderlyOnPostgres, RowsInv(missed), [Next]_vars, missed' = missed
    PROVE  RowsInv(missed)'
<1>1. PICK M : M = missed
  OBVIOUS
<1>2. CASE Engine = "postgres"
  <2>1. PostgresInv(M)'
    BY <1>1, <1>2, PostgresInvNext DEF RowsInv, OrderlyOnPostgres
  <2>2. QED
    BY <1>1, <1>2, <2>1 DEF RowsInv, PostgresInv, OwnerRecorded
<1>3. CASE Engine # "postgres"
  <2>1. Engine = "mysql"
    BY <1>3, ConstantsAssumption
  <2>2. MysqlRows(M)'
    BY <1>1, <1>3, <2>1, MysqlRowsNext DEF RowsInv
  <2>3. QED
    BY <1>1, <1>3, <2>2 DEF RowsInv, MysqlRows, Recorded
<1>4. QED
  BY <1>2, <1>3

\* A step of Bind or Unbind preserves the invariant.
LEMMA ServeKeeps ==
    ASSUME OrderlyOnPostgres, TeardownInv, Serve
    PROVE  TeardownInv'
<1>1. UNCHANGED <<database, recorded, removal, todrop, toforget, missed>>
  BY DEF Serve, instance, removers
<1>2. RowsInv(missed)'
  BY <1>1, ServeIsBinding, BindingKeepsRows DEF TeardownInv
<1>3. recorded /\ \A d \in Removers : removal[d] = "idle"
  <2>1. CASE Quiet
    BY <2>1, QuietServesNobody, RowsReach DEF TeardownInv, Open
  <2>2. CASE ~Quiet
    BY <2>2 DEF TeardownInv, Exclusive, Removed
  <2>3. QED
    BY <2>1, <2>2
<1>4. QED
  BY <1>1, <1>2, <1>3 DEF TeardownInv, RemoverTypes, Exclusive, Removed

\* So does a refusal for want of the database.
LEMMA RefusalKeeps ==
    ASSUME TeardownInv,
           \/ \E a \in Attempts : BindGrantRefused(a)
           \/ \E u \in Unbinders : UnbindWithoutDatabase(u)
    PROVE  TeardownInv'
<1>0. Engine = "postgres" /\ PostgresInv(missed)
  BY ConstantsAssumption
  DEF TeardownInv, RowsInv, BindGrantRefused, UnbindWithoutDatabase, CanGrant
<1> USE DEF PostgresInv, TypeInv, TypeOK, UnbindInv, Settled, Unknown, Unsaved, CreatorKept, Creating,
            UnbindsAnswered, OwnerRecorded, MaybeUser, Names, instance, removers, rows, sql, binders,
            unbinders, platform
<1>1. recorded /\ \A d \in Removers : removal[d] = "idle"
  <2>1. ~Quiet
    BY DEF BindGrantRefused, UnbindWithoutDatabase, Quiet, InFlight, BindSteps
  <2>2. QED
    BY <2>1 DEF TeardownInv, Exclusive, Removed
<1>2. ASSUME NEW a \in Attempts, BindGrantRefused(a)
      PROVE  PostgresInv(missed)' /\ UNCHANGED <<instance, removers, missed>>
  BY <1>0, <1>2 DEF BindGrantRefused
<1>3. ASSUME NEW u \in Unbinders, UnbindWithoutDatabase(u)
      PROVE  PostgresInv(missed)' /\ UNCHANGED <<instance, removers, missed>>
  <2>1. UNCHANGED <<rows, sql, binders, released, unbound, missed>>
    BY <1>3 DEF UnbindWithoutDatabase, Return
  <2>2. \A v \in Unbinders :
           /\ unbind'[v] = IF v = u THEN "idle" ELSE unbind[v]
           /\ removing'[v] = IF v = u THEN None ELSE removing[v]
           /\ dropping'[v] = IF v = u THEN None ELSE dropping[v]
    BY <1>0, <1>3 DEF UnbindWithoutDatabase, Return
  <2>3. TypeInv'
    BY <1>0, <1>3, <2>1, <2>2 DEF UnbindWithoutDatabase, Return
  <2>4. (Settled /\ Unknown /\ CreatorKept /\ UnbindsAnswered /\ OwnerRecorded(missed))'
    BY <1>0, <2>1, <2>2, ConstantsAssumption
  <2>5. QED
    BY <1>3, <2>3, <2>4 DEF UnbindWithoutDatabase
<1>4. PostgresInv(missed)' /\ UNCHANGED <<instance, removers, missed>>
  BY <1>2, <1>3
<1>5. QED
  BY <1>0, <1>1, <1>4 DEF TeardownInv, RowsInv, RemoverTypes, Exclusive, Removed

\* On PostgreSQL a step of Deprovision leaves the records of Bind and Unbind in order:
\* the rows go when the shared role cannot log in, or when the log has it.
LEMMA DeprovisionKeepsPostgres ==
    ASSUME Engine = "postgres", TeardownInv, NEW d \in Removers, Deprovision(d)
    PROVE  PostgresInv(missed)'
<1>0. PostgresInv(missed) /\ RemoverTypes /\ Exclusive /\ Removed
  BY DEF TeardownInv, RowsInv
<1> USE DEF RemoverTypes, Exclusive, Reach, PostgresInv, TypeInv, TypeOK, UnbindInv,
            Settled, Unknown, Unsaved, CreatorKept, Creating, UnbindsAnswered, OwnerRecorded,
            instance, removers, rows, sql, binders, unbinders, platform, Names, Username, MaybeUser
<1>1. CASE DeprovisionFind(d)
  BY <1>0, <1>1 DEF DeprovisionFind, vars
<1>2. CASE DropDB(d)
  BY <1>0, <1>2 DEF DropDB
<1>3. CASE DropUser(d)
  BY <1>0, <1>3 DEF DropUser, DroppedRole
<1>4. CASE DropUserError(d)
  BY <1>0, <1>4 DEF DropUserError, vars
<1>5. CASE ForgetBinding(d)
  BY <1>0, <1>5 DEF ForgetBinding, Forgetting, Quiet, InFlight, BindSteps
<1>6. CASE ForgetUser(d)
  BY <1>0, <1>6 DEF ForgetUser, Forgetting, Quiet, InFlight, BindSteps
<1>7. CASE ForgetInstance(d)
  BY <1>0, <1>7 DEF ForgetInstance, Forgetting, Quiet, InFlight, BindSteps
<1>8. CASE DeprovisionStops(d)
  BY <1>0, <1>8 DEF DeprovisionStops, vars
<1>9. QED
  BY <1>1, <1>2, <1>3, <1>4, <1>5, <1>6, <1>7, <1>8 DEF Deprovision

\* So it does on MySQL, where each SQL user has a row of its own.
LEMMA DeprovisionKeepsMysql ==
    ASSUME Engine = "mysql", TeardownInv, NEW d \in Removers, Deprovision(d)
    PROVE  MysqlRows(missed)'
<1>0. MysqlRows(missed) /\ RemoverTypes /\ Exclusive /\ Removed
  BY DEF TeardownInv, RowsInv
<1> USE DEF RemoverTypes, Exclusive, Reach, MysqlRows, TypeInv, TypeOK, UnbindInv,
            OwnRows, Fresh, Unsaved, OwnUser, DropsPast, Past, Recorded,
            instance, removers, rows, sql, binders, unbinders, platform, Names, Username, MaybeUser
<1>1. CASE DeprovisionFind(d)
  BY <1>0, <1>1 DEF DeprovisionFind, vars
<1>2. CASE DropDB(d)
  BY <1>0, <1>2 DEF DropDB
<1>3. CASE DropUser(d)
  BY <1>0, <1>3 DEF DropUser, DroppedRole
<1>4. CASE DropUserError(d)
  BY <1>0, <1>4 DEF DropUserError, vars
<1>5. CASE ForgetBinding(d)
  BY <1>0, <1>5 DEF ForgetBinding
<1>6. CASE ForgetUser(d)
  BY <1>0, <1>6 DEF ForgetUser, Forgetting, Quiet, InFlight, BindSteps
<1>7. CASE ForgetInstance(d)
  BY <1>0, <1>7 DEF ForgetInstance, Forgetting, Quiet, InFlight, BindSteps
<1>8. CASE DeprovisionStops(d)
  BY <1>0, <1>8 DEF DeprovisionStops, vars
<1>9. QED
  BY <1>1, <1>2, <1>3, <1>4, <1>5, <1>6, <1>7, <1>8 DEF Deprovision

\* ... and the records of Deprovision itself.
LEMMA DeprovisionKeeps ==
    ASSUME TeardownInv, NEW d \in Removers, Deprovision(d)
    PROVE  TeardownInv'
<1>0. TypeInv /\ Reach(users) /\ RemoverTypes /\ Exclusive /\ Removed
  BY RowsReach DEF TeardownInv
<1> DEFINE Rest == RemoverTypes /\ Exclusive /\ Removed
<1> USE DEF RemoverTypes, Exclusive, Removed, Reach, TypeInv, TypeOK,
            instance, removers, rows, sql, binders, unbinders, platform, Quiet, InFlight
<1>1. DeprovisionFind(d) => Rest'
  BY <1>0 DEF DeprovisionFind, vars
<1>2. DropDB(d) => Rest'
  <2> SUFFICES ASSUME DropDB(d)
               PROVE  Rest'
    OBVIOUS
  <2>1. /\ removal[d] = "dropDB"
        /\ removal' = [removal EXCEPT ![d] = "rows"]
        /\ database' = FALSE
        /\ UNCHANGED <<rows, role, binders, unbinders, recorded, todrop, toforget, missed>>
    BY DEF DropDB
  <2>2. RemoverTypes'
    BY <1>0, <2>1
  <2>3. Exclusive'
    BY <1>0, <2>1
  <2>4. QED
    BY <1>0, <2>1, <2>2, <2>3
<1>3. DropUser(d) => Rest'
  BY <1>0 DEF DropUser, DroppedRole, Username, Names
<1>4. DropUserError(d) => Rest'
  BY <1>0 DEF DropUserError, vars, Username, Names
<1>5. ForgetBinding(d) => Rest'
  BY <1>0 DEF ForgetBinding
<1>6. ForgetUser(d) => Rest'
  BY <1>0 DEF ForgetUser
<1>7. ForgetInstance(d) => Rest'
  <2> SUFFICES ASSUME ForgetInstance(d)
               PROVE  Rest'
    OBVIOUS
  <2>1. /\ removal[d] = "rows" /\ todrop[d] = {} /\ toforget[d] = {}
        /\ recorded' = FALSE /\ users' = {}
        /\ UNCHANGED <<sql, binders, unbinders, database, missed>>
    BY DEF ForgetInstance, Forgetting
  <2>2. /\ removal' = [removal EXCEPT ![d] = "idle"]
        /\ todrop' = [todrop EXCEPT ![d] = {}]
        /\ toforget' = [toforget EXCEPT ![d] = {}]
    BY DEF ForgetInstance, Ended
  <2>3. Quiet /\ ~database /\ Reach({})
    BY <1>0, <2>1
  <2>4. RemoverTypes'
    BY <1>0, <2>1, <2>2
  <2>5. (Exclusive /\ Removed)'
    BY <1>0, <2>1, <2>2, <2>3
  <2>6. QED
    BY <2>4, <2>5
<1>8. DeprovisionStops(d) => Rest'
  BY <1>0 DEF DeprovisionStops, Ended, vars
<1>9. Rest'
  BY <1>1, <1>2, <1>3, <1>4, <1>5, <1>6, <1>7, <1>8 DEF Deprovision
<1>10. RowsInv(missed)'
  <2>1. Engine = "postgres" \/ Engine = "mysql"
    BY ConstantsAssumption
  <2>2. QED
    BY <2>1, DeprovisionKeepsPostgres, DeprovisionKeepsMysql DEF RowsInv
<1>11. QED
  BY <1>9, <1>10 DEF TeardownInv

\* Every step preserves the invariant.
LEMMA TeardownInvNext ==
    ASSUME OrderlyOnPostgres, TeardownInv, [TeardownNext]_allvars
    PROVE  TeardownInv'
<1>1. CASE UNCHANGED allvars
  <2>1. RowsInv(missed)'
    BY <1>1, BindingKeepsRows DEF TeardownInv, allvars
  <2>2. QED
    BY <1>1, <2>1 DEF TeardownInv, allvars, vars, RemoverTypes, Exclusive, Removed, Reach, Quiet,
                      InFlight, instance, removers
<1>2. QED
  BY <1>1, ServeKeeps, RefusalKeeps, DeprovisionKeeps DEF TeardownNext

-----------------------------------------------------------------------------
(* Type correctness, for either engine, any platform and any failures.     *)

TeardownTypes == TypeInv /\ RemoverTypes

\* A step of Bind or Unbind, refused or not, keeps the types.
LEMMA RequestsKeepTypes ==
    ASSUME TeardownTypes,
           \/ Serve
           \/ \E a \in Attempts : BindGrantRefused(a)
           \/ \E u \in Unbinders : UnbindWithoutDatabase(u)
    PROVE  TeardownTypes'
<1> USE DEF TeardownTypes, RemoverTypes, instance, removers
<1>1. CASE Serve
  BY <1>1, ServeIsBinding, TypeInvNext DEF Serve
<1>2. ASSUME NEW a \in Attempts, BindGrantRefused(a)
      PROVE  TeardownTypes'
  BY <1>2 DEF BindGrantRefused, TypeInv, TypeOK, UnbindInv, rows, sql, unbinders, platform, Names
<1>3. ASSUME NEW u \in Unbinders, UnbindWithoutDatabase(u)
      PROVE  TeardownTypes'
  BY <1>3 DEF UnbindWithoutDatabase, Return, TypeInv, TypeOK, UnbindInv, MaybeUser, rows, sql,
              binders, Names
<1>4. QED
  BY <1>1, <1>2, <1>3

\* So does a step of Deprovision.
LEMMA DeprovisionKeepsTypes ==
    ASSUME TeardownTypes, NEW d \in Removers, Deprovision(d)
    PROVE  TeardownTypes'
<1> USE DEF TeardownTypes, RemoverTypes, TypeInv, TypeOK, UnbindInv, MaybeUser, instance, removers,
            rows, sql, binders, unbinders, platform
<1>1. CASE DeprovisionFind(d)
  BY <1>1 DEF DeprovisionFind, vars
<1>2. CASE DropDB(d)
  BY <1>2 DEF DropDB
<1>3. CASE DropUser(d)
  BY <1>3 DEF DropUser, DroppedRole, Names, Username
<1>4. CASE DropUserError(d)
  BY <1>4 DEF DropUserError, vars, Names, Username
<1>5. CASE ForgetBinding(d)
  BY <1>5 DEF ForgetBinding
<1>6. CASE ForgetUser(d)
  BY <1>6 DEF ForgetUser
<1>7. CASE ForgetInstance(d)
  BY <1>7 DEF ForgetInstance, Ended
<1>8. CASE DeprovisionStops(d)
  BY <1>8 DEF DeprovisionStops, Ended, vars
<1>9. QED
  BY <1>1, <1>2, <1>3, <1>4, <1>5, <1>6, <1>7, <1>8 DEF Deprovision

\* Every variable keeps its type, whatever overlaps, fails or is sent again
\* (broker.go, Bind, Unbind and Deprovision).
THEOREM TeardownTypeCorrect == TeardownSpec => []TeardownTypeOK
<1>1. TeardownInit => TeardownTypes
  BY TypeInvInit DEF TeardownInit, TeardownTypes, RemoverTypes
<1>2. TeardownTypes /\ [TeardownNext]_allvars => TeardownTypes'
  <2>1. CASE TeardownTypes /\ UNCHANGED allvars
    BY <2>1, TypeInvNext DEF TeardownTypes, RemoverTypes, allvars, instance, removers
  <2>2. QED
    BY <2>1, RequestsKeepTypes, DeprovisionKeepsTypes DEF TeardownNext
<1>3. TeardownTypes => TeardownTypeOK
  BY DEF TeardownTypes, RemoverTypes, TypeInv, TeardownTypeOK
<1>4. QED
  BY <1>1, <1>2, <1>3, PTL DEF TeardownSpec

-----------------------------------------------------------------------------
\* While the instance is recorded, a row or the log leads to every SQL user that can
\* log in, wherever a request stopped and whatever failed in a Deprovision
\* (broker.go, Bind, Unbind, Deprovision).
THEOREM TeardownLoginsAreFound ==
    ASSUME OrderlyOnPostgres
    PROVE  TeardownSpec => []LoginsAreFound
<1>1. TeardownInv /\ [TeardownNext]_allvars => TeardownInv'
  BY TeardownInvNext
<1>2. TeardownInv => LoginsAreFound
  BY RowsReach DEF TeardownInv, Reach, LoginsAreFound
<1>3. QED
  BY TeardownInvInit, <1>1, <1>2, PTL DEF TeardownSpec

\* When the record is gone, however often Deprovision was cut short and sent again,
\* there is no database, and only an SQL user that the log of a Deprovision names
\* can log in (broker.go, Deprovision).
THEOREM TeardownEndsLogins ==
    ASSUME OrderlyOnPostgres
    PROVE  TeardownSpec => []TeardownIsComplete
<1>1. TeardownInv /\ [TeardownNext]_allvars => TeardownInv'
  BY TeardownInvNext
<1>2. TeardownInv => TeardownIsComplete
  BY DEF TeardownInv, Removed, Reach, TeardownIsComplete
<1>3. QED
  BY TeardownInvInit, <1>1, <1>2, PTL DEF TeardownSpec
=============================================================================
