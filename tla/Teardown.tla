------------------------------ MODULE Teardown ------------------------------
(***************************************************************************)
(* RDSBroker.Deprovision of an instance on a shared plan (broker.go),      *)
(* composed with Binding: the database, the SQL users of the bindings that *)
(* are left and the rows go one after another, while earlier Binds and     *)
(* Unbinds may have stopped anywhere, and a Deprovision that stopped is    *)
(* sent again.                                                             *)
(*                                                                         *)
(* The platform locks an instance while it is deleted: it does not send a  *)
(* Bind or an Unbind before the Deprovision is over, nor a Deprovision     *)
(* while a Bind or an Unbind is under way.                                 *)
(***************************************************************************)
EXTENDS Binding

CONSTANTS
    Removers,  \* Deprovision requests in flight at one time
    Breaks     \* what may go wrong in Deprovision

ASSUME BreaksAssumption == Breaks \subseteq {"dropDB", "dropUser", "delete", "die"}

VARIABLES
    database,  \* the instance has its database
    recorded,  \* the DBInstance row exists
    removal,   \* removal[d]: the next step of Deprovision
    todrop,    \* todrop[d]: the loaded DBUser rows whose SQL users it has yet to drop
    toforget,  \* toforget[d]: the loaded DBUser rows it has yet to delete
    missed     \* SQL users that a Deprovision failed to drop, as its log says

instance == <<database, recorded>>
removers == <<removal, todrop, toforget>>
allvars == <<vars, instance, removers, missed>>

TeardownTypeOK ==
    /\ TypeOK
    /\ {database, recorded} \subseteq BOOLEAN
    /\ removal \in [Removers -> {"idle", "dropDB", "rows"}]
    /\ todrop \in [Removers -> SUBSET Attempts]
    /\ toforget \in [Removers -> SUBSET Attempts]
    /\ missed \subseteq Names

\* Provision has made the database and its record.
TeardownInit ==
    /\ Init
    /\ database = TRUE
    /\ recorded = TRUE
    /\ removal = [d \in Removers |-> "idle"]
    /\ todrop = [d \in Removers |-> {}]
    /\ toforget = [d \in Removers |-> {}]
    /\ missed = {}

-----------------------------------------------------------------------------
(* Bind and Unbind on an instance that may be half removed.                *)

\* findObjects finds the instance, and the platform may send it a request.
Open == recorded /\ \A d \in Removers : removal[d] = "idle"

\* GRANT and REVOKE name the database; PostgreSQL asks for it to exist.
CanGrant == database \/ Engine = "mysql"

\* A step of Bind or Unbind that does not need the database, or has it.
Serve ==
    /\ \/ \E a \in Attempts :
             \/ Open /\ BindFind(a)
             \/ BindStep(a) /\ (bind[a] = "grant" => CanGrant)
             \/ BindFail(a)
       \/ \E u \in Unbinders :
             \/ UnbindStep(u) /\ (unbind[u] = "revoke" => CanGrant)
             \/ UnbindFail(u)
       \/ \E id \in BindingIds :
             Open /\ (UnbindUnknown(id) \/ \E u \in Unbinders : UnbindFind(u, id))
    /\ UNCHANGED <<instance, removers, missed>>

BindGrantRefused(a) ==
    /\ bind[a] = "grant"
    /\ ~CanGrant
    /\ bind' = [bind EXCEPT ![a] = "failed"]
    /\ UNCHANGED <<rows, sql, view, chosen, unbinders, platform, instance, removers, missed>>

UnbindWithoutDatabase(u) ==
    /\ unbind[u] = "revoke"
    /\ ~CanGrant
    /\ Return(u, {})
    /\ UNCHANGED <<rows, sql, binders, instance, removers, missed>>

-----------------------------------------------------------------------------
(* Deprovision.                                                            *)

\* findObjects loads the DBUser rows.  (The master user's row goes the same way;
\* a shared instance has no SQL user of that name.)
DeprovisionFind(d) ==
    /\ removal[d] = "idle"
    /\ recorded
    /\ Quiet
    /\ removal' = [removal EXCEPT ![d] = "dropDB"]
    /\ todrop' = [todrop EXCEPT ![d] = users]
    /\ toforget' = [toforget EXCEPT ![d] = users]
    /\ UNCHANGED <<vars, instance, missed>>

\* Mutant: an error of DROP DATABASE is logged as that of DROP USER is.
DropDBUnchecked(d) ==
    /\ removal[d] = "dropDB"
    /\ database' \in {FALSE} \cup {database : x \in Breaks \cap {"dropDB"}}
    /\ granted' = IF Engine = "postgres" /\ ~database' THEN {} ELSE granted
    /\ removal' = [removal EXCEPT ![d] = "rows"]
    /\ UNCHANGED <<rows, role, password, binders, unbinders, platform, recorded, todrop,
                   toforget, missed>>

\* DROP DATABASE IF EXISTS; on PostgreSQL the privileges on it go as well.
DropDB(d) ==
    /\ removal[d] = "dropDB"
    /\ database' = FALSE
    /\ granted' = IF Engine = "postgres" THEN {} ELSE granted
    /\ removal' = [removal EXCEPT ![d] = "rows"]
    /\ UNCHANGED <<rows, role, password, binders, unbinders, platform, recorded, todrop,
                   toforget, missed>>

\* DropUser of a loaded row; that there is no such SQL user is only logged.
DropUser(d) ==
    /\ removal[d] = "rows"
    /\ \E r \in todrop[d] :
          /\ todrop' = [todrop EXCEPT ![d] = @ \ {r}]
          /\ role' = [role EXCEPT ![Username(r)] = IF @ = "absent" THEN @ ELSE DroppedRole]
          /\ granted' = IF Engine = "mysql" THEN granted \ {Username(r)} ELSE granted
          /\ missed' = missed \ {Username(r)}
    /\ UNCHANGED <<rows, password, binders, unbinders, platform, instance, removal, toforget>>

\* "log and move on because the database is gone"
DropUserError(d) ==
    /\ removal[d] = "rows"
    /\ "dropUser" \in Breaks
    /\ \E r \in todrop[d] :
          /\ todrop' = [todrop EXCEPT ![d] = @ \ {r}]
          /\ missed' = missed \cup {Username(r)}
    /\ UNCHANGED <<vars, instance, removal, toforget>>

Forgetting(d) == removal[d] = "rows" /\ todrop[d] = {}

\* Mutant: the rows of a user are deleted before the others' SQL users are dropped.
ForgetUserEarly(d) ==
    /\ removal[d] = "rows"
    /\ \E r \in toforget[d] :
          /\ \A c \in Attempts : bindings[c] # r
          /\ users' = users \ {r}
          /\ toforget' = [toforget EXCEPT ![d] = @ \ {r}]
    /\ UNCHANGED <<bindings, sql, binders, unbinders, platform, instance, removal, todrop, missed>>

\* DBInstance.Delete deletes row by row: the bindings of a user ...
ForgetBinding(d) ==
    /\ Forgetting(d)
    /\ \E c \in Attempts :
          /\ bindings[c] \in toforget[d]
          /\ bindings' = [bindings EXCEPT ![c] = None]
    /\ UNCHANGED <<users, sql, binders, unbinders, platform, instance, removers, missed>>

\* ... the user ...
ForgetUser(d) ==
    /\ Forgetting(d)
    /\ \E r \in toforget[d] :
          /\ \A c \in Attempts : bindings[c] # r
          /\ users' = users \ {r}
          /\ toforget' = [toforget EXCEPT ![d] = @ \ {r}]
    /\ UNCHANGED <<bindings, sql, binders, unbinders, platform, instance, removal, todrop, missed>>

Ended(d) ==
    /\ removal' = [removal EXCEPT ![d] = "idle"]
    /\ todrop' = [todrop EXCEPT ![d] = {}]
    /\ toforget' = [toforget EXCEPT ![d] = {}]

\* ... and the instance; the foreign keys would take rows that are left with it.
ForgetInstance(d) ==
    /\ Forgetting(d)
    /\ toforget[d] = {}
    /\ recorded' = FALSE
    /\ users' = {}
    /\ bindings' = [c \in Attempts |-> None]
    /\ Ended(d)
    /\ UNCHANGED <<sql, binders, unbinders, platform, database, missed>>

\* DROP DATABASE fails and Deprovision with it; an error of DBInstance.Delete is
\* only logged and ends it as well; or the broker dies.
DeprovisionStops(d) ==
    /\ \/ removal[d] = "dropDB" /\ "dropDB" \in Breaks
       \/ Forgetting(d) /\ "delete" \in Breaks
       \/ removal[d] # "idle" /\ "die" \in Breaks
    /\ Ended(d)
    /\ UNCHANGED <<vars, instance, missed>>

Deprovision(d) ==
    \/ DeprovisionFind(d) \/ DropDB(d) \/ DropUser(d) \/ DropUserError(d)
    \/ ForgetBinding(d) \/ ForgetUser(d) \/ ForgetInstance(d) \/ DeprovisionStops(d)

TeardownNext ==
    \/ Serve
    \/ \E a \in Attempts : BindGrantRefused(a)
    \/ \E u \in Unbinders : UnbindWithoutDatabase(u)
    \/ \E d \in Removers : Deprovision(d)

TeardownSpec == TeardownInit /\ [][TeardownNext]_allvars

-----------------------------------------------------------------------------
(* Properties.                                                             *)

\* For as long as the instance has its record, a Deprovision finds every SQL user
\* that can log in by a row, wherever a Bind, an Unbind or an earlier Deprovision
\* stopped (broker.go, the order of the steps of the three handlers).
LoginsAreFound ==
    recorded => \A n \in Names :
        role[n] = "login" => n \in missed \/ \E r \in users : Username(r) = n

\* Once the record is gone, so are the database and every login, but for those
\* that the log of a Deprovision names: nothing else knows of them any more
\* (broker.go, Deprovision).
TeardownIsComplete ==
    ~recorded =>
        /\ ~database
        /\ \A n \in Names : role[n] = "login" => n \in missed
=============================================================================
