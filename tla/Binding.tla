------------------------------- MODULE Binding -------------------------------
(***************************************************************************)
(* RDSBroker.Bind and RDSBroker.Unbind (rdsbroker/broker.go) over one      *)
(* service instance whose record exists, with the DBUser and DBBinding     *)
(* rows they keep (internaldb/models.go) and the SQL users they create and *)
(* drop (sqlengine/).  Every HTTP request runs in its own goroutine, the   *)
(* broker takes no lock, and each call to a database commits on its own:   *)
(* one action is one such call.                                            *)
(*                                                                         *)
(* An attempt is one Bind request.  It also names what that request may    *)
(* create: the DBUser row with its random password, the DBBinding row and, *)
(* on MySQL, the random username.                                          *)
(***************************************************************************)
EXTENDS Naturals

CONSTANTS
    Attempts,      \* Bind requests
    BindingIds,    \* binding IDs the platform uses
    BindingOf,     \* the ID each request carries; a retry repeats an ID
    Unbinders,     \* Unbind requests in flight at one time
    Engine,        \* engine of the instance's plan
    SharedName,    \* the username PostgresEngine.CreateUsername always returns
    Faults,        \* steps at which a handler may fail or die
    Serial,        \* the platform sends one request at a time
    Orderly,       \* no Unbind overlaps or precedes a Bind of the same ID
    SaveUpserts,   \* gorm's Save inserts a row that has vanished
    None

BindSteps == {"save", "check", "alter", "create", "grant", "reply"}
UnbindSteps == {"unlink", "revoke", "drop", "delete"}

ASSUME ConstantsAssumption ==
    /\ BindingOf \in [Attempts -> BindingIds]
    /\ Engine \in {"mysql", "postgres"}
    /\ SharedName \notin Attempts
    /\ None \notin Attempts
    /\ Faults \subseteq BindSteps \cup UnbindSteps \cup {"deleteUser"}
    /\ {Serial, Orderly, SaveUpserts} \subseteq BOOLEAN

VARIABLES
    users,      \* the Standard DBUser rows that exist
    bindings,   \* bindings[a]: the DBUser of the DBBinding row a inserted, or None
    role,       \* role[n]: the SQL user named n
    password,   \* password[n]: the DBUser row whose password it has
    granted,    \* the SQL users with privileges on the instance's database
    bind,       \* bind[a]: the next step of Bind
    view,       \* view[a]: the rows FindInstance loaded, while they are in use
    chosen,     \* chosen[a]: the DBUser row Bind returns the credentials of
    unbind,     \* unbind[u]: the next step of Unbind
    removing,   \* removing[u]: the DBBinding it deletes
    dropping,   \* dropping[u]: the DBUser it drops, None if others still use it
    released,   \* binding IDs of which Unbind has been requested
    unbound     \* binding IDs of which Unbind has reported success

rows == <<users, bindings>>
sql == <<role, password, granted>>
binders == <<bind, view, chosen>>
unbinders == <<unbind, removing, dropping>>
platform == <<released, unbound>>
vars == <<users, bindings, role, password, granted, bind, view, chosen,
          unbind, removing, dropping, released, unbound>>

Names == Attempts \cup {SharedName}
MaybeUser == Attempts \cup {None}
View == [users : SUBSET Attempts, bindings : [Attempts -> MaybeUser]]
NoView == [users |-> {}, bindings |-> [a \in Attempts |-> None]]

TypeOK ==
    /\ users \subseteq Attempts
    /\ bindings \in [Attempts -> MaybeUser]
    /\ role \in [Names -> {"absent", "login", "nologin"}]
    /\ password \in [Names -> MaybeUser]
    /\ granted \subseteq Names
    /\ bind \in [Attempts -> BindSteps \cup {"idle", "ok", "failed"}]
    /\ view \in [Attempts -> View]
    /\ chosen \in [Attempts -> MaybeUser]
    /\ unbind \in [Unbinders -> UnbindSteps \cup {"idle"}]
    /\ removing \in [Unbinders -> MaybeUser]
    /\ dropping \in [Unbinders -> MaybeUser]
    /\ released \subseteq BindingIds
    /\ unbound \subseteq released

Init ==
    /\ users = {}
    /\ bindings = [a \in Attempts |-> None]
    /\ role = [n \in Names |-> "absent"]
    /\ password = [n \in Names |-> None]
    /\ granted = {}
    /\ bind = [a \in Attempts |-> "idle"]
    /\ view = [a \in Attempts |-> NoView]
    /\ chosen = [a \in Attempts |-> None]
    /\ unbind = [u \in Unbinders |-> "idle"]
    /\ removing = [u \in Unbinders |-> None]
    /\ dropping = [u \in Unbinders |-> None]
    /\ released = {}
    /\ unbound = {}

-----------------------------------------------------------------------------
(* What the helpers of the handlers compute.                               *)

\* CreateUsername: random on MySQL, made from the instance ID on PostgreSQL.
\* The username of the DBUser row that attempt a creates.
Username(a) == IF Engine = "postgres" THEN SharedName ELSE a

\* DBInstance.User: the rows of a view that have a's username.
User(v, a) == {r \in v.users : Username(r) = Username(a)}

\* Mutant: BindingUser takes any binding of the instance.
AnyBindingUser(id) == {c \in Attempts : bindings[c] \in users}

\* DBInstance.BindingUser: the DBBinding rows that carry id and hang off a
\* loaded DBUser.  Several match when a Bind was retried; no query orders them.
BindingUser(id) ==
    {c \in Attempts : BindingOf[c] = id /\ bindings[c] \in users}

\* Mutant: the count is taken after the delete, or is compared with 0 before it.
IsLastOffByOne(c) == \A d \in Attempts : bindings[d] # bindings[c]

\* Mutant: every binding counts as the last.
IsLastAlways(c) == bindings[c] # None

\* DBInstance.Unbind: c is the only DBBinding of its DBUser.
IsLast(c) == \A d \in Attempts : bindings[d] = bindings[c] => d = c

\* gorm's Save of the DBUser rows U of view v saves the bindings loaded with
\* them.  When Save inserts rows that have vanished, so do those bindings, and
\* the foreign key rejects one whose DBUser is gone.
SaveAccepted(v, U) ==
    SaveUpserts => \A c \in Attempts : v.bindings[c] \in U => v.bindings[c] \in users

SavedBindings(v, U) ==
    [c \in Attempts |->
        IF SaveUpserts /\ v.bindings[c] \in U THEN v.bindings[c] ELSE bindings[c]]

\* The platform's side: what may be in flight when it sends a request.
InFlight(a) == bind[a] \in BindSteps
Quiet == /\ \A a \in Attempts : ~InFlight(a)
         /\ \A u \in Unbinders : unbind[u] = "idle"
MaySend == Serial => Quiet

-----------------------------------------------------------------------------
(* Bind.                                                                   *)

\* findObjects loads the instance; on a dedicated plan Bind then describes it
\* and connects, which changes nothing (a failure there is a fault at "save").
BindFind(a) ==
    /\ bind[a] = "idle"
    /\ MaySend
    /\ Orderly => BindingOf[a] \notin released
    /\ bind' = [bind EXCEPT ![a] = "save"]
    /\ view' = [view EXCEPT ![a] = [users |-> users, bindings |-> bindings]]
    /\ UNCHANGED <<rows, sql, chosen, unbinders, platform>>

\* DBInstance.Bind with a username the view does not have: NewUser and Save.
\* The new DBUser belongs to the loaded DBInstance, so the whole view is saved.
BindSaveNew(a) ==
    /\ bind[a] = "save"
    /\ User(view[a], a) = {}
    /\ SaveAccepted(view[a], view[a].users)
    /\ users' = users \cup {a} \cup (IF SaveUpserts THEN view[a].users ELSE {})
    /\ bindings' = [SavedBindings(view[a], view[a].users) EXCEPT ![a] = a]
    /\ chosen' = [chosen EXCEPT ![a] = a]
    /\ bind' = [bind EXCEPT ![a] = IF Engine = "postgres" THEN "check" ELSE "create"]
    /\ view' = [view EXCEPT ![a] = NoView]
    /\ UNCHANGED <<sql, unbinders, platform>>

\* DBInstance.Bind with a username that has a DBUser: one more DBBinding.
BindSaveExisting(a) ==
    /\ bind[a] = "save"
    /\ \E r \in User(view[a], a) \cap users :
          /\ bindings' = [SavedBindings(view[a], {r}) EXCEPT ![a] = r]
          /\ chosen' = [chosen EXCEPT ![a] = r]
    /\ bind' = [bind EXCEPT ![a] = "reply"]
    /\ view' = [view EXCEPT ![a] = NoView]
    /\ UNCHANGED <<users, sql, unbinders, platform>>

\* The foreign key of a DBBinding rejects the Save: the DBUser it refers to was
\* deleted after the view was loaded.
BindSaveRejected(a) ==
    /\ bind[a] = "save"
    /\ \/ /\ User(view[a], a) = {}
          /\ ~SaveAccepted(view[a], view[a].users)
       \/ User(view[a], a) \ users # {}
    /\ bind' = [bind EXCEPT ![a] = "failed"]
    /\ view' = [view EXCEPT ![a] = NoView]
    /\ UNCHANGED <<rows, sql, chosen, unbinders, platform>>

\* PostgresEngine.CreateUser asks whether the role exists ...
BindCheckRole(a) ==
    /\ bind[a] = "check"
    /\ bind' = [bind EXCEPT ![a] =
          IF role[Username(a)] = "absent" THEN "create" ELSE "alter"]
    /\ UNCHANGED <<rows, sql, view, chosen, unbinders, platform>>

\* ... and gives an existing one the password and the right to log in ...
BindAlterRole(a) ==
    /\ bind[a] = "alter"
    /\ role' = [role EXCEPT ![Username(a)] = "login"]
    /\ password' = [password EXCEPT ![Username(a)] = a]
    /\ bind' = [bind EXCEPT ![a] = "grant"]
    /\ UNCHANGED <<rows, granted, view, chosen, unbinders, platform>>

\* ... or creates it, as MySQLEngine.CreateUser always does, which fails when the
\* name is taken by then.
BindCreateRole(a) ==
    /\ bind[a] = "create"
    /\ IF role[Username(a)] = "absent"
       THEN /\ role' = [role EXCEPT ![Username(a)] = "login"]
            /\ password' = [password EXCEPT ![Username(a)] = a]
            /\ bind' = [bind EXCEPT ![a] = "grant"]
       ELSE /\ bind' = [bind EXCEPT ![a] = "failed"]
            /\ UNCHANGED <<role, password>>
    /\ UNCHANGED <<rows, granted, view, chosen, unbinders, platform>>

\* GrantPrivileges.  The SQL user exists: PostgreSQL roles are never removed,
\* and on MySQL none is dropped before it has had privileges to revoke.
BindGrant(a) ==
    /\ bind[a] = "grant"
    /\ granted' = granted \cup {Username(a)}
    /\ bind' = [bind EXCEPT ![a] = "reply"]
    /\ UNCHANGED <<rows, role, password, view, chosen, unbinders, platform>>

\* Bind returns the username and password of the chosen DBUser.
BindReply(a) ==
    /\ bind[a] = "reply"
    /\ bind' = [bind EXCEPT ![a] = "ok"]
    /\ UNCHANGED <<rows, sql, view, chosen, unbinders, platform>>

\* A call fails, or the broker dies before making it (or before replying):
\* Bind undoes nothing.
BindFail(a) ==
    /\ InFlight(a)
    /\ bind[a] \in Faults
    /\ bind' = [bind EXCEPT ![a] = "failed"]
    /\ view' = [view EXCEPT ![a] = NoView]
    /\ UNCHANGED <<rows, sql, chosen, unbinders, platform>>

-----------------------------------------------------------------------------
(* Unbind.                                                                 *)

MayUnbind(id) ==
    /\ MaySend
    /\ Orderly => \A a \in Attempts : BindingOf[a] = id => ~InFlight(a)

\* findObjects and BindingUser: whether this is the last binding of its DBUser
\* is decided on the view loaded here.
UnbindFind(u, id) ==
    /\ unbind[u] = "idle"
    /\ MayUnbind(id)
    /\ released' = released \cup {id}
    /\ \E c \in BindingUser(id) :
          /\ removing' = [removing EXCEPT ![u] = c]
          /\ dropping' = [dropping EXCEPT ![u] = IF IsLast(c) THEN bindings[c] ELSE None]
    /\ unbind' = [unbind EXCEPT ![u] = "unlink"]
    /\ UNCHANGED <<rows, sql, binders, unbound>>

\* "Unknown binding ID".
UnbindUnknown(id) ==
    /\ MayUnbind(id)
    /\ BindingUser(id) = {}
    /\ released' = released \cup {id}
    /\ UNCHANGED <<rows, sql, binders, unbinders, unbound>>

\* The handler returns: with success when id is given, with an error otherwise.
Return(u, ids) ==
    /\ unbind' = [unbind EXCEPT ![u] = "idle"]
    /\ removing' = [removing EXCEPT ![u] = None]
    /\ dropping' = [dropping EXCEPT ![u] = None]
    /\ unbound' = unbound \cup ids
    /\ UNCHANGED released

\* db.Delete of the DBBinding.  Nothing else to do when others use the DBUser.
UnbindUnlink(u) ==
    /\ unbind[u] = "unlink"
    /\ bindings' = [bindings EXCEPT ![removing[u]] = None]
    /\ \/ /\ dropping[u] = None
          /\ Return(u, {BindingOf[removing[u]]})
       \/ /\ dropping[u] # None
          /\ unbind' = [unbind EXCEPT ![u] = "revoke"]
          /\ UNCHANGED <<removing, dropping, platform>>
    /\ UNCHANGED <<users, sql, binders>>

\* REVOKE needs a role on PostgreSQL and a grant to take back on MySQL.
CanRevoke(n) == IF Engine = "postgres" THEN role[n] # "absent" ELSE n \in granted

\* Mutant: Unbind revokes the privileges and leaves the SQL user.
UnbindRevokeOnly(u) ==
    /\ unbind[u] = "revoke"
    /\ CanRevoke(Username(dropping[u]))
    /\ granted' = granted \ {Username(dropping[u])}
    /\ unbind' = [unbind EXCEPT ![u] = "delete"]
    /\ UNCHANGED <<rows, role, password, binders, removing, dropping, platform>>

UnbindRevoke(u) ==
    /\ unbind[u] = "revoke"
    /\ CanRevoke(Username(dropping[u]))
    /\ granted' = granted \ {Username(dropping[u])}
    /\ unbind' = [unbind EXCEPT ![u] = "drop"]
    /\ UNCHANGED <<rows, role, password, binders, removing, dropping, platform>>

\* Unbind gives up with the DBBinding gone and the DBUser left.
UnbindRevokeRefused(u) ==
    /\ unbind[u] = "revoke"
    /\ ~CanRevoke(Username(dropping[u]))
    /\ Return(u, {})
    /\ UNCHANGED <<rows, sql, binders>>

\* Mutant: DropUser locks the SQL user.
LockedRole == "locked"

\* DropUser removes a MySQL user; a PostgreSQL role only loses its login.
DroppedRole == IF Engine = "postgres" THEN "nologin" ELSE "absent"

UnbindDrop(u) ==
    /\ unbind[u] = "drop"
    /\ role' = [role EXCEPT ![Username(dropping[u])] = DroppedRole]
    /\ unbind' = [unbind EXCEPT ![u] = "delete"]
    /\ UNCHANGED <<rows, password, granted, binders, removing, dropping, platform>>

\* Mutant: Unbind keeps the DBUser row, and its password, for the next Bind.
UnbindKeepUser(u) ==
    /\ unbind[u] = "delete"
    /\ Return(u, {BindingOf[removing[u]]})
    /\ UNCHANGED <<rows, sql, binders>>

\* DBUser.Delete; its bindings go with it by the foreign key's cascade.
UnbindDeleteUser(u) ==
    /\ unbind[u] = "delete"
    /\ users' = users \ {dropping[u]}
    /\ bindings' = [c \in Attempts |->
          IF bindings[c] = dropping[u] THEN None ELSE bindings[c]]
    /\ Return(u, {BindingOf[removing[u]]})
    /\ UNCHANGED <<sql, binders>>

\* An error of DBUser.Delete is only logged: Unbind still reports success.
UnbindDeleteUserError(u) ==
    /\ unbind[u] = "delete"
    /\ "deleteUser" \in Faults
    /\ Return(u, {BindingOf[removing[u]]})
    /\ UNCHANGED <<rows, sql, binders>>

\* A call fails, or the broker dies: Unbind undoes nothing.
UnbindFail(u) ==
    /\ unbind[u] \in Faults \cap UnbindSteps
    /\ Return(u, {})
    /\ UNCHANGED <<rows, sql, binders>>

-----------------------------------------------------------------------------
BindStep(a) ==
    \/ BindSaveNew(a) \/ BindSaveExisting(a) \/ BindSaveRejected(a)
    \/ BindCheckRole(a) \/ BindAlterRole(a) \/ BindCreateRole(a)
    \/ BindGrant(a) \/ BindReply(a)

UnbindStep(u) ==
    \/ UnbindUnlink(u)
    \/ UnbindRevoke(u) \/ UnbindRevokeRefused(u)
    \/ UnbindDrop(u)
    \/ UnbindDeleteUser(u) \/ UnbindDeleteUserError(u)

Next ==
    \/ \E a \in Attempts : BindFind(a) \/ BindStep(a) \/ BindFail(a)
    \/ \E u \in Unbinders : UnbindStep(u) \/ UnbindFail(u)
    \/ \E u \in Unbinders, id \in BindingIds : UnbindFind(u, id)
    \/ \E id \in BindingIds : UnbindUnknown(id)

Spec == Init /\ [][Next]_vars

\* A handler that has started goes on: its goroutine is scheduled.
FairSpec ==
    /\ Spec
    /\ \A a \in Attempts : WF_vars(BindStep(a))
    /\ \A u \in Unbinders : WF_vars(UnbindStep(u))

-----------------------------------------------------------------------------
(* Properties.                                                             *)

\* The credentials of DBUser row r log in and reach the database.
Works(r) ==
    /\ role[Username(r)] = "login"
    /\ password[Username(r)] = r
    /\ Username(r) \in granted

Holds(a) == bind[a] = "ok" /\ BindingOf[a] \notin released

\* Bind a can no longer create the SQL user or grant it anything.
Past(a) == bind[a] \in {"reply", "ok", "failed"}

IsHeld(r) == \E a \in Attempts : Holds(a) /\ chosen[a] = r

\* How far the credentials of DBUser row r have got, in the terms of Credentials;
\* that an application holds some that do not work has no place there.
Stage(r) ==
    IF Works(r) THEN IF IsHeld(r) THEN "given" ELSE "works"
    ELSE IF IsHeld(r) THEN "broken"
    ELSE IF Past(r) THEN "dead" ELSE "new"

stages == [r \in Attempts |-> Stage(r)]

Promise == INSTANCE Credentials WITH Credential <- Attempts, status <- stages

\* Bind and Unbind give and retire credentials as the platform expects: none is
\* given out before it works, none stops working while an application holds it,
\* and none that was retired comes back (broker.go, Bind and Unbind).
KeepsPromise == Promise!Spec

\* The credentials an application received from Bind work for as long as nobody
\* asked to release its binding, whatever other Binds and Unbinds do or fail to
\* do (broker.go, Bind and Unbind).
HeldCredentialsWork == \A a \in Attempts : Holds(a) => Works(chosen[a])

\* Once Unbind has reported success, the credentials of that binding no longer
\* log in, unless a retried Bind left a second DBBinding with the ID
\* (broker.go, Unbind, for engines that give each binding a user of its own).
ReleasedCredentialsDie ==
    \A a \in Attempts :
        (/\ BindingOf[a] \in unbound
         /\ \A c \in Attempts : BindingOf[c] = BindingOf[a] => c = a)
        => role[Username(a)] # "login"

\* Every SQL user that can log in has a DBUser row with its name, so that
\* Deprovision, which drops the users it has rows for, can find it
\* (broker.go, Deprovision).
EveryLoginIsRecorded ==
    \A n \in Names :
        role[n] = "login" => \E r \in users : Username(r) = n

\* When no request is running, an SQL user that can log in belongs to a binding: the
\* last Unbind took the login away (models.go, Unbind).
LoginNeedsBinding ==
    Quiet => \A n \in Names :
        role[n] = "login" =>
            \E c \in Attempts : bindings[c] # None /\ Username(bindings[c]) = n

\* Once every application that received credentials has been unbound, a new Bind
\* returns a password none of them has seen (README, "Changing password").
RebindGetsNewPassword ==
    [][ (\A c \in Attempts : bind[c] = "ok" => BindingOf[c] \in unbound) =>
        \A a, c \in Attempts :
            (chosen[a] = None /\ chosen'[a] # None /\ bind[c] = "ok")
            => chosen'[a] # chosen[c] ]_vars

\* The credentials of a binding the platform asked to release eventually cannot
\* be used to log in, unless somebody else holds or is given the same username,
\* provided the calls of the handlers do not fail (broker.go, Unbind).
ReleaseCompletes ==
    \A a \in Attempts :
        (bind[a] = "ok" /\ BindingOf[a] \in released)
        ~> \/ role[Username(a)] # "login"
           \/ \E c \in Attempts : Username(c) = Username(a) /\ (InFlight(c) \/ Holds(c))
=============================================================================
