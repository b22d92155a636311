---------------------------- MODULE BindingProofs ----------------------------
(***************************************************************************)
(* Theorems of Binding, for any number of requests: type correctness; on   *)
(* MySQL, in any interleaving and with any faults, the properties that make*)
(* credentials trustworthy; on PostgreSQL the record of every login for    *)
(* orderly requests, and the rest for requests that come one at a time, of *)
(* which each theorem says what may fail; and on either, under the same    *)
(* conditions, that the handlers implement Credentials.                    *)
(***************************************************************************)
EXTENDS Binding, TLAPS

-----------------------------------------------------------------------------
(* The inductive invariants.                                               *)

\* What an Unbind in flight knows: it was requested, and it deletes the DBUser
\* only when it found one to drop.
UnbindInv ==
    \A u \in Unbinders :
        /\ unbind[u] # "idle" =>
              removing[u] \in Attempts /\ BindingOf[removing[u]] \in released
        /\ unbind[u] \in {"revoke", "drop", "delete"} => dropping[u] \in Attempts

TypeInv == TypeOK /\ UnbindInv

\* On MySQL a DBBinding hangs off the DBUser its own Bind created.
OwnRows ==
    /\ \A a \in Attempts : bindings[a] \in {a, None}
    /\ \A x, a \in Attempts : view[x].bindings[a] \in {a, None}
    /\ \A u \in Unbinders : unbind[u] # "idle" => dropping[u] = removing[u]

\* A Bind that has not saved has left nothing behind.
Unsaved(a) == bind[a] \in {"idle", "save"}

Fresh ==
    \A a \in Attempts : Unsaved(a) =>
        /\ a \notin users
        /\ bindings[a] = None
        /\ role[a] = "absent"
        /\ \A x \in Attempts : a \notin view[x].users /\ view[x].bindings[a] = None

\* MySQL has no role to check, and Bind answers with its own DBUser.
OwnUser ==
    \A a \in Attempts :
        /\ bind[a] \notin {"check", "alter"}
        /\ bind[a] \in {"create", "grant", "reply", "ok"} => chosen[a] = a

\* Privileges are revoked, and the user dropped, only after Bind granted them.
DropsPast ==
    /\ \A a \in Attempts : a \in granted => Past(a)
    /\ \A u \in Unbinders : unbind[u] \in {"drop", "delete"} => Past(dropping[u])
    /\ \A u \in Unbinders : unbind[u] = "delete" => role[dropping[u]] = "absent"

\* What a Bind that nobody asked to release has made so far.
Held ==
    \A a \in Attempts : BindingOf[a] \notin released =>
        /\ bind[a] = "grant" => role[a] = "login" /\ password[a] = a
        /\ bind[a] \in {"reply", "ok"} =>
              role[a] = "login" /\ password[a] = a /\ a \in granted

\* The DBUser row comes before the SQL user and outlives it, but for the SQL users
\* in M, those a Deprovision has left behind (none in Binding).
Recorded(M) ==
    /\ role[SharedName] = "absent"
    /\ \A a \in Attempts : bind[a] = "create" => a \in users
    /\ \A a \in Attempts : role[a] = "login" => a \in users \cup M

\* A reported Unbind has dropped the user of the only Bind with that ID.
Dead ==
    \A a \in Attempts :
        (/\ BindingOf[a] \in unbound
         /\ \A c \in Attempts : BindingOf[c] = BindingOf[a] => c = a)
        => Past(a) /\ role[a] = "absent"

MysqlRows(M) ==
    /\ TypeInv
    /\ OwnRows
    /\ Fresh
    /\ OwnUser
    /\ DropsPast
    /\ Recorded(M)

MysqlInv == MysqlRows({}) /\ Held /\ Dead

-----------------------------------------------------------------------------
(* Type correctness.                                                       *)

USE ConstantsAssumption DEF BindSteps, UnbindSteps

\* The invariant behind the type holds initially.
LEMMA TypeInvInit == Init => TypeInv
BY DEF Init, TypeInv, TypeOK, UnbindInv, Names, MaybeUser, View, NoView

\* Every step preserves it.
LEMMA TypeInvNext == TypeInv /\ [Next]_vars => TypeInv'
<1> SUFFICES ASSUME TypeInv, [Next]_vars
             PROVE  TypeInv'
    OBVIOUS
<1> USE DEF TypeInv, TypeOK, UnbindInv, MaybeUser, rows, sql, binders, unbinders, platform
<1>1. ASSUME NEW a \in Attempts, BindFind(a)
      PROVE  TypeInv'
  BY <1>1 DEF BindFind, View
<1>2. ASSUME NEW a \in Attempts, BindSaveNew(a)
      PROVE  TypeInv'
  BY <1>2 DEF BindSaveNew, SavedBindings, View, NoView
<1>3. ASSUME NEW a \in Attempts, BindSaveExisting(a)
      PROVE  TypeInv'
  <2>1. PICK r \in User(view[a], a) \cap users :
           /\ bindings' = [SavedBindings(view[a], {r}) EXCEPT ![a] = r]
           /\ chosen' = [chosen EXCEPT ![a] = r]
    BY <1>3 DEF BindSaveExisting
  <2>2. SavedBindings(view[a], {r}) \in [Attempts -> MaybeUser]
    BY DEF SavedBindings, View
  <2>3. bindings' \in [Attempts -> MaybeUser] /\ chosen' \in [Attempts -> MaybeUser]
    BY <2>1, <2>2
  <2>4. QED
    BY <1>3, <2>3 DEF BindSaveExisting, View, NoView
<1>4. ASSUME NEW a \in Attempts, BindSaveRejected(a)
      PROVE  TypeInv'
  BY <1>4 DEF BindSaveRejected, View, NoView
<1>5. ASSUME NEW a \in Attempts, BindCheckRole(a)
      PROVE  TypeInv'
  BY <1>5 DEF BindCheckRole
<1>6. ASSUME NEW a \in Attempts, BindAlterRole(a)
      PROVE  TypeInv'
  BY <1>6 DEF BindAlterRole
<1>7. ASSUME NEW a \in Attempts, BindCreateRole(a)
      PROVE  TypeInv'
  BY <1>7 DEF BindCreateRole
<1>8. ASSUME NEW a \in Attempts, BindGrant(a)
      PROVE  TypeInv'
  BY <1>8 DEF BindGrant, Username, Names
<1>9. ASSUME NEW a \in Attempts, BindReply(a)
       PROVE  TypeInv'
  BY <1>9 DEF BindReply
<1>10. ASSUME NEW a \in Attempts, BindFail(a)
       PROVE  TypeInv'
  BY <1>10 DEF BindFail, View, NoView
<1>11. ASSUME NEW u \in Unbinders, NEW id \in BindingIds, UnbindFind(u, id)
       PROVE  TypeInv'
  BY <1>11 DEF UnbindFind, BindingUser
<1>12. ASSUME NEW id \in BindingIds, UnbindUnknown(id)
       PROVE  TypeInv'
  BY <1>12 DEF UnbindUnknown
<1>13. ASSUME NEW u \in Unbinders, UnbindUnlink(u)
       PROVE  TypeInv'
  BY <1>13 DEF UnbindUnlink, Return
<1>14. ASSUME NEW u \in Unbinders, UnbindRevoke(u)
       PROVE  TypeInv'
  BY <1>14 DEF UnbindRevoke
<1>15. ASSUME NEW u \in Unbinders, UnbindRevokeRefused(u)
       PROVE  TypeInv'
  BY <1>15 DEF UnbindRevokeRefused, Return
<1>16. ASSUME NEW u \in Unbinders, UnbindDrop(u)
       PROVE  TypeInv'
  BY <1>16 DEF UnbindDrop, DroppedRole
<1>17. ASSUME NEW u \in Unbinders, UnbindDeleteUser(u)
       PROVE  TypeInv'
  BY <1>17 DEF UnbindDeleteUser, Return
<1>18. ASSUME NEW u \in Unbinders, UnbindDeleteUserError(u)
       PROVE  TypeInv'
  BY <1>18 DEF UnbindDeleteUserError, Return
<1>19. ASSUME NEW u \in Unbinders, UnbindFail(u)
       PROVE  TypeInv'
  BY <1>19 DEF UnbindFail, Return
<1>20. CASE UNCHANGED vars
  BY <1>20 DEF vars
<1>21. QED
  BY <1>1, <1>2, <1>3, <1>4, <1>5, <1>6, <1>7, <1>8, <1>9, <1>10, <1>11,
     <1>12, <1>13, <1>14, <1>15, <1>16, <1>17, <1>18, <1>19, <1>20
  DEF Next, BindStep, UnbindStep

\* Every variable keeps its type whatever the engine, the faults and the
\* platform do, and an Unbind reports success only for an ID it was asked to
\* release (broker.go, Bind and Unbind).
THEOREM TypeCorrect == Spec => []TypeOK
<1>1. TypeInv => TypeOK
  BY DEF TypeInv
<1>2. QED
  BY TypeInvInit, TypeInvNext, <1>1, PTL DEF Spec

-----------------------------------------------------------------------------
(* MySQL.                                                                  *)

\* The invariant of the MySQL theorems holds initially.
LEMMA MysqlInvInit == Init => MysqlInv
<1>1. Init => TypeInv
  BY TypeInvInit
<1>2. QED
  BY <1>1 DEF Init, MysqlInv, MysqlRows, OwnRows, Fresh, OwnUser, DropsPast, Past, Held,
              Recorded, Dead, Names, NoView, Unsaved

\* On MySQL a Bind never finds a DBUser with its random username.
LEMMA MysqlNeverShares ==
    ASSUME Engine = "mysql", NEW M, MysqlRows(M), NEW a \in Attempts
    PROVE  ~BindSaveExisting(a)
<1> SUFFICES ASSUME BindSaveExisting(a)
             PROVE  FALSE
  OBVIOUS
<1>1. a \notin view[a].users
  BY DEF BindSaveExisting, MysqlRows, Fresh, Unsaved
<1>2. User(view[a], a) = {}
  BY <1>1 DEF User, Username, View, MysqlRows, TypeInv, TypeOK
<1>3. QED
  BY <1>2 DEF BindSaveExisting

\* Every step on MySQL keeps the rows and the SQL users in step.
LEMMA MysqlRowsNext ==
    ASSUME Engine = "mysql", NEW M, MysqlRows(M), [Next]_vars
    PROVE  MysqlRows(M)'
<1> DEFINE Rest == OwnRows /\ Fresh /\ OwnUser /\ DropsPast /\ Recorded(M)
<1>0. TypeInv'
  BY TypeInvNext DEF MysqlRows
<1> USE DEF MysqlRows, TypeInv, TypeOK, UnbindInv, OwnRows, Fresh, OwnUser, DropsPast,
            Recorded, Past, Unsaved, MaybeUser, Names, Username,
            rows, sql, binders, unbinders, platform
<1>1. ASSUME NEW a \in Attempts, BindFind(a)
      PROVE  Rest'
  BY <1>1, <1>0 DEF BindFind, View
<1>2. ASSUME NEW a \in Attempts, BindSaveNew(a)
      PROVE  Rest'
  <2>1. a \in users' /\ users' \subseteq users \cup view[a].users \cup {a}
    BY <1>2, <1>0 DEF BindSaveNew
  <2>2. \A c \in Attempts :
           /\ bindings'[c] \in {c, None}
           /\ bindings'[c] # None => c = a \/ bindings[c] # None \/ view[a].bindings[c] # None
    BY <1>2 DEF BindSaveNew, SavedBindings, View
  <2>3. \A c \in Attempts : view'[c] = IF c = a THEN NoView ELSE view[c]
    BY <1>2 DEF BindSaveNew
  <2>4. \A c \in Attempts :
           /\ bind'[c] = IF c = a THEN "create" ELSE bind[c]
           /\ chosen'[c] = IF c = a THEN a ELSE chosen[c]
    BY <1>2 DEF BindSaveNew
  <2>5. OwnRows'
    BY <1>2, <2>2, <2>3 DEF BindSaveNew, NoView
  <2>6. Fresh'
    BY <1>2, <2>1, <2>2, <2>3, <2>4 DEF BindSaveNew, NoView
  <2>7. (OwnUser /\ DropsPast)'
    BY <1>2, <1>0, <2>4 DEF BindSaveNew
  <2>8. Recorded(M)'
    BY <1>2, <2>1, <2>4 DEF BindSaveNew
  <2>9. QED
    BY <2>5, <2>6, <2>7, <2>8
<1>3. ASSUME NEW a \in Attempts, BindSaveExisting(a)
      PROVE  Rest'
  BY <1>3, MysqlNeverShares
<1>4. ASSUME NEW a \in Attempts, BindSaveRejected(a)
      PROVE  Rest'
  BY <1>4, <1>0 DEF BindSaveRejected, View, NoView
<1>5. ASSUME NEW a \in Attempts, BindCheckRole(a)
      PROVE  Rest'
  BY <1>5, <1>0 DEF BindCheckRole
<1>6. ASSUME NEW a \in Attempts, BindAlterRole(a)
      PROVE  Rest'
  BY <1>6, <1>0 DEF BindAlterRole
<1>7. ASSUME NEW a \in Attempts, BindCreateRole(a)
      PROVE  Rest'
  <2>1. CASE role[Username(a)] = "absent"
    BY <1>7, <2>1 DEF BindCreateRole
  <2>2. CASE role[Username(a)] # "absent"
    BY <1>7, <2>2 DEF BindCreateRole
  <2>3. QED
    BY <2>1, <2>2
<1>8. ASSUME NEW a \in Attempts, BindGrant(a)
      PROVE  Rest'
  BY <1>8, <1>0 DEF BindGrant, Names
<1>9. ASSUME NEW a \in Attempts, BindReply(a)
       PROVE  Rest'
  BY <1>9, <1>0 DEF BindReply
<1>10. ASSUME NEW a \in Attempts, BindFail(a)
       PROVE  Rest'
  BY <1>10, <1>0 DEF BindFail, InFlight, View, NoView
<1>11. ASSUME NEW u \in Unbinders, NEW id \in BindingIds, UnbindFind(u, id)
       PROVE  Rest'
  BY <1>11, <1>0 DEF UnbindFind, BindingUser, IsLast
<1>12. ASSUME NEW id \in BindingIds, UnbindUnknown(id)
       PROVE  Rest'
  BY <1>12, <1>0 DEF UnbindUnknown
<1>13. ASSUME NEW u \in Unbinders, UnbindUnlink(u)
       PROVE  Rest'
  BY <1>13, <1>0 DEF UnbindUnlink, Return
<1>14. ASSUME NEW u \in Unbinders, UnbindRevoke(u)
       PROVE  Rest'
  BY <1>14, <1>0 DEF UnbindRevoke, CanRevoke
<1>15. ASSUME NEW u \in Unbinders, UnbindRevokeRefused(u)
       PROVE  Rest'
  BY <1>15, <1>0 DEF UnbindRevokeRefused, Return
<1>16. ASSUME NEW u \in Unbinders, UnbindDrop(u)
       PROVE  Rest'
  BY <1>16, <1>0 DEF UnbindDrop, DroppedRole
<1>17. ASSUME NEW u \in Unbinders, UnbindDeleteUser(u)
       PROVE  Rest'
  BY <1>17, <1>0 DEF UnbindDeleteUser, Return
<1>18. ASSUME NEW u \in Unbinders, UnbindDeleteUserError(u)
       PROVE  Rest'
  BY <1>18, <1>0 DEF UnbindDeleteUserError, Return
<1>19. ASSUME NEW u \in Unbinders, UnbindFail(u)
       PROVE  Rest'
  BY <1>19, <1>0 DEF UnbindFail, Return
<1>20. CASE UNCHANGED vars
  BY <1>20, <1>0 DEF vars
<1>21. QED
  BY <1>0, <1>1, <1>2, <1>3, <1>4, <1>5, <1>6, <1>7, <1>8, <1>9, <1>10, <1>11,
     <1>12, <1>13, <1>14, <1>15, <1>16, <1>17, <1>18, <1>19, <1>20
  DEF Next, BindStep, UnbindStep

\* Every step on MySQL keeps what was promised to those who hold credentials, and to
\* those who gave them back.
LEMMA MysqlInvNext ==
    ASSUME Engine = "mysql", MysqlInv, [Next]_vars
    PROVE  MysqlInv'
<1> DEFINE Rest == Held /\ Dead
<1>0. MysqlRows({})'
  BY MysqlRowsNext DEF MysqlInv
<1> USE DEF MysqlInv, MysqlRows, TypeInv, TypeOK, UnbindInv, OwnRows, Fresh, OwnUser, DropsPast,
            Held, Dead, Past, Unsaved, MaybeUser, Names, Username,
            rows, sql, binders, unbinders, platform
<1>1. ASSUME NEW a \in Attempts, BindFind(a) \/ BindSaveNew(a) \/ BindSaveExisting(a)
                                 \/ BindSaveRejected(a) \/ BindFail(a)
      PROVE  Rest'
  <2>1. /\ ~Past(a) \/ bind'[a] = "failed"
        /\ bind'[a] \in {"save", "create", "failed"}
        /\ \A c \in Attempts : c # a => bind'[c] = bind[c]
        /\ UNCHANGED <<sql, platform>>
    BY <1>1, MysqlNeverShares DEF BindFind, BindSaveNew, BindSaveRejected, BindFail, InFlight
  <2>2. QED
    BY <2>1
<1>2. ASSUME NEW a \in Attempts, BindCheckRole(a) \/ BindAlterRole(a)
      PROVE  Rest'
  BY <1>2 DEF BindCheckRole, BindAlterRole
<1>3. ASSUME NEW a \in Attempts, BindCreateRole(a)
      PROVE  Rest'
  BY <1>3 DEF BindCreateRole
<1>4. ASSUME NEW a \in Attempts, BindGrant(a)
      PROVE  Rest'
  BY <1>4 DEF BindGrant
<1>5. ASSUME NEW a \in Attempts, BindReply(a)
      PROVE  Rest'
  BY <1>5 DEF BindReply
<1>6. ASSUME NEW u \in Unbinders, NEW id \in BindingIds, UnbindFind(u, id)
      PROVE  Rest'
  BY <1>6 DEF UnbindFind
<1>7. ASSUME NEW id \in BindingIds, UnbindUnknown(id)
      PROVE  Rest'
  BY <1>7 DEF UnbindUnknown
<1>8. ASSUME NEW u \in Unbinders, UnbindUnlink(u)
      PROVE  Rest'
  BY <1>8, <1>0 DEF UnbindUnlink, Return
<1>9. ASSUME NEW u \in Unbinders, UnbindRevoke(u)
      PROVE  Rest'
  BY <1>9 DEF UnbindRevoke
<1>10. ASSUME NEW u \in Unbinders, UnbindDrop(u)
       PROVE  Rest'
  BY <1>10 DEF UnbindDrop, DroppedRole
<1>11. ASSUME NEW u \in Unbinders, UnbindDeleteUser(u) \/ UnbindDeleteUserError(u)
       PROVE  Rest'
  BY <1>11 DEF UnbindDeleteUser, UnbindDeleteUserError, Return
<1>12. ASSUME NEW u \in Unbinders, UnbindRevokeRefused(u) \/ UnbindFail(u)
       PROVE  Rest'
  BY <1>12 DEF UnbindRevokeRefused, UnbindFail, Return
<1>13. CASE UNCHANGED vars
  <2>1. UNCHANGED <<bind, role, password, granted, released, unbound>>
    BY <1>13 DEF vars
  <2>2. QED
    BY <1>0, <2>1
<1>14. QED
  BY <1>0, <1>1, <1>2, <1>3, <1>4, <1>5, <1>6, <1>7, <1>8, <1>9, <1>10, <1>11, <1>12, <1>13
  DEF Next, BindStep, UnbindStep

\* Whatever fails, and however requests interleave, the credentials a MySQL
\* application holds keep working (broker.go, Bind and Unbind).
THEOREM MysqlHeldCredentialsWork ==
    ASSUME Engine = "mysql"
    PROVE  Spec => []HeldCredentialsWork
<1>1. MysqlInv /\ [Next]_vars => MysqlInv'
  BY MysqlInvNext
<1>2. MysqlInv => HeldCredentialsWork
  BY DEF MysqlInv, MysqlRows, OwnUser, Held, HeldCredentialsWork, Holds, Works, Username
<1>3. QED
  BY MysqlInvInit, <1>1, <1>2, PTL DEF Spec

\* On MySQL an Unbind that reports success has ended the login of the only Bind
\* that carried its ID (broker.go, Unbind).
THEOREM MysqlReleasedCredentialsDie ==
    ASSUME Engine = "mysql"
    PROVE  Spec => []ReleasedCredentialsDie
<1>1. MysqlInv /\ [Next]_vars => MysqlInv'
  BY MysqlInvNext
<1>2. MysqlInv => ReleasedCredentialsDie
  BY DEF MysqlInv, Dead, ReleasedCredentialsDie, Username
<1>3. QED
  BY MysqlInvInit, <1>1, <1>2, PTL DEF Spec

\* On MySQL every SQL user that can log in has a DBUser row, so that Deprovision
\* finds it (broker.go, Bind, Unbind and Deprovision).
THEOREM MysqlEveryLoginIsRecorded ==
    ASSUME Engine = "mysql"
    PROVE  Spec => []EveryLoginIsRecorded
<1>1. MysqlInv /\ [Next]_vars => MysqlInv'
  BY MysqlInvNext
<1>2. MysqlInv => EveryLoginIsRecorded
  BY DEF MysqlInv, MysqlRows, Recorded, EveryLoginIsRecorded, Username, Names
<1>3. QED
  BY MysqlInvInit, <1>1, <1>2, PTL DEF Spec

\* What a step may do to the credentials of DBUser row r.
Moves(r) ==
    /\ Past(r) => Past(r)'
    /\ Past(r) /\ ~Works(r) => ~Works(r)'
    /\ Works(r) /\ ~Works(r)' => Past(r)' /\ ~IsHeld(r)
    /\ ~IsHeld(r) /\ IsHeld(r)' => Works(r)
    /\ ~Works(r) /\ Works(r)' => ~Past(r) /\ ~IsHeld(r)'

\* Such a step is one of the abstract specification.
LEMMA MovesAreAllowed ==
    ASSUME \A r \in Attempts :
              Moves(r) /\ (IsHeld(r) => Works(r)) /\ (IsHeld(r)' => Works(r)')
    PROVE  [Promise!Next]_stages
<1>1. ASSUME NEW r \in Attempts
      PROVE  /\ Stage(r)' \in Promise!Stages
             /\ \/ Stage(r)' = Stage(r)
                \/ Stage(r) = "new" /\ Stage(r)' \in {"works", "dead"}
                \/ Stage(r) = "works" /\ Stage(r)' \in {"given", "dead"}
                \/ Stage(r) = "given" /\ Stage(r)' = "works"
  <2>1. Stage(r) = IF Works(r) THEN IF IsHeld(r) THEN "given" ELSE "works"
                   ELSE IF Past(r) THEN "dead" ELSE "new"
    BY DEF Stage
  <2>2. Stage(r)' = IF Works(r)' THEN IF IsHeld(r)' THEN "given" ELSE "works"
                    ELSE IF Past(r)' THEN "dead" ELSE "new"
    BY DEF Stage
  <2>3. QED
    BY <2>1, <2>2 DEF Moves, Promise!Stages
<1>2. QED
  BY <1>1 DEF Promise!Next, Promise!Keep, Promise!Activate, Promise!Abandon,
              Promise!Give, Promise!Release, Promise!Retire, stages

\* Nothing has been set up in the beginning.
LEMMA PromiseInit == Init => Promise!Init
BY DEF Init, Promise!Init, stages, Stage, Works, IsHeld, Holds, Past, Names, Username

\* What one step can do to the credentials of an attempt on MySQL.
LEMMA MysqlMoves ==
    ASSUME Engine = "mysql", MysqlInv, MysqlInv', [Next]_vars, NEW r \in Attempts
    PROVE  /\ Past(r) => Past(r)'
           /\ Past(r) /\ ~Works(r) => ~Works(r)'
           /\ Works(r) /\ ~Works(r)' => Past(r)' /\ ~Holds(r)
           /\ ~Holds(r) /\ Holds(r)' => Works(r)
           /\ ~Works(r) /\ Works(r)' => ~Past(r) /\ ~Holds(r)'
<1> DEFINE Goal == /\ Past(r) => Past(r)'
                   /\ Past(r) /\ ~Works(r) => ~Works(r)'
                   /\ Works(r) /\ ~Works(r)' => Past(r)' /\ ~Holds(r)
                   /\ ~Holds(r) /\ Holds(r)' => Works(r)
                   /\ ~Works(r) /\ Works(r)' => ~Past(r) /\ ~Holds(r)'
<1>0. /\ TypeInv /\ OwnRows /\ OwnUser /\ DropsPast /\ Held
      /\ Fresh /\ Recorded({})
  BY DEF MysqlInv, MysqlRows
<1> USE DEF TypeInv, TypeOK, UnbindInv, OwnRows, OwnUser, DropsPast, Held, Fresh, Unsaved,
            Past, Holds, Works, MaybeUser, Names, Username, rows, sql, binders, unbinders, platform
<1>1. ASSUME NEW a \in Attempts, BindFind(a) \/ BindStep(a) \/ BindFail(a)
      PROVE  Goal
  <2>1. CASE BindFind(a)
    BY <1>0, <2>1 DEF BindFind
  <2>2. CASE BindSaveNew(a)
    BY <1>0, <2>2 DEF BindSaveNew
  <2>3. CASE BindSaveExisting(a)
    BY <1>0, <2>3 DEF BindSaveExisting
  <2>4. CASE BindSaveRejected(a)
    BY <1>0, <2>4 DEF BindSaveRejected
  <2>5. CASE BindCheckRole(a)
    BY <1>0, <2>5 DEF BindCheckRole
  <2>6. CASE BindAlterRole(a)
    BY <1>0, <2>6 DEF BindAlterRole
  <2>7. CASE BindCreateRole(a)
    BY <1>0, <2>7 DEF BindCreateRole
  <2>8. CASE BindGrant(a)
    BY <1>0, <2>8 DEF BindGrant
  <2>9. CASE BindReply(a)
    BY <1>0, <2>9 DEF BindReply
  <2>10. CASE BindFail(a)
    BY <1>0, <2>10 DEF BindFail, InFlight
  <2>11. QED
    BY <1>1, <2>1, <2>2, <2>3, <2>4, <2>5, <2>6, <2>7, <2>8, <2>9, <2>10 DEF BindStep
<1>2. ASSUME NEW u \in Unbinders, NEW id \in BindingIds, UnbindFind(u, id)
      PROVE  Goal
  BY <1>0, <1>2 DEF UnbindFind
<1>3. ASSUME NEW u \in Unbinders, UnbindStep(u) \/ UnbindFail(u)
      PROVE  Goal
  <2>1. CASE UnbindUnlink(u)
    BY <1>0, <2>1 DEF UnbindUnlink, Return
  <2>2. CASE UnbindRevoke(u)
    BY <1>0, <2>2 DEF UnbindRevoke, CanRevoke
  <2>3. CASE UnbindRevokeRefused(u)
    BY <1>0, <2>3 DEF UnbindRevokeRefused, Return
  <2>4. CASE UnbindDrop(u)
    BY <1>0, <2>4 DEF UnbindDrop, DroppedRole
  <2>5. CASE UnbindDeleteUser(u) \/ UnbindDeleteUserError(u) \/ UnbindFail(u)
    BY <1>0, <2>5 DEF UnbindDeleteUser, UnbindDeleteUserError, UnbindFail, Return
  <2>6. QED
    BY <1>3, <2>1, <2>2, <2>3, <2>4, <2>5 DEF UnbindStep
<1>4. ASSUME NEW id \in BindingIds, UnbindUnknown(id)
      PROVE  Goal
  BY <1>0, <1>4 DEF UnbindUnknown
<1>5. CASE UNCHANGED vars
  BY <1>0, <1>5 DEF vars
<1>6. QED
  BY <1>1, <1>2, <1>3, <1>4, <1>5 DEF Next

\* Whatever fails, and however requests interleave, on MySQL the broker does with
\* credentials only what the abstract specification allows (broker.go, Bind and
\* Unbind; mysql_engine.go).
THEOREM MysqlKeepsPromise ==
    ASSUME Engine = "mysql"
    PROVE  Spec => KeepsPromise
<1>1. ASSUME MysqlInv, MysqlInv', [Next]_vars
      PROVE  [Promise!Next]_stages
  <2>1. ASSUME NEW r \in Attempts
        PROVE  Moves(r) /\ (IsHeld(r) => Works(r)) /\ (IsHeld(r)' => Works(r)')
    <3>1. (IsHeld(r) <=> Holds(r)) /\ (Holds(r) => Works(r))
      BY <1>1 DEF MysqlInv, MysqlRows, OwnUser, Held, IsHeld, Holds, Works, Username
    <3>2. (IsHeld(r)' <=> Holds(r)') /\ (Holds(r)' => Works(r)')
      BY <1>1 DEF MysqlInv, MysqlRows, OwnUser, Held, IsHeld, Holds, Works, Username
    <3>3. QED
      BY <1>1, <3>1, <3>2, MysqlMoves DEF Moves
  <2>2. QED
    BY <2>1, MovesAreAllowed
<1>2. MysqlInv /\ [Next]_vars => MysqlInv'
  BY MysqlInvNext
<1>3. QED
  BY MysqlInvInit, PromiseInit, <1>1, <1>2, PTL DEF Spec, KeepsPromise, Promise!Spec

-----------------------------------------------------------------------------
(* PostgreSQL.                                                             *)

\* A DBBinding, loaded or stored, hangs off the DBUser its Bind settled on.
Settled ==
    \A a \in Attempts :
        /\ bindings[a] \in {chosen[a], None}
        /\ \A x \in Attempts : view[x].bindings[a] \in {chosen[a], None}
        /\ bind[a] \in {"idle", "save"} => chosen[a] = None

\* No row, view or Unbind knows the DBUser of a Bind that has not saved.
Unknown ==
    \A a \in Attempts : Unsaved(a) =>
        /\ a \notin users
        /\ \A x \in Attempts : a \notin view[x].users
        /\ \A u \in Unbinders : dropping[u] # a

\* A Bind that is setting up the role has its own rows, and nobody drops them.
Creating(a) == bind[a] \in {"check", "alter", "create"}

CreatorKept ==
    \A a \in Attempts : Creating(a) =>
        /\ a \in users
        /\ chosen[a] = a
        /\ bindings[a] = a
        /\ \A u \in Unbinders : unbind[u] # "idle" => dropping[u] # a

\* An orderly platform unbinds an answered Bind.
UnbindsAnswered ==
    \A u \in Unbinders : unbind[u] # "idle" => bind[removing[u]] \in {"ok", "failed"}

\* The DBUser whose password the shared role has exists, and is not about to
\* be deleted, for as long as the role can log in, unless a Deprovision has left
\* the role behind (in M; none is in Binding).
OwnerRecorded(M) ==
    /\ \A n \in Attempts : role[n] = "absent"
    /\ role[SharedName] = "login" /\ SharedName \notin M =>
          /\ password[SharedName] \in users
          /\ \A u \in Unbinders :
                unbind[u] = "delete" => dropping[u] # password[SharedName]

PostgresInv(M) ==
    /\ TypeInv
    /\ Settled
    /\ Unknown
    /\ CreatorKept
    /\ UnbindsAnswered
    /\ OwnerRecorded(M)

\* The invariant of the PostgreSQL theorem holds initially.
LEMMA PostgresInvInit == Init => PostgresInv({})
<1>1. Init => TypeInv
  BY TypeInvInit
<1>2. QED
  BY <1>1 DEF Init, PostgresInv, Settled, Unknown, Unsaved, CreatorKept, Creating, UnbindsAnswered,
              OwnerRecorded, Names, NoView

\* Every step of an orderly platform and of the broker preserves it.
LEMMA PostgresInvNext ==
    ASSUME Engine = "postgres", Orderly, NEW M, PostgresInv(M), [Next]_vars
    PROVE  PostgresInv(M)'
<1> DEFINE Rest == Settled /\ Unknown /\ CreatorKept /\ UnbindsAnswered /\ OwnerRecorded(M)
<1>0. TypeInv'
  BY TypeInvNext DEF PostgresInv
<1> USE DEF PostgresInv, TypeInv, TypeOK, UnbindInv, Settled, Unknown, Unsaved, CreatorKept, Creating,
            UnbindsAnswered, OwnerRecorded, MaybeUser, Names, Username,
            rows, sql, binders, unbinders, platform
<1>1. ASSUME NEW a \in Attempts, BindFind(a)
      PROVE  Rest'
  BY <1>1, <1>0 DEF BindFind, View
<1>2. ASSUME NEW a \in Attempts, BindSaveNew(a)
      PROVE  Rest'
  <2>1. a \in users' /\ users \subseteq users' /\ users' \subseteq users \cup view[a].users \cup {a}
    BY <1>2 DEF BindSaveNew
  <2>2. \A c \in Attempts : bindings'[c] =
           IF c = a THEN a
           ELSE IF SaveUpserts /\ view[a].bindings[c] \in view[a].users
                THEN view[a].bindings[c] ELSE bindings[c]
    BY <1>2 DEF BindSaveNew, SavedBindings, View
  <2>3. \A c \in Attempts : view'[c] = IF c = a THEN NoView ELSE view[c]
    BY <1>2 DEF BindSaveNew
  <2>4. \A c \in Attempts :
           /\ bind'[c] = IF c = a THEN "check" ELSE bind[c]
           /\ chosen'[c] = IF c = a THEN a ELSE chosen[c]
    BY <1>2 DEF BindSaveNew
  <2>5. (Settled /\ Unknown)'
    BY <1>2, <2>1, <2>2, <2>3, <2>4 DEF BindSaveNew, NoView, View
  <2>6. CreatorKept'
    <3> SUFFICES ASSUME NEW c \in Attempts, Creating(c)'
                 PROVE  /\ c \in users' /\ chosen'[c] = c /\ bindings'[c] = c
                        /\ \A u \in Unbinders : unbind'[u] # "idle" => dropping'[u] # c
      OBVIOUS
    <3>1. CASE c = a
      BY <1>2, <2>1, <2>2, <2>4, <3>1 DEF BindSaveNew
    <3>2. CASE c # a
      <4>1. c \in users /\ chosen[c] = c /\ bindings[c] = c
        BY <2>4, <3>2
      <4>2. view[a].bindings[c] \in {c, None}
        BY <4>1
      <4>3. SaveUpserts /\ view[a].bindings[c] \in view[a].users => view[a].bindings[c] = c
        BY <4>2 DEF View
      <4>4. bindings'[c] = c
        BY <2>2, <3>2, <4>1, <4>3
      <4>5. QED
        BY <1>2, <2>1, <2>4, <3>2, <4>1, <4>4 DEF BindSaveNew
    <3>3. QED
      BY <3>1, <3>2
  <2>7. (UnbindsAnswered /\ OwnerRecorded(M))'
    BY <1>2, <2>1, <2>4 DEF BindSaveNew
  <2>8. QED
    BY <2>5, <2>6, <2>7
<1>3. ASSUME NEW a \in Attempts, BindSaveExisting(a)
      PROVE  Rest'
  <2>1. PICK r \in User(view[a], a) \cap users :
           /\ bindings' = [SavedBindings(view[a], {r}) EXCEPT ![a] = r]
           /\ chosen' = [chosen EXCEPT ![a] = r]
    BY <1>3 DEF BindSaveExisting
  <2>2. \A c \in Attempts : bindings'[c] =
           IF c = a THEN r
           ELSE IF SaveUpserts /\ view[a].bindings[c] = r THEN r ELSE bindings[c]
    BY <2>1 DEF SavedBindings, View
  <2>3. \A c \in Attempts : view'[c] = IF c = a THEN NoView ELSE view[c]
    BY <1>3 DEF BindSaveExisting
  <2>4. \A c \in Attempts :
           /\ bind'[c] = IF c = a THEN "reply" ELSE bind[c]
           /\ chosen'[c] = IF c = a THEN r ELSE chosen[c]
    BY <1>3, <2>1 DEF BindSaveExisting
  <2>5. r \in Attempts /\ r # None /\ bind[a] = "save"
    BY <1>3, <2>1 DEF BindSaveExisting
  <2>6. (Settled /\ Unknown)'
    <3>1. \A c \in Attempts : bindings'[c] \in {chosen'[c], None}
      BY <2>2, <2>4, <2>5
    <3>2. \A c, x \in Attempts : view'[x].bindings[c] \in {chosen'[c], None}
      BY <2>3, <2>4, <2>5 DEF NoView
    <3>3. \A c \in Attempts : bind'[c] \in {"idle", "save"} => chosen'[c] = None
      BY <2>4
    <3>4. Unknown'
      BY <1>3, <2>3, <2>4 DEF BindSaveExisting, NoView
    <3>5. QED
      BY <3>1, <3>2, <3>3, <3>4
  <2>7. CreatorKept'
    <3>1. ASSUME NEW c \in Attempts, Creating(c)'
          PROVE  c # a /\ Creating(c) /\ bindings'[c] = c
      <4>1. c # a /\ Creating(c)
        BY <2>4, <3>1
      <4>2. bindings[c] = c /\ view[a].bindings[c] \in {c, None}
        BY <4>1
      <4>3. QED
        BY <2>2, <2>5, <4>1, <4>2
    <3>2. SUFFICES ASSUME NEW c \in Attempts, Creating(c)'
                   PROVE  /\ c \in users' /\ chosen'[c] = c /\ bindings'[c] = c
                          /\ \A u \in Unbinders : unbind'[u] # "idle" => dropping'[u] # c
      OBVIOUS
    <3>3. c # a /\ Creating(c) /\ bindings'[c] = c
      BY <3>1, <3>2
    <3>4. QED
      BY <1>3, <2>4, <3>3 DEF BindSaveExisting
  <2>8. (UnbindsAnswered /\ OwnerRecorded(M))'
    BY <1>3, <2>4, <2>5 DEF BindSaveExisting
  <2>9. QED
    BY <2>6, <2>7, <2>8
<1>4. ASSUME NEW a \in Attempts, BindSaveRejected(a)
      PROVE  Rest'
  BY <1>4, <1>0 DEF BindSaveRejected, View, NoView
<1>5. ASSUME NEW a \in Attempts, BindCheckRole(a)
      PROVE  Rest'
  BY <1>5, <1>0 DEF BindCheckRole
<1>6. ASSUME NEW a \in Attempts, BindAlterRole(a)
      PROVE  Rest'
  BY <1>6, <1>0 DEF BindAlterRole
<1>7. ASSUME NEW a \in Attempts, BindCreateRole(a)
      PROVE  Rest'
  <2>1. CASE role[Username(a)] = "absent"
    BY <1>7, <1>0, <2>1 DEF BindCreateRole
  <2>2. CASE role[Username(a)] # "absent"
    BY <1>7, <1>0, <2>2 DEF BindCreateRole
  <2>3. QED
    BY <2>1, <2>2
<1>8. ASSUME NEW a \in Attempts, BindGrant(a)
      PROVE  Rest'
  BY <1>8, <1>0 DEF BindGrant, Names
<1>9. ASSUME NEW a \in Attempts, BindReply(a)
       PROVE  Rest'
  BY <1>9, <1>0 DEF BindReply
<1>10. ASSUME NEW a \in Attempts, BindFail(a)
       PROVE  Rest'
  BY <1>10, <1>0 DEF BindFail, InFlight, View, NoView
<1>11. ASSUME NEW u \in Unbinders, NEW id \in BindingIds, UnbindFind(u, id)
       PROVE  Rest'
  BY <1>11, <1>0 DEF UnbindFind, MayUnbind, InFlight, BindingUser, IsLast
<1>12. ASSUME NEW id \in BindingIds, UnbindUnknown(id)
       PROVE  Rest'
  BY <1>12, <1>0 DEF UnbindUnknown
<1>13. ASSUME NEW u \in Unbinders, UnbindUnlink(u)
       PROVE  Rest'
  <2>1. /\ removing[u] \in Attempts /\ ~Creating(removing[u])
        /\ \A c \in Attempts :
              bindings'[c] = IF c = removing[u] THEN None ELSE bindings[c]
    BY <1>13 DEF UnbindUnlink
  <2>2. (Settled /\ Unknown)'
    BY <1>13, <2>1 DEF UnbindUnlink, Return
  <2>3. CreatorKept'
    BY <1>13, <2>1 DEF UnbindUnlink, Return
  <2>4. (UnbindsAnswered /\ OwnerRecorded(M))'
    BY <1>13 DEF UnbindUnlink, Return
  <2>5. QED
    BY <2>2, <2>3, <2>4
<1>14. ASSUME NEW u \in Unbinders, UnbindRevoke(u)
       PROVE  Rest'
  BY <1>14, <1>0 DEF UnbindRevoke, CanRevoke
<1>15. ASSUME NEW u \in Unbinders, UnbindRevokeRefused(u)
       PROVE  Rest'
  BY <1>15, <1>0 DEF UnbindRevokeRefused, Return
<1>16. ASSUME NEW u \in Unbinders, UnbindDrop(u)
       PROVE  Rest'
  BY <1>16, <1>0 DEF UnbindDrop, DroppedRole
<1>17. ASSUME NEW u \in Unbinders, UnbindDeleteUser(u)
       PROVE  Rest'
  BY <1>17, <1>0 DEF UnbindDeleteUser, Return
<1>18. ASSUME NEW u \in Unbinders, UnbindDeleteUserError(u)
       PROVE  Rest'
  BY <1>18, <1>0 DEF UnbindDeleteUserError, Return
<1>19. ASSUME NEW u \in Unbinders, UnbindFail(u)
       PROVE  Rest'
  BY <1>19, <1>0 DEF UnbindFail, Return
<1>20. CASE UNCHANGED vars
  BY <1>20, <1>0 DEF vars
<1>21. QED
  BY <1>0, <1>1, <1>2, <1>3, <1>4, <1>5, <1>6, <1>7, <1>8, <1>9, <1>10, <1>11,
     <1>12, <1>13, <1>14, <1>15, <1>16, <1>17, <1>18, <1>19, <1>20
  DEF Next, BindStep, UnbindStep

\* On PostgreSQL too, provided the platform does not unbind an ID it is still
\* binding, a role that can log in has a DBUser row, so that Deprovision finds it
\* (broker.go, Bind, Unbind and Deprovision).
THEOREM PostgresEveryLoginIsRecorded ==
    ASSUME Engine = "postgres", Orderly
    PROVE  Spec => []EveryLoginIsRecorded
<1>1. PostgresInv({}) /\ [Next]_vars => PostgresInv({})'
  BY PostgresInvNext
<1>2. PostgresInv({}) => EveryLoginIsRecorded
  BY DEF PostgresInv, TypeInv, TypeOK, OwnerRecorded, EveryLoginIsRecorded, Username, Names
<1>3. QED
  BY PostgresInvInit, <1>1, <1>2, PTL DEF Spec

-----------------------------------------------------------------------------
(* PostgreSQL, one request at a time.                                      *)

\* No two handlers are running.
Alone ==
    /\ \A a, b \in Attempts : InFlight(a) /\ InFlight(b) => a = b
    /\ \A u, v \in Unbinders : unbind[u] # "idle" /\ unbind[v] # "idle" => u = v
    /\ \A a \in Attempts, u \in Unbinders : ~InFlight(a) \/ unbind[u] = "idle"

\* Bind works on the rows as they are.
Current ==
    \A a \in Attempts : bind[a] = "save" =>
        view[a].users = users /\ view[a].bindings = bindings

\* There is one DBUser row at most, every DBBinding hangs off it, and a Bind that
\* has not saved has no part in it.
OneUser ==
    /\ \A r, s \in users : r = s
    /\ \A a \in Attempts : bindings[a] \in users \cup {None}
    /\ \A a \in Attempts : Unsaved(a) =>
          /\ a \notin users
          /\ bindings[a] = None
          /\ \A c \in Attempts : chosen[c] # a
          /\ password[SharedName] # a

\* A Bind at work has its DBBinding; one that was answered keeps it until somebody
\* asks to release it.
Bound ==
    \A a \in Attempts :
        (InFlight(a) /\ bind[a] # "save") \/ Holds(a) =>
            chosen[a] # None /\ bindings[a] = chosen[a]

\* The handler that is about to change the role.
Setting == \E a \in Attempts : bind[a] \in {"check", "alter", "create", "grant"}
Dropping == \E u \in Unbinders : unbind[u] \in {"drop", "delete"}
Clearing == \E u \in Unbinders : unbind[u] \in {"revoke", "drop", "delete"}

\* Only the shared role logs in, and only while there is a DBUser row.
RoleOwned ==
    /\ \A n \in Attempts : role[n] = "absent"
    /\ role[SharedName] = "login" => users # {}

\* How far the role has got while Bind sets it up for its own DBUser.
SettingUp ==
    \A a \in Attempts :
        /\ bind[a] \in {"check", "alter", "create", "grant"} =>
              /\ users = {a} /\ chosen[a] = a
              /\ \A c \in Attempts : bindings[c] # None => c = a
        /\ bind[a] = "check" => role[SharedName] # "login"
        /\ bind[a] = "alter" => role[SharedName] = "nologin"
        /\ bind[a] = "create" => role[SharedName] = "absent"
        /\ bind[a] = "grant" => role[SharedName] = "login" /\ password[SharedName] = a

\* What Unbind has in hand, and how far it has got with the role.
Unsetting ==
    \A u \in Unbinders :
        /\ unbind[u] = "unlink" =>
              /\ bindings[removing[u]] \in users
              /\ dropping[u] = IF IsLast(removing[u]) THEN bindings[removing[u]] ELSE None
        /\ unbind[u] \in {"revoke", "drop", "delete"} =>
              /\ users = {dropping[u]}
              /\ \A c \in Attempts : bindings[c] = None
        /\ unbind[u] = "delete" => role[SharedName] = "nologin"

SerialInv ==
    /\ TypeInv
    /\ Alone
    /\ Current
    /\ OneUser
    /\ Bound
    /\ RoleOwned
    /\ SettingUp
    /\ Unsetting

OneAtATime == Engine = "postgres" /\ Serial

\* What may fail without harm to the credentials that others hold: nothing between the
\* Save of a DBUser row and the privileges of its role, or between their end and
\* the deletion of the row.
HarmlessFaults == Faults \subseteq {"save", "reply", "unlink", "revoke"}

\* Then, whenever no handler is at work on it, the role has the password of the one
\* DBUser row, and the privileges.
RoleMatches == \A r \in users : Works(r) \/ Setting \/ Dropping

\* Whatever fails but REVOKE and ALTER ROLE ... NOLOGIN, a role that can log in has a
\* DBBinding or an Unbind at work.
LoginBound ==
    role[SharedName] = "login" => Clearing \/ \E c \in Attempts : bindings[c] \in users

\* The invariant of one request at a time holds initially.
LEMMA SerialInvInit == Init => SerialInv
<1>1. Init => TypeInv
  BY TypeInvInit
<1>2. QED
  BY <1>1 DEF Init, SerialInv, Alone, InFlight, Current, OneUser, Unsaved, Bound, Holds, RoleOwned,
              SettingUp, Unsetting, Works, Names, NoView

\* Every step preserves it, whatever fails.
LEMMA SerialInvNext ==
    ASSUME OneAtATime, SerialInv, [Next]_vars
    PROVE  SerialInv'
<1> DEFINE Rest == /\ Alone /\ Current /\ OneUser /\ Bound /\ RoleOwned
                   /\ SettingUp /\ Unsetting
<1>0. TypeInv'
  BY TypeInvNext DEF SerialInv
<1>a. /\ TypeInv /\ Alone /\ Current /\ OneUser /\ Bound /\ RoleOwned
      /\ SettingUp /\ Unsetting /\ Engine = "postgres" /\ Serial
  BY DEF SerialInv, OneAtATime
<1> USE DEF TypeInv, TypeOK, UnbindInv, Alone, InFlight, Current, OneUser, Unsaved, Bound, Holds,
            RoleOwned, SettingUp, Unsetting, IsLast,
            MaybeUser, Names, Username, MaySend, Quiet, rows, sql, binders, unbinders, platform
<1>1. ASSUME NEW a \in Attempts, BindFind(a)
      PROVE  Rest'
  BY <1>0, <1>a, <1>1 DEF BindFind
<1>2. ASSUME NEW a \in Attempts, BindSaveNew(a)
      PROVE  Rest'
  <2>1. view[a].users = {} /\ users = {}
    BY <1>a, <1>2 DEF BindSaveNew, User, View
  <2>2. users' = {a}
    BY <1>2, <2>1 DEF BindSaveNew
  <2>3. \A c \in Attempts : bindings'[c] = IF c = a THEN a ELSE None
    BY <1>a, <1>2, <2>1 DEF BindSaveNew, SavedBindings
  <2>4. \A c \in Attempts :
           /\ bind'[c] = IF c = a THEN "check" ELSE bind[c]
           /\ chosen'[c] = IF c = a THEN a ELSE chosen[c]
    BY <1>a, <1>2 DEF BindSaveNew
  <2>5. \A c \in Attempts : c # a => ~InFlight(c)
    BY <1>a, <1>2 DEF BindSaveNew
  <2>6. \A u \in Unbinders : unbind[u] = "idle" /\ unbind'[u] = "idle"
    BY <1>a, <1>2 DEF BindSaveNew
  <2>7. /\ role[SharedName] # "login" /\ role' = role /\ password' = password
        /\ released' = released
    BY <1>a, <1>2, <2>1 DEF BindSaveNew
  <2>8. (Alone /\ Current)'
    BY <2>4, <2>5, <2>6
  <2>9. OneUser'
    BY <1>a, <1>2, <2>2, <2>3, <2>4, <2>7 DEF BindSaveNew
  <2>10. Bound'
    <3>1. SUFFICES ASSUME NEW c \in Attempts, c # a, Holds(c)
                   PROVE  FALSE
      BY <2>3, <2>4, <2>5, <2>7
    <3>2. QED
      BY <1>a, <2>1, <3>1
  <2>11. (RoleOwned /\ SettingUp)'
    BY <1>a, <1>0, <2>2, <2>3, <2>4, <2>5, <2>7
  <2>12. Unsetting'
    BY <2>6
  <2>13. QED
    BY <2>8, <2>9, <2>10, <2>11, <2>12
<1>3. ASSUME NEW a \in Attempts, BindSaveExisting(a)
      PROVE  Rest'
  <2>1. PICK r \in users :
           /\ bindings' = [SavedBindings(view[a], {r}) EXCEPT ![a] = r]
           /\ chosen' = [chosen EXCEPT ![a] = r]
    BY <1>3 DEF BindSaveExisting
  <2>2. bind[a] = "save" /\ view[a].bindings = bindings /\ users = {r} /\ r \in Attempts
    BY <1>a, <1>3 DEF BindSaveExisting
  <2>3. \A c \in Attempts : bindings'[c] = IF c = a THEN r ELSE bindings[c]
    BY <1>a, <2>1, <2>2 DEF SavedBindings
  <2>4. \A c \in Attempts :
           /\ bind'[c] = IF c = a THEN "reply" ELSE bind[c]
           /\ chosen'[c] = IF c = a THEN r ELSE chosen[c]
    BY <1>a, <1>3, <2>1 DEF BindSaveExisting
  <2>5. \A c \in Attempts : c # a => ~InFlight(c)
    BY <1>a, <2>2
  <2>6. \A u \in Unbinders : unbind[u] = "idle" /\ unbind'[u] = "idle"
    BY <1>a, <1>3, <2>2 DEF BindSaveExisting
  <2>7. /\ users' = users /\ role' = role /\ password' = password
        /\ granted' = granted /\ released' = released
    BY <1>3 DEF BindSaveExisting
  <2>8. (Alone /\ Current)'
    BY <2>4, <2>5, <2>6
  <2>9. OneUser'
    BY <1>a, <2>2, <2>3, <2>4, <2>7
  <2>10. Bound'
    BY <1>a, <2>2, <2>3, <2>4, <2>5, <2>7
  <2>11. (RoleOwned /\ SettingUp)'
    BY <1>a, <1>0, <2>2, <2>3, <2>4, <2>5, <2>6, <2>7
  <2>12. Unsetting'
    BY <2>6
  <2>13. QED
    BY <2>8, <2>9, <2>10, <2>11, <2>12
<1>4. ASSUME NEW a \in Attempts, BindSaveRejected(a)
      PROVE  Rest'
  BY <1>0, <1>a, <1>4 DEF BindSaveRejected, SaveAccepted, User, NoView
<1>5. ASSUME NEW a \in Attempts, BindCheckRole(a)
      PROVE  Rest'
  BY <1>0, <1>a, <1>5 DEF BindCheckRole
<1>6. ASSUME NEW a \in Attempts, BindAlterRole(a)
      PROVE  Rest'
  BY <1>0, <1>a, <1>6 DEF BindAlterRole
<1>7. ASSUME NEW a \in Attempts, BindCreateRole(a)
      PROVE  Rest'
  BY <1>0, <1>a, <1>7 DEF BindCreateRole
<1>8. ASSUME NEW a \in Attempts, BindGrant(a)
      PROVE  Rest'
  BY <1>0, <1>a, <1>8 DEF BindGrant
<1>9. ASSUME NEW a \in Attempts, BindReply(a)
      PROVE  Rest'
  BY <1>0, <1>a, <1>9 DEF BindReply
<1>10. ASSUME NEW a \in Attempts, BindFail(a)
      PROVE  Rest'
  BY <1>0, <1>a, <1>10 DEF BindFail, NoView
<1>11. ASSUME NEW u \in Unbinders, NEW id \in BindingIds, UnbindFind(u, id)
      PROVE  Rest'
  BY <1>0, <1>a, <1>11 DEF UnbindFind, MayUnbind, BindingUser
<1>12. ASSUME NEW id \in BindingIds, UnbindUnknown(id)
      PROVE  Rest'
  BY <1>0, <1>a, <1>12 DEF UnbindUnknown, MayUnbind
<1>13. ASSUME NEW u \in Unbinders, UnbindUnlink(u)
      PROVE  Rest'
  BY <1>0, <1>a, <1>13 DEF UnbindUnlink, Return
<1>14. ASSUME NEW u \in Unbinders, UnbindRevoke(u)
      PROVE  Rest'
  BY <1>0, <1>a, <1>14 DEF UnbindRevoke, CanRevoke
<1>15. ASSUME NEW u \in Unbinders, UnbindRevokeRefused(u)
      PROVE  Rest'
  BY <1>0, <1>a, <1>15 DEF UnbindRevokeRefused, Return
<1>16. ASSUME NEW u \in Unbinders, UnbindDrop(u)
      PROVE  Rest'
  BY <1>0, <1>a, <1>16 DEF UnbindDrop, DroppedRole
<1>17. ASSUME NEW u \in Unbinders, UnbindDeleteUser(u)
      PROVE  Rest'
  BY <1>0, <1>a, <1>17 DEF UnbindDeleteUser, Return
<1>18. ASSUME NEW u \in Unbinders, UnbindDeleteUserError(u)
      PROVE  Rest'
  BY <1>0, <1>a, <1>18 DEF UnbindDeleteUserError, Return
<1>19. ASSUME NEW u \in Unbinders, UnbindFail(u)
      PROVE  Rest'
  BY <1>0, <1>a, <1>19 DEF UnbindFail, Return
<1>20. ASSUME UNCHANGED vars
       PROVE  Rest'
  <2>1. (Alone /\ Current /\ OneUser /\ Bound)'
    BY <1>a, <1>20 DEF vars
  <2>2. (RoleOwned /\ SettingUp)'
    BY <1>a, <1>20 DEF vars
  <2>3. Unsetting'
    BY <1>a, <1>20 DEF vars
  <2>4. QED
    BY <2>1, <2>2, <2>3
<1>21. Rest'
  <2> HIDE DEF Rest
  <2>1. ASSUME NEW a \in Attempts, BindFind(a) \/ BindStep(a) \/ BindFail(a)
        PROVE  Rest'
    BY <2>1, <1>1, <1>2, <1>3, <1>4, <1>5, <1>6, <1>7, <1>8, <1>9, <1>10 DEF BindStep
  <2>2. ASSUME NEW u \in Unbinders, UnbindStep(u) \/ UnbindFail(u)
        PROVE  Rest'
    BY <2>2, <1>13, <1>14, <1>15, <1>16, <1>17, <1>18, <1>19 DEF UnbindStep
  <2>3. QED
    BY <2>1, <2>2, <1>11, <1>12, <1>20 DEF Next
<1>22. QED
  BY <1>0, <1>21 DEF SerialInv

\* Harmless failures leave the role as the DBUser row says.
LEMMA RoleMatchesNext ==
    ASSUME OneAtATime, HarmlessFaults, SerialInv, RoleMatches, [Next]_vars
    PROVE  RoleMatches'
<1>0. /\ TypeInv /\ Alone /\ Current /\ OneUser /\ RoleOwned /\ SettingUp /\ Unsetting
      /\ Engine = "postgres" /\ Faults \subseteq {"save", "reply", "unlink", "revoke"}
  BY DEF SerialInv, OneAtATime, HarmlessFaults
<1> USE DEF RoleMatches, Works, Setting, Dropping, Username, TypeInv, TypeOK, UnbindInv, MaybeUser,
            Names, rows, sql, binders, unbinders, platform
<1>1. ASSUME NEW a \in Attempts, BindFind(a) \/ BindReply(a) \/ BindSaveRejected(a)
      PROVE  RoleMatches'
  BY <1>0, <1>1 DEF BindFind, BindReply, BindSaveRejected
<1>2. ASSUME NEW a \in Attempts, BindSaveNew(a)
      PROVE  RoleMatches'
  BY <1>0, <1>2 DEF BindSaveNew
<1>3. ASSUME NEW a \in Attempts, BindSaveExisting(a)
      PROVE  RoleMatches'
  BY <1>0, <1>3 DEF BindSaveExisting
<1>4. ASSUME NEW a \in Attempts, BindCheckRole(a) \/ BindAlterRole(a)
      PROVE  RoleMatches'
  BY <1>0, <1>4 DEF BindCheckRole, BindAlterRole
<1>5. ASSUME NEW a \in Attempts, BindCreateRole(a)
      PROVE  RoleMatches'
  BY <1>0, <1>5 DEF BindCreateRole, SettingUp
<1>6. ASSUME NEW a \in Attempts, BindGrant(a)
      PROVE  RoleMatches'
  BY <1>0, <1>6 DEF BindGrant, SettingUp
<1>7. ASSUME NEW a \in Attempts, BindFail(a)
      PROVE  RoleMatches'
  BY <1>0, <1>7 DEF BindFail
<1>8. ASSUME NEW u \in Unbinders, NEW id \in BindingIds, UnbindFind(u, id)
      PROVE  RoleMatches'
  BY <1>0, <1>8 DEF UnbindFind
<1>9. ASSUME NEW id \in BindingIds, UnbindUnknown(id)
      PROVE  RoleMatches'
  BY <1>0, <1>9 DEF UnbindUnknown
<1>10. ASSUME NEW u \in Unbinders, UnbindUnlink(u)
       PROVE  RoleMatches'
  BY <1>0, <1>10 DEF UnbindUnlink, Return
<1>11. ASSUME NEW u \in Unbinders, UnbindRevoke(u) \/ UnbindDrop(u)
       PROVE  RoleMatches'
  BY <1>0, <1>11 DEF UnbindRevoke, UnbindDrop
<1>12. ASSUME NEW u \in Unbinders, UnbindRevokeRefused(u) \/ UnbindFail(u)
       PROVE  RoleMatches'
  <2>1. unbind[u] \in {"unlink", "revoke"} /\ UNCHANGED <<rows, sql, binders>>
    BY <1>0, <1>12 DEF UnbindRevokeRefused, UnbindFail
  <2>2. ~Dropping
    BY <1>0, <2>1 DEF Alone
  <2>3. QED
    BY <1>0, <2>1, <2>2
<1>13. ASSUME NEW u \in Unbinders, UnbindDeleteUser(u)
       PROVE  RoleMatches'
  BY <1>0, <1>13 DEF UnbindDeleteUser, Unsetting
<1>14. ASSUME NEW u \in Unbinders, UnbindDeleteUserError(u)
       PROVE  RoleMatches'
  BY <1>0, <1>14 DEF UnbindDeleteUserError
<1>15. CASE UNCHANGED vars
  BY <1>0, <1>15 DEF vars
<1>16. QED
  BY <1>1, <1>2, <1>3, <1>4, <1>5, <1>6, <1>7, <1>8, <1>9, <1>10, <1>11, <1>12, <1>13, <1>14,
     <1>15 DEF Next, BindStep, UnbindStep

\* As long as Unbind can end a login, one without a DBBinding is about to end.
LEMMA LoginBoundNext ==
    ASSUME OneAtATime, Faults \cap {"revoke", "drop"} = {}, SerialInv, LoginBound, [Next]_vars
    PROVE  LoginBound'
<1>0. /\ TypeInv /\ Alone /\ Current /\ OneUser /\ Bound /\ RoleOwned /\ SettingUp /\ Unsetting
      /\ Engine = "postgres" /\ Faults \cap {"revoke", "drop"} = {}
  BY DEF SerialInv, OneAtATime
<1> USE DEF LoginBound, Clearing, Username, TypeInv, TypeOK, UnbindInv, MaybeUser,
            Names, rows, sql, binders, unbinders, platform
<1>1. ASSUME NEW a \in Attempts,
             \/ BindFind(a) \/ BindReply(a) \/ BindSaveRejected(a)
             \/ BindCheckRole(a) \/ BindGrant(a) \/ BindFail(a)
      PROVE  LoginBound'
  BY <1>0, <1>1 DEF BindFind, BindReply, BindSaveRejected, BindCheckRole, BindGrant, BindFail
<1>2. ASSUME NEW a \in Attempts, BindSaveNew(a)
      PROVE  LoginBound'
  <2>1. a \in users' /\ bindings'[a] = a
    BY <1>0, <1>2 DEF BindSaveNew, SavedBindings
  <2>2. QED
    BY <2>1
<1>3. ASSUME NEW a \in Attempts, BindSaveExisting(a)
      PROVE  LoginBound'
  <2>1. PICK r \in User(view[a], a) \cap users :
           bindings' = [SavedBindings(view[a], {r}) EXCEPT ![a] = r]
    BY <1>3 DEF BindSaveExisting
  <2>2. bindings'[a] = r /\ users' = users
    BY <1>3, <2>1 DEF BindSaveExisting, SavedBindings
  <2>3. QED
    BY <2>1, <2>2
<1>4. ASSUME NEW a \in Attempts, BindAlterRole(a) \/ BindCreateRole(a)
      PROVE  LoginBound'
  <2>1. bindings[a] = chosen[a] /\ chosen[a] \in users
    BY <1>0, <1>4 DEF BindAlterRole, BindCreateRole, Bound, InFlight, SettingUp
  <2>2. bindings' = bindings /\ users' = users
    BY <1>4 DEF BindAlterRole, BindCreateRole
  <2>3. QED
    BY <2>1, <2>2
<1>5. ASSUME NEW u \in Unbinders, NEW id \in BindingIds, UnbindFind(u, id)
      PROVE  LoginBound'
  BY <1>0, <1>5 DEF UnbindFind
<1>6. ASSUME NEW id \in BindingIds, UnbindUnknown(id)
      PROVE  LoginBound'
  BY <1>0, <1>6 DEF UnbindUnknown
<1>7. ASSUME NEW u \in Unbinders, UnbindUnlink(u)
      PROVE  LoginBound'
  BY <1>0, <1>7 DEF UnbindUnlink, Return, Unsetting, IsLast, OneUser
<1>8. ASSUME NEW u \in Unbinders, UnbindRevoke(u) \/ UnbindDrop(u)
      PROVE  LoginBound'
  BY <1>0, <1>8 DEF UnbindRevoke, UnbindDrop
<1>9. ASSUME NEW u \in Unbinders, UnbindRevokeRefused(u)
      PROVE  LoginBound'
  BY <1>0, <1>9 DEF UnbindRevokeRefused, CanRevoke
<1>10. ASSUME NEW u \in Unbinders, UnbindDeleteUser(u) \/ UnbindDeleteUserError(u)
       PROVE  LoginBound'
  BY <1>0, <1>10 DEF UnbindDeleteUser, UnbindDeleteUserError, Unsetting
<1>11. ASSUME NEW u \in Unbinders, UnbindFail(u)
       PROVE  LoginBound'
  <2>1. unbind[u] \in {"unlink", "delete"} /\ UNCHANGED <<rows, sql>>
    BY <1>0, <1>11 DEF UnbindFail
  <2>2. unbind[u] = "delete" => role[SharedName] = "nologin"
    BY <1>0 DEF Unsetting
  <2>3. unbind[u] = "unlink" => ~Clearing
    BY <1>0 DEF Alone
  <2>4. QED
    BY <2>1, <2>2, <2>3
<1>12. CASE UNCHANGED vars
  BY <1>0, <1>12 DEF vars
<1>13. QED
  BY <1>1, <1>2, <1>3, <1>4, <1>5, <1>6, <1>7, <1>8, <1>9, <1>10, <1>11, <1>12
  DEF Next, BindStep, UnbindStep

\* The credentials of an answered Bind belong to the one DBUser row, which nobody
\* is setting up or dropping.
LEMMA SerialHeld ==
    ASSUME OneAtATime, SerialInv, RoleMatches
    PROVE  HeldCredentialsWork
<1> SUFFICES ASSUME NEW a \in Attempts, Holds(a)
             PROVE  Works(chosen[a])
  BY DEF HeldCredentialsWork
<1>1. chosen[a] \in users
  BY DEF SerialInv, Bound, OneUser
<1>2. ~Setting
  BY DEF SerialInv, SettingUp, Setting, Bound, Holds
<1>3. ~Dropping
  BY <1>1 DEF SerialInv, Unsetting, Dropping, Bound
<1>4. QED
  BY <1>1, <1>2, <1>3 DEF RoleMatches

\* One request at a time, the credentials of every application on PostgreSQL work,
\* although all share a user that others set up and drop, and although any call may
\* fail outside the two places where the row and the role differ
\* (broker.go, Bind and Unbind).
THEOREM SerialHeldCredentialsWork ==
    ASSUME OneAtATime, HarmlessFaults
    PROVE  Spec => []HeldCredentialsWork
<1>1. Init => SerialInv /\ RoleMatches
  BY SerialInvInit DEF Init, RoleMatches
<1>2. SerialInv /\ RoleMatches /\ [Next]_vars => (SerialInv /\ RoleMatches)'
  BY SerialInvNext, RoleMatchesNext
<1>3. SerialInv /\ RoleMatches => HeldCredentialsWork
  BY SerialHeld
<1>4. QED
  BY <1>1, <1>2, <1>3, PTL DEF Spec

\* The last Unbind has taken the login away: between requests, a role that can
\* log in has a DBBinding, whatever has failed but the two calls that end the login
\* (models.go, Unbind; postgres_engine.go, RevokePrivileges and DropUser).
THEOREM SerialLoginNeedsBinding ==
    ASSUME OneAtATime, Faults \cap {"revoke", "drop"} = {}
    PROVE  Spec => []LoginNeedsBinding
<1>1. Init => SerialInv /\ LoginBound
  BY SerialInvInit DEF Init, LoginBound, Names
<1>2. SerialInv /\ LoginBound /\ [Next]_vars => (SerialInv /\ LoginBound)'
  BY SerialInvNext, LoginBoundNext
<1>3. SerialInv /\ LoginBound => LoginNeedsBinding
  BY DEF SerialInv, TypeInv, TypeOK, RoleOwned, LoginBound, Clearing, LoginNeedsBinding, Quiet,
         Names, Username, OneAtATime
<1>4. QED
  BY <1>1, <1>2, <1>3, PTL DEF Spec

\* A Bind that has saved stays so, and only a Save settles on a DBUser row.
LEMMA BindMoves ==
    ASSUME TypeInv, [Next]_vars, NEW a \in Attempts
    PROVE  /\ ~Unsaved(a) => ~Unsaved(a)'
           /\ chosen'[a] # chosen[a] => BindSaveNew(a) \/ BindSaveExisting(a)
<1> DEFINE Goal == /\ ~Unsaved(a) => ~Unsaved(a)'
                   /\ chosen'[a] # chosen[a] => BindSaveNew(a) \/ BindSaveExisting(a)
<1> USE DEF TypeInv, TypeOK, Unsaved, binders
<1>1. ASSUME NEW b \in Attempts, BindFind(b) \/ BindFail(b)
      PROVE  Goal
  BY <1>1 DEF BindFind, BindFail, InFlight
<1>2. ASSUME NEW b \in Attempts, BindSaveNew(b)
      PROVE  Goal
  <2>1. bind' = [bind EXCEPT ![b] = IF Engine = "postgres" THEN "check" ELSE "create"]
    BY <1>2 DEF BindSaveNew
  <2>2. chosen' = [chosen EXCEPT ![b] = b] /\ bind[b] = "save"
    BY <1>2 DEF BindSaveNew
  <2>3. QED
    BY <1>2, <2>1, <2>2
<1>3. ASSUME NEW b \in Attempts, BindSaveExisting(b)
      PROVE  Goal
  <2>1. bind' = [bind EXCEPT ![b] = "reply"] /\ bind[b] = "save"
    BY <1>3 DEF BindSaveExisting
  <2>2. \E r : chosen' = [chosen EXCEPT ![b] = r]
    BY <1>3 DEF BindSaveExisting
  <2>3. QED
    BY <1>3, <2>1, <2>2
<1>4. ASSUME NEW b \in Attempts,
             \/ BindSaveRejected(b) \/ BindCheckRole(b) \/ BindAlterRole(b)
             \/ BindCreateRole(b) \/ BindGrant(b) \/ BindReply(b)
      PROVE  Goal
  BY <1>4 DEF BindSaveRejected, BindCheckRole, BindAlterRole, BindCreateRole,
     BindGrant, BindReply
<1>5. ASSUME NEW u \in Unbinders, NEW id \in BindingIds, UnbindFind(u, id)
      PROVE  Goal
  BY <1>5 DEF UnbindFind
<1>6. ASSUME NEW id \in BindingIds, UnbindUnknown(id)
      PROVE  Goal
  BY <1>6 DEF UnbindUnknown
<1>7. ASSUME NEW u \in Unbinders, UnbindStep(u) \/ UnbindFail(u)
      PROVE  Goal
  BY <1>7 DEF UnbindStep, UnbindFail, UnbindUnlink, UnbindRevoke, UnbindRevokeRefused,
     UnbindDrop, UnbindDeleteUser, UnbindDeleteUserError
<1>8. CASE UNCHANGED vars
  BY <1>8 DEF vars
<1>9. QED
  BY <1>1, <1>2, <1>3, <1>4, <1>5, <1>6, <1>7, <1>8 DEF Next, BindStep

\* Every Bind has an ID of its own, one that has saved is answered, and an Unbind
\* that succeeds has deleted what it means to.
NoRetries == \A a, c \in Attempts : BindingOf[a] = BindingOf[c] => a = c
AnsweredOnceSaved == Faults \subseteq {"save"} \cup UnbindSteps

\* An ID that was unbound, or a Bind that failed, has no DBBinding; while there is a
\* DBUser row there is a Bind that has not been unbound, also when an Unbind has
\* left the row without a DBBinding.
Unlinked ==
    /\ \A a \in Attempts : BindingOf[a] \in unbound => bindings[a] = None /\ ~Unsaved(a)
    /\ \A a \in Attempts : bind[a] = "failed" => bindings[a] = None
    /\ \A u \in Unbinders : unbind[u] # "idle" => ~Unsaved(removing[u])
    /\ users # {} => \E d \in Attempts :
          ~Unsaved(d) /\ bind[d] # "failed" /\ BindingOf[d] \notin unbound

\* Every step preserves this.
LEMMA UnlinkedNext ==
    ASSUME OneAtATime, AnsweredOnceSaved, NoRetries, SerialInv, Unlinked, [Next]_vars
    PROVE  Unlinked'
<1>0. /\ TypeInv /\ Alone /\ Current /\ OneUser /\ Bound /\ SettingUp /\ Unsetting
      /\ Engine = "postgres" /\ Faults \subseteq {"save"} \cup UnbindSteps /\ NoRetries
  BY DEF SerialInv, OneAtATime, AnsweredOnceSaved
<1>1. \A a \in Attempts : ~Unsaved(a) => ~Unsaved(a)'
  BY BindMoves DEF SerialInv
<1> USE DEF Unlinked, Unsaved, TypeInv, TypeOK, UnbindInv, MaybeUser, rows, unbinders, platform
<1>2. ASSUME NEW a \in Attempts, BindSaveNew(a) \/ BindSaveExisting(a)
      PROVE  Unlinked'
  <2>1. Unsaved(a) /\ view[a].bindings = bindings /\ bind[a] = "save"
    BY <1>0, <1>2 DEF Current, BindSaveNew, BindSaveExisting
  <2>2. \A c \in Attempts : c # a => bindings'[c] = bindings[c]
    BY <1>2, <2>1 DEF BindSaveNew, BindSaveExisting, SavedBindings
  <2>3. unbound' = unbound /\ unbind' = unbind /\ removing' = removing
    BY <1>2 DEF BindSaveNew, BindSaveExisting
  <2>4. \A c \in Attempts : bind'[c] = "failed" => c # a /\ bind[c] = "failed"
    BY <1>0, <1>2 DEF BindSaveNew, BindSaveExisting
  <2>5. ~Unsaved(a)' /\ bind'[a] # "failed" /\ BindingOf[a] \notin unbound
    BY <1>0, <1>2, <2>1, <2>4 DEF BindSaveNew, BindSaveExisting
  <2>6. QED
    BY <1>0, <1>1, <2>1, <2>2, <2>3, <2>4, <2>5
<1>3. ASSUME NEW a \in Attempts, BindFind(a) \/ BindCheckRole(a) \/ BindAlterRole(a)
                                 \/ BindCreateRole(a) \/ BindGrant(a) \/ BindReply(a)
      PROVE  Unlinked'
  <2>1. \A c \in Attempts : bind'[c] = "failed" => bind[c] = "failed"
    BY <1>0, <1>3 DEF BindFind, BindCheckRole, BindAlterRole, BindCreateRole, BindGrant, BindReply,
       SettingUp, Username
  <2>2. UNCHANGED <<users, bindings, unbound, unbind, removing>>
    BY <1>3 DEF BindFind, BindCheckRole, BindAlterRole, BindCreateRole, BindGrant, BindReply
  <2>3. QED
    BY <1>0, <1>1, <2>1, <2>2
<1>4. ASSUME NEW a \in Attempts, BindSaveRejected(a) \/ BindFail(a)
      PROVE  Unlinked'
  <2>1. /\ Unsaved(a) /\ bindings[a] = None
        /\ bind' = [bind EXCEPT ![a] = "failed"]
        /\ UNCHANGED <<users, bindings, unbound, unbind, removing>>
    BY <1>0, <1>4 DEF BindSaveRejected, BindFail, InFlight, OneUser
  <2>2. QED
    BY <1>0, <1>1, <2>1
<1>5. ASSUME NEW u \in Unbinders, NEW id \in BindingIds, UnbindFind(u, id)
      PROVE  Unlinked'
  BY <1>0, <1>1, <1>5 DEF UnbindFind, BindingUser, OneUser, binders
<1>6. ASSUME NEW id \in BindingIds, UnbindUnknown(id)
      PROVE  Unlinked'
  BY <1>1, <1>6 DEF UnbindUnknown, binders
<1>7. ASSUME NEW u \in Unbinders, UnbindUnlink(u)
      PROVE  Unlinked'
  <2>1. /\ removing[u] \in Attempts /\ ~Unsaved(removing[u])
        /\ \A c \in Attempts : bindings'[c] = IF c = removing[u] THEN None ELSE bindings[c]
        /\ users' = users /\ bind' = bind
        /\ \A v \in Unbinders : unbind'[v] # "idle" =>
              unbind[v] # "idle" /\ removing'[v] = removing[v]
    BY <1>0, <1>7 DEF UnbindUnlink, Return, binders
  <2>2. CASE dropping[u] # None
    <3>1. unbound' = unbound
      BY <1>7, <2>2 DEF UnbindUnlink, Return
    <3>2. QED
      BY <1>0, <2>1, <3>1
  <2>3. CASE dropping[u] = None
    <3>1. unbound' = unbound \cup {BindingOf[removing[u]]}
      BY <1>7, <2>3 DEF UnbindUnlink, Return
    <3>2. PICK d \in Attempts : d # removing[u] /\ bindings[d] # None
      BY <1>0, <1>7, <2>3 DEF UnbindUnlink, Unsetting, IsLast, OneUser
    <3>3. ~Unsaved(d) /\ bind[d] # "failed" /\ BindingOf[d] \notin unbound'
      BY <1>0, <2>1, <3>1, <3>2 DEF OneUser, NoRetries
    <3>4. \A a \in Attempts : BindingOf[a] \in unbound' => bindings'[a] = None /\ ~Unsaved(a)
      BY <1>0, <2>1, <3>1 DEF NoRetries
    <3>5. QED
      BY <1>0, <1>1, <2>1, <3>3, <3>4
  <2>4. QED
    BY <2>2, <2>3
<1>8. ASSUME NEW u \in Unbinders, UnbindDeleteUser(u)
      PROVE  Unlinked'
  <2>1. users' = {} /\ \A c \in Attempts : bindings'[c] = None
    BY <1>0, <1>8 DEF UnbindDeleteUser, Unsetting
  <2>2. /\ unbound' = unbound \cup {BindingOf[removing[u]]} /\ bind' = bind
        /\ removing[u] \in Attempts /\ ~Unsaved(removing[u])
        /\ \A v \in Unbinders : unbind'[v] # "idle" =>
              unbind[v] # "idle" /\ removing'[v] = removing[v]
    BY <1>0, <1>8 DEF UnbindDeleteUser, Return, binders
  <2>3. \A a \in Attempts : BindingOf[a] \in unbound' => ~Unsaved(a)
    BY <1>0, <2>2 DEF NoRetries
  <2>4. QED
    BY <1>0, <1>1, <2>1, <2>2, <2>3
<1>9. ASSUME NEW u \in Unbinders, UnbindDeleteUserError(u)
      PROVE  Unlinked'
  BY <1>0, <1>9 DEF UnbindDeleteUserError
<1>10. ASSUME NEW u \in Unbinders,
              UnbindRevoke(u) \/ UnbindRevokeRefused(u) \/ UnbindDrop(u) \/ UnbindFail(u)
       PROVE  Unlinked'
  <2>1. /\ UNCHANGED <<users, bindings, bind, unbound>>
        /\ \A v \in Unbinders : unbind'[v] # "idle" =>
              unbind[v] # "idle" /\ removing'[v] = removing[v]
    BY <1>0, <1>10 DEF UnbindRevoke, UnbindRevokeRefused, UnbindDrop, UnbindFail, Return, binders
  <2>2. QED
    BY <1>0, <1>1, <2>1
<1>11. CASE UNCHANGED vars
  BY <1>1, <1>11 DEF vars
<1>12. QED
  BY <1>2, <1>3, <1>4, <1>5, <1>6, <1>7, <1>8, <1>9, <1>10, <1>11 DEF Next, BindStep, UnbindStep

\* When every application that was given credentials has been unbound with success, a
\* new Bind makes a password of its own, although earlier Unbinds may have failed
\* and left their DBUser row (README, "Changing password"; models.go, Bind).
THEOREM SerialRebindGetsNewPassword ==
    ASSUME OneAtATime, AnsweredOnceSaved, NoRetries
    PROVE  Spec => RebindGetsNewPassword
<1> DEFINE Inv == SerialInv /\ Unlinked
           Answered == \A c \in Attempts : bind[c] = "ok" => BindingOf[c] \in unbound
           Fresher == \A a, c \in Attempts :
              (chosen[a] = None /\ chosen'[a] # None /\ bind[c] = "ok") => chosen'[a] # chosen[c]
<1>1. Init => Unlinked
  BY DEF Init, Unlinked
<1>2. Inv /\ [Next]_vars => Inv'
  BY SerialInvNext, UnlinkedNext
<1>3. ASSUME Inv, [Next]_vars
      PROVE  [Answered => Fresher]_vars
  <2> SUFFICES ASSUME Next, Answered, NEW a \in Attempts, NEW c \in Attempts,
                      chosen[a] = None, chosen'[a] # None, bind[c] = "ok"
               PROVE  chosen'[a] # chosen[c]
    BY <1>3
  <2>1. CASE BindSaveNew(a)
    BY <1>3, <2>1 DEF SerialInv, TypeInv, TypeOK, OneUser, Unsaved, BindSaveNew
  <2>2. CASE BindSaveExisting(a)
    <3>1. users # {} /\ InFlight(a) /\ Unsaved(a)
      BY <1>3, <2>2 DEF Unsaved, InFlight, BindSaveExisting
    <3>2. PICK d \in Attempts : ~Unsaved(d) /\ bind[d] # "failed" /\ BindingOf[d] \notin unbound
      BY <1>3, <3>1 DEF Unlinked
    <3>3. bind[d] = "ok"
      BY <1>3, <3>1, <3>2 DEF SerialInv, TypeInv, TypeOK, Alone, Unsaved, InFlight
    <3>4. QED
      BY <3>2, <3>3
  <2>3. CASE ~BindSaveNew(a) /\ ~BindSaveExisting(a)
    <3>1. chosen'[a] = chosen[a]
      BY <1>3, <2>3, BindMoves DEF SerialInv
    <3>2. QED
      BY <3>1
  <2>4. QED
    BY <2>1, <2>2, <2>3
<1>4. QED
  BY SerialInvInit, <1>1, <1>2, <1>3, PTL DEF Spec, RebindGetsNewPassword

\* What one step can do to shared credentials when requests come one at a time.
LEMMA SerialMoves ==
    ASSUME OneAtATime, HarmlessFaults, SerialInv, RoleMatches, [Next]_vars, NEW r \in Attempts
    PROVE  Moves(r)
<1>0. /\ TypeInv /\ Alone /\ OneUser /\ Bound /\ RoleMatches /\ SettingUp /\ Unsetting
      /\ Engine = "postgres" /\ Faults \subseteq {"save", "reply", "unlink", "revoke"}
  BY DEF SerialInv, OneAtATime, HarmlessFaults
<1>1. ASSUME NEW u \in Unbinders, unbind[u] \in {"revoke", "drop", "delete"}, Works(r)
      PROVE  Past(r) /\ ~IsHeld(r)
  <2>1. users = {dropping[u]} /\ \A a \in Attempts : ~InFlight(a)
    BY <1>0, <1>1 DEF Alone, Unsetting
  <2>2. \A c \in Attempts : bindings[c] = None
    BY <1>0, <1>1 DEF Unsetting
  <2>3. ~IsHeld(r)
    BY <1>0, <2>2 DEF IsHeld, Bound, OneUser
  <2>4. bind[r] # "idle"
    BY <1>0, <1>1 DEF OneUser, Unsaved, Works, Username
  <2>5. QED
    BY <1>0, <2>1, <2>3, <2>4 DEF TypeInv, TypeOK, InFlight, Past
<1> USE DEF Moves, Past, Holds, IsHeld, Works, Username, TypeInv, TypeOK, MaybeUser, Names,
            rows, sql, binders, unbinders, platform
<1>2. ASSUME NEW a \in Attempts, BindFind(a)
      PROVE  Moves(r)
  BY <1>0, <1>2 DEF BindFind
<1>3. ASSUME NEW a \in Attempts, BindSaveNew(a)
      PROVE  Moves(r)
  <2>1. /\ bind' = [bind EXCEPT ![a] = "check"] /\ bind[a] = "save"
        /\ chosen' = [chosen EXCEPT ![a] = a]
    BY <1>0, <1>3 DEF BindSaveNew
  <2>2. IsHeld(r)' <=> IsHeld(r)
    BY <1>0, <1>3, <2>1 DEF BindSaveNew
  <2>3. QED
    BY <1>0, <1>3, <2>1, <2>2 DEF BindSaveNew
<1>4. ASSUME NEW a \in Attempts, BindSaveExisting(a)
      PROVE  Moves(r)
  <2>1. bind' = [bind EXCEPT ![a] = "reply"] /\ bind[a] = "save"
    BY <1>0, <1>4 DEF BindSaveExisting
  <2>2. PICK s : chosen' = [chosen EXCEPT ![a] = s]
    BY <1>4 DEF BindSaveExisting
  <2>3. IsHeld(r)' <=> IsHeld(r)
    BY <1>0, <1>4, <2>1, <2>2 DEF BindSaveExisting
  <2>4. QED
    BY <1>0, <1>4, <2>1, <2>3 DEF BindSaveExisting
<1>5. ASSUME NEW a \in Attempts,
             \/ BindSaveRejected(a) \/ BindCheckRole(a)
             \/ BindCreateRole(a) /\ role[Username(a)] # "absent"
      PROVE  Moves(r)
  BY <1>0, <1>5 DEF BindSaveRejected, BindCheckRole, BindCreateRole
<1>6. ASSUME NEW a \in Attempts,
             \/ BindAlterRole(a) \/ BindGrant(a)
             \/ BindCreateRole(a) /\ role[Username(a)] = "absent"
      PROVE  Moves(r)
  <2>1. /\ bind[a] \in {"alter", "create", "grant"}
        /\ bind' = [bind EXCEPT ![a] = IF bind[a] = "grant" THEN "reply" ELSE "grant"]
    BY <1>0, <1>6 DEF BindAlterRole, BindCreateRole, BindGrant
  <2>2. IsHeld(r)' <=> IsHeld(r)
    BY <1>0, <1>6, <2>1 DEF BindAlterRole, BindCreateRole, BindGrant
  <2>3. ~IsHeld(a)
    BY <1>0, <2>1 DEF SettingUp, Bound
  <2>4. QED
    BY <1>0, <1>6, <2>1, <2>2, <2>3 DEF BindAlterRole, BindCreateRole, BindGrant, SettingUp
<1>7. ASSUME NEW a \in Attempts, BindReply(a)
      PROVE  Moves(r)
  <2>1. chosen[a] \in users /\ ~Setting /\ ~Dropping
    BY <1>0, <1>7 DEF BindReply, InFlight, Bound, OneUser, Alone, Setting, Dropping
  <2>2. Works(chosen[a])
    BY <1>0, <2>1 DEF RoleMatches
  <2>3. QED
    BY <1>0, <1>7, <2>2 DEF BindReply
<1>8. ASSUME NEW a \in Attempts, BindFail(a)
      PROVE  Moves(r)
  BY <1>0, <1>8 DEF BindFail
<1>9. ASSUME NEW u \in Unbinders, NEW id \in BindingIds, UnbindFind(u, id)
      PROVE  Moves(r)
  BY <1>0, <1>9 DEF UnbindFind
<1>10. ASSUME NEW id \in BindingIds, UnbindUnknown(id)
       PROVE  Moves(r)
  BY <1>0, <1>10 DEF UnbindUnknown
<1>11. ASSUME NEW u \in Unbinders, UnbindRevoke(u) \/ UnbindDrop(u)
       PROVE  Moves(r)
  BY <1>0, <1>1, <1>11 DEF UnbindRevoke, UnbindDrop, DroppedRole
<1>12. ASSUME NEW u \in Unbinders,
              \/ UnbindUnlink(u) \/ UnbindRevokeRefused(u)
              \/ UnbindDeleteUser(u) \/ UnbindDeleteUserError(u) \/ UnbindFail(u)
       PROVE  Moves(r)
  BY <1>0, <1>12 DEF UnbindUnlink, UnbindRevokeRefused, UnbindDeleteUser, UnbindDeleteUserError,
     UnbindFail, Return
<1>13. CASE UNCHANGED vars
  BY <1>0, <1>13 DEF vars
<1>14. QED
  BY <1>2, <1>3, <1>4, <1>5, <1>6, <1>7, <1>8, <1>9, <1>10, <1>11, <1>12, <1>13
  DEF Next, BindStep, UnbindStep

\* One request at a time, and whatever harmless calls fail, the broker does with the
\* shared credentials of PostgreSQL, too, only what the abstract specification allows
\* (broker.go, Bind and Unbind; postgres_engine.go).
THEOREM SerialKeepsPromise ==
    ASSUME OneAtATime, HarmlessFaults
    PROVE  Spec => KeepsPromise
<1>1. Init => SerialInv /\ RoleMatches
  BY SerialInvInit DEF Init, RoleMatches
<1>2. SerialInv /\ RoleMatches /\ [Next]_vars => (SerialInv /\ RoleMatches)'
  BY SerialInvNext, RoleMatchesNext
<1>3. SerialInv /\ RoleMatches => HeldCredentialsWork
  BY SerialHeld
<1>4. ASSUME SerialInv, RoleMatches, HeldCredentialsWork, HeldCredentialsWork', [Next]_vars
      PROVE  [Promise!Next]_stages
  <2>1. ASSUME NEW r \in Attempts
        PROVE  Moves(r) /\ (IsHeld(r) => Works(r)) /\ (IsHeld(r)' => Works(r)')
    BY <1>4, SerialMoves DEF HeldCredentialsWork, IsHeld
  <2>2. QED
    BY <2>1, MovesAreAllowed
<1>5. QED
  BY PromiseInit, <1>1, <1>2, <1>3, <1>4, PTL DEF Spec, KeepsPromise, Promise!Spec
=============================================================================
