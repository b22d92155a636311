------------------------------ MODULE Extensions ------------------------------
(***************************************************************************)
(* PostgresEngine.SetExtensions (sqlengine/postgres_engine.go), which an   *)
(* Update calls with the list of extensions the user gave.  It reads the   *)
(* installed extensions once, then drops and creates the difference one    *)
(* statement at a time, without a transaction.                             *)
(***************************************************************************)
EXTENDS Integers, Sequences, Functions

CONSTANTS
    Names,      \* extensions that PostgreSQL has, plpgsql among them
    Requires,   \* Requires[e]: the extensions e cannot be without
    Invalid,    \* names that IsValidExtensionName rejects
    Lists,      \* the lists users give
    Updates,    \* Update requests
    Faults      \* a statement may fail for a reason of its own, the query of
                \* pg_extension break off, or the broker die

Plpgsql == "plpgsql"   \* installed in every database

ASSUME ExtensionsAssumption ==
    /\ Plpgsql \in Names
    /\ Requires \in [Names -> SUBSET (Names \ {Plpgsql})]
    /\ Names \cap Invalid = {}
    /\ Lists \subseteq Seq(Names \cup Invalid)
    /\ Faults \in BOOLEAN

VARIABLES
    installed,  \* the extensions of the database
    run,        \* run[m]: where the Update is
    list,       \* list[m]: the list it was given
    old,        \* old[m]: the installed extensions it read (oldExtensions)
    broken,     \* the Updates with an error in rows.Err, which none asks for
    drops,      \* drops[m]: those it has still to drop
    creates     \* creates[m]: the places in its list it has still to create

vars == <<installed, run, list, old, broken, drops, creates>>

TypeOK ==
    /\ Plpgsql \in installed
    /\ installed \subseteq Names
    /\ run \in [Updates -> {"idle", "running", "ok", "failed"}]
    /\ broken \subseteq Updates
    /\ \A m \in Updates :
          /\ list[m] \in Lists \cup {<<>>}
          /\ drops[m] \subseteq old[m]
          /\ creates[m] \subseteq DOMAIN list[m]
          /\ \A i \in creates[m] : list[m][i] \notin old[m]

\* PostgreSQL keeps an extension only with those it requires.
Consistent(E) == \A e \in E : Requires[e] \subseteq E

\* Users may have created extensions before.
Init ==
    /\ \E E \in SUBSET Names : Consistent(E) /\ installed = E \cup {Plpgsql}
    /\ run = [m \in Updates |-> "idle"]
    /\ list = [m \in Updates |-> <<>>]
    /\ old = [m \in Updates |-> {}]
    /\ broken = {}
    /\ drops = [m \in Updates |-> {}]
    /\ creates = [m \in Updates |-> {}]

-----------------------------------------------------------------------------
Running(m) == run[m] = "running"

\* Mutant: found is not reset for the next extension.
UnwantedSticky(o, l) == IF o \cap Range(l) = {} THEN o ELSE {}

\* Mutant: everything is dropped, to be created again.
UnwantedAll(o, l) == o

\* The loops over oldExtensions and over the list, each with its search through
\* the other; a name that is twice in the list is created twice.
Unwanted(o, l) == o \ Range(l)
Missing(o, l) == {i \in DOMAIN l : l[i] \notin o \cup {Plpgsql}}

\* "Invalid extension name".
Reject(m, l) ==
    /\ run[m] = "idle"
    /\ Range(l) \cap Invalid # {}
    /\ list' = [list EXCEPT ![m] = l]
    /\ run' = [run EXCEPT ![m] = "failed"]
    /\ UNCHANGED <<installed, old, broken, drops, creates>>

\* Mutant: plpgsql is not left out.
RowsAll == installed

\* The query of pg_extension, which leaves plpgsql out.
Rows == installed \ {Plpgsql}

\* A query that breaks off counts as complete: nobody asks rows.Err.
Read(m, l) ==
    /\ run[m] = "idle"
    /\ Range(l) \cap Invalid = {}
    /\ \E o \in SUBSET Rows :
           /\ \/ o = Rows /\ UNCHANGED broken
              \/ Faults /\ broken' = broken \cup {m}
           /\ old' = [old EXCEPT ![m] = o]
           /\ drops' = [drops EXCEPT ![m] = Unwanted(o, l)]
           /\ creates' = [creates EXCEPT ![m] = Missing(o, l)]
    /\ list' = [list EXCEPT ![m] = l]
    /\ run' = [run EXCEPT ![m] = "running"]
    /\ UNCHANGED installed

\* DROP EXTENSION without CASCADE wants it installed and no other depending on it.
CanDrop(e) == e \in installed /\ \A d \in installed : e \notin Requires[d]

\* The query gives no order.
Drop(m, e) ==
    /\ Running(m)
    /\ e \in drops[m]
    /\ CanDrop(e)
    /\ installed' = installed \ {e}
    /\ drops' = [drops EXCEPT ![m] = @ \ {e}]
    /\ UNCHANGED <<run, list, old, broken, creates>>

\* CREATE EXTENSION wants it absent and those it requires installed.
CanCreate(e) == e \notin installed /\ Requires[e] \subseteq installed

\* The list is created in its order.
IsNext(m, i) == i \in creates[m] /\ \A j \in creates[m] : i <= j

\* Mutant: the list is created first.
CreateFirst(m, i) ==
    /\ Running(m)
    /\ IsNext(m, i)
    /\ CanCreate(list[m][i])
    /\ installed' = installed \cup {list[m][i]}
    /\ creates' = [creates EXCEPT ![m] = @ \ {i}]
    /\ UNCHANGED <<run, list, old, broken, drops>>

Create(m, i) ==
    /\ Running(m)
    /\ drops[m] = {}
    /\ IsNext(m, i)
    /\ CanCreate(list[m][i])
    /\ installed' = installed \cup {list[m][i]}
    /\ creates' = [creates EXCEPT ![m] = @ \ {i}]
    /\ UNCHANGED <<run, list, old, broken, drops>>

\* A statement fails, or the broker dies: what was done stays done.
Fail(m) ==
    /\ Running(m)
    /\ \/ \E e \in drops[m] : ~CanDrop(e)
       \/ drops[m] = {} /\ \E i \in creates[m] : IsNext(m, i) /\ ~CanCreate(list[m][i])
       \/ Faults
    /\ run' = [run EXCEPT ![m] = "failed"]
    /\ UNCHANGED <<installed, list, old, broken, drops, creates>>

Done(m) ==
    /\ Running(m)
    /\ drops[m] = {} /\ creates[m] = {}
    /\ run' = [run EXCEPT ![m] = "ok"]
    /\ UNCHANGED <<installed, list, old, broken, drops, creates>>

Next ==
    \E m \in Updates :
        \/ \E l \in Lists : Reject(m, l) \/ Read(m, l)
        \/ \E e \in Names : Drop(m, e)
        \/ \E i \in DOMAIN list[m] : Create(m, i)
        \/ Fail(m) \/ Done(m)

Spec == Init /\ [][Next]_vars

-----------------------------------------------------------------------------
(* Properties.                                                             *)

Wanted(m) == Range(list[m]) \cup {Plpgsql}

\* Only m has begun, on a database in any state, and it read all there is.
Alone(m) == m \notin broken /\ \A n \in Updates \ {m} : run[n] = "idle"

\* An Update alone that succeeds leaves exactly the extensions of its list and
\* plpgsql (README, "Database extensions").
SuccessIsExact ==
    \A m \in Updates : Alone(m) /\ run[m] = "ok" => installed = Wanted(m)

\* An Update alone, even one that fails half way, keeps what it found and wants,
\* adds nothing it does not want, and adds nothing before everything unwanted is
\* gone (SetExtensions drops first).
PartialUpdateIsOrdered ==
    \A m \in Updates : Alone(m) /\ Running(m) =>
        /\ old[m] \cap Wanted(m) \subseteq installed
        /\ installed \subseteq old[m] \cup Wanted(m)
        /\ installed \subseteq old[m] \cup {Plpgsql} \/ installed \subseteq Wanted(m)

\* However Updates overlap and fail, an extension goes only if one of those
\* running has a list without it.
WantedByAllStays ==
    [][\A e \in installed \ installed' :
          \E m \in Updates : Running(m) /\ e \notin Range(list[m])]_vars
=============================================================================
