------------------------------ MODULE KeyRotation ------------------------------
(***************************************************************************)
(* internaldb.RotateKey (internaldb/manage.go), run by the rotate-key      *)
(* command against the DBUser rows that a broker may be using at the same  *)
(* time.  RotateKey loads every row first and then re-encrypts and saves   *)
(* them one by one, without a transaction.                                 *)
(***************************************************************************)

CONSTANTS
    Users,          \* the DBUser rows there may ever be; each has one password
    Existing,       \* those that exist at first
    Keys,           \* encryption keys
    FirstKey,       \* the key of the rows that exist at first
    Runs,           \* runs of rotate-key
    OldKey,         \* OldKey[r]: RDSBROKER_ENCRYPTION_KEY_OLD of run r
    NewKey,         \* NewKey[r]: RDSBROKER_ENCRYPTION_KEY of run r
    FailFast,       \* the runs with the flag -fast
    Interruptible,  \* the runs in which a Save may fail, or that may be killed
    OneRun,         \* the operator runs rotate-key once at a time
    BrokerKeys,     \* the keys a broker may be started with meanwhile
    SaveUpserts,    \* gorm's Save inserts a row that has vanished
    None

ASSUME KeysAssumption ==
    /\ Existing \subseteq Users
    /\ FirstKey \in Keys
    /\ BrokerKeys \subseteq Keys
    /\ {OldKey, NewKey} \subseteq [Runs -> Keys]
    /\ FailFast \cup Interruptible \subseteq Runs
    /\ {OneRun, SaveUpserts} \subseteq BOOLEAN
    /\ None \notin Users \cup Keys \cup [password : Users, key : Keys]

\* EncryptedPassword and IV of a row: what was encrypted, and with which key.
Cipher == [password : Users, key : Keys]
Row == Cipher \cup {None}

VARIABLES
    row,        \* row[u]: the stored password of DBUser u, None without a row
    run,        \* run[r]: where the run is
    loaded,     \* loaded[r]: the rows it loaded
    todo,       \* todo[r]: the rows it has still to rotate
    erred,      \* the runs that have counted or hit an error
    brokerKey,  \* the key the broker was started with, None without a broker
    view,       \* the rows loaded by a Bind in the broker, None without one
    born        \* the DBUsers created so far

rotation == <<run, loaded, todo, erred>>
broker == <<brokerKey, view, born>>
vars == <<row, run, loaded, todo, erred, brokerKey, view, born>>

TypeOK ==
    /\ row \in [Users -> Row]
    /\ run \in [Runs -> {"idle", "running", "ok", "failed"}]
    /\ loaded \in [Runs -> [Users -> Row]]
    /\ todo \in [Runs -> SUBSET Users]
    /\ \A r \in Runs : todo[r] \subseteq {u \in Users : loaded[r][u] # None}
    /\ erred \subseteq Runs
    /\ brokerKey \in BrokerKeys \cup {None}
    /\ view \in [Users -> Row] \cup {None}
    /\ born \subseteq Users
    /\ {u \in Users : row[u] # None} \subseteq born

\* Mutant: a mode without authentication, which yields another text.
DecryptUnchecked(cipher, key) ==
    IF cipher.key = key THEN cipher.password
    ELSE CHOOSE p \in Users : p # cipher.password

\* Encrypt, and Decrypt with GCM: a wrong key gives an error, here None.
Encrypt(password, key) == [password |-> password, key |-> key]
Decrypt(cipher, key) == IF cipher.key = key THEN cipher.password ELSE None

Init ==
    /\ row = [u \in Users |-> IF u \in Existing THEN Encrypt(u, FirstKey) ELSE None]
    /\ run = [r \in Runs |-> "idle"]
    /\ loaded = [r \in Runs |-> [u \in Users |-> None]]
    /\ todo = [r \in Runs |-> {}]
    /\ erred = {}
    /\ brokerKey = None
    /\ view = None
    /\ born = Existing

\* Save of row u with content c: a vanished row is inserted or nothing happens.
Saved(u, c) == IF row[u] = None /\ ~SaveUpserts THEN None ELSE c

-----------------------------------------------------------------------------
(* RotateKey.                                                              *)

\* Mutant: rows that are not there are rotated as well.
RotateLoadAll(r) ==
    /\ run[r] = "idle"
    /\ OneRun => \A s \in Runs : run[s] # "running"
    /\ run' = [run EXCEPT ![r] = "running"]
    /\ loaded' = [loaded EXCEPT ![r] = row]
    /\ todo' = [todo EXCEPT ![r] = Users]
    /\ UNCHANGED <<row, erred, broker>>

RotateLoad(r) ==
    /\ run[r] = "idle"
    /\ OneRun => \A s \in Runs : run[s] # "running"
    /\ run' = [run EXCEPT ![r] = "running"]
    /\ loaded' = [loaded EXCEPT ![r] = row]
    /\ todo' = [todo EXCEPT ![r] = {u \in Users : row[u] # None}]
    /\ UNCHANGED <<row, erred, broker>>

\* The password that RotateOne decrypts from the row it loaded.
Password(r, u) == Decrypt(loaded[r][u], OldKey[r])

\* RotateOne; the rows come in no particular order.
RotateOne(r, u) ==
    /\ u \in todo[r]
    /\ Password(r, u) # None
    /\ row' = [row EXCEPT ![u] = Saved(u, Encrypt(Password(r, u), NewKey[r]))]
    /\ todo' = [todo EXCEPT ![r] = @ \ {u}]
    /\ UNCHANGED <<run, loaded, erred, broker>>

\* Mutant: RotateKey returns the first error with and without -fast.
RotateOneStops(r, u) ==
    /\ u \in todo[r]
    /\ Password(r, u) = None \/ r \in Interruptible
    /\ erred' = erred \cup {r}
    /\ todo' = [todo EXCEPT ![r] = {}]
    /\ UNCHANGED <<row, run, loaded, broker>>

\* RotateOne returns an error: RotateKey returns it or counts it and goes on.
RotateOneFails(r, u) ==
    /\ u \in todo[r]
    /\ Password(r, u) = None \/ r \in Interruptible
    /\ erred' = erred \cup {r}
    /\ todo' = [todo EXCEPT ![r] = IF r \in FailFast THEN {} ELSE @ \ {u}]
    /\ UNCHANGED <<row, run, loaded, broker>>

\* Mutant: the errors are counted and forgotten.
RotateEndOk(r) ==
    /\ run[r] = "running"
    /\ todo[r] = {}
    /\ run' = [run EXCEPT ![r] = "ok"]
    /\ UNCHANGED <<row, loaded, todo, erred, broker>>

RotateEnd(r) ==
    /\ run[r] = "running"
    /\ todo[r] = {}
    /\ run' = [run EXCEPT ![r] = IF r \in erred THEN "failed" ELSE "ok"]
    /\ UNCHANGED <<row, loaded, todo, erred, broker>>

\* The command is killed.
RotateDie(r) ==
    /\ run[r] = "running"
    /\ r \in Interruptible
    /\ run' = [run EXCEPT ![r] = "failed"]
    /\ todo' = [todo EXCEPT ![r] = {}]
    /\ UNCHANGED <<row, loaded, erred, broker>>

-----------------------------------------------------------------------------
(* The broker, one instance of which has all these users.                  *)

\* FindInstance at the start of a Bind.
BrokerLoad ==
    /\ brokerKey # None
    /\ view = None
    /\ view' = row
    /\ UNCHANGED <<row, rotation, brokerKey, born>>

\* DBInstance.Bind with a new DBUser: gorm saves it with the loaded instance and
\* all the users loaded with that.
BrokerSave(u) ==
    /\ view # None
    /\ u \notin born
    /\ row' = [c \in Users |->
          IF c = u THEN Encrypt(u, brokerKey)
          ELSE IF view[c] # None THEN Saved(c, view[c]) ELSE row[c]]
    /\ born' = born \cup {u}
    /\ view' = None
    /\ UNCHANGED <<rotation, brokerKey>>

\* DBUser.Delete of an Unbind.
BrokerDelete(u) ==
    /\ brokerKey # None
    /\ row[u] # None
    /\ row' = [row EXCEPT ![u] = None]
    /\ UNCHANGED <<rotation, broker>>

\* The broker is started, or restarted: a Bind in flight is lost.
BrokerStart(key) ==
    /\ key # brokerKey
    /\ brokerKey' = key
    /\ view' = None
    /\ UNCHANGED <<row, rotation, born>>

-----------------------------------------------------------------------------
Next ==
    \/ \E r \in Runs :
          \/ RotateLoad(r) \/ RotateEnd(r) \/ RotateDie(r)
          \/ \E u \in Users : RotateOne(r, u) \/ RotateOneFails(r, u)
    \/ BrokerLoad
    \/ \E u \in Users : BrokerSave(u) \/ BrokerDelete(u)
    \/ \E key \in BrokerKeys : BrokerStart(key)

Spec == Init /\ [][Next]_vars

-----------------------------------------------------------------------------
(* Properties.                                                             *)

\* Whatever runs overlap, fail or are run with the wrong keys, and whatever the
\* broker saves meanwhile, a row holds the password it was created with under one
\* of the keys (manage.go, RotateOne).
PasswordsSurvive ==
    \A u \in Users : row[u] # None => row[u].password = u

\* No broker has been started, nor can one be stopped.
Offline == brokerKey = None

\* After a run has reported success no password is left under the old key, as the
\* README says of the utility ("re-encrypt all the passwords in the database").
OldKeyRetired ==
    \A r \in Runs : run[r] = "ok" /\ OldKey[r] # NewKey[r] =>
        \A u \in Users : row[u] # None => row[u].key # OldKey[r]

\* This holds of runs next to which no broker has run, one run at a time.
OldKeyRetiredOffline == Offline => OldKeyRetired

\* Without a broker, a run without -fast whose Saves succeed finishes what an interrupted run has
\* begun, although it reports the rows rotated before as errors (manage.go, the
\* err_count branch).
RerunFinishes ==
    \A r \in Runs \ (FailFast \cup Interruptible) :
        Offline /\ run[r] \in {"ok", "failed"} /\ OldKey[r] # NewKey[r] =>
            \A u \in Users : row[u] # None => row[u].key # OldKey[r]
=============================================================================
