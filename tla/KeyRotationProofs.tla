--------------------------- MODULE KeyRotationProofs ---------------------------
(* What TLAPS proves of KeyRotation. *)
EXTENDS KeyRotation, Naturals, TLAPS

\* The rows of f hold the passwords they were created with.
Own(f) == \A u \in Users : f[u] # None => f[u].password = u

\* Nor does a copy that somebody may still write back hold another password.
Copies ==
    /\ row \in [Users -> Row]
    /\ loaded \in [Runs -> [Users -> Row]]
    /\ todo \in [Runs -> SUBSET Users]
    /\ \A r \in Runs : todo[r] \subseteq {u \in Users : loaded[r][u] # None}
    /\ brokerKey \in BrokerKeys \cup {None}
    /\ view \in [Users -> Row] \cup {None}
    /\ view # None => brokerKey # None

SurvivalInv ==
    /\ Copies
    /\ Own(row)
    /\ \A r \in Runs : Own(loaded[r])
    /\ view # None => Own(view)

\* What Encrypt makes of one of the passwords is a stored password.
LEMMA EncryptType ==
    ASSUME NEW u \in Users, NEW k \in Keys
    PROVE  /\ Encrypt(u, k) \in Cipher
           /\ Encrypt(u, k).password = u
BY DEF Encrypt, Cipher

\* Decrypting an own row with any key gives its password or an error.
LEMMA DecryptOwn ==
    ASSUME NEW u, NEW c, NEW k, c.password = u, Decrypt(c, k) # None
    PROVE  Decrypt(c, k) = u
BY DEF Decrypt

LEMMA SurvivalInit == Init => SurvivalInv
<1> SUFFICES ASSUME Init PROVE SurvivalInv
  OBVIOUS
<1>1. row \in [Users -> Row] /\ Own(row)
  BY EncryptType, KeysAssumption DEF Init, Own, Row
<1>2. \A r \in Runs : Own(loaded[r])
  BY DEF Init, Own
<1>3. Copies
  BY <1>1 DEF Init, Copies, Row
<1> QED BY <1>1, <1>2, <1>3 DEF SurvivalInv, Init

LEMMA SurvivalNext == SurvivalInv /\ [Next]_vars => SurvivalInv'
<1> SUFFICES ASSUME SurvivalInv, [Next]_vars PROVE SurvivalInv'
  OBVIOUS
<1> USE KeysAssumption DEF SurvivalInv
<1>1. ASSUME NEW r \in Runs, RotateLoad(r) PROVE SurvivalInv'
  BY <1>1 DEF RotateLoad, Copies, Own, broker
<1>2. ASSUME NEW r \in Runs, NEW u \in Users, RotateOne(r, u) PROVE SurvivalInv'
  <2> DEFINE c == Encrypt(Password(r, u), NewKey[r])
  <2>1. Password(r, u) = u
    BY <1>2, DecryptOwn DEF RotateOne, Password, Copies, Own
  <2>2. c \in Cipher /\ c.password = u
    BY <2>1, EncryptType
  <2>3. row' = [row EXCEPT ![u] = Saved(u, c)]
    BY <1>2 DEF RotateOne
  <2> HIDE DEF c
  <2>4. (row \in [Users -> Row] /\ Own(row))'
    BY <2>2, <2>3 DEF Copies, Own, Saved, Row
  <2> QED BY <1>2, <2>4 DEF RotateOne, Copies, Own, broker
<1>3. ASSUME NEW r \in Runs, NEW u \in Users, RotateOneFails(r, u) PROVE SurvivalInv'
  BY <1>3 DEF RotateOneFails, Copies, Own, broker
<1>4. ASSUME NEW r \in Runs, RotateEnd(r) PROVE SurvivalInv'
  BY <1>4 DEF RotateEnd, Copies, Own, broker
<1>5. ASSUME NEW r \in Runs, RotateDie(r) PROVE SurvivalInv'
  BY <1>5 DEF RotateDie, Copies, Own, broker
<1>6. CASE BrokerLoad
  BY <1>6 DEF BrokerLoad, Copies, Own, rotation
<1>7. ASSUME NEW u \in Users, BrokerSave(u) PROVE SurvivalInv'
  <2>1. Encrypt(u, brokerKey) \in Cipher /\ Encrypt(u, brokerKey).password = u
    BY <1>7, EncryptType DEF BrokerSave, Copies
  <2>2. (row \in [Users -> Row] /\ Own(row))'
    BY <1>7, <2>1 DEF BrokerSave, Copies, Own, Saved, Row
  <2> QED BY <1>7, <2>2 DEF BrokerSave, Copies, Own, rotation
<1>8. ASSUME NEW u \in Users, BrokerDelete(u) PROVE SurvivalInv'
  BY <1>8 DEF BrokerDelete, Copies, Own, Row, rotation, broker
<1>9. ASSUME NEW key \in BrokerKeys, BrokerStart(key) PROVE SurvivalInv'
  BY <1>9 DEF BrokerStart, Copies, Own, rotation
<1>10. CASE UNCHANGED vars
  BY <1>10 DEF vars, Copies, Own
<1> QED BY <1>1, <1>2, <1>3, <1>4, <1>5, <1>6, <1>7, <1>8, <1>9, <1>10 DEF Next

\* However many rows, keys, runs and broker saves there are, and whichever of
\* them overlap or fail, no password is ever lost (manage.go, RotateOne).
THEOREM PasswordsAreNeverLost == Spec => []PasswordsSurvive
<1>1. SurvivalInv => PasswordsSurvive
  BY DEF SurvivalInv, Own, PasswordsSurvive
<1> QED BY <1>1, SurvivalInit, SurvivalNext, PTL DEF Spec
-----------------------------------------------------------------------------
(* Types.                                                                  *)

\* A copy is of a row that has existed.
TypeInv ==
    /\ SurvivalInv
    /\ TypeOK
    /\ view # None => {u \in Users : view[u] # None} \subseteq born
    /\ \A r \in Runs : {u \in Users : loaded[r][u] # None} \subseteq born

LEMMA TypeNext == TypeInv /\ SurvivalInv' /\ [Next]_vars => TypeInv'
<1> SUFFICES ASSUME TypeInv, SurvivalInv', [Next]_vars PROVE TypeInv'
  OBVIOUS
<1> USE KeysAssumption DEF TypeInv, TypeOK
<1>1. ASSUME NEW r \in Runs, RotateLoad(r) PROVE TypeInv'
  BY <1>1 DEF RotateLoad, broker
<1>2. ASSUME NEW r \in Runs, NEW u \in Users, RotateOne(r, u) PROVE TypeInv'
  <2>1. {c \in Users : row'[c] # None} \subseteq born'
    BY <1>2 DEF RotateOne, Saved, broker
  <2>2. (row \in [Users -> Row] /\ todo \in [Runs -> SUBSET Users])'
    BY DEF SurvivalInv, Copies
  <2> QED BY <1>2, <2>1, <2>2 DEF RotateOne, broker
<1>3. ASSUME NEW r \in Runs, NEW u \in Users, RotateOneFails(r, u) PROVE TypeInv'
  BY <1>3 DEF RotateOneFails, broker
<1>4. ASSUME NEW r \in Runs, RotateEnd(r) PROVE TypeInv'
  BY <1>4 DEF RotateEnd, broker
<1>5. ASSUME NEW r \in Runs, RotateDie(r) PROVE TypeInv'
  BY <1>5 DEF RotateDie, broker
<1>6. CASE BrokerLoad
  BY <1>6 DEF BrokerLoad, rotation
<1>7. ASSUME NEW u \in Users, BrokerSave(u) PROVE TypeInv'
  <2>1. {c \in Users : row'[c] # None} \subseteq born'
    BY <1>7 DEF BrokerSave, Saved
  <2>2. (row \in [Users -> Row] /\ view \in [Users -> Row] \cup {None})'
    BY DEF SurvivalInv, Copies
  <2> QED BY <1>7, <2>1, <2>2 DEF BrokerSave, rotation
<1>8. ASSUME NEW u \in Users, BrokerDelete(u) PROVE TypeInv'
  BY <1>8 DEF BrokerDelete, Row, rotation, broker
<1>9. ASSUME NEW key \in BrokerKeys, BrokerStart(key) PROVE TypeInv'
  BY <1>9 DEF BrokerStart, rotation
<1>10. CASE UNCHANGED vars
  BY <1>10 DEF vars
<1> QED BY <1>1, <1>2, <1>3, <1>4, <1>5, <1>6, <1>7, <1>8, <1>9, <1>10 DEF Next

\* Every variable keeps its type, and no row appears that a Bind has not created
\* (manage.go, RotateKey, and models.go, Bind).
THEOREM TypeCorrect == Spec => []TypeOK
<1>1. Init => TypeInv
  <2> SUFFICES ASSUME Init PROVE TypeInv
    OBVIOUS
  <2>1. SurvivalInv
    BY SurvivalInit
  <2> QED BY <2>1, KeysAssumption DEF Init, TypeInv, TypeOK, SurvivalInv, Copies
<1>2. TypeInv => TypeOK
  BY DEF TypeInv
<1>3. TypeInv /\ SurvivalInv => TypeInv
  OBVIOUS
<1> QED BY <1>1, <1>2, TypeNext, SurvivalInit, SurvivalNext, PTL DEF Spec

-----------------------------------------------------------------------------
(* Rotations one at a time, without a broker.                              *)

\* Without a broker nobody but the rotation changes a row, so a row that it has
\* still to rotate is the one it loaded.
Undisturbed ==
    /\ run \in [Runs -> {"idle", "running", "ok", "failed"}]
    /\ \A r \in Runs : run[r] = "idle" => r \notin erred
    /\ \A r \in Runs : run[r] # "running" => todo[r] = {}
    /\ \A r, s \in Runs : run[r] = "running" /\ run[s] = "running" => r = s
    /\ Offline => \A r \in Runs : \A u \in todo[r] : row[u] = loaded[r][u]

\* A rotation reads a row it has loaded and the row stays there.
LEMMA OneStep ==
    ASSUME SurvivalInv, Undisturbed, Offline,
           NEW r \in Runs, NEW u \in Users, RotateOne(r, u)
    PROVE  /\ run[r] = "running"
           /\ row[u] # None
           /\ row[u].key = OldKey[r]
           /\ row' = [row EXCEPT ![u] = Encrypt(Password(r, u), NewKey[r])]
           /\ Encrypt(Password(r, u), NewKey[r]).key = NewKey[r]
           /\ Encrypt(Password(r, u), NewKey[r]) # None
<1>1. run[r] = "running" /\ row[u] = loaded[r][u] /\ row[u] # None
  BY DEF SurvivalInv, Undisturbed, Copies, RotateOne
<1>2. row[u].key = OldKey[r]
  BY <1>1 DEF RotateOne, Password, Decrypt
<1>3. Password(r, u) = u
  BY DecryptOwn DEF RotateOne, Password, SurvivalInv, Copies, Own
<1>4. Encrypt(Password(r, u), NewKey[r]) \in Cipher
  BY <1>3, EncryptType, KeysAssumption
<1>5. Encrypt(Password(r, u), NewKey[r]) # None
  BY <1>4, KeysAssumption DEF Cipher
<1>6. Encrypt(Password(r, u), NewKey[r]).key = NewKey[r]
  BY DEF Encrypt
<1>7. row' = [row EXCEPT ![u] = Encrypt(Password(r, u), NewKey[r])]
  BY <1>1 DEF RotateOne, Saved
<1> QED BY <1>1, <1>2, <1>5, <1>6, <1>7
LEMMA UndisturbedInit == Init => Undisturbed
BY DEF Init, Undisturbed

LEMMA UndisturbedNext ==
    SurvivalInv /\ Undisturbed /\ OneRun /\ [Next]_vars => Undisturbed'
<1> SUFFICES ASSUME SurvivalInv, Undisturbed, OneRun, [Next]_vars PROVE Undisturbed'
  OBVIOUS
<1> USE KeysAssumption DEF Undisturbed, Offline
<1>1. ASSUME NEW r \in Runs, RotateLoad(r) PROVE Undisturbed'
  BY <1>1 DEF RotateLoad, broker, SurvivalInv, Copies
<1>2. ASSUME NEW r \in Runs, NEW u \in Users, RotateOne(r, u) PROVE Undisturbed'
  <2>1. run[r] = "running"
    BY <1>2 DEF RotateOne
  <2>2. \A s \in Runs \ {r} : todo[s] = {} /\ todo'[s] = {}
    BY <1>2, <2>1 DEF RotateOne, SurvivalInv, Copies
  <2>3. \A c \in todo'[r] : row'[c] = row[c] /\ c \in todo[r]
    BY <1>2 DEF RotateOne, SurvivalInv, Copies
  <2> QED BY <1>2, <2>1, <2>2, <2>3 DEF RotateOne, broker
<1>3. ASSUME NEW r \in Runs, NEW u \in Users, RotateOneFails(r, u) PROVE Undisturbed'
  BY <1>3 DEF RotateOneFails, broker, SurvivalInv, Copies
<1>4. ASSUME NEW r \in Runs, RotateEnd(r) PROVE Undisturbed'
  BY <1>4 DEF RotateEnd, broker
<1>5. ASSUME NEW r \in Runs, RotateDie(r) PROVE Undisturbed'
  BY <1>5 DEF RotateDie, broker, SurvivalInv, Copies
<1>6. CASE BrokerLoad
  BY <1>6 DEF BrokerLoad, rotation
<1>7. ASSUME NEW u \in Users, BrokerSave(u) PROVE Undisturbed'
  BY <1>7 DEF BrokerSave, rotation, SurvivalInv, Copies
<1>8. ASSUME NEW u \in Users, BrokerDelete(u) PROVE Undisturbed'
  BY <1>8 DEF BrokerDelete, rotation, broker
<1>9. ASSUME NEW key \in BrokerKeys, BrokerStart(key) PROVE Undisturbed'
  BY <1>9 DEF BrokerStart, rotation
<1>10. CASE UNCHANGED vars
  BY <1>10 DEF vars
<1> QED BY <1>1, <1>2, <1>3, <1>4, <1>5, <1>6, <1>7, <1>8, <1>9, <1>10 DEF Next

\* The rows that r has dealt with are not under the key it rotates from.
Dealt(r) ==
    /\ run[r] # "idle"
    /\ \A u \in Users \ todo[r] : row[u] # None => row[u].key # OldKey[r]

\* Nobody rotates to a key that a run not in Excepted rotates away from.
OneWay(Excepted) ==
    \A r \in Runs \ Excepted : \A s \in Runs :
        OldKey[r] # NewKey[r] => NewKey[s] # OldKey[r]

\* The runs that meet every row, whatever they count as an error.
Thorough == Runs \ (FailFast \cup Interruptible)

RerunInv ==
    Offline => \A r \in Thorough :
        run[r] # "idle" /\ OldKey[r] # NewKey[r] => Dealt(r)

LEMMA RerunNext ==
    SurvivalInv /\ Undisturbed /\ RerunInv /\ OneWay(Runs \ Thorough) /\ OneRun
        /\ [Next]_vars => RerunInv'
<1> SUFFICES ASSUME SurvivalInv, Undisturbed, RerunInv, OneWay(Runs \ Thorough), OneRun,
                    [Next]_vars,
                    Offline', NEW t \in Thorough, run'[t] # "idle", OldKey[t] # NewKey[t]
             PROVE  Dealt(t)'
  BY DEF RerunInv
<1> t \in Runs
  BY DEF Thorough
<1> USE KeysAssumption DEF Offline, Dealt
<1>0. Offline
  BY DEF Next, RotateLoad, RotateEnd, RotateDie, RotateOne, RotateOneFails, BrokerLoad,
         BrokerSave, BrokerDelete, BrokerStart, broker, vars, SurvivalInv, Copies
<1>1. ASSUME NEW r \in Runs, RotateLoad(r) PROVE Dealt(t)'
  <2>1. CASE t = r
    BY <1>1, <2>1 DEF RotateLoad, SurvivalInv, Copies, Undisturbed
  <2>2. CASE t # r
    BY <1>0, <1>1, <2>2 DEF RotateLoad, SurvivalInv, Copies, Undisturbed, RerunInv
  <2> QED BY <2>1, <2>2
<1>2. ASSUME NEW r \in Runs, NEW u \in Users, RotateOne(r, u) PROVE Dealt(t)'
  <2> DEFINE e == Encrypt(Password(r, u), NewKey[r])
  <2>1. Dealt(t)
    BY <1>0, <1>2 DEF RotateOne, RerunInv
  <2>2. row' = [row EXCEPT ![u] = e] /\ e.key = NewKey[r]
    BY <1>0, <1>2, OneStep
  <2>3. NewKey[r] # OldKey[t]
    BY DEF OneWay, Thorough
  <2>4. \A c \in Users \ todo'[t] : c # u => c \in Users \ todo[t]
    BY <1>2 DEF RotateOne, SurvivalInv, Copies
  <2> HIDE DEF e
  <2>5. \A c \in Users \ todo'[t] : row'[c] # None => row'[c].key # OldKey[t]
    BY <2>1, <2>2, <2>3, <2>4 DEF SurvivalInv, Copies
  <2> QED BY <1>2, <2>1, <2>5 DEF RotateOne
<1>3. ASSUME NEW r \in Runs, NEW u \in Users, RotateOneFails(r, u) PROVE Dealt(t)'
  <2>1. Dealt(t)
    BY <1>0, <1>3 DEF RotateOneFails, RerunInv
  <2>2. CASE t # r
    BY <1>3, <2>1, <2>2 DEF RotateOneFails, SurvivalInv, Copies
  <2>3. CASE t = r
    <3>1. row[u] = loaded[r][u] /\ Password(r, u) = None /\ t \notin FailFast
      BY <1>0, <1>3, <2>3 DEF RotateOneFails, Undisturbed, Thorough
    <3>2. row[u] \in Row /\ loaded[r][u] # None
      BY <1>3 DEF RotateOneFails, SurvivalInv, Copies
    <3>3. row[u].key # OldKey[r]
      BY <3>1, <3>2 DEF Password, Decrypt, Row, Cipher
    <3>4. todo'[t] = todo[t] \ {u}
      BY <1>3, <2>3, <3>1 DEF RotateOneFails, SurvivalInv, Copies
    <3> QED BY <1>3, <2>1, <2>3, <3>3, <3>4 DEF RotateOneFails
  <2> QED BY <2>2, <2>3
<1>4. ASSUME NEW r \in Runs, RotateEnd(r) PROVE Dealt(t)'
  BY <1>0, <1>4 DEF RotateEnd, RerunInv, Undisturbed
<1>5. ASSUME NEW r \in Runs, RotateDie(r) PROVE Dealt(t)'
  BY <1>0, <1>5 DEF RotateDie, RerunInv, Thorough, SurvivalInv, Copies, Undisturbed
<1>6. ASSUME NEW u \in Users, BrokerDelete(u) PROVE Dealt(t)'
  BY <1>0, <1>6 DEF BrokerDelete
<1>7. CASE BrokerLoad
  BY <1>0, <1>7 DEF BrokerLoad
<1>8. ASSUME NEW u \in Users, BrokerSave(u) PROVE Dealt(t)'
  BY <1>0, <1>8 DEF BrokerSave, SurvivalInv, Copies
<1>9. ASSUME NEW key \in BrokerKeys, BrokerStart(key) PROVE Dealt(t)'
  BY <1>9 DEF BrokerStart
<1>10. CASE UNCHANGED vars
  BY <1>0, <1>10 DEF vars, RerunInv
<1> QED BY <1>1, <1>2, <1>3, <1>4, <1>5, <1>6, <1>7, <1>8, <1>9, <1>10 DEF Next

\* Without a broker, and with runs one at a time none of which goes back to the old
\* key, a run without -fast that is not interrupted leaves no row under the old key,
\* whatever earlier runs had done or left (manage.go, the err_count branch).
THEOREM RerunsFinish ==
    ASSUME OneRun, OneWay(Runs \ Thorough)
    PROVE  Spec => []RerunFinishes
<1>1. Init => RerunInv
  BY DEF Init, RerunInv, Thorough
<1>2. Undisturbed /\ RerunInv => RerunFinishes
  BY DEF Undisturbed, RerunInv, RerunFinishes, Dealt, Thorough
<1>3. SurvivalInv /\ Undisturbed /\ RerunInv /\ [Next]_vars => RerunInv'
  BY RerunNext
<1>4. SurvivalInv /\ Undisturbed /\ [Next]_vars => Undisturbed'
  BY UndisturbedNext
<1> QED BY <1>1, <1>2, <1>3, <1>4, UndisturbedInit, SurvivalInit, SurvivalNext, PTL DEF Spec

-----------------------------------------------------------------------------
(* Success means that the old key is gone.                                 *)

\* A run without an error has met every row; with every later run the keys get
\* newer.
RetiredInv(Age) ==
    Offline => \A r \in Runs \ erred :
        run[r] \in {"running", "ok"} /\ OldKey[r] # NewKey[r] =>
            \A u \in Users \ todo[r] : row[u] # None => Age[row[u].key] > Age[OldKey[r]]

\* A run with an error does not report success.
NoErrorSucceeds == \A r \in Runs : run[r] = "ok" => r \notin erred

LEMMA RetiredNext ==
    ASSUME NEW Age \in [Keys -> Nat], OneRun,
           \A r \in Runs : OldKey[r] # NewKey[r] => Age[OldKey[r]] < Age[NewKey[r]]
    PROVE  SurvivalInv /\ Undisturbed /\ RetiredInv(Age) /\ [Next]_vars => RetiredInv(Age)'
<1> SUFFICES ASSUME SurvivalInv, Undisturbed, RetiredInv(Age), [Next]_vars,
                    Offline', NEW t \in Runs \ erred', run'[t] \in {"running", "ok"},
                    OldKey[t] # NewKey[t],
                    NEW c \in Users \ todo'[t], row'[c] # None
             PROVE  Age[row'[c].key] > Age[OldKey[t]]
  BY DEF RetiredInv
<1> USE KeysAssumption DEF Offline
<1>0. Offline
  BY DEF Next, RotateLoad, RotateEnd, RotateDie, RotateOne, RotateOneFails, BrokerLoad,
         BrokerSave, BrokerDelete, BrokerStart, broker, vars, SurvivalInv, Copies
<1>1. ASSUME NEW r \in Runs, RotateLoad(r) PROVE Age[row'[c].key] > Age[OldKey[t]]
  <2>1. t # r
    BY <1>1 DEF RotateLoad, SurvivalInv, Copies
  <2> QED BY <1>0, <1>1, <2>1 DEF RotateLoad, SurvivalInv, Copies, RetiredInv, Undisturbed
<1>2. ASSUME NEW r \in Runs, NEW u \in Users, RotateOne(r, u)
      PROVE Age[row'[c].key] > Age[OldKey[t]]
  <2> DEFINE e == Encrypt(Password(r, u), NewKey[r])
  <2>1. row' = [row EXCEPT ![u] = e] /\ e.key = NewKey[r] /\ row[u] # None
        /\ row[u].key = OldKey[r] /\ run[r] = "running"
    BY <1>0, <1>2, OneStep
  <2> HIDE DEF e
  <2>2. t \notin erred /\ run'[t] = run[t]
    BY <1>2 DEF RotateOne
  <2>3. CASE c # u
    <3>1. c \in Users \ todo[t] /\ row'[c] = row[c]
      BY <1>2, <2>1, <2>3 DEF RotateOne, SurvivalInv, Copies
    <3> QED BY <1>0, <2>2, <3>1 DEF RetiredInv
  <2>4. CASE c = u /\ t = r
    BY <2>1, <2>4 DEF SurvivalInv, Copies
  <2>5. CASE c = u /\ t # r
    <3>1. run[t] = "ok" /\ todo[t] = {}
      BY <2>1, <2>2, <2>5 DEF Undisturbed
    <3>2. Age[OldKey[r]] > Age[OldKey[t]]
      BY <1>0, <2>1, <2>2, <3>1 DEF RetiredInv
    <3>3. Age[NewKey[r]] >= Age[OldKey[r]]
      OBVIOUS
    <3>4. row'[c].key = NewKey[r]
      BY <2>1, <2>5 DEF SurvivalInv, Copies
    <3> QED BY <3>2, <3>3, <3>4
  <2> QED BY <2>3, <2>4, <2>5
<1>3. ASSUME NEW r \in Runs, NEW u \in Users, RotateOneFails(r, u)
      PROVE Age[row'[c].key] > Age[OldKey[t]]
  <2>1. t # r /\ t \notin erred
    BY <1>3 DEF RotateOneFails
  <2> QED BY <1>0, <1>3, <2>1 DEF RotateOneFails, SurvivalInv, Copies, RetiredInv
<1>4. ASSUME NEW r \in Runs, RotateEnd(r) PROVE Age[row'[c].key] > Age[OldKey[t]]
  BY <1>0, <1>4 DEF RotateEnd, RetiredInv, Undisturbed
<1>5. ASSUME NEW r \in Runs, RotateDie(r) PROVE Age[row'[c].key] > Age[OldKey[t]]
  BY <1>0, <1>5 DEF RotateDie, RetiredInv, SurvivalInv, Copies, Undisturbed
<1>6. ASSUME NEW u \in Users, BrokerDelete(u) PROVE Age[row'[c].key] > Age[OldKey[t]]
  BY <1>0, <1>6 DEF BrokerDelete
<1>7. CASE BrokerLoad
  BY <1>0, <1>7 DEF BrokerLoad
<1>8. ASSUME NEW u \in Users, BrokerSave(u) PROVE Age[row'[c].key] > Age[OldKey[t]]
  BY <1>0, <1>8 DEF BrokerSave, SurvivalInv, Copies
<1>9. ASSUME NEW key \in BrokerKeys, BrokerStart(key) PROVE Age[row'[c].key] > Age[OldKey[t]]
  BY <1>9 DEF BrokerStart
<1>10. CASE UNCHANGED vars
  BY <1>0, <1>10 DEF vars, RetiredInv
<1> QED BY <1>1, <1>2, <1>3, <1>4, <1>5, <1>6, <1>7, <1>8, <1>9, <1>10 DEF Next

\* Without a broker, and with runs one at a time that go from older to newer keys,
\* no row is under the old key of a run that has reported success (manage.go,
\* RotateKey; README, "re-encrypt all the passwords in the database").
THEOREM SuccessRetiresOldKey ==
    ASSUME NEW Age \in [Keys -> Nat], OneRun,
           \A r \in Runs : OldKey[r] # NewKey[r] => Age[OldKey[r]] < Age[NewKey[r]]
    PROVE  Spec => []OldKeyRetiredOffline
<1> DEFINE R == RetiredInv(Age)
<1>1. Init => R
  BY DEF Init, RetiredInv
<1>2. ASSUME R, Undisturbed, NoErrorSucceeds PROVE OldKeyRetiredOffline
  <2> SUFFICES ASSUME Offline, NEW r \in Runs, run[r] = "ok", OldKey[r] # NewKey[r],
                      NEW u \in Users, row[u] # None, row[u].key = OldKey[r]
               PROVE  FALSE
    BY DEF OldKeyRetiredOffline, OldKeyRetired
  <2>1. Age[OldKey[r]] > Age[OldKey[r]]
    BY <1>2 DEF RetiredInv, Undisturbed, NoErrorSucceeds
  <2> QED BY <2>1, KeysAssumption
<1>3. SurvivalInv /\ Undisturbed /\ R /\ [Next]_vars => R'
  BY RetiredNext
<1>4. SurvivalInv /\ Undisturbed /\ [Next]_vars => Undisturbed'
  BY UndisturbedNext
<1>5. Init => NoErrorSucceeds
  BY DEF Init, NoErrorSucceeds
<1>6. Undisturbed /\ NoErrorSucceeds /\ [Next]_vars => NoErrorSucceeds'
  BY DEF NoErrorSucceeds, Undisturbed, Next, RotateLoad, RotateEnd, RotateDie, RotateOne,
         RotateOneFails, BrokerLoad, BrokerSave, BrokerDelete, BrokerStart, broker,
         rotation, vars
<1> HIDE DEF R
<1> QED BY <1>1, <1>2, <1>3, <1>4, <1>5, <1>6, UndisturbedInit, SurvivalInit, SurvivalNext,
           PTL DEF Spec
=============================================================================
