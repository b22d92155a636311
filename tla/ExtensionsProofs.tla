--------------------------- MODULE ExtensionsProofs ---------------------------
(* What TLAPS proves of Extensions. *)
EXTENDS Extensions, TLAPS

\* An Update has no extension of its own list among those it has still to drop.
DropsInv ==
    /\ DOMAIN drops = Updates
    /\ DOMAIN list = Updates
    /\ DOMAIN run = Updates
    /\ \A m \in Updates :
          /\ drops[m] \cap Range(list[m]) = {}
          /\ run[m] = "idle" => drops[m] = {}

LEMMA DropsInit == Init => DropsInv
BY DEF Init, DropsInv

LEMMA DropsNext == DropsInv /\ [Next]_vars => DropsInv'
<1> SUFFICES ASSUME DropsInv, [Next]_vars PROVE DropsInv'
  OBVIOUS
<1> USE DEF DropsInv
<1>1. ASSUME NEW m \in Updates, NEW l \in Lists, Reject(m, l) PROVE DropsInv'
  BY <1>1 DEF Reject
<1>2. ASSUME NEW m \in Updates, NEW l \in Lists, Read(m, l) PROVE DropsInv'
  <2>1. PICK o \in SUBSET Rows : drops' = [drops EXCEPT ![m] = Unwanted(o, l)]
    BY <1>2 DEF Read
  <2>2. Unwanted(o, l) \cap Range(l) = {}
    BY DEF Unwanted
  <2> QED BY <1>2, <2>1, <2>2 DEF Read
<1>3. ASSUME NEW m \in Updates, NEW e \in Names, Drop(m, e) PROVE DropsInv'
  BY <1>3 DEF Drop, Running
<1>4. ASSUME NEW m \in Updates, NEW i, Create(m, i) PROVE DropsInv'
  BY <1>4 DEF Create
<1>5. ASSUME NEW m \in Updates, Fail(m) PROVE DropsInv'
  BY <1>5 DEF Fail
<1>6. ASSUME NEW m \in Updates, Done(m) PROVE DropsInv'
  BY <1>6 DEF Done
<1>7. CASE UNCHANGED vars
  BY <1>7 DEF vars
<1> QED BY <1>1, <1>2, <1>3, <1>4, <1>5, <1>6, <1>7 DEF Next

\* Only Drop removes an extension, and one that its Update does not want.
LEMMA OnlyUnwantedGo ==
    DropsInv /\ [Next]_vars =>
        \A e \in installed \ installed' :
            \E m \in Updates : Running(m) /\ e \notin Range(list[m])
<1> SUFFICES ASSUME DropsInv, [Next]_vars,
                    NEW e \in installed, e \notin installed'
             PROVE  \E m \in Updates : Running(m) /\ e \notin Range(list[m])
  OBVIOUS
<1>1. PICK m \in Updates : \E d \in Names : Drop(m, d) /\ d = e
  BY DEF Next, Reject, Read, Drop, Create, Fail, Done, vars
<1>2. Running(m) /\ e \in drops[m]
  BY <1>1 DEF Drop
<1>3. e \notin Range(list[m])
  BY <1>2 DEF DropsInv
<1> QED BY <1>2, <1>3

\* With any number of Updates, lists and failures, an extension that all running
\* Updates want is never dropped (postgres_engine.go, SetExtensions).
THEOREM WantedExtensionsStay == Spec => WantedByAllStays
<1>1. DropsInv /\ [Next]_vars =>
        [\A e \in installed \ installed' :
            \E m \in Updates : Running(m) /\ e \notin Range(list[m])]_vars
  BY OnlyUnwantedGo
<1> QED BY <1>1, DropsInit, DropsNext, PTL DEF Spec, WantedByAllStays
-----------------------------------------------------------------------------
(* Types.                                                                  *)

TypeInv ==
    /\ TypeOK
    /\ \A m \in Updates : Plpgsql \notin old[m]
    /\ \A m \in Updates : run[m] = "idle" => drops[m] = {} /\ creates[m] = {}
    /\ \A m \in Updates : Running(m) => Range(list[m]) \subseteq Names
    /\ {DOMAIN list, DOMAIN old, DOMAIN drops, DOMAIN creates} = {Updates}

\* The items of a list are names, valid or not.
LEMMA ListItems ==
    ASSUME NEW l \in Lists
    PROVE  /\ \A i \in DOMAIN l : l[i] \in Range(l)
           /\ Range(l) \subseteq Names \cup Invalid
<1>1. l \in Seq(Names \cup Invalid)
  BY ExtensionsAssumption
<1>2. \A i \in DOMAIN l : l[i] \in Names \cup Invalid
  BY <1>1
<1> QED BY <1>2 DEF Range

LEMMA TypeNext == TypeInv /\ [Next]_vars => TypeInv'
<1> SUFFICES ASSUME TypeInv, [Next]_vars PROVE TypeInv'
  OBVIOUS
<1> USE ExtensionsAssumption DEF TypeInv, TypeOK, Running
<1>1. ASSUME NEW m \in Updates, NEW l \in Lists, Reject(m, l) PROVE TypeInv'
  BY <1>1 DEF Reject
<1>2. ASSUME NEW m \in Updates, NEW l \in Lists, Read(m, l) PROVE TypeInv'
  <2>1. PICK o \in SUBSET Rows :
            /\ broken' \in {broken, broken \cup {m}}
            /\ old' = [old EXCEPT ![m] = o]
            /\ drops' = [drops EXCEPT ![m] = Unwanted(o, l)]
            /\ creates' = [creates EXCEPT ![m] = Missing(o, l)]
    BY <1>2 DEF Read
  <2>2. Unwanted(o, l) \subseteq o
    BY DEF Unwanted
  <2>3. Missing(o, l) \subseteq DOMAIN l /\ \A i \in Missing(o, l) : l[i] \notin o
    BY DEF Missing
  <2>4. Plpgsql \notin o
    BY DEF Rows
  <2>5. Range(l) \subseteq Names
    BY <1>2, ListItems DEF Read
  <2> QED BY <1>2, <2>1, <2>2, <2>3, <2>4, <2>5 DEF Read
<1>3. ASSUME NEW m \in Updates, NEW e \in Names, Drop(m, e) PROVE TypeInv'
  <2>1. e # Plpgsql
    BY <1>3 DEF Drop
  <2> QED BY <1>3, <2>1 DEF Drop
<1>4. ASSUME NEW m \in Updates, NEW i \in DOMAIN list[m], Create(m, i) PROVE TypeInv'
  <2>1. list[m][i] \in Names
    BY <1>4 DEF Create, Range
  <2> QED BY <1>4, <2>1 DEF Create
<1>5. ASSUME NEW m \in Updates, Fail(m) PROVE TypeInv'
  BY <1>5 DEF Fail
<1>6. ASSUME NEW m \in Updates, Done(m) PROVE TypeInv'
  BY <1>6 DEF Done
<1>7. CASE UNCHANGED vars
  BY <1>7 DEF vars
<1> QED BY <1>1, <1>2, <1>3, <1>4, <1>5, <1>6, <1>7 DEF Next

LEMMA TypeInit == Init => TypeInv
BY ExtensionsAssumption DEF Init, TypeInv, TypeOK, Running

\* Every variable keeps its type, plpgsql stays installed, and nothing is dropped
\* that was not read or created that was (postgres_engine.go, SetExtensions).
THEOREM TypeCorrect == Spec => []TypeOK
<1>1. TypeInv => TypeOK
  BY DEF TypeInv
<1> QED BY <1>1, TypeInit, TypeNext, PTL DEF Spec

-----------------------------------------------------------------------------
(* One Update alone.                                                       *)

\* What an Update alone has done of its work.
Progress(m) ==
    /\ drops[m] \subseteq installed
    /\ installed \subseteq drops[m] \cup Wanted(m)
    /\ old[m] \cap Wanted(m) \subseteq installed
    /\ \A i \in DOMAIN list[m] \ creates[m] : list[m][i] \in installed
    /\ installed \subseteq old[m] \cup {Plpgsql} \/ drops[m] = {}

AloneInv ==
    /\ TypeInv
    /\ DropsInv
    /\ \A m \in Updates : Alone(m) /\ Running(m) => Progress(m)
    /\ SuccessIsExact

LEMMA AloneNext == AloneInv /\ TypeInv' /\ DropsInv' /\ [Next]_vars => AloneInv'
<1> SUFFICES ASSUME AloneInv, [Next]_vars, NEW t \in Updates, Alone(t)'
             PROVE  /\ Running(t)' => Progress(t)'
                    /\ (run[t] = "ok")' => (installed = Wanted(t))'
  BY DEF AloneInv, SuccessIsExact
<1> USE DEF AloneInv, Alone, Running, TypeInv, TypeOK
<1>1. ASSUME NEW m \in Updates, NEW l \in Lists, Reject(m, l)
      PROVE  ~Running(t)' /\ run'[t] # "ok"
  BY <1>1 DEF Reject
<1>2. ASSUME NEW m \in Updates, NEW l \in Lists, Read(m, l)
      PROVE  Progress(t)' /\ run'[t] # "ok"
  <2>1. t = m /\ run'[t] = "running"
    BY <1>2 DEF Read
  <2>2. old'[m] = Rows /\ drops'[m] = Unwanted(Rows, l) /\ creates'[m] = Missing(Rows, l)
    <3>1. PICK o \in SUBSET Rows :
              /\ o = Rows \/ broken' = broken \cup {m}
              /\ old' = [old EXCEPT ![m] = o]
              /\ drops' = [drops EXCEPT ![m] = Unwanted(o, l)]
              /\ creates' = [creates EXCEPT ![m] = Missing(o, l)]
      BY <1>2 DEF Read
    <3>2. o = Rows
      BY <2>1, <3>1
    <3> QED BY <3>1, <3>2
  <2>3. installed' = installed /\ list'[m] = l
    BY <1>2 DEF Read
  <2>4. \A i \in DOMAIN l : l[i] \in Range(l)
    BY ListItems
  <2> QED BY <2>1, <2>2, <2>3, <2>4 DEF Progress, Wanted, Rows, Unwanted, Missing
<1>3. ASSUME NEW m \in Updates, NEW e \in Names, Drop(m, e)
      PROVE  Progress(t)' /\ run'[t] # "ok"
  <2>1. t = m /\ Progress(m)
    BY <1>3 DEF Drop
  <2>2. e \notin Range(list[m]) /\ e # Plpgsql /\ e \in drops[m]
    BY <1>3 DEF Drop, DropsInv
  <2>3. \A i \in DOMAIN list[m] : list[m][i] \in Range(list[m])
    BY DEF Range
  <2>4. /\ installed' = installed \ {e}
        /\ drops'[m] = drops[m] \ {e}
        /\ UNCHANGED <<run, list, old, creates>>
    BY <1>3 DEF Drop
  <2>5. Wanted(m)' = Wanted(m)
    BY <2>4 DEF Wanted
  <2>6. run'[m] # "ok"
    BY <1>3, <2>4 DEF Drop
  <2>7. e \notin Wanted(m) /\ \A i \in DOMAIN list[m] : list[m][i] # e
    BY <2>2, <2>3 DEF Wanted
  <2>8. Progress(m)'
    BY <2>1, <2>4, <2>5, <2>7 DEF Progress
  <2> QED BY <2>1, <2>6, <2>8
<1>4. ASSUME NEW m \in Updates, NEW i \in DOMAIN list[m], Create(m, i)
      PROVE  Progress(t)' /\ run'[t] # "ok"
  <2>1. t = m /\ Progress(m)
    BY <1>4 DEF Create
  <2>2. list[m][i] \in Range(list[m])
    BY DEF Range
  <2>3. /\ drops[m] = {}
        /\ installed' = installed \cup {list[m][i]}
        /\ creates'[m] = creates[m] \ {i}
        /\ UNCHANGED <<run, list, old, drops>>
    BY <1>4 DEF Create
  <2>4. Wanted(m)' = Wanted(m) /\ list[m][i] \in Wanted(m)
    BY <2>2, <2>3 DEF Wanted
  <2>5. run'[m] # "ok"
    BY <1>4, <2>3 DEF Create
  <2>6. Progress(m)'
    BY <2>1, <2>3, <2>4 DEF Progress
  <2> QED BY <2>1, <2>5, <2>6
<1>5. ASSUME NEW m \in Updates, Fail(m) PROVE ~Running(t)' /\ run'[t] # "ok"
  BY <1>5 DEF Fail
<1>6. ASSUME NEW m \in Updates, Done(m) PROVE ~Running(t)' /\ (installed = Wanted(t))'
  <2>1. t = m /\ Progress(m) /\ drops[m] = {} /\ creates[m] = {}
    BY <1>6 DEF Done
  <2>2. Range(list[m]) \subseteq installed
    BY <2>1 DEF Progress, Range
  <2>3. installed = Wanted(m)
    BY <2>1, <2>2 DEF Progress, Wanted
  <2> QED BY <1>6, <2>1, <2>3 DEF Done, Wanted
<1>7. CASE UNCHANGED vars
  BY <1>7 DEF vars, Progress, SuccessIsExact, Wanted
<1> QED BY <1>1, <1>2, <1>3, <1>4, <1>5, <1>6, <1>7 DEF Next

LEMMA AloneInit == Init => AloneInv
BY TypeInit, DropsInit DEF Init, AloneInv, SuccessIsExact, Running

\* Whatever list, and whatever the database had, an Update alone that succeeds
\* leaves exactly what its list says (postgres_engine.go, SetExtensions).
THEOREM SuccessfulUpdateIsExact == Spec => []SuccessIsExact
<1>1. AloneInv => SuccessIsExact
  BY DEF AloneInv
<1> QED BY <1>1, AloneInit, AloneNext, TypeInit, TypeNext, DropsInit, DropsNext, PTL DEF Spec

\* One that is under way, and may break off, adds nothing before all that is
\* unwanted has gone (postgres_engine.go, SetExtensions).
THEOREM UpdatesDropFirst == Spec => []PartialUpdateIsOrdered
<1>1. AloneInv => PartialUpdateIsOrdered
  BY DEF AloneInv, Progress, PartialUpdateIsOrdered, TypeInv, TypeOK, Wanted
<1> QED BY <1>1, AloneInit, AloneNext, TypeInit, TypeNext, DropsInit, DropsNext, PTL DEF Spec
=============================================================================
