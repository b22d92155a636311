---------------------------- MODULE CatalogProofs ----------------------------
(* What TLAPS proves of Catalog. *)
EXTENDS Catalog, WellFoundedInduction, TLAPS

\* What plan o means for its instance: the database is where the plan says, or has
\* gone from RDS, and logins are only where Unbind looks for them.
Housed(i, o) ==
    /\ o # None
    /\ made[i] = Created(o) \/ (~o.shared /\ made[i] = {})
    /\ logins[i] \subseteq Reached(i, o)
    /\ o.shared => o.engine \in Servers

HousedInv ==
    /\ DOMAIN row = Instances /\ DOMAIN made = Instances /\ DOMAIN logins = Instances
    /\ \A i \in Instances :
          /\ row[i] # None => Housed(i, PlanOf(i))
          /\ row[i] = None => made[i] = {} /\ logins[i] = {}
          /\ logins[i] # {} => i \in bound

\* The operator's care is enough: the plan that is kept means the same.
LEMMA SamePlanHoused ==
    ASSUME NEW i, NEW o, NEW n, Housed(i, o), SamePlan(o, n)
    PROVE  Housed(i, n)
<1>1. Created(n) = Created(o)
  BY DEF SamePlan, Created, IsAurora
<1>2. Reached(i, n) = Reached(i, o)
  BY DEF SamePlan, Reached, IsAurora
<1> QED BY <1>1, <1>2 DEF Housed, SamePlan

\* Bind and Unbind are connected to where the database is.
LEMMA ReachedIsMade ==
    ASSUME NEW i, NEW o, Housed(i, o)
    PROVE  /\ Reached(i, o) \subseteq made[i]
           /\ o.shared => Reached(i, o) = made[i] /\ made[i] = {Database(o.engine)}
BY DEF Housed, Reached, Created

\* The deletion of what a plan of its own has leaves nothing.
LEMMA DedicatedGoes ==
    ASSUME NEW i, NEW o, Housed(i, o), ~o.shared
    PROVE  made[i] \subseteq {x \in made[i] : \/ x.kind = "instance"
                                              \/ x.kind = "cluster" /\ IsAurora(o)}
BY DEF Housed, Created, Dedicated, Cluster

\* No instance on RDS, nothing on RDS.
LEMMA GoneIsGone ==
    ASSUME NEW i, NEW o, Housed(i, o), ~o.shared, \A x \in made[i] : x.kind # "instance"
    PROVE  made[i] = {}
<1>1. Dedicated(Lower[o.engine]) \in Created(o)
  BY DEF Created
<1>2. Dedicated(Lower[o.engine]).kind = "instance"
  BY DEF Dedicated
<1> QED BY <1>1, <1>2 DEF Housed

\* Everything the handlers of other instances leave alone.
LEMMA OthersHoused ==
    ASSUME HousedInv, NEW i \in Instances, row[i] # None,
           deployed' = deployed, row'[i] = row[i], made'[i] = made[i], logins'[i] = logins[i]
    PROVE  Housed(i, PlanOf(i))'
<1>1. PlanOf(i)' = PlanOf(i)
  BY DEF PlanOf, PlanIn
<1>2. \A o : Reached(i, o)' = Reached(i, o)
  BY DEF Reached
<1> QED BY <1>1, <1>2 DEF HousedInv, Housed

LEMMA HousedInit == Init => HousedInv
BY DEF Init, HousedInv

LEMMA HousedNext ==
    ASSUME "recorded" \in Kept, HousedInv, [Next]_vars
    PROVE  HousedInv'
<1> USE DEF HousedInv
<1>1. ASSUME NEW c \in Catalogs, Deploy(c) PROVE HousedInv'
  <2> SUFFICES ASSUME NEW i \in Instances, row[i] # None PROVE Housed(i, PlanOf(i))'
    BY <1>1 DEF Deploy
  <2>1. SamePlan(PlanOf(i), PlanOf(i)')
    BY <1>1 DEF Deploy, MayDeploy, PlanOf, PlanIn
  <2>2. Housed(i, PlanOf(i)')
    BY <2>1, SamePlanHoused
  <2> QED BY <1>1, <2>2 DEF Deploy, Housed, Reached
<1>2. ASSUME NEW i \in Instances, NEW s \in ServiceIds, NEW p \in PlanIds, Provision(i, s, p)
      PROVE HousedInv'
  <2> DEFINE o == FindServicePlan(deployed, s, p)
  <2>1. /\ row[i] = None /\ made[i] = {} /\ logins[i] = {}
        /\ o # None
        /\ o.shared => o.engine \in Servers
    BY <1>2 DEF Provision
  <2>2. /\ row' = [row EXCEPT ![i] = [service |-> s, plan |-> p]]
        /\ made' = [made EXCEPT ![i] = @ \cup Created(o)]
        /\ UNCHANGED <<deployed, bound, logins>>
    BY <1>2 DEF Provision
  <2>3. PlanOf(i)' = o
    BY <2>2 DEF PlanOf, PlanIn
  <2>4. made'[i] = Created(o) /\ logins'[i] = {}
    BY <2>1, <2>2
  <2> HIDE DEF o
  <2>5. Housed(i, PlanOf(i))'
    BY <2>1, <2>3, <2>4 DEF Housed
  <2>6. ASSUME NEW j \in Instances, j # i, row'[j] # None PROVE Housed(j, PlanOf(j))'
    BY <2>2, <2>6, OthersHoused
  <2>7. \A j \in Instances : j # i =>
            row'[j] = row[j] /\ made'[j] = made[j] /\ logins'[j] = logins[j]
    BY <2>2
  <2>8. row'[i] # None => Housed(i, PlanOf(i))'
    BY <2>5
  <2>9. row'[i] # None
    BY <2>2, CatalogAssumption DEF Rows
  <2> QED BY <2>2, <2>4, <2>5, <2>6, <2>7, <2>8, <2>9
<1>3. ASSUME NEW i \in Instances, NEW p \in PlanIds, Update(i, p) PROVE HousedInv'
  <2>1. UNCHANGED <<deployed, row, made, logins, bound>>
    BY <1>3 DEF Update
  <2> QED BY <2>1, OthersHoused
<1>4. ASSUME NEW i \in Instances, Bind(i) PROVE HousedInv'
  <2>1. /\ row[i] # None
        /\ UNCHANGED <<deployed, row, made>>
        /\ bound' = bound \cup {i}
        /\ logins' = [logins EXCEPT ![i] = @ \cup Reached(i, PlanOf(i))]
    BY <1>4 DEF Bind, Found
  <2>2. Housed(i, PlanOf(i))'
    BY <2>1 DEF Housed, PlanOf, PlanIn, Reached
  <2>3. ASSUME NEW j \in Instances, j # i, row[j] # None PROVE Housed(j, PlanOf(j))'
    BY <2>1, <2>3, OthersHoused
  <2> QED BY <2>1, <2>2, <2>3
<1>5. ASSUME NEW i \in Instances, Unbind(i) PROVE HousedInv'
  <2>1. /\ row[i] # None
        /\ UNCHANGED <<deployed, row, made>>
        /\ bound' = bound \ {i}
        /\ logins' = [logins EXCEPT ![i] = @ \ Reached(i, PlanOf(i))]
    BY <1>5 DEF Unbind, Found
  <2>2. Housed(i, PlanOf(i))' /\ logins'[i] = {}
    BY <2>1 DEF Housed, PlanOf, PlanIn, Reached
  <2>3. ASSUME NEW j \in Instances, j # i, row[j] # None PROVE Housed(j, PlanOf(j))'
    BY <2>1, <2>3, OthersHoused
  <2> QED BY <2>1, <2>2, <2>3
<1>6. ASSUME NEW i \in Instances, DeprovisionShared(i) PROVE HousedInv'
  <2>1. /\ row[i] # None /\ PlanOf(i).shared
        /\ made' = [made EXCEPT ![i] = @ \ {Database(PlanOf(i).engine)}]
        /\ logins' = [logins EXCEPT ![i] =
                         IF i \in bound THEN @ \ {Database(PlanOf(i).engine)} ELSE @]
        /\ row' = [row EXCEPT ![i] = None]
        /\ bound' = bound \ {i}
        /\ deployed' = deployed
    BY <1>6 DEF DeprovisionShared, Found
  <2>2. made[i] = {Database(PlanOf(i).engine)} /\ logins[i] \subseteq made[i]
    BY <2>1, ReachedIsMade DEF Housed
  <2>3. made'[i] = {} /\ logins'[i] = {} /\ row'[i] = None
    BY <2>1, <2>2
  <2>4. ASSUME NEW j \in Instances, j # i, row[j] # None PROVE Housed(j, PlanOf(j))'
    BY <2>1, <2>4, OthersHoused
  <2> QED BY <2>1, <2>3, <2>4
<1>7. ASSUME NEW i \in Instances, DeprovisionDedicated(i) PROVE HousedInv'
  <2> DEFINE gone == {x \in made[i] : \/ x.kind = "instance"
                                      \/ x.kind = "cluster" /\ IsAurora(PlanOf(i))}
  <2>1. /\ row[i] # None /\ ~PlanOf(i).shared
        /\ made' = [made EXCEPT ![i] = @ \ gone]
        /\ logins' = [logins EXCEPT ![i] = @ \ gone]
        /\ UNCHANGED <<deployed, row, bound>>
    BY <1>7 DEF DeprovisionDedicated, Found
  <2>2. made[i] \subseteq gone /\ logins[i] \subseteq made[i]
    BY <2>1, DedicatedGoes, ReachedIsMade DEF Housed
  <2> HIDE DEF gone
  <2>3. made'[i] = {} /\ logins'[i] = {}
    BY <2>1, <2>2
  <2>4. Housed(i, PlanOf(i))'
    BY <2>1, <2>3 DEF Housed, PlanOf, PlanIn
  <2>5. ASSUME NEW j \in Instances, j # i, row[j] # None PROVE Housed(j, PlanOf(j))'
    BY <2>1, <2>5, OthersHoused
  <2> QED BY <2>1, <2>3, <2>4, <2>5
<1>8. ASSUME NEW i \in Instances, LastOperation(i) PROVE HousedInv'
  <2>1. /\ row[i] # None /\ ~PlanOf(i).shared
        /\ \A x \in made[i] : x.kind # "instance"
        /\ row' = [row EXCEPT ![i] = None]
        /\ bound' = bound \ {i}
        /\ UNCHANGED <<deployed, made, logins>>
    BY <1>8 DEF LastOperation, Found
  <2>2. made[i] = {} /\ logins[i] = {}
    BY <2>1, GoneIsGone, ReachedIsMade DEF Housed
  <2>3. ASSUME NEW j \in Instances, j # i, row[j] # None PROVE Housed(j, PlanOf(j))'
    BY <2>1, <2>3, OthersHoused
  <2> QED BY <2>1, <2>2, <2>3
<1>9. CASE UNCHANGED vars
  BY <1>9, OthersHoused DEF vars
<1> QED BY <1>1, <1>2, <1>3, <1>4, <1>5, <1>6, <1>7, <1>8, <1>9 DEF Next

LEMMA Housing ==
    ASSUME "recorded" \in Kept
    PROVE  Spec => []HousedInv
<1>1. HousedInv /\ [Next]_vars => HousedInv'
  BY HousedNext
<1> QED BY <1>1, HousedInit, PTL DEF Spec

\* Whatever catalogs are deployed, respelled, refused or with plans added and
\* withdrawn, if the plans of recorded instances are kept, the broker finds every
\* one of them, and its database (broker.go, findObjects).
THEOREM KeptInstancesAreServed ==
    ASSUME "recorded" \in Kept
    PROVE  Spec => []InstancesAreServed
<1>1. HousedInv => InstancesAreServed
  <2> SUFFICES ASSUME HousedInv, NEW i \in Instances, row[i] # None
               PROVE  /\ PlanOf(i) # None
                      /\ made[i] \subseteq Created(PlanOf(i))
                      /\ PlanOf(i).shared => /\ made[i] # {}
                                             /\ Reached(i, PlanOf(i)) = made[i]
    BY DEF InstancesAreServed
  <2> QED BY ReachedIsMade DEF HousedInv, Housed
<1> QED BY <1>1, Housing, PTL

\* Under the same care nothing is left of an instance whose record is gone
\* (broker.go, Deprovision and LastOperation).
THEOREM KeptPlansLeaveNothing ==
    ASSUME "recorded" \in Kept
    PROVE  Spec => []NothingIsLeft
<1>1. HousedInv => NothingIsLeft
  BY DEF HousedInv, NothingIsLeft
<1> QED BY <1>1, Housing, PTL

\* And Unbind finds the login it is to take away (broker.go, Unbind).
THEOREM KeptPlansBindLogins ==
    ASSUME "recorded" \in Kept
    PROVE  Spec => []LoginsAreBound
<1>1. HousedInv => LoginsAreBound
  BY DEF HousedInv, LoginsAreBound
<1> QED BY <1>1, Housing, PTL

-----------------------------------------------------------------------------
(* The plan that Cloud Foundry has for an instance.                        *)

\* A set of natural numbers has the least element that Min picks.
LEMMA MinIsMember ==
    ASSUME NEW I \in SUBSET Nat, I # {}
    PROVE  Min(I) \in I
<1> DEFINE R == {ss \in Nat \X Nat : ss[1] < ss[2]}
<1>1. IsWellFoundedOn(R, Nat)
  BY NatLessThanWellFounded DEF OpToRel
<1> HIDE DEF R
<1>2. \E x \in I : \A y \in I : ~ (<<y, x>> \in R)
  BY <1>1, WFMin, Zenon
<1>3. PICK x \in I : \A y \in I : ~ (<<y, x>> \in R)
  BY <1>2
<1>4. ASSUME NEW y \in I PROVE x <= y
  <2>1. ~ (<<y, x>> \in R) /\ <<y, x>> \in Nat \X Nat
    BY <1>3
  <2>2. ~ (y < x)
    BY <2>1 DEF R
  <2> QED BY <2>2
<1> QED BY <1>4 DEF Min

\* A lookup that finds something finds a member with the ID it looked for.
LEMMA FoundById ==
    ASSUME NEW seq, NEW id, FirstWith(seq, id) # None
    PROVE  /\ FirstWith(seq, id).id = id
           /\ \E k \in 1 .. Len(seq) : FirstWith(seq, id) = seq[k]
<1> DEFINE I == {k \in 1 .. Len(seq) : seq[k].id = id}
<1>1. SelectInSeq(seq, LAMBDA x : x.id = id) = IF I # {} THEN Min(I) ELSE 0
  BY DEF SelectInSeq
<1>2. I # {}
  BY <1>1 DEF FirstWith
<1>3. I \in SUBSET Nat
  OBVIOUS
<1>4. Min(I) \in I
  BY <1>2, <1>3, MinIsMember
<1>5. FirstWith(seq, id) = seq[Min(I)]
  BY <1>1, <1>2, <1>4 DEF FirstWith
<1> QED BY <1>4, <1>5

\* The plan of row[i] as it was asked for last.
AskedPlan(i) == FindServicePlan(deployed, row[i].service, asked[i])

FitsInv ==
    /\ DOMAIN asked = Instances
    /\ \A i \in Instances : row[i] # None =>
          AskedPlan(i) # None /\ Created(AskedPlan(i)) = Created(PlanOf(i))

\* Plans that are kept create the same.
LEMMA SamePlanCreates ==
    ASSUME NEW o, NEW n, SamePlan(o, n)
    PROVE  n # None /\ Created(n) = Created(o)
BY DEF SamePlan, Created, IsAurora

\* An Update keeps to what the plan creates, whether it changes the plan or not.
LEMMA UpdateFits ==
    ASSUME NEW i, NEW p, NEW n, n = FindServicePlan(deployed, row[i].service, p),
           PlanOf(i) # None, n # None,
           CanUpdate(PlanOf(i), n, FindService(deployed, row[i].service))
    PROVE  Created(n) = Created(PlanOf(i))
<1>1. CASE PlanOf(i).id = n.id
  <2>1. FindService(deployed, row[i].service) # None
    BY DEF FindServicePlan
  <2>2. /\ PlanOf(i) = FirstWith(FindService(deployed, row[i].service).plans, row[i].plan)
        /\ n = FirstWith(FindService(deployed, row[i].service).plans, p)
    BY <2>1 DEF FindServicePlan, PlanOf, PlanIn
  <2>3. PlanOf(i).id = row[i].plan /\ n.id = p
    BY <2>2, FoundById
  <2> QED BY <1>1, <2>2, <2>3
<1>2. CASE PlanOf(i).id # n.id
  BY <1>2 DEF CanUpdate, Created, IsAurora
<1> QED BY <1>1, <1>2

LEMMA FitsNext ==
    ASSUME Kept = {"recorded", "asked"}, HousedInv, FitsInv, [Next]_vars
    PROVE  FitsInv'
<1> USE DEF FitsInv, HousedInv
<1>0. ASSUME NEW i \in Instances, row[i] # None, deployed' = deployed, row'[i] = row[i],
             asked'[i] = asked[i]
      PROVE  (AskedPlan(i) # None /\ Created(AskedPlan(i)) = Created(PlanOf(i)))'
  BY <1>0 DEF AskedPlan, PlanOf, PlanIn
<1>1. ASSUME NEW c \in Catalogs, Deploy(c) PROVE FitsInv'
  <2> SUFFICES ASSUME NEW i \in Instances, row[i] # None
               PROVE  (AskedPlan(i) # None /\ Created(AskedPlan(i)) = Created(PlanOf(i)))'
    BY <1>1 DEF Deploy
  <2>1. SamePlan(PlanOf(i), PlanOf(i)') /\ SamePlan(AskedPlan(i), AskedPlan(i)')
    BY <1>1 DEF Deploy, MayDeploy, PlanOf, PlanIn, AskedPlan
  <2>2. /\ AskedPlan(i)' # None
        /\ Created(AskedPlan(i)') = Created(AskedPlan(i))
        /\ Created(PlanOf(i)') = Created(PlanOf(i))
    BY <2>1, SamePlanCreates
  <2>3. \A o : Created(o)' = Created(o)
    BY DEF Created
  <2> QED BY <2>2
<1>2. ASSUME NEW i \in Instances, NEW s \in ServiceIds, NEW p \in PlanIds, Provision(i, s, p)
      PROVE FitsInv'
  <2>1. /\ row' = [row EXCEPT ![i] = [service |-> s, plan |-> p]]
        /\ asked' = [asked EXCEPT ![i] = p]
        /\ deployed' = deployed
        /\ FindServicePlan(deployed, s, p) # None
    BY <1>2 DEF Provision
  <2>2. AskedPlan(i)' # None /\ AskedPlan(i)' = PlanOf(i)'
    BY <2>1 DEF AskedPlan, PlanOf, PlanIn
  <2>3. \A j \in Instances : j # i => row'[j] = row[j] /\ asked'[j] = asked[j]
    BY <2>1
  <2> QED BY <1>0, <2>1, <2>2, <2>3
<1>3. ASSUME NEW i \in Instances, NEW p \in PlanIds, Update(i, p) PROVE FitsInv'
  <2> DEFINE n == FindServicePlan(deployed, row[i].service, p)
  <2>1. /\ UNCHANGED <<deployed, row>>
        /\ asked' = [asked EXCEPT ![i] = p]
        /\ n # None /\ PlanOf(i) # None
        /\ CanUpdate(PlanOf(i), n, FindService(deployed, row[i].service))
    BY <1>3 DEF Update, Found
  <2>2. AskedPlan(i)' = n /\ PlanOf(i)' = PlanOf(i)
    BY <2>1 DEF AskedPlan, PlanOf, PlanIn
  <2>3. Created(n) = Created(PlanOf(i))
    BY <2>1, UpdateFits
  <2> HIDE DEF n
  <2>4. \A j \in Instances : j # i => row'[j] = row[j] /\ asked'[j] = asked[j]
    BY <2>1
  <2> QED BY <1>0, <2>1, <2>2, <2>3, <2>4
<1>4. ASSUME NEW i \in Instances, Bind(i) \/ Unbind(i) \/ DeprovisionDedicated(i)
      PROVE FitsInv'
  <2>1. UNCHANGED <<deployed, row, asked>>
    BY <1>4 DEF Bind, Unbind, DeprovisionDedicated
  <2> QED BY <1>0, <2>1
<1>5. ASSUME NEW i \in Instances, DeprovisionShared(i) \/ LastOperation(i) PROVE FitsInv'
  <2>1. /\ row' = [row EXCEPT ![i] = None]
        /\ asked' = [asked EXCEPT ![i] = None]
        /\ deployed' = deployed
    BY <1>5 DEF DeprovisionShared, LastOperation
  <2> QED BY <1>0, <2>1
<1>6. CASE UNCHANGED vars
  BY <1>0, <1>6 DEF vars
<1> QED BY <1>1, <1>2, <1>3, <1>4, <1>5, <1>6 DEF Next

\* If the operator also keeps the plans that Cloud Foundry has, such a plan is found and
\* is one for where the instance is, although the record never follows it
\* (broker.go, Update; broker_helpers.go, CanUpdate).
THEOREM KeptPlansFit ==
    ASSUME Kept = {"recorded", "asked"}
    PROVE  Spec => []AskedPlanFits
<1>1. Init => FitsInv
  BY DEF Init, FitsInv
<1>2. HousedInv /\ FitsInv /\ [Next]_vars => FitsInv'
  BY FitsNext
<1>3. FitsInv => AskedPlanFits
  BY DEF FitsInv, AskedPlanFits, AskedPlan
<1>4. "recorded" \in Kept
  OBVIOUS
<1> QED BY <1>1, <1>2, <1>3, <1>4, Housing, PTL DEF Spec
-----------------------------------------------------------------------------
(* Types.                                                                  *)

\* The plans that a lookup finds are those of the catalog.
LEMMA FoundIsOffered ==
    ASSUME NEW c \in Catalogs, NEW service, NEW plan, FindServicePlan(c, service, plan) # None
    PROVE  FindServicePlan(c, service, plan).engine \in DOMAIN Lower
<1> DEFINE v == FindService(c, service)
           o == FindServicePlan(c, service, plan)
<1>1. v # None /\ o = FirstWith(v.plans, plan)
  BY DEF FindServicePlan
<1>2. PICK n \in DOMAIN c : v = c[n]
  BY <1>1, FoundById, CatalogAssumption DEF FindService
<1>3. PICK k \in DOMAIN c[n].plans : o = c[n].plans[k]
  BY <1>1, <1>2, FoundById, CatalogAssumption
<1>4. o \in Offerings(c)
  BY <1>3 DEF Offerings
<1> QED BY <1>4, CatalogAssumption

\* What is created and reached are places.
LEMMA CreatedPlaces ==
    ASSUME NEW o, o.engine \in DOMAIN Lower, o.shared => o.engine \in Servers
    PROVE  Created(o) \subseteq Places
BY DEF Created, Places

LEMMA ReachedPlaces ==
    ASSUME NEW i, NEW o, made[i] \subseteq Places
    PROVE  Reached(i, o) \subseteq Places
BY DEF Reached, Places

LEMMA TypeNext ==
    ASSUME TypeOK, [Next]_vars
    PROVE  TypeOK'
<1> USE DEF TypeOK
<1>1. ASSUME NEW c \in Catalogs, Deploy(c) PROVE TypeOK'
  BY <1>1 DEF Deploy, Starts
<1>2. ASSUME NEW i \in Instances, NEW s \in ServiceIds, NEW p \in PlanIds, Provision(i, s, p)
      PROVE TypeOK'
  <2> DEFINE o == FindServicePlan(deployed, s, p)
  <2>1. Created(o) \subseteq Places
    BY <1>2, FoundIsOffered, CreatedPlaces DEF Provision
  <2>2. [service |-> s, plan |-> p] \in Rows
    BY DEF Rows
  <2>3. /\ row' = [row EXCEPT ![i] = [service |-> s, plan |-> p]]
        /\ asked' = [asked EXCEPT ![i] = p]
        /\ made' = [made EXCEPT ![i] = @ \cup Created(o)]
        /\ UNCHANGED <<deployed, up, bound, logins>>
    BY <1>2 DEF Provision
  <2> HIDE DEF o
  <2>4. /\ made' \in [Instances -> SUBSET Places]
        /\ row' \in [Instances -> Rows \cup {None}]
        /\ asked' \in [Instances -> PlanIds \cup {None}]
    BY <2>1, <2>2, <2>3
  <2>5. ASSUME NEW j \in Instances
        PROVE  IF row'[j] = None THEN asked'[j] = None /\ j \notin bound' ELSE asked'[j] \in PlanIds
    <3>1. [service |-> s, plan |-> p] # None
      BY <2>2, CatalogAssumption
    <3>2. CASE j = i
      BY <2>3, <3>1, <3>2
    <3>3. CASE j # i
      BY <2>3, <3>3
    <3> QED BY <3>2, <3>3
  <2> QED BY <2>3, <2>4, <2>5
<1>3. ASSUME NEW i \in Instances, NEW p \in PlanIds, Update(i, p) PROVE TypeOK'
  BY <1>3 DEF Update, Found
<1>4. ASSUME NEW i \in Instances, Bind(i) PROVE TypeOK'
  BY <1>4, ReachedPlaces DEF Bind, Found
<1>5. ASSUME NEW i \in Instances, Unbind(i) PROVE TypeOK'
  BY <1>5 DEF Unbind
<1>6. ASSUME NEW i \in Instances, DeprovisionShared(i) PROVE TypeOK'
  <2>1. /\ row' = [row EXCEPT ![i] = None]
        /\ asked' = [asked EXCEPT ![i] = None]
        /\ bound' = bound \ {i}
        /\ UNCHANGED <<deployed, up>>
    BY <1>6 DEF DeprovisionShared
  <2>2. /\ made' \in [Instances -> SUBSET Places]
        /\ logins' \in [Instances -> SUBSET Places]
    BY <1>6 DEF DeprovisionShared
  <2>3. /\ row' \in [Instances -> Rows \cup {None}]
        /\ asked' \in [Instances -> PlanIds \cup {None}]
        /\ bound' \subseteq Instances
    BY <2>1
  <2>4. \A j \in Instances : IF row'[j] = None THEN asked'[j] = None /\ j \notin bound'
                             ELSE asked'[j] \in PlanIds
    BY <2>1
  <2> QED BY <2>1, <2>2, <2>3, <2>4
<1>7. ASSUME NEW i \in Instances, DeprovisionDedicated(i) PROVE TypeOK'
  BY <1>7 DEF DeprovisionDedicated
<1>8. ASSUME NEW i \in Instances, LastOperation(i) PROVE TypeOK'
  <2>1. /\ row' = [row EXCEPT ![i] = None]
        /\ asked' = [asked EXCEPT ![i] = None]
        /\ bound' = bound \ {i}
        /\ UNCHANGED <<deployed, up>>
    BY <1>8 DEF LastOperation
  <2>2. /\ made' \in [Instances -> SUBSET Places]
        /\ logins' \in [Instances -> SUBSET Places]
    BY <1>8 DEF LastOperation
  <2>3. /\ row' \in [Instances -> Rows \cup {None}]
        /\ asked' \in [Instances -> PlanIds \cup {None}]
        /\ bound' \subseteq Instances
    BY <2>1
  <2>4. \A j \in Instances : IF row'[j] = None THEN asked'[j] = None /\ j \notin bound'
                             ELSE asked'[j] \in PlanIds
    BY <2>1
  <2> QED BY <2>1, <2>2, <2>3, <2>4
<1>9. CASE UNCHANGED vars
  BY <1>9 DEF vars
<1> QED BY <1>1, <1>2, <1>3, <1>4, <1>5, <1>6, <1>7, <1>8, <1>9 DEF Next

\* Every variable keeps its type; a place is one that some plan stands for
\* (broker.go, its handlers; config.go).
THEOREM TypeCorrect == Spec => []TypeOK
<1>1. Init => TypeOK
  BY CatalogAssumption DEF Init, TypeOK, Starts
<1>2. TypeOK /\ [Next]_vars => TypeOK'
  BY TypeNext
<1> QED BY <1>1, <1>2, PTL DEF Spec
=============================================================================
