-------------------------------- MODULE Catalog --------------------------------
(***************************************************************************)
(* The catalog over the life of a deployment.  The broker reads and checks *)
(* it once, at its start (config.go, rdsbroker/config.go, catalog.go), and *)
(* every handler looks the plan of its instance up in it again, to find    *)
(* the server where the database and its logins are (broker.go).  The      *)
(* record of an instance keeps only the IDs of service and plan; what      *)
(* these mean is what the deployed catalog says by then.                   *)
(*                                                                         *)
(* Handlers are atomic here: within the life of one broker the catalog     *)
(* does not change, and Binding and Provisioning interleave their steps.   *)
(***************************************************************************)
EXTENDS Integers, Sequences, SequencesExt

CONSTANTS
    Instances,   \* instance IDs
    Catalogs,    \* the catalogs an operator may deploy: sequences of services
    First,       \* the one deployed at first
    Lower,       \* Lower[e]: the engine name e in lower case (strings.ToLower)
    Configured,  \* engines e, in lower case, for which DB_RDS_SECURITY_GROUP_e is set
    Kept,        \* whose plans the operator keeps: "recorded" and "asked" ones
    None

\* A service has an ID, plan_updateable, bindable and plans; a plan has an ID, the
\* engine as it is spelled, shared, and whether it has a db_instance_class.
Offerings(c) == UNION {{c[n].plans[k] : k \in DOMAIN c[n].plans} : n \in DOMAIN c}

ServiceIds == UNION {{c[n].id : n \in DOMAIN c} : c \in Catalogs}
PlanIds == UNION {{o.id : o \in Offerings(c)} : c \in Catalogs}
Rows == [service : ServiceIds, plan : PlanIds]

ASSUME CatalogAssumption ==
    /\ First \in Catalogs
    /\ \A c \in Catalogs :
          /\ DOMAIN c = 1 .. Len(c)
          /\ \A n \in DOMAIN c : DOMAIN c[n].plans = 1 .. Len(c[n].plans)
          /\ \A o \in Offerings(c) : o.engine \in DOMAIN Lower
    /\ Kept \subseteq {"recorded", "asked"}
    /\ None \notin Rows

VARIABLES
    deployed,  \* the catalog deployed last
    up,        \* the broker runs, with that catalog
    row,       \* row[i]: service and plan ID in the DBInstance row, None without one
    asked,     \* asked[i]: the plan ID that Cloud Foundry has for the instance
    made,      \* made[i]: the places where there is a database of instance i
    bound,     \* the instances with a DBUser row for a binding
    logins     \* logins[i]: the places where a user of i can log in

vars == <<deployed, up, row, asked, made, bound, logins>>

Servers == {"postgres", "mysql"}   \* the keys of sharedEngines

\* Places: the database on a shared server, and the instance or cluster on RDS
\* under the identifier of the instance, with the engine it was created with.
Database(server) == [kind |-> "database", engine |-> server]
Dedicated(engine) == [kind |-> "instance", engine |-> engine]
Cluster == [kind |-> "cluster", engine |-> "aurora"]

Places ==
    {Database(s) : s \in Servers} \cup {Cluster} \cup {Dedicated(Lower[e]) : e \in DOMAIN Lower}

TypeOK ==
    /\ deployed \in Catalogs
    /\ up \in BOOLEAN
    /\ made \in [Instances -> SUBSET Places]
    /\ logins \in [Instances -> SUBSET Places]
    /\ bound \subseteq Instances
    /\ row \in [Instances -> Rows \cup {None}]
    /\ asked \in [Instances -> PlanIds \cup {None}]
    /\ \A i \in Instances : IF row[i] = None THEN asked[i] = None /\ i \notin bound
                           ELSE asked[i] \in PlanIds

-----------------------------------------------------------------------------
(* Lookups.                                                                *)

\* The first of seq with the ID: Validate does not ask for unique ones.
FirstWith(seq, id) ==
    LET k == SelectInSeq(seq, LAMBDA x : x.id = id)
    IN  IF k = 0 THEN None ELSE seq[k]

FindService(c, service) == FirstWith(c, service)

FindServicePlan(c, service, plan) ==
    IF FindService(c, service) = None THEN None
    ELSE FirstWith(FindService(c, service).plans, plan)

\* The plan of an instance in catalog c, as findObjects looks it up.
PlanIn(c, i) == FindServicePlan(c, row[i].service, row[i].plan)
PlanOf(i) == PlanIn(deployed, i)

IsAurora(o) == Lower[o.engine] = "aurora"

\* RDSProperties.Validate.
Valid(o) ==
    /\ o.shared \/ o.class
    /\ Lower[o.engine] \in {"aurora", "mariadb", "mysql", "postgres"}
    /\ o.shared => Lower[o.engine] \in Servers

\* LoadConfig asks the environment for a security group per plan, then validates.
Starts(c) == \A o \in Offerings(c) : Lower[o.engine] \in Configured /\ Valid(o)

\* What Provision creates for a plan: CreateDB on a shared server, or a cluster
\* and an instance.
Created(o) ==
    IF o.shared THEN {Database(o.engine)}
    ELSE {Dedicated(Lower[o.engine])} \cup IF IsAurora(o) THEN {Cluster} ELSE {}

\* The protocol that GetSQLEngine takes for an engine.
Protocol(engine) == IF engine = "postgres" THEN engine ELSE "mysql"

\* Where the SQL engine that Bind and Unbind take for a plan is connected: none if
\* sharedEngines has no such key, the cluster or instance is not there, or it
\* speaks another protocol.
Reached(i, o) ==
    IF o.shared THEN {Database(o.engine)} \cap {Database(s) : s \in Servers}
    ELSE IF IsAurora(o) THEN made[i] \cap {Cluster}
    ELSE {x \in made[i] : x.kind = "instance" /\ Protocol(x.engine) = Protocol(Lower[o.engine])}

-----------------------------------------------------------------------------
Init ==
    /\ deployed = First
    /\ up = Starts(First)
    /\ row = [i \in Instances |-> None]
    /\ asked = [i \in Instances |-> None]
    /\ made = [i \in Instances |-> {}]
    /\ bound = {}
    /\ logins = [i \in Instances |-> {}]

\* The operator keeps a plan: its shared, and its engine, to the letter if shared.
SamePlan(o, n) ==
    /\ n # None
    /\ n.shared = o.shared
    /\ IF o.shared THEN n.engine = o.engine ELSE Lower[n.engine] = Lower[o.engine]

\* The operator changes no plan that an instance still has.
MayDeploy(c) ==
    \A i \in Instances : row[i] # None =>
        /\ "recorded" \in Kept => SamePlan(PlanOf(i), PlanIn(c, i))
        /\ "asked" \in Kept =>
              SamePlan(FindServicePlan(deployed, row[i].service, asked[i]),
                       FindServicePlan(c, row[i].service, asked[i]))

\* The broker is stopped, and started with catalog c; it may fail to.
Deploy(c) ==
    /\ MayDeploy(c)
    /\ deployed' = c
    /\ up' \in {FALSE, Starts(c)}
    /\ UNCHANGED <<row, asked, made, bound, logins>>

\* Mutant: an engine that is not in sharedEngines goes unnoticed.
ProvisionUnchecked(i, service, plan) ==
    LET o == FindServicePlan(deployed, service, plan) IN
    /\ up
    /\ row[i] = None
    /\ o # None
    /\ o.shared \/ \A x \in made[i] : x.kind = "database"
    /\ made' = [made EXCEPT ![i] = @ \cup Created(o)]
    /\ row' = [row EXCEPT ![i] = [service |-> service, plan |-> plan]]
    /\ asked' = [asked EXCEPT ![i] = plan]
    /\ UNCHANGED <<deployed, up, bound, logins>>

\* Without an engine in sharedEngines CreateDB panics, before anything is stored.
\* A database that an earlier life of the ID has left is taken over, but RDS
\* refuses an identifier in use.
Provision(i, service, plan) ==
    LET o == FindServicePlan(deployed, service, plan) IN
    /\ up
    /\ row[i] = None
    /\ o # None
    /\ IF o.shared THEN o.engine \in Servers
       ELSE \A x \in made[i] : x.kind = "database"
    /\ made' = [made EXCEPT ![i] = @ \cup Created(o)]
    /\ row' = [row EXCEPT ![i] = [service |-> service, plan |-> plan]]
    /\ asked' = [asked EXCEPT ![i] = plan]
    /\ UNCHANGED <<deployed, up, bound, logins>>

\* findObjects succeeds.
Found(i) == up /\ row[i] # None /\ PlanOf(i) # None

\* Mutant: as CanUpdate, with the engines compared as GetSQLEngine takes them.
CanUpdateProtocol(o, n, service) ==
    /\ service.updateable
    /\ o.id # n.id =>
          /\ o.shared = n.shared
          /\ Protocol(Lower[o.engine]) = Protocol(Lower[n.engine])

CanUpdate(o, n, service) ==
    /\ service.updateable
    /\ o.id # n.id => o.shared = n.shared /\ o.engine = n.engine

\* The plan is changed on RDS, and in the books of Cloud Foundry only.
Update(i, plan) ==
    /\ Found(i)
    /\ LET n == FindServicePlan(deployed, row[i].service, plan) IN
         /\ n # None
         /\ CanUpdate(PlanOf(i), n, FindService(deployed, row[i].service))
         /\ ~n.shared => \E x \in made[i] : x.kind = "instance"
         /\ ~n.shared /\ IsAurora(n) => Cluster \in made[i]
    /\ asked' = [asked EXCEPT ![i] = plan]
    /\ UNCHANGED <<deployed, up, row, made, bound, logins>>

Bind(i) ==
    /\ Found(i)
    /\ i \notin bound
    /\ FindService(deployed, row[i].service).bindable
    /\ Reached(i, PlanOf(i)) # {}
    /\ bound' = bound \cup {i}
    /\ logins' = [logins EXCEPT ![i] = @ \cup Reached(i, PlanOf(i))]
    /\ UNCHANGED <<deployed, up, row, asked, made>>

\* Mutant: the login is left to the deletion of the database.
UnbindRowsOnly(i) ==
    /\ Found(i)
    /\ i \in bound
    /\ bound' = bound \ {i}
    /\ UNCHANGED <<deployed, up, row, asked, made, logins>>

\* The rows are deleted first, whether or not the server is found.
Unbind(i) ==
    /\ Found(i)
    /\ i \in bound
    /\ bound' = bound \ {i}
    /\ logins' = [logins EXCEPT ![i] = @ \ Reached(i, PlanOf(i))]
    /\ UNCHANGED <<deployed, up, row, asked, made>>

\* DROP DATABASE IF EXISTS, DROP USER, and the rows.
DeprovisionShared(i) ==
    /\ Found(i)
    /\ PlanOf(i).shared
    /\ PlanOf(i).engine \in Servers
    /\ made' = [made EXCEPT ![i] = @ \ {Database(PlanOf(i).engine)}]
    /\ logins' = [logins EXCEPT ![i] =
                     IF i \in bound THEN @ \ {Database(PlanOf(i).engine)} ELSE @]
    /\ row' = [row EXCEPT ![i] = None]
    /\ asked' = [asked EXCEPT ![i] = None]
    /\ bound' = bound \ {i}
    /\ UNCHANGED <<deployed, up>>

\* Mutant: the cluster of an Aurora plan is forgotten.
DeprovisionInstanceOnly(i) ==
    LET gone == {x \in made[i] : x.kind = "instance"} IN
    /\ Found(i)
    /\ ~PlanOf(i).shared
    /\ gone # {}
    /\ made' = [made EXCEPT ![i] = @ \ gone]
    /\ logins' = [logins EXCEPT ![i] = @ \ gone]
    /\ UNCHANGED <<deployed, up, row, asked, bound>>

\* RDS deletes what is under the identifier, its users included; the cluster only
\* if the plan is one of Aurora.
DeprovisionDedicated(i) ==
    LET gone == {x \in made[i] : \/ x.kind = "instance"
                                 \/ x.kind = "cluster" /\ IsAurora(PlanOf(i))} IN
    /\ Found(i)
    /\ ~PlanOf(i).shared
    /\ \E x \in made[i] : x.kind = "instance"
    /\ made' = [made EXCEPT ![i] = @ \ gone]
    /\ logins' = [logins EXCEPT ![i] = @ \ gone]
    /\ UNCHANGED <<deployed, up, row, asked, bound>>

\* A poll finds no instance on RDS and deletes the rows.
LastOperation(i) ==
    /\ Found(i)
    /\ ~PlanOf(i).shared
    /\ \A x \in made[i] : x.kind # "instance"
    /\ row' = [row EXCEPT ![i] = None]
    /\ asked' = [asked EXCEPT ![i] = None]
    /\ bound' = bound \ {i}
    /\ UNCHANGED <<deployed, up, made, logins>>

Next ==
    \/ \E c \in Catalogs : Deploy(c)
    \/ \E i \in Instances :
          \/ \E s \in ServiceIds, p \in PlanIds : Provision(i, s, p)
          \/ \E p \in PlanIds : Update(i, p)
          \/ Bind(i) \/ Unbind(i)
          \/ DeprovisionShared(i) \/ DeprovisionDedicated(i) \/ LastOperation(i)

Spec == Init /\ [][Next]_vars

-----------------------------------------------------------------------------
(* Properties, for an operator who keeps the plans that are recorded.      *)

\* Whatever is deployed and however plans are respelled, a broker that runs finds
\* the plan of every record, and looks for the database where it is (broker.go,
\* findObjects and the lookups in sharedEngines).
InstancesAreServed ==
    \A i \in Instances : up /\ row[i] # None =>
        /\ PlanOf(i) # None
        /\ made[i] \subseteq Created(PlanOf(i))
        /\ PlanOf(i).shared => made[i] # {} /\ Reached(i, PlanOf(i)) = made[i]

\* No database and no login is left of an instance without a record
\* (broker.go, Deprovision and LastOperation).
NothingIsLeft ==
    \A i \in Instances : row[i] = None => made[i] = {} /\ logins[i] = {}

\* A login needs a binding, also after redeployments between Bind and Unbind
\* (broker.go, Unbind).
LoginsAreBound ==
    \A i \in Instances : logins[i] # {} => i \in bound

\* The plan that Cloud Foundry has for an instance is one for where the instance
\* is, although the broker goes on with another (broker.go, Update).
AskedPlanFits ==
    \A i \in Instances : up /\ row[i] # None =>
        LET o == FindServicePlan(deployed, row[i].service, asked[i])
        IN  o # None /\ Created(o) = Created(PlanOf(i))
=============================================================================
