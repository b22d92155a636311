-------------------------------- MODULE Settings --------------------------------
(***************************************************************************)
(* How the settings of a dedicated database follow its plan and the user's *)
(* parameters: the details that rdsbroker/broker.go makes of a plan, the   *)
(* requests that awsrds/ makes of the details, what RDS does with them in  *)
(* its own time, and what LastOperation tells the platform of it.          *)
(*                                                                         *)
(* Storage, backup retention and engine version stand for the other        *)
(* settings, which go the same way: by value unless they are zero or       *)
(* empty.  On Aurora the retention belongs to the cluster, the rest to the *)
(* instance; cluster and instance are modified by two calls.               *)
(***************************************************************************)
EXTENDS Naturals, Sequences

CONSTANTS
    Plans,      \* dedicated plans
    Retentions, \* backup_retention_period parameters that users give
    Default,    \* the settings RDS chooses for what it is not told
    Shown,      \* what RDS may give as the status of an instance it works on
    None

Unset == 0       \* a number that is not configured
NoVersion == <<>>
Settings == [storage : Nat, retention : Nat, version : Seq(Nat)]
Plan == [aurora : BOOLEAN, storage : Nat, retention : Nat, version : Seq(Nat)]

ASSUME SettingsAssumption ==
    /\ Plans \subseteq Plan
    /\ \A p \in Plans : p.version = NoVersion \/ Len(p.version) >= 2
    /\ Retentions \subseteq 0 .. 35
    /\ Default \in Settings /\ Len(Default.version) >= 2
    /\ Shown \subseteq STRING \ {"available"}
    /\ None \notin Retentions \cup Settings \cup Plans

VARIABLES
    settings,  \* the settings in force, None before Provision
    target,    \* those it will have when RDS has done all it was asked for
    status,    \* the status of the instance
    plan,      \* the plan of the last request
    asked,     \* the retention its parameters gave, None without one
    before,    \* the settings it found in force
    due,       \* the target it found
    outcome    \* what the platform knows of it

vars == <<settings, target, status, plan, asked, before, due, outcome>>
request == <<plan, asked, before, due>>

Init ==
    /\ settings = None /\ target = None
    /\ status = "none"
    /\ plan = None /\ asked = None /\ before = None /\ due = None
    /\ outcome = "none"

-----------------------------------------------------------------------------
(* The details.                                                            *)

\* dbInstanceFromPlan and dbClusterFromPlan.
FromPlan(p) ==
    [storage |-> IF p.aurora THEN Unset ELSE p.storage,
     retention |-> p.retention,
     version |-> p.version]

\* A parameter that is not given is decoded as zero.
Decoded(r) == IF r = None THEN Unset ELSE r

\* createDBInstance, modifyDBInstance and their likes for clusters.
WithParameters(details, r) ==
    [details EXCEPT !.retention = IF Decoded(r) > 0 THEN Decoded(r) ELSE @]

-----------------------------------------------------------------------------
(* The requests.                                                           *)

\* Mutant: a smaller storage is asked for as well.
StorageAsked(new, old) == new

\* Never less than there is.
Storage(new, old) == IF new < old THEN old ELSE new

\* Zero and the empty string are left out of a request.
Given(new, unset, old) == IF new = unset THEN old ELSE new

\* The text "major:minor" of a version, a number for each character; ":" comes
\* after the digits.  Numbers below 100.
Digits(n) == IF n < 10 THEN <<n>> ELSE <<n \div 10, n % 10>>
Text(version) == Digits(version[1]) \o <<10>> \o Digits(version[2])

\* Go's > on strings.
After(s, t) ==
    \E i \in 1 .. Len(s) :
        /\ \A j \in 1 .. i - 1 : j <= Len(t) /\ s[j] = t[j]
        /\ i > Len(t) \/ s[i] > t[i]

\* Mutant: the versions are compared the other way round.
AllowOlder(new, old) == After(Text(old), Text(new))

AllowMajorVersionUpgrade(new, old) == After(Text(new), Text(old))

\* The target after a modification, of which RDS takes what the request gives:
\* buildModifyDBInstanceInput, and buildModifyDBClusterInput for the retention.
\* Storage and version are compared with what is in force, not with what is due.
Modified(details, old, coming) ==
    [storage |-> IF details.storage = Unset THEN coming.storage
                 ELSE Storage(details.storage, old.storage),
     retention |-> Given(details.retention, Unset, coming.retention),
     version |-> IF details.version = old.version THEN coming.version
                 ELSE Given(details.version, NoVersion, coming.version)]

\* What RDS is asked for under plan p with the retention r.
Requested(p, r, old, coming) == Modified(WithParameters(FromPlan(p), r), old, coming)

-----------------------------------------------------------------------------
(* RDS.                                                                    *)

Major(version) == <<version[1], version[2]>>

\* The numeric order of major versions.
Newer(v, w) == v[1] > w[1] \/ (v[1] = w[1] /\ v[2] > w[2])

\* RDS upgrades, and to another major version only when that is allowed.
Accepts(new, old) ==
    \/ new.version = old.version
    \/ Major(new.version) = Major(old.version) /\ new.version[3] > old.version[3]
    \/ /\ Newer(new.version, old.version)
       /\ AllowMajorVersionUpgrade(new.version, old.version)

Asked(p, r, result) ==
    /\ plan' = p
    /\ asked' = r
    /\ before' = settings
    /\ due' = target
    /\ outcome' = result

\* The platform sends a request when it takes the one before to be over.
MaySend == settings # None /\ outcome # "in progress"

\* RDS creates no instance without a storage but on Aurora.
Provision(p, r) ==
    /\ settings = None
    /\ p.aurora \/ p.storage > 0
    /\ LET start == [Default EXCEPT !.storage = Unset]
       IN  settings' = Requested(p, r, start, start)
    /\ target' = settings'
    /\ status' = "creating"
    /\ Asked(p, r, "in progress")

\* CanUpdate: the engine stays.
CanUpdate(old, new) == old.aurora = new.aurora

\* A cluster takes its retention at once.
ClusterModified(s, p, new) ==
    IF p.aurora THEN [s EXCEPT !.retention = new.retention] ELSE s

Update(p, r) ==
    /\ MaySend
    /\ CanUpdate(plan, p)
    /\ status = "available"
    /\ LET new == Requested(p, r, settings, target)
       IN  /\ Accepts(new, settings)
           /\ target' = new
           /\ settings' = ClusterModified(settings, p, new)
    /\ Asked(p, r, "in progress")
    /\ UNCHANGED status

\* The instance is refused, for its version or because it is not available; an
\* Aurora cluster has been modified by then.
UpdateRefused(p, r) ==
    /\ MaySend
    /\ CanUpdate(plan, p)
    /\ LET new == Requested(p, r, settings, target)
       IN  /\ status = "available" => ~Accepts(new, settings)
           /\ settings' = ClusterModified(settings, p, new)
           /\ target' = ClusterModified(target, p, new)
    /\ Asked(p, r, IF status = "available" THEN "refused" ELSE "failed")
    /\ UNCHANGED status

\* RDS sets to work on an instance, at once or in its maintenance window.
RdsStarts ==
    /\ settings # target
    /\ status = "available"
    /\ status' \in Shown
    /\ UNCHANGED <<settings, target, request, outcome>>

RdsApplies ==
    /\ settings # target
    /\ status # "available"
    /\ settings' = target
    /\ status' \in Shown
    /\ UNCHANGED <<target, request, outcome>>

RdsIsDone ==
    /\ settings # None /\ settings = target
    /\ status' = "available"
    /\ UNCHANGED <<settings, target, request, outcome>>

Rds == RdsStarts \/ RdsApplies \/ RdsIsDone

-----------------------------------------------------------------------------
(* LastOperation.                                                          *)

Working == {"backing-up", "creating", "deleting", "maintenance", "modifying", "rebooting",
            "renaming", "resetting-master-credentials", "upgrading"}

\* rdsStatus2State; what it does not list is reported as failed.
State(s) ==
    IF s = "available" THEN "succeeded" ELSE IF s \in Working THEN "in progress" ELSE "failed"

\* Mutant: the values that are pending may be there and empty.
PendingModificationsThere == TRUE

\* buildDBInstance.
PendingModifications == settings # target

\* Mutant: an available instance is taken to be what was asked for.
ReportStatus == State(status)

Report ==
    IF State(status) = "succeeded" /\ PendingModifications THEN "in progress" ELSE State(status)

Poll ==
    /\ outcome = "in progress"
    /\ outcome' = Report
    /\ UNCHANGED <<settings, target, status, request>>

\* The platform gives up waiting.
GiveUp ==
    /\ outcome = "in progress"
    /\ outcome' = "failed"
    /\ UNCHANGED <<settings, target, status, request>>

Next ==
    \/ \E p \in Plans, r \in Retentions \cup {None} :
          Provision(p, r) \/ Update(p, r) \/ UpdateRefused(p, r)
    \/ Rds \/ Poll \/ GiveUp

Spec == Init /\ [][Next]_vars

\* The platform polls an operation, and RDS does in the end what it was asked for.
FairSpec ==
    /\ Spec
    /\ WF_vars(Poll)
    /\ WF_vars(RdsStarts) /\ WF_vars(RdsApplies) /\ WF_vars(RdsIsDone)

-----------------------------------------------------------------------------
(* Properties.                                                             *)

\* Through any sequence of plan changes the storage never shrinks, which RDS does
\* not support (rds_db_instance.go, buildModifyDBInstanceInput).
StorageNeverShrinks ==
    [][settings # None => settings'.storage >= settings.storage]_vars

\* Settings s are what the plan and the parameters of the last request say, and
\* where they say nothing, what was due before.  A version that was in force is not
\* asked for again: it does not take back an upgrade that was due.
Applied(s) ==
    /\ ~plan.aurora => s.storage >= plan.storage
    /\ before # None /\ (plan.aurora \/ plan.storage = 0) => s.storage = due.storage
    /\ plan.version # NoVersion /\ (before # None => plan.version # before.version) =>
          s.version = plan.version
    /\ before # None /\ plan.version \in {NoVersion, before.version} =>
          s.version = due.version
    /\ asked # None /\ asked > 0 => s.retention = asked
    /\ asked = None /\ plan.retention > 0 => s.retention = plan.retention
    /\ asked = None /\ plan.retention = 0 /\ before # None => s.retention = due.retention

\* When the platform is told that a request has succeeded, it is in force, also if
\* RDS works in its own time, and if the platform gave up on the one before
\* (broker.go, LastOperation and Update; rds_db_instance.go, Modify).
SuccessAppliesPlan == outcome = "succeeded" => Applied(settings)

\* RDS refuses an Update only when its plan has an older version than the one in
\* force: upgrades, of the major version too, go through (rds_db_instance.go,
\* allowMajorVersionUpgrade, and its test "and is a major version upgrade").
UpgradesGoThrough ==
    outcome = "refused" =>
        \/ Newer(before.version, plan.version)
        \/ Major(plan.version) = Major(before.version)

\* The platform is told of the end of every request, however long RDS takes and
\* whatever it shows meanwhile (broker.go, LastOperation).
RequestsEnd == (outcome = "in progress") ~> (outcome # "in progress")
=============================================================================
