# TLA+ models of the RDS broker

The RDS broker gives Cloud Foundry applications databases: as an Amazon RDS instance of
their own (a *dedicated* plan, on Aurora a cluster with one instance in it), or as one
database on a server that is shared (a *shared* plan). This directory holds TLA+ modules
that are translated from its source, TLC runs over small instances of them, and proofs that
TLAPS checks for every value of the constants. Paths in this text are relative to the
repository (`src/` in `PROJECT.json`).

    tlc -config BindMysql.cfg MCBinding     # a run; PROJECT.json lists them all
    tlapm BindingProofs.tla                 # the proofs of a module

## 1. The system

### Components, their state and operations

| Component | Code | State it keeps | Operations that change state |
|---|---|---|---|
| Broker handlers | `rdsbroker/broker.go`, `broker_helpers.go` | none of its own between requests | `Provision`, `Update`, `Deprovision`, `Bind`, `Unbind`, `LastOperation` |
| Internal database | `internaldb/models.go`, `connect.go` | rows `DBInstance`, `DBUser` (username, encrypted password with its IV), `DBBinding` | `Save` and `Delete` of a row and of what hangs off it, each its own transaction |
| RDS client | `awsrds/` | RDS instances and clusters, named after the instance ID | `Create`, `Modify`, `Delete`, `Describe` |
| SQL engines | `sqlengine/` | databases, SQL users, privileges, extensions of a server | `CreateDB`, `DropDB`, `CreateUser`, `DropUser`, `GrantPrivileges`, `RevokePrivileges`, `SetExtensions` |
| Key rotation | `internaldb/manage.go`, `rotate-key/` | the key every `DBUser` password is encrypted with | `RotateKey`, a separate command |
| Catalog | `rdsbroker/catalog.go`, `broker_helpers.go` | services and plans, read once at start | a start with another catalog |
| Configuration, wiring | `config/`, `config.go`, `main.go` | encryption key, shared engines, read once at start | none |

### How they interact

`main.go` hands the broker to `brokerapi`, which serves every HTTP request in a goroutine of
its own. The broker takes no lock and uses no transaction that spans two calls. A handler
loads the `DBInstance` with its users and bindings (`FindInstance`), decides on that copy,
and then makes a handful of calls to three systems (internal database, SQL server, AWS), each
of which takes effect at once and may fail. Nothing is undone on an error, except that a failed
`Provision` deletes the Aurora cluster it created. RDS works asynchronously: `Deprovision`
of a dedicated instance only starts the deletion, and the record goes when a later
`LastOperation` finds the RDS instance gone. `rotate-key` writes the same `DBUser` rows as a
running broker.

### What is hard

* *Concurrency.* Two requests for one instance interleave at every call. `Bind` decides on its
  loaded copy whether a user must be created, `Unbind` whether it removes the last binding.
  gorm saves a loaded object together with everything loaded with it.
* *Shared users.* MySQL gets a random username per binding. PostgreSQL gets one per
  instance, so its bindings share a `DBUser`, a password and a role that is never removed.
* *Failure.* Any call may fail and any handler may die between two calls; the platform retries
  a `Bind` whose answer was lost, with the same ID.
* *Reuse.* An instance ID may be provisioned again after its record is gone, while slow handlers
  still hold the old record.
* *Asynchrony.* A deletion completes only if somebody polls. RDS applies a modification in
  its own time, and the platform may give up waiting and ask for another.
* *Redeployment.* The record of an instance holds the IDs of its service and plan; what they
  mean, and on which server the instance is, every handler takes from the catalog the broker
  was last started with.
* *Removal.* Deprovision of a shared instance drops the database, then SQL users one by one,
  then rows one by one; it may stop between any two and is sent again.
* *Values.* Zero stands for "not given", storage must not shrink, versions are compared as
  strings.

`PROJECT.json` lists the hazards, each at its line with the properties aimed at it; a note says
where a property had to leave a case out because the code does not prevent it.

### What makes each component correct

* Bind/Unbind: credentials that were handed out work until they are released, released ones stop
  working, and every login has a row that a later Deprovision finds. What the platform sees of
  this is the abstract specification `Credentials`.
* Provision/Deprovision: no AWS resource without a record, no record without the right master
  user, the right final snapshot, and an accepted deletion that completes; an ID goes from one
  instance to the next in the order of the abstract specification `Lifecycle`. When the record of a
  shared instance goes, its database and its logins have gone.
* Update: never to another engine or kind of plan; storage never shrinks; when the platform is
  told of success, the plan and the parameters are in force; every request comes to an end;
  extensions are exactly those of the list.
* Catalog: a broker that runs finds every instance it has a record of, where it is, and leaves
  nothing of it behind.
* Key rotation: no password is ever lost; success means that the old key is no longer needed.

## 2. Modules

| Module | Models | Checked by | Proofs in |
|---|---|---|---|
| `Credentials` | abstract: what the platform may expect of credentials | as a property of `Binding` | `BindingProofs` |
| `Binding` | `Bind`, `Unbind`, the rows and SQL users they touch | `MCBinding` | `BindingProofs` |
| `Lifecycle` | abstract: what the platform may expect of the instances of an ID | as a property of `Provisioning` | `ProvisioningProofs` |
| `Teardown` | `Deprovision` of a shared instance, composed with `Binding` | `MCTeardown` | `TeardownProofs` |
| `Provisioning` | `Provision`, `Update`, `Deprovision`, `LastOperation`, AWS | `MCProvisioning` | `ProvisioningProofs` |
| `KeyRotation` | `RotateKey` next to a broker | `MCKeyRotation` | `KeyRotationProofs` |
| `Extensions` | `PostgresEngine.SetExtensions` | `MCExtensions` | `ExtensionsProofs` |
| `Settings` | plan and parameters to RDS settings, and what `LastOperation` says of them | `MCSettings` | `SettingsProofs` |
| `Catalog` | catalogs, their checks and lookups, redeployments | `MCCatalog` | `CatalogProofs` |

`PROJECT.json` maps every definition to the lines it stands for. Definitions under a comment
"Mutant:" belong to no specification: each is a plausible bug, and putting it in the place of
the definition that follows must break a property.

### Binding

One instance whose record exists. An *attempt* is one Bind request and names what it may
create; `view[a]` is the copy `FindInstance` loaded. The handler of `Bind` is the sequence
`BindFind`, `BindSave…` (`DBInstance.Bind`: a new `DBUser` or a binding of a known one),
`BindCheckRole` and `BindAlterRole`/`BindCreateRole` (`CreateUser`), `BindGrant`, `BindReply`;
that of `Unbind` is `UnbindFind`, `UnbindUnlink`, and for the last binding `UnbindRevoke`,
`UnbindDrop`, `UnbindDeleteUser`. `BindFail` and `UnbindFail` stop a handler before any of its
calls, which covers an error of the call and the death of the broker. `UnbindDeleteUserError`
is the one error that the code swallows.

`glide.lock` pins a gorm that is not in the repository. Whether its `Save` of a row that has been
deleted meanwhile inserts it again is the constant `SaveUpserts`; the runs with concurrency
take the inserting kind, which can do more harm, and the theorems hold for both.
Foreign keys are those `connect.go` adds on PostgreSQL; sqlite3, a database for development,
gets none and is not modelled.

### Credentials

The life of what a Bind may hand out: *new*, *works*, *given* to an application, *dead*. Nothing
is given before it works, only what nobody holds stops working, and the dead stay dead. `Binding`
maps its state to this one by `stages`: `Stage(r)` of the password of `DBUser` row `r` is "given"
when a bound application holds it, "works" when the SQL user has the login, that password and the
privileges, "dead" once it is past use. `KeepsPromise` is the specification of `Credentials`
under this mapping: every step of a handler is a step of the credentials or none.

### Teardown

`Serve` has the steps of `Binding`, some of which now fail for want of a database
(`BindGrantRefused`, `UnbindWithoutDatabase`). `DeprovisionFind`, `DropDB`, `DropUser` or
`DropUserError`, `ForgetBinding`, `ForgetUser`, `ForgetInstance` are `Deprovision`;
`DeprovisionStops` is an error or a death at any point, after which the platform may bind,
unbind or deprovision again. `missed` has the logins whose `DropUser` failed, an error that the
code logs before it goes on. The broker does not keep a Bind and a Deprovision of one instance
apart: Cloud Foundry does, as it locks an instance while an operation on it is under way, and the
module assumes that (`Open`, `Quiet`). Deprovisions may overlap each other.

### Provisioning

One instance ID. `record`, `rds`, `cluster` and `database` are what the internal database, AWS
and the shared server have under that ID; `prov`/`order` are Provision requests, `step`/`seen`/
`wanted` the other handlers with the record they loaded. `ProvisionRollback` is the
deferred cluster deletion, `LastOperationForget` the deletion of the record by a poll.
`InstanceReady`, `InstanceGone` and `ClusterGone` are what AWS does later. AWS refuses to create
what exists, to delete twice, to delete a cluster with a member, and to modify an instance
that is not available.

### Lifecycle

The life of the instances that the Provisions of one ID ask for: *new*, *kept*, *leaving* while AWS
removes it, *left* when only its record is there, *gone*. An ID has one owner at a time, the record
goes last, and nothing comes back. A late Deprovision of the instance before may catch a new one
before it is recorded, so a life may also begin as *leaving* or *left*. `Provisioning` maps
its state to this one by `lives`: `Life(p)` goes by the record, and by the RDS instance with the
owner or the database. A cluster may outlive the record and has no part in it.

### KeyRotation

`row[u]` is the stored password of a user and the key it is under. `RotateLoad`,
`RotateOne`, `RotateOneFails`, `RotateEnd` are `RotateKey`; `RotateDie` kills the command.
`BrokerLoad`/`BrokerSave` are the load and save of a `Bind`, which writes back the users it
loaded; `BrokerStart` starts the broker with another key. `Decrypt` with a wrong key is an
error, as GCM authenticates.

### Extensions

`Read` is the query, `Drop` and `Create` the statements, in the order of the code: drops in the
unspecified order of the query, creates in the order of the list. `broken` has the Updates
whose query broke off, which the code takes for complete because nobody asks `rows.Err`.
PostgreSQL refuses to drop an extension that another requires and to create one that exists
or lacks what it requires.

### Settings

Storage, backup retention and engine version go through `FromPlan` (`dbInstanceFromPlan`,
`dbClusterFromPlan`), `WithParameters` (`create…`/`modify…`) and `Modified` (`build…Input`); the
other settings follow the same "unless zero or empty" rule. A version is a sequence of
numbers, and `After` is Go's comparison of the texts made of them. `UpdateRefused` keeps what an
Aurora cluster was already given.

`settings` are in force and `target` is what they will be: RDS starts on a modification when it
likes (`RdsStarts`; `ApplyImmediately` and the maintenance window only delay it), applies it and is
done. Meanwhile its status is any of `Shown`. `Poll` is `LastOperation`: `State` is the table of
statuses, and `Report` holds "succeeded" back while modifications are pending. A status that the
table does not list, such as `storage-optimization`, is reported as a failure, and `GiveUp` is the
platform's own end of waiting: after both the next Update may meet a modification that is
still pending. A cluster's own modifications are taken to be in force at once.

### Catalog

`Deploy` stops the broker and starts it with another catalog, after `Starts` (`LoadConfig` and
`Validate`). `PlanOf` is the lookup of `findObjects`, `Reached` the server that the
SQL engine of Bind and Unbind is connected to, by the spelling of the engine in `sharedEngines` or
by the protocol of `GetSQLEngine`; `made` and `logins` say where the database and its logins
really are. The handlers are atomic here, since the catalog does not change while a broker runs.
`Kept` says which plans the operator leaves as they are: the ones that rows record (those of
the Provision) and the ones Cloud Foundry has for its instances (those of the last Update).

## 3. Runs

| Run | Asks | Instance |
|---|---|---|
| `bind_mysql` | Do held credentials work, released ones die, and is every login recorded, under any interleaving and failure? | 3 Binds, of which one is a retry, 2 concurrent Unbinds, every step may fail |
| `bind_pg_serial` | Do the promises of the README hold on PostgreSQL one request at a time, does release complete, and do the handlers implement `Credentials`? | 3 Binds, 1 Unbind at a time, the Save of the rows may fail, fairness |
| `teardown_pg` | Is every PostgreSQL login found by Deprovision, and is nothing left after it, with concurrency, failures and repetition? | 3 Binds, of which one is a retry, 2 Unbinds, 2 Deprovisions, every step may fail, no Unbind overlapping its own Bind |
| `bind_pg_held` | *Violated:* held credentials work with concurrent requests | 3 Binds, 1 Unbind at a time, no failures |
| `prov_faults` | Right master user and kind of plan, and do the handlers implement `Lifecycle`, under any failure or crash? | 2 Provisions, 2 Deprovisions, 1 poll, 1 Update, 6 plans |
| `prov_reuse` | Nothing left behind, snapshots, reuse of an ID, completion of a deletion | the same requests, failures that are reported, fairness |
| `rotate` | Is a password ever lost; does success retire the old key; does a rerun finish? | 3 runs (interruptible, rerun, `-fast`), 3 users, 3 keys, broker present or not |
| `rotate_stale` | *Violated:* success retires the old key although a broker runs | 1 run, broker with the new key |
| `ext_updates` | Exact on success, ordered on failure, nothing lost that all want | 2 Updates, 4 extensions with a dependency, 8 lists |
| `set_plan` | Is a reported success in force, does storage never shrink, do upgrades go through, does every request end? | 36 plans with and without Aurora, parameters for 0 and 3 days or none, RDS in its own time, 3 statuses while it works, fairness |
| `set_major` | *Violated:* upgrades go through | plans of versions 9.6 and 10.1 |
| `catalog` | Does a broker find its instances through redeployments, and leave nothing behind? | 2 instances, 6 catalogs after `config-govau.yml` and `config-sample.yml`, in any order |

**Bounds.** The only unbounded thing in the code is the number of requests. Three Binds are
the least with which two applications share a user while a third comes or is a retry;
two Unbinds are the least that race for the last binding. Two Provisions give an ID two
lives, two Deprovisions a late one that meets the second life. The six plans have both values of
everything the handlers branch on. Three runs of `rotate-key` are an interrupted one, its
rerun and one that goes on from there. Two Updates begin from any set of extensions, so that the
first stands for an Update after any history. The plans of `set_plan` have no, a small and a large
storage, no retention and one of their own, no version, an older and a newer one; its two
parameters are 0, which is lost, and a value. The six catalogs are the deployed one, one with a plan
withdrawn, one spelled another way, one that makes plans into others, one with a service ID
twice, and one that is refused. Handlers that have returned can be used again in
all modules except for Binds, Provisions, rotations and Updates of extensions, each of which is
an identity. Symmetry is used
for the Unbinders and the Deprovisions of `teardown_pg` and, where they carry the same ID, for a
Bind and its retry, in runs without liveness.

**Failures.** `Faults`, `Failing`, `Breaks`, `Interruptible` say which calls may fail in a run.
`bind_pg_serial` lets only the `Save` of the rows fail, the one failure that every promise it checks
survives; its theorems say of each promise which failures it survives. `prov_reuse` leaves out the four whose errors the code drops or cannot repair: `Save` of a new
record ("TODO rollback"), the deletions of a cluster and a record in Deprovision, and
`Describe`, which may fail for ever. With the first three, resources do stay behind.

**Deadlock** is not checked where the finite requests of a run may all have ended; in `Settings`
an Update is always possible and it is checked.

**Fairness.** Only steps the code takes by itself are fair: the next step of a handler that has
started (its goroutine is scheduled; `WF` of `BindStep`, `UnbindStep`, `ProvisionStep`,
`HandlerStep`), what AWS was asked for, and the platform's polling of `LastOperation` for as
long as the record exists, which Cloud Foundry does after an asynchronous answer; in `Settings` the same
polling of an operation that is in progress, and that RDS does in the end what it was asked for.
No request is ever assumed to arrive otherwise. `RerunFinishes` and the other properties of
`KeyRotation` are safety.

## 4. What the violated runs show

1. `bind_pg_held`. Two first Binds on PostgreSQL load the instance before either has saved, each
   inserts a `DBUser`, and the later `ALTER ROLE` replaces the password of the other.
2. `rotate_stale`. A `Bind` that loaded rows before a rotation saves them back after it; rows are
   under the old key again after the command has reported success.
3. `set_major`. `"10:1" > "9:6"` is false for strings, so the upgrade is sent without
   `AllowMajorVersionUpgrade`.

The models show more of the kind that no run is spent on: two Unbinds that each see the other's
binding leave the login in place; an ignored error of `user.Delete` makes a rebind return the old
password; a retention of 0 days is ignored; a required extension may be dropped first and
fails. `Update` never writes the new plan into the record, so `Deprovision` goes by the
`skip_final_snapshot` of the plan of the Provision (CONFIGURATION.md:97 speaks of the plan). A
version is compared with the one in force: going back to the old plan does not take back
an upgrade that is still pending. And if `Kept` has only the plans that Cloud Foundry knows of,
`InstancesAreServed` does not hold: an instance provisioned from one plan and updated to another is
out of reach once the first is withdrawn. The hazards in `PROJECT.json` name them.

## 5. Proofs

All theorems hold for every value of the constants that satisfies the named assumptions of
the module: disjointness of the kinds of request, `None` being none of them, types.

| Theorem | Statement | Argument |
|---|---|---|
| `BindingProofs!TypeCorrect` | `[]TypeOK` | inductive with `UnbindInv`: a running Unbind has a binding to remove and, later, a user to drop |
| `MysqlHeldCredentialsWork` | `[]HeldCredentialsWork` on MySQL | `OwnRows` (a binding hangs off the user of its own Bind), `Fresh` (a Bind that has not saved has left nothing), `OwnUser`, `DropsPast` (users are dropped only after their Bind is over) and `Held` |
| `MysqlReleasedCredentialsDie` | `[]ReleasedCredentialsDie` on MySQL | the same invariant with `Dead`: nothing brings a dropped user back |
| `MysqlEveryLoginIsRecorded`, `PostgresEveryLoginIsRecorded` | `[]EveryLoginIsRecorded`, on PostgreSQL if requests are orderly | the row precedes the role and the login ends before the row goes |
| `MysqlKeepsPromise` | `KeepsPromise` on MySQL | each step moves the stage of a row's credentials by one arrow or not at all, given the invariants above |
| `SerialHeldCredentialsWork`, `SerialKeepsPromise` | `[]HeldCredentialsWork`, `KeepsPromise` on PostgreSQL, one request at a time, if nothing fails between `Save` and the privileges, nor between `REVOKE` and the deletion of the row (`HarmlessFaults`) | `SerialInv`: at most one `DBUser`, and each handler's place between it and the role; `RoleMatches`: the two agree whenever no handler is in between |
| `SerialLoginNeedsBinding` | `[]LoginNeedsBinding`, one request at a time, if `REVOKE` and `DROP USER` do not fail | `LoginBound`: a role that can log in has a binding or an Unbind at work |
| `SerialRebindGetsNewPassword` | `RebindGetsNewPassword`, one request at a time, each Bind with its own ID and answered once it has saved; Unbinds may fail anywhere, unless the error is swallowed | `Unlinked`: a row without a binding is left only where some Bind is not yet unbound |
| `TeardownLoginsAreFound`, `TeardownEndsLogins` | `[]LoginsAreFound`, `[]TeardownIsComplete` on both engines, any failure and overlap, `DROP USER` failing included; on PostgreSQL for orderly requests | `Exclusive`: a running Deprovision has loaded every row there is, and what it has yet to drop leads to all that can still log in and is not `missed`; `PostgresInv(missed)`, `MysqlRows(missed)`: what `Binding` keeps of all other logins |
| `ProvisioningProofs!TypeCorrect` | `[]TypeOK` | inductive with `Asked`: a running request has a plan and a record |
| `MasterCredentials` | `[]MasterCredentialsMatch` if Provisions come one at a time | the owner of what exists is the Provision that runs or the one that is recorded |
| `InstanceRecorded` | `[]InstanceIsRecorded` if also `Save` does not fail and handlers do not die | a record is deleted only by a handler that saw the instance gone, and by its primary key |
| `ClusterRecorded` | `[]ClusterIsRecorded` if moreover clusters can be deleted | in one life of the ID a cluster belongs to the running Provision, which deletes it when it fails, or to the record |
| `DatabaseOfRecordExists` | `[]RecordedDatabaseExists` if rows can be deleted and handlers do not die | the database goes only by a Deprovision that goes on to delete the row |
| `SnapshotsFollowProvision` | `[]SnapshotAsProvisioned`, whatever overlaps, fails or dies | every loaded copy in one life of the ID has the plan of its Provision |
| `ProvisioningKeepsLifecycle` | `KeepsLifecycle`, whatever overlaps, fails or dies; where plans are shared, if Provisions come one at a time | `GoneInv`: a handler about to delete a record has seen its instance gone, which cannot come back, or has dropped its database; so each step moves the life of at most one instance by one arrow |
| `KindsAreKept` | `[]UpdatesKeepKind` | rows and loaded copies have the plan of a Provision, and `CanUpdate` compares with that |
| `KeyRotationProofs!TypeCorrect` | `[]TypeOK` | inductive with what a running rotation or Bind has loaded |
| `PasswordsAreNeverLost` | `[]PasswordsSurvive`, for overlapping rotations too | every loaded copy, in a rotation or in a Bind, holds each user's own password |
| `RerunsFinish` | `[]RerunFinishes` for one rotation at a time, none back to a key that another is to retire | a row that a rerun has dealt with is under a new key, also where it could not be decrypted |
| `SuccessRetiresOldKey` | `[]OldKeyRetiredOffline` for one rotation at a time and keys that only get newer | no row goes back to an older key while there is no broker |
| `ExtensionsProofs!TypeCorrect` | `[]TypeOK` | inductive with the loops' places |
| `WantedExtensionsStay` | `WantedByAllStays` | no Update has an extension of its own list left to drop |
| `SuccessfulUpdateIsExact`, `UpdatesDropFirst` | `[]SuccessIsExact`, `[]PartialUpdateIsOrdered` | what an Update that is alone has installed and has yet to do add up to its list at every step |
| `StorageGrows` | `StorageNeverShrinks` for any plans | settings and target stay complete, and the target has at least the storage in force |
| `SuccessIsInForce` | `[]SuccessAppliesPlan` for any plans | while a request is in progress the target is what it asked for, and success is reported only when the target is in force |
| `EvenUpgradesGoThrough` | `[]UpgradesGoThrough` if the first numbers of all versions have as many digits (one or two), and so have the second (`EqualWidths`) | then texts are ordered as the numbers are (`NewerIsAllowed`), and what is pending is a version RDS has accepted |
| `TeardownProofs!TeardownTypeCorrect` | `[]TeardownTypeOK` for both engines, any overlap and failure | the types of `Binding`, and a Deprovision that runs has loaded rows |
| `CatalogProofs!TypeCorrect` | `[]TypeOK` for any catalogs | a lookup that finds something finds a plan of the catalog |
| `KeptInstancesAreServed`, `KeptPlansLeaveNothing`, `KeptPlansBindLogins` | `[]InstancesAreServed`, `[]NothingIsLeft`, `[]LoginsAreBound` for any catalogs, if the operator keeps the plans that are recorded | the recorded plan still says where the instance is, which a `Deploy` keeps and every handler uses |
| `KeptPlansFit` | `[]AskedPlanFits` if the operator also keeps the plans that Cloud Foundry has | a lookup finds a plan by its ID, and an Update that `CanUpdate` admits keeps what the recorded plan has created |

The invariants a run checks are not inductive: `HeldCredentialsWork`, for instance, says nothing
of a Bind about to grant, or of an Unbind about to drop. Each proof has its strengthening, with
initiation, one step per action, and the implication. `PROJECT.json` names the property of
each theorem.

**Hypotheses.** Those of the theorems on one request at a time, on Provisioning and on upgrades are
needed: dropping any of them, or allowing one more failure, gives TLC a counterexample on the
instances of the runs. They say where the code is fragile. On PostgreSQL a Bind that fails
in `CreateUser` or `GrantPrivileges` leaves a row whose password its role does not have, and an
Unbind that fails in its last two calls a row whose role cannot log in; a failed `REVOKE` or `DROP
USER` leaves a login without a binding; a lost answer, a repeated ID or the swallowed error of
`user.Delete` lets a rebind find the old password. A record is lost with its instance by two overlapping Provisions or a failed `Save`, a
cluster also by the death of a handler or a deletion that fails; a database goes without its record
when a Deprovision dies or cannot delete the row; and a Provision that overlaps another may make
a shared database again that a Deprovision has just dropped, which then outlives the record.

**Only model-checked**: liveness (`ReleaseCompletes`, `DeprovisionCompletes`, `RequestsEnd`), which
is out of the prover's reach, as is what rests on `ENABLED`.

## 6. Not modelled

* *Decoding and refusal of requests*: JSON, `asyncAllowed`, unknown services and plans end a
  handler before it changes anything. `BindParameters.Username` is not used by the code.
* *`FindInstance` errors*: the code takes any of them for "no such instance".
* *Parallel composition of Binding and Provisioning*: `Teardown` composes Binding with the end of
  a shared instance. A dedicated one takes its SQL users along, so nothing is dropped there.
* *A Bind or Unbind that overlaps a Deprovision*: the platform does not send it.
* *Which texts and names a catalog must have*: only the checks that a handler relies on.
* *The other settings* (windows, classes, groups, parameter groups, tags): the rule of those that
  are modelled.
* *Text*: URIs, quoting, random strings (taken to be distinct), tags, logging.
* *`decrypt-password`, fakes, the HTTP server*: they change no state of the broker.

## 7. Plan

Written, in this order: `Binding`, `Provisioning`, `KeyRotation`, `Extensions`, `Settings`,
`Credentials`, `Catalog`, `Teardown`, `Lifecycle`. What could follow:

1. The restart of a broker with another catalog in the middle of a Deprovision, which joins `Catalog`
   and `Teardown`.
2. A cluster of Aurora whose own modifications are pending.
3. A run of `Teardown` on MySQL, which so far only the theorems cover.
