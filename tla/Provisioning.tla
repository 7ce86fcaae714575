----------------------------- MODULE Provisioning -----------------------------
(***************************************************************************)
(* One workspace from its first mention to its suspension: the catalog row *)
(* and its licence, the tenant database and the apps migrated into it, the *)
(* owner, and every job that writes them.                                  *)
(*                                                                         *)
(*   phonix-db/src/tenancy/catalog.rs      insert, mark_active, set_status  *)
(*   phonix-db/src/tenancy/provision.rs    provision, repair, the boot sweep *)
(*   phonix-db/src/tenancy/licence.rs      issue_if_absent, set             *)
(*   phonix-services/src/workspace/onboarding.rs   self-service signup      *)
(*   phonix-services/src/desk/workspace.rs         what an operator may do  *)
(*                                                                         *)
(* A step is one statement: the catalog, the maintenance connection and    *)
(* the tenant database are three connections, and a job may die, or a      *)
(* statement fail, between any two.  Catalog times are days: a licence     *)
(* ends on a day.  No job here waits for one, so the days pass in          *)
(* TenantRegistry, where requests meet a licence that has ended.           *)
(***************************************************************************)
EXTENDS Naturals, Sequences, SequencesExt, FiniteSets

CONSTANTS
    Requests,    \* the requests that may provision or operate at the same time
    Migrator,    \* the migration pass: of a server that starts, or asked for in Desk
    Acts,        \* bound: the kinds of job that are started
    Apps,        \* APPS: the apps of a tenant database, in install order
    MaxBuild,    \* bound: how many builds are deployed after one another
    Horizon,     \* bound: the day the model ends on; a later date is no end
    MaxFaults    \* bound: how many jobs die or have a statement fail

Creations == {"signup", "create", "auto"}
Operations == {"retry", "migrate", "suspend", "resume", "grant", "withdraw"}
Kinds == Creations \cup Operations

ASSUME ProvisioningAssumption ==
    /\ Migrator \notin Requests
    /\ Acts \subseteq Kinds
    /\ Apps \in Seq(STRING) /\ Len(Apps) > 0 /\ IsInjective(Apps)
    /\ MaxBuild \in Nat \ {0}
    /\ Horizon \in Nat /\ MaxFaults \in Nat

VARIABLES
    tenant,     \* the catalog row: status, schema_version, onboarded_at
    licence,    \* the row of tenant_licences: its state and the day it ends
    database,   \* whether the tenant database exists
    schema,     \* the build each app's migrations have been run up to
    installed,  \* the version core.installed_apps records for each app
    owner,      \* the account with is_owner, and whether it has a password
    policy,     \* the workspace's security settings: none, seeded or its own
    job,        \* what every request, and the sweep, is doing
    build,      \* the build that is deployed
    today,      \* the day
    faults      \* history: how many faults there have been

catalog == <<tenant, licence>>
inside == <<database, schema, installed, owner, policy>>
world == <<build, today, faults>>
provisioning == <<catalog, inside, job, world>>

Statuses == {"absent", "provisioning", "active", "suspended"}
AppIds == ToSet(Apps)

\* A licence in force ends on a day; Horizon + 1 stands for no end date.
Licences == [state : {"missing", "issued", "revoked"}, until : 0..Horizon + 1]
Missing == [state |-> "missing", until |-> 0]
Revoked == [state |-> "revoked", until |-> 0]
Until(day) == [state |-> "issued", until |-> day]

Unregistered == [status |-> "absent", version |-> 0, onboarded |-> FALSE]

\* standing_of: revoked or missing never authorizes, a date only until it comes.
authorizes(l) == l.state = "issued" /\ today < l.until
serves_traffic(t, l) == t.status = "active" /\ authorizes(l)

-----------------------------------------------------------------------------
(* Jobs                                                                    *)

Places == {"idle", "insert", "probe", "create", "run", "record", "licence", "activate",
           "found", "seed", "owner", "onboarded", "migrated", "write"}

Idle == [kind |-> "migrate", at |-> "idle", app |-> 1]

Init ==
    /\ tenant = Unregistered /\ licence = Missing
    /\ database = FALSE
    /\ schema = [a \in AppIds |-> 0] /\ installed = [a \in AppIds |-> 0]
    /\ owner = "none" /\ policy = "none"
    /\ job = [j \in Requests \cup {Migrator} |-> Idle]
    /\ build = 1 /\ today = 0 /\ faults = 0

At(j, place) == job[j].at = place
Begin(j, kind, place) ==
    /\ At(j, "idle") /\ kind \in Acts
    /\ job' = [job EXCEPT ![j] = [kind |-> kind, at |-> place, app |-> 1]]
Goto(j, place) == job' = [job EXCEPT ![j].at = place]
End(j) == job' = [job EXCEPT ![j] = Idle]

-----------------------------------------------------------------------------
(* How a job starts: the reads that decide whether it goes on              *)

\* onboard_workspace, workspace::create: slug_is_available, then a hash.  An
\* auto-provisioned workspace is one the registry did not find.
StartCreation(j, kind) ==
    /\ tenant.status = "absent"
    /\ Begin(j, kind, "insert")
    /\ UNCHANGED <<catalog, inside, world>>

\* retry_provisioning refuses a workspace that is not stuck.
StartRetry(j) ==
    /\ tenant.status = "provisioning"
    /\ Begin(j, "retry", "probe")
    /\ UNCHANGED <<catalog, inside, world>>

\* migrate_one: an operator asks for one workspace, whatever its version says.
StartMigration ==
    /\ tenant.status # "absent"
    /\ Begin(Migrator, "migrate", "run")
    /\ UNCHANGED <<catalog, inside, world>>

\* set_status reads the row, refuses a status it has already and a resume of a
\* workspace still in provisioning, and writes whatever the row says by then.
StartSuspend(j) ==
    /\ tenant.status \notin {"absent", "suspended"}
    /\ Begin(j, "suspend", "write")
    /\ UNCHANGED <<catalog, inside, world>>

StartResume(j) ==
    /\ tenant.status = "suspended"
    /\ Begin(j, "resume", "write")
    /\ UNCHANGED <<catalog, inside, world>>

StartLicence(j, kind) ==
    /\ kind \in {"grant", "withdraw"}
    /\ tenant.status # "absent"
    /\ Begin(j, kind, "write")
    /\ UNCHANGED <<catalog, inside, world>>

\* migrate_outdated_tenants lists the catalog once; status is not asked about.
\* Mutant: only the workspaces that are served are brought forward.
StartSweepServed ==
    /\ serves_traffic(tenant, licence) /\ tenant.version # build
    /\ Begin(Migrator, "migrate", "run")
    /\ UNCHANGED <<catalog, inside, world>>

StartSweep ==
    /\ tenant.status # "absent" /\ tenant.version # build
    /\ Begin(Migrator, "migrate", "run")
    /\ UNCHANGED <<catalog, inside, world>>

-----------------------------------------------------------------------------
(* provision_tenant, repair_tenant, migrate_tenant                         *)

\* The unique index on slug serialises: a job that loses takes the row there is.
insert(j) ==
    /\ At(j, "insert")
    /\ tenant' = IF tenant.status = "absent"
                 THEN [tenant EXCEPT !.status = "provisioning"] ELSE tenant
    /\ Goto(j, "probe")
    /\ UNCHANGED <<licence, inside, world>>

\* SELECT 1 FROM pg_database
ProbeDatabase(j) ==
    /\ At(j, "probe")
    /\ Goto(j, IF database THEN "run" ELSE "create")
    /\ UNCHANGED <<catalog, inside, world>>

\* CREATE DATABASE fails when another job has created it in the meantime.
CreateDatabase(j) ==
    /\ At(j, "create")
    /\ IF database THEN End(j) ELSE Goto(j, "run")
    /\ database' = TRUE
    /\ UNCHANGED <<catalog, schema, installed, owner, policy, world>>

\* The app's schema, its bookkeeping and its stream.  There is no stream to run
\* in a database that is not there: the migration fails and the pass is over.
RunMigrations(j) ==
    /\ At(j, "run")
    /\ IF database
       THEN schema' = [schema EXCEPT ![Apps[job[j].app]] = build] /\ Goto(j, "record")
       ELSE End(j) /\ UNCHANGED schema
    /\ UNCHANGED <<catalog, database, installed, owner, policy, world>>

AfterMigrations(j) ==
    CASE job[j].kind \in Creations -> "licence"
      [] job[j].kind = "retry"     -> "activate"
      [] OTHER                     -> "migrated"

\* install_number_sequences, sync_permission_tree and record_installed, then the
\* next app of the list.
\* Mutant: what is recorded is not waited for (the next step comes one app early).
record_installedEarly(j) ==
    /\ At(j, "record")
    /\ installed' = [installed EXCEPT ![Apps[job[j].app]] = build]
    /\ IF job[j].app + 1 < Len(Apps)
       THEN job' = [job EXCEPT ![j].app = @ + 1, ![j].at = "run"]
       ELSE Goto(j, AfterMigrations(j))
    /\ UNCHANGED <<catalog, database, schema, owner, policy, world>>

record_installed(j) ==
    /\ At(j, "record")
    /\ installed' = [installed EXCEPT ![Apps[job[j].app]] = build]
    /\ IF job[j].app < Len(Apps)
       THEN job' = [job EXCEPT ![j].app = @ + 1, ![j].at = "run"]
       ELSE Goto(j, AfterMigrations(j))
    /\ UNCHANGED <<catalog, database, schema, owner, policy, world>>

\* ON CONFLICT DO NOTHING.  A trial and an operator's choice end on some day, or
\* never.  Mutant: the upsert `set` uses.
issue_always(j) ==
    /\ At(j, "licence")
    /\ \E day \in today + 1..Horizon + 1 : licence' = Until(day)
    /\ Goto(j, "activate")
    /\ UNCHANGED <<tenant, inside, world>>

issue_if_absent(j) ==
    /\ At(j, "licence")
    /\ IF licence = Missing
       THEN \E day \in today + 1..Horizon + 1 : licence' = Until(day)
       ELSE UNCHANGED licence
    /\ Goto(j, "activate")
    /\ UNCHANGED <<tenant, inside, world>>

\* The write matches on the slug alone: whatever the status is by now, it is
\* active afterwards.
mark_active(j) ==
    /\ At(j, "activate")
    /\ tenant' = [tenant EXCEPT !.status = "active", !.version = build]
    /\ Goto(j, "found")
    /\ UNCHANGED <<licence, inside, world>>

\* The row is read once more, and provisioning is over.
Found(j) ==
    /\ At(j, "found")
    /\ IF job[j].kind \in {"signup", "create"} THEN Goto(j, "seed") ELSE End(j)
    /\ UNCHANGED <<catalog, inside, world>>

mark_migrated(j) ==
    /\ At(j, "migrated")
    /\ tenant' = [tenant EXCEPT !.version = build]
    /\ End(j)
    /\ UNCHANGED <<licence, inside, world>>

-----------------------------------------------------------------------------
(* What follows: finish_onboarding and install_owner                       *)

\* settings_store::seed is the same upsert a settings page saves with.
Seed(j) ==
    /\ At(j, "seed")
    /\ policy' = "seeded"
    /\ Goto(j, "owner")
    /\ UNCHANGED <<catalog, database, schema, installed, owner, world>>

\* One transaction: the account and its Admin role.  The partial unique index on
\* is_owner makes a second owner fail.  Mutant: without that index.
CreateOwnerAgain(j) ==
    /\ At(j, "owner")
    /\ owner' = IF job[j].kind = "signup" THEN "active" ELSE "pending"
    /\ IF job[j].kind = "signup" THEN Goto(j, "onboarded") ELSE End(j)
    /\ UNCHANGED <<catalog, database, schema, installed, policy, world>>

CreateOwner(j) ==
    /\ At(j, "owner")
    /\ owner' = IF owner # "none" THEN owner
                ELSE IF job[j].kind = "signup" THEN "active" ELSE "pending"
    /\ IF owner = "none" /\ job[j].kind = "signup" THEN Goto(j, "onboarded") ELSE End(j)
    /\ UNCHANGED <<catalog, database, schema, installed, policy, world>>

mark_onboarded(j) ==
    /\ At(j, "onboarded")
    /\ tenant' = [tenant EXCEPT !.onboarded = TRUE]
    /\ End(j)
    /\ UNCHANGED <<licence, inside, world>>

-----------------------------------------------------------------------------
(* The writes of an operator and of the workspace itself                   *)

set_status(j) ==
    /\ At(j, "write") /\ job[j].kind \in {"suspend", "resume"}
    /\ tenant' = [tenant EXCEPT !.status =
                    IF job[j].kind = "suspend" THEN "suspended" ELSE "active"]
    /\ End(j)
    /\ UNCHANGED <<licence, inside, world>>

set_licence(j) ==
    /\ At(j, "write") /\ job[j].kind \in {"grant", "withdraw"}
    /\ IF job[j].kind = "withdraw" THEN licence' = Revoked
       ELSE \E day \in 1..Horizon + 1 : licence' = Until(day)
    /\ End(j)
    /\ UNCHANGED <<tenant, inside, world>>

\* The owner, signed in, changes the security settings of the workspace.
ChangePolicy ==
    /\ owner = "active" /\ serves_traffic(tenant, licence)
    /\ policy' = "own"
    /\ UNCHANGED <<catalog, database, schema, installed, owner, job, world>>

\* The invited owner sets a password.
AcceptInvitation ==
    /\ owner = "pending" /\ serves_traffic(tenant, licence)
    /\ owner' = "active"
    /\ UNCHANGED <<catalog, database, schema, installed, policy, job, world>>

-----------------------------------------------------------------------------
(* Faults and deployments                                                  *)

\* A statement fails or the process dies: the job is over, what it wrote stays.
Fail(j) ==
    /\ ~At(j, "idle") /\ faults < MaxFaults
    /\ faults' = faults + 1
    /\ End(j)
    /\ UNCHANGED <<catalog, inside, build, today>>

\* A deployment restarts every process.
Deploy ==
    /\ build < MaxBuild
    /\ build' = build + 1
    /\ job' = [j \in Requests \cup {Migrator} |-> Idle]
    /\ UNCHANGED <<catalog, inside, today, faults>>

Start(j) ==
    \/ \E kind \in Creations : StartCreation(j, kind)
    \/ StartRetry(j)
    \/ StartSuspend(j) \/ StartResume(j)
    \/ \E kind \in {"grant", "withdraw"} : StartLicence(j, kind)

migrate_tenant(j) == RunMigrations(j) \/ record_installed(j)

Continue(j) ==
    \/ insert(j) \/ ProbeDatabase(j) \/ CreateDatabase(j)
    \/ migrate_tenant(j)
    \/ issue_if_absent(j) \/ mark_active(j) \/ Found(j) \/ mark_migrated(j)
    \/ Seed(j) \/ CreateOwner(j) \/ mark_onboarded(j)
    \/ set_status(j) \/ set_licence(j)

ProvisioningNext ==
    \/ \E j \in Requests : Start(j)
    \/ StartSweep \/ StartMigration
    \/ \E j \in Requests \cup {Migrator} : Continue(j) \/ Fail(j)
    \/ ChangePolicy \/ AcceptInvitation
    \/ Deploy

Spec == Init /\ [][ProvisioningNext]_provisioning

\* Every statement returns, and the server is started again after a deployment or
\* a start-up that failed: its first act is the sweep.
Fairness ==
    /\ \A j \in Requests \cup {Migrator} : WF_provisioning(Continue(j))
    /\ WF_provisioning(StartSweep)

FairSpec == Spec /\ Fairness

-----------------------------------------------------------------------------
(* Properties                                                              *)

TypeOK ==
    /\ tenant \in [status : Statuses, version : 0..build, onboarded : BOOLEAN]
    /\ licence \in Licences
    /\ database \in BOOLEAN
    /\ schema \in [AppIds -> 0..build] /\ installed \in [AppIds -> 0..build]
    /\ owner \in {"none", "pending", "active"}
    /\ policy \in {"none", "seeded", "own"}
    /\ job \in [Requests \cup {Migrator} -> [kind : Kinds, at : Places, app : 1..Len(Apps)]]
    /\ build \in 1..MaxBuild /\ today \in 0..Horizon /\ faults \in 0..MaxFaults

\* The version the catalog records is never ahead of the database: every app has
\* been migrated to it and has recorded it, whichever jobs raced, died or were
\* retried.  The sweep skips a workspace whose version is current, so a version
\* recorded too early is a migration that never arrives (provision.rs:125-129).
VersionIsInstalled ==
    \A a \in AppIds : tenant.version <= installed[a] /\ installed[a] <= schema[a]

\* A licence somebody withdrew comes back only by somebody's decision, never by a
\* provisioning that is retried (licence.rs:60-63).
WithdrawnStaysWithdrawn ==
    [][licence = Revoked /\ licence' # licence =>
        \E j \in Requests : At(j, "write") /\ job[j].kind = "grant"]_provisioning

\* The first owner stays the owner; a second creation that got past the check of
\* the slug does not replace them, nor undo their having set a password.
OwnerIsKept ==
    [][owner # "none" => owner' \in {owner, "active"}]_provisioning

\* A workspace whose database exists is brought up to the deployed build, served
\* or not, once faults and deployments stop.
EveryWorkspaceCatchesUp ==
    (tenant.status # "absent" /\ database) ~> (tenant.version = build)

\* `What cannot happen is a workspace that serves traffic with no owner in it`
\* (onboarding.rs:29-30), said of the flow that signs somebody up.
ServedHasOwner == serves_traffic(tenant, licence) => owner # "none"
=============================================================================
