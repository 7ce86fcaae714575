----------------------------- MODULE TenancyProofs -----------------------------
(***************************************************************************)
(* What the catalog says of a workspace is so in its database, a licence   *)
(* that was withdrawn stays withdrawn and the owner is kept, whatever jobs *)
(* meet; and the registry has one open pool, the one it has cached: for    *)
(* every number of requests, apps, builds, faults and pools.               *)
(*                                                                         *)
(* The argument about versions is the order of a job's steps: an app is    *)
(* recorded after it was run, the catalog is written after the last app    *)
(* was recorded, and a job outlives no deployment, so that the build it    *)
(* writes down is the build it ran (JobOK).                                *)
(***************************************************************************)
EXTENDS TenantRegistry, TLAPS

Jobs == Requests \cup {Migrator}

\* How far a job has brought the database by the time it is at a place.
JobOK(k) ==
    /\ k.at \in {"insert", "probe", "create"} => k.app = 1
    /\ k.at \in {"run", "record"} => \A i \in 1..Len(Apps) : i < k.app => installed[Apps[i]] = build
    /\ k.at = "record" => schema[Apps[k.app]] = build
    /\ k.at \in {"licence", "activate", "migrated"} => \A a \in AppIds : installed[a] = build

JobsOK == \A j \in Jobs : JobOK(job[j])

\* The migration pass does nothing but migrate.
MigratorMigrates == job[Migrator].kind = "migrate"

ProvisioningInv == TypeOK /\ VersionIsInstalled /\ JobsOK /\ MigratorMigrates

-----------------------------------------------------------------------------
(* Apps and jobs                                                           *)

JobType == [kind : Kinds, at : Places, app : 1..Len(Apps)]

LEMMA AppsFacts ==
    /\ Len(Apps) \in Nat /\ 1 \in 1..Len(Apps)
    /\ \A i \in 1..Len(Apps) : Apps[i] \in AppIds
    /\ \A a \in AppIds : \E i \in 1..Len(Apps) : Apps[i] = a
BY ProvisioningAssumption DEF ProvisioningAssumption, AppIds, ToSet

LEMMA IdleType == Idle \in JobType /\ JobOK(Idle)
<1>1. Idle \in JobType
  BY AppsFacts DEF Idle, JobType, Kinds, Operations, Places
<1>2. JobOK(Idle)
  BY DEF Idle, JobOK
<1>3. QED
  BY <1>1, <1>2

LEMMA BuildType ==
    ASSUME ProvisioningInv
    PROVE  build \in Nat /\ build \in 0..build
<1>1. build \in 1..MaxBuild /\ MaxBuild \in Nat
  BY ProvisioningAssumption DEF ProvisioningInv, TypeOK, ProvisioningAssumption
<1>2. QED
  BY <1>1

\* A step that moves one job and leaves the database's apps and the build alone.
LEMMA OneJobMoves ==
    ASSUME ProvisioningInv, NEW j \in Jobs, NEW k \in JobType,
           JobOK(k), k.kind = job[j].kind \/ j # Migrator \/ k.kind = "migrate",
           job' = [job EXCEPT ![j] = k],
           UNCHANGED <<schema, installed, build>>
    PROVE  JobsOK' /\ MigratorMigrates' /\ job' \in [Jobs -> JobType]
<1>1. job \in [Jobs -> JobType] /\ Migrator \in Jobs
  BY DEF ProvisioningInv, TypeOK, Jobs, JobType
<1>2. \A i \in Jobs : job'[i] = IF i = j THEN k ELSE job[i]
  BY <1>1
<1>3. job' \in [Jobs -> JobType]
  BY <1>1
<1>4. \A i \in Jobs : JobOK(job'[i])
  BY <1>2 DEF ProvisioningInv, JobsOK
<1>5. JobsOK'
  BY <1>4 DEF JobsOK, JobOK
<1>6. MigratorMigrates'
  BY <1>1, <1>2 DEF ProvisioningInv, MigratorMigrates
<1>7. QED
  BY <1>3, <1>5, <1>6

\* The same for a step that names the place a job goes to, or ends it.
LEMMA JobGoes ==
    ASSUME ProvisioningInv, NEW j \in Jobs, NEW place \in Places,
           Goto(j, place), JobOK([job[j] EXCEPT !.at = place]),
           UNCHANGED <<schema, installed, build>>
    PROVE  JobsOK' /\ MigratorMigrates' /\ job' \in [Jobs -> JobType]
<1> DEFINE k == [job[j] EXCEPT !.at = place]
<1>1. job \in [Jobs -> JobType]
  BY DEF ProvisioningInv, TypeOK, Jobs, JobType
<1>2. k \in JobType /\ k.kind = job[j].kind
  BY <1>1 DEF JobType
<1>3. job' = [job EXCEPT ![j] = k]
  BY DEF Goto
<1>4. QED
  BY <1>2, <1>3, OneJobMoves

LEMMA JobEnds ==
    ASSUME ProvisioningInv, NEW j \in Jobs, End(j), UNCHANGED <<schema, installed, build>>
    PROVE  JobsOK' /\ MigratorMigrates' /\ job' \in [Jobs -> JobType]
<1>1. Idle.kind = "migrate"
  BY DEF Idle
<1>2. QED
  BY <1>1, IdleType, OneJobMoves DEF End

-----------------------------------------------------------------------------
(* The steps of a job                                                      *)

LEMMA BeginInv ==
    ASSUME ProvisioningInv, NEW j \in Jobs, NEW kind \in Kinds, NEW place \in Places,
           Begin(j, kind, place), j # Migrator \/ kind = "migrate",
           place \in {"insert", "probe", "run", "write"},
           UNCHANGED <<catalog, inside, world>>
    PROVE  ProvisioningInv'
<1> DEFINE k == [kind |-> kind, at |-> place, app |-> 1]
<1>1. k \in JobType /\ JobOK(k)
  BY AppsFacts DEF JobType, JobOK
<1>2. JobsOK' /\ MigratorMigrates' /\ job' \in [Jobs -> JobType]
  BY <1>1, OneJobMoves DEF Begin, inside, world
<1>3. TypeOK' /\ VersionIsInstalled'
  BY <1>2 DEF ProvisioningInv, TypeOK, VersionIsInstalled, Jobs, JobType, catalog, inside, world,
     Licences
<1>4. QED
  BY <1>2, <1>3 DEF ProvisioningInv

LEMMA StartInv ==
    ASSUME ProvisioningInv, NEW j \in Requests, Start(j)
    PROVE  ProvisioningInv'
<1>1. j \in Jobs /\ j # Migrator
  BY ProvisioningAssumption DEF ProvisioningAssumption, Jobs
<1>2. \E kind \in Kinds, place \in {"insert", "probe", "write"} :
        Begin(j, kind, place) /\ UNCHANGED <<catalog, inside, world>>
  BY DEF Start, StartCreation, StartRetry, StartSuspend, StartResume, StartLicence,
     Kinds, Creations, Operations
<1>3. QED
  BY <1>1, <1>2, BeginInv DEF Places

LEMMA MigrationStartsInv ==
    ASSUME ProvisioningInv, StartSweep \/ StartMigration
    PROVE  ProvisioningInv'
BY BeginInv DEF StartSweep, StartMigration, Jobs, Kinds, Operations, Places

LEMMA insertInv ==
    ASSUME ProvisioningInv, NEW j \in Jobs, insert(j)
    PROVE  ProvisioningInv'
<1>1. JobsOK' /\ MigratorMigrates' /\ job' \in [Jobs -> JobType]
  <2>1. JobOK(job[j]) /\ job[j] \in JobType
    BY DEF ProvisioningInv, JobsOK, TypeOK, Jobs, JobType
  <2>2. JobOK([job[j] EXCEPT !.at = "probe"])
    BY <2>1 DEF JobOK, insert, At, JobType
  <2>3. QED
    BY <2>2, JobGoes DEF insert, Places, inside, world
<1>2. tenant' \in [status : Statuses, version : 0..build, onboarded : BOOLEAN]
      /\ tenant'.version = tenant.version
  BY DEF ProvisioningInv, TypeOK, insert, Statuses
<1>3. TypeOK' /\ VersionIsInstalled'
  BY <1>1, <1>2 DEF ProvisioningInv, TypeOK, VersionIsInstalled, Jobs, JobType, insert, inside, world
<1>4. QED
  BY <1>1, <1>3 DEF ProvisioningInv

LEMMA ProbeDatabaseInv ==
    ASSUME ProvisioningInv, NEW j \in Jobs, ProbeDatabase(j)
    PROVE  ProvisioningInv'
<1>1. JobOK(job[j]) /\ job[j] \in JobType /\ At(j, "probe")
  BY DEF ProvisioningInv, JobsOK, TypeOK, Jobs, JobType, ProbeDatabase
<1>2. \A place \in {"run", "create"} : JobOK([job[j] EXCEPT !.at = place])
  BY <1>1 DEF JobOK, At, JobType
<1>3. JobsOK' /\ MigratorMigrates' /\ job' \in [Jobs -> JobType]
  <2>1. CASE database
    BY <2>1, <1>2, JobGoes DEF ProbeDatabase, Places, inside, world
  <2>2. CASE ~database
    BY <2>2, <1>2, JobGoes DEF ProbeDatabase, Places, inside, world
  <2>3. QED
    BY <2>1, <2>2
<1>4. TypeOK' /\ VersionIsInstalled'
  BY <1>3 DEF ProvisioningInv, TypeOK, VersionIsInstalled, Jobs, JobType, ProbeDatabase, catalog, inside, world
<1>5. QED
  BY <1>3, <1>4 DEF ProvisioningInv

LEMMA CreateDatabaseInv ==
    ASSUME ProvisioningInv, NEW j \in Jobs, CreateDatabase(j)
    PROVE  ProvisioningInv'
<1>1. JobOK(job[j]) /\ job[j] \in JobType /\ At(j, "create")
  BY DEF ProvisioningInv, JobsOK, TypeOK, Jobs, JobType, CreateDatabase
<1>2. JobOK([job[j] EXCEPT !.at = "run"])
  BY <1>1 DEF JobOK, At, JobType
<1>3. JobsOK' /\ MigratorMigrates' /\ job' \in [Jobs -> JobType]
  <2>1. CASE database
    BY <2>1, JobEnds DEF CreateDatabase, world
  <2>2. CASE ~database
    BY <2>2, <1>2, JobGoes DEF CreateDatabase, Places, world
  <2>3. QED
    BY <2>1, <2>2
<1>4. TypeOK' /\ VersionIsInstalled'
  BY <1>3 DEF ProvisioningInv, TypeOK, VersionIsInstalled, Jobs, JobType, CreateDatabase, catalog, world
<1>5. QED
  BY <1>3, <1>4 DEF ProvisioningInv

\* Running an app's migrations brings its schema to the build, and no other back.
LEMMA RunMigrationsInv ==
    ASSUME ProvisioningInv, NEW j \in Jobs, RunMigrations(j)
    PROVE  ProvisioningInv'
<1>1. JobOK(job[j]) /\ job[j] \in JobType /\ job[j].at = "run" /\ job \in [Jobs -> JobType]
  BY DEF ProvisioningInv, JobsOK, TypeOK, Jobs, JobType, RunMigrations, At
<1>2. CASE ~database
  <2>1. JobsOK' /\ MigratorMigrates' /\ job' \in [Jobs -> JobType]
    BY <1>2, JobEnds DEF RunMigrations, world
  <2>2. TypeOK' /\ VersionIsInstalled'
    BY <1>2, <2>1 DEF ProvisioningInv, TypeOK, VersionIsInstalled, Jobs, JobType, RunMigrations,
       catalog, world
  <2>3. QED
    BY <2>1, <2>2 DEF ProvisioningInv
<1>3. CASE database
  <2> DEFINE app == Apps[job[j].app]
             k == [job[j] EXCEPT !.at = "record"]
  <2>1. app \in AppIds
    BY <1>1, AppsFacts DEF JobType
  <2>2. /\ schema \in [AppIds -> 0..build] /\ installed \in [AppIds -> 0..build]
        /\ build \in 1..MaxBuild /\ tenant.version \in 0..build
    BY DEF ProvisioningInv, TypeOK
  <2>3. /\ schema' = [schema EXCEPT ![app] = build] /\ job' = [job EXCEPT ![j] = k]
        /\ UNCHANGED <<catalog, database, installed, owner, policy, world>>
    BY <1>3 DEF RunMigrations, Goto
  <2>4. \A a \in AppIds : schema'[a] = IF a = app THEN build ELSE schema[a]
    BY <2>2, <2>3
  <2>5. schema' \in [AppIds -> 0..build]
    BY <2>2, <2>3, BuildType
  <2>6. k \in JobType /\ k.kind = job[j].kind /\ k.at = "record" /\ k.app = job[j].app
    BY <1>1 DEF JobType, Places
  <2>7. \A i \in Jobs : job'[i] = IF i = j THEN k ELSE job[i]
    BY <1>1, <2>3
  <2>8. job' \in [Jobs -> JobType]
    BY <1>1, <2>3, <2>6
  <2>9. JobsOK'
    <3>1. SUFFICES ASSUME NEW i \in Jobs PROVE JobOK(job[i])'
      BY DEF JobsOK
    <3>2. installed' = installed /\ build' = build
      BY <2>3 DEF world
    <3>3. CASE i = j
      BY <3>2, <3>3, <2>1, <2>4, <2>6, <2>7, <1>1 DEF JobOK
    <3>4. CASE i # j
      <4>1. JobOK(job[i]) /\ job'[i] = job[i] /\ job[i] \in JobType
        BY <3>4, <2>7, <1>1 DEF ProvisioningInv, JobsOK
      <4>2. job[i].at = "record" => schema'[Apps[job[i].app]] = build
        BY <4>1, <2>4, AppsFacts DEF JobOK, JobType
      <4>3. QED
        BY <4>1, <4>2, <3>2 DEF JobOK
    <3>5. QED
      BY <3>3, <3>4
  <2>10. MigratorMigrates'
    BY <2>6, <2>7 DEF ProvisioningInv, MigratorMigrates, Jobs
  <2>11. TypeOK' /\ VersionIsInstalled'
    <3>1. VersionIsInstalled'
      BY <2>2, <2>3, <2>4 DEF ProvisioningInv, VersionIsInstalled, catalog
    <3>2. TypeOK'
      BY <2>3, <2>5, <2>8 DEF ProvisioningInv, TypeOK, Jobs, JobType, catalog, world
    <3>3. QED
      BY <3>1, <3>2
  <2>12. QED
    BY <2>9, <2>10, <2>11 DEF ProvisioningInv
<1>4. QED
  BY <1>2, <1>3 DEF ProvisioningInv, TypeOK

\* Recording an app's version: it was run in this build, and so were those before
\* it, so that after the last app the whole database is of this build.
LEMMA record_installedInv ==
    ASSUME ProvisioningInv, NEW j \in Jobs, record_installed(j)
    PROVE  ProvisioningInv'
<1> DEFINE app == Apps[job[j].app]
           k == IF job[j].app < Len(Apps)
                THEN [job[j] EXCEPT !.app = @ + 1, !.at = "run"]
                ELSE [job[j] EXCEPT !.at = AfterMigrations(j)]
<1>1. JobOK(job[j]) /\ job[j] \in JobType /\ job[j].at = "record" /\ job \in [Jobs -> JobType]
  BY DEF ProvisioningInv, JobsOK, TypeOK, Jobs, JobType, record_installed, At
<1>2. app \in AppIds
  BY <1>1, AppsFacts DEF JobType
<1>3. /\ schema \in [AppIds -> 0..build] /\ installed \in [AppIds -> 0..build]
      /\ build \in 0..build /\ tenant.version \in 0..build
  BY BuildType DEF ProvisioningInv, TypeOK
<1>4. installed' = [installed EXCEPT ![app] = build]
      /\ UNCHANGED <<catalog, database, schema, owner, policy, world>>
  BY DEF record_installed
<1>5. job' = [job EXCEPT ![j] = k]
  BY <1>1 DEF record_installed, Goto, JobType
<1>6. \A a \in AppIds : installed'[a] = IF a = app THEN build ELSE installed[a]
  BY <1>3, <1>4
<1>7. installed' \in [AppIds -> 0..build]
  BY <1>3, <1>4
<1>8. AfterMigrations(j) \in {"licence", "activate", "migrated"}
  BY DEF AfterMigrations
<1>9. k \in JobType /\ k.kind = job[j].kind
  <2>1. CASE job[j].app < Len(Apps)
    <3>1. job[j].app + 1 \in 1..Len(Apps)
      BY <2>1, <1>1, AppsFacts DEF JobType
    <3>2. "run" \in Places
      BY DEF Places
    <3>3. k.kind = job[j].kind /\ k = [kind |-> job[j].kind, at |-> "run", app |-> job[j].app + 1]
      BY <2>1, <1>1 DEF JobType
    <3>4. QED
      BY <3>1, <3>2, <3>3, <1>1 DEF JobType
  <2>2. CASE ~(job[j].app < Len(Apps))
    BY <2>2, <1>1, <1>8 DEF JobType, Places
  <2>3. QED
    BY <2>1, <2>2
<1>10. \A i \in Jobs : job'[i] = IF i = j THEN k ELSE job[i]
  BY <1>1, <1>5
<1>11. job' \in [Jobs -> JobType]
  BY <1>1, <1>5, <1>9
<1>12. schema[app] = build
  BY <1>1 DEF JobOK
<1>13. \A i \in 1..Len(Apps) : i < job[j].app => installed[Apps[i]] = build
  BY <1>1 DEF JobOK
<1>14. UNCHANGED <<schema, build>>
  BY <1>4 DEF world
<1>15. JobsOK'
  <2>1. SUFFICES ASSUME NEW i \in Jobs PROVE JobOK(job[i])'
    BY DEF JobsOK
  <2>2. CASE i # j
    <3>1. JobOK(job[i]) /\ job'[i] = job[i] /\ job[i] \in JobType
      BY <2>2, <1>10, <1>1 DEF ProvisioningInv, JobsOK
    <3>2. \A a \in AppIds : installed[a] = build => installed'[a] = build
      BY <1>6
    <3>3. QED
      BY <3>1, <3>2, <1>14, AppsFacts DEF JobOK
  <2>3. CASE i = j /\ job[j].app < Len(Apps)
    <3>1. job'[i].at = "run" /\ job'[i].app = job[j].app + 1
      BY <2>3, <1>1, <1>10 DEF JobType
    <3>2. \A n \in 1..Len(Apps) : n < job[j].app + 1 => installed'[Apps[n]] = build
      <4>1. SUFFICES ASSUME NEW n \in 1..Len(Apps), n < job[j].app + 1
                     PROVE  installed'[Apps[n]] = build
        OBVIOUS
      <4>2. n < job[j].app \/ n = job[j].app
        BY <4>1, <1>1 DEF JobType
      <4>3. QED
        BY <4>2, <1>6, <1>13, AppsFacts
    <3>3. QED
      BY <3>1, <3>2, <1>14 DEF JobOK
  <2>4. CASE i = j /\ ~(job[j].app < Len(Apps))
    <3>1. job'[i].at \in {"licence", "activate", "migrated"}
      BY <2>4, <1>1, <1>8, <1>10 DEF JobType
    <3>2. job[j].app = Len(Apps)
      BY <2>4, <1>1, AppsFacts DEF JobType
    <3>3. \A n \in 1..Len(Apps) : installed'[Apps[n]] = build
      <4>1. SUFFICES ASSUME NEW n \in 1..Len(Apps) PROVE installed'[Apps[n]] = build
        OBVIOUS
      <4>2. n < job[j].app \/ n = job[j].app
        BY <3>2, AppsFacts
      <4>3. QED
        BY <4>2, <1>6, <1>13, AppsFacts
    <3>4. \A a \in AppIds : installed'[a] = build
      BY <3>3, AppsFacts
    <3>5. QED
      BY <3>1, <3>4, <1>14 DEF JobOK
  <2>5. QED
    BY <2>2, <2>3, <2>4
<1>16. MigratorMigrates'
  BY <1>9, <1>10 DEF ProvisioningInv, MigratorMigrates, Jobs
<1>17. VersionIsInstalled'
  BY <1>3, <1>4, <1>6, <1>12 DEF ProvisioningInv, VersionIsInstalled, catalog
<1>18. TypeOK'
  BY <1>4, <1>7, <1>11 DEF ProvisioningInv, TypeOK, Jobs, JobType, catalog, world
<1>19. QED
  BY <1>15, <1>16, <1>17, <1>18 DEF ProvisioningInv

LEMMA issue_if_absentInv ==
    ASSUME ProvisioningInv, NEW j \in Jobs, issue_if_absent(j)
    PROVE  ProvisioningInv'
<1>1. JobOK(job[j]) /\ job[j] \in JobType /\ At(j, "licence")
  BY DEF ProvisioningInv, JobsOK, TypeOK, Jobs, JobType, issue_if_absent
<1>2. JobOK([job[j] EXCEPT !.at = "activate"])
  BY <1>1 DEF JobOK, At, JobType
<1>3. JobsOK' /\ MigratorMigrates' /\ job' \in [Jobs -> JobType]
  BY <1>2, JobGoes DEF issue_if_absent, Places, inside, world
<1>4. licence' \in Licences
  BY DEF ProvisioningInv, TypeOK, issue_if_absent, Until, Licences
<1>5. TypeOK' /\ VersionIsInstalled'
  BY <1>3, <1>4 DEF ProvisioningInv, TypeOK, VersionIsInstalled, Jobs, JobType, issue_if_absent,
     inside, world
<1>6. QED
  BY <1>3, <1>5 DEF ProvisioningInv

\* The catalog's version is written when every app has been recorded in the build.
LEMMA CurrentIsInstalled ==
    ASSUME ProvisioningInv, \A a \in AppIds : installed[a] = build,
           tenant'.version = build, UNCHANGED <<schema, installed>>
    PROVE  VersionIsInstalled'
BY BuildType DEF ProvisioningInv, VersionIsInstalled

LEMMA mark_activeInv ==
    ASSUME ProvisioningInv, NEW j \in Jobs, mark_active(j)
    PROVE  ProvisioningInv'
<1>1. JobOK(job[j]) /\ job[j] \in JobType /\ At(j, "activate")
  BY DEF ProvisioningInv, JobsOK, TypeOK, Jobs, JobType, mark_active
<1>2. JobOK([job[j] EXCEPT !.at = "found"])
  BY <1>1 DEF JobOK, At, JobType
<1>3. JobsOK' /\ MigratorMigrates' /\ job' \in [Jobs -> JobType]
  BY <1>2, JobGoes DEF mark_active, Places, inside, world
<1>4. tenant' \in [status : Statuses, version : 0..build, onboarded : BOOLEAN]
      /\ tenant'.version = build
  BY BuildType DEF ProvisioningInv, TypeOK, mark_active, Statuses
<1>5. VersionIsInstalled'
  BY <1>1, <1>4, CurrentIsInstalled DEF JobOK, At, mark_active, inside
<1>6. TypeOK'
  BY <1>3, <1>4 DEF ProvisioningInv, TypeOK, Jobs, JobType, mark_active, inside, world
<1>7. QED
  BY <1>3, <1>5, <1>6 DEF ProvisioningInv

LEMMA mark_migratedInv ==
    ASSUME ProvisioningInv, NEW j \in Jobs, mark_migrated(j)
    PROVE  ProvisioningInv'
<1>1. JobOK(job[j]) /\ At(j, "migrated")
  BY DEF ProvisioningInv, JobsOK, mark_migrated
<1>2. JobsOK' /\ MigratorMigrates' /\ job' \in [Jobs -> JobType]
  BY JobEnds DEF mark_migrated, inside, world
<1>3. tenant' \in [status : Statuses, version : 0..build, onboarded : BOOLEAN]
      /\ tenant'.version = build
  BY BuildType DEF ProvisioningInv, TypeOK, mark_migrated
<1>4. VersionIsInstalled'
  BY <1>1, <1>3, CurrentIsInstalled DEF JobOK, At, mark_migrated, inside
<1>5. TypeOK'
  BY <1>2, <1>3 DEF ProvisioningInv, TypeOK, Jobs, JobType, mark_migrated, inside, world
<1>6. QED
  BY <1>2, <1>4, <1>5 DEF ProvisioningInv

\* A step of a job that leaves the database's apps, the catalog's version and the
\* world alone, and goes to a place that asks nothing of the database.
LEMMA PlainStepInv ==
    ASSUME ProvisioningInv, NEW j \in Jobs,
           End(j) \/ \E place \in {"found", "seed", "owner", "onboarded"} : Goto(j, place),
           UNCHANGED <<schema, installed, world>>,
           tenant' \in [status : Statuses, version : {tenant.version}, onboarded : BOOLEAN],
           licence' \in Licences, database' \in BOOLEAN,
           owner' \in {"none", "pending", "active"}, policy' \in {"none", "seeded", "own"}
    PROVE  ProvisioningInv'
<1>1. \A place \in {"found", "seed", "owner", "onboarded"} : JobOK([job[j] EXCEPT !.at = place])
  BY DEF ProvisioningInv, TypeOK, Jobs, JobOK
<1>2. JobsOK' /\ MigratorMigrates' /\ job' \in [Jobs -> JobType]
  <2>1. CASE End(j)
    BY <2>1, JobEnds DEF world
  <2>2. CASE \E place \in {"found", "seed", "owner", "onboarded"} : Goto(j, place)
    BY <2>2, <1>1, JobGoes DEF Places, world
  <2>3. QED
    BY <2>1, <2>2
<1>3. tenant' \in [status : Statuses, version : 0..build, onboarded : BOOLEAN]
      /\ tenant'.version = tenant.version
  BY DEF ProvisioningInv, TypeOK
<1>4. VersionIsInstalled'
  BY <1>3 DEF ProvisioningInv, VersionIsInstalled
<1>5. TypeOK'
  BY <1>2, <1>3 DEF ProvisioningInv, TypeOK, Jobs, JobType, world
<1>6. QED
  BY <1>2, <1>4, <1>5 DEF ProvisioningInv

LEMMA FoundInv ==
    ASSUME ProvisioningInv, NEW j \in Jobs, Found(j)
    PROVE  ProvisioningInv'
BY PlainStepInv DEF Found, ProvisioningInv, TypeOK, catalog, inside

LEMMA SeedInv ==
    ASSUME ProvisioningInv, NEW j \in Jobs, Seed(j)
    PROVE  ProvisioningInv'
BY PlainStepInv DEF Seed, ProvisioningInv, TypeOK, catalog

LEMMA CreateOwnerInv ==
    ASSUME ProvisioningInv, NEW j \in Jobs, CreateOwner(j)
    PROVE  ProvisioningInv'
BY PlainStepInv DEF CreateOwner, ProvisioningInv, TypeOK, catalog

LEMMA mark_onboardedInv ==
    ASSUME ProvisioningInv, NEW j \in Jobs, mark_onboarded(j)
    PROVE  ProvisioningInv'
<1>1. tenant' \in [status : Statuses, version : {tenant.version}, onboarded : BOOLEAN]
  BY DEF mark_onboarded, ProvisioningInv, TypeOK
<1>2. QED
  BY <1>1, PlainStepInv DEF mark_onboarded, ProvisioningInv, TypeOK, inside

LEMMA set_statusInv ==
    ASSUME ProvisioningInv, NEW j \in Jobs, set_status(j)
    PROVE  ProvisioningInv'
<1>1. tenant' \in [status : Statuses, version : {tenant.version}, onboarded : BOOLEAN]
  BY DEF set_status, ProvisioningInv, TypeOK, Statuses
<1>2. QED
  BY <1>1, PlainStepInv DEF set_status, ProvisioningInv, TypeOK, inside

LEMMA set_licenceInv ==
    ASSUME ProvisioningInv, NEW j \in Jobs, set_licence(j)
    PROVE  ProvisioningInv'
<1>1. licence' \in Licences
  BY ProvisioningAssumption
     DEF set_licence, ProvisioningInv, TypeOK, Licences, Until, Revoked, ProvisioningAssumption
<1>2. QED
  BY <1>1, PlainStepInv DEF set_licence, ProvisioningInv, TypeOK, inside

LEMMA ContinueInv ==
    ASSUME ProvisioningInv, NEW j \in Jobs, Continue(j)
    PROVE  ProvisioningInv'
BY insertInv, ProbeDatabaseInv, CreateDatabaseInv, RunMigrationsInv, record_installedInv,
   issue_if_absentInv, mark_activeInv, FoundInv, mark_migratedInv, SeedInv, CreateOwnerInv,
   mark_onboardedInv, set_statusInv, set_licenceInv DEF Continue, migrate_tenant

LEMMA FailInv ==
    ASSUME ProvisioningInv, NEW j \in Jobs, Fail(j)
    PROVE  ProvisioningInv'
<1>1. JobsOK' /\ MigratorMigrates' /\ job' \in [Jobs -> JobType]
  BY JobEnds DEF Fail, inside
<1>2. VersionIsInstalled'
  BY DEF ProvisioningInv, VersionIsInstalled, Fail, catalog, inside
<1>3. faults' \in 0..MaxFaults
  BY ProvisioningAssumption DEF ProvisioningInv, TypeOK, Fail, ProvisioningAssumption
<1>4. TypeOK'
  BY <1>1, <1>3 DEF ProvisioningInv, TypeOK, Jobs, JobType, Fail, catalog, inside
<1>5. QED
  BY <1>1, <1>2, <1>4 DEF ProvisioningInv

\* A deployment makes every recorded version an older one, and ends every job.
LEMMA DeployInv ==
    ASSUME ProvisioningInv, Deploy
    PROVE  ProvisioningInv'
<1>1. job' \in [Jobs -> JobType] /\ \A j \in Jobs : job'[j] = Idle
  BY IdleType DEF Deploy, Jobs
<1>2. JobsOK' /\ MigratorMigrates'
  BY <1>1 DEF JobsOK, JobOK, MigratorMigrates, Jobs, Idle
<1>3. VersionIsInstalled'
  BY DEF ProvisioningInv, VersionIsInstalled, Deploy, catalog, inside
<1>4. build' \in 1..MaxBuild /\ 0..build \subseteq 0..build'
  BY ProvisioningAssumption DEF ProvisioningInv, TypeOK, Deploy, ProvisioningAssumption
<1>5. /\ tenant' \in [status : Statuses, version : 0..build', onboarded : BOOLEAN]
      /\ schema' \in [AppIds -> 0..build'] /\ installed' \in [AppIds -> 0..build']
  BY <1>4 DEF ProvisioningInv, TypeOK, Deploy, catalog, inside
<1>6. TypeOK'
  BY <1>1, <1>4, <1>5 DEF ProvisioningInv, TypeOK, Jobs, JobType, Deploy, catalog, inside
<1>7. QED
  BY <1>2, <1>3, <1>6 DEF ProvisioningInv

LEMMA OwnChangesInv ==
    ASSUME ProvisioningInv, ChangePolicy \/ AcceptInvitation
    PROVE  ProvisioningInv'
BY DEF ProvisioningInv, TypeOK, VersionIsInstalled, JobsOK, JobOK, MigratorMigrates,
   ChangePolicy, AcceptInvitation, catalog, world

LEMMA DayPassesInv ==
    ASSUME ProvisioningInv, DayPasses
    PROVE  ProvisioningInv'
<1>1. today' \in 0..Horizon
  BY ProvisioningAssumption DEF ProvisioningInv, TypeOK, DayPasses, ProvisioningAssumption
<1>2. QED
  BY <1>1 DEF ProvisioningInv, TypeOK, VersionIsInstalled, JobsOK, JobOK, MigratorMigrates,
     DayPasses, catalog, inside

LEMMA ProvisioningStutters ==
    ASSUME ProvisioningInv, UNCHANGED provisioning
    PROVE  ProvisioningInv'
BY DEF ProvisioningInv, TypeOK, VersionIsInstalled, JobsOK, JobOK, MigratorMigrates,
   provisioning, catalog, inside, world

LEMMA InitInv == Init => ProvisioningInv
<1>1. SUFFICES ASSUME Init PROVE ProvisioningInv
  OBVIOUS
<1>2. job \in [Jobs -> JobType] /\ \A j \in Jobs : job[j] = Idle
  BY <1>1, IdleType DEF Init, Jobs
<1>3. JobsOK /\ MigratorMigrates
  BY <1>2 DEF JobsOK, JobOK, MigratorMigrates, Jobs, Idle
<1>4. /\ 1 \in 1..MaxBuild /\ 0 \in 0..Horizon /\ 0 \in 0..MaxFaults /\ 0 \in 0..1
      /\ 0 \in 0..Horizon + 1
  BY ProvisioningAssumption DEF ProvisioningAssumption
<1>5. TypeOK
  BY <1>1, <1>2, <1>4 DEF Init, TypeOK, Jobs, JobType, Unregistered, Missing, Licences, Statuses
<1>6. VersionIsInstalled
  BY <1>1 DEF Init, VersionIsInstalled, Unregistered
<1>7. QED
  BY <1>3, <1>5, <1>6 DEF ProvisioningInv

LEMMA ProvisioningNextInv == ProvisioningInv /\ [ProvisioningNext]_provisioning => ProvisioningInv'
<1>1. SUFFICES ASSUME ProvisioningInv, [ProvisioningNext]_provisioning PROVE ProvisioningInv'
  OBVIOUS
<1>2. CASE \E j \in Requests : Start(j)
  BY <1>1, <1>2, StartInv
<1>3. CASE StartSweep \/ StartMigration
  BY <1>1, <1>3, MigrationStartsInv
<1>4. CASE \E j \in Requests \cup {Migrator} : Continue(j) \/ Fail(j)
  BY <1>1, <1>4, ContinueInv, FailInv DEF Jobs
<1>5. CASE ChangePolicy \/ AcceptInvitation
  BY <1>1, <1>5, OwnChangesInv
<1>6. CASE Deploy
  BY <1>1, <1>6, DeployInv
<1>7. CASE UNCHANGED provisioning
  BY <1>1, <1>7, ProvisioningStutters
<1>8. QED
  BY <1>1, <1>2, <1>3, <1>4, <1>5, <1>6, <1>7 DEF ProvisioningNext

LEMMA ProvisioningInvariant == Spec => []ProvisioningInv
<1>1. QED
  BY InitInv, ProvisioningNextInv, PTL DEF Spec

-----------------------------------------------------------------------------
(* Theorems of Provisioning                                                *)

\* Every variable has its type; no recorded version is ahead of the build.
THEOREM TypeCorrect == Spec => []TypeOK
<1>1. ProvisioningInv => TypeOK
  BY DEF ProvisioningInv
<1>2. QED
  BY <1>1, ProvisioningInvariant, PTL

\* The version the catalog records is one every app of the database has been
\* migrated to and has recorded, whichever jobs raced, failed, were retried or cut
\* off by a deployment: the sweep skips no workspace that is behind.
THEOREM VersionInstalled == Spec => []VersionIsInstalled
<1>1. ProvisioningInv => VersionIsInstalled
  BY DEF ProvisioningInv
<1>2. QED
  BY <1>1, ProvisioningInvariant, PTL

\* Who writes a licence: a provisioning where there is none, and an operator.
LEMMA LicenceSteps ==
    ASSUME ProvisioningInv, [ProvisioningNext]_provisioning, licence = Revoked, licence' # licence
    PROVE  \E j \in Requests : At(j, "write") /\ job[j].kind = "grant"
<1>1. Revoked # Missing
  BY DEF Revoked, Missing
<1>2. ~UNCHANGED catalog /\ ~UNCHANGED provisioning
  BY DEF catalog, provisioning
<1>3. ~\E j \in Requests : Start(j)
  BY <1>2 DEF Start, StartCreation, StartRetry, StartSuspend, StartResume, StartLicence
<1>4. ~(StartSweep \/ StartMigration \/ ChangePolicy \/ AcceptInvitation \/ Deploy)
  BY <1>2 DEF StartSweep, StartMigration, ChangePolicy, AcceptInvitation, Deploy
<1>5. PICK j \in Jobs : Continue(j)
  BY <1>2, <1>3, <1>4 DEF ProvisioningNext, Fail, Jobs
<1>6. set_licence(j)
  BY <1>1, <1>2, <1>5 DEF Continue, migrate_tenant, insert, ProbeDatabase, CreateDatabase, RunMigrations,
     record_installed, issue_if_absent, mark_active, Found, mark_migrated, Seed, CreateOwner,
     mark_onboarded, set_status
<1>7. At(j, "write") /\ job[j].kind \in {"grant", "withdraw"} /\ job[j].kind # "withdraw"
  BY <1>6 DEF set_licence
<1>8. j # Migrator
  BY <1>7 DEF ProvisioningInv, MigratorMigrates
<1>9. QED
  BY <1>7, <1>8 DEF Jobs

\* A licence that was withdrawn comes back by an operator's grant only, never by a
\* provisioning that was under way, or is retried, or by a sweep.
THEOREM WithdrawnKept == Spec => WithdrawnStaysWithdrawn
<1>1. ProvisioningInv /\ [ProvisioningNext]_provisioning =>
        [licence = Revoked /\ licence' # licence =>
           \E j \in Requests : At(j, "write") /\ job[j].kind = "grant"]_provisioning
  BY LicenceSteps
<1>2. QED
  BY <1>1, ProvisioningInvariant, PTL DEF Spec, WithdrawnStaysWithdrawn

LEMMA OwnerSteps ==
    ASSUME [ProvisioningNext]_provisioning, owner # "none"
    PROVE  owner' \in {owner, "active"}
<1>1. CASE UNCHANGED provisioning
  BY <1>1 DEF provisioning, inside
<1>2. CASE \E j \in Requests : Start(j)
  BY <1>2 DEF Start, StartCreation, StartRetry, StartSuspend, StartResume, StartLicence, inside
<1>3. CASE StartSweep \/ StartMigration \/ ChangePolicy \/ AcceptInvitation \/ Deploy
  BY <1>3 DEF StartSweep, StartMigration, ChangePolicy, AcceptInvitation, Deploy, inside
<1>4. CASE \E j \in Jobs : Continue(j) \/ Fail(j)
  BY <1>4 DEF Continue, Fail, migrate_tenant, insert, ProbeDatabase, CreateDatabase, RunMigrations,
     record_installed, issue_if_absent, mark_active, Found, mark_migrated, Seed, CreateOwner,
     mark_onboarded, set_status, set_licence, inside
<1>5. QED
  BY <1>1, <1>2, <1>3, <1>4 DEF ProvisioningNext, Jobs

\* A second creation of the owner changes nothing about the first.
THEOREM OwnerKept == Spec => OwnerIsKept
<1>1. [ProvisioningNext]_provisioning =>
        [owner # "none" => owner' \in {owner, "active"}]_provisioning
  BY OwnerSteps
<1>2. QED
  BY <1>1, PTL DEF Spec, OwnerIsKept

-----------------------------------------------------------------------------
(* Theorems of TenantRegistry                                              *)

Healths == {"unused", "open", "closing", "closed"}
Stages == {"idle", "arrived", "fetch", "fetched", "open", "pool", "serving", "waiting", "forget",
           "close"}
Records == [status : Statuses, licence : Licences]
RequestType == [at : Stages, record : Records, pool : Pools \cup {NoPool}]

RegistryTyped ==
    /\ lookups \in Records
    /\ cached \in Pools \cup {NoPool}
    /\ health \in [Pools -> Healths]
    /\ request \in [Requests -> RequestType]

\* A pool somebody works with is not made anew under them.
HeldIsNotReused == \A r \in Requests, p \in Pools : request[r].pool = p => health[p] # "unused"

\* Only a request that is being served holds a pool.
ServedHold == \A r \in Requests : request[r].pool # NoPool => request[r].at = "serving"

RegistryPart == RegistryTyped /\ OnlyCachedIsOpen /\ HeldIsNotReused /\ ServedHold

RegistryInv == ProvisioningInv /\ RegistryPart

LEMMA RecordTypes ==
    /\ NotCached \in Records /\ NoRequest \in RequestType /\ NoRequest.pool = NoPool
    /\ ProvisioningInv => Record \in Records
<1>1. NotCached \in Records
  BY ProvisioningAssumption
     DEF NotCached, Records, Statuses, Missing, Licences, ProvisioningAssumption
<1>2. NoRequest \in RequestType /\ NoRequest.pool = NoPool
  BY <1>1 DEF NoRequest, RequestType, Stages
<1>3. ProvisioningInv => Record \in Records
  BY DEF ProvisioningInv, TypeOK, Record, Records
<1>4. QED
  BY <1>1, <1>2, <1>3

\* Every step of the registry is, for the workspace, a step of Provisioning, the
\* passing of a day, or none.
LEMMA WorkspacePart ==
    ASSUME ProvisioningInv, [RegistryNext]_vars
    PROVE  ProvisioningInv'
<1>1. CASE UNCHANGED provisioning
  BY <1>1, ProvisioningStutters
<1>2. CASE UNCHANGED vars
  BY <1>2, ProvisioningStutters DEF vars
<1>3. ASSUME NEW r \in Requests, Arrive(r) \/ BackgroundPass(r) \/ Serve(r)
      PROVE  ProvisioningInv'
  <2>1. UNCHANGED provisioning \/ StartCreation(r, "auto") \/ Found(r)
    BY <1>3 DEF Arrive, BackgroundPass, Serve, Resolve, Lookup, Fetch, InsertLookup, Open, TakePool,
       Finish, Provisioned, NotProvisioned, InvalidateLookup, InvalidatePool
  <2>2. StartCreation(r, "auto") => Start(r)
    BY DEF Start, Creations
  <2>3. r \in Jobs
    BY DEF Jobs
  <2>4. QED
    BY <2>1, <2>2, <2>3, <1>1, StartInv, FoundInv
<1>4. CASE ExpireLookup \/ EvictPool \/ \E p \in Pools : ClosePool(p)
  BY <1>4, <1>1 DEF ExpireLookup, EvictPool, ClosePool
<1>5. CASE Elsewhere
  BY <1>5, StartInv, ContinueInv, FailInv DEF Elsewhere, Jobs
<1>6. CASE DayPasses
  BY <1>6, DayPassesInv
<1>7. QED
  BY <1>2, <1>3, <1>4, <1>5, <1>6 DEF RegistryNext

\* A request that goes on, or leaves, and touches no pool.
LEMMA RequestMoves ==
    ASSUME RegistryPart, NEW r \in Requests, NEW q \in RequestType,
           q.pool = NoPool,
           request' = [request EXCEPT ![r] = q],
           lookups' \in Records, UNCHANGED <<cached, health>>
    PROVE  RegistryPart'
<1>1. \A s \in Requests : request'[s] = IF s = r THEN q ELSE request[s]
  BY DEF RegistryPart, RegistryTyped
<1>2. RegistryTyped'
  BY DEF RegistryPart, RegistryTyped
<1>3. OnlyCachedIsOpen'
  BY DEF RegistryPart, OnlyCachedIsOpen
<1>4. HeldIsNotReused' /\ ServedHold'
  BY <1>1, RegistryAssumption DEF RegistryPart, HeldIsNotReused, ServedHold, RegistryAssumption
<1>5. QED
  BY <1>2, <1>3, <1>4 DEF RegistryPart

LEMMA RegistryStutters ==
    ASSUME RegistryPart, UNCHANGED registry
    PROVE  RegistryPart'
BY DEF RegistryPart, RegistryTyped, OnlyCachedIsOpen, HeldIsNotReused, ServedHold, registry

\* The steps of a request before it takes a pool, and around a provisioning.
LEMMA ResolveInv ==
    ASSUME RegistryPart, ProvisioningInv, NEW r \in Requests,
           \/ Arrive(r) \/ BackgroundPass(r) \/ Lookup(r) \/ Fetch(r) \/ InsertLookup(r) \/ Open(r)
           \/ Provisioned(r) \/ NotProvisioned(r) \/ InvalidateLookup(r)
    PROVE  RegistryPart'
<1>1. request[r] \in RequestType /\ lookups \in Records
  BY DEF RegistryPart, RegistryTyped
<1>2. /\ request[r].at # "serving"
      /\ UNCHANGED <<cached, health>>
      /\ lookups' \in {lookups, NotCached, request[r].record}
      /\ \/ request' = [request EXCEPT ![r] = NoRequest]
         \/ \E to \in Stages : request' = [request EXCEPT ![r].at = to]
         \/ \E to \in Stages, record \in Records :
              request' = [request EXCEPT ![r].at = to, ![r].record = record]
  <2>1. CASE Arrive(r)
    BY <2>1 DEF Arrive, Step, Stages
  <2>2. CASE BackgroundPass(r)
    BY <2>2, RecordTypes DEF BackgroundPass, Stages
  <2>3. CASE Lookup(r)
    <3>1. CASE lookups = NotCached
      BY <2>3, <3>1 DEF Lookup, Stages
    <3>2. CASE lookups # NotCached
      BY <2>3, <3>2, <1>1 DEF Lookup, Stages
    <3>3. QED
      BY <3>1, <3>2
  <2>4. CASE Fetch(r)
    BY <2>4, RecordTypes DEF Fetch, Step, Leave, Stages
  <2>5. CASE InsertLookup(r)
    BY <2>5 DEF InsertLookup, Step, Stages
  <2>6. CASE Open(r)
    BY <2>6 DEF Open, Step, Leave, Stages
  <2>7. CASE Provisioned(r)
    BY <2>7 DEF Provisioned, Step, Stages
  <2>8. CASE NotProvisioned(r)
    BY <2>8 DEF NotProvisioned, Leave
  <2>9. CASE InvalidateLookup(r)
    BY <2>9 DEF InvalidateLookup, Step, Stages
  <2>10. QED
    BY <2>1, <2>2, <2>3, <2>4, <2>5, <2>6, <2>7, <2>8, <2>9
<1>3. request[r].pool = NoPool
  BY <1>2 DEF RegistryPart, ServedHold
<1>4. lookups' \in Records
  BY <1>1, <1>2, RecordTypes DEF RequestType
<1>5. CASE request' = [request EXCEPT ![r] = NoRequest]
  BY <1>2, <1>4, <1>5, RecordTypes, RequestMoves
<1>6. ASSUME NEW to \in Stages, request' = [request EXCEPT ![r].at = to]
      PROVE  RegistryPart'
  <2> DEFINE q == [request[r] EXCEPT !.at = to]
  <2>1. q \in RequestType /\ q.pool = NoPool
    BY <1>1, <1>3 DEF RequestType
  <2>2. request' = [request EXCEPT ![r] = q]
    BY <1>6
  <2>3. QED
    BY <1>2, <1>4, <2>1, <2>2, RequestMoves
<1>7. ASSUME NEW to \in Stages, NEW record \in Records,
             request' = [request EXCEPT ![r].at = to, ![r].record = record]
      PROVE  RegistryPart'
  <2> DEFINE q == [request[r] EXCEPT !.at = to, !.record = record]
  <2>1. q \in RequestType /\ q.pool = NoPool
    BY <1>1, <1>3 DEF RequestType
  <2>2. request' = [request EXCEPT ![r] = q]
    BY <1>7, <1>1 DEF RegistryPart, RegistryTyped, RequestType
  <2>3. QED
    BY <1>2, <1>4, <2>1, <2>2, RequestMoves
<1>8. QED
  BY <1>2, <1>5, <1>6, <1>7

\* A pool is taken from the cache, where it is open, or opened and put there.
LEMMA TakePoolInv ==
    ASSUME RegistryPart, NEW r \in Requests, TakePool(r)
    PROVE  RegistryPart'
<1>1. PICK p \in Pools :
        /\ IF cached # NoPool THEN p = cached ELSE health[p] = "unused"
        /\ request' = [request EXCEPT ![r].at = "serving", ![r].pool = p]
        /\ cached' = p
        /\ health' = [health EXCEPT ![p] = "open"]
        /\ UNCHANGED lookups
  BY DEF TakePool
<1>2. /\ request \in [Requests -> RequestType] /\ health \in [Pools -> Healths]
      /\ lookups \in Records
  BY DEF RegistryPart, RegistryTyped
<1>3. \A q \in Pools : health'[q] = IF q = p THEN "open" ELSE health[q]
  BY <1>1, <1>2
<1>4. \A s \in Requests : s # r => request'[s] = request[s]
  BY <1>1, <1>2
<1>5. request'[r].pool = p /\ request'[r].at = "serving" /\ request'[r] \in RequestType
  BY <1>1, <1>2 DEF RequestType, Stages
<1>6. RegistryTyped'
  <2>1. request' \in [Requests -> RequestType]
    BY <1>1, <1>2, <1>4, <1>5
  <2>2. health' \in [Pools -> Healths]
    BY <1>1, <1>2 DEF Healths
  <2>3. QED
    BY <2>1, <2>2, <1>1, <1>2 DEF RegistryTyped
<1>7. OnlyCachedIsOpen'
  <2>1. \A q \in Pools : q # p => health[q] # "open"
    BY <1>1, RegistryAssumption DEF RegistryPart, OnlyCachedIsOpen, RegistryAssumption
  <2>2. QED
    BY <2>1, <1>1, <1>3 DEF OnlyCachedIsOpen
<1>8. HeldIsNotReused'
  BY <1>3, <1>4, <1>5 DEF RegistryPart, HeldIsNotReused
<1>9. ServedHold'
  BY <1>4, <1>5 DEF RegistryPart, ServedHold
<1>10. QED
  BY <1>6, <1>7, <1>8, <1>9 DEF RegistryPart

LEMMA FinishInv ==
    ASSUME RegistryPart, NEW r \in Requests, Finish(r)
    PROVE  RegistryPart'
<1>1. /\ request' = [request EXCEPT ![r] = NoRequest]
      /\ health' = [p \in Pools |-> IF health[p] = "closed" /\ Unheld(p) THEN "unused" ELSE health[p]]
      /\ UNCHANGED <<lookups, cached>>
  BY DEF Finish, Leave
<1>2. \A s \in Requests : request'[s] = IF s = r THEN NoRequest ELSE request[s]
  BY <1>1 DEF RegistryPart, RegistryTyped
<1>3. RegistryTyped'
  BY <1>1, RecordTypes DEF RegistryPart, RegistryTyped, Healths
<1>4. OnlyCachedIsOpen'
  BY <1>1 DEF RegistryPart, OnlyCachedIsOpen
<1>5. HeldIsNotReused'
  BY <1>1, <1>2, RecordTypes, RegistryAssumption
     DEF RegistryPart, HeldIsNotReused, Unheld, RegistryAssumption
<1>6. ServedHold'
  BY <1>2, RecordTypes DEF RegistryPart, ServedHold
<1>7. QED
  BY <1>3, <1>4, <1>5, <1>6 DEF RegistryPart

\* The cached pool leaves the cache and stops being open in one step.
LEMMA EvictedInv ==
    ASSUME RegistryPart, Evicted, UNCHANGED lookups,
           \/ UNCHANGED request
           \/ \E r \in Requests : Step(r, "close", "arrived")
    PROVE  RegistryPart'
<1>1. /\ cached' = NoPool
      /\ health' = IF cached = NoPool THEN health ELSE [health EXCEPT ![cached] = "closing"]
  BY DEF Evicted
<1>2. request \in [Requests -> RequestType] /\ health \in [Pools -> Healths]
  BY DEF RegistryPart, RegistryTyped
<1>3. request' \in [Requests -> RequestType]
      /\ \A s \in Requests : request'[s].pool = request[s].pool
  <2>1. CASE UNCHANGED request
    BY <2>1, <1>2
  <2>2. ASSUME NEW r \in Requests, Step(r, "close", "arrived")
        PROVE  request' \in [Requests -> RequestType]
               /\ \A s \in Requests : request'[s].pool = request[s].pool
    BY <2>2, <1>2 DEF Step, RequestType, Stages
  <2>3. QED
    BY <2>1, <2>2
<1>4. \A s \in Requests : request[s].pool # NoPool => request'[s].at = request[s].at
  BY <1>2 DEF RegistryPart, ServedHold, Step
<1>5. \A p \in Pools : health'[p] = IF p = cached THEN "closing" ELSE health[p]
  BY <1>1, <1>2, RegistryAssumption DEF RegistryAssumption
<1>6. RegistryTyped'
  BY <1>1, <1>2, <1>3 DEF RegistryPart, RegistryTyped, Healths
<1>7. OnlyCachedIsOpen'
  BY <1>1, <1>5, RegistryAssumption DEF RegistryPart, OnlyCachedIsOpen, RegistryAssumption
<1>8. HeldIsNotReused' /\ ServedHold'
  BY <1>3, <1>4, <1>5 DEF RegistryPart, HeldIsNotReused, ServedHold
<1>9. QED
  BY <1>6, <1>7, <1>8 DEF RegistryPart

LEMMA ClosePoolInv ==
    ASSUME RegistryPart, NEW p \in Pools, ClosePool(p)
    PROVE  RegistryPart'
<1>1. /\ health[p] = "closing" /\ UNCHANGED <<lookups, cached, request>>
      /\ health' = [health EXCEPT ![p] =
                      IF \A r \in Requests : request[r].pool # p THEN "unused" ELSE "closed"]
  BY DEF ClosePool
<1>2. \A q \in Pools : health'[q] = IF q = p
                                    THEN IF \A r \in Requests : request[r].pool # p THEN "unused" ELSE "closed"
                                    ELSE health[q]
  BY <1>1 DEF RegistryPart, RegistryTyped
<1>3. RegistryTyped'
  BY <1>1 DEF RegistryPart, RegistryTyped, Healths
<1>4. OnlyCachedIsOpen'
  BY <1>1, <1>2 DEF RegistryPart, OnlyCachedIsOpen
<1>5. HeldIsNotReused' /\ ServedHold'
  BY <1>1, <1>2 DEF RegistryPart, HeldIsNotReused, ServedHold
<1>6. QED
  BY <1>3, <1>4, <1>5 DEF RegistryPart

LEMMA RegistryInitInv == RegistryInit => RegistryInv
<1>1. SUFFICES ASSUME RegistryInit PROVE RegistryInv
  OBVIOUS
<1>2. ProvisioningInv
  BY <1>1, InitInv DEF RegistryInit
<1>3. RegistryTyped
  BY <1>1, RecordTypes DEF RegistryInit, RegistryTyped, Healths
<1>4. OnlyCachedIsOpen /\ HeldIsNotReused /\ ServedHold
  BY <1>1, RecordTypes, RegistryAssumption
     DEF RegistryInit, OnlyCachedIsOpen, HeldIsNotReused, ServedHold, RegistryAssumption
<1>5. QED
  BY <1>2, <1>3, <1>4 DEF RegistryInv, RegistryPart

LEMMA RegistryNextInv == RegistryInv /\ [RegistryNext]_vars => RegistryInv'
<1>1. SUFFICES ASSUME RegistryInv, [RegistryNext]_vars PROVE RegistryInv'
  OBVIOUS
<1>2. ProvisioningInv /\ RegistryPart
  BY <1>1 DEF RegistryInv
<1>3. ProvisioningInv'
  BY <1>1, <1>2, WorkspacePart
<1>4. RegistryPart'
  <2>1. ASSUME NEW r \in Requests, Arrive(r) \/ BackgroundPass(r) \/ Serve(r)
        PROVE  RegistryPart'
    <3>1. CASE InvalidatePool(r)
      BY <3>1, <1>2, EvictedInv DEF InvalidatePool
    <3>2. CASE TakePool(r)
      BY <3>2, <1>2, TakePoolInv
    <3>3. CASE Finish(r)
      BY <3>3, <1>2, FinishInv
    <3>4. QED
      BY <2>1, <3>1, <3>2, <3>3, <1>2, ResolveInv DEF Serve, Resolve
  <2>2. CASE ExpireLookup
    BY <2>2, <1>2, RecordTypes DEF ExpireLookup, RegistryPart, RegistryTyped, OnlyCachedIsOpen,
       HeldIsNotReused, ServedHold
  <2>3. CASE EvictPool
    BY <2>3, <1>2, EvictedInv DEF EvictPool
  <2>4. CASE \E p \in Pools : ClosePool(p)
    BY <2>4, <1>2, ClosePoolInv
  <2>5. CASE Elsewhere
    BY <2>5, <1>2, RegistryStutters DEF Elsewhere
  <2>6. CASE DayPasses
    BY <2>6, <1>2, RegistryStutters DEF DayPasses, registry
  <2>7. CASE UNCHANGED vars
    BY <2>7, <1>2, RegistryStutters DEF vars
  <2>8. QED
    BY <1>1, <2>1, <2>2, <2>3, <2>4, <2>5, <2>6, <2>7 DEF RegistryNext
<1>5. QED
  BY <1>3, <1>4 DEF RegistryInv

LEMMA RegistryInvariant == RegistrySpec => []RegistryInv
<1>1. QED
  BY RegistryInitInv, RegistryNextInv, PTL DEF RegistrySpec

\* Whatever requests, evictions and invalidations meet, the process has one open
\* pool at most and it is the cached one, so that nobody is handed a pool that is
\* being closed.
THEOREM OnePool == RegistrySpec => []OnlyCachedIsOpen
<1>1. RegistryInv => OnlyCachedIsOpen
  BY DEF RegistryInv, RegistryPart
<1>2. QED
  BY <1>1, RegistryInvariant, PTL

\* A pool that is going away while a request still works with it is let go by the
\* last holder: it never becomes another pool under one.
THEOREM HeldPoolStays == RegistrySpec => []HeldIsNotReused
<1>1. RegistryInv => HeldIsNotReused
  BY DEF RegistryInv, RegistryPart
<1>2. QED
  BY <1>1, RegistryInvariant, PTL

\* The workspaces that requests provision on arrival, through the registry, keep
\* their recorded version true as well, days passing and all.
THEOREM VersionInstalledOnArrival == RegistrySpec => []VersionIsInstalled
<1>1. RegistryInv => VersionIsInstalled
  BY DEF RegistryInv, ProvisioningInv
<1>2. QED
  BY <1>1, RegistryInvariant, PTL

=============================================================================
