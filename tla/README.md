# Phonix: a verification project

TLA+ models of Phonix (Rust: Leptos on Axum, a PostgreSQL database per tenant,
Redis, RabbitMQ), checked with TLC; nearly every safety property is proved with
TLAPS as well. Paths are
relative to `crates/` of the repository unless they begin with `config/`,
`docs/` or `migrations/`.

What is modelled is where several actors change durable state and no test sees
them meet: files on their way through quarantine, the numbers of invoices,
events on their way to the broker, a workspace being provisioned and served,
an account being signed in and secured, apps and grants being switched and
edited; and one calculation whose rounding everybody relies on, the total of an
invoice.

| Module | What it models |
| --- | --- |
| `Uploads` | upload request, verifier loops, dispatch tasks, sweeper and deletion over `file_uploads` and the object store |
| `UploadLifecycle` | what the upload pipeline promises: the life of a row and its one event |
| `NumberPeriods` | the period a date falls in and what a mask prints |
| `Invoices` | drafting, posting, voiding and deleting invoices; the series row and its locks; administrators |
| `UnbrokenSeries` | what numbering promises |
| `Outbox` | the outbox table, relays, the broker's confirms, tenant suspension |
| `Announcements` | what the outbox promises |
| `Provisioning` | one workspace: catalog row, licence, database, migrations, owner, and every job that writes them |
| `TenantRegistry` | the two caches of a server process over that catalog, and the requests served through them; extends `Provisioning` |
| `Accounts` | one account: password, lockout, sessions, handoff, challenge, second factors, one-time tokens, status |
| `Permissions` | the permission tree, which app owns what, the arithmetic of what an account holds; pure |
| `Access` | apps switched on and off, grants of roles and accounts, roles, keys, the requests that resolve them; extends `Permissions` |
| `Pricing` | quantities, prices and tax groups in, the figures of an invoice out; its conversion |
| `UploadsProofs`, `InvoicesProofs`, `OutboxProofs`, `TenancyProofs`, `AccountsProofs`, `PermissionsProofs`, `AccessProofs`, `PricingProofs` | theorems and their proofs |
| `MCUploads`, `MCInvoices`, `MCOutbox`, `MCProvisioning`, `MCRegistry`, `MCAccounts`, `MCAccess`, `MCPricing` | instances for TLC |

## Inventory

### Files: request, verification, sweep, deletion

*State.* A row of `file_uploads` (status, keys, `claimed_at`, `attempts`,
`created_at`), an object under a quarantine key or a storage key, and the
outbox rows that announce a decision.
*Operations.* `receive` (phonix-server/src/files.rs) streams bytes to
quarantine, records the row and spawns a task. `verifier_loop` and that task
(phonix-server/src/jobs.rs) claim rows and call `verify::run`
(phonix-services/src/files/verify.rs): inspect, promote the object, then commit
the status and the event in one transaction; or refuse; or retry or fail.
`sweep` removes old undecided and failed rows with their objects; `delete_file`
(files/access.rs) removes a file on request.
*Hard.* A database and a file system are changed in turn and there is no
transaction over both; a worker may die or be slow at any await; claims time
out; the sweeper and a deletion act on what they read earlier; statements
match on the id and never on the status they replace.
*Correct when.* A stored row has its bytes; an acceptable file is never lost
while its row exists; a decision is final and told exactly once; every row is
decided in the end.

### Number sequences and sales invoices

*State.* `number_sequences` (pattern, reset period, start, counter, period key,
active), `books.invoices`, the month the financial year opens in.
*Operations.* `save`, `post`, `void`, `delete` (phonix-services/src/books/invoice.rs)
with their statements (phonix-db/src/books/invoice.rs); `NumberGenerator`
(phonix-services/src/numbering.rs) and `allocate` (phonix-db/src/numbering.rs);
`save_settings`, `organization::save`.
*Hard.* READ COMMITTED: a posting reads the document before its transaction and
the reset period without a lock; the allocation locks the series row to the end
of the transaction; a failed post must give its number back; a settings screen
checks on one connection and writes on another.
*Correct when.* No gaps in a period, no number twice, a number never leaves its
document, a posted document is frozen, the row lock is always let go.

### What an invoice comes to

*State.* None but the draft: lines, the basis they are priced on, the totals
that were last computed, the conversion frozen by a posting.
*Operations.* `PricedInvoice::compute` (app-books/src/pricing.rs), run by the
browser and by the server; `TaxTreatment::resolve` (phonix-tax/src/group.rs);
`compute` (phonix-tax/src/compute.rs); `convert` (phonix-core/src/money).
*Hard.* Two rounding levels, two modes, inclusive prices, compound taxes stored
in any order, negative lines, a rate that changes between two dates.
*Correct when.* Lines, codes and footer are one total, the one somebody gets by
hand; no line pays for another; a compound tax is charged on what precedes it.

### Outbox, publisher, relays, consumers

*State.* `outbox_events` per tenant; what the broker has stored; the catalog
record of the tenant.
*Operations.* `enqueue` inside a change's transaction; `relay_loop`,
`active_tenants`, `drain` (phonix-server/src/jobs.rs); `publish` with confirms
(phonix-messaging/src/publisher.rs); `claim_unpublished`, `mark_published`,
`record_failure` (phonix-db/src/outbox.rs). Consumers
(phonix-messaging/src/consumer.rs) acknowledge, retry after a backoff and
dead-letter on quorum queues; nothing in the repository starts one.
*Hard.* Several processes drain one table; publishing and marking are two
systems; a confirm may be lost; a tenant is suspended while its batch is on
its way.
*Correct when.* No event is lost, none is told that was not committed,
duplicates have causes, suspension takes hold.

### Tenants

*State.* Catalog row (status, schema version, `onboarded_at`) and licence; the
tenant database with each app's migrations, `installed_apps`, the owner and the
security settings; in each server process a cache of catalog rows and a cache
of pools (phonix-db/src/tenancy/registry.rs).
*Operations.* `provision_tenant`, `repair_tenant` and the boot sweep
(phonix-db/src/tenancy/provision.rs); signup (workspace/onboarding.rs); what an
operator may do (services/src/desk/workspace.rs): create, retry, migrate,
suspend, resume, license; `resolve`, `pool_for`, `invalidate` (registry.rs);
auto-provisioning by the middleware.
*Hard.* Three connections and no transaction over them; a job dies half way and
is retried, perhaps by two requests and the sweep at once; a lookup that read
the catalog before an invalidation inserts after it; eviction closes a pool
under its users; a licence ends without a statement.
*Correct when.* A recorded version is installed; a withdrawn licence stays
withdrawn; the owner stays; every workspace is migrated in the end; one pool
per tenant; a workspace that stops being served is served to nobody.

### Accounts

*State.* The row of `users` (status, password, lockout), sessions with their
challenge, one-time tokens, second factors and recovery codes, the policy.
*Operations.* Sign in, redeem a handoff, answer a challenge, enrol, confirm and
remove factors, change and reset a password, accept and resend an invitation,
set a status, reset factors, save the policy (phonix-services/src/identity).
*Hard.* No request holds a lock from one statement to the next: everything it
read is old when it writes.
*Correct when.* Nobody is let in who could not have been; no sign-in skips a
factor; a secret works once; guesses are limited; a withdrawn account stays
out; a required factor stays.

### Access

*State.* `installed_apps.enabled_at`, roles, `role_permissions`, `user_roles`,
`user_permissions`, `api_keys`.
*Operations.* `install`, `uninstall` (services/src/workspace/apps.rs), the sync
of static roles, `set_role_permissions`, `set_user_permissions`
(services/src/authorization), members and roles, keys made, revoked and used.
*Hard.* A save filters by the apps it read as on; a DELETE takes the rows it
finds when it starts; a revocation, a sync and an edit each delete and insert.
*Correct when.* What is off is granted to nobody; Admin keeps what is on; the
owner can always administer; a request acts on what its account had when it
came, but for what the edits written since mean to change.

### The rest

- *Users' pictures and the organization logo*: an upload swapped into a row,
  the previous one discarded (identity/user.rs, files/access.rs).
- *Parties* (phonix-master): an app claims a role on a party, which then cannot
  be deleted; the claim follows the draft's commit.
- *Rate limiter* (phonix-server/src/rate_limit.rs): fixed windows per key and a
  sweep. *Rolling log* (phonix-telemetry/src/rolling.rs): period, sequence,
  size, pruning.
- *Operators of the desk*, *federated sign-in*, *change trail and its
  retention* (`prune_loop`), *mail*, *cache*, *configuration*, *web pages*,
  *HTTP API*, *profiler*, *telemetry*: I/O, rendering and parsing around the
  parts above.

How they meet: verification and deletion share `file_uploads` and the object
store; a decision enqueues into the outbox in the same transaction; the relay
reads the catalog, and serves only tenants the registry would; posting reads
the organization's opening month and the series, and freezes the totals that
pricing computed; a request takes its pool from the registry, then its session
from the account, then its permissions from the grants.

## Uploads

| State | In the code |
| --- | --- |
| `row[f]` | the row of `file_uploads`; keys are only present or not; `claim` is `claimed_at` against `claim_timeout_secs`; `old` is `created_at` against `quarantine_ttl_mins` |
| `quarantine`, `bucket` | the objects on disk |
| `events` | outbox rows enqueued per file and outcome |
| `request[f]` | how far the upload request is |
| `runner[r]` | a loop or a dispatch task: program counter and the rows it claimed, as `RETURNING` gave them |
| `sweeper`, `deleter[f]` | the batch and what was read of it; what the deletion loaded |
| `emptied`, `faults` | history |

One action is one statement, one transaction or one storage call. `claim_batch`
and `claim_one` are the two claims; `Inspect`, `Promote`, `Commit`, `Undo`,
`Refuse`, `CommitRefusal` and `Settle` are `verify::run` cut at its awaits;
`SweepRead`, `SweepObject`, `SweepRow` the sweeper; `DeleteLoad`, `DeleteObject`,
`DeleteRow` the deletion. `ClaimExpires` and `RowAges` are time. The verdict of the inspection is the
constant `Acceptable`. File names and digests are not kept; a stream that is
cut leaves nothing and is not a step.

The environment is a parameter: `Hazards` says which of seven things may happen
and `MaxFaults` how many of those that are counted.

| Run | Instance | Shows |
| --- | --- | --- |
| `Uploads` | an acceptable and a refused file, one loop, batch of 2, 2 attempts; two of crash, storage and database failures | a decision is told exactly once (`ToldIffDecided`), a stored row has its object (`StoredHasBytes`), every upload ends and what was given up on is collected (`EveryUploadEnds`), and the pipeline implements `UploadLifecycle` |
| `UploadsSlow` | one acceptable file, two loops beside its dispatch task, every hazard but a lost acknowledgement, four counted faults | the bytes of an acceptable file survive overlapping runners, late rows and early deletions (`AcceptedNeverLost`) |
| `UploadsHostile` | lost commit acknowledgements, late rows, slow runners, early deletions, crashes; one counted fault | a decision is never silent (`DecidedIsTold`) |

*Bounds.* Two files make a batch of two, with the second row waiting while the
first is decided, and let one be accepted while the other is refused. Each file
has a dispatch task, so two runners race for a row even with one loop, and
three in `UploadsSlow`, where one file is enough because what two runners do to
one is what that run is about. Two attempts give a retry and an exhausted row; two
faults give a failure inside the handling of a failure (a commit that fails and
an undo that fails), four let a second runner fail in the same way. `UploadsHostile` has one fault because its property is about a
single lost acknowledgement, combined with uncounted lateness and early deletion.

*What depends on the environment.* Each property is stated, and proved, under the
hazards it survives. `DecidedIsTold` survives all seven. `AcceptedNeverLost`
needs acknowledged commits only: an insert whose acknowledgement is lost is
followed by `upload::discard`. `ToldIffDecided` and `StoredHasBytes` need
besides that no runner outlives its claim: overlapping runners announce a file
twice, and the undo of the one that loses takes the object the other has stored
(difference 12). The refinement needs besides that nobody deletes or sweeps an
undecided file.

*Fairness* (`FairSpec`). Loops wake at an interval for ever and tokio drives
every ready task, so each runner's next step, the claims, the sweeper and each
started request and deletion are weakly fair; time passes, so expiry and ageing
are too. Clients owe nothing: `Write` and `DeleteLoad` are not fair. Crashes and
failures are bounded in number, never prevented. The loops stop where the
client does, so deadlock is not checked. Symmetry of the loops is used in
`UploadsSlow`, which has no liveness property.

## Invoices

| State | In the code |
| --- | --- |
| `invoices` | `books.invoices` as committed: status, content, number, base amount |
| `series` | the `number_sequences` row as committed |
| `opening` | `fiscal_year_start_month` |
| `post[p]` | a posting request: the invoice it found, the opening its generator holds, the reset period it read, the allocation it holds |
| `admin[a]` | a settings screen between its guard and its write |
| `ledger`, `starts` | history: every number committed, every value `start_at` has had |

PostgreSQL's part is written out: what a transaction has written stays in
`post[p]` until `Commit`; `allocated` and `stored` mean that it holds the series
row, `stored` the invoice row too; `Allocate`, `Store`, `SaveSettings` and the
drafts' statements wait for those locks. `Rollback` may happen at every point
and stands for a failed statement, a lost connection and a dead process. The
draft operations are one transaction each; the check a service makes first is
made again in the statement's WHERE, so one step is faithful. An invoice's
lines, taxes and party are one `content`; a date is a month.

| Run | Instance | Shows |
| --- | --- | --- |
| `Invoices` | two invoices dated in two years, two posters, one administrator who raises the start or makes the series monthly, a year that may move to open in the other month | no gaps, no reuse, frozen documents, and that it implements `UnbrokenSeries` |
| `InvoicesStart` | one month; the administrator moves the start up and down and turns the series off | inside one period an allocated number is always free, and every post ends |
| `InvoicesBackdated` | three invoices in two years, no administrator | the code does not keep `AllocationIsFresh` across periods: difference 1 below |

*Bounds.* A year has two months: a financial year that opens in the first is
the calendar year, in the second it is not, and there is no third case. Two
posters and two invoices reach every lock conflict there is between two
transactions; the theorems below are for any number of them. The state space is
finite without a bound on the counter, because an invoice is numbered once.

*Fairness.* A request that has started runs to its end (weak). The wait for the
series row is a wait in a queue: PostgreSQL grants a row lock to its waiters in
their order, and each holder ends, hence strong fairness of `Allocate` and
`SaveSettings`. That a request begins, or fails, is not assumed. Every invoice
may be voided or deleted and nothing is left to do, so deadlock is not checked.
Invoices and posters are interchangeable; symmetry is used in `Invoices`, whose
properties are all safety properties.

## Pricing

| State | In the code |
| --- | --- |
| `basis` | what a document stores beside its lines: `pricing`, `rounding_level`, `rounding`, the date |
| `lines` | quantity, unit price and tax group of each `PricedLine` |
| `totals` | the `DocumentTax` of the last `price`, or `Refused` when a tax has no rate on the date |
| `posted` | the rate and the base amount a posting freezes |

`AddLine`, `RemoveLine` and `ChangeBasis` are edits, after each of which the
whole document is priced again, as browser and server both do; `Post` is
`conversion_for`. The arithmetic is the code's, division by division, over its
scaled integers: `round_div` on magnitudes, the truncating division of the
compound factors, the running total of each code (`Share`), the net that absorbs
an inclusive line's rounding (`Assemble`). A line is shared out as soon as it is reached, every code beside
the others, where the code makes one pass per code: the codes do not touch one
another. Under rounding by line the running total is kept and not used. Overflow
(`OutOfRange`), a line in a foreign currency, and a group that is gone or
switched off are left out; recoverability only selects among the totals.

| Run | Instance | Shows |
| --- | --- | --- |
| `Pricing` | up to three lines of two quantities (one negative), two prices and three groups or none, both pricings, levels and modes, two days with a rate that rises and a code that starts on the second, two exchange rates | `TotalIsByHand`, `SharesAreFair`, `ChargedOnWhatComesBefore` |

*Bounds.* The scales are constants. Quantities and the minor unit have the
code's (10000 and 100); rates have two decimal places instead of six and exchange
rates three instead of ten, because TLC's integers have 32 bits. The prices are
chosen for their remainders: 0.025, whose taxes are halves of a cent and less, and
0.33. Three lines give a running total something to carry over twice, with a
discount between. A posted document is frozen and nothing is left to do, so
deadlock is not checked. Only safety is stated.

## Outbox

| State | In the code |
| --- | --- |
| `pending`, `published`, `last_error` | `outbox_events` by `published_at` and `last_error` |
| `relay[r]` | where a relay is in its pass over the tenant and what is left of its batch |
| `stored` | copies of each event in the broker |
| `up`, `serving` | the broker; `serves_traffic()` of the catalog record |
| `faults`, `late` | history: faults, and copies sent since the tenant was suspended |

`active_tenants` and `drain` are cut at their awaits. A claim's row locks last
one autocommitted statement, so two relays take the same rows and the model
says so. `Refused`, an error without the message stored, is always possible and
free; a death, a failed statement and a lost confirm are counted.

| Run | Instance | Shows |
| --- | --- | --- |
| `Outbox` | two relays, three events, batches of two, one counted fault | no row is marked before its event is told; copies beyond one for each relay are paid for by faults; a suspended tenant sends at most what its relays hold; every event is told; it implements `Announcements` |

*Bounds.* Three events and a batch of two give a full batch, a part of one, and
an event that commits behind a later one. Two relays holding the same batch is
the whole of the interleaving hazard. One fault is enough for a batch to be
taken up again by either relay; refusals are free and as many as there may be.

*Fairness.* The relay's steps are weakly fair; `Confirmed` is strongly fair,
since a broker that can be reached again and again does not refuse every
publish. `EveryEventIsTold` assumes that the tenant is served and the broker
reachable from some point on. The relay never stops, and deadlock is checked.

## Tenants

| State | In the code |
| --- | --- |
| `tenant`, `licence` | the rows of `tenants` and `tenant_licences`; a licence ends on a day |
| `database`, `schema`, `installed`, `owner`, `policy` | the tenant database: that it exists, the build each app's migrations have been run up to, `core.installed_apps`, the account with `is_owner`, the settings row |
| `job[j]` | a signup, a creation or an operation of the desk, or the migration pass: which statement is next and for which app |
| `build`, `today`, `faults` | the deployed build, the day, how many jobs died or had a statement fail |
| `lookups`, `cached` | the two caches of a server process: the catalog row, and the pool |
| `health[p]` | a pool: unused, open, closing, closed |
| `request[r]` | a request in the middleware or a background pass: the row and the pool it holds |

In `Provisioning` one action is one statement on one of the three connections
(catalog, maintenance, tenant): `insert`, `ProbeDatabase` and `CreateDatabase`,
`RunMigrations` and `record_installed` for each app, `issue_if_absent`,
`mark_active`, and what signup adds. `Fail` is a death or a failed statement.
Each kind of job follows its own path through them (`AfterMigrations`,
`Found`). `TenantRegistry` extends that module with one process's caches: a
lookup is cut between the cache, the catalog read and the insert; a pool is
taken collapsed, evicted, and closed by a task of its own. Jobs of the other
module are done `Elsewhere`, in processes that invalidate nothing here; the
days pass in `TenantRegistry`, since only a request meets a licence that ended.

| Run | Instance | Shows |
| --- | --- | --- |
| `Provisioning` | two requests that sign up, create, retry, migrate, suspend, resume, grant and withdraw, and the migration pass; two apps, two builds, one fault | a recorded version is installed; a withdrawn licence and the first owner stay; every workspace is brought up to the deployed build |
| `Registry` | two requests that are visitors and operators in turn, auto-provisioning, suspension and resumption, a licence that may end the next day; two pools, one fault | one open pool, the cached one; a workspace that stops being served is in the end served to nobody |

*Bounds.* Two requests and the pass are the three who may be in one workspace
at once that the code names; two apps make a migration that has done one of
them; two builds make a version that is behind. A third pool would need a
third eviction under use, and is the second over again.

*Fairness.* `Continue` of each job and `StartSweep`: statements return, and a
server that is deployed or whose start failed is started again and sweeps
first. In the registry: a request is driven to its end, a cached row lives its
time to live, a spawned close runs. Arrivals, failures, eviction, operators and
the passing of days are not assumed. Both models may run out of requests to
make, and deadlock is not checked.

## Accounts

| State | In the code |
| --- | --- |
| `user` | the row of `users`: status, password (the count of those there have been), a hash under weaker parameters, `must_change_password`, `failed_login_count`, the lock, `mfa_enabled` |
| `policy` | the workspace's enforcement of second factors |
| `sessions` | rows of `sessions`: satisfied, challenge, wrong answers |
| `tokens` | rows of `user_tokens`, by purpose |
| `factors`, `codes` | authenticator apps and recovery codes |
| `calls[r]` | a request: its kind, the statement it has reached, what it read |
| `mix`, `arrived` | which kinds of request meet in a behaviour, and how many have |
| `tries`, `honoured`, `barred`, `due`, `strict` | history |

One action is one statement or transaction; what a request read stays in
`calls[r].saw`, `.seen`, `.policy`, `.mfa` and is as old as that. `SignInStep`,
`FactorStep`, `PasswordStep` and `AdministratorStep` list the actions by the
handler they come from. Whether a password, a code or a secret that is typed
is the right one is a choice. A request that dies takes no further step, which
any of them may do at any time, since nothing here is fair. `barred` and `due`
are kept by `Observe`, which every action ends in: a request leaves `barred`
when it has run while the account could sign in, and leaves `due` when it has
run while no factor was asked for.

| Run | Instance | Shows |
| --- | --- | --- |
| `Accounts` | nine mixes of two or three overlapping requests over one account, from an invited or an established start, with deadlines passing at any step | `AdmittedWasAllowed`, `FactorWasAsked`, `TakenOnce`, `GuessesAreLimited`, `WithdrawnStaysOut`, `LastFactorStays` |

*Bounds.* The mixes are the families that write the same rows: signing in
against the status; signing in, its handoff and the policy; sign-in, challenge,
codes and sign-out; three answers; the factors and their reset; beginning,
confirming and removing, three at once; reset and change; three redemptions of
one code; the invitation and the status. There are two authenticators, and a
behaviour may start with one of them confirmed and the enrolment of the other
begun: a confirmation and two removals then meet over both. Two sessions and two
tokens let one supersede the other; the limits are 2 failures, 1 answer and 2
guesses, so the third request meets them. What a mix cannot read is not varied
in its first states: a secret is out where some request takes or replaces one of
its purpose, a password in need of a change or of a new hash where somebody signs
in, a begun enrolment where somebody may confirm, replace or remove it. Requests
and rows are interchangeable and the properties are safety properties.

`GuessesAreLimited` is about guesses that have been counted: what is still open
has some left. A request that passed the check before the last was counted still
tries its own, and nothing in the code bounds how many do. `LastFactorStays` rests
on the index that allows one confirmed authenticator: its mutant
(`ConfirmSecond`) is the confirmation without it, and two removals then each
leave the other's.

## Access

| State | In the code |
| --- | --- |
| `enabled` | apps whose row of `installed_apps` has an `enabled_at` |
| `roles`, `role_permissions`, `user_roles`, `user_permissions` | the tables; an account's rows by `is_granted` |
| `active` | the accounts that may sign in |
| `keys` | `api_keys`: state, owner, scopes |
| `calls[r]` | a request: what it read, and `doomed`, what its transaction has deleted and not yet committed |
| `unrevoked`, `unsynced` | history: which apps have a revocation or a sync to come, or undone, and why |
| `watched` | history: of a request that acts for somebody, what the account had when it came, and what edits written since meant to give it or to take |

`Permissions` is the pure part: `owner_of` (the longest root wins),
`for_enabled_apps`, `normalise`, `overrides_for`, `effective`, `narrowed`. The
dots of a name are its set of ancestors. In `Access` a step is a statement, or
the part of a transaction from one statement that locks rows to the next.
`MayInsert` is the wait for a row another transaction has locked; `Committed`
applies what was doomed; `Abort` is a lost connection. `ReadUser` and
`ReadFromRoles` stand for a few SELECTs each, and the overrides it reads are
closed upwards, as `overrides_for_user` makes them; `clear_user_permissions` is
the save of an account with what its roles give. Both doors filter and normalise,
in a different order, as in the code. `Takes` and `Gives` say of an edit that is
about to be written what it means for an account, from what was ticked and not
from the rows it deletes: `ActsOnWhatWasMeant` compares what a request found with
that.

| Run | Instance | Shows |
| --- | --- | --- |
| `Access` | ten mixes, two requests at a time of two or three that arrive (three at a time where each is of another kind); an owner and a member; core always on, one optional app and in one mix two; Admin, User and one role of the workspace's own; one key | `SwitchedOffIsOff`, `AdminHoldsWhatIsOn`, `OwnerCanAdminister`, `ActsOnWhatWasMeant` |

*Bounds.* The catalog of the repository today is core and master always on and
books optional; the second optional app, `stock`, is one that a later build may
bring, so that an app is switched off beside the installation of another. Three
selections tick nothing, a page of the app (which brings its parents) and what
only administrators reach. A mix says which kinds of request meet, over which
optional apps (`apps`), how many arrive, and whether two of one kind may be in
progress at once (`twins`); two transactions overlap in every order of their
statements. An account's standing, the owner's included (a lock after wrong
passwords reaches owners too), changes only where a request is about to look at
it, which is where it is read. Nothing has to happen: only safety is stated, and
no fairness.

*What is excused.* The code keeps less than one would wish, and the two
invariants about apps name what it does not keep. `SwitchedOffIsOff` excuses an
app in `unrevoked`: its uninstall has not come to its revocation, or died before
it was committed, or a request that had read the app as on has granted something
since. `AdminHoldsWhatIsOn` excuses, for the second of its conjuncts only, an app in
`unsynced`: its install has not synced, or the sync was undone, by one that had
read the app as off and committed later or by the revocation of an earlier
uninstall. `AccessNoWayBack` and `AccessOvertaken` below are the counterexamples to
the properties without the excuses. What stays is that syncs and revocations
miss nothing else, and that Admin never holds a part of an app.

## Proofs

| Module | Proves (the property, where its name differs) | From |
| --- | --- | --- |
| `UploadsProofs` | `TypeCorrect`, `DecisionsTold` (`DecidedIsTold`), `AcceptedBytesKept` (`AcceptedNeverLost`), `ToldOnce` (`ToldIffDecided`), `StoredBytesThere` (`StoredHasBytes`), `RefinesLifecycle` | `UploadsAssumption`; for the last four the absence of hazards said above |
| `InvoicesProofs` | `TypeCorrect`, `Unbroken` (`NoGaps`), `NumberedOnlyOnce`, `NumbersStay`, `Queued` (`AllocatorsQueue`, which no run checks), `PostedStaysFrozen`, `FreshInOnePeriod` (`AllocationIsFresh`), `Implementation` (`ImplementsSeries`) | `InvoicesAssumption`, `MonthsAssumption`; `FreshInOnePeriod` from `OnePeriod` |
| `OutboxProofs` | `TypeCorrect`, `NothingIsLost` (`MarkedAfterTold`), `SuspensionHolds` (`SuspensionTakesHold`), `RepeatsAreCaused` (`RepeatsHaveCauses`), `Implementation` (`ImplementsAnnouncements`) | `OutboxAssumption` |
| `TenancyProofs` | of `Provisioning`: `TypeCorrect`, `VersionInstalled` (`VersionIsInstalled`), `WithdrawnKept` (`WithdrawnStaysWithdrawn`), `OwnerKept` (`OwnerIsKept`); of `TenantRegistry`: `OnePool` (`OnlyCachedIsOpen`), `HeldPoolStays`, `VersionInstalledOnArrival` | `ProvisioningAssumption`, `RegistryAssumption` |
| `AccountsProofs` | `TypeCorrect`, `AdmissionsAllowed` (`AdmittedWasAllowed`), `FactorsAsked` (`FactorWasAsked`), `SecretsTakenOnce` (`TakenOnce`), `GuessesLimited` (`GuessesAreLimited`), `WithdrawnKeptOut` (`WithdrawnStaysOut`), `LastFactorKept` (`LastFactorStays`) | `AccountsAssumption` |
| `PermissionsProofs` | `TickedIsHeld`, `SavingTwiceIsSavingOnce`, `KeyIsNoWider`, `OneOwner`, `RevocationIsItsOwn` | `PermissionsAssumption` |
| `AccessProofs` | `TypeCorrect`, `AdminKeeps` (`AdminHoldsWhatIsOn`), `OwnerAdministers` (`OwnerCanAdminister`), `ActsAsMeant` (`ActsOnWhatWasMeant`), `OffIsOff` (`SwitchedOffIsOff`) | `PermissionsAssumption`, `AccessAssumption` |
| `PricingProofs` | `TotalsAreByHand` (`TotalIsByHand`), `SharesStayFair` (`SharesAreFair`), `ChargedInSequence` (`ChargedOnWhatComesBefore`), `TaxesStayPayable` (`TaxesArePayable`) and `PostedToTheUnit` (`PostedNearly`), which no run of the suite checks; of one division and one line: `RoundedToNearest`, `SharingKeepsTheTotal`, `ShareIsFair` | `PricingAssumption` |

Each for every value of the constants: any sets of files, runners, invoices,
posters and administrators, any number of events, relays, jobs, builds, pools,
sessions and secrets, any tree of permissions, catalog of apps, accounts and
overlapping requests, any limit and batch, any tax groups, rates, amounts and
minor unit, documents of any length. The
assumptions say of what kind the constants are, that model values of different
kinds are told apart, and what the schema or the code guarantees of them: that
sets of rows are finite, that the apps of the catalog differ, that the tree of
permissions is one.

Each proof has the same shape. None of the properties is inductive by itself:
what makes it true is carried by somebody in the middle of something - a
request between two statements, a transaction between two locks, a runner
between two calls. The strengthening says what they carry; it was checked by
TLC on the instance of the run before it was proved, and there is one lemma per
action or family of actions. The type invariant is proved first and used by the
rest.

*Uploads.* The layers build on one another, each with the hazards it needs.
`TypeInv` ties a runner's batch to its place in the program. `Recorded`: a
row, a claim, a deletion or a sweep of a file means that its request is done,
so that nothing the request wrote is discarded any more; it needs acknowledged
commits. `BytesOK` adds that what was written is in quarantine until the row is
there, that what is swept has outlived its TTL and what is refused is not
acceptable: with it each call that removes an object leaves the other object or
has a reason. `Alone`, which needs claims nobody outlives: a file is in one
runner's batch, once, and its row is verifying. From it follow `Told` (nothing
is announced of an upload that is not recorded; of a row, what it says) and
`Moved` (a runner about to commit has moved the object). `Settled`, for the
refinement: what a runner holds is verifying, what is swept or deleted has
ended. `RefinesLifecycle` is the safety part of `ImplementsLifecycle`; its
fairness stays with TLC.

*Invoices.* `NoGaps` alone is not inductive: nothing in it says that what a
transaction holds will fit when it commits. The invariant `IInv` adds

- `StartIsKnown`: the start in the row is one the series had;
- `CounterIsIssued`: the row's counter is zero or one that was committed in the
  row's period, so its successor has a predecessor;
- `TakenFollows`: an allocated counter is a start, or its predecessor was
  committed. It stays true because the ledger only grows; a settings change
  between `Allocate` and `Commit` cannot break it, being held off by the lock;
- `StoredIsReady`: a stored posting's invoice is still a draft and its number
  still free, which needs `AllocatorsQueue`, since only another holder of the
  series row could number an invoice;
- `PostersHaveInvoices`: whoever is past `idle` names an invoice.

There is one lemma per operation and `NextInv` combines them; the refinement is
by steps: `Commit` is `Issue`, `SaveSettings` is `MoveStart`, all else stutters.

`AllocationIsFresh` is false in general (difference 1), so `FreshInOnePeriod` has
a hypothesis: `OnePeriod`, that the reset periods and year openings that may be
saved put every date a draft may bear in one period. A series that never resets
is so whatever is edited, and every series is for the documents of one period.
Masks may change and starts move either way. The invariant `Rising`: no invoice
has a counter above the row's, and a number in hand is above it.

*Outbox.* The invariant adds `ConfirmedIsTold`: the event a relay is about to
mark has been stored. It is preserved because copies are never taken back,
whichever relay sent them. The other two properties are about counts.
`SendsLeft`, for the suspension: each relay has as many publishes left as its
place in the pass allows (a batch if it has listed the tenant and not claimed
yet, the rows in hand if it is sending), and what has been sent since the
suspension plus all of them is within the bound; that a claim takes a batch at
most (`OldestIsABatch`) is a fact about the order of events, by the last of
the rows taken. `RepeatsPaid`, for the duplicates: `Tellers(e)` are the relays that
can still store a copy of `e` without a fault - of a pending event all but one
that has its confirm, of a marked one those that took it before - and the
copies there are together with those are paid for. A confirm moves a relay from
one count to the other; only a fault adds to the sum, and it adds one.

*Tenants.* `JobOK` is the order of a job's steps: an app is recorded after it
was run, the catalog is written after the last app was recorded, and a job
outlives no deployment, so the build it writes down is the build it ran. For
the registry: a pool in somebody's hands is never made anew (`HeldIsNotReused`),
only a served request holds one (`ServedHold`), and both invariants together hold of
the composed specification, where the requests that arrive provision too.

*Accounts.* Four invariants beside the types. `SecretsOK`: what has not been
taken has not been honoured. `GuessesOK`: wrong passwords are counted in the row,
and a challenge that is used up has a request on its way to end it.
`AdmissionsOK`: a request past the look at the account has left `barred`, one
that has settled that no factor is asked for has left `due`, and a session being
opened is held by one request. `FactorsOK`: one authenticator is confirmed at a
time, and what a removal under a strict policy is about to delete is not the one.

*Access.* Under READ COMMITTED what matters of a transaction is what it has
deleted before it commits. `Sound` says it of each request: an uninstall has
doomed only rows its own app owns; the edit of a role only rows of that role,
which is not Admin; the edit of an account's roles never the row that makes the
owner an Admin, and the edit of an account's own grants is never the owner's.
`RevocationIsItsOwn` and `OneOwner` turn the first into "no row of another app".
An app switched on after a sync had read the list is in `unsynced`, which is
why `GrantStatic` may restore less than is on. One lemma per action, over a
lemma for a request that only moves on (`QuietOK`).

`WholeOK`, for the first conjunct of `AdminHoldsWhatIsOn`: what a transaction has
doomed of Admin's is of each app all or nothing, like what Admin holds and what a
sync gives it, so whichever of them commits first leaves whole apps.
`RevokedOK`, for `SwitchedOffIsOff`: of an app that is off and has no revocation to
come, each row that is left is doomed already by a transaction that has not
committed (`RolesTaken`, `UsersTaken`), and a save of grants has kept to the apps it
read as on (`CallsTidy`). That argument needs the rows of the three grant
tables to be told apart, which `AccessAssumption` says, as it does the custom
roles from the static ones.
`MeantOK`, for `ActsOnWhatWasMeant`: until a request has read what its account
holds, that is between what the account had less what was taken and what it had
with what was given. One lemma for each edit that writes says that an account's
permissions change by no more than `Takes` and `Gives` allow (an aborted
transaction and one that has only deleted change nothing), and it needs from
`CallsTidy` whose rows a transaction may delete: an edit that deleted another's
would take what it does not mean to.

*Pricing.* The state is easy - `Kept`: whatever was done to a draft, it has just
been priced from what it stores - and the work is in `compute`, which is made of
folds and sums. The model takes them from the community modules, where each is a
`CHOOSE` of a recursive function over the subsets of a finite set; no induction
theorem with an operator for a parameter can be used of them. `SmallestSet` does
instead, that among sets of finite sets there is one that contains no other:
with it `FoldExists` (there is a function as the fold asks for), `AnyOrder` (of two
that differ only in the element they take first, the sums are the same), and from
these the laws of sums (`SumAdds`, `SumOfPart`, `SumSwaps`: a table adds up to the
same by rows and by columns). A fold over a sequence becomes a run of its steps,
for the factors of a line (`FactorsRun`), the shares of a line (`SharesRun`) and the
lines of a document (`DocumentRun`); `Built` is what holds along the last. Per code:
the exact total grows by the line's own tax, what was given is that total
rounded, and the line gets the difference (`SharingKeepsTheTotal`), so that the
lines telescope to the total (`CodeTotal`), and the codes to the footer (`Footer`, by
swapping the sums). That both ends of a difference are within half a minor unit
of the exact figure, whatever the sign and the mode (`RoundedToNearest`), bounds what a
line may be moved by (`ShareIsFair`). `InSequence` gives a group's members in the
only order there is, which needs their sequences to differ
(`PricingAssumption`, a unique key in the schema).

`ChargedInSequence` says what the factors are for. The code multiplies the net by a
factor that is truncated at `FACTOR_ONE` and rounds once for each tax; a person
charges one tax after another and rounds at each. `LineCharges` reads a line's
taxes as a run of factors, `Accounted` says that the first k of them add up to the net
times what has accumulated, to half a storage unit each, `UnderIs` that the taxes
a member is charged on are exactly those before it in the run, and `ByFactor` is the
arithmetic that puts the two figures side by side: they differ by the roundings
of the taxes beneath, at the rate, by what a truncated factor loses of the net,
and by one unit. The bound has no condition on the net or on the rates: a rate may exceed
one (phonix-tax/src/rate.rs:11-13) and a chain may be of any length. `ByGross` is the
same of an inclusive price.

Two properties of the differences below have a part that is true, and it is
proved: `TaxesStayPayable` (the sum of payable figures is one, `PayableSums`) and
`PostedToTheUnit` (two roundings in a row are at most a minor unit from one,
`TwiceRounded`). `PricingPosted.cfg` checks both on documents of two lines.

*Only model-checked.* Liveness (fairness and ENABLED are beyond the prover):
`EveryUploadEnds`, `PostsEnd`, `EveryEventIsTold`, `EveryWorkspaceCatchesUp`,
`RefusalReachesEveryone`, and the fairness of `ImplementsLifecycle`. Every invariant
and every action property that a passing run checks is a theorem. The type invariants of `Uploads`,
`Provisioning` and `Accounts` are proved and not run: the suite's runs spend
their time on the other properties.

## Where the code and what is said of it differ

Each of these has a configuration whose counterexample is a behaviour of the
code. The first is a run of the suite; the others are kept beside it and are
run by name (`tlc -config UploadsRetry.cfg MCUploads`).

1. `InvoicesBackdated` / `AllocationIsFresh`. The series remembers one period;
   a backdated document and a return start the later period's counter again, and
   the post fails on the unique index (phonix-db/src/numbering.rs:174).
   phonix-db/tests/numbering.rs:254-255 has the counter move on.
2. `UploadsRetry` / `FailedOnlyWhenExhausted`. A worker that dies between
   `promote` and `commit_stored` leaves the object in its bucket; the retry
   looks for the quarantine object, gets NotFound, which is not retryable, and
   fails an intact upload with attempts left (verify.rs:59). verify.rs:21-26
   says that retrying is safe.
3. `UploadsSweepStored` / `StoredLeavesByDeletion`. The sweeper deletes by id
   what it selected earlier; a row stored in between is removed and its bytes
   stay (jobs.rs:399). jobs.rs:370: "Reached only when a job never ran at all".
4. `InvoicesApril` / `NumberSaysItsPeriod`. With a year opening in April and
   `{YYYY}` in the mask, two financial years print one calendar year
   (phonix-core/src/numbering/period.rs:119); config/numbering/books.toml:18-20
   says that a number says which year it belongs to.
5. `InvoicesConverted` / `ConvertedFromItself`. The base amount is converted
   from the document read before the transaction and frozen beside what the
   draft says by then (services/src/books/invoice.rs:217 against 486-488).
6. `PricingConverted` / `ConvertedOnce`. An amount is rounded to four places
   and then to the minor unit (phonix-core/src/money/exchange.rs:253-256); the
   comments at 236 and 246-247 promise exactly one rounding, and the two differ
   by a cent where the first makes a half.
7. `PricingPayable` / `FiguresArePayable`. An inclusive line's gross and net keep the
   four places of quantity times price (phonix-tax/src/compute.rs:349-355), and so do the
   totals; app-books/src/pricing.rs:18-21 says the rounding somebody sees
   happens later and once.
8. `Ownerless` / `ServedHasOwner`. A signup whose job dies after `mark_active`
   leaves a workspace that serves traffic and has no owner
   (db/tenancy/provision.rs:92-94); workspace/onboarding.rs:29-30 says that this
   cannot happen.
9. `AccountsForcedChange` / `ForcedChangeHappens`. A sign-in that upgrades a
   weak hash goes through `set_password_hash` and clears `must_change_password`
   (authentication.rs:225-231); db/identity/user.rs:432 clears it "because the change has
   now happened".
10. `AccountsMirror` / `EnabledMirrorsFactors`. `confirm_factor` sets
    `mfa_enabled` also when it confirmed no row (db/identity/mfa.rs:152-183);
    migrations/apps/core/0002_identity.sql:54-55 calls it a mirror. This one
    takes a minute and a half.
11. `AccessNoWayBack` / `NoWayBackIn`. A role's save that read an app as on
    commits after the app's uninstall has revoked everything
    (services/src/authorization/grants.rs:247); 236 says that the app "cannot be
    granted its way back in".
12. `UploadsOverlap` / `StoredHasBytes`. A runner that outlives its claim and whose
    removal of the quarantined original and commit both fail undoes its move after
    another runner has stored the row: the row names an object that is gone
    (verify.rs:161). verify.rs:10-14: "A row never points at bytes that are
    not there".
13. `AccessOvertaken` / `AdminHoldsByDefinition`. A worker that starts has read
    which apps are on; an install switches one on and syncs; the worker's sync
    commits after it and takes the app from Admin until the next start
    (phonix-db/src/authorization/role.rs:70-72, the list read before the
    transaction). role.rs:74-77: "Admin holds the whole tree of every app that
    is on, by definition".

The following were met while reading and follow from the same models, without a
configuration of their own.

*Files and outbox.*

- `max_attempts` does not bound the claims of a row whose worker dies each time
  (phonix-config/src/model.rs:1216; nothing compares attempts at a claim).
- An object promoted and then orphaned in its bucket, and bytes whose request
  died before the row was recorded (server/files.rs:181), are seen by no sweep.
- A row that lost its quarantine key may be claimed again after an expired
  claim (verify.rs:277), and overlapping runners announce twice
  (verify.rs:16-19), as does a commit whose acknowledgement is lost (verify.rs:150).
- The sweeper's order leaves a row that names a removed object if it dies in
  between (jobs.rs:371-373).
- Two relays take the same rows: `SKIP LOCKED` holds for one statement
  (phonix-db/src/outbox.rs:119-122). No timeout is put on a confirm
  (publisher.rs:129), so one that never comes holds the relay.
- `purge_published` has no caller, `publish_timeout_secs` is not used, and no
  consumer is started although config/base.toml:169 configures them.

*Numbers and money.*

- The reset period is read without a lock, so an allocation may use the key of a
  setting that has just been replaced (phonix-db/src/numbering.rs:223-224); the
  guard against re-issuing numbers reads a counter that may have moved by the
  write (phonix-services/src/numbering.rs:185-186).
- The factor scale is called "the deepest a factor ever gets"
  (compute.rs:66-71); a third compound tax multiplies a base of twelve places by
  a rate of six, and the division at 413-416 truncates. `ChargedOnWhatComesBefore`
  allows a storage unit for each `FACTOR_ONE` of the net.

*Tenants.*

- Two signups that race past the check of the slug both go on
  (db/tenancy/provision.rs; desk/workspace.rs:242-245 expects `TenantExists`),
  and both seed settings that are seeded "exactly once" (settings.rs:243).
- A suspension and a resumption of a workspace that is still provisioning make
  it active without a database (desk/workspace.rs:658-661); `mark_active` is
  unconditional and undoes a suspension (catalog.rs:352-370).
- A row read as `provisioning` may be inserted in the cache after the
  invalidation that was to remove it (middleware.rs:122-123, registry.rs:146).

*Accounts.*

- Two concurrent `issue` leave two live tokens (one_time_token.rs:67-90, against
  47-52); a `resend` racing an acceptance leaves a live invitation for an active
  account (invitation.rs:218-221).
- A sign-in that verified the old password opens a session after "every other
  session goes" (password.rs:118-127), and writes the old password's hash over
  the new one when it upgrades (authentication.rs:230).
- `record_successful_login` clears a lock that a concurrent failure has set
  (authentication.rs:239); `failed_login_count` is not reset when a lock ends.
- `challenge_state.attempts` is never read (mfa.rs:206); `list_for_user` does
  not select `kind` (session.rs:446); `clear_lockout`, `soft_delete` and
  `api_key::revoke_all_for_user` have no callers.
- `LastFactorStays` rests on `user_mfa_factors_one_totp_idx`
  (migrations/apps/core/0004_workspace_policy.sql:151-156), which allows one authenticator app
  and not two.

*Access.*

- Two overlapping saves of one role leave the union of both selections.
- An install that overlaps an uninstall of the same app may lose Admin the app
  until the next start; one that is interrupted between `enable` and the sync is
  not repaired by its retry; an uninstall interrupted after `disable` leaves its
  grants and its retry answers that the app is off; its check of dependants
  races an install.
- What was ticked for an account is compared with overrides that
  `overrides_for_user` has closed upwards (services/src/authorization/grants.rs:115,
  db/authorization/permission.rs:88-95), so a save may be skipped that would
  have written the parents of a page whose role no longer gives them.

## Not modelled, and why

`PROJECT.json` lists every component. Out of TLC's and the models' reach, or
without state worth a model: rendering, HTTP translation, configuration
parsing, cryptography, mail transport, telemetry set-up, the profiler. These
are most of the repository's lines: the web pages alone are longer than all
that is modelled. Consumers are written and never started, so no behaviour of
the program reaches them. The rest is planned.

## Plan

The suite is meant to stay short enough to run before every change to the
modelled code, so a new component's runs take the place of narrower ones, whose
configurations are kept beside it. In this order:

1. `Pictures` over `Uploads`: a replaced file is discarded, the current one
   never is (two concurrent changes return what each snapshot saw, user.rs:718).
2. `Parties` over `Invoices`: a party on a document is protected although its role is
   claimed after the draft's commit (services/src/books/invoice.rs:154).
3. `Consumer` over `Outbox`, when something starts one: an event committed once
   is handled at least once, a poisonous one ends in the dead-letter queue.
4. `RateLimiter` and `RollingLog`, with a clock that may step back (the window's
   edge, rate_limit.rs:291; a file that fails to open, rolling.rs:163).
5. `prune_loop`, the operators of the desk, federated sign-in.
6. Period keys on the real calendar, patterns, the parsing of amounts.

No proof of a safety property is left to do for what is modelled; liveness is
out of the prover's reach. A new component brings its invariants and their
proofs with it.

## Running

    tlc -config Uploads.cfg MCUploads
    tlapm InvoicesProofs.tla

The module of a configuration is the MC module of its component (`Registry` is
of `MCRegistry`, `Ownerless` of `MCProvisioning`). The longest run takes about
three and a half minutes, the longest proof (`AccessProofs`) five.

| Run | Distinct states | Time |
| --- | --- | --- |
| `Uploads` | 40,900 | 0:38 |
| `UploadsSlow` | 331,000 | 0:15 |
| `UploadsHostile` | 1,390,000 | 0:55 |
| `Invoices` | 1,330,000 | 1:49 |
| `Pricing` | 149,000 | 1:43 |
| `Outbox` | 622,000 | 2:03 |
| `Provisioning` | 420,000 | 1:22 |
| `Registry` | 467,000 | 1:29 |
| `Accounts` | 624,000 | 0:51 |
| `Access` | 483,000 | 3:23 |
