---------------------------- MODULE TenantRegistry ----------------------------
(***************************************************************************)
(* The tenant registry of one server process over the catalog that         *)
(* Provisioning keeps: a cache of catalog rows, a cache of open pools, and *)
(* the requests and background passes that are served through them.        *)
(*                                                                         *)
(*   phonix-db/src/tenancy/registry.rs     resolve, resolve_record, invalidate *)
(*   phonix-server/src/middleware.rs       resolve_tenant, provision_and_continue *)
(*   phonix-server/src/jobs.rs             active_tenants                   *)
(*                                                                         *)
(* A cache lookup, a catalog read, an insert and a pool taken are a step   *)
(* each: every one is awaited.  Operators work in another process and      *)
(* never invalidate anything here.  A pool is the value of one opening.    *)
(***************************************************************************)
EXTENDS Provisioning

CONSTANTS
    Pools    \* names for the pools that exist at the same time

VARIABLES
    lookups,  \* the cached catalog row, or NotCached
    cached,   \* the pool in the pool cache, or NoPool
    health,   \* what has become of each pool
    request   \* where each request is, with the row and the pool it holds

registry == <<lookups, cached, health, request>>
vars == <<provisioning, registry>>

NoPool == "none"

ASSUME RegistryAssumption == NoPool \notin Pools

\* The part of a TenantRecord that admission reads.
Record == [status |-> tenant.status, licence |-> licence]
NotCached == [status |-> "absent", licence |-> Missing]

\* idle      no request
\* arrived   a slug has been read from the request
\* fetch     not in the lookup cache
\* fetched   the row has been read, and is not in the cache yet
\* open      a row is in hand
\* pool      the row was admitted
\* serving   a pool is in hand
\* waiting   the workspace is being provisioned for this request
\* forget, close   invalidating: the row, then the pool
NoRequest == [at |-> "idle", record |-> NotCached, pool |-> NoPool]

RegistryInit ==
    /\ Init
    /\ lookups = NotCached /\ cached = NoPool
    /\ health = [p \in Pools |-> "unused"]
    /\ request = [r \in Requests |-> NoRequest]

Step(r, from, to) == request[r].at = from /\ request' = [request EXCEPT ![r].at = to]
Leave(r) == request' = [request EXCEPT ![r] = NoRequest]

\* A row that admits: `open` asks the licence first and the status then, both on
\* the row in hand and today's date.
admits(record) == serves_traffic(record, record.licence)

-----------------------------------------------------------------------------
(* resolve                                                                 *)

Arrive(r) ==
    /\ At(r, "idle")
    /\ Step(r, "idle", "arrived")
    /\ UNCHANGED <<provisioning, lookups, cached, health>>

Lookup(r) ==
    /\ request[r].at = "arrived"
    /\ request' = [request EXCEPT ![r] =
                     IF lookups = NotCached THEN [@ EXCEPT !.at = "fetch"]
                     ELSE [@ EXCEPT !.at = "open", !.record = lookups]]
    /\ UNCHANGED <<provisioning, lookups, cached, health>>

\* find_by_slug.  A workspace that is not there is provisioned in development,
\* and refused otherwise; that it is not there is not cached.
Fetch(r) ==
    /\ request[r].at = "fetch"
    /\ \/ /\ tenant.status # "absent"
          /\ request' = [request EXCEPT ![r].at = "fetched", ![r].record = Record]
          /\ UNCHANGED provisioning
       \/ /\ tenant.status = "absent" /\ "auto" \notin Acts
          /\ Leave(r)
          /\ UNCHANGED provisioning
       \/ /\ StartCreation(r, "auto")
          /\ Step(r, "fetch", "waiting")
    /\ UNCHANGED <<lookups, cached, health>>

InsertLookup(r) ==
    /\ Step(r, "fetched", "open")
    /\ lookups' = request[r].record
    /\ UNCHANGED <<provisioning, cached, health>>

Open(r) ==
    /\ request[r].at = "open"
    /\ IF admits(request[r].record) THEN Step(r, "open", "pool") ELSE Leave(r)
    /\ UNCHANGED <<provisioning, lookups, cached, health>>

\* get_with: one opening for all who come at the same time.
\* Mutant: a get and an insert, with the opening between them.
TakePoolUncollapsed(r) ==
    /\ request[r].at = "pool"
    /\ \E p \in Pools :
         /\ p = cached \/ health[p] = "unused"
         /\ request' = [request EXCEPT ![r].at = "serving", ![r].pool = p]
         /\ cached' = p
         /\ health' = [health EXCEPT ![p] = "open"]
    /\ UNCHANGED <<provisioning, lookups>>

TakePool(r) ==
    /\ request[r].at = "pool"
    /\ \E p \in Pools :
         /\ IF cached # NoPool THEN p = cached ELSE health[p] = "unused"
         /\ request' = [request EXCEPT ![r].at = "serving", ![r].pool = p]
         /\ cached' = p
         /\ health' = [health EXCEPT ![p] = "open"]
    /\ UNCHANGED <<provisioning, lookups>>

\* The last handle on a closed pool frees it.
Unheld(p) == \A r \in Requests : request'[r].pool # p

Finish(r) ==
    /\ request[r].at = "serving"
    /\ Leave(r)
    /\ health' = [p \in Pools |-> IF health[p] = "closed" /\ Unheld(p) THEN "unused" ELSE health[p]]
    /\ UNCHANGED <<provisioning, lookups, cached>>

\* active_tenants: a pass reads the row itself, and hands it to resolve_record.
BackgroundPass(r) ==
    /\ request[r].at = "idle" /\ At(r, "idle")
    /\ serves_traffic(tenant, licence)
    /\ request' = [request EXCEPT ![r].at = "open", ![r].record = Record]
    /\ UNCHANGED <<provisioning, lookups, cached, health>>

-----------------------------------------------------------------------------
(* provision_and_continue and invalidate                                   *)

\* The job this request started is over: its last read found the row, or it failed.
Provisioned(r) ==
    /\ request[r].at = "waiting"
    /\ At(r, "found")
    /\ Found(r)
    /\ Step(r, "waiting", "forget")
    /\ UNCHANGED <<lookups, cached, health>>

NotProvisioned(r) ==
    /\ request[r].at = "waiting" /\ At(r, "idle")
    /\ Leave(r)
    /\ UNCHANGED <<provisioning, lookups, cached, health>>

InvalidateLookup(r) ==
    /\ Step(r, "forget", "close")
    /\ lookups' = NotCached
    /\ UNCHANGED <<provisioning, cached, health>>

Evicted ==
    /\ cached' = NoPool
    /\ health' = IF cached = NoPool THEN health ELSE [health EXCEPT ![cached] = "closing"]

InvalidatePool(r) ==
    /\ Step(r, "close", "arrived")
    /\ Evicted
    /\ UNCHANGED <<provisioning, lookups>>

-----------------------------------------------------------------------------
(* Expiry                                                                  *)

\* lookup_cache_ttl_secs after the insert.  Mutant: to idle, not to live - a row
\* that is asked for stays.
ExpireLookupIdle ==
    /\ lookups # NotCached
    /\ \A r \in Requests : request[r].at = "idle"
    /\ lookups' = NotCached
    /\ UNCHANGED <<provisioning, cached, health, request>>

ExpireLookup ==
    /\ lookups # NotCached
    /\ lookups' = NotCached
    /\ UNCHANGED <<provisioning, cached, health, request>>

\* idle_evict_secs after it was last taken, whoever still holds it.
EvictPool ==
    /\ cached # NoPool
    /\ Evicted
    /\ UNCHANGED <<provisioning, lookups, request>>

ClosePool(p) ==
    /\ health[p] = "closing"
    /\ health' = [health EXCEPT ![p] =
                    IF \A r \in Requests : request[r].pool # p THEN "unused" ELSE "closed"]
    /\ UNCHANGED <<provisioning, lookups, cached, request>>

Resolve(r) == Lookup(r) \/ Fetch(r) \/ InsertLookup(r) \/ Open(r) \/ TakePool(r)

Serve(r) ==
    \/ Resolve(r) \/ Finish(r)
    \/ Provisioned(r) \/ NotProvisioned(r) \/ InvalidateLookup(r) \/ InvalidatePool(r)

\* A slot that serves a request does not operate the workspace at the same time.
Elsewhere ==
    /\ \/ \E j \in Requests : request[j].at = "idle" /\ Start(j)
       \/ \E j \in Requests :
            \/ Continue(j) /\ ~(At(j, "found") /\ request[j].at = "waiting")
            \/ Fail(j)
    /\ UNCHANGED registry

\* A licence that ends today ends without a statement and without a job: whoever
\* evaluates a row, cached or not, compares it with the day it is.
DayPasses ==
    /\ today < Horizon
    /\ today' = today + 1
    /\ UNCHANGED <<catalog, inside, job, build, faults, registry>>

RegistryNext ==
    \/ \E r \in Requests : Arrive(r) \/ BackgroundPass(r) \/ Serve(r)
    \/ ExpireLookup \/ EvictPool \/ \E p \in Pools : ClosePool(p)
    \/ Elsewhere \/ DayPasses

RegistrySpec == RegistryInit /\ [][RegistryNext]_vars

\* Requests are driven to their end, a cached row lives its time and no longer,
\* and a spawned close runs.
RegistryFairness ==
    /\ \A r \in Requests : WF_vars(Serve(r)) /\ WF_vars(Continue(r) /\ UNCHANGED registry)
    /\ WF_vars(ExpireLookup)
    /\ \A p \in Pools : WF_vars(ClosePool(p))

RegistryFairSpec == RegistrySpec /\ RegistryFairness

-----------------------------------------------------------------------------
(* Properties                                                              *)

\* A tenant has at most one pool that is not being closed, and it is the one in
\* the cache: this is what bounds the connections of the process
\* (registry.rs:7-9), and why a request is never handed a pool that is going away.
OnlyCachedIsOpen == \A p \in Pools : health[p] = "open" <=> p = cached

\* A workspace that has stopped being served, by suspension, withdrawal or a date
\* passing, is in the end served to nobody: the stale rows of every cache and
\* every request in flight run out (registry.rs:5-6).
RefusalReachesEveryone ==
    []<>serves_traffic(tenant, licence)
        \/ <>[](\A r \in Requests : request[r].at \notin {"pool", "serving"})
=============================================================================
