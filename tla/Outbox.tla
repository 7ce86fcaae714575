-------------------------------- MODULE Outbox --------------------------------
(***************************************************************************)
(* The transactional outbox of one tenant and the relays that drain it.    *)
(*                                                                         *)
(*   phonix-db/src/outbox.rs               every statement on outbox_events *)
(*   phonix-server/src/jobs.rs             relay_loop, drain, active_tenants *)
(*   phonix-messaging/src/publisher.rs     publish and the broker's confirm *)
(*                                                                         *)
(* One step is one statement or one publish: what can happen between two   *)
(* awaits.  An event is its place in the order of occurred_at; routing     *)
(* keys, payloads and the attempts counter, which nothing in the program   *)
(* decides on, are not kept.  The broker is a count of the copies it has   *)
(* stored of each event, and publisher confirms are on, as in every        *)
(* configuration of the repository.                                        *)
(***************************************************************************)
EXTENDS Integers, FiniteSets

CONSTANTS
    Events,     \* the events changes announce, numbered by occurred_at
    Relays,     \* the relay loops, one in every server process with a broker
    Batch,      \* RELAY_BATCH
    MaxFaults   \* bound: how many deaths, lost confirms and failed statements

ASSUME OutboxAssumption ==
    /\ Events \subseteq Nat /\ IsFiniteSet(Events)
    /\ IsFiniteSet(Relays)
    /\ Batch \in Nat \ {0}
    /\ MaxFaults \in Nat

VARIABLES
    pending,     \* the outbox rows whose published_at is null
    published,   \* the outbox rows whose published_at is set
    last_error,  \* the outbox rows whose last_error is set
    relay,       \* where each relay is in its pass, and the rows it still holds
    stored,      \* the copies of each event the broker has stored
    up,          \* whether the broker can be reached
    serving,     \* serves_traffic() of the tenant's catalog record
    faults,      \* history: how many faults there have been
    late         \* history: copies sent since the tenant was last suspended

vars == <<pending, published, last_error, relay, stored, up, serving, faults, late>>

\* asleep    between two passes, or the process is being restarted
\* visiting  active_tenants has listed the tenant; its outbox is not read yet
\* sending   about to publish the first event of the batch
\* confirmed publish has returned Ok for that event; the row is not marked yet
\* refused   publish has returned Err for it; the failure is not recorded yet
Places == {"asleep", "visiting", "sending", "confirmed", "refused"}

Asleep == [at |-> "asleep", batch |-> {}]

Init ==
    /\ pending = {} /\ published = {} /\ last_error = {}
    /\ relay = [r \in Relays |-> Asleep]
    /\ stored = [e \in Events |-> 0]
    /\ up = TRUE /\ serving = TRUE
    /\ faults = 0 /\ late = 0

-----------------------------------------------------------------------------
(* Announcing, and the catalog                                             *)

\* A transaction that enqueued the event commits.  Events become visible in any
\* order: occurred_at is the start of the transaction, not its commit.
enqueue(e) ==
    /\ e \notin pending \cup published
    /\ pending' = pending \cup {e}
    /\ UNCHANGED <<published, last_error, relay, stored, up, serving, faults, late>>

Suspend ==
    /\ serving
    /\ serving' = FALSE
    /\ late' = 0
    /\ UNCHANGED <<pending, published, last_error, relay, stored, up, faults>>

Resume ==
    /\ ~serving
    /\ serving' = TRUE
    /\ UNCHANGED <<pending, published, last_error, relay, stored, up, faults, late>>

-----------------------------------------------------------------------------
(* One pass of a relay                                                     *)

\* active_tenants leaves out a tenant that does not serve traffic.
active_tenants(r) ==
    /\ relay[r].at = "asleep" /\ serving
    /\ relay' = [relay EXCEPT ![r].at = "visiting"]
    /\ UNCHANGED <<pending, published, last_error, stored, up, serving, faults, late>>

\* The first `Batch` rows by occurred_at.  The row locks are those of a single
\* autocommitted statement: they are gone when it returns, and the rows stay
\* pending.
\* Mutants: no LIMIT; no second try; no `published_at IS NULL`.
OldestUnlimited == pending
OldestUnfailed == {e \in pending : e \notin last_error /\ Cardinality({d \in pending : d < e}) < Batch}
OldestRegardless ==
    {e \in pending \cup published : Cardinality({d \in pending \cup published : d < e}) < Batch}

Oldest == {e \in pending : Cardinality({d \in pending : d < e}) < Batch}

claim_unpublished(r) ==
    /\ relay[r].at = "visiting"
    /\ relay' = [relay EXCEPT ![r] =
                    IF pending = {} THEN Asleep ELSE [at |-> "sending", batch |-> Oldest]]
    /\ UNCHANGED <<pending, published, last_error, stored, up, serving, faults, late>>

\* The event of the batch that `drain` has reached.
Current(r, e) ==
    /\ e \in relay[r].batch
    /\ \A d \in relay[r].batch : e <= d

Stores(e) ==
    /\ stored' = [stored EXCEPT ![e] = @ + 1]
    /\ late' = IF serving THEN late ELSE late + 1

\* publish returns Ok: the broker stored the message and its confirm arrived.
Confirmed(r, e) ==
    /\ relay[r].at = "sending" /\ Current(r, e)
    /\ up
    /\ Stores(e)
    /\ relay' = [relay EXCEPT ![r].at = "confirmed"]
    /\ UNCHANGED <<pending, published, last_error, up, serving, faults>>

\* Mutant: the confirmation is not looked at (`is_nack`).
RefusedUnnoticed(r, e) ==
    /\ relay[r].at = "sending" /\ Current(r, e)
    /\ relay' = [relay EXCEPT ![r].at = "confirmed"]
    /\ UNCHANGED <<pending, published, last_error, stored, up, serving, faults, late>>

\* publish returns Err: no channel, a failed write or a nack.
Refused(r, e) ==
    /\ relay[r].at = "sending" /\ Current(r, e)
    /\ relay' = [relay EXCEPT ![r].at = "refused"]
    /\ UNCHANGED <<pending, published, last_error, stored, up, serving, faults, late>>

\* publish returns Err although the broker stored the message: the connection
\* was lost while the confirm was on its way.
ConfirmLost(r, e) ==
    /\ relay[r].at = "sending" /\ Current(r, e)
    /\ up /\ faults < MaxFaults
    /\ Stores(e)
    /\ faults' = faults + 1
    /\ relay' = [relay EXCEPT ![r].at = "refused"]
    /\ UNCHANGED <<pending, published, last_error, up, serving>>

\* What is left of a batch once its current event has been dealt with.
Rest(r, e) ==
    IF relay[r].batch = {e} THEN Asleep
    ELSE [at |-> "sending", batch |-> relay[r].batch \ {e}]

\* Mutant: published_at stays null beside the mark.
mark_publishedTwice(r, e) ==
    /\ relay[r].at = "confirmed" /\ Current(r, e)
    /\ published' = published \cup {e}
    /\ last_error' = last_error \ {e}
    /\ relay' = [relay EXCEPT ![r] = Rest(r, e)]
    /\ UNCHANGED <<pending, stored, up, serving, faults, late>>

\* The statement matches on the id alone: a row another relay has marked is
\* marked again.
mark_published(r, e) ==
    /\ relay[r].at = "confirmed" /\ Current(r, e)
    /\ pending' = pending \ {e}
    /\ published' = published \cup {e}
    /\ last_error' = last_error \ {e}
    /\ relay' = [relay EXCEPT ![r] = Rest(r, e)]
    /\ UNCHANGED <<stored, up, serving, faults, late>>

\* The failure is recorded and the pass over this tenant ends (`break`).
record_failure(r, e) ==
    /\ relay[r].at = "refused" /\ Current(r, e)
    /\ last_error' = last_error \cup {e}
    /\ relay' = [relay EXCEPT ![r] = Asleep]
    /\ UNCHANGED <<pending, published, stored, up, serving, faults, late>>

\* A statement of the pass fails: `?` leaves drain, and the pass is over.
StatementFails(r) ==
    /\ relay[r].at \in {"visiting", "confirmed", "refused"}
    /\ faults < MaxFaults
    /\ faults' = faults + 1
    /\ relay' = [relay EXCEPT ![r] = Asleep]
    /\ UNCHANGED <<pending, published, last_error, stored, up, serving, late>>

\* The process dies and is started again.  A publish it was in may have reached
\* the broker.
RelayDies(r) ==
    /\ relay[r].at # "asleep" /\ faults < MaxFaults
    /\ faults' = faults + 1
    /\ relay' = [relay EXCEPT ![r] = Asleep]
    /\ \/ UNCHANGED <<stored, late>>
       \/ relay[r].at = "sending" /\ up /\ \E e \in Events : Current(r, e) /\ Stores(e)
    /\ UNCHANGED <<pending, published, last_error, up, serving>>

-----------------------------------------------------------------------------
BrokerGoesDown ==
    /\ up
    /\ up' = FALSE
    /\ UNCHANGED <<pending, published, last_error, relay, stored, serving, faults, late>>

BrokerComesBack ==
    /\ ~up
    /\ up' = TRUE
    /\ UNCHANGED <<pending, published, last_error, relay, stored, serving, faults, late>>

publish(r, e) == Confirmed(r, e) \/ Refused(r, e) \/ ConfirmLost(r, e)

drain(r) ==
    \/ claim_unpublished(r)
    \/ \E e \in Events : publish(r, e) \/ mark_published(r, e) \/ record_failure(r, e)
    \/ StatementFails(r)

Next ==
    \/ \E e \in Events : enqueue(e)
    \/ Suspend \/ Resume
    \/ \E r \in Relays : active_tenants(r) \/ drain(r) \/ RelayDies(r)
    \/ BrokerGoesDown \/ BrokerComesBack

Spec == Init /\ [][Next]_vars

\* The relay loop wakes every RELAY_INTERVAL and each of its awaits returns; a
\* broker that is up does not refuse every publish.
Fairness ==
    \A r \in Relays :
        /\ WF_vars(active_tenants(r))
        /\ WF_vars(claim_unpublished(r))
        /\ WF_vars(\E e \in Events : publish(r, e))
        /\ SF_vars(\E e \in Events : Confirmed(r, e))
        /\ WF_vars(\E e \in Events : mark_published(r, e) \/ record_failure(r, e))

FairSpec == Spec /\ Fairness

-----------------------------------------------------------------------------
(* Properties                                                              *)

TypeOK ==
    /\ pending \subseteq Events /\ published \subseteq Events
    /\ pending \cap published = {}
    /\ last_error \subseteq pending \cup published
    /\ relay \in [Relays -> [at : Places, batch : SUBSET (pending \cup published)]]
    /\ stored \in [Events -> Nat]
    /\ up \in BOOLEAN /\ serving \in BOOLEAN
    /\ faults \in 0..MaxFaults
    /\ late \in Nat

\* A row is marked published only when the broker has the message, whichever
\* relay marked it and whatever failed on the way (jobs.rs, `Published first,
\* marked second`).
MarkedAfterTold == \A e \in published : stored[e] > 0

\* The copies of each event beyond the first from each relay.
Repeats == UNION {{e} \X (Cardinality(Relays) + 1 .. stored[e]) : e \in Events}

\* A relay sends an event again only because something went wrong: the copies of
\* an event beyond one from each relay that held it are paid for by a death, a lost
\* confirm or a failed mark.  A refused publish is never a reason for a duplicate,
\* and rows taken by two relays are duplicated once, not again and again.
RepeatsHaveCauses == Cardinality(Repeats) <= faults

\* A relay does not look at the tenant again in the middle of a pass, so a
\* suspended tenant's events still go out; at most what one batch for each
\* relay holds (jobs.rs, active_tenants, RELAY_BATCH).
SuspensionTakesHold == late <= Batch * Cardinality(Relays)

\* Nothing is told that was not announced, and nothing is let go of untold.
Promised == INSTANCE Announcements WITH
    announced <- pending \cup published, told <- stored, settled <- published

ImplementsAnnouncements == Promised!Spec

\* Once the tenant is served and the broker stays reachable, every event that was
\* committed is told and its row marked, whatever happened before.  An event does not
\* leave its outbox, and there are finitely many: none is pending in the end.
EveryEventIsTold == (<>[]serving /\ <>[]up) => <>[](pending = {})
=============================================================================
