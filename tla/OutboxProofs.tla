----------------------------- MODULE OutboxProofs -----------------------------
(***************************************************************************)
(* Theorems about Outbox, for any events, any number of relays and of      *)
(* faults.  None of the properties is inductive: what a relay holds, and   *)
(* has not told or marked yet, carries each of them from step to step.     *)
(*   ConfirmedIsTold  between publish and mark_published a relay knows     *)
(*   SendsLeft        what relays can still send of a suspended tenant     *)
(*   RepeatsPaid      the copies relays can still store without a fault    *)
(***************************************************************************)
EXTENDS Outbox, TLAPS, FiniteSetTheorems, WellFoundedInduction

(* A relay about to mark the event it has reached has had its confirm.     *)
ConfirmedIsTold ==
    \A r \in Relays, e \in Events :
        relay[r].at = "confirmed" /\ Current(r, e) => stored[e] > 0

IInv == TypeOK /\ MarkedAfterTold /\ ConfirmedIsTold

USE OutboxAssumption

Rows == pending \cup published
RelayType == [at : Places, batch : SUBSET Rows]

-----------------------------------------------------------------------------
(* The initial states satisfy the invariant.                               *)
LEMMA InitInv == Init => IInv
BY DEF Init, IInv, TypeOK, MarkedAfterTold, ConfirmedIsTold, Asleep, Places

(* A step that leaves the rows and the copies alone, and confirms nothing, *)
(* keeps the invariant if it keeps the types.                              *)
LEMMA RowsKeptInv ==
    ASSUME IInv, TypeOK',
           UNCHANGED <<published, stored>>,
           \A r \in Relays : relay'[r] = relay[r] \/ relay'[r].at # "confirmed"
    PROVE  IInv'
<1>1. MarkedAfterTold'
  BY DEF IInv, MarkedAfterTold
<1>2. ConfirmedIsTold'
  BY DEF IInv, ConfirmedIsTold, Current
<1>3. QED
  BY <1>1, <1>2 DEF IInv

(* What the catalog, the broker and the announcing transactions do.        *)
LEMMA EnvironmentInv ==
    ASSUME IInv,
           \/ \E e \in Events : enqueue(e)
           \/ Suspend \/ Resume \/ BrokerGoesDown \/ BrokerComesBack
    PROVE  IInv'
<1>1. TypeOK'
  <2>1. CASE \E e \in Events : enqueue(e)
    BY <2>1 DEF IInv, TypeOK, enqueue
  <2>2. CASE Suspend \/ Resume \/ BrokerGoesDown \/ BrokerComesBack
    <3>1. /\ UNCHANGED <<pending, published, last_error, relay, stored, faults>>
          /\ late' = late \/ late' = 0
      BY <2>2 DEF Suspend, Resume, BrokerGoesDown, BrokerComesBack
    <3>2. up' \in BOOLEAN /\ serving' \in BOOLEAN
      BY <2>2, Zenon
         DEF Suspend, Resume, BrokerGoesDown, BrokerComesBack, IInv, TypeOK
    <3>3. late' \in Nat
      BY <3>1 DEF IInv, TypeOK
    <3>4. QED
      BY <3>1, <3>2, <3>3 DEF IInv, TypeOK
  <2>3. QED
    BY <2>1, <2>2
<1>2. UNCHANGED <<published, stored, relay>>
  BY DEF enqueue, Suspend, Resume, BrokerGoesDown, BrokerComesBack
<1>3. QED
  BY <1>1, <1>2, RowsKeptInv

(* A relay that is not told anything by the broker.                        *)
LEMMA QuietInv ==
    ASSUME IInv, NEW r \in Relays, NEW e,
           \/ active_tenants(r) \/ claim_unpublished(r)
           \/ Refused(r, e) \/ record_failure(r, e) \/ StatementFails(r)
    PROVE  IInv'
<1>1. relay \in [Relays -> RelayType]
  BY DEF IInv, TypeOK, RelayType, Rows
<1>2. UNCHANGED <<pending, published, stored>>
  BY DEF active_tenants, claim_unpublished, Refused, record_failure, StatementFails
<1>3. relay' \in [Relays -> RelayType]
  <2>1. CASE active_tenants(r) \/ Refused(r, e)
    BY <1>1, <2>1 DEF active_tenants, Refused, RelayType, Places
  <2>2. CASE claim_unpublished(r)
    <3>1. [at |-> "sending", batch |-> Oldest] \in RelayType
      BY DEF Oldest, RelayType, Places, Rows
    <3>2. Asleep \in RelayType
      BY DEF Asleep, RelayType, Places
    <3>3. QED
      BY <1>1, <2>2, <3>1, <3>2 DEF claim_unpublished
  <2>3. CASE record_failure(r, e) \/ StatementFails(r)
    BY <1>1, <2>3 DEF record_failure, StatementFails, Asleep, RelayType, Places
  <2>4. QED
    BY <2>1, <2>2, <2>3
<1>4. \A q \in Relays : relay'[q] = relay[q] \/ relay'[q].at # "confirmed"
  BY <1>1 DEF active_tenants, claim_unpublished, Refused, record_failure, StatementFails,
              Asleep, RelayType
<1>5. last_error' \subseteq Rows
  BY <1>1 DEF IInv, TypeOK, active_tenants, claim_unpublished, Refused, record_failure,
              StatementFails, Current, RelayType, Rows
<1>6. faults' \in 0..MaxFaults
  BY DEF IInv, TypeOK, active_tenants, claim_unpublished, Refused, record_failure,
         StatementFails
<1>7. UNCHANGED <<up, serving, late>>
  BY DEF active_tenants, claim_unpublished, Refused, record_failure, StatementFails
<1>8. TypeOK'
  BY <1>2, <1>3, <1>5, <1>6, <1>7 DEF IInv, TypeOK, RelayType, Rows
<1>9. QED
  BY <1>2, <1>4, <1>8, RowsKeptInv

(* A copy more of an event breaks nothing.                                 *)
LEMMA StoresMore ==
    ASSUME IInv, NEW e \in Events, Stores(e)
    PROVE  /\ stored' \in [Events -> Nat]
           /\ \A d \in Events : stored[d] <= stored'[d]
           /\ stored'[e] > 0
           /\ late' \in Nat
BY DEF IInv, TypeOK, Stores

(* A publish that reached the broker, and the death of a relay.            *)
LEMMA PublishInv ==
    ASSUME IInv, NEW r \in Relays, NEW e,
           Confirmed(r, e) \/ ConfirmLost(r, e) \/ RelayDies(r)
    PROVE  IInv'
<1>1. relay \in [Relays -> RelayType]
  BY DEF IInv, TypeOK, RelayType, Rows
<1>2. UNCHANGED <<pending, published, last_error, up, serving>>
  BY DEF Confirmed, ConfirmLost, RelayDies
<1>3. /\ stored' \in [Events -> Nat]
      /\ \A d \in Events : stored[d] <= stored'[d]
      /\ late' \in Nat
  <2>1. CASE \E d \in Events : Stores(d)
    BY <2>1, StoresMore
  <2>2. CASE UNCHANGED <<stored, late>>
    BY <2>2 DEF IInv, TypeOK
  <2>3. Confirmed(r, e) \/ ConfirmLost(r, e) => e \in Events /\ Stores(e)
    BY <1>1 DEF Confirmed, ConfirmLost, Current, RelayType, Rows, IInv, TypeOK
  <2>4. QED
    BY <2>1, <2>2, <2>3 DEF RelayDies
<1>4. relay' \in [Relays -> RelayType]
  <2>1. CASE Confirmed(r, e) \/ ConfirmLost(r, e)
    BY <1>1, <2>1 DEF Confirmed, ConfirmLost, RelayType, Places
  <2>2. CASE RelayDies(r)
    BY <1>1, <2>2 DEF RelayDies, Asleep, RelayType, Places
  <2>3. QED
    BY <2>1, <2>2
<1>5. \A q \in Relays :
        \/ relay'[q] = relay[q]
        \/ relay'[q].at # "confirmed"
        \/ q = r /\ Confirmed(r, e) /\ relay'[r].batch = relay[r].batch
  BY <1>1 DEF Confirmed, ConfirmLost, RelayDies, Asleep, RelayType
<1>6. faults' \in 0..MaxFaults
  BY DEF IInv, TypeOK, Confirmed, ConfirmLost, RelayDies
<1>7. TypeOK'
  BY <1>2, <1>3, <1>4, <1>6 DEF IInv, TypeOK, RelayType, Rows
<1>8. MarkedAfterTold'
  BY <1>2, <1>3 DEF IInv, TypeOK, MarkedAfterTold
<1>9. ConfirmedIsTold'
  <2>1. SUFFICES ASSUME NEW q \in Relays, NEW d \in Events,
                        relay'[q].at = "confirmed", Current(q, d)'
                 PROVE  stored'[d] > 0
    BY DEF ConfirmedIsTold
  <2>2. CASE relay'[q] = relay[q]
    BY <1>3, <2>1, <2>2 DEF IInv, TypeOK, ConfirmedIsTold, Current
  <2>3. CASE relay'[q] # relay[q]
    <3>1. q = r /\ Confirmed(r, e) /\ relay'[r].batch = relay[r].batch
      BY <1>5, <2>1, <2>3
    <3>2. Current(r, d)
      BY <2>1, <3>1 DEF Current
    <3>3. e \in Events /\ Current(r, e) /\ Stores(e)
      BY <1>1, <3>1 DEF Confirmed, Current, RelayType, Rows, IInv, TypeOK
    <3>4. d = e
      BY <3>2, <3>3 DEF Current
    <3>5. QED
      BY <3>3, <3>4, StoresMore
  <2>4. QED
    BY <2>2, <2>3
<1>10. QED
  BY <1>7, <1>8, <1>9 DEF IInv

(* A confirmed event is marked: its row is one the broker has the message  *)
(* of, and the relay goes on to the next.                                  *)
LEMMA MarkInv ==
    ASSUME IInv, NEW r \in Relays, NEW e \in Events, mark_published(r, e)
    PROVE  IInv'
<1>1. relay \in [Relays -> RelayType]
  BY DEF IInv, TypeOK, RelayType, Rows
<1>2. UNCHANGED <<stored, up, serving, faults, late>> /\ pending' \cup published' = Rows
  BY DEF mark_published, IInv, TypeOK, Current, Rows
<1>3. Rest(r, e) \in RelayType /\ Rest(r, e).at # "confirmed"
  BY <1>1 DEF Rest, Asleep, RelayType, Places
<1>4. relay' = [relay EXCEPT ![r] = Rest(r, e)]
  BY DEF mark_published
<1>5. relay' \in [Relays -> RelayType]
  BY <1>1, <1>3, <1>4
<1>6. TypeOK'
  BY <1>2, <1>5 DEF IInv, TypeOK, mark_published, RelayType, Rows
<1>7. stored[e] > 0
  BY DEF IInv, ConfirmedIsTold, mark_published
<1>8. MarkedAfterTold'
  BY <1>2, <1>7 DEF IInv, MarkedAfterTold, mark_published
<1>9. ConfirmedIsTold'
  BY <1>1, <1>2, <1>3, <1>4 DEF IInv, ConfirmedIsTold, Current
<1>10. QED
  BY <1>6, <1>8, <1>9 DEF IInv

(* Every step keeps the invariant.                                         *)
LEMMA NextInv == IInv /\ [Next]_vars => IInv'
<1>1. SUFFICES ASSUME IInv, [Next]_vars PROVE IInv'
  OBVIOUS
<1>2. CASE UNCHANGED vars
  BY <1>1, <1>2 DEF vars, IInv, TypeOK, MarkedAfterTold, ConfirmedIsTold, Current
<1>3. CASE \/ \E e \in Events : enqueue(e)
           \/ Suspend \/ Resume \/ BrokerGoesDown \/ BrokerComesBack
  BY <1>1, <1>3, EnvironmentInv
<1>4. ASSUME NEW r \in Relays, active_tenants(r) \/ drain(r) \/ RelayDies(r)
      PROVE  IInv'
  <2>1. CASE RelayDies(r)
    BY <1>1, <2>1, PublishInv
  <2>2. CASE active_tenants(r) \/ claim_unpublished(r) \/ StatementFails(r)
    BY <1>1, <2>2, QuietInv
  <2>3. ASSUME NEW e \in Events, publish(r, e) \/ mark_published(r, e) \/ record_failure(r, e)
        PROVE  IInv'
    BY <1>1, <2>3, PublishInv, QuietInv, MarkInv DEF publish
  <2>4. QED
    BY <1>4, <2>1, <2>2, <2>3 DEF drain
<1>5. QED
  BY <1>1, <1>2, <1>3, <1>4 DEF Next

(* The invariant holds of every behaviour.                                 *)
LEMMA Invariance == Spec => []IInv
BY InitInv, NextInv, PTL DEF Spec

-----------------------------------------------------------------------------
(* The state of the outbox and its relays keeps its types: a row is never  *)
(* both pending and published, and a relay holds only rows that exist.     *)
THEOREM TypeCorrect == Spec => []TypeOK
<1>1. IInv => TypeOK
  BY DEF IInv
<1>2. QED
  BY <1>1, Invariance, PTL

(* No row is ever marked published before the broker has its message: the  *)
(* outbox does not lose an event.                                          *)
THEOREM NothingIsLost == Spec => []MarkedAfterTold
<1>1. IInv => MarkedAfterTold
  BY DEF IInv
<1>2. QED
  BY <1>1, Invariance, PTL

(* A step of the outbox is a step of what it promises, or none.            *)
LEMMA NextImplements ==
    IInv /\ [Next]_vars => [Promised!Next]_<<Rows, stored, published>>
<1>1. SUFFICES ASSUME IInv, [Next]_vars,
                      ~ UNCHANGED <<Rows, stored, published>>
               PROVE  Promised!Next
  OBVIOUS
<1>2. ASSUME NEW e \in Events, enqueue(e) PROVE Promised!Next
  BY <1>2 DEF enqueue, Promised!Next, Promised!Announce
<1>3. ASSUME NEW r \in Relays, NEW e \in Events, Current(r, e), Stores(e),
             UNCHANGED <<pending, published>>
      PROVE  Promised!Next
  <2>1. e \in Rows
    BY <1>1, <1>3 DEF IInv, TypeOK, Current, Rows
  <2>2. QED
    BY <1>3, <2>1 DEF Stores, Rows, Promised!Next, Promised!Tell
<1>4. ASSUME NEW r \in Relays, NEW e \in Events, mark_published(r, e)
      PROVE  Promised!Next
  <2>1. e \in Rows /\ stored[e] > 0
    BY <1>1, <1>4 DEF IInv, TypeOK, ConfirmedIsTold, mark_published, Current, Rows
  <2>2. pending' \cup published' = Rows
    BY <2>1, <1>4 DEF mark_published, Rows
  <2>3. QED
    BY <1>4, <2>1, <2>2 DEF mark_published, Rows, Promised!Next, Promised!Settle
<1>5. CASE \E e \in Events : enqueue(e)
  BY <1>2, <1>5
<1>6. ASSUME NEW r \in Relays, NEW e \in Events, Confirmed(r, e) \/ ConfirmLost(r, e)
      PROVE  Promised!Next
  BY <1>3, <1>6 DEF Confirmed, ConfirmLost
<1>7. ASSUME NEW r \in Relays, RelayDies(r) PROVE Promised!Next
  BY <1>1, <1>3, <1>7 DEF RelayDies, Rows
<1>8. QED
  BY <1>1, <1>4, <1>5, <1>6, <1>7
     DEF Next, vars, drain, publish, Suspend, Resume, BrokerGoesDown, BrokerComesBack,
         active_tenants, claim_unpublished, Refused, record_failure, StatementFails, Rows

(* The outbox keeps its promise: an event is told at least once, only if   *)
(* its change committed, and is let go of only once it has been told.      *)
THEOREM Implementation == Spec => ImplementsAnnouncements
<1>1. Init => Promised!Init
  BY DEF Init, Promised!Init
<1>2. QED
  BY <1>1, NextImplements, Invariance, PTL
     DEF Spec, ImplementsAnnouncements, Promised!Spec, Rows

-----------------------------------------------------------------------------
(* How many rows a batch has.                                              *)

Before(e) == {d \in pending : d < e}
After(e) == {d \in pending : d >= e}

LEMMA RowsAreFinite ==
    ASSUME TypeOK, NEW S, S \subseteq Rows
    PROVE  IsFiniteSet(S) /\ Cardinality(S) \in Nat
<1>1. S \in SUBSET Events
  BY DEF TypeOK, Rows
<1>2. QED
  BY <1>1, FS_Subset, FS_CardinalityType

(* claim_unpublished takes RELAY_BATCH rows at most: its last one has      *)
(* fewer than that before it, and all the others are.                      *)
LEMMA OldestIsABatch ==
    ASSUME TypeOK
    PROVE  Oldest \subseteq pending /\ Cardinality(Oldest) <= Batch
<1>1. Oldest \subseteq pending /\ pending \subseteq Events /\ Events \subseteq Nat
  BY DEF Oldest, TypeOK
<1>2. CASE Oldest = {}
  BY <1>1, <1>2, FS_EmptySet
<1>3. CASE Oldest # {}
  <2> DEFINE Tails == {After(e) : e \in Oldest}
  <2>1. IsFiniteSet(pending)
    BY <1>1, RowsAreFinite DEF Rows
  <2>2. Tails \subseteq FiniteSubsetsOf(pending)
    BY <2>1, FS_Subset DEF FiniteSubsetsOf, After
  <2>3. IsWellFoundedOn(StrictSubsetOrdering(pending), FiniteSubsetsOf(pending))
    BY FS_StrictSubsetOrderingWellFounded
  <2>4. PICK tail \in Tails : \A other \in Tails : <<other, tail>> \notin StrictSubsetOrdering(pending)
    <3>1. Tails # {}
      BY <1>3
    <3> HIDE DEF Tails
    <3>2. QED
      BY <2>2, <2>3, <3>1, WFMin
  <2>5. PICK e \in Oldest : tail = After(e)
    OBVIOUS
  <2>6. ASSUME NEW d \in Oldest PROVE d <= e
    <3>1. SUFFICES ASSUME d > e PROVE FALSE
      BY <1>1
    <3>0. pending \subseteq Nat /\ d \in pending /\ e \in pending
      BY <1>1
    <3>2. e \in After(e) /\ e \notin After(d)
      BY <3>0, <3>1 DEF After
    <3>5. ASSUME NEW x \in After(d) PROVE x \in After(e)
      BY <3>0, <3>1, <3>5 DEF After
    <3>3. After(d) \in Tails /\ After(d) \in SUBSET pending /\ After(e) \in SUBSET pending
      BY DEF After
    <3>4. QED
      BY <2>4, <2>5, <3>2, <3>3, <3>5 DEF StrictSubsetOrdering
  <2>7. Oldest \subseteq Before(e) \cup {e}
    BY <1>1, <2>6 DEF Before
  <2>8. IsFiniteSet(Before(e)) /\ Cardinality(Before(e)) \in Nat /\ Cardinality(Before(e)) < Batch
    BY RowsAreFinite DEF Before, Oldest, Rows
  <2>9. /\ IsFiniteSet(Before(e) \cup {e})
        /\ Cardinality(Before(e) \cup {e}) \in Nat /\ Cardinality(Before(e) \cup {e}) <= Cardinality(Before(e)) + 1
    <3>1. IsFiniteSet(Before(e) \cup {e})
      BY <2>8, FS_AddElement
    <3>2. Cardinality(Before(e) \cup {e}) = IF e \in Before(e) THEN Cardinality(Before(e)) ELSE Cardinality(Before(e)) + 1
      BY <2>8, FS_AddElement
    <3>3. QED
      BY <2>8, <3>1, <3>2
  <2>10. Cardinality(Oldest) \in Nat /\ Cardinality(Oldest) <= Cardinality(Before(e) \cup {e})
    BY <2>7, <2>9, FS_Subset, FS_CardinalityType
  <2>11. QED
    BY <1>1, <2>8, <2>9, <2>10
<1>4. QED
  BY <1>2, <1>3

-----------------------------------------------------------------------------
(* What a suspended tenant can still send.                                 *)

(* The publishes a relay can still make before it looks at the catalog.    *)
LeftOf(w) ==
    CASE w.at = "visiting" -> Batch
      [] w.at = "sending" -> Cardinality(w.batch)
      [] w.at = "confirmed" -> Cardinality(w.batch) - 1
      [] OTHER -> 0

Left(r) == LeftOf(relay[r])

Slots == {slot \in Relays \X (1..Batch) : slot[2] <= Left(slot[1])}

Bound == Batch * Cardinality(Relays)

Fits(w) == Cardinality(w.batch) <= Batch /\ (w.at = "confirmed" => w.batch # {})

BatchesFit == \A r \in Relays : Fits(relay[r])

SendsLeft ==
    /\ BatchesFit
    /\ late <= Bound
    /\ ~serving => late + Cardinality(Slots) <= Bound

(* There is no more room than one batch for each relay.                    *)
LEMMA SlotsBounded ==
    /\ IsFiniteSet(Relays \X (1..Batch)) /\ Bound \in Nat
    /\ \A S \in SUBSET (Relays \X (1..Batch)) :
          IsFiniteSet(S) /\ Cardinality(S) \in Nat /\ Cardinality(S) <= Bound
<1>1. IsFiniteSet(1..Batch) /\ Cardinality(1..Batch) = Batch
  BY FS_Interval
<1>2. IsFiniteSet(Relays) /\ Cardinality(Relays) \in Nat
  BY FS_CardinalityType
<1>3. /\ IsFiniteSet(Relays \X (1..Batch))
      /\ Cardinality(Relays \X (1..Batch)) = Cardinality(Relays) * Batch
  BY <1>1, <1>2, FS_Product
<1>4. Cardinality(Relays) * Batch = Bound /\ Bound \in Nat
  BY <1>2 DEF Bound
<1>5. QED
  BY <1>3, <1>4, FS_Subset, FS_CardinalityType

RelayWorks == [at : Places, batch : SUBSET Events]

LEMMA LeftIsNat ==
    ASSUME NEW w \in RelayWorks, Fits(w)
    PROVE  /\ IsFiniteSet(w.batch) /\ Cardinality(w.batch) \in 0..Batch
           /\ w.batch # {} => Cardinality(w.batch) > 0
           /\ LeftOf(w) \in 0..Batch
<1>1. w.batch \in SUBSET Events /\ w.at \in Places
  BY DEF RelayWorks
<1>2. IsFiniteSet(w.batch) /\ Cardinality(w.batch) \in Nat
  BY <1>1, FS_Subset, FS_CardinalityType
<1>3. Cardinality(w.batch) \in 0..Batch
  BY <1>2 DEF Fits
<1>4. w.batch # {} => Cardinality(w.batch) > 0
  BY <1>2, FS_EmptySet
<1>5. w.at = "confirmed" => w.batch # {}
  BY DEF Fits
<1>6. QED
  BY <1>1, <1>2, <1>3, <1>4, <1>5 DEF LeftOf, Places

LEMMA RelaysWork == TypeOK => relay \in [Relays -> RelayWorks]
<1> SUFFICES ASSUME TypeOK PROVE relay \in [Relays -> RelayWorks]
  OBVIOUS
<1>1. pending \cup published \subseteq Events
  BY DEF TypeOK
<1>2. QED
  BY <1>1 DEF TypeOK, RelayWorks

(* A relay that moves on with no more publishes left than it had.          *)
LEMMA SendsKept ==
    ASSUME TypeOK, TypeOK', SendsLeft, BatchesFit', NEW r \in Relays,
           \A q \in Relays \ {r} : relay'[q] = relay[q],
           Left(r)' <= Left(r), UNCHANGED <<late, serving>>
    PROVE  SendsLeft'
<1>1. Left(r) \in 0..Batch /\ Left(r)' \in 0..Batch
  <2>1. relay[r] \in RelayWorks /\ Fits(relay[r])
    BY RelaysWork DEF SendsLeft, BatchesFit
  <2>2. pending' \cup published' \subseteq Events
    BY DEF TypeOK
  <2>3. relay'[r] \in RelayWorks
    BY <2>2 DEF TypeOK, RelayWorks
  <2>4. Fits(relay'[r])
    BY DEF BatchesFit, Fits
  <2>5. LeftOf(relay[r]) \in 0..Batch /\ LeftOf(relay'[r]) \in 0..Batch
    BY <2>1, <2>3, <2>4, LeftIsNat
  <2>6. Left(r)' = LeftOf(relay'[r])
    BY DEF Left, LeftOf
  <2>7. QED
    BY <2>5, <2>6 DEF Left
<1>2. ASSUME NEW slot \in Slots' PROVE slot \in Slots
  <2>1. CASE slot[1] = r
    BY <1>1, <1>2, <2>1 DEF Slots
  <2>2. CASE slot[1] # r
    BY <1>2, <2>2 DEF Slots, Left, LeftOf
  <2>3. QED
    BY <2>1, <2>2
<1>3. Cardinality(Slots') \in Nat /\ Cardinality(Slots) \in Nat /\ Cardinality(Slots') <= Cardinality(Slots)
  <2>1. Slots' \in SUBSET Slots /\ Slots \in SUBSET (Relays \X (1..Batch))
    BY <1>2 DEF Slots
  <2>2. QED
    BY <2>1, SlotsBounded, FS_Subset, FS_CardinalityType
<1>4. Bound' = Bound /\ Bound \in Nat /\ late \in Nat
  BY SlotsBounded DEF Bound, TypeOK
<1>5. QED
  BY <1>3, <1>4 DEF SendsLeft

(* A relay that has used one of its publishes.                             *)
LEMMA SendsSpent ==
    ASSUME TypeOK, TypeOK', SendsLeft, BatchesFit', NEW r \in Relays,
           \A q \in Relays \ {r} : relay'[q] = relay[q],
           Left(r)' < Left(r), UNCHANGED serving, late' = IF serving THEN late ELSE late + 1
    PROVE  SendsLeft'
<1>1. Left(r) \in 0..Batch /\ Left(r)' \in 0..Batch
  <2>1. relay[r] \in RelayWorks /\ Fits(relay[r])
    BY RelaysWork DEF SendsLeft, BatchesFit
  <2>2. pending' \cup published' \subseteq Events
    BY DEF TypeOK
  <2>3. relay'[r] \in RelayWorks
    BY <2>2 DEF TypeOK, RelayWorks
  <2>4. Fits(relay'[r])
    BY DEF BatchesFit, Fits
  <2>5. LeftOf(relay[r]) \in 0..Batch /\ LeftOf(relay'[r]) \in 0..Batch
    BY <2>1, <2>3, <2>4, LeftIsNat
  <2>6. Left(r)' = LeftOf(relay'[r])
    BY DEF Left, LeftOf
  <2>7. QED
    BY <2>5, <2>6 DEF Left
<1> DEFINE slot == <<r, Left(r)>>
<1>2. ASSUME NEW other \in Slots' PROVE other \in Slots \ {slot}
  <2>1. CASE other[1] = r
    BY <1>1, <1>2, <2>1 DEF Slots
  <2>2. CASE other[1] # r
    BY <1>2, <2>2 DEF Slots, Left, LeftOf
  <2>3. QED
    BY <2>1, <2>2
<1>3. slot \in Slots
  BY <1>1 DEF Slots
<1>4. IsFiniteSet(Slots) /\ Cardinality(Slots) \in Nat /\ Cardinality(Slots) <= Bound
  BY SlotsBounded DEF Slots
<1>5. IsFiniteSet(Slots \ {slot}) /\ Cardinality(Slots \ {slot}) = Cardinality(Slots) - 1
  BY <1>3, <1>4, FS_RemoveElement
<1>6. Cardinality(Slots') \in Nat /\ Cardinality(Slots') <= Cardinality(Slots) - 1
  <2>1. Slots' \in SUBSET (Slots \ {slot})
    BY <1>2
  <2> HIDE DEF slot
  <2>2. QED
    BY <2>1, <1>5, FS_Subset, FS_CardinalityType
<1>7. Bound' = Bound /\ Bound \in Nat /\ late \in Nat
  BY SlotsBounded DEF Bound, TypeOK
<1>8. QED
  BY <1>4, <1>6, <1>7 DEF SendsLeft

LEMMA EnvironmentSends ==
    ASSUME TypeOK, SendsLeft,
           \/ \E e \in Events : enqueue(e)
           \/ Suspend \/ Resume \/ BrokerGoesDown \/ BrokerComesBack
    PROVE  SendsLeft'
<1>1. relay' = relay
  BY DEF enqueue, Suspend, Resume, BrokerGoesDown, BrokerComesBack
<1>2. BatchesFit' /\ Slots' = Slots /\ Bound' = Bound
  BY <1>1 DEF SendsLeft, BatchesFit, Fits, Slots, Left, LeftOf, Bound
<1>3. Bound \in Nat /\ Cardinality(Slots) \in Nat /\ Cardinality(Slots) <= Bound
  BY SlotsBounded DEF Slots
<1>4. CASE Suspend
  <2>1. late' = 0
    BY <1>4 DEF Suspend
  <2>2. QED
    BY <1>2, <1>3, <2>1 DEF SendsLeft
<1>5. CASE Resume
  BY <1>2, <1>5 DEF Resume, SendsLeft
<1>6. CASE (\E e \in Events : enqueue(e)) \/ BrokerGoesDown \/ BrokerComesBack
  <2>1. UNCHANGED <<late, serving>>
    BY <1>6 DEF enqueue, BrokerGoesDown, BrokerComesBack
  <2>2. QED
    BY <1>2, <2>1 DEF SendsLeft
<1>7. QED
  BY <1>4, <1>5, <1>6

LEMMA RelaySends ==
    ASSUME TypeOK, TypeOK', SendsLeft, NEW r \in Relays, active_tenants(r) \/ drain(r) \/ RelayDies(r)
    PROVE  SendsLeft'
<1>1. relay \in [Relays -> RelayType] /\ Events \subseteq Nat
  BY DEF TypeOK, RelayType, Rows
<1>2. /\ IsFiniteSet(relay[r].batch) /\ Cardinality(relay[r].batch) \in 0..Batch
      /\ relay[r].batch # {} => Cardinality(relay[r].batch) > 0
      /\ Left(r) \in 0..Batch
  <2>1. relay[r] \in RelayWorks /\ Fits(relay[r])
    BY RelaysWork DEF SendsLeft, BatchesFit
  <2>2. QED
    BY <2>1, LeftIsNat DEF Left
<1>3. BatchesFit
  BY DEF SendsLeft
<1>4. Cardinality({}) = 0
  BY FS_EmptySet
<1>5. ASSUME NEW w, relay' = [relay EXCEPT ![r] = w]
      PROVE  relay'[r] = w /\ \A q \in Relays \ {r} : relay'[q] = relay[q]
  BY <1>1, <1>5
<1>6. ASSUME NEW w, relay' = [relay EXCEPT ![r] = w], Fits(w)
      PROVE  BatchesFit' /\ Left(r)' = LeftOf(w)
  <2>1. \A q \in Relays : relay'[q] = IF q = r THEN w ELSE relay[q]
    BY <1>5, <1>6
  <2>2. \A q \in Relays : Fits(relay'[q])
    BY <1>3, <1>6, <2>1 DEF BatchesFit
  <2>3. BatchesFit'
    BY <2>2 DEF BatchesFit, Fits
  <2>4. relay'[r] = w
    BY <2>1
  <2>5. QED
    BY <2>3, <2>4 DEF Left, LeftOf
<1>7. ASSUME relay' = [relay EXCEPT ![r] = Asleep] PROVE BatchesFit' /\ Left(r)' = 0
  <2>1. Fits(Asleep)
    BY <1>4 DEF Asleep, Fits
  <2>2. LeftOf(Asleep) = 0
    BY DEF Asleep, LeftOf
  <2>3. QED
    BY <1>6, <1>7, <2>1, <2>2
<1>8. CASE active_tenants(r)
  <2>1. relay' = [relay EXCEPT ![r] = [relay[r] EXCEPT !.at = "visiting"]] /\ serving /\ UNCHANGED <<late, serving>>
    BY <1>8 DEF active_tenants
  <2> DEFINE w == [relay[r] EXCEPT !.at = "visiting"]
  <2>2. w.batch = relay[r].batch /\ w.at = "visiting"
    BY <1>1 DEF RelayType
  <2> HIDE DEF w
  <2>3. Fits(w)
    BY <1>2, <2>2 DEF Fits
  <2>4. BatchesFit'
    BY <1>6, <2>1, <2>3 DEF w
  <2>5. QED
    BY <2>1, <2>4 DEF SendsLeft, Bound
<1>9. CASE claim_unpublished(r)
  <2>0. relay[r].at = "visiting" /\ UNCHANGED <<late, serving>>
    BY <1>9 DEF claim_unpublished
  <2>1. Left(r) = Batch
    BY <2>0 DEF Left, LeftOf
  <2>2. CASE pending = {}
    <3>1. relay' = [relay EXCEPT ![r] = Asleep]
      BY <1>9, <2>2 DEF claim_unpublished
    <3>2. Left(r)' <= Left(r)
      BY <1>2, <1>7, <3>1
    <3>3. QED
      BY <1>5, <1>7, <2>0, <3>1, <3>2, SendsKept
  <2>3. CASE pending # {}
    <3> DEFINE w == [at |-> "sending", batch |-> Oldest]
    <3>1. relay' = [relay EXCEPT ![r] = w]
      BY <1>9, <2>3 DEF claim_unpublished
    <3>2. Cardinality(w.batch) <= Batch /\ w.at = "sending" /\ w.batch = Oldest
      BY OldestIsABatch
    <3> HIDE DEF w
    <3>3. Fits(w) /\ LeftOf(w) <= Batch
      BY <3>2 DEF Fits, LeftOf
    <3>4. BatchesFit' /\ Left(r)' = LeftOf(w)
      BY <1>6, <3>1, <3>3
    <3>5. Left(r)' <= Left(r)
      BY <2>1, <3>3, <3>4
    <3>6. QED
      BY <1>5, <2>0, <3>1, <3>4, <3>5, SendsKept
  <2>4. QED
    BY <2>2, <2>3
<1>10. ASSUME NEW e \in Events, Confirmed(r, e) PROVE SendsLeft'
  <2> DEFINE w == [relay[r] EXCEPT !.at = "confirmed"]
  <2>1. /\ relay[r].at = "sending" /\ e \in relay[r].batch /\ relay' = [relay EXCEPT ![r] = w]
        /\ UNCHANGED serving /\ late' = IF serving THEN late ELSE late + 1
    BY <1>10 DEF Confirmed, Current, Stores
  <2>2. w.at = "confirmed" /\ w.batch = relay[r].batch
    BY <1>1 DEF RelayType
  <2> HIDE DEF w
  <2>3. Fits(w) /\ LeftOf(w) = Cardinality(relay[r].batch) - 1
    BY <1>2, <2>1, <2>2 DEF Fits, LeftOf
  <2>4. BatchesFit' /\ Left(r)' = LeftOf(w)
    BY <1>6, <2>1, <2>3
  <2>5. Left(r) = Cardinality(relay[r].batch) /\ Left(r)' = Cardinality(relay[r].batch) - 1
    BY <2>1, <2>3, <2>4 DEF Left, LeftOf
  <2>6. Left(r)' < Left(r)
    BY <1>2, <2>5
  <2>7. QED
    BY <1>5, <2>1, <2>4, <2>6, SendsSpent
<1>11. ASSUME NEW e \in Events, ConfirmLost(r, e) PROVE SendsLeft'
  <2> DEFINE w == [relay[r] EXCEPT !.at = "refused"]
  <2>1. /\ relay[r].at = "sending" /\ e \in relay[r].batch /\ relay' = [relay EXCEPT ![r] = w]
        /\ UNCHANGED serving /\ late' = IF serving THEN late ELSE late + 1
    BY <1>11 DEF ConfirmLost, Current, Stores
  <2>2. w.at = "refused" /\ w.batch = relay[r].batch
    BY <1>1 DEF RelayType
  <2> HIDE DEF w
  <2>3. Fits(w) /\ LeftOf(w) = 0
    BY <1>2, <2>1, <2>2 DEF Fits, LeftOf
  <2>4. BatchesFit' /\ Left(r)' = LeftOf(w)
    BY <1>6, <2>1, <2>3
  <2>5. Left(r) = Cardinality(relay[r].batch) /\ Left(r)' = 0
    BY <2>1, <2>3, <2>4 DEF Left, LeftOf
  <2>6. Left(r)' < Left(r)
    BY <1>2, <2>1, <2>5
  <2>7. QED
    BY <1>5, <2>1, <2>4, <2>6, SendsSpent
<1>12. ASSUME NEW e \in Events, Refused(r, e) PROVE SendsLeft'
  <2> DEFINE w == [relay[r] EXCEPT !.at = "refused"]
  <2>1. relay' = [relay EXCEPT ![r] = w] /\ UNCHANGED <<late, serving>>
    BY <1>12 DEF Refused
  <2>2. w.at = "refused" /\ w.batch = relay[r].batch
    BY <1>1 DEF RelayType
  <2> HIDE DEF w
  <2>3. Fits(w) /\ LeftOf(w) = 0
    BY <1>2, <2>2 DEF Fits, LeftOf
  <2>4. BatchesFit' /\ Left(r)' = LeftOf(w)
    BY <1>6, <2>1, <2>3
  <2>5. Left(r)' <= Left(r)
    BY <1>2, <2>3, <2>4
  <2>6. QED
    BY <1>5, <2>1, <2>4, <2>5, SendsKept
<1>13. ASSUME NEW e \in Events, mark_published(r, e) PROVE SendsLeft'
  <2>1. /\ relay[r].at = "confirmed" /\ e \in relay[r].batch /\ relay' = [relay EXCEPT ![r] = Rest(r, e)]
        /\ UNCHANGED <<late, serving>>
    BY <1>13 DEF mark_published, Current
  <2>2. Left(r) = Cardinality(relay[r].batch) - 1
    BY <2>1 DEF Left, LeftOf
  <2>3. CASE relay[r].batch = {e}
    <3>1. relay' = [relay EXCEPT ![r] = Asleep]
      BY <2>1, <2>3 DEF Rest
    <3>2. Left(r)' <= Left(r)
      BY <1>2, <1>7, <3>1
    <3>3. QED
      BY <1>5, <1>7, <2>1, <3>1, <3>2, SendsKept
  <2>4. CASE relay[r].batch # {e}
    <3> DEFINE w == [at |-> "sending", batch |-> relay[r].batch \ {e}]
    <3>1. relay' = [relay EXCEPT ![r] = w]
      BY <2>1, <2>4 DEF Rest
    <3>2. w.at = "sending" /\ w.batch = relay[r].batch \ {e}
      OBVIOUS
    <3>3. Cardinality(relay[r].batch \ {e}) = Cardinality(relay[r].batch) - 1
      BY <1>2, <2>1, FS_RemoveElement
    <3> HIDE DEF w
    <3>4. Fits(w) /\ LeftOf(w) = Left(r)
      BY <1>2, <2>2, <3>2, <3>3 DEF Fits, LeftOf
    <3>5. BatchesFit' /\ Left(r)' = LeftOf(w)
      BY <1>6, <3>1, <3>4
    <3>6. Left(r)' <= Left(r)
      BY <1>2, <3>4, <3>5
    <3>7. QED
      BY <1>5, <2>1, <3>1, <3>5, <3>6, SendsKept
  <2>5. QED
    BY <2>3, <2>4
<1>14. ASSUME relay' = [relay EXCEPT ![r] = Asleep], UNCHANGED <<late, serving>> PROVE SendsLeft'
  <2>1. Left(r)' <= Left(r)
    BY <1>2, <1>7, <1>14
  <2>2. QED
    BY <1>5, <1>7, <1>14, <2>1, SendsKept
<1>15. CASE RelayDies(r)
  <2>1. CASE UNCHANGED <<stored, late>>
    BY <1>14, <1>15, <2>1 DEF RelayDies
  <2>2. CASE relay[r].at = "sending" /\ \E e \in Events : Current(r, e) /\ Stores(e)
    <3>1. PICK e \in Events : Current(r, e) /\ Stores(e)
      BY <2>2
    <3>2. relay' = [relay EXCEPT ![r] = Asleep] /\ UNCHANGED serving /\ late' = IF serving THEN late ELSE late + 1
      BY <1>15, <3>1 DEF RelayDies, Stores
    <3>3. Left(r) = Cardinality(relay[r].batch) /\ relay[r].batch # {}
      BY <2>2, <3>1 DEF Left, LeftOf, Current
    <3>4. Left(r)' < Left(r)
      BY <1>2, <1>7, <3>2, <3>3
    <3>5. QED
      BY <1>5, <1>7, <3>2, <3>4, SendsSpent
  <2>3. QED
    BY <1>15, <2>1, <2>2 DEF RelayDies
<1>16. QED
  BY <1>8, <1>9, <1>10, <1>11, <1>12, <1>13, <1>14, <1>15 DEF drain, publish, record_failure, StatementFails

LEMMA SendsInvariant == Spec => []SendsLeft
<1>1. Init => SendsLeft
  <2>1. SUFFICES ASSUME Init PROVE SendsLeft
    OBVIOUS
  <2>2. Bound \in Nat
    BY SlotsBounded
  <2>3. \A r \in Relays : relay[r] = Asleep
    BY <2>1 DEF Init
  <2>4. BatchesFit
    BY <2>3, FS_EmptySet DEF BatchesFit, Fits, Asleep
  <2>5. QED
    BY <2>1, <2>2, <2>4 DEF Init, SendsLeft
<1>2. TypeOK /\ TypeOK' /\ SendsLeft /\ [Next]_vars => SendsLeft'
  <2>1. SUFFICES ASSUME TypeOK, TypeOK', SendsLeft, [Next]_vars PROVE SendsLeft'
    OBVIOUS
  <2>2. CASE UNCHANGED vars
    BY <2>1, <2>2 DEF vars, SendsLeft, BatchesFit, Fits, Slots, Left, LeftOf, Bound
  <2>3. CASE Next
    BY <2>1, <2>3, EnvironmentSends, RelaySends DEF Next
  <2>4. QED
    BY <2>1, <2>2, <2>3
<1>3. QED
  BY <1>1, <1>2, TypeCorrect, PTL DEF Spec

(* A tenant that has been suspended is heard of no more than one batch for *)
(* each relay, however slow they are and whatever fails in between: what   *)
(* has been sent since and what relays can still send fit into that.       *)
THEOREM SuspensionHolds == Spec => []SuspensionTakesHold
<1>1. SendsLeft => SuspensionTakesHold
  BY DEF SendsLeft, SuspensionTakesHold, Bound
<1>2. QED
  BY <1>1, SendsInvariant, PTL

-----------------------------------------------------------------------------
(* How often an event is sent.                                             *)

(* The relays that can still store a copy of the event with nothing going  *)
(* wrong: of a row still pending, all but one that has its confirm; of a   *)
(* marked row, those that took it before it was marked.                    *)
Tellers(e) ==
    {r \in Relays : /\ e \in published => e \in relay[r].batch
                    /\ ~(relay[r].at = "confirmed" /\ Current(r, e))}

(* The copies of each event there are or will be, whatever else happens.   *)
Copies == [e \in Events |-> stored[e] + Cardinality(Tellers(e))]

Excess(f) == UNION {{e} \X (Cardinality(Relays) + 1 .. f[e]) : e \in Events}

Paid(f, n) == IsFiniteSet(Excess(f)) /\ Cardinality(Excess(f)) <= n

RepeatsPaid == Paid(Copies, faults)

(* A subset of what is paid for, or of that and one more.                  *)
LEMMA StillPaid ==
    ASSUME NEW f \in [Events -> Nat], NEW g \in [Events -> Nat], NEW n \in Nat, Paid(f, n),
           \A e \in Events : g[e] <= f[e]
    PROVE  Paid(g, n)
<1>1. Cardinality(Relays) \in Nat
  BY FS_CardinalityType
<1>2. Excess(g) \subseteq Excess(f)
  <2>1. SUFFICES ASSUME NEW e \in Events, NEW i \in Cardinality(Relays) + 1 .. g[e]
                 PROVE  i \in Cardinality(Relays) + 1 .. f[e]
    BY DEF Excess
  <2>2. QED
    BY <1>1
<1>3. QED
  BY <1>2, FS_Subset, FS_CardinalityType DEF Paid

LEMMA PaidAgain ==
    ASSUME NEW f \in [Events -> Nat], NEW g \in [Events -> Nat], NEW n \in Nat, Paid(f, n),
           NEW e \in Events, g[e] <= f[e] + 1, \A d \in Events \ {e} : g[d] <= f[d]
    PROVE  Paid(g, n + 1)
<1> DEFINE extra == <<e, f[e] + 1>>
<1>1. Cardinality(Relays) \in Nat
  BY FS_CardinalityType
<1>2. ASSUME NEW d \in Events, NEW i \in Cardinality(Relays) + 1 .. g[d], <<d, i>> # extra
      PROVE  i \in Cardinality(Relays) + 1 .. f[d]
  BY <1>1, <1>2
<1>3. Excess(g) \subseteq Excess(f) \cup {extra}
  <2>1. SUFFICES ASSUME NEW d \in Events, NEW i \in Cardinality(Relays) + 1 .. g[d], <<d, i>> # extra
                 PROVE  <<d, i>> \in Excess(f)
    BY DEF Excess
  <2>2. QED
    BY <1>2, <2>1 DEF Excess
<1> HIDE DEF extra
<1>4. /\ IsFiniteSet(Excess(f) \cup {extra})
      /\ Cardinality(Excess(f) \cup {extra}) \in {Cardinality(Excess(f)), Cardinality(Excess(f)) + 1}
  BY FS_AddElement DEF Paid
<1>5. Cardinality(Excess(f)) \in Nat /\ Cardinality(Excess(f)) <= n
  BY FS_CardinalityType DEF Paid
<1>6. IsFiniteSet(Excess(g)) /\ Cardinality(Excess(g)) <= Cardinality(Excess(f) \cup {extra}) /\ Cardinality(Excess(g)) \in Nat
  BY <1>3, <1>4, FS_Subset, FS_CardinalityType
<1>7. QED
  BY <1>4, <1>5, <1>6 DEF Paid

LEMMA TellersCount ==
    ASSUME NEW S \in SUBSET Relays
    PROVE  /\ IsFiniteSet(S) /\ Cardinality(S) \in Nat /\ Cardinality(S) <= Cardinality(Relays)
           /\ \A T \in SUBSET S : Cardinality(T) \in Nat /\ Cardinality(T) <= Cardinality(S)
           /\ \A r \in S : \A T \in SUBSET (S \ {r}) :
                 Cardinality(T) \in Nat /\ Cardinality(T) + 1 <= Cardinality(S)
           /\ \A r \in Relays : \A T \in SUBSET (S \cup {r}) :
                 Cardinality(T) \in Nat /\ Cardinality(T) <= Cardinality(S) + 1
<1>1. IsFiniteSet(S) /\ Cardinality(S) \in Nat /\ Cardinality(S) <= Cardinality(Relays)
  BY FS_Subset, FS_CardinalityType
<1>2. \A T \in SUBSET S : Cardinality(T) \in Nat /\ Cardinality(T) <= Cardinality(S)
  BY <1>1, FS_Subset, FS_CardinalityType
<1>3. ASSUME NEW r \in S, NEW T \in SUBSET (S \ {r})
      PROVE  Cardinality(T) \in Nat /\ Cardinality(T) + 1 <= Cardinality(S)
  <2>1. IsFiniteSet(S \ {r}) /\ Cardinality(S \ {r}) = Cardinality(S) - 1
    BY <1>1, FS_RemoveElement
  <2>2. Cardinality(T) \in Nat /\ Cardinality(T) <= Cardinality(S \ {r})
    BY <2>1, FS_Subset, FS_CardinalityType
  <2>3. QED
    BY <1>1, <2>1, <2>2
<1>4. ASSUME NEW r \in Relays, NEW T \in SUBSET (S \cup {r})
      PROVE  Cardinality(T) \in Nat /\ Cardinality(T) <= Cardinality(S) + 1
  <2>1. IsFiniteSet(S \cup {r}) /\ Cardinality(S \cup {r}) \in {Cardinality(S), Cardinality(S) + 1}
    BY <1>1, FS_AddElement
  <2>2. Cardinality(T) \in Nat /\ Cardinality(T) <= Cardinality(S \cup {r})
    BY <2>1, FS_Subset, FS_CardinalityType
  <2>3. QED
    BY <1>1, <2>1, <2>2
<1>5. QED
  BY <1>1, <1>2, <1>3, <1>4

LEMMA CopiesCount ==
    TypeOK => /\ Copies \in [Events -> Nat]
              /\ \A e \in Events : Cardinality(Tellers(e)) \in Nat /\ stored[e] \in Nat
<1> SUFFICES ASSUME TypeOK PROVE Copies \in [Events -> Nat]
                 /\ \A e \in Events : Cardinality(Tellers(e)) \in Nat /\ stored[e] \in Nat
  OBVIOUS
<1>1. ASSUME NEW e \in Events PROVE Cardinality(Tellers(e)) \in Nat /\ stored[e] \in Nat
  BY TellersCount DEF Tellers, TypeOK
<1>2. QED
  BY <1>1 DEF Copies

LEMMA CopiesPrimed ==
    ASSUME TypeOK'
    PROVE  /\ Copies' \in [Events -> Nat]
           /\ \A e \in Events : Cardinality(Tellers(e)') \in Nat /\ stored'[e] \in Nat
<1>1. ASSUME NEW e \in Events PROVE Cardinality(Tellers(e)') \in Nat /\ stored'[e] \in Nat
  <2>1. Tellers(e)' \in SUBSET Relays
    BY DEF Tellers
  <2>2. QED
    BY <2>1, TellersCount DEF TypeOK
<1>2. QED
  BY <1>1 DEF Copies

(* A step that makes room for no further copy of any event.                *)
LEMMA RepeatsKept ==
    ASSUME TypeOK, TypeOK', RepeatsPaid, faults' = faults \/ faults' = faults + 1,
           \A e \in Events : stored'[e] + Cardinality(Tellers(e)') <= stored[e] + Cardinality(Tellers(e))
    PROVE  RepeatsPaid'
<1>1. Copies \in [Events -> Nat] /\ Copies' \in [Events -> Nat] /\ faults \in Nat
  <2>1. Copies' \in [Events -> Nat]
    BY CopiesPrimed
  <2>2. QED
    BY <2>1, CopiesCount DEF TypeOK
<1>2. \A e \in Events : Copies'[e] <= Copies[e]
  BY DEF Copies
<1>3. Paid(Copies, faults)
  BY DEF RepeatsPaid
<1>4. Paid(Copies', faults)
  BY <1>1, <1>2, <1>3, StillPaid
<1>5. Paid(Copies', faults')
  BY <1>1, <1>4, FS_CardinalityType DEF Paid
<1>6. QED
  BY <1>5 DEF RepeatsPaid, Paid, Excess

(* A fault that makes room for one further copy of one event.              *)
LEMMA RepeatsAgain ==
    ASSUME TypeOK, TypeOK', RepeatsPaid, faults' = faults + 1, NEW e \in Events,
           stored'[e] + Cardinality(Tellers(e)') <= stored[e] + Cardinality(Tellers(e)) + 1,
           \A d \in Events \ {e} :
               stored'[d] + Cardinality(Tellers(d)') <= stored[d] + Cardinality(Tellers(d))
    PROVE  RepeatsPaid'
<1>1. Copies \in [Events -> Nat] /\ Copies' \in [Events -> Nat] /\ faults \in Nat
  <2>1. Copies' \in [Events -> Nat]
    BY CopiesPrimed
  <2>2. QED
    BY <2>1, CopiesCount DEF TypeOK
<1>2. Copies'[e] <= Copies[e] + 1 /\ \A d \in Events \ {e} : Copies'[d] <= Copies[d]
  BY DEF Copies
<1>3. Paid(Copies, faults)
  BY DEF RepeatsPaid
<1>4. Paid(Copies', faults + 1)
  BY <1>1, <1>2, <1>3, PaidAgain
<1>5. QED
  BY ONLY <1>4, faults' = faults + 1 DEF RepeatsPaid, Paid, Excess

LEMMA EnvironmentRepeats ==
    ASSUME TypeOK, TypeOK', RepeatsPaid,
           \/ \E e \in Events : enqueue(e)
           \/ Suspend \/ Resume \/ BrokerGoesDown \/ BrokerComesBack
    PROVE  RepeatsPaid'
<1>1. UNCHANGED <<published, relay, stored, faults>>
  BY DEF enqueue, Suspend, Resume, BrokerGoesDown, BrokerComesBack
<1>2. \A e \in Events : Tellers(e)' = Tellers(e)
  BY <1>1 DEF Tellers, Current
<1>3. \A e \in Events : stored'[e] + Cardinality(Tellers(e)') <= stored[e] + Cardinality(Tellers(e))
  BY <1>1, <1>2, CopiesCount
<1>4. QED
  BY <1>1, <1>3, RepeatsKept

(* A relay that goes back to sleep can store no more copies than before,   *)
(* but for the event whose confirm it had.                                 *)
LEMMA AsleepTellers ==
    ASSUME TypeOK, NEW r \in Relays, relay' = [relay EXCEPT ![r] = Asleep], published' = published,
           NEW e \in Events
    PROVE  /\ Tellers(e)' \subseteq Tellers(e) \cup {r}
           /\ ~(relay[r].at = "confirmed" /\ Current(r, e)) => Tellers(e)' \subseteq Tellers(e)
<1>1. \A q \in Relays : relay'[q] = IF q = r THEN Asleep ELSE relay[q]
  BY DEF TypeOK
<1>2. QED
  BY <1>1 DEF Tellers, Current, Asleep

(* The event a relay has reached is one.                                   *)
LEMMA OneCurrent ==
    ASSUME TypeOK, NEW r \in Relays, NEW e \in Events, NEW d \in Events, Current(r, e), Current(r, d)
    PROVE  d = e
<1>1. e \in Nat /\ d \in Nat /\ e <= d /\ d <= e
  BY DEF Current
<1>2. QED
  BY <1>1

LEMMA RelayRepeats ==
    ASSUME TypeOK, TypeOK', RepeatsPaid, NEW r \in Relays, active_tenants(r) \/ drain(r) \/ RelayDies(r)
    PROVE  RepeatsPaid'
<1>1. relay \in [Relays -> RelayType]
  BY DEF TypeOK, RelayType, Rows
<1>2. \A e \in Events : /\ Cardinality(Tellers(e)) \in Nat /\ stored[e] \in Nat
                        /\ Cardinality(Tellers(e)') \in Nat /\ stored'[e] \in Nat
  BY CopiesCount, CopiesPrimed
<1>3. \A e \in Events : Tellers(e) \in SUBSET Relays
  BY DEF Tellers
<1>4. ASSUME NEW e \in Events, Tellers(e)' \subseteq Tellers(e)
      PROVE  Cardinality(Tellers(e)') <= Cardinality(Tellers(e))
  BY <1>3, <1>4, TellersCount
<1>5. ASSUME UNCHANGED stored, faults' = faults \/ faults' = faults + 1,
             \A e \in Events : Tellers(e)' \subseteq Tellers(e)
      PROVE  RepeatsPaid'
  <2>1. \A e \in Events : stored'[e] + Cardinality(Tellers(e)') <= stored[e] + Cardinality(Tellers(e))
    BY <1>2, <1>4, <1>5
  <2>2. QED
    BY <1>5, <2>1, RepeatsKept
<1>6. ASSUME NEW e \in Events, Stores(e), faults' = faults + 1,
             \A d \in Events : Tellers(d)' \subseteq Tellers(d)
      PROVE  RepeatsPaid'
  <2>1. stored'[e] = stored[e] + 1 /\ \A d \in Events \ {e} : stored'[d] = stored[d]
    BY <1>6 DEF Stores, TypeOK
  <2>2. /\ stored'[e] + Cardinality(Tellers(e)') <= stored[e] + Cardinality(Tellers(e)) + 1
        /\ \A d \in Events \ {e} :
               stored'[d] + Cardinality(Tellers(d)') <= stored[d] + Cardinality(Tellers(d))
    BY <1>2, <1>4, <1>6, <2>1
  <2>3. QED
    BY <1>6, <2>2, RepeatsAgain
<1>7. CASE active_tenants(r)
  <2>1. UNCHANGED <<published, stored, faults>>
    BY <1>7 DEF active_tenants
  <2>2. \A q \in Relays : /\ relay'[q].batch = relay[q].batch
                          /\ relay'[q].at = "confirmed" => relay[q].at = "confirmed" /\ q # r
                          /\ q # r => relay'[q] = relay[q]
    BY <1>1, <1>7 DEF active_tenants, RelayType
  <2>3. relay[r].at = "asleep"
    BY <1>7 DEF active_tenants
  <2>4. \A e \in Events : Tellers(e)' \subseteq Tellers(e)
    BY <2>1, <2>2, <2>3 DEF Tellers, Current
  <2>5. QED
    BY <1>5, <2>1, <2>4
<1>8. CASE claim_unpublished(r)
  <2>1. UNCHANGED <<published, stored, faults>> /\ relay[r].at = "visiting"
    BY <1>8 DEF claim_unpublished
  <2>2. /\ \A q \in Relays : q # r => relay'[q] = relay[q]
        /\ relay'[r].batch \subseteq pending
    BY <1>1, <1>8 DEF claim_unpublished, Asleep, Oldest
  <2>3. \A e \in Events : Tellers(e)' \subseteq Tellers(e)
    <3>1. SUFFICES ASSUME NEW e \in Events, NEW q \in Tellers(e)' PROVE q \in Tellers(e)
      OBVIOUS
    <3>2. CASE q = r
      BY <2>1, <2>2, <3>2 DEF Tellers, TypeOK
    <3>3. CASE q # r
      BY <2>1, <2>2, <3>3 DEF Tellers, Current
    <3>4. QED
      BY <3>2, <3>3
  <2>4. QED
    BY <1>5, <2>1, <2>3
<1>9. ASSUME NEW e \in Events, Confirmed(r, e) PROVE RepeatsPaid'
  <2>1. /\ Stores(e) /\ UNCHANGED <<published, faults>> /\ Current(r, e) /\ relay[r].at = "sending"
        /\ relay' = [relay EXCEPT ![r].at = "confirmed"]
    BY <1>9 DEF Confirmed
  <2>2. /\ \A q \in Relays : relay'[q].batch = relay[q].batch /\ (q # r => relay'[q] = relay[q])
        /\ relay'[r].at = "confirmed"
    BY <1>1, <2>1 DEF RelayType
  <2>3. stored'[e] = stored[e] + 1 /\ \A d \in Events \ {e} : stored'[d] = stored[d]
    BY <2>1 DEF Stores, TypeOK
  <2>4. \A d \in Events : Tellers(d)' \subseteq Tellers(d)
    BY <2>1, <2>2 DEF Tellers, Current
  <2>5. r \in Tellers(e) /\ r \notin Tellers(e)'
    BY <2>1, <2>2 DEF Tellers, Current
  <2>6. Tellers(e)' \in SUBSET (Tellers(e) \ {r})
    BY <2>4, <2>5
  <2>7. Cardinality(Tellers(e)') + 1 <= Cardinality(Tellers(e))
    BY <1>3, <2>5, <2>6, TellersCount
  <2>8. \A d \in Events : stored'[d] + Cardinality(Tellers(d)') <= stored[d] + Cardinality(Tellers(d))
    <3>1. SUFFICES ASSUME NEW d \in Events
                   PROVE  stored'[d] + Cardinality(Tellers(d)') <= stored[d] + Cardinality(Tellers(d))
      OBVIOUS
    <3>2. CASE d = e
      BY <1>2, <2>3, <2>7, <3>2
    <3>3. CASE d # e
      <4>1. Cardinality(Tellers(d)') <= Cardinality(Tellers(d)) /\ stored'[d] = stored[d]
        BY <1>4, <2>3, <2>4, <3>3
      <4>2. QED
        BY <1>2, <4>1
    <3>4. QED
      BY <3>2, <3>3
  <2>9. QED
    BY <2>1, <2>8, RepeatsKept
<1>10. ASSUME NEW e \in Events, Refused(r, e) \/ ConfirmLost(r, e) PROVE RepeatsPaid'
  <2>1. /\ UNCHANGED published /\ relay[r].at = "sending"
        /\ relay' = [relay EXCEPT ![r].at = "refused"]
    BY <1>10 DEF Refused, ConfirmLost
  <2>2. /\ \A q \in Relays : relay'[q].batch = relay[q].batch /\ (q # r => relay'[q] = relay[q])
        /\ relay'[r].at = "refused"
    BY <1>1, <2>1 DEF RelayType
  <2>3. \A d \in Events : Tellers(d)' \subseteq Tellers(d)
    BY <2>1, <2>2 DEF Tellers, Current
  <2>4. QED
    BY <1>5, <1>6, <1>10, <2>3 DEF Refused, ConfirmLost
<1>11. ASSUME NEW e \in Events, mark_published(r, e) PROVE RepeatsPaid'
  <2>1. /\ UNCHANGED <<stored, faults>> /\ Current(r, e) /\ relay[r].at = "confirmed"
        /\ published' = published \cup {e}
    BY <1>11 DEF mark_published
  <2>2. /\ \A q \in Relays : q # r => relay'[q] = relay[q]
        /\ relay'[r].at # "confirmed" /\ relay'[r].batch = relay[r].batch \ {e}
    BY <1>1, <1>11 DEF mark_published, Rest, Asleep
  <2>3. \A d \in Events : Tellers(d)' \subseteq Tellers(d)
    <3>1. SUFFICES ASSUME NEW d \in Events, NEW q \in Tellers(d)' PROVE q \in Tellers(d)
      OBVIOUS
    <3>2. CASE q = r
      <4>1. d # e
        BY <2>1, <2>2, <3>2 DEF Tellers
      <4>2. ~Current(r, d)
        BY <2>1, <4>1, OneCurrent
      <4>3. QED
        BY <2>1, <2>2, <3>2, <4>2 DEF Tellers
    <3>3. CASE q # r
      BY <2>1, <2>2, <3>3 DEF Tellers, Current
    <3>4. QED
      BY <3>2, <3>3
  <2>4. QED
    BY <1>5, <2>1, <2>3
<1>12. ASSUME NEW e \in Events, record_failure(r, e) PROVE RepeatsPaid'
  <2>1. UNCHANGED <<published, stored, faults>> /\ relay[r].at = "refused" /\ relay' = [relay EXCEPT ![r] = Asleep]
    BY <1>12 DEF record_failure
  <2>2. \A d \in Events : Tellers(d)' \subseteq Tellers(d)
    BY <2>1, AsleepTellers
  <2>3. QED
    BY <1>5, <2>1, <2>2
<1>13. ASSUME relay' = [relay EXCEPT ![r] = Asleep], faults' = faults + 1, UNCHANGED <<published, stored>>
       PROVE  RepeatsPaid'
  <2>1. CASE relay[r].at = "confirmed" /\ \E e \in Events : Current(r, e)
    <3>1. PICK e \in Events : Current(r, e)
      BY <2>1
    <3>2. Tellers(e)' \in SUBSET (Tellers(e) \cup {r})
      BY <1>13, AsleepTellers
    <3>3. Cardinality(Tellers(e)') <= Cardinality(Tellers(e)) + 1
      BY <1>3, <3>2, TellersCount
    <3>4. ASSUME NEW d \in Events \ {e}
          PROVE  Cardinality(Tellers(d)') <= Cardinality(Tellers(d))
      <4>1. ~Current(r, d)
        BY <3>1, OneCurrent
      <4>2. Tellers(d)' \subseteq Tellers(d)
        BY <1>13, <4>1, AsleepTellers
      <4>3. QED
        BY <1>4, <4>2
    <3>5. /\ stored'[e] + Cardinality(Tellers(e)') <= stored[e] + Cardinality(Tellers(e)) + 1
          /\ \A d \in Events \ {e} :
                 stored'[d] + Cardinality(Tellers(d)') <= stored[d] + Cardinality(Tellers(d))
      BY <1>2, <1>13, <3>3, <3>4
    <3>6. QED
      BY <1>13, <3>5, RepeatsAgain
  <2>2. CASE ~(relay[r].at = "confirmed" /\ \E e \in Events : Current(r, e))
    <3>1. \A d \in Events : Tellers(d)' \subseteq Tellers(d)
      BY <1>13, <2>2, AsleepTellers
    <3>2. QED
      BY <1>5, <1>13, <3>1
  <2>3. QED
    BY <2>1, <2>2
<1>14. CASE StatementFails(r)
  BY <1>13, <1>14 DEF StatementFails
<1>15. CASE RelayDies(r)
  <2>1. relay' = [relay EXCEPT ![r] = Asleep] /\ faults' = faults + 1 /\ UNCHANGED published
    BY <1>15 DEF RelayDies
  <2>2. CASE UNCHANGED <<stored, late>>
    BY <1>13, <2>1, <2>2
  <2>3. CASE relay[r].at = "sending" /\ \E e \in Events : Current(r, e) /\ Stores(e)
    <3>1. \A d \in Events : Tellers(d)' \subseteq Tellers(d)
      BY <2>1, <2>3, AsleepTellers
    <3>2. QED
      BY <1>6, <2>1, <2>3, <3>1
  <2>4. QED
    BY <1>15, <2>2, <2>3 DEF RelayDies
<1>16. QED
  BY <1>7, <1>8, <1>9, <1>10, <1>11, <1>12, <1>14, <1>15 DEF drain, publish

LEMMA RepeatsInvariant == Spec => []RepeatsPaid
<1>1. Init => RepeatsPaid
  <2>1. SUFFICES ASSUME Init PROVE RepeatsPaid
    OBVIOUS
  <2>2. \A e \in Events : Tellers(e) \in SUBSET Relays /\ stored[e] = 0
    BY <2>1 DEF Tellers, Init
  <2>3. \A e \in Events : Copies[e] \in Nat /\ Copies[e] <= Cardinality(Relays)
    BY <2>2, TellersCount DEF Copies
  <2>4. Cardinality(Relays) \in Nat
    BY FS_CardinalityType
  <2>5. Excess(Copies) = {}
    BY <2>3, <2>4 DEF Excess
  <2>6. QED
    BY <2>1, <2>5, FS_EmptySet DEF RepeatsPaid, Paid, Init
<1>2. TypeOK /\ TypeOK' /\ RepeatsPaid /\ [Next]_vars => RepeatsPaid'
  <2>1. SUFFICES ASSUME TypeOK, TypeOK', RepeatsPaid, [Next]_vars PROVE RepeatsPaid'
    OBVIOUS
  <2>2. CASE UNCHANGED vars
    BY <2>1, <2>2 DEF vars, RepeatsPaid, Paid, Excess, Copies, Tellers, Current
  <2>3. CASE Next
    BY <2>1, <2>3, EnvironmentRepeats, RelayRepeats DEF Next
  <2>4. QED
    BY <2>1, <2>2, <2>3
<1>3. QED
  BY <1>1, <1>2, TypeCorrect, PTL DEF Spec

(* An event is told more often than once for each relay only by as many    *)
(* deaths, lost confirms and failed statements: the copies there are and   *)
(* those that relays can still store without one are paid for.             *)
THEOREM RepeatsAreCaused == Spec => []RepeatsHaveCauses
<1>1. TypeOK /\ RepeatsPaid => RepeatsHaveCauses
  <2>1. SUFFICES ASSUME TypeOK, RepeatsPaid PROVE RepeatsHaveCauses
    OBVIOUS
  <2>2. Copies \in [Events -> Nat] /\ \A e \in Events : stored[e] \in Nat /\ stored[e] <= Copies[e]
    <3>1. ASSUME NEW e \in Events PROVE stored[e] \in Nat /\ stored[e] <= Copies[e]
      <4>1. stored[e] \in Nat /\ Cardinality(Tellers(e)) \in Nat
        BY <2>1, CopiesCount
      <4>2. Copies[e] = stored[e] + Cardinality(Tellers(e))
        BY DEF Copies
      <4>3. QED
        BY <4>1, <4>2
    <3>2. QED
      BY <2>1, <3>1, CopiesCount
  <2> DEFINE told == [e \in Events |-> stored[e]]
  <2>3. told \in [Events -> Nat] /\ \A e \in Events : told[e] <= Copies[e]
    BY <2>2
  <2>4. faults \in Nat
    BY <2>1 DEF TypeOK
  <2>5. Paid(Copies, faults)
    BY <2>1 DEF RepeatsPaid
  <2>6. Excess(told) = Repeats
    BY DEF Excess, Repeats
  <2> HIDE DEF told
  <2>7. Paid(told, faults)
    BY <2>2, <2>3, <2>4, <2>5, StillPaid
  <2>8. QED
    BY <2>6, <2>7 DEF Paid, RepeatsHaveCauses
<1>2. QED
  BY <1>1, RepeatsInvariant, TypeCorrect, PTL
=============================================================================
