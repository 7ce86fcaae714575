---------------------------- MODULE Announcements ----------------------------
(***************************************************************************)
(* What the transactional outbox promises (phonix-db/src/outbox.rs, module *)
(* documentation): an event is announced by the change that commits it, is *)
(* told at least once, is told only if it was announced, and is let go of  *)
(* only after it has been told.                                            *)
(***************************************************************************)
EXTENDS Naturals

CONSTANTS
    Events  \* everything a change may announce

VARIABLES
    announced,  \* the events whose change has committed
    told,       \* how many copies of each event the broker has been given
    settled     \* the events nobody is going to tell again

Init ==
    /\ announced = {}
    /\ told = [e \in Events |-> 0]
    /\ settled = {}

Announce ==
    /\ \E e \in Events \ announced : announced' = announced \cup {e}
    /\ UNCHANGED <<told, settled>>

Tell ==
    /\ \E e \in announced : told' = [told EXCEPT ![e] = told[e] + 1]
    /\ UNCHANGED <<announced, settled>>

Settle ==
    /\ \E e \in announced : told[e] > 0 /\ settled' = settled \cup {e}
    /\ UNCHANGED <<announced, told>>

Next == Announce \/ Tell \/ Settle

Spec == Init /\ [][Next]_<<announced, told, settled>>
=============================================================================
