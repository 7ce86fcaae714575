------------------------------ MODULE MCOutbox ------------------------------
(* Instances of Outbox for TLC: three events, and the relays of two server *)
(* processes.                                                              *)
EXTENDS Outbox

CONSTANTS r1, r2

ThreeEvents == 1..3
TwoRelays == {r1, r2}
=============================================================================
