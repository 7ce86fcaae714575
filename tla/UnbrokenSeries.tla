---------------------------- MODULE UnbrokenSeries ----------------------------
(***************************************************************************)
(* What a document series promises (migration 0016, `gap-free document     *)
(* numbers').  A number is issued once, for good, and its counter either   *)
(* follows one already issued in the same period or is a start an          *)
(* administrator set.                                                      *)
(***************************************************************************)
EXTENDS Integers

CONSTANTS
    FirstStart  \* where the series begins when the app is installed

VARIABLES
    issued,  \* the numbers handed out, with the period and counter of each
    starts   \* every value start_at has had

Init ==
    /\ issued = {}
    /\ starts = {FirstStart}

Follows(period, counter) ==
    \/ counter \in starts
    \/ \E m \in issued : m.period = period /\ m.counter = counter - 1

Issue ==
    /\ \E n \in issued' :
         /\ issued' = issued \cup {n}
         /\ \A m \in issued : m.number # n.number
         /\ Follows(n.period, n.counter)
    /\ UNCHANGED starts

MoveStart ==
    /\ \E s \in starts' : starts' = starts \cup {s}
    /\ UNCHANGED issued

Next == Issue \/ MoveStart

Spec == Init /\ [][Next]_<<issued, starts>>
=============================================================================
