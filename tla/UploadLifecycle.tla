--------------------------- MODULE UploadLifecycle ---------------------------
(***************************************************************************)
(* What the upload pipeline promises, without workers, claims, objects or  *)
(* retries: the life of a row as the head of 0009_files.sql draws it, with *)
(* the one event a decision commits together with it.                      *)
(*                                                                         *)
(*   received/verifying = pending --> stored | rejected   and told         *)
(*                                --> failed              and not told     *)
(***************************************************************************)
CONSTANT Files

VARIABLES
    state,  \* absent, pending, or how the upload ended
    told    \* what its events said of the file: a set of outcomes

lifecycle == <<state, told>>

Init ==
    /\ state = [f \in Files |-> "absent"]
    /\ told = [f \in Files |-> {}]

Receive(f) ==
    /\ state[f] = "absent" /\ told[f] = {}
    /\ state' = [state EXCEPT ![f] = "pending"]
    /\ UNCHANGED told

(* The decision and its announcement are one step.                         *)
Decide(f) ==
    /\ state[f] = "pending"
    /\ \E outcome \in {"stored", "rejected"} :
         /\ state' = [state EXCEPT ![f] = outcome]
         /\ told' = [told EXCEPT ![f] = {outcome}]

GiveUp(f) ==
    /\ state[f] = "pending"
    /\ state' = [state EXCEPT ![f] = "failed"]
    /\ UNCHANGED told

Remove(f) ==
    /\ state[f] \in {"stored", "rejected", "failed"}
    /\ state' = [state EXCEPT ![f] = "absent"]
    /\ UNCHANGED told

Next == \E f \in Files : Receive(f) \/ Decide(f) \/ GiveUp(f) \/ Remove(f)

(* A row that was received does not stay pending.                          *)
Spec ==
    /\ Init /\ [][Next]_lifecycle
    /\ \A f \in Files : WF_lifecycle(Decide(f) \/ GiveUp(f))
=============================================================================
