------------------------------ MODULE MCRegistry ------------------------------
(* Instances of TenantRegistry for TLC: two requests, which are visitors   *)
(* and operators in turn, and a workspace that appears, stops and resumes. *)
EXTENDS TenantRegistry

CONSTANTS r1, r2, p1, p2

TwoRequests == {r1, r2}
TwoPools == {p1, p2}
OneApp == <<"core">>
ServingActs == {"auto", "suspend", "resume"}
=============================================================================
