---------------------------- MODULE MCProvisioning ----------------------------
(* Instances of Provisioning for TLC: two requests, two apps, and either   *)
(* every job but those of the registry, or signing up alone.               *)
EXTENDS Provisioning

CONSTANTS r1, r2

TwoRequests == {r1, r2}
OneApp == <<"core">>
TwoApps == <<"core", "books">>
DeskAndSignup == Kinds \ {"auto"}
SignupOnly == {"signup"}
=============================================================================
