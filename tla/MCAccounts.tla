------------------------------- MODULE MCAccounts -------------------------------
EXTENDS Accounts, TLC

CONSTANTS r1, r2, s1, s2, t1, t2, f1, f2, k1

Symmetry == Permutations({r1, r2}) \cup Permutations({s1, s2}) \cup Permutations({t1, t2})
              \cup Permutations({f1, f2})

\* What meets: signing in and the status of the account, the challenge and the
\* factors, the passwords and the secrets that set them.
Mix(kinds, arrivals) == [kinds |-> kinds, arrivals |-> arrivals]
Families == {Mix({"sign_in", "set_status", "use"}, 2),
             Mix({"sign_in", "handoff", "settings"}, 2),
             Mix({"sign_in", "answer", "codes", "sign_out"}, 2), Mix({"answer"}, 3),
             Mix({"begin", "confirm", "remove", "reset_factors"}, 2), Mix({"begin", "confirm", "remove"}, 3),
             Mix({"request_reset", "redeem_reset", "change"}, 2), Mix({"redeem_reset"}, 3),
             Mix({"resend", "accept", "set_status"}, 2)}
=============================================================================
