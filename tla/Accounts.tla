------------------------------- MODULE Accounts -------------------------------
(***************************************************************************)
(* One account of a workspace, and the requests that sign it in, keep it   *)
(* signed in and change what it takes to sign in.                          *)
(*                                                                         *)
(*   phonix-services/src/identity/authentication.rs   sign_in, the handoff  *)
(*   phonix-services/src/identity/mfa.rs              factors, the challenge *)
(*   phonix-services/src/identity/password.rs         its change            *)
(*   phonix-services/src/identity/password_reset.rs   the emailed code      *)
(*   phonix-services/src/identity/invitation.rs       the first password    *)
(*   phonix-services/src/identity/directory.rs        the account's status  *)
(*   phonix-db/src/identity/{user,session,mfa,one_time_token}.rs            *)
(*                                                                         *)
(* A step is one statement or one transaction: nothing of a request holds  *)
(* a lock from one to the next, so what it read is old by the time it      *)
(* writes.  One that dies takes no further step, which each of them may do  *)
(* at any time: nothing here is bound to happen.  A password is the count   *)
(* of those there have been; a secret is the row that stores its digest,   *)
(* and whether what was typed matches it is a choice.                      *)
(***************************************************************************)
EXTENDS Naturals, FiniteSets

CONSTANTS
    Requests,        \* the requests that may be in progress at the same time
    Sessions,        \* rows of sessions
    Tokens,          \* rows of user_tokens
    Authenticators,  \* rows of user_mfa_factors of kind totp
    RecoveryCodes,   \* rows of user_mfa_factors of kind recovery_code
    NULL,            \* no row
    Mixes,           \* bound: which kinds of request meet, and how many arrive
    MaxFailures,     \* lockout.max_failed_attempts
    MaxAnswers,      \* mfa.max_challenge_attempts
    MaxGuesses,      \* password_reset.max_attempts
    MaxPasswords,    \* bound: how many passwords there have been
    MaxRequests      \* bound: how many requests arrive in any mix

\* What a session is presented for, what an administrator does to the account,
\* and what needs neither.
SelfService == {"use", "begin", "confirm", "remove", "codes", "change"}
Administration == {"set_status", "reset_factors", "resend", "settings"}
Kinds == SelfService \cup Administration
           \cup {"sign_in", "handoff", "answer", "sign_out",
                 "request_reset", "redeem_reset", "accept"}

ASSUME AccountsAssumption ==
    /\ NULL \notin Sessions \cup Tokens \cup Authenticators
    /\ Tokens \cap RecoveryCodes = {} /\ IsFiniteSet(Authenticators)
    /\ Mixes \subseteq [kinds : SUBSET Kinds, arrivals : 0..MaxRequests]
    /\ MaxFailures \in Nat /\ MaxAnswers \in Nat \ {0} /\ MaxGuesses \in Nat
    /\ MaxPasswords \in Nat \ {0}
    /\ MaxRequests \in Nat

VARIABLES
    user,      \* the row of users
    policy,    \* the enforcement of second factors; a grace period has run out
    sessions,  \* the rows of sessions
    tokens,    \* the rows of user_tokens
    factors,   \* what each authenticator is to the account
    codes,     \* what each recovery code is to the account
    calls,     \* what each request is doing
    mix,       \* the requests of this behaviour
    arrived,   \* history: how many requests have arrived
    tries,     \* history: wrong passwords since a right one or the end of a lock
    honoured,  \* history: how often each secret was taken
    barred,    \* history: requests that never saw the account allowed to sign in
    due,       \* history: requests that never saw it free of a second factor
    strict     \* history: whether the policy has been "required" all along

rows == <<user, policy, sessions, tokens, factors, codes>>
history == <<arrived, tries, honoured, strict>>
vars == <<rows, calls, mix, history, barred, due>>

-----------------------------------------------------------------------------
(* The rows                                                                *)

Statuses == {"pending", "active", "suspended", "deactivated"}
Policies == {"disabled", "optional", "required"}
Purposes == {"password_reset", "invitation", "session_handoff"}

\* `weak` is a hash made under weaker parameters than the current ones.
Users == [status : Statuses, password : 0..MaxPasswords, weak : BOOLEAN, must_change : BOOLEAN,
          failed : Nat, locked : BOOLEAN, mfa_enabled : BOOLEAN]

\* users_password_or_pending: an account that can sign in has something to do it with.
password_or_pending(u) == u.password # 0 \/ u.status \in {"pending", "deactivated"}

can_sign_in(u) == u.status = "active" /\ ~u.locked
can_reset(u) == u.status = "active" /\ u.password # 0
is_fully_authenticated(u, mfa) == u.status = "active" /\ (u.mfa_enabled => mfa)

Confirmed == {f \in Authenticators : factors[f] = "confirmed"}
Pending == {f \in Authenticators : factors[f] = "pending"}
LiveCodes == {c \in RecoveryCodes : codes[c] = "live"}

allows_without_factor(p) == p # "required"
challenges_existing(p) == p # "disabled"
allows_enrolment(p) == p # "disabled"
FactorIsDue == Confirmed # {} /\ challenges_existing(policy)

\* A challenge that has run out and one never started read the same.
NoSession == [state |-> "free", mfa |-> FALSE, challenge |-> FALSE, wrong |-> 0]
NoToken == [state |-> "free", purpose |-> "invitation", wrong |-> 0]

Invited == [status |-> "pending", password |-> 0, weak |-> FALSE, must_change |-> FALSE,
            failed |-> 0, locked |-> FALSE, mfa_enabled |-> FALSE]
\* An account in use, whose password is to be hashed anew and changed, or not.
Established(old, app) ==
    [Invited EXCEPT !.status = "active", !.password = 1, !.weak = old, !.must_change = old,
                    !.mfa_enabled = (app # {})]

Places == {"idle", "find", "verified", "lock_out", "upgraded", "decide", "open", "challenge", "admitted",
           "resume", "account", "state", "answered", "exhausted", "expired", "policy", "insert",
           "confirm", "codes", "list", "delete", "commit", "read", "set", "revoke", "revoke_tokens",
           "supersede", "issue", "consume", "consume_code", "apply", "write"}
Outcomes == {"signed_in", "challenge", "enrol", "change"}

Calls == [kind : Kinds, at : Places, session : Sessions \cup {NULL},
          token : Tokens \cup {NULL}, factor : Authenticators \cup {NULL}, seen : SUBSET Authenticators,
          mfa : BOOLEAN, saw : Users, policy : Policies, outcome : Outcomes, purpose : Purposes]
Idle == [kind |-> "use", at |-> "idle", session |-> NULL, token |-> NULL, factor |-> NULL,
         seen |-> {}, mfa |-> FALSE, saw |-> Invited, policy |-> "disabled", outcome |-> "signed_in",
         purpose |-> "session_handoff"]

\* An account that was invited, or one that has been in use: with an app that is
\* confirmed, an enrolment that is begun, both or neither, signed in, waiting at
\* the code box or nowhere, with at most one secret out, and a password that is up
\* to date or in need of a change.
InitUser(purpose, app, begun, open, old) ==
    \/ user = Invited /\ purpose = "invitation" /\ app \cup begun \cup open = {}
    \/ user = Established(old, app) /\ purpose # "invitation"

\* Bound: a secret is out where some request of the mix takes or replaces it; a
\* password is in need of a change where somebody signs in, who alone reads that,
\* and an enrolment is begun where somebody may go on with it or remove it.
OfUse == [session_handoff |-> {"sign_in", "handoff"}, password_reset |-> {"request_reset", "redeem_reset"},
          invitation |-> {"resend", "accept"}]

InitFactors(app, begun) ==
    /\ Cardinality(app) <= 1 /\ Cardinality(begun) <= 1 /\ app \cap begun = {}
    /\ factors = [f \in Authenticators |->
          IF f \in app THEN "confirmed" ELSE IF f \in begun THEN "pending" ELSE "free"]

Init ==
    /\ policy \in Policies /\ mix \in Mixes
    /\ \E out \in SUBSET Tokens, purpose \in Purposes, app, begun \in SUBSET Authenticators,
          code \in SUBSET RecoveryCodes, open \in SUBSET Sessions, satisfied, old \in BOOLEAN :
          /\ Cardinality(out) <= 1 /\ (out = {} \/ OfUse[purpose] \cap mix.kinds # {})
          /\ Cardinality(open) <= 1 /\ (old => "sign_in" \in mix.kinds)
          /\ InitUser(purpose, app, begun, open, old) /\ InitFactors(app, begun)
          /\ begun = {} \/ mix.kinds \cap {"begin", "confirm", "remove", "reset_factors"} # {}
          /\ Cardinality(code) <= 1 /\ (app = {} => code = {})
          /\ ~satisfied => app # {} /\ open # {}
          /\ codes = [c \in RecoveryCodes |-> IF c \in code THEN "live" ELSE "free"]
          /\ sessions = [s \in Sessions |->
                IF s \in open THEN [state |-> "live", mfa |-> satisfied, challenge |-> ~satisfied, wrong |-> 0]
                              ELSE NoSession]
          /\ tokens = [t \in Tokens |->
                IF t \in out THEN [state |-> "live", purpose |-> purpose, wrong |-> 0] ELSE NoToken]
    /\ calls = [r \in Requests |-> Idle]
    /\ arrived = 0 /\ tries = 0
    /\ honoured = [x \in Tokens \cup RecoveryCodes |-> 0]
    /\ barred = Requests /\ due = Requests
    /\ strict = (policy = "required")

-----------------------------------------------------------------------------
(* Requests                                                                *)

At(r, kinds, place) == calls[r].at = place /\ calls[r].kind \in kinds

\* The two histories of a request lose it after the first state of its run that
\* would have let it through; only those that let somebody in are watched.
Observe ==
    /\ barred' = {r \in Requests : calls[r].at = "idle"
          \/ (r \in barred /\ calls[r].kind \in {"sign_in", "handoff", "use"} /\ ~can_sign_in(user))}
    /\ due' = {r \in Requests : calls[r].at = "idle"
          \/ (r \in due /\ calls[r].kind \in {"sign_in", "handoff"} /\ FactorIsDue)}
    /\ UNCHANGED mix

Become(r, call) == calls' = [calls EXCEPT ![r] = call] /\ Observe
Goto(r, place) == Become(r, [calls[r] EXCEPT !.at = place])
End(r) == Become(r, Idle)

\* Its token is with somebody: a session that is being opened is known to nobody.
InHand(s) ==
    /\ sessions[s].state = "live"
    /\ \A r \in Requests : calls[r].session = s => calls[r].kind \notin {"sign_in", "handoff"}

Arrive(r, kind, call) ==
    /\ kind \in mix.kinds /\ calls[r].at = "idle" /\ arrived < mix.arrivals
    /\ arrived' = arrived + 1
    /\ Become(r, [call EXCEPT !.kind = kind])
    /\ UNCHANGED <<rows, tries, honoured, strict>>

ArriveWithSession(r) ==
    \E kind \in SelfService \cup {"answer", "sign_out"}, s \in Sessions :
        /\ InHand(s)
        /\ Arrive(r, kind, [Idle EXCEPT !.at = "resume", !.session = s])

ArriveAnonymous(r) ==
    \/ \E kind \in {"sign_in", "request_reset", "redeem_reset"} :
          Arrive(r, kind, [Idle EXCEPT !.at = "find"])
    \/ \E t \in Tokens :
          /\ tokens[t].state # "free"
          /\ \/ /\ tokens[t].purpose = "session_handoff"
                /\ Arrive(r, "handoff", [Idle EXCEPT !.at = "consume", !.token = t])
             \/ /\ tokens[t].purpose = "invitation"
                /\ Arrive(r, "accept", [Idle EXCEPT !.at = "consume", !.token = t])

ArriveAdministrator(r) ==
    \E kind \in Administration : Arrive(r, kind, [Idle EXCEPT !.at = "find"])

-----------------------------------------------------------------------------
(* sign_in                                                                 *)

\* find_by_email; a locked account, one without a password and one that is not
\* active are turned away before the password is looked at.
\* Mutant: only the lock is looked at.
FindAnyEmail(r) ==
    /\ At(r, {"sign_in"}, "find")
    /\ IF ~user.locked /\ user.password # 0
       THEN Become(r, [calls[r] EXCEPT !.at = "verified", !.saw = user])
       ELSE End(r)
    /\ UNCHANGED <<rows, history>>

FindByEmail(r) ==
    /\ At(r, {"sign_in"}, "find")
    /\ IF can_sign_in(user) /\ user.password # 0
       THEN Become(r, [calls[r] EXCEPT !.at = "verified", !.saw = user])
       ELSE End(r)
    /\ UNCHANGED <<rows, history>>

\* record_failed_login: the count and the lock in one statement.  Nothing but a
\* right password sets the count back.
record_failed_login(u) ==
    [u EXCEPT !.failed = @ + 1, !.locked = @ \/ (MaxFailures > 0 /\ u.failed + 1 >= MaxFailures)]

WrongPassword(r) ==
    /\ At(r, {"sign_in"}, "verified")
    /\ user' = record_failed_login(user)
    /\ tries' = tries + 1
    /\ IF MaxFailures > 0 /\ user'.locked THEN Goto(r, "lock_out") ELSE End(r)
    /\ UNCHANGED <<policy, sessions, tokens, factors, codes, arrived, honoured, strict>>

revoke_all(ss, kept) == [s \in Sessions |->
    IF ss[s].state = "live" /\ s # kept THEN [ss[s] EXCEPT !.state = "over"] ELSE ss[s]]

LockOut(r) ==
    /\ At(r, {"sign_in"}, "lock_out")
    /\ sessions' = revoke_all(sessions, NULL)
    /\ End(r)
    /\ UNCHANGED <<user, policy, tokens, factors, codes, history>>

set_password_hash(u, p) == [u EXCEPT !.password = p, !.weak = FALSE, !.must_change = FALSE]

\* needs_rehash: the hash that was read is replaced by a stronger one of the
\* same password, whatever the row holds by now; or it could not be made, and the
\* old one stays.
UpgradeHash(r) ==
    /\ At(r, {"sign_in"}, "verified")
    /\ calls[r].saw.weak
    /\ user' \in {set_password_hash(user, calls[r].saw.password), user}
    /\ Goto(r, "upgraded")
    /\ UNCHANGED <<policy, sessions, tokens, factors, codes, history>>

\* record_successful_login, then the settings are loaded.
RecordSuccess(r) ==
    /\ \/ At(r, {"sign_in"}, "verified") /\ ~calls[r].saw.weak
       \/ At(r, {"sign_in"}, "upgraded")
    /\ user' = [user EXCEPT !.failed = 0, !.locked = FALSE]
    /\ tries' = 0
    /\ Goto(r, "policy")
    /\ UNCHANGED <<policy, sessions, tokens, factors, codes, arrived, honoured, strict>>

-----------------------------------------------------------------------------
(* What happens to somebody whose password, or handoff, was right          *)

LoadSettings(r) ==
    /\ At(r, {"sign_in", "handoff", "begin", "remove"}, "policy")
    /\ Become(r, [calls[r] EXCEPT !.policy = policy, !.at =
                       IF calls[r].kind \in {"begin", "remove"} THEN "list" ELSE "decide"])
    /\ UNCHANGED <<rows, history>>

\* Outcome::decide, from the account that was read first and the factors there
\* are now.
\* Mutant: what the policy asks of newcomers is asked first.
decideOnPolicy(saw, p) ==
    IF saw.must_change THEN "change"
    ELSE IF allows_without_factor(p) THEN "signed_in"
    ELSE IF Confirmed # {} THEN "challenge" ELSE "enrol"

decide(saw, p) ==
    IF saw.must_change THEN "change"
    ELSE IF Confirmed # {} THEN (IF challenges_existing(p) THEN "challenge" ELSE "signed_in")
    ELSE IF allows_without_factor(p) THEN "signed_in" ELSE "enrol"

Decide(r) ==
    /\ At(r, {"sign_in", "handoff"}, "decide")
    /\ LET outcome == decide(calls[r].saw, calls[r].policy)
       IN  \/ Become(r, [calls[r] EXCEPT !.at = "open", !.outcome = outcome])
           \/ /\ calls[r].kind = "sign_in"     \* Delivery::Handoff: no session is opened here
              /\ Become(r, [calls[r] EXCEPT !.at = "supersede", !.purpose = "session_handoff"])
    /\ UNCHANGED <<rows, history>>

\* open_session inserts the row; a challenge is started by a statement of its own.
OpenSession(r) ==
    /\ At(r, {"sign_in", "handoff"}, "open")
    /\ \E s \in Sessions :
          /\ sessions[s].state = "free"
          /\ sessions' = [sessions EXCEPT ![s] =
                [NoSession EXCEPT !.state = "live", !.mfa = (calls[r].outcome = "signed_in")]]
          /\ Become(r, [calls[r] EXCEPT !.session = s,
                           !.at = IF calls[r].outcome = "challenge" THEN "challenge" ELSE "admitted"])
    /\ UNCHANGED <<user, policy, tokens, factors, codes, history>>

StartChallenge(r) ==
    /\ At(r, {"sign_in", "handoff"}, "challenge")
    /\ sessions' = [sessions EXCEPT ![calls[r].session].challenge = TRUE]
    /\ Goto(r, "admitted")
    /\ UNCHANGED <<user, policy, tokens, factors, codes, history>>

\* The answer leaves: a cookie, or the page that was asked for.
Respond(r) ==
    /\ calls[r].at = "admitted"
    /\ End(r)
    /\ UNCHANGED <<rows, history>>

-----------------------------------------------------------------------------
(* Requests that present a session                                         *)

\* touch: the row that is neither revoked nor past its deadlines.  Signing out
\* revokes it by the same digest; the challenge goes on without the account.
Resume(r) ==
    /\ calls[r].at = "resume"
    /\ IF sessions[calls[r].session].state # "live" THEN End(r) /\ UNCHANGED sessions
       ELSE CASE calls[r].kind = "sign_out" ->
                   /\ sessions' = [sessions EXCEPT ![calls[r].session].state = "over"]
                   /\ End(r)
              [] calls[r].kind = "answer" -> Goto(r, "state") /\ UNCHANGED sessions
              [] OTHER -> /\ Become(r, [calls[r] EXCEPT !.at = "account",
                                           !.mfa = sessions[calls[r].session].mfa])
                          /\ UNCHANGED sessions
    /\ UNCHANGED <<user, policy, tokens, factors, codes, history>>

\* authenticate_session reads the account after the session, revokes the session of one that may
\* not sign in, and hands the rest to what was asked for.  Changing one's own
\* password asks for somebody who is signed in; everything else for somebody
\* whose sign-in is complete.
Authenticate(r) ==
    /\ At(r, SelfService, "account")
    /\ LET s == calls[r].session
           next == CASE calls[r].kind = "use" -> "admitted"
                     [] calls[r].kind \in {"begin", "remove"} -> "policy"
                     [] calls[r].kind = "change" -> "read"
                     [] OTHER -> calls[r].kind
           enough == calls[r].kind = "change" \/ is_fully_authenticated(user, calls[r].mfa)
       IN  IF ~can_sign_in(user)
           THEN sessions' = [sessions EXCEPT ![s].state = "over"] /\ End(r)
           ELSE /\ IF enough THEN Goto(r, next) ELSE End(r)
                /\ UNCHANGED sessions
    /\ UNCHANGED <<user, policy, tokens, factors, codes, history>>

-----------------------------------------------------------------------------
(* The challenge                                                           *)

\* challenge_state: an unanswered challenge of a live session.
ReadChallenge(r) ==
    /\ At(r, {"answer"}, "state")
    /\ LET s == sessions[calls[r].session]
       IN  IF s.state # "live" \/ s.mfa THEN End(r)
           ELSE Goto(r, IF s.challenge THEN "answered" ELSE "expired")
    /\ UNCHANGED <<rows, history>>

\* verify_code: the authenticator, then the recovery codes, one of which is
\* deleted by the statement that finds it.
RightCode(r) ==
    /\ At(r, {"answer"}, "answered")
    /\ \/ /\ Confirmed # {}
          /\ UNCHANGED <<codes, honoured>>
       \/ \E c \in LiveCodes :
             /\ codes' = [codes EXCEPT ![c] = "gone"]
             /\ honoured' = [honoured EXCEPT ![c] = @ + 1]
    /\ Goto(r, "apply")
    /\ UNCHANGED <<user, policy, sessions, tokens, factors, arrived, tries, strict>>

WrongCode(r) ==
    /\ At(r, {"answer"}, "answered")
    /\ LET wrong == sessions[calls[r].session].wrong + 1
       IN  /\ sessions' = [sessions EXCEPT ![calls[r].session].wrong = wrong]
           /\ IF wrong >= MaxAnswers THEN Goto(r, "exhausted") ELSE End(r)
    /\ UNCHANGED <<user, policy, tokens, factors, codes, history>>

\* revoke_by_id: the challenge ran out, or too many answers were wrong.
RevokeById(r) ==
    /\ At(r, {"answer"}, "expired") \/ At(r, {"answer"}, "exhausted")
    /\ sessions' = [sessions EXCEPT ![calls[r].session].state = IF @ = "live" THEN "over" ELSE @]
    /\ End(r)
    /\ UNCHANGED <<user, policy, tokens, factors, codes, history>>

\* mark_mfa_satisfied, whatever has become of the session.
MarkSatisfied(r) ==
    /\ At(r, {"answer"}, "apply")
    /\ sessions' = [sessions EXCEPT ![calls[r].session].mfa = TRUE,
                                    ![calls[r].session].challenge = FALSE]
    /\ End(r)
    /\ UNCHANGED <<user, policy, tokens, factors, codes, history>>

-----------------------------------------------------------------------------
(* Factors                                                                 *)

\* A transaction that has deleted the row and not committed.
Deleting(f) == \E r \in Requests : At(r, {"remove"}, "commit") /\ calls[r].factor = f

\* insert_unconfirmed_totp: one transaction deletes the unconfirmed rows there
\* were when it began and inserts another.
ReadPending(r) ==
    /\ At(r, {"begin"}, "list")
    /\ IF allows_enrolment(calls[r].policy)
       THEN Become(r, [calls[r] EXCEPT !.at = "insert", !.seen = Pending])
       ELSE End(r)
    /\ UNCHANGED <<rows, history>>

InsertUnconfirmed(r) ==
    /\ At(r, {"begin"}, "insert")
    /\ \A f \in calls[r].seen : ~Deleting(f)
    /\ \E new \in Authenticators :
          /\ factors[new] = "free"
          /\ factors' = [f \in Authenticators |->
                IF f = new THEN "pending" ELSE IF f \in calls[r].seen \cap Pending THEN "gone" ELSE factors[f]]
    /\ End(r)
    /\ UNCHANGED <<user, policy, sessions, tokens, codes, history>>

\* confirm_totp finds the unconfirmed row and a code made from it.
FindPending(r) ==
    /\ At(r, {"confirm"}, "confirm") /\ calls[r].factor = NULL
    /\ \/ \E f \in Pending : Become(r, [calls[r] EXCEPT !.factor = f])
       \/ Pending = {} /\ End(r)
    /\ UNCHANGED <<rows, history>>

\* confirm_factor: the row and the mirror of it in users.  A second confirmed
\* authenticator is refused by user_mfa_factors_one_totp_idx; a row that is gone
\* is not noticed.
\* Mutant: without that index.
ConfirmSecond(r) ==
    /\ At(r, {"confirm"}, "confirm") /\ calls[r].factor # NULL
    /\ ~Deleting(calls[r].factor)
    /\ factors' = [factors EXCEPT ![calls[r].factor] = IF @ = "gone" THEN @ ELSE "confirmed"]
    /\ user' = [user EXCEPT !.mfa_enabled = TRUE]
    /\ End(r)
    /\ UNCHANGED <<policy, sessions, tokens, codes, history>>

ConfirmFactor(r) ==
    /\ At(r, {"confirm"}, "confirm") /\ calls[r].factor # NULL
    /\ ~Deleting(calls[r].factor) /\ \A f \in Confirmed : ~Deleting(f)
    /\ LET mine == calls[r].factor
       IN  IF factors[mine] # "gone" /\ Confirmed \ {mine} # {} THEN UNCHANGED <<user, factors>>
           ELSE /\ factors' = [factors EXCEPT ![mine] = IF @ = "gone" THEN @ ELSE "confirmed"]
                /\ user' = [user EXCEPT !.mfa_enabled = TRUE]
    /\ End(r)
    /\ UNCHANGED <<policy, sessions, tokens, codes, history>>

\* remove_factor counts the confirmed factors there are besides the one that goes.
CountFactors(r) ==
    /\ At(r, {"remove"}, "list")
    /\ \/ Confirmed \cup Pending = {} /\ End(r)
       \/ \E f \in Confirmed \cup Pending :
          IF Confirmed \ {f} = {} /\ ~allows_without_factor(calls[r].policy) THEN End(r)
          ELSE Become(r, [calls[r] EXCEPT !.at = "delete", !.factor = f])
    /\ UNCHANGED <<rows, history>>

\* Its transaction deletes the row, looks for another confirmed one, and clears
\* the enrolment if it sees none; what it sees is what had committed by then.
DeleteFactor(r) ==
    /\ At(r, {"remove"}, "delete")
    /\ ~Deleting(calls[r].factor)
    /\ IF factors[calls[r].factor] = "gone" THEN End(r)
       ELSE Become(r, [calls[r] EXCEPT !.at = "commit", !.seen = Confirmed \ {calls[r].factor}])
    /\ UNCHANGED <<rows, history>>

Erased == [c \in RecoveryCodes |-> IF codes[c] = "live" THEN "gone" ELSE codes[c]]

CommitRemoval(r) ==
    /\ At(r, {"remove"}, "commit")
    /\ factors' = [factors EXCEPT ![calls[r].factor] = "gone"]
    /\ IF calls[r].seen = {}
       THEN codes' = Erased /\ user' = [user EXCEPT !.mfa_enabled = FALSE]
       ELSE UNCHANGED <<codes, user>>
    /\ End(r)
    /\ UNCHANGED <<policy, sessions, tokens, history>>

\* reset_factors: everything goes, by an administrator.
ResetFactors(r) ==
    /\ At(r, {"reset_factors"}, "find")
    /\ \A f \in Authenticators : ~Deleting(f)
    /\ factors' = [f \in Authenticators |-> IF factors[f] = "free" THEN "free" ELSE "gone"]
    /\ codes' = Erased
    /\ user' = [user EXCEPT !.mfa_enabled = FALSE]
    /\ End(r)
    /\ UNCHANGED <<policy, sessions, tokens, history>>

\* generate_recovery_codes replaces those that are outstanding.
ReplaceCodes(r) ==
    /\ At(r, {"codes"}, "codes")
    /\ \E fresh \in RecoveryCodes :
          /\ codes[fresh] = "free"
          /\ codes' = [Erased EXCEPT ![fresh] = "live"]
    /\ End(r)
    /\ UNCHANGED <<user, policy, sessions, tokens, factors, history>>

-----------------------------------------------------------------------------
(* One-time tokens                                                         *)

live(t, purpose) == tokens[t].state = "live" /\ tokens[t].purpose = purpose

revoked(purpose) == [t \in Tokens |->
    IF live(t, purpose) THEN [tokens[t] EXCEPT !.state = "over"] ELSE tokens[t]]

\* issue is two statements: what is outstanding is superseded, the row inserted.
\* A handoff is answered with the token it issued.
Supersede(r) ==
    /\ calls[r].at = "supersede"
    /\ tokens' = revoked(calls[r].purpose)
    /\ Goto(r, "issue")
    /\ UNCHANGED <<user, policy, sessions, factors, codes, history>>

InsertToken(r) ==
    /\ calls[r].at = "issue"
    /\ \E t \in Tokens :
          /\ tokens[t].state = "free"
          /\ tokens' = [tokens EXCEPT ![t] = [state |-> "live", purpose |-> calls[r].purpose, wrong |-> 0]]
    /\ End(r)
    /\ UNCHANGED <<user, policy, sessions, factors, codes, history>>

\* consume: the statement that finds the row is the one that marks it.
\* Mutant: the row is found by its digest alone.
ConsumeAny(r) ==
    /\ calls[r].at = "consume"
    /\ tokens' = [tokens EXCEPT ![calls[r].token].state = "over"]
    /\ honoured' = [honoured EXCEPT ![calls[r].token] = @ + 1]
    /\ Goto(r, IF calls[r].kind = "handoff" THEN "account" ELSE "apply")
    /\ UNCHANGED <<user, policy, sessions, factors, codes, arrived, tries, strict>>

Consume(r) ==
    /\ calls[r].at = "consume"
    /\ IF tokens[calls[r].token].state = "live"
       THEN /\ tokens' = [tokens EXCEPT ![calls[r].token].state = "over"]
            /\ honoured' = [honoured EXCEPT ![calls[r].token] = @ + 1]
            /\ Goto(r, IF calls[r].kind = "handoff" THEN "account" ELSE "apply")
       ELSE End(r) /\ UNCHANGED <<tokens, honoured>>
    /\ UNCHANGED <<user, policy, sessions, factors, codes, arrived, tries, strict>>

\* redeem_handoff looks at the account again, and decides again.
RedeemHandoff(r) ==
    /\ At(r, {"handoff"}, "account")
    /\ IF can_sign_in(user) THEN Become(r, [calls[r] EXCEPT !.at = "policy", !.saw = user]) ELSE End(r)
    /\ UNCHANGED <<rows, history>>

-----------------------------------------------------------------------------
(* Passwords                                                               *)

NewPassword == user.password + 1
MayChange == user.password < MaxPasswords

\* request and redeem of a reset: find_by_email and can_reset.
FindForReset(r) ==
    /\ At(r, {"request_reset", "redeem_reset"}, "find")
    /\ IF ~can_reset(user) THEN End(r)
       ELSE IF calls[r].kind = "redeem_reset" THEN Goto(r, "consume_code")
       ELSE Become(r, [calls[r] EXCEPT !.at = "supersede", !.purpose = "password_reset"])
    /\ UNCHANGED <<rows, history>>

\* redeem_code: a guess is counted in the transaction that compares it, and the
\* row is burned by the right one and by the last one it had.
\* Mutant: one guess more.
burnsLate(matched, wrong) == matched \/ wrong + 1 > MaxGuesses
burns(matched, wrong) == matched \/ wrong + 1 >= MaxGuesses

RedeemCode(r) ==
    /\ At(r, {"redeem_reset"}, "consume_code")
    /\ \/ /\ MaxGuesses = 0 \/ \A t \in Tokens : ~live(t, "password_reset")
          /\ End(r)
          /\ UNCHANGED <<tokens, honoured>>
       \/ \E t \in Tokens, matched \in BOOLEAN :
             /\ MaxGuesses > 0 /\ live(t, "password_reset")
             /\ tokens' = [tokens EXCEPT ![t].wrong = @ + (IF matched THEN 0 ELSE 1),
                              ![t].state = IF burns(matched, tokens[t].wrong) THEN "over" ELSE "live"]
             /\ honoured' = IF matched THEN [honoured EXCEPT ![t] = @ + 1] ELSE honoured
             /\ IF matched THEN Goto(r, "set") ELSE End(r)
    /\ UNCHANGED <<user, policy, sessions, factors, codes, arrived, tries, strict>>

\* change_own_password reads the row and verifies the current password.
VerifyCurrent(r) ==
    /\ At(r, {"change"}, "read")
    /\ IF user.password # 0 THEN Goto(r, "set") ELSE End(r)
    /\ UNCHANGED <<rows, history>>

\* What somebody chose may be refused by the policy, after the code was spent.
RefusePassword(r) ==
    /\ calls[r].at = "set" \/ At(r, {"accept"}, "apply")
    /\ End(r)
    /\ UNCHANGED <<rows, history>>

SetPassword(r) ==
    /\ At(r, {"change", "redeem_reset"}, "set")
    /\ MayChange
    /\ user' = set_password_hash(user, NewPassword)
    /\ Goto(r, "revoke")
    /\ UNCHANGED <<policy, sessions, tokens, factors, codes, history>>

\* A change keeps the session it came with, a reset none; a reset ends with the
\* other codes that are out.
RevokeSessions(r) ==
    /\ calls[r].at = "revoke"
    /\ sessions' = revoke_all(sessions, calls[r].session)
    /\ IF calls[r].kind = "redeem_reset" THEN Goto(r, "revoke_tokens") ELSE End(r)
    /\ UNCHANGED <<user, policy, tokens, factors, codes, history>>

RevokeCodes(r) ==
    /\ calls[r].at = "revoke_tokens"
    /\ tokens' = revoked("password_reset")
    /\ End(r)
    /\ UNCHANGED <<user, policy, sessions, factors, codes, history>>

\* accept: the password and mark_email_verified in one transaction, which leaves
\* a status that is not pending alone.
\* Mutant: the CASE is missing.
mark_email_verifiedAlways(u) == [u EXCEPT !.status = "active"]
mark_email_verified(u) == [u EXCEPT !.status = IF @ = "pending" THEN "active" ELSE @]

Accept(r) ==
    /\ At(r, {"accept"}, "apply")
    /\ MayChange
    /\ user' = mark_email_verified(set_password_hash(user, NewPassword))
    /\ End(r)
    /\ UNCHANGED <<policy, sessions, tokens, factors, codes, history>>

-----------------------------------------------------------------------------
(* What an administrator does                                              *)

\* resend: only an account that has not accepted yet, as it was read.
FindInvited(r) ==
    /\ At(r, {"resend"}, "find")
    /\ IF user.status = "pending"
       THEN Become(r, [calls[r] EXCEPT !.at = "supersede", !.purpose = "invitation"])
       ELSE End(r)
    /\ UNCHANGED <<rows, history>>

\* update_user: the status that was chosen is written over whatever the row says
\* by then, unless the schema refuses it.
LoadUser(r) ==
    /\ At(r, {"set_status"}, "find")
    /\ Become(r, [calls[r] EXCEPT !.at = "write", !.saw = user])
    /\ UNCHANGED <<rows, history>>

SetStatus(r) ==
    /\ At(r, {"set_status"}, "write")
    /\ \E status \in Statuses \ {calls[r].saw.status} :
          LET written == [user EXCEPT !.status = status]
          IN  user' = IF password_or_pending(written) THEN written ELSE user
    /\ End(r)
    /\ UNCHANGED <<policy, sessions, tokens, factors, codes, history>>

\* The workspace's security settings are saved.
SaveSettings(r) ==
    /\ At(r, {"settings"}, "find")
    /\ policy' \in Policies \ {policy}
    /\ strict' = FALSE
    /\ End(r)
    /\ UNCHANGED <<user, sessions, tokens, factors, codes, arrived, tries, honoured>>

-----------------------------------------------------------------------------
(* Time                                                                    *)

LockRunsOut ==
    /\ user.locked
    /\ user' = [user EXCEPT !.locked = FALSE]
    /\ tries' = 0
    /\ Observe /\ UNCHANGED <<policy, sessions, tokens, factors, codes, calls, arrived, honoured, strict>>

SessionRunsOut(s) ==
    /\ sessions[s].state = "live"
    /\ \/ sessions' = [sessions EXCEPT ![s].state = "over"]
       \/ sessions[s].challenge /\ sessions' = [sessions EXCEPT ![s].challenge = FALSE]
    /\ Observe /\ UNCHANGED <<user, policy, tokens, factors, codes, calls, history>>

TokenRunsOut(t) ==
    /\ tokens[t].state = "live"
    /\ tokens' = [tokens EXCEPT ![t].state = "over"]
    /\ Observe /\ UNCHANGED <<user, policy, sessions, factors, codes, calls, history>>

-----------------------------------------------------------------------------

SignInStep(r) ==
    \/ FindByEmail(r) \/ WrongPassword(r) \/ LockOut(r) \/ UpgradeHash(r) \/ RecordSuccess(r)
    \/ LoadSettings(r) \/ Decide(r) \/ OpenSession(r) \/ StartChallenge(r) \/ Respond(r)

FactorStep(r) ==
    \/ ReadChallenge(r) \/ RightCode(r) \/ WrongCode(r) \/ RevokeById(r) \/ MarkSatisfied(r)
    \/ ReadPending(r) \/ InsertUnconfirmed(r) \/ FindPending(r) \/ ConfirmFactor(r)
    \/ CountFactors(r) \/ DeleteFactor(r) \/ CommitRemoval(r) \/ ResetFactors(r) \/ ReplaceCodes(r)

PasswordStep(r) ==
    \/ Supersede(r) \/ InsertToken(r) \/ Consume(r) \/ RedeemHandoff(r)
    \/ FindForReset(r) \/ RedeemCode(r) \/ VerifyCurrent(r) \/ RefusePassword(r) \/ SetPassword(r)
    \/ RevokeSessions(r) \/ RevokeCodes(r) \/ Accept(r)

AdministratorStep(r) == FindInvited(r) \/ LoadUser(r) \/ SetStatus(r) \/ SaveSettings(r)

Next ==
    \/ \E r \in Requests :
          \/ ArriveWithSession(r) \/ ArriveAnonymous(r) \/ ArriveAdministrator(r)
          \/ Resume(r) \/ Authenticate(r)
          \/ SignInStep(r) \/ FactorStep(r) \/ PasswordStep(r) \/ AdministratorStep(r)
    \/ LockRunsOut
    \/ \E s \in Sessions : SessionRunsOut(s)
    \/ \E t \in Tokens : TokenRunsOut(t)

Spec == Init /\ [][Next]_vars

-----------------------------------------------------------------------------
(* Properties                                                              *)

TypeOK ==
    /\ user \in Users /\ password_or_pending(user) /\ policy \in Policies
    /\ sessions \in [Sessions -> [state : {"free", "live", "over"}, mfa : BOOLEAN, challenge : BOOLEAN,
                                  wrong : Nat]]
    /\ tokens \in [Tokens -> [state : {"free", "live", "over"}, purpose : Purposes, wrong : Nat]]
    /\ factors \in [Authenticators -> {"free", "pending", "confirmed", "gone"}]
    /\ codes \in [RecoveryCodes -> {"free", "live", "gone"}]
    /\ calls \in [Requests -> Calls] /\ mix \in Mixes
    /\ arrived \in 0..MaxRequests /\ tries \in Nat
    /\ honoured \in [Tokens \cup RecoveryCodes -> Nat]
    /\ barred \subseteq Requests /\ due \subseteq Requests /\ strict \in BOOLEAN

\* Nobody is let in who could not have been at any moment of the request: every
\* answer to a session, every session opened by a password or a handoff, rests
\* on a state of the account - active, not locked - that held while the request
\* ran.  A suspension or a lock is kept by every request that arrives after it.
AdmittedWasAllowed ==
    \A r \in Requests :
        calls[r].at \in {"admitted", "challenge"} => r \notin barred \/ can_sign_in(user)

\* A sign-in that ends in a session with the second factor already satisfied
\* ran, for a moment at least, while the account had no confirmed factor or the
\* workspace did not ask for one: none skips the challenge between the two
\* requests of a handoff, or between the read of the policy and of the factors.
FactorWasAsked ==
    \A r \in Requests :
        At(r, {"sign_in", "handoff"}, "admitted") /\ sessions[calls[r].session].mfa
            => r \notin due \/ ~FactorIsDue

\* A link, an emailed code, a handoff or a recovery code works once, however
\* many requests present it at the same time.
TakenOnce == \A x \in Tokens \cup RecoveryCodes : honoured[x] <= 1

\* What is still open has guesses left, by the guesses that have been counted: an
\* account that is not locked has fewer than MaxFailures of them since a right
\* password or the end of a lock, a live emailed code fewer than MaxGuesses, and
\* a live session whose answers are used up is left to the request that used the
\* last, to be revoked by its next statement.  It is no bound on what requests
\* under way when the last is counted may still try: each of those had passed
\* the check before, and is counted after.
GuessesAreLimited ==
    /\ MaxFailures > 0 /\ ~user.locked => tries < MaxFailures
    /\ \A t \in Tokens : live(t, "password_reset") /\ MaxGuesses > 0 => tokens[t].wrong < MaxGuesses
    /\ \A s \in Sessions : sessions[s].state = "live" /\ sessions[s].wrong >= MaxAnswers =>
          \E r \in Requests : At(r, {"answer"}, "exhausted") /\ calls[r].session = s

\* An account that was suspended or deactivated gets its status from an
\* administrator again, and from nothing else: not from an invitation accepted
\* late, a password reset or a sign-in that had already begun.
WithdrawnStaysOut ==
    [][user.status \in {"suspended", "deactivated"} /\ user'.status # user.status
         => \E r \in Requests : At(r, {"set_status"}, "write")]_vars

\* Under a policy that has required a factor all along, the last one goes only
\* when an administrator resets the account.  A removal counts the others by a
\* statement of its own, long before it deletes; what keeps two of them from each
\* leaving the other's factor is that there are never two: the index refuses the
\* confirmation of an enrolment that was begun beside a confirmed app.
LastFactorStays ==
    [][strict /\ Confirmed # {} /\ Confirmed' = {}
         => \E r \in Requests : At(r, {"reset_factors"}, "find")]_vars

\* What a comment says that the code does not keep (db/identity/user.rs:432):
\* must_change_password is cleared "because the change has now happened".
ForcedChangeHappens ==
    [][user.must_change /\ ~user'.must_change => user'.password # user.password]_vars

\* What a comment says that the code does not keep (0002_identity.sql:54):
\* mfa_enabled is a mirror of having a confirmed factor.
EnabledMirrorsFactors == user.mfa_enabled = (Confirmed # {})

=============================================================================
