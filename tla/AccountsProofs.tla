----------------------------- MODULE AccountsProofs -----------------------------
(***************************************************************************)
(* Who is let in, what is asked of them and how often they may guess: the  *)
(* safety properties of Accounts, for every number of requests, sessions,  *)
(* tokens and factors, and every limit.                                    *)
(*                                                                         *)
(* There are four invariants beside the types, each with the steps it is   *)
(* about: what a secret is worth once it has been taken (SecretsOK), how   *)
(* far the guesses have gone (GuessesOK), what a request has seen by the   *)
(* time it opens a session or answers for one (AdmissionsOK), and what the *)
(* removal of a factor may still rely on when it commits (FactorsOK).      *)
(***************************************************************************)
EXTENDS Accounts, FiniteSetTheorems, TLAPS

\* What is so of a request by itself: the rows it is about.
Sound(c) ==
    /\ c.kind \in SelfService \cup {"answer", "sign_out"} /\ c.at # "idle" => c.session \in Sessions
    /\ c.kind = "sign_in" /\ c.at = "verified" => c.saw.password # 0
    /\ c.at = "consume" => c.token \in Tokens /\ c.kind \in {"handoff", "accept"}
    /\ c.at \in {"delete", "commit"} => c.factor \in Authenticators
    /\ c.at = "resume" => c.session \in Sessions

CallsSound == \A r \in Requests : Sound(calls[r])

CallsTyped ==
    /\ calls \in [Requests -> Calls] /\ CallsSound /\ mix \in Mixes
    /\ barred \subseteq Requests /\ due \subseteq Requests

SessionType == [state : {"free", "live", "over"}, mfa : BOOLEAN, challenge : BOOLEAN, wrong : Nat]
TokenType == [state : {"free", "live", "over"}, purpose : Purposes, wrong : Nat]

RowsTyped ==
    /\ user \in Users /\ password_or_pending(user) /\ policy \in Policies
    /\ sessions \in [Sessions -> SessionType]
    /\ tokens \in [Tokens -> TokenType]
    /\ factors \in [Authenticators -> {"free", "pending", "confirmed", "gone"}]
    /\ codes \in [RecoveryCodes -> {"free", "live", "gone"}]

HistoryTyped ==
    /\ arrived \in 0..MaxRequests /\ tries \in Nat
    /\ honoured \in [Tokens \cup RecoveryCodes -> Nat] /\ strict \in BOOLEAN

TypeInv == CallsTyped /\ RowsTyped /\ HistoryTyped

\* A secret that has not been taken is still to be had, and the other way round.
SecretsOK ==
    /\ \A t \in Tokens : tokens[t].state # "over" => honoured[t] = 0
    /\ \A c \in RecoveryCodes : codes[c] # "gone" => honoured[c] = 0
    /\ TakenOnce

\* Wrong passwords are counted in the row as well, and by it; the end of a lock
\* leaves that count alone.
PasswordGuesses == tries <= user.failed /\ (MaxFailures > 0 /\ ~user.locked => tries < MaxFailures)

CodeGuesses ==
    \A t \in Tokens : live(t, "password_reset") /\ MaxGuesses > 0 => tokens[t].wrong < MaxGuesses

UsedUp(s) == sessions[s].state = "live" /\ sessions[s].wrong >= MaxAnswers

AnswerGuesses ==
    \A s \in Sessions : UsedUp(s) =>
        \E r \in Requests : At(r, {"answer"}, "exhausted") /\ calls[r].session = s

GuessesOK == PasswordGuesses /\ CodeGuesses /\ AnswerGuesses

\* A request that somebody is let in by.
Opens(c) == c.kind \in {"sign_in", "handoff"}

\* The request has been past the look at the account.
LetThrough(c) ==
    \/ c.kind = "sign_in" /\ c.at \notin {"idle", "find"}
    \/ c.kind = "handoff" /\ c.at \notin {"idle", "consume", "account"}
    \/ c.at \in {"challenge", "admitted"}

\* The request has settled that no second factor is asked for, or opened a session
\* for which none is.
Settled(c) ==
    /\ Opens(c)
    /\ \/ c.at = "decide" /\ c.policy = "disabled"
       \/ c.at = "open" /\ c.outcome = "signed_in"

Waived(c) == Settled(c) \/ (Opens(c) /\ c.session \in Sessions /\ sessions[c.session].mfa)

\* A session that is being opened is held by the request that opens it alone.
HeldSessions ==
    \A r \in Requests : calls[r].session \in Sessions =>
        /\ calls[r].at # "idle" /\ sessions[calls[r].session].state # "free"
        /\ Opens(calls[r]) => \A q \in Requests \ {r} : calls[q].session # calls[r].session

Admitted == \A r \in Requests : LetThrough(calls[r]) => r \notin barred

Asked == \A r \in Requests : Waived(calls[r]) => r \notin due

Opened ==
    \A r \in Requests : Opens(calls[r]) /\ calls[r].at \in {"challenge", "admitted"} =>
        calls[r].session \in Sessions

AdmissionsOK == HeldSessions /\ Admitted /\ Asked /\ Opened

\* The authenticator a removal is about to delete is not what the account is left
\* with: it went already, or was never confirmed while another one is.
Spare(f) == factors[f] = "gone" \/ (factors[f] = "pending" /\ Confirmed # {})

Removing(c) == c.kind = "remove" /\ c.at \in {"list", "delete", "commit"}

OneConfirmed == \A f, g \in Confirmed : f = g

RemovalOK(r) ==
    strict /\ Removing(calls[r]) =>
        calls[r].policy = "required" /\ (calls[r].at # "list" => Spare(calls[r].factor))

FactorsOK ==
    /\ OneConfirmed
    /\ strict => policy = "required"
    /\ \A r \in Requests : RemovalOK(r)

-----------------------------------------------------------------------------
(* Types                                                                   *)

LEMMA TypeInvTypes == TypeInv => TypeOK
BY DEF TypeInv, TypeOK, CallsTyped, RowsTyped, HistoryTyped, SessionType, TokenType

LEMMA RowTypes == NoSession \in SessionType /\ NoToken \in TokenType /\ Invited \in Users /\ Idle \in Calls
<1>1. NoSession \in SessionType /\ NoToken \in TokenType
  BY DEF NoSession, SessionType, NoToken, TokenType, Purposes
<1>2. Invited \in Users
  BY AccountsAssumption DEF Invited, Users, Statuses, AccountsAssumption
<1>3. Idle \in Calls
  BY <1>2 DEF Idle, Calls, Kinds, SelfService, Places, Policies, Outcomes, Purposes
<1>4. QED
  BY <1>1, <1>2, <1>3

LEMMA CallFields ==
    ASSUME TypeInv, NEW r \in Requests
    PROVE  /\ calls[r] \in Calls /\ Sound(calls[r])
           /\ calls[r].kind \in Kinds /\ calls[r].at \in Places
           /\ calls[r].session \in Sessions \cup {NULL} /\ calls[r].token \in Tokens \cup {NULL}
           /\ calls[r].factor \in Authenticators \cup {NULL} /\ calls[r].seen \subseteq Authenticators
           /\ calls[r].mfa \in BOOLEAN /\ calls[r].saw \in Users /\ calls[r].policy \in Policies
           /\ calls[r].outcome \in Outcomes /\ calls[r].purpose \in Purposes
BY DEF TypeInv, CallsTyped, CallsSound, Calls

\* What one request becomes.
LEMMA BecomeTyped ==
    ASSUME TypeInv, NEW r \in Requests, NEW c \in Calls, Sound(c), Become(r, c)
    PROVE  CallsTyped'
<1>1. calls \in [Requests -> Calls] /\ calls' = [calls EXCEPT ![r] = c] /\ Observe
  BY DEF TypeInv, CallsTyped, Become
<1>2. calls' \in [Requests -> Calls]
  BY <1>1
<1>3. \A q \in Requests : Sound(calls'[q])
  BY <1>1 DEF TypeInv, CallsTyped, CallsSound
<1>4. barred' \subseteq Requests /\ due' \subseteq Requests /\ mix' \in Mixes
  BY <1>1 DEF Observe, TypeInv, CallsTyped
<1>5. QED
  BY <1>2, <1>3, <1>4 DEF CallsTyped, CallsSound, Sound

LEMMA EndTyped ==
    ASSUME TypeInv, NEW r \in Requests, End(r)
    PROVE  CallsTyped'
<1>1. Sound(Idle)
  BY DEF Sound, Idle
<1>2. QED
  BY <1>1, RowTypes, BecomeTyped DEF End

\* The places a request may go to without having found anything there.
Plain == Places \ {"verified", "consume", "delete", "commit", "resume"}

LEMMA GotoTyped ==
    ASSUME TypeInv, NEW r \in Requests, NEW place \in Plain,
           Goto(r, place), calls[r].at # "idle"
    PROVE  CallsTyped'
<1> DEFINE c == [calls[r] EXCEPT !.at = place]
<1>1. c \in Calls /\ c.kind = calls[r].kind /\ c.at = place /\ c.session = calls[r].session
  BY CallFields DEF Calls, Plain
<1>2. Sound(c)
  BY <1>1, CallFields DEF Sound, Plain
<1>3. QED
  BY <1>1, <1>2, BecomeTyped DEF Goto

LEMMA ArriveTyped ==
    ASSUME TypeInv, NEW r \in Requests,
           ArriveWithSession(r) \/ ArriveAnonymous(r) \/ ArriveAdministrator(r)
    PROVE  TypeInv'
<1>1. ASSUME NEW kind \in Kinds, NEW call \in Calls, Arrive(r, kind, call),
             call.at \in {"find", "resume", "consume"}, call.at = "resume" => call.session \in Sessions,
             call.at = "consume" => call.token \in Tokens /\ kind \in {"handoff", "accept"},
             kind \in SelfService \cup {"answer", "sign_out"} => call.at = "resume"
      PROVE  TypeInv'
  <2> DEFINE c == [call EXCEPT !.kind = kind]
  <2>1. c \in Calls
    BY DEF Calls
  <2>2. c.kind = kind /\ c.at = call.at /\ c.session = call.session /\ c.token = call.token
    BY DEF Calls
  <2>3. Sound(c)
    BY <1>1, <2>2 DEF Sound
  <2>4. Become(r, c)
    BY <1>1 DEF Arrive
  <2>5. CallsTyped'
    BY <2>1, <2>3, <2>4, BecomeTyped
  <2>6. RowsTyped'
    BY <1>1 DEF Arrive, rows, TypeInv, RowsTyped
  <2>7. HistoryTyped'
    <3>1. mix.arrivals \in 0..MaxRequests
      BY AccountsAssumption DEF AccountsAssumption, TypeInv, CallsTyped
    <3>2. arrived' \in 0..MaxRequests
      BY <1>1, <3>1, AccountsAssumption DEF Arrive, TypeInv, HistoryTyped, AccountsAssumption
    <3>3. QED
      BY <1>1, <3>2 DEF Arrive, TypeInv, HistoryTyped
  <2>8. QED
    BY <2>5, <2>6, <2>7 DEF TypeInv
<1>2. CASE ArriveWithSession(r)
  <2>1. PICK kind \in SelfService \cup {"answer", "sign_out"}, s \in Sessions :
          Arrive(r, kind, [Idle EXCEPT !.at = "resume", !.session = s])
    BY <1>2 DEF ArriveWithSession
  <2> DEFINE call == [Idle EXCEPT !.at = "resume", !.session = s]
  <2>2. call \in Calls /\ call.at = "resume" /\ call.session = s
    BY RowTypes DEF Idle, Calls, Places
  <2>3. kind \in Kinds
    BY DEF Kinds, SelfService
  <2>4. QED
    BY <1>1, <2>1, <2>2, <2>3
<1>3. ASSUME NEW kind \in Kinds \ (SelfService \cup {"answer", "sign_out"}),
             Arrive(r, kind, [Idle EXCEPT !.at = "find"])
      PROVE  TypeInv'
  <2> DEFINE call == [Idle EXCEPT !.at = "find"]
  <2>1. call \in Calls /\ call.at = "find"
    BY RowTypes DEF Idle, Calls, Places
  <2>2. QED
    BY <1>1, <1>3, <2>1
<1>4. ASSUME NEW kind \in {"handoff", "accept"}, NEW t \in Tokens,
             Arrive(r, kind, [Idle EXCEPT !.at = "consume", !.token = t])
      PROVE  TypeInv'
  <2> DEFINE call == [Idle EXCEPT !.at = "consume", !.token = t]
  <2>1. call \in Calls /\ call.at = "consume" /\ call.token = t
    BY RowTypes DEF Idle, Calls, Places
  <2>2. kind \in Kinds /\ kind \notin SelfService \cup {"answer", "sign_out"}
    BY DEF Kinds, SelfService
  <2>3. QED
    BY <1>1, <1>4, <2>1, <2>2
<1>5. {"sign_in", "request_reset", "redeem_reset"} \cup Administration
        \subseteq Kinds \ (SelfService \cup {"answer", "sign_out"})
  BY DEF Kinds, SelfService, Administration
<1>6. CASE ArriveAnonymous(r)
  BY <1>6, <1>3, <1>4, <1>5 DEF ArriveAnonymous
<1>7. CASE ArriveAdministrator(r)
  BY <1>7, <1>3, <1>5 DEF ArriveAdministrator
<1>8. QED
  BY <1>2, <1>6, <1>7

\* A step that writes no row and no history.
LEMMA QuietTyped ==
    ASSUME TypeInv, CallsTyped', UNCHANGED <<rows, history>>
    PROVE  TypeInv'
BY DEF TypeInv, RowsTyped, HistoryTyped, rows, history

\* Requests that only look, and go on or are over.
LEMMA LooksTyped ==
    ASSUME TypeInv, NEW r \in Requests,
           \/ Respond(r) \/ ReadChallenge(r) \/ VerifyCurrent(r) \/ RefusePassword(r)
    PROVE  TypeInv'
<1>1. UNCHANGED <<rows, history>>
  BY DEF Respond, ReadChallenge, VerifyCurrent, RefusePassword
<1>2. calls[r].at # "idle" /\ (End(r) \/ \E place \in Plain : Goto(r, place))
  <2>1. {"answered", "expired", "set"} \subseteq Plain
    BY DEF Plain, Places
  <2>2. QED
    BY <2>1 DEF Respond, ReadChallenge, VerifyCurrent, RefusePassword, At
<1>3. QED
  BY <1>1, <1>2, EndTyped, GotoTyped, QuietTyped

\* Requests that look, and take something of it along.
LEMMA FindByEmailTyped ==
    ASSUME TypeInv, NEW r \in Requests, FindByEmail(r) \/ RedeemHandoff(r) \/ LoadUser(r)
    PROVE  TypeInv'
<1>1. UNCHANGED <<rows, history>>
  BY DEF FindByEmail, RedeemHandoff, LoadUser
<1>2. user \in Users
  BY DEF TypeInv, RowsTyped
<1>3. CASE End(r)
  BY <1>1, <1>3, EndTyped, QuietTyped
<1>4. ASSUME NEW place \in {"verified", "policy", "write"},
             Become(r, [calls[r] EXCEPT !.at = place, !.saw = user]),
             place = "verified" => user.password # 0, calls[r].at # "idle"
      PROVE  TypeInv'
  <2> DEFINE c == [calls[r] EXCEPT !.at = place, !.saw = user]
  <2>1. /\ c \in Calls /\ c.at = place /\ c.saw = user
        /\ c.kind = calls[r].kind /\ c.session = calls[r].session
    BY <1>2, CallFields, ZenonT(60) DEF Calls, Places
  <2>2. Sound(c)
    BY <1>4, <2>1, CallFields DEF Sound
  <2>3. QED
    BY <1>1, <1>4, <2>1, <2>2, BecomeTyped, QuietTyped
<1>5. QED
  BY <1>3, <1>4 DEF FindByEmail, RedeemHandoff, LoadUser, At

LEMMA LoadSettingsTyped ==
    ASSUME TypeInv, NEW r \in Requests, LoadSettings(r)
    PROVE  TypeInv'
<1> DEFINE place == IF calls[r].kind \in {"begin", "remove"} THEN "list" ELSE "decide"
           c == [calls[r] EXCEPT !.policy = policy, !.at = place]
<1>1. place \in Places /\ place \notin {"verified", "consume", "delete", "commit"} /\ policy \in Policies
  BY DEF Places, TypeInv, RowsTyped
<1>2. c \in Calls /\ c.at = place /\ c.kind = calls[r].kind /\ c.session = calls[r].session
  BY <1>1, CallFields DEF Calls
<1>3. Sound(c)
  BY <1>1, <1>2, CallFields DEF Sound, LoadSettings, At
<1>4. QED
  BY <1>2, <1>3, BecomeTyped, QuietTyped DEF LoadSettings

LEMMA DecideTyped ==
    ASSUME TypeInv, NEW r \in Requests, Decide(r)
    PROVE  TypeInv'
<1>1. UNCHANGED <<rows, history>>
  BY DEF Decide
<1> DEFINE outcome == decide(calls[r].saw, calls[r].policy)
<1>2. outcome \in Outcomes
  BY DEF decide, Outcomes
<1>3. CASE Become(r, [calls[r] EXCEPT !.at = "open", !.outcome = outcome])
  <2> DEFINE c == [calls[r] EXCEPT !.at = "open", !.outcome = outcome]
  <2>1. c \in Calls /\ c.at = "open" /\ c.kind = calls[r].kind /\ c.session = calls[r].session
    BY <1>2, CallFields, ZenonT(60) DEF Calls, Places
  <2>2. Sound(c)
    BY <2>1, CallFields DEF Sound, Decide, At
  <2>3. QED
    BY <1>1, <1>3, <2>1, <2>2, BecomeTyped, QuietTyped
<1>4. CASE Become(r, [calls[r] EXCEPT !.at = "supersede", !.purpose = "session_handoff"])
  <2> DEFINE c == [calls[r] EXCEPT !.at = "supersede", !.purpose = "session_handoff"]
  <2>1. c \in Calls /\ c.at = "supersede" /\ c.kind = calls[r].kind /\ c.session = calls[r].session
    BY CallFields, ZenonT(60) DEF Calls, Places, Purposes
  <2>2. Sound(c)
    BY <2>1, CallFields DEF Sound, Decide, At
  <2>3. QED
    BY <1>1, <1>4, <2>1, <2>2, BecomeTyped, QuietTyped
<1>5. QED
  BY <1>3, <1>4 DEF Decide

LEMMA FindsTyped ==
    ASSUME TypeInv, NEW r \in Requests, FindForReset(r) \/ FindInvited(r)
    PROVE  TypeInv'
<1>1. UNCHANGED <<rows, history>> /\ calls[r].at # "idle"
  BY DEF FindForReset, FindInvited, At
<1>2. CASE End(r)
  BY <1>1, <1>2, EndTyped, QuietTyped
<1>3. CASE Goto(r, "consume_code")
  BY <1>1, <1>3, GotoTyped, QuietTyped DEF Plain, Places
<1>4. ASSUME NEW purpose \in Purposes,
             Become(r, [calls[r] EXCEPT !.at = "supersede", !.purpose = purpose])
      PROVE  TypeInv'
  <2> DEFINE c == [calls[r] EXCEPT !.at = "supersede", !.purpose = purpose]
  <2>1. c \in Calls /\ c.at = "supersede" /\ c.kind = calls[r].kind /\ c.session = calls[r].session
    BY CallFields, ZenonT(60) DEF Calls, Places
  <2>2. Sound(c)
    BY <1>1, <2>1, CallFields DEF Sound
  <2>3. QED
    BY <1>1, <1>4, <2>1, <2>2, BecomeTyped, QuietTyped
<1>5. QED
  BY <1>2, <1>3, <1>4 DEF FindForReset, FindInvited, Purposes

\* A removal and an enrolment find the rows they are about.
LEMMA FindFactorsTyped ==
    ASSUME TypeInv, NEW r \in Requests,
           ReadPending(r) \/ FindPending(r) \/ CountFactors(r) \/ DeleteFactor(r)
    PROVE  TypeInv'
<1>1. UNCHANGED <<rows, history>> /\ calls[r].at # "idle"
  BY DEF ReadPending, FindPending, CountFactors, DeleteFactor, At
<1>2. CASE End(r)
  BY <1>1, <1>2, EndTyped, QuietTyped
<1>3. ASSUME NEW place \in {"insert", "confirm", "delete", "commit"}, NEW f \in Authenticators \cup {NULL},
             NEW seen \in SUBSET Authenticators,
             place \in {"delete", "commit"} => f \in Authenticators,
             Become(r, [calls[r] EXCEPT !.at = place, !.factor = f, !.seen = seen])
      PROVE  TypeInv'
  <2> DEFINE c == [calls[r] EXCEPT !.at = place, !.factor = f, !.seen = seen]
  <2>1. /\ c \in Calls /\ c.at = place /\ c.kind = calls[r].kind /\ c.session = calls[r].session
        /\ c.factor = f
    BY CallFields, ZenonT(60) DEF Calls, Places
  <2>2. Sound(c)
    BY <1>1, <1>3, <2>1, CallFields DEF Sound
  <2>3. QED
    BY <1>1, <1>3, <2>1, <2>2, BecomeTyped, QuietTyped
<1>4. calls[r] \in Calls
  BY CallFields
<1>5. CASE ReadPending(r)
  <2>1. CASE Become(r, [calls[r] EXCEPT !.at = "insert", !.seen = Pending])
    <3>1. [calls[r] EXCEPT !.at = "insert", !.seen = Pending]
            = [calls[r] EXCEPT !.at = "insert", !.factor = calls[r].factor, !.seen = Pending]
      BY <1>4 DEF Calls
    <3>2. Pending \subseteq Authenticators
      BY DEF Pending
    <3>3. QED
      BY <2>1, <3>1, <3>2, <1>3, CallFields
  <2>2. QED
    BY <1>2, <1>5, <2>1 DEF ReadPending
<1>6. CASE FindPending(r)
  <2>1. ASSUME NEW f \in Pending, Become(r, [calls[r] EXCEPT !.factor = f])
        PROVE  TypeInv'
    <3>1. [calls[r] EXCEPT !.factor = f]
            = [calls[r] EXCEPT !.at = "confirm", !.factor = f, !.seen = calls[r].seen]
      BY <1>4, <1>6 DEF Calls, FindPending, At
    <3>2. f \in Authenticators
      BY DEF Pending
    <3>3. QED
      BY <2>1, <3>1, <3>2, <1>3, CallFields
  <2>2. QED
    BY <1>2, <1>6, <2>1 DEF FindPending
<1>7. CASE CountFactors(r)
  <2>1. ASSUME NEW f \in Confirmed \cup Pending, Become(r, [calls[r] EXCEPT !.at = "delete", !.factor = f])
        PROVE  TypeInv'
    <3>1. [calls[r] EXCEPT !.at = "delete", !.factor = f]
            = [calls[r] EXCEPT !.at = "delete", !.factor = f, !.seen = calls[r].seen]
      BY <1>4 DEF Calls
    <3>2. f \in Authenticators
      BY DEF Pending, Confirmed
    <3>3. QED
      BY <2>1, <3>1, <3>2, <1>3, CallFields
  <2>2. QED
    BY <1>2, <1>7, <2>1 DEF CountFactors
<1>8. CASE DeleteFactor(r)
  <2> DEFINE seen == Confirmed \ {calls[r].factor}
  <2>1. CASE Become(r, [calls[r] EXCEPT !.at = "commit", !.seen = seen])
    <3>1. [calls[r] EXCEPT !.at = "commit", !.seen = seen]
            = [calls[r] EXCEPT !.at = "commit", !.factor = calls[r].factor, !.seen = seen]
      BY <1>4 DEF Calls
    <3>2. calls[r].factor \in Authenticators /\ seen \subseteq Authenticators
      BY <1>8, CallFields DEF Sound, DeleteFactor, At, Confirmed
    <3>3. QED
      BY <2>1, <3>1, <3>2, <1>3, ZenonT(60)
  <2>2. QED
    BY <1>2, <1>8, <2>1 DEF DeleteFactor
<1>9. QED
  BY <1>5, <1>6, <1>7, <1>8

\* A step of a request that ends it, or goes on to a place, and writes some rows.
LEMMA MovesTyped ==
    ASSUME TypeInv, NEW r \in Requests, calls[r].at # "idle",
           End(r) \/ \E place \in Plain : Goto(r, place),
           RowsTyped', HistoryTyped'
    PROVE  TypeInv'
BY EndTyped, GotoTyped DEF TypeInv

\* The steps that write the account.
LEMMA UserWritesTyped ==
    ASSUME TypeInv, NEW r \in Requests,
           \/ WrongPassword(r) \/ UpgradeHash(r) \/ RecordSuccess(r)
           \/ SetPassword(r) \/ Accept(r) \/ SetStatus(r)
    PROVE  TypeInv'
<1>1. /\ user \in Users /\ password_or_pending(user)
      /\ user.status \in Statuses /\ user.password \in 0..MaxPasswords /\ user.weak \in BOOLEAN
      /\ user.must_change \in BOOLEAN /\ user.failed \in Nat /\ user.locked \in BOOLEAN
      /\ user.mfa_enabled \in BOOLEAN
  BY DEF TypeInv, RowsTyped, Users
<1>2. calls[r].at # "idle" /\ (End(r) \/ \E place \in Plain : Goto(r, place))
  BY DEF WrongPassword, UpgradeHash, RecordSuccess, SetPassword, Accept, SetStatus, At, Plain, Places
<1>3. user' \in Users /\ password_or_pending(user')
  <2>1. CASE WrongPassword(r)
    <3> DEFINE lock == user.locked \/ (MaxFailures > 0 /\ user.failed + 1 >= MaxFailures)
               more == user.failed + 1
    <3>1. user' = [user EXCEPT !.failed = more, !.locked = lock]
      BY <2>1 DEF WrongPassword, record_failed_login
    <3>2. lock \in BOOLEAN /\ more \in Nat
      BY <1>1
    <3> HIDE DEF lock, more
    <3>3. QED
      BY <1>1, <3>1, <3>2 DEF Users, password_or_pending
  <2>2. CASE UpgradeHash(r)
    <3>1. calls[r].saw.password \in 0..MaxPasswords /\ calls[r].saw.password # 0
      BY <2>2, CallFields DEF UpgradeHash, At, Sound, Users
    <3>2. QED
      BY <2>2, <3>1, <1>1 DEF UpgradeHash, set_password_hash, Users, password_or_pending
  <2>3. CASE RecordSuccess(r)
    BY <2>3, <1>1 DEF RecordSuccess, Users, password_or_pending
  <2>4. CASE SetPassword(r) \/ Accept(r)
    <3>1. NewPassword \in 0..MaxPasswords /\ NewPassword # 0
      BY <2>4, <1>1, AccountsAssumption
         DEF SetPassword, Accept, MayChange, NewPassword, AccountsAssumption
    <3>2. user' \in {set_password_hash(user, NewPassword),
                     mark_email_verified(set_password_hash(user, NewPassword))}
      BY <2>4 DEF SetPassword, Accept
    <3>3. set_password_hash(user, NewPassword) \in Users
          /\ set_password_hash(user, NewPassword).password = NewPassword
      BY <1>1, <3>1 DEF set_password_hash, Users
    <3>4. mark_email_verified(set_password_hash(user, NewPassword)) \in Users
          /\ mark_email_verified(set_password_hash(user, NewPassword)).password = NewPassword
      BY <3>3 DEF mark_email_verified, Users, Statuses
    <3>5. QED
      BY <3>1, <3>2, <3>3, <3>4 DEF password_or_pending
  <2>5. CASE SetStatus(r)
    <3>1. PICK status \in Statuses :
            user' = IF password_or_pending([user EXCEPT !.status = status])
                    THEN [user EXCEPT !.status = status] ELSE user
      BY <2>5 DEF SetStatus
    <3>2. [user EXCEPT !.status = status] \in Users
      BY <1>1 DEF Users
    <3>3. QED
      BY <3>1, <3>2, <1>1
  <2>6. QED
    BY <2>1, <2>2, <2>3, <2>4, <2>5
<1>4. UNCHANGED <<policy, sessions, tokens, factors, codes, arrived, honoured, strict>>
      /\ tries' \in {tries, tries + 1, 0}
  BY DEF WrongPassword, UpgradeHash, RecordSuccess, SetPassword, Accept, SetStatus, history
<1>5. RowsTyped'
  BY <1>3, <1>4 DEF TypeInv, RowsTyped, password_or_pending
<1>6. HistoryTyped'
  BY <1>4 DEF TypeInv, HistoryTyped
<1>7. QED
  BY <1>2, <1>5, <1>6, MovesTyped

\* The steps that write sessions and nothing else.
LEMMA SessionWritesTyped ==
    ASSUME TypeInv, NEW r \in Requests,
           \/ LockOut(r) \/ StartChallenge(r) \/ Resume(r) \/ Authenticate(r) \/ WrongCode(r)
           \/ RevokeById(r) \/ MarkSatisfied(r) \/ RevokeSessions(r)
    PROVE  TypeInv'
<1>1. sessions \in [Sessions -> SessionType]
  BY DEF TypeInv, RowsTyped
<1>2. calls[r].at # "idle"
  BY DEF LockOut, StartChallenge, Resume, Authenticate, WrongCode, RevokeById, MarkSatisfied,
     RevokeSessions, At
<1>3. ~Resume(r) => End(r) \/ \E place \in Plain : Goto(r, place)
  <2>1. CASE Authenticate(r)
    <3>1. {"admitted", "policy", "read", "confirm", "codes"} \subseteq Plain
      BY DEF Plain, Places
    <3>2. calls[r].kind \in SelfService
      BY <2>1 DEF Authenticate, At
    <3>3. CASE End(r)
      BY <3>3
    <3>4. CASE ~End(r)
      <4>1. Goto(r, CASE calls[r].kind = "use" -> "admitted"
                      [] calls[r].kind \in {"begin", "remove"} -> "policy"
                      [] calls[r].kind = "change" -> "read"
                      [] OTHER -> calls[r].kind)
        BY <2>1, <3>4 DEF Authenticate
      <4>2. QED
        BY <4>1, <3>1, <3>2 DEF SelfService
    <3>5. QED
      BY <3>3, <3>4
  <2>2. {"admitted", "exhausted", "revoke_tokens"} \subseteq Plain
    BY DEF Plain, Places
  <2>3. QED
    BY <2>1, <2>2 DEF LockOut, StartChallenge, WrongCode, RevokeById, MarkSatisfied, RevokeSessions
<1>4. UNCHANGED <<user, policy, tokens, factors, codes, history>>
  BY DEF LockOut, StartChallenge, Resume, Authenticate, WrongCode, RevokeById, MarkSatisfied,
     RevokeSessions
<1>5. sessions' \in [Sessions -> SessionType]
  <2>1. CASE LockOut(r) \/ RevokeSessions(r)
    BY <2>1, <1>1 DEF LockOut, RevokeSessions, revoke_all, SessionType
  <2>2. CASE StartChallenge(r)
    BY <2>2, <1>1 DEF StartChallenge, SessionType
  <2>3. CASE Resume(r)
    <3>1. UNCHANGED sessions \/ sessions' = [sessions EXCEPT ![calls[r].session].state = "over"]
      BY <2>3 DEF Resume
    <3>2. QED
      BY <3>1, <1>1 DEF SessionType
  <2>4. CASE Authenticate(r)
    <3>1. UNCHANGED sessions \/ sessions' = [sessions EXCEPT ![calls[r].session].state = "over"]
      BY <2>4 DEF Authenticate
    <3>2. QED
      BY <3>1, <1>1 DEF SessionType
  <2>5. CASE WrongCode(r)
    <3>1. calls[r].session \in Sessions
      BY <2>5, CallFields DEF Sound, WrongCode, At
    <3>2. sessions' = [sessions EXCEPT ![calls[r].session].wrong = sessions[calls[r].session].wrong + 1]
      BY <2>5 DEF WrongCode
    <3>3. QED
      BY <3>1, <3>2, <1>1 DEF SessionType
  <2>6. CASE RevokeById(r)
    BY <2>6, <1>1, ZenonT(60) DEF RevokeById, SessionType
  <2>7. CASE MarkSatisfied(r)
    BY <2>7, <1>1 DEF MarkSatisfied, SessionType
  <2>8. QED
    BY <2>1, <2>2, <2>3, <2>4, <2>5, <2>6, <2>7
<1>6. RowsTyped' /\ HistoryTyped'
  BY <1>4, <1>5 DEF TypeInv, RowsTyped, HistoryTyped, password_or_pending, history
<1>7. CASE Resume(r) /\ ~End(r)
  <2>1. CASE Goto(r, "state")
    BY <2>1, <1>2, <1>6, MovesTyped DEF Plain, Places
  <2>2. CASE ~Goto(r, "state")
    <3> DEFINE m == sessions[calls[r].session].mfa
               c == [calls[r] EXCEPT !.at = "account", !.mfa = m]
    <3>1. Become(r, c)
      BY <1>7, <2>2 DEF Resume
    <3>2. calls[r].at = "resume" /\ calls[r].session \in Sessions
      BY <1>7, CallFields DEF Resume, Sound
    <3>3. m \in BOOLEAN
      BY <1>1, <3>2 DEF SessionType
    <3> HIDE DEF m
    <3>4. c \in Calls /\ c.kind = calls[r].kind /\ c.at = "account" /\ c.session = calls[r].session
      <4>1. "account" \in Places
        BY DEF Places
      <4>2. calls[r] \in Calls
        BY CallFields
      <4>3. QED
        BY <3>3, <4>1, <4>2 DEF Calls
    <3> HIDE DEF c
    <3>5. Sound(c)
      BY <3>2, <3>4, CallFields DEF Sound
    <3>6. CallsTyped'
      BY <3>1, <3>4, <3>5, BecomeTyped
    <3>7. QED
      BY <3>6, <1>6 DEF TypeInv
  <2>3. QED
    BY <2>1, <2>2
<1>8. QED
  BY <1>2, <1>3, <1>6, <1>7, MovesTyped

LEMMA OpenSessionTyped ==
    ASSUME TypeInv, NEW r \in Requests, OpenSession(r)
    PROVE  TypeInv'
<1>1. PICK s \in Sessions :
        /\ sessions' = [sessions EXCEPT ![s] =
              [NoSession EXCEPT !.state = "live", !.mfa = (calls[r].outcome = "signed_in")]]
        /\ Become(r, [calls[r] EXCEPT !.session = s,
                         !.at = IF calls[r].outcome = "challenge" THEN "challenge" ELSE "admitted"])
        /\ UNCHANGED <<user, policy, tokens, factors, codes, history>>
  BY DEF OpenSession
<1> DEFINE place == IF calls[r].outcome = "challenge" THEN "challenge" ELSE "admitted"
           c == [calls[r] EXCEPT !.session = s, !.at = place]
<1>2. c \in Calls /\ c.at = place /\ c.kind = calls[r].kind /\ c.session = s
  <2>1. place \in Places
    BY DEF Places
  <2> HIDE DEF place
  <2>2. QED
    BY <2>1, CallFields DEF Calls
<1>3. Sound(c)
  BY <1>2 DEF Sound
<1>4. CallsTyped'
  BY <1>1, <1>2, <1>3, BecomeTyped
<1>5. [NoSession EXCEPT !.state = "live", !.mfa = (calls[r].outcome = "signed_in")] \in SessionType
  BY DEF NoSession, SessionType
<1>6. sessions' \in [Sessions -> SessionType]
  BY <1>1, <1>5 DEF TypeInv, RowsTyped
<1>7. RowsTyped' /\ HistoryTyped'
  BY <1>1, <1>6 DEF TypeInv, RowsTyped, HistoryTyped, password_or_pending, history
<1>8. QED
  BY <1>4, <1>7 DEF TypeInv

\* The steps that write tokens, and the history of them.
LEMMA TokenWritesTyped ==
    ASSUME TypeInv, NEW r \in Requests,
           Supersede(r) \/ InsertToken(r) \/ Consume(r) \/ RedeemCode(r) \/ RevokeCodes(r)
    PROVE  TypeInv'
<1>1. tokens \in [Tokens -> TokenType] /\ honoured \in [Tokens \cup RecoveryCodes -> Nat]
  BY DEF TypeInv, RowsTyped, HistoryTyped
<1>2. calls[r].at # "idle" /\ (End(r) \/ \E place \in Plain : Goto(r, place))
  BY DEF Supersede, InsertToken, Consume, RedeemCode, RevokeCodes, At, Plain, Places
<1>3. UNCHANGED <<user, policy, sessions, factors, codes, arrived, tries, strict>>
  BY DEF Supersede, InsertToken, Consume, RedeemCode, RevokeCodes, history
<1>4. tokens' \in [Tokens -> TokenType] /\ honoured' \in [Tokens \cup RecoveryCodes -> Nat]
  <2>1. CASE Supersede(r) \/ RevokeCodes(r)
    BY <2>1, <1>1 DEF Supersede, RevokeCodes, revoked, TokenType, history
  <2>2. CASE InsertToken(r)
    BY <2>2, <1>1, CallFields DEF InsertToken, TokenType, history
  <2>3. CASE Consume(r)
    <3>1. calls[r].token \in Tokens
      BY <2>3, CallFields DEF Sound, Consume
    <3>2. honoured[calls[r].token] + 1 \in Nat
      BY <3>1, <1>1
    <3>3. QED
      BY <2>3, <1>1, <3>1, <3>2 DEF Consume, TokenType
  <2>4. CASE RedeemCode(r)
    <3>1. CASE UNCHANGED <<tokens, honoured>>
      BY <3>1, <1>1
    <3>2. CASE \E t \in Tokens, matched \in BOOLEAN :
             /\ tokens' = [tokens EXCEPT ![t].wrong = @ + (IF matched THEN 0 ELSE 1),
                              ![t].state = IF burns(matched, tokens[t].wrong) THEN "over" ELSE "live"]
             /\ honoured' = IF matched THEN [honoured EXCEPT ![t] = @ + 1] ELSE honoured
      <4>1. PICK t \in Tokens, matched \in BOOLEAN :
               /\ tokens' = [tokens EXCEPT ![t].wrong = @ + (IF matched THEN 0 ELSE 1),
                                ![t].state = IF burns(matched, tokens[t].wrong) THEN "over" ELSE "live"]
               /\ honoured' = IF matched THEN [honoured EXCEPT ![t] = @ + 1] ELSE honoured
        BY <3>2
      <4>2. tokens[t] \in TokenType /\ honoured[t] + 1 \in Nat
        BY <1>1
      <4>3. tokens[t].wrong + (IF matched THEN 0 ELSE 1) \in Nat
        BY <4>2 DEF TokenType
      <4>4. tokens' \in [Tokens -> TokenType]
        BY <4>1, <4>3, <1>1, ZenonT(60) DEF TokenType
      <4>5. QED
        BY <4>1, <4>2, <4>4, <1>1
    <3>3. QED
      BY <2>4, <3>1, <3>2 DEF RedeemCode
  <2>5. QED
    BY <2>1, <2>2, <2>3, <2>4
<1>5. RowsTyped' /\ HistoryTyped'
  BY <1>3, <1>4 DEF TypeInv, RowsTyped, HistoryTyped, password_or_pending
<1>6. QED
  BY <1>2, <1>5, MovesTyped

\* The steps that write factors and recovery codes.
LEMMA FactorWritesTyped ==
    ASSUME TypeInv, NEW r \in Requests,
           \/ RightCode(r) \/ InsertUnconfirmed(r) \/ ConfirmFactor(r) \/ CommitRemoval(r)
           \/ ResetFactors(r) \/ ReplaceCodes(r)
    PROVE  TypeInv'
<1>1. /\ factors \in [Authenticators -> {"free", "pending", "confirmed", "gone"}]
      /\ codes \in [RecoveryCodes -> {"free", "live", "gone"}]
      /\ honoured \in [Tokens \cup RecoveryCodes -> Nat] /\ user \in Users /\ password_or_pending(user)
  BY DEF TypeInv, RowsTyped, HistoryTyped
<1>2. calls[r].at # "idle" /\ (End(r) \/ \E place \in Plain : Goto(r, place))
  BY DEF RightCode, InsertUnconfirmed, ConfirmFactor, CommitRemoval, ResetFactors, ReplaceCodes, At,
     Plain, Places
<1>3. UNCHANGED <<policy, sessions, tokens, arrived, tries, strict>>
  BY DEF RightCode, InsertUnconfirmed, ConfirmFactor, CommitRemoval, ResetFactors, ReplaceCodes, history
<1>4. user' \in {user, [user EXCEPT !.mfa_enabled = TRUE], [user EXCEPT !.mfa_enabled = FALSE]}
  BY DEF RightCode, InsertUnconfirmed, ConfirmFactor, CommitRemoval, ResetFactors, ReplaceCodes
<1>5. user' \in Users /\ password_or_pending(user')
  BY <1>1, <1>4 DEF Users, password_or_pending
<1>6. codes' \in [RecoveryCodes -> {"free", "live", "gone"}]
      /\ honoured' \in [Tokens \cup RecoveryCodes -> Nat]
  <2>1. Erased \in [RecoveryCodes -> {"free", "live", "gone"}]
    BY <1>1 DEF Erased
  <2>2. CASE RightCode(r)
    BY <2>2, <1>1 DEF RightCode, LiveCodes
  <2>3. CASE CommitRemoval(r) \/ ResetFactors(r)
    BY <2>3, <2>1, <1>1 DEF CommitRemoval, ResetFactors, history
  <2>4. CASE ReplaceCodes(r)
    BY <2>4, <2>1, <1>1 DEF ReplaceCodes, history
  <2>5. CASE InsertUnconfirmed(r) \/ ConfirmFactor(r)
    BY <2>5, <1>1 DEF InsertUnconfirmed, ConfirmFactor, history
  <2>6. QED
    BY <2>2, <2>3, <2>4, <2>5
<1>7. factors' \in [Authenticators -> {"free", "pending", "confirmed", "gone"}]
  BY <1>1 DEF RightCode, InsertUnconfirmed, ConfirmFactor, CommitRemoval, ResetFactors, ReplaceCodes
<1>8. RowsTyped' /\ HistoryTyped'
  BY <1>3, <1>5, <1>6, <1>7 DEF TypeInv, RowsTyped, HistoryTyped, password_or_pending
<1>9. QED
  BY <1>2, <1>8, MovesTyped

LEMMA SaveSettingsTyped ==
    ASSUME TypeInv, NEW r \in Requests, SaveSettings(r)
    PROVE  TypeInv'
<1>1. RowsTyped' /\ HistoryTyped'
  BY DEF SaveSettings, TypeInv, RowsTyped, HistoryTyped, password_or_pending
<1>2. QED
  BY <1>1, MovesTyped DEF SaveSettings, At

LEMMA TimeTyped ==
    ASSUME TypeInv,
           LockRunsOut \/ (\E s \in Sessions : SessionRunsOut(s)) \/ (\E t \in Tokens : TokenRunsOut(t))
    PROVE  TypeInv'
<1>1. CallsTyped'
  BY DEF TypeInv, CallsTyped, CallsSound, Sound, LockRunsOut, SessionRunsOut, TokenRunsOut, Observe
<1>2. CASE LockRunsOut
  <2>1. user' \in Users /\ password_or_pending(user')
    BY <1>2 DEF LockRunsOut, TypeInv, RowsTyped, Users, password_or_pending
  <2>2. RowsTyped' /\ HistoryTyped'
    BY <1>2, <2>1 DEF LockRunsOut, TypeInv, RowsTyped, HistoryTyped, password_or_pending
  <2>3. QED
    BY <1>1, <2>2 DEF TypeInv
<1>3. ASSUME NEW s \in Sessions, SessionRunsOut(s)
      PROVE  TypeInv'
  <2>1. sessions' \in [Sessions -> SessionType]
    <3>1. sessions \in [Sessions -> SessionType]
      BY DEF TypeInv, RowsTyped
    <3>2. sessions' \in {[sessions EXCEPT ![s].state = "over"], [sessions EXCEPT ![s].challenge = FALSE]}
      BY <1>3 DEF SessionRunsOut
    <3>3. [sessions[s] EXCEPT !.state = "over"] \in SessionType
          /\ [sessions[s] EXCEPT !.challenge = FALSE] \in SessionType
      BY <3>1 DEF SessionType
    <3>4. QED
      BY <3>1, <3>2, <3>3
  <2>2. RowsTyped' /\ HistoryTyped'
    BY <1>3, <2>1 DEF SessionRunsOut, TypeInv, RowsTyped, HistoryTyped, password_or_pending, history
  <2>3. QED
    BY <1>1, <2>2 DEF TypeInv
<1>4. ASSUME NEW t \in Tokens, TokenRunsOut(t)
      PROVE  TypeInv'
  <2>1. tokens' \in [Tokens -> TokenType]
    BY <1>4 DEF TokenRunsOut, TypeInv, RowsTyped, TokenType
  <2>2. RowsTyped' /\ HistoryTyped'
    BY <1>4, <2>1 DEF TokenRunsOut, TypeInv, RowsTyped, HistoryTyped, password_or_pending, history
  <2>3. QED
    BY <1>1, <2>2 DEF TypeInv
<1>5. QED
  BY <1>2, <1>3, <1>4

LEMMA TypeInit == Init => TypeInv
<1>1. SUFFICES ASSUME Init PROVE TypeInv
  OBVIOUS
<1>2. CallsTyped
  BY <1>1, RowTypes DEF Init, CallsTyped, CallsSound, Sound, Idle
<1>3. user \in Users /\ password_or_pending(user)
  <2>1. PICK purpose \in Purposes, app \in SUBSET Authenticators, begun \in SUBSET Authenticators,
             open \in SUBSET Sessions, old \in BOOLEAN : InitUser(purpose, app, begun, open, old)
    BY <1>1 DEF Init
  <2>2. CASE user = Invited
    BY <2>2, RowTypes DEF Invited, password_or_pending
  <2>3. CASE user = Established(old, app)
    <3>1. 1 \in 0..MaxPasswords
      BY AccountsAssumption DEF AccountsAssumption
    <3>2. user \in Users
      BY <2>3, <3>1, RowTypes DEF Established, Users, Statuses
    <3>3. user.password = 1
      BY <2>3, RowTypes DEF Established, Users
    <3>4. QED
      BY <3>2, <3>3 DEF password_or_pending
  <2>4. QED
    BY <2>1, <2>2, <2>3 DEF InitUser
<1>4. /\ sessions \in [Sessions -> SessionType] /\ tokens \in [Tokens -> TokenType]
      /\ factors \in [Authenticators -> {"free", "pending", "confirmed", "gone"}]
      /\ codes \in [RecoveryCodes -> {"free", "live", "gone"}]
  BY <1>1, RowTypes DEF Init, InitFactors, SessionType, TokenType
<1>5. RowsTyped
  BY <1>1, <1>3, <1>4 DEF Init, RowsTyped
<1>6. HistoryTyped
  BY <1>1, AccountsAssumption DEF Init, HistoryTyped, AccountsAssumption
<1>7. QED
  BY <1>2, <1>5, <1>6 DEF TypeInv

LEMMA TypeNext == TypeInv /\ [Next]_vars => TypeInv'
<1>1. SUFFICES ASSUME TypeInv, [Next]_vars PROVE TypeInv'
  OBVIOUS
<1>2. CASE UNCHANGED vars
  BY <1>1, <1>2 DEF vars, rows, history, TypeInv, CallsTyped, CallsSound, Sound, RowsTyped,
     HistoryTyped, password_or_pending
<1>3. ASSUME NEW r \in Requests, ArriveWithSession(r) \/ ArriveAnonymous(r) \/ ArriveAdministrator(r)
      PROVE  TypeInv'
  BY <1>1, <1>3, ArriveTyped
<1>4. ASSUME NEW r \in Requests, SignInStep(r)
      PROVE  TypeInv'
  BY <1>1, <1>4, FindByEmailTyped, UserWritesTyped, SessionWritesTyped, LoadSettingsTyped, DecideTyped,
     OpenSessionTyped, LooksTyped DEF SignInStep
<1>5. ASSUME NEW r \in Requests, FactorStep(r)
      PROVE  TypeInv'
  BY <1>1, <1>5, LooksTyped, FactorWritesTyped, SessionWritesTyped, FindFactorsTyped DEF FactorStep
<1>6. ASSUME NEW r \in Requests, PasswordStep(r)
      PROVE  TypeInv'
  BY <1>1, <1>6, TokenWritesTyped, FindByEmailTyped, FindsTyped, LooksTyped, UserWritesTyped,
     SessionWritesTyped DEF PasswordStep
<1>7. ASSUME NEW r \in Requests, AdministratorStep(r) \/ Resume(r) \/ Authenticate(r)
      PROVE  TypeInv'
  BY <1>1, <1>7, FindsTyped, FindByEmailTyped, UserWritesTyped, SaveSettingsTyped, SessionWritesTyped
     DEF AdministratorStep
<1>8. CASE LockRunsOut \/ (\E s \in Sessions : SessionRunsOut(s)) \/ (\E t \in Tokens : TokenRunsOut(t))
  BY <1>1, <1>8, TimeTyped
<1>9. QED
  BY <1>1, <1>2, <1>3, <1>4, <1>5, <1>6, <1>7, <1>8 DEF Next

LEMMA TypeInvariant == Spec => []TypeInv
<1>1. QED
  BY TypeInit, TypeNext, PTL DEF Spec

\* Every row and every request has its type, and an account that can sign in has a
\* password to do it with, which is what users_password_or_pending demands.
THEOREM TypeCorrect == Spec => []TypeOK
<1>1. QED
  BY TypeInvTypes, TypeInvariant, PTL

-----------------------------------------------------------------------------
(* The status of the account                                               *)

\* Which steps write the account at all, or count a guess at its password.
LEMMA UserKept ==
    ASSUME [Next]_vars,
           ~\E r \in Requests :
              \/ WrongPassword(r) \/ UpgradeHash(r) \/ RecordSuccess(r) \/ SetPassword(r) \/ Accept(r)
              \/ SetStatus(r) \/ ConfirmFactor(r) \/ CommitRemoval(r) \/ ResetFactors(r),
           ~LockRunsOut
    PROVE  UNCHANGED <<user, tries>>
<1>1. CASE UNCHANGED vars
  BY <1>1 DEF vars, rows, history
<1>2. ASSUME NEW r \in Requests, ArriveWithSession(r) \/ ArriveAnonymous(r) \/ ArriveAdministrator(r)
      PROVE  UNCHANGED <<user, tries>>
  BY <1>2 DEF ArriveWithSession, ArriveAnonymous, ArriveAdministrator, Arrive, rows
<1>3. ASSUME NEW r \in Requests, SignInStep(r) \/ Resume(r) \/ Authenticate(r) \/ AdministratorStep(r)
      PROVE  UNCHANGED <<user, tries>>
  BY <1>3 DEF SignInStep, AdministratorStep, FindByEmail, LockOut, LoadSettings, Decide, OpenSession,
     StartChallenge, Respond, Resume, Authenticate, FindInvited, LoadUser, SaveSettings, rows, history
<1>4. ASSUME NEW r \in Requests, FactorStep(r)
      PROVE  UNCHANGED <<user, tries>>
  BY <1>4 DEF FactorStep, ReadChallenge, RightCode, WrongCode, RevokeById, MarkSatisfied, ReadPending,
     InsertUnconfirmed, FindPending, CountFactors, DeleteFactor, ReplaceCodes, rows, history
<1>5. ASSUME NEW r \in Requests, PasswordStep(r)
      PROVE  UNCHANGED <<user, tries>>
  BY <1>5 DEF PasswordStep, Supersede, InsertToken, Consume, RedeemHandoff, FindForReset, RedeemCode,
     VerifyCurrent, RefusePassword, RevokeSessions, RevokeCodes, rows, history
<1>6. CASE (\E s \in Sessions : SessionRunsOut(s)) \/ (\E t \in Tokens : TokenRunsOut(t))
  BY <1>6 DEF SessionRunsOut, TokenRunsOut, history
<1>7. QED
  BY <1>1, <1>2, <1>3, <1>4, <1>5, <1>6 DEF Next

LEMMA StatusSteps ==
    ASSUME TypeInv, [Next]_vars, user.status \in {"suspended", "deactivated"},
           user'.status # user.status
    PROVE  \E r \in Requests : At(r, {"set_status"}, "write")
<1>1. user \in Users /\ user.status # "pending"
  BY DEF TypeInv, RowsTyped
<1>2. ~LockRunsOut
  BY <1>1 DEF LockRunsOut, Users
<1>3. PICK r \in Requests :
         \/ WrongPassword(r) \/ UpgradeHash(r) \/ RecordSuccess(r) \/ SetPassword(r) \/ Accept(r)
         \/ SetStatus(r) \/ ConfirmFactor(r) \/ CommitRemoval(r) \/ ResetFactors(r)
  BY <1>2, UserKept
<1>4. \A p : set_password_hash(user, p).status = user.status
  BY <1>1 DEF set_password_hash, Users
<1>5. ~Accept(r)
  <2>1. mark_email_verified(set_password_hash(user, NewPassword)).status = user.status
    BY <1>1, <1>4 DEF mark_email_verified, set_password_hash, Users
  <2>2. QED
    BY <2>1 DEF Accept
<1>6. ~WrongPassword(r)
  BY <1>1 DEF WrongPassword, record_failed_login, Users
<1>7. ~UpgradeHash(r) /\ ~SetPassword(r)
  BY <1>4 DEF UpgradeHash, SetPassword
<1>8. ~RecordSuccess(r) /\ ~ConfirmFactor(r) /\ ~CommitRemoval(r) /\ ~ResetFactors(r)
  BY <1>1 DEF RecordSuccess, ConfirmFactor, CommitRemoval, ResetFactors, Users
<1>9. QED
  BY <1>3, <1>5, <1>6, <1>7, <1>8 DEF SetStatus

\* Somebody who was suspended or deactivated is let back by an administrator and by
\* nothing that was under way: an invitation, a reset, a sign-in.
THEOREM WithdrawnKeptOut == Spec => WithdrawnStaysOut
<1>1. TypeInv /\ [Next]_vars =>
        [user.status \in {"suspended", "deactivated"} /\ user'.status # user.status
           => \E r \in Requests : At(r, {"set_status"}, "write")]_vars
  BY StatusSteps
<1>2. QED
  BY <1>1, TypeInvariant, PTL DEF Spec, WithdrawnStaysOut

-----------------------------------------------------------------------------
(* Secrets                                                                 *)

\* A step that gives no secret a new life and takes none.
LEMMA SecretsKept ==
    ASSUME SecretsOK, UNCHANGED honoured,
           \A t \in Tokens : tokens'[t].state # "over" => tokens[t].state # "over",
           \A c \in RecoveryCodes : codes'[c] # "gone" => codes[c] # "gone"
    PROVE  SecretsOK'
BY DEF SecretsOK, TakenOnce

\* A step that takes one: it has not been taken before, and cannot be again.
LEMMA SecretTaken ==
    ASSUME SecretsOK, TypeInv, NEW x \in Tokens \cup RecoveryCodes,
           honoured' = [honoured EXCEPT ![x] = @ + 1],
           \A t \in Tokens : tokens'[t].state # "over" => tokens[t].state # "over" /\ t # x,
           \A c \in RecoveryCodes : codes'[c] # "gone" => codes[c] # "gone" /\ c # x,
           honoured[x] = 0
    PROVE  SecretsOK'
<1>1. \A y \in Tokens \cup RecoveryCodes : honoured'[y] = IF y = x THEN 1 ELSE honoured[y]
  BY DEF TypeInv, HistoryTyped
<1>2. QED
  BY <1>1 DEF SecretsOK, TakenOnce

LEMMA SecretSteps ==
    ASSUME TypeInv, SecretsOK, NEW r \in Requests,
           \/ Supersede(r) \/ InsertToken(r) \/ Consume(r) \/ RedeemCode(r) \/ RevokeCodes(r)
           \/ RightCode(r) \/ CommitRemoval(r) \/ ResetFactors(r) \/ ReplaceCodes(r)
    PROVE  SecretsOK'
<1>1. tokens \in [Tokens -> TokenType] /\ codes \in [RecoveryCodes -> {"free", "live", "gone"}]
  BY DEF TypeInv, RowsTyped
<1>2. CASE Supersede(r) \/ RevokeCodes(r)
  <2>1. \A t \in Tokens : tokens'[t].state # "over" => tokens[t].state # "over"
    BY <1>1, <1>2 DEF Supersede, RevokeCodes, revoked, TokenType
  <2>2. UNCHANGED <<codes, honoured>>
    BY <1>2 DEF Supersede, RevokeCodes, history
  <2>3. QED
    BY <2>1, <2>2, SecretsKept
<1>3. CASE InsertToken(r)
  <2>1. \A t \in Tokens : tokens'[t].state # "over" => tokens[t].state # "over"
    BY <1>1, <1>3 DEF InsertToken
  <2>2. UNCHANGED <<codes, honoured>>
    BY <1>3 DEF InsertToken, history
  <2>3. QED
    BY <2>1, <2>2, SecretsKept
<1>4. CASE Consume(r)
  <2> DEFINE x == calls[r].token
  <2>1. x \in Tokens /\ UNCHANGED codes
    BY <1>4, CallFields DEF Consume, Sound
  <2>2. CASE tokens[x].state = "live"
    <3>1. /\ tokens' = [tokens EXCEPT ![x].state = "over"]
          /\ honoured' = [honoured EXCEPT ![x] = @ + 1]
      BY <1>4, <2>2 DEF Consume
    <3>2. \A t \in Tokens : tokens'[t].state # "over" => tokens[t].state # "over" /\ t # x
      BY <1>1, <3>1 DEF TokenType
    <3>3. honoured[x] = 0
      BY <2>1, <2>2 DEF SecretsOK
    <3>4. \A c \in RecoveryCodes : c # x
      BY <2>1, AccountsAssumption DEF AccountsAssumption
    <3>5. QED
      BY <2>1, <3>1, <3>2, <3>3, <3>4, SecretTaken
  <2>3. CASE tokens[x].state # "live"
    BY <1>4, <2>1, <2>3, SecretsKept DEF Consume
  <2>4. QED
    BY <2>2, <2>3
<1>5. CASE RedeemCode(r)
  <2>1. UNCHANGED codes
    BY <1>5 DEF RedeemCode
  <2>2. CASE UNCHANGED <<tokens, honoured>>
    BY <2>1, <2>2, SecretsKept
  <2>3. ASSUME NEW x \in Tokens, NEW matched \in BOOLEAN, live(x, "password_reset"),
               tokens' = [tokens EXCEPT ![x].wrong = @ + (IF matched THEN 0 ELSE 1),
                                ![x].state = IF burns(matched, tokens[x].wrong) THEN "over" ELSE "live"],
               honoured' = IF matched THEN [honoured EXCEPT ![x] = @ + 1] ELSE honoured
        PROVE  SecretsOK'
    <3>1. tokens[x].state = "live" /\ honoured[x] = 0
      BY <2>3 DEF live, SecretsOK
    <3>2. \A t \in Tokens : tokens'[t].state # "over" => tokens[t].state # "over"
      BY <1>1, <2>3, <3>1 DEF TokenType
    <3>3. CASE ~matched
      BY <2>1, <2>3, <3>2, <3>3, SecretsKept
    <3>4. CASE matched
      <4>1. tokens'[x].state = "over"
        BY <1>1, <2>3, <3>4 DEF burns, TokenType
      <4>2. \A c \in RecoveryCodes : c # x
        BY AccountsAssumption DEF AccountsAssumption
      <4>3. honoured' = [honoured EXCEPT ![x] = @ + 1]
        BY <2>3, <3>4
      <4>4. QED
        BY <2>1, <3>1, <3>2, <4>1, <4>2, <4>3, SecretTaken
    <3>5. QED
      BY <3>3, <3>4
  <2>4. QED
    BY <1>5, <2>2, <2>3 DEF RedeemCode
<1>6. CASE RightCode(r)
  <2>1. UNCHANGED tokens
    BY <1>6 DEF RightCode
  <2>2. CASE UNCHANGED <<codes, honoured>>
    BY <2>1, <2>2, SecretsKept
  <2>3. ASSUME NEW x \in LiveCodes, codes' = [codes EXCEPT ![x] = "gone"],
               honoured' = [honoured EXCEPT ![x] = @ + 1]
        PROVE  SecretsOK'
    <3>1. x \in RecoveryCodes /\ honoured[x] = 0
      BY DEF LiveCodes, SecretsOK
    <3>2. \A c \in RecoveryCodes : codes'[c] # "gone" => codes[c] # "gone" /\ c # x
      BY <1>1, <2>3
    <3>3. \A t \in Tokens : t # x
      BY <3>1, AccountsAssumption DEF AccountsAssumption
    <3>4. QED
      BY <2>1, <2>3, <3>1, <3>2, <3>3, SecretTaken
  <2>4. QED
    BY <1>6, <2>2, <2>3 DEF RightCode
<1>7. CASE CommitRemoval(r) \/ ResetFactors(r) \/ ReplaceCodes(r)
  <2>1. \A c \in RecoveryCodes : Erased[c] # "gone" => codes[c] # "gone"
    BY <1>1 DEF Erased
  <2>2. \A c \in RecoveryCodes : codes'[c] # "gone" => codes[c] # "gone"
    <3>1. CASE CommitRemoval(r) \/ ResetFactors(r)
      BY <2>1, <3>1 DEF CommitRemoval, ResetFactors
    <3>2. CASE ReplaceCodes(r)
      BY <1>1, <3>2 DEF ReplaceCodes, Erased
    <3>3. QED
      BY <1>7, <3>1, <3>2
  <2>3. UNCHANGED <<tokens, honoured>>
    BY <1>7 DEF CommitRemoval, ResetFactors, ReplaceCodes, history
  <2>4. QED
    BY <2>2, <2>3, SecretsKept
<1>8. QED
  BY <1>2, <1>3, <1>4, <1>5, <1>6, <1>7

\* The steps that write neither tokens nor codes.
LEMMA SecretsUntouched ==
    ASSUME [Next]_vars,
           ~\E r \in Requests :
               \/ Supersede(r) \/ InsertToken(r) \/ Consume(r) \/ RedeemCode(r) \/ RevokeCodes(r)
               \/ RightCode(r) \/ CommitRemoval(r) \/ ResetFactors(r) \/ ReplaceCodes(r),
           ~\E t \in Tokens : TokenRunsOut(t)
    PROVE  UNCHANGED <<tokens, codes, honoured>>
<1>1. CASE UNCHANGED vars
  BY <1>1 DEF vars, rows, history
<1>2. ASSUME NEW r \in Requests, ArriveWithSession(r) \/ ArriveAnonymous(r) \/ ArriveAdministrator(r)
      PROVE  UNCHANGED <<tokens, codes, honoured>>
  BY <1>2 DEF ArriveWithSession, ArriveAnonymous, ArriveAdministrator, Arrive, rows
<1>3. ASSUME NEW r \in Requests, SignInStep(r) \/ Resume(r) \/ Authenticate(r) \/ AdministratorStep(r)
      PROVE  UNCHANGED <<tokens, codes, honoured>>
  BY <1>3 DEF SignInStep, AdministratorStep, FindByEmail, WrongPassword, LockOut, UpgradeHash, RecordSuccess,
     LoadSettings, Decide, OpenSession, StartChallenge, Respond, Resume, Authenticate, FindInvited,
     LoadUser, SetStatus, SaveSettings, rows, history
<1>4. ASSUME NEW r \in Requests, FactorStep(r)
      PROVE  UNCHANGED <<tokens, codes, honoured>>
  BY <1>4 DEF FactorStep, ReadChallenge, WrongCode, RevokeById, MarkSatisfied, ReadPending,
     InsertUnconfirmed, FindPending, ConfirmFactor, CountFactors, DeleteFactor, rows, history
<1>5. ASSUME NEW r \in Requests, PasswordStep(r)
      PROVE  UNCHANGED <<tokens, codes, honoured>>
  BY <1>5 DEF PasswordStep, RedeemHandoff, FindForReset, VerifyCurrent, RefusePassword, SetPassword,
     RevokeSessions, Accept, rows, history
<1>6. CASE (\E s \in Sessions : SessionRunsOut(s)) \/ LockRunsOut
  BY <1>6 DEF SessionRunsOut, LockRunsOut, history
<1>7. QED
  BY <1>1, <1>2, <1>3, <1>4, <1>5, <1>6 DEF Next

LEMMA SecretsInit == Init => SecretsOK
<1>1. SUFFICES ASSUME Init PROVE SecretsOK
  OBVIOUS
<1>2. \A x \in Tokens \cup RecoveryCodes : honoured[x] = 0
  BY <1>1 DEF Init
<1>3. QED
  BY <1>2 DEF SecretsOK, TakenOnce

LEMMA SecretsNext == TypeInv /\ SecretsOK /\ [Next]_vars => SecretsOK'
<1>1. SUFFICES ASSUME TypeInv, SecretsOK, [Next]_vars PROVE SecretsOK'
  OBVIOUS
<1>2. ASSUME NEW t \in Tokens, TokenRunsOut(t)
      PROVE  SecretsOK'
  <2>1. tokens \in [Tokens -> TokenType]
    BY <1>1 DEF TypeInv, RowsTyped
  <2>2. UNCHANGED <<codes, honoured>>
        /\ \A u \in Tokens : tokens'[u].state # "over" => tokens[u].state # "over"
    BY <1>2, <2>1 DEF TokenRunsOut, history, TokenType
  <2>3. QED
    BY <1>1, <2>2, SecretsKept
<1>3. CASE UNCHANGED <<tokens, codes, honoured>>
  BY <1>1, <1>3, SecretsKept
<1>4. QED
  BY <1>1, <1>2, <1>3, SecretSteps, SecretsUntouched

\* A link, an emailed code, a handoff or a recovery code is taken once, however
\* many requests present it at the same time and whatever supersedes it.
THEOREM SecretsTakenOnce == Spec => []TakenOnce
<1>1. Spec => []SecretsOK
  BY SecretsInit, SecretsNext, TypeInvariant, PTL DEF Spec
<1>2. SecretsOK => TakenOnce
  BY DEF SecretsOK
<1>3. QED
  BY <1>1, <1>2, PTL

-----------------------------------------------------------------------------
(* The steps of one request                                                *)

StepOf(r) ==
    \/ ArriveWithSession(r) \/ ArriveAnonymous(r) \/ ArriveAdministrator(r)
    \/ Resume(r) \/ Authenticate(r)
    \/ SignInStep(r) \/ FactorStep(r) \/ PasswordStep(r) \/ AdministratorStep(r)

TimeStep ==
    LockRunsOut \/ (\E s \in Sessions : SessionRunsOut(s)) \/ (\E t \in Tokens : TokenRunsOut(t))

LEMMA NextSplits == [Next]_vars <=> (\E r \in Requests : StepOf(r)) \/ TimeStep \/ UNCHANGED vars
BY DEF Next, StepOf, TimeStep

\* A request that has used up its answers does nothing but revoke the session.
LEMMA StepsBecome ==
    ASSUME NEW r \in Requests, StepOf(r)
    PROVE  (\E c : Become(r, c)) /\ (calls[r].at = "exhausted" => RevokeById(r))
<1>1. CASE ArriveWithSession(r) \/ ArriveAnonymous(r) \/ ArriveAdministrator(r)
  BY <1>1 DEF ArriveWithSession, ArriveAnonymous, ArriveAdministrator, Arrive
<1>2. CASE Resume(r) \/ Authenticate(r)
  BY <1>2 DEF Resume, Authenticate, At, End, Goto
<1>3. CASE SignInStep(r)
  BY <1>3 DEF SignInStep, FindByEmail, WrongPassword, LockOut, UpgradeHash, RecordSuccess,
     LoadSettings, Decide, OpenSession, StartChallenge, Respond, At, End, Goto
<1>4. CASE FactorStep(r)
  BY <1>4 DEF FactorStep, ReadChallenge, RightCode, WrongCode, RevokeById, MarkSatisfied, ReadPending,
     InsertUnconfirmed, FindPending, ConfirmFactor, CountFactors, DeleteFactor, CommitRemoval,
     ResetFactors, ReplaceCodes, At, End, Goto
<1>5. CASE PasswordStep(r)
  BY <1>5 DEF PasswordStep, Supersede, InsertToken, Consume, RedeemHandoff, FindForReset, RedeemCode,
     VerifyCurrent, RefusePassword, SetPassword, RevokeSessions, RevokeCodes, Accept, At, End, Goto
<1>6. CASE AdministratorStep(r)
  BY <1>6 DEF AdministratorStep, FindInvited, LoadUser, SetStatus, SaveSettings, At, End, Goto
<1>7. QED
  BY <1>1, <1>2, <1>3, <1>4, <1>5, <1>6 DEF StepOf

\* Which of them write sessions.
LEMMA SessionsKept ==
    ASSUME NEW r \in Requests, StepOf(r),
           ~(\/ LockOut(r) \/ OpenSession(r) \/ StartChallenge(r) \/ Resume(r) \/ Authenticate(r)
             \/ WrongCode(r) \/ RevokeById(r) \/ MarkSatisfied(r) \/ RevokeSessions(r))
    PROVE  UNCHANGED sessions
<1>1. CASE ArriveWithSession(r) \/ ArriveAnonymous(r) \/ ArriveAdministrator(r)
  BY <1>1 DEF ArriveWithSession, ArriveAnonymous, ArriveAdministrator, Arrive, rows
<1>2. CASE SignInStep(r)
  BY <1>2 DEF SignInStep, FindByEmail, WrongPassword, UpgradeHash, RecordSuccess, LoadSettings, Decide,
     Respond, rows
<1>3. CASE FactorStep(r)
  BY <1>3 DEF FactorStep, ReadChallenge, RightCode, ReadPending, InsertUnconfirmed, FindPending,
     ConfirmFactor, CountFactors, DeleteFactor, CommitRemoval, ResetFactors, ReplaceCodes, rows
<1>4. CASE PasswordStep(r)
  BY <1>4 DEF PasswordStep, Supersede, InsertToken, Consume, RedeemHandoff, FindForReset, RedeemCode,
     VerifyCurrent, RefusePassword, SetPassword, RevokeCodes, Accept, rows
<1>5. CASE AdministratorStep(r)
  BY <1>5 DEF AdministratorStep, FindInvited, LoadUser, SetStatus, SaveSettings, rows
<1>6. QED
  BY <1>1, <1>2, <1>3, <1>4, <1>5 DEF StepOf

\* What the writes of a session may do to one that is there: it stays, unless it
\* ends, and only a wrong answer counts one and only a right one satisfies it.
LEMMA SessionWrites ==
    ASSUME TypeInv, NEW r \in Requests, StepOf(r), ~OpenSession(r), NEW s \in Sessions
    PROVE  /\ sessions'[s].state # sessions[s].state => sessions'[s].state = "over"
           /\ sessions'[s].wrong # sessions[s].wrong => WrongCode(r) /\ s = calls[r].session
           /\ sessions'[s].mfa # sessions[s].mfa => MarkSatisfied(r) /\ s = calls[r].session
<1>1. sessions \in [Sessions -> SessionType]
  BY DEF TypeInv, RowsTyped
<1>2. CASE UNCHANGED sessions
  BY <1>2
<1>3. CASE LockOut(r) \/ RevokeSessions(r)
  BY <1>1, <1>3 DEF LockOut, RevokeSessions, revoke_all, SessionType
<1>4. CASE StartChallenge(r)
  BY <1>1, <1>4 DEF StartChallenge, SessionType
<1>5. CASE Resume(r) \/ Authenticate(r)
  <2>1. UNCHANGED sessions \/ sessions' = [sessions EXCEPT ![calls[r].session].state = "over"]
    BY <1>5 DEF Resume, Authenticate
  <2>2. QED
    BY <1>1, <2>1 DEF SessionType
<1>6. CASE WrongCode(r)
  <2>1. sessions' = [sessions EXCEPT ![calls[r].session].wrong = sessions[calls[r].session].wrong + 1]
    BY <1>6 DEF WrongCode
  <2>2. QED
    BY <1>1, <1>6, <2>1 DEF SessionType
<1>7. CASE RevokeById(r)
  BY <1>1, <1>7 DEF RevokeById, SessionType
<1>8. CASE MarkSatisfied(r)
  BY <1>1, <1>8 DEF MarkSatisfied, SessionType
<1>9. QED
  BY <1>2, <1>3, <1>4, <1>5, <1>6, <1>7, <1>8, SessionsKept

-----------------------------------------------------------------------------
(* Guesses                                                                 *)

LEMMA PasswordGuessSteps ==
    ASSUME TypeInv, PasswordGuesses, [Next]_vars
    PROVE  PasswordGuesses'
<1>1. /\ user \in Users /\ user.failed \in Nat /\ user.locked \in BOOLEAN /\ tries \in Nat
      /\ MaxFailures \in Nat
  BY AccountsAssumption DEF TypeInv, RowsTyped, HistoryTyped, Users, AccountsAssumption
<1>2. CASE UNCHANGED <<user, tries>>
  BY <1>2 DEF PasswordGuesses
<1>3. CASE LockRunsOut
  BY <1>1, <1>3 DEF LockRunsOut, PasswordGuesses, Users
<1>4. ASSUME NEW r \in Requests, WrongPassword(r)
      PROVE  PasswordGuesses'
  <2> DEFINE lock == user.locked \/ (MaxFailures > 0 /\ user.failed + 1 >= MaxFailures)
  <2>1. user' = [user EXCEPT !.failed = user.failed + 1, !.locked = lock] /\ tries' = tries + 1
    BY <1>4 DEF WrongPassword, record_failed_login
  <2>2. user'.failed = user.failed + 1 /\ user'.locked = lock
    BY <1>1, <2>1 DEF Users
  <2>3. ~user'.locked => ~user.locked /\ ~(MaxFailures > 0 /\ user.failed + 1 >= MaxFailures)
    BY <2>2, Zenon
  <2>4. tries <= user.failed /\ tries' <= user'.failed
    BY <1>1, <2>1, <2>2 DEF PasswordGuesses
  <2>5. MaxFailures > 0 /\ ~user'.locked => tries' < MaxFailures
    <3> HIDE DEF lock
    <3>1. QED
      BY <1>1, <2>1, <2>3, <2>4
  <2>6. QED
    BY <2>4, <2>5 DEF PasswordGuesses
<1>5. ASSUME NEW r \in Requests, RecordSuccess(r)
      PROVE  PasswordGuesses'
  <2>1. user'.failed = 0 /\ tries' = 0
    BY <1>1, <1>5 DEF RecordSuccess, Users
  <2>2. QED
    BY <1>1, <2>1 DEF PasswordGuesses
<1>6. ASSUME NEW r \in Requests,
             \/ UpgradeHash(r) \/ SetPassword(r) \/ Accept(r) \/ SetStatus(r) \/ ConfirmFactor(r)
             \/ CommitRemoval(r) \/ ResetFactors(r)
      PROVE  PasswordGuesses'
  <2>1. \A p : set_password_hash(user, p).failed = user.failed /\ set_password_hash(user, p).locked = user.locked
    BY <1>1 DEF set_password_hash, Users
  <2>2. \A u : u = set_password_hash(user, NewPassword) =>
          mark_email_verified(u).failed = user.failed /\ mark_email_verified(u).locked = user.locked
    BY <1>1, <2>1 DEF mark_email_verified, set_password_hash, Users
  <2>3. user'.failed = user.failed /\ user'.locked = user.locked /\ tries' = tries
    <3>1. CASE UpgradeHash(r) \/ SetPassword(r) \/ Accept(r)
      BY <3>1, <2>1, <2>2 DEF UpgradeHash, SetPassword, Accept, history
    <3>2. CASE SetStatus(r)
      BY <3>2, <1>1 DEF SetStatus, Users, history
    <3>3. CASE ConfirmFactor(r) \/ CommitRemoval(r) \/ ResetFactors(r)
      BY <3>3, <1>1 DEF ConfirmFactor, CommitRemoval, ResetFactors, Users, history
    <3>4. QED
      BY <1>6, <3>1, <3>2, <3>3
  <2>4. QED
    BY <2>3 DEF PasswordGuesses
<1>7. QED
  BY <1>2, <1>3, <1>4, <1>5, <1>6, UserKept

LEMMA CodeGuessSteps ==
    ASSUME TypeInv, CodeGuesses, [Next]_vars
    PROVE  CodeGuesses'
<1>1. tokens \in [Tokens -> TokenType] /\ MaxGuesses \in Nat
  BY AccountsAssumption DEF TypeInv, RowsTyped, AccountsAssumption
<1>2. CASE UNCHANGED tokens
  BY <1>2 DEF CodeGuesses, live
<1>3. ASSUME NEW r \in Requests, Supersede(r) \/ RevokeCodes(r)
      PROVE  CodeGuesses'
  BY <1>1, <1>3 DEF Supersede, RevokeCodes, revoked, CodeGuesses, live, TokenType
<1>4. ASSUME NEW r \in Requests, InsertToken(r)
      PROVE  CodeGuesses'
  BY <1>1, <1>4 DEF InsertToken, CodeGuesses, live, TokenType
<1>5. ASSUME NEW r \in Requests, Consume(r)
      PROVE  CodeGuesses'
  BY <1>1, <1>5 DEF Consume, CodeGuesses, live, TokenType
<1>6. ASSUME NEW r \in Requests, RedeemCode(r)
      PROVE  CodeGuesses'
  <2>1. ASSUME NEW x \in Tokens, NEW matched \in BOOLEAN,
               tokens' = [tokens EXCEPT ![x].wrong = @ + (IF matched THEN 0 ELSE 1),
                                ![x].state = IF burns(matched, tokens[x].wrong) THEN "over" ELSE "live"]
        PROVE  CodeGuesses'
    <3>1. \A t \in Tokens : t # x => tokens'[t] = tokens[t]
      BY <1>1, <2>1
    <3>2. CASE matched
      <4>1. tokens'[x].state = "over"
        BY <1>1, <2>1, <3>2 DEF burns, TokenType
      <4>2. QED
        BY <3>1, <4>1 DEF CodeGuesses, live
    <3>3. CASE ~matched
      <4>1. tokens'[x].wrong = tokens[x].wrong + 1
            /\ tokens'[x].state = IF tokens[x].wrong + 1 >= MaxGuesses THEN "over" ELSE "live"
        BY <1>1, <2>1, <3>3 DEF burns, TokenType
      <4>2. tokens[x].wrong \in Nat
        BY <1>1 DEF TokenType
      <4>3. QED
        BY <1>1, <3>1, <4>1, <4>2 DEF CodeGuesses, live
    <3>4. QED
      BY <3>2, <3>3
  <2>2. QED
    BY <1>2, <1>6, <2>1 DEF RedeemCode
<1>7. ASSUME NEW t \in Tokens, TokenRunsOut(t)
      PROVE  CodeGuesses'
  BY <1>1, <1>7 DEF TokenRunsOut, CodeGuesses, live, TokenType
<1>8. ASSUME NEW r \in Requests, RightCode(r) \/ CommitRemoval(r) \/ ResetFactors(r) \/ ReplaceCodes(r)
      PROVE  UNCHANGED tokens
  BY <1>8 DEF RightCode, CommitRemoval, ResetFactors, ReplaceCodes
<1>9. QED
  BY <1>2, <1>3, <1>4, <1>5, <1>6, <1>7, <1>8, SecretsUntouched

\* A session with no answer left is in the hands of the request that used it up,
\* and of no other step than the one that revokes it.
LEMMA AnswerGuessSteps ==
    ASSUME TypeInv, AnswerGuesses, [Next]_vars
    PROVE  AnswerGuesses'
<1>1. /\ sessions \in [Sessions -> SessionType] /\ calls \in [Requests -> Calls]
      /\ MaxAnswers \in Nat \ {0}
  BY AccountsAssumption DEF TypeInv, RowsTyped, CallsTyped, AccountsAssumption
<1>2. SUFFICES ASSUME NEW s \in Sessions, UsedUp(s)'
               PROVE  \E q \in Requests : At(q, {"answer"}, "exhausted")' /\ calls'[q].session = s
  BY DEF AnswerGuesses
<1>3. ASSUME NEW r \in Requests, StepOf(r)
      PROVE  \E q \in Requests : At(q, {"answer"}, "exhausted")' /\ calls'[q].session = s
  <2>1. PICK c : Become(r, c)
    BY <1>3, StepsBecome
  <2>2. \A q \in Requests : q # r => calls'[q] = calls[q]
    BY <1>1, <2>1 DEF Become
  <2>3. CASE UsedUp(s) /\ calls[r].at # "exhausted"
    BY <2>2, <2>3 DEF AnswerGuesses, At
  <2>4. CASE UsedUp(s) /\ calls[r].at = "exhausted"
    <3>1. RevokeById(r)
      BY <1>3, <2>4, StepsBecome
    <3>2. s # calls[r].session
      BY <1>1, <1>2, <2>4, <3>1 DEF RevokeById, UsedUp, SessionType
    <3>3. QED
      BY <2>2, <2>4, <3>2 DEF AnswerGuesses, At
  <2>5. CASE ~UsedUp(s)
    <3>1. ~OpenSession(r)
      <4>1. SUFFICES ASSUME OpenSession(r) PROVE FALSE
        OBVIOUS
      <4>2. PICK o \in Sessions : sessions' = [sessions EXCEPT ![o] =
                [NoSession EXCEPT !.state = "live", !.mfa = (calls[r].outcome = "signed_in")]]
        BY <4>1 DEF OpenSession
      <4>3. CASE s = o
        BY <1>1, <1>2, <4>2, <4>3 DEF UsedUp, NoSession
      <4>4. CASE s # o
        BY <1>1, <1>2, <2>5, <4>2, <4>4 DEF UsedUp
      <4>5. QED
        BY <4>3, <4>4
    <3>2. sessions[s].state = "live"
      <4>1. sessions'[s].state = "live"
        BY <1>2 DEF UsedUp
      <4>2. QED
        BY <1>3, <3>1, <4>1, SessionWrites
    <3>3. WrongCode(r) /\ s = calls[r].session
      BY <1>2, <1>3, <2>5, <3>1, <3>2, SessionWrites DEF UsedUp
    <3>4. sessions'[s].wrong = sessions[s].wrong + 1 /\ sessions'[s].wrong >= MaxAnswers
      BY <1>1, <1>2, <3>3 DEF WrongCode, UsedUp, SessionType
    <3>5. Goto(r, "exhausted")
      BY <3>3, <3>4 DEF WrongCode
    <3>6. calls'[r] = [calls[r] EXCEPT !.at = "exhausted"] /\ calls[r].kind = "answer"
      BY <1>1, <3>3, <3>5 DEF Goto, Become, WrongCode, At
    <3>7. calls'[r].at = "exhausted" /\ calls'[r].kind = "answer" /\ calls'[r].session = s
      BY <1>1, <3>3, <3>6 DEF Calls
    <3>8. QED
      BY <3>7 DEF At
  <2>6. QED
    BY <2>3, <2>4, <2>5
<1>4. CASE TimeStep \/ UNCHANGED vars
  <2>1. UNCHANGED calls
    BY <1>4 DEF TimeStep, LockRunsOut, SessionRunsOut, TokenRunsOut, vars
  <2>2. UsedUp(s)
    <3>1. CASE UNCHANGED sessions
      BY <1>2, <3>1 DEF UsedUp
    <3>2. ASSUME NEW o \in Sessions, SessionRunsOut(o)
          PROVE  UsedUp(s)
      <4>1. CASE s # o
        BY <1>1, <1>2, <3>2, <4>1 DEF SessionRunsOut, UsedUp
      <4>2. CASE s = o
        BY <1>1, <1>2, <3>2, <4>2 DEF SessionRunsOut, UsedUp, SessionType
      <4>3. QED
        BY <4>1, <4>2
    <3>3. QED
      BY <1>4, <3>1, <3>2 DEF TimeStep, LockRunsOut, TokenRunsOut, vars, rows
  <2>3. QED
    BY <2>1, <2>2 DEF AnswerGuesses, At
<1>5. QED
  BY <1>3, <1>4, NextSplits

LEMMA GuessesInit == Init => GuessesOK
<1>1. SUFFICES ASSUME Init PROVE GuessesOK
  OBVIOUS
<1>2. tries = 0 /\ user.failed = 0
  <2>1. PICK purpose \in Purposes, app \in SUBSET Authenticators, begun \in SUBSET Authenticators,
             open \in SUBSET Sessions, old \in BOOLEAN : InitUser(purpose, app, begun, open, old)
    BY <1>1 DEF Init
  <2>2. Established(old, app).failed = Invited.failed
    BY RowTypes DEF Established, Users
  <2>3. user.failed = Invited.failed
    BY <2>1, <2>2 DEF InitUser
  <2>4. QED
    BY <1>1, <2>3 DEF Init, Invited
<1>3. PasswordGuesses
  BY <1>2, AccountsAssumption DEF PasswordGuesses, AccountsAssumption
<1>4. \A t \in Tokens : tokens[t].wrong = 0
  BY <1>1 DEF Init, NoToken
<1>5. \A s \in Sessions : sessions[s].wrong = 0
  BY <1>1 DEF Init, NoSession
<1>6. CodeGuesses /\ AnswerGuesses
  BY <1>4, <1>5, AccountsAssumption DEF CodeGuesses, AnswerGuesses, UsedUp, AccountsAssumption
<1>7. QED
  BY <1>3, <1>6 DEF GuessesOK

\* What is still open has guesses left: an account that is not locked, an emailed
\* code that is live, and a live session at the code box unless the request that
\* used up its answers is about to revoke it.  The guesses are those that have been
\* counted; requests that are under way may still be counted after the last.
THEOREM GuessesLimited == Spec => []GuessesAreLimited
<1>1. TypeInv /\ GuessesOK /\ [Next]_vars => GuessesOK'
  BY PasswordGuessSteps, CodeGuessSteps, AnswerGuessSteps DEF GuessesOK
<1>2. Spec => []GuessesOK
  BY <1>1, GuessesInit, TypeInvariant, PTL DEF Spec
<1>3. GuessesOK => GuessesAreLimited
  BY DEF GuessesOK, PasswordGuesses, CodeGuesses, AnswerGuesses, UsedUp, GuessesAreLimited
<1>4. QED
  BY <1>2, <1>3, PTL

-----------------------------------------------------------------------------
(* Admissions                                                              *)

\* What a step makes of its request, unless it opens a session or arrives with
\* one: the session it holds is the one it had, it gets past the look at the
\* account only while that may sign in, and settles that no factor is asked for
\* only while none is due.  A removal counts what is left, and deletes, in the order
\* of remove_factor.
Moves(r, c) ==
    /\ Become(r, c)
    /\ \/ c.session = NULL
       \/ c.session = calls[r].session /\ c.kind = calls[r].kind /\ c.at # "idle"
    /\ LetThrough(c) => calls[r].at # "idle" /\ (LetThrough(calls[r]) \/ can_sign_in(user))
    /\ Settled(c) => calls[r].at # "idle" /\ Opens(calls[r]) /\ (Settled(calls[r]) \/ ~FactorIsDue)
    /\ Opens(c) /\ c.at \in {"challenge", "admitted"} =>
          Opens(calls[r]) /\ calls[r].at = "challenge" /\ c.session = calls[r].session
    /\ Removing(c) => LoadSettings(r) \/ CountFactors(r) \/ DeleteFactor(r)

LEMMA EndMoves ==
    ASSUME NEW r \in Requests, End(r)
    PROVE  \E c : Moves(r, c)
<1>1. Moves(r, Idle)
  BY DEF End, Moves, Idle, LetThrough, Settled, Opens, Removing
<1>2. QED
  BY <1>1

\* A request that somebody is let in by goes on where it has been let through, or
\* to the place where it will look.
LEMMA GotoMoves ==
    ASSUME TypeInv, NEW r \in Requests, NEW place \in Places, Goto(r, place), calls[r].at # "idle",
           place \notin {"idle", "decide", "open", "list", "delete", "commit"},
           Opens(calls[r]) => LetThrough(calls[r]) \/ (calls[r].kind = "handoff" /\ place = "account"),
           place = "admitted" => can_sign_in(user) \/ calls[r].at = "challenge",
           place = "admitted" /\ Opens(calls[r]) => calls[r].at = "challenge",
           place # "challenge"
    PROVE  \E c : Moves(r, c)
<1> DEFINE c == [calls[r] EXCEPT !.at = place]
<1>1. /\ c.at = place /\ c.kind = calls[r].kind /\ c.session = calls[r].session
      /\ c.policy = calls[r].policy /\ c.outcome = calls[r].outcome
  BY CallFields DEF Calls
<1> HIDE DEF c
<1>2. Become(r, c)
  BY DEF Goto, c
<1>3. LetThrough(c) => LetThrough(calls[r]) \/ can_sign_in(user)
  BY <1>1 DEF LetThrough, Opens
<1>4. ~Settled(c)
  BY <1>1 DEF Settled
<1>5. QED
  BY <1>1, <1>2, <1>3, <1>4 DEF Moves, Opens, Removing

\* A request that nobody is let in by.
LEMMA OtherMoves ==
    ASSUME TypeInv, NEW r \in Requests, NEW c, Become(r, c), calls[r].at # "idle", ~Opens(calls[r]),
           c.kind = calls[r].kind, c.session = calls[r].session,
           c.at \notin {"idle", "challenge", "admitted"},
           Removing(c) => CountFactors(r) \/ DeleteFactor(r)
    PROVE  \E d : Moves(r, d)
<1>1. ~LetThrough(c) /\ ~Settled(c)
  BY DEF LetThrough, Settled, Opens
<1>2. QED
  BY <1>1 DEF Moves, Opens

LEMMA LooksMove ==
    ASSUME TypeInv, NEW r \in Requests, FindByEmail(r) \/ RedeemHandoff(r)
    PROVE  \E c : Moves(r, c)
<1>1. ASSUME NEW place \in {"verified", "policy"}, can_sign_in(user),
             Become(r, [calls[r] EXCEPT !.at = place, !.saw = user]), calls[r].at # "idle"
      PROVE  \E c : Moves(r, c)
  <2> DEFINE c == [calls[r] EXCEPT !.at = place, !.saw = user]
  <2>1. c.at = place /\ c.kind = calls[r].kind /\ c.session = calls[r].session
    BY CallFields DEF Calls
  <2> HIDE DEF c
  <2>2. Become(r, c)
    BY <1>1 DEF c
  <2>3. ~Settled(c)
    BY <2>1 DEF Settled
  <2>4. QED
    BY <1>1, <2>1, <2>2, <2>3 DEF Moves, Removing
<1>2. QED
  BY <1>1, EndMoves DEF FindByEmail, RedeemHandoff, At

LEMMA LoadSettingsMoves ==
    ASSUME TypeInv, NEW r \in Requests, LoadSettings(r)
    PROVE  \E c : Moves(r, c)
<1> DEFINE place == IF calls[r].kind \in {"begin", "remove"} THEN "list" ELSE "decide"
           c == [calls[r] EXCEPT !.policy = policy, !.at = place]
<1>1. c.at = place /\ c.kind = calls[r].kind /\ c.session = calls[r].session /\ c.policy = policy
  BY CallFields DEF Calls
<1>2. Become(r, c) /\ At(r, {"sign_in", "handoff", "begin", "remove"}, "policy")
  BY DEF LoadSettings
<1> HIDE DEF c
<1>3. LetThrough(c) => LetThrough(calls[r])
  BY <1>1, <1>2 DEF LetThrough, At
<1>4. Settled(c) => Opens(calls[r]) /\ ~FactorIsDue
  BY <1>1 DEF Settled, Opens, FactorIsDue, challenges_existing
<1>5. QED
  BY <1>1, <1>2, <1>3, <1>4 DEF Moves, At

LEMMA DecideMoves ==
    ASSUME TypeInv, NEW r \in Requests, Decide(r)
    PROVE  \E c : Moves(r, c)
<1>1. calls[r].at = "decide" /\ Opens(calls[r]) /\ LetThrough(calls[r])
  BY DEF Decide, At, Opens, LetThrough
<1> DEFINE outcome == decide(calls[r].saw, calls[r].policy)
<1>2. outcome = "signed_in" => Settled(calls[r]) \/ ~FactorIsDue
  BY <1>1 DEF decide, Settled, FactorIsDue, challenges_existing
<1>3. CASE Become(r, [calls[r] EXCEPT !.at = "open", !.outcome = outcome])
  <2> DEFINE c == [calls[r] EXCEPT !.at = "open", !.outcome = outcome]
  <2>1. c.at = "open" /\ c.kind = calls[r].kind /\ c.session = calls[r].session /\ c.outcome = outcome
    BY CallFields DEF Calls
  <2> HIDE DEF c
  <2>2. Become(r, c)
    BY <1>3 DEF c
  <2>3. Settled(c) => Settled(calls[r]) \/ ~FactorIsDue
    BY <1>2, <2>1 DEF Settled
  <2>4. QED
    BY <1>1, <2>1, <2>2, <2>3 DEF Moves, Removing
<1>4. CASE Become(r, [calls[r] EXCEPT !.at = "supersede", !.purpose = "session_handoff"])
  <2> DEFINE c == [calls[r] EXCEPT !.at = "supersede", !.purpose = "session_handoff"]
  <2>1. c.at = "supersede" /\ c.kind = calls[r].kind /\ c.session = calls[r].session
    BY CallFields DEF Calls
  <2> HIDE DEF c
  <2>2. Become(r, c)
    BY <1>4 DEF c
  <2>3. ~Settled(c)
    BY <2>1 DEF Settled
  <2>4. QED
    BY <1>1, <2>1, <2>2, <2>3 DEF Moves, Removing
<1>5. QED
  BY <1>3, <1>4 DEF Decide

\* Every other step of a request, by the kind of it.
LEMMA ArrivalsMove ==
    ASSUME TypeInv, NEW r \in Requests, ArriveAnonymous(r) \/ ArriveAdministrator(r)
    PROVE  \E c : Moves(r, c)
<1>1. ASSUME NEW kind \in Kinds, NEW call \in Calls, call.session = NULL, Arrive(r, kind, call),
             \/ call.at = "find" /\ kind # "handoff"
             \/ call.at = "consume" /\ kind # "sign_in"
      PROVE  \E c : Moves(r, c)
  <2> DEFINE c == [call EXCEPT !.kind = kind]
  <2>1. c.kind = kind /\ c.at = call.at /\ c.session = NULL
    BY <1>1 DEF Calls
  <2> HIDE DEF c
  <2>2. Become(r, c)
    BY <1>1 DEF Arrive, c
  <2>3. QED
    BY <1>1, <2>1, <2>2 DEF Moves, LetThrough, Settled, Removing
<1>2. Idle \in Calls /\ Idle.session = NULL
  BY RowTypes DEF Idle
<1>3. ASSUME NEW kind \in {"sign_in", "request_reset", "redeem_reset"} \cup Administration,
             Arrive(r, kind, [Idle EXCEPT !.at = "find"])
      PROVE  \E c : Moves(r, c)
  <2> DEFINE call == [Idle EXCEPT !.at = "find"]
  <2>1. call \in Calls /\ call.session = NULL /\ call.at = "find" /\ kind \in Kinds \ {"handoff"}
    <3>1. "find" \in Places
      BY DEF Places
    <3>2. call \in Calls /\ call.session = Idle.session /\ call.at = "find"
      BY <1>2, <3>1 DEF Calls
    <3>3. kind \in Kinds \ {"handoff"}
      BY <1>3 DEF Kinds, Administration
    <3>4. QED
      BY <1>2, <3>2, <3>3
  <2>2. QED
    BY <1>1, <1>3, <2>1
<1>4. ASSUME NEW kind \in {"handoff", "accept"}, NEW t \in Tokens,
             Arrive(r, kind, [Idle EXCEPT !.at = "consume", !.token = t])
      PROVE  \E c : Moves(r, c)
  <2> DEFINE call == [Idle EXCEPT !.at = "consume", !.token = t]
  <2>1. call \in Calls /\ call.session = NULL /\ call.at = "consume" /\ kind \in Kinds
    BY RowTypes DEF Idle, Calls, Places, Kinds
  <2>2. QED
    BY <1>1, <1>4, <2>1
<1>5. QED
  BY <1>3, <1>4 DEF ArriveAnonymous, ArriveAdministrator

LEMMA SignInMoves ==
    ASSUME TypeInv, NEW r \in Requests,
           \/ WrongPassword(r) \/ LockOut(r) \/ UpgradeHash(r) \/ RecordSuccess(r) \/ StartChallenge(r)
           \/ Respond(r) \/ Consume(r) \/ Resume(r)
    PROVE  \E c : Moves(r, c)
<1>1. calls[r].at # "idle" /\ (End(r) \/ ~End(r))
  BY DEF WrongPassword, LockOut, UpgradeHash, RecordSuccess, StartChallenge, Respond, Consume, Resume, At
<1>2. CASE End(r)
  BY <1>2, EndMoves
<1>3. CASE ~End(r)
  <2>1. CASE WrongPassword(r) \/ UpgradeHash(r) \/ RecordSuccess(r)
    <3>1. PICK place \in {"lock_out", "upgraded", "policy"} : Goto(r, place)
      BY <1>3, <2>1 DEF WrongPassword, UpgradeHash, RecordSuccess
    <3>2. LetThrough(calls[r])
      BY <2>1 DEF WrongPassword, UpgradeHash, RecordSuccess, At, LetThrough
    <3>3. QED
      BY <1>1, <3>1, <3>2, GotoMoves DEF Places, Opens, LetThrough
  <2>2. CASE StartChallenge(r)
    <3>1. Goto(r, "admitted") /\ calls[r].at = "challenge" /\ LetThrough(calls[r])
      BY <2>2 DEF StartChallenge, At, LetThrough
    <3>2. QED
      BY <1>1, <3>1, GotoMoves DEF Places, Opens, LetThrough
  <2>3. CASE Consume(r)
    <3>1. calls[r].kind \in {"handoff", "accept"}
      BY <2>3, CallFields DEF Consume, Sound
    <3>2. Goto(r, IF calls[r].kind = "handoff" THEN "account" ELSE "apply")
      BY <1>3, <2>3 DEF Consume
    <3>3. QED
      BY <1>1, <3>1, <3>2, GotoMoves DEF Places, Opens, LetThrough
  <2>4. CASE Resume(r)
    <3>1. Opens(calls[r]) => LetThrough(calls[r])
      BY <2>4 DEF Resume, Opens, LetThrough
    <3>2. CASE Goto(r, "state")
      BY <1>1, <3>1, <3>2, GotoMoves DEF Places, Opens, LetThrough
    <3>3. CASE ~Goto(r, "state")
      <4> DEFINE c == [calls[r] EXCEPT !.at = "account", !.mfa = sessions[calls[r].session].mfa]
      <4>1. Become(r, c)
        BY <1>3, <2>4, <3>3 DEF Resume
      <4>2. /\ c.at = "account" /\ c.kind = calls[r].kind /\ c.session = calls[r].session
            /\ c.policy = calls[r].policy /\ c.outcome = calls[r].outcome
        BY CallFields DEF Calls
      <4> HIDE DEF c
      <4>3. Moves(r, c)
        BY <1>1, <3>1, <4>1, <4>2 DEF Moves, LetThrough, Settled, Opens, Removing
      <4>4. QED
        BY <4>3
    <3>4. QED
      BY <3>2, <3>3
  <2>5. QED
    BY <1>3, <2>1, <2>2, <2>3, <2>4 DEF LockOut, Respond,
       WrongPassword, UpgradeHash, RecordSuccess, StartChallenge, Consume, Resume
<1>4. QED
  BY <1>2, <1>3

LEMMA AuthenticateMoves ==
    ASSUME TypeInv, NEW r \in Requests, Authenticate(r)
    PROVE  \E c : Moves(r, c)
<1>1. calls[r].at = "account" /\ calls[r].kind \in SelfService /\ ~Opens(calls[r])
  BY DEF Authenticate, At, SelfService, Opens
<1>2. CASE End(r)
  BY <1>2, EndMoves
<1>3. CASE ~End(r)
  <2>1. /\ can_sign_in(user)
        /\ Goto(r, CASE calls[r].kind = "use" -> "admitted"
                     [] calls[r].kind \in {"begin", "remove"} -> "policy"
                     [] calls[r].kind = "change" -> "read"
                     [] OTHER -> calls[r].kind)
    BY <1>3 DEF Authenticate
  <2>2. PICK place \in {"admitted", "policy", "read", "confirm", "codes"} : Goto(r, place)
    BY <1>1, <2>1 DEF SelfService
  <2>3. QED
    BY <1>1, <2>1, <2>2, GotoMoves DEF Places, Opens, LetThrough
<1>4. QED
  BY <1>2, <1>3

LEMMA FactorMoves ==
    ASSUME TypeInv, NEW r \in Requests, FactorStep(r)
    PROVE  \E c : Moves(r, c)
<1>1. calls[r].at # "idle" /\ ~Opens(calls[r])
  BY DEF FactorStep, ReadChallenge, RightCode, WrongCode, RevokeById, MarkSatisfied, ReadPending,
     InsertUnconfirmed, FindPending, ConfirmFactor, CountFactors, DeleteFactor, CommitRemoval,
     ResetFactors, ReplaceCodes, At, Opens
<1>2. CASE End(r)
  BY <1>2, EndMoves
<1>3. ASSUME NEW place \in {"answered", "expired", "apply", "exhausted"}, Goto(r, place)
      PROVE  \E c : Moves(r, c)
  BY <1>1, <1>3, GotoMoves DEF Places, Opens, LetThrough
<1>4. ASSUME NEW place \in Places \ {"idle", "challenge", "admitted"}, NEW f, NEW seen,
             \/ Become(r, [calls[r] EXCEPT !.at = place, !.seen = seen])
             \/ Become(r, [calls[r] EXCEPT !.at = place, !.factor = f]),
             ReadPending(r) \/ CountFactors(r) \/ DeleteFactor(r)
      PROVE  \E c : Moves(r, c)
  <2>1. PICK c \in {[calls[r] EXCEPT !.at = place, !.seen = seen],
                    [calls[r] EXCEPT !.at = place, !.factor = f]} : Become(r, c)
    BY <1>4
  <2>2. c.at = place /\ c.kind = calls[r].kind /\ c.session = calls[r].session
    BY <2>1, CallFields DEF Calls
  <2>3. ReadPending(r) => ~Removing(c)
    BY <2>2 DEF ReadPending, At, Removing
  <2>4. QED
    BY <1>1, <1>4, <2>1, <2>2, <2>3, OtherMoves
<1>5. ASSUME NEW f, FindPending(r), Become(r, [calls[r] EXCEPT !.factor = f])
      PROVE  \E c : Moves(r, c)
  <2> DEFINE c == [calls[r] EXCEPT !.factor = f]
  <2>1. c.at = "confirm" /\ c.kind = calls[r].kind /\ c.session = calls[r].session
    BY <1>5, CallFields DEF Calls, FindPending, At
  <2>2. QED
    BY <1>1, <1>5, <2>1, OtherMoves DEF Removing
<1>6. {"insert", "delete", "commit"} \subseteq Places \ {"idle", "challenge", "admitted"}
  BY DEF Places
<1>7. CASE \/ ReadChallenge(r) \/ RightCode(r) \/ WrongCode(r) \/ RevokeById(r) \/ MarkSatisfied(r)
           \/ InsertUnconfirmed(r) \/ ConfirmFactor(r) \/ CommitRemoval(r) \/ ResetFactors(r)
           \/ ReplaceCodes(r)
  BY <1>2, <1>3, <1>7 DEF ReadChallenge, RightCode, WrongCode, RevokeById, MarkSatisfied,
     InsertUnconfirmed, ConfirmFactor, CommitRemoval, ResetFactors, ReplaceCodes
<1>8. CASE ReadPending(r) \/ CountFactors(r) \/ DeleteFactor(r)
  BY <1>2, <1>4, <1>6, <1>8 DEF ReadPending, CountFactors, DeleteFactor
<1>9. QED
  BY <1>2, <1>5, <1>7, <1>8 DEF FactorStep, FindPending

LEMMA PasswordMoves ==
    ASSUME TypeInv, NEW r \in Requests,
           \/ Supersede(r) \/ InsertToken(r) \/ FindForReset(r) \/ RedeemCode(r) \/ VerifyCurrent(r)
           \/ RefusePassword(r) \/ SetPassword(r) \/ RevokeSessions(r) \/ RevokeCodes(r) \/ Accept(r)
           \/ AdministratorStep(r)
    PROVE  \E c : Moves(r, c)
<1>1. calls[r].at # "idle"
  BY DEF Supersede, InsertToken, FindForReset, RedeemCode, VerifyCurrent, RefusePassword, SetPassword,
     RevokeSessions, RevokeCodes, Accept, AdministratorStep, FindInvited, LoadUser, SetStatus,
     SaveSettings, At
<1>2. CASE End(r)
  BY <1>2, EndMoves
<1>3. ASSUME NEW place \in {"issue", "consume_code", "set", "revoke", "revoke_tokens"}, Goto(r, place),
             Opens(calls[r]) => LetThrough(calls[r])
      PROVE  \E c : Moves(r, c)
  BY <1>1, <1>3, GotoMoves, SMTT(30) DEF Places, Opens, LetThrough
<1>4. CASE Supersede(r) \/ RevokeSessions(r)
  <2>1. Opens(calls[r]) => LetThrough(calls[r])
    BY <1>4 DEF Supersede, RevokeSessions, Opens, LetThrough
  <2>2. QED
    BY <1>2, <1>3, <1>4, <2>1 DEF Supersede, RevokeSessions
<1>5. CASE RedeemCode(r) \/ VerifyCurrent(r) \/ SetPassword(r)
  <2>1. ~Opens(calls[r])
    BY <1>5 DEF RedeemCode, VerifyCurrent, SetPassword, At, Opens
  <2>2. QED
    BY <1>2, <1>3, <1>5, <2>1 DEF RedeemCode, VerifyCurrent, SetPassword
<1>6. ASSUME ~Opens(calls[r]), NEW purpose, NEW saw,
             \/ Become(r, [calls[r] EXCEPT !.at = "supersede", !.purpose = purpose])
             \/ Become(r, [calls[r] EXCEPT !.at = "write", !.saw = saw])
      PROVE  \E c : Moves(r, c)
  <2>1. PICK c \in {[calls[r] EXCEPT !.at = "supersede", !.purpose = purpose],
                    [calls[r] EXCEPT !.at = "write", !.saw = saw]} : Become(r, c)
    BY <1>6
  <2>2. c.at \in {"supersede", "write"} /\ c.kind = calls[r].kind /\ c.session = calls[r].session
    BY <2>1, CallFields DEF Calls
  <2>3. QED
    BY <1>1, <1>6, <2>1, <2>2, OtherMoves DEF Removing
<1>7. CASE FindForReset(r) \/ FindInvited(r) \/ LoadUser(r)
  <2>1. ~Opens(calls[r])
    BY <1>7 DEF FindForReset, FindInvited, LoadUser, At, Opens
  <2>2. QED
    BY <1>2, <1>3, <1>6, <1>7, <2>1 DEF FindForReset, FindInvited, LoadUser
<1>8. CASE \/ InsertToken(r) \/ RefusePassword(r) \/ RevokeCodes(r) \/ Accept(r) \/ SetStatus(r)
           \/ SaveSettings(r)
  BY <1>2, <1>8 DEF InsertToken, RefusePassword, RevokeCodes, Accept, SetStatus, SaveSettings
<1>9. QED
  BY <1>4, <1>5, <1>7, <1>8 DEF AdministratorStep

LEMMA StepMoves ==
    ASSUME TypeInv, NEW r \in Requests, StepOf(r), ~OpenSession(r), ~ArriveWithSession(r)
    PROVE  \E c : Moves(r, c)
<1>1. CASE ArriveAnonymous(r) \/ ArriveAdministrator(r)
  BY <1>1, ArrivalsMove
<1>2. CASE Resume(r) \/ Authenticate(r)
  BY <1>2, SignInMoves, AuthenticateMoves
<1>3. CASE SignInStep(r)
  BY <1>3, LooksMove, SignInMoves, LoadSettingsMoves, DecideMoves DEF SignInStep
<1>4. CASE FactorStep(r)
  BY <1>4, FactorMoves
<1>5. CASE PasswordStep(r) \/ AdministratorStep(r)
  BY <1>5, LooksMove, SignInMoves, PasswordMoves DEF PasswordStep
<1>6. QED
  BY <1>1, <1>2, <1>3, <1>4, <1>5 DEF StepOf

LEMMA NullSession == NULL \notin Sessions
BY AccountsAssumption DEF AccountsAssumption

\* Both histories lose a request for good when they lose it.
LEMMA Observed ==
    ASSUME Observe, NEW q \in Requests, calls[q].at # "idle"
    PROVE  /\ q \notin barred \/ can_sign_in(user) => q \notin barred'
           /\ q \notin due \/ ~FactorIsDue => q \notin due'
BY DEF Observe

LEMMA LetThroughIsNotIdle == \A c : LetThrough(c) \/ Settled(c) => c.at # "idle"
BY DEF LetThrough, Settled

\* Sessions that are being opened stay with the request that opens them, and
\* nobody else can satisfy them.
LEMMA MoveHolds ==
    ASSUME TypeInv, HeldSessions, NEW r \in Requests, NEW c, Moves(r, c), StepOf(r), ~OpenSession(r)
    PROVE  HeldSessions'
<1>1. /\ calls \in [Requests -> Calls] /\ calls' = [calls EXCEPT ![r] = c]
      /\ sessions \in [Sessions -> SessionType]
  BY DEF Moves, Become, TypeInv, CallsTyped, RowsTyped
<1>2. \A q \in Requests : q # r => calls'[q] = calls[q]
  BY <1>1
<1>3. calls'[r] = c
  BY <1>1
<1>4. c.session \in Sessions =>
        c.session = calls[r].session /\ c.kind = calls[r].kind /\ c.at # "idle"
  BY NullSession DEF Moves
<1>5. \A s \in Sessions : sessions[s].state # "free" => sessions'[s].state # "free"
  BY SessionWrites
<1>6. \A q \in Requests : calls'[q].session \in Sessions =>
         /\ calls'[q].session = calls[q].session /\ calls'[q].kind = calls[q].kind
         /\ calls'[q].at # "idle"
  BY <1>2, <1>3, <1>4 DEF HeldSessions
<1>7. QED
  BY <1>5, <1>6 DEF HeldSessions, Opens

LEMMA ArrivalHolds ==
    ASSUME TypeInv, HeldSessions, NEW r \in Requests, ArriveWithSession(r)
    PROVE  /\ HeldSessions' /\ UNCHANGED sessions /\ Observe
           /\ \A q \in Requests : q # r => calls'[q] = calls[q]
           /\ calls'[r].kind \in SelfService \cup {"answer", "sign_out"} /\ calls'[r].at = "resume"
<1>1. PICK kind \in SelfService \cup {"answer", "sign_out"}, s \in Sessions :
         InHand(s) /\ Arrive(r, kind, [Idle EXCEPT !.at = "resume", !.session = s])
  BY DEF ArriveWithSession
<1> DEFINE c == [[Idle EXCEPT !.at = "resume", !.session = s] EXCEPT !.kind = kind]
<1>2. c.kind = kind /\ c.at = "resume" /\ c.session = s
  BY RowTypes DEF Calls
<1>3. calls' = [calls EXCEPT ![r] = c] /\ Observe /\ UNCHANGED sessions
  BY <1>1 DEF Arrive, Become, rows
<1> HIDE DEF c
<1>4. calls'[r] = c /\ \A q \in Requests : q # r => calls'[q] = calls[q]
  BY <1>3 DEF TypeInv, CallsTyped
<1>5. ~Opens(c)
  BY <1>2 DEF Opens, SelfService
<1>6. \A q \in Requests : calls[q].session = s => ~Opens(calls[q])
  BY <1>1 DEF InHand, Opens
<1>7. sessions[s].state # "free"
  BY <1>1 DEF InHand
<1>8. HeldSessions'
  <2>1. SUFFICES ASSUME NEW q \in Requests, calls'[q].session \in Sessions
                 PROVE  /\ calls'[q].at # "idle" /\ sessions'[calls'[q].session].state # "free"
                        /\ Opens(calls'[q]) =>
                              \A p \in Requests \ {q} : calls'[p].session # calls'[q].session
    BY DEF HeldSessions, Opens
  <2>2. CASE q = r
    BY <1>2, <1>3, <1>4, <1>5, <1>7, <2>2
  <2>3. CASE q # r
    <3>1. calls'[q] = calls[q] /\ (Opens(calls[q]) => calls[q].session # s)
      BY <1>4, <1>6, <2>3
    <3>2. QED
      BY <1>2, <1>3, <1>4, <2>1, <3>1 DEF HeldSessions
  <2>4. QED
    BY <2>2, <2>3
<1>9. QED
  BY <1>2, <1>3, <1>4, <1>8

\* The session that is opened was nobody's.
LEMMA OpeningHolds ==
    ASSUME TypeInv, HeldSessions, NEW r \in Requests, OpenSession(r)
    PROVE  /\ HeldSessions' /\ Observe
           /\ \A q \in Requests : q # r =>
                 /\ calls'[q] = calls[q]
                 /\ calls[q].session \in Sessions => sessions'[calls[q].session] = sessions[calls[q].session]
           /\ calls'[r].kind = calls[r].kind /\ calls'[r].at \in {"challenge", "admitted"}
           /\ calls'[r].session \in Sessions
           /\ sessions'[calls'[r].session].mfa => calls[r].outcome = "signed_in"
<1>1. PICK s \in Sessions :
        /\ sessions[s].state = "free"
        /\ sessions' = [sessions EXCEPT ![s] =
              [NoSession EXCEPT !.state = "live", !.mfa = (calls[r].outcome = "signed_in")]]
        /\ Become(r, [calls[r] EXCEPT !.session = s,
                         !.at = IF calls[r].outcome = "challenge" THEN "challenge" ELSE "admitted"])
  BY DEF OpenSession
<1> DEFINE place == IF calls[r].outcome = "challenge" THEN "challenge" ELSE "admitted"
           c == [calls[r] EXCEPT !.session = s, !.at = place]
<1>2. c.at = place /\ c.kind = calls[r].kind /\ c.session = s
  BY CallFields DEF Calls
<1>3. place \in {"challenge", "admitted"}
  OBVIOUS
<1>4. calls' = [calls EXCEPT ![r] = c] /\ Observe
  BY <1>1 DEF Become
<1> HIDE DEF c, place
<1>5. calls'[r] = c /\ \A q \in Requests : q # r => calls'[q] = calls[q]
  BY <1>4 DEF TypeInv, CallsTyped
<1>6. sessions \in [Sessions -> SessionType]
  BY DEF TypeInv, RowsTyped
<1>7. /\ \A o \in Sessions : o # s => sessions'[o] = sessions[o]
      /\ sessions'[s] = [NoSession EXCEPT !.state = "live", !.mfa = (calls[r].outcome = "signed_in")]
  BY <1>1, <1>6
<1>8. sessions'[s].state = "live" /\ (sessions'[s].mfa => calls[r].outcome = "signed_in")
  <2> DEFINE signed == (calls[r].outcome = "signed_in")
  <2>1. sessions'[s] = [NoSession EXCEPT !.state = "live", !.mfa = signed]
    BY <1>7
  <2> HIDE DEF signed
  <2>2. sessions'[s].state = "live" /\ sessions'[s].mfa = signed
    BY <2>1 DEF NoSession
  <2>3. QED
    BY <2>2, Zenon DEF signed
<1>9. \A q \in Requests : calls[q].session # s
  BY <1>1 DEF HeldSessions
<1>10. HeldSessions'
  <2>1. SUFFICES ASSUME NEW q \in Requests, calls'[q].session \in Sessions
                 PROVE  /\ calls'[q].at # "idle" /\ sessions'[calls'[q].session].state # "free"
                        /\ Opens(calls'[q]) =>
                              \A p \in Requests \ {q} : calls'[p].session # calls'[q].session
    BY DEF HeldSessions, Opens
  <2>2. CASE q = r
    <3>1. calls'[q].session = s /\ calls'[q].at # "idle"
      BY <1>2, <1>3, <1>5, <2>2
    <3>2. \A p \in Requests \ {q} : calls'[p].session # s
      BY <1>5, <1>9, <2>2
    <3>3. QED
      BY <1>8, <3>1, <3>2
  <2>3. CASE q # r
    <3>1. calls'[q] = calls[q] /\ calls[q].session # s
      BY <1>5, <1>9, <2>3
    <3>2. /\ calls[q].at # "idle" /\ sessions[calls[q].session].state # "free"
          /\ Opens(calls[q]) => \A p \in Requests \ {q} : calls[p].session # calls[q].session
      BY <2>1, <3>1 DEF HeldSessions
    <3>3. \A p \in Requests \ {q} : calls'[p].session \in {calls[p].session, s}
      BY <1>2, <1>5
    <3>4. QED
      BY <1>7, <2>1, <3>1, <3>2, <3>3
  <2>4. QED
    BY <2>2, <2>3
<1>11. QED
  BY <1>2, <1>3, <1>4, <1>5, <1>7, <1>8, <1>9, <1>10

\* Requests that a step does not move keep what they have settled, unless somebody
\* satisfies the session they opened.
LEMMA OthersStay ==
    ASSUME AdmissionsOK, Observe, NEW q \in Requests, calls'[q] = calls[q],
           Opens(calls[q]) /\ calls[q].session \in Sessions =>
              sessions'[calls[q].session].mfa = sessions[calls[q].session].mfa
    PROVE  /\ LetThrough(calls'[q]) => q \notin barred'
           /\ Waived(calls[q])' => q \notin due'
           /\ Opens(calls'[q]) /\ calls'[q].at \in {"challenge", "admitted"} =>
                calls'[q].session \in Sessions
<1>1. LetThrough(calls[q]) => q \notin barred'
  BY Observed, LetThroughIsNotIdle DEF AdmissionsOK, Admitted
<1>2. Waived(calls[q])' => Waived(calls[q])
  BY DEF Waived, Settled, Opens
<1>3. Waived(calls[q]) => calls[q].at # "idle"
  BY LetThroughIsNotIdle DEF Waived, AdmissionsOK, HeldSessions
<1>4. Waived(calls[q]) => q \notin due'
  BY <1>3, Observed DEF AdmissionsOK, Asked
<1>5. QED
  BY <1>1, <1>2, <1>4 DEF AdmissionsOK, Opened

LEMMA MoveAdmits ==
    ASSUME TypeInv, AdmissionsOK, NEW r \in Requests, NEW c, Moves(r, c), StepOf(r), ~OpenSession(r)
    PROVE  AdmissionsOK'
<1>1. calls \in [Requests -> Calls] /\ calls' = [calls EXCEPT ![r] = c] /\ Observe
  BY DEF Moves, Become, TypeInv, CallsTyped
<1>2. calls'[r] = c /\ \A q \in Requests : q # r => calls'[q] = calls[q]
  BY <1>1
<1>3. HeldSessions'
  BY MoveHolds DEF AdmissionsOK
<1>4. \A s \in Sessions : sessions'[s].mfa # sessions[s].mfa => MarkSatisfied(r) /\ s = calls[r].session
  BY SessionWrites
<1>5. ASSUME NEW q \in Requests, q # r
      PROVE  /\ LetThrough(calls'[q]) => q \notin barred'
             /\ Waived(calls[q])' => q \notin due'
             /\ Opens(calls'[q]) /\ calls'[q].at \in {"challenge", "admitted"} =>
                  calls'[q].session \in Sessions
  <2>1. Opens(calls[q]) /\ calls[q].session \in Sessions => calls[r].session # calls[q].session
    BY <1>5 DEF AdmissionsOK, HeldSessions
  <2>2. QED
    BY <1>1, <1>2, <1>4, <1>5, <2>1, OthersStay
<1>6. LetThrough(c) => r \notin barred'
  BY <1>1, Observed DEF Moves, AdmissionsOK, Admitted
<1>7. Waived(calls[r])' => r \notin due'
  <2>1. CASE Settled(c)
    BY <1>1, <2>1, Observed DEF Moves, AdmissionsOK, Asked, Waived
  <2>2. CASE Opens(c) /\ c.session \in Sessions /\ sessions'[c.session].mfa
    <3>1. c.session = calls[r].session /\ Opens(calls[r])
      BY <2>2, NullSession DEF Moves, Opens
    <3>2. ~MarkSatisfied(r)
      BY <3>1 DEF MarkSatisfied, At, Opens
    <3>3. Waived(calls[r]) /\ calls[r].at # "idle"
      BY <1>4, <2>2, <3>1, <3>2 DEF Waived, AdmissionsOK, HeldSessions
    <3>4. QED
      BY <1>1, <3>3, Observed DEF AdmissionsOK, Asked
  <2>3. QED
    BY <1>2, <2>1, <2>2 DEF Waived, Settled, Opens
<1>8. Opens(c) /\ c.at \in {"challenge", "admitted"} => c.session \in Sessions
  BY DEF Moves, AdmissionsOK, Opened
<1>9. Admitted'
  BY <1>2, <1>5, <1>6 DEF Admitted, LetThrough
<1>10. Asked'
  BY <1>5, <1>7 DEF Asked, Waived, Settled, Opens
<1>11. Opened'
  BY <1>2, <1>5, <1>8 DEF Opened, Opens
<1>12. QED
  BY <1>3, <1>9, <1>10, <1>11 DEF AdmissionsOK

LEMMA ArrivalAdmits ==
    ASSUME TypeInv, AdmissionsOK, NEW r \in Requests, ArriveWithSession(r)
    PROVE  AdmissionsOK'
<1>1. /\ HeldSessions' /\ UNCHANGED sessions /\ Observe
      /\ \A q \in Requests : q # r => calls'[q] = calls[q]
      /\ calls'[r].kind \in SelfService \cup {"answer", "sign_out"} /\ calls'[r].at = "resume"
  BY ArrivalHolds DEF AdmissionsOK
<1>2. ~Opens(calls'[r]) /\ ~LetThrough(calls'[r])
  BY <1>1 DEF Opens, LetThrough, SelfService
<1>3. ASSUME NEW q \in Requests, q # r
      PROVE  /\ LetThrough(calls'[q]) => q \notin barred'
             /\ Waived(calls[q])' => q \notin due'
             /\ Opens(calls'[q]) /\ calls'[q].at \in {"challenge", "admitted"} =>
                  calls'[q].session \in Sessions
  BY <1>1, <1>3, OthersStay
<1>4. QED
  BY <1>1, <1>2, <1>3 DEF AdmissionsOK, Admitted, Asked, Opened, Waived, Settled, LetThrough, Opens

LEMMA OpeningAdmits ==
    ASSUME TypeInv, AdmissionsOK, NEW r \in Requests, OpenSession(r)
    PROVE  AdmissionsOK'
<1>1. /\ HeldSessions' /\ Observe
      /\ \A q \in Requests : q # r =>
            /\ calls'[q] = calls[q]
            /\ calls[q].session \in Sessions => sessions'[calls[q].session] = sessions[calls[q].session]
      /\ calls'[r].kind = calls[r].kind /\ calls'[r].at \in {"challenge", "admitted"}
      /\ calls'[r].session \in Sessions
      /\ sessions'[calls'[r].session].mfa => calls[r].outcome = "signed_in"
  BY OpeningHolds DEF AdmissionsOK
<1>2. calls[r].at = "open" /\ Opens(calls[r]) /\ LetThrough(calls[r])
  BY DEF OpenSession, At, Opens, LetThrough
<1>3. r \notin barred'
  BY <1>1, <1>2, Observed DEF AdmissionsOK, Admitted
<1>4. Waived(calls[r])' => r \notin due'
  <2>1. Waived(calls[r])' => Waived(calls[r])
    BY <1>1, <1>2 DEF Waived, Settled, Opens
  <2>2. QED
    BY <1>1, <1>2, <2>1, Observed DEF AdmissionsOK, Asked
<1>5. ASSUME NEW q \in Requests, q # r
      PROVE  /\ LetThrough(calls'[q]) => q \notin barred'
             /\ Waived(calls[q])' => q \notin due'
             /\ Opens(calls'[q]) /\ calls'[q].at \in {"challenge", "admitted"} =>
                  calls'[q].session \in Sessions
  BY <1>1, <1>5, OthersStay
<1>6. Admitted'
  BY <1>3, <1>5 DEF Admitted, LetThrough
<1>7. Asked'
  BY <1>4, <1>5 DEF Asked, Waived, Settled, Opens
<1>8. Opened'
  BY <1>1, <1>5 DEF Opened, Opens
<1>9. QED
  BY <1>1, <1>6, <1>7, <1>8 DEF AdmissionsOK

LEMMA TimeAdmits ==
    ASSUME TypeInv, AdmissionsOK, TimeStep
    PROVE  AdmissionsOK'
<1>1. sessions \in [Sessions -> SessionType]
  BY DEF TypeInv, RowsTyped
<1>2. UNCHANGED calls /\ Observe
  BY DEF TimeStep, LockRunsOut, SessionRunsOut, TokenRunsOut
<1>3. \A s \in Sessions : sessions'[s].mfa = sessions[s].mfa
                         /\ (sessions[s].state # "free" => sessions'[s].state # "free")
  <2>1. CASE UNCHANGED sessions
    BY <2>1
  <2>2. ASSUME NEW o \in Sessions, SessionRunsOut(o)
        PROVE  \A s \in Sessions : sessions'[s].mfa = sessions[s].mfa
                                 /\ (sessions[s].state # "free" => sessions'[s].state # "free")
    BY <1>1, <2>2 DEF SessionRunsOut, SessionType
  <2>3. QED
    BY <2>1, <2>2 DEF TimeStep, LockRunsOut, TokenRunsOut
<1>4. HeldSessions'
  BY <1>2, <1>3 DEF AdmissionsOK, HeldSessions, Opens
<1>5. ASSUME NEW q \in Requests
      PROVE  /\ LetThrough(calls'[q]) => q \notin barred'
             /\ Waived(calls[q])' => q \notin due'
             /\ Opens(calls'[q]) /\ calls'[q].at \in {"challenge", "admitted"} =>
                  calls'[q].session \in Sessions
  BY <1>2, <1>3, <1>5, OthersStay
<1>6. QED
  BY <1>4, <1>5 DEF AdmissionsOK, Admitted, Asked, Opened, Waived, Settled, LetThrough, Opens

LEMMA AdmissionsNext == TypeInv /\ AdmissionsOK /\ [Next]_vars => AdmissionsOK'
<1>1. SUFFICES ASSUME TypeInv, AdmissionsOK, [Next]_vars PROVE AdmissionsOK'
  OBVIOUS
<1>2. CASE UNCHANGED vars
  BY <1>1, <1>2 DEF vars, rows, AdmissionsOK, HeldSessions, Admitted, Asked, Opened, Waived, Settled,
     LetThrough, Opens
<1>3. ASSUME NEW r \in Requests, StepOf(r)
      PROVE  AdmissionsOK'
  BY <1>1, <1>3, StepMoves, MoveAdmits, ArrivalAdmits, OpeningAdmits
<1>4. CASE TimeStep
  BY <1>1, <1>4, TimeAdmits
<1>5. QED
  BY <1>1, <1>2, <1>3, <1>4, NextSplits

LEMMA AdmissionsInit == Init => AdmissionsOK
<1>1. SUFFICES ASSUME Init PROVE AdmissionsOK
  OBVIOUS
<1>2. \A r \in Requests : calls[r] = Idle
  BY <1>1 DEF Init
<1>3. Idle.session \notin Sessions /\ ~LetThrough(Idle) /\ ~Settled(Idle) /\ ~Opens(Idle)
  BY NullSession DEF Idle, LetThrough, Settled, Opens
<1>4. QED
  BY <1>2, <1>3 DEF AdmissionsOK, HeldSessions, Admitted, Asked, Opened, Waived

LEMMA AdmissionsInvariant == Spec => []AdmissionsOK
<1>1. QED
  BY AdmissionsInit, AdmissionsNext, TypeInvariant, PTL DEF Spec

\* Whoever is let in, by a password, a handoff or a session, could have been at
\* some moment of the request: the account was active and not locked.
THEOREM AdmissionsAllowed == Spec => []AdmittedWasAllowed
<1>1. AdmissionsOK => AdmittedWasAllowed
  BY DEF AdmissionsOK, Admitted, AdmittedWasAllowed, LetThrough
<1>2. QED
  BY <1>1, AdmissionsInvariant, PTL

\* A sign-in that skips the second factor ran for a moment in which none was due,
\* whatever the policy and the factors did around its reads.
THEOREM FactorsAsked == Spec => []FactorWasAsked
<1>1. AdmissionsOK => FactorWasAsked
  BY DEF AdmissionsOK, Asked, Opened, Waived, Opens, FactorWasAsked, At
<1>2. QED
  BY <1>1, AdmissionsInvariant, PTL

-----------------------------------------------------------------------------
(* Factors                                                                 *)

\* Which steps write factors, or the policy that asks for them.
LEMMA FactorsKept ==
    ASSUME [Next]_vars,
           ~\E r \in Requests :
               \/ InsertUnconfirmed(r) \/ ConfirmFactor(r) \/ CommitRemoval(r) \/ ResetFactors(r)
               \/ SaveSettings(r)
    PROVE  UNCHANGED <<factors, policy, strict>>
<1>1. CASE UNCHANGED vars
  BY <1>1 DEF vars, rows, history
<1>2. ASSUME NEW r \in Requests, ArriveWithSession(r) \/ ArriveAnonymous(r) \/ ArriveAdministrator(r)
      PROVE  UNCHANGED <<factors, policy, strict>>
  BY <1>2 DEF ArriveWithSession, ArriveAnonymous, ArriveAdministrator, Arrive, rows
<1>3. ASSUME NEW r \in Requests, SignInStep(r) \/ Resume(r) \/ Authenticate(r) \/ AdministratorStep(r)
      PROVE  UNCHANGED <<factors, policy, strict>>
  BY <1>3 DEF SignInStep, AdministratorStep, FindByEmail, WrongPassword, LockOut, UpgradeHash, RecordSuccess,
     LoadSettings, Decide, OpenSession, StartChallenge, Respond, Resume, Authenticate, FindInvited,
     LoadUser, SetStatus, rows, history
<1>4. ASSUME NEW r \in Requests, FactorStep(r)
      PROVE  UNCHANGED <<factors, policy, strict>>
  BY <1>4 DEF FactorStep, ReadChallenge, RightCode, WrongCode, RevokeById, MarkSatisfied, ReadPending,
     FindPending, CountFactors, DeleteFactor, ReplaceCodes, rows, history
<1>5. ASSUME NEW r \in Requests, PasswordStep(r)
      PROVE  UNCHANGED <<factors, policy, strict>>
  BY <1>5 DEF PasswordStep, Supersede, InsertToken, Consume, RedeemHandoff, FindForReset, RedeemCode,
     VerifyCurrent, RefusePassword, SetPassword, RevokeSessions, RevokeCodes, Accept, rows, history
<1>6. CASE TimeStep
  BY <1>6 DEF TimeStep, LockRunsOut, SessionRunsOut, TokenRunsOut, history
<1>7. QED
  BY <1>1, <1>2, <1>3, <1>4, <1>5, <1>6 DEF Next, TimeStep

\* What a write of factors does under a policy that has required one all along:
\* nothing to the one that is confirmed, unless it is a reset; and what a removal
\* may take remains so.
LEMMA FactorWrites ==
    ASSUME TypeInv, FactorsOK, NEW r \in Requests,
           InsertUnconfirmed(r) \/ ConfirmFactor(r) \/ CommitRemoval(r) \/ ResetFactors(r)
    PROVE  /\ OneConfirmed' /\ UNCHANGED <<policy, strict>> /\ End(r)
           /\ strict => \A f \in Authenticators : Spare(f) => Spare(f)'
           /\ strict => (Confirmed # {} /\ Confirmed' = {} => ResetFactors(r))
<1>1. factors \in [Authenticators -> {"free", "pending", "confirmed", "gone"}]
  BY DEF TypeInv, RowsTyped
<1>2. CASE InsertUnconfirmed(r)
  <2>1. PICK new \in Authenticators :
          /\ factors[new] = "free"
          /\ factors' = [f \in Authenticators |->
               IF f = new THEN "pending" ELSE IF f \in calls[r].seen \cap Pending THEN "gone" ELSE factors[f]]
    BY <1>2 DEF InsertUnconfirmed
  <2>2. Confirmed' = Confirmed
    BY <1>1, <2>1 DEF Confirmed, Pending
  <2>3. \A f \in Authenticators :
          /\ factors[f] = "gone" => factors'[f] = "gone"
          /\ factors[f] = "pending" => factors'[f] \in {"pending", "gone"}
    BY <1>1, <2>1
  <2>4. QED
    BY <1>2, <2>2, <2>3 DEF InsertUnconfirmed, FactorsOK, OneConfirmed, Spare, history
<1>3. CASE ConfirmFactor(r)
  <2> DEFINE mine == calls[r].factor
  <2>1. UNCHANGED <<policy, strict>> /\ End(r) /\ mine \in Authenticators
    BY <1>3, CallFields DEF ConfirmFactor, history
  <2>2. CASE UNCHANGED factors
    BY <2>1, <2>2 DEF FactorsOK, OneConfirmed, Spare, Confirmed
  <2>3. CASE ~UNCHANGED factors
    <3>1. /\ factors[mine] # "gone" /\ Confirmed \ {mine} = {}
          /\ factors' = [factors EXCEPT ![mine] = "confirmed"]
      BY <1>1, <1>3, <2>1, <2>3 DEF ConfirmFactor
    <3>2. Confirmed' = {mine}
      BY <1>1, <2>1, <3>1 DEF Confirmed
    <3>3. \A f \in Authenticators : Spare(f) => f # mine
      BY <3>1 DEF Spare, Confirmed
    <3>4. \A f \in Authenticators : Spare(f) => Spare(f)'
      BY <1>1, <3>1, <3>2, <3>3 DEF Spare
    <3>5. QED
      BY <2>1, <3>2, <3>4 DEF OneConfirmed
  <2>4. QED
    BY <2>2, <2>3
<1>4. CASE CommitRemoval(r)
  <2> DEFINE f == calls[r].factor
  <2>1. /\ UNCHANGED <<policy, strict>> /\ End(r) /\ f \in Authenticators
        /\ factors' = [factors EXCEPT ![f] = "gone"]
    BY <1>4, CallFields DEF CommitRemoval, Sound, At, history
  <2>2. Confirmed' = Confirmed \ {f}
    BY <1>1, <2>1 DEF Confirmed
  <2>3. strict => f \notin Confirmed
    BY <1>4 DEF FactorsOK, RemovalOK, Removing, CommitRemoval, At, Spare, Confirmed
  <2>4. strict => \A g \in Authenticators : Spare(g) => Spare(g)'
    BY <1>1, <2>1, <2>2, <2>3 DEF Spare
  <2>5. QED
    BY <2>1, <2>2, <2>3, <2>4 DEF FactorsOK, OneConfirmed
<1>5. CASE ResetFactors(r)
  <2>1. \A f \in Authenticators : factors'[f] = IF factors[f] = "free" THEN "free" ELSE "gone"
    BY <1>5 DEF ResetFactors
  <2>2. Confirmed' = {}
    BY <2>1 DEF Confirmed
  <2>3. \A f \in Authenticators : Spare(f) => Spare(f)'
    BY <2>1 DEF Spare
  <2>4. QED
    BY <1>5, <2>2, <2>3 DEF ResetFactors, OneConfirmed, history
<1>6. QED
  BY <1>2, <1>3, <1>4, <1>5

\* A request that the step does not move is as right as before, and so is one that
\* is not removing anything.
LEMMA RemovalStays ==
    ASSUME TypeInv, NEW q \in Requests, RemovalOK(q), UNCHANGED strict,
           strict => \A f \in Authenticators : Spare(f) => Spare(f)',
           calls'[q] = calls[q] \/ ~Removing(calls'[q])
    PROVE  RemovalOK(q)'
<1>1. CASE ~Removing(calls'[q])
  BY <1>1 DEF RemovalOK, Removing
<1>2. CASE calls'[q] = calls[q] /\ Removing(calls[q]) /\ strict
  <2>1. calls[q].at # "list" => calls[q].factor \in Authenticators
    BY <1>2, CallFields DEF Removing, Sound
  <2>2. calls[q].policy = "required" /\ (calls[q].at # "list" => Spare(calls[q].factor))
    BY <1>2 DEF RemovalOK
  <2>3. calls[q].at # "list" => Spare(calls[q].factor)'
    BY <1>2, <2>1, <2>2 DEF Spare
  <2>4. QED
    BY <1>2, <2>2, <2>3 DEF RemovalOK
<1>3. CASE calls'[q] = calls[q] /\ ~(Removing(calls[q]) /\ strict)
  BY <1>3 DEF RemovalOK, Removing
<1>4. QED
  BY <1>1, <1>2, <1>3

LEMMA RowsStay ==
    ASSUME FactorsOK, UNCHANGED <<factors, policy, strict>>
    PROVE  OneConfirmed' /\ (strict' => policy' = "required")
           /\ Confirmed' = Confirmed /\ \A f : Spare(f) => Spare(f)'
BY DEF FactorsOK, OneConfirmed, Confirmed, Spare

\* The steps that take a removal further: the policy is the one that is read, and
\* what is counted as staying is the one authenticator that is confirmed.
LEMMA RemovalSteps ==
    ASSUME TypeInv, FactorsOK, NEW r \in Requests, LoadSettings(r) \/ CountFactors(r) \/ DeleteFactor(r)
    PROVE  FactorsOK'
<1>1. UNCHANGED <<factors, policy, strict>>
  BY DEF LoadSettings, CountFactors, DeleteFactor, rows, history
<1>2. /\ OneConfirmed' /\ (strict' => policy' = "required")
      /\ Confirmed' = Confirmed /\ \A f : Spare(f) => Spare(f)'
  BY <1>1, RowsStay
<1>3. PICK c : Become(r, c)
  BY DEF LoadSettings, CountFactors, DeleteFactor, End
<1>4. calls'[r] = c /\ \A q \in Requests : q # r => calls'[q] = calls[q]
  BY <1>3 DEF Become, TypeInv, CallsTyped
<1>5. \A q \in Requests : q # r => RemovalOK(q)'
  BY <1>1, <1>2, <1>4, RemovalStays DEF FactorsOK
<1>6. calls[r] \in Calls
  BY CallFields
<1>7. RemovalOK(r)'
  <2>1. CASE End(r)
    <3>1. calls'[r] = Idle
      BY <2>1 DEF End, Become, TypeInv, CallsTyped
    <3>2. ~Removing(calls'[r])
      BY <3>1 DEF Removing, Idle
    <3>3. QED
      BY <1>1, <1>2, <3>2, RemovalStays DEF FactorsOK
  <2>2. CASE LoadSettings(r)
    <3> DEFINE place == IF calls[r].kind \in {"begin", "remove"} THEN "list" ELSE "decide"
               d == [calls[r] EXCEPT !.policy = policy, !.at = place]
    <3>1. calls'[r] = d
      BY <2>2 DEF LoadSettings, Become, TypeInv, CallsTyped
    <3>2. d.policy = policy /\ d.kind = calls[r].kind /\ d.at = place
      BY <1>6 DEF Calls
    <3> HIDE DEF d
    <3>3. Removing(calls'[r]) => calls'[r].at = "list" /\ calls'[r].policy = policy
      BY <3>1, <3>2 DEF Removing
    <3>4. QED
      BY <1>1, <1>2, <3>3 DEF RemovalOK, Removing
  <2>3. CASE CountFactors(r) /\ ~End(r)
    <3>1. PICK f \in Confirmed \cup Pending :
            /\ ~(Confirmed \ {f} = {} /\ ~allows_without_factor(calls[r].policy))
            /\ Become(r, [calls[r] EXCEPT !.at = "delete", !.factor = f])
      BY <2>3 DEF CountFactors
    <3>2. calls'[r] = [calls[r] EXCEPT !.at = "delete", !.factor = f]
      BY <3>1 DEF Become, TypeInv, CallsTyped
    <3>3. calls'[r].policy = calls[r].policy /\ calls'[r].at = "delete" /\ calls'[r].factor = f
      BY <1>6, <3>2 DEF Calls
    <3>4. strict => calls[r].policy = "required"
      BY <2>3 DEF CountFactors, At, FactorsOK, RemovalOK, Removing
    <3>5. calls[r].policy = "required" => Spare(f)
      BY <3>1 DEF allows_without_factor, FactorsOK, OneConfirmed, Confirmed, Pending, Spare
    <3>6. Spare(f) => Spare(calls[r].factor)'
      BY <1>2, <3>3 DEF Spare
    <3>7. QED
      BY <1>1, <3>3, <3>4, <3>5, <3>6 DEF RemovalOK
  <2>4. CASE DeleteFactor(r) /\ ~End(r)
    <3> DEFINE seen == Confirmed \ {calls[r].factor}
    <3>1. calls'[r] = [calls[r] EXCEPT !.at = "commit", !.seen = seen]
      BY <2>4 DEF DeleteFactor, Become, TypeInv, CallsTyped
    <3>2. calls'[r].policy = calls[r].policy /\ calls'[r].at = "commit" /\ calls'[r].factor = calls[r].factor
      BY <1>6, <3>1 DEF Calls
    <3>3. strict => calls[r].policy = "required" /\ Spare(calls[r].factor)
      BY <2>4 DEF DeleteFactor, At, FactorsOK, RemovalOK, Removing
    <3>4. Spare(calls[r].factor) => Spare(calls[r].factor)'
      BY <1>2, <3>2 DEF Spare
    <3>5. QED
      BY <1>1, <3>2, <3>3, <3>4 DEF RemovalOK
  <2>5. QED
    BY <2>1, <2>2, <2>3, <2>4
<1>8. QED
  BY <1>2, <1>5, <1>7 DEF FactorsOK

LEMMA FactorsNext == TypeInv /\ FactorsOK /\ [Next]_vars => FactorsOK'
<1>1. SUFFICES ASSUME TypeInv, FactorsOK, [Next]_vars PROVE FactorsOK'
  OBVIOUS
<1>2. CASE TimeStep \/ UNCHANGED vars
  <2>1. UNCHANGED <<factors, policy, strict, calls>>
    BY <1>2 DEF TimeStep, LockRunsOut, SessionRunsOut, TokenRunsOut, vars, rows, history
  <2>2. QED
    BY <1>1, <2>1 DEF FactorsOK, OneConfirmed, RemovalOK, Removing, Spare, Confirmed
<1>3. ASSUME NEW r \in Requests,
             InsertUnconfirmed(r) \/ ConfirmFactor(r) \/ CommitRemoval(r) \/ ResetFactors(r)
      PROVE  FactorsOK'
  <2>1. /\ OneConfirmed' /\ UNCHANGED <<policy, strict>> /\ End(r)
        /\ strict => \A f \in Authenticators : Spare(f) => Spare(f)'
    BY <1>1, <1>3, FactorWrites
  <2>2. calls'[r] = Idle /\ \A q \in Requests : q # r => calls'[q] = calls[q]
    BY <1>1, <2>1 DEF End, Become, TypeInv, CallsTyped
  <2>3. ~Removing(Idle)
    BY DEF Removing, Idle
  <2>4. \A q \in Requests : RemovalOK(q)'
    BY <1>1, <2>1, <2>2, <2>3, RemovalStays DEF FactorsOK
  <2>5. QED
    BY <1>1, <2>1, <2>4 DEF FactorsOK
<1>4. ASSUME NEW r \in Requests, SaveSettings(r)
      PROVE  FactorsOK'
  <2>1. UNCHANGED factors /\ ~strict'
    BY <1>4 DEF SaveSettings
  <2>2. QED
    BY <1>1, <2>1 DEF FactorsOK, OneConfirmed, RemovalOK, Confirmed
<1>5. ASSUME NEW r \in Requests, StepOf(r), UNCHANGED <<factors, policy, strict>>
      PROVE  FactorsOK'
  <2>1. CASE LoadSettings(r) \/ CountFactors(r) \/ DeleteFactor(r)
    BY <1>1, <2>1, RemovalSteps
  <2>2. CASE ~(LoadSettings(r) \/ CountFactors(r) \/ DeleteFactor(r))
    <3>1. ~Removing(calls'[r]) /\ \A q \in Requests : q # r => calls'[q] = calls[q]
      <4>1. CASE OpenSession(r)
        <5>1. PICK s \in Sessions :
                Become(r, [calls[r] EXCEPT !.session = s,
                             !.at = IF calls[r].outcome = "challenge" THEN "challenge" ELSE "admitted"])
          BY <4>1 DEF OpenSession
        <5> DEFINE place == IF calls[r].outcome = "challenge" THEN "challenge" ELSE "admitted"
                   c == [calls[r] EXCEPT !.session = s, !.at = place]
        <5>2. c.at = place /\ place \in {"challenge", "admitted"}
          BY <1>1, CallFields DEF Calls
        <5>3. Become(r, c)
          BY <5>1
        <5> HIDE DEF c, place
        <5>4. calls'[r] = c /\ \A q \in Requests : q # r => calls'[q] = calls[q]
          BY <1>1, <5>3 DEF Become, TypeInv, CallsTyped
        <5>5. QED
          BY <5>2, <5>4 DEF Removing
      <4>2. CASE ArriveWithSession(r)
        <5>1. PICK kind, s : Become(r, [[Idle EXCEPT !.at = "resume", !.session = s] EXCEPT !.kind = kind])
          BY <4>2 DEF ArriveWithSession, Arrive
        <5> DEFINE c == [[Idle EXCEPT !.at = "resume", !.session = s] EXCEPT !.kind = kind]
        <5>2. c.at = "resume"
          BY DEF Idle
        <5> HIDE DEF c
        <5>3. calls'[r] = c /\ \A q \in Requests : q # r => calls'[q] = calls[q]
          BY <1>1, <5>1 DEF Become, TypeInv, CallsTyped, c
        <5>4. QED
          BY <5>2, <5>3 DEF Removing
      <4>3. CASE ~OpenSession(r) /\ ~ArriveWithSession(r)
        <5>1. PICK c : Moves(r, c)
          BY <1>1, <1>5, <4>3, StepMoves
        <5>2. calls'[r] = c /\ \A q \in Requests : q # r => calls'[q] = calls[q]
          BY <1>1, <5>1 DEF Moves, Become, TypeInv, CallsTyped
        <5>3. QED
          BY <2>2, <5>1, <5>2 DEF Moves
      <4>4. QED
        BY <4>1, <4>2, <4>3
    <3>2. /\ OneConfirmed' /\ (strict' => policy' = "required")
          /\ \A f : Spare(f) => Spare(f)'
      BY <1>1, <1>5, RowsStay
    <3>3. \A q \in Requests : RemovalOK(q)'
      BY <1>1, <1>5, <3>1, <3>2, RemovalStays DEF FactorsOK
    <3>4. QED
      BY <3>2, <3>3 DEF FactorsOK
  <2>3. QED
    BY <2>1, <2>2
<1>6. QED
  BY <1>1, <1>2, <1>3, <1>4, <1>5, NextSplits, FactorsKept

LEMMA FactorsInit == Init => FactorsOK
<1>1. SUFFICES ASSUME Init PROVE FactorsOK
  OBVIOUS
<1>2. PICK app \in SUBSET Authenticators, begun \in SUBSET Authenticators : InitFactors(app, begun)
  BY <1>1 DEF Init
<1>3. Confirmed = app
  BY <1>2 DEF InitFactors, Confirmed
<1>4. IsFiniteSet(app)
  BY AccountsAssumption, FS_Subset DEF AccountsAssumption
<1>5. ASSUME NEW f \in app, NEW g \in app, f # g
      PROVE  FALSE
  <2>1. IsFiniteSet(app \ {f}) /\ Cardinality(app \ {f}) = Cardinality(app) - 1
    BY <1>4, FS_RemoveElement
  <2>2. Cardinality(app) \in Nat /\ Cardinality(app \ {f}) \in Nat
    BY <1>4, <2>1, FS_CardinalityType
  <2>3. Cardinality(app \ {f}) = 0
    BY <1>2, <2>1, <2>2 DEF InitFactors
  <2>4. app \ {f} = {}
    BY <2>1, <2>3, FS_EmptySet
  <2>5. QED
    BY <1>5, <2>4
<1>6. OneConfirmed
  BY <1>3, <1>5 DEF OneConfirmed
<1>7. \A r \in Requests : ~Removing(calls[r])
  BY <1>1 DEF Init, Idle, Removing
<1>8. strict => policy = "required"
  BY <1>1 DEF Init
<1>9. QED
  BY <1>6, <1>7, <1>8 DEF FactorsOK, RemovalOK

\* Under a policy that has required a factor all along, the last authenticator goes
\* only with an administrator's reset, however many removals and enrolments run at
\* the same time: there is never a second confirmed one for two removals to count.
THEOREM LastFactorKept == Spec => LastFactorStays
<1>1. TypeInv /\ FactorsOK /\ [Next]_vars =>
        [strict /\ Confirmed # {} /\ Confirmed' = {}
           => \E r \in Requests : At(r, {"reset_factors"}, "find")]_vars
  <2>1. SUFFICES ASSUME TypeInv, FactorsOK, [Next]_vars, strict, Confirmed # {}, Confirmed' = {}
                 PROVE  \E r \in Requests : At(r, {"reset_factors"}, "find")
    OBVIOUS
  <2>2. ~UNCHANGED factors
    BY <2>1 DEF Confirmed
  <2>3. PICK r \in Requests :
           \/ InsertUnconfirmed(r) \/ ConfirmFactor(r) \/ CommitRemoval(r) \/ ResetFactors(r)
           \/ SaveSettings(r)
    BY <2>1, <2>2, FactorsKept
  <2>4. ~SaveSettings(r)
    BY <2>2 DEF SaveSettings
  <2>5. ResetFactors(r)
    BY <2>1, <2>3, <2>4, FactorWrites
  <2>6. QED
    BY <2>5 DEF ResetFactors
<1>2. Spec => []FactorsOK
  BY FactorsInit, FactorsNext, TypeInvariant, PTL DEF Spec
<1>3. QED
  BY <1>1, <1>2, TypeInvariant, PTL DEF Spec, LastFactorStays

=============================================================================
