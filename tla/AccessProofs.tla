------------------------------ MODULE AccessProofs ------------------------------
(***************************************************************************)
(* What the rows of roles and of grants are, what an app that is on gives  *)
(* Admin, and that the owner can always administer, for every tree of      *)
(* permissions, catalog of apps, number of accounts and of requests that   *)
(* meet.                                                                   *)
(*                                                                         *)
(* The argument is about what a transaction may have deleted before it     *)
(* commits (Sound): an uninstall only rows its own app owns, the edit of a *)
(* role only rows of that role, which is not Admin, and the edit of an     *)
(* account's roles never the row that makes the owner an Admin.            *)
(*                                                                         *)
(* Three more arguments rest on it: that Admin, and what a sync has taken  *)
(* from it, holds an app whole or not at all (WholeOK); where the rows of an*)
(* app that is off are between the sync and the commit of its revocation   *)
(* (RevokedOK); and that what an account holds moves from the arrival of a *)
(* request only by what the edits written meanwhile mean (MeantOK).        *)
(***************************************************************************)
EXTENDS Access, PermissionsProofs

\* What is so of a request by itself: who and what it is about, and what its
\* transaction has deleted so far.
Sound(call) ==
    /\ call.kind = "uninstall" => call.app \in Apps /\ (call.at # "check" => call.app \in Optional)
    /\ call.at \in {"revoke_users", "revoked"} =>
          call.kind = "uninstall" /\ \A row \in call.doomed : owns(call.app, row[2])
    /\ call.kind \in {"set_role", "create", "delete"} => call.role \in Roles
    /\ call.kind = "set_role" =>
          /\ \A row \in call.doomed : row[1] = call.role
          /\ call.at # "find" => call.role # "Admin"
    /\ call.kind = "delete" /\ call.at # "find" => call.role \notin Static
    /\ call.kind \in {"set_user", "set_members", "use", "key", "issue"} => call.user \in Users
    /\ call.kind = "set_user" /\ call.at # "find" => call.user # Owner
    /\ call.kind = "set_members" => <<Owner, "Admin">> \notin call.doomed
    /\ call.kind \in {"key", "revoke_key"} => call.key \in Keys
    /\ call.at = "revoke_key" => call.kind \in {"key", "revoke_key"}
    /\ call.at = "admitted" => call.kind \in {"use", "key"}

CallsSound == \A r \in Requests : Sound(calls[r])

OwnerKeeps ==
    <<Owner, "Admin">> \in user_roles /\ user_permissions[Owner].denied = {}

StaticLive == Static \subseteq Live

\* What Admin holds of the apps that are on.
AdminHasOn ==
    \A app \in Apps, n \in Names :
        (app \in AlwaysOn \/ app \in enabled \ unsynced) /\ owner_of(app, n) => <<"Admin", n>> \in role_permissions

Seen == [had : SUBSET Names, given : SUBSET Names, taken : SUBSET Names]

RequestsOK ==
    /\ calls \in [Requests -> Calls] /\ CallsSound /\ mix \in Mixes
    /\ watched \in [Requests -> Seen]

RowsTyped ==
    /\ enabled \subseteq Apps /\ active \subseteq Users
    /\ roles \in [Roles -> {"free", "live", "gone"}]
    /\ role_permissions \subseteq Live \X Names /\ user_roles \subseteq Users \X Live
    /\ user_permissions \in [Users -> Overrides]
    /\ keys \in [Keys -> [state : {"free", "live", "over"}, user : Users, scopes : SUBSET Names]]
    /\ arrived \in 0..MaxRequests /\ unrevoked \subseteq Optional /\ unsynced \subseteq Apps

RowsOK == RowsTyped /\ AdminHasOn /\ OwnerKeeps /\ StaticLive

IInv == RequestsOK /\ RowsOK

LEMMA IInvTypes == IInv => TypeOK
BY DEF IInv, RequestsOK, RowsOK, RowsTyped, Seen, TypeOK

CallOK(call) == call \in Calls /\ Sound(call)

-----------------------------------------------------------------------------
(* One request                                                             *)

LEMMA CallFields ==
    ASSUME NEW c \in Calls
    PROVE  /\ c.kind \in Kinds /\ c.at \in Places /\ c.app \in Apps \cup {NULL} /\ c.todo \subseteq Apps
           /\ c.switched \in BOOLEAN /\ c.E \subseteq Apps /\ c.user \in Users \cup {NULL}
           /\ c.role \in Roles \cup {NULL} /\ c.roles \subseteq Roles /\ c.desired \subseteq Names
           /\ c.held \subseteq Names /\ c.before \in [granted : SUBSET Names, denied : SUBSET Names] /\ c.key \in Keys \cup {NULL}
           /\ c.doomed \subseteq (Roles \cup Users) \X (Names \cup Roles)
BY DEF Calls

LEMMA IdleOK == CallOK(Idle) /\ None \in Overrides
<1>1. None \in Overrides
  BY DEF None, Overrides
<1>2. Idle \in Calls
  BY DEF Idle, None, Calls, Kinds, Changes, Places
<1>3. Sound(Idle)
  BY DEF Sound, Idle
<1>4. QED
  BY <1>1, <1>2, <1>3 DEF CallOK

\* A request that loses rows it had deleted, to another that committed first.
LEMMA ShrinkOK ==
    ASSUME NEW c, CallOK(c), NEW rows
    PROVE  CallOK([c EXCEPT !.doomed = @ \ rows])
<1> DEFINE d == [c EXCEPT !.doomed = @ \ rows]
<1>0. c \in Calls
  BY DEF CallOK
<1>1. d \in Calls
  BY <1>0 DEF Calls
<1>2. /\ d.kind = c.kind /\ d.at = c.at /\ d.app = c.app /\ d.role = c.role /\ d.user = c.user /\ d.key = c.key
      /\ d.doomed = c.doomed \ rows
  BY <1>0 DEF Calls
<1>3. Sound(d)
  <2> HIDE DEF d
  <2> QED BY <1>2 DEF Sound, CallOK
<1>4. QED
  BY <1>1, <1>3 DEF CallOK

-----------------------------------------------------------------------------
(* Histories of what a request could have seen                             *)

LEMMA EffectiveAreNames ==
    ASSUME TypeOK, NEW u \in Users
    PROVE  effective_of(u) \subseteq Names
<1>1. user_permissions[u].granted \subseteq Names
  BY DEF TypeOK, Overrides
<1>2. from_roles(names_for_user(u)) \subseteq Names
  BY DEF from_roles, permissions_of
<1>3. QED
  BY <1>1, <1>2 DEF effective_of, effective

\* What is kept of a request: what its account had when it came, and names given
\* and taken since.
LEMMA WatchOK ==
    ASSUME IInv, NEW edits, Watch(edits), CallsSound'
    PROVE  watched' \in [Requests -> Seen]
<1> DEFINE w(r) ==
        LET u == calls'[r].user
        IN  IF calls'[r].at = "idle" \/ calls'[r].kind \notin {"use", "key"} THEN Unseen
            ELSE IF calls[r].at = "idle" THEN [Unseen EXCEPT !.had = effective_of(u)]
            ELSE IF calls[r].at = "admitted" THEN watched[r]
            ELSE [watched[r] EXCEPT
                     !.given = @ \cup {n \in Names : \E q \in edits : Gives(q, u, n)},
                     !.taken = @ \cup {n \in Names : \E q \in edits : Takes(q, u, n)}]
<1>1. ASSUME NEW r \in Requests PROVE w(r) \in Seen
  <2>1. watched[r] \in Seen /\ Unseen \in Seen
    BY DEF IInv, RequestsOK, Unseen, Seen
  <2>2. CASE calls'[r].kind \in {"use", "key"} /\ calls[r].at = "idle"
    <3>1. calls'[r].user \in Users
      BY <2>2 DEF CallsSound, Sound
    <3>2. effective_of(calls'[r].user) \in SUBSET Names
      BY <3>1, EffectiveAreNames, IInvTypes
    <3>3. [Unseen EXCEPT !.had = effective_of(calls'[r].user)] \in Seen
      BY <3>2 DEF Unseen, Seen
    <3>4. QED
      BY <2>1, <2>2, <3>3
  <2>3. ASSUME NEW given \in SUBSET Names, NEW taken \in SUBSET Names
        PROVE  [watched[r] EXCEPT !.given = @ \cup given, !.taken = @ \cup taken] \in Seen
    BY <2>1 DEF Seen
  <2>4. /\ {n \in Names : \E q \in edits : Gives(q, calls'[r].user, n)} \in SUBSET Names
        /\ {n \in Names : \E q \in edits : Takes(q, calls'[r].user, n)} \in SUBSET Names
    OBVIOUS
  <2>5. QED
    BY <2>1, <2>2, <2>3, <2>4
<1>2. watched' = [r \in Requests |-> w(r)]
  BY DEF Watch
<1>3. QED
  BY <1>1, <1>2

-----------------------------------------------------------------------------
(* A step of one request                                                   *)

LEMMA MoveOK ==
    ASSUME IInv, NEW r \in Requests, NEW call, CallOK(call), calls' = [calls EXCEPT ![r] = call],
           NEW edits, Watch(edits), mix' = mix
    PROVE  RequestsOK'
<1>1. calls' \in [Requests -> Calls]
  BY DEF CallOK, IInv, RequestsOK
<1>2. \A q \in Requests : Sound(calls'[q])
  BY DEF CallOK, IInv, RequestsOK, CallsSound
<1>3. CallsSound'
  BY <1>2 DEF CallsSound, Sound
<1>4. QED
  BY <1>1, <1>3, WatchOK DEF IInv, RequestsOK

LEMMA BecomeOK ==
    ASSUME IInv, NEW r \in Requests, NEW call, CallOK(call), Become(r, call)
    PROVE  RequestsOK'
BY MoveOK DEF Become, Observe

LEMMA EndOK ==
    ASSUME IInv, NEW r \in Requests, End(r)
    PROVE  RequestsOK'
BY BecomeOK, IdleOK DEF End

LEMMA CommittedOK ==
    ASSUME IInv, NEW r \in Requests, NEW call, CallOK(call), Committed(r, call)
    PROVE  RequestsOK'
<1> DEFINE after(q) == IF q = r THEN call ELSE [calls[q] EXCEPT !.doomed = @ \ calls[r].doomed]
<1>1. calls' = [q \in Requests |-> after(q)] /\ Observe
  BY DEF Committed
<1>2. ASSUME NEW q \in Requests PROVE CallOK(calls[q])
  BY DEF CallOK, IInv, RequestsOK, CallsSound
<1>3. ASSUME NEW q \in Requests PROVE CallOK(after(q))
  BY <1>2, ShrinkOK
<1>4. calls' \in [Requests -> Calls]
  BY <1>1, <1>3 DEF CallOK
<1>5. \A q \in Requests : Sound(calls'[q])
  BY <1>1, <1>3 DEF CallOK
<1>6. CallsSound'
  BY <1>5 DEF CallsSound, Sound
<1>7. QED
  BY <1>1, <1>4, <1>6, WatchOK DEF IInv, RequestsOK, Observe

\* The rows are as they were; the histories may say more.
LEMMA RowsStay ==
    ASSUME IInv, UNCHANGED <<enabled, roles, grants, people, keys>>,
           arrived' \in 0..MaxRequests, unrevoked' \subseteq Optional,
           unsynced \subseteq unsynced', unsynced' \subseteq Apps
    PROVE  RowsOK'
<1>1. UNCHANGED <<enabled, roles, role_permissions, user_permissions, user_roles, active, keys>>
  BY DEF grants, people
<1>2. Live' = Live
  BY <1>1 DEF Live
<1>3. RowsTyped'
  BY <1>1, <1>2 DEF IInv, RowsOK, RowsTyped
<1>4. AdminHasOn'
  BY <1>1 DEF IInv, RowsOK, AdminHasOn
<1>5. OwnerKeeps' /\ StaticLive'
  BY <1>1, <1>2 DEF IInv, RowsOK, OwnerKeeps, StaticLive
<1>6. QED
  BY <1>3, <1>4, <1>5 DEF RowsOK

\* A step that reads.
LEMMA QuietOK ==
    ASSUME IInv, NEW r \in Requests, NEW call, CallOK(call), Become(r, call),
           UNCHANGED <<enabled, roles, grants, people, keys, arrived, causes>>
    PROVE  IInv'
<1>1. RequestsOK'
  BY BecomeOK
<1>2. RowsOK'
  <2>1. arrived' \in 0..MaxRequests /\ unrevoked' \subseteq Optional /\ unsynced' = unsynced /\ unsynced \subseteq Apps
    BY DEF IInv, RowsOK, RowsTyped, causes
  <2>2. QED
    BY <2>1, RowsStay
<1>3. QED
  BY <1>1, <1>2 DEF IInv

LEMMA QuietEndOK ==
    ASSUME IInv, NEW r \in Requests, End(r),
           UNCHANGED <<enabled, roles, grants, people, keys, arrived, causes>>
    PROVE  IInv'
BY QuietOK, IdleOK DEF End

LEMMA CurrentOK ==
    ASSUME IInv, NEW r \in Requests
    PROVE  CallOK(calls[r])
BY DEF CallOK, IInv, RequestsOK, CallsSound

-----------------------------------------------------------------------------
(* Requests that arrive, and those whose connection is lost                *)

LEMMA ArriveOK ==
    ASSUME IInv, NEW r \in Requests, NEW kind, NEW call,
           CallOK([call EXCEPT !.kind = kind]), Arrive(r, kind, call)
    PROVE  IInv'
<1>1. arrived' \in 0..MaxRequests
  <2>1. arrived \in 0..MaxRequests /\ mix \in Mixes
    BY DEF IInv, RowsOK, RowsTyped, RequestsOK
  <2>2. mix.arrivals \in 0..MaxRequests
    BY <2>1, AccessAssumption
  <2>3. QED
    BY <2>1, <2>2, AccessAssumption DEF Arrive
<1>2. RequestsOK'
  BY BecomeOK DEF Arrive
<1>3. RowsOK'
  <2>1. UNCHANGED <<enabled, roles, grants, people, keys>> /\ unrevoked' \subseteq Optional
        /\ unsynced' = unsynced /\ unsynced \subseteq Apps
    BY DEF Arrive, causes, IInv, RowsOK, RowsTyped
  <2>2. QED
    BY <1>1, <2>1, RowsStay
<1>4. QED
  BY <1>2, <1>3 DEF IInv

LEMMA ArriveForAppOK ==
    ASSUME IInv, NEW r \in Requests, ArriveForApp(r)
    PROVE  IInv'
<1>1. ASSUME NEW app \in Apps, NEW todo \in SUBSET Apps,
             Arrive(r, "install", [Idle EXCEPT !.at = "enable", !.app = app, !.todo = todo])
      PROVE  IInv'
  <2> DEFINE c == [[Idle EXCEPT !.at = "enable", !.app = app, !.todo = todo] EXCEPT !.kind = "install"]
  <2>1. CallOK(c)
    <3>1. c \in Calls
      BY IdleOK, ZenonT(60) DEF CallOK, Calls, Kinds, Changes, Places
    <3>2. Sound(c)
      BY DEF Sound, Idle
    <3>3. QED
      BY <3>1, <3>2 DEF CallOK
  <2>2. QED
    BY <1>1, <2>1, ArriveOK
<1>2. ASSUME NEW app \in Apps, Arrive(r, "uninstall", [Idle EXCEPT !.at = "check", !.app = app])
      PROVE  IInv'
  <2> DEFINE c == [[Idle EXCEPT !.at = "check", !.app = app] EXCEPT !.kind = "uninstall"]
  <2>1. CallOK(c)
    <3>1. c \in Calls
      BY IdleOK, ZenonT(60) DEF CallOK, Calls, Kinds, Changes, Places
    <3>2. Sound(c)
      BY DEF Sound, Idle
    <3>3. QED
      BY <3>1, <3>2 DEF CallOK
  <2>2. QED
    BY <1>2, <2>1, ArriveOK
<1>3. \A app \in Apps : (Requires[app] \ AlwaysOn) \cup {app} \in SUBSET Apps
  BY PermissionsAssumption
<1>4. AlwaysOn \cup mix.apps \subseteq Apps
  BY PermissionsAssumption, AccessAssumption DEF IInv, RequestsOK, Optional
<1>5. QED
  BY <1>1, <1>2, <1>3, <1>4 DEF ArriveForApp

LEMMA ArriveForRoleOK ==
    ASSUME IInv, NEW r \in Requests, ArriveForRole(r)
    PROVE  IInv'
<1>1. ASSUME NEW role \in Roles, NEW desired \in Selections,
             Arrive(r, "set_role", [Idle EXCEPT !.at = "find", !.role = role, !.desired = desired])
      PROVE  IInv'
  <2>1. desired \subseteq Names
    BY AccessAssumption
  <2> DEFINE c == [[Idle EXCEPT !.at = "find", !.role = role, !.desired = desired] EXCEPT !.kind = "set_role"]
  <2>2. CallOK(c)
    <3>1. c \in Calls
      BY <2>1, IdleOK, ZenonT(60) DEF CallOK, Calls, Kinds, Changes, Places
    <3>2. Sound(c)
      BY <2>1 DEF Sound, Idle
    <3>3. QED
      BY <3>1, <3>2 DEF CallOK
  <2>3. QED
    BY <1>1, <2>2, ArriveOK
<1>2. ASSUME NEW role \in Roles, Arrive(r, "delete", [Idle EXCEPT !.at = "find", !.role = role])
      PROVE  IInv'
  <2> DEFINE c == [[Idle EXCEPT !.at = "find", !.role = role] EXCEPT !.kind = "delete"]
  <2>1. CallOK(c)
    <3>1. c \in Calls
      BY IdleOK, ZenonT(60) DEF CallOK, Calls, Kinds, Changes, Places
    <3>2. Sound(c)
      BY DEF Sound, Idle
    <3>3. QED
      BY <3>1, <3>2 DEF CallOK
  <2>2. QED
    BY <1>2, <2>1, ArriveOK
<1>3. ASSUME NEW role \in Roles, Arrive(r, "create", [Idle EXCEPT !.at = "create", !.role = role])
      PROVE  IInv'
  <2> DEFINE c == [[Idle EXCEPT !.at = "create", !.role = role] EXCEPT !.kind = "create"]
  <2>1. CallOK(c)
    <3>1. c \in Calls
      BY IdleOK, ZenonT(60) DEF CallOK, Calls, Kinds, Changes, Places
    <3>2. Sound(c)
      BY DEF Sound, Idle
    <3>3. QED
      BY <3>1, <3>2 DEF CallOK
  <2>2. QED
    BY <1>3, <2>1, ArriveOK
<1>4. QED
  BY <1>1, <1>2, <1>3 DEF ArriveForRole

LEMMA ArriveForUserOK ==
    ASSUME IInv, NEW r \in Requests, ArriveForUser(r)
    PROVE  IInv'
<1>1. ASSUME NEW u \in Users, NEW desired \in Selections,
             Arrive(r, "set_user", [Idle EXCEPT !.at = "find", !.user = u, !.desired = desired])
      PROVE  IInv'
  <2>1. desired \subseteq Names
    BY AccessAssumption
  <2> DEFINE c == [[Idle EXCEPT !.at = "find", !.user = u, !.desired = desired] EXCEPT !.kind = "set_user"]
  <2>2. CallOK(c)
    <3>1. c \in Calls
      BY <2>1, IdleOK, ZenonT(60) DEF CallOK, Calls, Kinds, Changes, Places
    <3>2. Sound(c)
      BY <2>1 DEF Sound, Idle
    <3>3. QED
      BY <3>1, <3>2 DEF CallOK
  <2>3. QED
    BY <1>1, <2>2, ArriveOK
<1>2. ASSUME NEW u \in Users, NEW chosen \in SUBSET Roles,
             Arrive(r, "set_members", [Idle EXCEPT !.at = "find", !.user = u, !.roles = chosen])
      PROVE  IInv'
  <2> DEFINE c == [[Idle EXCEPT !.at = "find", !.user = u, !.roles = chosen] EXCEPT !.kind = "set_members"]
  <2>1. CallOK(c)
    <3>1. c \in Calls
      BY IdleOK, ZenonT(60) DEF CallOK, Calls, Kinds, Changes, Places
    <3>2. Sound(c)
      BY DEF Sound, Idle
    <3>3. QED
      BY <3>1, <3>2 DEF CallOK
  <2>2. QED
    BY <1>2, <2>1, ArriveOK
<1>3. QED
  BY <1>1, <1>2 DEF ArriveForUser

LEMMA ArriveForKeyOK ==
    ASSUME IInv, NEW r \in Requests, ArriveForKey(r)
    PROVE  IInv'
<1>0. active \subseteq Users /\ \A k \in Keys : keys[k].user \in Users
  BY DEF IInv, RowsOK, RowsTyped
<1>1. ASSUME NEW u \in active, NEW scopes \in Selections,
             Arrive(r, "issue", [Idle EXCEPT !.at = "mint", !.user = u, !.desired = scopes])
      PROVE  IInv'
  <2>1. scopes \subseteq Names /\ u \in Users
    BY <1>0, AccessAssumption
  <2> DEFINE c == [[Idle EXCEPT !.at = "mint", !.user = u, !.desired = scopes] EXCEPT !.kind = "issue"]
  <2>2. CallOK(c)
    <3>1. c \in Calls
      BY <2>1, IdleOK, ZenonT(60) DEF CallOK, Calls, Kinds, Changes, Places
    <3>2. Sound(c)
      BY <2>1 DEF Sound, Idle
    <3>3. QED
      BY <3>1, <3>2 DEF CallOK
  <2>3. QED
    BY <1>1, <2>2, ArriveOK
<1>2. ASSUME NEW k \in Keys, Arrive(r, "revoke_key", [Idle EXCEPT !.at = "revoke_key", !.key = k])
      PROVE  IInv'
  <2> DEFINE c == [[Idle EXCEPT !.at = "revoke_key", !.key = k] EXCEPT !.kind = "revoke_key"]
  <2>1. CallOK(c)
    <3>1. c \in Calls
      BY IdleOK, ZenonT(60) DEF CallOK, Calls, Kinds, Changes, Places
    <3>2. Sound(c)
      BY DEF Sound, Idle
    <3>3. QED
      BY <3>1, <3>2 DEF CallOK
  <2>2. QED
    BY <1>2, <2>1, ArriveOK
<1>3. ASSUME NEW k \in Keys, Arrive(r, "key", [Idle EXCEPT !.at = "key", !.key = k, !.user = keys[k].user])
      PROVE  IInv'
  <2>1. PICK u \in Users : u = keys[k].user
    BY <1>0
  <2> DEFINE c == [[Idle EXCEPT !.at = "key", !.key = k, !.user = u] EXCEPT !.kind = "key"]
  <2>2. CallOK(c)
    <3>1. c \in Calls
      BY IdleOK, ZenonT(60) DEF CallOK, Calls, Kinds, Changes, Places
    <3>2. Sound(c)
      BY DEF Sound, Idle
    <3>3. QED
      BY <3>1, <3>2 DEF CallOK
  <2>3. QED
    BY <1>3, <2>1, <2>2, ArriveOK
<1>4. QED
  BY <1>1, <1>2, <1>3 DEF ArriveForKey

LEMMA ArriveAnywayOK ==
    ASSUME IInv, NEW r \in Requests, ArriveAnyway(r)
    PROVE  IInv'
<1>1. ASSUME NEW u \in Users, Arrive(r, "use", [Idle EXCEPT !.at = "account", !.user = u])
      PROVE  IInv'
  <2> DEFINE c == [[Idle EXCEPT !.at = "account", !.user = u] EXCEPT !.kind = "use"]
  <2>1. CallOK(c)
    <3>1. c \in Calls
      BY IdleOK, ZenonT(60) DEF CallOK, Calls, Kinds, Changes, Places
    <3>2. Sound(c)
      BY DEF Sound, Idle
    <3>3. QED
      BY <3>1, <3>2 DEF CallOK
  <2>2. QED
    BY <1>1, <2>1, ArriveOK
<1>2. ASSUME Arrive(r, "boot", [Idle EXCEPT !.at = "sync"])
      PROVE  IInv'
  <2> DEFINE c == [[Idle EXCEPT !.at = "sync"] EXCEPT !.kind = "boot"]
  <2>1. CallOK(c)
    <3>1. c \in Calls
      BY IdleOK, ZenonT(60) DEF CallOK, Calls, Kinds, Changes, Places
    <3>2. Sound(c)
      BY DEF Sound, Idle
    <3>3. QED
      BY <3>1, <3>2 DEF CallOK
  <2>2. QED
    BY <1>2, <2>1, ArriveOK
<1>3. QED
  BY <1>1, <1>2 DEF ArriveAnyway

LEMMA AbortOK ==
    ASSUME IInv, NEW r \in Requests, Abort(r)
    PROVE  IInv'
<1>1. RequestsOK'
  BY MoveOK, IdleOK DEF Abort
<1>2. unrevoked' \subseteq Optional
  <2>1. calls[r].at \in {"revoke_users", "revoked"} => calls[r].app \in Optional
    BY CurrentOK DEF CallOK, Sound
  <2>2. QED
    BY <2>1 DEF Abort, IInv, RowsOK, RowsTyped
<1>3. RowsOK'
  <2>1. UNCHANGED <<enabled, roles, grants, people, keys>> /\ arrived' \in 0..MaxRequests
        /\ unsynced' = unsynced /\ unsynced \subseteq Apps
    BY DEF Abort, IInv, RowsOK, RowsTyped
  <2>2. QED
    BY <1>2, <2>1, RowsStay
<1>4. QED
  BY <1>1, <1>3 DEF IInv

-----------------------------------------------------------------------------
(* Apps                                                                    *)

LEMMA EnableOK ==
    ASSUME IInv, NEW r \in Requests, Enable(r)
    PROVE  IInv'
<1>1. CallOK(calls[r]) /\ calls[r].kind = "install" /\ calls[r].at = "enable"
  BY CurrentOK DEF Enable, At
<1>2. PICK app \in calls[r].todo :
         LET todo == calls[r].todo \ {app}
             switched == calls[r].switched \/ app \notin enabled
         IN  /\ enabled' = enabled \cup {app}
             /\ unsynced' = unsynced \cup ({app} \ enabled)
             /\ IF todo = {} /\ ~switched THEN End(r)
                ELSE Become(r, [calls[r] EXCEPT !.todo = todo, !.switched = switched,
                                   !.at = IF todo = {} THEN "sync" ELSE "enable"])
  BY DEF Enable
<1> DEFINE todo == calls[r].todo \ {app}
           switched == calls[r].switched \/ app \notin enabled
           place == IF todo = {} THEN "sync" ELSE "enable"
           c == [calls[r] EXCEPT !.todo = todo, !.switched = switched, !.at = place]
<1>3. app \in Apps
  BY <1>1 DEF CallOK, Calls
<1>4. CallOK(c)
  <2>1. switched \in BOOLEAN /\ todo \in SUBSET Apps /\ place \in {"sync", "enable"}
    BY <1>1 DEF CallOK, Calls
  <2> HIDE DEF todo, switched, place
  <2>2. c \in Calls
    BY <1>1, <2>1, ZenonT(60) DEF CallOK, Calls, Places
  <2>3. /\ c.kind = "install" /\ c.at \in {"sync", "enable"}
    BY <1>1, <2>1 DEF CallOK, Calls
  <2>4. Sound(c)
    <3> HIDE DEF c
    <3> QED BY <2>3 DEF Sound
  <2>5. QED
    BY <2>2, <2>4 DEF CallOK
<1>5. RequestsOK'
  BY <1>2, <1>4, BecomeOK, EndOK
<1>6. UNCHANGED <<roles, role_permissions, user_permissions, user_roles, active, keys, arrived, unrevoked>>
  BY DEF Enable, grants, people
<1>7. RowsTyped' /\ StaticLive' /\ OwnerKeeps'
  <2>1. Live' = Live
    BY <1>6 DEF Live
  <2>2. QED
    BY <1>2, <1>3, <1>6, <2>1 DEF IInv, RowsOK, RowsTyped, StaticLive, OwnerKeeps
<1>8. AdminHasOn'
  <2>1. enabled' \ unsynced' \subseteq enabled \ unsynced
    BY <1>2
  <2>2. QED
    BY <1>6, <2>1 DEF IInv, RowsOK, AdminHasOn
<1>9. QED
  BY <1>5, <1>7, <1>8 DEF IInv, RowsOK

LEMMA CheckDependantsOK ==
    ASSUME IInv, NEW r \in Requests, CheckDependants(r)
    PROVE  IInv'
<1>1. CallOK(calls[r]) /\ calls[r].kind = "uninstall"
  BY CurrentOK DEF CheckDependants, At
<1> DEFINE c == [calls[r] EXCEPT !.at = "disable"]
<1>2. ASSUME calls[r].app \notin AlwaysOn PROVE CallOK(c)
  <2>1. c \in Calls
    BY <1>1 DEF CallOK, Calls, Places
  <2>2. calls[r].app \in Optional
    BY <1>1, <1>2 DEF CallOK, Sound, Optional
  <2>3. c.kind = "uninstall" /\ c.at = "disable" /\ c.app = calls[r].app
    BY <1>1 DEF CallOK, Calls
  <2>4. Sound(c)
    <3> HIDE DEF c
    <3> QED BY <2>2, <2>3 DEF Sound, Optional
  <2>5. QED
    BY <2>1, <2>4 DEF CallOK
<1>3. CASE End(r)
  BY <1>3, QuietEndOK DEF CheckDependants
<1>4. CASE calls[r].app \notin AlwaysOn /\ Goto(r, "disable")
  BY <1>2, <1>4, QuietOK DEF CheckDependants, Goto
<1>5. QED
  BY <1>3, <1>4 DEF CheckDependants

LEMMA DisableOK ==
    ASSUME IInv, NEW r \in Requests, Disable(r)
    PROVE  IInv'
<1>1. CallOK(calls[r]) /\ calls[r].kind = "uninstall" /\ calls[r].at = "disable" /\ calls[r].app \in Optional
  BY CurrentOK DEF Disable, At, CallOK, Sound
<1> DEFINE c == [calls[r] EXCEPT !.at = "sync"]
<1>2. CallOK(c)
  <2>1. c \in Calls
    BY <1>1 DEF CallOK, Calls, Places
  <2>2. c.kind = "uninstall" /\ c.at = "sync" /\ c.app = calls[r].app
    BY <1>1 DEF CallOK, Calls
  <2>3. Sound(c)
    <3> HIDE DEF c
    <3> QED BY <1>1, <2>2 DEF Sound, Optional
  <2>4. QED
    BY <2>1, <2>3 DEF CallOK
<1>3. RequestsOK'
  BY <1>2, BecomeOK, EndOK DEF Disable, Goto
<1>4. /\ UNCHANGED <<roles, role_permissions, user_permissions, user_roles, active, keys, arrived, unsynced>>
      /\ enabled' \subseteq enabled /\ unrevoked' \subseteq unrevoked \cup {calls[r].app}
  BY DEF Disable, grants, people
<1>5. RowsTyped' /\ StaticLive' /\ OwnerKeeps'
  <2>1. Live' = Live
    BY <1>4 DEF Live
  <2>2. QED
    BY <1>1, <1>4, <2>1 DEF IInv, RowsOK, RowsTyped, StaticLive, OwnerKeeps
<1>6. AdminHasOn'
  BY <1>4 DEF IInv, RowsOK, AdminHasOn
<1>7. QED
  BY <1>3, <1>5, <1>6 DEF IInv, RowsOK

LEMMA ReadEnabledForSyncOK ==
    ASSUME IInv, NEW r \in Requests, ReadEnabledForSync(r)
    PROVE  IInv'
<1>1. CallOK(calls[r]) /\ calls[r].kind \in {"install", "uninstall", "boot"} /\ calls[r].at = "sync"
  BY CurrentOK DEF ReadEnabledForSync, At
<1>2. enabled \subseteq Apps
  BY DEF IInv, RowsOK, RowsTyped
<1> DEFINE c == [calls[r] EXCEPT !.at = "clear_admin", !.E = enabled]
<1>3. CallOK(c)
  <2>1. c \in Calls
    BY <1>1, <1>2, ZenonT(60) DEF CallOK, Calls, Places
  <2>2. c.kind = calls[r].kind /\ c.at = "clear_admin" /\ c.app = calls[r].app
    BY <1>1 DEF CallOK, Calls
  <2>3. Sound(c)
    <3> HIDE DEF c
    <3> QED BY <1>1, <2>2 DEF CallOK, Sound
  <2>4. QED
    BY <2>1, <2>3 DEF CallOK
<1>4. QED
  BY <1>3, QuietOK DEF ReadEnabledForSync

LEMMA ClearAdminOK ==
    ASSUME IInv, NEW r \in Requests, ClearAdmin(r)
    PROVE  IInv'
<1>1. CallOK(calls[r]) /\ calls[r].kind \in {"install", "uninstall", "boot"} /\ calls[r].at = "clear_admin"
  BY CurrentOK DEF ClearAdmin, At
<1> DEFINE rows == {"Admin"} \X permissions_of("Admin")
           c == [calls[r] EXCEPT !.at = "grant_static", !.doomed = rows]
<1>2. rows \in SUBSET ((Roles \cup Users) \X (Names \cup Roles))
  BY DEF permissions_of, Roles, Static
<1> HIDE DEF rows
<1>3. CallOK(c)
  <2>1. c \in Calls
    BY <1>1, <1>2, ZenonT(60) DEF CallOK, Calls, Places
  <2>2. c.kind = calls[r].kind /\ c.at = "grant_static" /\ c.app = calls[r].app
    BY <1>1 DEF CallOK, Calls
  <2>3. Sound(c)
    <3> HIDE DEF c
    <3> QED BY <1>1, <2>2 DEF CallOK, Sound
  <2>4. QED
    BY <2>1, <2>3 DEF CallOK
<1>4. QED
  BY <1>3, QuietOK DEF ClearAdmin, rows

LEMMA StaleIsOptional == ASSUME NEW r PROVE Stale(r) \subseteq Optional
BY DEF Stale

LEMMA StaticRowsTyped == ASSUME StaticLive, NEW E PROVE static_rows(E) \subseteq Live \X Names
<1>1. all_of(E) \subseteq Names /\ defaults_of(E) \subseteq Names
  BY PermissionsAssumption DEF all_of, defaults_of, for_enabled_apps
<1>2. QED
  BY <1>1 DEF static_rows, StaticLive, Static

\* Where a sync has given Admin what it read as on, only an app that was
\* switched on after the read is not Admin's, and `unsynced` has it.
LEMMA GrantStaticOK ==
    ASSUME IInv, NEW r \in Requests, GrantStatic(r)
    PROVE  IInv'
<1>1. CallOK(calls[r]) /\ calls[r].kind \in {"install", "uninstall", "boot"} /\ calls[r].at = "grant_static"
  BY CurrentOK DEF GrantStatic, At
<1> DEFINE E == calls[r].E
           c == [calls[r] EXCEPT !.at = "revoke_roles", !.doomed = {}, !.E = {}]
<1>2. ASSUME calls[r].kind = "uninstall" PROVE CallOK(c)
  <2>1. c \in Calls
    BY <1>1, ZenonT(60) DEF CallOK, Calls, Places
  <2>2. c.kind = "uninstall" /\ c.at = "revoke_roles" /\ c.app = calls[r].app
    BY <1>1, <1>2 DEF CallOK, Calls
  <2>3. calls[r].app \in Optional
    BY <1>1, <1>2 DEF CallOK, Sound
  <2>4. Sound(c)
    <3> HIDE DEF c
    <3> QED BY <2>2, <2>3 DEF Sound, Optional
  <2>5. QED
    BY <2>1, <2>4 DEF CallOK
<1>3. RequestsOK'
  BY <1>2, IdleOK, CommittedOK DEF GrantStatic
<1>4. /\ UNCHANGED <<enabled, roles, user_permissions, user_roles, active, keys, arrived>>
      /\ role_permissions' = (role_permissions \ calls[r].doomed) \cup static_rows(E)
      /\ unrevoked' = unrevoked \cup Stale(r)
      /\ unsynced' = (unsynced \cup enabled) \ E
  BY DEF GrantStatic, people
<1>5. RowsTyped' /\ StaticLive' /\ OwnerKeeps'
  <2>1. Live' = Live
    BY <1>4 DEF Live
  <2>2. static_rows(E) \subseteq Live \X Names
    BY StaticRowsTyped DEF IInv, RowsOK
  <2>3. role_permissions' \subseteq Live \X Names
    BY <1>4, <2>2 DEF IInv, RowsOK, RowsTyped
  <2>4. QED
    BY <1>4, <2>1, <2>3, StaleIsOptional DEF IInv, RowsOK, RowsTyped, StaticLive, OwnerKeeps
<1>6. AdminHasOn'
  <2>1. SUFFICES ASSUME NEW app \in Apps, app \in AlwaysOn \/ app \in (enabled \ unsynced)',
                        NEW n \in Names, owner_of(app, n)
                 PROVE  <<"Admin", n>> \in role_permissions'
    BY DEF AdminHasOn
  <2>2. app \in AlwaysOn \/ app \in E
    BY <1>4, <2>1
  <2>3. n \in all_of(E)
    BY <2>1, <2>2, AlwaysOnPasses, EnabledPasses DEF all_of
  <2>4. QED
    BY <1>4, <2>3 DEF static_rows
<1>7. QED
  BY <1>3, <1>5, <1>6 DEF IInv, RowsOK

LEMMA RevokeRolesOK ==
    ASSUME IInv, NEW r \in Requests, RevokeRoles(r)
    PROVE  IInv'
<1>1. CallOK(calls[r]) /\ calls[r].kind = "uninstall" /\ calls[r].at = "revoke_roles"
  BY CurrentOK DEF RevokeRoles, At
<1>2. calls[r].app \in Optional
  BY <1>1 DEF CallOK, Sound
<1> DEFINE rows == {row \in role_permissions : owns(calls[r].app, row[2])}
           c == [calls[r] EXCEPT !.at = "revoke_users", !.doomed = rows]
<1>3. rows \in SUBSET ((Roles \cup Users) \X (Names \cup Roles)) /\ \A row \in rows : owns(calls[r].app, row[2])
  BY DEF IInv, RowsOK, RowsTyped, Live
<1> HIDE DEF rows
<1>4. CallOK(c)
  <2>1. c \in Calls
    BY <1>1, <1>3, ZenonT(60) DEF CallOK, Calls, Places
  <2>2. c.kind = "uninstall" /\ c.at = "revoke_users" /\ c.app = calls[r].app /\ c.doomed = rows
    BY <1>1 DEF CallOK, Calls
  <2>3. Sound(c)
    <3> HIDE DEF c
    <3> QED BY <1>2, <1>3, <2>2 DEF Sound, Optional
  <2>4. QED
    BY <2>1, <2>3 DEF CallOK
<1>5. RequestsOK'
  BY <1>4, BecomeOK DEF RevokeRoles, rows
<1>6. RowsOK'
  <2>1. /\ UNCHANGED <<enabled, roles, grants, people, keys>> /\ arrived' \in 0..MaxRequests
        /\ unrevoked' \subseteq Optional /\ unsynced' = unsynced /\ unsynced \subseteq Apps
    BY DEF RevokeRoles, IInv, RowsOK, RowsTyped
  <2>2. QED
    BY <2>1, RowsStay
<1>7. QED
  BY <1>5, <1>6 DEF IInv

LEMMA RevokeUsersOK ==
    ASSUME IInv, NEW r \in Requests, RevokeUsers(r)
    PROVE  IInv'
<1>1. CallOK(calls[r]) /\ calls[r].kind = "uninstall" /\ calls[r].at = "revoke_users"
  BY CurrentOK DEF RevokeUsers, At
<1>2. calls[r].app \in Optional /\ \A row \in calls[r].doomed : owns(calls[r].app, row[2])
  BY <1>1 DEF CallOK, Sound
<1> DEFINE found == {row \in Users \X Names : row[2] \in overridden(row[1]) /\ owns(calls[r].app, row[2])}
           rows == calls[r].doomed \cup found
           c == [calls[r] EXCEPT !.at = "revoked", !.doomed = rows]
<1>3. rows \in SUBSET ((Roles \cup Users) \X (Names \cup Roles)) /\ \A row \in rows : owns(calls[r].app, row[2])
  <2>1. calls[r].doomed \subseteq (Roles \cup Users) \X (Names \cup Roles)
    BY <1>1 DEF CallOK, Calls
  <2>2. found \subseteq (Roles \cup Users) \X (Names \cup Roles) /\ \A row \in found : owns(calls[r].app, row[2])
    OBVIOUS
  <2>3. QED
    BY <1>2, <2>1, <2>2
<1>4. CallOK(c)
  <2> HIDE DEF rows
  <2>1. c \in Calls
    BY <1>1, <1>3, ZenonT(60) DEF CallOK, Calls, Places
  <2>2. c.kind = "uninstall" /\ c.at = "revoked" /\ c.app = calls[r].app /\ c.doomed = rows
    BY <1>1 DEF CallOK, Calls
  <2>3. Sound(c)
    <3> HIDE DEF c
    <3> QED BY <1>2, <1>3, <2>2 DEF Sound, Optional
  <2>4. QED
    BY <2>1, <2>3 DEF CallOK
<1>5. Become(r, c)
  BY DEF RevokeUsers
<1>6. QED
  BY <1>4, <1>5, QuietOK DEF RevokeUsers

\* Rows that are gone from every account: what is left is still one override
\* for a name, and no denial is new.
LEMMA WithoutOK ==
    ASSUME user_permissions \in [Users -> Overrides], NEW doomed
    PROVE  /\ without(doomed) \in [Users -> Overrides]
           /\ \A u \in Users : without(doomed)[u].denied \subseteq user_permissions[u].denied
<1> DEFINE left(u) == [granted |-> {n \in user_permissions[u].granted : <<u, n>> \notin doomed},
                       denied |-> {n \in user_permissions[u].denied : <<u, n>> \notin doomed}]
<1>1. ASSUME NEW u \in Users PROVE left(u) \in Overrides /\ left(u).denied \subseteq user_permissions[u].denied
  BY DEF Overrides
<1>2. QED
  BY <1>1 DEF without

\* The rows an uninstall deletes are no other app's, and if its own app has been
\* switched on again by now, `unsynced` has it.
LEMMA CommitRevocationOK ==
    ASSUME IInv, NEW r \in Requests, CommitRevocation(r)
    PROVE  IInv'
<1>1. /\ CallOK(calls[r]) /\ calls[r].kind = "uninstall" /\ calls[r].at = "revoked"
      /\ calls[r].app \in Optional /\ \A row \in calls[r].doomed : owns(calls[r].app, row[2])
  BY CurrentOK DEF CommitRevocation, At, CallOK, Sound
<1>2. RequestsOK'
  BY IdleOK, CommittedOK DEF CommitRevocation
<1>3. /\ UNCHANGED <<enabled, roles, user_roles, active, keys, arrived, unrevoked>>
      /\ role_permissions' = role_permissions \ calls[r].doomed
      /\ user_permissions' = without(calls[r].doomed)
      /\ unsynced' = unsynced \cup ({calls[r].app} \cap enabled)
  BY DEF CommitRevocation, people
<1>4. RowsTyped' /\ StaticLive' /\ OwnerKeeps'
  <2>1. Live' = Live
    BY <1>3 DEF Live
  <2>2. /\ user_permissions' \in [Users -> Overrides]
        /\ user_permissions'[Owner].denied \subseteq user_permissions[Owner].denied
    BY <1>3, WithoutOK, AccessAssumption DEF IInv, RowsOK, RowsTyped
  <2>3. unsynced' \subseteq Apps
    BY <1>1, <1>3 DEF IInv, RowsOK, RowsTyped, Optional
  <2>4. QED
    BY <1>3, <2>1, <2>2, <2>3 DEF IInv, RowsOK, RowsTyped, StaticLive, OwnerKeeps
<1>5. AdminHasOn'
  <2>1. SUFFICES ASSUME NEW app \in Apps, app \in AlwaysOn \/ app \in (enabled \ unsynced)',
                        NEW n \in Names, owner_of(app, n)
                 PROVE  <<"Admin", n>> \in role_permissions'
    BY DEF AdminHasOn
  <2>2. app # calls[r].app
    BY <1>1, <1>3, <2>1 DEF Optional
  <2>3. ~owns(calls[r].app, n)
    BY <1>1, <2>1, <2>2, RevocationIsItsOwn
  <2>4. <<"Admin", n>> \notin calls[r].doomed
    BY <1>1, <2>3
  <2>5. <<"Admin", n>> \in role_permissions
    BY <1>3, <2>1 DEF IInv, RowsOK, AdminHasOn
  <2>6. QED
    BY <1>3, <2>4, <2>5
<1>6. QED
  BY <1>2, <1>4, <1>5 DEF IInv, RowsOK

LEMMA AppStepOK ==
    ASSUME IInv, NEW r \in Requests, AppStep(r)
    PROVE  IInv'
BY EnableOK, CheckDependantsOK, DisableOK, ReadEnabledForSyncOK, ClearAdminOK, GrantStaticOK,
   RevokeRolesOK, RevokeUsersOK, CommitRevocationOK DEF AppStep

-----------------------------------------------------------------------------
(* Roles                                                                   *)

LEMMA ReadRoleOK ==
    ASSUME IInv, NEW r \in Requests, ReadRole(r)
    PROVE  IInv'
<1>1. CallOK(calls[r]) /\ calls[r].kind = "set_role" /\ calls[r].at = "find"
  BY CurrentOK DEF ReadRole, At
<1> DEFINE held == permissions_of(calls[r].role)
           c == [calls[r] EXCEPT !.at = "enabled", !.held = held]
<1>2. held \in SUBSET Names
  BY DEF permissions_of
<1> HIDE DEF held
<1>3. ASSUME calls[r].role # "Admin" PROVE CallOK(c)
  <2>1. c \in Calls
    BY <1>1, <1>2, ZenonT(60) DEF CallOK, Calls, Places
  <2>2. c.kind = "set_role" /\ c.at = "enabled" /\ c.role = calls[r].role /\ c.doomed = calls[r].doomed
    BY <1>1 DEF CallOK, Calls
  <2>3. Sound(c)
    <3> HIDE DEF c
    <3> QED BY <1>1, <1>3, <2>2 DEF CallOK, Sound
  <2>4. QED
    BY <2>1, <2>3 DEF CallOK
<1>4. CASE End(r)
  BY <1>4, QuietEndOK DEF ReadRole
<1>5. CASE calls[r].role # "Admin" /\ Become(r, c)
  BY <1>3, <1>5, QuietOK DEF ReadRole
<1>6. QED
  BY <1>4, <1>5 DEF ReadRole, held

LEMMA DesiredAreNames ==
    ASSUME NEW desired, NEW E
    PROVE  /\ desired_for_role(desired, E) \subseteq Names
           /\ desired \subseteq Names => desired_for_user(desired, E) \subseteq Names
BY NormalisedAreNames DEF desired_for_role, desired_for_user, for_enabled_apps

LEMMA FilterForRoleOK ==
    ASSUME IInv, NEW r \in Requests, FilterForRole(r)
    PROVE  IInv'
<1>1. CallOK(calls[r]) /\ calls[r].kind = "set_role" /\ calls[r].at = "enabled"
  BY CurrentOK DEF FilterForRole, At
<1> DEFINE desired == desired_for_role(calls[r].desired, enabled)
           c == [calls[r] EXCEPT !.at = "clear", !.desired = desired, !.E = enabled]
<1>2. desired \in SUBSET Names /\ enabled \in SUBSET Apps
  BY DesiredAreNames DEF IInv, RowsOK, RowsTyped
<1> HIDE DEF desired
<1>3. CallOK(c)
  <2>1. c \in Calls
    BY <1>1, <1>2, ZenonT(60) DEF CallOK, Calls, Places
  <2>2. c.kind = "set_role" /\ c.at = "clear" /\ c.role = calls[r].role /\ c.doomed = calls[r].doomed
    BY <1>1 DEF CallOK, Calls
  <2>3. Sound(c)
    <3> HIDE DEF c
    <3> QED BY <1>1, <2>2 DEF CallOK, Sound
  <2>4. QED
    BY <2>1, <2>3 DEF CallOK
<1>4. End(r) \/ Become(r, c)
  BY DEF FilterForRole, desired
<1>5. QED
  BY <1>3, <1>4, QuietOK, QuietEndOK DEF FilterForRole

LEMMA ClearRoleOK ==
    ASSUME IInv, NEW r \in Requests, ClearRole(r)
    PROVE  IInv'
<1>1. CallOK(calls[r]) /\ calls[r].kind = "set_role" /\ calls[r].at = "clear" /\ calls[r].role \in Roles
  BY CurrentOK DEF ClearRole, At, CallOK, Sound
<1> DEFINE rows == {calls[r].role} \X permissions_of(calls[r].role)
           c == [calls[r] EXCEPT !.at = "save", !.doomed = rows]
<1>2. rows \in SUBSET ((Roles \cup Users) \X (Names \cup Roles)) /\ \A row \in rows : row[1] = calls[r].role
  BY <1>1 DEF permissions_of
<1>3. CallOK(c)
  <2> HIDE DEF rows
  <2>1. c \in Calls
    BY <1>1, <1>2 DEF CallOK, Calls, Places
  <2>2. c.kind = "set_role" /\ c.at = "save" /\ c.role = calls[r].role /\ c.doomed = rows
    BY <1>1 DEF CallOK, Calls
  <2>3. Sound(c)
    <3> HIDE DEF c
    <3> QED BY <1>1, <1>2, <2>2 DEF CallOK, Sound
  <2>4. QED
    BY <2>1, <2>3 DEF CallOK
<1>4. Become(r, c)
  BY DEF ClearRole
<1>5. QED
  BY <1>3, <1>4, QuietOK DEF ClearRole

\* The rows an edit of a role deletes are of that role, which is not Admin.
LEMMA SaveRoleOK ==
    ASSUME IInv, NEW r \in Requests, SaveRole(r)
    PROVE  IInv'
<1>1. /\ CallOK(calls[r]) /\ calls[r].kind = "set_role" /\ calls[r].at = "save" /\ calls[r].role \in Roles
      /\ calls[r].role # "Admin" /\ \A row \in calls[r].doomed : row[1] = calls[r].role
  BY CurrentOK DEF SaveRole, At, CallOK, Sound
<1> DEFINE rows == {calls[r].role} \X calls[r].desired
<1>2. UNCHANGED <<enabled, roles, user_permissions, user_roles, active, keys, arrived, unsynced>>
  BY DEF SaveRole, people
<1>3. CASE /\ calls[r].role \in Live
           /\ role_permissions' = (role_permissions \ calls[r].doomed) \cup rows
           /\ unrevoked' = unrevoked \cup Stale(r)
           /\ Committed(r, Idle)
  <2>1. RequestsOK'
    BY <1>3, IdleOK, CommittedOK
  <2>2. rows \subseteq Live \X Names
    BY <1>1, <1>3 DEF CallOK, Calls
  <2>3. Live' = Live
    BY <1>2 DEF Live
  <2>4. RowsTyped' /\ StaticLive' /\ OwnerKeeps'
    <3>1. role_permissions' \subseteq Live \X Names
      BY <1>3, <2>2 DEF IInv, RowsOK, RowsTyped
    <3>2. QED
      BY <1>2, <1>3, <2>3, <3>1, StaleIsOptional DEF IInv, RowsOK, RowsTyped, StaticLive, OwnerKeeps
  <2>5. \A n \in Names : <<"Admin", n>> \in role_permissions => <<"Admin", n>> \in role_permissions'
    BY <1>1, <1>3
  <2>6. AdminHasOn'
    BY <1>2, <2>5 DEF IInv, RowsOK, AdminHasOn
  <2>7. QED
    BY <2>1, <2>4, <2>6 DEF IInv, RowsOK
<1>4. CASE End(r) /\ UNCHANGED <<role_permissions, unrevoked>>
  BY <1>2, <1>4, QuietEndOK DEF grants, people, causes
<1>5. QED
  BY <1>3, <1>4 DEF SaveRole

LEMMA CreateRoleOK ==
    ASSUME IInv, NEW r \in Requests, CreateRole(r)
    PROVE  IInv'
<1>1. CallOK(calls[r]) /\ calls[r].kind = "create" /\ calls[r].role \in Roles
  BY CurrentOK DEF CreateRole, At, CallOK, Sound
<1>2. RequestsOK'
  BY EndOK DEF CreateRole
<1>3. /\ UNCHANGED <<enabled, role_permissions, user_permissions, user_roles, active, keys, arrived, unrevoked, unsynced>>
      /\ roles' = [roles EXCEPT ![calls[r].role] = IF @ = "free" THEN "live" ELSE @]
  BY DEF CreateRole, grants, people, causes
<1>4. Live \subseteq Live' /\ roles' \in [Roles -> {"free", "live", "gone"}]
  BY <1>1, <1>3 DEF Live, IInv, RowsOK, RowsTyped
<1>5. RowsTyped' /\ StaticLive' /\ OwnerKeeps'
  <2>1. role_permissions \subseteq Live' \X Names /\ user_roles \subseteq Users \X Live'
    BY <1>4 DEF IInv, RowsOK, RowsTyped
  <2>2. QED
    BY <1>3, <1>4, <2>1 DEF IInv, RowsOK, RowsTyped, StaticLive, OwnerKeeps
<1>6. AdminHasOn'
  BY <1>3 DEF IInv, RowsOK, AdminHasOn
<1>7. QED
  BY <1>2, <1>5, <1>6 DEF IInv, RowsOK

LEMMA FindRoleOK ==
    ASSUME IInv, NEW r \in Requests, FindRole(r)
    PROVE  IInv'
<1>1. CallOK(calls[r]) /\ calls[r].kind = "delete" /\ calls[r].at = "find"
  BY CurrentOK DEF FindRole, At
<1> DEFINE c == [calls[r] EXCEPT !.at = "delete"]
<1>2. ASSUME calls[r].role \notin Static PROVE CallOK(c)
  <2>1. c \in Calls
    BY <1>1 DEF CallOK, Calls, Places
  <2>2. c.kind = "delete" /\ c.at = "delete" /\ c.role = calls[r].role
    BY <1>1 DEF CallOK, Calls
  <2>3. Sound(c)
    <3> HIDE DEF c
    <3> QED BY <1>1, <1>2, <2>2 DEF CallOK, Sound
  <2>4. QED
    BY <2>1, <2>3 DEF CallOK
<1>3. CASE End(r)
  BY <1>3, QuietEndOK DEF FindRole
<1>4. CASE calls[r].role \notin Static /\ Become(r, c)
  BY <1>2, <1>4, QuietOK DEF FindRole
<1>5. QED
  BY <1>3, <1>4 DEF FindRole, Goto

LEMMA DeleteRoleOK ==
    ASSUME IInv, NEW r \in Requests, DeleteRole(r)
    PROVE  IInv'
<1>1. CallOK(calls[r]) /\ calls[r].role \in Roles \ Static
  BY CurrentOK DEF DeleteRole, At, CallOK, Sound
<1>2. RequestsOK'
  BY EndOK DEF DeleteRole
<1>3. /\ UNCHANGED <<enabled, user_permissions, active, keys, arrived, unrevoked, unsynced>>
      /\ roles' = [roles EXCEPT ![calls[r].role] = "gone"]
      /\ role_permissions' = {row \in role_permissions : row[1] # calls[r].role}
      /\ user_roles' = {row \in user_roles : row[2] # calls[r].role}
  BY DEF DeleteRole, causes
<1>4. Live' = Live \ {calls[r].role} /\ roles' \in [Roles -> {"free", "live", "gone"}]
  BY <1>1, <1>3 DEF Live, IInv, RowsOK, RowsTyped
<1>5. RowsTyped' /\ StaticLive'
  <2>1. role_permissions' \subseteq Live' \X Names /\ user_roles' \subseteq Users \X Live'
    BY <1>3, <1>4 DEF IInv, RowsOK, RowsTyped
  <2>2. QED
    BY <1>1, <1>3, <1>4, <2>1 DEF IInv, RowsOK, RowsTyped, StaticLive
<1>6. OwnerKeeps'
  BY <1>1, <1>3 DEF IInv, RowsOK, OwnerKeeps, Static
<1>7. AdminHasOn'
  <2>1. \A n \in Names : <<"Admin", n>> \in role_permissions => <<"Admin", n>> \in role_permissions'
    BY <1>1, <1>3 DEF Static
  <2>2. QED
    BY <1>3, <2>1 DEF IInv, RowsOK, AdminHasOn
<1>8. QED
  BY <1>2, <1>5, <1>6, <1>7 DEF IInv, RowsOK

LEMMA RoleStepOK ==
    ASSUME IInv, NEW r \in Requests, RoleStep(r)
    PROVE  IInv'
BY ReadRoleOK, FilterForRoleOK, ClearRoleOK, SaveRoleOK, CreateRoleOK, FindRoleOK, DeleteRoleOK DEF RoleStep

-----------------------------------------------------------------------------
(* The grants and the roles of one account                                 *)

LEMMA ReadUserOK ==
    ASSUME IInv, NEW r \in Requests, ReadUser(r)
    PROVE  IInv'
<1>1. CallOK(calls[r]) /\ calls[r].kind = "set_user" /\ calls[r].at = "find" /\ calls[r].user \in Users
  BY CurrentOK DEF ReadUser, At, CallOK, Sound
<1> DEFINE held == names_for_user(calls[r].user)
           before == overrides_for_user(calls[r].user)
           c == [calls[r] EXCEPT !.at = "from_roles", !.roles = held, !.before = before]
<1>2. held \in SUBSET Roles /\ before \in [granted : SUBSET Names, denied : SUBSET Names]
  BY NormalisedAreNames DEF names_for_user, overrides_for_user
<1> HIDE DEF held, before
<1>3. ASSUME calls[r].user # Owner PROVE CallOK(c)
  <2>1. c \in Calls
    BY <1>1, <1>2, ZenonT(60) DEF CallOK, Calls, Places
  <2>2. c.kind = "set_user" /\ c.at = "from_roles" /\ c.user = calls[r].user
    BY <1>1 DEF CallOK, Calls
  <2>3. Sound(c)
    <3> HIDE DEF c
    <3> QED BY <1>1, <1>3, <2>2 DEF Sound
  <2>4. QED
    BY <2>1, <2>3 DEF CallOK
<1>4. CASE End(r)
  BY <1>4, QuietEndOK DEF ReadUser
<1>5. CASE calls[r].user # Owner /\ Become(r, c)
  BY <1>3, <1>5, QuietOK DEF ReadUser
<1>6. QED
  BY <1>4, <1>5 DEF ReadUser, held, before

LEMMA ReadFromRolesOK ==
    ASSUME IInv, NEW r \in Requests, ReadFromRoles(r)
    PROVE  IInv'
<1>1. CallOK(calls[r]) /\ calls[r].kind = "set_user" /\ calls[r].at = "from_roles"
  BY CurrentOK DEF ReadFromRoles, At
<1> DEFINE held == from_roles(calls[r].roles)
           c == [calls[r] EXCEPT !.at = "enabled", !.roles = {}, !.held = held]
<1>2. held \in SUBSET Names
  BY DEF from_roles, permissions_of
<1> HIDE DEF held
<1>3. CallOK(c)
  <2>1. c \in Calls
    BY <1>1, <1>2, ZenonT(60) DEF CallOK, Calls, Places
  <2>2. c.kind = "set_user" /\ c.at = "enabled" /\ c.user = calls[r].user
    BY <1>1 DEF CallOK, Calls
  <2>3. Sound(c)
    <3> HIDE DEF c
    <3> QED BY <1>1, <2>2 DEF CallOK, Sound
  <2>4. QED
    BY <2>1, <2>3 DEF CallOK
<1>4. QED
  BY <1>3, QuietOK DEF ReadFromRoles, held

LEMMA FilterForUserOK ==
    ASSUME IInv, NEW r \in Requests, FilterForUser(r)
    PROVE  IInv'
<1>1. CallOK(calls[r]) /\ calls[r].kind = "set_user" /\ calls[r].at = "enabled"
  BY CurrentOK DEF FilterForUser, At
<1> DEFINE desired == desired_for_user(calls[r].desired, enabled)
           c == [calls[r] EXCEPT !.at = "clear", !.desired = desired, !.E = enabled]
<1>2. desired \in SUBSET Names /\ enabled \in SUBSET Apps
  BY <1>1, DesiredAreNames DEF CallOK, Calls, IInv, RowsOK, RowsTyped
<1> HIDE DEF desired
<1>3. CallOK(c)
  <2>1. c \in Calls
    BY <1>1, <1>2, ZenonT(60) DEF CallOK, Calls, Places
  <2>2. c.kind = "set_user" /\ c.at = "clear" /\ c.user = calls[r].user
    BY <1>1 DEF CallOK, Calls
  <2>3. Sound(c)
    <3> HIDE DEF c
    <3> QED BY <1>1, <2>2 DEF CallOK, Sound
  <2>4. QED
    BY <2>1, <2>3 DEF CallOK
<1>4. End(r) \/ Become(r, c)
  BY DEF FilterForUser, desired
<1>5. QED
  BY <1>3, <1>4, QuietOK, QuietEndOK DEF FilterForUser

LEMMA ClearOverridesOK ==
    ASSUME IInv, NEW r \in Requests, ClearOverrides(r)
    PROVE  IInv'
<1>1. CallOK(calls[r]) /\ calls[r].kind = "set_user" /\ calls[r].at = "clear" /\ calls[r].user \in Users
  BY CurrentOK DEF ClearOverrides, At, CallOK, Sound
<1> DEFINE rows == {calls[r].user} \X overridden(calls[r].user)
           c == [calls[r] EXCEPT !.at = "save", !.doomed = rows]
<1>2. rows \in SUBSET ((Roles \cup Users) \X (Names \cup Roles))
  <2>1. overridden(calls[r].user) \subseteq Names
    BY <1>1 DEF overridden, IInv, RowsOK, RowsTyped, Overrides
  <2>2. QED
    BY <1>1, <2>1
<1> HIDE DEF rows
<1>3. CallOK(c)
  <2>1. c \in Calls
    BY <1>1, <1>2 DEF CallOK, Calls, Places
  <2>2. c.kind = "set_user" /\ c.at = "save" /\ c.user = calls[r].user
    BY <1>1 DEF CallOK, Calls
  <2>3. Sound(c)
    <3> HIDE DEF c
    <3> QED BY <1>1, <2>2 DEF CallOK, Sound
  <2>4. QED
    BY <2>1, <2>3 DEF CallOK
<1>4. QED
  BY <1>3, QuietOK DEF ClearOverrides, rows

\* A name is granted or denied, not both, whatever two saves leave together.
LEMMA SetOverridesOK ==
    ASSUME NEW left \in Overrides, NEW held \in SUBSET Names, NEW desired
    PROVE  set_overrides(left, overrides_for(held, desired)) \in Overrides
<1>1. overrides_for(held, desired) \in Overrides
  BY NormalisedAreNames DEF overrides_for, Overrides
<1>2. QED
  BY <1>1 DEF set_overrides, Overrides

LEMMA SaveOverridesOK ==
    ASSUME IInv, NEW r \in Requests, SaveOverrides(r)
    PROVE  IInv'
<1> DEFINE u == calls[r].user
           overrides == overrides_for(calls[r].held, calls[r].desired)
           left == without(calls[r].doomed)
<1>1. CallOK(calls[r]) /\ u \in Users /\ u # Owner
  BY CurrentOK DEF SaveOverrides, At, CallOK, Sound
<1>2. RequestsOK'
  BY IdleOK, CommittedOK DEF SaveOverrides
<1>3. /\ UNCHANGED <<enabled, roles, role_permissions, user_roles, active, keys, arrived, unsynced>>
      /\ user_permissions' = [left EXCEPT ![u] = set_overrides(@, overrides)]
      /\ unrevoked' = unrevoked \cup Stale(r)
  BY DEF SaveOverrides, people
<1>4. left \in [Users -> Overrides] /\ left[Owner].denied \subseteq user_permissions[Owner].denied
  BY WithoutOK, AccessAssumption DEF IInv, RowsOK, RowsTyped
<1>5. user_permissions' \in [Users -> Overrides] /\ user_permissions'[Owner] = left[Owner]
  <2>1. set_overrides(left[u], overrides) \in Overrides
    BY <1>1, <1>4, SetOverridesOK DEF CallOK, Calls
  <2> HIDE DEF left, overrides
  <2>2. QED
    BY <1>1, <1>3, <1>4, <2>1, AccessAssumption
<1>6. RowsTyped' /\ StaticLive' /\ OwnerKeeps'
  <2>1. Live' = Live
    BY <1>3 DEF Live
  <2> HIDE DEF left
  <2>2. QED
    BY <1>3, <1>4, <1>5, <2>1, StaleIsOptional DEF IInv, RowsOK, RowsTyped, StaticLive, OwnerKeeps
<1>7. AdminHasOn'
  BY <1>3 DEF IInv, RowsOK, AdminHasOn
<1>8. QED
  BY <1>2, <1>6, <1>7 DEF IInv, RowsOK

LEMMA LoadRolesOK ==
    ASSUME IInv, NEW r \in Requests, LoadRoles(r)
    PROVE  IInv'
<1>1. CallOK(calls[r]) /\ calls[r].kind = "set_members" /\ calls[r].at = "find"
  BY CurrentOK DEF LoadRoles, At
<1> DEFINE c == [calls[r] EXCEPT !.at = "clear"]
<1>2. CallOK(c)
  <2>1. c \in Calls
    BY <1>1 DEF CallOK, Calls, Places
  <2>2. c.kind = "set_members" /\ c.at = "clear" /\ c.user = calls[r].user /\ c.doomed = calls[r].doomed
    BY <1>1 DEF CallOK, Calls
  <2>3. Sound(c)
    <3> HIDE DEF c
    <3> QED BY <1>1, <2>2 DEF CallOK, Sound
  <2>4. QED
    BY <2>1, <2>3 DEF CallOK
<1>3. End(r) \/ Become(r, c)
  BY DEF LoadRoles, Goto
<1>4. QED
  BY <1>2, <1>3, QuietOK, QuietEndOK DEF LoadRoles

\* Of the owner's roles, Admin is never among those an edit deletes.
LEMMA ClearRolesOK ==
    ASSUME IInv, NEW r \in Requests, ClearRoles(r)
    PROVE  IInv'
<1>1. CallOK(calls[r]) /\ calls[r].kind = "set_members" /\ calls[r].at = "clear" /\ calls[r].user \in Users
  BY CurrentOK DEF ClearRoles, At, CallOK, Sound
<1> DEFINE u == calls[r].user
           rows == {u} \X (names_for_user(u) \ keptRoles(u))
           c == [calls[r] EXCEPT !.at = "save", !.doomed = rows]
<1>2. rows \in SUBSET ((Roles \cup Users) \X (Names \cup Roles)) /\ <<Owner, "Admin">> \notin rows
  BY <1>1 DEF names_for_user, keptRoles
<1>3. CallOK(c)
  <2> HIDE DEF rows
  <2>1. c \in Calls
    BY <1>1, <1>2 DEF CallOK, Calls, Places
  <2>2. c.kind = "set_members" /\ c.at = "save" /\ c.user = calls[r].user /\ c.doomed = rows
    BY <1>1 DEF CallOK, Calls
  <2>3. Sound(c)
    <3> HIDE DEF c
    <3> QED BY <1>1, <1>2, <2>2 DEF Sound
  <2>4. QED
    BY <2>1, <2>3 DEF CallOK
<1>4. Become(r, c)
  BY DEF ClearRoles
<1>5. QED
  BY <1>3, <1>4, QuietOK DEF ClearRoles

LEMMA SaveRolesOK ==
    ASSUME IInv, NEW r \in Requests, SaveRoles(r)
    PROVE  IInv'
<1>1. CallOK(calls[r]) /\ calls[r].user \in Users /\ <<Owner, "Admin">> \notin calls[r].doomed
  BY CurrentOK DEF SaveRoles, At, CallOK, Sound
<1> DEFINE rows == {calls[r].user} \X existing(calls[r].roles)
<1>2. RequestsOK'
  BY IdleOK, CommittedOK DEF SaveRoles
<1>3. /\ UNCHANGED <<enabled, roles, role_permissions, user_permissions, active, keys, arrived, unrevoked, unsynced>>
      /\ user_roles' = (user_roles \ calls[r].doomed) \cup rows
  BY DEF SaveRoles, grants, causes
<1>4. RowsTyped' /\ StaticLive' /\ OwnerKeeps'
  <2>1. Live' = Live
    BY <1>3 DEF Live
  <2>2. user_roles' \subseteq Users \X Live
    BY <1>1, <1>3 DEF existing, IInv, RowsOK, RowsTyped
  <2>3. <<Owner, "Admin">> \in user_roles'
    BY <1>1, <1>3 DEF IInv, RowsOK, OwnerKeeps
  <2>4. QED
    BY <1>3, <2>1, <2>2, <2>3 DEF IInv, RowsOK, RowsTyped, StaticLive, OwnerKeeps
<1>5. AdminHasOn'
  BY <1>3 DEF IInv, RowsOK, AdminHasOn
<1>6. QED
  BY <1>2, <1>4, <1>5 DEF IInv, RowsOK

LEMMA StandingChangesOK ==
    ASSUME IInv, NEW u \in Users, StandingChanges(u)
    PROVE  IInv'
<1>1. /\ UNCHANGED <<enabled, roles, role_permissions, user_permissions, user_roles, keys, calls, arrived, unrevoked, unsynced>>
      /\ active' = (IF u \in active THEN active \ {u} ELSE active \cup {u}) /\ Observe
  BY DEF StandingChanges, grants, causes
<1>2. RequestsOK'
  <2>1. CallsSound'
    BY <1>1 DEF IInv, RequestsOK, CallsSound, Sound
  <2>2. QED
    BY <1>1, <2>1, WatchOK DEF IInv, RequestsOK, Observe
<1>3. RowsOK'
  <2>1. Live' = Live
    BY <1>1 DEF Live
  <2>2. RowsTyped' /\ StaticLive' /\ OwnerKeeps'
    BY <1>1, <2>1 DEF IInv, RowsOK, RowsTyped, StaticLive, OwnerKeeps
  <2>3. AdminHasOn'
    BY <1>1 DEF IInv, RowsOK, AdminHasOn
  <2>4. QED
    BY <2>2, <2>3 DEF RowsOK
<1>4. QED
  BY <1>2, <1>3 DEF IInv

LEMMA UserStepOK ==
    ASSUME IInv, NEW r \in Requests, UserStep(r)
    PROVE  IInv'
BY ReadUserOK, ReadFromRolesOK, FilterForUserOK, ClearOverridesOK, SaveOverridesOK, LoadRolesOK,
   ClearRolesOK, SaveRolesOK DEF UserStep

-----------------------------------------------------------------------------
(* Keys, and who a request acts as                                         *)

LEMMA MintOK ==
    ASSUME IInv, NEW r \in Requests, Mint(r)
    PROVE  IInv'
<1>1. CallOK(calls[r]) /\ calls[r].user \in Users /\ calls[r].desired \subseteq Names
  BY CurrentOK DEF Mint, At, CallOK, Sound, Calls
<1>2. RequestsOK'
  BY EndOK DEF Mint
<1>3. PICK k \in Keys :
         keys' = [keys EXCEPT ![k] = [state |-> "live", user |-> calls[r].user, scopes |-> calls[r].desired]]
  BY DEF Mint
<1>4. keys' \in [Keys -> [state : {"free", "live", "over"}, user : Users, scopes : SUBSET Names]]
  BY <1>1, <1>3 DEF IInv, RowsOK, RowsTyped
<1>5. UNCHANGED <<enabled, roles, role_permissions, user_permissions, user_roles, active, arrived, unrevoked, unsynced>>
  BY DEF Mint, grants, people, causes
<1>6. RowsOK'
  <2>1. Live' = Live
    BY <1>5 DEF Live
  <2>2. RowsTyped' /\ StaticLive' /\ OwnerKeeps'
    BY <1>4, <1>5, <2>1 DEF IInv, RowsOK, RowsTyped, StaticLive, OwnerKeeps
  <2>3. AdminHasOn'
    BY <1>5 DEF IInv, RowsOK, AdminHasOn
  <2>4. QED
    BY <2>2, <2>3 DEF RowsOK
<1>7. QED
  BY <1>2, <1>6 DEF IInv

LEMMA RevokeKeyOK ==
    ASSUME IInv, NEW r \in Requests, RevokeKey(r)
    PROVE  IInv'
<1>1. calls[r].key \in Keys
  BY CurrentOK DEF RevokeKey, CallOK, Sound
<1>2. RequestsOK'
  BY EndOK DEF RevokeKey
<1>3. keys' = [keys EXCEPT ![calls[r].key].state = "over"]
  BY DEF RevokeKey
<1>4. keys' \in [Keys -> [state : {"free", "live", "over"}, user : Users, scopes : SUBSET Names]]
  BY <1>1, <1>3 DEF IInv, RowsOK, RowsTyped
<1>5. UNCHANGED <<enabled, roles, role_permissions, user_permissions, user_roles, active, arrived, unrevoked, unsynced>>
  BY DEF RevokeKey, grants, people, causes
<1>6. RowsOK'
  <2>1. Live' = Live
    BY <1>5 DEF Live
  <2>2. RowsTyped' /\ StaticLive' /\ OwnerKeeps'
    BY <1>4, <1>5, <2>1 DEF IInv, RowsOK, RowsTyped, StaticLive, OwnerKeeps
  <2>3. AdminHasOn'
    BY <1>5 DEF IInv, RowsOK, AdminHasOn
  <2>4. QED
    BY <2>2, <2>3 DEF RowsOK
<1>7. QED
  BY <1>2, <1>6 DEF IInv

\* A request that acts for somebody moves on.
LEMMA ActorMoves ==
    ASSUME NEW c, CallOK(c), c.kind \in {"use", "key"}, NEW place \in Places \ {"revoke_users", "revoked"},
           place = "revoke_key" => c.kind = "key"
    PROVE  CallOK([c EXCEPT !.at = place])
<1> DEFINE d == [c EXCEPT !.at = place]
<1>1. d \in Calls
  BY DEF CallOK, Calls
<1>2. d.kind = c.kind /\ d.at = place /\ d.user = c.user /\ d.key = c.key
  BY DEF CallOK, Calls
<1>3. Sound(d)
  <2> HIDE DEF d
  <2> QED BY <1>2 DEF CallOK, Sound
<1>4. QED
  BY <1>1, <1>3 DEF CallOK

LEMMA FindLiveKeyOK ==
    ASSUME IInv, NEW r \in Requests, FindLiveKey(r)
    PROVE  IInv'
<1>1. CallOK(calls[r]) /\ calls[r].kind = "key"
  BY CurrentOK DEF FindLiveKey, At
<1>2. CallOK([calls[r] EXCEPT !.at = "account"])
  BY <1>1, ActorMoves DEF Places
<1>3. End(r) \/ Become(r, [calls[r] EXCEPT !.at = "account"])
  BY DEF FindLiveKey, Goto
<1>4. QED
  BY <1>2, <1>3, QuietOK, QuietEndOK DEF FindLiveKey

LEMMA FindAccountOK ==
    ASSUME IInv, NEW r \in Requests, FindAccount(r)
    PROVE  IInv'
<1>1. CallOK(calls[r]) /\ calls[r].kind \in {"use", "key"}
  BY CurrentOK DEF FindAccount, At
<1>2. CASE End(r)
  BY <1>2, QuietEndOK DEF FindAccount
<1>3. CASE Goto(r, "resolve")
  <2>1. CallOK([calls[r] EXCEPT !.at = "resolve"])
    BY <1>1, ActorMoves DEF Places
  <2>2. QED
    BY <1>3, <2>1, QuietOK DEF FindAccount, Goto
<1>4. CASE calls[r].kind = "key" /\ Goto(r, "revoke_key")
  <2>1. CallOK([calls[r] EXCEPT !.at = "revoke_key"])
    BY <1>1, <1>4, ActorMoves DEF Places
  <2>2. QED
    BY <1>4, <2>1, QuietOK DEF FindAccount, Goto
<1>5. QED
  BY <1>2, <1>3, <1>4 DEF FindAccount

LEMMA ResolveOK ==
    ASSUME IInv, NEW r \in Requests, Resolve(r)
    PROVE  IInv'
<1>1. CallOK(calls[r]) /\ calls[r].kind \in {"use", "key"} /\ calls[r].user \in Users
  BY CurrentOK DEF Resolve, At, CallOK, Sound
<1> DEFINE held == IF calls[r].kind = "key"
                   THEN narrowed(effective_of(calls[r].user), keys[calls[r].key].scopes)
                   ELSE effective_of(calls[r].user)
           c == [calls[r] EXCEPT !.at = "admitted", !.held = held]
<1>2. held \in SUBSET Names
  BY <1>1, EffectiveAreNames, IInvTypes, KeyIsNoWider
<1> HIDE DEF held
<1>3. CallOK(c)
  <2>1. c \in Calls
    BY <1>1, <1>2, ZenonT(60) DEF CallOK, Calls, Places
  <2>2. c.kind = calls[r].kind /\ c.at = "admitted" /\ c.user = calls[r].user /\ c.key = calls[r].key
    BY <1>1 DEF CallOK, Calls
  <2>3. Sound(c)
    <3> HIDE DEF c
    <3> QED BY <1>1, <2>2 DEF CallOK, Sound
  <2>4. QED
    BY <2>1, <2>3 DEF CallOK
<1>4. Become(r, c)
  BY DEF Resolve, held
<1>5. QED
  BY <1>3, <1>4, QuietOK DEF Resolve

LEMMA KeyStepOK ==
    ASSUME IInv, NEW r \in Requests, KeyStep(r)
    PROVE  IInv'
<1>1. ASSUME Finish(r) PROVE IInv'
  BY <1>1, QuietEndOK DEF Finish
<1>2. QED
  BY <1>1, MintOK, RevokeKeyOK, FindLiveKeyOK, FindAccountOK, ResolveOK DEF KeyStep

-----------------------------------------------------------------------------
(* The theorems                                                            *)

\* A workspace as provisioning leaves it.
LEMMA InitInv == Init => IInv
<1> SUFFICES ASSUME Init PROVE IInv
  OBVIOUS
<1>1. RequestsOK
  <2>1. CallsSound
    BY IdleOK DEF Init, CallsSound, CallOK
  <2>2. calls \in [Requests -> Calls]
    BY IdleOK DEF Init, CallOK
  <2>3. QED
    BY <2>1, <2>2 DEF Init, RequestsOK, Unseen, Seen
<1>2. PICK mine \in SUBSET Custom, desired \in Selections, own \in Selections :
        /\ roles = [role \in Roles |-> IF role \in Static \cup mine THEN "live" ELSE "free"]
        /\ role_permissions = static_rows(enabled) \cup (mine \X desired_for_role(desired, enabled))
        /\ user_roles = (Users \X {"User"}) \cup {<<Owner, "Admin">>} \cup ((Users \ {Owner}) \X mine)
        /\ user_permissions = [u \in Users |->
              IF u = Owner THEN None
              ELSE [granted |-> desired_for_role(own, enabled) \ from_roles(names_for_user(u)), denied |-> {}]]
  BY DEF Init
<1>3. Live = Static \cup mine
  BY <1>2 DEF Live, Roles
<1>4. StaticLive
  BY <1>3 DEF StaticLive
<1>5. RowsTyped
  <2>1. role_permissions \subseteq Live \X Names
    BY <1>2, <1>3, <1>4, StaticRowsTyped, DesiredAreNames
  <2>2. user_roles \subseteq Users \X Live
    BY <1>2, <1>3, AccessAssumption DEF Static
  <2>3. user_permissions \in [Users -> Overrides]
    <3>1. ASSUME NEW u \in Users
          PROVE  [granted |-> desired_for_role(own, enabled) \ from_roles(names_for_user(u)), denied |-> {}] \in Overrides
      BY DesiredAreNames DEF Overrides
    <3>2. QED
      BY <1>2, <3>1, IdleOK
  <2>4. roles \in [Roles -> {"free", "live", "gone"}]
    BY <1>2
  <2>5. keys \in [Keys -> [state : {"free", "live", "over"}, user : Users, scopes : SUBSET Names]]
    BY AccessAssumption DEF Init
  <2>6. enabled \subseteq Apps /\ active \subseteq Users /\ unrevoked \subseteq Optional /\ unsynced \subseteq Apps
    BY AccessAssumption DEF Init, Optional
  <2>7. arrived \in 0..MaxRequests
    BY AccessAssumption DEF Init
  <2>8. QED
    BY <2>1, <2>2, <2>3, <2>4, <2>5, <2>6, <2>7 DEF RowsTyped
<1>6. OwnerKeeps
  BY <1>2, AccessAssumption DEF Init, OwnerKeeps, None
<1>7. AdminHasOn
  <2>1. SUFFICES ASSUME NEW app \in Apps, app \in AlwaysOn \/ app \in enabled \ unsynced,
                        NEW n \in Names, owner_of(app, n)
                 PROVE  <<"Admin", n>> \in role_permissions
    BY DEF AdminHasOn
  <2>2. n \in all_of(enabled)
    BY <2>1, AlwaysOnPasses, EnabledPasses DEF all_of
  <2>3. QED
    BY <1>2, <2>2 DEF static_rows
<1>8. QED
  BY <1>1, <1>4, <1>5, <1>6, <1>7 DEF IInv, RowsOK

LEMMA StutterOK == IInv /\ UNCHANGED vars => IInv'
<1> SUFFICES ASSUME IInv, UNCHANGED vars PROVE IInv'
  OBVIOUS
<1>1. UNCHANGED <<enabled, roles, grants, people, keys, arrived, unrevoked, unsynced, calls, mix, watched>>
  BY DEF vars, causes
<1>2. RowsOK'
  BY <1>1, RowsStay DEF IInv, RowsOK, RowsTyped
<1>3. RequestsOK'
  BY <1>1 DEF IInv, RequestsOK, CallsSound, Sound
<1>4. QED
  BY <1>2, <1>3 DEF IInv

LEMMA NextInv == IInv /\ [Next]_vars => IInv'
<1> SUFFICES ASSUME IInv, [Next]_vars PROVE IInv'
  OBVIOUS
<1>1. ASSUME NEW r \in Requests,
             \/ ArriveForApp(r) \/ ArriveForRole(r) \/ ArriveForUser(r) \/ ArriveForKey(r) \/ ArriveAnyway(r)
      PROVE  IInv'
  BY <1>1, ArriveForAppOK, ArriveForRoleOK, ArriveForUserOK, ArriveForKeyOK, ArriveAnywayOK
<1>2. ASSUME NEW r \in Requests, AppStep(r) \/ RoleStep(r) \/ UserStep(r) \/ KeyStep(r) \/ Abort(r)
      PROVE  IInv'
  BY <1>2, AppStepOK, RoleStepOK, UserStepOK, KeyStepOK, AbortOK
<1>3. QED
  BY <1>1, <1>2, StandingChangesOK, StutterOK DEF Next

LEMMA Invariant == Spec => []IInv
BY InitInv, NextInv, PTL DEF Spec

\* Every row names an account, a role and a permission that exist, an account's
\* overrides never grant and deny one name, and every request is one the code makes.
THEOREM TypeCorrect == Spec => []TypeOK
BY Invariant, IInvTypes, PTL

\* The owner is an Admin, and holds all that no app can take away, whatever is
\* edited, revoked or deleted at the same time.
THEOREM OwnerAdministers == Spec => []OwnerCanAdminister
<1>1. IInv => OwnerCanAdminister
  <2>1. SUFFICES ASSUME IInv PROVE OwnerCanAdminister
    OBVIOUS
  <2>2. "Admin" \in names_for_user(Owner)
    BY <2>1 DEF IInv, RowsOK, OwnerKeeps, names_for_user, Roles, Static
  <2>3. ASSUME NEW app \in AlwaysOn, NEW n \in Names, owner_of(app, n) PROVE n \in effective_of(Owner)
    <3>1. <<"Admin", n>> \in role_permissions
      BY <2>1, <2>3, PermissionsAssumption DEF IInv, RowsOK, AdminHasOn
    <3>2. n \in from_roles(names_for_user(Owner))
      BY <2>2, <3>1 DEF from_roles, permissions_of
    <3>3. QED
      BY <2>1, <3>2 DEF IInv, RowsOK, OwnerKeeps, effective_of, effective
  <2>4. QED
    BY <2>1, <2>2, <2>3 DEF OwnerCanAdminister, IInv, RowsOK, OwnerKeeps
<1>2. QED
  BY <1>1, Invariant, PTL

-----------------------------------------------------------------------------
(* What a step of one request leaves alone                                 *)

\* The other requests are where they were, and mean what they meant; a transaction
\* that commits may take rows from what they have deleted.
OthersStay(r) ==
    \A q \in Requests \ {r} :
        /\ calls'[q].kind = calls[q].kind /\ calls'[q].at = calls[q].at /\ calls'[q].app = calls[q].app
        /\ calls'[q].E = calls[q].E /\ calls'[q].desired = calls[q].desired
        /\ calls'[q].held = calls[q].held /\ calls'[q].key = calls[q].key
        /\ calls'[q].user = calls[q].user

LEMMA BecomeStays ==
    ASSUME IInv, NEW r \in Requests, NEW call, calls' = [calls EXCEPT ![r] = call]
    PROVE  /\ calls'[r] = call /\ OthersStay(r)
           /\ \A q \in Requests \ {r} : calls'[q].doomed = calls[q].doomed
<1>1. calls'[r] = call /\ \A q \in Requests \ {r} : calls'[q] = calls[q]
  BY DEF IInv, RequestsOK
<1>2. QED
  BY <1>1 DEF OthersStay

LEMMA CommittedStays ==
    ASSUME IInv, NEW r \in Requests, NEW call, Committed(r, call)
    PROVE  /\ calls'[r] = call /\ OthersStay(r)
           /\ \A q \in Requests \ {r} : calls'[q].doomed = calls[q].doomed \ calls[r].doomed
<1>1. calls' = [q \in Requests |-> IF q = r THEN call
                                  ELSE [calls[q] EXCEPT !.doomed = @ \ calls[r].doomed]]
  BY DEF Committed
<1>2. calls'[r] = call
  BY <1>1
<1>3. ASSUME NEW q \in Requests \ {r}
      PROVE  /\ calls'[q].kind = calls[q].kind /\ calls'[q].at = calls[q].at /\ calls'[q].app = calls[q].app
             /\ calls'[q].E = calls[q].E /\ calls'[q].desired = calls[q].desired
             /\ calls'[q].held = calls[q].held /\ calls'[q].key = calls[q].key
             /\ calls'[q].user = calls[q].user
             /\ calls'[q].doomed = calls[q].doomed \ calls[r].doomed
  <2>1. calls[q] \in Calls
    BY DEF IInv, RequestsOK
  <2>2. calls'[q] = [calls[q] EXCEPT !.doomed = @ \ calls[r].doomed]
    BY <1>1, <1>3
  <2>3. QED
    BY <2>1, <2>2 DEF Calls
<1>4. QED
  BY <1>1, <1>2, <1>3 DEF OthersStay

-----------------------------------------------------------------------------
(* A request that arrives                                                  *)

Arrives(r) ==
    \/ ArriveForApp(r) \/ ArriveForRole(r) \/ ArriveForUser(r) \/ ArriveForKey(r) \/ ArriveAnyway(r)

\* It has deleted nothing, and a key that is presented has been minted.
Newcomer(r, kind, call) ==
    /\ Arrive(r, kind, call)
    /\ [call EXCEPT !.kind = kind].doomed = {}
    /\ [call EXCEPT !.kind = kind].at \notin {"idle", "clear", "save", "admitted"}
    /\ [call EXCEPT !.kind = kind].kind = "key" => keys[[call EXCEPT !.kind = kind].key].state # "free"

LEMMA ArrivalIs ==
    ASSUME NEW r \in Requests, Arrives(r)
    PROVE  \E kind, call : Newcomer(r, kind, call)
<1>1. CASE ArriveForApp(r)
  <2>1. ASSUME NEW app, Arrive(r, "install", [Idle EXCEPT !.at = "enable", !.app = app,
                                                  !.todo = (Requires[app] \ AlwaysOn) \cup {app}])
        PROVE  \E kind, call : Newcomer(r, kind, call)
    <3>1. Newcomer(r, "install", [Idle EXCEPT !.at = "enable", !.app = app, !.todo = (Requires[app] \ AlwaysOn) \cup {app}])
      BY <2>1 DEF Newcomer, Idle
    <3>2. QED
      BY <3>1
  <2>2. ASSUME NEW app, Arrive(r, "uninstall", [Idle EXCEPT !.at = "check", !.app = app])
        PROVE  \E kind, call : Newcomer(r, kind, call)
    <3>1. Newcomer(r, "uninstall", [Idle EXCEPT !.at = "check", !.app = app])
      BY <2>2 DEF Newcomer, Idle
    <3>2. QED
      BY <3>1
  <2>3. QED
    BY <1>1, <2>1, <2>2 DEF ArriveForApp
<1>2. CASE ArriveForRole(r)
  <2>1. ASSUME NEW role, NEW desired,
               Arrive(r, "set_role", [Idle EXCEPT !.at = "find", !.role = role, !.desired = desired])
        PROVE  \E kind, call : Newcomer(r, kind, call)
    <3>1. Newcomer(r, "set_role", [Idle EXCEPT !.at = "find", !.role = role, !.desired = desired])
      BY <2>1 DEF Newcomer, Idle
    <3>2. QED
      BY <3>1
  <2>2. ASSUME NEW role, Arrive(r, "delete", [Idle EXCEPT !.at = "find", !.role = role])
        PROVE  \E kind, call : Newcomer(r, kind, call)
    <3>1. Newcomer(r, "delete", [Idle EXCEPT !.at = "find", !.role = role])
      BY <2>2 DEF Newcomer, Idle
    <3>2. QED
      BY <3>1
  <2>3. ASSUME NEW role, Arrive(r, "create", [Idle EXCEPT !.at = "create", !.role = role])
        PROVE  \E kind, call : Newcomer(r, kind, call)
    <3>1. Newcomer(r, "create", [Idle EXCEPT !.at = "create", !.role = role])
      BY <2>3 DEF Newcomer, Idle
    <3>2. QED
      BY <3>1
  <2>4. QED
    BY <1>2, <2>1, <2>2, <2>3 DEF ArriveForRole
<1>3. CASE ArriveForUser(r)
  <2>1. ASSUME NEW u, NEW desired,
               Arrive(r, "set_user", [Idle EXCEPT !.at = "find", !.user = u, !.desired = desired])
        PROVE  \E kind, call : Newcomer(r, kind, call)
    <3>1. Newcomer(r, "set_user", [Idle EXCEPT !.at = "find", !.user = u, !.desired = desired])
      BY <2>1 DEF Newcomer, Idle
    <3>2. QED
      BY <3>1
  <2>2. ASSUME NEW u, NEW chosen,
               Arrive(r, "set_members", [Idle EXCEPT !.at = "find", !.user = u, !.roles = chosen])
        PROVE  \E kind, call : Newcomer(r, kind, call)
    <3>1. Newcomer(r, "set_members", [Idle EXCEPT !.at = "find", !.user = u, !.roles = chosen])
      BY <2>2 DEF Newcomer, Idle
    <3>2. QED
      BY <3>1
  <2>3. QED
    BY <1>3, <2>1, <2>2 DEF ArriveForUser
<1>4. CASE ArriveForKey(r)
  <2>1. ASSUME NEW u, NEW scopes,
               Arrive(r, "issue", [Idle EXCEPT !.at = "mint", !.user = u, !.desired = scopes])
        PROVE  \E kind, call : Newcomer(r, kind, call)
    <3>1. Newcomer(r, "issue", [Idle EXCEPT !.at = "mint", !.user = u, !.desired = scopes])
      BY <2>1 DEF Newcomer, Idle
    <3>2. QED
      BY <3>1
  <2>2. ASSUME NEW k, Arrive(r, "revoke_key", [Idle EXCEPT !.at = "revoke_key", !.key = k])
        PROVE  \E kind, call : Newcomer(r, kind, call)
    <3>1. Newcomer(r, "revoke_key", [Idle EXCEPT !.at = "revoke_key", !.key = k])
      BY <2>2 DEF Newcomer, Idle
    <3>2. QED
      BY <3>1
  <2>3. ASSUME NEW k, keys[k].state # "free", NEW u,
               Arrive(r, "key", [Idle EXCEPT !.at = "key", !.key = k, !.user = u])
        PROVE  \E kind, call : Newcomer(r, kind, call)
    <3>1. Newcomer(r, "key", [Idle EXCEPT !.at = "key", !.key = k, !.user = u])
      BY <2>3 DEF Newcomer, Idle
    <3>2. QED
      BY <3>1
  <2>4. QED
    BY <1>4, <2>1, <2>2, <2>3 DEF ArriveForKey
<1>5. CASE ArriveAnyway(r)
  <2>1. ASSUME NEW u, Arrive(r, "use", [Idle EXCEPT !.at = "account", !.user = u])
        PROVE  \E kind, call : Newcomer(r, kind, call)
    <3>1. Newcomer(r, "use", [Idle EXCEPT !.at = "account", !.user = u])
      BY <2>1 DEF Newcomer, Idle
    <3>2. QED
      BY <3>1
  <2>2. ASSUME Arrive(r, "boot", [Idle EXCEPT !.at = "sync"])
        PROVE  \E kind, call : Newcomer(r, kind, call)
    <3>1. Newcomer(r, "boot", [Idle EXCEPT !.at = "sync"])
      BY <2>2 DEF Newcomer, Idle
    <3>2. QED
      BY <3>1
  <2>3. QED
    BY <1>5, <2>1, <2>2 DEF ArriveAnyway
<1>6. QED
  BY <1>1, <1>2, <1>3, <1>4, <1>5 DEF Arrives

-----------------------------------------------------------------------------
(* Admin holds an app whole or not at all                                  *)

AdminsOf(rows) == {n \in Names : <<"Admin", n>> \in rows}

Whole(names) == \A app \in Apps :
    \/ \A n \in Names : owner_of(app, n) => n \in names
    \/ \A n \in Names : owner_of(app, n) => n \notin names

\* So does every transaction that takes something from Admin.
WholeOK ==
    /\ Whole(AdminsOf(role_permissions))
    /\ \A r \in Requests : Whole(AdminsOf(calls[r].doomed))

LEMMA WholeMinus ==
    ASSUME NEW rows, NEW other, Whole(AdminsOf(rows)), Whole(AdminsOf(other))
    PROVE  Whole(AdminsOf(rows \ other))
BY DEF Whole, AdminsOf

LEMMA WholeNothing ==
    ASSUME NEW rows, \A row \in rows : row[1] # "Admin"
    PROVE  AdminsOf(rows) = {} /\ Whole(AdminsOf(rows))
<1>1. ASSUME NEW n \in Names PROVE <<"Admin", n>> \notin rows
  <2>1. <<"Admin", n>>[1] = "Admin"
    OBVIOUS
  <2>2. QED
    BY <2>1
<1>2. AdminsOf(rows) = {}
  BY <1>1 DEF AdminsOf
<1>3. QED
  BY <1>2 DEF Whole

\* What is given for the apps that are on: a permission belongs to one app.
LEMMA WholeOn ==
    ASSUME NEW E
    PROVE  Whole(all_of(E))
<1>1. SUFFICES ASSUME NEW app \in Apps, NEW m \in Names, owner_of(app, m), m \in all_of(E),
                      NEW n \in Names, owner_of(app, n)
               PROVE  n \in all_of(E)
  BY DEF Whole
<1>2. PICK owner \in AlwaysOn \cup (Apps \cap E) : owner_of(owner, m)
  BY <1>1 DEF all_of, for_enabled_apps
<1>3. owner = app
  BY <1>1, <1>2, OneOwner, PermissionsAssumption
<1>4. QED
  BY <1>1, <1>2, <1>3 DEF all_of, for_enabled_apps

\* What a revocation takes is all of its app that Admin has, and of no other.
LEMMA WholeRevoked ==
    ASSUME NEW app \in Optional, NEW rows, Whole(AdminsOf(rows))
    PROVE  Whole(AdminsOf({row \in rows : owns(app, row[2])}))
<1> DEFINE taken == {row \in rows : owns(app, row[2])}
<1>1. ASSUME NEW n \in Names PROVE n \in AdminsOf(taken) <=> n \in AdminsOf(rows) /\ owns(app, n)
  <2>1. <<"Admin", n>>[2] = n
    OBVIOUS
  <2>2. QED
    BY <2>1 DEF AdminsOf
<1> HIDE DEF taken
<1>2. ASSUME NEW other \in Apps
      PROVE  \/ \A n \in Names : owner_of(other, n) => n \in AdminsOf(taken)
             \/ \A n \in Names : owner_of(other, n) => n \notin AdminsOf(taken)
  <2>1. CASE other = app
    <3>1. \A n \in Names : owner_of(other, n) => owns(app, n)
      BY <2>1 DEF owner_of
    <3>2. QED
      BY <1>1, <3>1 DEF Whole
  <2>2. CASE other # app
    <3>1. \A n \in Names : owner_of(other, n) => ~owns(app, n)
      BY <2>2, RevocationIsItsOwn
    <3>2. QED
      BY <1>1, <3>1
  <2>3. QED
    BY <2>1, <2>2
<1>3. QED
  BY <1>2 DEF Whole, taken

LEMMA WholeMoves ==
    ASSUME IInv, WholeOK, NEW r \in Requests, NEW call, calls' = [calls EXCEPT ![r] = call],
           Whole(AdminsOf(call.doomed)), Whole(AdminsOf(role_permissions'))
    PROVE  WholeOK'
<1>1. \A q \in Requests : Whole(AdminsOf(calls'[q].doomed))
  BY BecomeStays DEF WholeOK
<1>2. QED
  BY <1>1 DEF WholeOK, Whole, AdminsOf

LEMMA WholeCommits ==
    ASSUME IInv, WholeOK, NEW r \in Requests, NEW call, Committed(r, call),
           call.doomed = {}, Whole(AdminsOf(role_permissions'))
    PROVE  WholeOK'
<1>1. ASSUME NEW q \in Requests PROVE Whole(AdminsOf(calls'[q].doomed))
  <2>1. CASE q = r
    BY <2>1, CommittedStays, WholeNothing
  <2>2. CASE q # r
    <3>1. calls'[q].doomed = calls[q].doomed \ calls[r].doomed
      BY <2>2, CommittedStays
    <3>2. QED
      BY <3>1, WholeMinus DEF WholeOK
  <2>3. QED
    BY <2>1, <2>2
<1>2. QED
  BY <1>1 DEF WholeOK, Whole, AdminsOf

\* A step that deletes nothing more and commits nothing.
LEMMA WholeQuiet ==
    ASSUME IInv, WholeOK, NEW r \in Requests, NEW call, Become(r, call),
           call.doomed = calls[r].doomed \/ call.doomed = {},
           role_permissions' = role_permissions
    PROVE  WholeOK'
<1>1. Whole(AdminsOf(call.doomed))
  BY WholeNothing DEF WholeOK
<1>2. QED
  BY <1>1, WholeMoves DEF WholeOK, Become

LEMMA EndWhole ==
    ASSUME IInv, WholeOK, NEW r \in Requests, End(r) \/ calls' = [calls EXCEPT ![r] = Idle],
           role_permissions' = role_permissions
    PROVE  WholeOK'
<1>1. Idle.doomed = {} /\ Whole(AdminsOf(Idle.doomed))
  BY WholeNothing DEF Idle
<1>2. QED
  BY <1>1, WholeMoves DEF WholeOK, End, Become

LEMMA GotoWhole ==
    ASSUME IInv, WholeOK, NEW r \in Requests, NEW place, Goto(r, place), role_permissions' = role_permissions
    PROVE  WholeOK'
<1>1. [calls[r] EXCEPT !.at = place].doomed = calls[r].doomed
  BY DEF IInv, RequestsOK, Calls
<1>2. QED
  BY <1>1, WholeQuiet DEF Goto

LEMMA ArrivalWhole ==
    ASSUME IInv, WholeOK, NEW r \in Requests, Arrives(r)
    PROVE  WholeOK'
<1>1. PICK kind, call : Newcomer(r, kind, call)
  BY ArrivalIs
<1> DEFINE c == [call EXCEPT !.kind = kind]
<1>2. Become(r, c) /\ c.doomed = {} /\ role_permissions' = role_permissions
  BY <1>1 DEF Newcomer, Arrive, grants
<1> HIDE DEF c
<1>3. QED
  BY <1>2, WholeQuiet

LEMMA AppWhole ==
    ASSUME IInv, WholeOK, NEW r \in Requests, AppStep(r)
    PROVE  WholeOK'
<1>1. calls[r] \in Calls /\ Sound(calls[r])
  BY DEF IInv, RequestsOK, CallsSound
<1>2. CASE Enable(r)
  <2>1. role_permissions' = role_permissions
    BY <1>2 DEF Enable, grants
  <2>2. ASSUME NEW todo, NEW switched, NEW place,
               Become(r, [calls[r] EXCEPT !.todo = todo, !.switched = switched, !.at = place])
        PROVE  WholeOK'
    <3>1. [calls[r] EXCEPT !.todo = todo, !.switched = switched, !.at = place].doomed = calls[r].doomed
      BY <1>1 DEF Calls
    <3>2. QED
      BY <2>1, <2>2, <3>1, WholeQuiet
  <2>3. PICK app \in calls[r].todo :
           LET todo == calls[r].todo \ {app}
               switched == calls[r].switched \/ app \notin enabled
           IN  IF todo = {} /\ ~switched THEN End(r)
               ELSE Become(r, [calls[r] EXCEPT !.todo = todo, !.switched = switched,
                                  !.at = IF todo = {} THEN "sync" ELSE "enable"])
    BY <1>2 DEF Enable
  <2> DEFINE todo == calls[r].todo \ {app}
             switched == calls[r].switched \/ app \notin enabled
             place == IF todo = {} THEN "sync" ELSE "enable"
  <2>4. End(r) \/ Become(r, [calls[r] EXCEPT !.todo = todo, !.switched = switched, !.at = place])
    BY <2>3
  <2> HIDE DEF todo, switched, place
  <2>5. QED
    BY <2>1, <2>2, <2>4, EndWhole
<1>3. CASE CheckDependants(r) \/ Disable(r)
  BY <1>3, EndWhole, GotoWhole DEF CheckDependants, Disable, grants
<1>4. CASE ReadEnabledForSync(r)
  <2>1. [calls[r] EXCEPT !.at = "clear_admin", !.E = enabled].doomed = calls[r].doomed
    BY <1>1 DEF Calls
  <2>2. QED
    BY <1>4, <2>1, WholeQuiet DEF ReadEnabledForSync, grants
<1>5. CASE ClearAdmin(r)
  <2> DEFINE rows == {"Admin"} \X permissions_of("Admin")
             c == [calls[r] EXCEPT !.at = "grant_static", !.doomed = rows]
  <2>1. AdminsOf(rows) = AdminsOf(role_permissions)
    BY DEF AdminsOf, permissions_of
  <2> HIDE DEF rows
  <2>2. c.doomed = rows
    BY <1>1 DEF Calls
  <2>3. calls' = [calls EXCEPT ![r] = c] /\ role_permissions' = role_permissions
    BY <1>5 DEF ClearAdmin, Become, grants, rows
  <2> HIDE DEF c
  <2>4. QED
    BY <2>1, <2>2, <2>3, WholeMoves DEF WholeOK
<1>6. CASE GrantStatic(r)
  <2>1. role_permissions' = (role_permissions \ calls[r].doomed) \cup static_rows(calls[r].E)
    BY <1>6 DEF GrantStatic
  <2>2. \A n \in Names : <<"Admin", n>> \in static_rows(calls[r].E) <=> n \in all_of(calls[r].E)
    BY DEF static_rows
  <2>3. Whole(AdminsOf(role_permissions'))
    <3>1. \A n \in Names : n \in AdminsOf(role_permissions') <=>
              n \in AdminsOf(role_permissions \ calls[r].doomed) \/ n \in all_of(calls[r].E)
      BY <2>1, <2>2 DEF AdminsOf
    <3>2. Whole(AdminsOf(role_permissions \ calls[r].doomed)) /\ Whole(all_of(calls[r].E))
      BY WholeMinus, WholeOn DEF WholeOK
    <3>3. QED
      BY <3>1, <3>2 DEF Whole
  <2>4. [calls[r] EXCEPT !.at = "revoke_roles", !.doomed = {}, !.E = {}].doomed = {} /\ Idle.doomed = {}
    BY <1>1 DEF Calls, Idle
  <2>5. Committed(r, [calls[r] EXCEPT !.at = "revoke_roles", !.doomed = {}, !.E = {}]) \/ Committed(r, Idle)
    BY <1>6 DEF GrantStatic
  <2>6. QED
    BY <2>3, <2>4, <2>5, WholeCommits
<1>7. CASE RevokeRoles(r)
  <2> DEFINE rows == {row \in role_permissions : owns(calls[r].app, row[2])}
             c == [calls[r] EXCEPT !.at = "revoke_users", !.doomed = rows]
  <2>1. calls[r].app \in Optional
    BY <1>1, <1>7 DEF RevokeRoles, At, Sound
  <2>2. Whole(AdminsOf(rows))
    BY <2>1, WholeRevoked DEF WholeOK
  <2>3. calls' = [calls EXCEPT ![r] = c] /\ role_permissions' = role_permissions
    BY <1>7 DEF RevokeRoles, Become, grants
  <2> HIDE DEF rows
  <2>4. c.doomed = rows
    BY <1>1 DEF Calls
  <2> HIDE DEF c
  <2>5. QED
    BY <2>2, <2>3, <2>4, WholeMoves DEF WholeOK
<1>8. CASE RevokeUsers(r)
  <2> DEFINE found == {row \in Users \X Names : row[2] \in overridden(row[1]) /\ owns(calls[r].app, row[2])}
             c == [calls[r] EXCEPT !.at = "revoked", !.doomed = @ \cup found]
  <2>1. \A row \in found : row[1] # "Admin"
    BY AccessAssumption DEF Roles, Static
  <2>2. calls' = [calls EXCEPT ![r] = c] /\ role_permissions' = role_permissions
    BY <1>8 DEF RevokeUsers, Become, grants
  <2> HIDE DEF found
  <2>3. c.doomed = calls[r].doomed \cup found
    BY <1>1 DEF Calls
  <2> HIDE DEF c
  <2>4. AdminsOf(c.doomed) = AdminsOf(calls[r].doomed)
    <3>1. AdminsOf(found) = {}
      BY <2>1, WholeNothing
    <3>2. QED
      BY <2>3, <3>1 DEF AdminsOf
  <2>5. QED
    BY <2>2, <2>4, WholeMoves DEF WholeOK
<1>9. CASE CommitRevocation(r)
  <2>1. role_permissions' = role_permissions \ calls[r].doomed /\ Committed(r, Idle)
    BY <1>9 DEF CommitRevocation
  <2>2. QED
    BY <2>1, WholeMinus, WholeCommits DEF WholeOK, Idle
<1>10. QED
  BY <1>2, <1>3, <1>4, <1>5, <1>6, <1>7, <1>8, <1>9 DEF AppStep

LEMMA RoleWhole ==
    ASSUME IInv, WholeOK, NEW r \in Requests, RoleStep(r)
    PROVE  WholeOK'
<1>1. calls[r] \in Calls /\ Sound(calls[r])
  BY DEF IInv, RequestsOK, CallsSound
<1>2. CASE ReadRole(r)
  <2>1. [calls[r] EXCEPT !.at = "enabled", !.held = permissions_of(calls[r].role)].doomed = calls[r].doomed
    BY <1>1 DEF Calls
  <2>2. QED
    BY <1>2, <2>1, EndWhole, WholeQuiet DEF ReadRole, grants
<1>3. CASE FilterForRole(r)
  <2>1. ASSUME NEW desired
        PROVE  [calls[r] EXCEPT !.at = "clear", !.desired = desired, !.E = enabled].doomed = calls[r].doomed
    BY <1>1 DEF Calls
  <2>2. QED
    BY <1>3, <2>1, EndWhole, WholeQuiet DEF FilterForRole, grants
<1>4. CASE ClearRole(r)
  <2> DEFINE rows == {calls[r].role} \X permissions_of(calls[r].role)
             c == [calls[r] EXCEPT !.at = "save", !.doomed = rows]
  <2>1. \A row \in rows : row[1] # "Admin"
    BY <1>1, <1>4 DEF ClearRole, At, Sound
  <2>2. calls' = [calls EXCEPT ![r] = c] /\ role_permissions' = role_permissions
    BY <1>4 DEF ClearRole, Become, grants
  <2> HIDE DEF rows
  <2>3. c.doomed = rows
    BY <1>1 DEF Calls
  <2> HIDE DEF c
  <2>4. QED
    BY <2>1, <2>2, <2>3, WholeNothing, WholeMoves DEF WholeOK
<1>5. CASE SaveRole(r)
  <2>1. calls[r].role # "Admin" /\ \A row \in calls[r].doomed : row[1] = calls[r].role
    BY <1>1, <1>5 DEF SaveRole, At, Sound
  <2>2. CASE calls[r].role \in Live
    <3>1. /\ role_permissions' = (role_permissions \ calls[r].doomed) \cup ({calls[r].role} \X calls[r].desired)
          /\ Committed(r, Idle)
      BY <1>5, <2>2 DEF SaveRole
    <3>2. ASSUME NEW n \in Names PROVE <<"Admin", n>> \in role_permissions' <=> <<"Admin", n>> \in role_permissions
      BY <2>1, <3>1
    <3>3. AdminsOf(role_permissions') = AdminsOf(role_permissions)
      BY <3>2 DEF AdminsOf
    <3>4. QED
      BY <3>1, <3>3, WholeCommits DEF WholeOK, Idle
  <2>3. CASE calls[r].role \notin Live
    BY <1>5, <2>3, EndWhole DEF SaveRole
  <2>4. QED
    BY <2>2, <2>3
<1>6. CASE CreateRole(r) \/ FindRole(r)
  BY <1>6, EndWhole, GotoWhole DEF CreateRole, FindRole, grants
<1>7. CASE DeleteRole(r)
  <2>1. calls[r].role # "Admin"
    BY <1>1, <1>7 DEF DeleteRole, At, Sound, Static
  <2>2. role_permissions' = {row \in role_permissions : row[1] # calls[r].role} /\ End(r)
    BY <1>7 DEF DeleteRole
  <2>3. ASSUME NEW n \in Names PROVE <<"Admin", n>> \in role_permissions' <=> <<"Admin", n>> \in role_permissions
    BY <2>1, <2>2
  <2>4. AdminsOf(role_permissions') = AdminsOf(role_permissions)
    BY <2>3 DEF AdminsOf
  <2>5. Whole(AdminsOf(Idle.doomed))
    BY WholeNothing DEF Idle
  <2>6. QED
    BY <2>2, <2>4, <2>5, WholeMoves DEF WholeOK, End, Become
<1>8. QED
  BY <1>2, <1>3, <1>4, <1>5, <1>6, <1>7 DEF RoleStep

LEMMA UserWhole ==
    ASSUME IInv, WholeOK, NEW r \in Requests, UserStep(r)
    PROVE  WholeOK'
<1>1. calls[r] \in Calls /\ Sound(calls[r])
  BY DEF IInv, RequestsOK, CallsSound
<1>2. CASE ReadUser(r)
  <2>1. [calls[r] EXCEPT !.at = "from_roles", !.roles = names_for_user(calls[r].user),
                         !.before = overrides_for_user(calls[r].user)].doomed = calls[r].doomed
    BY <1>1 DEF Calls
  <2>2. QED
    BY <1>2, <2>1, EndWhole, WholeQuiet DEF ReadUser, grants
<1>3. CASE ReadFromRoles(r)
  <2>1. [calls[r] EXCEPT !.at = "enabled", !.roles = {}, !.held = from_roles(calls[r].roles)].doomed = calls[r].doomed
    BY <1>1 DEF Calls
  <2>2. QED
    BY <1>3, <2>1, WholeQuiet DEF ReadFromRoles, grants
<1>4. CASE FilterForUser(r)
  <2>1. ASSUME NEW desired
        PROVE  [calls[r] EXCEPT !.at = "clear", !.desired = desired, !.E = enabled].doomed = calls[r].doomed
    BY <1>1 DEF Calls
  <2>2. QED
    BY <1>4, <2>1, EndWhole, WholeQuiet DEF FilterForUser, grants
<1>5. ASSUME NEW rows, \A row \in rows : row[1] = calls[r].user, calls[r].user \in Users,
             Become(r, [calls[r] EXCEPT !.at = "save", !.doomed = rows]), role_permissions' = role_permissions
      PROVE  WholeOK'
  <2> DEFINE c == [calls[r] EXCEPT !.at = "save", !.doomed = rows]
  <2>1. \A row \in rows : row[1] # "Admin"
    BY <1>5, AccessAssumption DEF Roles, Static
  <2>2. c.doomed = rows /\ calls' = [calls EXCEPT ![r] = c]
    BY <1>1, <1>5 DEF Calls, Become
  <2> HIDE DEF c
  <2>3. QED
    BY <1>5, <2>1, <2>2, WholeNothing, WholeMoves DEF WholeOK
<1>6. CASE ClearOverrides(r)
  <2> DEFINE rows == {calls[r].user} \X overridden(calls[r].user)
  <2>1. /\ Become(r, [calls[r] EXCEPT !.at = "save", !.doomed = rows]) /\ role_permissions' = role_permissions
        /\ calls[r].user \in Users /\ \A row \in rows : row[1] = calls[r].user
    BY <1>1, <1>6 DEF ClearOverrides, At, Sound, grants
  <2> HIDE DEF rows
  <2>2. QED
    BY <1>5, <2>1
<1>7. CASE ClearRoles(r)
  <2> DEFINE rows == {calls[r].user} \X (names_for_user(calls[r].user) \ keptRoles(calls[r].user))
  <2>1. /\ Become(r, [calls[r] EXCEPT !.at = "save", !.doomed = rows]) /\ role_permissions' = role_permissions
        /\ calls[r].user \in Users /\ \A row \in rows : row[1] = calls[r].user
    BY <1>1, <1>7 DEF ClearRoles, At, Sound, grants
  <2> HIDE DEF rows
  <2>2. QED
    BY <1>5, <2>1
<1>8. CASE LoadRoles(r)
  BY <1>8, EndWhole, GotoWhole DEF LoadRoles, grants
<1>9. CASE SaveOverrides(r) \/ SaveRoles(r)
  <2>1. Committed(r, Idle) /\ role_permissions' = role_permissions
    BY <1>9 DEF SaveOverrides, SaveRoles, grants
  <2>2. QED
    BY <2>1, WholeCommits DEF WholeOK, Idle
<1>10. QED
  BY <1>2, <1>3, <1>4, <1>6, <1>7, <1>8, <1>9 DEF UserStep

LEMMA KeyWhole ==
    ASSUME IInv, WholeOK, NEW r \in Requests, KeyStep(r)
    PROVE  WholeOK'
<1>1. CASE Mint(r) \/ RevokeKey(r) \/ FindLiveKey(r) \/ FindAccount(r) \/ Finish(r)
  BY <1>1, EndWhole, GotoWhole DEF Mint, RevokeKey, FindLiveKey, FindAccount, Finish, grants
<1>2. CASE Resolve(r)
  <2> DEFINE held == effective_of(calls[r].user)
             got == IF calls[r].kind = "key" THEN narrowed(held, keys[calls[r].key].scopes) ELSE held
  <2>1. Become(r, [calls[r] EXCEPT !.at = "admitted", !.held = got]) /\ role_permissions' = role_permissions
    BY <1>2 DEF Resolve, grants
  <2> HIDE DEF got
  <2>2. [calls[r] EXCEPT !.at = "admitted", !.held = got].doomed = calls[r].doomed
    BY DEF IInv, RequestsOK, Calls
  <2>3. QED
    BY <2>1, <2>2, WholeQuiet
<1>3. QED
  BY <1>1, <1>2 DEF KeyStep

LEMMA WholeInit == Init => WholeOK
<1> SUFFICES ASSUME Init PROVE WholeOK
  OBVIOUS
<1>1. AdminsOf(role_permissions) = all_of(enabled)
  <2>1. PICK mine \in SUBSET Custom, desired \in Selections :
           role_permissions = static_rows(enabled) \cup (mine \X desired_for_role(desired, enabled))
    BY DEF Init
  <2>2. ASSUME NEW n \in Names PROVE <<"Admin", n>> \in role_permissions <=> n \in all_of(enabled)
    BY <2>1, AccessAssumption DEF static_rows, Static
  <2>3. QED
    BY <2>2 DEF AdminsOf, all_of, for_enabled_apps
<1>2. \A r \in Requests : Whole(AdminsOf(calls[r].doomed))
  BY WholeNothing DEF Init, Idle
<1>3. QED
  BY <1>1, <1>2, WholeOn DEF WholeOK

LEMMA WholeNext == IInv /\ WholeOK /\ [Next]_vars => WholeOK'
<1> SUFFICES ASSUME IInv, WholeOK, [Next]_vars PROVE WholeOK'
  OBVIOUS
<1>1. ASSUME UNCHANGED <<role_permissions, calls>> PROVE WholeOK'
  BY <1>1 DEF WholeOK, Whole, AdminsOf
<1>2. ASSUME NEW u \in Users, StandingChanges(u) PROVE WholeOK'
  BY <1>1, <1>2 DEF StandingChanges, grants
<1>3. ASSUME NEW r \in Requests, Abort(r) PROVE WholeOK'
  BY <1>3, EndWhole DEF Abort, grants
<1>4. CASE UNCHANGED vars
  BY <1>1, <1>4 DEF vars, grants
<1>5. QED
  BY <1>2, <1>3, <1>4, ArrivalWhole, AppWhole, RoleWhole, UserWhole, KeyWhole DEF Next, Arrives

LEMMA WholeInvariant == Spec => []WholeOK
BY WholeInit, WholeNext, Invariant, PTL DEF Spec

\* Admin holds an app whole or not at all, whatever syncs, revocations and edits
\* meet, and a lost connection included; and it holds those that are on, but for an
\* install that has not synced yet, or whose sync was undone by one that had read
\* the app as off or by the revocation of an earlier uninstall.
THEOREM AdminKeeps == Spec => []AdminHoldsWhatIsOn
<1>1. IInv /\ WholeOK => AdminHoldsWhatIsOn
  <2>1. SUFFICES ASSUME IInv, WholeOK, NEW app \in Apps
                 PROVE  LET all == {n \in Names : owner_of(app, n)}
                            held == permissions_of("Admin")
                        IN  /\ all \subseteq held \/ all \cap held = {}
                            /\ app \in AlwaysOn \/ app \in enabled \ unsynced => all \subseteq held
    BY DEF AdminHoldsWhatIsOn
  <2>2. \A n \in Names : n \in permissions_of("Admin") <=> n \in AdminsOf(role_permissions)
    BY DEF permissions_of, AdminsOf
  <2>3. \/ \A n \in Names : owner_of(app, n) => n \in permissions_of("Admin")
        \/ \A n \in Names : owner_of(app, n) => n \notin permissions_of("Admin")
    BY <2>1, <2>2 DEF WholeOK, Whole
  <2>4. app \in AlwaysOn \/ app \in enabled \ unsynced =>
            \A n \in Names : owner_of(app, n) => n \in permissions_of("Admin")
    BY <2>1 DEF IInv, RowsOK, AdminHasOn, permissions_of
  <2>5. QED
    BY <2>3, <2>4
<1>2. QED
  BY <1>1, Invariant, WholeInvariant, PTL

-----------------------------------------------------------------------------
(* What is left of an app that has been switched off                       *)

Off == Optional \ (enabled \cup unrevoked)

TakenFromRoles(app, row) == \E r \in Requests :
    /\ calls[r].app = app /\ calls[r].at \in {"revoke_users", "revoked"} /\ row \in calls[r].doomed

TakenFromUsers(app, u, n) == \E r \in Requests :
    /\ calls[r].app = app
    /\ calls[r].at = "revoke_users" \/ (calls[r].at = "revoked" /\ <<u, n>> \in calls[r].doomed)

\* What a role has of an app that is off is deleted already, in a transaction that
\* has not committed; what an account has is, or is about to be.
RolesTaken == \A app \in Off, row \in role_permissions :
    owner_of(app, row[2]) => TakenFromRoles(app, row)

UsersTaken == \A app \in Off, u \in Users, n \in Names :
    n \in user_permissions[u].granted /\ owner_of(app, n) => TakenFromUsers(app, u, n)

\* A save of grants has filtered them by the apps it read as on; and whose rows the
\* transactions that delete before they insert may delete.
Tidy(c) ==
    /\ c.kind \in {"set_role", "set_user"} /\ c.at \in {"clear", "save"} =>
          c.desired \subseteq for_enabled_apps(Names, c.E)
    /\ c.at = "grant_static" => \A row \in c.doomed : row[1] = "Admin"
    /\ c.kind = "set_user" => \A row \in c.doomed : row[1] = c.user
    /\ c.kind = "set_members" => \A row \in c.doomed : row[1] = c.user /\ row[2] \in Roles

CallsTidy == \A r \in Requests : Tidy(calls[r])

RevokedOK == RolesTaken /\ UsersTaken /\ CallsTidy

LEMMA TidyStays ==
    ASSUME IInv, CallsTidy, NEW r \in Requests, OthersStay(r), Tidy(calls'[r]),
           \A q \in Requests \ {r} : calls'[q].doomed \subseteq calls[q].doomed
    PROVE  CallsTidy'
<1>1. ASSUME NEW q \in Requests PROVE Tidy(calls'[q])
  <2>1. CASE q = r
    BY <2>1
  <2>2. CASE q # r
    <3>1. Tidy(calls[q])
      BY DEF CallsTidy
    <3>2. /\ calls'[q].kind = calls[q].kind /\ calls'[q].at = calls[q].at /\ calls'[q].E = calls[q].E
          /\ calls'[q].desired = calls[q].desired /\ calls'[q].doomed \subseteq calls[q].doomed
          /\ calls'[q].user = calls[q].user
      BY <2>2 DEF OthersStay
    <3>3. QED
      BY <3>1, <3>2 DEF Tidy
  <2>3. QED
    BY <2>1, <2>2
<1>2. QED
  BY <1>1 DEF CallsTidy, Tidy

\* No app is off that was not, and nobody was given a row.
RowsShrink ==
    /\ Off' \subseteq Off /\ role_permissions' \subseteq role_permissions
    /\ \A u \in Users : user_permissions'[u].granted \subseteq user_permissions[u].granted

LEMMA QuietRevoked ==
    ASSUME IInv, RevokedOK, NEW r \in Requests, NEW call, calls' = [calls EXCEPT ![r] = call], Tidy(call), RowsShrink,
           calls[r].at \in {"revoke_users", "revoked"} => calls[r].app \notin Off'
    PROVE  RevokedOK'
<1>1. calls'[r] = call /\ OthersStay(r) /\ \A q \in Requests \ {r} : calls'[q].doomed = calls[q].doomed
  BY BecomeStays
<1>2. CallsTidy'
  BY <1>1, TidyStays DEF RevokedOK
<1>3. RolesTaken'
  <2>1. SUFFICES ASSUME NEW app \in Off', NEW row \in role_permissions', owner_of(app, row[2])
                 PROVE  TakenFromRoles(app, row)'
    BY DEF RolesTaken
  <2>2. TakenFromRoles(app, row)
    BY <2>1 DEF RevokedOK, RolesTaken, RowsShrink
  <2>3. PICK q \in Requests : calls[q].app = app /\ calls[q].at \in {"revoke_users", "revoked"} /\ row \in calls[q].doomed
    BY <2>2 DEF TakenFromRoles
  <2>4. q # r
    BY <2>3
  <2>5. QED
    BY <1>1, <2>3, <2>4 DEF OthersStay, TakenFromRoles
<1>4. UsersTaken'
  <2>1. SUFFICES ASSUME NEW app \in Off', NEW u \in Users, NEW n \in Names,
                        n \in user_permissions'[u].granted, owner_of(app, n)
                 PROVE  TakenFromUsers(app, u, n)'
    BY DEF UsersTaken
  <2>2. TakenFromUsers(app, u, n)
    BY <2>1 DEF RevokedOK, UsersTaken, RowsShrink
  <2>3. PICK q \in Requests :
           /\ calls[q].app = app
           /\ calls[q].at = "revoke_users" \/ (calls[q].at = "revoked" /\ <<u, n>> \in calls[q].doomed)
    BY <2>2 DEF TakenFromUsers
  <2>4. q # r
    BY <2>3
  <2>5. QED
    BY <1>1, <2>3, <2>4 DEF OthersStay, TakenFromUsers
<1>5. QED
  BY <1>2, <1>3, <1>4 DEF RevokedOK

\* A commit takes its rows from everybody, and gives nothing of an app that is off.
LEMMA CommitRevoked ==
    ASSUME IInv, RevokedOK, NEW r \in Requests, NEW call, Committed(r, call), Tidy(call), Off' \subseteq Off,
           calls[r].at # "revoke_users",
           \A app \in Off', row \in role_permissions' : owner_of(app, row[2]) =>
               row \in role_permissions /\ row \notin calls[r].doomed,
           \A app \in Off', u \in Users, n \in Names : n \in user_permissions'[u].granted /\ owner_of(app, n) =>
               n \in user_permissions[u].granted /\ <<u, n>> \notin calls[r].doomed
    PROVE  RevokedOK'
<1>1. /\ calls'[r] = call /\ OthersStay(r)
      /\ \A q \in Requests \ {r} : calls'[q].doomed = calls[q].doomed \ calls[r].doomed
  BY CommittedStays
<1>2. CallsTidy'
  BY <1>1, TidyStays DEF RevokedOK
<1>3. RolesTaken'
  <2>1. SUFFICES ASSUME NEW app \in Off', NEW row \in role_permissions', owner_of(app, row[2])
                 PROVE  TakenFromRoles(app, row)'
    BY DEF RolesTaken
  <2>2. row \in role_permissions /\ row \notin calls[r].doomed /\ app \in Off
    BY <2>1
  <2>3. TakenFromRoles(app, row)
    BY <2>1, <2>2 DEF RevokedOK, RolesTaken
  <2>4. PICK q \in Requests : calls[q].app = app /\ calls[q].at \in {"revoke_users", "revoked"} /\ row \in calls[q].doomed
    BY <2>3 DEF TakenFromRoles
  <2>5. q # r
    BY <2>2, <2>4
  <2>6. QED
    BY <1>1, <2>2, <2>4, <2>5 DEF OthersStay, TakenFromRoles
<1>4. UsersTaken'
  <2>1. SUFFICES ASSUME NEW app \in Off', NEW u \in Users, NEW n \in Names,
                        n \in user_permissions'[u].granted, owner_of(app, n)
                 PROVE  TakenFromUsers(app, u, n)'
    BY DEF UsersTaken
  <2>2. n \in user_permissions[u].granted /\ <<u, n>> \notin calls[r].doomed /\ app \in Off
    BY <2>1
  <2>3. TakenFromUsers(app, u, n)
    BY <2>1, <2>2 DEF RevokedOK, UsersTaken
  <2>4. PICK q \in Requests :
           /\ calls[q].app = app
           /\ calls[q].at = "revoke_users" \/ (calls[q].at = "revoked" /\ <<u, n>> \in calls[q].doomed)
    BY <2>3 DEF TakenFromUsers
  <2>5. q # r
    BY <2>2, <2>4
  <2>6. QED
    BY <1>1, <2>2, <2>4, <2>5 DEF OthersStay, TakenFromUsers
<1>5. QED
  BY <1>2, <1>3, <1>4 DEF RevokedOK

\* A request that is not revoking and changes no row.
LEMMA ReadRevoked ==
    ASSUME IInv, RevokedOK, NEW r \in Requests, NEW call, Become(r, call), Tidy(call),
           calls[r].at \notin {"revoke_users", "revoked"},
           UNCHANGED <<enabled, role_permissions, user_permissions, unrevoked>>
    PROVE  RevokedOK'
<1>1. RowsShrink
  BY DEF RowsShrink, Off
<1>2. QED
  BY <1>1, QuietRevoked DEF Become

LEMMA IdleTidy == Tidy(Idle)
BY DEF Tidy, Idle

LEMMA EndRevoked ==
    ASSUME IInv, RevokedOK, NEW r \in Requests, End(r), calls[r].at \notin {"revoke_users", "revoked"},
           UNCHANGED <<enabled, role_permissions, user_permissions, unrevoked>>
    PROVE  RevokedOK'
BY IdleTidy, ReadRevoked DEF End

LEMMA GotoRevoked ==
    ASSUME IInv, RevokedOK, NEW r \in Requests, NEW place, Goto(r, place), place # "grant_static",
           place \notin {"clear", "save"} \/ calls[r].kind \notin {"set_role", "set_user"},
           calls[r].at \notin {"revoke_users", "revoked"},
           UNCHANGED <<enabled, role_permissions, user_permissions, unrevoked>>
    PROVE  RevokedOK'
<1> DEFINE c == [calls[r] EXCEPT !.at = place]
<1>1. calls[r] \in Calls /\ Tidy(calls[r])
  BY DEF IInv, RequestsOK, RevokedOK, CallsTidy
<1>2. c.at = place /\ c.kind = calls[r].kind /\ c.doomed = calls[r].doomed /\ c.user = calls[r].user
  BY <1>1 DEF Calls
<1>3. Tidy(c)
  <2> HIDE DEF c
  <2> QED BY <1>1, <1>2 DEF Tidy
<1>4. QED
  BY <1>3, ReadRevoked DEF Goto

LEMMA ArrivalRevoked ==
    ASSUME IInv, RevokedOK, NEW r \in Requests, Arrives(r)
    PROVE  RevokedOK'
<1>1. PICK kind, call : Newcomer(r, kind, call)
  BY ArrivalIs
<1> DEFINE c == [call EXCEPT !.kind = kind]
<1>2. /\ Become(r, c) /\ calls[r].at = "idle"
      /\ UNCHANGED <<enabled, role_permissions, user_permissions, unrevoked>>
  BY <1>1 DEF Newcomer, Arrive, grants, causes
<1>3. Tidy(c)
  <2>1. c.doomed = {} /\ c.at \notin {"clear", "save"}
    BY <1>1 DEF Newcomer
  <2> HIDE DEF c
  <2> QED BY <2>1 DEF Tidy
<1> HIDE DEF c
<1>4. QED
  BY <1>2, <1>3, ReadRevoked

\* A revocation whose connection is lost leaves its app unrevoked.
LEMMA AbortRevoked ==
    ASSUME IInv, RevokedOK, NEW r \in Requests, Abort(r)
    PROVE  RevokedOK'
<1>1. UNCHANGED <<enabled, role_permissions, user_permissions>> /\ calls' = [calls EXCEPT ![r] = Idle]
  BY DEF Abort, grants
<1>2. unrevoked \subseteq unrevoked'
      /\ (calls[r].at \in {"revoke_users", "revoked"} => calls[r].app \in unrevoked')
  BY DEF Abort
<1>3. RowsShrink
  BY <1>1, <1>2 DEF RowsShrink, Off
<1>4. calls[r].at \in {"revoke_users", "revoked"} => calls[r].app \notin Off'
  BY <1>2 DEF Off
<1>5. QED
  BY <1>1, <1>3, <1>4, IdleTidy, QuietRevoked

\* What the static roles are given of an app that is off makes it unrevoked again.
LEMMA GrantStaticRevoked ==
    ASSUME IInv, RevokedOK, NEW r \in Requests, GrantStatic(r)
    PROVE  RevokedOK'
<1>1. calls[r] \in Calls /\ Tidy(calls[r]) /\ calls[r].at = "grant_static"
  BY DEF IInv, RequestsOK, RevokedOK, CallsTidy, GrantStatic, At
<1>2. /\ role_permissions' = (role_permissions \ calls[r].doomed) \cup static_rows(calls[r].E)
      /\ unrevoked' = unrevoked \cup Stale(r) /\ enabled' = enabled /\ user_permissions' = user_permissions
  BY DEF GrantStatic
<1>3. Off' \subseteq Off /\ \A app \in Off' : app \in Optional /\ app \notin calls[r].E
  BY <1>2 DEF Off, Stale
<1>4. ASSUME NEW app \in Off', NEW row \in role_permissions', owner_of(app, row[2])
      PROVE  row \in role_permissions /\ row \notin calls[r].doomed
  <2>1. CASE row \in static_rows(calls[r].E)
    <3>1. row[2] \in for_enabled_apps(Names, calls[r].E) \/ row[2] \in for_enabled_apps(Defaults, calls[r].E)
      BY <2>1 DEF static_rows, all_of, defaults_of
    <3>2. Defaults \in SUBSET Names /\ Names \in SUBSET Names
      BY PermissionsAssumption
    <3>3. app \in calls[r].E
      BY <1>3, <1>4, <3>1, <3>2, PassedIsEnabled
    <3>4. QED
      BY <1>3, <3>3
  <2>2. QED
    BY <1>2, <2>1
<1>5. ASSUME NEW app \in Off', NEW u \in Users, NEW n \in Names, n \in user_permissions'[u].granted, owner_of(app, n)
      PROVE  n \in user_permissions[u].granted /\ <<u, n>> \notin calls[r].doomed
  <2>1. <<u, n>>[1] = u /\ u # "Admin"
    BY AccessAssumption DEF Roles, Static
  <2>2. QED
    BY <1>1, <1>2, <1>5, <2>1 DEF Tidy
<1>6. ASSUME NEW call, Committed(r, call), Tidy(call) PROVE RevokedOK'
  BY <1>1, <1>3, <1>4, <1>5, <1>6, CommitRevoked
<1>7. CASE calls[r].kind = "uninstall"
  <2> DEFINE c == [calls[r] EXCEPT !.at = "revoke_roles", !.doomed = {}, !.E = {}]
  <2>1. Committed(r, c)
    BY <1>7 DEF GrantStatic
  <2>2. c.at = "revoke_roles" /\ c.kind = "uninstall"
    BY <1>1, <1>7 DEF Calls
  <2>3. Tidy(c)
    <3> HIDE DEF c
    <3> QED BY <2>2 DEF Tidy
  <2>4. QED
    BY <1>6, <2>1, <2>3
<1>8. CASE calls[r].kind # "uninstall"
  BY <1>6, <1>8, IdleTidy DEF GrantStatic
<1>9. QED
  BY <1>7, <1>8

\* From the first delete on, the revocation has what the roles hold of its app, and
\* is still to take what the accounts hold.
LEMMA RevokeRolesRevoked ==
    ASSUME IInv, RevokedOK, NEW r \in Requests, RevokeRoles(r)
    PROVE  RevokedOK'
<1> DEFINE rows == {row \in role_permissions : owns(calls[r].app, row[2])}
           c == [calls[r] EXCEPT !.at = "revoke_users", !.doomed = rows]
<1>1. calls[r] \in Calls /\ calls[r].at = "revoke_roles" /\ calls[r].kind = "uninstall"
  BY DEF IInv, RequestsOK, RevokeRoles, At
<1>2. /\ Become(r, c) /\ enabled' = enabled /\ role_permissions' = role_permissions
      /\ user_permissions' = user_permissions /\ unrevoked' = unrevoked \ {calls[r].app}
  BY DEF RevokeRoles, grants
<1>3. c.at = "revoke_users" /\ c.kind = "uninstall" /\ c.app = calls[r].app /\ c.doomed = rows
  BY <1>1 DEF Calls
<1> HIDE DEF c
<1>4. /\ calls'[r] = c /\ OthersStay(r)
      /\ \A q \in Requests \ {r} : calls'[q].doomed = calls[q].doomed
  BY <1>2, BecomeStays DEF Become
<1>5. CallsTidy'
  <2>1. Tidy(c)
    BY <1>3 DEF Tidy
  <2>2. QED
    BY <1>4, <2>1, TidyStays DEF RevokedOK
<1>6. \A app \in Off' : app # calls[r].app => app \in Off
  BY <1>2 DEF Off
<1>7. RolesTaken'
  <2>1. SUFFICES ASSUME NEW app \in Off', NEW row \in role_permissions', owner_of(app, row[2])
                 PROVE  TakenFromRoles(app, row)'
    BY DEF RolesTaken
  <2>2. CASE app = calls[r].app
    <3>1. row \in rows
      BY <1>2, <2>1, <2>2 DEF owner_of
    <3>2. calls'[r].app = app /\ calls'[r].at = "revoke_users" /\ row \in calls'[r].doomed
      BY <1>3, <1>4, <2>2, <3>1
    <3>3. QED
      BY <3>2 DEF TakenFromRoles
  <2>3. CASE app # calls[r].app
    <3>1. TakenFromRoles(app, row)
      BY <1>2, <1>6, <2>1, <2>3 DEF RevokedOK, RolesTaken
    <3>2. PICK q \in Requests : calls[q].app = app /\ calls[q].at \in {"revoke_users", "revoked"} /\ row \in calls[q].doomed
      BY <3>1 DEF TakenFromRoles
    <3>3. q # r
      BY <2>3, <3>2
    <3>4. QED
      BY <1>4, <3>2, <3>3 DEF OthersStay, TakenFromRoles
  <2>4. QED
    BY <2>2, <2>3
<1>8. UsersTaken'
  <2>1. SUFFICES ASSUME NEW app \in Off', NEW u \in Users, NEW n \in Names,
                        n \in user_permissions'[u].granted, owner_of(app, n)
                 PROVE  TakenFromUsers(app, u, n)'
    BY DEF UsersTaken
  <2>2. CASE app = calls[r].app
    <3>1. calls'[r].app = app /\ calls'[r].at = "revoke_users"
      BY <1>3, <1>4, <2>2
    <3>2. QED
      BY <3>1 DEF TakenFromUsers
  <2>3. CASE app # calls[r].app
    <3>1. TakenFromUsers(app, u, n)
      BY <1>2, <1>6, <2>1, <2>3 DEF RevokedOK, UsersTaken
    <3>2. PICK q \in Requests :
             /\ calls[q].app = app
             /\ calls[q].at = "revoke_users" \/ (calls[q].at = "revoked" /\ <<u, n>> \in calls[q].doomed)
      BY <3>1 DEF TakenFromUsers
    <3>3. q # r
      BY <2>3, <3>2
    <3>4. QED
      BY <1>4, <3>2, <3>3 DEF OthersStay, TakenFromUsers
  <2>4. QED
    BY <2>2, <2>3
<1>9. QED
  BY <1>5, <1>7, <1>8 DEF RevokedOK

\* The second delete takes what the accounts hold.
LEMMA RevokeUsersRevoked ==
    ASSUME IInv, RevokedOK, NEW r \in Requests, RevokeUsers(r)
    PROVE  RevokedOK'
<1> DEFINE rows == {row \in Users \X Names : row[2] \in overridden(row[1]) /\ owns(calls[r].app, row[2])}
           c == [calls[r] EXCEPT !.at = "revoked", !.doomed = @ \cup rows]
<1>1. calls[r] \in Calls /\ calls[r].at = "revoke_users" /\ calls[r].kind = "uninstall"
  BY DEF IInv, RequestsOK, RevokeUsers, At
<1>2. /\ Become(r, c) /\ enabled' = enabled /\ role_permissions' = role_permissions
      /\ user_permissions' = user_permissions /\ unrevoked' = unrevoked
  BY DEF RevokeUsers, grants, causes
<1>3. c.at = "revoked" /\ c.kind = "uninstall" /\ c.app = calls[r].app /\ c.doomed = calls[r].doomed \cup rows
  BY <1>1 DEF Calls
<1> HIDE DEF c
<1>4. /\ calls'[r] = c /\ OthersStay(r)
      /\ \A q \in Requests \ {r} : calls'[q].doomed = calls[q].doomed
  BY <1>2, BecomeStays DEF Become
<1>5. CallsTidy'
  <2>1. Tidy(c)
    BY <1>3 DEF Tidy
  <2>2. QED
    BY <1>4, <2>1, TidyStays DEF RevokedOK
<1>6. Off' = Off
  BY <1>2 DEF Off
<1>7. RolesTaken'
  <2>1. SUFFICES ASSUME NEW app \in Off, NEW row \in role_permissions, owner_of(app, row[2])
                 PROVE  TakenFromRoles(app, row)'
    BY <1>2, <1>6 DEF RolesTaken
  <2>2. TakenFromRoles(app, row)
    BY <2>1 DEF RevokedOK, RolesTaken
  <2>3. PICK q \in Requests : calls[q].app = app /\ calls[q].at \in {"revoke_users", "revoked"} /\ row \in calls[q].doomed
    BY <2>2 DEF TakenFromRoles
  <2>4. calls'[q].app = app /\ calls'[q].at \in {"revoke_users", "revoked"} /\ row \in calls'[q].doomed
    BY <1>3, <1>4, <2>3 DEF OthersStay
  <2>5. QED
    BY <2>4 DEF TakenFromRoles
<1>8. UsersTaken'
  <2>1. SUFFICES ASSUME NEW app \in Off, NEW u \in Users, NEW n \in Names,
                        n \in user_permissions[u].granted, owner_of(app, n)
                 PROVE  TakenFromUsers(app, u, n)'
    BY <1>2, <1>6 DEF UsersTaken
  <2>2. TakenFromUsers(app, u, n)
    BY <2>1 DEF RevokedOK, UsersTaken
  <2>3. PICK q \in Requests :
           /\ calls[q].app = app
           /\ calls[q].at = "revoke_users" \/ (calls[q].at = "revoked" /\ <<u, n>> \in calls[q].doomed)
    BY <2>2 DEF TakenFromUsers
  <2>4. CASE q = r
    <3>1. <<u, n>> \in rows
      BY <2>1, <2>3, <2>4 DEF overridden, owner_of
    <3>2. calls'[r].app = app /\ calls'[r].at = "revoked" /\ <<u, n>> \in calls'[r].doomed
      BY <1>3, <1>4, <2>3, <2>4, <3>1
    <3>3. QED
      BY <3>2 DEF TakenFromUsers
  <2>5. CASE q # r
    BY <1>4, <2>3, <2>5 DEF OthersStay, TakenFromUsers
  <2>6. QED
    BY <2>4, <2>5
<1>9. QED
  BY <1>5, <1>7, <1>8 DEF RevokedOK

\* What is granted to an account is what it was and no transaction has taken, or is new.
LEMMA WithoutGranted ==
    ASSUME IInv, NEW rows, NEW u \in Users
    PROVE  without(rows)[u].granted = {n \in user_permissions[u].granted : <<u, n>> \notin rows}
BY DEF without

LEMMA CommitRevocationRevoked ==
    ASSUME IInv, RevokedOK, NEW r \in Requests, CommitRevocation(r)
    PROVE  RevokedOK'
<1>1. /\ calls[r].at = "revoked" /\ Committed(r, Idle) /\ enabled' = enabled /\ unrevoked' = unrevoked
      /\ role_permissions' = role_permissions \ calls[r].doomed
      /\ user_permissions' = without(calls[r].doomed)
  BY DEF CommitRevocation, At
<1>2. Off' \subseteq Off
  BY <1>1 DEF Off
<1>3. \A app \in Off', row \in role_permissions' : owner_of(app, row[2]) =>
          row \in role_permissions /\ row \notin calls[r].doomed
  BY <1>1
<1>4. \A app \in Off', u \in Users, n \in Names : n \in user_permissions'[u].granted /\ owner_of(app, n) =>
          n \in user_permissions[u].granted /\ <<u, n>> \notin calls[r].doomed
  BY <1>1, WithoutGranted
<1>5. QED
  BY <1>1, <1>2, <1>3, <1>4, IdleTidy, CommitRevoked

LEMMA AppRevoked ==
    ASSUME IInv, RevokedOK, NEW r \in Requests, AppStep(r)
    PROVE  RevokedOK'
<1>1. calls[r] \in Calls /\ Tidy(calls[r])
  BY DEF IInv, RequestsOK, RevokedOK, CallsTidy
<1>2. CASE Enable(r)
  <2>1. calls[r].at = "enable" /\ calls[r].kind = "install"
    BY <1>2 DEF Enable, At
  <2>2. PICK app \in calls[r].todo :
           LET todo == calls[r].todo \ {app}
               switched == calls[r].switched \/ app \notin enabled
           IN  /\ enabled' = enabled \cup {app}
               /\ IF todo = {} /\ ~switched THEN End(r)
                  ELSE Become(r, [calls[r] EXCEPT !.todo = todo, !.switched = switched,
                                     !.at = IF todo = {} THEN "sync" ELSE "enable"])
    BY <1>2 DEF Enable
  <2> DEFINE todo == calls[r].todo \ {app}
             switched == calls[r].switched \/ app \notin enabled
             place == IF todo = {} THEN "sync" ELSE "enable"
             c == [calls[r] EXCEPT !.todo = todo, !.switched = switched, !.at = place]
  <2>3. place \in {"sync", "enable"}
    OBVIOUS
  <2>4. End(r) \/ Become(r, c)
    BY <2>2
  <2> HIDE DEF todo, switched, place
  <2>5. c.at = place /\ c.kind = "install"
    BY <1>1, <2>1 DEF Calls
  <2> HIDE DEF c
  <2>6. Tidy(c)
    BY <2>3, <2>5 DEF Tidy
  <2>7. RowsShrink
    <3>1. UNCHANGED <<role_permissions, user_permissions, unrevoked>>
      BY <1>2 DEF Enable, grants
    <3>2. QED
      BY <2>2, <3>1 DEF RowsShrink, Off
  <2>8. QED
    BY <2>1, <2>4, <2>6, <2>7, IdleTidy, QuietRevoked DEF End, Become
<1>3. CASE CheckDependants(r)
  BY <1>3, EndRevoked, GotoRevoked DEF CheckDependants, At, grants, causes
<1>4. CASE Disable(r)
  <2>1. calls[r].at = "disable" /\ calls[r].kind = "uninstall"
    BY <1>4 DEF Disable, At
  <2>2. RowsShrink
    <3>1. /\ UNCHANGED <<role_permissions, user_permissions>> /\ enabled' = enabled \ {calls[r].app}
          /\ unrevoked' = unrevoked \cup ({calls[r].app} \cap enabled)
      BY <1>4 DEF Disable, grants
    <3>2. QED
      BY <3>1 DEF RowsShrink, Off
  <2> DEFINE c == [calls[r] EXCEPT !.at = "sync"]
  <2>3. Become(r, c) \/ End(r)
    BY <1>4 DEF Disable, Goto
  <2>4. c.at = "sync" /\ c.kind = "uninstall"
    BY <1>1, <2>1 DEF Calls
  <2> HIDE DEF c
  <2>5. Tidy(c)
    BY <2>4 DEF Tidy
  <2>6. QED
    BY <2>1, <2>2, <2>3, <2>5, IdleTidy, QuietRevoked DEF End, Become
<1>5. CASE ReadEnabledForSync(r)
  <2> DEFINE c == [calls[r] EXCEPT !.at = "clear_admin", !.E = enabled]
  <2>1. /\ Become(r, c) /\ calls[r].at = "sync" /\ calls[r].kind \in {"install", "uninstall", "boot"}
        /\ UNCHANGED <<enabled, role_permissions, user_permissions, unrevoked>>
    BY <1>5 DEF ReadEnabledForSync, At, grants, causes
  <2>2. c.at = "clear_admin" /\ c.kind = calls[r].kind
    BY <1>1 DEF Calls
  <2> HIDE DEF c
  <2>3. Tidy(c)
    BY <2>1, <2>2 DEF Tidy
  <2>4. QED
    BY <2>1, <2>3, ReadRevoked
<1>6. CASE ClearAdmin(r)
  <2> DEFINE rows == {"Admin"} \X permissions_of("Admin")
             c == [calls[r] EXCEPT !.at = "grant_static", !.doomed = rows]
  <2>1. /\ Become(r, c) /\ calls[r].at = "clear_admin" /\ calls[r].kind \in {"install", "uninstall", "boot"}
        /\ UNCHANGED <<enabled, role_permissions, user_permissions, unrevoked>>
    BY <1>6 DEF ClearAdmin, At, grants, causes
  <2>2. \A row \in rows : row[1] = "Admin"
    OBVIOUS
  <2> HIDE DEF rows
  <2>3. c.at = "grant_static" /\ c.kind = calls[r].kind /\ c.doomed = rows
    BY <1>1 DEF Calls
  <2> HIDE DEF c
  <2>4. Tidy(c)
    BY <2>1, <2>2, <2>3 DEF Tidy
  <2>5. QED
    BY <2>1, <2>4, ReadRevoked
<1>7. QED
  BY <1>2, <1>3, <1>4, <1>5, <1>6, GrantStaticRevoked, RevokeRolesRevoked, RevokeUsersRevoked,
     CommitRevocationRevoked DEF AppStep

LEMMA SaveRoleRevoked ==
    ASSUME IInv, RevokedOK, NEW r \in Requests, SaveRole(r)
    PROVE  RevokedOK'
<1>1. calls[r] \in Calls /\ Tidy(calls[r]) /\ Sound(calls[r]) /\ calls[r].at = "save" /\ calls[r].kind = "set_role"
  BY DEF IInv, RequestsOK, CallsSound, RevokedOK, CallsTidy, SaveRole, At
<1>2. CASE calls[r].role \notin Live
  BY <1>1, <1>2, EndRevoked DEF SaveRole
<1>3. CASE calls[r].role \in Live
  <2>1. /\ role_permissions' = (role_permissions \ calls[r].doomed) \cup ({calls[r].role} \X calls[r].desired)
        /\ unrevoked' = unrevoked \cup Stale(r) /\ enabled' = enabled /\ user_permissions' = user_permissions
        /\ Committed(r, Idle)
    BY <1>3 DEF SaveRole
  <2>2. Off' \subseteq Off /\ \A app \in Off' : app \in Optional /\ app \notin calls[r].E
    BY <2>1 DEF Off, Stale
  <2>3. ASSUME NEW app \in Off', NEW row \in role_permissions', owner_of(app, row[2])
        PROVE  row \in role_permissions /\ row \notin calls[r].doomed
    <3>1. CASE row \in {calls[r].role} \X calls[r].desired
      <4>1. row[2] \in for_enabled_apps(Names, calls[r].E)
        BY <1>1, <3>1 DEF Tidy
      <4>2. app \in calls[r].E
        BY <2>2, <2>3, <4>1, PassedIsEnabled
      <4>3. QED
        BY <2>2, <4>2
    <3>2. QED
      BY <2>1, <3>1
  <2>4. ASSUME NEW app \in Off', NEW u \in Users, NEW n \in Names, n \in user_permissions'[u].granted, owner_of(app, n)
        PROVE  n \in user_permissions[u].granted /\ <<u, n>> \notin calls[r].doomed
    <3>1. <<u, n>>[1] = u /\ u \notin Roles /\ calls[r].role \in Roles
      BY <1>1, AccessAssumption DEF Sound
    <3>2. QED
      BY <1>1, <2>1, <2>4, <3>1 DEF Sound
  <2>5. QED
    BY <1>1, <2>1, <2>2, <2>3, <2>4, IdleTidy, CommitRevoked
<1>4. QED
  BY <1>2, <1>3

LEMMA RoleRevoked ==
    ASSUME IInv, RevokedOK, NEW r \in Requests, RoleStep(r)
    PROVE  RevokedOK'
<1>1. calls[r] \in Calls /\ Tidy(calls[r]) /\ Sound(calls[r])
  BY DEF IInv, RequestsOK, CallsSound, RevokedOK, CallsTidy
<1>2. CASE ReadRole(r)
  <2> DEFINE c == [calls[r] EXCEPT !.at = "enabled", !.held = permissions_of(calls[r].role)]
  <2>1. /\ End(r) \/ Become(r, c)
        /\ calls[r].at = "find" /\ calls[r].kind = "set_role"
        /\ UNCHANGED <<enabled, role_permissions, user_permissions, unrevoked>>
    BY <1>2 DEF ReadRole, At, grants, causes
  <2>2. c.at = "enabled" /\ c.kind = calls[r].kind
    BY <1>1 DEF Calls
  <2> HIDE DEF c
  <2>3. calls[r].kind = "set_role" => Tidy(c)
    BY <2>2 DEF Tidy
  <2>4. QED
    BY <1>2, <2>1, <2>3, EndRevoked, ReadRevoked DEF ReadRole, At
<1>3. CASE FilterForRole(r)
  <2> DEFINE desired == desired_for_role(calls[r].desired, enabled)
             c == [calls[r] EXCEPT !.at = "clear", !.desired = desired, !.E = enabled]
  <2>1. /\ End(r) \/ Become(r, c)
        /\ calls[r].at = "enabled" /\ calls[r].kind = "set_role"
        /\ UNCHANGED <<enabled, role_permissions, user_permissions, unrevoked>>
    BY <1>3 DEF FilterForRole, At, grants, causes
  <2>2. desired \subseteq for_enabled_apps(Names, enabled)
    BY NormalisedAreNames DEF desired_for_role, for_enabled_apps
  <2> HIDE DEF desired
  <2>3. c.kind = "set_role" /\ c.desired = desired /\ c.E = enabled /\ c.at = "clear"
    BY <1>1, <2>1 DEF Calls
  <2> HIDE DEF c
  <2>4. Tidy(c)
    BY <2>2, <2>3 DEF Tidy
  <2>5. QED
    BY <2>1, <2>4, EndRevoked, ReadRevoked
<1>4. CASE ClearRole(r)
  <2> DEFINE rows == {calls[r].role} \X permissions_of(calls[r].role)
             c == [calls[r] EXCEPT !.at = "save", !.doomed = rows]
  <2>1. /\ Become(r, c) /\ calls[r].at = "clear" /\ calls[r].kind = "set_role"
        /\ UNCHANGED <<enabled, role_permissions, user_permissions, unrevoked>>
    BY <1>4 DEF ClearRole, At, grants, causes
  <2> HIDE DEF rows
  <2>2. c.kind = "set_role" /\ c.desired = calls[r].desired /\ c.E = calls[r].E /\ c.at = "save"
    BY <1>1, <2>1 DEF Calls
  <2> HIDE DEF c
  <2>3. Tidy(c)
    BY <1>1, <2>1, <2>2 DEF Tidy
  <2>4. QED
    BY <2>1, <2>3, ReadRevoked
<1>5. CASE CreateRole(r)
  BY <1>5, EndRevoked DEF CreateRole, At, grants, causes
<1>6. CASE FindRole(r)
  BY <1>6, EndRevoked, GotoRevoked DEF FindRole, At, grants, causes
<1>7. CASE DeleteRole(r)
  <2>1. RowsShrink
    BY <1>7 DEF DeleteRole, RowsShrink, Off, causes
  <2>2. calls[r].at = "delete"
    BY <1>7 DEF DeleteRole, At
  <2>3. QED
    BY <1>7, <2>1, <2>2, IdleTidy, QuietRevoked DEF DeleteRole, End, Become
<1>8. QED
  BY <1>2, <1>3, <1>4, <1>5, <1>6, <1>7, SaveRoleRevoked DEF RoleStep

LEMMA SaveOverridesRevoked ==
    ASSUME IInv, RevokedOK, NEW r \in Requests, SaveOverrides(r)
    PROVE  RevokedOK'
<1> DEFINE overrides == overrides_for(calls[r].held, calls[r].desired)
           left == without(calls[r].doomed)
<1>1. calls[r] \in Calls /\ Tidy(calls[r]) /\ Sound(calls[r]) /\ calls[r].at = "save" /\ calls[r].kind = "set_user"
  BY DEF IInv, RequestsOK, CallsSound, RevokedOK, CallsTidy, SaveOverrides, At
<1>2. /\ user_permissions' = [left EXCEPT ![calls[r].user] = set_overrides(@, overrides)]
      /\ unrevoked' = unrevoked \cup Stale(r) /\ enabled' = enabled /\ role_permissions' = role_permissions
      /\ Committed(r, Idle)
  BY DEF SaveOverrides
<1>3. Off' \subseteq Off /\ \A app \in Off' : app \in Optional /\ app \notin calls[r].E
  BY <1>2 DEF Off, Stale
<1>4. ASSUME NEW app \in Off', NEW row \in role_permissions', owner_of(app, row[2])
      PROVE  row \in role_permissions /\ row \notin calls[r].doomed
  <2>1. row \in role_permissions /\ row[1] \in Roles
    BY <1>2 DEF IInv, RowsOK, RowsTyped, Live
  <2>2. row[1] # calls[r].user
    BY <1>1, <2>1, AccessAssumption DEF Sound
  <2>3. QED
    BY <1>1, <2>1, <2>2 DEF Tidy
<1>5. ASSUME NEW app \in Off', NEW u \in Users, NEW n \in Names, n \in user_permissions'[u].granted, owner_of(app, n)
      PROVE  n \in user_permissions[u].granted /\ <<u, n>> \notin calls[r].doomed
  <2>1. n \notin overrides.granted
    <3>1. SUFFICES ASSUME n \in overrides.granted PROVE FALSE
      OBVIOUS
    <3>2. n \in normalise(calls[r].desired)
      BY <3>1 DEF overrides_for
    <3>3. app \in calls[r].E
      BY <1>1, <1>3, <1>5, <3>2, FilteredTicksStay DEF Tidy
    <3>4. QED
      BY <1>3, <3>3
  <2>2. n \in left[u].granted
    <3>1. left = [v \in Users |->
             [granted |-> {m \in user_permissions[v].granted : <<v, m>> \notin calls[r].doomed},
              denied |-> {m \in user_permissions[v].denied : <<v, m>> \notin calls[r].doomed}]]
      BY DEF without
    <3> HIDE DEF left, overrides
    <3>2. CASE u = calls[r].user
      <4>1. user_permissions'[u] = set_overrides(left[u], overrides)
        BY <1>2, <3>1, <3>2
      <4>2. user_permissions'[u].granted = (left[u].granted \ overrides.denied) \cup overrides.granted
        BY <4>1 DEF set_overrides
      <4>3. QED
        BY <1>5, <2>1, <4>2
    <3>3. CASE u # calls[r].user
      BY <1>2, <1>5, <3>1, <3>3
    <3>4. QED
      BY <3>2, <3>3
  <2>3. QED
    BY <2>2, WithoutGranted
<1>6. QED
  BY <1>1, <1>2, <1>3, <1>4, <1>5, IdleTidy, CommitRevoked

\* The roles of an account are other rows than its grants.
LEMMA SaveRolesRevoked ==
    ASSUME IInv, RevokedOK, NEW r \in Requests, SaveRoles(r)
    PROVE  RevokedOK'
<1>1. calls[r] \in Calls /\ Tidy(calls[r]) /\ calls[r].at = "save" /\ calls[r].kind = "set_members"
  BY DEF IInv, RequestsOK, RevokedOK, CallsTidy, SaveRoles, At
<1>2. UNCHANGED <<enabled, role_permissions, user_permissions, unrevoked>> /\ Committed(r, Idle)
  BY DEF SaveRoles, grants, causes
<1>3. Off' \subseteq Off
  BY <1>2 DEF Off
<1>4. \A row \in calls[r].doomed : row[2] \in Roles
  BY <1>1 DEF Tidy
<1>5. \A row \in role_permissions : row[2] \in Names
  BY DEF IInv, RowsOK, RowsTyped
<1>6. \A app \in Off', row \in role_permissions' : owner_of(app, row[2]) =>
          row \in role_permissions /\ row \notin calls[r].doomed
  BY <1>2, <1>4, <1>5, AccessAssumption
<1>7. ASSUME NEW app \in Off', NEW u \in Users, NEW n \in Names, n \in user_permissions'[u].granted
      PROVE  n \in user_permissions[u].granted /\ <<u, n>> \notin calls[r].doomed
  <2>1. <<u, n>>[2] = n /\ n \notin Roles
    BY AccessAssumption
  <2>2. QED
    BY <1>2, <1>4, <1>7, <2>1
<1>8. QED
  BY <1>1, <1>2, <1>3, <1>6, <1>7, IdleTidy, CommitRevoked

LEMMA UserRevoked ==
    ASSUME IInv, RevokedOK, NEW r \in Requests, UserStep(r)
    PROVE  RevokedOK'
<1>1. calls[r] \in Calls /\ Tidy(calls[r]) /\ Sound(calls[r])
  BY DEF IInv, RequestsOK, CallsSound, RevokedOK, CallsTidy
<1>2. CASE ReadUser(r)
  <2> DEFINE c == [calls[r] EXCEPT !.at = "from_roles", !.roles = names_for_user(calls[r].user),
                                   !.before = overrides_for_user(calls[r].user)]
  <2>1. /\ End(r) \/ Become(r, c)
        /\ calls[r].at = "find" /\ calls[r].kind = "set_user"
        /\ UNCHANGED <<enabled, role_permissions, user_permissions, unrevoked>>
    BY <1>2 DEF ReadUser, At, grants, causes
  <2>2. c.at = "from_roles" /\ c.kind = "set_user" /\ c.doomed = calls[r].doomed /\ c.user = calls[r].user
    BY <1>1, <2>1 DEF Calls
  <2> HIDE DEF c
  <2>3. Tidy(c)
    BY <1>1, <2>1, <2>2 DEF Tidy
  <2>4. QED
    BY <2>1, <2>3, EndRevoked, ReadRevoked
<1>3. CASE ReadFromRoles(r)
  <2> DEFINE c == [calls[r] EXCEPT !.at = "enabled", !.roles = {}, !.held = from_roles(calls[r].roles)]
  <2>1. /\ Become(r, c) /\ calls[r].at = "from_roles" /\ calls[r].kind = "set_user"
        /\ UNCHANGED <<enabled, role_permissions, user_permissions, unrevoked>>
    BY <1>3 DEF ReadFromRoles, At, grants, causes
  <2>2. c.at = "enabled" /\ c.kind = "set_user" /\ c.doomed = calls[r].doomed /\ c.user = calls[r].user
    BY <1>1, <2>1 DEF Calls
  <2> HIDE DEF c
  <2>3. Tidy(c)
    BY <1>1, <2>1, <2>2 DEF Tidy
  <2>4. QED
    BY <2>1, <2>3, ReadRevoked
<1>4. CASE FilterForUser(r)
  <2> DEFINE desired == desired_for_user(calls[r].desired, enabled)
             c == [calls[r] EXCEPT !.at = "clear", !.desired = desired, !.E = enabled]
  <2>1. /\ End(r) \/ Become(r, c)
        /\ calls[r].at = "enabled" /\ calls[r].kind = "set_user"
        /\ UNCHANGED <<enabled, role_permissions, user_permissions, unrevoked>>
    BY <1>4 DEF FilterForUser, At, grants, causes
  <2>2. desired \subseteq for_enabled_apps(Names, enabled)
    BY <1>1 DEF desired_for_user, for_enabled_apps, Calls
  <2> HIDE DEF desired
  <2>3. c.kind = "set_user" /\ c.desired = desired /\ c.E = enabled /\ c.at = "clear"
        /\ c.doomed = calls[r].doomed /\ c.user = calls[r].user
    BY <1>1, <2>1 DEF Calls
  <2> HIDE DEF c
  <2>4. Tidy(c)
    BY <1>1, <2>1, <2>2, <2>3 DEF Tidy
  <2>5. QED
    BY <2>1, <2>4, EndRevoked, ReadRevoked
<1>5. CASE ClearOverrides(r)
  <2> DEFINE rows == {calls[r].user} \X overridden(calls[r].user)
             c == [calls[r] EXCEPT !.at = "save", !.doomed = rows]
  <2>1. /\ Become(r, c) /\ calls[r].at = "clear" /\ calls[r].kind = "set_user"
        /\ UNCHANGED <<enabled, role_permissions, user_permissions, unrevoked>>
    BY <1>5 DEF ClearOverrides, At, grants, causes
  <2>2. \A row \in rows : row[1] = calls[r].user
    OBVIOUS
  <2> HIDE DEF rows
  <2>3. c.kind = "set_user" /\ c.desired = calls[r].desired /\ c.E = calls[r].E /\ c.at = "save" /\ c.doomed = rows
        /\ c.user = calls[r].user
    BY <1>1, <2>1 DEF Calls
  <2> HIDE DEF c
  <2>4. Tidy(c)
    BY <1>1, <2>1, <2>2, <2>3 DEF Tidy
  <2>5. QED
    BY <2>1, <2>4, ReadRevoked
<1>6. CASE LoadRoles(r)
  BY <1>6, EndRevoked, GotoRevoked DEF LoadRoles, At, grants, causes
<1>7. CASE ClearRoles(r)
  <2> DEFINE rows == {calls[r].user} \X (names_for_user(calls[r].user) \ keptRoles(calls[r].user))
             c == [calls[r] EXCEPT !.at = "save", !.doomed = rows]
  <2>1. /\ Become(r, c) /\ calls[r].at = "clear" /\ calls[r].kind = "set_members"
        /\ UNCHANGED <<enabled, role_permissions, user_permissions, unrevoked>>
    BY <1>7 DEF ClearRoles, At, grants, causes
  <2>2. \A row \in rows : row[1] = calls[r].user /\ row[2] \in Roles
    BY DEF names_for_user
  <2> HIDE DEF rows
  <2>3. c.kind = "set_members" /\ c.at = "save" /\ c.doomed = rows /\ c.user = calls[r].user
    BY <1>1, <2>1 DEF Calls
  <2> HIDE DEF c
  <2>4. Tidy(c)
    BY <2>2, <2>3 DEF Tidy
  <2>5. QED
    BY <2>1, <2>4, ReadRevoked
<1>8. QED
  BY <1>2, <1>3, <1>4, <1>5, <1>6, <1>7, SaveOverridesRevoked, SaveRolesRevoked DEF UserStep

LEMMA KeyRevoked ==
    ASSUME IInv, RevokedOK, NEW r \in Requests, KeyStep(r)
    PROVE  RevokedOK'
<1>1. calls[r] \in Calls /\ Tidy(calls[r])
  BY DEF IInv, RequestsOK, RevokedOK, CallsTidy
<1>2. /\ UNCHANGED <<enabled, role_permissions, user_permissions, unrevoked>>
      /\ calls[r].at \notin {"revoke_users", "revoked"}
  BY DEF KeyStep, Mint, RevokeKey, FindLiveKey, FindAccount, Resolve, Finish, At, grants, causes
<1>3. CASE Mint(r) \/ RevokeKey(r) \/ Finish(r)
  BY <1>2, <1>3, EndRevoked DEF Mint, RevokeKey, Finish
<1>4. CASE FindLiveKey(r)
  BY <1>2, <1>4, EndRevoked, GotoRevoked DEF FindLiveKey
<1>5. CASE FindAccount(r)
  BY <1>2, <1>5, EndRevoked, GotoRevoked DEF FindAccount
<1>6. CASE Resolve(r)
  <2> DEFINE held == effective_of(calls[r].user)
             got == IF calls[r].kind = "key" THEN narrowed(held, keys[calls[r].key].scopes) ELSE held
             c == [calls[r] EXCEPT !.at = "admitted", !.held = got]
  <2>1. Become(r, c) /\ calls[r].kind \in {"use", "key"}
    BY <1>6 DEF Resolve, At
  <2> HIDE DEF got
  <2>2. c.at = "admitted" /\ c.kind = calls[r].kind
    BY <1>1 DEF Calls
  <2> HIDE DEF c
  <2>3. Tidy(c)
    BY <2>1, <2>2 DEF Tidy
  <2>4. QED
    BY <1>2, <2>1, <2>3, ReadRevoked
<1>7. QED
  BY <1>3, <1>4, <1>5, <1>6 DEF KeyStep

LEMMA RevokedInit == Init => RevokedOK
<1> SUFFICES ASSUME Init PROVE RevokedOK
  OBVIOUS
<1>1. PICK mine \in SUBSET Custom, desired \in Selections, own \in Selections :
         /\ roles = [role \in Roles |-> IF role \in Static \cup mine THEN "live" ELSE "free"]
         /\ role_permissions = static_rows(enabled) \cup (mine \X desired_for_role(desired, enabled))
         /\ user_roles = (Users \X {"User"}) \cup {<<Owner, "Admin">>} \cup ((Users \ {Owner}) \X mine)
         /\ user_permissions = [u \in Users |->
               IF u = Owner THEN None
               ELSE [granted |-> desired_for_role(own, enabled) \ from_roles(names_for_user(u)), denied |-> {}]]
  BY DEF Init
<1>2. \A ticked : normalise(ticked) \in SUBSET Names
  BY NormalisedAreNames
<1>3. RolesTaken
  <2>1. SUFFICES ASSUME NEW app \in Off, NEW row \in role_permissions, owner_of(app, row[2]) PROVE FALSE
    BY DEF RolesTaken
  <2>2. PICK names \in SUBSET Names : row[2] \in for_enabled_apps(names, enabled)
    <3>1. CASE row \in static_rows(enabled)
      BY <3>1, PermissionsAssumption DEF static_rows, all_of, defaults_of
    <3>2. CASE row \in mine \X desired_for_role(desired, enabled)
      BY <1>2, <3>2 DEF desired_for_role
    <3>3. QED
      BY <1>1, <3>1, <3>2
  <2>3. QED
    BY <2>1, <2>2, PassedIsEnabled DEF Off
<1>4. UsersTaken
  <2>1. SUFFICES ASSUME NEW app \in Off, NEW u \in Users, NEW n \in Names, n \in user_permissions[u].granted,
                        owner_of(app, n)
                 PROVE  FALSE
    BY DEF UsersTaken
  <2>2. n \in desired_for_role(own, enabled)
    BY <1>1, <2>1 DEF None
  <2>3. QED
    BY <1>2, <2>1, <2>2, PassedIsEnabled DEF Off, desired_for_role
<1>5. CallsTidy
  BY IdleTidy DEF Init, CallsTidy
<1>6. QED
  BY <1>3, <1>4, <1>5 DEF RevokedOK

LEMMA RevokedNext == IInv /\ RevokedOK /\ [Next]_vars => RevokedOK'
<1> SUFFICES ASSUME IInv, RevokedOK, [Next]_vars PROVE RevokedOK'
  OBVIOUS
<1>1. ASSUME UNCHANGED <<enabled, role_permissions, user_permissions, unrevoked, calls>> PROVE RevokedOK'
  BY <1>1 DEF RevokedOK, RolesTaken, UsersTaken, TakenFromRoles, TakenFromUsers, Off, CallsTidy, Tidy
<1>2. ASSUME NEW u \in Users, StandingChanges(u) PROVE RevokedOK'
  BY <1>1, <1>2 DEF StandingChanges, grants, causes
<1>3. CASE UNCHANGED vars
  BY <1>1, <1>3 DEF vars, grants, causes
<1>4. QED
  BY <1>2, <1>3, ArrivalRevoked, AppRevoked, RoleRevoked, UserRevoked, KeyRevoked, AbortRevoked DEF Next, Arrives

LEMMA RevokedInvariant == Spec => []RevokedOK
BY RevokedInit, RevokedNext, Invariant, PTL DEF Spec

\* What anybody still holds of an app that is off is being deleted now, or its
\* uninstall has not come to its revocation, or died before the revocation was
\* committed, or it was granted by a request that had read the app as on.
THEOREM OffIsOff == Spec => []SwitchedOffIsOff
<1>1. IInv /\ RevokedOK => SwitchedOffIsOff
  <2>1. SUFFICES ASSUME IInv, RevokedOK, NEW app \in Optional \ (enabled \cup unrevoked), Reachable(app)
                 PROVE  Revoking(app)
    BY DEF SwitchedOffIsOff
  <2>2. app \in Off
    BY DEF Off
  <2>3. CASE \E row \in role_permissions : owner_of(app, row[2])
    BY <2>1, <2>2, <2>3 DEF RevokedOK, RolesTaken, TakenFromRoles, Revoking
  <2>4. CASE \E u \in Users : \E n \in user_permissions[u].granted : owner_of(app, n)
    <3>0. PICK u \in Users : \E n \in user_permissions[u].granted : owner_of(app, n)
      BY <2>4
    <3>1. PICK n \in user_permissions[u].granted : owner_of(app, n)
      BY <3>0
    <3>2. n \in Names
      BY <2>1 DEF IInv, RowsOK, RowsTyped, Overrides
    <3>3. TakenFromUsers(app, u, n)
      BY <2>1, <2>2, <3>1, <3>2 DEF RevokedOK, UsersTaken
    <3>4. QED
      BY <3>3 DEF TakenFromUsers, Revoking
  <2>5. QED
    BY <2>1, <2>3, <2>4 DEF Reachable
<1>2. QED
  BY <1>1, Invariant, RevokedInvariant, PTL

-----------------------------------------------------------------------------
(* What an edit changes of what an account holds                           *)

\* No more than it means to take or to give.
Meaning(r) == \A u \in Users :
    /\ \A n \in effective_of(u)' : n \in effective_of(u) \/ Gives(r, u, n)
    /\ \A n \in effective_of(u) : n \in effective_of(u)' \/ Takes(r, u, n)

\* In the rows: what the roles give, and what the account has of its own.
LEMMA HeldIs ==
    ASSUME NEW u, NEW n
    PROVE  n \in effective_of(u) <=>
              /\ n \notin user_permissions[u].denied
              /\ \/ n \in user_permissions[u].granted
                 \/ \E role \in Roles : <<u, role>> \in user_roles /\ <<role, n>> \in role_permissions /\ n \in Names
<1>1. n \in from_roles(names_for_user(u)) <=> \E role \in names_for_user(u) : n \in permissions_of(role)
  BY DEF from_roles
<1>2. n \in from_roles(names_for_user(u)) <=>
          \E role \in Roles : <<u, role>> \in user_roles /\ <<role, n>> \in role_permissions /\ n \in Names
  BY <1>1 DEF names_for_user, permissions_of
<1>3. QED
  BY <1>2 DEF effective_of, effective

LEMMA HeldIsNext ==
    ASSUME NEW u, NEW n
    PROVE  n \in effective_of(u)' <=>
              /\ n \notin user_permissions'[u].denied
              /\ \/ n \in user_permissions'[u].granted
                 \/ \E role \in Roles : <<u, role>> \in user_roles' /\ <<role, n>> \in role_permissions' /\ n \in Names
<1>1. n \in from_roles(names_for_user(u))' <=> \E role \in Roles : <<u, role>> \in user_roles' /\ n \in permissions_of(role)'
  BY DEF from_roles, names_for_user
<1>2. n \in from_roles(names_for_user(u))' <=>
          \E role \in Roles : <<u, role>> \in user_roles' /\ <<role, n>> \in role_permissions' /\ n \in Names
  BY <1>1 DEF permissions_of
<1>3. QED
  BY <1>2 DEF effective_of, effective

LEMMA HeldStays ==
    ASSUME NEW r, UNCHANGED <<role_permissions, user_roles, user_permissions>>
    PROVE  (\A u \in Users : effective_of(u)' = effective_of(u)) /\ Meaning(r)
<1>1. \A u \in Users : effective_of(u)' = effective_of(u)
  BY DEF effective_of, from_roles, names_for_user, permissions_of
<1>2. QED
  BY <1>1 DEF Meaning

\* A sync gives the static roles what they are given, and takes the rest from Admin.
LEMMA GrantStaticMeans ==
    ASSUME IInv, RevokedOK, NEW r \in Requests, GrantStatic(r)
    PROVE  Meaning(r)
<1>1. /\ calls[r].at = "grant_static" /\ \A row \in calls[r].doomed : row[1] = "Admin"
      /\ role_permissions' = (role_permissions \ calls[r].doomed) \cup static_rows(calls[r].E)
      /\ UNCHANGED <<user_roles, user_permissions>>
  BY DEF GrantStatic, At, people, RevokedOK, CallsTidy, Tidy
<1>2. ASSUME NEW u \in Users, NEW n \in effective_of(u)', n \notin effective_of(u) PROVE Gives(r, u, n)
  <2>1. PICK role \in Roles : <<u, role>> \in user_roles /\ <<role, n>> \in role_permissions' /\ n \in Names
        /\ <<role, n>> \notin role_permissions
    BY <1>1, <1>2, HeldIs, HeldIsNext
  <2>2. <<role, n>> \in static_rows(calls[r].E) /\ role \in names_for_user(u)
    BY <1>1, <2>1 DEF names_for_user
  <2>3. QED
    BY <1>1, <2>2 DEF Gives
<1>3. ASSUME NEW u \in Users, NEW n \in effective_of(u), n \notin effective_of(u)' PROVE Takes(r, u, n)
  <2>1. PICK role \in Roles : <<u, role>> \in user_roles /\ <<role, n>> \in role_permissions /\ n \in Names
        /\ <<role, n>> \notin role_permissions'
    BY <1>1, <1>3, HeldIs, HeldIsNext
  <2>2. <<role, n>> \in calls[r].doomed /\ <<role, n>> \notin static_rows(calls[r].E)
    BY <1>1, <2>1
  <2>3. role = "Admin"
    BY <1>1, <2>2
  <2>4. "Admin" \in names_for_user(u) /\ n \notin all_of(calls[r].E)
    BY <2>1, <2>2, <2>3 DEF names_for_user, static_rows
  <2>5. QED
    BY <1>1, <2>4 DEF Takes
<1>4. QED
  BY <1>2, <1>3 DEF Meaning

\* A revocation takes its own app from roles and accounts, a denial with the rest.
LEMMA CommitRevocationMeans ==
    ASSUME IInv, RevokedOK, NEW r \in Requests, CommitRevocation(r)
    PROVE  Meaning(r)
<1>1. /\ calls[r].at = "revoked" /\ \A row \in calls[r].doomed : owns(calls[r].app, row[2])
      /\ role_permissions' = role_permissions \ calls[r].doomed /\ user_roles' = user_roles
      /\ user_permissions' = without(calls[r].doomed)
  BY DEF CommitRevocation, At, people, IInv, RequestsOK, CallsSound, Sound
<1>2. ASSUME NEW u \in Users, NEW n, \/ n \in effective_of(u)' /\ n \notin effective_of(u)
                                     \/ n \in effective_of(u) /\ n \notin effective_of(u)'
      PROVE  owns(calls[r].app, n)
  <2>1. /\ user_permissions'[u].granted = {m \in user_permissions[u].granted : <<u, m>> \notin calls[r].doomed}
        /\ user_permissions'[u].denied = {m \in user_permissions[u].denied : <<u, m>> \notin calls[r].doomed}
    BY <1>1 DEF without
  <2>2. \/ <<u, n>> \in calls[r].doomed
        \/ \E role \in Roles : <<role, n>> \in calls[r].doomed
    BY <1>1, <1>2, <2>1, HeldIs, HeldIsNext
  <2>3. PICK x : <<x, n>> \in calls[r].doomed
    BY <2>2
  <2>4. QED
    BY <1>1, <2>3
<1>3. ASSUME NEW u \in Users, NEW n, owns(calls[r].app, n) PROVE Gives(r, u, n) /\ Takes(r, u, n)
  BY <1>1, <1>3 DEF Gives, Takes
<1>4. ASSUME NEW u \in Users, NEW n \in effective_of(u)', n \notin effective_of(u) PROVE Gives(r, u, n)
  <2>1. owns(calls[r].app, n)
    BY <1>2, <1>4
  <2>2. QED
    BY <1>3, <2>1
<1>5. ASSUME NEW u \in Users, NEW n \in effective_of(u), n \notin effective_of(u)' PROVE Takes(r, u, n)
  <2>1. owns(calls[r].app, n)
    BY <1>2, <1>5
  <2>2. QED
    BY <1>3, <2>1
<1>6. QED
  BY <1>4, <1>5 DEF Meaning

\* The edit of a role changes what its holders have from it.
LEMMA SaveRoleMeans ==
    ASSUME IInv, NEW r \in Requests, SaveRole(r)
    PROVE  Meaning(r)
<1>1. /\ At(r, {"set_role"}, "save") /\ calls[r].role \in Roles
      /\ \A row \in calls[r].doomed : row[1] = calls[r].role
      /\ UNCHANGED <<user_roles, user_permissions>>
  BY DEF SaveRole, At, people, IInv, RequestsOK, CallsSound, Sound
<1>2. CASE role_permissions' = role_permissions
  BY <1>1, <1>2, HeldStays
<1>3. CASE role_permissions' = (role_permissions \ calls[r].doomed) \cup ({calls[r].role} \X calls[r].desired)
  <2>1. ASSUME NEW u \in Users, NEW n \in effective_of(u)', n \notin effective_of(u) PROVE Gives(r, u, n)
    <3>1. PICK role \in Roles : <<u, role>> \in user_roles /\ <<role, n>> \in role_permissions' /\ n \in Names
          /\ <<role, n>> \notin role_permissions
      BY <1>1, <2>1, HeldIs, HeldIsNext
    <3>2. role = calls[r].role /\ n \in calls[r].desired /\ role \in names_for_user(u)
      BY <1>3, <3>1 DEF names_for_user
    <3>3. QED
      BY <1>1, <3>2 DEF Gives
  <2>2. ASSUME NEW u \in Users, NEW n \in effective_of(u), n \notin effective_of(u)' PROVE Takes(r, u, n)
    <3>1. PICK role \in Roles : <<u, role>> \in user_roles /\ <<role, n>> \in role_permissions /\ n \in Names
          /\ <<role, n>> \notin role_permissions'
      BY <1>1, <2>2, HeldIs, HeldIsNext
    <3>2. <<role, n>> \in calls[r].doomed /\ <<role, n>> \notin {calls[r].role} \X calls[r].desired
      BY <1>3, <3>1
    <3>3. role = calls[r].role /\ n \notin calls[r].desired /\ role \in names_for_user(u)
      BY <1>1, <3>1, <3>2 DEF names_for_user
    <3>4. QED
      BY <1>1, <3>3 DEF Takes
  <2>3. QED
    BY <2>1, <2>2 DEF Meaning
<1>4. QED
  BY <1>2, <1>3 DEF SaveRole

LEMMA DeleteRoleMeans ==
    ASSUME IInv, NEW r \in Requests, DeleteRole(r)
    PROVE  Meaning(r)
<1>1. /\ calls[r].at = "delete" /\ user_permissions' = user_permissions
      /\ role_permissions' = {row \in role_permissions : row[1] # calls[r].role}
      /\ user_roles' = {row \in user_roles : row[2] # calls[r].role}
  BY DEF DeleteRole, At
<1>2. ASSUME NEW u \in Users, NEW n \in effective_of(u)' PROVE n \in effective_of(u)
  BY <1>1, HeldIs, HeldIsNext
<1>3. ASSUME NEW u \in Users, NEW n \in effective_of(u), n \notin effective_of(u)' PROVE Takes(r, u, n)
  <2>1. PICK role \in Roles : /\ <<u, role>> \in user_roles /\ <<role, n>> \in role_permissions /\ n \in Names
                              /\ <<u, role>> \notin user_roles' \/ <<role, n>> \notin role_permissions'
    BY <1>1, <1>3, HeldIs, HeldIsNext
  <2>2. role = calls[r].role
    BY <1>1, <2>1
  <2>3. QED
    BY <1>1, <2>1, <2>2 DEF Takes, names_for_user, permissions_of
<1>4. QED
  BY <1>2, <1>3 DEF Meaning

\* The edit of an account makes it hold what was ticked, by what its roles gave when
\* that was read.
LEMMA SaveOverridesMeans ==
    ASSUME IInv, RevokedOK, NEW r \in Requests, SaveOverrides(r)
    PROVE  Meaning(r)
<1> DEFINE ticked == normalise(calls[r].desired)
           read == calls[r].held
           overrides == overrides_for(calls[r].held, calls[r].desired)
           left == without(calls[r].doomed)
<1>1. /\ At(r, {"set_user"}, "save") /\ \A row \in calls[r].doomed : row[1] = calls[r].user
      /\ UNCHANGED <<role_permissions, user_roles>>
      /\ user_permissions' = [left EXCEPT ![calls[r].user] = set_overrides(@, overrides)]
  BY DEF SaveOverrides, At, people, RevokedOK, CallsTidy, Tidy
<1>2. /\ overrides.granted = ticked \ read /\ overrides.denied = read \ ticked
  BY DEF overrides_for
<1>3. ASSUME NEW u \in Users
      PROVE  /\ left[u].granted = {n \in user_permissions[u].granted : <<u, n>> \notin calls[r].doomed}
             /\ left[u].denied = {n \in user_permissions[u].denied : <<u, n>> \notin calls[r].doomed}
             /\ user_permissions[u].granted \cap user_permissions[u].denied = {}
  <2>1. user_permissions[u].granted \cap user_permissions[u].denied = {}
    BY DEF IInv, RowsOK, RowsTyped, Overrides
  <2>2. QED
    BY <2>1 DEF without
<1>4. left = [u \in Users |-> left[u]]
  BY DEF without
<1> HIDE DEF left, overrides, ticked, read
<1>5. ASSUME NEW u \in Users, u # calls[r].user, NEW n PROVE n \in effective_of(u)' <=> n \in effective_of(u)
  <2>1. user_permissions'[u] = left[u]
    BY <1>1, <1>4, <1>5
  <2>2. \A m : <<u, m>> \notin calls[r].doomed
    BY <1>1, <1>5
  <2>3. /\ user_permissions'[u].granted = user_permissions[u].granted
        /\ user_permissions'[u].denied = user_permissions[u].denied
    BY <1>3, <2>1, <2>2
  <2>4. QED
    BY <1>1, <2>3, HeldIs, HeldIsNext
<1>6. ASSUME NEW u \in Users, u = calls[r].user, NEW n
      PROVE  /\ n \in effective_of(u)' => n \in effective_of(u) \/ Gives(r, u, n)
             /\ n \in effective_of(u) => n \in effective_of(u)' \/ Takes(r, u, n)
  <2> DEFINE given == \E role \in Roles : <<u, role>> \in user_roles /\ <<role, n>> \in role_permissions /\ n \in Names
  <2>1. user_permissions'[u] = set_overrides(left[u], overrides)
    BY <1>1, <1>4, <1>6
  <2>2. /\ user_permissions'[u].granted = (left[u].granted \ overrides.denied) \cup overrides.granted
        /\ user_permissions'[u].denied = (left[u].denied \ overrides.granted) \cup overrides.denied
    BY <2>1 DEF set_overrides
  <2>3. given <=> n \in from_roles(names_for_user(u))
    BY DEF from_roles, names_for_user, permissions_of
  <2>4. n \in effective_of(u) <=> n \notin user_permissions[u].denied /\ (n \in user_permissions[u].granted \/ given)
    BY HeldIs, HeldIsNext
  <2>5. n \in effective_of(u)' <=> n \notin user_permissions'[u].denied /\ (n \in user_permissions'[u].granted \/ given)
    BY <1>1, HeldIs, HeldIsNext
  <2>6. Gives(r, u, n) <=> n \in ticked \/ (given /\ n \notin read)
    BY <1>1, <1>6, <2>3 DEF Gives, At, ticked, read
  <2>7. Takes(r, u, n) <=> n \notin ticked \/ (n \in read /\ ~given)
    BY <1>1, <1>6, <2>3 DEF Takes, At, ticked, read
  <2> HIDE DEF given
  <2>8. /\ n \in user_permissions'[u].granted <=>
              (n \in left[u].granted /\ ~(n \in read /\ n \notin ticked)) \/ (n \in ticked /\ n \notin read)
        /\ n \in user_permissions'[u].denied <=>
              (n \in left[u].denied /\ ~(n \in ticked /\ n \notin read)) \/ (n \in read /\ n \notin ticked)
    BY <1>2, <2>2
  <2>9. /\ n \in left[u].granted => n \in user_permissions[u].granted /\ n \notin user_permissions[u].denied
        /\ n \in left[u].denied => n \in user_permissions[u].denied
    BY <1>3
  <2>10. QED
    BY <2>4, <2>5, <2>6, <2>7, <2>8, <2>9
<1>7. QED
  BY <1>5, <1>6 DEF Meaning

\* The edit of an account's roles leaves it what the chosen ones give.
LEMMA SaveRolesMeans ==
    ASSUME IInv, RevokedOK, NEW r \in Requests, SaveRoles(r)
    PROVE  Meaning(r)
<1> DEFINE chosen == existing(calls[r].roles)
<1>1. /\ At(r, {"set_members"}, "save") /\ \A row \in calls[r].doomed : row[1] = calls[r].user
      /\ UNCHANGED <<role_permissions, user_permissions>>
      /\ user_roles' = (user_roles \ calls[r].doomed) \cup ({calls[r].user} \X chosen)
  BY DEF SaveRoles, At, grants, RevokedOK, CallsTidy, Tidy
<1> HIDE DEF chosen
<1>2. ASSUME NEW u \in Users, NEW n \in effective_of(u)', n \notin effective_of(u) PROVE Gives(r, u, n)
  <2>1. PICK role \in Roles : /\ <<u, role>> \in user_roles' /\ <<role, n>> \in role_permissions /\ n \in Names
                              /\ <<u, role>> \notin user_roles
    BY <1>1, <1>2, HeldIs, HeldIsNext
  <2>2. u = calls[r].user /\ role \in chosen
    BY <1>1, <2>1
  <2>3. QED
    BY <1>1, <2>1, <2>2 DEF Gives, chosen, from_roles, permissions_of
<1>3. ASSUME NEW u \in Users, NEW n \in effective_of(u), n \notin effective_of(u)' PROVE Takes(r, u, n)
  <2>1. PICK role \in Roles : /\ <<u, role>> \in user_roles /\ <<role, n>> \in role_permissions /\ n \in Names
                              /\ <<u, role>> \notin user_roles'
    BY <1>1, <1>3, HeldIs, HeldIsNext
  <2>2. u = calls[r].user
    BY <1>1, <2>1
  <2>3. \A other \in Roles : <<u, other>> \in user_roles' => <<other, n>> \notin role_permissions
    BY <1>1, <1>3, <2>1, HeldIs, HeldIsNext
  <2>4. \A other \in chosen : <<u, other>> \in user_roles'
    BY <1>1, <2>2
  <2>5. chosen \subseteq Roles
    BY DEF chosen, existing, Live
  <2>6. n \notin from_roles(chosen)
    BY <2>3, <2>4, <2>5 DEF from_roles, permissions_of
  <2>7. QED
    BY <1>1, <2>2, <2>6 DEF Takes, chosen
<1>4. QED
  BY <1>2, <1>3 DEF Meaning

-----------------------------------------------------------------------------
(* What a request that acts for somebody goes by                           *)

\* What a caller has of names: somebody who is signed in all of it, a key what its
\* scopes cover.
Covered(call, scopes, names) ==
    IF call.kind = "key" THEN {n \in names : (Above[n] \cup {n}) \cap scopes # {}} ELSE names

\* A request that acts has what its account had when it came, but for what edits
\* meant to take and to give since: its account until it has read that, and itself
\* from then on.
Meant(q) ==
    LET call == calls[q]
        seen == watched[q]
    IN  call.kind \in {"use", "key"} /\ call.at # "idle" =>
            /\ call.kind = "key" => keys[call.key].state # "free"
            /\ call.at # "admitted" =>
                  /\ seen.had \ seen.taken \subseteq effective_of(call.user)
                  /\ effective_of(call.user) \subseteq seen.had \cup seen.given
            /\ call.at = "admitted" =>
                  /\ Covered(call, keys[call.key].scopes, seen.had \ seen.taken) \subseteq call.held
                  /\ call.held \subseteq Covered(call, keys[call.key].scopes, seen.had \cup seen.given)

MeantOK == \A q \in Requests : Meant(q)

\* A key that was minted stays what it was, live or over.
KeysStay == \A k \in Keys : keys[k].state # "free" =>
                keys'[k].state # "free" /\ keys'[k].scopes = keys[k].scopes

\* What edits change of what the accounts hold is what they mean to.
MeaningOf(edits) == \A u \in Users :
    /\ \A n \in effective_of(u)' : n \in effective_of(u) \/ \E q \in edits : Gives(q, u, n)
    /\ \A n \in effective_of(u) : n \in effective_of(u)' \/ \E q \in edits : Takes(q, u, n)

LEMMA EffectiveAreNamesNext ==
    ASSUME TypeOK', NEW u \in Users
    PROVE  effective_of(u)' \subseteq Names
<1>1. user_permissions'[u].granted \subseteq Names
  BY DEF TypeOK, Overrides
<1>2. from_roles(names_for_user(u))' \subseteq Names
  BY DEF from_roles, permissions_of
<1>3. QED
  BY <1>1, <1>2 DEF effective_of, effective

\* What is kept of a request that has not read yet covers what its account holds.
LEMMA SeenCovers ==
    ASSUME IInv, IInv', NEW edits, Watch(edits), MeaningOf(edits),
           NEW q \in Requests, calls[q].at \notin {"idle", "admitted"}, calls[q].kind \in {"use", "key"},
           calls'[q].at # "idle", calls'[q].kind = calls[q].kind, calls'[q].user = calls[q].user,
           Meant(q)
    PROVE  /\ watched'[q].had \ watched'[q].taken \subseteq effective_of(calls[q].user) \cap effective_of(calls[q].user)'
           /\ effective_of(calls[q].user) \cup effective_of(calls[q].user)' \subseteq watched'[q].had \cup watched'[q].given
<1> DEFINE u == calls[q].user
           given == {n \in Names : \E e \in edits : Gives(e, u, n)}
           taken == {n \in Names : \E e \in edits : Takes(e, u, n)}
<1>1. u \in Users /\ watched[q] \in Seen
  BY DEF IInv, RequestsOK, CallsSound, Sound
<1>2. watched'[q] = [watched[q] EXCEPT !.given = @ \cup given, !.taken = @ \cup taken]
  BY DEF Watch
<1>3. /\ \A n \in effective_of(u)' : n \in effective_of(u) \/ n \in given
      /\ \A n \in effective_of(u) : n \in effective_of(u)' \/ n \in taken
  <2>0. TypeOK /\ TypeOK'
    BY IInvTypes, PTL
  <2>1. effective_of(u) \subseteq Names /\ effective_of(u)' \subseteq Names
    BY <1>1, <2>0, EffectiveAreNames, EffectiveAreNamesNext
  <2>2. /\ \A n \in effective_of(u)' : n \in effective_of(u) \/ \E e \in edits : Gives(e, u, n)
        /\ \A n \in effective_of(u) : n \in effective_of(u)' \/ \E e \in edits : Takes(e, u, n)
    BY <1>1 DEF MeaningOf
  <2>3. QED
    BY <2>1, <2>2
<1>4. /\ watched[q].had \ watched[q].taken \subseteq effective_of(u)
      /\ effective_of(u) \subseteq watched[q].had \cup watched[q].given
  BY DEF Meant
<1> HIDE DEF given, taken
<1>5. /\ watched'[q].had = watched[q].had /\ watched'[q].given = watched[q].given \cup given
      /\ watched'[q].taken = watched[q].taken \cup taken
  BY <1>1, <1>2 DEF Seen
<1> HIDE DEF u
<1>6. QED
  BY <1>3, <1>4, <1>5 DEF u

\* A request whose own step is not about what it acts on.
LEMMA MeantStays ==
    ASSUME IInv, IInv', KeysStay, NEW edits, Watch(edits), MeaningOf(edits),
           NEW q \in Requests, Meant(q), calls'[q].kind = calls[q].kind, calls'[q].user = calls[q].user,
           calls'[q].key = calls[q].key, calls'[q].held = calls[q].held, calls[q].at # "idle",
           calls'[q].at = calls[q].at \/ (calls[q].at # "admitted" /\ calls'[q].at # "admitted")
    PROVE  Meant(q)'
<1> SUFFICES ASSUME calls[q].kind \in {"use", "key"}, calls'[q].at # "idle" PROVE Meant(q)'
  BY DEF Meant
<1>1. ASSUME calls[q].kind = "key"
      PROVE  keys'[calls[q].key].state # "free" /\ keys'[calls[q].key].scopes = keys[calls[q].key].scopes
  <2>1. calls[q].key \in Keys /\ keys[calls[q].key].state # "free"
    BY <1>1 DEF IInv, RequestsOK, CallsSound, Sound, Meant
  <2>2. QED
    BY <2>1 DEF KeysStay
<1>2. CASE calls[q].at = "admitted"
  <2>1. watched'[q] = watched[q]
    BY <1>2 DEF Watch
  <2>2. \A names : Covered(calls[q], keys[calls[q].key].scopes, names)
                       = Covered(calls'[q], keys'[calls'[q].key].scopes, names)
    BY <1>1 DEF Covered
  <2>3. /\ Covered(calls[q], keys[calls[q].key].scopes, watched[q].had \ watched[q].taken) \subseteq calls[q].held
        /\ calls[q].held \subseteq Covered(calls[q], keys[calls[q].key].scopes, watched[q].had \cup watched[q].given)
    BY <1>2 DEF Meant
  <2>4. /\ Covered(calls'[q], keys'[calls'[q].key].scopes, watched'[q].had \ watched'[q].taken) \subseteq calls'[q].held
        /\ calls'[q].held \subseteq Covered(calls'[q], keys'[calls'[q].key].scopes, watched'[q].had \cup watched'[q].given)
    BY <2>1, <2>2, <2>3
  <2>5. QED
    BY <1>1, <1>2, <2>4 DEF Meant, Covered
<1>3. CASE calls[q].at # "admitted"
  <2>1. /\ watched'[q].had \ watched'[q].taken \subseteq effective_of(calls[q].user)'
        /\ effective_of(calls[q].user)' \subseteq watched'[q].had \cup watched'[q].given
    BY <1>3, SeenCovers
  <2>2. QED
    BY <1>1, <1>3, <2>1 DEF Meant
<1>4. QED
  BY <1>2, <1>3

LEMMA OthersMeant ==
    ASSUME IInv, IInv', MeantOK, KeysStay, NEW edits, Watch(edits), MeaningOf(edits),
           NEW r \in Requests, OthersStay(r), Meant(r)'
    PROVE  MeantOK'
<1>1. ASSUME NEW q \in Requests \ {r} PROVE Meant(q)'
  <2>1. CASE calls[q].at = "idle"
    BY <2>1 DEF OthersStay, Meant
  <2>2. CASE calls[q].at # "idle"
    BY <2>2, MeantStays DEF OthersStay, MeantOK
  <2>3. QED
    BY <2>1, <2>2
<1>2. QED
  BY <1>1 DEF MeantOK

\* A step that writes nothing.
RowsSame == UNCHANGED <<role_permissions, user_roles, user_permissions>>

LEMMA SameMeans ==
    ASSUME RowsSame, NEW edits
    PROVE  MeaningOf(edits) /\ \A u \in Users : effective_of(u)' = effective_of(u)
<1>1. \A u \in Users : effective_of(u)' = effective_of(u)
  BY HeldStays DEF RowsSame
<1>2. QED
  BY <1>1 DEF MeaningOf

\* A step of a request that acts for nobody.
LEMMA EditMeant ==
    ASSUME IInv, IInv', MeantOK, keys' = keys, NEW r \in Requests, NEW call,
           Become(r, call) \/ Committed(r, call), call.kind \notin {"use", "key"} \/ call.at = "idle",
           RowsSame \/ (Meaning(r) /\ call.at # calls[r].at)
    PROVE  MeantOK'
<1>1. calls'[r] = call /\ OthersStay(r) /\ Watch(Moved)
  <2>1. CASE Become(r, call)
    <3>1. calls' = [calls EXCEPT ![r] = call] /\ Watch(Moved)
      BY <2>1 DEF Become, Observe
    <3>2. QED
      BY <3>1, BecomeStays
  <2>2. CASE Committed(r, call)
    <3>1. calls'[r] = call /\ OthersStay(r)
      BY <2>2, CommittedStays
    <3>2. QED
      BY <2>2, <3>1 DEF Committed, Observe
  <2>3. QED
    BY <2>1, <2>2
<1>2. MeaningOf(Moved)
  <2>1. CASE RowsSame
    BY <2>1, SameMeans
  <2>2. CASE Meaning(r) /\ call.at # calls[r].at
    <3>1. r \in Moved
      BY <1>1, <2>2 DEF Moved
    <3>2. QED
      BY <2>2, <3>1 DEF Meaning, MeaningOf
  <2>3. QED
    BY <2>1, <2>2
<1>3. Meant(r)'
  BY <1>1 DEF Meant
<1>4. KeysStay
  BY DEF KeysStay
<1>5. QED
  BY <1>1, <1>2, <1>3, <1>4, OthersMeant

LEMMA EndMeant ==
    ASSUME IInv, IInv', MeantOK, keys' = keys, NEW r \in Requests, End(r),
           RowsSame \/ (Meaning(r) /\ calls[r].at # "idle")
    PROVE  MeantOK'
<1>1. Idle.at = "idle"
  BY DEF Idle
<1>2. QED
  BY <1>1, EditMeant DEF End

LEMMA GotoMeant ==
    ASSUME IInv, IInv', MeantOK, keys' = keys, RowsSame, NEW r \in Requests, NEW place, Goto(r, place),
           calls[r].kind \notin {"use", "key"}
    PROVE  MeantOK'
<1>1. [calls[r] EXCEPT !.at = place].kind = calls[r].kind
  BY DEF IInv, RequestsOK, Calls
<1>2. QED
  BY <1>1, EditMeant DEF Goto

LEMMA ArrivalMeant ==
    ASSUME IInv, IInv', MeantOK, NEW r \in Requests, Arrives(r)
    PROVE  MeantOK'
<1>1. PICK kind, call : Newcomer(r, kind, call)
  BY ArrivalIs
<1> DEFINE c == [call EXCEPT !.kind = kind]
<1>2. /\ Become(r, c) /\ c.at \notin {"idle", "admitted"} /\ calls[r].at = "idle"
      /\ keys' = keys /\ RowsSame /\ (c.kind = "key" => keys[c.key].state # "free")
  BY <1>1 DEF Newcomer, Arrive, grants, people, RowsSame
<1> HIDE DEF c
<1>3. calls'[r] = c /\ OthersStay(r) /\ Watch(Moved)
  BY <1>2, BecomeStays DEF Become, Observe
<1>4. MeaningOf(Moved) /\ KeysStay /\ \A u \in Users : effective_of(u)' = effective_of(u)
  BY <1>2, SameMeans DEF KeysStay
<1>5. Meant(r)'
  <2>1. SUFFICES ASSUME c.kind \in {"use", "key"} PROVE Meant(r)'
    BY <1>3 DEF Meant
  <2>2. watched'[r] = [Unseen EXCEPT !.had = effective_of(c.user)]
    BY <1>2, <1>3, <2>1 DEF Watch
  <2>3. c.user \in Users
    BY <1>3, <2>1 DEF IInv, RequestsOK, CallsSound, Sound
  <2>4. watched'[r].had = effective_of(c.user) /\ watched'[r].given = {} /\ watched'[r].taken = {}
    BY <2>2 DEF Unseen
  <2>5. effective_of(c.user)' = effective_of(c.user)
    BY <1>4, <2>3
  <2>6. QED
    BY <1>2, <1>3, <2>4, <2>5 DEF Meant
<1>6. QED
  BY <1>3, <1>4, <1>5, OthersMeant

LEMMA AppMeant ==
    ASSUME IInv, IInv', RevokedOK, MeantOK, NEW r \in Requests, AppStep(r)
    PROVE  MeantOK'
<1>1. /\ calls[r] \in Calls /\ calls[r].kind \notin {"use", "key"} /\ keys' = keys
  BY DEF IInv, RequestsOK, AppStep, Enable, CheckDependants, Disable, ReadEnabledForSync, ClearAdmin, GrantStatic,
         RevokeRoles, RevokeUsers, CommitRevocation, At
<1>2. CASE Enable(r)
  <2>1. RowsSame
    BY <1>2 DEF Enable, grants, people, RowsSame
  <2>2. ASSUME NEW todo, NEW switched, NEW place,
               Become(r, [calls[r] EXCEPT !.todo = todo, !.switched = switched, !.at = place])
        PROVE  MeantOK'
    <3>1. [calls[r] EXCEPT !.todo = todo, !.switched = switched, !.at = place].kind = calls[r].kind
      BY <1>1 DEF Calls
    <3>2. QED
      BY <1>1, <2>1, <2>2, <3>1, EditMeant
  <2>3. PICK app \in calls[r].todo :
           LET todo == calls[r].todo \ {app}
               switched == calls[r].switched \/ app \notin enabled
           IN  IF todo = {} /\ ~switched THEN End(r)
               ELSE Become(r, [calls[r] EXCEPT !.todo = todo, !.switched = switched,
                                  !.at = IF todo = {} THEN "sync" ELSE "enable"])
    BY <1>2 DEF Enable
  <2> DEFINE todo == calls[r].todo \ {app}
             switched == calls[r].switched \/ app \notin enabled
             place == IF todo = {} THEN "sync" ELSE "enable"
  <2>4. End(r) \/ Become(r, [calls[r] EXCEPT !.todo = todo, !.switched = switched, !.at = place])
    BY <2>3
  <2> HIDE DEF todo, switched, place
  <2>5. QED
    BY <1>1, <2>1, <2>2, <2>4, EndMeant
<1>3. CASE CheckDependants(r) \/ Disable(r)
  <2>1. RowsSame /\ (End(r) \/ \E place : Goto(r, place))
    BY <1>3 DEF CheckDependants, Disable, grants, people, RowsSame
  <2>2. QED
    BY <1>1, <2>1, EndMeant, GotoMeant
<1>4. CASE ReadEnabledForSync(r)
  <2>1. [calls[r] EXCEPT !.at = "clear_admin", !.E = enabled].kind = calls[r].kind
    BY <1>1 DEF Calls
  <2>2. RowsSame /\ Become(r, [calls[r] EXCEPT !.at = "clear_admin", !.E = enabled])
    BY <1>4 DEF ReadEnabledForSync, grants, people, RowsSame
  <2>3. QED
    BY <1>1, <2>1, <2>2, EditMeant
<1>5. ASSUME NEW place, NEW rows, Become(r, [calls[r] EXCEPT !.at = place, !.doomed = rows]), RowsSame
      PROVE  MeantOK'
  <2>1. [calls[r] EXCEPT !.at = place, !.doomed = rows].kind = calls[r].kind
    BY <1>1 DEF Calls
  <2>2. QED
    BY <1>1, <1>5, <2>1, EditMeant
<1>6. CASE ClearAdmin(r)
  BY <1>5, <1>6 DEF ClearAdmin, grants, people, RowsSame
<1>7. CASE GrantStatic(r)
  <2> DEFINE c == [calls[r] EXCEPT !.at = "revoke_roles", !.doomed = {}, !.E = {}]
  <2>1. calls[r].at = "grant_static" /\ (Committed(r, c) \/ Committed(r, Idle))
    BY <1>7 DEF GrantStatic, At
  <2>2. c.kind = calls[r].kind /\ c.at = "revoke_roles"
    BY <1>1 DEF Calls
  <2> HIDE DEF c
  <2>3. Idle.at = "idle" /\ Meaning(r)
    BY <1>7, GrantStaticMeans DEF Idle
  <2>4. QED
    BY <1>1, <2>1, <2>2, <2>3, EditMeant
<1>8. CASE RevokeRoles(r)
  BY <1>5, <1>8 DEF RevokeRoles, grants, people, RowsSame
<1>9. CASE RevokeUsers(r)
  <2> DEFINE rows == calls[r].doomed \cup
                {row \in Users \X Names : row[2] \in overridden(row[1]) /\ owns(calls[r].app, row[2])}
  <2>1. RowsSame /\ Become(r, [calls[r] EXCEPT !.at = "revoked", !.doomed = rows])
    BY <1>9 DEF RevokeUsers, grants, people, RowsSame
  <2> HIDE DEF rows
  <2>2. QED
    BY <1>5, <2>1
<1>10. CASE CommitRevocation(r)
  <2>1. calls[r].at = "revoked" /\ Committed(r, Idle) /\ Meaning(r) /\ Idle.at = "idle"
    BY <1>10, CommitRevocationMeans DEF CommitRevocation, At, Idle
  <2>2. QED
    BY <1>1, <2>1, EditMeant
<1>11. QED
  BY <1>2, <1>3, <1>4, <1>6, <1>7, <1>8, <1>9, <1>10 DEF AppStep

LEMMA RoleMeant ==
    ASSUME IInv, IInv', MeantOK, NEW r \in Requests, RoleStep(r)
    PROVE  MeantOK'
<1>1. /\ calls[r] \in Calls /\ calls[r].kind \notin {"use", "key"} /\ keys' = keys
  BY DEF IInv, RequestsOK, RoleStep, ReadRole, FilterForRole, ClearRole, SaveRole, CreateRole, FindRole, DeleteRole, At
<1>2. CASE ReadRole(r)
  <2>1. [calls[r] EXCEPT !.at = "enabled", !.held = permissions_of(calls[r].role)].kind = calls[r].kind
    BY <1>1 DEF Calls
  <2>2. RowsSame /\ (End(r) \/ Become(r, [calls[r] EXCEPT !.at = "enabled", !.held = permissions_of(calls[r].role)]))
    BY <1>2 DEF ReadRole, grants, people, RowsSame
  <2>3. QED
    BY <1>1, <2>1, <2>2, EndMeant, EditMeant
<1>3. CASE FilterForRole(r)
  <2>1. ASSUME NEW desired PROVE [calls[r] EXCEPT !.at = "clear", !.desired = desired, !.E = enabled].kind = calls[r].kind
    BY <1>1 DEF Calls
  <2>2. RowsSame /\ (End(r) \/ \E desired : Become(r, [calls[r] EXCEPT !.at = "clear", !.desired = desired, !.E = enabled]))
    BY <1>3 DEF FilterForRole, grants, people, RowsSame
  <2>3. QED
    BY <1>1, <2>1, <2>2, EndMeant, EditMeant
<1>4. CASE ClearRole(r)
  <2> DEFINE rows == {calls[r].role} \X permissions_of(calls[r].role)
  <2>1. [calls[r] EXCEPT !.at = "save", !.doomed = rows].kind = calls[r].kind
    BY <1>1 DEF Calls
  <2>2. RowsSame /\ Become(r, [calls[r] EXCEPT !.at = "save", !.doomed = rows])
    BY <1>4 DEF ClearRole, grants, people, RowsSame
  <2>3. QED
    BY <1>1, <2>1, <2>2, EditMeant
<1>5. CASE SaveRole(r)
  <2>1. (Committed(r, Idle) \/ Become(r, Idle)) /\ calls[r].at = "save" /\ Meaning(r) /\ Idle.at = "idle"
    BY <1>5, SaveRoleMeans DEF SaveRole, At, Idle, End
  <2>2. QED
    BY <1>1, <2>1, EditMeant
<1>6. CASE CreateRole(r) \/ FindRole(r)
  <2>1. RowsSame /\ (End(r) \/ \E place : Goto(r, place))
    BY <1>6 DEF CreateRole, FindRole, grants, people, RowsSame
  <2>2. QED
    BY <1>1, <2>1, EndMeant, GotoMeant
<1>7. CASE DeleteRole(r)
  <2>1. End(r) /\ calls[r].at = "delete" /\ Meaning(r)
    BY <1>7, DeleteRoleMeans DEF DeleteRole, At
  <2>2. QED
    BY <1>1, <2>1, EndMeant
<1>8. QED
  BY <1>2, <1>3, <1>4, <1>5, <1>6, <1>7 DEF RoleStep

LEMMA UserMeant ==
    ASSUME IInv, IInv', RevokedOK, MeantOK, NEW r \in Requests, UserStep(r)
    PROVE  MeantOK'
<1>1. /\ calls[r] \in Calls /\ calls[r].kind \notin {"use", "key"} /\ keys' = keys
  BY DEF IInv, RequestsOK, UserStep, ReadUser, ReadFromRoles, FilterForUser, ClearOverrides, SaveOverrides, LoadRoles,
         ClearRoles, SaveRoles, At
<1>2. CASE ReadUser(r)
  <2> DEFINE c == [calls[r] EXCEPT !.at = "from_roles", !.roles = names_for_user(calls[r].user),
                                   !.before = overrides_for_user(calls[r].user)]
  <2>1. c.kind = calls[r].kind
    BY <1>1 DEF Calls
  <2>2. RowsSame /\ (End(r) \/ Become(r, c))
    BY <1>2 DEF ReadUser, grants, people, RowsSame
  <2> HIDE DEF c
  <2>3. QED
    BY <1>1, <2>1, <2>2, EndMeant, EditMeant
<1>3. CASE ReadFromRoles(r)
  <2> DEFINE c == [calls[r] EXCEPT !.at = "enabled", !.roles = {}, !.held = from_roles(calls[r].roles)]
  <2>1. c.kind = calls[r].kind
    BY <1>1 DEF Calls
  <2>2. RowsSame /\ Become(r, c)
    BY <1>3 DEF ReadFromRoles, grants, people, RowsSame
  <2> HIDE DEF c
  <2>3. QED
    BY <1>1, <2>1, <2>2, EditMeant
<1>4. CASE FilterForUser(r)
  <2>1. ASSUME NEW desired PROVE [calls[r] EXCEPT !.at = "clear", !.desired = desired, !.E = enabled].kind = calls[r].kind
    BY <1>1 DEF Calls
  <2>2. RowsSame /\ (End(r) \/ \E desired : Become(r, [calls[r] EXCEPT !.at = "clear", !.desired = desired, !.E = enabled]))
    BY <1>4 DEF FilterForUser, grants, people, RowsSame
  <2>3. QED
    BY <1>1, <2>1, <2>2, EndMeant, EditMeant
<1>5. CASE ClearOverrides(r) \/ ClearRoles(r)
  <2>1. ASSUME NEW rows PROVE [calls[r] EXCEPT !.at = "save", !.doomed = rows].kind = calls[r].kind
    BY <1>1 DEF Calls
  <2>2. RowsSame /\ \E rows : Become(r, [calls[r] EXCEPT !.at = "save", !.doomed = rows])
    BY <1>5 DEF ClearOverrides, ClearRoles, grants, people, RowsSame
  <2>3. QED
    BY <1>1, <2>1, <2>2, EditMeant
<1>6. CASE LoadRoles(r)
  <2>1. RowsSame /\ (End(r) \/ Goto(r, "clear"))
    BY <1>6 DEF LoadRoles, grants, people, RowsSame
  <2>2. QED
    BY <1>1, <2>1, EndMeant, GotoMeant
<1>7. CASE SaveOverrides(r) \/ SaveRoles(r)
  <2>1. Committed(r, Idle) /\ calls[r].at = "save" /\ Idle.at = "idle"
    BY <1>7 DEF SaveOverrides, SaveRoles, At, Idle
  <2>2. Meaning(r)
    BY <1>7, SaveOverridesMeans, SaveRolesMeans
  <2>3. QED
    BY <1>1, <2>1, <2>2, EditMeant
<1>8. QED
  BY <1>2, <1>3, <1>4, <1>5, <1>6, <1>7 DEF UserStep

\* What a scope covers, in the words of the property: the name itself is a scope, or
\* what it hangs beneath is.
LEMMA CoveredIsNarrowed ==
    ASSUME NEW held \in SUBSET Names, NEW scopes
    PROVE  narrowed(held, scopes) = {n \in held : (Above[n] \cup {n}) \cap scopes # {}}
BY DEF narrowed, is_descendant_of

\* A request of somebody's: it looks its key and its account up, and reads what that holds.
LEMMA KeyMeant ==
    ASSUME IInv, IInv', MeantOK, NEW r \in Requests, KeyStep(r)
    PROVE  MeantOK'
<1>1. calls[r] \in Calls /\ Sound(calls[r]) /\ Meant(r)
  BY DEF IInv, RequestsOK, CallsSound, MeantOK
<1>2. RowsSame
  BY DEF KeyStep, Mint, RevokeKey, FindLiveKey, FindAccount, Resolve, Finish, grants, people, RowsSame
<1>3. MeaningOf(Moved) /\ \A u \in Users : effective_of(u)' = effective_of(u)
  BY <1>2, SameMeans
<1>4. KeysStay
  <2>1. keys \in [Keys -> [state : {"free", "live", "over"}, user : Users, scopes : SUBSET Names]]
    BY DEF IInv, RowsOK, RowsTyped
  <2>2. CASE Mint(r)
    <3>1. PICK k \in Keys : keys[k].state = "free" /\
             keys' = [keys EXCEPT ![k] = [state |-> "live", user |-> calls[r].user, scopes |-> calls[r].desired]]
      BY <2>2 DEF Mint
    <3>2. QED
      BY <2>1, <3>1 DEF KeysStay
  <2>3. CASE RevokeKey(r)
    <3>1. keys' = [keys EXCEPT ![calls[r].key].state = "over"]
      BY <2>3 DEF RevokeKey
    <3>2. ASSUME NEW k \in Keys, keys[k].state # "free"
          PROVE  keys'[k].state # "free" /\ keys'[k].scopes = keys[k].scopes
      BY <2>1, <3>1, <3>2
    <3>3. QED
      BY <3>2 DEF KeysStay
  <2>4. CASE FindLiveKey(r) \/ FindAccount(r) \/ Resolve(r) \/ Finish(r)
    BY <2>4 DEF FindLiveKey, FindAccount, Resolve, Finish, KeysStay
  <2>5. QED
    BY <2>2, <2>3, <2>4 DEF KeyStep
<1>5. ASSUME End(r) PROVE MeantOK'
  <2>1. calls'[r] = Idle /\ OthersStay(r) /\ Watch(Moved) /\ Idle.at = "idle"
    BY <1>5, BecomeStays DEF End, Become, Observe, Idle
  <2>2. Meant(r)'
    BY <2>1 DEF Meant
  <2>3. QED
    BY <1>3, <1>4, <2>1, <2>2, OthersMeant
<1>6. ASSUME NEW place, Goto(r, place), calls[r].at \notin {"idle", "admitted"}, place # "admitted" PROVE MeantOK'
  <2>1. calls'[r] = [calls[r] EXCEPT !.at = place] /\ OthersStay(r) /\ Watch(Moved)
    BY <1>6, BecomeStays DEF Goto, Become, Observe
  <2>2. /\ calls'[r].kind = calls[r].kind /\ calls'[r].user = calls[r].user /\ calls'[r].key = calls[r].key
        /\ calls'[r].held = calls[r].held /\ calls'[r].at = place
    BY <1>1, <2>1 DEF Calls
  <2>3. Meant(r)'
    BY <1>1, <1>3, <1>4, <1>6, <2>1, <2>2, MeantStays
  <2>4. QED
    BY <1>3, <1>4, <2>1, <2>3, OthersMeant
<1>7. CASE Mint(r) \/ RevokeKey(r) \/ Finish(r)
  BY <1>5, <1>7 DEF Mint, RevokeKey, Finish
<1>8. CASE FindLiveKey(r) \/ FindAccount(r)
  BY <1>5, <1>6, <1>8 DEF FindLiveKey, FindAccount, At
<1>9. CASE Resolve(r)
  <2> DEFINE u == calls[r].user
             had == watched'[r].had \ watched'[r].taken
             with == watched'[r].had \cup watched'[r].given
             got == IF calls[r].kind = "key" THEN narrowed(effective_of(u), keys[calls[r].key].scopes)
                                             ELSE effective_of(u)
  <2>1. /\ At(r, {"use", "key"}, "resolve") /\ keys' = keys
        /\ Become(r, [calls[r] EXCEPT !.at = "admitted", !.held = got])
    BY <1>9 DEF Resolve
  <2>2. calls'[r] = [calls[r] EXCEPT !.at = "admitted", !.held = got] /\ OthersStay(r) /\ Watch(Moved)
    BY <2>1, BecomeStays DEF Become, Observe
  <2>3. /\ calls'[r].kind = calls[r].kind /\ calls'[r].user = calls[r].user /\ calls'[r].key = calls[r].key
        /\ calls'[r].held = got /\ calls'[r].at = "admitted"
    BY <1>1, <2>2 DEF Calls
  <2>4. had \subseteq effective_of(u) /\ effective_of(u) \subseteq with
    BY <1>1, <1>3, <2>1, <2>2, <2>3, SeenCovers DEF At
  <2>5. effective_of(u) \subseteq Names
    BY <1>1, <2>1, EffectiveAreNames, IInvTypes DEF At, Sound
  <2>6. got = Covered(calls[r], keys[calls[r].key].scopes, effective_of(u))
    <3>1. narrowed(effective_of(u), keys[calls[r].key].scopes)
              = {n \in effective_of(u) : (Above[n] \cup {n}) \cap keys[calls[r].key].scopes # {}}
      <4> HIDE DEF u
      <4> QED BY <2>5, CoveredIsNarrowed
    <3>2. QED
      BY <3>1 DEF Covered
  <2> HIDE DEF got, u, had, with
  <2>7. /\ Covered(calls[r], keys[calls[r].key].scopes, had) \subseteq got
        /\ got \subseteq Covered(calls[r], keys[calls[r].key].scopes, with)
    BY <2>4, <2>6 DEF Covered
  <2>8. calls[r].kind = "key" => keys[calls[r].key].state # "free"
    BY <1>1, <2>1 DEF Meant, At
  <2>9. Meant(r)'
    BY <2>1, <2>3, <2>7, <2>8 DEF Meant, Covered, had, with
  <2>10. QED
    BY <1>3, <1>4, <2>2, <2>9, OthersMeant
<1>10. QED
  BY <1>7, <1>8, <1>9 DEF KeyStep

LEMMA MeantNext == IInv /\ IInv' /\ RevokedOK /\ MeantOK /\ [Next]_vars => MeantOK'
<1> SUFFICES ASSUME IInv, IInv', RevokedOK, MeantOK, [Next]_vars PROVE MeantOK'
  OBVIOUS
<1>1. ASSUME NEW r \in Requests, Abort(r) PROVE MeantOK'
  <2>1. calls' = [calls EXCEPT ![r] = Idle] /\ Watch({}) /\ RowsSame /\ keys' = keys
    BY <1>1 DEF Abort, grants, people, RowsSame
  <2>2. calls'[r] = Idle /\ OthersStay(r) /\ Idle.at = "idle"
    BY <2>1, BecomeStays DEF Idle
  <2>3. MeaningOf({}) /\ KeysStay /\ Meant(r)'
    BY <2>1, <2>2, SameMeans DEF KeysStay, Meant
  <2>4. QED
    BY <2>1, <2>2, <2>3, OthersMeant
<1>2. ASSUME NEW u \in Users, StandingChanges(u) PROVE MeantOK'
  <2>1. calls' = calls /\ Watch(Moved) /\ RowsSame /\ keys' = keys
    BY <1>2 DEF StandingChanges, Observe, grants, RowsSame
  <2>2. MeaningOf(Moved) /\ KeysStay
    BY <2>1, SameMeans DEF KeysStay
  <2>3. ASSUME NEW q \in Requests PROVE Meant(q)'
    <3>1. CASE calls[q].at = "idle"
      BY <2>1, <3>1 DEF Meant
    <3>2. CASE calls[q].at # "idle"
      BY <2>1, <2>2, <3>2, MeantStays DEF MeantOK
    <3>3. QED
      BY <3>1, <3>2
  <2>4. QED
    BY <2>3 DEF MeantOK
<1>3. CASE UNCHANGED vars
  <2>1. /\ UNCHANGED <<calls, watched, keys>> /\ RowsSame
    BY <1>3 DEF vars, grants, people, RowsSame
  <2>2. \A u \in Users : effective_of(u)' = effective_of(u)
    BY <2>1, HeldStays DEF RowsSame
  <2>3. ASSUME NEW q \in Requests PROVE Meant(q)'
    <3>1. calls[q].kind \in {"use", "key"} => calls[q].user \in Users
      BY DEF IInv, RequestsOK, CallsSound, Sound
    <3>2. QED
      BY <2>1, <2>2, <3>1 DEF MeantOK, Meant, Covered
  <2>4. QED
    BY <2>3 DEF MeantOK
<1>4. QED
  BY <1>1, <1>2, <1>3, ArrivalMeant, AppMeant, RoleMeant, UserMeant, KeyMeant DEF Next, Arrives

LEMMA MeantInvariant == Spec => []MeantOK
<1>1. Init => MeantOK
  BY DEF Init, MeantOK, Meant, Idle
<1>2. QED
  BY <1>1, Invariant, RevokedInvariant, MeantNext, PTL DEF Spec

\* A request acts on what its account had when it came, less only what an edit that
\* was written since meant to take and with only what one meant to give, a key on what
\* its scopes cover of that: whatever edits, revocations and aborts it meets, and
\* however many.
THEOREM ActsAsMeant == Spec => []ActsOnWhatWasMeant
<1>1. IInv /\ MeantOK => ActsOnWhatWasMeant
  <2>1. SUFFICES ASSUME IInv, MeantOK, NEW r \in Requests, calls[r].at = "admitted"
                 PROVE  /\ Covered(calls[r], keys[calls[r].key].scopes, watched[r].had \ watched[r].taken) \subseteq calls[r].held
                        /\ calls[r].held \subseteq Covered(calls[r], keys[calls[r].key].scopes, watched[r].had \cup watched[r].given)
    BY DEF ActsOnWhatWasMeant, Covered
  <2>2. QED
    BY <2>1 DEF MeantOK, Meant, IInv, RequestsOK, CallsSound, Sound
<1>2. QED
  BY <1>1, Invariant, MeantInvariant, PTL

=============================================================================
