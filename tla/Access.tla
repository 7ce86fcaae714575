--------------------------------- MODULE Access ---------------------------------
(***************************************************************************)
(* What the accounts of one workspace may do: the apps that are switched   *)
(* on, the grants of roles and of single accounts, the keys that act for   *)
(* somebody, and the requests that change any of them at the same time.    *)
(*                                                                         *)
(*   phonix-services/src/workspace/apps.rs        install, uninstall        *)
(*   phonix-services/src/authorization/*.rs       roles and their grants    *)
(*   phonix-services/src/identity/directory.rs    an account's roles        *)
(*   phonix-services/src/identity/api_key.rs      keys                      *)
(*   phonix-db/src/authorization/*.rs, tenancy/installs.rs                  *)
(*                                                                         *)
(* A step is one statement, or the part of a transaction from a statement   *)
(* that locks rows to the next.  Transactions are READ COMMITTED: a DELETE  *)
(* takes the rows it finds when it starts, and what another transaction    *)
(* inserts afterwards it never sees.  `doomed` is what a transaction has    *)
(* deleted and not yet committed.                                          *)
(***************************************************************************)
EXTENDS Permissions, Naturals

CONSTANTS
    Requests,     \* the requests that may be in progress at the same time
    Users,        \* the accounts of the workspace
    Owner,        \* the one that is_owner
    Custom,       \* ids of roles an organization defines, each used once
    Keys,         \* rows of api_keys
    RequiredBy,   \* the permission each kind of request asks for
    Selections,   \* bound: the sets of names somebody ticks
    NULL,         \* no app, no account, no role
    Mixes,        \* bound: which kinds of request meet, over which optional apps, how many
                  \*   arrive, and whether two of one kind may be in progress
    MaxRequests   \* bound: how many requests arrive in any mix

Static == {"Admin", "User"}
Roles == Static \cup Custom
Changes == {"install", "uninstall", "set_role", "set_user", "set_members", "create", "delete",
            "issue", "revoke_key"}
Kinds == Changes \cup {"boot", "use", "key"}

\* Accounts, roles and permissions are told apart: `doomed` holds rows of three tables.
ASSUME AccessAssumption ==
    /\ Owner \in Users /\ Users \cap Roles = {} /\ Names \cap Roles = {} /\ Custom \cap Static = {}
    /\ RequiredBy \in [Changes -> Names]
    /\ Selections \subseteq SUBSET Names
    /\ Mixes \subseteq [kinds : SUBSET Kinds, apps : SUBSET Optional, arrivals : 0..MaxRequests,
                        twins : BOOLEAN]
    /\ MaxRequests \in Nat

VARIABLES
    enabled,            \* the apps whose row of installed_apps has an enabled_at
    roles,              \* what each role is
    role_permissions,   \* rows of role_permissions
    user_roles,         \* rows of user_roles
    user_permissions,   \* the rows of user_permissions, by account and is_granted
    active,             \* the accounts that may sign in
    keys,               \* rows of api_keys
    calls,              \* what each request is doing
    mix,                \* the requests of this behaviour
    arrived,            \* history: how many requests have arrived
    unrevoked,          \* history: apps switched off with the revocation still to come,
                        \*   or granted since by a request that had read them as on
    unsynced,           \* history: apps switched on that Admin has not been given since
    watched             \* history: of a request that acts for somebody, what the account had when
                        \*   it came, and what edits written since meant to give or to take

grants == <<role_permissions, user_permissions>>
people == <<user_roles, active>>
causes == <<unrevoked, unsynced>>
vars == <<enabled, roles, grants, people, keys, calls, mix, arrived, causes, watched>>

-----------------------------------------------------------------------------
(* The rows                                                                *)

Overrides == {o \in [granted : SUBSET Names, denied : SUBSET Names] : o.granted \cap o.denied = {}}
None == [granted |-> {}, denied |-> {}]

Live == {role \in Roles : roles[role] = "live"}
permissions_of(role) == {n \in Names : <<role, n>> \in role_permissions}
names_for_user(u) == {role \in Roles : <<u, role>> \in user_roles}
from_roles(held) == UNION {permissions_of(role) : role \in held}

\* The roles of a choice that are still there.
\* Mutant: a role deleted since is inserted all the same.
existingAll(chosen) == chosen
existing(chosen) == chosen \cap Live

\* overrides_for_user brings the ancestors of what is granted, and of what is denied.
overrides_for_user(u) == [granted |-> normalise(user_permissions[u].granted),
                          denied |-> normalise(user_permissions[u].denied)]

\* resolve_for_user is one statement over the three tables.
effective_of(u) == effective(from_roles(names_for_user(u)), user_permissions[u])

\* What sync_static_roles gives.
all_of(E) == for_enabled_apps(Names, E)
defaults_of(E) == for_enabled_apps(Defaults, E)
static_rows(E) == ({"Admin"} \X all_of(E)) \cup ({"User"} \X defaults_of(E))

\* Both doors filter by what is on, and not in the same order.
desired_for_role(desired, E) == for_enabled_apps(normalise(desired), E)
\* Mutant: an individual grant is not filtered.
desired_for_userUnfiltered(desired, E) == desired
desired_for_user(desired, E) == for_enabled_apps(desired, E)

Places == {"idle", "enable", "check", "disable", "sync", "clear_admin", "grant_static", "revoke_roles",
           "revoke_users", "revoked", "find", "from_roles", "enabled", "clear", "save",
           "create", "delete", "mint", "revoke_key", "key", "account", "resolve", "admitted"}

Calls == [kind : Kinds, at : Places, app : Apps \cup {NULL}, todo : SUBSET Apps, switched : BOOLEAN,
          E : SUBSET Apps, user : Users \cup {NULL}, role : Roles \cup {NULL}, roles : SUBSET Roles,
          desired : SUBSET Names, held : SUBSET Names,
          before : [granted : SUBSET Names, denied : SUBSET Names],
          key : Keys \cup {NULL}, doomed : SUBSET ((Roles \cup Users) \X (Names \cup Roles))]
Idle == [kind |-> "boot", at |-> "idle", app |-> NULL, todo |-> {}, switched |-> FALSE,
         E |-> {}, user |-> NULL, role |-> NULL, roles |-> {},
         desired |-> {}, held |-> {}, before |-> None, key |-> NULL, doomed |-> {}]
Unseen == [had |-> {}, given |-> {}, taken |-> {}]

\* A workspace as provisioning leaves it, somebody in it who has the User role
\* and may hold one of its own, or grants of their own.
Init ==
    /\ mix \in Mixes /\ enabled \in SUBSET mix.apps
    /\ \A app \in enabled : Requires[app] \subseteq enabled \cup AlwaysOn
    /\ \E mine \in SUBSET Custom, desired, own \in Selections :
          /\ roles = [role \in Roles |-> IF role \in Static \cup mine THEN "live" ELSE "free"]
          /\ role_permissions = static_rows(enabled) \cup (mine \X desired_for_role(desired, enabled))
          /\ user_roles = (Users \X {"User"}) \cup {<<Owner, "Admin">>} \cup ((Users \ {Owner}) \X mine)
          /\ user_permissions = [u \in Users |->
                IF u = Owner THEN None
                ELSE [granted |-> desired_for_role(own, enabled) \ from_roles(names_for_user(u)), denied |-> {}]]
    /\ active = Users
    /\ keys = [k \in Keys |-> [state |-> "free", user |-> Owner, scopes |-> {}]]
    /\ calls = [r \in Requests |-> Idle]
    /\ arrived = 0 /\ unrevoked = {} /\ unsynced = {}
    /\ watched = [r \in Requests |-> Unseen]

-----------------------------------------------------------------------------
(* Requests                                                                *)

At(r, kinds, place) == calls[r].at = place /\ calls[r].kind \in kinds

\* What an edit that is about to be written means to take from an account, and to
\* give it.  An account's own grants were worked out from what its roles gave when
\* that was read: it leaves that to the roles, whatever they have become.
Takes(q, u, n) ==
    LET call == calls[q]
    IN  \/ call.at = "grant_static" /\ "Admin" \in names_for_user(u) /\ n \notin all_of(call.E)
        \/ call.at = "revoked" /\ owns(call.app, n)
        \/ call.at = "delete" /\ call.role \in names_for_user(u) /\ n \in permissions_of(call.role)
        \/ /\ At(q, {"set_role"}, "save") /\ call.role \in names_for_user(u)
           /\ n \notin call.desired
        \/ /\ At(q, {"set_user"}, "save") /\ call.user = u
           /\ n \notin normalise(call.desired) \/ n \in call.held \ from_roles(names_for_user(u))
        \/ /\ At(q, {"set_members"}, "save") /\ call.user = u
           /\ n \notin from_roles(existing(call.roles))

Gives(q, u, n) ==
    LET call == calls[q]
    IN  \/ call.at = "grant_static" /\ \E role \in names_for_user(u) : <<role, n>> \in static_rows(call.E)
        \/ call.at = "revoked" /\ owns(call.app, n)      \* a denial goes too
        \/ At(q, {"set_role"}, "save") /\ call.role \in names_for_user(u) /\ n \in call.desired
        \/ /\ At(q, {"set_user"}, "save") /\ call.user = u
           /\ n \in normalise(call.desired) \/ n \in from_roles(names_for_user(u)) \ call.held
        \/ /\ At(q, {"set_members"}, "save") /\ call.user = u
           /\ n \in from_roles(existing(call.roles))

\* Until a request that acts for somebody has read what the account holds.
Watch(edits) ==
    watched' = [r \in Requests |->
        LET u == calls'[r].user
        IN  IF calls'[r].at = "idle" \/ calls'[r].kind \notin {"use", "key"} THEN Unseen
            ELSE IF calls[r].at = "idle" THEN [Unseen EXCEPT !.had = effective_of(u)]
            ELSE IF calls[r].at = "admitted" THEN watched[r]
            ELSE [watched[r] EXCEPT
                     !.given = @ \cup {n \in Names : \E q \in edits : Gives(q, u, n)},
                     !.taken = @ \cup {n \in Names : \E q \in edits : Takes(q, u, n)}]]

Moved == {r \in Requests : calls'[r].at # calls[r].at}
Observe == Watch(Moved) /\ UNCHANGED mix

Become(r, call) == calls' = [calls EXCEPT ![r] = call] /\ Observe
Goto(r, place) == Become(r, [calls[r] EXCEPT !.at = place])
End(r) == Become(r, Idle)

\* What a transaction deleted is gone for every other one too.
Committed(r, call) ==
    /\ calls' = [q \in Requests |-> IF q = r THEN call
                                    ELSE [calls[q] EXCEPT !.doomed = @ \ calls[r].doomed]]
    /\ Observe

\* An insert waits for whoever has deleted the row and not committed yet.
MayInsert(r, rows) == \A q \in Requests \ {r} : rows \cap calls[q].doomed \subseteq calls[r].doomed

\* A grant that rests on an app that has been switched off since.
Stale(r) == (calls[r].E \cap Optional) \ enabled

Arrive(r, kind, call) ==
    /\ kind \in mix.kinds /\ calls[r].at = "idle" /\ arrived < mix.arrivals
    /\ mix.twins \/ \A q \in Requests : calls[q].at = "idle" \/ calls[q].kind # kind
    /\ kind \in Changes => \E u \in active : RequiredBy[kind] \in effective_of(u)
    /\ arrived' = arrived + 1
    /\ Become(r, [call EXCEPT !.kind = kind])
    /\ UNCHANGED <<enabled, roles, grants, people, keys, causes>>

ArriveForApp(r) ==
    \E app \in AlwaysOn \cup mix.apps :
        \/ Arrive(r, "install", [Idle EXCEPT !.at = "enable", !.app = app,
                                    !.todo = (Requires[app] \ AlwaysOn) \cup {app}])
        \/ Arrive(r, "uninstall", [Idle EXCEPT !.at = "check", !.app = app])

ArriveForRole(r) ==
    \/ \E role \in Roles, desired \in Selections :
          Arrive(r, "set_role", [Idle EXCEPT !.at = "find", !.role = role, !.desired = desired])
    \/ \E role \in Roles :
          \/ Arrive(r, "delete", [Idle EXCEPT !.at = "find", !.role = role])
          \/ Arrive(r, "create", [Idle EXCEPT !.at = "create", !.role = role])

ArriveForUser(r) ==
    \E u \in Users :
        \/ \E desired \in Selections :
              Arrive(r, "set_user", [Idle EXCEPT !.at = "find", !.user = u, !.desired = desired])
        \/ \E chosen \in SUBSET Roles :
              Arrive(r, "set_members", [Idle EXCEPT !.at = "find", !.user = u, !.roles = chosen])

\* A scope somebody does not hold is refused where the key is asked for.
ArriveForKey(r) ==
    \/ \E u \in active, scopes \in Selections :
          /\ RequiredBy["issue"] \in effective_of(u) /\ scopes \subseteq effective_of(u)
          /\ Arrive(r, "issue", [Idle EXCEPT !.at = "mint", !.user = u, !.desired = scopes])
    \/ \E k \in Keys :
          /\ keys[k].state # "free"
          /\ \/ Arrive(r, "revoke_key", [Idle EXCEPT !.at = "revoke_key", !.key = k])
             \/ Arrive(r, "key", [Idle EXCEPT !.at = "key", !.key = k, !.user = keys[k].user])

\* A session that is live is presented; a worker of the server starts.
ArriveAnyway(r) ==
    \/ \E u \in Users : Arrive(r, "use", [Idle EXCEPT !.at = "account", !.user = u])
    \/ Arrive(r, "boot", [Idle EXCEPT !.at = "sync"])

\* A connection is lost: what its transaction deleted is there again.
Abort(r) ==
    /\ calls[r].doomed # {}
    /\ unrevoked' = IF calls[r].at \in {"revoke_users", "revoked"} THEN unrevoked \cup {calls[r].app}
                                                                  ELSE unrevoked
    /\ calls' = [calls EXCEPT ![r] = Idle] /\ Watch({}) /\ UNCHANGED mix
    /\ UNCHANGED <<enabled, roles, grants, people, keys, arrived, unsynced>>

-----------------------------------------------------------------------------
(* Apps                                                                    *)

\* enable, for the app and for what it requires, those first.
Enable(r) ==
    /\ At(r, {"install"}, "enable")
    /\ \E app \in calls[r].todo :
          LET todo == calls[r].todo \ {app}
              switched == calls[r].switched \/ app \notin enabled
          IN  /\ Requires[app] \cap todo = {}
              /\ enabled' = enabled \cup {app}
              /\ unsynced' = unsynced \cup ({app} \ enabled)
              /\ IF todo = {} /\ ~switched THEN End(r)
                 ELSE Become(r, [calls[r] EXCEPT !.todo = todo, !.switched = switched,
                                    !.at = IF todo = {} THEN "sync" ELSE "enable"])
    /\ UNCHANGED <<roles, grants, people, keys, arrived, unrevoked>>

\* uninstall reads what is on, and refuses an app that something on needs.
CheckDependants(r) ==
    /\ At(r, {"uninstall"}, "check")
    /\ LET app == calls[r].app
           needed == \E other \in (AlwaysOn \cup enabled) \ {app} : app \in Requires[other]
       IN  IF app \in AlwaysOn \/ needed THEN End(r) ELSE Goto(r, "disable")
    /\ UNCHANGED <<enabled, roles, grants, people, keys, arrived, causes>>

\* An app that was off already has nothing to revoke.
Disable(r) ==
    /\ At(r, {"uninstall"}, "disable")
    /\ enabled' = enabled \ {calls[r].app}
    /\ unrevoked' = unrevoked \cup ({calls[r].app} \cap enabled)
    /\ IF calls[r].app \in enabled THEN Goto(r, "sync") ELSE End(r)
    /\ UNCHANGED <<roles, grants, people, keys, arrived, unsynced>>

\* sync_static_roles reads what is on before its transaction begins, ...
ReadEnabledForSync(r) ==
    /\ At(r, {"install", "uninstall", "boot"}, "sync")
    /\ Become(r, [calls[r] EXCEPT !.at = "clear_admin", !.E = enabled])
    /\ UNCHANGED <<enabled, roles, grants, people, keys, arrived, causes>>

\* ... takes everything from Admin ...
ClearAdmin(r) ==
    /\ At(r, {"install", "uninstall", "boot"}, "clear_admin")
    /\ Become(r, [calls[r] EXCEPT !.at = "grant_static", !.doomed = {"Admin"} \X permissions_of("Admin")])
    /\ UNCHANGED <<enabled, roles, grants, people, keys, arrived, causes>>

\* ... and gives it all there is; User gets its defaults on top.
GrantStatic(r) ==
    /\ At(r, {"install", "uninstall", "boot"}, "grant_static")
    /\ MayInsert(r, static_rows(calls[r].E))
    /\ role_permissions' = (role_permissions \ calls[r].doomed) \cup static_rows(calls[r].E)
    /\ unrevoked' = unrevoked \cup Stale(r)
    /\ unsynced' = (unsynced \cup enabled) \ calls[r].E
    /\ Committed(r, IF calls[r].kind = "uninstall"
                    THEN [calls[r] EXCEPT !.at = "revoke_roles", !.doomed = {}, !.E = {}] ELSE Idle)
    /\ UNCHANGED <<enabled, roles, user_permissions, people, keys, arrived>>

\* revoke_everywhere: two deletes in one transaction.
RevokeRoles(r) ==
    /\ At(r, {"uninstall"}, "revoke_roles")
    /\ Become(r, [calls[r] EXCEPT !.at = "revoke_users",
                     !.doomed = {row \in role_permissions : owns(calls[r].app, row[2])}])
    /\ unrevoked' = unrevoked \ {calls[r].app}
    /\ UNCHANGED <<enabled, roles, grants, people, keys, arrived, unsynced>>

overridden(u) == user_permissions[u].granted \cup user_permissions[u].denied

RevokeUsers(r) ==
    /\ At(r, {"uninstall"}, "revoke_users")
    /\ Become(r, [calls[r] EXCEPT !.at = "revoked",
                     !.doomed = @ \cup {row \in Users \X Names :
                                           row[2] \in overridden(row[1]) /\ owns(calls[r].app, row[2])}])
    /\ UNCHANGED <<enabled, roles, grants, people, keys, arrived, causes>>

without(doomed) == [u \in Users |->
    [granted |-> {n \in user_permissions[u].granted : <<u, n>> \notin doomed},
     denied |-> {n \in user_permissions[u].denied : <<u, n>> \notin doomed}]]

CommitRevocation(r) ==
    /\ At(r, {"uninstall"}, "revoked")
    /\ role_permissions' = role_permissions \ calls[r].doomed
    /\ user_permissions' = without(calls[r].doomed)
    /\ unsynced' = unsynced \cup ({calls[r].app} \cap enabled)
    /\ Committed(r, Idle)
    /\ UNCHANGED <<enabled, roles, people, keys, arrived, unrevoked>>

-----------------------------------------------------------------------------
(* The grants of a role                                                    *)

\* role_permissions; Admin's are not for anybody to edit.
\* Mutant: they are.
ReadAnyRole(r) ==
    /\ At(r, {"set_role"}, "find")
    /\ IF calls[r].role \notin Live THEN End(r)
       ELSE Become(r, [calls[r] EXCEPT !.at = "enabled", !.held = permissions_of(calls[r].role)])
    /\ UNCHANGED <<enabled, roles, grants, people, keys, arrived, causes>>

ReadRole(r) ==
    /\ At(r, {"set_role"}, "find")
    /\ IF calls[r].role \notin Live \ {"Admin"} THEN End(r)
       ELSE Become(r, [calls[r] EXCEPT !.at = "enabled", !.held = permissions_of(calls[r].role)])
    /\ UNCHANGED <<enabled, roles, grants, people, keys, arrived, causes>>

\* enabled_ids, and what is left to write.
FilterForRole(r) ==
    /\ At(r, {"set_role"}, "enabled")
    /\ LET desired == desired_for_role(calls[r].desired, enabled)
       IN  IF desired = calls[r].held THEN End(r)
           ELSE Become(r, [calls[r] EXCEPT !.at = "clear", !.desired = desired, !.E = enabled])
    /\ UNCHANGED <<enabled, roles, grants, people, keys, arrived, causes>>

\* set_permissions: delete, then insert.
\* Mutant: without the transaction.
ClearRoleAtOnce(r) ==
    /\ At(r, {"set_role"}, "clear")
    /\ role_permissions' = {row \in role_permissions : row[1] # calls[r].role}
    /\ Goto(r, "save")
    /\ UNCHANGED <<enabled, roles, user_permissions, people, keys, arrived, causes>>

ClearRole(r) ==
    /\ At(r, {"set_role"}, "clear")
    /\ Become(r, [calls[r] EXCEPT !.at = "save", !.doomed = {calls[r].role} \X permissions_of(calls[r].role)])
    /\ UNCHANGED <<enabled, roles, grants, people, keys, arrived, causes>>

SaveRole(r) ==
    LET rows == {calls[r].role} \X calls[r].desired
    IN  /\ At(r, {"set_role"}, "save")
        /\ MayInsert(r, rows)
        /\ IF calls[r].role \in Live      \* role_id references roles
           THEN /\ role_permissions' = (role_permissions \ calls[r].doomed) \cup rows
                /\ unrevoked' = unrevoked \cup Stale(r)
                /\ Committed(r, Idle)
           ELSE End(r) /\ UNCHANGED <<role_permissions, unrevoked>>
        /\ UNCHANGED <<enabled, roles, user_permissions, people, keys, arrived, unsynced>>

CreateRole(r) ==
    /\ At(r, {"create"}, "create")
    /\ roles' = [roles EXCEPT ![calls[r].role] = IF @ = "free" THEN "live" ELSE @]
    /\ End(r)
    /\ UNCHANGED <<enabled, grants, people, keys, arrived, causes>>

FindRole(r) ==
    /\ At(r, {"delete"}, "find")
    /\ IF calls[r].role \in Live \ Static THEN Goto(r, "delete") ELSE End(r)
    /\ UNCHANGED <<enabled, roles, grants, people, keys, arrived, causes>>

\* role_permissions and user_roles cascade.
DeleteRole(r) ==
    /\ At(r, {"delete"}, "delete")
    /\ roles' = [roles EXCEPT ![calls[r].role] = "gone"]
    /\ role_permissions' = {row \in role_permissions : row[1] # calls[r].role}
    /\ user_roles' = {row \in user_roles : row[2] # calls[r].role}
    /\ End(r)
    /\ UNCHANGED <<enabled, user_permissions, active, keys, arrived, causes>>

-----------------------------------------------------------------------------
(* The grants and the roles of one account                                 *)

\* user_permissions: the roles and the overrides, then what the roles give.
\* The owner's are not editable.
ReadUser(r) ==
    /\ At(r, {"set_user"}, "find")
    /\ IF calls[r].user = Owner THEN End(r)
       ELSE Become(r, [calls[r] EXCEPT !.at = "from_roles", !.roles = names_for_user(calls[r].user),
                          !.before = overrides_for_user(calls[r].user)])
    /\ UNCHANGED <<enabled, roles, grants, people, keys, arrived, causes>>

ReadFromRoles(r) ==
    /\ At(r, {"set_user"}, "from_roles")
    /\ Become(r, [calls[r] EXCEPT !.at = "enabled", !.roles = {}, !.held = from_roles(calls[r].roles)])
    /\ UNCHANGED <<enabled, roles, grants, people, keys, arrived, causes>>

FilterForUser(r) ==
    /\ At(r, {"set_user"}, "enabled")
    /\ LET desired == desired_for_user(calls[r].desired, enabled)
           overrides == overrides_for(calls[r].held, desired)
       IN  IF overrides = calls[r].before THEN End(r)
           ELSE Become(r, [calls[r] EXCEPT !.at = "clear", !.desired = desired, !.E = enabled])
    /\ UNCHANGED <<enabled, roles, grants, people, keys, arrived, causes>>

ClearOverrides(r) ==
    /\ At(r, {"set_user"}, "clear")
    /\ Become(r, [calls[r] EXCEPT !.at = "save", !.doomed = {calls[r].user} \X overridden(calls[r].user)])
    /\ UNCHANGED <<enabled, roles, grants, people, keys, arrived, causes>>

\* set_override: one row for a name, granted or denied.
set_overrides(left, overrides) ==
    [granted |-> (left.granted \ overrides.denied) \cup overrides.granted,
     denied |-> (left.denied \ overrides.granted) \cup overrides.denied]

SaveOverrides(r) ==
    LET u == calls[r].user
        overrides == overrides_for(calls[r].held, calls[r].desired)
    IN  /\ At(r, {"set_user"}, "save")
        /\ MayInsert(r, {u} \X (overrides.granted \cup overrides.denied))
        /\ user_permissions' = [without(calls[r].doomed) EXCEPT ![u] = set_overrides(@, overrides)]
        /\ unrevoked' = unrevoked \cup Stale(r)
        /\ Committed(r, Idle)
        /\ UNCHANGED <<enabled, roles, role_permissions, people, keys, arrived, unsynced>>

\* update_user: a role that does not exist is refused, the same roles are nothing to write.
LoadRoles(r) ==
    /\ At(r, {"set_members"}, "find")
    /\ IF ~(calls[r].roles \subseteq Live) \/ calls[r].roles = names_for_user(calls[r].user) THEN End(r)
       ELSE Goto(r, "clear")
    /\ UNCHANGED <<enabled, roles, grants, people, keys, arrived, causes>>

\* set_user_roles: the owner keeps Admin whatever was submitted.
\* Mutant: nobody does.
keptRolesNone(u) == {}
keptRoles(u) == IF u = Owner THEN {"Admin"} ELSE {}

ClearRoles(r) ==
    /\ At(r, {"set_members"}, "clear")
    /\ LET u == calls[r].user
       IN  Become(r, [calls[r] EXCEPT !.at = "save", !.doomed = {u} \X (names_for_user(u) \ keptRoles(u))])
    /\ UNCHANGED <<enabled, roles, grants, people, keys, arrived, causes>>

SaveRoles(r) ==
    LET rows == {calls[r].user} \X existing(calls[r].roles)
    IN  /\ At(r, {"set_members"}, "save")
        /\ MayInsert(r, rows)
        /\ user_roles' = (user_roles \ calls[r].doomed) \cup rows
        /\ Committed(r, Idle)
        /\ UNCHANGED <<enabled, roles, grants, active, keys, arrived, causes>>

\* What Accounts does to an account: its status, which for the owner's is locked, and
\* the lock that wrong passwords put on anybody's.
\* Bound: only where a request is about to look at it, which is all it is read by
\* besides the arrival of another.
StandingChanges(u) ==
    /\ \E r \in Requests : At(r, {"use", "key"}, "account") /\ calls[r].user = u
    /\ active' = IF u \in active THEN active \ {u} ELSE active \cup {u}
    /\ UNCHANGED <<enabled, roles, grants, user_roles, keys, calls, arrived, causes>>
    /\ Observe

-----------------------------------------------------------------------------
(* Keys, and who a request acts as                                         *)

Mint(r) ==
    /\ At(r, {"issue"}, "mint")
    /\ \E k \in Keys :
          /\ keys[k].state = "free"
          /\ keys' = [keys EXCEPT ![k] = [state |-> "live", user |-> calls[r].user, scopes |-> calls[r].desired]]
    /\ End(r)
    /\ UNCHANGED <<enabled, roles, grants, people, arrived, causes>>

\* By an administrator, or by authenticate for an owner who may not sign in.
RevokeKey(r) ==
    /\ calls[r].at = "revoke_key"
    /\ keys' = [keys EXCEPT ![calls[r].key].state = "over"]
    /\ End(r)
    /\ UNCHANGED <<enabled, roles, grants, people, arrived, causes>>

FindLiveKey(r) ==
    /\ At(r, {"key"}, "key")
    /\ IF keys[calls[r].key].state = "live" THEN Goto(r, "account") ELSE End(r)
    /\ UNCHANGED <<enabled, roles, grants, people, keys, arrived, causes>>

FindAccount(r) ==
    /\ At(r, {"use", "key"}, "account")
    /\ IF calls[r].user \in active THEN Goto(r, "resolve")
       ELSE IF calls[r].kind = "key" THEN Goto(r, "revoke_key") ELSE End(r)
    /\ UNCHANGED <<enabled, roles, grants, people, keys, arrived, causes>>

\* load_auth_user; the caller a key makes is narrowed to its scopes.
Resolve(r) ==
    /\ At(r, {"use", "key"}, "resolve")
    /\ LET held == effective_of(calls[r].user)
       IN  Become(r, [calls[r] EXCEPT !.at = "admitted", !.held =
                         IF calls[r].kind = "key" THEN narrowed(held, keys[calls[r].key].scopes) ELSE held])
    /\ UNCHANGED <<enabled, roles, grants, people, keys, arrived, causes>>

Finish(r) ==
    /\ At(r, {"use", "key"}, "admitted")
    /\ End(r)
    /\ UNCHANGED <<enabled, roles, grants, people, keys, arrived, causes>>

-----------------------------------------------------------------------------

AppStep(r) ==
    \/ Enable(r) \/ CheckDependants(r) \/ Disable(r) \/ ReadEnabledForSync(r) \/ ClearAdmin(r)
    \/ GrantStatic(r) \/ RevokeRoles(r) \/ RevokeUsers(r) \/ CommitRevocation(r)

RoleStep(r) ==
    \/ ReadRole(r) \/ FilterForRole(r) \/ ClearRole(r) \/ SaveRole(r)
    \/ CreateRole(r) \/ FindRole(r) \/ DeleteRole(r)

UserStep(r) ==
    \/ ReadUser(r) \/ ReadFromRoles(r) \/ FilterForUser(r) \/ ClearOverrides(r) \/ SaveOverrides(r)
    \/ LoadRoles(r) \/ ClearRoles(r) \/ SaveRoles(r)

KeyStep(r) == Mint(r) \/ RevokeKey(r) \/ FindLiveKey(r) \/ FindAccount(r) \/ Resolve(r) \/ Finish(r)

Next ==
    \/ \E r \in Requests :
          \/ ArriveForApp(r) \/ ArriveForRole(r) \/ ArriveForUser(r) \/ ArriveForKey(r) \/ ArriveAnyway(r)
          \/ AppStep(r) \/ RoleStep(r) \/ UserStep(r) \/ KeyStep(r) \/ Abort(r)
    \/ \E u \in Users : StandingChanges(u)

Spec == Init /\ [][Next]_vars

-----------------------------------------------------------------------------
(* Properties                                                              *)

TypeOK ==
    /\ enabled \subseteq Apps /\ active \subseteq Users
    /\ roles \in [Roles -> {"free", "live", "gone"}]
    /\ role_permissions \subseteq Live \X Names /\ user_roles \subseteq Users \X Live
    /\ user_permissions \in [Users -> Overrides]
    /\ keys \in [Keys -> [state : {"free", "live", "over"}, user : Users, scopes : SUBSET Names]]
    /\ calls \in [Requests -> Calls] /\ mix \in Mixes /\ arrived \in 0..MaxRequests
    /\ unrevoked \subseteq Optional /\ unsynced \subseteq Apps
    /\ watched \in [Requests -> [had : SUBSET Names, given : SUBSET Names, taken : SUBSET Names]]

Revoking(app) == \E r \in Requests :
    calls[r].app = app /\ calls[r].at \in {"revoke_users", "revoked"}

Reachable(app) ==
    \/ \E row \in role_permissions : owner_of(app, row[2])
    \/ \E u \in Users : \E n \in user_permissions[u].granted : owner_of(app, n)

\* What a role or an account still holds of an app that is off is being deleted
\* now, unless the app's uninstall has not come to its revocation, or died before
\* it, or a request that had read the app as on has granted something since: the
\* sync of the static roles and the revocation between them miss nothing else,
\* whatever saves, installs and restarts they meet.
SwitchedOffIsOff ==
    \A app \in Optional \ (enabled \cup unrevoked) : Reachable(app) => Revoking(app)

\* Admin holds an app whole or not at all, whatever meets; and holds those that are
\* on, unless the install that switched one on has not synced yet, or its sync was
\* undone: by a sync that had read the app as off and commits after it, or by the
\* revocation of an uninstall before it.  No edit of a role, and no uninstall of
\* another app that began after the install, takes any of it.
AdminHoldsWhatIsOn ==
    \A app \in Apps :
        LET all == {n \in Names : owner_of(app, n)}
            held == permissions_of("Admin")
        IN  /\ all \subseteq held \/ all \cap held = {}
            /\ app \in AlwaysOn \/ app \in enabled \ unsynced => all \subseteq held

\* Whatever meets, the owner can administer the workspace: an Admin, without a
\* denial, who holds all that no app can take away.
OwnerCanAdminister ==
    /\ "Admin" \in names_for_user(Owner)
    /\ \A app \in AlwaysOn, n \in Names : owner_of(app, n) => n \in effective_of(Owner)

\* A request acts on what its account had when it came, less only what an edit that
\* wrote since meant to take and with only what one meant to give, however many
\* edits meet: never on a role between the deletion of its grants and their
\* insertion, on an edit that was aborted, or on what two edits lose between them.
\* A key acts on the part of it that its scopes cover.
ActsOnWhatWasMeant ==
    \A r \in Requests : calls[r].at = "admitted" =>
        LET call == calls[r]
            seen == watched[r]
            covered(names) == IF call.kind = "key"
                              THEN {n \in names : (Above[n] \cup {n}) \cap keys[call.key].scopes # {}} ELSE names
        IN  /\ covered(seen.had \ seen.taken) \subseteq call.held
            /\ call.held \subseteq covered(seen.had \cup seen.given)

\* What a comment says that the code does not keep (services/authorization/
\* grants.rs:236): an app that is off "cannot be granted its way back in", once
\* nobody holds a page of it any more.
NoWayBackIn ==
    [][\A app \in Optional \ enabled : Reachable(app)' => Reachable(app) \/ app \in enabled']_vars

\* What a comment says that the code does not keep (db/authorization/role.rs:74):
\* "Admin holds the whole tree of every app that is on, by definition".  It loses
\* nothing of an app that stays on.
AdminHoldsByDefinition ==
    [][\A n \in all_of(enabled) \cap all_of(enabled') :
          <<"Admin", n>> \in role_permissions => <<"Admin", n>> \in role_permissions']_vars

=============================================================================
