------------------------------ MODULE Permissions ------------------------------
(***************************************************************************)
(* The tree of permissions a build defines, the apps that own its subtrees *)
(* and the arithmetic of what an account holds.  All of it is pure.        *)
(*                                                                         *)
(*   phonix-core/src/authorization/{definitions,permission_set,grants}.rs  *)
(*   phonix-core/src/apps.rs                                               *)
(*                                                                         *)
(* A name is a member of Names and its place in the tree is Above: the     *)
(* dots of `Pages.Sales.Invoices` say nothing else.                        *)
(***************************************************************************)
CONSTANTS
    Names,      \* DEFINITIONS: every permission the build defines
    Above,      \* the ancestors of each
    Defaults,   \* those that are default_for_user
    Apps,       \* CATALOG
    Root,       \* the permission every page of an app hangs beneath
    Requires,   \* the apps that have to be on for it to be useful
    AlwaysOn    \* the apps every workspace has

\* An app whose root others hang beneath is always on: core, today.
ASSUME PermissionsAssumption ==
    /\ Above \in [Names -> SUBSET Names]
    /\ \A n \in Names : n \notin Above[n] /\ \A a \in Above[n] : Above[a] \subseteq Above[n]
    /\ Defaults \subseteq Names
    /\ Root \in [Apps -> Names] /\ \A app, other \in Apps : Root[app] = Root[other] => app = other
    /\ Requires \in [Apps -> SUBSET Apps] /\ AlwaysOn \subseteq Apps
    /\ \A app, other \in Apps : Root[other] \in Above[Root[app]] => other \in AlwaysOn

Optional == Apps \ AlwaysOn

is_descendant_of(n, ancestor) == ancestor \in Above[n]

owns(app, n) == n = Root[app] \/ is_descendant_of(n, Root[app])

\* The longest root wins: whatever else claims the name claims that root too.
owner_of(app, n) == owns(app, n) /\ \A other \in Apps : owns(other, n) => owns(other, Root[app])

for_enabled_apps(names, enabled) ==
    {n \in names : \E app \in AlwaysOn \cup (Apps \cap enabled) : owner_of(app, n)}

\* A tick brings its ancestors; a name that is not defined is dropped.
normalise(desired) == LET known == desired \cap Names
                      IN  known \cup UNION {Above[n] : n \in known}

overrides_for(from_roles, desired) ==
    [granted |-> normalise(desired) \ from_roles, denied |-> from_roles \ normalise(desired)]

effective(from_roles, overrides) == (from_roles \cup overrides.granted) \ overrides.denied

\* What a key may do: what its owner holds and one of its scopes covers.
narrowed(held, scopes) ==
    {n \in held : n \in scopes \/ \E scope \in scopes : is_descendant_of(n, scope)}
=============================================================================
