--------------------------- MODULE PermissionsProofs ---------------------------
(***************************************************************************)
(* What the arithmetic of permissions and the ownership of their subtrees  *)
(* give, for every tree, catalog and set of ticks.                         *)
(***************************************************************************)
EXTENDS Permissions, TLAPS

LEMMA NormalisedAreNames ==
    ASSUME NEW desired
    PROVE  normalise(desired) \subseteq Names
BY PermissionsAssumption DEF normalise

\* The screen of an account saves what makes it hold exactly what was ticked,
\* with what each tick hangs beneath, whatever its roles give: user_permissions
\* stores the difference, and resolving puts it together again (grants.rs).
THEOREM TickedIsHeld ==
    ASSUME NEW from_roles, NEW desired
    PROVE  effective(from_roles, overrides_for(from_roles, desired)) = normalise(desired)
BY DEF effective, overrides_for

\* Saving what is held already, or what was saved before, changes nothing.
THEOREM SavingTwiceIsSavingOnce ==
    ASSUME NEW from_roles, NEW desired
    PROVE  overrides_for(from_roles, normalise(desired)) = overrides_for(from_roles, desired)
<1>1. normalise(normalise(desired)) = normalise(desired)
  BY PermissionsAssumption DEF normalise
<1>2. QED
  BY <1>1 DEF overrides_for

\* A key never acts with more than its owner holds (api_key.rs).
THEOREM KeyIsNoWider ==
    ASSUME NEW held, NEW scopes
    PROVE  narrowed(held, scopes) \subseteq held
BY DEF narrowed

\* A permission belongs to one app at most: no order of the catalog decides
\* whose switch it hangs on (apps.rs, owner_of).
THEOREM OneOwner ==
    ASSUME NEW a \in Apps, NEW b \in Apps, NEW n \in Names, owner_of(a, n), owner_of(b, n)
    PROVE  a = b
<1>1. owns(b, Root[a]) /\ owns(a, Root[b])
  BY DEF owner_of
<1>2. CASE Root[a] = Root[b]
  BY <1>2, PermissionsAssumption
<1>3. CASE Root[a] # Root[b]
  <2>1. Root[b] \in Above[Root[a]] /\ Root[a] \in Above[Root[b]]
    BY <1>1, <1>3 DEF owns, is_descendant_of
  <2>2. Root[a] \in Names /\ Above[Root[b]] \subseteq Above[Root[a]]
    BY <2>1, PermissionsAssumption
  <2>3. Root[a] \in Above[Root[a]]
    BY <2>1, <2>2
  <2>4. QED
    BY <2>2, <2>3, PermissionsAssumption
<1>4. QED
  BY <1>2, <1>3

\* What an uninstall deletes - the permission of the app and all beneath it, by
\* name - is nobody else's: no other app owns any of it (role.rs, revoke_everywhere).
THEOREM RevocationIsItsOwn ==
    ASSUME NEW app \in Optional, NEW other \in Apps, other # app,
           NEW n \in Names, owner_of(other, n)
    PROVE  ~owns(app, n)
<1>1. SUFFICES ASSUME owns(app, n) PROVE FALSE
  OBVIOUS
<1>2. app \in Apps /\ app \notin AlwaysOn
  BY DEF Optional
<1>3. Root[app] = Root[other] \/ Root[app] \in Above[Root[other]]
  BY <1>1, <1>2 DEF owner_of, owns, is_descendant_of
<1>4. QED
  BY <1>2, <1>3, PermissionsAssumption

\* An app that is always on keeps its permissions through every filter.
LEMMA AlwaysOnPasses ==
    ASSUME NEW app \in AlwaysOn, NEW n \in Names, NEW E, owner_of(app, n)
    PROVE  n \in for_enabled_apps(Names, E)
BY DEF for_enabled_apps

\* So does an app that is on.
LEMMA EnabledPasses ==
    ASSUME NEW app \in Apps, NEW n \in Names, NEW E, app \in E, owner_of(app, n)
    PROVE  n \in for_enabled_apps(Names, E)
BY DEF for_enabled_apps

\* What has been filtered stays filtered when the names it hangs beneath are put
\* back: they bring in no app that can be off.
LEMMA FilteredTicksStay ==
    ASSUME NEW E, NEW desired, desired \subseteq for_enabled_apps(Names, E),
           NEW n \in normalise(desired), NEW app \in Optional, owner_of(app, n)
    PROVE  app \in E
<1>0. app \in Apps /\ app \notin AlwaysOn /\ AlwaysOn \subseteq Apps
  BY PermissionsAssumption DEF Optional
<1>1. desired \subseteq Names
  BY DEF for_enabled_apps
<1>2. PICK m \in desired : n = m \/ n \in Above[m]
  BY <1>1 DEF normalise
<1>3. m \in Names /\ \E owner \in AlwaysOn \cup (Apps \cap E) : owner_of(owner, m)
  BY DEF for_enabled_apps
<1>4. PICK owner \in AlwaysOn \cup (Apps \cap E) : owner_of(owner, m)
  BY <1>3
<1>5. owns(app, m)
  <2>1. n = Root[app] \/ Root[app] \in Above[n]
    BY DEF owner_of, owns, is_descendant_of
  <2>2. n # m => Above[n] \subseteq Above[m]
    BY <1>2, <1>3, PermissionsAssumption
  <2>3. QED
    BY <1>2, <2>1, <2>2 DEF owns, is_descendant_of
<1>6. owns(app, Root[owner])
  BY <1>0, <1>4, <1>5 DEF owner_of
<1>7. CASE Root[owner] = Root[app]
  BY <1>0, <1>4, <1>7, PermissionsAssumption
<1>8. CASE Root[app] \in Above[Root[owner]]
  BY <1>0, <1>4, <1>8, PermissionsAssumption
<1>9. QED
  BY <1>6, <1>7, <1>8 DEF owns, is_descendant_of

\* A name that passes the filter for an app is that app's because it is on.
LEMMA PassedIsEnabled ==
    ASSUME NEW E, NEW names \in SUBSET Names, NEW n \in for_enabled_apps(names, E),
           NEW app \in Optional, owner_of(app, n)
    PROVE  app \in E
<1>1. PICK owner \in AlwaysOn \cup (Apps \cap E) : owner_of(owner, n)
  BY DEF for_enabled_apps
<1>2. owner \in Apps /\ app \in Apps /\ app \notin AlwaysOn /\ n \in Names
  BY PermissionsAssumption DEF Optional, for_enabled_apps
<1>3. owner = app
  BY <1>1, <1>2, OneOwner
<1>4. QED
  BY <1>1, <1>2, <1>3

=============================================================================
