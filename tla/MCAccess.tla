-------------------------------- MODULE MCAccess --------------------------------
EXTENDS Access, TLC

CONSTANTS r1, r2, r3

\* Pages, what only an administrator reaches, Books with its invoices, and an app
\* that a later build may offer beside it.
Tree == {"Pages", "Administration", "Sales", "Invoices", "Stock"}
Parents == [n \in Tree |-> CASE n = "Pages" -> {} [] n = "Invoices" -> {"Sales", "Pages"} [] OTHER -> {"Pages"}]
Given == {"Pages", "Sales"}
Catalog == {"core", "books", "stock"}
Roots == "core" :> "Pages" @@ "books" :> "Sales" @@ "stock" :> "Stock"
Needs == "core" :> {} @@ "books" :> {"core"} @@ "stock" :> {"core"}
Doors == [kind \in Changes |-> "Administration"]

Ticks == {{}, {"Invoices"}, {"Pages", "Administration"}}
Symmetry == Permutations({r1, r2, r3})

Mix(kinds, arrivals) == [kinds |-> kinds, apps |-> {"books"}, arrivals |-> arrivals, twins |-> TRUE]
Each(kinds) == [Mix(kinds, 3) EXCEPT !.twins = FALSE]
WithStock(met) == [met EXCEPT !.apps = {"books", "stock"}]
Families == {Each({"install", "uninstall", "boot"}),
             WithStock(Mix({"install", "uninstall", "boot"}, 2)),
             Mix({"install", "uninstall", "set_role"}, 2),
             Mix({"install", "uninstall", "set_user"}, 2),
             Each({"set_role", "boot"}),
             Mix({"set_user", "set_members"}, 2),
             Mix({"create", "delete", "set_role", "set_members"}, 2),
             Each({"set_role", "set_user", "use"}),
             Mix({"delete", "set_members", "use"}, 2),
             Each({"issue", "revoke_key", "key", "uninstall"})}
Saves == {Mix({"uninstall", "set_role"}, 2)}
Starts == {Mix({"install", "boot"}, 2)}
=============================================================================
