---------------------------- MODULE MCDashboard ----------------------------
(* Small instances of Dashboard. *)
EXTENDS DashboardInv, TLC

CONSTANTS k1, k2, i1, i2, m1, m2, ns1, ns2

Sym == Permutations({k1, k2})

MCPlaces == {Place(ns1, FALSE), Place(ns1, TRUE), Place(ns2, FALSE)}
MCMapParams == {[ns |-> ns1, color |-> FALSE], [ns |-> ns2, color |-> FALSE], [ns |-> ns2, color |-> TRUE]}
MCProviderOf == (m1 :> "local") @@ (m2 :> "openai")
MCSizes == (m1 :> {2}) @@ (m2 :> {2, 3})
MCNativeSize == (m1 :> 2) @@ (m2 :> 3)
MCValues == {-1, 1, 2}
MCBucketSteps == <<1, 2, 4>>
MCDocTabs == <<"guides", "api">>
MCDocPages == [guides |-> <<"intro", "start">>, api |-> <<"rest", "python", "node">>]

Journey(pages, start, roles, records) ==
    [visits |-> pages, start |-> start, roles |-> roles, records |-> records,
     embed |-> IF "settings" \in pages THEN None ELSE m1]

Empty == (ns1 :> {}) @@ (ns2 :> {})
Little == (ns1 :> {1}) @@ (ns2 :> {})
Full == (ns1 :> {1, 2}) @@ (ns2 :> {2})

\* The index page: its panels alone and in pairs
IndexJourneys ==
    {Journey({"index", "browse"}, IndexRoute(i1, "browse"), {"admin"}, Full),
     Journey({"index", "browse", "query"}, IndexRoute(i1, "browse"), {"admin"}, Little),
     Journey({"index", "browse", "query", "failures"}, IndexRoute(i1, "browse"), {"read"}, Little),
     Journey({"index", "browse", "polls", "failures"}, IndexRoute(i1, "browse"), {"admin"}, Little),
     Journey({"index", "explore", "query"}, IndexRoute(i1, "explore"), {"read"}, Full),
     Journey({"index", "explore", "polls", "failures"}, IndexRoute(i1, "explore"), {"read"}, Full),
     Journey({"index", "query", "typing"}, IndexRoute(i1, "query"), {"read"}, Little),
     Journey({"index", "upsert", "overview", "polls"}, IndexRoute(i1, "overview"), {"write"}, Empty),
     Journey({"index", "upsert", "failures"}, IndexRoute(i1, "upsert"), {"write"}, Empty),
     Journey({"index", "overview", "failures"}, IndexRoute(i1, "overview"), {"write"}, Empty),
     Journey({"index", "settings"}, IndexRoute(i1, "settings"), {"admin"}, Full),
     Journey({"index", "indexes", "overview", "list"}, IndexesRoute(FALSE), {"read"}, Full)}

\* The other pages
PageJourneys ==
    {Journey({"keys", "typing"}, KeysRoute(TRUE), {"admin"}, Full),
     Journey({"keys", "polls", "failures"}, KeysRoute(FALSE), {"admin"}, Full),
     Journey({"keys", "palette"}, KeysRoute(FALSE), {"admin"}, Full),
     Journey({"security", "palette"}, SecurityRoute, {"read", "admin"}, Full),
     Journey({"security", "typing", "polls"}, SecurityRoute, {"read", "admin"}, Full),
     Journey({"providers"}, SettingsRoute, {"admin"}, Full),
     Journey({"providers", "rows", "models", "polls", "failures"}, SettingsRoute, {"admin"}, Full),
     Journey({"indexes"}, IndexesRoute(TRUE), {"admin"}, Full),
     Journey({"indexes", "typing"}, IndexesRoute(TRUE), {"admin"}, Full),
     Journey({"indexes", "list", "palette", "typing"}, IndexesRoute(TRUE), {"read"}, Full),
     Journey({"playground", "list"}, PlaygroundRoute("search"), {"read"}, Full),
     Journey({"playground", "failures"}, PlaygroundRoute("compare"), {"admin"}, Full),
     Journey({"playground", "models"}, PlaygroundRoute("compare"), {"admin"}, Full),
     Journey({"home"}, OverviewRoute, {"admin"}, Full),
     Journey({"docs", "typing"}, DocsRoute, {"admin"}, Full)}

\* Who is signed in, around pages that poll and search
SessionJourneys ==
    {Journey({"signin", "list", "security", "failures"}, SecurityRoute, {"admin"}, Full),
     Journey({"signin", "list", "playground"}, PlaygroundRoute("search"), {"admin"}, Full),
     Journey({"signin", "docs", "list"}, DocsRoute, {"admin"}, Full)}
=============================================================================
