-------------------------------- MODULE Shell --------------------------------
(***************************************************************************)
(* The frame around every page but docs (Shell.tsx): the polls of the list *)
(* of indexes and of the server's health, the links of the sidebar and the *)
(* menus, and the command palette. Labels, hints and breadcrumbs are left  *)
(* out; a search text stands for the group of commands it matches.         *)
(***************************************************************************)
EXTENDS Client, Integers

CONSTANTS
    Searches,       \* groups typed in the palette; one matches no command
    IndexNames      \* indexes the server may hold

ShellMount == [indexes |-> NoData, unreachable |-> FALSE, palette |-> None]

ShellState ==
    [indexes : [data : {None} \cup SUBSET [name : IndexNames, embed : BOOLEAN], error : {None, "error"}],
     unreachable : BOOLEAN,
     palette : {None} \cup [query : Searches \cup {None}, active : Int]]

\* The indexes in the sidebar, in the palette and given to the pages
List == IF shell.indexes.data = None THEN {} ELSE {x.name : x \in shell.indexes.data}

InShell == me \in Roles /\ view.page \notin {"docs", "boot", "signin"}

OverviewRoute == [page |-> "home"]       \* #/
IndexesRoute(new) == [page |-> "indexes", new |-> new]
PlaygroundRoute(tab) == [page |-> "playground", tab |-> tab]
KeysRoute(new) == [page |-> "keys", new |-> new]
SecurityRoute == [page |-> "security", q |-> FALSE]
DocsRoute == [page |-> "docs", tab |-> None, doc |-> None]

ShellOps == {"indexes", "stats"}

---------------------------------------------------------------------------
(* The command palette *)

Command(group, to) == [group |-> group, to |-> to]

AdminOnly(commands) == IF Can("admin") THEN commands ELSE <<>>

\* The commands, in the order they are listed, without "Sign out" (SignOut of
\* SignIn). The API explorer opens in another window: no route.
Commands ==
    LET names == SetToSeq(List) IN
    <<Command("go", OverviewRoute), Command("go", IndexesRoute(FALSE)),
      Command("go", PlaygroundRoute("search")), Command("go", PlaygroundRoute("compare"))>>
    \o AdminOnly(<<Command("go", KeysRoute(FALSE))>>)
    \o <<Command("go", SecurityRoute)>>
    \o AdminOnly(<<Command("go", SettingsRoute)>>)
    \o [n \in DOMAIN names |-> Command("index", IndexRoute(names[n], "overview"))]
    \o [n \in DOMAIN names |-> Command("query", IndexRoute(names[n], "query"))]
    \o AdminOnly(<<Command("act", IndexesRoute(TRUE)), Command("act", KeysRoute(TRUE))>>)
    \o <<Command("act", DocsRoute), Command("act", None)>>

Matches(query) ==
    SelectSeq(Commands, LAMBDA c : query \in {None, c.group})

Palette(p) == shell' = [shell EXCEPT !.palette = p]

\* Cmd+K toggles it, the search box opens it, Escape and the scrim close it
TogglePalette ==
    /\ InShell /\ "palette" \in visits
    /\ Palette(IF shell.palette = None THEN [query |-> None, active |-> 0] ELSE None)
    /\ UNCHANGED <<me, catalog, hash, view, calls, server>>

\* A new search text highlights the first match again. Bound: only in
\* behaviours with "typing".
TypeInPalette == \E q \in Searches \cup {None} :
    /\ InShell /\ "typing" \in visits /\ shell.palette # None /\ q # shell.palette.query
    /\ Palette([query |-> q, active |-> 0])
    /\ UNCHANGED <<me, catalog, hash, view, calls, server>>

\* Arrow keys; with no match at all the down arrow moves to -1. Bound: only in
\* behaviours with "typing".
MoveInPalette ==
    /\ InShell /\ "typing" \in visits /\ shell.palette # None
    /\ LET a == shell.palette.active
           n == Len(Matches(shell.palette.query))
       IN \/ Palette([shell.palette EXCEPT !.active = IF a + 1 < n THEN a + 1 ELSE n - 1])
          \/ Palette([shell.palette EXCEPT !.active = IF a > 0 THEN a - 1 ELSE 0])
    /\ UNCHANGED <<me, catalog, hash, view, calls, server>>

\* Enter runs the highlighted match, if there is one; a click highlights
\* and runs
RunCommand ==
    /\ InShell /\ shell.palette # None
    /\ LET m == Matches(shell.palette.query) IN
       \E n \in DOMAIN m :
          /\ m[n].to # None => m[n].to.page \in visits
          /\ IF m[n].to = None THEN UNCHANGED hash ELSE go(m[n].to)
    /\ Palette(None)
    /\ UNCHANGED <<me, catalog, view, calls, server>>

---------------------------------------------------------------------------
(* Links and polls *)

\* The sidebar, the breadcrumbs and the two menus; keys and settings are
\* listed for admins only, though their address can be typed by anyone
Links ==
    {OverviewRoute, IndexesRoute(FALSE), PlaygroundRoute("search"), SecurityRoute, DocsRoute}
    \cup {IndexRoute(n, "overview") : n \in List}
    \cup (IF Can("admin") THEN {KeysRoute(FALSE), SettingsRoute} ELSE {})

FollowLink == \E to \in Links :
    /\ InShell /\ to.page \in visits /\ to # hash
    /\ go(to)
    /\ UNCHANGED <<me, shell, catalog, view, calls, server>>

\* Every 5 s and every 10 s, also from a page that calls onChanged
PollShell == /\ InShell /\ "list" \in visits
             /\ Ticks("indexes") \/ Ticks("stats")
             /\ UNCHANGED <<app, view, server>>

ServeIndexes == \E i \in Pending("indexes") :
    /\ Answer(i, {[name |-> n, embed |-> server.embed # None] : n \in server.indexes})
    /\ UNCHANGED <<app, view, server>>

ServeStats == \E i \in Pending("stats") :
    /\ Answer(i, None)
    /\ UNCHANGED <<app, view, server>>

\* The shell outlives the pages, but not signing out or the docs
StatsLoaded == \E i \in Arrived("stats") :
    /\ shell' = IF calls[i].live THEN [shell EXCEPT !.unreachable = ~Ok(i)] ELSE shell
    /\ calls' = Without(i)
    /\ UNCHANGED <<me, catalog, hash, view, server>>

ShellNext ==
    \/ TogglePalette \/ TypeInPalette \/ MoveInPalette \/ RunCommand \/ FollowLink
    \/ PollShell \/ ServeIndexes \/ ServeStats \/ StatsLoaded
=============================================================================
