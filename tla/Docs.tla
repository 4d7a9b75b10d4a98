-------------------------------- MODULE Docs --------------------------------
(***************************************************************************)
(* The documentation (docs/Docs.tsx), which anyone may read without        *)
(* signing in: tabs of pages in an order, the pager at the end of a page   *)
(* and the search of all of them. A page is its slug; a search text stands *)
(* for the pages it finds.                                                 *)
(***************************************************************************)
EXTENDS Client, Integers, FiniteSetsExt

CONSTANTS
    DocTabs,        \* the tabs in order
    DocPages        \* the pages of each, in order

DocsPath(tab, doc) == [page |-> "docs", tab |-> tab, doc |-> doc]

\* The first tab when there is none of that name, and its first page when the
\* address names none; no page when it names one that is not there
DocTab(route) == IF route.tab \in ToSet(DocTabs) THEN route.tab ELSE DocTabs[1]
DocPage(route) ==
    LET pages == DocPages[DocTab(route)] IN
    IF route.doc = None THEN pages[1]
    ELSE IF route.doc \in ToSet(pages) THEN route.doc ELSE None
DocKey(route) == <<DocTab(route), IF DocPage(route) = None THEN route.doc ELSE DocPage(route)>>

DocsMount(route) == [page |-> "docs", route |-> route, nav |-> FALSE, search |-> None]

DocsView ==
    [page : {"docs"}, route : {view.route}, nav : BOOLEAN,
     search : {None} \cup [found : 0 .. Len(DocTabs), active : -1 .. 12]]

\* The effect on [key] closes the menu of pages
DocsRouted(v) ==
    IF DocKey(v.route) = DocKey(view.route) THEN v ELSE [v EXCEPT !.nav = FALSE]

---------------------------------------------------------------------------
OnDocs == view.page = "docs"

Position == LET found == {n \in DOMAIN DocPages[DocTab(view.route)] :
                              DocPages[DocTab(view.route)][n] = DocPage(view.route)}
            IN IF found = {} THEN 0 ELSE Min(found)

\* The pager of the page on screen: the pages before and after it
Pager == LET pages == DocPages[DocTab(view.route)] IN
    {DocsPath(DocTab(view.route), pages[n]) :
        n \in {k \in DOMAIN pages : Position # 0 /\ k \in {Position - 1, Position + 1}}}

\* Links of the tabs, the list of pages and the way back to the app
DocLinks ==
    {DocsPath(t, DocPages[t][1]) : t \in ToSet(DocTabs)}
    \cup {DocsPath(DocTab(view.route), p) : p \in ToSet(DocPages[DocTab(view.route)])}
    \cup Pager \cup {[page |-> "home"]}

FollowDocLink ==
    /\ OnDocs /\ view.search = None
    /\ \E to \in DocLinks \ {hash} : go(to)
    /\ UNCHANGED <<me, shell, catalog, view, calls, server>>

ToggleMenu ==
    /\ OnDocs /\ view.search = None
    /\ view' = [view EXCEPT !.nav = ~@]
    /\ UNCHANGED <<app, calls, server>>

---------------------------------------------------------------------------
(* The search: at first the suggested pages, then those that are found *)

Results(n) == DocPages[IF n = 0 THEN DocTabs[1] ELSE DocTabs[n]]

\* Cmd+K, "/" and the button; Escape and the scrim close it.
\* Bound: only in behaviours with "typing".
ToggleDocSearch ==
    /\ OnDocs /\ "typing" \in visits
    /\ view' = [view EXCEPT !.search = IF @ = None THEN [found |-> 0, active |-> 0] ELSE None]
    /\ UNCHANGED <<app, calls, server>>

\* A new text highlights the first result; the arrows move
TypeInDocSearch ==
    /\ OnDocs /\ view.search # None
    /\ LET n == Len(Results(view.search.found)) IN
       \/ \E f \in 0 .. Len(DocTabs) : view' = [view EXCEPT !.search = [found |-> f, active |-> 0]]
       \/ view' = [view EXCEPT !.search.active = IF @ + 1 < n THEN @ + 1 ELSE n - 1]
       \/ view' = [view EXCEPT !.search.active = IF @ > 0 THEN @ - 1 ELSE 0]
    /\ UNCHANGED <<app, calls, server>>

OpenResult ==
    /\ OnDocs /\ view.search # None
    /\ LET r == Results(view.search.found)
           t == IF view.search.found = 0 THEN DocTabs[1] ELSE DocTabs[view.search.found]
       IN \E n \in DOMAIN r : go(DocsPath(t, r[n]))
    /\ view' = [view EXCEPT !.search = None]
    /\ UNCHANGED <<me, shell, catalog, calls, server>>

DocsNext == FollowDocLink \/ ToggleMenu \/ ToggleDocSearch \/ TypeInDocSearch \/ OpenResult
=============================================================================
