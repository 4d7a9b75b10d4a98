------------------------------ MODULE Dashboard ------------------------------
(***************************************************************************)
(* The whole dashboard (src/ui): App decides between sign-in, docs and the *)
(* shell; the hash decides the page; one page is mounted at a time and the *)
(* calls of pages that are gone are still in flight.                       *)
(***************************************************************************)
EXTENDS SignIn, Keys, ProviderKeys, IndexPage, Playground, Security, Docs

CONSTANTS
    Journeys        \* bound: what a behaviour visits, as records of the
                    \* pages and panels used, the route it starts at, the roles
                    \* the user may have, and the records and the embedding
                    \* the index has at first

ASSUME JourneysAssumption == \A j \in Journeys : j.embed \in Models \cup {None}

vars == <<app, view, calls, server, visits>>

---------------------------------------------------------------------------
(* Mounting. A page that is mounted is [view, calls, catalog]: the state    *)
(* after its effects, what they sent, and the catalog it subscribed to.     *)

\* Pages no journey looks into, and what a reader sees in place of Keys
Elsewhere(route) == [page |-> "elsewhere", route |-> route]

Alone(v) == [view |-> v, calls |-> <<>>, catalog |-> catalog]
WithCatalog(v) == [view |-> v, calls |-> SubscribeCalls, catalog |-> Subscribed]

MountPage(route, m) ==
    CASE route.page \notin visits -> Alone(Elsewhere(route))
      [] route.page = "keys" /\ m = "admin" -> Alone(KeysMount(route))
      [] route.page = "providers" -> Alone(ProvidersMount(route))
      [] route.page = "index" -> Alone(IndexMount(route))
      [] route.page = "home" -> Alone(OverviewMount(route))
      [] route.page = "security" -> Alone(SecurityMount(route))
      [] route.page = "indexes" -> WithCatalog(IndexesMount(route, m))
      [] route.page = "playground" -> WithCatalog(PlaygroundMount(route, m))
      [] OTHER -> Alone(Elsewhere(route))

Mounted(route, m) ==
    CASE Slot(route, m) = "out" -> Alone(SignInMount(route))
      [] Slot(route, m) = "boot" -> Alone([page |-> "boot", route |-> route])
      [] Slot(route, m) = "docs" -> Alone(DocsMount(route))
      [] OTHER -> MountPage(route, m)

\* Shell keys its page by section and index: the same page gets new props
PageKey(route) == <<route.page, IF route.page = "index" THEN route.name ELSE None>>

\* The tab of the playground: the other one mounts anew, and subscribes to the
\* catalog anew
OtherTab(route) == view.page = "playground" /\ route.tab # view.route.tab

PlaygroundRouted(route) ==
    IF OtherTab(route)
    THEN [view |-> PlaygroundMount(route, me), hash |-> route,
          calls |-> Orphan([i \in DOMAIN calls |-> calls[i].op \in {"search", "compare"}])
                    \o SubscribeCalls]
    ELSE [view |-> [view EXCEPT !.route = route], calls |-> calls, hash |-> route]

\* What the page does with new props, when it stays mounted
Routed(route) ==
    LET v == [view EXCEPT !.route = route]
        same(w) == [view |-> w, calls |-> calls, hash |-> route] IN
    CASE view.page = "keys" -> same(IF route.new /\ ~view.creating THEN Opened(v) ELSE v)
      [] view.page = "indexes" -> same(IF route.new /\ Can("admin") THEN IndexSheetOpened(v) ELSE v)
      [] view.page = "providers" -> same(Requested(v))
      [] view.page = "index" -> IndexRouted(route)
      [] view.page = "playground" -> PlaygroundRouted(route)
      [] view.page = "docs" -> same(DocsRouted(v))
      [] OTHER -> same(v)

---------------------------------------------------------------------------
\* hashchange: React renders the route that go() or a link has set
Navigate ==
    /\ hash # view.route /\ Free
    /\ LET stays == Slot(hash, me) = Slot(view.route, me)
           same == stays /\ \/ Slot(hash, me) # "shell"
                            \/ PageKey(hash) = PageKey(view.route)
           routed == Routed(hash)
           mounted == Mounted(hash, me)
           orphans == Orphan([i \in DOMAIN calls |-> ~stays \/ calls[i].op \notin ShellOps])
       IN
       IF same
       THEN /\ view' = routed.view /\ calls' = routed.calls /\ hash' = routed.hash
            /\ catalog' = IF OtherTab(hash) THEN Subscribed ELSE catalog
            /\ UNCHANGED shell
       ELSE /\ view' = mounted.view /\ calls' = orphans \o mounted.calls
            /\ catalog' = mounted.catalog
            /\ shell' = IF stays THEN shell ELSE ShellMount
            /\ UNCHANGED hash
    /\ UNCHANGED <<me, server>>

\* setMe: the app renders another page when who is signed in changes what
\* it shows, and everything that was mounted is gone
MeDecided == \E i \in DOMAIN calls :
    /\ Decides(i)
    /\ me' = NewMe(i)
    /\ LET mounted == Mounted(view.route, NewMe(i)) IN
       IF Slot(view.route, NewMe(i)) = Slot(view.route, me)
       THEN /\ calls' = Without(i)
            /\ UNCHANGED <<view, shell, catalog>>
       ELSE /\ view' = mounted.view /\ catalog' = mounted.catalog
            /\ calls' = RemoveAt(Orphaned, i) \o mounted.calls
            /\ shell' = ShellMount
    /\ UNCHANGED <<hash, server>>

\* What a page does with the models when it sees them
WithModels(v, seen) ==
    LET w == [v EXCEPT !.models.seen = seen] IN
    CASE v.page = "indexes" -> [w EXCEPT !.sheet.model = StartOn(@, seen)]
      [] v.page = "playground" /\ v.compare # None /\ v.compare.asks.picked = <<>> ->
           [w EXCEPT !.compare = Compares([@ EXCEPT !.asks.picked = Picks(<<>>, seen)])]
      [] OTHER -> w

\* The answer is seen by the mounted view that waits for this promise, or by
\* any after a refresh, also when a later refresh has made a newer promise.
\* An error drops whatever promise is current, and the view is left waiting.
ModelsLoaded == \E i \in Arrived("models") :
    /\ catalog' = IF ~Ok(i) THEN NoCatalog
                  ELSE IF catalog.promise = calls[i].arg.promise
                  THEN [catalog EXCEPT !.value = calls[i].reply] ELSE catalog
    /\ view' = IF /\ Ok(i) /\ "models" \in DOMAIN view
                  /\ view.models # NoModels
                  /\ calls[i].arg.promise = view.models.promise \/ calls[i].arg.everyone
               THEN WithModels(view, calls[i].reply) ELSE view
    /\ calls' = Without(i)
    /\ UNCHANGED <<me, shell, hash, server>>

\* The poll of the shell gives its list to the page
IndexesLoaded == \E i \in Arrived("indexes") :
    /\ IF calls[i].live
       THEN LET list == Polled(shell.indexes, i) IN
            /\ shell' = [shell EXCEPT !.indexes = list]
            /\ view' = Listed(view, list.data)
            /\ calls' = RemoveAt(ListedCalls(view, list.data), i)
       ELSE calls' = Without(i) /\ UNCHANGED <<shell, view>>
    /\ UNCHANGED <<me, catalog, hash, server>>

\* What the server and the network may do to any call
Refused == /\ \E i \in DOMAIN calls : Refuse(i)
           /\ UNCHANGED <<app, view, server>>

Failed == /\ \E i \in DOMAIN calls :
                /\ "failures" \in visits \/ (NeedsIndex(calls[i]) /\ server.indexes = {})
                /\ Fail(i)
          /\ UNCHANGED <<app, view, server>>

AppNext ==
    \/ Navigate \/ MeDecided \/ Refused \/ Failed \/ ModelsLoaded \/ IndexesLoaded
    \/ "signin" \in visits /\ (SessionEnds \/ SignOut)

Init == \E j \in Journeys :
    /\ visits = j.visits
    /\ hash = j.start
    /\ catalog = NoCatalog
    /\ \E session \in IF "signin" \in visits THEN j.roles \cup {"none"} ELSE j.roles :
          server = [session |-> session, keys |-> {EnvKey}, issued |-> {},
                    indexes |-> IF "indexes" \in visits THEN {} ELSE IndexNames,
                    ef |-> CHOOSE w \in Widths : TRUE,
                    embed |-> j.embed, records |-> j.records,
                    written |-> [ns \in Namespaces |-> {}],
                    provider |-> [p \in Providers |->
                       IF "rows" \in visits THEN [of |-> p, works |-> TRUE] ELSE None]]
    /\ me = "boot"
    /\ shell = ShellMount
    /\ view = Mounted(hash, "boot").view
    /\ calls = <<Call("me", None)>>

Next ==
    /\ \/ AppNext \/ SignInNext \/ ShellNext \/ KeysNext \/ ProvidersNext \/ ServeModels
       \/ IndexNext \/ BrowseNext \/ QueryNext \/ UpsertNext \/ MapNext \/ ConnectNext
       \/ IndexesNext \/ PlaygroundNext \/ OverviewNext \/ SecurityNext \/ DocsNext
    /\ UNCHANGED visits

Spec == Init /\ [][Next]_vars

---------------------------------------------------------------------------
TypeOK ==
    /\ me \in Roles \cup {"boot", "out"}
    /\ shell \in ShellState
    /\ \A i \in DOMAIN calls : /\ calls[i].live \in BOOLEAN
                               /\ calls[i].st \in {"sent", "answered", "failed", "gone"}
    /\ CASE view.page = "signin" -> view \in SignInView
         [] view.page = "docs" -> view \in DocsView
         [] view.page = "keys" -> view \in KeysView
         [] view.page = "providers" -> view \in ProvidersView
         [] view.page = "index" -> view \in IndexView
         [] view.page = "indexes" -> view \in IndexesView
         [] view.page = "playground" -> view \in PlaygroundView
         [] view.page = "home" -> view \in OverviewView
         [] view.page = "security" -> view \in SecurityView
         [] view.page \in {"boot", "elsewhere"} -> DOMAIN view = {"page", "route"}

\* A spinner, or a button that is disabled while it works, always has a call
\* in flight that will end it, for the component on screen and not for one
\* that is gone: after failures, with calls that overlap, with a sheet closed
\* and opened or an index polled meanwhile (the finally of every handler; the
\* reset effects of the sheets and of the playground). A comparison outdated
\* by a text that was then cleared has none (pages/Playground.tsx:448-468).
Awaits(ops) == \E i \in DOMAIN calls : calls[i].op \in ops /\ calls[i].live
AwaitsFrom(op, field, value) ==
    \E i \in DOMAIN calls : calls[i].op = op /\ calls[i].live /\ calls[i].arg[field] = value

NothingHangs ==
    /\ OnSignIn /\ view.busy => Awaits({"login"})
    /\ OnKeys /\ view.sheet.busy => Awaits({"createKey"})
    /\ view.page = "providers" =>
          /\ view.sheet.busy => Awaits({"test", "setProvider"})
          /\ \A p \in Providers : view.checks[p] = "running" => AwaitsFrom("test", "p", p)
    /\ OnIndexes /\ view.creating /\ view.sheet.busy => Awaits({"createIndex"})
    /\ Searching /\ view.search.busy =>
          view.search.wait \/ AwaitsFrom("search", "newest", TRUE)
    /\ Comparing /\ view.compare.busy /\ Comparable(view.compare) =>
          view.compare.wait \/ AwaitsFrom("compare", "newest", TRUE)
    /\ OnIndex =>
          /\ view.browse.loading => Awaits({"list", "metadata"})
          /\ view.query.busy => Awaits({"query"})
          /\ view.upsert.busy => AwaitsFrom("upsert", "by", "upsert")
          /\ view.seed.busy => AwaitsFrom("upsert", "by", "seed")
          /\ view.settings.saving => AwaitsFrom("configure", "panel", TRUE)
          /\ view.connect # None /\ view.connect.busy =>
                AwaitsFrom("setEmbedding", "picker", TRUE)

---------------------------------------------------------------------------
(* Liveness. The oldest call in flight is answered, refused or lost some   *)
(* day and then delivered, and so is every call. Not all of them are lost. *)
(* The timers of a visible tab fire; strong fairness is for those that     *)
(* wait for room, which only the bound MaxInFlight asks for.               *)

steps == <<app, view, calls, server>>

Served == \/ ServeMe \/ ServeLogin \/ ServeLogout \/ ServeRevokeAll \/ ServeIndexes
          \/ ServeStats \/ ServeModels \/ ServeEvents \/ ServeSearch \/ Refused \/ Failed

Delivered == \/ SignInRefused \/ SessionsEnded \/ IndexesLoaded \/ StatsLoaded
             \/ ModelsLoaded \/ FeedLoaded \/ Searched

OldestAdvances ==
    /\ calls # <<>>
    /\ \/ Served /\ Head(calls').st # Head(calls).st
       \/ Delivered /\ IsPrefix(Tail(calls), calls')

Fairness ==
    /\ WF_steps(OldestAdvances) /\ WF_steps(MeDecided) /\ WF_steps(WaitTick)
    /\ SF_steps(Refused) /\ SF_steps(PollShell) /\ SF_steps(RunSearch)

FairSpec == Spec /\ Fairness

\* A dashboard left open does not go on showing a session that has ended: the
\* polls of the shell find out, though some are lost, unless the user reads
\* the docs or a session begins in another tab (App.tsx:30, "Any request that
\* finds the session gone drops back to sign-in").
ExpiryNoticed ==
    me \in Roles /\ server.session = "none"
        ~> me \notin Roles \/ server.session # "none" \/ view.page = "docs"

\* A key that is typed can be submitted in the end, after a lockout too
\* (SignIn.tsx: the countdown and the finally of submit).
SignInOffered ==
    OnSignIn /\ view.key # None
        ~> ~OnSignIn \/ view.key = None \/ "submit" \in SignInControls

\* A search one waits for is answered or says why not, unless one asks for
\* something else or leaves first (pages/Playground.tsx:121-151).
SearchSettles ==
    \A a \in {s \in SearchFor : s.text # None /\ s.index # None} :
        Searching /\ view.search.asks = a /\ (view.search.wait \/ view.search.busy)
            ~> \/ ~Searching \/ view.search.asks # a
               \/ ~view.search.wait /\ ~view.search.busy
=============================================================================
