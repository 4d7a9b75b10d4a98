---------------------------- MODULE DashboardInv ----------------------------
(***************************************************************************)
(* What the dashboard's safety properties rest on: an inductive invariant  *)
(* of Dashboard about the calls in flight that write records, carry the    *)
(* key of a provider or query an index, about the fields of a page that    *)
(* such calls are made from, about the newest search and comparison, about *)
(* the calls that the page on screen waits for, and about the samples that *)
(* the overview draws. DashboardProofs, DashboardShownProofs and           *)
(* DashboardWaitProofs prove it, the runs dashboard_index and              *)
(* dashboard_pages check it.                                               *)
(***************************************************************************)
EXTENDS Dashboard

---------------------------------------------------------------------------
(* Calls. Nothing is asked of those that no property is about.             *)

Watched == {"upsert", "test", "setProvider", "query"}

IsCall(c) == c = [op |-> c.op, arg |-> c.arg, live |-> c.live, st |-> c.st,
                  reply |-> c.reply]

\* A batch of records: all before it are in the namespace of the first, and
\* so are its own once it is answered
BatchOk(c, written) ==
    /\ c.arg.ns \in Namespaces
    /\ c.arg.from \in Nat \ {0} /\ c.arg.n \in Nat
    /\ 1 .. c.arg.from - 1 \subseteq written[c.arg.ns]
    /\ c.st = "answered" => 1 .. LastOf(c.arg) \subseteq written[c.arg.ns]

\* A key on its way to a provider, to be tested there or saved; a test that
\* succeeds says that this key works
KeyOk(c) ==
    /\ c.arg.key # None => c.arg.key.of = c.arg.p
    /\ c.op = "setProvider" => c.arg.key.works \/ c.arg.anyway
    /\ c.op = "test" /\ c.st = "answered" /\ c.reply = "ok" /\ c.arg.key # None
          => c.arg.key.works

\* An answer of a query names the query
IsAnswer(r, body) == r = [body |-> body, matches |-> r.matches]
AnswerOk(c) == c.st = "answered" => IsAnswer(c.reply, c.arg)

CallOk(c, written) ==
    /\ IsCall(c)
    /\ c.op = "upsert" => BatchOk(c, written)
    /\ c.op \in {"test", "setProvider"} => KeyOk(c)
    /\ c.op = "query" => AnswerOk(c)

CallsOk(cs, written) ==
    /\ cs \in Seq({cs[i] : i \in DOMAIN cs})
    /\ \A i \in DOMAIN cs : CallOk(cs[i], written)

---------------------------------------------------------------------------
(* Pages                                                                   *)

\* The sheet of Settings holds a key for the provider that it shows
SheetOk(v) ==
    /\ {"editing", "sheet"} \subseteq DOMAIN v
    /\ "key" \in DOMAIN v.sheet
    /\ v.sheet.key # None => v.sheet.key.of = v.editing

\* The panels of an index, once it is loaded: the query panel's result and the
\* request beside it, the number of records typed and their namespace
PanelsOk(v) ==
    /\ {"result", "last"} \subseteq DOMAIN v.query
    /\ \/ v.query.result = None /\ v.query.last = None
       \/ IsAnswer(v.query.result, v.query.last)
    /\ {"ns", "records"} \subseteq DOMAIN v.upsert
    /\ v.upsert.ns \in Namespaces /\ v.upsert.records \in Nat

ViewOk(v) ==
    /\ {"page", "route"} \subseteq DOMAIN v
    /\ v.page = "providers" => SheetOk(v)
    /\ v.page = "index" =>
          /\ {"info", "browse", "query", "upsert"} \subseteq DOMAIN v
          /\ "data" \in DOMAIN v.info
          /\ v.info.data # None => PanelsOk(v)

---------------------------------------------------------------------------
\* What the pages rely on when they send a batch, a key or a query and when
\* its answer comes: each call in flight is as it was made, wherever the page
\* has gone since (api.ts; UpsertPanel.tsx, Settings.tsx and QueryPanel.tsx).
CallsInv ==
    /\ "written" \in DOMAIN server /\ DOMAIN server.written = Namespaces
    /\ CallsOk(calls, server.written)
    /\ ViewOk(view)

---------------------------------------------------------------------------
(* The newest search and comparison                                        *)

\* What the page on screen waits for in the playground
Shows == {"search", "compare"}
Heard(cs) ==
    {<<cs[i].op, cs[i].arg>> : i \in {j \in DOMAIN cs : cs[j].live /\ cs[j].op \in Shows}}

\* The results are of what is asked, or there are none, unless new ones are to
\* come or there is an error
SearchOk(s) ==
    /\ {"asks", "wait", "busy", "error", "result"} \subseteq DOMAIN s
    /\ s.result \in {None, s.asks} \/ s.wait \/ s.busy \/ s.error

\* Likewise, but for a text that was cleared; without a model nothing is compared
CompareOk(c) ==
    /\ {"asks", "wait", "busy", "error", "result", "ranked"} \subseteq DOMAIN c
    /\ {"text", "docs", "picked"} \subseteq DOMAIN c.asks
    /\ c.asks.picked \in Seq({c.asks.picked[n] : n \in DOMAIN c.asks.picked})
    /\ c.result \in {None, c.asks} \/ c.asks.text = None \/ c.wait \/ c.busy \/ c.error
    /\ c.result # None => c.ranked = c.result.docs
    /\ c.asks.picked = <<>> => c.result = None /\ ~c.wait

\* The newest call asks for what the fields hold
HeardOk(heard, v) ==
    \A a \in heard :
        /\ a[1] = "search" /\ a[2].newest =>
              v.page = "playground" /\ SearchOk(v.search) /\ a[2].asks = v.search.asks
        /\ a[1] = "compare" /\ a[2].newest =>
              /\ v.page = "playground" /\ CompareOk(v.compare)
              /\ v.compare.asks.picked # <<>>
              /\ a[2].asks = v.compare.asks \/ v.compare.asks.text = None

ShownOk(v) ==
    /\ v.page = "keys" => /\ {"creating", "opening", "sheet"} \subseteq DOMAIN v
                          /\ "created" \in DOMAIN v.sheet
    /\ v.page = "playground" =>
          /\ {"search", "compare"} \subseteq DOMAIN v
          /\ v.search # None => SearchOk(v.search)
          /\ v.compare # None => CompareOk(v.compare)

\* What the playground relies on when an answer comes: no call but the newest
\* is marked so, and the newest asks for what is now on the page
\* (pages/Playground.tsx, seq.current).
ShownInv == ShownOk(view) /\ HeardOk(Heard(calls), view)

NewestInv == CallsInv /\ ShownInv

---------------------------------------------------------------------------
(* What the page on screen waits for                                       *)

\* The calls whose end a page waits for, or whose answer changes it in ways
\* that its waiting depends on, and the page that awaits each
Awaited == {"login", "createKey", "providers", "test", "setProvider", "removeProvider",
            "createIndex", "search", "compare", "index", "list", "metadata", "record",
            "delete", "query", "upsert", "configure", "deleteIndex", "setEmbedding",
            "fields", "map", "neighbours"}

PageOf(op) ==
    CASE op = "login" -> "signin"
      [] op = "createKey" -> "keys"
      [] op \in {"providers", "test", "setProvider", "removeProvider"} -> "providers"
      [] op = "createIndex" -> "indexes"
      [] op \in {"search", "compare"} -> "playground"
      [] OTHER -> "index"

Waiting(cs) ==
    {<<cs[i].op, cs[i].arg>> : i \in {j \in DOMAIN cs : cs[j].live /\ cs[j].op \in Awaited}}

For(waiting, ops) == \E a \in waiting : a[1] \in ops

\* Calls as they are made and answered
AskedOk(c) ==
    LET answered == c.st = "answered" IN
    /\ c.op = "login" => c.st # "gone" /\ (answered => c.reply \in KeyRoles)
    /\ c.op = "map" => (answered => c.reply.at = c.arg)
    /\ c.op = "upsert" => c.arg.by \in {"upsert", "seed"}
    /\ c.op \in {"index", "configure", "setEmbedding"} => (answered => c.reply \in IndexInfo)
    /\ c.op = "configure" => {"ef", "panel"} \subseteq DOMAIN c.arg /\ c.arg.ef \in Widths
    /\ c.op = "setEmbedding" =>
          /\ {"embed", "panel", "picker"} \subseteq DOMAIN c.arg
          /\ c.arg.embed \in Models \cup {None}
          /\ c.arg.picker = TRUE => c.arg.panel = TRUE /\ c.arg.embed # None
          /\ answered => c.reply.embed = c.arg.embed
Asked(cs) == \A i \in DOMAIN cs : AskedOk(cs[i])

\* App shows what fits who is signed in
Frame(page) == CASE page = "signin" -> "out" [] page = "boot" -> "boot"
                 [] page = "docs" -> "docs" [] OTHER -> "shell"
FrameOk(v, m) == Frame(v.page) = Slot(v.route, m)

\* A call that is awaited is one of the page on screen
OfPage(waiting, v) == \A a \in waiting : PageOf(a[1]) = v.page

SignInWaits(waiting, v) ==
    "busy" \in DOMAIN v /\ (v.busy => For(waiting, {"login"}))

KeysWaits(waiting, v) ==
    /\ "sheet" \in DOMAIN v /\ "busy" \in DOMAIN v.sheet
    /\ v.sheet.busy => For(waiting, {"createKey"})

\* The sheet waits for a test of a key that was typed, a row for one of the
\* key that is saved
ProvidersWaits(waiting, v) ==
    /\ {"sheet", "checks"} \subseteq DOMAIN v
    /\ "busy" \in DOMAIN v.sheet /\ DOMAIN v.checks = Providers
    /\ v.sheet.busy => \/ For(waiting, {"setProvider"})
                       \/ \E a \in waiting : a[1] = "test" /\ a[2].key # None
    /\ \A p \in Providers : v.checks[p] = "running" =>
          \E a \in waiting : a[1] = "test" /\ a[2].key = None /\ a[2].p = p

IndexesWaits(waiting, v) ==
    /\ {"sheet", "creating"} \subseteq DOMAIN v /\ "busy" \in DOMAIN v.sheet
    /\ v.creating /\ v.sheet.busy => For(waiting, {"createIndex"})

PlaygroundWaits(waiting, v) ==
    LET newest(op) == \E a \in waiting : a[1] = op /\ a[2].newest = TRUE IN
    /\ v = [f \in DOMAIN v |-> v[f]]
    /\ v.search # None /\ v.search.busy => v.search.wait \/ newest("search")
    /\ v.compare # None /\ v.compare.asks.picked = <<>> => ~v.compare.busy
    /\ v.compare # None /\ v.compare.busy /\ v.compare.asks.text # None
          => v.compare.wait \/ newest("compare")

\* The panels of an index, of which each waits for its own calls
BrowseWaits(waiting, b) ==
    "loading" \in DOMAIN b /\ (b.loading => For(waiting, {"list", "metadata"}))
QueryWaits(waiting, q) == "busy" \in DOMAIN q /\ (q.busy => For(waiting, {"query"}))
BatchWaits(waiting, u, by) ==
    "busy" \in DOMAIN u /\ (u.busy => \E a \in waiting : a[1] = "upsert" /\ a[2].by = by)
SettingsWaits(waiting, s) ==
    /\ {"ef", "saving", "editing"} \subseteq DOMAIN s /\ s.ef \in Widths
    /\ s.saving => \E a \in waiting : a[1] = "configure" /\ a[2].panel = TRUE

\* A picker that has sent its choice is there until the answer comes
Picked(waiting) == \E a \in waiting : a[1] = "setEmbedding" /\ a[2].picker = TRUE
ConnectWaits(waiting, c) ==
    /\ c \in ConnectState \cup {None}
    /\ c # None /\ c.busy => Picked(waiting)
    /\ Picked(waiting) \/ For(waiting, {"fields"}) => c # None

\* The map is there while Explore is, and hears the load of its own choices only
MapWaits(waiting, v) ==
    LET loads == {a \in waiting : a[1] = "map"}
        explores == v.info.data # None /\ v.route.tab = "explore" IN
    /\ For(waiting, {"map", "neighbours"}) => explores
    /\ ~explores => v.map = None
    /\ explores => /\ {"at", "data", "error"} \subseteq DOMAIN v.map
                   /\ \/ v.map.data = None \/ v.map.error \/ loads # {}
                      \/ v.map.data.at = v.map.at
    /\ \A a \in loads : a[2] = v.map.at

PanelsWait(waiting, v) ==
    /\ BrowseWaits(waiting, v.browse) /\ QueryWaits(waiting, v.query)
    /\ BatchWaits(waiting, v.upsert, "upsert") /\ BatchWaits(waiting, v.seed, "seed")
    /\ SettingsWaits(waiting, v.settings)

IndexWaits(waiting, v) ==
    /\ {"info", "browse", "query", "upsert", "seed", "settings", "connect", "map", "models"}
          \subseteq DOMAIN v
    /\ {"data", "error"} \subseteq DOMAIN v.info /\ v.info.data \in IndexInfo \cup {None}
    /\ v.info.data # None => PanelsWait(waiting, v)
    /\ ConnectWaits(waiting, v.connect)
    /\ MapWaits(waiting, v)

PageWaits(waiting, v) ==
    /\ v.page = "signin" => SignInWaits(waiting, v)
    /\ v.page = "keys" => KeysWaits(waiting, v)
    /\ v.page = "providers" => ProvidersWaits(waiting, v)
    /\ v.page = "indexes" => IndexesWaits(waiting, v)
    /\ v.page = "playground" => PlaygroundWaits(waiting, v)
    /\ v.page = "index" => IndexWaits(waiting, v)

\* What NothingHangs and MapIsCurrent rest on: whatever the page on screen waits
\* for is in flight and heard by it, each call by the part of the page that made
\* it (the finally and the cleanup of every handler and effect), and no page
\* hears what another page asked for.
WaitInv ==
    /\ {"ef", "embed"} \subseteq DOMAIN server
    /\ server.ef \in Widths /\ server.embed \in Models \cup {None}
    /\ Asked(calls)
    /\ FrameOk(view, me)
    /\ OfPage(Waiting(calls), view)
    /\ PageWaits(Waiting(calls), view)

---------------------------------------------------------------------------
(* The chart of the overview                                               *)

\* Samples in the order of their times
HistoryOk(h) ==
    /\ h \in Seq({h[n] : n \in DOMAIN h})
    /\ \A n \in DOMAIN h : h[n].t \in Nat
    /\ \A m, n \in DOMAIN h : m <= n => h[m].t <= h[n].t

ChartOk(v) ==
    /\ {"range", "history"} \subseteq DOMAIN v
    /\ v.route.page = "home" /\ v.range \in Ranges
    /\ HistoryOk(v.history) /\ Len(v.history) <= MaxHistory

\* What BucketsStay rests on: the samples drawn are in the order of their times,
\* however many were dropped, and no more than are to be kept (pages/Overview.tsx,
\* the effect on [stats]).
ChartInv == view.page = "home" => ChartOk(view)

Inv == NewestInv /\ WaitInv /\ ChartInv
=============================================================================
