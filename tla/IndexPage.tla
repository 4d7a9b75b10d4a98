----------------------------- MODULE IndexPage -----------------------------
(***************************************************************************)
(* The page of one index (pages/IndexPage.tsx): the polls of the index,    *)
(* its panels, which stay mounted while the tab changes, and the Settings  *)
(* panel, which is keyed by the index's ef_search. The polls of the index  *)
(* and of its namespaces are one load, "index"; the traffic history of the *)
(* overview is in Overview.                                                *)
(***************************************************************************)
EXTENDS BrowsePanel, QueryPanel, UpsertPanel, VectorMap, ConnectModel

CONSTANTS
    Widths          \* values of ef_search

ASSUME WidthsAssumption == Widths # {}

IndexMount(route) ==
    [page |-> "index", route |-> route, info |-> NoData, browse |-> None,
     query |-> None, upsert |-> None, seed |-> None, map |-> None,
     settings |-> None, connect |-> None, models |-> NoModels]

SettingsMount(ef) == [ef |-> ef, saving |-> FALSE, confirm |-> FALSE,
                      deleting |-> FALSE, editing |-> FALSE]

IndexInfo == [ef : Widths, embed : Models \cup {None}, count : Nat]
ASSUME NoInfoAssumption == None \notin IndexInfo

IndexView ==
    [page : {"index"}, route : [page : {"index"}, name : {view.route.name},
         tab : {"overview", "explore", "query", "browse", "upsert", "settings"},
         like : {None} \cup [id : Ids, ns : Namespaces]],
     info : [data : IndexInfo \cup {None}, error : {None, "error", "missing"}],
     browse : BrowseState \cup {None}, query : QueryState \cup {None},
     upsert : UpsertState \cup {None}, seed : SeedState \cup {None},
     map : MapState \cup {None}, connect : ConnectState \cup {None},
     settings : {None} \cup [ef : Widths, saving : BOOLEAN, confirm : BOOLEAN,
                             deleting : BOOLEAN, editing : BOOLEAN],
     models : [seen : {None} \cup SUBSET (Providers \cup Ready), promise : Nat]]

---------------------------------------------------------------------------
(* Mounting and effects. A mounted page is [view, calls, catalog]: the     *)
(* state after its effects and what they sent.                             *)

StartPlace == CHOOSE p \in Places : p.ns = DefaultSpace /\ ~p.prefix
StartMap == CHOOSE p \in MapParams : p.ns = DefaultSpace

ActivateAnew(v, cs) ==                              \* mutant of Activate
    [view |-> [v EXCEPT !.query = QueryMount(v.info.data), !.upsert = UpsertMount,
                        !.map = IF v.route.tab = "explore" THEN MapMount(StartMap) ELSE None],
     calls |-> cs, hash |-> v.route]

\* Effects of the tab that comes on screen: Browse loads its list, Query
\* follows a "Find similar" link, Explore mounts the map
Activate(v, cs) ==
    CASE v.route.tab = "browse" ->
           [view |-> [v EXCEPT !.browse = BrowseEffect(@)],
            calls |-> Append(cs, Load(v.browse.at, None)), hash |-> v.route]
      [] v.route.tab = "query" /\ v.route.like # None ->
           [view |-> [v EXCEPT !.query = QueryEffect(@, v.route.like)],
            calls |-> cs \o QueryEffectCalls(v.query, v.route.like),
            hash |-> [v.route EXCEPT !.like = None]]
      [] v.route.tab = "explore" ->
           [view |-> [v EXCEPT !.map = MapMount(StartMap)],
            calls |-> Append(cs, MapCall(StartMap)), hash |-> v.route]
      [] OTHER -> [view |-> v, calls |-> cs, hash |-> v.route]

\* Another tab, or Query with another link. Leaving Explore unmounts it.
IndexRouted(route) ==
    LET v == [view EXCEPT !.route = route, !.map = IF route.tab = "explore" THEN @ ELSE None]
        cs == IF route.tab = "explore" THEN calls
              ELSE Orphan([i \in DOMAIN calls |-> calls[i].op \in {"map", "neighbours"}])
        same == route.tab = view.route.tab /\ (route.tab = "query" => route.like = None)
    IN IF view.info.data = None \/ same
       THEN [view |-> v, calls |-> cs, hash |-> route]
       ELSE Activate(v, cs)

\* What a Settings panel that is gone no longer hears; its continuations
\* still reach the page
Detached(cs) ==
    [i \in DOMAIN cs |->
        IF cs[i].op \in {"configure", "deleteIndex", "setEmbedding"}
        THEN [cs[i] EXCEPT !.arg.panel = FALSE] ELSE cs[i]]

---------------------------------------------------------------------------
\* info.setData, by a poll or after a save. The panels mount with the first
\* data. Later data leaves them as they are, but for the Settings panel, which
\* is mounted anew with a new ef_search, its picker, which comes and goes with
\* the embedding, and the Get started page, which goes with the first record.
NewWidth(v) == v.info.data.ef # view.info.data.ef

FirstShown(v) ==
    [v EXCEPT !.browse = BrowseMount(StartPlace), !.query = QueryMount(v.info.data),
              !.upsert = UpsertMount, !.seed = SeedMount,
              !.settings = SettingsMount(v.info.data.ef)]

ShownAgain(v) ==
    [v EXCEPT !.seed = IF v.info.data.count = 0 THEN @ ELSE SeedMount,
              !.settings = IF NewWidth(v) THEN SettingsMount(v.info.data.ef) ELSE @,
              !.connect = IF NewWidth(v) THEN None ELSE @,
              !.models = IF NewWidth(v) THEN NoModels ELSE @]

StillHeard(v, cs) ==
    LET ds == [i \in DOMAIN cs |->
                  [cs[i] EXCEPT !.live = @ /\ ~(/\ v.info.data.count # 0
                                                /\ cs[i].op = "upsert"
                                                /\ cs[i].arg.by = "seed")]]
    IN IF NewWidth(v) THEN Detached(Unpicked(ds)) ELSE ds

ShowIndex(v0, poll, cs) ==
    LET v == [v0 EXCEPT !.info = poll]
        first == Activate(FirstShown(v), cs)
        shown == CASE poll.data = None -> [view |-> v, calls |-> cs, catalog |-> catalog]
                   [] poll.data # None /\ v0.info.data = None ->
                        WithPicker(first.view, first.calls)
                   [] poll.data # None /\ v0.info.data # None ->
                        WithPicker(ShownAgain(v), StillHeard(v, cs))
    IN /\ view' = shown.view /\ calls' = shown.calls /\ catalog' = shown.catalog
       /\ hash' = IF poll.data # None /\ v0.info.data = None THEN first.hash ELSE hash
       /\ UNCHANGED <<me, shell, server>>

PollIndex ==
    /\ view.page = "index" /\ Polls("index", view.info)
    /\ UNCHANGED <<app, view, server>>

InfoNow == [ef |-> server.ef, embed |-> server.embed,
            count |-> IF UNION {server.records[ns] : ns \in Namespaces} = {} THEN 0 ELSE 1]

Exists == server.indexes # {}

ServeIndex == \E i \in Pending("index") :
    /\ IF Exists THEN Answer(i, InfoNow)
       ELSE calls' = [calls EXCEPT ![i].st = "failed", ![i].reply = "missing"]
    /\ UNCHANGED <<app, view, server>>

\* An answer older than what a save has shown since takes it back
IndexLoaded == \E i \in Arrived("index") :
    IF calls[i].live THEN ShowIndex(view, Polled(view.info, i), Without(i))
    ELSE calls' = Without(i) /\ UNCHANGED <<app, view, server>>

---------------------------------------------------------------------------
(* The tabs and the Settings panel *)

\* The tab bar and the buttons of the hero and the overview
Tabs == {"overview", "explore", "query", "browse"}
        \cup (IF Can("write") THEN {"upsert"} ELSE {})
        \cup (IF Can("admin") THEN {"settings"} ELSE {})

ChooseTab == \E t \in Tabs \cap visits :
    /\ OnIndex /\ t # view.route.tab
    /\ go([view.route EXCEPT !.tab = t, !.like = None])
    /\ UNCHANGED <<me, shell, catalog, view, calls, server>>

OnSettings == OnTab("settings") /\ Can("admin")

SettingsControls ==
    {"ef", "confirm"}
    \cup (IF view.settings.saving \/ view.settings.ef = view.info.data.ef THEN {} ELSE {"save"})
    \cup (IF view.settings.confirm /\ ~view.settings.deleting THEN {"delete"} ELSE {})

EditSettings ==
    /\ OnSettings /\ {"ef", "confirm"} \subseteq SettingsControls
    /\ \/ \E w \in Widths : view' = [view EXCEPT !.settings.ef = w]
       \/ \E b \in BOOLEAN : view' = [view EXCEPT !.settings.confirm = b]
    /\ UNCHANGED <<app, calls, server>>

SaveWidth ==
    /\ OnSettings /\ "save" \in SettingsControls /\ Free
    /\ view' = [view EXCEPT !.settings.saving = TRUE]
    /\ Sent("configure", [ef |-> view.settings.ef, panel |-> TRUE])
    /\ UNCHANGED <<app, server>>

DeleteIndex ==
    /\ OnSettings /\ "delete" \in SettingsControls /\ Free
    /\ view' = [view EXCEPT !.settings.deleting = TRUE]
    /\ Sent("deleteIndex", [panel |-> TRUE])
    /\ UNCHANGED <<app, server>>

ServeSettings == \E i \in Pending("configure") \cup Pending("setEmbedding") :
    /\ IF ~Exists THEN /\ calls' = [calls EXCEPT ![i].st = "failed"]
                       /\ UNCHANGED server
       ELSE IF calls[i].op = "configure"
       THEN /\ server' = [server EXCEPT !.ef = calls[i].arg.ef]
            /\ Answer(i, [InfoNow EXCEPT !.ef = calls[i].arg.ef])
       ELSE /\ server' = [server EXCEPT !.embed = calls[i].arg.embed]
            /\ Answer(i, [InfoNow EXCEPT !.embed = calls[i].arg.embed])
    /\ UNCHANGED <<app, view>>

ServeDeleteIndex == \E i \in Pending("deleteIndex") :
    /\ server' = [server EXCEPT !.indexes = {}]
    /\ IF Exists THEN Answer(i, None)
       ELSE calls' = [calls EXCEPT ![i].st = "failed"]
    /\ UNCHANGED <<app, view>>

\* onSaved shows what the server answered, and the card stops editing. The
\* panel that saved may be gone by then, or go with it.
Saved == \E i \in Arrived("configure") \cup Arrived("setEmbedding") :
    LET done == IF ~calls[i].live \/ ~calls[i].arg.panel THEN view
                ELSE IF calls[i].op = "configure"
                THEN [view EXCEPT !.settings.saving = FALSE]
                ELSE IF Ok(i)
                THEN [view EXCEPT !.settings.editing = @ /\ calls[i].arg.embed = None]
                ELSE IF calls[i].arg.picker
                THEN [view EXCEPT !.connect.busy = FALSE] ELSE view
    IN IF calls[i].live /\ Ok(i)
       THEN ShowIndex(done, [data |-> calls[i].reply, error |-> view.info.error],
                      Without(i) \o OnChanged)
       ELSE /\ view' = done
            /\ calls' = Without(i) \o (IF Ok(i) THEN OnChanged ELSE <<>>)
            /\ UNCHANGED <<app, server>>

IndexDeleted == \E i \in Arrived("deleteIndex") :
    /\ IF Ok(i)
       THEN /\ go([page |-> "indexes", new |-> FALSE])
            /\ UNCHANGED view
       ELSE /\ view' = IF calls[i].live /\ calls[i].arg.panel
                       THEN [view EXCEPT !.settings.deleting = FALSE] ELSE view
            /\ UNCHANGED hash
    /\ calls' = Without(i) \o (IF Ok(i) THEN OnChanged ELSE <<>>)
    /\ UNCHANGED <<me, shell, catalog, server>>

IndexNext ==
    \/ PollIndex \/ ServeIndex \/ IndexLoaded \/ ChooseTab
    \/ EditSettings \/ SaveWidth \/ DeleteIndex \/ ServeSettings
    \/ ServeDeleteIndex \/ Saved \/ IndexDeleted

---------------------------------------------------------------------------
\* "Panels stay mounted so a half-written query survives switching tabs"
\* (pages/IndexPage.tsx:113): a step that changes the tab, even one that loads
\* the list or follows a link, leaves the records typed in Upsert and, unless
\* the link carries a record, the query as they were.
DraftsSurviveTabs ==
    [][/\ OnIndex /\ OnIndex'
       /\ view'.route.tab # view.route.tab
       => /\ view'.upsert = view.upsert
          /\ view'.route.like = None => view'.query = view.query]_view
=============================================================================
