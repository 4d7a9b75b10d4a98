------------------------------- MODULE Indexes -------------------------------
(***************************************************************************)
(* The list of indexes (pages/Indexes.tsx) and the sheet that creates one, *)
(* with an embedding model or for vectors of a typed dimension. Metric,    *)
(* structure and graph settings are sent as they are and left out; the     *)
(* filters of the list and of the models narrow what can be clicked.       *)
(***************************************************************************)
EXTENDS Shell, ConnectModel

CONSTANTS
    DefaultModel    \* the model the sheet starts with

BlankIndexSheet == [name |-> None, text |-> TRUE, model |-> DefaultModel,
                    size |-> None, dim |-> TRUE, busy |-> FALSE]

IndexesView ==
    [page : {"indexes"}, route : [page : {"indexes"}, new : BOOLEAN], creating : BOOLEAN,
     sheet : [name : IndexNames \cup {None}, text : BOOLEAN, model : Models,
              size : Nat \cup {None}, dim : BOOLEAN, busy : BOOLEAN],
     models : [seen : {None} \cup SUBSET (Providers \cup Ready), promise : Nat]]

---------------------------------------------------------------------------
\* "Start on a model the server can actually run": once, with each catalog
Runnable(seen) == {m \in Models : ProviderOf[m] \in seen}
StartOn(model, seen) ==
    IF seen = None \/ ProviderOf[model] \in seen \/ Runnable(seen) = {} THEN model
    ELSE LET hosted == {m \in Runnable(seen) : ProviderOf[m] \notin Ready} IN
         CHOOSE m \in (IF hosted # {} THEN hosted ELSE Runnable(seen)) : TRUE

\* useState(openNew && admin), and the catalog, which may be there already
IndexesMount(route, m) ==
    [page |-> "indexes", route |-> route, creating |-> route.new /\ May(m, "admin"),
     sheet |-> [BlankIndexSheet EXCEPT !.model = StartOn(@, NewModels.seen)],
     models |-> NewModels]

OnIndexes == view.page = "indexes"

\* Opening runs the effect on [open]: only the name, the search and busy are
\* cleared, the choices of the last time stay
IndexSheetOpened(v) ==
    IF v.creating THEN v
    ELSE [v EXCEPT !.creating = TRUE, !.sheet.name = None, !.sheet.busy = FALSE]

\* Without a catalog the sheet asks for a dimension
TextMode == view.sheet.text /\ view.models.seen # None
IndexReady == view.sheet.name # None /\ (~TextMode => view.sheet.dim)
IndexSize == IF view.sheet.size # None THEN view.sheet.size ELSE NativeSize[view.sheet.model]

\* The rows or cards, "New index" for admins, and the sheet, which covers both
IndexesControls ==
    IF view.creating
    THEN {"close", "form"} \cup (IF TextMode THEN {"models"} ELSE {})
         \cup (IF view.sheet.busy \/ ~IndexReady THEN {} ELSE {"submit"})
    ELSE (IF Can("admin") THEN {"create"} ELSE {}) \cup (IF List = {} THEN {} ELSE {"rows"})

---------------------------------------------------------------------------
OpenIndex ==
    /\ OnIndexes /\ "rows" \in IndexesControls /\ "index" \in visits
    /\ \E n \in List : go(IndexRoute(n, "overview"))
    /\ UNCHANGED <<me, shell, catalog, view, calls, server>>

CreateIndex ==
    /\ OnIndexes /\ "create" \in IndexesControls
    /\ view' = IndexSheetOpened(view)
    /\ UNCHANGED <<app, calls, server>>

\* Choosing a model drops the size that was chosen for another.
\* Bound: behaviours with "typing" change between models and a dimension and
\* edit that one, the others choose among the models.
EditIndex ==
    /\ OnIndexes /\ "form" \in IndexesControls
    /\ \/ \E n \in IndexNames \cup {None} : view' = [view EXCEPT !.sheet.name = n]
       \/ /\ "typing" \in visits /\ view.models.seen # None
          /\ \E b \in BOOLEAN : view' = [view EXCEPT !.sheet.text = b]
       \/ "typing" \in visits /\ ~TextMode
          /\ \E b \in BOOLEAN : view' = [view EXCEPT !.sheet.dim = b]
       \/ /\ "models" \in IndexesControls /\ "typing" \notin visits
          /\ \/ \E m \in Models : view' = [view EXCEPT !.sheet.model = m, !.sheet.size = None]
             \/ \E d \in Sizes[view.sheet.model] :
                   /\ Cardinality(Sizes[view.sheet.model]) > 1
                   /\ view' = [view EXCEPT !.sheet.size = d]
    /\ UNCHANGED <<app, calls, server>>

SubmitIndex ==
    /\ OnIndexes /\ "submit" \in IndexesControls /\ Free
    /\ view' = [view EXCEPT !.sheet.busy = TRUE]
    /\ Sent("createIndex",
            [name |-> view.sheet.name, embed |-> IF TextMode THEN view.sheet.model ELSE None,
             size |-> IF TextMode THEN IndexSize ELSE Dimension])
    /\ UNCHANGED <<app, server>>

\* Cancel, Escape or a click beside the sheet, also while busy
CloseIndexSheet ==
    /\ OnIndexes /\ "close" \in IndexesControls
    /\ view' = [view EXCEPT !.creating = FALSE]
    /\ IF view.route.new THEN go(IndexesRoute(FALSE)) ELSE UNCHANGED hash
    /\ UNCHANGED <<me, shell, catalog, calls, server>>

\* 409 when the name is taken, 400 for a size the model cannot make
ServeCreateIndex == \E i \in Pending("createIndex") :
    LET a == calls[i].arg
        made == /\ a.name \notin server.indexes
                /\ a.embed # None => a.size \in Sizes[a.embed]
    IN /\ IF made THEN Answer(i, a.name) ELSE calls' = [calls EXCEPT ![i].st = "failed"]
       /\ server' = IF made THEN [server EXCEPT !.indexes = @ \cup {a.name}] ELSE server
       /\ UNCHANGED <<app, view>>

\* onCreated goes to the new index, also when the sheet was cancelled or the
\* page left meanwhile; busy stays set
IndexCreated == \E i \in Arrived("createIndex") :
    IF Ok(i)
    THEN /\ view' = IF calls[i].live THEN [view EXCEPT !.creating = FALSE] ELSE view
         /\ calls' = Without(i) \o OnChanged
         /\ go(IndexRoute(calls[i].reply, "overview"))
         /\ UNCHANGED <<me, shell, catalog, server>>
    ELSE /\ view' = IF calls[i].live THEN [view EXCEPT !.sheet.busy = FALSE] ELSE view
         /\ calls' = Without(i)
         /\ UNCHANGED <<app, server>>

IndexesNext ==
    \/ OpenIndex \/ CreateIndex \/ EditIndex \/ SubmitIndex \/ CloseIndexSheet
    \/ ServeCreateIndex \/ IndexCreated
=============================================================================
