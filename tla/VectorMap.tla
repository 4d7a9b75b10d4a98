----------------------------- MODULE VectorMap -----------------------------
(***************************************************************************)
(* The explorer of an index (pages/VectorMap.tsx): a sample of the vectors *)
(* laid out on a map, and the neighbours of the point that is clicked. A   *)
(* point is its position in the sample. Zooming, panning, hovering and     *)
(* drawing change only what is drawn and are left out.                     *)
(***************************************************************************)
EXTENDS Client

CONSTANTS
    MapParams       \* choices of namespace, sample size and colour field

MapMount(params) ==
    [at |-> params, data |-> None, error |-> FALSE, selected |-> None,
     neighbours |-> None, isolated |-> FALSE]

MapState ==
    [at : MapParams, error : BOOLEAN, selected : Nat \cup {None},
     data : {None} \cup [at : MapParams, points : Seq(Ids)],
     neighbours : {None} \cup [of : Ids, ids : SUBSET Ids], isolated : BOOLEAN]

---------------------------------------------------------------------------
Exploring == OnTab("explore")

Points == IF view.map.data = None THEN <<>> ELSE view.map.data.points
Chosen == view.map.selected # None /\ view.map.selected \in DOMAIN Points

\* The side shows the chosen point and its neighbours, or the legend
MapControls ==
    {"params"} \cup (IF Points = <<>> THEN {} ELSE {"point"})
    \cup IF Chosen THEN {"clear", "similar"} \cup
                        (IF view.map.neighbours = None THEN {} ELSE {"neighbour"})
                   ELSE IF Points = <<>> THEN {} ELSE {"group"}

MapCall(params) == Call("map", params)

\* The effect on [namespace, sample, colorBy] first cancels the load before
\* it; the old data stays on the map until the new arrives
MapEffect(m) == [m EXCEPT !.error = FALSE, !.selected = None, !.neighbours = None,
                          !.isolated = FALSE]
CancelledNever == calls                             \* mutant of Cancelled
Cancelled == Orphan([i \in DOMAIN calls |-> calls[i].op = "map"])

ChooseMap == \E p \in MapParams \ {view.map.at} :
    /\ Free
    /\ view' = [view EXCEPT !.map = [MapEffect(@) EXCEPT !.at = p]]
    /\ calls' = Append(Cancelled, MapCall(p))
    /\ UNCHANGED <<app, server>>

\* A click on the map or on a neighbour that is in the sample: the neighbours
\* are asked for in the namespace of the toolbar
SelectPoint ==
    /\ "point" \in MapControls /\ Free
    /\ \E n \in DOMAIN Points :
          /\ view' = [view EXCEPT !.map.selected = n, !.map.neighbours = None]
          /\ Sent("neighbours", [ns |-> view.map.at.ns, id |-> Points[n]])
    /\ UNCHANGED <<app, server>>

ClearPoint ==
    /\ "clear" \in MapControls
    /\ view' = [view EXCEPT !.map.selected = None, !.map.neighbours = None]
    /\ UNCHANGED <<app, calls, server>>

IsolateGroup ==
    /\ "group" \in MapControls
    /\ view' = [view EXCEPT !.map.isolated = ~@]
    /\ UNCHANGED <<app, calls, server>>

OpenInQuery ==
    /\ "similar" \in MapControls /\ "query" \in visits
    /\ go([view.route EXCEPT !.tab = "query",
              !.like = [id |-> Points[view.map.selected], ns |-> view.map.at.ns]])
    /\ UNCHANGED <<me, shell, catalog, view, calls, server>>

MapClicks ==
    Exploring /\ (ChooseMap \/ SelectPoint \/ ClearPoint \/ IsolateGroup \/ OpenInQuery)

\* A sample of the namespace, in some order
ServeMap == \E i \in Pending("map") :
    LET held == server.records[calls[i].arg.ns] IN
    /\ Answer(i, [at |-> calls[i].arg, points |-> SetToSortSeq(held, LAMBDA a, b : a < b)])
    /\ UNCHANGED <<app, view, server>>

ServeNeighbours == \E i \in Pending("neighbours") :
    LET a == calls[i].arg
        held == server.records[a.ns]
    IN /\ IF a.id \in held THEN Answer(i, [of |-> a.id, ids |-> held \ {a.id}])
          ELSE calls' = [calls EXCEPT ![i].st = "failed"]
       /\ UNCHANGED <<app, view, server>>

\* Only the load of the current choices is shown. A point selected on the old
\* map stays selected by its position.
MapLoaded == \E i \in Arrived("map") :
    /\ view' = IF ~calls[i].live THEN view
               ELSE IF Ok(i) THEN [view EXCEPT !.map.data = calls[i].reply]
               ELSE [view EXCEPT !.map.error = TRUE]
    /\ calls' = Without(i)
    /\ UNCHANGED <<app, server>>

NeighboursLoaded == \E i \in Arrived("neighbours") :
    /\ view' = IF ~calls[i].live THEN view
               ELSE IF Ok(i) THEN [view EXCEPT !.map.neighbours = calls[i].reply]
               ELSE [view EXCEPT !.map.error = TRUE]
    /\ calls' = Without(i)
    /\ UNCHANGED <<app, server>>

MapNext == MapClicks \/ ServeMap \/ ServeNeighbours \/ MapLoaded \/ NeighboursLoaded

---------------------------------------------------------------------------
\* Once the explorer waits for no load and shows no error, the map is that of
\* the namespace, sample and colour now chosen: an answer for earlier choices
\* never lands on top (pages/VectorMap.tsx, the effect's cancelled flag).
MapIsCurrent ==
    view.page = "index" /\ view.info.data # None =>
        \/ view.map = None \/ view.map.data = None \/ view.map.error
        \/ \E i \in DOMAIN calls : calls[i].op = "map" /\ calls[i].live
        \/ view.map.data.at = view.map.at
=============================================================================
