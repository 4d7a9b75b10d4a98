----------------------------- MODULE QueryPanel -----------------------------
(***************************************************************************)
(* The Query panel of an index (pages/QueryPanel.tsx): a form that queries *)
(* by text, by a stored record or by a vector, its results, and the links  *)
(* that fill it in. A body is its mode, record and namespace; text says    *)
(* whether the text or the vector of the mode would be accepted, filter    *)
(* whether the filter would (parseVector and parseObject of lib.ts).       *)
(***************************************************************************)
EXTENDS Client

Modes == {"text", "id", "vector"}

QueryMount(info) ==
    [mode |-> IF info.embed # None THEN "text" ELSE "id", id |-> None, ns |-> DefaultSpace,
     text |-> FALSE, filter |-> TRUE, busy |-> FALSE, result |-> None, last |-> None]

QueryBody == [mode : Modes, id : Ids \cup {None}, ns : Namespaces]

QueryState ==
    [mode : Modes, id : Ids \cup {None}, ns : Namespaces,
     text : BOOLEAN, filter : BOOLEAN, busy : BOOLEAN, last : QueryBody \cup {None},
     result : [body : QueryBody, matches : SUBSET Ids] \cup {None}]

---------------------------------------------------------------------------
Querying == OnTab("query")

Body(mode, id, ns) ==
    [mode |-> mode, id |-> IF mode = "id" THEN id ELSE None, ns |-> ns]

\* run() stops with a message, before it is busy, when something is missing
Runs(q) == q.filter /\ IF q.mode = "id" THEN q.id # None ELSE q.text

\* The button is disabled while busy; Cmd+Enter in the form is not
QueryControls ==
    {"form", "enter"} \cup (IF view.query.busy THEN {} ELSE {"search"})
    \cup (IF view.info.data.embed = None THEN {} ELSE {"text"})
    \cup (IF view.query.result = None THEN {} ELSE {"similar"})

\* The effect on [active, ?id=, ?namespace=]: query by that record, and take
\* it out of the address
QueryEffect(q, like) == [q EXCEPT !.mode = "id", !.id = like.id, !.ns = like.ns,
                                  !.busy = @ \/ q.filter]
QueryEffectCalls(q, like) ==
    IF q.filter THEN <<Call("query", Body("id", like.id, like.ns))>> ELSE <<>>

---------------------------------------------------------------------------
\* bound: only behaviours with "typing" fill in this form
EditQuery ==
    /\ "form" \in QueryControls /\ "typing" \in visits
    /\ \/ \E m \in Modes \cap ({"id", "vector"} \cup QueryControls), t \in BOOLEAN, f \in BOOLEAN :
             view' = [view EXCEPT !.query.mode = m, !.query.text = t, !.query.filter = f]
       \/ view.query.mode = "id" /\ \E r \in Ids \cup {None} :
             view' = [view EXCEPT !.query.id = r]
       \/ \E ns \in Namespaces : view' = [view EXCEPT !.query.ns = ns]
    /\ UNCHANGED <<app, calls, server>>

SubmitQueryEarly ==                                 \* mutant of SubmitQuery
    /\ "search" \in QueryControls /\ Runs(view.query) /\ Free
    /\ LET body == Body(view.query.mode, view.query.id, view.query.ns) IN
       /\ view' = [view EXCEPT !.query.busy = TRUE, !.query.last = body]
       /\ Sent("query", body)
    /\ UNCHANGED <<app, server>>
SubmitQuery ==
    /\ QueryControls \cap {"search", "enter"} # {}
    /\ Runs(view.query) /\ Free
    /\ view' = [view EXCEPT !.query.busy = TRUE]
    /\ Sent("query", Body(view.query.mode, view.query.id, view.query.ns))
    /\ UNCHANGED <<app, server>>

\* "Find similar" of a match: by its id, in the namespace of the results
QueryMatch ==
    /\ "similar" \in QueryControls
    /\ \E r \in view.query.result.matches :
          LET ns == view.query.result.body.ns IN
          /\ view' = [view EXCEPT !.query.mode = "id", !.query.id = r,
                                  !.query.busy = @ \/ view.query.filter]
          /\ IF view.query.filter
             THEN Free /\ Sent("query", Body("id", r, ns)) ELSE UNCHANGED calls
    /\ UNCHANGED <<app, server>>

QueryClicks == Querying /\ (EditQuery \/ SubmitQuery \/ QueryMatch)

\* Any matches of the namespace; a query by a record that is not there fails
ServeQuery == \E i \in Pending("query") :
    LET body == calls[i].arg
        held == server.records[body.ns]
    IN /\ IF body.id # None /\ body.id \notin held
          THEN calls' = [calls EXCEPT ![i].st = "failed"]
          ELSE Answer(i, [body |-> body, matches |-> held])
       /\ UNCHANGED <<app, view, server>>

QueryAnsweredWell == \E i \in Arrived("query") :     \* mutant of QueryAnswered
    /\ view' = IF ~calls[i].live \/ ~Ok(i) THEN view
               ELSE [view EXCEPT !.query.busy = FALSE, !.query.result = calls[i].reply,
                                 !.query.last = calls[i].arg]
    /\ calls' = Without(i)
    /\ UNCHANGED <<app, server>>

\* The last answer is shown, whichever query was run last, and ends busy
QueryAnswered == \E i \in Arrived("query") :
    /\ view' = IF ~calls[i].live THEN view
               ELSE [view EXCEPT
                       !.query.busy = FALSE,
                       !.query.result = IF Ok(i) THEN calls[i].reply ELSE @,
                       !.query.last = IF Ok(i) THEN calls[i].arg ELSE @]
    /\ calls' = Without(i)
    /\ UNCHANGED <<app, server>>

QueryNext == QueryClicks \/ ServeQuery \/ QueryAnswered

---------------------------------------------------------------------------
\* The request shown under the results, and copied as cURL, is the one these
\* results answer, however many queries overlap and whichever of them fail
\* (pages/QueryPanel.tsx: setResult and setLastBody).
ResultMatchesRequest ==
    view.page = "index" /\ view.info.data # None =>
        \/ view.query.result = None /\ view.query.last = None
        \/ view.query.result # None /\ view.query.result.body = view.query.last
=============================================================================
