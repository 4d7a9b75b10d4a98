---------------------------- MODULE BrowsePanel ----------------------------
(***************************************************************************)
(* The Browse panel of an index (pages/BrowsePanel.tsx): a paged list of   *)
(* record ids, the selected record beside it and its deletion in two       *)
(* clicks. Ids are numbers, in their order; metadata, which the list and   *)
(* the record show, is left out, the call that fetches it is not.          *)
(***************************************************************************)
EXTENDS Client

CONSTANTS
    Places,         \* pairs of a namespace and "is an id prefix applied"
    Prefixed,       \* the ids the prefix matches
    PageSize,       \* records per page (100 in the code)
    MaxListed       \* bound: ids listed before more are loaded

Missing == 0        \* null: "Record not found"

Place(ns, prefix) == [ns |-> ns, prefix |-> prefix]

BrowseMount(place) ==
    [at |-> place, ids |-> <<>>, next |-> None, loading |-> FALSE,
     selected |-> None, record |-> None, armed |-> FALSE]

BrowseState ==
    [at : Places, ids : Seq(Ids), next : Ids \cup {None}, loading : BOOLEAN,
     selected : Ids \cup {None}, record : Ids \cup {None, Missing}, armed : BOOLEAN]

---------------------------------------------------------------------------
Load(place, token) == Call("list", [at |-> place, token |-> token])

\* The effect on [active, namespace, prefix]: the selection is dropped and
\* the list loaded anew. What was armed stays armed.
BrowseEffect(b) == [b EXCEPT !.selected = None, !.record = None, !.loading = TRUE]

\* The rows, "Load 100 more" and, once a record has loaded, what can be done
\* with it
BrowseControls ==
    (IF view.browse.ids = <<>> THEN {} ELSE {"rows"})
    \cup (IF view.browse.ids = <<>> \/ view.browse.next = None \/ view.browse.loading
          THEN {} ELSE {"more"})
    \cup (IF view.browse.record \in {None, Missing} \/ view.browse.selected = None
          THEN {} ELSE {"similar"} \cup (IF Can("write") THEN {"delete"} ELSE {}))

Browsing == OnTab("browse")

\* A page of the ids of a place, in order, after token
ListOf(place, token) ==
    SelectSeq([n \in 1 .. Cardinality(Ids) |-> n],
              LAMBDA r : /\ r \in server.records[place.ns]
                         /\ place.prefix => r \in Prefixed
                         /\ token = None \/ r > token)

---------------------------------------------------------------------------
\* NamespaceSelect or a submitted prefix: one of the two changes
ChoosePlace == \E p \in Places \ {view.browse.at} :
    /\ p.ns = view.browse.at.ns \/ p.prefix = view.browse.at.prefix
    /\ Free
    /\ view' = [view EXCEPT !.browse = [BrowseEffect(@) EXCEPT !.at = p]]
    /\ calls' = Append(calls, Load(p, None))
    /\ UNCHANGED <<app, server>>

LoadMore ==
    /\ "more" \in BrowseControls /\ Free /\ Len(view.browse.ids) < MaxListed
    /\ view' = [view EXCEPT !.browse.loading = TRUE]
    /\ calls' = Append(calls, Load(view.browse.at, view.browse.next))
    /\ UNCHANGED <<app, server>>

OpenRecord ==
    /\ "rows" \in BrowseControls /\ Free
    /\ \E r \in ToSet(view.browse.ids) :
          /\ view' = [view EXCEPT !.browse.selected = r, !.browse.armed = FALSE,
                                  !.browse.record = None]
          /\ Sent("record", [ns |-> view.browse.at.ns, id |-> r])
    /\ UNCHANGED <<app, server>>

\* "Delete" turns into "Confirm"
ArmDelete ==
    /\ "delete" \in BrowseControls /\ ~view.browse.armed
    /\ view' = [view EXCEPT !.browse.armed = TRUE]
    /\ UNCHANGED <<app, calls, server>>

ConfirmDelete ==
    /\ "delete" \in BrowseControls /\ view.browse.armed /\ Free
    /\ Sent("delete", [ns |-> view.browse.at.ns, id |-> view.browse.selected])
    /\ UNCHANGED <<app, view, server>>

FindSimilar ==
    /\ "similar" \in BrowseControls /\ "query" \in visits
    /\ go([view.route EXCEPT !.tab = "query",
              !.like = [id |-> view.browse.selected, ns |-> view.browse.at.ns]])
    /\ UNCHANGED <<me, shell, catalog, view, calls, server>>

BrowseClicks ==
    /\ Browsing
    /\ \/ ChoosePlace \/ LoadMore \/ OpenRecord \/ ArmDelete \/ ConfirmDelete
       \/ FindSimilar

---------------------------------------------------------------------------
ServeList == \E i \in Pending("list") :
    LET rest == ListOf(calls[i].arg.at, calls[i].arg.token)
        n == IF Len(rest) < PageSize THEN Len(rest) ELSE PageSize
    IN /\ Answer(i, [ids |-> SubSeq(rest, 1, n),
                     next |-> IF Len(rest) > n THEN rest[n] ELSE None])
       /\ UNCHANGED <<app, view, server>>

ServeMetadata == \E i \in Pending("metadata") :
    /\ Answer(i, None)
    /\ UNCHANGED <<app, view, server>>

ServeRecord == \E i \in Pending("record") :
    /\ Answer(i, IF calls[i].arg.id \in server.records[calls[i].arg.ns]
                 THEN calls[i].arg.id ELSE Missing)
    /\ UNCHANGED <<app, view, server>>

ServeDelete == \E i \in Pending("delete") :
    /\ server' = [server EXCEPT !.records[calls[i].arg.ns] = @ \ {calls[i].arg.id}]
    /\ Answer(i, None)
    /\ UNCHANGED <<app, view>>

\* load, up to its second await: a page replaces the list or is appended to
\* whatever the list is by now; then the metadata of its records is fetched
ListLoaded == \E i \in Arrived("list") :
    LET page == calls[i].reply
        fetches == Ok(i) /\ page.ids # <<>>
    IN /\ view' = IF ~calls[i].live THEN view
                  ELSE [view EXCEPT
                          !.browse.ids = IF ~Ok(i) THEN @
                                         ELSE IF calls[i].arg.token = None THEN page.ids
                                         ELSE @ \o page.ids,
                          !.browse.next = IF Ok(i) THEN page.next ELSE @,
                          !.browse.loading = @ /\ fetches]
       /\ calls' = IF fetches
                   THEN Append(Without(i), Reload("metadata", calls[i].live))
                   ELSE Without(i)
       /\ UNCHANGED <<app, server>>

MetadataLoaded == \E i \in Arrived("metadata") :
    /\ view' = IF calls[i].live THEN [view EXCEPT !.browse.loading = FALSE] ELSE view
    /\ calls' = Without(i)
    /\ UNCHANGED <<app, server>>

\* The answer is shown whichever record is selected by now
RecordLoaded == \E i \in Arrived("record") :
    /\ view' = IF calls[i].live /\ Ok(i)
               THEN [view EXCEPT !.browse.record = calls[i].reply] ELSE view
    /\ calls' = Without(i)
    /\ UNCHANGED <<app, server>>

\* Success takes the deleted id from the list, drops the selection of the
\* moment and refreshes the page (an orphan still does, of no one's state)
Deleted == \E i \in Arrived("delete") :
    /\ view' = IF calls[i].live /\ Ok(i)
               THEN [view EXCEPT !.browse.ids = SelectSeq(@, LAMBDA r : r # calls[i].arg.id),
                                 !.browse.selected = None, !.browse.record = None]
               ELSE view
    /\ calls' = IF Ok(i) THEN Without(i) \o Refresh(calls[i].live) ELSE Without(i)
    /\ UNCHANGED <<app, server>>

BrowseNext ==
    \/ BrowseClicks
    \/ ServeList \/ ServeMetadata \/ ServeRecord \/ ServeDelete
    \/ ListLoaded \/ MetadataLoaded \/ RecordLoaded \/ Deleted
=============================================================================
