----------------------------- MODULE Playground -----------------------------
(***************************************************************************)
(* The playground (pages/Playground.tsx): searching an index as one types, *)
(* and comparing how models rank a list of sentences. Both wait a moment   *)
(* after the last change, and drop the answer of any search but the newest.*)
(* The code numbers its searches; here the newest is marked. Connecting a  *)
(* model from here is the picker of ConnectModel.                          *)
(***************************************************************************)
EXTENDS Indexes

CONSTANTS
    Texts,          \* texts typed in a search field
    Documents       \* lists of documents to compare

\* The search that is asked for: what the effect depends on
SearchFor == [text : Texts \cup {None}, index : IndexNames \cup {None},
              ns : Namespaces, facet : BOOLEAN]
CompareFor == [text : Texts \cup {None}, docs : Documents, picked : Seq(Models)]

BlankSearch(index) == [text |-> None, index |-> index, ns |-> DefaultSpace, facet |-> FALSE]
BlankCompare == [text |-> CHOOSE t \in Texts : TRUE, docs |-> CHOOSE d \in Documents : TRUE,
                 picked |-> <<>>]

PlaygroundView ==
    [page : {"playground"}, route : [page : {"playground"}, tab : {"search", "compare"}],
     search : {None} \cup [asks : SearchFor, wait : BOOLEAN, busy : BOOLEAN, error : BOOLEAN,
                           result : SearchFor \cup {None}, facets : BOOLEAN],
     compare : {None} \cup [asks : CompareFor, wait : BOOLEAN, busy : BOOLEAN,
                            error : BOOLEAN, result : CompareFor \cup {None},
                            ranked : Documents \cup {None}],
     models : [seen : {None} \cup SUBSET (Providers \cup Ready), promise : Nat]]

---------------------------------------------------------------------------
(* Effects *)

\* The searchable indexes of a list
Searchable(list) == IF list = None THEN {} ELSE {x.name : x \in {y \in list : y.embed}}
Names(list) == IF list = None THEN {} ELSE {x.name : x \in list}

\* Keep the index while it is listed, otherwise take one, a searchable one first
IndexFor(name, list) ==
    IF name \in Names(list) \/ Names(list) = {} THEN name
    ELSE CHOOSE n \in (IF Searchable(list) # {} THEN Searchable(list) ELSE Names(list)) : TRUE

\* The search effect: the timer starts over, what is in flight is outdated;
\* without an index, its model or a text there is nothing to search.
SearchAgainBusy(s, list) ==                         \* mutant of SearchAgain
    IF s.asks.text # None /\ s.asks.index \in Searchable(list)
    THEN [s EXCEPT !.wait = TRUE]
    ELSE [s EXCEPT !.wait = FALSE, !.error = FALSE, !.result = None]
SearchAgain(s, list) ==
    IF s.asks.text # None /\ s.asks.index \in Searchable(list)
    THEN [s EXCEPT !.wait = TRUE]
    ELSE [s EXCEPT !.wait = FALSE, !.busy = FALSE, !.error = FALSE, !.result = None]

\* What an outdated search asked for no longer matters
OutdatedNever(op) == calls                          \* mutant of Outdated
Outdated(op) == [i \in DOMAIN calls |->
    IF calls[i].op = op THEN [calls[i] EXCEPT !.arg = [asks |-> None, newest |-> FALSE]]
    ELSE calls[i]]

\* The effect on [name] empties what the index before it had
Renamed(s, name) ==
    IF s.asks.index = name THEN s
    ELSE [s EXCEPT !.asks = [BlankSearch(name) EXCEPT !.text = s.asks.text],
                   !.result = None, !.error = FALSE, !.facets = FALSE]

\* The comparison effect: with nothing to compare the timer is dropped, and
\* nothing else happens, not even to what is in flight
Comparable(c) == Can("write") /\ c.asks.text # None /\ c.asks.picked # <<>>
Compares(c) == [c EXCEPT !.wait = Comparable(c)]
ComparesCalls(c) == IF Comparable(c) THEN Outdated("compare") ELSE calls

\* Start with two models the server can run, or else with any
Picks(picked, seen) ==
    IF seen = None \/ picked # <<>> THEN picked
    ELSE LET can == SetToSeq(Runnable(seen)) IN
         IF can = <<>> THEN <<CHOOSE m \in Models : TRUE>>
         ELSE SubSeq(can, 1, IF Len(can) < 2 THEN Len(can) ELSE 2)

---------------------------------------------------------------------------
(* Mounting and what reaches the page from outside *)

SearchMount == LET name == IndexFor(None, shell.indexes.data) IN
    [asks |-> BlankSearch(name), wait |-> FALSE, busy |-> FALSE, error |-> FALSE,
     result |-> None, facets |-> FALSE]

CompareMount(seen, m) ==
    LET picked == Picks(<<>>, seen) IN
    [asks |-> [BlankCompare EXCEPT !.picked = picked],
     wait |-> May(m, "write") /\ picked # <<>>, busy |-> FALSE, error |-> FALSE,
     result |-> None, ranked |-> None]

\* asks is what the fields hold now, wait that the timer runs
PlaygroundMount(route, m) ==
    [page |-> "playground", route |-> route, models |-> NewModels,
     search |-> IF route.tab = "search" THEN SearchMount ELSE None,
     compare |-> IF route.tab = "compare" THEN CompareMount(NewModels.seen, m) ELSE None]

\* The list of indexes, and with it the models they are searched with. The
\* effect depends on the names and the model, so an equal list changes nothing.
Listed(v, list) ==
    IF v.page # "playground" \/ v.search = None THEN v
    ELSE LET s == Renamed(v.search, IndexFor(v.search.asks.index, list))
             same == /\ s = v.search
                     /\ s.asks.index \in Searchable(list) <=>
                            s.asks.index \in Searchable(shell.indexes.data)
         IN [v EXCEPT !.search = IF same THEN s ELSE SearchAgain(s, list)]

ListedCalls(v, list) == IF Listed(v, list) = v THEN calls ELSE Outdated("search")

---------------------------------------------------------------------------
(* Searching *)

Searching == view.page = "playground" /\ view.search # None
Comparing == view.page = "playground" /\ view.compare # None

\* The field is disabled without a model; filters come with the results
SearchControls ==
    {"index"} \cup
    (IF view.search.asks.index \notin Searchable(shell.indexes.data) THEN {}
     ELSE {"text", "namespace"} \cup (IF view.search.facets THEN {"facet"} ELSE {}))

\* Typing, a recent search, the namespace and the filters
EditSearch == \E a \in SearchFor :
    /\ Searching /\ a # view.search.asks /\ a.index = view.search.asks.index
    /\ \/ "text" \in SearchControls /\ a = [view.search.asks EXCEPT !.text = a.text]
       \/ "namespace" \in SearchControls /\ a = [view.search.asks EXCEPT !.ns = a.ns]
       \/ "facet" \in SearchControls /\ a = [view.search.asks EXCEPT !.facet = a.facet]
    /\ view' = [view EXCEPT !.search = SearchAgain([@ EXCEPT !.asks = a], shell.indexes.data)]
    /\ calls' = Outdated("search")
    /\ UNCHANGED <<app, server>>

\* The menu of indexes goes through the address
ChooseIndex == \E n \in List :
    /\ Searching /\ "index" \in SearchControls /\ n # view.search.asks.index
    /\ view' = [view EXCEPT !.search = SearchAgain(Renamed(@, n), shell.indexes.data)]
    /\ calls' = Outdated("search")
    /\ UNCHANGED <<app, server>>

\* The 300 ms are over
RunMisnumbered ==                                   \* mutant of RunSearch
    /\ Searching /\ view.search.wait /\ Free
    /\ view' = [view EXCEPT !.search.wait = FALSE, !.search.busy = TRUE]
    /\ Sent("search", [asks |-> view.search.asks, newest |-> FALSE])
    /\ UNCHANGED <<app, server>>
RunSearch ==
    /\ Searching /\ view.search.wait /\ Free
    /\ view' = [view EXCEPT !.search.wait = FALSE, !.search.busy = TRUE]
    /\ Sent("search", [asks |-> view.search.asks, newest |-> TRUE])
    /\ UNCHANGED <<app, server>>

ServeSearch == \E i \in Pending("search") \cup Pending("compare") :
    /\ Answer(i, None)
    /\ UNCHANGED <<app, view, server>>

\* An error leaves the results of the search before it
Searched == \E i \in Arrived("search") :
    LET a == calls[i].arg IN
    /\ view' = IF ~calls[i].live \/ ~a.newest THEN view
               ELSE IF ~Ok(i) THEN [view EXCEPT !.search.busy = FALSE, !.search.error = TRUE]
               ELSE [view EXCEPT !.search.busy = FALSE, !.search.error = FALSE,
                                 !.search.result = a.asks,
                                 !.search.facets = @ \/ ~a.asks.facet]
    /\ calls' = Without(i)
    /\ UNCHANGED <<app, server>>

---------------------------------------------------------------------------
(* Comparing *)

\* The sample sets, the text fields and one to three slots for a model, of
\* which those taken by "Add model" differ. Bound: a behaviour edits the texts,
\* or the models with "models".
EditCompare ==
    /\ Comparing /\ Can("write")
    /\ LET picked == view.compare.asks.picked
           asks(a) == LET c == [view.compare EXCEPT !.asks = a] IN
               /\ a # view.compare.asks
               /\ view' = [view EXCEPT !.compare = Compares(c)]
               /\ calls' = ComparesCalls(c)
           models == "models" \in visits
       IN \/ ~models /\ \E t \in Texts \cup {None} : asks([view.compare.asks EXCEPT !.text = t])
          \/ ~models /\ \E d \in Documents : asks([view.compare.asks EXCEPT !.docs = d])
          \/ /\ models /\ \E n \in DOMAIN picked, m \in Models :
                asks([view.compare.asks EXCEPT !.picked[n] = m])
          \/ /\ models /\ Len(picked) > 1
             /\ \E n \in DOMAIN picked : asks([view.compare.asks EXCEPT !.picked = RemoveAt(@, n)])
          \/ /\ models /\ Len(picked) < 3 /\ view.models.seen # None
             /\ LET free == Models \ ToSet(picked)
                    can == free \cap Runnable(view.models.seen)
                IN /\ free # {}
                   /\ asks([view.compare.asks EXCEPT !.picked =
                        Append(@, CHOOSE m \in (IF can # {} THEN can ELSE free) : TRUE)])
    /\ UNCHANGED <<app, server>>

\* The 450 ms are over
RunCompare ==
    /\ Comparing /\ view.compare.wait /\ Free
    /\ view' = [view EXCEPT !.compare.wait = FALSE, !.compare.busy = TRUE]
    /\ Sent("compare", [asks |-> view.compare.asks, newest |-> TRUE])
    /\ UNCHANGED <<app, server>>

\* The documents that were ranked are kept with the results
Compared == \E i \in Arrived("compare") :
    LET a == calls[i].arg IN
    /\ view' = IF ~calls[i].live \/ ~a.newest THEN view
               ELSE IF ~Ok(i) THEN [view EXCEPT !.compare.busy = FALSE, !.compare.error = TRUE]
               ELSE [view EXCEPT !.compare.busy = FALSE, !.compare.error = FALSE,
                                 !.compare.result = a.asks, !.compare.ranked = a.asks.docs]
    /\ calls' = Without(i)
    /\ UNCHANGED <<app, server>>

PlaygroundNext ==
    \/ EditSearch \/ ChooseIndex \/ RunSearch \/ ServeSearch \/ Searched
    \/ EditCompare \/ RunCompare \/ Compared

---------------------------------------------------------------------------
\* "Only the newest response is shown" (pages/Playground.tsx:121): once no
\* search is waited for and none failed, the results are those of the text,
\* index, namespace and filter now chosen, or there are none. So it is for a
\* comparison while there is a text, and the documents listed beside its
\* positions are always those that were ranked.
NewestOnly ==
    /\ Searching => \/ view.search.result \in {None, view.search.asks}
                    \/ view.search.wait \/ view.search.busy \/ view.search.error
    /\ Comparing => LET c == view.compare IN
          /\ \/ c.result \in {None, c.asks} \/ c.asks.text = None
             \/ c.wait \/ c.busy \/ c.error
          /\ c.result # None => c.ranked = c.result.docs
=============================================================================
