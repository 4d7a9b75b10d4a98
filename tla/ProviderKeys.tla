---------------------------- MODULE ProviderKeys ----------------------------
(***************************************************************************)
(* The Settings page (pages/Settings.tsx, at #/settings): the embedding    *)
(* providers with the last check of each, and one sheet for all of them    *)
(* that tests a key and saves it. A key is known by the provider it was    *)
(* typed for and by whether it works.                                      *)
(***************************************************************************)
EXTENDS Catalog

ASSUME NoCheckAssumption == None # "running"

BlankProviderSheet == [key |-> None, busy |-> FALSE, failure |-> FALSE]

ProvidersMount(route) ==
    [page |-> "providers", route |-> route, list |-> NoData, editing |-> None,
     checks |-> [p \in Providers |-> None], sheet |-> BlankProviderSheet]

ProvidersView ==
    [page : {"providers"}, route : [page : {"providers"}, provider : Providers \cup {None}],
     list : [data : {None} \cup SUBSET Providers, error : {None, "error"}],
     editing : Providers \cup {None},
     checks : [Providers -> {None, "running", "ok", "bad"}],
     sheet : [key : ProviderKey \cup {None}, busy : BOOLEAN, failure : BOOLEAN]]

---------------------------------------------------------------------------
OnProviders == view.page = "providers" /\ Can("admin")

\* setEditing; the effect of the sheet on [provider?.id] clears it
EditedAlong(v, p) == [v EXCEPT !.editing = p]       \* mutant of Edited
Edited(v, p) == IF v.editing = p THEN v
                ELSE [v EXCEPT !.editing = p, !.sheet = BlankProviderSheet]

\* The effect on [?provider=, data]: that provider's sheet opens, again with
\* every load of the list while the address asks for it
Requested(v) == IF v.route.provider = None \/ v.list.data = None THEN v
                ELSE Edited(v, v.route.provider)

\* The buttons of a row; the sheet covers them. Bound: a behaviour uses the
\* sheet, or tests and removes saved keys with "rows".
RowControls(p) ==
    IF view.editing # None \/ view.list.data = None THEN {}
    ELSE (IF "rows" \in visits THEN {} ELSE {"edit"}) \cup
         (IF p \in view.list.data /\ "rows" \in visits
          THEN {"remove"} \cup (IF view.checks[p] = "running" THEN {} ELSE {"test"})
          ELSE {})

\* "Save anyway" is there once a failure is
SheetControls ==
    IF view.editing = None THEN {}
    ELSE {"close", "key"} \cup
         (IF view.sheet.busy \/ view.sheet.key = None THEN {}
          ELSE {"save"} \cup (IF view.sheet.failure THEN {"anyway"} ELSE {}))

\* A test of a provider's saved key, and what save sends; asked says that
\* ?provider= was in the address when it began
TestSaved(p) == Call("test", [p |-> p, key |-> None])
SaveCall(op, anyway) ==
    Call(op, [p |-> view.editing, key |-> view.sheet.key, anyway |-> anyway,
              asked |-> view.route.provider # None])

---------------------------------------------------------------------------
EditProvider ==
    /\ OnProviders /\ \E p \in Providers :
          /\ "edit" \in RowControls(p)
          /\ view' = Edited(view, p)
    /\ UNCHANGED <<app, calls, server>>

TestProvider ==
    /\ OnProviders /\ Free /\ \E p \in Providers :
          /\ "test" \in RowControls(p)
          /\ view' = [view EXCEPT !.checks[p] = "running"]
          /\ calls' = Append(calls, TestSaved(p))
    /\ UNCHANGED <<app, server>>

RemoveProvider ==
    /\ OnProviders /\ Free /\ \E p \in Providers :
          /\ "remove" \in RowControls(p)
          /\ Sent("removeProvider", [p |-> p])
    /\ UNCHANGED <<app, view, server>>

\* Cancel, Escape or a click beside the sheet
CloseSheet(v, asked) == /\ view' = Edited(v, None)
                        /\ hash' = IF asked THEN SettingsRoute ELSE hash

CloseProviderSheet ==
    /\ OnProviders /\ "close" \in SheetControls
    /\ CloseSheet(view, view.route.provider # None)
    /\ UNCHANGED <<me, shell, catalog, calls, server>>

TypeProviderKey ==
    /\ OnProviders /\ "key" \in SheetControls
    /\ \E works \in BOOLEAN :
          view' = [view EXCEPT !.sheet.key = [of |-> view.editing, works |-> works]]
    /\ UNCHANGED <<app, calls, server>>

\* save(false) tests the key first; save(true), "Save anyway", does not
SaveProviderKey ==
    /\ OnProviders /\ Free
    /\ view' = [view EXCEPT !.sheet.busy = TRUE, !.sheet.failure = FALSE]
    /\ \/ /\ "save" \in SheetControls
          /\ calls' = Append(calls, SaveCall("test", FALSE))
       \/ /\ "anyway" \in SheetControls
          /\ calls' = Append(calls, SaveCall("setProvider", TRUE))
    /\ UNCHANGED <<app, server>>

PollProviders == OnProviders /\ Polls("providers", view.list) /\ UNCHANGED <<app, view, server>>

---------------------------------------------------------------------------
ServeProviders == \E i \in Pending("providers") :
    /\ Answer(i, Available \ Ready)
    /\ UNCHANGED <<app, view, server>>

\* POST /providers/{id}/test: one request with the given or the saved key
ServeTest == \E i \in Pending("test") :
    LET a == calls[i].arg
        key == IF a.key # None THEN a.key ELSE server.provider[a.p]
    IN /\ Answer(i, IF key # None /\ key.works THEN "ok" ELSE "bad")
       /\ UNCHANGED <<app, view, server>>

ServeSetProvider == \E i \in Pending("setProvider") :
    /\ server' = [server EXCEPT !.provider[calls[i].arg.p] = calls[i].arg.key]
    /\ Answer(i, None)
    /\ UNCHANGED <<app, view>>

ServeRemoveProvider == \E i \in Pending("removeProvider") :
    /\ server' = [server EXCEPT !.provider[calls[i].arg.p] = None]
    /\ Answer(i, None)
    /\ UNCHANGED <<app, view>>

ProvidersLoaded == \E i \in Arrived("providers") :
    /\ view' = IF ~calls[i].live THEN view
               ELSE IF Ok(i) THEN Requested([view EXCEPT !.list = Polled(@, i)])
               ELSE [view EXCEPT !.list = Polled(@, i)]
    /\ calls' = Without(i)
    /\ UNCHANGED <<app, server>>

\* The test of a row. A test of the sheet that works goes on to save the key,
\* also when the sheet is closed or shows another provider by then; one that
\* does not is a failure of whatever the sheet shows.
TestDone == \E i \in Arrived("test") :
    LET a == calls[i].arg
        works == Ok(i) /\ calls[i].reply = "ok"
        saves == a.key # None /\ works
    IN /\ view' = IF ~calls[i].live \/ saves THEN view
                  ELSE IF a.key = None
                  THEN [view EXCEPT !.checks[a.p] = IF works THEN "ok" ELSE "bad"]
                  ELSE [view EXCEPT !.sheet.busy = FALSE, !.sheet.failure = TRUE]
       /\ calls' = IF saves
                   THEN Append(Without(i), [Call("setProvider", a) EXCEPT !.live = calls[i].live])
                   ELSE Without(i)
       /\ UNCHANGED <<app, server>>

\* onSaved closes the sheet, whatever it shows by now, and leaves the address
\* as it does, from a page that is gone too. A key saved without a test keeps
\* the check of the one before it.
ProviderSaved == \E i \in Arrived("setProvider") :
    LET a == calls[i].arg
        saved == [view EXCEPT !.sheet.busy = FALSE,
                              !.checks[a.p] = IF a.anyway THEN @ ELSE "ok"]
    IN IF Ok(i)
       THEN /\ IF calls[i].live THEN CloseSheet(saved, a.asked)
               ELSE view' = view /\ hash' = IF a.asked THEN SettingsRoute ELSE hash
            /\ calls' = Without(i) \o RefreshCalls \o <<Reload("providers", calls[i].live)>>
            /\ catalog' = Refreshed
            /\ UNCHANGED <<me, shell, server>>
       ELSE /\ view' = IF calls[i].live
                       THEN [view EXCEPT !.sheet.busy = FALSE, !.sheet.failure = TRUE] ELSE view
            /\ calls' = Without(i)
            /\ UNCHANGED <<app, server>>

ProviderRemoved == \E i \in Arrived("removeProvider") :
    IF Ok(i)
    THEN /\ view' = IF calls[i].live
                    THEN [view EXCEPT !.checks[calls[i].arg.p] = None] ELSE view
         /\ calls' = Without(i) \o RefreshCalls \o <<Reload("providers", calls[i].live)>>
         /\ catalog' = Refreshed
         /\ UNCHANGED <<me, shell, hash, server>>
    ELSE calls' = Without(i) /\ UNCHANGED <<app, view, server>>

ProvidersNext ==
    \/ EditProvider \/ TestProvider \/ RemoveProvider \/ CloseProviderSheet
    \/ TypeProviderKey \/ SaveProviderKey \/ PollProviders
    \/ ServeProviders \/ ServeTest \/ ServeSetProvider \/ ServeRemoveProvider
    \/ ProvidersLoaded \/ TestDone \/ ProviderSaved \/ ProviderRemoved

---------------------------------------------------------------------------
\* A key goes only to the provider it was typed for, and one that does not
\* work is saved only by "Save anyway": though one sheet serves all providers,
\* a link can change which one it shows, and a save goes on after the sheet is
\* closed (pages/Settings.tsx, KeySheet's effect and save).
KeysSentAsTyped ==
    \A i \in DOMAIN calls : calls[i].op \in {"test", "setProvider"} =>
        LET a == calls[i].arg IN
        /\ a.key # None => a.key.of = a.p
        /\ calls[i].op = "setProvider" => a.key.works \/ a.anyway
=============================================================================
