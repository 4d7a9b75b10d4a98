---------------------------- MODULE ConnectModel ----------------------------
(***************************************************************************)
(* Connecting an embedding model to an index (pages/ConnectModel.tsx): the *)
(* card on the index's Settings tab and the picker it opens. The two calls *)
(* that sample the text fields of the records are one, "fields"; which     *)
(* field is picked is left out.                                            *)
(***************************************************************************)
EXTENDS Catalog

CONSTANTS
    Models,         \* embedding models of the catalog
    ProviderOf,     \* the provider of each
    Sizes,          \* the vector sizes each can make
    NativeSize,     \* the size it makes by itself
    Dimension       \* the size of this index's vectors

ASSUME ModelsAssumption ==
    /\ IsFiniteSet(Models)
    /\ \A m \in Models : ProviderOf[m] \in Providers \cup Ready /\ NativeSize[m] \in Sizes[m]
    /\ None \notin Models

\* The picker; the embedding the index had when it opened is its choice
ConnectMount(embed) == [choice |-> embed, fields |-> FALSE, busy |-> FALSE]

ConnectState == [choice : Models \cup {None}, fields : BOOLEAN, busy : BOOLEAN]
ASSUME NoPickerAssumption == None \notin ConnectState

---------------------------------------------------------------------------
Connecting == OnTab("settings") /\ Can("admin") /\ view.connect # None

Compatible == IF view.models.seen = None THEN {}
              ELSE {m \in Models : Dimension \in Sizes[m]}

\* A skeleton until the catalog and the fields are there; then one row per
\* compatible model and a button once one is chosen
ConnectControls ==
    IF view.models.seen = None \/ ~view.connect.fields THEN {}
    ELSE {"choose"} \cup
         (IF view.connect.choice \in Compatible /\ ~view.connect.busy
          THEN {"connect"} ELSE {})

\* EmbeddingSettings shows the picker without a model or while editing
ShowsPicker(v) == /\ Can("admin") /\ "settings" \in visits
                  /\ v.info.data.embed = None \/ v.settings.editing

\* What a picker that unmounts no longer hears
Unpicked(cs) == [i \in DOMAIN cs |->
    IF cs[i].op = "setEmbedding" THEN [cs[i] EXCEPT !.arg.picker = FALSE]
    ELSE [cs[i] EXCEPT !.live = @ /\ cs[i].op # "fields"]]

\* The picker mounts, which asks for the models and the text fields, or
\* unmounts, as the embedding of the index and editing say
WithPicker(v, cs) ==
    CASE ShowsPicker(v) /\ v.connect = None ->
           [view |-> [v EXCEPT !.connect = ConnectMount(v.info.data.embed), !.models = NewModels],
            calls |-> cs \o SubscribeCalls \o <<Call("fields", None)>>,
            catalog |-> Subscribed]
      [] ~ShowsPicker(v) /\ v.connect # None ->
           [view |-> [v EXCEPT !.connect = None, !.models = NoModels],
            calls |-> Unpicked(cs), catalog |-> catalog]
      [] OTHER -> [view |-> v, calls |-> cs, catalog |-> catalog]

ChooseModel ==
    /\ Connecting /\ "choose" \in ConnectControls
    /\ \E m \in Compatible : view' = [view EXCEPT !.connect.choice = m]
    /\ UNCHANGED <<app, calls, server>>

Connect ==
    /\ Connecting /\ "connect" \in ConnectControls /\ Free
    /\ view' = [view EXCEPT !.connect.busy = TRUE]
    /\ Sent("setEmbedding", [embed |-> view.connect.choice, panel |-> TRUE, picker |-> TRUE])
    /\ UNCHANGED <<app, server>>

\* "Change" and "Disconnect" on the card
OnCard == OnTab("settings") /\ Can("admin") /\ view.connect = None /\ Free

ChangeModel ==
    /\ OnCard
    /\ LET picker == WithPicker([view EXCEPT !.settings.editing = TRUE], calls) IN
       view' = picker.view /\ calls' = picker.calls /\ catalog' = picker.catalog
    /\ UNCHANGED <<me, shell, hash, server>>

Disconnect ==
    /\ OnCard
    /\ Sent("setEmbedding", [embed |-> None, panel |-> TRUE, picker |-> FALSE])
    /\ UNCHANGED <<app, view, server>>

ServeFields == \E i \in Pending("fields") :
    /\ Answer(i, None)
    /\ UNCHANGED <<app, view, server>>

\* An error counts as no field found; a picker that is gone ignores it
FieldsLoaded == \E i \in Arrived("fields") :
    /\ view' = IF calls[i].live THEN [view EXCEPT !.connect.fields = TRUE] ELSE view
    /\ calls' = Without(i)
    /\ UNCHANGED <<app, server>>

ConnectNext ==
    \/ ChooseModel \/ Connect \/ ChangeModel \/ Disconnect
    \/ ServeFields \/ FieldsLoaded
=============================================================================
