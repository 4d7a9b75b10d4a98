-------------------------------- MODULE Keys --------------------------------
(***************************************************************************)
(* The API Keys page (pages/Keys.tsx): the list, revoking a key behind a   *)
(* confirmation bar, and the sheet that creates a key and reveals its      *)
(* secret. A key stands for its record and its secret. Names, expiry and   *)
(* the wording are left out; "named" says that a name is typed.            *)
(***************************************************************************)
EXTENDS Client

CONSTANTS
    KeyIds,         \* keys the server can hand out
    EnvKey,         \* the key set by NEEDLEDB_API_KEY, which is not managed
    ScopeNames      \* indexes a key can be limited to

ASSUME KeyIdsAssumption == None \notin KeyIds

BlankKeySheet == [named |-> FALSE, role |-> "read", scope |-> "all",
                  chosen |-> {}, created |-> None, busy |-> FALSE]

\* useState(openNew): #/keys?new=1 opens the sheet at once
KeysMount(route) ==
    [page |-> "keys", route |-> route, list |-> NoData, creating |-> route.new,
     opening |-> FALSE, confirming |-> None, sheet |-> BlankKeySheet]

KeysView ==
    [page : {"keys"}, route : [page : {"keys"}, new : BOOLEAN],
     list : [data : {None} \cup SUBSET (KeyIds \cup {EnvKey}), error : {None, "error"}],
     creating : BOOLEAN, opening : BOOLEAN, confirming : KeyIds \cup {None},
     sheet : [named : BOOLEAN, role : KeyRoles, scope : {"all", "some"},
              chosen : SUBSET ScopeNames, created : KeyIds \cup {None},
              busy : BOOLEAN]]

---------------------------------------------------------------------------
OnKeys == view.page = "keys"
Keys == IF view.list.data = None THEN {} ELSE view.list.data

\* The rows with a menu. The search field narrows them, which leaves the
\* user some of the same choices.
Shown == Keys \ {EnvKey}

Scoped == view.sheet.role # "admin" /\ view.sheet.scope = "some"
ValidKey == view.sheet.named /\ (Scoped => view.sheet.chosen # {})

\* The sheet is rendered open as it was left, the last secret included, and
\* only then the effect on [open] clears it.
Opened(v) == [v EXCEPT !.creating = TRUE, !.opening = TRUE]
OpenKeySheet == IF view.creating THEN view ELSE Opened(view)

\* What the effect leaves: a blank form, no secret, and busy as it was
ClearedForm(sheet) == [BlankKeySheet EXCEPT !.busy = sheet.busy,    \* mutant of Cleared
                                            !.created = sheet.created]
Cleared(sheet) == [BlankKeySheet EXCEPT !.busy = sheet.busy]

\* What can be pressed. The sheet covers the page behind it; once a key is
\* created the sheet is the secret and a way to leave. Bound: nobody fills in
\* the form that the effect is about to clear.
KeysControls ==
    IF view.creating
    THEN {"close"} \cup
         IF view.sheet.created # None \/ view.opening THEN {}
         ELSE {"form"} \cup (IF view.sheet.busy THEN {} ELSE {"submit"})
    ELSE {"create"} \cup
         (IF view.list.data = None THEN {} ELSE
              (IF Keys = {} THEN {} ELSE {"menu"}) \cup
              (IF view.confirming = None THEN {} ELSE {"confirm"}))

\* The secret on screen, and there to stay until the sheet is closed
Revealed(k) == OnKeys /\ view.creating /\ view.sheet.created = k
Settled(k) == Revealed(k) /\ ~view.opening

---------------------------------------------------------------------------
(* The page *)

\* The menu of a managed key. Bound: behaviours with "typing" or
\* "palette" leave revoking to the others.
AskRevoke ==
    /\ OnKeys /\ {"typing", "palette"} \cap visits = {} /\ "menu" \in KeysControls
    /\ \E k \in Shown : view' = [view EXCEPT !.confirming = k]
    /\ UNCHANGED <<app, calls, server>>

\* "View activity" in the menu of a managed key
ViewActivity ==
    /\ OnKeys /\ "menu" \in KeysControls /\ Shown # {}
    /\ go([page |-> "security", q |-> TRUE])
    /\ UNCHANGED <<me, shell, catalog, view, calls, server>>

CancelRevoke ==
    /\ OnKeys /\ "confirm" \in KeysControls
    /\ view' = [view EXCEPT !.confirming = None]
    /\ UNCHANGED <<app, calls, server>>

\* The bar stays until the answer, so the button can be pressed twice
ConfirmRevoke ==
    /\ OnKeys /\ "confirm" \in KeysControls /\ Free
    /\ Sent("revokeKey", view.confirming)
    /\ UNCHANGED <<app, view, server>>

ServeRevokeKey == \E i \in Pending("revokeKey") :
    /\ server' = [server EXCEPT !.keys = @ \ {calls[i].arg}]
    /\ IF calls[i].arg \in server.keys
       THEN Answer(i, None)
       ELSE calls' = [calls EXCEPT ![i].st = "failed"]
    /\ UNCHANGED <<app, view>>

\* Success closes whatever bar is open and reloads
Revoked == \E i \in Arrived("revokeKey") :
    /\ view' = IF calls[i].live /\ Ok(i)
               THEN [view EXCEPT !.confirming = None] ELSE view
    /\ calls' = IF Ok(i) THEN Append(Without(i), Reload("keys", calls[i].live))
                         ELSE Without(i)
    /\ UNCHANGED <<app, server>>

PollKeys == OnKeys /\ Polls("keys", view.list) /\ UNCHANGED <<app, view, server>>

ServeKeys == \E i \in Pending("keys") :
    /\ Answer(i, server.keys)
    /\ UNCHANGED <<app, view, server>>

KeysLoaded == \E i \in Arrived("keys") :
    /\ view' = IF calls[i].live
               THEN [view EXCEPT !.list = Polled(@, i)] ELSE view
    /\ calls' = Without(i)
    /\ UNCHANGED <<app, server>>

---------------------------------------------------------------------------
(* CreateKeySheet *)

CreateKey ==
    /\ OnKeys /\ "create" \in KeysControls
    /\ view' = OpenKeySheet
    /\ UNCHANGED <<app, calls, server>>

\* The effect on [open] runs after the commit that shows the sheet. Answers
\* may come and the sheet may be closed in between: what the effect sets was
\* decided when the sheet opened.
KeySheetEffect ==
    /\ OnKeys /\ view.opening
    /\ view' = [view EXCEPT !.opening = FALSE, !.sheet = Cleared(@)]
    /\ UNCHANGED <<app, calls, server>>

\* The form's fields; the check list is there for a limited scope only.
\* Bound: only behaviours with "typing" fill in more than the name.
EditKey ==
    /\ OnKeys /\ "form" \in KeysControls
    /\ \/ \E b \in BOOLEAN : view' = [view EXCEPT !.sheet.named = b]
       \/ "typing" \in visits /\ \E r \in KeyRoles : view' = [view EXCEPT !.sheet.role = r]
       \/ /\ "typing" \in visits /\ view.sheet.role # "admin"
          /\ \E s \in {"all", "some"} : view' = [view EXCEPT !.sheet.scope = s]
       \/ /\ Scoped
          /\ \E n \in ScopeNames :
                view' = [view EXCEPT !.sheet.chosen =
                             IF n \in @ THEN @ \ {n} ELSE @ \cup {n}]
    /\ UNCHANGED <<app, calls, server>>

SubmitKey ==
    /\ OnKeys /\ "submit" \in KeysControls /\ ValidKey /\ Free
    /\ view' = [view EXCEPT !.sheet.busy = TRUE]
    /\ Sent("createKey", IF Scoped THEN view.sheet.chosen ELSE None)
    /\ UNCHANGED <<app, server>>

\* Cancel, Done, Escape or a click beside the sheet, also while busy
CloseKeySheet ==
    /\ OnKeys /\ "close" \in KeysControls
    /\ view' = [view EXCEPT !.creating = FALSE]
    /\ IF view.route.new THEN go([page |-> "keys", new |-> FALSE])
                         ELSE UNCHANGED hash
    /\ UNCHANGED <<me, shell, catalog, calls, server>>

ServeCreateKey == \E i \in Pending("createKey") :
    \E k \in KeyIds \ server.issued :
        /\ server' = [server EXCEPT !.keys = @ \cup {k}, !.issued = @ \cup {k}]
        /\ Answer(i, k)
        /\ UNCHANGED <<app, view>>

\* The secret is set whether or not the sheet is still open
KeyCreated == \E i \in Arrived("createKey") :
    /\ view' = IF ~calls[i].live THEN view
               ELSE [view EXCEPT !.sheet.busy = FALSE,
                         !.sheet.created = IF Ok(i) THEN calls[i].reply ELSE @]
    /\ calls' = IF Ok(i) THEN Append(Without(i), Reload("keys", calls[i].live))
                         ELSE Without(i)
    /\ UNCHANGED <<app, server>>

KeysNext ==
    \/ AskRevoke \/ ViewActivity \/ CancelRevoke \/ ConfirmRevoke
    \/ ServeRevokeKey \/ Revoked \/ PollKeys \/ ServeKeys \/ KeysLoaded
    \/ CreateKey \/ KeySheetEffect \/ EditKey \/ SubmitKey \/ CloseKeySheet
    \/ ServeCreateKey \/ KeyCreated

---------------------------------------------------------------------------
\* A secret stays on screen only if it did before or came with this very
\* answer: one that was closed, or that came while the sheet was closed, is
\* gone once the effect of the opening has run, whatever was still in flight
\* and however often the sheet was opened and closed (pages/Keys.tsx, the
\* effect on [open]; KeyCreated does not ask whether the sheet is open). "This
\* key can't be shown again" (:241) says more: the render that opens the sheet
\* comes before the effect and still has the old secret.
OldSecretsGo ==
    [][\A k \in KeyIds :
         Settled(k)' => \/ Settled(k)
                       \/ \E i \in Arrived("createKey") : calls[i].reply = k]_<<view, calls>>
=============================================================================
