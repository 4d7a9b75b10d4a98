------------------------------ MODULE Security ------------------------------
(***************************************************************************)
(* The Security page (pages/Security.tsx): the audit log with its filters, *)
(* which only admins load, and ending every session in two clicks. The     *)
(* checks and the activity chart show what the server says and are left    *)
(* out. An event stands for those the filters treat alike.                 *)
(***************************************************************************)
EXTENDS Overview

SecurityMount(route) ==
    [page |-> "security", route |-> route, events |-> NoData, confirming |-> FALSE,
     filter |-> "all", search |-> route.q, open |-> FALSE]

SecurityView ==
    [page : {"security"}, route : [page : {"security"}, q : BOOLEAN],
     events : [data : {None, "events", "none"}, error : {None, "error"}],
     confirming : BOOLEAN, filter : {"all", "failures", "action"}, search : BOOLEAN,
     open : BOOLEAN]

OnSecurity == view.page = "security"

\* The log is there for admins, its rows when the filters leave any; an open
\* event covers the page
SecurityControls ==
    IF view.open THEN {"close"}
    ELSE {"signOut"}
         \cup (IF Can("admin") THEN {"end", "filter"} ELSE {})
         \cup (IF view.events.data = "events" THEN {"rows", "export"} ELSE {})

PollEvents ==
    /\ OnSecurity /\ Polls("events", view.events)
    /\ UNCHANGED <<app, view, server>>

\* Bound: only in behaviours with "typing"
FilterEvents ==
    /\ OnSecurity /\ "typing" \in visits /\ "filter" \in SecurityControls
    /\ \/ \E f \in {"all", "failures", "action"} : view' = [view EXCEPT !.filter = f]
       \/ \E q \in BOOLEAN : view' = [view EXCEPT !.search = q]
    /\ UNCHANGED <<app, calls, server>>

OpenEvent ==
    /\ OnSecurity /\ SecurityControls \cap {"rows", "close"} # {}
    /\ view' = [view EXCEPT !.open = "rows" \in SecurityControls]
    /\ UNCHANGED <<app, calls, server>>

\* endAllSessions: the first click arms the button, leaving it disarms it
EndSessions ==
    /\ OnSecurity /\ "end" \in SecurityControls
    /\ IF view.confirming
       THEN Free /\ Sent("revokeAll", None) /\ UNCHANGED view
       ELSE view' = [view EXCEPT !.confirming = TRUE] /\ UNCHANGED calls
    /\ UNCHANGED <<app, server>>

LeaveButton ==
    /\ OnSecurity /\ view.confirming
    /\ view' = [view EXCEPT !.confirming = FALSE]
    /\ UNCHANGED <<app, calls, server>>

\* POST /auth/sessions/revoke-all, which ends this session too
ServeRevokeAll == \E i \in Pending("revokeAll") :
    /\ IF server.session = "none"
       THEN calls' = [calls EXCEPT ![i].st = "failed"] /\ UNCHANGED server
       ELSE Answer(i, None) /\ server' = [server EXCEPT !.session = "none"]
    /\ UNCHANGED <<app, view>>

\* Then this browser signs out, on whatever page it is by now
SessionsEnded == \E i \in Arrived("revokeAll") :
    /\ calls' = IF Ok(i) THEN Append(Without(i), Call("logout", None)) ELSE Without(i)
    /\ UNCHANGED <<app, view, server>>

SecurityNext ==
    \/ PollEvents \/ FilterEvents \/ OpenEvent \/ EndSessions \/ LeaveButton
    \/ ServeRevokeAll \/ SessionsEnded
=============================================================================
