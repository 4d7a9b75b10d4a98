------------------------------- MODULE Client -------------------------------
(***************************************************************************)
(* What every page of the dashboard (src/ui) is built from: the HTTP       *)
(* client of api.ts, the hash router and usePoll of lib.ts, and the role   *)
(* check of App.tsx.                                                       *)
(*                                                                         *)
(* A call is sent, answered by the server (or fails, before or after it    *)
(* took effect) and only then delivered to the component that awaits it;   *)
(* calls in flight may overtake each other at both steps. A handler runs   *)
(* to its next await in one step, with the effects its state changes       *)
(* trigger. A component that is unmounted drops what its awaits would set, *)
(* but the rest of the awaiting function still runs.                       *)
(***************************************************************************)
EXTENDS Naturals, FiniteSets, Sequences, SequencesExt

CONSTANTS
    None,           \* "undefined" in the code
    MaxInFlight,    \* bound: calls in flight at one time
    KeyRoles,       \* bound: roles that keys have or get, of the three
    Ids,            \* record ids, a range of numbers from 1
    Namespaces,     \* namespaces of the index
    DefaultSpace    \* the default one

VARIABLES
    me,             \* App's me: "boot", "out" or the role of the principal
    shell,          \* the state hooks of Shell, around every page but docs
    hash,           \* window.location.hash, the route last asked for
    view,           \* the state hooks of the mounted page
    calls,          \* calls in flight, in the order they were sent
    catalog,        \* the catalog of embedding models shared by all pages
    server,         \* what the server holds, as far as the pages show it
    visits          \* bound: the pages and panels a behaviour uses

app == <<me, shell, hash, catalog>>

ASSUME InFlightAssumption == MaxInFlight \in Nat \ {0}
ASSUME SpaceAssumption == DefaultSpace \in Namespaces
ASSUME RolesAssumption == KeyRoles \subseteq {"read", "write", "admin"}

---------------------------------------------------------------------------
(* api.ts *)

\* fetch() begins; live says that the component that awaits it is mounted
Call(op, arg) ==
    [op |-> op, arg |-> arg, live |-> TRUE, st |-> "sent", reply |-> None]

Sent(op, arg) == calls' = Append(calls, Call(op, arg))

\* The bound on calls in flight, a guard of every handler that starts one
Free == Len(calls) < MaxInFlight

IsAuth(c) == c.op \in {"me", "login", "logout", "revokeAll"}

\* Calls about the records of the index: none succeeds once it is deleted
NeedsIndex(c) == c.op \in {"list", "metadata", "record", "delete", "query", "upsert",
                           "map", "neighbours", "fields"}

\* Calls of one kind the server may work on. Without a session it refuses
\* every path that is not under /auth/ (Refuse).
Pending(op) ==
    {i \in DOMAIN calls : /\ calls[i].op = op
                          /\ calls[i].st = "sent"
                          /\ IsAuth(calls[i]) \/ server.session # "none"
                          /\ NeedsIndex(calls[i]) => server.indexes # {}}

\* Calls of one kind whose answer has reached the browser
Arrived(op) ==
    {i \in DOMAIN calls : /\ calls[i].op = op
                          /\ calls[i].st \in {"answered", "failed"}}

Ok(i) == calls[i].st = "answered"

Answer(i, reply) ==
    calls' = [calls EXCEPT ![i].st = "answered", ![i].reply = reply]

\* 401: the session has expired or its key was revoked
Refuse(i) ==
    /\ calls[i].st = "sent" /\ ~IsAuth(calls[i]) /\ server.session = "none"
    /\ calls' = [calls EXCEPT ![i].st = "gone"]

\* Any other error, or a connection lost on the way there or back
Fail(i) ==
    /\ calls[i].st \in {"sent", "answered"}
    /\ calls' = [calls EXCEPT ![i].st = "failed", ![i].reply = None]

Without(i) == RemoveAt(calls, i)

\* The component that awaits these calls is unmounted
Orphan(from) == [i \in DOMAIN calls |-> [calls[i] EXCEPT !.live = @ /\ ~from[i]]]
Orphaned == [i \in DOMAIN calls |-> [calls[i] EXCEPT !.live = FALSE]]

---------------------------------------------------------------------------
(* lib.ts *)

\* usePoll keeps the last data through later errors, and takes whatever
\* answer comes last for the newest.
NoData == [data |-> None, error |-> None]

Polled(poll, i) ==
    IF Ok(i) THEN [data |-> calls[i].reply, error |-> None]
    ELSE [poll EXCEPT !.error = IF calls[i].reply = None THEN "error" ELSE calls[i].reply]

\* The interval fires (a visible tab), or a handler calls reload(). The
\* models let it fire when no load of the same kind is still unanswered.
Ticks(op) == /\ Free
             /\ \A i \in DOMAIN calls : calls[i].op # op \/ calls[i].st # "sent"
             /\ Sent(op, None)

RoleRank(role) == CASE role = "read" -> 0 [] role = "write" -> 1
                    [] role = "admin" -> 2

\* App.tsx: session.can
Roles == {"read", "write", "admin"}
May(m, role) == m \in Roles /\ RoleRank(m) >= RoleRank(role)
Can(role) == May(me, role)

\* bound: what is loaded is polled again only in behaviours with "polls"; the
\* handlers that reload do so in all of them
Polls(op, poll) == Ticks(op) /\ (poll.data = None \/ "polls" \in visits)

go(route) == hash' = route

\* reload() of a poll, from a component that may be gone by now
Reload(op, live) == [Call(op, None) EXCEPT !.live = live]

---------------------------------------------------------------------------
(* The index page shows one of its panels, once the index is loaded *)

OnIndex == view.page = "index" /\ view.info.data # None
OnTab(tab) == /\ OnIndex /\ view.route.tab = tab
              /\ tab \in visits

\* refresh and onChanged of IndexPage.tsx: the index and the shell's list are
\* loaded again (the list where a behaviour looks at it)
OnChanged == IF "list" \in visits THEN <<Reload("indexes", TRUE)>> ELSE <<>>
Refresh(live) == <<Reload("index", live)>> \o OnChanged

SettingsRoute == [page |-> "providers", provider |-> None]      \* #/settings
IndexRoute(n, tab) == [page |-> "index", name |-> n, tab |-> tab, like |-> None]
=============================================================================
