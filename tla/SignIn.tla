------------------------------- MODULE SignIn -------------------------------
(***************************************************************************)
(* App (App.tsx) and the sign-in page (SignIn.tsx): loading who is signed  *)
(* in, signing in and out, and dropping back to sign-in when the server    *)
(* says the session is gone. A key is "good" or "bad"; its role is chosen  *)
(* by the server.                                                          *)
(***************************************************************************)
EXTENDS Client

CONSTANTS
    MaxWait         \* bound: seconds of a lockout (60 in the code)

SignInMount(route) ==
    [page |-> "signin", route |-> route, key |-> None, busy |-> FALSE, wait |-> 0]

SignInView ==
    [page : {"signin"}, route : {view.route}, key : {None, "good", "bad"}, busy : BOOLEAN,
     wait : 0 .. MaxWait]

\* App renders docs for anyone, nothing before me is known, and sign-in
\* without a principal; otherwise the shell with the route's page.
Slot(route, m) == IF route.page = "docs" THEN "docs"
                  ELSE IF m \in {"boot", "out"} THEN m ELSE "shell"

---------------------------------------------------------------------------
OnSignIn == view.page = "signin" /\ "signin" \in visits

SignInControls ==
    {"key"} \cup (IF view.key # None /\ view.wait = 0 /\ ~view.busy
                  THEN {"submit"} ELSE {})

TypeKey == \E k \in {None, "good", "bad"} :
    /\ OnSignIn /\ "key" \in SignInControls
    /\ view' = [view EXCEPT !.key = k]
    /\ UNCHANGED <<app, calls, server>>

SubmitSignIn ==
    /\ OnSignIn /\ "submit" \in SignInControls /\ Free
    /\ view' = [view EXCEPT !.busy = TRUE]
    /\ Sent("login", view.key)
    /\ UNCHANGED <<app, server>>

\* The countdown: one timer per second, restarted by each change of wait
WaitTickShort ==                                    \* mutant of WaitTick
    /\ OnSignIn /\ view.wait > 1
    /\ view' = [view EXCEPT !.wait = @ - 1]
    /\ UNCHANGED <<app, calls, server>>
WaitTick ==
    /\ OnSignIn /\ view.wait > 0
    /\ view' = [view EXCEPT !.wait = @ - 1]
    /\ UNCHANGED <<app, calls, server>>

\* POST /auth/login: a session for a valid key; too many failures from the
\* same address lock it out, whichever client made them.
ServeLogin == \E i \in Pending("login") :
    \/ /\ calls[i].arg = "good"
       /\ \E r \in KeyRoles : /\ server' = [server EXCEPT !.session = r]
                              /\ Answer(i, r)
       /\ UNCHANGED <<app, view>>
    \/ \E error \in {"wrong", "locked"} :
          /\ error = "wrong" => calls[i].arg = "bad"
          /\ calls' = [calls EXCEPT ![i].st = "failed", ![i].reply = error]
          /\ UNCHANGED <<app, view, server>>

\* GET /auth/me
ServeMe == \E i \in Pending("me") :
    /\ Answer(i, IF server.session = "none" THEN "out" ELSE server.session)
    /\ UNCHANGED <<app, view, server>>

\* POST /auth/logout
ServeLogout == \E i \in Pending("logout") :
    /\ server' = [server EXCEPT !.session = "none"]
    /\ Answer(i, None)
    /\ UNCHANGED <<app, view>>

\* A refused login: 429 starts the countdown, anything else is a message
SignInRefused == \E i \in Arrived("login") :
    /\ ~Ok(i)
    /\ view' = IF ~calls[i].live THEN view
               ELSE [view EXCEPT !.busy = FALSE,
                         !.wait = IF calls[i].reply = "locked" THEN MaxWait ELSE @]
    /\ calls' = Without(i)
    /\ UNCHANGED <<app, server>>

\* The session's end, noticed or not: it expires or its key is revoked
SessionEnds ==
    /\ server.session # "none"
    /\ server' = [server EXCEPT !.session = "none"]
    /\ UNCHANGED <<app, view, calls>>

\* The account menu or the command palette
SignOut ==
    /\ me \in Roles /\ Slot(view.route, me) = "shell" /\ Free
    /\ Sent("logout", None)
    /\ UNCHANGED <<app, view, server>>

NewMeIfAsked(i) ==                                  \* mutant of NewMe
    CASE calls[i].op = "logout" /\ calls[i].st # "sent" -> "out"
      [] calls[i].op \in {"me", "login"} /\ Ok(i) -> calls[i].reply
      [] OTHER -> me

\* Answers that change who is signed in: me, login, a logout however it
\* ended, and any other call that was refused (onSignedOut).
NewMe(i) ==
    CASE calls[i].st = "gone" -> IF me = "boot" THEN me ELSE "out"
      [] calls[i].op = "logout" /\ calls[i].st # "sent" -> "out"
      [] calls[i].op \in {"me", "login"} /\ Ok(i) -> calls[i].reply
      [] OTHER -> me

Decides(i) ==
    \/ calls[i].st = "gone"
    \/ calls[i].op = "logout" /\ calls[i].st # "sent"
    \/ calls[i].op = "me" /\ calls[i].st # "sent"
    \/ calls[i].op = "login" /\ Ok(i)

SignInNext ==
    \/ TypeKey \/ SubmitSignIn \/ WaitTick \/ ServeLogin \/ ServeMe
    \/ ServeLogout \/ SignInRefused
=============================================================================
