-------------------------- MODULE DashboardProofs --------------------------
(***************************************************************************)
(* Dashboard: CallsInv is an invariant, and with it batches are complete,  *)
(* keys go where they were typed, a query's result is that of the request  *)
(* beside it, deleting takes two clicks on one record, and drafts survive  *)
(* the tabs. There is one lemma for each page's actions.                   *)
(***************************************************************************)
EXTENDS DashboardInv, SequenceTheorems, TLAPS

---------------------------------------------------------------------------
(* Calls: what the operators of Client do to the calls in flight           *)

LEMMA CallsElement ==
  ASSUME NEW cs, NEW w, CallsOk(cs, w)
  PROVE  /\ Len(cs) \in Nat /\ DOMAIN cs = 1 .. Len(cs)
         /\ \A i \in DOMAIN cs : CallOk(cs[i], w)
BY DEF CallsOk

\* A sequence of good calls, however it was made
LEMMA CallsMade ==
  ASSUME NEW S, NEW cs \in Seq(S), NEW w, \A i \in DOMAIN cs : CallOk(cs[i], w)
  PROVE  CallsOk(cs, w)
<1> DEFINE T == {cs[i] : i \in DOMAIN cs}
<1>1. Len(cs) \in Nat /\ DOMAIN cs = 1 .. Len(cs) /\ cs = [i \in 1 .. Len(cs) |-> cs[i]]
  OBVIOUS
<1>2. \A i \in 1 .. Len(cs) : cs[i] \in T
  BY <1>1
<1>3. cs \in Seq(T)
  BY <1>1, <1>2, SeqDef
<1> QED
  BY <1>3 DEF CallsOk

LEMMA CallsAppend ==
  ASSUME NEW cs, NEW w, CallsOk(cs, w), NEW c, CallOk(c, w)
  PROVE  CallsOk(Append(cs, c), w)
<1> DEFINE S == {cs[i] : i \in DOMAIN cs} \cup {c}
<1>1. cs \in Seq(S)
  BY DEF CallsOk
<1>2. Append(cs, c) \in Seq(S) /\ \A i \in DOMAIN Append(cs, c) :
         Append(cs, c)[i] = c \/ (i \in DOMAIN cs /\ Append(cs, c)[i] = cs[i])
  <2> c \in S
    OBVIOUS
  <2> HIDE DEF S
  <2> QED
    BY <1>1
<1>3. \A i \in DOMAIN Append(cs, c) : CallOk(Append(cs, c)[i], w)
  BY <1>2, CallsElement
<1> QED
  BY <1>2, <1>3, CallsMade

LEMMA CallsConcat ==
  ASSUME NEW cs, NEW w, CallsOk(cs, w), NEW ds, CallsOk(ds, w)
  PROVE  CallsOk(cs \o ds, w)
<1> DEFINE S == {cs[i] : i \in DOMAIN cs} \cup {ds[i] : i \in DOMAIN ds}
<1>1. cs \in Seq(S) /\ ds \in Seq(S)
  BY DEF CallsOk
<1>2. cs \o ds \in Seq(S) /\ \A i \in DOMAIN (cs \o ds) :
         \/ i \in DOMAIN cs /\ (cs \o ds)[i] = cs[i]
         \/ i - Len(cs) \in DOMAIN ds /\ (cs \o ds)[i] = ds[i - Len(cs)]
  <2> HIDE DEF S
  <2> QED
    BY <1>1
<1>3. \A i \in DOMAIN (cs \o ds) : CallOk((cs \o ds)[i], w)
  BY <1>2, CallsElement
<1> QED
  BY <1>2, <1>3, CallsMade

LEMMA CallsEmpty == ASSUME NEW w PROVE CallsOk(<<>>, w)
BY DEF CallsOk

LEMMA CallsOne == ASSUME NEW c, NEW w, CallOk(c, w) PROVE CallsOk(<<c>>, w)
<1>1. <<c>> \in Seq({c}) /\ \A i \in DOMAIN <<c>> : <<c>>[i] = c
  OBVIOUS
<1> QED
  BY <1>1, CallsMade

LEMMA CallsSlice ==
  ASSUME NEW cs, NEW w, CallsOk(cs, w), NEW m \in Nat \ {0}, NEW n \in Nat, n <= Len(cs)
  PROVE  CallsOk(SubSeq(cs, m, n), w)
<1> DEFINE S == {cs[j] : j \in DOMAIN cs}
<1>1. cs \in Seq(S)
  BY DEF CallsOk
<1>2. /\ SubSeq(cs, m, n) \in Seq(S)
      /\ \A j \in DOMAIN SubSeq(cs, m, n) :
            m + j - 1 \in DOMAIN cs /\ SubSeq(cs, m, n)[j] = cs[m + j - 1]
  <2> HIDE DEF S
  <2>1. /\ Len(cs) \in Nat /\ DOMAIN cs = 1 .. Len(cs)
        /\ SubSeq(cs, m, n) = [j \in 1 .. (n - m + 1) |-> cs[m + j - 1]]
    BY <1>1
  <2>2. \A j \in 1 .. (n - m + 1) : m + j - 1 \in DOMAIN cs
    BY <2>1
  <2>3. DOMAIN SubSeq(cs, m, n) = 1 .. (n - m + 1)
    BY <2>1
  <2>4. SubSeq(cs, m, n) \in Seq(S)
    BY <1>1, <2>1
  <2> QED
    BY <2>1, <2>2, <2>3, <2>4
<1>3. \A j \in DOMAIN SubSeq(cs, m, n) : CallOk(SubSeq(cs, m, n)[j], w)
  BY <1>2, CallsElement
<1> QED
  BY <1>2, <1>3, CallsMade

LEMMA CallsDrop ==
  ASSUME NEW cs, NEW w, CallsOk(cs, w), NEW i \in DOMAIN cs
  PROVE  CallsOk(RemoveAt(cs, i), w)
<1>1. /\ Len(cs) \in Nat /\ i \in Nat \ {0} /\ i <= Len(cs)
      /\ 1 \in Nat \ {0} /\ i - 1 \in Nat /\ i - 1 <= Len(cs) /\ i + 1 \in Nat \ {0}
      /\ Len(cs) <= Len(cs)
  BY CallsElement
<1> DEFINE k == i + 1
           h == i - 1
           n == Len(cs)
<1>2. k \in Nat \ {0} /\ h \in Nat /\ h <= n /\ n \in Nat /\ n <= n
  BY <1>1
<1> HIDE DEF k, h
<1>3. CallsOk(SubSeq(cs, 1, h), w) /\ CallsOk(SubSeq(cs, k, n), w)
  BY <1>1, <1>2, CallsSlice
<1> QED
  BY <1>3, CallsConcat DEF RemoveAt, k, h

\* Calls that are all kept, some of them changed
LEMMA CallsMap ==
  ASSUME NEW cs, NEW w, CallsOk(cs, w), NEW ds, ds = [i \in DOMAIN cs |-> ds[i]],
         \A i \in DOMAIN cs : CallOk(ds[i], w)
  PROVE  CallsOk(ds, w)
<1> DEFINE S == {ds[i] : i \in DOMAIN cs}
<1>1. Len(cs) \in Nat /\ DOMAIN cs = 1 .. Len(cs)
  BY CallsElement
<1>2. ds \in [1 .. Len(cs) -> S]
  BY <1>1
<1>3. ds \in Seq(S)
  BY <1>1, <1>2, SeqDef
<1>4. \A i \in DOMAIN ds : CallOk(ds[i], w)
  BY <1>2, <1>1
<1> QED
  BY <1>3, <1>4, CallsMade
LEMMA CallsSet ==
  ASSUME NEW cs, NEW w, CallsOk(cs, w), NEW i \in DOMAIN cs, NEW c, CallOk(c, w)
  PROVE  CallsOk([cs EXCEPT ![i] = c], w)
<1> DEFINE ds == [cs EXCEPT ![i] = c]
<1>1. DOMAIN ds = DOMAIN cs /\ ds = [j \in DOMAIN cs |-> ds[j]]
  OBVIOUS
<1>2. \A j \in DOMAIN cs : CallOk(ds[j], w)
  BY CallsElement
<1> HIDE DEF ds
<1>3. CallsOk(ds, w)
  BY <1>1, <1>2, CallsMap
<1> QED
  BY <1>3 DEF ds

---------------------------------------------------------------------------
(* One call                                                                *)

LEMMA CallMade ==
  ASSUME NEW c, IsCall(c), NEW x, NEW y
  PROVE  /\ [c EXCEPT !.st = x] =
               [op |-> c.op, arg |-> c.arg, live |-> c.live, st |-> x, reply |-> c.reply]
         /\ [c EXCEPT !.st = x, !.reply = y] =
               [op |-> c.op, arg |-> c.arg, live |-> c.live, st |-> x, reply |-> y]
         /\ [c EXCEPT !.live = x] =
               [op |-> c.op, arg |-> c.arg, live |-> x, st |-> c.st, reply |-> c.reply]
         /\ [c EXCEPT !.arg = x] =
               [op |-> c.op, arg |-> x, live |-> c.live, st |-> c.st, reply |-> c.reply]
<1> DEFINE o == c.op
           a == c.arg
           l == c.live
           s == c.st
           r == c.reply
<1>0. c = [op |-> o, arg |-> a, live |-> l, st |-> s, reply |-> r]
  BY Zenon DEF IsCall
<1> HIDE DEF o, a, l, s, r
<1>1. \A d : d = [c EXCEPT !.st = x] =>
               d = [op |-> o, arg |-> a, live |-> l, st |-> x, reply |-> r]
  BY <1>0
<1>2. \A d, e : /\ e = [op |-> o, arg |-> a, live |-> l, st |-> x, reply |-> r]
                /\ d = [e EXCEPT !.reply = y]
                => d = [op |-> o, arg |-> a, live |-> l, st |-> x, reply |-> y]
  OBVIOUS
<1>3. \A d : d = [c EXCEPT !.live = x] =>
               d = [op |-> o, arg |-> a, live |-> x, st |-> s, reply |-> r]
  BY <1>0
<1>4. \A d : d = [c EXCEPT !.arg = x] =>
               d = [op |-> o, arg |-> x, live |-> l, st |-> s, reply |-> r]
  BY <1>0
<1> QED
  BY <1>1, <1>2, <1>3, <1>4, Zenon DEF o, a, l, s, r

LEMMA OtherCall ==
  ASSUME NEW c, IsCall(c), c.op \notin Watched, NEW w
  PROVE  CallOk(c, w)
BY DEF CallOk, Watched

LEMMA NewCall ==
  ASSUME NEW op, op \notin Watched, NEW arg, NEW live, NEW w
  PROVE  /\ CallOk(Call(op, arg), w)
         /\ CallOk([Call(op, arg) EXCEPT !.live = live], w)
<1>1. IsCall(Call(op, arg)) /\ Call(op, arg).op = op
  BY DEF IsCall, Call
<1>2. /\ IsCall([Call(op, arg) EXCEPT !.live = live])
      /\ [Call(op, arg) EXCEPT !.live = live].op = op
  BY DEF IsCall, Call
<1> QED
  BY <1>1, <1>2, OtherCall

\* A call that is answered no more than before
LEMMA CallKept ==
  ASSUME NEW c, NEW w, CallOk(c, w), NEW d, IsCall(d), d.op = c.op, d.arg = c.arg,
         d.st = "answered" => c.st = "answered" /\ d.reply = c.reply
  PROVE  CallOk(d, w)
<1>1. c.op = "upsert" => BatchOk(d, w)
  BY DEF CallOk, BatchOk
<1>2. c.op \in {"test", "setProvider"} => KeyOk(d)
  BY Zenon DEF CallOk, KeyOk
<1>3. c.op = "query" => AnswerOk(d)
  BY DEF CallOk, AnswerOk
<1> QED
  BY <1>1, <1>2, <1>3 DEF CallOk

---------------------------------------------------------------------------
(* What the handlers of Client do to all calls                             *)

LEMMA CallsSent ==
  ASSUME NEW cs, NEW w, CallsOk(cs, w), NEW op, op \notin Watched, NEW arg, NEW live
  PROVE  /\ CallsOk(Append(cs, Call(op, arg)), w)
         /\ CallsOk(Append(cs, [Call(op, arg) EXCEPT !.live = live]), w)
BY NewCall, CallsAppend

\* An answer to a call that no property is about
LEMMA CallsAnswered ==
  ASSUME NEW cs, NEW w, CallsOk(cs, w), NEW i \in DOMAIN cs, cs[i].op \notin Watched,
         NEW reply, NEW st
  PROVE  CallsOk([cs EXCEPT ![i].st = st, ![i].reply = reply], w)
<1> DEFINE c == [cs[i] EXCEPT !.st = st, !.reply = reply]
<1>1. IsCall(cs[i])
  BY CallsElement DEF CallOk
<1>2. IsCall(c) /\ c.op = cs[i].op
  <2>1. c = [op |-> cs[i].op, arg |-> cs[i].arg, live |-> cs[i].live, st |-> st,
             reply |-> reply]
    BY <1>1, CallMade
  <2> QED
    BY <2>1 DEF IsCall
<1>3. CallOk(c, w)
  BY <1>2, OtherCall
<1>4. CallsOk([cs EXCEPT ![i] = c], w)
  <2> HIDE DEF c
  <2> QED
    BY <1>3, CallsSet
<1>5. [cs EXCEPT ![i].st = st, ![i].reply = reply] = [cs EXCEPT ![i] = c]
  OBVIOUS
<1> QED
  BY <1>4, <1>5

LEMMA CallsFailed ==
  ASSUME NEW cs, NEW w, CallsOk(cs, w), NEW i \in DOMAIN cs, NEW st, st # "answered", NEW reply
  PROVE  /\ CallsOk([cs EXCEPT ![i].st = st], w)
         /\ CallsOk([cs EXCEPT ![i].st = st, ![i].reply = reply], w)
<1> DEFINE c == [cs[i] EXCEPT !.st = st]
           d == [cs[i] EXCEPT !.st = st, !.reply = reply]
<1>1. CallOk(cs[i], w) /\ IsCall(cs[i])
  BY CallsElement DEF CallOk
<1>2. /\ IsCall(c) /\ c.op = cs[i].op /\ c.arg = cs[i].arg /\ c.st = st
      /\ IsCall(d) /\ d.op = cs[i].op /\ d.arg = cs[i].arg /\ d.st = st
  <2>1. /\ c = [op |-> cs[i].op, arg |-> cs[i].arg, live |-> cs[i].live, st |-> st,
                reply |-> cs[i].reply]
        /\ d = [op |-> cs[i].op, arg |-> cs[i].arg, live |-> cs[i].live, st |-> st,
                reply |-> reply]
    BY <1>1, CallMade
  <2> HIDE DEF c, d
  <2> QED
    BY <2>1 DEF IsCall
<1>3. CallOk(c, w) /\ CallOk(d, w)
  <2> HIDE DEF c, d
  <2> QED
    BY <1>1, <1>2, CallKept
<1>4. CallsOk([cs EXCEPT ![i] = c], w) /\ CallsOk([cs EXCEPT ![i] = d], w)
  <2> HIDE DEF c, d
  <2> QED
    BY <1>3, CallsSet
<1>5. /\ [cs EXCEPT ![i].st = st] = [cs EXCEPT ![i] = c]
      /\ [cs EXCEPT ![i].st = st, ![i].reply = reply] = [cs EXCEPT ![i] = d]
  OBVIOUS
<1> QED
  BY <1>4, <1>5

\* A component that unmounts, however it is said which calls it awaits
LEMMA CallsUnheard ==
  ASSUME NEW cs, NEW w, CallsOk(cs, w), NEW ds, ds = [i \in DOMAIN cs |-> ds[i]],
         \A i \in DOMAIN cs : ds[i] = [cs[i] EXCEPT !.live = ds[i].live]
  PROVE  CallsOk(ds, w)
<1>1. ASSUME NEW i \in DOMAIN cs
      PROVE  CallOk(ds[i], w)
  <2>1. CallOk(cs[i], w) /\ IsCall(cs[i])
    BY CallsElement DEF CallOk
  <2>2. \A e : e = [cs[i] EXCEPT !.live = e.live] =>
           /\ IsCall(e) /\ e.op = cs[i].op /\ e.arg = cs[i].arg
           /\ e.st = cs[i].st /\ e.reply = cs[i].reply
    BY <2>1 DEF IsCall
  <2>3. ds[i] = [cs[i] EXCEPT !.live = ds[i].live]
    OBVIOUS
  <2> QED
    BY <2>1, <2>2, <2>3, CallKept
<1> QED
  BY <1>1, CallsMap

LEMMA CallsOrphan ==
  ASSUME CallsOk(calls, server.written)
  PROVE  /\ CallsOk(Orphaned, server.written)
         /\ \A from : CallsOk(Orphan(from), server.written)
<1>1. ASSUME NEW from
      PROVE  CallsOk(Orphan(from), server.written)
  <2> DEFINE ds == Orphan(from)
  <2>1. DOMAIN ds = DOMAIN calls /\ ds = [i \in DOMAIN calls |-> ds[i]]
    BY DEF Orphan
  <2>2. ASSUME NEW i \in DOMAIN calls
        PROVE  ds[i] = [calls[i] EXCEPT !.live = ds[i].live]
    <3>1. ds[i] = [calls[i] EXCEPT !.live = @ /\ ~from[i]]
      BY DEF Orphan
    <3>2. IsCall(calls[i])
      BY CallsElement DEF CallOk
    <3> QED
      BY <3>1, <3>2 DEF IsCall
  <2> HIDE DEF ds
  <2>3. CallsOk(ds, server.written)
    BY <2>1, <2>2, CallsUnheard
  <2> QED
    BY <2>3 DEF ds
<1>2. CallsOk(Orphaned, server.written)
  <2> DEFINE ds == Orphaned
  <2>1. DOMAIN ds = DOMAIN calls /\ ds = [i \in DOMAIN calls |-> ds[i]]
    BY DEF Orphaned
  <2>2. ASSUME NEW i \in DOMAIN calls
        PROVE  ds[i] = [calls[i] EXCEPT !.live = ds[i].live]
    <3>1. ds[i] = [calls[i] EXCEPT !.live = FALSE]
      BY DEF Orphaned
    <3>2. IsCall(calls[i])
      BY CallsElement DEF CallOk
    <3> QED
      BY <3>1, <3>2 DEF IsCall
  <2> HIDE DEF ds
  <2>3. CallsOk(ds, server.written)
    BY <2>1, <2>2, CallsUnheard
  <2> QED
    BY <2>3 DEF ds
<1> QED
  BY <1>1, <1>2
---------------------------------------------------------------------------
(* Pages. A step leads from a view to one that follows it: the invariant   *)
(* holds again, and on a page of an index that stays loaded no draft is    *)
(* lost.                                                                   *)

Loaded(v) == v.page = "index" /\ v.info.data # None
KeepsDrafts(v, w) ==
    w.route.tab # v.route.tab
    => w.upsert = v.upsert /\ (w.route.like = None => w.query = v.query)
Follows(v, w) == /\ ViewOk(w)
                 /\ Loaded(v) /\ Loaded(w) => KeepsDrafts(v, w)

\* A step that changes nothing of what the invariant speaks of
Mentioned == {"page", "route", "info", "browse", "query", "upsert", "sheet", "editing"}
Keeps(v, w) == DOMAIN w = DOMAIN v /\ \A f \in Mentioned \cap DOMAIN v : w[f] = v[f]

LEMMA KeptFollows ==
  ASSUME NEW v, ViewOk(v), NEW w, Keeps(v, w)
  PROVE  Follows(v, w)
<1>1. DOMAIN w = DOMAIN v /\ w.page = v.page /\ w.route = v.route
  BY DEF Keeps, Mentioned, ViewOk
<1>2. CASE v.page = "providers"
  <2>1. w.sheet = v.sheet /\ w.editing = v.editing
    BY <1>2 DEF Keeps, Mentioned, ViewOk, SheetOk
  <2> QED
    BY <1>1, <1>2, <2>1 DEF ViewOk, SheetOk, Follows, Loaded
<1>3. CASE v.page = "index"
  <2>1. w.info = v.info /\ w.browse = v.browse /\ w.query = v.query /\ w.upsert = v.upsert
    BY <1>3 DEF Keeps, Mentioned, ViewOk
  <2>2. ViewOk(w)
    BY <1>1, <1>3, <2>1 DEF ViewOk, PanelsOk
  <2> QED
    BY <1>1, <2>1, <2>2 DEF Follows, KeepsDrafts
<1>4. CASE v.page \notin {"index", "providers"}
  BY <1>1, <1>4 DEF ViewOk, Follows, Loaded
<1> QED
  BY <1>2, <1>3, <1>4

LEMMA SameFollows == ASSUME NEW v, ViewOk(v) PROVE Follows(v, v)
BY KeptFollows DEF Keeps

LEMMA FieldKept ==
  ASSUME NEW v, ViewOk(v), NEW f, f \notin Mentioned, NEW e
  PROVE  Keeps(v, [v EXCEPT ![f] = e])
BY DEF Keeps

LEMMA KeepsTwice == ASSUME NEW u, NEW v, NEW w, Keeps(u, v), Keeps(v, w) PROVE Keeps(u, w)
BY DEF Keeps

LEMMA NewFollows ==
  ASSUME NEW v, NEW w, {"page", "route"} \subseteq DOMAIN w, w.page \notin {"index", "providers"}
  PROVE  Follows(v, w)
BY DEF Follows, ViewOk, Loaded
---------------------------------------------------------------------------
(* A step is a good one if the invariant holds after it and its view       *)
(* follows the one before.                                                 *)

GoodStep == CallsInv' /\ Follows(view, view')

LEMMA ServedStep ==
  ASSUME CallsInv, CallsOk(calls', server.written), Follows(view, view'),
         server' = server \/ \E f, e : f # "written" /\ server' = [server EXCEPT ![f] = e]
  PROVE  GoodStep
<1>1. "written" \in DOMAIN server' /\ server'.written = server.written
  BY DEF CallsInv
<1> QED
  BY <1>1 DEF GoodStep, CallsInv, Follows

LEMMA PendingCall ==
  ASSUME NEW op, NEW i \in Pending(op)
  PROVE  i \in DOMAIN calls /\ calls[i].op = op /\ calls[i].st = "sent"
BY DEF Pending

LEMMA ArrivedCall ==
  ASSUME NEW op, NEW i \in Arrived(op)
  PROVE  i \in DOMAIN calls /\ calls[i].op = op
BY DEF Arrived

LEMMA KeptCalls == CallsInv => CallsOk(calls, server.written)
BY DEF CallsInv

LEMMA SentCalls ==
  ASSUME CallsInv, NEW op, op \notin Watched, NEW arg, Sent(op, arg)
  PROVE  CallsOk(calls', server.written)
BY CallsSent DEF Sent, CallsInv

LEMMA WithoutCalls ==
  ASSUME CallsInv, NEW i \in DOMAIN calls
  PROVE  CallsOk(Without(i), server.written)
BY CallsDrop DEF Without, CallsInv

LEMMA AnsweredCalls ==
  ASSUME CallsInv, NEW i \in DOMAIN calls, calls[i].op \notin Watched, NEW reply, Answer(i, reply)
  PROVE  CallsOk(calls', server.written)
BY CallsAnswered DEF Answer, CallsInv

LEMMA FailedCalls ==
  ASSUME CallsInv, NEW i \in DOMAIN calls, NEW reply
  PROVE  /\ CallsOk([calls EXCEPT ![i].st = "failed"], server.written)
         /\ CallsOk([calls EXCEPT ![i].st = "failed", ![i].reply = reply], server.written)
         /\ CallsOk([calls EXCEPT ![i].st = "gone"], server.written)
BY CallsFailed DEF CallsInv

---------------------------------------------------------------------------
(* Sign-in, and what the network may do                                    *)

LEMMA NetworkStep ==
  ASSUME CallsInv, Refused \/ Failed
  PROVE  GoodStep
<1>1. PICK i \in DOMAIN calls : Refuse(i) \/ Fail(i)
  BY DEF Refused, Failed
<1>2. CallsOk(calls', server.written)
  <2>1. CASE Refuse(i)
    BY <2>1, FailedCalls DEF Refuse
  <2>2. CASE Fail(i)
    BY <2>2, FailedCalls DEF Fail
  <2> QED
    BY <1>1, <2>1, <2>2
<1>3. UNCHANGED <<view, server>>
  BY DEF Refused, Failed
<1> QED
  BY <1>2, <1>3, SameFollows, ServedStep DEF CallsInv

LEMMA SignInStep ==
  ASSUME CallsInv, SignInNext \/ SessionEnds \/ SignOut
  PROVE  GoodStep
<1>0. /\ ViewOk(view) /\ Follows(view, view) /\ CallsOk(calls, server.written)
      /\ \A e : /\ Follows(view, [view EXCEPT !.key = e])
                /\ Follows(view, [view EXCEPT !.busy = e])
                /\ Follows(view, [view EXCEPT !.wait = e])
  BY SameFollows, FieldKept, KeptFollows DEF CallsInv, Mentioned
<1>1. CASE TypeKey
  BY <1>0, <1>1, ServedStep DEF TypeKey
<1>2. CASE SubmitSignIn
  BY <1>0, <1>2, SentCalls, ServedStep DEF SubmitSignIn, Watched
<1>3. CASE WaitTick
  BY <1>0, <1>3, ServedStep DEF WaitTick
<1>4. CASE ServeLogin
  <2>1. PICK i \in Pending("login") :
         \/ /\ \E r \in KeyRoles : server' = [server EXCEPT !.session = r] /\ Answer(i, r)
            /\ UNCHANGED <<app, view>>
         \/ \E error : /\ calls' = [calls EXCEPT ![i].st = "failed", ![i].reply = error]
                       /\ UNCHANGED <<app, view, server>>
    BY <1>4 DEF ServeLogin
  <2>2. i \in DOMAIN calls /\ calls[i].op \notin Watched
    BY PendingCall DEF Watched
  <2>3. CASE /\ \E r \in KeyRoles : server' = [server EXCEPT !.session = r] /\ Answer(i, r)
             /\ UNCHANGED <<app, view>>
    <3>1. CallsOk(calls', server.written)
      BY <2>2, <2>3, AnsweredCalls
    <3> QED
      BY <1>0, <2>3, <3>1, ServedStep
  <2>4. CASE \E error : /\ calls' = [calls EXCEPT ![i].st = "failed", ![i].reply = error]
                        /\ UNCHANGED <<app, view, server>>
    <3>1. CallsOk(calls', server.written)
      <4>1. PICK error : calls' = [calls EXCEPT ![i].st = "failed", ![i].reply = error]
        BY <2>4
      <4> QED
        BY <2>2, <4>1, FailedCalls
    <3> QED
      BY <1>0, <2>4, <3>1, ServedStep
  <2> QED
    BY <2>1, <2>3, <2>4
<1>5. CASE ServeMe
  BY <1>0, <1>5, PendingCall, AnsweredCalls, ServedStep DEF ServeMe, Watched
<1>6. CASE ServeLogout
  BY <1>0, <1>6, PendingCall, AnsweredCalls, ServedStep DEF ServeLogout, Watched
<1>7. CASE SignInRefused
  <2>1. PICK i \in Arrived("login") :
         /\ view' = IF ~calls[i].live THEN view
                    ELSE [view EXCEPT !.busy = FALSE,
                              !.wait = IF calls[i].reply = "locked" THEN MaxWait ELSE @]
         /\ calls' = Without(i) /\ UNCHANGED <<app, server>>
    BY <1>7 DEF SignInRefused
  <2>2. Keeps(view, view') \/ view' = view
    BY <2>1 DEF Keeps, Mentioned
  <2> QED
    BY <1>0, <2>1, <2>2, ArrivedCall, WithoutCalls, KeptFollows, ServedStep
<1>8. CASE SessionEnds
  BY <1>0, <1>8, ServedStep DEF SessionEnds
<1>9. CASE SignOut
  BY <1>0, <1>9, SentCalls, ServedStep DEF SignOut, Watched
<1> QED
  BY <1>1, <1>2, <1>3, <1>4, <1>5, <1>6, <1>7, <1>8, <1>9 DEF SignInNext
---------------------------------------------------------------------------
(* API keys                                                                *)

\* A step of a page that the invariant says nothing of
LEMMA ElsewhereFollows ==
  ASSUME NEW v, ViewOk(v), v.page \notin {"index", "providers"}, NEW w,
         DOMAIN w = DOMAIN v, w.page = v.page
  PROVE  Follows(v, w)
BY NewFollows DEF ViewOk

LEMMA WrittenStep ==
  ASSUME CallsInv, CallsOk(calls', server.written), Follows(view, view'),
         DOMAIN server' = DOMAIN server, server'.written = server.written
  PROVE  GoodStep
BY DEF GoodStep, CallsInv, Follows

LEMMA ReloadCalls ==
  ASSUME NEW cs, NEW w, CallsOk(cs, w), NEW op, op \notin Watched, NEW live
  PROVE  CallsOk(Append(cs, Reload(op, live)), w)
BY CallsSent DEF Reload

\* A sheet whose key stays, on whatever page
LEMMA SheetFollows ==
  ASSUME NEW v, ViewOk(v), NEW w, Keeps([v EXCEPT !.sheet = w.sheet], w),
         v.page = "providers" => DOMAIN w.sheet = DOMAIN v.sheet /\ w.sheet.key = v.sheet.key
  PROVE  Follows(v, w)
<1>1. /\ DOMAIN w = DOMAIN v
      /\ \A f \in (Mentioned \ {"sheet"}) \cap DOMAIN v : w[f] = v[f]
  BY DEF Keeps
<1>2. w.page = v.page /\ w.route = v.route
  BY <1>1 DEF ViewOk, Mentioned
<1>3. CASE v.page = "providers"
  <2>1. w.editing = v.editing
    BY <1>1, <1>3 DEF ViewOk, SheetOk, Mentioned
  <2> QED
    BY <1>1, <1>2, <1>3, <2>1 DEF ViewOk, SheetOk, Follows, Loaded
<1>4. CASE v.page # "providers"
  <2>1. Keeps([v EXCEPT !.sheet = w.sheet], w) /\ ViewOk([v EXCEPT !.sheet = w.sheet])
    BY <1>4 DEF ViewOk, PanelsOk
  <2>2. ViewOk(w)
    BY <2>1, KeptFollows DEF Follows
  <2>3. Loaded(v) => w.browse = v.browse /\ w.query = v.query /\ w.upsert = v.upsert
    BY <1>1 DEF ViewOk, Loaded, Mentioned
  <2> QED
    BY <1>2, <2>2, <2>3 DEF Follows, KeepsDrafts
<1> QED
  BY <1>3, <1>4

LEMMA KeysPageStep ==
  ASSUME CallsInv, OnKeys,
         AskRevoke \/ ViewActivity \/ CancelRevoke \/ ConfirmRevoke \/ PollKeys \/ CreateKey
         \/ KeySheetEffect \/ EditKey \/ SubmitKey \/ CloseKeySheet
  PROVE  GoodStep
<1>0. /\ ViewOk(view) /\ Follows(view, view) /\ CallsOk(calls, server.written)
      /\ view.page \notin {"index", "providers"} /\ {"page", "route"} \subseteq DOMAIN view
  BY SameFollows DEF CallsInv, OnKeys, ViewOk
<1>1. CASE AskRevoke
  BY <1>0, <1>1, ElsewhereFollows, ServedStep DEF AskRevoke
<1>2. CASE ViewActivity
  BY <1>0, <1>2, ServedStep DEF ViewActivity
<1>3. CASE CancelRevoke
  BY <1>0, <1>3, ElsewhereFollows, ServedStep DEF CancelRevoke
<1>4. CASE ConfirmRevoke
  BY <1>0, <1>4, SentCalls, ServedStep DEF ConfirmRevoke, Watched
<1>5. CASE PollKeys
  BY <1>0, <1>5, SentCalls, ServedStep DEF PollKeys, Polls, Ticks, Watched
<1>6. CASE CreateKey
  BY <1>0, <1>6, ElsewhereFollows, ServedStep DEF CreateKey, OpenKeySheet, Opened
<1>7. CASE EditKey
  <2>1. DOMAIN view' = DOMAIN view /\ view'.page = view.page
    BY <1>0, <1>7 DEF EditKey
  <2> QED
    BY <1>0, <1>7, <2>1, ElsewhereFollows, ServedStep DEF EditKey
<1>8. CASE SubmitKey
  BY <1>0, <1>8, ElsewhereFollows, SentCalls, ServedStep DEF SubmitKey, Watched
<1>9. CASE CloseKeySheet
  BY <1>0, <1>9, ElsewhereFollows, ServedStep DEF CloseKeySheet
<1>10. CASE KeySheetEffect
  BY <1>0, <1>10, ElsewhereFollows, ServedStep DEF KeySheetEffect
<1> QED
  BY <1>1, <1>2, <1>3, <1>4, <1>5, <1>6, <1>7, <1>8, <1>9, <1>10

LEMMA KeysStep ==
  ASSUME CallsInv, KeysNext
  PROVE  GoodStep
<1>0. /\ ViewOk(view) /\ Follows(view, view) /\ CallsOk(calls, server.written)
      /\ \A e : /\ Follows(view, [view EXCEPT !.confirming = e])
                /\ Follows(view, [view EXCEPT !.list = e])
  BY SameFollows, FieldKept, KeptFollows DEF CallsInv, Mentioned
<1>1. CASE AskRevoke \/ ViewActivity \/ CancelRevoke \/ ConfirmRevoke \/ PollKeys \/ CreateKey
           \/ KeySheetEffect \/ EditKey \/ SubmitKey \/ CloseKeySheet
  <2>1. OnKeys
    BY <1>1 DEF AskRevoke, ViewActivity, CancelRevoke, ConfirmRevoke, PollKeys, CreateKey,
                KeySheetEffect, EditKey, SubmitKey, CloseKeySheet
  <2> QED
    BY <1>1, <2>1, KeysPageStep
<1>2. CASE ServeRevokeKey
  <2>1. PICK i \in Pending("revokeKey") :
           /\ server' = [server EXCEPT !.keys = @ \ {calls[i].arg}]
           /\ Answer(i, None) \/ calls' = [calls EXCEPT ![i].st = "failed"]
           /\ UNCHANGED <<app, view>>
    BY <1>2 DEF ServeRevokeKey
  <2>2. CallsOk(calls', server.written)
    BY <2>1, PendingCall, AnsweredCalls, FailedCalls DEF Watched
  <2> QED
    BY <1>0, <2>1, <2>2, ServedStep
<1>3. CASE Revoked
  <2>1. PICK i \in Arrived("revokeKey") :
           /\ view' = IF calls[i].live /\ Ok(i)
                      THEN [view EXCEPT !.confirming = None] ELSE view
           /\ \/ calls' = Append(Without(i), Reload("keys", calls[i].live))
              \/ calls' = Without(i)
           /\ UNCHANGED <<app, server>>
    BY <1>3 DEF Revoked
  <2>2. CallsOk(calls', server.written)
    <3>1. CallsOk(Without(i), server.written)
      BY ArrivedCall, WithoutCalls
    <3>2. CallsOk(Append(Without(i), Reload("keys", calls[i].live)), server.written)
      BY <3>1, ReloadCalls DEF Watched
    <3> QED
      BY <2>1, <3>1, <3>2
  <2> QED
    BY <1>0, <2>1, <2>2, ServedStep
<1>4. CASE ServeKeys
  BY <1>0, <1>4, PendingCall, AnsweredCalls, ServedStep DEF ServeKeys, Watched
<1>5. CASE KeysLoaded
  <2>1. PICK i \in Arrived("keys") :
           /\ view' = IF calls[i].live THEN [view EXCEPT !.list = Polled(@, i)] ELSE view
           /\ calls' = Without(i) /\ UNCHANGED <<app, server>>
    BY <1>5 DEF KeysLoaded
  <2> QED
    BY <1>0, <2>1, ArrivedCall, WithoutCalls, ServedStep
<1>6. CASE ServeCreateKey
  <2>1. PICK i, k :
           /\ i \in Pending("createKey")
           /\ server' = [server EXCEPT !.keys = @ \cup {k}, !.issued = @ \cup {k}]
           /\ Answer(i, k) /\ UNCHANGED <<app, view>>
    BY <1>6 DEF ServeCreateKey
  <2>2. CallsOk(calls', server.written)
    BY <2>1, PendingCall, AnsweredCalls DEF Watched
  <2>3. DOMAIN server' = DOMAIN server /\ server'.written = server.written
    BY <2>1 DEF CallsInv
  <2> QED
    BY <1>0, <2>1, <2>2, <2>3, WrittenStep
<1>7. CASE KeyCreated
  <2>1. PICK i \in Arrived("createKey") :
           /\ view' = IF ~calls[i].live THEN view
                      ELSE [view EXCEPT !.sheet.busy = FALSE,
                              !.sheet.created = IF Ok(i) THEN calls[i].reply ELSE @]
           /\ \/ calls' = Append(Without(i), Reload("keys", calls[i].live))
              \/ calls' = Without(i)
           /\ UNCHANGED <<app, server>>
    BY <1>7 DEF KeyCreated
  <2>2. CallsOk(calls', server.written)
    <3>1. CallsOk(Without(i), server.written)
      BY ArrivedCall, WithoutCalls
    <3>2. CallsOk(Append(Without(i), Reload("keys", calls[i].live)), server.written)
      BY <3>1, ReloadCalls DEF Watched
    <3> QED
      BY <2>1, <3>1, <3>2
  <2>3. CASE ~calls[i].live
    BY <1>0, <2>1, <2>2, <2>3, ServedStep
  <2>4. CASE calls[i].live
    <3>1. PICK e : view' = [view EXCEPT !.sheet.busy = FALSE, !.sheet.created = e]
      BY <2>1, <2>4
    <3>2. /\ Keeps([view EXCEPT !.sheet = view'.sheet], view')
          /\ "sheet" \in DOMAIN view =>
                DOMAIN view'.sheet = DOMAIN view.sheet
                /\ ("key" \in DOMAIN view.sheet => view'.sheet.key = view.sheet.key)
      BY <3>1 DEF Keeps, Mentioned
    <3>3. Follows(view, view')
      BY <1>0, <3>2, SheetFollows DEF ViewOk, SheetOk
    <3> QED
      BY <2>1, <2>2, <3>3, ServedStep
  <2> QED
    BY <2>3, <2>4
<1> QED
  BY <1>1, <1>2, <1>3, <1>4, <1>5, <1>6, <1>7 DEF KeysNext
---------------------------------------------------------------------------
(* Security, the documentation, the overview and the shell                 *)

LEMMA DeliveredStep ==
  ASSUME CallsInv, NEW op, NEW i \in Arrived(op), calls' = Without(i), server' = server,
         Follows(view, view')
  PROVE  GoodStep
BY ArrivedCall, WithoutCalls, ServedStep

LEMMA AnsweredStep ==
  ASSUME CallsInv, NEW op, op \notin Watched, NEW i \in Pending(op), NEW reply, Answer(i, reply),
         view' = view, server' = server
  PROVE  GoodStep
BY PendingCall, AnsweredCalls, SameFollows, ServedStep DEF CallsInv

LEMMA SentStep ==
  ASSUME CallsInv, NEW op, op \notin Watched, NEW arg, Sent(op, arg), server' = server,
         Follows(view, view')
  PROVE  GoodStep
BY SentCalls, ServedStep

LEMMA StillStep ==
  ASSUME CallsInv, calls' = calls, server' = server, Follows(view, view')
  PROVE  GoodStep
BY ServedStep DEF CallsInv

LEMMA PollStep ==
  ASSUME CallsInv, NEW op, op \notin Watched, Ticks(op), view' = view, server' = server
  PROVE  GoodStep
BY SameFollows, SentStep DEF Ticks, CallsInv

LEMMA SecurityStep ==
  ASSUME CallsInv, SecurityNext
  PROVE  GoodStep
<1>0. /\ ViewOk(view) /\ Follows(view, view)
      /\ \A e : /\ Follows(view, [view EXCEPT !.filter = e])
                /\ Follows(view, [view EXCEPT !.search = e])
                /\ Follows(view, [view EXCEPT !.open = e])
                /\ Follows(view, [view EXCEPT !.confirming = e])
  BY SameFollows, FieldKept, KeptFollows DEF CallsInv, Mentioned
<1>1. CASE PollEvents
  BY <1>1, PollStep DEF PollEvents, Polls, Watched
<1>2. CASE FilterEvents
  BY <1>0, <1>2, StillStep DEF FilterEvents
<1>3. CASE OpenEvent
  BY <1>0, <1>3, StillStep DEF OpenEvent
<1>4. CASE EndSessions
  BY <1>0, <1>4, SentStep, StillStep DEF EndSessions, Watched
<1>5. CASE LeaveButton
  BY <1>0, <1>5, StillStep DEF LeaveButton
<1>6. CASE ServeRevokeAll
  <2>1. PICK i \in Pending("revokeAll") :
           /\ \/ calls' = [calls EXCEPT ![i].st = "failed"] /\ UNCHANGED server
              \/ Answer(i, None) /\ server' = [server EXCEPT !.session = "none"]
           /\ UNCHANGED <<app, view>>
    BY <1>6 DEF ServeRevokeAll
  <2>2. CallsOk(calls', server.written)
    BY <2>1, PendingCall, AnsweredCalls, FailedCalls DEF Watched
  <2> QED
    BY <1>0, <2>1, <2>2, ServedStep
<1>7. CASE SessionsEnded
  <2>1. PICK i \in Arrived("revokeAll") :
           /\ calls' = IF Ok(i) THEN Append(Without(i), Call("logout", None)) ELSE Without(i)
           /\ UNCHANGED <<app, view, server>>
    BY <1>7 DEF SessionsEnded
  <2>2. CallsOk(Without(i), server.written)
    BY ArrivedCall, WithoutCalls
  <2>3. CallsOk(Append(Without(i), Call("logout", None)), server.written)
    BY <2>2, CallsSent DEF Watched
  <2> QED
    BY <1>0, <2>1, <2>2, <2>3, ServedStep
<1> QED
  BY <1>1, <1>2, <1>3, <1>4, <1>5, <1>6, <1>7 DEF SecurityNext

LEMMA DocsStep ==
  ASSUME CallsInv, DocsNext
  PROVE  GoodStep
<1>0. /\ Follows(view, view)
      /\ \A e : /\ Follows(view, [view EXCEPT !.nav = e])
                /\ Follows(view, [view EXCEPT !.search = e])
  BY SameFollows, FieldKept, KeptFollows DEF CallsInv, Mentioned
<1>1. CASE FollowDocLink
  BY <1>0, <1>1, StillStep DEF FollowDocLink
<1>2. CASE ToggleMenu
  BY <1>0, <1>2, StillStep DEF ToggleMenu
<1>3. CASE ToggleDocSearch
  BY <1>0, <1>3, StillStep DEF ToggleDocSearch
<1>4. CASE TypeInDocSearch
  <2>1. UNCHANGED <<calls, server>> /\ \E e : view' = [view EXCEPT !.search = e]
    BY <1>4 DEF TypeInDocSearch
  <2> QED
    BY <1>0, <2>1, StillStep
<1>5. CASE OpenResult
  BY <1>0, <1>5, StillStep DEF OpenResult
<1> QED
  BY <1>1, <1>2, <1>3, <1>4, <1>5 DEF DocsNext

LEMMA OverviewStep ==
  ASSUME CallsInv, OverviewNext
  PROVE  GoodStep
<1>0. /\ ViewOk(view) /\ Follows(view, view)
      /\ \A e : /\ Follows(view, [view EXCEPT !.range = e])
                /\ Follows(view, [view EXCEPT !.feed = e])
                /\ Follows(view, [view EXCEPT !.events = e])
                /\ Follows(view, [view EXCEPT !.stats = e])
  BY SameFollows, FieldKept, KeptFollows DEF CallsInv, Mentioned
<1>1. CASE PollOverview
  BY <1>1, PollStep DEF PollOverview, Polls, Watched
<1>2. CASE ServeLive
  BY <1>2, AnsweredStep DEF ServeLive, Watched
<1>3. CASE ServeEvents
  BY <1>3, AnsweredStep DEF ServeEvents, Watched
<1>4. CASE LiveLoaded
  <2>1. PICK i \in Arrived("live") :
           /\ \/ \E e, h : view' = [view EXCEPT !.stats = e, !.history = h]
              \/ \E e : view' = [view EXCEPT !.stats = e]
              \/ view' = view
           /\ calls' = Without(i) /\ UNCHANGED <<app, server>>
    BY <1>4 DEF LiveLoaded
  <2>2. Follows(view, view')
    <3>1. ASSUME NEW e, NEW h, view' = [view EXCEPT !.stats = e, !.history = h]
          PROVE  Keeps(view, view')
      BY <3>1 DEF Keeps, Mentioned
    <3> QED
      BY <1>0, <2>1, <3>1, KeptFollows
  <2> QED
    BY <2>1, <2>2, DeliveredStep
<1>5. CASE FeedLoaded
  <2>1. PICK i \in Arrived("events") :
           /\ view' = view \/ \E e : \/ view' = [view EXCEPT !.feed = e]
                                     \/ view' = [view EXCEPT !.events = e]
           /\ calls' = Without(i) /\ UNCHANGED <<app, server>>
    BY <1>5 DEF FeedLoaded
  <2> QED
    BY <1>0, <2>1, DeliveredStep
<1>6. CASE ChooseRange
  BY <1>0, <1>6, StillStep DEF ChooseRange
<1>7. CASE NewIndex
  BY <1>0, <1>7, StillStep DEF NewIndex
<1> QED
  BY <1>1, <1>2, <1>3, <1>4, <1>5, <1>6, <1>7 DEF OverviewNext

LEMMA ShellStep ==
  ASSUME CallsInv, ShellNext
  PROVE  GoodStep
<1>0. Follows(view, view)
  BY SameFollows DEF CallsInv
<1>1. CASE TogglePalette \/ TypeInPalette \/ MoveInPalette \/ RunCommand \/ FollowLink
  <2>1. UNCHANGED <<view, calls, server>>
    BY <1>1 DEF TogglePalette, TypeInPalette, MoveInPalette, RunCommand, FollowLink
  <2> QED
    BY <1>0, <2>1, StillStep
<1>2. CASE PollShell
  BY <1>2, PollStep DEF PollShell, Watched
<1>3. CASE ServeIndexes
  BY <1>3, AnsweredStep DEF ServeIndexes, Watched
<1>4. CASE ServeStats
  BY <1>4, AnsweredStep DEF ServeStats, Watched
<1>5. CASE StatsLoaded
  BY <1>0, <1>5, DeliveredStep DEF StatsLoaded
<1> QED
  BY <1>1, <1>2, <1>3, <1>4, <1>5 DEF ShellNext

LEMMA ServeModelsStep == ASSUME CallsInv, ServeModels PROVE GoodStep
BY AnsweredStep DEF ServeModels, Watched
---------------------------------------------------------------------------
(* Calls that are changed where they are, and pages that refresh           *)

LEMMA CallsChanged ==
  ASSUME NEW cs, NEW w, CallsOk(cs, w), NEW ds, ds = [i \in DOMAIN cs |-> ds[i]],
         \A i \in DOMAIN cs : \/ ds[i] = cs[i]
                              \/ \E x : ds[i] = [cs[i] EXCEPT !.live = x]
                              \/ cs[i].op \notin Watched /\ \E x : ds[i] = [cs[i] EXCEPT !.arg = x]
  PROVE  CallsOk(ds, w)
<1>1. ASSUME NEW i \in DOMAIN cs
      PROVE  CallOk(ds[i], w)
  <2>1. CallOk(cs[i], w) /\ IsCall(cs[i])
    BY CallsElement DEF CallOk
  <2>2. CASE ds[i] = cs[i]
    BY <2>1, <2>2
  <2>3. ASSUME NEW x, ds[i] = [cs[i] EXCEPT !.live = x]
        PROVE  CallOk(ds[i], w)
    <3>1. ds[i] = [op |-> cs[i].op, arg |-> cs[i].arg, live |-> x, st |-> cs[i].st,
                   reply |-> cs[i].reply]
      BY <2>1, <2>3, CallMade
    <3>2. IsCall(ds[i]) /\ ds[i].op = cs[i].op /\ ds[i].arg = cs[i].arg
          /\ ds[i].st = cs[i].st /\ ds[i].reply = cs[i].reply
      BY <3>1 DEF IsCall
    <3> QED
      BY <2>1, <3>2, CallKept
  <2>4. ASSUME cs[i].op \notin Watched, NEW x, ds[i] = [cs[i] EXCEPT !.arg = x]
        PROVE  CallOk(ds[i], w)
    <3>1. ds[i] = [op |-> cs[i].op, arg |-> x, live |-> cs[i].live, st |-> cs[i].st,
                   reply |-> cs[i].reply]
      BY <2>1, <2>4, CallMade
    <3>2. IsCall(ds[i]) /\ ds[i].op = cs[i].op
      BY <3>1 DEF IsCall
    <3> QED
      BY <2>4, <3>2, OtherCall
  <2> QED
    BY <2>2, <2>3, <2>4
<1> QED
  BY <1>1, CallsMap

LEMMA OutdatedCalls ==
  ASSUME CallsInv, NEW op, op \notin Watched
  PROVE  CallsOk(Outdated(op), server.written)
<1> DEFINE ds == Outdated(op)
<1>1. ds = [i \in DOMAIN calls |-> ds[i]]
  BY DEF Outdated
<1>2. \A i \in DOMAIN calls : ds[i] = calls[i] \/
         (calls[i].op \notin Watched /\ \E x : ds[i] = [calls[i] EXCEPT !.arg = x])
  BY DEF Outdated
<1> HIDE DEF ds
<1>3. CallsOk(ds, server.written)
  BY <1>1, <1>2, CallsChanged DEF CallsInv
<1> QED
  BY <1>3 DEF ds

LEMMA RefreshedCalls ==
  ASSUME NEW cs, NEW w, CallsOk(cs, w), NEW live
  PROVE  /\ CallsOk(cs \o OnChanged, w)
         /\ CallsOk(cs \o Refresh(live), w)
         /\ CallsOk(cs \o SubscribeCalls, w)
         /\ CallsOk(cs \o RefreshCalls, w)
         /\ CallsOk(SubscribeCalls, w)
<1>1. \A e : CallOk(Reload("indexes", e), w) /\ CallOk(Reload("index", e), w)
  BY NewCall DEF Reload, Watched
<1>2. CallsOk(OnChanged, w)
  BY <1>1, CallsOne, CallsEmpty DEF OnChanged
<1>3. CallsOk(Refresh(live), w)
  BY <1>1, <1>2, CallsOne, CallsConcat DEF Refresh
<1>4. \A n, e : CallOk(ModelsCall(n, e), w)
  BY NewCall DEF ModelsCall, Watched
<1>5. CallsOk(SubscribeCalls, w) /\ CallsOk(RefreshCalls, w)
  BY <1>4, CallsOne, CallsEmpty DEF SubscribeCalls, RefreshCalls
<1> QED
  BY <1>2, <1>3, <1>5, CallsConcat

---------------------------------------------------------------------------
(* The list of indexes                                                     *)

LEMMA BusyFollows ==
  ASSUME NEW v, ViewOk(v), NEW e
  PROVE  Follows(v, [v EXCEPT !.sheet.busy = e])
<1> DEFINE w == [v EXCEPT !.sheet.busy = e]
<1>1. /\ Keeps([v EXCEPT !.sheet = w.sheet], w)
      /\ "sheet" \in DOMAIN v =>
            DOMAIN w.sheet = DOMAIN v.sheet
            /\ ("key" \in DOMAIN v.sheet => w.sheet.key = v.sheet.key)
  BY DEF Keeps, Mentioned
<1> HIDE DEF w
<1>2. Follows(v, w)
  BY <1>1, SheetFollows DEF ViewOk, SheetOk
<1> QED
  BY <1>2 DEF w

LEMMA IndexesStep ==
  ASSUME CallsInv, IndexesNext
  PROVE  GoodStep
<1>0. /\ ViewOk(view) /\ Follows(view, view)
      /\ \A e : Follows(view, [view EXCEPT !.creating = e])
  BY SameFollows, FieldKept, KeptFollows DEF CallsInv, Mentioned
<1>1. OnIndexes => view.page \notin {"index", "providers"} /\ {"page", "route"} \subseteq DOMAIN view
  BY <1>0 DEF OnIndexes, ViewOk
<1>2. CASE OpenIndex
  BY <1>0, <1>2, StillStep DEF OpenIndex
<1>3. CASE CreateIndex
  <2>1. DOMAIN view' = DOMAIN view /\ view'.page = view.page
    BY <1>1, <1>3 DEF CreateIndex, IndexSheetOpened
  <2> QED
    BY <1>0, <1>1, <1>3, <2>1, ElsewhereFollows, StillStep DEF CreateIndex
<1>4. CASE EditIndex
  <2>1. DOMAIN view' = DOMAIN view /\ view'.page = view.page
    BY <1>1, <1>4 DEF EditIndex
  <2> QED
    BY <1>0, <1>1, <1>4, <2>1, ElsewhereFollows, StillStep DEF EditIndex
<1>5. CASE SubmitIndex
  BY <1>0, <1>1, <1>5, ElsewhereFollows, SentStep DEF SubmitIndex, Watched
<1>6. CASE CloseIndexSheet
  BY <1>0, <1>6, StillStep DEF CloseIndexSheet
<1>7. CASE ServeCreateIndex
  <2>1. PICK i \in Pending("createIndex") :
           /\ \/ \E r : Answer(i, r)
              \/ calls' = [calls EXCEPT ![i].st = "failed"]
           /\ server' = server \/ \E e : server' = [server EXCEPT !.indexes = e]
           /\ UNCHANGED <<app, view>>
    BY <1>7 DEF ServeCreateIndex
  <2>2. CallsOk(calls', server.written)
    BY <2>1, PendingCall, AnsweredCalls, FailedCalls DEF Watched
  <2> QED
    BY <1>0, <2>1, <2>2, ServedStep
<1>8. CASE IndexCreated
  <2>1. PICK i \in Arrived("createIndex") :
           /\ \/ view' = view \/ view' = [view EXCEPT !.creating = FALSE]
              \/ view' = [view EXCEPT !.sheet.busy = FALSE]
           /\ calls' = Without(i) \o OnChanged \/ calls' = Without(i)
           /\ server' = server
    BY <1>8 DEF IndexCreated
  <2>2. CallsOk(calls', server.written)
    <3>1. CallsOk(Without(i), server.written)
      BY ArrivedCall, WithoutCalls
    <3>2. CallsOk(Without(i) \o OnChanged, server.written)
      BY <3>1, RefreshedCalls
    <3> QED
      BY <2>1, <3>1, <3>2
  <2>3. Follows(view, view')
    BY <1>0, <2>1, BusyFollows
  <2> QED
    BY <2>1, <2>2, <2>3, ServedStep
<1> QED
  BY <1>2, <1>3, <1>4, <1>5, <1>6, <1>7, <1>8 DEF IndexesNext

---------------------------------------------------------------------------
(* The playground                                                          *)

LEMMA PlaygroundStep ==
  ASSUME CallsInv, PlaygroundNext
  PROVE  GoodStep
<1>0. /\ ViewOk(view) /\ Follows(view, view) /\ CallsOk(calls, server.written)
      /\ \A e : /\ Follows(view, [view EXCEPT !.search = e])
                /\ Follows(view, [view EXCEPT !.compare = e])
  BY SameFollows, FieldKept, KeptFollows DEF CallsInv, Mentioned
<1>1. CallsOk(Outdated("search"), server.written) /\ CallsOk(Outdated("compare"), server.written)
  BY OutdatedCalls DEF Watched
<1>2. CASE EditSearch
  BY <1>0, <1>1, <1>2, ServedStep DEF EditSearch
<1>3. CASE ChooseIndex
  BY <1>0, <1>1, <1>3, ServedStep DEF ChooseIndex
<1>4. CASE RunSearch
  <2>1. /\ view' = [view EXCEPT !.search.wait = FALSE, !.search.busy = TRUE]
        /\ Sent("search", [asks |-> view.search.asks, newest |-> TRUE])
        /\ UNCHANGED <<app, server>>
    BY <1>4 DEF RunSearch
  <2>2. Keeps(view, view')
    BY <2>1 DEF Keeps, Mentioned
  <2> QED
    BY <1>0, <2>1, <2>2, KeptFollows, SentStep DEF Watched
<1>5. CASE ServeSearch
  BY <1>5, AnsweredStep DEF ServeSearch, Watched
<1>6. CASE Searched
  <2>1. PICK i \in Arrived("search") :
           /\ view' = IF ~calls[i].live \/ ~calls[i].arg.newest THEN view
                      ELSE IF ~Ok(i)
                      THEN [view EXCEPT !.search.busy = FALSE, !.search.error = TRUE]
                      ELSE [view EXCEPT !.search.busy = FALSE, !.search.error = FALSE,
                                        !.search.result = calls[i].arg.asks,
                                        !.search.facets = @ \/ ~calls[i].arg.asks.facet]
           /\ calls' = Without(i) /\ UNCHANGED <<app, server>>
    BY <1>6 DEF Searched
  <2>2. view' = view \/ Keeps(view, view')
    BY <2>1 DEF Keeps, Mentioned
  <2> QED
    BY <1>0, <2>1, <2>2, KeptFollows, DeliveredStep
<1>7. CASE EditCompare
  <2>1. /\ \E c : view' = [view EXCEPT !.compare = Compares(c)] /\ calls' = ComparesCalls(c)
        /\ UNCHANGED <<app, server>>
    BY <1>7 DEF EditCompare
  <2> QED
    BY <1>0, <1>1, <2>1, ServedStep DEF ComparesCalls
<1>8. CASE RunCompare
  <2>1. /\ view' = [view EXCEPT !.compare.wait = FALSE, !.compare.busy = TRUE]
        /\ Sent("compare", [asks |-> view.compare.asks, newest |-> TRUE])
        /\ UNCHANGED <<app, server>>
    BY <1>8 DEF RunCompare
  <2>2. Keeps(view, view')
    BY <2>1 DEF Keeps, Mentioned
  <2> QED
    BY <1>0, <2>1, <2>2, KeptFollows, SentStep DEF Watched
<1>9. CASE Compared
  <2>1. PICK i \in Arrived("compare") :
           /\ view' = IF ~calls[i].live \/ ~calls[i].arg.newest THEN view
                      ELSE IF ~Ok(i)
                      THEN [view EXCEPT !.compare.busy = FALSE, !.compare.error = TRUE]
                      ELSE [view EXCEPT !.compare.busy = FALSE, !.compare.error = FALSE,
                                        !.compare.result = calls[i].arg.asks,
                                        !.compare.ranked = calls[i].arg.asks.docs]
           /\ calls' = Without(i) /\ UNCHANGED <<app, server>>
    BY <1>9 DEF Compared
  <2>2. view' = view \/ Keeps(view, view')
    BY <2>1 DEF Keeps, Mentioned
  <2> QED
    BY <1>0, <2>1, <2>2, KeptFollows, DeliveredStep
<1> QED
  BY <1>2, <1>3, <1>4, <1>5, <1>6, <1>7, <1>8, <1>9 DEF PlaygroundNext
---------------------------------------------------------------------------
(* Connecting a model                                                      *)

LEMMA UnpickedCalls ==
  ASSUME NEW cs, NEW w, CallsOk(cs, w)
  PROVE  CallsOk(Unpicked(cs), w)
<1> DEFINE ds == Unpicked(cs)
<1>1. ds = [i \in DOMAIN cs |-> ds[i]]
  BY DEF Unpicked
<1>2. ASSUME NEW i \in DOMAIN cs
      PROVE  \/ cs[i].op \notin Watched /\ \E x : ds[i] = [cs[i] EXCEPT !.arg = x]
             \/ \E x : ds[i] = [cs[i] EXCEPT !.live = x]
  <2>1. CASE cs[i].op = "setEmbedding"
    <3>1. ds[i] = [cs[i] EXCEPT !.arg.picker = FALSE]
      BY <2>1 DEF Unpicked
    <3>2. ds[i] = [cs[i] EXCEPT !.arg = [cs[i].arg EXCEPT !.picker = FALSE]]
      BY <3>1
    <3> QED
      BY <2>1, <3>2 DEF Watched
  <2>2. CASE cs[i].op # "setEmbedding"
    <3>1. ds[i] = [cs[i] EXCEPT !.live = @ /\ cs[i].op # "fields"]
      BY <2>2 DEF Unpicked
    <3>2. ds[i] = [cs[i] EXCEPT !.live = cs[i].live /\ cs[i].op # "fields"]
      BY <3>1
    <3> QED
      BY <3>2
  <2> QED
    BY <2>1, <2>2
<1> HIDE DEF ds
<1>3. CallsOk(ds, w)
  BY <1>1, <1>2, CallsChanged
<1> QED
  BY <1>3 DEF ds

LEMMA PickerShown ==
  ASSUME NEW v, ViewOk(v), NEW cs, NEW w, CallsOk(cs, w)
  PROVE  Keeps(v, WithPicker(v, cs).view) /\ CallsOk(WithPicker(v, cs).calls, w)
<1>1. CASE ShowsPicker(v) /\ v.connect = None
  <2> DEFINE u == [v EXCEPT !.connect = ConnectMount(v.info.data.embed), !.models = NewModels]
             ds == cs \o SubscribeCalls \o <<Call("fields", None)>>
  <2>1. WithPicker(v, cs).view = u /\ WithPicker(v, cs).calls = ds
    BY <1>1 DEF WithPicker
  <2>2. Keeps(v, u)
    BY DEF Keeps, Mentioned
  <2>3. CallOk(Call("fields", None), w)
    BY NewCall DEF Watched
  <2>4. CallsOk(ds, w)
    BY <2>3, CallsOne, RefreshedCalls, CallsConcat
  <2> QED
    BY <2>1, <2>2, <2>4
<1>2. CASE ~ShowsPicker(v) /\ v.connect # None
  <2> DEFINE u == [v EXCEPT !.connect = None, !.models = NoModels]
  <2>1. WithPicker(v, cs).view = u /\ WithPicker(v, cs).calls = Unpicked(cs)
    BY <1>2 DEF WithPicker
  <2>2. Keeps(v, u)
    BY DEF Keeps, Mentioned
  <2> QED
    BY <2>1, <2>2, UnpickedCalls
<1>3. CASE ~(ShowsPicker(v) /\ v.connect = None) /\ ~(~ShowsPicker(v) /\ v.connect # None)
  <2>1. WithPicker(v, cs).view = v /\ WithPicker(v, cs).calls = cs
    BY <1>3 DEF WithPicker
  <2> QED
    BY <2>1 DEF Keeps
<1> QED
  BY <1>1, <1>2, <1>3

LEMMA ConnectStep ==
  ASSUME CallsInv, ConnectNext
  PROVE  GoodStep
<1>0. ViewOk(view) /\ Follows(view, view) /\ CallsOk(calls, server.written)
  BY SameFollows DEF CallsInv
<1>1. CASE ChooseModel
  <2>1. /\ \E m : view' = [view EXCEPT !.connect.choice = m]
        /\ UNCHANGED <<app, calls, server>>
    BY <1>1 DEF ChooseModel
  <2>2. Keeps(view, view')
    BY <2>1 DEF Keeps, Mentioned
  <2> QED
    BY <1>0, <2>1, <2>2, KeptFollows, StillStep
<1>2. CASE Connect
  <2>1. /\ view' = [view EXCEPT !.connect.busy = TRUE]
        /\ \E a : Sent("setEmbedding", a)
        /\ UNCHANGED <<app, server>>
    BY <1>2 DEF Connect
  <2>2. Keeps(view, view')
    BY <2>1 DEF Keeps, Mentioned
  <2> QED
    BY <1>0, <2>1, <2>2, KeptFollows, SentStep DEF Watched
<1>3. CASE ChangeModel
  <2> DEFINE v == [view EXCEPT !.settings.editing = TRUE]
  <2>1. /\ view' = WithPicker(v, calls).view /\ calls' = WithPicker(v, calls).calls
        /\ server' = server
    BY <1>3 DEF ChangeModel
  <2>2. Keeps(view, v)
    BY DEF Keeps, Mentioned
  <2> HIDE DEF v
  <2>3. ViewOk(v)
    BY <1>0, <2>2, KeptFollows DEF Follows
  <2>4. Keeps(view, view') /\ CallsOk(calls', server.written)
    BY <1>0, <2>1, <2>2, <2>3, PickerShown, KeepsTwice
  <2> QED
    BY <1>0, <2>1, <2>4, KeptFollows, ServedStep
<1>4. CASE Disconnect
  BY <1>0, <1>4, SentStep DEF Disconnect, Watched
<1>5. CASE ServeFields
  BY <1>5, AnsweredStep DEF ServeFields, Watched
<1>6. CASE FieldsLoaded
  <2>1. PICK i \in Arrived("fields") :
           /\ view' = IF calls[i].live THEN [view EXCEPT !.connect.fields = TRUE] ELSE view
           /\ calls' = Without(i) /\ UNCHANGED <<app, server>>
    BY <1>6 DEF FieldsLoaded
  <2>2. view' = view \/ Keeps(view, view')
    BY <2>1 DEF Keeps, Mentioned
  <2> QED
    BY <1>0, <2>1, <2>2, KeptFollows, DeliveredStep
<1> QED
  BY <1>1, <1>2, <1>3, <1>4, <1>5, <1>6 DEF ConnectNext

---------------------------------------------------------------------------
(* The map                                                                 *)

LEMMA MapStep ==
  ASSUME CallsInv, MapNext
  PROVE  GoodStep
<1>0. ViewOk(view) /\ Follows(view, view) /\ CallsOk(calls, server.written)
  BY SameFollows DEF CallsInv
<1>1. CASE ChooseMap
  <2>1. PICK p : /\ \E m : view' = [view EXCEPT !.map = m]
                 /\ calls' = Append(Cancelled, MapCall(p))
                 /\ UNCHANGED <<app, server>>
    BY <1>1 DEF ChooseMap
  <2>2. Keeps(view, view')
    BY <2>1 DEF Keeps, Mentioned
  <2>3. CallsOk(Cancelled, server.written)
    BY <1>0, CallsOrphan DEF Cancelled
  <2>4. CallsOk(calls', server.written)
    BY <2>1, <2>3, CallsSent DEF MapCall, Watched
  <2> QED
    BY <1>0, <2>1, <2>2, <2>4, KeptFollows, ServedStep
<1>2. CASE SelectPoint
  <2>1. /\ \E n : view' = [view EXCEPT !.map.selected = n, !.map.neighbours = None]
        /\ \E a : Sent("neighbours", a)
        /\ UNCHANGED <<app, server>>
    BY <1>2 DEF SelectPoint
  <2>2. Keeps(view, view')
    BY <2>1 DEF Keeps, Mentioned
  <2> QED
    BY <1>0, <2>1, <2>2, KeptFollows, SentStep DEF Watched
<1>3. CASE ClearPoint
  <2>1. /\ view' = [view EXCEPT !.map.selected = None, !.map.neighbours = None]
        /\ UNCHANGED <<app, calls, server>>
    BY <1>3 DEF ClearPoint
  <2>2. Keeps(view, view')
    BY <2>1 DEF Keeps, Mentioned
  <2> QED
    BY <1>0, <2>1, <2>2, KeptFollows, StillStep
<1>4. CASE IsolateGroup
  <2>1. /\ view' = [view EXCEPT !.map.isolated = ~@]
        /\ UNCHANGED <<app, calls, server>>
    BY <1>4 DEF IsolateGroup
  <2>2. Keeps(view, view')
    BY <2>1 DEF Keeps, Mentioned
  <2> QED
    BY <1>0, <2>1, <2>2, KeptFollows, StillStep
<1>5. CASE OpenInQuery
  BY <1>0, <1>5, StillStep DEF OpenInQuery
<1>6. CASE ServeMap
  <2>1. \E i \in Pending("map") : (\E r : Answer(i, r)) /\ UNCHANGED <<app, view, server>>
    BY <1>6 DEF ServeMap
  <2> QED
    BY <2>1, AnsweredStep DEF Watched
<1>7. CASE ServeNeighbours
  <2>1. PICK i \in Pending("neighbours") :
           /\ \/ \E r : Answer(i, r)
              \/ calls' = [calls EXCEPT ![i].st = "failed"]
           /\ UNCHANGED <<app, view, server>>
    BY <1>7 DEF ServeNeighbours
  <2>2. CallsOk(calls', server.written)
    BY <2>1, PendingCall, AnsweredCalls, FailedCalls DEF Watched
  <2> QED
    BY <1>0, <2>1, <2>2, ServedStep
<1>8. CASE MapLoaded
  <2>1. PICK i \in Arrived("map") :
           /\ view' = IF ~calls[i].live THEN view
                      ELSE IF Ok(i) THEN [view EXCEPT !.map.data = calls[i].reply]
                      ELSE [view EXCEPT !.map.error = TRUE]
           /\ calls' = Without(i) /\ UNCHANGED <<app, server>>
    BY <1>8 DEF MapLoaded
  <2>2. view' = view \/ Keeps(view, view')
    BY <2>1 DEF Keeps, Mentioned
  <2> QED
    BY <1>0, <2>1, <2>2, KeptFollows, DeliveredStep
<1>9. CASE NeighboursLoaded
  <2>1. PICK i \in Arrived("neighbours") :
           /\ view' = IF ~calls[i].live THEN view
                      ELSE IF Ok(i) THEN [view EXCEPT !.map.neighbours = calls[i].reply]
                      ELSE [view EXCEPT !.map.error = TRUE]
           /\ calls' = Without(i) /\ UNCHANGED <<app, server>>
    BY <1>9 DEF NeighboursLoaded
  <2>2. view' = view \/ Keeps(view, view')
    BY <2>1 DEF Keeps, Mentioned
  <2> QED
    BY <1>0, <2>1, <2>2, KeptFollows, DeliveredStep
<1> QED
  BY <1>1, <1>2, <1>3, <1>4, <1>5, <1>6, <1>7, <1>8, <1>9 DEF MapNext, MapClicks
---------------------------------------------------------------------------
(* The panels of an index: a step that changes a panel and nothing else    *)

Besides(v, w, f) == /\ DOMAIN w = DOMAIN v
                    /\ \A g \in (Mentioned \ {f}) \cap DOMAIN v : w[g] = v[g]

LEMMA PanelFollows ==
  ASSUME NEW v, ViewOk(v), NEW w, NEW f \in {"browse", "query", "upsert"}, Besides(v, w, f),
         Loaded(v) => PanelsOk(w)
  PROVE  Follows(v, w)
<1>1. DOMAIN w = DOMAIN v /\ w.page = v.page /\ w.route = v.route
  BY DEF Besides, Mentioned, ViewOk
<1>2. CASE v.page = "providers"
  <2>1. w.sheet = v.sheet /\ w.editing = v.editing
    BY <1>2 DEF Besides, Mentioned, ViewOk, SheetOk
  <2> QED
    BY <1>1, <1>2, <2>1 DEF ViewOk, SheetOk, Follows, Loaded
<1>3. CASE v.page = "index"
  <2>1. w.info = v.info
    BY <1>3 DEF Besides, Mentioned, ViewOk
  <2>2. ViewOk(w)
    BY <1>1, <1>3, <2>1 DEF ViewOk, Loaded
  <2> QED
    BY <1>1, <2>1, <2>2 DEF Follows, KeepsDrafts
<1>4. CASE v.page \notin {"index", "providers"}
  BY <1>1, <1>4 DEF ViewOk, Follows, Loaded
<1> QED
  BY <1>2, <1>3, <1>4

LEMMA BrowseFollows ==
  ASSUME NEW v, ViewOk(v), NEW w, Besides(v, w, "browse")
  PROVE  Follows(v, w)
<1>1. Loaded(v) => w.query = v.query /\ w.upsert = v.upsert
  BY DEF Besides, Mentioned, ViewOk, Loaded
<1>2. Loaded(v) => PanelsOk(w)
  BY <1>1 DEF ViewOk, Loaded, PanelsOk
<1> QED
  BY <1>2, PanelFollows

LEMMA QueryFollows ==
  ASSUME NEW v, ViewOk(v), NEW w, Besides(v, w, "query"),
         Loaded(v) => /\ {"result", "last"} \subseteq DOMAIN w.query
                      /\ \/ w.query.result = None /\ w.query.last = None
                         \/ IsAnswer(w.query.result, w.query.last)
  PROVE  Follows(v, w)
<1>1. Loaded(v) => w.browse = v.browse /\ w.upsert = v.upsert
  BY DEF Besides, Mentioned, ViewOk, Loaded
<1>2. Loaded(v) => PanelsOk(w)
  BY <1>1 DEF ViewOk, Loaded, PanelsOk
<1> QED
  BY <1>2, PanelFollows

LEMMA UpsertFollows ==
  ASSUME NEW v, ViewOk(v), NEW w, Besides(v, w, "upsert"),
         Loaded(v) => /\ {"ns", "records"} \subseteq DOMAIN w.upsert
                      /\ w.upsert.ns \in Namespaces /\ w.upsert.records \in Nat
  PROVE  Follows(v, w)
<1>1. Loaded(v) => w.browse = v.browse /\ w.query = v.query
  BY DEF Besides, Mentioned, ViewOk, Loaded
<1>2. Loaded(v) => PanelsOk(w)
  BY <1>1 DEF ViewOk, Loaded, PanelsOk
<1> QED
  BY <1>2, PanelFollows

---------------------------------------------------------------------------
(* Browsing                                                                *)

LEMMA BrowseStep ==
  ASSUME CallsInv, BrowseNext
  PROVE  GoodStep
<1>0. ViewOk(view) /\ Follows(view, view) /\ CallsOk(calls, server.written)
  BY SameFollows DEF CallsInv
<1>1. CASE ChoosePlace
  <2>1. PICK p : /\ view' = [view EXCEPT !.browse = [BrowseEffect(@) EXCEPT !.at = p]]
                 /\ calls' = Append(calls, Load(p, None))
                 /\ UNCHANGED <<app, server>>
    BY <1>1 DEF ChoosePlace
  <2>2. Besides(view, view', "browse")
    BY <2>1 DEF Besides, Mentioned
  <2>3. CallsOk(calls', server.written)
    BY <1>0, <2>1, CallsSent DEF Load, Watched
  <2> QED
    BY <1>0, <2>1, <2>2, <2>3, BrowseFollows, ServedStep
<1>2. CASE LoadMore
  <2>1. /\ view' = [view EXCEPT !.browse.loading = TRUE]
        /\ calls' = Append(calls, Load(view.browse.at, view.browse.next))
        /\ UNCHANGED <<app, server>>
    BY <1>2 DEF LoadMore
  <2>2. Besides(view, view', "browse")
    BY <2>1 DEF Besides, Mentioned
  <2>3. CallsOk(calls', server.written)
    BY <1>0, <2>1, CallsSent DEF Load, Watched
  <2> QED
    BY <1>0, <2>1, <2>2, <2>3, BrowseFollows, ServedStep
<1>3. CASE OpenRecord
  <2>1. /\ \E r : view' = [view EXCEPT !.browse.selected = r, !.browse.armed = FALSE,
                                       !.browse.record = None]
        /\ \E a : Sent("record", a)
        /\ UNCHANGED <<app, server>>
    BY <1>3 DEF OpenRecord
  <2>2. Besides(view, view', "browse")
    BY <2>1 DEF Besides, Mentioned
  <2> QED
    BY <1>0, <2>1, <2>2, BrowseFollows, SentStep DEF Watched
<1>4. CASE ArmDelete
  <2>1. view' = [view EXCEPT !.browse.armed = TRUE] /\ UNCHANGED <<app, calls, server>>
    BY <1>4 DEF ArmDelete
  <2>2. Besides(view, view', "browse")
    BY <2>1 DEF Besides, Mentioned
  <2> QED
    BY <1>0, <2>1, <2>2, BrowseFollows, StillStep
<1>5. CASE ConfirmDelete
  BY <1>0, <1>5, SentStep DEF ConfirmDelete, Watched
<1>6. CASE FindSimilar
  BY <1>0, <1>6, StillStep DEF FindSimilar
<1>7. CASE ServeList
  <2>1. \E i \in Pending("list") : (\E r : Answer(i, r)) /\ UNCHANGED <<app, view, server>>
    BY <1>7 DEF ServeList
  <2> QED
    BY <2>1, AnsweredStep DEF Watched
<1>8. CASE ServeMetadata
  BY <1>8, AnsweredStep DEF ServeMetadata, Watched
<1>9. CASE ServeRecord
  BY <1>9, AnsweredStep DEF ServeRecord, Watched
<1>10. CASE ServeDelete
  <2>1. PICK i \in Pending("delete") :
           /\ \E e : server' = [server EXCEPT !.records = e]
           /\ Answer(i, None) /\ UNCHANGED <<app, view>>
    BY <1>10 DEF ServeDelete
  <2> QED
    BY <1>0, <2>1, PendingCall, AnsweredCalls, ServedStep DEF Watched
<1>11. CASE ListLoaded
  <2>1. PICK i \in Arrived("list") :
           /\ view' = IF ~calls[i].live THEN view
                      ELSE [view EXCEPT
                              !.browse.ids = IF ~Ok(i) THEN @
                                             ELSE IF calls[i].arg.token = None
                                             THEN calls[i].reply.ids
                                             ELSE @ \o calls[i].reply.ids,
                              !.browse.next = IF Ok(i) THEN calls[i].reply.next ELSE @,
                              !.browse.loading = @ /\ Ok(i) /\ calls[i].reply.ids # <<>>]
           /\ \/ calls' = Append(Without(i), Reload("metadata", calls[i].live))
              \/ calls' = Without(i)
           /\ UNCHANGED <<app, server>>
    BY <1>11 DEF ListLoaded
  <2>2. ASSUME view' # view PROVE Follows(view, view')
    <3>1. Besides(view, view', "browse")
      BY <2>1, <2>2 DEF Besides, Mentioned
    <3> QED
      BY <1>0, <3>1, BrowseFollows
  <2>3. CallsOk(Without(i), server.written)
    BY ArrivedCall, WithoutCalls
  <2>4. CallsOk(Append(Without(i), Reload("metadata", calls[i].live)), server.written)
    BY <2>3, ReloadCalls DEF Watched
  <2> QED
    BY <1>0, <2>1, <2>2, <2>3, <2>4, ServedStep
<1>12. CASE MetadataLoaded
  <2>1. PICK i \in Arrived("metadata") :
           /\ view' = IF calls[i].live THEN [view EXCEPT !.browse.loading = FALSE] ELSE view
           /\ calls' = Without(i) /\ UNCHANGED <<app, server>>
    BY <1>12 DEF MetadataLoaded
  <2>2. ASSUME view' # view PROVE Follows(view, view')
    <3>1. Besides(view, view', "browse")
      BY <2>1, <2>2 DEF Besides, Mentioned
    <3> QED
      BY <1>0, <3>1, BrowseFollows
  <2> QED
    BY <1>0, <2>1, <2>2, DeliveredStep
<1>13. CASE RecordLoaded
  <2>1. PICK i \in Arrived("record") :
           /\ view' = IF calls[i].live /\ Ok(i)
                      THEN [view EXCEPT !.browse.record = calls[i].reply] ELSE view
           /\ calls' = Without(i) /\ UNCHANGED <<app, server>>
    BY <1>13 DEF RecordLoaded
  <2>2. ASSUME view' # view PROVE Follows(view, view')
    <3>1. Besides(view, view', "browse")
      BY <2>1, <2>2 DEF Besides, Mentioned
    <3> QED
      BY <1>0, <3>1, BrowseFollows
  <2> QED
    BY <1>0, <2>1, <2>2, DeliveredStep
<1>14. CASE Deleted
  <2>1. PICK i \in Arrived("delete") :
           /\ view' = view \/ \E e : view' = [view EXCEPT !.browse.ids = e,
                                        !.browse.selected = None, !.browse.record = None]
           /\ calls' = Without(i) \o Refresh(calls[i].live) \/ calls' = Without(i)
           /\ UNCHANGED <<app, server>>
    BY <1>14 DEF Deleted
  <2>2. ASSUME view' # view PROVE Follows(view, view')
    <3>1. Besides(view, view', "browse")
      BY <2>1, <2>2 DEF Besides, Mentioned
    <3> QED
      BY <1>0, <3>1, BrowseFollows
  <2>3. CallsOk(Without(i), server.written)
    BY ArrivedCall, WithoutCalls
  <2>4. CallsOk(Without(i) \o Refresh(calls[i].live), server.written)
    BY <2>3, RefreshedCalls
  <2> QED
    BY <1>0, <2>1, <2>2, <2>3, <2>4, ServedStep
<1> QED
  BY <1>1, <1>2, <1>3, <1>4, <1>5, <1>6, <1>7, <1>8, <1>9, <1>10, <1>11, <1>12, <1>13, <1>14
  DEF BrowseNext, BrowseClicks
---------------------------------------------------------------------------
(* Queries: an answer goes with its request, in flight and on screen       *)

LEMMA QueryCall ==
  ASSUME NEW body, NEW w
  PROVE  CallOk(Call("query", body), w)
<1> DEFINE c == Call("query", body)
<1>1. IsCall(c) /\ c.op = "query" /\ c.st = "sent"
  BY DEF IsCall, Call
<1> HIDE DEF c
<1>2. CallOk(c, w)
  BY <1>1 DEF CallOk, AnswerOk
<1> QED
  BY <1>2 DEF c

LEMMA QueriesServed ==
  ASSUME CallsInv, ServeQuery
  PROVE  GoodStep
<1>1. PICK i \in Pending("query") :
         /\ \/ calls' = [calls EXCEPT ![i].st = "failed"]
            \/ \E held : Answer(i, [body |-> calls[i].arg, matches |-> held])
         /\ UNCHANGED <<app, view, server>>
  BY DEF ServeQuery
<1>2. i \in DOMAIN calls /\ calls[i].op = "query"
  BY PendingCall
<1>3. ASSUME NEW held, Answer(i, [body |-> calls[i].arg, matches |-> held])
      PROVE  CallsOk(calls', server.written)
  <2> DEFINE r == [body |-> calls[i].arg, matches |-> held]
             c == [calls[i] EXCEPT !.st = "answered", !.reply = r]
  <2>1. IsCall(calls[i])
    BY <1>2, CallsElement DEF CallsInv, CallOk
  <2>2. c = [op |-> calls[i].op, arg |-> calls[i].arg, live |-> calls[i].live,
             st |-> "answered", reply |-> r]
    BY <2>1, CallMade
  <2>3. IsAnswer(r, calls[i].arg)
    BY DEF IsAnswer
  <2>4. IsCall(c) /\ c.op = "query" /\ c.reply = r /\ c.arg = calls[i].arg
    <3> HIDE DEF c, r
    <3> QED
      BY <2>2, <1>2 DEF IsCall
  <2>5. CallOk(c, server.written)
    <3> HIDE DEF c, r
    <3> QED
      BY <2>3, <2>4 DEF CallOk, AnswerOk
  <2>6. CallsOk([calls EXCEPT ![i] = c], server.written)
    <3> HIDE DEF c
    <3> QED
      BY <1>2, <2>5, CallsSet DEF CallsInv
  <2>7. calls' = [calls EXCEPT ![i] = c]
    BY <1>3 DEF Answer
  <2> QED
    BY <2>6, <2>7
<1>4. CallsOk(calls', server.written)
  BY <1>1, <1>2, <1>3, FailedCalls
<1> QED
  BY <1>1, <1>4, SameFollows, ServedStep DEF CallsInv

LEMMA QueriesAnswered ==
  ASSUME CallsInv, QueryAnswered
  PROVE  GoodStep
<1>1. PICK i \in Arrived("query") :
         /\ view' = IF ~calls[i].live THEN view
                    ELSE [view EXCEPT
                            !.query.busy = FALSE,
                            !.query.result = IF Ok(i) THEN calls[i].reply ELSE @,
                            !.query.last = IF Ok(i) THEN calls[i].arg ELSE @]
         /\ calls' = Without(i)
         /\ UNCHANGED <<app, server>>
  BY DEF QueryAnswered
<1>2. Ok(i) => IsAnswer(calls[i].reply, calls[i].arg)
  BY ArrivedCall, CallsElement DEF CallsInv, CallOk, AnswerOk, Ok
<1>3. ViewOk(view)
  BY DEF CallsInv
<1>4. CASE ~calls[i].live
  BY <1>1, <1>3, <1>4, SameFollows, DeliveredStep
<1>5. CASE calls[i].live /\ Ok(i)
  <2>1. view' = [view EXCEPT !.query.busy = FALSE, !.query.result = calls[i].reply,
                             !.query.last = calls[i].arg]
    BY <1>1, <1>5
  <2>2. Besides(view, view', "query")
    BY <2>1 DEF Besides, Mentioned
  <2>3. Loaded(view) => /\ {"result", "last"} \subseteq DOMAIN view'.query
                        /\ view'.query.result = calls[i].reply
                        /\ view'.query.last = calls[i].arg
    BY <1>3, <2>1 DEF ViewOk, Loaded, PanelsOk
  <2>4. Follows(view, view')
    BY <1>2, <1>3, <1>5, <2>2, <2>3, QueryFollows
  <2> QED
    BY <1>1, <2>4, DeliveredStep
<1>6. CASE calls[i].live /\ ~Ok(i)
  <2>1. view' = [view EXCEPT !.query.busy = FALSE, !.query.result = @, !.query.last = @]
    BY <1>1, <1>6
  <2>2. Besides(view, view', "query")
    BY <2>1 DEF Besides, Mentioned
  <2>3. Loaded(view) => /\ {"result", "last"} \subseteq DOMAIN view'.query
                        /\ view'.query.result = view.query.result
                        /\ view'.query.last = view.query.last
    BY <1>3, <2>1 DEF ViewOk, Loaded, PanelsOk
  <2>4. Follows(view, view')
    BY <1>3, <2>2, <2>3, QueryFollows DEF ViewOk, Loaded, PanelsOk
  <2> QED
    BY <1>1, <2>4, DeliveredStep
<1> QED
  BY <1>4, <1>5, <1>6

LEMMA QueryStep ==
  ASSUME CallsInv, QueryNext
  PROVE  GoodStep
<1>0. /\ ViewOk(view) /\ Follows(view, view) /\ CallsOk(calls, server.written)
      /\ Loaded(view) => /\ "query" \in DOMAIN view
                         /\ {"result", "last"} \subseteq DOMAIN view.query
                         /\ \/ view.query.result = None /\ view.query.last = None
                            \/ IsAnswer(view.query.result, view.query.last)
  BY SameFollows DEF CallsInv, ViewOk, Loaded, PanelsOk
<1>1. ASSUME Besides(view, view', "query"),
             Loaded(view) => /\ DOMAIN view'.query = DOMAIN view.query
                             /\ view'.query.result = view.query.result
                             /\ view'.query.last = view.query.last
      PROVE  Follows(view, view')
  BY <1>0, <1>1, QueryFollows
<1>2. CASE EditQuery
  <2>1. /\ \/ \E m, t, f : view' = [view EXCEPT !.query.mode = m, !.query.text = t,
                                                !.query.filter = f]
           \/ \E r : view' = [view EXCEPT !.query.id = r]
           \/ \E ns : view' = [view EXCEPT !.query.ns = ns]
        /\ UNCHANGED <<app, calls, server>>
    BY <1>2 DEF EditQuery
  <2>2. Besides(view, view', "query")
    BY <2>1 DEF Besides, Mentioned
  <2>3. Loaded(view) => /\ DOMAIN view'.query = DOMAIN view.query
                        /\ view'.query.result = view.query.result
                        /\ view'.query.last = view.query.last
    <3>1. CASE \E m, t, f : view' = [view EXCEPT !.query.mode = m, !.query.text = t,
                                                 !.query.filter = f]
      <4>1. PICK m, t, f : view' = [view EXCEPT !.query.mode = m, !.query.text = t,
                                                !.query.filter = f]
        BY <3>1
      <4> QED
        BY <1>0, <4>1
    <3>2. CASE \E r : view' = [view EXCEPT !.query.id = r]
      BY <1>0, <3>2
    <3>3. CASE \E ns : view' = [view EXCEPT !.query.ns = ns]
      BY <1>0, <3>3
    <3> QED
      BY <2>1, <3>1, <3>2, <3>3
  <2> QED
    BY <1>1, <2>1, <2>2, <2>3, StillStep
<1>3. CASE SubmitQuery
  <2>1. /\ view' = [view EXCEPT !.query.busy = TRUE]
        /\ \E body : calls' = Append(calls, Call("query", body))
        /\ UNCHANGED <<app, server>>
    BY <1>3 DEF SubmitQuery, Sent
  <2>2. Besides(view, view', "query")
    BY <2>1 DEF Besides, Mentioned
  <2>3. Loaded(view) => /\ DOMAIN view'.query = DOMAIN view.query
                        /\ view'.query.result = view.query.result
                        /\ view'.query.last = view.query.last
    BY <1>0, <2>1
  <2>4. CallsOk(calls', server.written)
    BY <1>0, <2>1, QueryCall, CallsAppend
  <2> QED
    BY <1>1, <2>1, <2>2, <2>3, <2>4, ServedStep
<1>4. CASE QueryMatch
  <2>1. /\ \E r, b : view' = [view EXCEPT !.query.mode = "id", !.query.id = r, !.query.busy = b]
        /\ calls' = calls \/ \E body : calls' = Append(calls, Call("query", body))
        /\ UNCHANGED <<app, server>>
    BY <1>4 DEF QueryMatch, Sent
  <2>2. Besides(view, view', "query")
    BY <2>1 DEF Besides, Mentioned
  <2>3. Loaded(view) => /\ DOMAIN view'.query = DOMAIN view.query
                        /\ view'.query.result = view.query.result
                        /\ view'.query.last = view.query.last
    <3>1. PICK r, b : view' = [view EXCEPT !.query.mode = "id", !.query.id = r, !.query.busy = b]
      BY <2>1
    <3> QED
      BY <1>0, <3>1
  <2>4. CallsOk(calls', server.written)
    <3>1. CASE calls' = calls
      BY <1>0, <3>1
    <3>2. CASE \E body : calls' = Append(calls, Call("query", body))
      BY <1>0, <3>2, QueryCall, CallsAppend
    <3> QED
      BY <2>1, <3>1, <3>2
  <2> QED
    BY <1>1, <2>1, <2>2, <2>3, <2>4, ServedStep
<1> QED
  BY <1>2, <1>3, <1>4, QueriesServed, QueriesAnswered DEF QueryNext, QueryClicks
---------------------------------------------------------------------------
(* Upserts: a batch is sent when those before it are in                    *)

LEMMA BatchCall ==
  ASSUME NEW w, NEW by, NEW ns, NEW from, NEW n, NEW live,
         ns \in Namespaces, from \in Nat \ {0}, n \in Nat, 1 .. from - 1 \subseteq w[ns]
  PROVE  /\ CallOk(UpsertCall(by, ns, from, n), w)
         /\ CallOk([UpsertCall(by, ns, from, n) EXCEPT !.live = live], w)
<1> DEFINE a == [by |-> by, ns |-> ns, from |-> from, n |-> n]
<1>1. a.ns = ns /\ a.from = from /\ a.n = n
  OBVIOUS
<1> HIDE DEF a
<1>2. ASSUME NEW c, IsCall(c), c.op = "upsert", c.arg = a, c.st = "sent"
      PROVE  CallOk(c, w)
  BY <1>1, <1>2 DEF CallOk, BatchOk
<1>3. /\ IsCall(Call("upsert", a)) /\ Call("upsert", a).op = "upsert"
      /\ Call("upsert", a).arg = a /\ Call("upsert", a).st = "sent"
  BY DEF IsCall, Call
<1>4. LET d == [Call("upsert", a) EXCEPT !.live = live] IN
      IsCall(d) /\ d.op = "upsert" /\ d.arg = a /\ d.st = "sent"
  BY DEF IsCall, Call
<1>5. UpsertCall(by, ns, from, n) = Call("upsert", a)
  BY DEF UpsertCall, a
<1> QED
  BY <1>2, <1>3, <1>4, <1>5

\* What is written stays so: calls remain good when more is
LEMMA CallsMoreWritten ==
  ASSUME NEW cs, NEW w, CallsOk(cs, w), NEW x, \A ns \in Namespaces : w[ns] \subseteq x[ns]
  PROVE  CallsOk(cs, x)
<1>1. ASSUME NEW i \in DOMAIN cs
      PROVE  CallOk(cs[i], x)
  <2>1. CallOk(cs[i], w)
    BY CallsElement
  <2>2. cs[i].op = "upsert" => BatchOk(cs[i], x)
    BY <2>1 DEF CallOk, BatchOk
  <2> QED
    BY <2>1, <2>2 DEF CallOk
<1> QED
  BY <1>1 DEF CallsOk

\* The first batch of all
LEMMA FirstBatch ==
  ASSUME NEW w, NEW by, NEW ns \in Namespaces, NEW n \in Nat
  PROVE  CallOk(UpsertCall(by, ns, 1, n), w)
<1> DEFINE from == 1
<1>1. from \in Nat \ {0} /\ 1 .. from - 1 \subseteq w[ns]
  OBVIOUS
<1> HIDE DEF from
<1>2. CallOk(UpsertCall(by, ns, from, n), w)
  BY <1>1, BatchCall
<1> QED
  BY <1>2 DEF from

LEMMA LastOfBatch ==
  ASSUME NEW a, a.from \in Nat \ {0}, a.n \in Nat
  PROVE  /\ LastOf(a) \in Int
         /\ LastOf(a) < a.n => LastOf(a) \in Nat /\ LastOf(a) + 1 \in Nat \ {0}
         /\ 1 .. LastOf(a) \subseteq (1 .. a.from - 1) \cup (a.from .. LastOf(a))
BY BatchAssumption DEF LastOf

LEMMA BatchServed ==
  ASSUME CallsInv, ServeUpsert
  PROVE  GoodStep
<1>1. PICK i \in Pending("upsert") :
         /\ server' = [server EXCEPT
               !.written[calls[i].arg.ns] = @ \cup (calls[i].arg.from .. LastOf(calls[i].arg)),
               !.records[calls[i].arg.ns] = @ \cup (calls[i].arg.from .. LastOf(calls[i].arg))]
         /\ Answer(i, None)
         /\ UNCHANGED <<app, view>>
  BY DEF ServeUpsert
<1> DEFINE a == calls[i].arg
           x == [server.written EXCEPT ![a.ns] = @ \cup (a.from .. LastOf(a))]
           c == [calls[i] EXCEPT !.st = "answered", !.reply = None]
<1>2. i \in DOMAIN calls /\ calls[i].op = "upsert" /\ CallOk(calls[i], server.written)
  BY PendingCall, CallsElement DEF CallsInv
<1>3. BatchOk(calls[i], server.written) /\ IsCall(calls[i])
  BY <1>2 DEF CallOk
<1>4. "written" \in DOMAIN server' /\ server'.written = x /\ DOMAIN x = Namespaces
  <2>1. "written" \in DOMAIN server /\ DOMAIN server.written = Namespaces
    BY DEF CallsInv
  <2>2. \A s, r : s = [server EXCEPT !.written[a.ns] = @ \cup (a.from .. LastOf(a)),
                                     !.records[a.ns] = r]
           => "written" \in DOMAIN s /\ s.written = x
    BY <2>1
  <2> QED
    BY <1>1, <2>1, <2>2
<1>5. /\ \A ns \in Namespaces : server.written[ns] \subseteq x[ns]
      /\ 1 .. a.from - 1 \subseteq x[a.ns] /\ a.from .. LastOf(a) \subseteq x[a.ns]
  BY <1>3 DEF BatchOk, CallsInv
<1>6. CallsOk(calls, x)
  <2> HIDE DEF x
  <2> QED
    BY <1>5, CallsMoreWritten DEF CallsInv
<1>7. 1 .. LastOf(a) \subseteq x[a.ns]
  <2>1. 1 .. LastOf(a) \subseteq (1 .. a.from - 1) \cup (a.from .. LastOf(a))
    BY <1>3, LastOfBatch DEF BatchOk
  <2> HIDE DEF a, x
  <2> QED
    BY <1>5, <2>1
<1>8. c = [op |-> calls[i].op, arg |-> a, live |-> calls[i].live, st |-> "answered",
           reply |-> None]
  BY <1>3, CallMade
<1>9. CallOk(c, x)
  <2>1. IsCall(c) /\ c.op = "upsert" /\ c.arg = a
    <3> HIDE DEF c, a
    <3> QED
      BY <1>2, <1>8 DEF IsCall
  <2>2. a.ns \in Namespaces /\ a.from \in Nat \ {0} /\ a.n \in Nat
    BY <1>3 DEF BatchOk
  <2> HIDE DEF c, x, a
  <2> QED
    BY <1>5, <1>7, <2>1, <2>2 DEF CallOk, BatchOk
<1>10. CallsOk([calls EXCEPT ![i] = c], x)
  <2> HIDE DEF c, x
  <2> QED
    BY <1>2, <1>6, <1>9, CallsSet
<1>11. calls' = [calls EXCEPT ![i] = c]
  BY <1>1 DEF Answer
<1> QED
  BY <1>1, <1>4, <1>10, <1>11, SameFollows DEF GoodStep, CallsInv, Follows
LEMMA BatchFollows ==
  ASSUME CallsInv, BatchWritten
  PROVE  GoodStep
<1>1. PICK i \in Arrived("upsert") :
         LET a == calls[i].arg
             more == Ok(i) /\ LastOf(a) < a.n
             ends == Ok(i) /\ ~more
         IN /\ calls' = IF more
                        THEN Append(Without(i), [NextBatch(a) EXCEPT !.live = calls[i].live])
                        ELSE IF ends THEN Without(i) \o Refresh(calls[i].live)
                        ELSE Without(i)
            /\ view' = IF ~calls[i].live THEN view
                       ELSE IF a.by = "upsert"
                       THEN [view EXCEPT !.upsert.busy = more,
                                         !.upsert.records = IF ends THEN 0 ELSE @]
                       ELSE [view EXCEPT !.seed.busy = more,
                                         !.seed.done = IF Ok(i) THEN LastOf(a) ELSE @]
            /\ UNCHANGED <<app, server>>
  BY DEF BatchWritten
<1> DEFINE a == calls[i].arg
           more == Ok(i) /\ LastOf(a) < a.n
           ends == Ok(i) /\ ~more
<1>2. i \in DOMAIN calls /\ BatchOk(calls[i], server.written) /\ ViewOk(view)
  BY ArrivedCall, CallsElement DEF CallsInv, CallOk
<1>3. CallsOk(Without(i), server.written)
  BY <1>2, WithoutCalls
<1>4. CallsOk(calls', server.written)
  <2>1. CASE more
    <3> DEFINE n == LastOf(a) + 1
    <3>1. a.ns \in Namespaces /\ n \in Nat \ {0} /\ a.n \in Nat
      BY <1>2, <2>1, LastOfBatch DEF BatchOk
    <3>2. 1 .. n - 1 \subseteq server.written[a.ns]
      <4>1. 1 .. LastOf(a) \subseteq server.written[a.ns]
        BY <1>2, <2>1 DEF BatchOk, Ok
      <4>2. n - 1 = LastOf(a)
        BY <1>2, LastOfBatch DEF BatchOk
      <4> QED
        BY <4>1, <4>2
    <3>3. CallOk([UpsertCall(a.by, a.ns, n, a.n) EXCEPT !.live = calls[i].live], server.written)
      <4> HIDE DEF a, n
      <4> QED
        BY <3>1, <3>2, BatchCall
    <3>4. calls' = Append(Without(i), [NextBatch(a) EXCEPT !.live = calls[i].live])
      BY <1>1, <2>1
    <3> QED
      BY <1>3, <3>3, <3>4, CallsAppend DEF NextBatch
  <2>2. CASE ends
    <3>1. calls' = Without(i) \o Refresh(calls[i].live)
      BY <1>1, <2>2
    <3> QED
      BY <1>3, <3>1, RefreshedCalls
  <2>3. CASE ~more /\ ~ends
    BY <1>1, <1>3, <2>3
  <2> QED
    BY <2>1, <2>2, <2>3
<1>5. Follows(view, view')
  <2>1. CASE ~calls[i].live
    BY <1>1, <1>2, <2>1, SameFollows
  <2>2. CASE calls[i].live /\ a.by = "upsert"
    <3>1. view' = [view EXCEPT !.upsert.busy = more, !.upsert.records = IF ends THEN 0 ELSE @]
      BY <1>1, <2>2
    <3>2. PICK m, n : /\ view' = [view EXCEPT !.upsert.busy = m, !.upsert.records = n]
                      /\ n = view.upsert.records \/ n = 0
      BY <3>1
    <3>3. Besides(view, view', "upsert")
      BY <3>2 DEF Besides, Mentioned
    <3>4. Loaded(view) => /\ {"ns", "records"} \subseteq DOMAIN view'.upsert
                          /\ view'.upsert.ns = view.upsert.ns
                          /\ view'.upsert.records = n
      BY <1>2, <3>2 DEF ViewOk, Loaded, PanelsOk
    <3>5. Loaded(view) => view'.upsert.ns \in Namespaces /\ view'.upsert.records \in Nat
      <4>1. Loaded(view) => view.upsert.ns \in Namespaces /\ view.upsert.records \in Nat
        BY <1>2 DEF ViewOk, Loaded, PanelsOk
      <4> QED
        BY <3>2, <3>4, <4>1
    <3> QED
      BY <1>2, <3>3, <3>4, <3>5, UpsertFollows
  <2>3. CASE calls[i].live /\ a.by # "upsert"
    <3>1. PICK m, n : view' = [view EXCEPT !.seed.busy = m, !.seed.done = n]
      BY <1>1, <2>3
    <3>2. Keeps(view, view')
      BY <3>1 DEF Keeps, Mentioned
    <3> QED
      BY <1>2, <3>2, KeptFollows
  <2> QED
    BY <2>1, <2>2, <2>3
<1> QED
  BY <1>1, <1>4, <1>5, ServedStep

LEMMA UpsertStep ==
  ASSUME CallsInv, UpsertNext
  PROVE  GoodStep
<1>0. /\ ViewOk(view) /\ Follows(view, view) /\ CallsOk(calls, server.written)
      /\ DefaultSpace \in Namespaces
  BY SameFollows, SpaceAssumption DEF CallsInv
<1>a. Loaded(view) => /\ {"info", "upsert"} \subseteq DOMAIN view
                      /\ {"ns", "records"} \subseteq DOMAIN view.upsert
                      /\ view.upsert.ns \in Namespaces /\ view.upsert.records \in Nat
  BY <1>0 DEF ViewOk, Loaded, PanelsOk
<1>1. CASE EditRecords
  <2>1. /\ \/ \E n \in 0 .. MaxRecords : view' = [view EXCEPT !.upsert.records = n]
           \/ \E ns \in Namespaces : view' = [view EXCEPT !.upsert.ns = ns]
        /\ UNCHANGED <<app, calls, server>>
    BY <1>1 DEF EditRecords
  <2>2. Besides(view, view', "upsert")
    BY <2>1 DEF Besides, Mentioned
  <2>3. Loaded(view) => /\ {"ns", "records"} \subseteq DOMAIN view'.upsert
                        /\ view'.upsert.ns \in Namespaces /\ view'.upsert.records \in Nat
    <3>1. CASE \E n \in 0 .. MaxRecords : view' = [view EXCEPT !.upsert.records = n]
      <4>1. PICK n \in 0 .. MaxRecords : view' = [view EXCEPT !.upsert.records = n]
        BY <3>1
      <4>2. n \in Nat
        BY BatchAssumption
      <4>3. Loaded(view) => /\ {"ns", "records"} \subseteq DOMAIN view'.upsert
                            /\ view'.upsert.ns = view.upsert.ns /\ view'.upsert.records = n
        BY <1>a, <4>1
      <4> QED
        BY <1>a, <4>2, <4>3
    <3>2. CASE \E ns \in Namespaces : view' = [view EXCEPT !.upsert.ns = ns]
      <4>1. PICK ns \in Namespaces : view' = [view EXCEPT !.upsert.ns = ns]
        BY <3>2
      <4>2. Loaded(view) => /\ {"ns", "records"} \subseteq DOMAIN view'.upsert
                            /\ view'.upsert.ns = ns
                            /\ view'.upsert.records = view.upsert.records
        BY <1>a, <4>1
      <4> QED
        BY <1>a, <4>2
    <3> QED
      BY <2>1, <3>1, <3>2
  <2> QED
    BY <1>0, <2>1, <2>2, <2>3, UpsertFollows, StillStep
<1>2. CASE Upserting /\ SubmitRecords
  <2>1. /\ view' = [view EXCEPT !.upsert.busy = TRUE]
        /\ calls' = Append(calls, UpsertCall("upsert", view.upsert.ns, 1, view.upsert.records))
        /\ UNCHANGED <<app, server>> /\ Loaded(view)
    BY <1>2 DEF SubmitRecords, Upserting, OnTab, OnIndex, Loaded
  <2>2. Besides(view, view', "upsert")
    BY <2>1 DEF Besides, Mentioned
  <2>3. /\ {"ns", "records"} \subseteq DOMAIN view'.upsert
        /\ view'.upsert.ns = view.upsert.ns /\ view'.upsert.records = view.upsert.records
    BY <1>a, <2>1
  <2>4. Follows(view, view')
    BY <1>0, <1>a, <2>1, <2>2, <2>3, UpsertFollows
  <2>5. CallOk(UpsertCall("upsert", view.upsert.ns, 1, view.upsert.records), server.written)
    BY <1>a, <2>1, FirstBatch
  <2> QED
    BY <1>0, <2>1, <2>4, <2>5, CallsAppend, ServedStep
<1>3. CASE Seed
  <2>1. /\ view' = [view EXCEPT !.seed = [busy |-> TRUE, done |-> 0]]
        /\ calls' = Append(calls, UpsertCall("seed", DefaultSpace, 1, Samples))
        /\ UNCHANGED <<app, server>>
    BY <1>3 DEF Seed
  <2>2. Keeps(view, view')
    BY <2>1 DEF Keeps, Mentioned
  <2>3. CallOk(UpsertCall("seed", DefaultSpace, 1, Samples), server.written)
    BY <1>0, BatchAssumption, FirstBatch
  <2> QED
    BY <1>0, <2>1, <2>2, <2>3, CallsAppend, KeptFollows, ServedStep
<1> QED
  BY <1>1, <1>2, <1>3, BatchServed, BatchFollows DEF UpsertNext, UpsertClicks
---------------------------------------------------------------------------
(* Keys of providers: a key stays with the provider it was typed for       *)

\* A sheet that is closed, or that opens for a provider, holds no key
LEMMA EditedFollows ==
  ASSUME NEW v, ViewOk(v), NEW p
  PROVE  /\ Follows(v, Edited(v, p)) /\ ViewOk(Edited(v, p))
         /\ DOMAIN Edited(v, p) = DOMAIN v
<1>1. CASE v.editing = p
  BY <1>1, SameFollows DEF Edited
<1>2. CASE v.editing # p
  <2> DEFINE w == [v EXCEPT !.editing = p, !.sheet = BlankProviderSheet]
  <2>1. Edited(v, p) = w
    BY <1>2 DEF Edited
  <2>2. /\ DOMAIN w = DOMAIN v
        /\ \A f \in DOMAIN v \ {"editing", "sheet"} : w[f] = v[f]
        /\ "sheet" \in DOMAIN v => w.sheet = BlankProviderSheet
    OBVIOUS
  <2> HIDE DEF w
  <2>3. w.page = v.page /\ w.route = v.route
    BY <2>2 DEF ViewOk
  <2>4. CASE v.page = "index"
    <3>1. w.info = v.info /\ w.browse = v.browse /\ w.query = v.query /\ w.upsert = v.upsert
      BY <2>2, <2>4 DEF ViewOk
    <3>2. ViewOk(w)
      BY <2>2, <2>3, <2>4, <3>1 DEF ViewOk, PanelsOk
    <3> QED
      BY <2>1, <2>2, <2>3, <3>1, <3>2 DEF Follows, KeepsDrafts
  <2>5. CASE v.page # "index"
    BY <2>1, <2>2, <2>3, <2>5
    DEF ViewOk, SheetOk, Follows, Loaded, BlankProviderSheet
  <2> QED
    BY <2>4, <2>5
<1> QED
  BY <1>1, <1>2

LEMMA RequestedFollows ==
  ASSUME NEW v, ViewOk(v)
  PROVE  Follows(v, Requested(v))
BY EditedFollows, SameFollows DEF Requested

LEMMA FollowsTwice ==
  ASSUME NEW u, ViewOk(u), NEW v, Keeps(u, v), NEW w, Follows(v, w)
  PROVE  Follows(u, w)
<1>1. v.page = u.page /\ v.route = u.route
  BY DEF Keeps, Mentioned, ViewOk
<1>2. u.page = "index" => /\ v.info = u.info /\ v.browse = u.browse
                          /\ v.query = u.query /\ v.upsert = u.upsert
  BY DEF Keeps, Mentioned, ViewOk
<1> QED
  BY <1>1, <1>2 DEF Follows, Loaded, KeepsDrafts
LEMMA KeyCall ==
  ASSUME NEW w, NEW op \in {"test", "setProvider"}, NEW a, NEW live,
         a.key # None => a.key.of = a.p,
         op = "setProvider" => a.key.works \/ a.anyway
  PROVE  CallOk(Call(op, a), w) /\ CallOk([Call(op, a) EXCEPT !.live = live], w)
<1>1. ASSUME NEW c, IsCall(c), c.op = op, c.arg = a, c.st = "sent"
      PROVE  CallOk(c, w)
  <2>1. KeyOk(c)
    <3>1. c.arg.key # None => c.arg.key.of = c.arg.p
      BY <1>1
    <3>2. c.op = "setProvider" => c.arg.key.works \/ c.arg.anyway
      BY <1>1, Zenon
    <3>3. c.st # "answered"
      BY <1>1
    <3> QED
      BY <3>1, <3>2, <3>3, Zenon DEF KeyOk
  <2> QED
    BY <1>1, <2>1 DEF CallOk
<1>2. IsCall(Call(op, a)) /\ Call(op, a).op = op /\ Call(op, a).arg = a /\ Call(op, a).st = "sent"
  BY DEF IsCall, Call
<1>3. LET d == [Call(op, a) EXCEPT !.live = live] IN
      IsCall(d) /\ d.op = op /\ d.arg = a /\ d.st = "sent"
  BY DEF IsCall, Call
<1> QED
  BY <1>1, <1>2, <1>3

LEMMA SheetSaves ==
  ASSUME CallsInv, OnProviders, SaveProviderKey
  PROVE  CallsOk(calls', server.written)
<1>1. /\ "save" \in SheetControls \/ "anyway" \in SheetControls
      /\ \/ calls' = Append(calls, SaveCall("test", FALSE))
         \/ calls' = Append(calls, SaveCall("setProvider", TRUE))
  BY DEF SaveProviderKey
<1> DEFINE a(anyway) == [p |-> view.editing, key |-> view.sheet.key, anyway |-> anyway,
                         asked |-> view.route.provider # None]
<1>2. \A b : /\ a(b).p = view.editing /\ a(b).key = view.sheet.key /\ a(b).anyway = b
             /\ \A op : SaveCall(op, b) = Call(op, a(b))
  BY DEF SaveCall
<1>3. view.sheet.key # None => view.sheet.key.of = view.editing
  BY DEF CallsInv, ViewOk, SheetOk, OnProviders
<1> HIDE DEF a
<1>4. CallOk(Call("test", a(FALSE)), server.written)
  BY <1>2, <1>3, KeyCall
<1>5. CallOk(Call("setProvider", a(TRUE)), server.written)
  <2>1. a(TRUE).key.works \/ a(TRUE).anyway
    BY <1>2, Zenon
  <2>2. a(TRUE).key # None => a(TRUE).key.of = a(TRUE).p
    BY <1>2, <1>3
  <2> QED
    BY <2>1, <2>2, KeyCall, Zenon
<1> QED
  BY <1>1, <1>2, <1>4, <1>5, CallsAppend DEF CallsInv

LEMMA KeyTestServed ==
  ASSUME CallsInv, ServeTest
  PROVE  GoodStep
<1>1. PICK i \in Pending("test") :
         LET a == calls[i].arg
             key == IF a.key # None THEN a.key ELSE server.provider[a.p]
         IN /\ Answer(i, IF key # None /\ key.works THEN "ok" ELSE "bad")
            /\ UNCHANGED <<app, view, server>>
  BY DEF ServeTest
<1> DEFINE a == calls[i].arg
           key == IF a.key # None THEN a.key ELSE server.provider[a.p]
           r == IF key # None /\ key.works THEN "ok" ELSE "bad"
           c == [calls[i] EXCEPT !.st = "answered", !.reply = r]
<1>2. i \in DOMAIN calls /\ calls[i].op = "test" /\ CallOk(calls[i], server.written)
  BY PendingCall, CallsElement DEF CallsInv
<1>3. KeyOk(calls[i]) /\ IsCall(calls[i])
  BY <1>2 DEF CallOk
<1>4. r = "ok" /\ a.key # None => a.key.works
  BY Zenon
<1>5. c = [op |-> calls[i].op, arg |-> a, live |-> calls[i].live, st |-> "answered", reply |-> r]
  <2> HIDE DEF r
  <2> QED
    BY <1>3, CallMade
<1>6. IsCall(c) /\ c.op = "test" /\ c.arg = a /\ c.reply = r
  <2> HIDE DEF c, a, r
  <2> QED
    BY <1>2, <1>5 DEF IsCall
<1>7. CallOk(c, server.written)
  <2>1. a.key # None => a.key.of = a.p
    BY <1>3 DEF KeyOk
  <2> HIDE DEF c, r
  <2>2. KeyOk(c)
    BY <1>4, <1>6, <2>1, Zenon DEF KeyOk
  <2> QED
    BY <1>6, <2>2 DEF CallOk
<1>8. CallsOk([calls EXCEPT ![i] = c], server.written)
  <2> HIDE DEF c
  <2> QED
    BY <1>2, <1>7, CallsSet DEF CallsInv
<1>9. calls' = [calls EXCEPT ![i] = c] /\ UNCHANGED <<view, server>>
  BY <1>1 DEF Answer
<1> QED
  BY <1>8, <1>9, SameFollows, ServedStep DEF CallsInv

LEMMA KeySaveServed ==
  ASSUME CallsInv, ServeSetProvider
  PROVE  GoodStep
<1>1. PICK i \in Pending("setProvider") :
         /\ server' = [server EXCEPT !.provider[calls[i].arg.p] = calls[i].arg.key]
         /\ Answer(i, None)
         /\ UNCHANGED <<app, view>>
  BY DEF ServeSetProvider
<1> DEFINE a == calls[i].arg
           c == [calls[i] EXCEPT !.st = "answered", !.reply = None]
<1>2. i \in DOMAIN calls /\ calls[i].op = "setProvider" /\ CallOk(calls[i], server.written)
  BY PendingCall, CallsElement DEF CallsInv
<1>3. KeyOk(calls[i]) /\ IsCall(calls[i])
  BY <1>2 DEF CallOk
<1>4. c = [op |-> calls[i].op, arg |-> a, live |-> calls[i].live, st |-> "answered",
           reply |-> None]
  BY <1>3, CallMade
<1>5. IsCall(c) /\ c.op = "setProvider" /\ c.arg = a
  <2> HIDE DEF c, a
  <2> QED
    BY <1>2, <1>4 DEF IsCall
<1>6. CallOk(c, server.written)
  <2>1. a.key # None => a.key.of = a.p
    BY <1>3 DEF KeyOk
  <2>2. a.key.works \/ a.anyway
    BY <1>2, <1>3, Zenon DEF KeyOk
  <2> HIDE DEF c
  <2>3. c.op # "test"
    BY <1>5
  <2>4. KeyOk(c)
    BY <1>5, <2>1, <2>2, <2>3, Zenon DEF KeyOk
  <2> QED
    BY <1>5, <2>4 DEF CallOk
<1>7. CallsOk([calls EXCEPT ![i] = c], server.written)
  <2> HIDE DEF c
  <2> QED
    BY <1>2, <1>6, CallsSet DEF CallsInv
<1>8. calls' = [calls EXCEPT ![i] = c] /\ UNCHANGED view
  BY <1>1 DEF Answer
<1>9. \E e : server' = [server EXCEPT !.provider = e]
  BY <1>1
<1> QED
  BY <1>7, <1>8, <1>9, SameFollows, ServedStep DEF CallsInv
LEMMA FailureShown ==
  ASSUME ViewOk(view)
  PROVE  /\ Follows(view, [view EXCEPT !.sheet.busy = FALSE, !.sheet.failure = TRUE])
         /\ Follows(view, [view EXCEPT !.sheet.busy = TRUE, !.sheet.failure = FALSE])
<1>1. ASSUME NEW b, NEW f
      PROVE  Follows(view, [view EXCEPT !.sheet.busy = b, !.sheet.failure = f])
  <2> DEFINE w == [view EXCEPT !.sheet.busy = b, !.sheet.failure = f]
  <2>1. Keeps([view EXCEPT !.sheet = w.sheet], w)
    BY DEF Keeps, Mentioned
  <2>2. view.page = "providers" => DOMAIN w.sheet = DOMAIN view.sheet
                                   /\ w.sheet.key = view.sheet.key
    BY DEF ViewOk, SheetOk
  <2> HIDE DEF w
  <2>3. Follows(view, w)
    BY <2>1, <2>2, SheetFollows
  <2> QED
    BY <2>3 DEF w
<1> QED
  BY <1>1

LEMMA ProvidersReloaded ==
  ASSUME NEW cs, NEW w, CallsOk(cs, w), NEW live
  PROVE  CallsOk(cs \o RefreshCalls \o <<Reload("providers", live)>>, w)
<1>1. CallOk(Reload("providers", live), w)
  BY NewCall DEF Reload, Watched
<1>2. CallsOk(cs \o RefreshCalls, w) /\ CallsOk(<<Reload("providers", live)>>, w)
  BY <1>1, RefreshedCalls, CallsOne
<1> QED
  BY <1>2, CallsConcat

LEMMA KeyTestDone ==
  ASSUME CallsInv, TestDone
  PROVE  GoodStep
<1>1. PICK i \in Arrived("test") :
         LET a == calls[i].arg
             works == Ok(i) /\ calls[i].reply = "ok"
             saves == a.key # None /\ works
         IN /\ view' = IF ~calls[i].live \/ saves THEN view
                       ELSE IF a.key = None
                       THEN [view EXCEPT !.checks[a.p] = IF works THEN "ok" ELSE "bad"]
                       ELSE [view EXCEPT !.sheet.busy = FALSE, !.sheet.failure = TRUE]
            /\ calls' = IF saves
                        THEN Append(Without(i),
                                    [Call("setProvider", a) EXCEPT !.live = calls[i].live])
                        ELSE Without(i)
            /\ UNCHANGED <<app, server>>
  BY DEF TestDone
<1> DEFINE a == calls[i].arg
           saves == a.key # None /\ Ok(i) /\ calls[i].reply = "ok"
<1>2. i \in DOMAIN calls /\ calls[i].op = "test" /\ KeyOk(calls[i]) /\ ViewOk(view)
  BY ArrivedCall, CallsElement DEF CallsInv, CallOk
<1>3. CallsOk(Without(i), server.written)
  BY <1>2, WithoutCalls
<1>4. CallsOk(calls', server.written)
  <2>1. CASE saves
    <3>1. a.key.of = a.p
      BY <1>2, <2>1 DEF KeyOk
    <3>2. a.key.works \/ a.anyway
      BY <1>2, <2>1, Zenon DEF KeyOk, Ok
    <3>3. CallOk([Call("setProvider", a) EXCEPT !.live = calls[i].live], server.written)
      <4> HIDE DEF a
      <4> QED
        BY <3>1, <3>2, KeyCall, Zenon
    <3>4. calls' = Append(Without(i), [Call("setProvider", a) EXCEPT !.live = calls[i].live])
      BY <1>1, <2>1
    <3> QED
      BY <1>3, <3>3, <3>4, CallsAppend
  <2>2. CASE ~saves
    BY <1>1, <1>3, <2>2
  <2> QED
    BY <2>1, <2>2
<1>5. Follows(view, view')
  <2>1. CASE view' = view
    BY <1>2, <2>1, SameFollows
  <2>2. CASE \E e : view' = [view EXCEPT !.checks[a.p] = e]
    <3>1. Keeps(view, view')
      BY <2>2 DEF Keeps, Mentioned
    <3> QED
      BY <1>2, <3>1, KeptFollows
  <2>3. CASE view' = [view EXCEPT !.sheet.busy = FALSE, !.sheet.failure = TRUE]
    BY <1>2, <2>3, FailureShown
  <2> QED
    BY <1>1, <2>1, <2>2, <2>3
<1> QED
  BY <1>1, <1>4, <1>5, ServedStep

LEMMA KeySaved ==
  ASSUME CallsInv, ProviderSaved
  PROVE  GoodStep
<1>1. PICK i \in Arrived("setProvider") :
         LET a == calls[i].arg
             saved == [view EXCEPT !.sheet.busy = FALSE,
                                   !.checks[a.p] = IF a.anyway THEN @ ELSE "ok"]
         IN IF Ok(i)
            THEN /\ IF calls[i].live THEN CloseSheet(saved, a.asked)
                    ELSE view' = view /\ hash' = IF a.asked THEN SettingsRoute ELSE hash
                 /\ calls' = Without(i) \o RefreshCalls \o <<Reload("providers", calls[i].live)>>
                 /\ catalog' = Refreshed
                 /\ UNCHANGED <<me, shell, server>>
            ELSE /\ view' = IF calls[i].live
                            THEN [view EXCEPT !.sheet.busy = FALSE, !.sheet.failure = TRUE]
                            ELSE view
                 /\ calls' = Without(i)
                 /\ UNCHANGED <<app, server>>
  BY DEF ProviderSaved
<1> DEFINE a == calls[i].arg
           saved == [view EXCEPT !.sheet.busy = FALSE,
                                 !.checks[a.p] = IF a.anyway THEN @ ELSE "ok"]
<1>2. i \in DOMAIN calls /\ ViewOk(view) /\ server' = server
  BY <1>1, ArrivedCall DEF CallsInv
<1>3. CallsOk(Without(i), server.written)
  BY <1>2, WithoutCalls
<1>4. CallsOk(Without(i) \o RefreshCalls \o <<Reload("providers", calls[i].live)>>, server.written)
  BY <1>3, ProvidersReloaded
<1>5. CallsOk(calls', server.written)
  BY <1>1, <1>3, <1>4
<1>6. Follows(view, view')
  <2>1. CASE view' = view
    BY <1>2, <2>1, SameFollows
  <2>2. CASE view' = Edited(saved, None)
    <3>1. saved = [[view EXCEPT !.sheet.busy = FALSE] EXCEPT
                      !.checks[a.p] = IF a.anyway THEN @ ELSE "ok"]
      OBVIOUS
    <3>2. PICK e : saved = [view EXCEPT !.sheet.busy = FALSE, !.checks[a.p] = e]
      OBVIOUS
    <3>3. Keeps([view EXCEPT !.sheet = saved.sheet], saved)
      BY <3>2 DEF Keeps, Mentioned
    <3>4. view.page = "providers" => DOMAIN saved.sheet = DOMAIN view.sheet
                                     /\ saved.sheet.key = view.sheet.key
      BY <1>2, <3>2 DEF ViewOk, SheetOk
    <3> HIDE DEF saved
    <3>5. Follows(view, saved)
      BY <1>2, <3>3, <3>4, SheetFollows
    <3>6. Follows(saved, view')
      BY <2>2, <3>5, EditedFollows DEF Follows
    <3>7. CASE view.page = "index"
      <4>1. /\ saved.page = view.page /\ saved.route = view.route /\ saved.info = view.info
            /\ saved.browse = view.browse /\ saved.query = view.query
            /\ saved.upsert = view.upsert
        BY <1>2, <3>2, <3>7 DEF ViewOk, saved
      <4> QED
        BY <3>6, <4>1 DEF Follows, Loaded, KeepsDrafts
    <3>8. CASE view.page # "index"
      BY <3>6, <3>8 DEF Follows, Loaded
    <3> QED
      BY <3>7, <3>8
  <2>3. CASE view' = [view EXCEPT !.sheet.busy = FALSE, !.sheet.failure = TRUE]
    BY <1>2, <2>3, FailureShown
  <2> QED
    BY <1>1, <2>1, <2>2, <2>3 DEF CloseSheet
<1> QED
  BY <1>2, <1>5, <1>6, ServedStep

LEMMA KeyRemoved ==
  ASSUME CallsInv, ProviderRemoved
  PROVE  GoodStep
<1>1. PICK i \in Arrived("removeProvider") :
         /\ \/ view' = view
            \/ \E e : view' = [view EXCEPT !.checks = e]
         /\ \/ calls' = Without(i) \o RefreshCalls \o <<Reload("providers", calls[i].live)>>
            \/ calls' = Without(i)
         /\ server' = server
  BY DEF ProviderRemoved
<1>2. ViewOk(view) /\ CallsOk(Without(i), server.written)
  BY ArrivedCall, WithoutCalls DEF CallsInv
<1>3. CallsOk(calls', server.written)
  <2>1. CallsOk(Without(i) \o RefreshCalls \o <<Reload("providers", calls[i].live)>>,
                server.written)
    BY <1>2, ProvidersReloaded
  <2> QED
    BY <1>1, <1>2, <2>1
<1>4. Keeps(view, view')
  BY <1>1 DEF Keeps, Mentioned
<1> QED
  BY <1>1, <1>2, <1>3, <1>4, KeptFollows, ServedStep
LEMMA ProvidersPageStep ==
  ASSUME CallsInv,
         EditProvider \/ TestProvider \/ RemoveProvider \/ CloseProviderSheet
         \/ TypeProviderKey \/ SaveProviderKey \/ PollProviders
  PROVE  GoodStep
<1>0. /\ ViewOk(view) /\ Follows(view, view) /\ CallsOk(calls, server.written)
      /\ \A p : Follows(view, Edited(view, p))
  BY SameFollows, EditedFollows DEF CallsInv
<1>1. CASE EditProvider
  BY <1>0, <1>1, StillStep DEF EditProvider
<1>2. CASE TestProvider
  <2>1. PICK p : /\ view' = [view EXCEPT !.checks[p] = "running"]
                 /\ calls' = Append(calls, TestSaved(p))
                 /\ UNCHANGED <<app, server>>
    BY <1>2 DEF TestProvider
  <2>2. Keeps(view, view')
    BY <2>1 DEF Keeps, Mentioned
  <2>3. CallOk(TestSaved(p), server.written)
    <3> DEFINE a == [p |-> p, key |-> None]
    <3>1. a.key = None
      OBVIOUS
    <3> HIDE DEF a
    <3>2. CallOk(Call("test", a), server.written)
      BY <3>1, KeyCall
    <3> QED
      BY <3>2 DEF TestSaved, a
  <2> QED
    BY <1>0, <2>1, <2>2, <2>3, KeptFollows, CallsAppend, ServedStep
<1>3. CASE RemoveProvider
  <2>1. \E a : Sent("removeProvider", a) /\ UNCHANGED <<app, view, server>>
    BY <1>3 DEF RemoveProvider
  <2> QED
    BY <1>0, <2>1, SentStep DEF Watched
<1>4. CASE CloseProviderSheet
  BY <1>0, <1>4, StillStep DEF CloseProviderSheet, CloseSheet
<1>5. CASE TypeProviderKey
  <2>1. PICK works \in BOOLEAN :
          view' = [view EXCEPT !.sheet.key = [of |-> view.editing, works |-> works]]
    BY <1>5 DEF TypeProviderKey
  <2>2. /\ view.page = "providers" /\ {"editing", "sheet"} \subseteq DOMAIN view
        /\ "key" \in DOMAIN view.sheet /\ "route" \in DOMAIN view /\ "page" \in DOMAIN view
    BY <1>0, <1>5 DEF TypeProviderKey, OnProviders, ViewOk, SheetOk
  <2>3. /\ DOMAIN view' = DOMAIN view /\ view'.page = view.page /\ view'.editing = view.editing
        /\ DOMAIN view'.sheet = DOMAIN view.sheet
        /\ view'.sheet.key = [of |-> view.editing, works |-> works]
    BY <2>1, <2>2
  <2>4. Follows(view, view')
    BY <2>2, <2>3 DEF Follows, ViewOk, SheetOk, Loaded
  <2> QED
    BY <1>5, <2>4, StillStep DEF TypeProviderKey
<1>6. CASE SaveProviderKey
  <2>1. /\ view' = [view EXCEPT !.sheet.busy = TRUE, !.sheet.failure = FALSE]
        /\ OnProviders /\ UNCHANGED <<app, server>>
    BY <1>6 DEF SaveProviderKey
  <2> QED
    BY <1>0, <1>6, <2>1, SheetSaves, FailureShown, ServedStep
<1>7. CASE PollProviders
  BY <1>7, PollStep DEF PollProviders, Polls, Watched
<1> QED
  BY <1>1, <1>2, <1>3, <1>4, <1>5, <1>6, <1>7

LEMMA ProvidersStep ==
  ASSUME CallsInv, ProvidersNext
  PROVE  GoodStep
<1>1. CASE ServeProviders
  BY <1>1, AnsweredStep DEF ServeProviders, Watched
<1>2. CASE ServeRemoveProvider
  <2>1. PICK i \in Pending("removeProvider") :
          /\ \E e : server' = [server EXCEPT !.provider = e]
          /\ Answer(i, None)
          /\ UNCHANGED <<app, view>>
    BY <1>2 DEF ServeRemoveProvider
  <2>2. CallsOk(calls', server.written)
    BY <2>1, PendingCall, AnsweredCalls DEF Watched
  <2> QED
    BY <2>1, <2>2, SameFollows, ServedStep DEF CallsInv
<1>3. CASE ProvidersLoaded
  <2>1. PICK i \in Arrived("providers") :
          /\ \/ view' = view
             \/ \E e : view' = Requested([view EXCEPT !.list = e])
             \/ \E e : view' = [view EXCEPT !.list = e]
          /\ calls' = Without(i)
          /\ UNCHANGED <<app, server>>
    BY <1>3 DEF ProvidersLoaded
  <2>2. ViewOk(view) /\ \A e : Keeps(view, [view EXCEPT !.list = e])
    BY FieldKept DEF CallsInv, Mentioned
  <2>3. \A e : ViewOk([view EXCEPT !.list = e])
    BY <2>2, KeptFollows DEF Follows
  <2>4. Follows(view, view')
    <3>1. CASE view' = view
      BY <2>2, <3>1, SameFollows
    <3>2. CASE \E e : view' = Requested([view EXCEPT !.list = e])
      BY <2>2, <2>3, <3>2, RequestedFollows, FollowsTwice
    <3>3. CASE \E e : view' = [view EXCEPT !.list = e]
      BY <2>2, <3>3, KeptFollows
    <3> QED
      BY <2>1, <3>1, <3>2, <3>3
  <2> QED
    BY <2>1, <2>4, DeliveredStep
<1> QED
  BY <1>1, <1>2, <1>3, ProvidersPageStep, KeyTestServed, KeySaveServed, KeyTestDone, KeySaved,
     KeyRemoved
  DEF ProvidersNext
---------------------------------------------------------------------------
(* The page of an index                                                    *)

\* Pages that are not of an index, whatever happens to an index's fields
Aside(v, w) == /\ DOMAIN w = DOMAIN v
               /\ \A f \in {"page", "route", "sheet", "editing"} \cap DOMAIN v : w[f] = v[f]

LEMMA AsideFollows ==
  ASSUME NEW v, ViewOk(v), v.page # "index", NEW w, Aside(v, w)
  PROVE  Follows(v, w)
<1>1. DOMAIN w = DOMAIN v /\ w.page = v.page /\ w.route = v.route
  BY DEF Aside, ViewOk
<1>2. v.page = "providers" => w.sheet = v.sheet /\ w.editing = v.editing
  BY DEF Aside, ViewOk, SheetOk
<1> QED
  BY <1>1, <1>2 DEF ViewOk, SheetOk, Follows, Loaded

LEMMA KeptAside == ASSUME NEW v, NEW w, Keeps(v, w) PROVE Aside(v, w)
BY DEF Keeps, Aside, Mentioned

LEMMA AsideTwice == ASSUME NEW u, NEW v, NEW w, Aside(u, v), Aside(v, w) PROVE Aside(u, w)
BY DEF Aside

\* A tab that comes on screen
LEMMA ActivateCases ==
  ASSUME NEW v, NEW cs
  PROVE  \/ /\ Activate(v, cs).view = [v EXCEPT !.browse = BrowseEffect(@)]
            /\ Activate(v, cs).calls = Append(cs, Load(v.browse.at, None))
         \/ /\ Activate(v, cs).view = [v EXCEPT !.query = QueryEffect(@, v.route.like)]
            /\ Activate(v, cs).calls = cs \o QueryEffectCalls(v.query, v.route.like)
            /\ v.route.like # None
         \/ /\ Activate(v, cs).view = [v EXCEPT !.map = MapMount(StartMap)]
            /\ Activate(v, cs).calls = Append(cs, MapCall(StartMap))
         \/ Activate(v, cs).view = v /\ Activate(v, cs).calls = cs
<1>1. CASE v.route.tab = "browse"
  BY <1>1 DEF Activate
<1>2. CASE v.route.tab = "query" /\ v.route.like # None
  BY <1>2 DEF Activate
<1>3. CASE v.route.tab = "explore"
  BY <1>3 DEF Activate
<1>4. CASE /\ v.route.tab # "browse" /\ v.route.tab # "explore"
           /\ ~(v.route.tab = "query" /\ v.route.like # None)
  BY <1>4 DEF Activate
<1> QED
  BY <1>1, <1>2, <1>3, <1>4

LEMMA ActivatedCalls ==
  ASSUME NEW v, NEW cs, NEW w, CallsOk(cs, w)
  PROVE  CallsOk(Activate(v, cs).calls, w)
<1>1. \A b, m : CallOk(Load(b, None), w) /\ CallOk(MapCall(m), w)
  BY NewCall DEF Load, MapCall, Watched
<1>2. CallsOk(QueryEffectCalls(v.query, v.route.like), w)
  BY QueryCall, CallsOne, CallsEmpty DEF QueryEffectCalls
<1>3. CallsOk(cs \o QueryEffectCalls(v.query, v.route.like), w)
  BY <1>2, CallsConcat
<1>4. CallsOk(Append(cs, Load(v.browse.at, None)), w) /\ CallsOk(Append(cs, MapCall(StartMap)), w)
  BY <1>1, CallsAppend
<1> QED
  BY <1>3, <1>4, ActivateCases

LEMMA ActivatedView ==
  ASSUME NEW v, NEW cs
  PROVE  LET w == Activate(v, cs).view IN
         /\ Aside(v, w)
         /\ ViewOk(v) /\ Loaded(v) =>
              /\ ViewOk(w) /\ Loaded(w) /\ w.route = v.route /\ w.upsert = v.upsert
              /\ v.route.like = None => w.query = v.query
<1> DEFINE w == Activate(v, cs).view
<1>1. CASE w = [v EXCEPT !.browse = BrowseEffect(@)]
  <2>1. Aside(v, w)
    BY <1>1 DEF Aside
  <2>2. ASSUME ViewOk(v), Loaded(v)
        PROVE  /\ ViewOk(w) /\ Loaded(w) /\ w.route = v.route /\ w.upsert = v.upsert
               /\ w.query = v.query
    <3>1. /\ {"page", "route", "info", "browse", "query", "upsert"} \subseteq DOMAIN v
          /\ v.page = "index" /\ "data" \in DOMAIN v.info /\ v.info.data # None /\ PanelsOk(v)
      BY <2>2 DEF ViewOk, Loaded
    <3>2. /\ DOMAIN w = DOMAIN v /\ w.page = v.page /\ w.route = v.route /\ w.info = v.info
          /\ w.query = v.query /\ w.upsert = v.upsert /\ w.browse = BrowseEffect(v.browse)
      BY <1>1, <3>1
    <3>3. PanelsOk(w)
      BY <3>1, <3>2 DEF PanelsOk
    <3> HIDE DEF w
    <3> QED
      BY <3>1, <3>2, <3>3 DEF ViewOk, Loaded
  <2> QED
    BY <2>1, <2>2
<1>2. CASE w = [v EXCEPT !.query = QueryEffect(@, v.route.like)] /\ v.route.like # None
  <2>1. Aside(v, w)
    BY <1>2 DEF Aside
  <2>2. ASSUME ViewOk(v), Loaded(v)
        PROVE  /\ ViewOk(w) /\ Loaded(w) /\ w.route = v.route /\ w.upsert = v.upsert
               /\ w.browse = v.browse
    <3>1. /\ {"page", "route", "info", "browse", "query", "upsert"} \subseteq DOMAIN v
          /\ v.page = "index" /\ "data" \in DOMAIN v.info /\ v.info.data # None /\ PanelsOk(v)
      BY <2>2 DEF ViewOk, Loaded
    <3>2. /\ DOMAIN w = DOMAIN v /\ w.page = v.page /\ w.route = v.route /\ w.info = v.info
          /\ w.browse = v.browse /\ w.upsert = v.upsert
          /\ w.query = QueryEffect(v.query, v.route.like)
      BY <1>2, <3>1
    <3>3. /\ {"result", "last"} \subseteq DOMAIN w.query
          /\ w.query.result = v.query.result /\ w.query.last = v.query.last
      BY <3>1, <3>2 DEF PanelsOk, QueryEffect
    <3>4. PanelsOk(w)
      BY <3>1, <3>2, <3>3 DEF PanelsOk
    <3> HIDE DEF w
    <3> QED
      BY <3>1, <3>2, <3>4 DEF ViewOk, Loaded
  <2> QED
    BY <1>2, <2>1, <2>2
<1>3. CASE w = [v EXCEPT !.map = MapMount(StartMap)] \/ w = v
  <2>1. Keeps(v, w)
    BY <1>3 DEF Keeps, Mentioned
  <2>2. ASSUME ViewOk(v), Loaded(v)
        PROVE  /\ ViewOk(w) /\ Loaded(w) /\ w.route = v.route /\ w.upsert = v.upsert
               /\ w.browse = v.browse /\ w.query = v.query
    <3> HIDE DEF w
    <3>1. ViewOk(w)
      BY <2>1, <2>2, KeptFollows DEF Follows
    <3>2. /\ w.page = v.page /\ w.route = v.route /\ w.info = v.info /\ w.upsert = v.upsert
          /\ w.browse = v.browse /\ w.query = v.query
      BY <2>1, <2>2 DEF Keeps, Mentioned, ViewOk, Loaded
    <3> QED
      BY <2>2, <3>1, <3>2 DEF Loaded
  <2>3. Aside(v, w)
    BY <2>1, KeptAside
  <2> QED
    BY <2>2, <2>3
<1>4. \/ w = [v EXCEPT !.browse = BrowseEffect(@)]
      \/ w = [v EXCEPT !.query = QueryEffect(@, v.route.like)] /\ v.route.like # None
      \/ w = [v EXCEPT !.map = MapMount(StartMap)] \/ w = v
  BY ActivateCases
<1> QED
  BY <1>1, <1>2, <1>3, <1>4
\* Another tab: the panels stay as they are, but for what its effects do
LEMMA RoutedFollows ==
  ASSUME CallsInv, NEW route
  PROVE  /\ view.page = "index" => Follows(view, IndexRouted(route).view)
         /\ CallsOk(IndexRouted(route).calls, server.written)
<1> DEFINE v == [view EXCEPT !.route = route,
                             !.map = IF route.tab = "explore" THEN @ ELSE None]
           cs == IF route.tab = "explore" THEN calls
                 ELSE Orphan([i \in DOMAIN calls |-> calls[i].op \in {"map", "neighbours"}])
           stays == \/ view.info.data = None
                    \/ route.tab = view.route.tab /\ (route.tab = "query" => route.like = None)
<1>1. CallsOk(cs, server.written) /\ ViewOk(view)
  <2>1. CallsOk(calls, server.written) /\ ViewOk(view)
    BY DEF CallsInv
  <2>2. CallsOk(Orphan([i \in DOMAIN calls |-> calls[i].op \in {"map", "neighbours"}]),
                server.written)
    BY <2>1, CallsOrphan
  <2> QED
    BY <2>1, <2>2
<1>2. /\ IndexRouted(route).view = IF stays THEN v ELSE Activate(v, cs).view
      /\ IndexRouted(route).calls = IF stays THEN cs ELSE Activate(v, cs).calls
  BY DEF IndexRouted
<1>3. CallsOk(IndexRouted(route).calls, server.written)
  <2> HIDE DEF v, cs, stays
  <2> QED
    BY <1>1, <1>2, ActivatedCalls
<1>4. ASSUME view.page = "index"
      PROVE  Follows(view, IndexRouted(route).view)
  <2>1. /\ v.page = "index" /\ v.route = route /\ v.info = view.info
        /\ v.browse = view.browse /\ v.query = view.query /\ v.upsert = view.upsert
        /\ DOMAIN v = DOMAIN view
    BY <1>1, <1>4 DEF ViewOk
  <2> HIDE DEF v, cs
  <2>2. ViewOk(v)
    BY <1>1, <1>4, <2>1 DEF ViewOk, PanelsOk
  <2>3. CASE stays
    BY <1>2, <1>4, <2>1, <2>2, <2>3 DEF Follows, KeepsDrafts
  <2>4. CASE ~stays
    <3> DEFINE w == Activate(v, cs).view
    <3>1. Loaded(v) /\ IndexRouted(route).view = w
      BY <1>2, <1>4, <2>1, <2>4 DEF Loaded
    <3>2. /\ ViewOk(w) /\ Loaded(w) /\ w.route = v.route /\ w.upsert = v.upsert
          /\ v.route.like = None => w.query = v.query
      BY <2>2, <3>1, ActivatedView
    <3> HIDE DEF w
    <3> QED
      BY <2>1, <3>1, <3>2 DEF Follows, KeepsDrafts
  <2> QED
    BY <2>3, <2>4
<1> QED
  BY <1>3, <1>4

\* Calls that a panel no longer hears
LEMMA DetachedCalls ==
  ASSUME NEW cs, NEW w, CallsOk(cs, w)
  PROVE  CallsOk(Detached(cs), w)
<1> DEFINE ds == Detached(cs)
<1>1. ds = [i \in DOMAIN cs |-> ds[i]]
  BY DEF Detached
<1>2. ASSUME NEW i \in DOMAIN cs
      PROVE  \/ ds[i] = cs[i]
             \/ cs[i].op \notin Watched /\ \E x : ds[i] = [cs[i] EXCEPT !.arg = x]
  <2>1. CASE cs[i].op \in {"configure", "deleteIndex", "setEmbedding"}
    <3>1. ds[i] = [cs[i] EXCEPT !.arg.panel = FALSE]
      BY <2>1 DEF Detached
    <3>2. ds[i] = [cs[i] EXCEPT !.arg = [cs[i].arg EXCEPT !.panel = FALSE]]
      BY <3>1
    <3> QED
      BY <2>1, <3>2 DEF Watched
  <2>2. CASE cs[i].op \notin {"configure", "deleteIndex", "setEmbedding"}
    BY <2>2 DEF Detached
  <2> QED
    BY <2>1, <2>2
<1> HIDE DEF ds
<1>3. CallsOk(ds, w)
  BY <1>1, <1>2, CallsChanged
<1> QED
  BY <1>3 DEF ds

LEMMA StillHeardCalls ==
  ASSUME NEW v, NEW cs, NEW w, CallsOk(cs, w)
  PROVE  CallsOk(StillHeard(v, cs), w)
<1> DEFINE gone(i) == v.info.data.count # 0 /\ cs[i].op = "upsert" /\ cs[i].arg.by = "seed"
           ds == [i \in DOMAIN cs |-> [cs[i] EXCEPT !.live = @ /\ ~gone(i)]]
<1>1. ds = [i \in DOMAIN cs |-> ds[i]]
  OBVIOUS
<1>2. ASSUME NEW i \in DOMAIN cs
      PROVE  \E x : ds[i] = [cs[i] EXCEPT !.live = x]
  <2>1. ds[i] = [cs[i] EXCEPT !.live = cs[i].live /\ ~gone(i)]
    OBVIOUS
  <2> QED
    BY <2>1
<1>3. CallsOk(ds, w)
  <2> HIDE DEF ds
  <2> QED
    BY <1>1, <1>2, CallsChanged
<1>4. StillHeard(v, cs) = IF NewWidth(v) THEN Detached(Unpicked(ds)) ELSE ds
  BY DEF StillHeard
<1> HIDE DEF ds
<1>5. CallsOk(Detached(Unpicked(ds)), w)
  BY <1>3, UnpickedCalls, DetachedCalls
<1> QED
  BY <1>3, <1>4, <1>5
\* The panels mount with the first data of the index
LEMMA FirstView ==
  ASSUME NEW v
  PROVE  /\ Aside(v, FirstShown(v))
         /\ /\ {"page", "route", "info", "browse", "query", "upsert"} \subseteq DOMAIN v
            /\ v.page = "index" /\ "data" \in DOMAIN v.info /\ v.info.data # None
            => ViewOk(FirstShown(v)) /\ Loaded(FirstShown(v))
<1> DEFINE w == FirstShown(v)
<1>1. Aside(v, w)
  BY DEF FirstShown, Aside
<1>2. ASSUME /\ {"page", "route", "info", "browse", "query", "upsert"} \subseteq DOMAIN v
             /\ v.page = "index" /\ "data" \in DOMAIN v.info /\ v.info.data # None
      PROVE  ViewOk(w) /\ Loaded(w)
  <2>1. /\ DOMAIN w = DOMAIN v /\ w.page = "index" /\ w.info = v.info
        /\ w.browse = BrowseMount(StartPlace) /\ w.query = QueryMount(v.info.data)
        /\ w.upsert = UpsertMount
    BY <1>2 DEF FirstShown
  <2>2. /\ {"result", "last"} \subseteq DOMAIN QueryMount(v.info.data)
        /\ QueryMount(v.info.data).result = None /\ QueryMount(v.info.data).last = None
    BY DEF QueryMount
  <2>3. /\ {"ns", "records"} \subseteq DOMAIN UpsertMount
        /\ UpsertMount.ns \in Namespaces /\ UpsertMount.records \in Nat
    BY SpaceAssumption DEF UpsertMount
  <2> HIDE DEF w
  <2>4. PanelsOk(w)
    BY <2>1, <2>2, <2>3 DEF PanelsOk
  <2> QED
    BY <1>2, <2>1, <2>4 DEF ViewOk, Loaded
<1> QED
  BY <1>1, <1>2

LEMMA ShownFollows ==
  ASSUME NEW v0, ViewOk(v0), NEW poll, v0.page = "index" => "data" \in DOMAIN poll,
         NEW cs, CallsOk(cs, server.written), ShowIndex(v0, poll, cs)
  PROVE  Follows(v0, view') /\ CallsOk(calls', server.written) /\ server' = server
<1> DEFINE v == [v0 EXCEPT !.info = poll]
           first == Activate(FirstShown(v), cs)
<1>1. /\ Aside(v0, v) /\ DOMAIN v = DOMAIN v0
      /\ v0.page = "index" =>
           /\ {"page", "route", "info", "browse", "query", "upsert"} \subseteq DOMAIN v
           /\ v.page = "index" /\ v.route = v0.route /\ v.info = poll
           /\ v.browse = v0.browse /\ v.query = v0.query /\ v.upsert = v0.upsert
  BY DEF ViewOk, Aside
<1>2. /\ poll.data = None => view' = v /\ calls' = cs
      /\ poll.data # None /\ v0.info.data = None =>
           /\ view' = WithPicker(first.view, first.calls).view
           /\ calls' = WithPicker(first.view, first.calls).calls
      /\ poll.data # None /\ v0.info.data # None =>
           /\ view' = WithPicker(ShownAgain(v), StillHeard(v, cs)).view
           /\ calls' = WithPicker(ShownAgain(v), StillHeard(v, cs)).calls
      /\ server' = server
  BY DEF ShowIndex
<1> HIDE DEF v, first
<1>3. CASE poll.data = None
  <2>1. ViewOk(v)
    BY <1>1, <1>3, AsideFollows DEF ViewOk, Follows
  <2>2. CASE v0.page = "index"
    BY <1>1, <1>2, <1>3, <2>1, <2>2 DEF Follows, Loaded
  <2>3. CASE v0.page # "index"
    BY <1>1, <1>2, <1>3, <2>3, AsideFollows
  <2> QED
    BY <1>2, <1>3, <2>2, <2>3
<1>4. CASE poll.data # None /\ v0.info.data = None
  <2>1. CallsOk(first.calls, server.written) /\ Aside(v0, first.view)
    BY <1>1, FirstView, ActivatedView, ActivatedCalls, AsideTwice DEF first
  <2>2. ViewOk(first.view)
    <3>1. CASE v0.page = "index"
      <4>1. ViewOk(FirstShown(v)) /\ Loaded(FirstShown(v))
        BY <1>1, <1>4, <3>1, FirstView
      <4> QED
        BY <4>1, ActivatedView DEF first
    <3>2. CASE v0.page # "index"
      BY <2>1, <3>2, AsideFollows DEF Follows
    <3> QED
      BY <3>1, <3>2
  <2>3. Keeps(first.view, view') /\ CallsOk(calls', server.written)
    BY <1>2, <1>4, <2>1, <2>2, PickerShown
  <2>4. ViewOk(view') /\ Aside(v0, view')
    BY <2>1, <2>2, <2>3, KeptFollows, KeptAside, AsideTwice DEF Follows
  <2>5. Follows(v0, view')
    BY <1>4, <2>4, AsideFollows DEF Follows, Loaded
  <2> QED
    BY <1>2, <2>3, <2>5
<1>5. CASE poll.data # None /\ v0.info.data # None
  <2> DEFINE u == ShownAgain(v)
  <2>1. Keeps(v, u)
    BY DEF ShownAgain, Keeps, Mentioned
  <2> HIDE DEF u
  <2>2. Aside(v0, u)
    BY <1>1, <2>1, KeptAside, AsideTwice
  <2>3. ViewOk(v)
    <3>1. CASE v0.page = "index"
      <4>1. PanelsOk(v)
        BY <1>1, <1>5, <3>1 DEF ViewOk, PanelsOk
      <4> QED
        BY <1>1, <3>1, <4>1 DEF ViewOk
    <3>2. CASE v0.page # "index"
      BY <1>1, <3>2, AsideFollows DEF Follows
    <3> QED
      BY <3>1, <3>2
  <2>4. ViewOk(u) /\ CallsOk(StillHeard(v, cs), server.written)
    BY <2>1, <2>3, KeptFollows, StillHeardCalls DEF Follows
  <2>5. Keeps(u, view') /\ CallsOk(calls', server.written)
    BY <1>2, <1>5, <2>4, PickerShown DEF u
  <2>6. Keeps(v, view')
    BY <2>1, <2>5, KeepsTwice
  <2>7. ViewOk(view')
    BY <2>3, <2>6, KeptFollows DEF Follows
  <2>8. Follows(v0, view')
    <3>1. CASE v0.page = "index"
      <4>1. /\ view'.route = v0.route /\ view'.browse = v0.browse
            /\ view'.query = v0.query /\ view'.upsert = v0.upsert
        BY <1>1, <2>6, <3>1 DEF Keeps, Mentioned
      <4> QED
        BY <2>7, <4>1 DEF Follows, KeepsDrafts
    <3>2. CASE v0.page # "index"
      BY <1>1, <2>6, <3>2, KeptAside, AsideTwice, AsideFollows
    <3> QED
      BY <3>1, <3>2
  <2> QED
    BY <1>2, <2>5, <2>8
<1> QED
  BY <1>3, <1>4, <1>5
LEMMA PolledData ==
  ASSUME CallsInv, NEW i
  PROVE  view.page = "index" => "data" \in DOMAIN Polled(view.info, i)
BY DEF CallsInv, ViewOk, Polled

LEMMA SavedStep ==
  ASSUME CallsInv, Saved
  PROVE  GoodStep
<1>1. PICK i, done :
         /\ i \in Arrived("configure") \cup Arrived("setEmbedding")
         /\ \/ done = view
            \/ \E e : done = [view EXCEPT !.settings = e]
            \/ \E e : done = [view EXCEPT !.connect = e]
         /\ IF calls[i].live /\ Ok(i)
            THEN ShowIndex(done, [data |-> calls[i].reply, error |-> view.info.error],
                           Without(i) \o OnChanged)
            ELSE /\ view' = done
                 /\ calls' = Without(i) \o (IF Ok(i) THEN OnChanged ELSE <<>>)
                 /\ UNCHANGED <<app, server>>
  <2>1. PICK i \in Arrived("configure") \cup Arrived("setEmbedding") :
          LET done == IF ~calls[i].live \/ ~calls[i].arg.panel THEN view
                      ELSE IF calls[i].op = "configure"
                      THEN [view EXCEPT !.settings.saving = FALSE]
                      ELSE IF Ok(i)
                      THEN [view EXCEPT !.settings.editing = @ /\ calls[i].arg.embed = None]
                      ELSE IF calls[i].arg.picker
                      THEN [view EXCEPT !.connect.busy = FALSE] ELSE view
          IN IF calls[i].live /\ Ok(i)
             THEN ShowIndex(done, [data |-> calls[i].reply, error |-> view.info.error],
                            Without(i) \o OnChanged)
             ELSE /\ view' = done
                  /\ calls' = Without(i) \o (IF Ok(i) THEN OnChanged ELSE <<>>)
                  /\ UNCHANGED <<app, server>>
    BY DEF Saved
  <2> DEFINE done == IF ~calls[i].live \/ ~calls[i].arg.panel THEN view
                     ELSE IF calls[i].op = "configure"
                     THEN [view EXCEPT !.settings.saving = FALSE]
                     ELSE IF Ok(i)
                     THEN [view EXCEPT !.settings.editing = @ /\ calls[i].arg.embed = None]
                     ELSE IF calls[i].arg.picker
                     THEN [view EXCEPT !.connect.busy = FALSE] ELSE view
  <2>2. \/ done = view
        \/ \E e : done = [view EXCEPT !.settings = e]
        \/ \E e : done = [view EXCEPT !.connect = e]
    OBVIOUS
  <2>3. IF calls[i].live /\ Ok(i)
        THEN ShowIndex(done, [data |-> calls[i].reply, error |-> view.info.error],
                       Without(i) \o OnChanged)
        ELSE /\ view' = done
             /\ calls' = Without(i) \o (IF Ok(i) THEN OnChanged ELSE <<>>)
             /\ UNCHANGED <<app, server>>
    BY <2>1
  <2> HIDE DEF done
  <2> QED
    BY <2>2, <2>3
<1>2. Keeps(view, done) /\ ViewOk(view)
  BY <1>1 DEF Keeps, Mentioned, CallsInv
<1>3. ViewOk(done)
  BY <1>2, KeptFollows DEF Follows
<1>4. CallsOk(Without(i), server.written) /\ CallsOk(Without(i) \o OnChanged, server.written)
  <2>1. CallsOk(Without(i), server.written)
    BY <1>1, ArrivedCall, WithoutCalls
  <2> QED
    BY <2>1, RefreshedCalls
<1>5. CASE calls[i].live /\ Ok(i)
  <2> DEFINE poll == [data |-> calls[i].reply, error |-> view.info.error]
  <2>1. "data" \in DOMAIN poll
    OBVIOUS
  <2>2. ShowIndex(done, poll, Without(i) \o OnChanged)
    BY <1>1, <1>5
  <2> HIDE DEF poll
  <2>3. Follows(done, view') /\ CallsOk(calls', server.written) /\ server' = server
    BY <1>3, <1>4, <2>1, <2>2, ShownFollows
  <2> QED
    BY <1>2, <2>3, FollowsTwice, ServedStep
<1>6. CASE ~(calls[i].live /\ Ok(i))
  <2>1. CallsOk(calls', server.written)
    <3>1. CASE Ok(i)
      BY <1>1, <1>4, <1>6, <3>1
    <3>2. CASE ~Ok(i)
      BY <1>1, <1>4, <1>6, <3>2, CallsEmpty, CallsConcat
    <3> QED
      BY <3>1, <3>2
  <2> QED
    BY <1>1, <1>2, <1>6, <2>1, KeptFollows, ServedStep
<1> QED
  BY <1>5, <1>6

LEMMA IndexStep ==
  ASSUME CallsInv, IndexNext
  PROVE  GoodStep
<1>0. ViewOk(view) /\ Follows(view, view) /\ CallsOk(calls, server.written)
  BY SameFollows DEF CallsInv
<1>1. CASE PollIndex
  BY <1>1, PollStep DEF PollIndex, Polls, Watched
<1>2. CASE ServeIndex
  <2>1. PICK i \in Pending("index") :
          /\ \/ \E r : Answer(i, r)
             \/ calls' = [calls EXCEPT ![i].st = "failed", ![i].reply = "missing"]
          /\ UNCHANGED <<app, view, server>>
    BY <1>2 DEF ServeIndex
  <2>2. CallsOk(calls', server.written)
    <3>1. i \in DOMAIN calls /\ calls[i].op \notin Watched
      BY PendingCall DEF Watched
    <3>2. CallsOk([calls EXCEPT ![i].st = "failed", ![i].reply = "missing"], server.written)
      BY <3>1, FailedCalls
    <3> QED
      BY <2>1, <3>1, <3>2, AnsweredCalls
  <2> QED
    BY <1>0, <2>1, <2>2, ServedStep
<1>3. CASE IndexLoaded
  <2>1. PICK i \in Arrived("index") :
          IF calls[i].live THEN ShowIndex(view, Polled(view.info, i), Without(i))
          ELSE calls' = Without(i) /\ UNCHANGED <<app, view, server>>
    BY <1>3 DEF IndexLoaded
  <2>2. CallsOk(Without(i), server.written)
    BY ArrivedCall, WithoutCalls
  <2>3. CASE calls[i].live
    <3>1. Follows(view, view') /\ CallsOk(calls', server.written) /\ server' = server
      BY <1>0, <2>1, <2>2, <2>3, PolledData, ShownFollows
    <3> QED
      BY <3>1, ServedStep
  <2>4. CASE ~calls[i].live
    BY <1>0, <2>1, <2>2, <2>4, ServedStep
  <2> QED
    BY <2>3, <2>4
<1>4. CASE ChooseTab
  BY <1>0, <1>4, StillStep DEF ChooseTab
<1>5. CASE EditSettings
  <2>1. /\ \E e : view' = [view EXCEPT !.settings = e]
        /\ UNCHANGED <<app, calls, server>>
    BY <1>5 DEF EditSettings
  <2>2. Keeps(view, view')
    BY <2>1 DEF Keeps, Mentioned
  <2> QED
    BY <1>0, <2>1, <2>2, KeptFollows, StillStep
<1>6. CASE SaveWidth
  <2>1. /\ \E e : view' = [view EXCEPT !.settings = e]
        /\ \E a : Sent("configure", a)
        /\ UNCHANGED <<app, server>>
    BY <1>6 DEF SaveWidth
  <2>2. Keeps(view, view')
    BY <2>1 DEF Keeps, Mentioned
  <2> QED
    BY <1>0, <2>1, <2>2, KeptFollows, SentStep DEF Watched
<1>7. CASE DeleteIndex
  <2>1. /\ \E e : view' = [view EXCEPT !.settings = e]
        /\ \E a : Sent("deleteIndex", a)
        /\ UNCHANGED <<app, server>>
    BY <1>7 DEF DeleteIndex
  <2>2. Keeps(view, view')
    BY <2>1 DEF Keeps, Mentioned
  <2> QED
    BY <1>0, <2>1, <2>2, KeptFollows, SentStep DEF Watched
<1>8. CASE ServeSettings
  <2>1. PICK i \in Pending("configure") \cup Pending("setEmbedding") :
          /\ \/ calls' = [calls EXCEPT ![i].st = "failed"] /\ UNCHANGED server
             \/ \E e, r : server' = [server EXCEPT !.ef = e] /\ Answer(i, r)
             \/ \E e, r : server' = [server EXCEPT !.embed = e] /\ Answer(i, r)
          /\ UNCHANGED <<app, view>>
    BY <1>8 DEF ServeSettings
  <2>2. i \in DOMAIN calls /\ calls[i].op \notin Watched
    BY PendingCall DEF Watched
  <2>3. CallsOk(calls', server.written)
    BY <2>1, <2>2, AnsweredCalls, FailedCalls
  <2>4. server' = server \/ \E f, e : f # "written" /\ server' = [server EXCEPT ![f] = e]
    BY <2>1
  <2> QED
    BY <1>0, <2>1, <2>3, <2>4, ServedStep
<1>9. CASE ServeDeleteIndex
  <2>1. PICK i \in Pending("deleteIndex") :
          /\ server' = [server EXCEPT !.indexes = {}]
          /\ Answer(i, None) \/ calls' = [calls EXCEPT ![i].st = "failed"]
          /\ UNCHANGED <<app, view>>
    BY <1>9 DEF ServeDeleteIndex
  <2>2. i \in DOMAIN calls /\ calls[i].op \notin Watched
    BY PendingCall DEF Watched
  <2>3. CallsOk(calls', server.written)
    BY <2>1, <2>2, AnsweredCalls, FailedCalls
  <2> QED
    BY <1>0, <2>1, <2>3, ServedStep
<1>10. CASE IndexDeleted
  <2>1. PICK i \in Arrived("deleteIndex") :
          /\ view' = view \/ \E e : view' = [view EXCEPT !.settings = e]
          /\ calls' = Without(i) \o OnChanged \/ calls' = Without(i) \o <<>>
          /\ server' = server
    BY <1>10 DEF IndexDeleted
  <2>2. Keeps(view, view')
    BY <2>1 DEF Keeps, Mentioned
  <2>3. CallsOk(Without(i), server.written)
    BY ArrivedCall, WithoutCalls
  <2>4. CallsOk(Without(i) \o OnChanged, server.written)
        /\ CallsOk(Without(i) \o <<>>, server.written)
    BY <2>3, RefreshedCalls, CallsEmpty, CallsConcat
  <2> QED
    BY <1>0, <2>1, <2>2, <2>4, KeptFollows, ServedStep
<1> QED
  BY <1>1, <1>2, <1>3, <1>4, <1>5, <1>6, <1>7, <1>8, <1>9, <1>10, SavedStep DEF IndexNext
---------------------------------------------------------------------------
(* The application: pages mount, stay mounted with another route, and go   *)

\* What mounts is a fresh page
LEMMA MountedFresh ==
  ASSUME NEW route, NEW m, NEW w
  PROVE  /\ CallsOk(Mounted(route, m).calls, w)
         /\ ViewOk(Mounted(route, m).view) /\ ~Loaded(Mounted(route, m).view)
<1>1. /\ CallsOk(<<>>, w) /\ CallsOk(SubscribeCalls, w)
  BY CallsEmpty, RefreshedCalls
<1> DEFINE Plain(v) == {"page", "route"} \subseteq DOMAIN v /\ v.page \notin {"index", "providers"}
<1>2. ASSUME NEW v, Plain(v)
      PROVE  ViewOk(v) /\ ~Loaded(v)
  BY <1>2 DEF ViewOk, Loaded
<1>3. /\ Plain(Elsewhere(route)) /\ Plain(KeysMount(route)) /\ Plain(OverviewMount(route))
      /\ Plain(SecurityMount(route)) /\ Plain(SignInMount(route)) /\ Plain(DocsMount(route))
      /\ Plain([page |-> "boot", route |-> route])
  BY DEF Elsewhere, KeysMount, OverviewMount, SecurityMount, SignInMount, DocsMount
<1>4. Plain(IndexesMount(route, m))
  BY DEF IndexesMount
<1>5. Plain(PlaygroundMount(route, m))
  BY DEF PlaygroundMount
<1>6. ViewOk(IndexMount(route)) /\ ~Loaded(IndexMount(route))
  BY DEF IndexMount, NoData, ViewOk, Loaded
<1>7. ViewOk(ProvidersMount(route)) /\ ~Loaded(ProvidersMount(route))
  BY DEF ProvidersMount, BlankProviderSheet, ViewOk, Loaded, SheetOk
<1> HIDE DEF Plain
<1> DEFINE Fresh(p) == CallsOk(p.calls, w) /\ ViewOk(p.view) /\ ~Loaded(p.view)
<1>8. ASSUME NEW v, ViewOk(v), ~Loaded(v)
      PROVE  Fresh(Alone(v)) /\ Fresh(WithCatalog(v))
  BY <1>1, <1>8 DEF Alone, WithCatalog
<1> HIDE DEF Fresh
<1>9. /\ Fresh(Alone(Elsewhere(route))) /\ Fresh(Alone(KeysMount(route)))
      /\ Fresh(Alone(OverviewMount(route))) /\ Fresh(Alone(SecurityMount(route)))
      /\ Fresh(Alone(SignInMount(route))) /\ Fresh(Alone(DocsMount(route)))
      /\ Fresh(Alone([page |-> "boot", route |-> route])) /\ Fresh(Alone(IndexMount(route)))
      /\ Fresh(Alone(ProvidersMount(route))) /\ Fresh(WithCatalog(IndexesMount(route, m)))
      /\ Fresh(WithCatalog(PlaygroundMount(route, m)))
  BY <1>2, <1>3, <1>4, <1>5, <1>6, <1>7, <1>8
<1>10. Fresh(MountPage(route, m))
  BY <1>9 DEF MountPage
<1>11. Fresh(Mounted(route, m))
  BY <1>9, <1>10 DEF Mounted
<1> QED
  BY <1>11 DEF Fresh

\* The same page with another route
LEMMA RouteChanged ==
  ASSUME CallsInv, NEW route
  PROVE  Follows(view, Routed(route).view) /\ CallsOk(Routed(route).calls, server.written)
<1> DEFINE v == [view EXCEPT !.route = route]
           same(w) == [view |-> w, calls |-> calls, hash |-> route]
<1>0. /\ ViewOk(view) /\ CallsOk(calls, server.written)
      /\ DOMAIN v = DOMAIN view /\ v.page = view.page /\ v.route = route
  BY DEF CallsInv, ViewOk
<1>1. \A w : same(w).view = w /\ same(w).calls = calls
  OBVIOUS
<1> DEFINE Good(r) == Follows(view, r.view) /\ CallsOk(r.calls, server.written)
<1>2. ASSUME NEW w, Follows(view, w)
      PROVE  Good(same(w))
  BY <1>0, <1>2
<1> HIDE DEF same
<1>3. CASE view.page = "keys"
  <2>1. Routed(route) = same(IF route.new /\ ~view.creating THEN Opened(v) ELSE v)
    BY <1>3 DEF Routed, same
  <2>2. Follows(view, v) /\ Follows(view, Opened(v))
    <3>1. DOMAIN Opened(v) = DOMAIN v /\ ("page" \in DOMAIN v => Opened(v).page = v.page)
      BY DEF Opened
    <3>2. "page" \in DOMAIN v
      BY <1>0 DEF ViewOk
    <3> HIDE DEF v
    <3> QED
      BY <1>0, <1>3, <3>1, <3>2, ElsewhereFollows
  <2> QED
    BY <1>2, <2>1, <2>2
<1>4. CASE view.page = "indexes"
  <2>1. Routed(route) = same(IF route.new /\ Can("admin") THEN IndexSheetOpened(v) ELSE v)
    BY <1>4 DEF Routed, same
  <2>2. Follows(view, v) /\ Follows(view, IndexSheetOpened(v))
    <3>1. DOMAIN IndexSheetOpened(v) = DOMAIN v /\ ("page" \in DOMAIN v => IndexSheetOpened(v).page = v.page)
      BY DEF IndexSheetOpened
    <3>2. "page" \in DOMAIN v
      BY <1>0 DEF ViewOk
    <3> HIDE DEF v
    <3> QED
      BY <1>0, <1>4, <3>1, <3>2, ElsewhereFollows
  <2> QED
    BY <1>2, <2>1, <2>2
<1>5. CASE view.page = "providers"
  <2>1. Routed(route) = same(Requested(v))
    BY <1>5 DEF Routed, same
  <2>2. ViewOk(v)
    BY <1>0, <1>5 DEF ViewOk, SheetOk
  <2>3. Follows(v, Requested(v))
    BY <2>2, RequestedFollows
  <2>4. Follows(view, Requested(v))
    BY <1>0, <1>5, <2>3 DEF Follows, Loaded
  <2> QED
    BY <1>2, <2>1, <2>4
<1>6. CASE view.page = "index"
  <2>1. Routed(route) = IndexRouted(route)
    BY <1>6 DEF Routed
  <2> QED
    BY <1>6, <2>1, RoutedFollows
<1>7. CASE view.page = "playground"
  <2>1. Routed(route) = PlaygroundRouted(route)
    BY <1>7 DEF Routed
  <2> DEFINE cs == Orphan([i \in DOMAIN calls |-> calls[i].op \in {"search", "compare"}])
  <2>2. \/ PlaygroundRouted(route).view = v /\ PlaygroundRouted(route).calls = calls
        \/ /\ PlaygroundRouted(route).view = PlaygroundMount(route, me)
           /\ PlaygroundRouted(route).calls = cs \o SubscribeCalls
    BY DEF PlaygroundRouted
  <2>3. CallsOk(cs \o SubscribeCalls, server.written)
    BY <1>0, CallsOrphan, RefreshedCalls
  <2>4. Follows(view, v)
    BY <1>0, <1>7, ElsewhereFollows
  <2>5. Follows(view, PlaygroundMount(route, me))
    BY NewFollows DEF PlaygroundMount
  <2> QED
    BY <1>0, <2>1, <2>2, <2>3, <2>4, <2>5
<1>8. CASE view.page = "docs"
  <2>1. Routed(route) = same(DocsRouted(v))
    BY <1>8 DEF Routed, same
  <2>2. Follows(view, DocsRouted(v))
    <3>1. DOMAIN DocsRouted(v) = DOMAIN v /\ ("page" \in DOMAIN v => DocsRouted(v).page = v.page)
      BY DEF DocsRouted
    <3>2. "page" \in DOMAIN v
      BY <1>0 DEF ViewOk
    <3> HIDE DEF v
    <3> QED
      BY <1>0, <1>8, <3>1, <3>2, ElsewhereFollows
  <2> QED
    BY <1>2, <2>1, <2>2
<1>9. CASE view.page \notin {"keys", "indexes", "providers", "index", "playground", "docs"}
  <2>1. Routed(route) = same(v)
    BY <1>9 DEF Routed, same
  <2>2. Follows(view, v)
    BY <1>0, <1>9, ElsewhereFollows
  <2> QED
    BY <1>2, <2>1, <2>2
<1> QED
  BY <1>3, <1>4, <1>5, <1>6, <1>7, <1>8, <1>9
LEMMA NavigateStep ==
  ASSUME CallsInv, Navigate
  PROVE  GoodStep
<1> DEFINE stays == Slot(hash, me) = Slot(view.route, me)
           orphans == Orphan([i \in DOMAIN calls |-> ~stays \/ calls[i].op \notin ShellOps])
<1>1. /\ \/ view' = Routed(hash).view /\ calls' = Routed(hash).calls
         \/ view' = Mounted(hash, me).view /\ calls' = orphans \o Mounted(hash, me).calls
      /\ server' = server
  BY DEF Navigate
<1>2. CallsOk(orphans, server.written)
  BY CallsOrphan DEF CallsInv
<1> HIDE DEF orphans
<1>3. CASE view' = Routed(hash).view /\ calls' = Routed(hash).calls
  BY <1>1, <1>3, RouteChanged, ServedStep
<1>4. CASE view' = Mounted(hash, me).view /\ calls' = orphans \o Mounted(hash, me).calls
  <2>1. /\ CallsOk(Mounted(hash, me).calls, server.written)
        /\ ViewOk(view') /\ ~Loaded(view')
    BY <1>4, MountedFresh
  <2>2. Follows(view, view') /\ CallsOk(calls', server.written)
    BY <1>2, <1>4, <2>1, CallsConcat DEF Follows
  <2> QED
    BY <1>1, <2>2, ServedStep
<1> QED
  BY <1>1, <1>3, <1>4

LEMMA MeStep ==
  ASSUME CallsInv, MeDecided
  PROVE  GoodStep
<1>1. PICK i, m :
         /\ i \in DOMAIN calls
         /\ \/ view' = view /\ calls' = Without(i)
            \/ /\ view' = Mounted(view.route, m).view
               /\ calls' = RemoveAt(Orphaned, i) \o Mounted(view.route, m).calls
         /\ server' = server
  BY DEF MeDecided
<1>2. CASE view' = view /\ calls' = Without(i)
  BY <1>1, <1>2, WithoutCalls, SameFollows, ServedStep DEF CallsInv
<1>3. CASE /\ view' = Mounted(view.route, m).view
           /\ calls' = RemoveAt(Orphaned, i) \o Mounted(view.route, m).calls
  <2>1. CallsOk(Orphaned, server.written) /\ i \in DOMAIN Orphaned
    BY <1>1, CallsOrphan DEF CallsInv, Orphaned
  <2>2. CallsOk(RemoveAt(Orphaned, i), server.written)
    BY <2>1, CallsDrop
  <2>3. /\ CallsOk(Mounted(view.route, m).calls, server.written)
        /\ ViewOk(view') /\ ~Loaded(view')
    BY <1>3, MountedFresh
  <2>4. Follows(view, view') /\ CallsOk(calls', server.written)
    BY <1>3, <2>2, <2>3, CallsConcat DEF Follows
  <2> QED
    BY <1>1, <2>4, ServedStep
<1> QED
  BY <1>1, <1>2, <1>3

LEMMA ModelsSeen ==
  ASSUME NEW v, ViewOk(v), NEW seen
  PROVE  Follows(v, WithModels(v, seen))
<1> DEFINE w == [v EXCEPT !.models.seen = seen]
           x == WithModels(v, seen)
<1>1. Keeps(v, w)
  BY DEF Keeps, Mentioned
<1>2. DOMAIN w = DOMAIN v /\ w.page = v.page
  BY DEF ViewOk
<1> HIDE DEF w
<1>3. CASE v.page = "indexes"
  <2>1. DOMAIN x = DOMAIN w /\ ("page" \in DOMAIN w => x.page = w.page)
    BY <1>3 DEF WithModels, w
  <2>2. "page" \in DOMAIN w
    BY <1>2 DEF ViewOk
  <2> HIDE DEF x
  <2>3. Follows(v, x)
    BY <1>2, <1>3, <2>1, <2>2, ElsewhereFollows
  <2> QED
    BY <2>3 DEF x
<1>4. CASE v.page = "playground"
  <2>1. DOMAIN x = DOMAIN w /\ ("page" \in DOMAIN w => x.page = w.page)
    BY <1>4 DEF WithModels, w
  <2>2. "page" \in DOMAIN w
    BY <1>2 DEF ViewOk
  <2> HIDE DEF x
  <2>3. Follows(v, x)
    BY <1>2, <1>4, <2>1, <2>2, ElsewhereFollows
  <2> QED
    BY <2>3 DEF x
<1>5. CASE v.page \notin {"indexes", "playground"}
  <2>1. x = w
    BY <1>5 DEF WithModels, w
  <2> QED
    BY <1>1, <2>1, KeptFollows
<1> QED
  BY <1>3, <1>4, <1>5

LEMMA ListStep ==
  ASSUME CallsInv, IndexesLoaded
  PROVE  GoodStep
<1>1. PICK i, list :
         /\ i \in Arrived("indexes")
         /\ \/ view' = Listed(view, list) /\ calls' = RemoveAt(ListedCalls(view, list), i)
            \/ view' = view /\ calls' = Without(i)
         /\ server' = server
  BY DEF IndexesLoaded
<1>2. i \in DOMAIN calls /\ ViewOk(view)
  BY <1>1, ArrivedCall DEF CallsInv
<1>3. CASE view' = view /\ calls' = Without(i)
  BY <1>1, <1>2, <1>3, WithoutCalls, SameFollows, ServedStep
<1>4. CASE view' = Listed(view, list) /\ calls' = RemoveAt(ListedCalls(view, list), i)
  <2>1. view' = view \/ \E e : view' = [view EXCEPT !.search = e]
    BY <1>4 DEF Listed
  <2>2. Keeps(view, view')
    BY <2>1 DEF Keeps, Mentioned
  <2> DEFINE cs == ListedCalls(view, list)
  <2>3. cs = calls \/ cs = Outdated("search")
    BY DEF ListedCalls
  <2>4. DOMAIN cs = DOMAIN calls
    BY <2>3 DEF Outdated
  <2>5. CallsOk(cs, server.written)
    <3>1. CallsOk(Outdated("search"), server.written)
      BY OutdatedCalls DEF Watched
    <3> QED
      BY <2>3, <3>1 DEF CallsInv
  <2> HIDE DEF cs
  <2>6. CallsOk(RemoveAt(cs, i), server.written)
    BY <1>2, <2>4, <2>5, CallsDrop
  <2> QED
    BY <1>1, <1>2, <1>4, <2>2, <2>6, KeptFollows, ServedStep DEF cs
<1> QED
  BY <1>1, <1>3, <1>4

LEMMA AppStep ==
  ASSUME CallsInv, AppNext
  PROVE  GoodStep
<1>1. CASE ModelsLoaded
  <2>1. PICK i \in Arrived("models") :
          /\ view' = view \/ view' = WithModels(view, calls[i].reply)
          /\ calls' = Without(i)
          /\ server' = server
    BY <1>1 DEF ModelsLoaded
  <2>2. Follows(view, view')
    BY <2>1, ModelsSeen, SameFollows DEF CallsInv
  <2> QED
    BY <2>1, <2>2, DeliveredStep
<1> QED
  BY <1>1, NavigateStep, MeStep, ListStep, NetworkStep, SignInStep DEF AppNext

---------------------------------------------------------------------------
(* The whole dashboard                                                     *)

LEMMA FirstCalls ==
  ASSUME Init
  PROVE  CallsInv
<1>1. /\ "written" \in DOMAIN server /\ DOMAIN server.written = Namespaces
      /\ view = Mounted(hash, "boot").view /\ calls = <<Call("me", None)>>
  BY DEF Init
<1>2. CallOk(Call("me", None), server.written)
  BY NewCall DEF Watched
<1>3. CallsOk(calls, server.written)
  BY <1>1, <1>2, CallsOne
<1>4. ViewOk(view)
  BY <1>1, MountedFresh
<1> QED
  BY <1>1, <1>3, <1>4 DEF CallsInv

LEMMA EveryStep ==
  ASSUME CallsInv, Next
  PROVE  GoodStep
<1>1. CASE ServeModels
  BY <1>1, AnsweredStep DEF ServeModels, Watched
<1>2. CASE AppNext \/ SignInNext
  BY <1>2, AppStep, SignInStep
<1>3. CASE ShellNext \/ KeysNext \/ ProvidersNext
  BY <1>3, ShellStep, KeysStep, ProvidersStep
<1>4. CASE IndexNext \/ BrowseNext \/ QueryNext \/ UpsertNext
  BY <1>4, IndexStep, BrowseStep, QueryStep, UpsertStep
<1>5. CASE MapNext \/ ConnectNext \/ IndexesNext \/ PlaygroundNext
  BY <1>5, MapStep, ConnectStep, IndexesStep, PlaygroundStep
<1>6. CASE OverviewNext \/ SecurityNext \/ DocsNext
  BY <1>6, OverviewStep, SecurityStep, DocsStep
<1> QED
  BY <1>1, <1>2, <1>3, <1>4, <1>5, <1>6 DEF Next

LEMMA NoStep ==
  ASSUME CallsInv, UNCHANGED vars
  PROVE  CallsInv'
BY DEF vars, app, CallsInv

\* Each call in flight is as it was made, wherever the page has gone since:
\* a batch follows those before it, a key goes to the provider it was typed
\* for, an answer names its query; and the sheet of Settings and the panels of
\* an index hold what such calls are made from.
THEOREM CallsInvariant == Spec => []CallsInv
<1>1. Init => CallsInv
  BY FirstCalls
<1>2. CallsInv /\ [Next]_vars => CallsInv'
  BY EveryStep, NoStep DEF GoodStep
<1> QED
  BY <1>1, <1>2, PTL DEF Spec
---------------------------------------------------------------------------
(* What follows                                                            *)

\* Every batch of an upsert, of the Upsert panel or of the sample data, is
\* sent after all records before it are in the namespace of the first: the
\* loops of pages/UpsertPanel.tsx and IndexPage.tsx skip nothing and do not
\* change their destination, whatever the user types or opens meanwhile.
THEOREM EveryBatchFollows == Spec => []BatchesComplete
<1>1. CallsInv => BatchesComplete
  BY DEF CallsInv, CallsOk, CallOk, BatchOk, BatchesComplete
<1> QED
  BY <1>1, CallsInvariant, PTL

\* No key of a provider reaches another one, and one that does not work is
\* saved only by "Save anyway" (pages/Settings.tsx, KeySheet).
THEOREM KeysStayWithTheirProvider == Spec => []KeysSentAsTyped
<1>1. CallsInv => KeysSentAsTyped
  <2>1. ASSUME CallsInv, NEW i \in DOMAIN calls, calls[i].op \in {"test", "setProvider"}
        PROVE  KeyOk(calls[i])
    BY <2>1 DEF CallsInv, CallsOk, CallOk
  <2> QED
    BY <2>1, Zenon DEF KeyOk, KeysSentAsTyped
<1> QED
  BY <1>1, CallsInvariant, PTL

\* None is no answer of a query, as undefined is no object in the code
NoneIsNoAnswer == \A body, matches : [body |-> body, matches |-> matches] # None

\* The request shown beside the results of a query, and copied as cURL, is the
\* one they answer, though queries overlap and some fail (pages/QueryPanel.tsx,
\* setResult and setLastBody).
THEOREM ResultsGoWithTheirRequest ==
  ASSUME NoneIsNoAnswer
  PROVE  Spec => []ResultMatchesRequest
<1>1. CallsInv => ResultMatchesRequest
  <2>1. ASSUME NEW r, NEW body, IsAnswer(r, body)
        PROVE  r # None /\ r.body = body
    BY <2>1 DEF IsAnswer, NoneIsNoAnswer
  <2> QED
    BY <2>1 DEF CallsInv, ViewOk, PanelsOk, ResultMatchesRequest
<1> QED
  BY <1>1, CallsInvariant, PTL

\* "Panels stay mounted so a half-written query survives switching tabs": no
\* step that changes the tab of an index touches what is typed in Upsert, nor,
\* unless the link carries a record, the query (pages/IndexPage.tsx).
THEOREM DraftsOutliveTabs == Spec => DraftsSurviveTabs
<1>1. CallsInv /\ [Next]_vars =>
        [/\ OnIndex /\ OnIndex'
         /\ view'.route.tab # view.route.tab
         => /\ view'.upsert = view.upsert
            /\ view'.route.like = None => view'.query = view.query]_view
  <2>1. CallsInv /\ Next =>
          (/\ OnIndex /\ OnIndex'
           /\ view'.route.tab # view.route.tab
           => /\ view'.upsert = view.upsert
              /\ view'.route.like = None => view'.query = view.query)
    BY EveryStep DEF GoodStep, Follows, Loaded, OnIndex, KeepsDrafts
  <2>2. UNCHANGED vars => view' = view
    BY DEF vars
  <2> QED
    BY <2>1, <2>2
<1> QED
  BY <1>1, CallsInvariant, PTL DEF Spec, DraftsSurviveTabs
=============================================================================
