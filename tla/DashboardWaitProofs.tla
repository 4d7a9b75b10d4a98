------------------------ MODULE DashboardWaitProofs ------------------------
(***************************************************************************)
(* Dashboard: WaitInv is an invariant, and with it no button or spinner    *)
(* waits for a call that will not come, and the map shown is the one that  *)
(* is chosen. There is one lemma for each page's actions. At the end, that *)
(* ChartInv is one, and that the charts of the overview do not shift.      *)
(***************************************************************************)
EXTENDS DashboardShownProofs

---------------------------------------------------------------------------
(* What is awaited: what the operators of Client do to it                  *)

Of(cs) == {cs[i] : i \in DOMAIN cs}
Pair(c) == <<c.op, c.arg>>
Waits(c) == c.live /\ c.op \in Awaited

LEMMA WaitingIs == ASSUME NEW cs PROVE Waiting(cs) = {Pair(c) : c \in {d \in Of(cs) : Waits(d)}}
BY DEF Waiting, Of, Pair, Waits

LEMMA AskedIs == ASSUME NEW cs PROVE Asked(cs) <=> \A c \in Of(cs) : AskedOk(c)
BY DEF Asked, Of

LEMMA OfAppend ==
  ASSUME NEW cs, NEW w, CallsOk(cs, w), NEW c
  PROVE  Of(Append(cs, c)) = Of(cs) \cup {c}
<1> DEFINE S == {cs[i] : i \in DOMAIN cs}
           ds == Append(cs, c)
<1>1. cs \in Seq(S)
  BY DEF CallsOk
<1>2. /\ \A j \in DOMAIN ds : ds[j] = c \/ (j \in DOMAIN cs /\ ds[j] = cs[j])
      /\ \A j \in DOMAIN cs : j \in DOMAIN ds /\ ds[j] = cs[j]
      /\ Len(cs) + 1 \in DOMAIN ds /\ ds[Len(cs) + 1] = c
  <2> HIDE DEF S
  <2> QED
    BY <1>1
<1> HIDE DEF ds
<1>3. Of(ds) = Of(cs) \cup {c}
  BY <1>2 DEF Of
<1> QED
  BY <1>3 DEF ds

LEMMA OfConcat ==
  ASSUME NEW cs, NEW w, CallsOk(cs, w), NEW ds, CallsOk(ds, w)
  PROVE  Of(cs \o ds) = Of(cs) \cup Of(ds)
<1> DEFINE S == {cs[i] : i \in DOMAIN cs} \cup {ds[i] : i \in DOMAIN ds}
           es == cs \o ds
<1>1. cs \in Seq(S) /\ ds \in Seq(S)
  BY DEF CallsOk
<1>2. /\ \A j \in DOMAIN es : \/ j \in DOMAIN cs /\ es[j] = cs[j]
                              \/ j - Len(cs) \in DOMAIN ds /\ es[j] = ds[j - Len(cs)]
      /\ \A j \in DOMAIN cs : j \in DOMAIN es /\ es[j] = cs[j]
      /\ \A j \in DOMAIN ds : j + Len(cs) \in DOMAIN es /\ es[j + Len(cs)] = ds[j]
  <2> HIDE DEF S
  <2> QED
    BY <1>1
<1> HIDE DEF es
<1>3. Of(es) = Of(cs) \cup Of(ds)
  BY <1>2 DEF Of
<1> QED
  BY <1>3 DEF es

LEMMA OfNone == Of(<<>>) = {}
BY DEF Of

LEMMA OfOne == ASSUME NEW c PROVE Of(<<c>>) = {c}
BY DEF Of

LEMMA OfSlice ==
  ASSUME NEW cs, NEW w, CallsOk(cs, w), NEW m \in Nat \ {0}, NEW n \in Nat, n <= Len(cs)
  PROVE  Of(SubSeq(cs, m, n)) = {cs[i] : i \in m .. n}
<1> DEFINE S == {cs[j] : j \in DOMAIN cs}
           ds == SubSeq(cs, m, n)
<1>1. cs \in Seq(S)
  BY DEF CallsOk
<1>2. /\ \A j \in DOMAIN ds : m + j - 1 \in m .. n /\ ds[j] = cs[m + j - 1]
      /\ \A i \in m .. n : i - m + 1 \in DOMAIN ds /\ ds[i - m + 1] = cs[i]
  <2> HIDE DEF S
  <2> QED
    BY <1>1
<1> HIDE DEF ds
<1>3. ASSUME NEW c \in Of(ds) PROVE c \in {cs[i] : i \in m .. n}
  <2>1. PICK j \in DOMAIN ds : c = ds[j]
    BY DEF Of
  <2> QED
    BY <1>2, <2>1
<1>4. ASSUME NEW i \in m .. n PROVE cs[i] \in Of(ds)
  BY <1>2 DEF Of
<1> QED
  BY <1>3, <1>4 DEF ds

LEMMA OfDrop ==
  ASSUME NEW cs, NEW w, CallsOk(cs, w), NEW i \in DOMAIN cs
  PROVE  Of(cs) = Of(RemoveAt(cs, i)) \cup {cs[i]}
<1> DEFINE k == i + 1
           h == i - 1
           n == Len(cs)
<1>1. 1 \in Nat \ {0} /\ k \in Nat \ {0} /\ h \in Nat /\ h <= n /\ n \in Nat /\ n <= n
      /\ DOMAIN cs = 1 .. n
  BY CallsElement
<1>5. 1 .. n = (1 .. h) \cup (k .. n) \cup {i}
  BY <1>1
<1> HIDE DEF k, h
<1>2. CallsOk(SubSeq(cs, 1, h), w) /\ CallsOk(SubSeq(cs, k, n), w)
  BY <1>1, CallsSlice
<1>3. Of(SubSeq(cs, 1, h)) = {cs[j] : j \in 1 .. h} /\ Of(SubSeq(cs, k, n)) = {cs[j] : j \in k .. n}
  <2> HIDE DEF n
  <2>1. Of(SubSeq(cs, 1, h)) = {cs[j] : j \in 1 .. h}
    BY <1>1, OfSlice DEF n
  <2>2. Of(SubSeq(cs, k, n)) = {cs[j] : j \in k .. n}
    BY <1>1, OfSlice DEF n
  <2> QED
    BY <2>1, <2>2
<1>4. RemoveAt(cs, i) = SubSeq(cs, 1, h) \o SubSeq(cs, k, n)
  BY DEF RemoveAt, k, h
<1>6. Of(RemoveAt(cs, i)) = {cs[j] : j \in 1 .. h} \cup {cs[j] : j \in k .. n}
  <2>1. Of(SubSeq(cs, 1, h) \o SubSeq(cs, k, n)) = Of(SubSeq(cs, 1, h)) \cup Of(SubSeq(cs, k, n))
    BY <1>2, OfConcat
  <2> QED
    BY <1>3, <1>4, <2>1, Zenon
<1> HIDE DEF n
<1>7. Of(cs) = {cs[j] : j \in 1 .. n}
  BY <1>1 DEF Of
<1> QED
  BY <1>5, <1>6, <1>7

---------------------------------------------------------------------------
(* The same of what is awaited, and of the calls as they were asked        *)

LEMMA WaitingAppend ==
  ASSUME NEW cs, NEW w, CallsOk(cs, w), NEW c
  PROVE  /\ Waits(c) => Waiting(Append(cs, c)) = Waiting(cs) \cup {Pair(c)}
         /\ ~Waits(c) => Waiting(Append(cs, c)) = Waiting(cs)
         /\ Asked(cs) /\ AskedOk(c) => Asked(Append(cs, c))
<1>1. Of(Append(cs, c)) = Of(cs) \cup {c}
  BY OfAppend
<1>2. /\ Waiting(cs) = {Pair(d) : d \in {d \in Of(cs) : Waits(d)}}
      /\ Waiting(Append(cs, c)) = {Pair(d) : d \in {d \in Of(cs) \cup {c} : Waits(d)}}
  BY <1>1, WaitingIs
<1>3. Asked(cs) /\ AskedOk(c) => Asked(Append(cs, c))
  BY <1>1, AskedIs
<1>4. Waits(c) => Waiting(Append(cs, c)) = Waiting(cs) \cup {Pair(c)}
  BY <1>2
<1>5. ~Waits(c) => Waiting(Append(cs, c)) = Waiting(cs)
  BY <1>2
<1> QED
  BY <1>3, <1>4, <1>5

LEMMA WaitingConcat ==
  ASSUME NEW cs, NEW w, CallsOk(cs, w), NEW ds, CallsOk(ds, w)
  PROVE  /\ Waiting(cs \o ds) = Waiting(cs) \cup Waiting(ds)
         /\ Asked(cs) /\ Asked(ds) => Asked(cs \o ds)
<1>1. Of(cs \o ds) = Of(cs) \cup Of(ds)
  BY OfConcat
<1>2. /\ Waiting(cs) = {Pair(d) : d \in {d \in Of(cs) : Waits(d)}}
      /\ Waiting(ds) = {Pair(d) : d \in {d \in Of(ds) : Waits(d)}}
      /\ Waiting(cs \o ds) = {Pair(d) : d \in {d \in Of(cs) \cup Of(ds) : Waits(d)}}
  BY <1>1, WaitingIs
<1>3. Asked(cs) /\ Asked(ds) => Asked(cs \o ds)
  BY <1>1, AskedIs
<1>4. Waiting(cs \o ds) = Waiting(cs) \cup Waiting(ds)
  BY <1>2
<1> QED
  BY <1>3, <1>4

LEMMA WaitingOne ==
  ASSUME NEW c
  PROVE  /\ Waits(c) => Waiting(<<c>>) = {Pair(c)}
         /\ ~Waits(c) => Waiting(<<c>>) = {}
         /\ AskedOk(c) => Asked(<<c>>)
         /\ Waiting(<<>>) = {} /\ Asked(<<>>)
<1>1. /\ Waiting(<<c>>) = {Pair(d) : d \in {d \in {c} : Waits(d)}}
      /\ Waiting(<<>>) = {Pair(d) : d \in {d \in {} : Waits(d)}}
  BY WaitingIs, OfOne, OfNone
<1>2. /\ Waits(c) => Waiting(<<c>>) = {Pair(c)}
      /\ ~Waits(c) => Waiting(<<c>>) = {}
      /\ Waiting(<<>>) = {}
  BY <1>1
<1>3. (AskedOk(c) => Asked(<<c>>)) /\ Asked(<<>>)
  BY AskedIs, OfOne, OfNone
<1> QED
  BY <1>2, <1>3

LEMMA WaitingDrop ==
  ASSUME NEW cs, NEW w, CallsOk(cs, w), NEW i \in DOMAIN cs
  PROVE  /\ Waiting(RemoveAt(cs, i)) \subseteq Waiting(cs)
         /\ Waits(cs[i]) => Waiting(cs) = Waiting(RemoveAt(cs, i)) \cup {Pair(cs[i])}
         /\ ~Waits(cs[i]) => Waiting(RemoveAt(cs, i)) = Waiting(cs)
         /\ Asked(cs) => Asked(RemoveAt(cs, i))
<1>1. Of(cs) = Of(RemoveAt(cs, i)) \cup {cs[i]}
  BY OfDrop
<1> DEFINE c == cs[i]
           ds == RemoveAt(cs, i)
<1>2. /\ Waiting(ds) = {Pair(d) : d \in {d \in Of(ds) : Waits(d)}}
      /\ Waiting(cs) = {Pair(d) : d \in {d \in Of(ds) \cup {c} : Waits(d)}}
  BY <1>1, WaitingIs
<1>3. Asked(cs) => Asked(ds)
  BY <1>1, AskedIs
<1> HIDE DEF c, ds
<1>4. /\ Waiting(ds) \subseteq Waiting(cs)
      /\ Waits(c) => Waiting(cs) = Waiting(ds) \cup {Pair(c)}
      /\ ~Waits(c) => Waiting(ds) = Waiting(cs)
  BY <1>2
<1> QED
  BY <1>3, <1>4 DEF c, ds

\* Calls that are changed where they are, but for what is awaited
LEMMA WaitingSame ==
  ASSUME NEW cs, NEW ds, DOMAIN ds = DOMAIN cs,
         \A i \in DOMAIN cs : ds[i].op = cs[i].op /\ ds[i].arg = cs[i].arg /\ ds[i].live = cs[i].live
  PROVE  Waiting(ds) = Waiting(cs)
BY DEF Waiting

LEMMA WaitingPut ==
  ASSUME NEW cs, NEW i \in DOMAIN cs, NEW c, c.op = cs[i].op, c.arg = cs[i].arg, c.live = cs[i].live
  PROVE  /\ Waiting([cs EXCEPT ![i] = c]) = Waiting(cs)
         /\ Asked(cs) /\ AskedOk(c) => Asked([cs EXCEPT ![i] = c])
<1>1. Waiting([cs EXCEPT ![i] = c]) = Waiting(cs)
  BY WaitingSame
<1>2. Asked(cs) /\ AskedOk(c) => Asked([cs EXCEPT ![i] = c])
  BY DEF Asked
<1> QED
  BY <1>1, <1>2

---------------------------------------------------------------------------
(* Steps that a page does not wait for                                     *)

Screen(waiting, v) == OfPage(waiting, v) /\ PageWaits(waiting, v)

\* The fields of a view that PageWaits speaks of
Waited == {"page", "route", "busy", "sheet", "checks", "creating", "search", "compare", "info",
           "browse", "query", "upsert", "seed", "settings", "connect", "map"}

IsFunction(v) == v = [f \in DOMAIN v |-> v[f]]
Alike(v, w) == /\ DOMAIN w = DOMAIN v /\ \A f \in Waited \cap DOMAIN v : w[f] = v[f]
               /\ IsFunction(v) => IsFunction(w)

KeepsServer == /\ {"ef", "embed"} \subseteq DOMAIN server'
               /\ server'.ef = server.ef /\ server'.embed = server.embed

KeepsCalls == Waiting(calls') = Waiting(calls) /\ Asked(calls')

LEMMA ServerKept ==
  ASSUME WaitInv, server' = server \/ \E f, e : f \notin {"ef", "embed"}
                                                /\ server' = [server EXCEPT ![f] = e]
  PROVE  KeepsServer
BY DEF KeepsServer, WaitInv

LEMMA FieldAlike ==
  ASSUME NEW v, NEW f, f \notin Waited, NEW e
  PROVE  Alike(v, [v EXCEPT ![f] = e])
<1> DEFINE w == [v EXCEPT ![f] = e]
<1>1. DOMAIN w = DOMAIN v /\ \A g \in Waited \cap DOMAIN v : w[g] = v[g]
  OBVIOUS
<1>2. IsFunction(w)
  BY DEF IsFunction
<1> QED
  BY <1>1, <1>2 DEF Alike

LEMMA SameAlike == ASSUME NEW v PROVE Alike(v, v)
BY DEF Alike

LEMMA AlikeTwice == ASSUME NEW u, NEW v, NEW w, Alike(u, v), Alike(v, w) PROVE Alike(u, w)
BY DEF Alike

LEMMA AlikeFields ==
  ASSUME NEW v, NEW w, ViewOk(v), Alike(v, w)
  PROVE  w.page = v.page /\ w.route = v.route
BY DEF Alike, Waited, ViewOk

LEMMA AlikeScreen ==
  ASSUME NEW waiting, NEW v, NEW w, ViewOk(v), ShownOk(v), Screen(waiting, v), Alike(v, w)
  PROVE  Screen(waiting, w)
<1>1. w.page = v.page /\ w.route = v.route
  BY AlikeFields
<1>2. OfPage(waiting, w)
  BY <1>1 DEF Screen, OfPage
<1>3. CASE v.page = "signin"
  <2>1. SignInWaits(waiting, v)
    BY <1>3 DEF Screen, PageWaits
  <2>2. SignInWaits(waiting, w)
    BY <2>1 DEF SignInWaits, Alike, Waited
  <2> QED
    BY <1>1, <1>2, <1>3, <2>2 DEF Screen, PageWaits
<1>4. CASE v.page = "keys"
  <2>1. KeysWaits(waiting, v)
    BY <1>4 DEF Screen, PageWaits
  <2>2. KeysWaits(waiting, w)
    BY <2>1 DEF KeysWaits, Alike, Waited
  <2> QED
    BY <1>1, <1>2, <1>4, <2>2 DEF Screen, PageWaits
<1>5. CASE v.page = "providers"
  <2>1. ProvidersWaits(waiting, v)
    BY <1>5 DEF Screen, PageWaits
  <2>2. ProvidersWaits(waiting, w)
    BY <2>1 DEF ProvidersWaits, Alike, Waited
  <2> QED
    BY <1>1, <1>2, <1>5, <2>2 DEF Screen, PageWaits
<1>6. CASE v.page = "indexes"
  <2>1. IndexesWaits(waiting, v)
    BY <1>6 DEF Screen, PageWaits
  <2>2. IndexesWaits(waiting, w)
    BY <2>1 DEF IndexesWaits, Alike, Waited
  <2> QED
    BY <1>1, <1>2, <1>6, <2>2 DEF Screen, PageWaits
<1>7. CASE v.page = "playground"
  <2>1. PlaygroundWaits(waiting, v) /\ {"search", "compare"} \subseteq DOMAIN v
    BY <1>7 DEF Screen, PageWaits, ShownOk
  <2>2. w.search = v.search /\ w.compare = v.compare /\ IsFunction(w)
    BY <2>1 DEF PlaygroundWaits, Alike, Waited, IsFunction
  <2>3. PlaygroundWaits(waiting, w)
    BY <2>1, <2>2 DEF PlaygroundWaits, IsFunction
  <2> QED
    BY <1>1, <1>2, <1>7, <2>3 DEF Screen, PageWaits
<1>8. CASE v.page = "index"
  <2>1. IndexWaits(waiting, v)
    BY <1>8 DEF Screen, PageWaits
  <2>2. /\ w.info = v.info /\ w.browse = v.browse /\ w.query = v.query /\ w.upsert = v.upsert
        /\ w.seed = v.seed /\ w.settings = v.settings /\ w.connect = v.connect /\ w.map = v.map
        /\ DOMAIN w = DOMAIN v
    BY <2>1 DEF IndexWaits, Alike, Waited
  <2>3. PanelsWait(waiting, v) => PanelsWait(waiting, w)
    BY <2>2 DEF PanelsWait
  <2>4. MapWaits(waiting, v) => MapWaits(waiting, w)
    BY <1>1, <2>2 DEF MapWaits
  <2>5. IndexWaits(waiting, w)
    BY <2>1, <2>2, <2>3, <2>4 DEF IndexWaits
  <2> QED
    BY <1>1, <1>2, <1>8, <2>5 DEF Screen, PageWaits
<1>9. CASE v.page \notin {"signin", "keys", "providers", "indexes", "playground", "index"}
  BY <1>1, <1>2, <1>9 DEF Screen, PageWaits
<1> QED
  BY <1>3, <1>4, <1>5, <1>6, <1>7, <1>8, <1>9

LEMMA InvParts ==
  ASSUME Inv
  PROVE  /\ NewestInv /\ CallsInv /\ WaitInv /\ ViewOk(view) /\ ShownOk(view)
         /\ CallsOk(calls, server.written) /\ Asked(calls) /\ Screen(Waiting(calls), view)
         /\ {"page", "route"} \subseteq DOMAIN view
BY DEF Inv, NewestInv, CallsInv, ShownInv, WaitInv, Screen, ViewOk

\* A step of the page on screen
LEMMA PageStep ==
  ASSUME Inv, KeepsServer, Asked(calls'), me' = me,
         view'.page = view.page, view'.route = view.route, Screen(Waiting(calls'), view')
  PROVE  WaitInv'
BY DEF Inv, WaitInv, KeepsServer, FrameOk, Screen

\* A step that it does not notice
LEMMA QuietStep ==
  ASSUME Inv, KeepsServer, KeepsCalls, me' = me, Alike(view, view')
  PROVE  WaitInv'
<1>1. Screen(Waiting(calls'), view')
  BY InvParts, AlikeScreen DEF KeepsCalls
<1>2. view'.page = view.page /\ view'.route = view.route
  BY InvParts, AlikeFields
<1> QED
  BY <1>1, <1>2, PageStep DEF KeepsCalls

---------------------------------------------------------------------------
(* Calls: sent, answered, delivered                                        *)

Checked == {"login", "map", "upsert", "index", "configure", "setEmbedding"}
Answered == {"login", "map", "index", "configure", "setEmbedding"}

LEMMA NewAsked ==
  ASSUME NEW op, NEW arg, NEW live
  PROVE  /\ Pair(Call(op, arg)) = <<op, arg>>
         /\ Pair([Call(op, arg) EXCEPT !.live = live]) = <<op, arg>>
         /\ Waits(Call(op, arg)) <=> op \in Awaited
         /\ Waits([Call(op, arg) EXCEPT !.live = live]) <=> live /\ op \in Awaited
         /\ op \notin Checked => /\ AskedOk(Call(op, arg))
                                 /\ AskedOk([Call(op, arg) EXCEPT !.live = live])
<1>1. /\ Call(op, arg).op = op /\ Call(op, arg).arg = arg /\ Call(op, arg).live = TRUE
      /\ [Call(op, arg) EXCEPT !.live = live].op = op
      /\ [Call(op, arg) EXCEPT !.live = live].arg = arg
      /\ [Call(op, arg) EXCEPT !.live = live].live = live
  BY DEF Call
<1> QED
  BY <1>1 DEF Pair, Waits, AskedOk, Checked

LEMMA SentWaits ==
  ASSUME Inv, NEW op, NEW arg, AskedOk(Call(op, arg)), calls' = Append(calls, Call(op, arg))
  PROVE  /\ op \in Awaited => Waiting(calls') = Waiting(calls) \cup {<<op, arg>>}
         /\ op \notin Awaited => Waiting(calls') = Waiting(calls)
         /\ Asked(calls')
BY InvParts, WaitingAppend, NewAsked

LEMMA SentKept ==
  ASSUME Inv, NEW op, op \notin Awaited, NEW arg, Sent(op, arg)
  PROVE  KeepsCalls
<1>1. op \notin Checked
  BY DEF Checked, Awaited
<1> QED
  BY <1>1, SentWaits, NewAsked DEF Sent, KeepsCalls

Become(c, st, reply) == [op |-> c.op, arg |-> c.arg, live |-> c.live, st |-> st, reply |-> reply]

LEMMA BecomeKept ==
  ASSUME Inv, NEW i \in DOMAIN calls, NEW c, NEW st, NEW reply, c = Become(calls[i], st, reply),
         AskedOk(c), calls' = [calls EXCEPT ![i] = c]
  PROVE  KeepsCalls
<1>1. c.op = calls[i].op /\ c.arg = calls[i].arg /\ c.live = calls[i].live
  BY DEF Become
<1> QED
  BY <1>1, InvParts, WaitingPut DEF KeepsCalls

\* An answer that is as the invariant says
LEMMA AnsweredWell ==
  ASSUME Inv, NEW i \in DOMAIN calls, NEW reply, Answer(i, reply),
         AskedOk(Become(calls[i], "answered", reply))
  PROVE  KeepsCalls
<1> DEFINE b == calls[i]
           d == Become(b, "answered", reply)
<1>1. IsCall(b)
  BY InvParts, CallsElement DEF CallOk
<1>2. [b EXCEPT !.st = "answered", !.reply = reply] = d
  BY <1>1, CallMade, Zenon DEF Become
<1>3. calls' = [calls EXCEPT ![i] = [b EXCEPT !.st = "answered", !.reply = reply]]
  BY DEF Answer
<1>4. calls' = [calls EXCEPT ![i] = d] /\ d = Become(calls[i], "answered", reply) /\ AskedOk(d)
  BY <1>2, <1>3
<1> HIDE DEF d
<1> QED
  BY <1>4, BecomeKept

LEMMA AnsweredKept ==
  ASSUME Inv, NEW i \in DOMAIN calls, calls[i].op \notin Answered, NEW reply, Answer(i, reply)
  PROVE  KeepsCalls
<1>1. AskedOk(calls[i])
  BY InvParts DEF Asked
<1>2. AskedOk(Become(calls[i], "answered", reply))
  BY <1>1 DEF AskedOk, Answered, Become
<1> QED
  BY <1>2, AnsweredWell

LEMMA FailedKept ==
  ASSUME Inv, NEW i \in DOMAIN calls, NEW st, NEW reply,
         st = "failed" \/ (st = "gone" /\ calls[i].op # "login"),
         \/ calls' = [calls EXCEPT ![i].st = st]
         \/ calls' = [calls EXCEPT ![i].st = st, ![i].reply = reply]
  PROVE  KeepsCalls
<1> DEFINE b == calls[i]
<1>1. IsCall(b) /\ AskedOk(b)
  BY InvParts, CallsElement DEF CallOk, Asked
<1>2. ASSUME NEW r PROVE AskedOk(Become(b, st, r))
  BY <1>1 DEF AskedOk, Become
<1>3. CASE calls' = [calls EXCEPT ![i].st = st]
  <2> DEFINE d == Become(b, st, b.reply)
  <2>1. [b EXCEPT !.st = st] = d
    BY <1>1, CallMade, Zenon DEF Become
  <2>2. calls' = [calls EXCEPT ![i] = [b EXCEPT !.st = st]]
    BY <1>3
  <2>3. calls' = [calls EXCEPT ![i] = d] /\ d = Become(calls[i], st, b.reply) /\ AskedOk(d)
    BY <1>2, <2>1, <2>2
  <2> HIDE DEF d
  <2> QED
    BY <2>3, BecomeKept
<1>4. CASE calls' = [calls EXCEPT ![i].st = st, ![i].reply = reply]
  <2> DEFINE d == Become(b, st, reply)
  <2>1. [b EXCEPT !.st = st, !.reply = reply] = d
    BY <1>1, CallMade, Zenon DEF Become
  <2>2. calls' = [calls EXCEPT ![i] = [b EXCEPT !.st = st, !.reply = reply]]
    BY <1>4
  <2>3. calls' = [calls EXCEPT ![i] = d] /\ d = Become(calls[i], st, reply) /\ AskedOk(d)
    BY <1>2, <2>1, <2>2
  <2> HIDE DEF d
  <2> QED
    BY <2>3, BecomeKept
<1> QED
  BY <1>3, <1>4

LEMMA WithoutWaits ==
  ASSUME Inv, NEW i \in DOMAIN calls
  PROVE  /\ Waiting(Without(i)) \subseteq Waiting(calls)
         /\ Waits(calls[i]) => Waiting(calls) = Waiting(Without(i)) \cup {Pair(calls[i])}
         /\ ~Waits(calls[i]) => Waiting(Without(i)) = Waiting(calls)
         /\ Asked(Without(i)) /\ CallsOk(Without(i), server.written)
BY InvParts, WaitingDrop, WithoutCalls DEF Without

LEMMA AwaitedWaits ==
  ASSUME Inv, NEW i \in DOMAIN calls, Waits(calls[i])
  PROVE  Pair(calls[i]) \in Waiting(calls) /\ view.page = PageOf(calls[i].op)
<1>1. Pair(calls[i]) \in Waiting(calls)
  BY DEF Pair, Waits, Waiting
<1>2. OfPage(Waiting(calls), view)
  BY InvParts DEF Screen
<1> QED
  BY <1>1, <1>2 DEF OfPage, Pair

LEMMA DeliveredKept ==
  ASSUME Inv, NEW i \in DOMAIN calls, ~Waits(calls[i]), calls' = Without(i)
  PROVE  KeepsCalls
BY WithoutWaits DEF KeepsCalls

---------------------------------------------------------------------------
(* Steps that are not noticed, of each kind                                *)

LEMMA StillQuiet ==
  ASSUME Inv, calls' = calls, me' = me, KeepsServer, Alike(view, view')
  PROVE  WaitInv'
<1>1. KeepsCalls
  BY InvParts DEF KeepsCalls
<1> QED
  BY <1>1, QuietStep

LEMMA SentQuiet ==
  ASSUME Inv, NEW op, op \notin Awaited, NEW arg, Sent(op, arg), me' = me, server' = server,
         Alike(view, view')
  PROVE  WaitInv'
BY SentKept, ServerKept, InvParts, QuietStep

LEMMA AnsweredQuiet ==
  ASSUME Inv, NEW op, op \notin Answered, NEW i \in Pending(op), NEW reply, Answer(i, reply),
         me' = me, view' = view, KeepsServer
  PROVE  WaitInv'
BY PendingCall, AnsweredKept, SameAlike, QuietStep

LEMMA FailedQuiet ==
  ASSUME Inv, NEW i \in DOMAIN calls, NEW reply,
         \/ calls' = [calls EXCEPT ![i].st = "failed"]
         \/ calls' = [calls EXCEPT ![i].st = "failed", ![i].reply = reply],
         me' = me, view' = view, KeepsServer
  PROVE  WaitInv'
<1>1. KeepsCalls
  BY FailedKept
<1> QED
  BY <1>1, SameAlike, QuietStep

LEMMA DeliveredQuiet ==
  ASSUME Inv, NEW i \in DOMAIN calls, ~Waits(calls[i]), calls' = Without(i), me' = me,
         server' = server, Alike(view, view')
  PROVE  WaitInv'
BY DeliveredKept, ServerKept, InvParts, QuietStep

\* A handler that goes on to send a call that no page awaits
LEMMA GoesOnQuiet ==
  ASSUME Inv, NEW i \in DOMAIN calls, ~Waits(calls[i]), NEW c, ~Waits(c), AskedOk(c),
         calls' = Append(Without(i), c), me' = me, server' = server, Alike(view, view')
  PROVE  WaitInv'
<1>1. KeepsCalls
  BY WithoutWaits, WaitingAppend DEF KeepsCalls
<1> QED
  BY <1>1, ServerKept, InvParts, QuietStep

LEMMA OtherCallWaits ==
  ASSUME NEW i \in DOMAIN calls, calls[i].op \notin Awaited
  PROVE  ~Waits(calls[i])
BY DEF Waits

LEMMA ReloadAsked ==
  ASSUME NEW op, NEW live
  PROVE  /\ Pair(Reload(op, live)) = <<op, None>>
         /\ Waits(Reload(op, live)) <=> live /\ op \in Awaited
         /\ op # "upsert" /\ op # "configure" /\ op # "setEmbedding" => AskedOk(Reload(op, live))
<1>1. /\ Reload(op, live).op = op /\ Reload(op, live).arg = None
      /\ Reload(op, live).live = live /\ Reload(op, live).st = "sent"
  BY DEF Reload, Call
<1> QED
  BY <1>1 DEF Pair, Waits, AskedOk

---------------------------------------------------------------------------
(* The network, the shell, the documentation, the overview and the list of *)
(* events                                                                  *)

LEMMA NetworkWaits == ASSUME Inv, Refused \/ Failed PROVE WaitInv'
<1>1. PICK i \in DOMAIN calls : Refuse(i) \/ Fail(i)
  BY DEF Refused, Failed
<1>2. me' = me /\ view' = view /\ KeepsServer
  BY InvParts, ServerKept DEF Refused, Failed, app
<1>3. KeepsCalls
  <2>1. CASE Refuse(i)
    <3>1. calls[i].op # "login" /\ calls' = [calls EXCEPT ![i].st = "gone"]
      BY <2>1 DEF Refuse, IsAuth
    <3> QED
      BY <3>1, FailedKept
  <2>2. CASE Fail(i)
    BY <2>2, FailedKept DEF Fail
  <2> QED
    BY <1>1, <2>1, <2>2
<1> QED
  BY <1>2, <1>3, SameAlike, QuietStep

LEMMA ShellWaits == ASSUME Inv, ShellNext \/ ServeModels PROVE WaitInv'
<1>1. CASE TogglePalette \/ TypeInPalette \/ MoveInPalette \/ RunCommand \/ FollowLink
  <2>1. calls' = calls /\ me' = me /\ view' = view /\ server' = server
    BY <1>1 DEF TogglePalette, TypeInPalette, MoveInPalette, RunCommand, FollowLink
  <2> QED
    BY <2>1, InvParts, ServerKept, SameAlike, StillQuiet
<1>2. CASE PollShell
  <2>1. (Sent("indexes", None) \/ Sent("stats", None)) /\ me' = me /\ view' = view /\ server' = server
    BY <1>2 DEF PollShell, Ticks, app
  <2> QED
    BY <2>1, SameAlike, SentQuiet DEF Awaited
<1>3. CASE ServeIndexes \/ ServeStats \/ ServeModels
  <2>1. PICK i \in Pending("indexes") \cup Pending("stats") \cup Pending("models") :
          (\E r : Answer(i, r)) /\ me' = me /\ view' = view /\ server' = server
    BY <1>3 DEF ServeIndexes, ServeStats, ServeModels, app
  <2> QED
    BY <2>1, InvParts, ServerKept, AnsweredQuiet DEF Answered
<1>4. CASE StatsLoaded
  <2>1. PICK i \in Arrived("stats") :
          calls' = Without(i) /\ me' = me /\ view' = view /\ server' = server
    BY <1>4 DEF StatsLoaded
  <2>2. ~Waits(calls[i]) /\ i \in DOMAIN calls
    BY <2>1, ArrivedCall, OtherCallWaits DEF Awaited
  <2> QED
    BY <2>1, <2>2, SameAlike, DeliveredQuiet
<1> QED
  BY <1>1, <1>2, <1>3, <1>4 DEF ShellNext

LEMMA DocsWaits == ASSUME Inv, DocsNext PROVE WaitInv'
<1>1. calls' = calls /\ me' = me /\ server' = server /\ view.page = "docs"
  BY DEF DocsNext, FollowDocLink, ToggleMenu, ToggleDocSearch, TypeInDocSearch, OpenResult,
         app, OnDocs
<1>2. \/ view' = view
      \/ \E e : view' = [view EXCEPT !.nav = e] \/ view' = [view EXCEPT !.search = e]
  BY DEF DocsNext, FollowDocLink, ToggleMenu, ToggleDocSearch, TypeInDocSearch, OpenResult
<1>3. view'.page = view.page /\ view'.route = view.route
  BY <1>2, InvParts
<1>4. Screen(Waiting(calls'), view')
  BY <1>1, <1>3, InvParts DEF Screen, OfPage, PageWaits
<1> QED
  BY <1>1, <1>3, <1>4, InvParts, ServerKept, PageStep

LEMMA OverviewWaits == ASSUME Inv, OverviewNext PROVE WaitInv'
<1>1. CASE PollOverview
  <2>1. (Sent("live", None) \/ Sent("events", None)) /\ me' = me /\ view' = view /\ server' = server
    BY <1>1 DEF PollOverview, Polls, Ticks, app
  <2> QED
    BY <2>1, SameAlike, SentQuiet DEF Awaited
<1>2. CASE ServeLive \/ ServeEvents
  <2>1. PICK i \in Pending("live") \cup Pending("events") :
          (\E r : Answer(i, r)) /\ me' = me /\ view' = view /\ server' = server
    BY <1>2 DEF ServeLive, ServeEvents, app
  <2> QED
    BY <2>1, InvParts, ServerKept, AnsweredQuiet DEF Answered
<1>3. CASE LiveLoaded
  <2>1. PICK i \in Arrived("live") :
          /\ \/ view' = view
             \/ \E a : view' = [view EXCEPT !.stats = a]
             \/ \E a, b : view' = [view EXCEPT !.stats = a, !.history = b]
          /\ calls' = Without(i) /\ me' = me /\ server' = server
    BY <1>3 DEF LiveLoaded, app
  <2>2. Alike(view, view')
    <3>1. CASE \E a : view' = [view EXCEPT !.stats = a]
      <4>1. PICK a : view' = [view EXCEPT !.stats = a]
        BY <3>1
      <4> QED
        BY <4>1, FieldAlike DEF Waited
    <3>2. CASE \E a, b : view' = [view EXCEPT !.stats = a, !.history = b]
      <4>1. PICK a, b : view' = [view EXCEPT !.stats = a, !.history = b]
        BY <3>2
      <4> DEFINE w == [view EXCEPT !.stats = a]
      <4>2. view' = [w EXCEPT !.history = b] /\ Alike(view, w)
        BY <4>1, FieldAlike DEF Waited
      <4> HIDE DEF w
      <4>3. Alike(w, view')
        BY <4>2, FieldAlike DEF Waited
      <4> QED
        BY <4>2, <4>3, AlikeTwice
    <3> QED
      BY <2>1, <3>1, <3>2, SameAlike
  <2>3. ~Waits(calls[i]) /\ i \in DOMAIN calls
    BY <2>1, ArrivedCall, OtherCallWaits DEF Awaited
  <2> QED
    BY <2>1, <2>2, <2>3, DeliveredQuiet
<1>4. CASE FeedLoaded
  <2>1. PICK i \in Arrived("events") :
          /\ \/ view' = view
             \/ \E e : view' = [view EXCEPT !.feed = e] \/ view' = [view EXCEPT !.events = e]
          /\ calls' = Without(i) /\ me' = me /\ server' = server
    BY <1>4 DEF FeedLoaded, app
  <2>2. Alike(view, view')
    BY <2>1, FieldAlike, SameAlike DEF Waited
  <2>3. ~Waits(calls[i]) /\ i \in DOMAIN calls
    BY <2>1, ArrivedCall, OtherCallWaits DEF Awaited
  <2> QED
    BY <2>1, <2>2, <2>3, DeliveredQuiet
<1>5. CASE ChooseRange \/ NewIndex
  <2>1. /\ calls' = calls /\ me' = me /\ server' = server
        /\ view' = view \/ \E r : view' = [view EXCEPT !.range = r]
    BY <1>5 DEF ChooseRange, NewIndex, app
  <2>2. Alike(view, view')
    BY <2>1, FieldAlike, SameAlike DEF Waited
  <2> QED
    BY <2>1, <2>2, InvParts, ServerKept, StillQuiet
<1> QED
  BY <1>1, <1>2, <1>3, <1>4, <1>5 DEF OverviewNext

LEMMA SecurityWaits == ASSUME Inv, SecurityNext PROVE WaitInv'
<1>1. CASE PollEvents
  <2>1. Sent("events", None) /\ me' = me /\ view' = view /\ server' = server
    BY <1>1 DEF PollEvents, Polls, Ticks, app
  <2> QED
    BY <2>1, SameAlike, SentQuiet DEF Awaited
<1>2. CASE FilterEvents \/ OpenEvent \/ LeaveButton
  <2>1. /\ calls' = calls /\ me' = me /\ server' = server
        /\ \E e : \/ view' = [view EXCEPT !.filter = e] \/ view' = [view EXCEPT !.search = e]
                  \/ view' = [view EXCEPT !.open = e] \/ view' = [view EXCEPT !.confirming = e]
        /\ view.page = "security"
    BY <1>2 DEF FilterEvents, OpenEvent, LeaveButton, OnSecurity, app
  <2>2. view'.page = view.page /\ view'.route = view.route
    BY <2>1, InvParts
  <2>3. Screen(Waiting(calls'), view')
    BY <2>1, <2>2, InvParts DEF Screen, OfPage, PageWaits
  <2> QED
    BY <2>1, <2>2, <2>3, InvParts, ServerKept, PageStep
<1>3. CASE EndSessions
  <2>1. /\ me' = me /\ server' = server
        /\ \/ Sent("revokeAll", None) /\ view' = view
           \/ calls' = calls /\ view' = [view EXCEPT !.confirming = TRUE]
    BY <1>3 DEF EndSessions, app
  <2>2. Alike(view, view')
    BY <2>1, FieldAlike, SameAlike DEF Waited
  <2> QED
    BY <2>1, <2>2, SentQuiet, InvParts, ServerKept, StillQuiet DEF Awaited
<1>4. CASE ServeRevokeAll
  <2>1. PICK i \in Pending("revokeAll") :
          /\ Answer(i, None) \/ calls' = [calls EXCEPT ![i].st = "failed"]
          /\ me' = me /\ view' = view
          /\ server' = server \/ server' = [server EXCEPT !.session = "none"]
    BY <1>4 DEF ServeRevokeAll, app
  <2>2. KeepsServer
    BY <2>1, InvParts, ServerKept
  <2> QED
    BY <2>1, <2>2, PendingCall, AnsweredQuiet, FailedQuiet DEF Answered
<1>5. CASE SessionsEnded
  <2>1. PICK i \in Arrived("revokeAll") :
          /\ calls' = Append(Without(i), Call("logout", None)) \/ calls' = Without(i)
          /\ me' = me /\ view' = view /\ server' = server
    BY <1>5 DEF SessionsEnded, app
  <2>2. ~Waits(calls[i]) /\ i \in DOMAIN calls
    BY <2>1, ArrivedCall, OtherCallWaits DEF Awaited
  <2>3. ~Waits(Call("logout", None)) /\ AskedOk(Call("logout", None))
    <3>1. "logout" \notin Awaited /\ "logout" \notin Checked
      BY DEF Awaited, Checked
    <3> QED
      BY <3>1, NewAsked
  <2> QED
    BY <2>1, <2>2, <2>3, SameAlike, DeliveredQuiet, GoesOnQuiet
<1> QED
  BY <1>1, <1>2, <1>3, <1>4, <1>5 DEF SecurityNext

---------------------------------------------------------------------------
(* Sign-in                                                                 *)

LEMMA SignInScreen ==
  ASSUME NEW waiting, NEW v, v.page = "signin"
  PROVE  Screen(waiting, v) <=> OfPage(waiting, v) /\ SignInWaits(waiting, v)
BY DEF Screen, PageWaits

LEMMA SignInWaited == ASSUME Inv, SignInNext \/ SessionEnds \/ SignOut PROVE WaitInv'
<1>1. CASE TypeKey \/ WaitTick \/ SessionEnds
  <2>1. /\ calls' = calls /\ me' = me
        /\ server' = server \/ server' = [server EXCEPT !.session = "none"]
        /\ view' = view \/ \E e : view' = [view EXCEPT !.key = e] \/ view' = [view EXCEPT !.wait = e]
    BY <1>1 DEF TypeKey, WaitTick, SessionEnds, app
  <2>2. Alike(view, view')
    BY <2>1, FieldAlike, SameAlike DEF Waited
  <2> QED
    BY <2>1, <2>2, InvParts, ServerKept, StillQuiet
<1>2. CASE SignOut
  <2>1. Sent("logout", None) /\ me' = me /\ view' = view /\ server' = server
    BY <1>2 DEF SignOut, app
  <2> QED
    BY <2>1, SameAlike, SentQuiet DEF Awaited
<1>3. CASE ServeMe \/ ServeLogout
  <2>1. PICK i \in Pending("me") \cup Pending("logout") :
          /\ \E r : Answer(i, r)
          /\ me' = me /\ view' = view
          /\ server' = server \/ server' = [server EXCEPT !.session = "none"]
    BY <1>3 DEF ServeMe, ServeLogout, app
  <2> QED
    BY <2>1, InvParts, ServerKept, AnsweredQuiet DEF Answered
<1>4. CASE ServeLogin
  <2>1. PICK i \in Pending("login") :
          /\ me' = me /\ view' = view
          /\ \/ server' = server /\ \E e : calls' = [calls EXCEPT ![i].st = "failed", ![i].reply = e]
             \/ \E r \in KeyRoles : Answer(i, r) /\ server' = [server EXCEPT !.session = r]
    BY <1>4 DEF ServeLogin, app
  <2>2. KeepsServer
    BY <2>1, InvParts, ServerKept
  <2>3. CASE \E e : calls' = [calls EXCEPT ![i].st = "failed", ![i].reply = e]
    BY <2>1, <2>2, <2>3, PendingCall, FailedQuiet
  <2>4. CASE \E r \in KeyRoles : Answer(i, r)
    <3>1. PICK r \in KeyRoles : Answer(i, r)
      BY <2>4
    <3>2. i \in DOMAIN calls /\ calls[i].op = "login"
      BY <2>1, PendingCall
    <3>3. AskedOk(Become(calls[i], "answered", r))
      BY <3>2 DEF AskedOk, Become
    <3> QED
      BY <2>1, <2>2, <3>1, <3>2, <3>3, AnsweredWell, SameAlike, QuietStep
  <2> QED
    BY <2>1, <2>3, <2>4
<1>5. CASE SubmitSignIn
  <2> DEFINE arg == view.key
  <2>1. /\ view.page = "signin" /\ view' = [view EXCEPT !.busy = TRUE]
        /\ calls' = Append(calls, Call("login", arg)) /\ me' = me /\ server' = server
    BY <1>5 DEF SubmitSignIn, OnSignIn, Sent, app
  <2>2. AskedOk(Call("login", arg))
    BY DEF AskedOk, Call
  <2>3. Waiting(calls') = Waiting(calls) \cup {<<"login", arg>>} /\ Asked(calls')
    BY <2>1, <2>2, SentWaits DEF Awaited
  <2>4. OfPage(Waiting(calls), view) /\ SignInWaits(Waiting(calls), view)
    BY <2>1, InvParts, SignInScreen
  <2>5. view'.page = view.page /\ view'.route = view.route
    BY <2>1, InvParts
  <2>6. OfPage(Waiting(calls'), view')
    BY <2>1, <2>3, <2>4, <2>5 DEF OfPage, PageOf
  <2>7. SignInWaits(Waiting(calls'), view')
    <3>1. "busy" \in DOMAIN view'
      BY <2>1, <2>4 DEF SignInWaits
    <3>2. <<"login", arg>> \in Waiting(calls') /\ <<"login", arg>>[1] = "login"
      BY <2>3
    <3>3. For(Waiting(calls'), {"login"})
      BY <3>2 DEF For
    <3> QED
      BY <3>1, <3>3 DEF SignInWaits
  <2> QED
    BY <2>1, <2>3, <2>5, <2>6, <2>7, SignInScreen, InvParts, ServerKept, PageStep
<1>6. CASE SignInRefused
  <2>1. PICK i \in Arrived("login") :
          /\ view' = IF ~calls[i].live THEN view
                     ELSE [view EXCEPT !.busy = FALSE,
                               !.wait = IF calls[i].reply = "locked" THEN MaxWait ELSE @]
          /\ calls' = Without(i) /\ me' = me /\ server' = server
    BY <1>6 DEF SignInRefused, app
  <2>2. i \in DOMAIN calls /\ calls[i].op = "login"
    BY <2>1, ArrivedCall
  <2>3. CASE ~calls[i].live
    BY <2>1, <2>2, <2>3, SameAlike, DeliveredQuiet DEF Waits
  <2>4. CASE calls[i].live
    <3>1. view.page = "signin"
      BY <2>2, <2>4, AwaitedWaits DEF Waits, Awaited, PageOf
    <3>2. OfPage(Waiting(calls), view) /\ SignInWaits(Waiting(calls), view)
      BY <3>1, InvParts, SignInScreen
    <3>3. Waiting(calls') \subseteq Waiting(calls) /\ Asked(calls')
      BY <2>1, <2>2, WithoutWaits
    <3>4. view'.page = view.page /\ view'.route = view.route /\ "busy" \in DOMAIN view' /\ ~view'.busy
      BY <2>1, <2>4, <3>2, InvParts DEF SignInWaits
    <3>5. OfPage(Waiting(calls'), view')
      BY <3>2, <3>3, <3>4 DEF OfPage
    <3>6. SignInWaits(Waiting(calls'), view')
      BY <3>4 DEF SignInWaits
    <3> QED
      BY <2>1, <3>1, <3>3, <3>4, <3>5, <3>6, SignInScreen, InvParts, ServerKept, PageStep
  <2> QED
    BY <2>3, <2>4
<1> QED
  BY <1>1, <1>2, <1>3, <1>4, <1>5, <1>6 DEF SignInNext

---------------------------------------------------------------------------
(* Calls that a page makes, and what the last part of a handler sends      *)

LEMMA OfPageStep ==
  ASSUME NEW waiting, NEW others, NEW v, NEW w, OfPage(waiting, v), w.page = v.page,
         \A a \in others \ waiting : PageOf(a[1]) = v.page
  PROVE  OfPage(others, w)
BY DEF OfPage

LEMMA AskedMore ==
  ASSUME Inv, NEW op \in Awaited, NEW arg, AskedOk(Call(op, arg)),
         calls' = Append(calls, Call(op, arg)), PageOf(op) = view.page, view'.page = view.page
  PROVE  /\ Waiting(calls') = Waiting(calls) \cup {<<op, arg>>}
         /\ Asked(calls') /\ OfPage(Waiting(calls'), view')
         /\ \A ops : op \in ops \/ For(Waiting(calls), ops) => For(Waiting(calls'), ops)
<1>1. Waiting(calls') = Waiting(calls) \cup {<<op, arg>>} /\ Asked(calls')
  BY SentWaits
<1>2. OfPage(Waiting(calls), view)
  BY InvParts DEF Screen
<1>3. <<op, arg>>[1] = op
  OBVIOUS
<1>4. OfPage(Waiting(calls'), view')
  BY <1>1, <1>2, <1>3, OfPageStep
<1>5. \A ops : op \in ops \/ For(Waiting(calls), ops) => For(Waiting(calls'), ops)
  BY <1>1, <1>3 DEF For
<1> QED
  BY <1>1, <1>4, <1>5

LEMMA GoesOnWaits ==
  ASSUME Inv, NEW i \in DOMAIN calls, NEW rest, CallsOk(rest, server.written), Asked(rest)
  PROVE  /\ Waiting(Without(i) \o rest) = Waiting(Without(i)) \cup Waiting(rest)
         /\ Asked(Without(i) \o rest)
BY WithoutWaits, WaitingConcat

LEMMA GoesOnOne ==
  ASSUME Inv, NEW i \in DOMAIN calls, NEW c, AskedOk(c)
  PROVE  /\ Waits(c) => Waiting(Append(Without(i), c)) = Waiting(Without(i)) \cup {Pair(c)}
         /\ ~Waits(c) => Waiting(Append(Without(i), c)) = Waiting(Without(i))
         /\ Asked(Append(Without(i), c))
BY WithoutWaits, WaitingAppend

\* What a handler sends last: the lists and the models are no page's to wait
\* for, the index is the one's on whose page it is
LEMMA RestWaits ==
  ASSUME NEW w, NEW live
  PROVE  /\ CallsOk(OnChanged, w) /\ Asked(OnChanged) /\ Waiting(OnChanged) = {}
         /\ CallsOk(SubscribeCalls, w) /\ Asked(SubscribeCalls) /\ Waiting(SubscribeCalls) = {}
         /\ CallsOk(RefreshCalls, w) /\ Asked(RefreshCalls) /\ Waiting(RefreshCalls) = {}
         /\ CallsOk(Refresh(live), w) /\ Asked(Refresh(live))
         /\ Waiting(Refresh(live)) \subseteq {<<"index", None>>}
         /\ ~live => Waiting(Refresh(live)) = {}
<1>1. \A e : /\ CallOk(Reload("indexes", e), w) /\ CallOk(Reload("index", e), w)
             /\ AskedOk(Reload("indexes", e)) /\ AskedOk(Reload("index", e))
  BY NewCall, ReloadAsked DEF Reload, Watched
<1>2. \A e : ~Waits(Reload("indexes", e))
  BY ReloadAsked DEF Awaited
<1>3. CallsOk(OnChanged, w) /\ Asked(OnChanged) /\ Waiting(OnChanged) = {}
  BY <1>1, <1>2, CallsOne, CallsEmpty, WaitingOne DEF OnChanged
<1>4. \A n, e : CallOk(ModelsCall(n, e), w) /\ AskedOk(ModelsCall(n, e)) /\ ~Waits(ModelsCall(n, e))
  <2>1. "models" \notin Awaited /\ "models" \notin Checked /\ "models" \notin Watched
    BY DEF Awaited, Checked, Watched
  <2> QED
    BY <2>1, NewCall, NewAsked DEF ModelsCall
<1>5. CallsOk(SubscribeCalls, w) /\ Asked(SubscribeCalls) /\ Waiting(SubscribeCalls) = {}
  BY <1>4, CallsOne, CallsEmpty, WaitingOne DEF SubscribeCalls
<1>6. CallsOk(RefreshCalls, w) /\ Asked(RefreshCalls) /\ Waiting(RefreshCalls) = {}
  BY <1>4, CallsOne, CallsEmpty, WaitingOne DEF RefreshCalls
<1>7. /\ CallsOk(<<Reload("index", live)>>, w) /\ Asked(<<Reload("index", live)>>)
      /\ Waiting(<<Reload("index", live)>>) \subseteq {<<"index", None>>}
      /\ ~live => Waiting(<<Reload("index", live)>>) = {}
  <2> DEFINE c == Reload("index", live)
  <2>1. CallOk(c, w) /\ AskedOk(c) /\ Pair(c) = <<"index", None>> /\ (Waits(c) => live)
    BY <1>1, ReloadAsked
  <2> HIDE DEF c
  <2>2. CallsOk(<<c>>, w) /\ Asked(<<c>>) /\ Waiting(<<c>>) \subseteq {<<"index", None>>}
        /\ (~live => Waiting(<<c>>) = {})
    BY <2>1, CallsOne, WaitingOne
  <2> QED
    BY <2>2 DEF c
<1>8. /\ CallsOk(Refresh(live), w) /\ Asked(Refresh(live))
      /\ Waiting(Refresh(live)) = Waiting(<<Reload("index", live)>>) \cup Waiting(OnChanged)
  BY <1>3, <1>7, CallsConcat, WaitingConcat DEF Refresh
<1> QED
  BY <1>3, <1>5, <1>6, <1>7, <1>8

---------------------------------------------------------------------------
(* API keys                                                                *)

LEMMA KeysScreen ==
  ASSUME NEW waiting, NEW v, v.page = "keys"
  PROVE  Screen(waiting, v) <=> OfPage(waiting, v) /\ KeysWaits(waiting, v)
BY DEF Screen, PageWaits

LEMMA KeysWaited == ASSUME Inv, KeysNext PROVE WaitInv'
<1>1. CASE AskRevoke \/ ViewActivity \/ CancelRevoke
  <2>1. /\ calls' = calls /\ me' = me /\ server' = server
        /\ view' = view \/ \E k : view' = [view EXCEPT !.confirming = k]
    BY <1>1 DEF AskRevoke, ViewActivity, CancelRevoke, app
  <2>2. Alike(view, view')
    BY <2>1, FieldAlike, SameAlike DEF Waited
  <2> QED
    BY <2>1, <2>2, InvParts, ServerKept, StillQuiet
<1>2. CASE ConfirmRevoke \/ PollKeys
  <2>1. (\E a : Sent("revokeKey", a)) \/ Sent("keys", None)
    BY <1>2 DEF ConfirmRevoke, PollKeys, Polls, Ticks
  <2>2. me' = me /\ view' = view /\ server' = server
    BY <1>2 DEF ConfirmRevoke, PollKeys, app
  <2> QED
    BY <2>1, <2>2, SameAlike, SentQuiet DEF Awaited
<1>3. CASE ServeRevokeKey \/ ServeKeys \/ ServeCreateKey
  <2>1. PICK i \in Pending("revokeKey") \cup Pending("keys") \cup Pending("createKey") :
          (\E r : Answer(i, r)) \/ calls' = [calls EXCEPT ![i].st = "failed"]
    BY <1>3 DEF ServeRevokeKey, ServeKeys, ServeCreateKey
  <2>2. me' = me /\ view' = view
    BY <1>3 DEF ServeRevokeKey, ServeKeys, ServeCreateKey, app
  <2>3. \/ server' = server
        \/ \E k : server' = [server EXCEPT !.keys = @ \ {k}]
        \/ \E k : server' = [server EXCEPT !.keys = @ \cup {k}, !.issued = @ \cup {k}]
    BY <1>3 DEF ServeRevokeKey, ServeKeys, ServeCreateKey
  <2>4. KeepsServer
    BY <2>3, InvParts DEF KeepsServer, WaitInv
  <2> QED
    BY <2>1, <2>2, <2>4, PendingCall, AnsweredQuiet, FailedQuiet DEF Answered
<1>4. CASE KeysLoaded
  <2>1. PICK i \in Arrived("keys") :
          /\ view' = view \/ \E e : view' = [view EXCEPT !.list = e]
          /\ calls' = Without(i) /\ me' = me /\ server' = server
    BY <1>4 DEF KeysLoaded, app
  <2>2. Alike(view, view')
    <3>1. "list" \notin Waited
      BY DEF Waited
    <3> QED
      BY <2>1, <3>1, FieldAlike, SameAlike
  <2>3. ~Waits(calls[i]) /\ i \in DOMAIN calls
    BY <2>1, ArrivedCall, OtherCallWaits DEF Awaited
  <2> QED
    BY <2>1, <2>2, <2>3, DeliveredQuiet
<1>5. CASE Revoked
  <2>1. PICK i \in Arrived("revokeKey") :
          /\ view' = view \/ view' = [view EXCEPT !.confirming = None]
          /\ calls' = Without(i) \/ calls' = Append(Without(i), Reload("keys", calls[i].live))
          /\ me' = me /\ server' = server
    BY <1>5 DEF Revoked, app
  <2>2. Alike(view, view')
    <3>1. "confirming" \notin Waited
      BY DEF Waited
    <3>2. Alike(view, [view EXCEPT !.confirming = None])
      BY <3>1, FieldAlike
    <3> QED
      BY <2>1, <3>2, SameAlike
  <2>3. ~Waits(calls[i]) /\ i \in DOMAIN calls
    BY <2>1, ArrivedCall, OtherCallWaits DEF Awaited
  <2>4. ~Waits(Reload("keys", calls[i].live)) /\ AskedOk(Reload("keys", calls[i].live))
    BY ReloadAsked DEF Awaited
  <2> QED
    BY <2>1, <2>2, <2>3, <2>4, DeliveredQuiet, GoesOnQuiet
<1>6. CASE CreateKey \/ KeySheetEffect \/ EditKey \/ CloseKeySheet
  <2>1. calls' = calls /\ me' = me /\ server' = server /\ view.page = "keys"
    BY <1>6 DEF CreateKey, KeySheetEffect, EditKey, CloseKeySheet, OnKeys, app
  <2>2. OfPage(Waiting(calls), view) /\ KeysWaits(Waiting(calls), view)
    BY <2>1, InvParts, KeysScreen
  <2>3. /\ view'.page = view.page /\ view'.route = view.route /\ "sheet" \in DOMAIN view'
        /\ "busy" \in DOMAIN view'.sheet /\ view'.sheet.busy = view.sheet.busy
    BY <1>6, <2>2, InvParts DEF CreateKey, KeySheetEffect, EditKey, CloseKeySheet,
                                OpenKeySheet, Opened, Cleared, BlankKeySheet, KeysWaits
  <2>4. OfPage(Waiting(calls'), view') /\ KeysWaits(Waiting(calls'), view')
    BY <2>1, <2>2, <2>3 DEF OfPage, KeysWaits
  <2> QED
    BY <2>1, <2>3, <2>4, KeysScreen, InvParts, ServerKept, PageStep
<1>7. CASE SubmitKey
  <2>1. /\ view.page = "keys" /\ view' = [view EXCEPT !.sheet.busy = TRUE]
        /\ me' = me /\ server' = server
    BY <1>7 DEF SubmitKey, OnKeys, app
  <2>2. PICK arg : calls' = Append(calls, Call("createKey", arg))
    BY <1>7 DEF SubmitKey, Sent
  <2>3. KeysWaits(Waiting(calls), view)
    BY <2>1, InvParts, KeysScreen
  <2>4. /\ view'.page = view.page /\ view'.route = view.route /\ "sheet" \in DOMAIN view'
        /\ "busy" \in DOMAIN view'.sheet
    BY <2>1, <2>3, InvParts DEF KeysWaits
  <2>5. "createKey" \in Awaited /\ "createKey" \notin Checked /\ PageOf("createKey") = "keys"
    BY DEF Awaited, Checked, PageOf
  <2>6. /\ Asked(calls') /\ OfPage(Waiting(calls'), view')
        /\ For(Waiting(calls'), {"createKey"})
    BY <2>1, <2>2, <2>4, <2>5, NewAsked, AskedMore
  <2>7. KeysWaits(Waiting(calls'), view')
    BY <2>4, <2>6 DEF KeysWaits
  <2> QED
    BY <2>1, <2>4, <2>6, <2>7, KeysScreen, InvParts, ServerKept, PageStep
<1>8. CASE KeyCreated
  <2>1. PICK i \in Arrived("createKey") :
          /\ IF ~calls[i].live THEN view' = view
             ELSE \E k : view' = [view EXCEPT !.sheet.busy = FALSE, !.sheet.created = k]
          /\ calls' = Without(i) \/ calls' = Append(Without(i), Reload("keys", calls[i].live))
          /\ me' = me /\ server' = server
    BY <1>8 DEF KeyCreated, app
  <2>2. i \in DOMAIN calls /\ calls[i].op = "createKey"
    BY <2>1, ArrivedCall
  <2>3. ~Waits(Reload("keys", calls[i].live)) /\ AskedOk(Reload("keys", calls[i].live))
    BY ReloadAsked DEF Awaited
  <2>4. CASE ~calls[i].live
    BY <2>1, <2>2, <2>3, <2>4, SameAlike, DeliveredQuiet, GoesOnQuiet DEF Waits
  <2>5. CASE calls[i].live
    <3>1. view.page = "keys"
      BY <2>2, <2>5, AwaitedWaits DEF Waits, Awaited, PageOf
    <3>2. OfPage(Waiting(calls), view) /\ KeysWaits(Waiting(calls), view)
      BY <3>1, InvParts, KeysScreen
    <3>3. Waiting(calls') \subseteq Waiting(calls) /\ Asked(calls')
      <4> DEFINE c == Reload("keys", calls[i].live)
      <4>1. Waiting(Append(Without(i), c)) = Waiting(Without(i)) /\ Asked(Append(Without(i), c))
        BY <2>2, <2>3, GoesOnOne
      <4> HIDE DEF c
      <4>2. calls' = Without(i) \/ calls' = Append(Without(i), c)
        BY <2>1 DEF c
      <4> QED
        BY <2>2, <4>1, <4>2, WithoutWaits
    <3>4. /\ view'.page = view.page /\ view'.route = view.route /\ "sheet" \in DOMAIN view'
          /\ "busy" \in DOMAIN view'.sheet /\ ~view'.sheet.busy
      <4>1. PICK k : view' = [view EXCEPT !.sheet.busy = FALSE, !.sheet.created = k]
        BY <2>1, <2>5
      <4>2. /\ view'.page = view.page /\ view'.route = view.route /\ "sheet" \in DOMAIN view'
            /\ view'.sheet = [[view.sheet EXCEPT !.busy = FALSE] EXCEPT !.created = k]
        BY <3>2, <4>1, InvParts DEF KeysWaits
      <4> QED
        BY <3>2, <4>2 DEF KeysWaits
    <3>5. OfPage(Waiting(calls'), view') /\ KeysWaits(Waiting(calls'), view')
      BY <3>2, <3>3, <3>4 DEF OfPage, KeysWaits
    <3> QED
      BY <2>1, <3>1, <3>3, <3>4, <3>5, KeysScreen, InvParts, ServerKept, PageStep
  <2> QED
    BY <2>4, <2>5
<1> QED
  BY <1>1, <1>2, <1>3, <1>4, <1>5, <1>6, <1>7, <1>8 DEF KeysNext

---------------------------------------------------------------------------
(* Provider keys                                                           *)

LEMMA ProvidersScreen ==
  ASSUME NEW waiting, NEW v, v.page = "providers"
  PROVE  Screen(waiting, v) <=> OfPage(waiting, v) /\ ProvidersWaits(waiting, v)
BY DEF Screen, PageWaits

\* The sheet and the rows each have their own calls
ForSheet(waiting) == \/ For(waiting, {"setProvider"})
                     \/ \E a \in waiting : a[1] = "test" /\ a[2].key # None

ForRow(waiting, p) == \E a \in waiting : a[1] = "test" /\ a[2].key = None /\ a[2].p = p
SheetAndRows(v) ==
    /\ {"sheet", "checks"} \subseteq DOMAIN v
    /\ "busy" \in DOMAIN v.sheet /\ DOMAIN v.checks = Providers

LEMMA ProvidersParts ==
  ASSUME NEW waiting, NEW v
  PROVE  ProvidersWaits(waiting, v) <=>
            /\ SheetAndRows(v)
            /\ v.sheet.busy => ForSheet(waiting)
            /\ \A p \in Providers : v.checks[p] = "running" => ForRow(waiting, p)
BY DEF ProvidersWaits, SheetAndRows, ForSheet, ForRow

LEMMA ForMore ==
  ASSUME NEW waiting, NEW others, waiting \subseteq others
  PROVE  /\ ForSheet(waiting) => ForSheet(others)
         /\ \A p : ForRow(waiting, p) => ForRow(others, p)
         /\ \A ops : For(waiting, ops) => For(others, ops)
BY DEF ForSheet, ForRow, For

\* A step of the page that makes a call or none, and hears of none
LEMMA ProvidersMore ==
  ASSUME Inv, KeepsServer, me' = me, view.page = "providers",
         view'.page = view.page, view'.route = view.route, SheetAndRows(view'),
         Waiting(calls) \subseteq Waiting(calls'), Asked(calls'), OfPage(Waiting(calls'), view'),
         view'.sheet.busy => view.sheet.busy \/ ForSheet(Waiting(calls')),
         \A p \in Providers : view'.checks[p] = "running" =>
             view.checks[p] = "running" \/ ForRow(Waiting(calls'), p)
  PROVE  WaitInv'
<1>1. ProvidersWaits(Waiting(calls), view)
  BY InvParts, ProvidersScreen
<1>2. ProvidersWaits(Waiting(calls'), view')
  BY <1>1, ForMore, ProvidersParts
<1> QED
  BY <1>2, ProvidersScreen, PageStep

LEMMA ProvidersClicks ==
  ASSUME Inv, \/ EditProvider \/ TestProvider \/ RemoveProvider \/ CloseProviderSheet
              \/ TypeProviderKey \/ SaveProviderKey \/ PollProviders
  PROVE  WaitInv'
<1>1. view.page = "providers" /\ me' = me /\ server' = server
  BY DEF EditProvider, TestProvider, RemoveProvider, CloseProviderSheet, TypeProviderKey,
         SaveProviderKey, PollProviders, OnProviders, app
<1>2. ProvidersWaits(Waiting(calls), view) /\ OfPage(Waiting(calls), view)
      /\ SheetAndRows(view) /\ {"page", "route", "editing"} \subseteq DOMAIN view
  BY <1>1, InvParts, ProvidersScreen, ProvidersParts DEF ViewOk, SheetOk
<1>3. KeepsServer
  BY <1>1, InvParts, ServerKept
<1>4. CASE EditProvider \/ CloseProviderSheet \/ TypeProviderKey
  <2>1. calls' = calls
    BY <1>4 DEF EditProvider, CloseProviderSheet, TypeProviderKey
  <2>2. \/ view' = view
        \/ \E p : view' = [view EXCEPT !.editing = p, !.sheet = BlankProviderSheet]
        \/ \E k : view' = [view EXCEPT !.sheet.key = k]
    BY <1>4 DEF EditProvider, CloseProviderSheet, TypeProviderKey, Edited, CloseSheet
  <2>3. /\ view'.page = view.page /\ view'.route = view.route /\ SheetAndRows(view')
        /\ view'.checks = view.checks /\ (view'.sheet.busy => view.sheet.busy)
    <3>1. CASE \E p : view' = [view EXCEPT !.editing = p, !.sheet = BlankProviderSheet]
      <4>1. PICK p : view' = [view EXCEPT !.editing = p, !.sheet = BlankProviderSheet]
        BY <3>1
      <4>2. /\ view'.page = view.page /\ view'.route = view.route /\ view'.checks = view.checks
            /\ DOMAIN view' = DOMAIN view /\ view'.sheet = BlankProviderSheet
        BY <1>2, <4>1 DEF SheetAndRows
      <4> QED
        BY <1>2, <4>2 DEF SheetAndRows, BlankProviderSheet
    <3>2. CASE \E k : view' = [view EXCEPT !.sheet.key = k]
      <4>1. PICK k : view' = [view EXCEPT !.sheet.key = k]
        BY <3>2
      <4> QED
        BY <1>2, <4>1 DEF SheetAndRows
    <3> QED
      BY <1>2, <2>2, <3>1, <3>2 DEF SheetAndRows
  <2> QED
    BY <1>1, <1>2, <1>3, <2>1, <2>3, InvParts, ProvidersMore DEF OfPage
<1>5. CASE TestProvider
  <2>1. PICK p \in Providers : view' = [view EXCEPT !.checks[p] = "running"]
                               /\ calls' = Append(calls, Call("test", [p |-> p, key |-> None]))
    BY <1>5 DEF TestProvider, TestSaved
  <2>2. /\ view'.page = view.page /\ view'.route = view.route /\ SheetAndRows(view')
        /\ view'.sheet = view.sheet
        /\ \A q \in Providers : q # p => view'.checks[q] = view.checks[q]
    BY <1>2, <2>1 DEF SheetAndRows
  <2>3. "test" \in Awaited /\ "test" \notin Checked /\ PageOf("test") = "providers"
    BY DEF Awaited, Checked, PageOf
  <2> DEFINE arg == [p |-> p, key |-> None]
  <2>4. arg.key = None /\ arg.p = p
    OBVIOUS
  <2>5. calls' = Append(calls, Call("test", arg))
    BY <2>1
  <2> HIDE DEF arg
  <2>6. /\ Waiting(calls') = Waiting(calls) \cup {<<"test", arg>>}
        /\ Asked(calls') /\ OfPage(Waiting(calls'), view')
    BY <1>1, <2>2, <2>3, <2>5, NewAsked, AskedMore
  <2>7. <<"test", arg>> \in Waiting(calls') /\ <<"test", arg>>[1] = "test"
        /\ <<"test", arg>>[2] = arg
    BY <2>6
  <2>8. ForRow(Waiting(calls'), p)
    BY <2>4, <2>7 DEF ForRow
  <2> QED
    BY <1>1, <1>2, <1>3, <2>2, <2>6, <2>8, ProvidersMore
<1>6. CASE RemoveProvider \/ PollProviders
  <2>1. PICK op, arg : op \in {"providers", "removeProvider"} /\ Sent(op, arg) /\ view' = view
    BY <1>6 DEF RemoveProvider, PollProviders, Polls, Ticks
  <2>2. op \in Awaited /\ op \notin Checked /\ PageOf(op) = "providers"
    BY <2>1 DEF Awaited, Checked, PageOf
  <2>3. calls' = Append(calls, Call(op, arg)) /\ view'.page = view.page
    BY <2>1 DEF Sent
  <2>4. /\ Waiting(calls) \subseteq Waiting(calls')
        /\ Asked(calls') /\ OfPage(Waiting(calls'), view')
    BY <1>1, <2>2, <2>3, NewAsked, AskedMore
  <2> QED
    BY <1>1, <1>2, <1>3, <2>1, <2>4, ProvidersMore
<1>7. CASE SaveProviderKey
  <2>1. view' = [view EXCEPT !.sheet.busy = TRUE, !.sheet.failure = FALSE]
    BY <1>7 DEF SaveProviderKey
  <2>2. view.sheet.key # None
    BY <1>7 DEF SaveProviderKey, SheetControls
  <2>3. PICK op, arg : /\ op \in {"test", "setProvider"} /\ arg.key = view.sheet.key
                       /\ calls' = Append(calls, Call(op, arg))
    <3>1. \E anyway : \/ calls' = Append(calls, SaveCall("test", anyway))
                      \/ calls' = Append(calls, SaveCall("setProvider", anyway))
      BY <1>7 DEF SaveProviderKey
    <3>2. PICK op, anyway : /\ op \in {"test", "setProvider"}
                            /\ calls' = Append(calls, SaveCall(op, anyway))
      BY <3>1
    <3> DEFINE a == [p |-> view.editing, key |-> view.sheet.key, anyway |-> anyway,
                     asked |-> view.route.provider # None]
    <3>3. a.key = view.sheet.key /\ calls' = Append(calls, Call(op, a))
      BY <3>2 DEF SaveCall
    <3> HIDE DEF a
    <3> QED
      BY <3>2, <3>3
  <2>4. op \in Awaited /\ op \notin Checked /\ PageOf(op) = "providers"
    BY <2>3 DEF Awaited, Checked, PageOf
  <2>5. /\ view'.page = view.page /\ view'.route = view.route /\ SheetAndRows(view')
        /\ view'.checks = view.checks
    <3>1. /\ view'.page = view.page /\ view'.route = view.route /\ view'.checks = view.checks
          /\ DOMAIN view' = DOMAIN view
          /\ view'.sheet = [[view.sheet EXCEPT !.busy = TRUE] EXCEPT !.failure = FALSE]
      BY <1>2, <2>1 DEF SheetAndRows
    <3> QED
      BY <1>2, <3>1 DEF SheetAndRows
  <2>6. /\ Waiting(calls') = Waiting(calls) \cup {<<op, arg>>}
        /\ Asked(calls') /\ OfPage(Waiting(calls'), view')
    BY <1>1, <2>3, <2>4, <2>5, NewAsked, AskedMore
  <2>7. <<op, arg>> \in Waiting(calls') /\ <<op, arg>>[1] = op /\ <<op, arg>>[2] = arg
    BY <2>6
  <2>8. ForSheet(Waiting(calls'))
    BY <2>2, <2>3, <2>7 DEF ForSheet, For
  <2> QED
    BY <1>1, <1>2, <1>3, <2>5, <2>6, <2>8, ProvidersMore
<1> QED
  BY <1>4, <1>5, <1>6, <1>7

LEMMA ProvidersServed ==
  ASSUME Inv, ServeProviders \/ ServeTest \/ ServeSetProvider \/ ServeRemoveProvider
  PROVE  WaitInv'
<1>1. PICK op, i, r : /\ op \in {"providers", "test", "setProvider", "removeProvider"}
                      /\ i \in Pending(op) /\ Answer(i, r)
  BY DEF ServeProviders, ServeTest, ServeSetProvider, ServeRemoveProvider
<1>2. me' = me /\ view' = view
  BY DEF ServeProviders, ServeTest, ServeSetProvider, ServeRemoveProvider, app
<1>3. server' = server \/ \E p, k : server' = [server EXCEPT !.provider[p] = k]
  BY DEF ServeProviders, ServeTest, ServeSetProvider, ServeRemoveProvider
<1>4. KeepsServer
  BY <1>3, InvParts DEF KeepsServer, WaitInv
<1>5. op \notin Answered
  BY <1>1 DEF Answered
<1> QED
  BY <1>1, <1>2, <1>4, <1>5, AnsweredQuiet

\* A step of the page that hears of a call: what the sheet and the rows still
\* wait for is in flight
LEMMA ProvidersLess ==
  ASSUME Inv, KeepsServer, me' = me, view.page = "providers",
         view'.page = view.page, view'.route = view.route, SheetAndRows(view'), Asked(calls'),
         \A a \in Waiting(calls') \ Waiting(calls) : PageOf(a[1]) = "providers",
         view'.sheet.busy => ForSheet(Waiting(calls')),
         \A p \in Providers : view'.checks[p] = "running" => ForRow(Waiting(calls'), p)
  PROVE  WaitInv'
<1>1. OfPage(Waiting(calls), view)
  BY InvParts, ProvidersScreen
<1>2. OfPage(Waiting(calls'), view')
  BY <1>1, OfPageStep
<1>3. ProvidersWaits(Waiting(calls'), view')
  BY ProvidersParts
<1> QED
  BY <1>2, <1>3, ProvidersScreen, PageStep

LEMMA ForLess ==
  ASSUME NEW waiting, NEW others, NEW op, NEW arg,
         waiting = others \cup {<<op, arg>>} \/ waiting = others
  PROVE  /\ op \notin {"test", "setProvider"} =>
              /\ ForSheet(waiting) => ForSheet(others)
              /\ \A p : ForRow(waiting, p) => ForRow(others, p)
         /\ op = "test" /\ arg.key = None =>
              /\ ForSheet(waiting) => ForSheet(others)
              /\ \A p : p # arg.p => (ForRow(waiting, p) => ForRow(others, p))
         /\ op = "setProvider" \/ (op = "test" /\ arg.key # None) =>
              \A p : ForRow(waiting, p) => ForRow(others, p)
<1> DEFINE b == <<op, arg>>
<1>1. b[1] = op /\ b[2] = arg /\ \A a \in waiting : a \in others \/ a = b
  OBVIOUS
<1> HIDE DEF b
<1>2. op \notin {"test", "setProvider"} =>
              /\ ForSheet(waiting) => ForSheet(others)
              /\ \A p : ForRow(waiting, p) => ForRow(others, p)
  BY <1>1 DEF ForSheet, For, ForRow
<1>3. op = "test" /\ arg.key = None =>
              /\ ForSheet(waiting) => ForSheet(others)
              /\ \A p : p # arg.p => (ForRow(waiting, p) => ForRow(others, p))
  BY <1>1 DEF ForSheet, For, ForRow
<1>4. op = "setProvider" \/ (op = "test" /\ arg.key # None) =>
              \A p : ForRow(waiting, p) => ForRow(others, p)
  BY <1>1 DEF ForRow
<1> QED
  BY <1>2, <1>3, <1>4

\* An answer that the page still hears
LEMMA ProvidersHears ==
  ASSUME Inv, NEW op \in {"providers", "test", "setProvider", "removeProvider"},
         NEW i \in Arrived(op), calls[i].live
  PROVE  /\ i \in DOMAIN calls /\ view.page = "providers"
         /\ SheetAndRows(view) /\ {"page", "route", "editing"} \subseteq DOMAIN view
         /\ view.sheet.busy => ForSheet(Waiting(calls))
         /\ \A p \in Providers : view.checks[p] = "running" => ForRow(Waiting(calls), p)
         /\ Waiting(calls) = Waiting(Without(i)) \cup {<<op, calls[i].arg>>}
         /\ Asked(Without(i)) /\ Waiting(Without(i)) \subseteq Waiting(calls)
<1>1. i \in DOMAIN calls /\ calls[i].op = op
  BY ArrivedCall
<1>2. Waits(calls[i]) /\ Pair(calls[i]) = <<op, calls[i].arg>> /\ PageOf(op) = "providers"
  BY <1>1 DEF Waits, Awaited, Pair, PageOf
<1>3. view.page = "providers"
  BY <1>1, <1>2, AwaitedWaits
<1>4. ProvidersWaits(Waiting(calls), view) /\ {"page", "route", "editing"} \subseteq DOMAIN view
  BY <1>3, InvParts, ProvidersScreen DEF ViewOk, SheetOk
<1>5. /\ Waiting(calls) = Waiting(Without(i)) \cup {<<op, calls[i].arg>>}
      /\ Asked(Without(i)) /\ Waiting(Without(i)) \subseteq Waiting(calls)
  BY <1>1, <1>2, WithoutWaits
<1> QED
  BY <1>1, <1>3, <1>4, <1>5, ProvidersParts

LEMMA ProvidersListed == ASSUME Inv, ProvidersLoaded PROVE WaitInv'
<1>1. PICK i \in Arrived("providers") :
        /\ view' = IF ~calls[i].live THEN view
                   ELSE IF Ok(i) THEN Requested([view EXCEPT !.list = Polled(@, i)])
                   ELSE [view EXCEPT !.list = Polled(@, i)]
        /\ calls' = Without(i) /\ me' = me /\ server' = server
  BY DEF ProvidersLoaded, app
<1>2. CASE ~calls[i].live
  <2>1. ~Waits(calls[i]) /\ i \in DOMAIN calls /\ view' = view
    BY <1>1, <1>2, ArrivedCall DEF Waits
  <2> QED
    BY <1>1, <2>1, SameAlike, DeliveredQuiet
<1>3. CASE calls[i].live
  <2>1. /\ i \in DOMAIN calls /\ view.page = "providers"
        /\ SheetAndRows(view) /\ {"page", "route", "editing"} \subseteq DOMAIN view
        /\ view.sheet.busy => ForSheet(Waiting(calls))
        /\ \A p \in Providers : view.checks[p] = "running" => ForRow(Waiting(calls), p)
        /\ Waiting(calls) = Waiting(Without(i)) \cup {<<"providers", calls[i].arg>>}
        /\ Asked(Without(i)) /\ Waiting(Without(i)) \subseteq Waiting(calls)
    BY <1>1, <1>3, ProvidersHears
  <2>2. /\ ForSheet(Waiting(calls)) => ForSheet(Waiting(calls'))
        /\ \A p : ForRow(Waiting(calls), p) => ForRow(Waiting(calls'), p)
    BY <1>1, <2>1, ForLess
  <2>3. /\ view'.page = view.page /\ view'.route = view.route /\ SheetAndRows(view')
        /\ view'.checks = view.checks /\ (view'.sheet.busy => view.sheet.busy)
    <3> DEFINE v == [view EXCEPT !.list = Polled(@, i)]
    <3>1. /\ v.page = view.page /\ v.route = view.route /\ DOMAIN v = DOMAIN view
          /\ v.checks = view.checks /\ v.sheet = view.sheet
      BY <2>1 DEF SheetAndRows
    <3> HIDE DEF v
    <3>2. view' = v \/ view' = Requested(v)
      BY <1>1, <1>3 DEF v
    <3>3. view' = v \/ \E p : view' = [v EXCEPT !.editing = p, !.sheet = BlankProviderSheet]
      BY <3>2 DEF Requested, Edited
    <3>4. CASE view' = v
      BY <2>1, <3>1, <3>4 DEF SheetAndRows
    <3>5. CASE \E p : view' = [v EXCEPT !.editing = p, !.sheet = BlankProviderSheet]
      <4>1. PICK p : view' = [v EXCEPT !.editing = p, !.sheet = BlankProviderSheet]
        BY <3>5
      <4>2. /\ view'.page = v.page /\ view'.route = v.route /\ view'.checks = v.checks
            /\ DOMAIN view' = DOMAIN v /\ view'.sheet = BlankProviderSheet
        BY <2>1, <3>1, <4>1 DEF SheetAndRows
      <4> QED
        BY <2>1, <3>1, <4>2 DEF SheetAndRows, BlankProviderSheet
    <3> QED
      BY <3>3, <3>4, <3>5
  <2>4. KeepsServer
    BY <1>1, InvParts, ServerKept
  <2> QED
    BY <1>1, <2>1, <2>2, <2>3, <2>4, ProvidersLess
<1> QED
  BY <1>2, <1>3

LEMMA TestLess ==
  ASSUME NEW waiting, NEW others, NEW arg, waiting = others \cup {<<"test", arg>>}
  PROVE  /\ arg.key = None =>
              /\ ForSheet(waiting) => ForSheet(others)
              /\ \A p : p # arg.p => (ForRow(waiting, p) => ForRow(others, p))
         /\ arg.key # None => \A p : ForRow(waiting, p) => ForRow(others, p)
BY ForLess

LEMMA KeyGoesOn ==
  ASSUME NEW arg, NEW live
  PROVE  /\ Pair([Call("setProvider", arg) EXCEPT !.live = live]) = <<"setProvider", arg>>
         /\ AskedOk([Call("setProvider", arg) EXCEPT !.live = live])
         /\ Waits([Call("setProvider", arg) EXCEPT !.live = live]) <=> live
<1>1. "setProvider" \in Awaited /\ "setProvider" \notin Checked
  BY DEF Awaited, Checked
<1> QED
  BY <1>1, NewAsked

LEMMA ProvidersTested == ASSUME Inv, TestDone PROVE WaitInv'
<1>1. PICK i \in Arrived("test") :
        LET a == calls[i].arg
            works == Ok(i) /\ calls[i].reply = "ok"
            saves == a.key # None /\ works
        IN /\ view' = IF ~calls[i].live \/ saves THEN view
                      ELSE IF a.key = None
                      THEN [view EXCEPT !.checks[a.p] = IF works THEN "ok" ELSE "bad"]
                      ELSE [view EXCEPT !.sheet.busy = FALSE, !.sheet.failure = TRUE]
           /\ calls' = IF saves
                       THEN Append(Without(i), [Call("setProvider", a) EXCEPT !.live = calls[i].live])
                       ELSE Without(i)
           /\ me' = me /\ server' = server
  BY DEF TestDone, app
<1> DEFINE arg == calls[i].arg
           live == calls[i].live
           saves == arg.key # None /\ Ok(i) /\ calls[i].reply = "ok"
           next == [Call("setProvider", arg) EXCEPT !.live = live]
<1>2. KeepsServer
  BY <1>1, InvParts, ServerKept
<1>3. /\ Pair(next) = <<"setProvider", arg>> /\ AskedOk(next)
      /\ Waits(next) <=> live
  BY KeyGoesOn
<1>4. /\ calls' = IF saves THEN Append(Without(i), next) ELSE Without(i)
      /\ view' = IF ~live \/ saves THEN view
                 ELSE IF arg.key = None
                 THEN [view EXCEPT !.checks[arg.p] =
                          IF Ok(i) /\ calls[i].reply = "ok" THEN "ok" ELSE "bad"]
                 ELSE [view EXCEPT !.sheet.busy = FALSE, !.sheet.failure = TRUE]
  BY <1>1
<1> HIDE DEF next, saves
<1>5. CASE ~live
  <2>1. ~Waits(calls[i]) /\ i \in DOMAIN calls /\ view' = view /\ ~Waits(next)
    BY <1>1, <1>3, <1>4, <1>5, ArrivedCall DEF Waits
  <2> QED
    BY <1>1, <1>3, <1>4, <2>1, SameAlike, DeliveredQuiet, GoesOnQuiet
<1>6. CASE live
  <2>1. /\ i \in DOMAIN calls /\ view.page = "providers"
        /\ SheetAndRows(view) /\ {"page", "route", "editing"} \subseteq DOMAIN view
        /\ view.sheet.busy => ForSheet(Waiting(calls))
        /\ \A p \in Providers : view.checks[p] = "running" => ForRow(Waiting(calls), p)
        /\ Waiting(calls) = Waiting(Without(i)) \cup {<<"test", arg>>}
        /\ Asked(Without(i)) /\ Waiting(Without(i)) \subseteq Waiting(calls)
    BY <1>1, <1>6, ProvidersHears
  <2>2. CASE saves
    <3>1. view' = view /\ Asked(calls')
          /\ Waiting(calls') = Waiting(Without(i)) \cup {<<"setProvider", arg>>}
      BY <1>3, <1>4, <1>6, <2>1, <2>2, GoesOnOne
    <3>2. \A p : ForRow(Waiting(calls), p) => ForRow(Waiting(calls'), p)
      <4>1. \A p : ForRow(Waiting(calls), p) => ForRow(Waiting(Without(i)), p)
        BY <2>1, <2>2, ForLess DEF saves
      <4> QED
        BY <3>1, <4>1, ForMore
    <3>3. <<"setProvider", arg>> \in Waiting(calls') /\ <<"setProvider", arg>>[1] = "setProvider"
      BY <3>1
    <3>4. ForSheet(Waiting(calls'))
      BY <3>3 DEF ForSheet, For
    <3>5. \A a \in Waiting(calls') \ Waiting(calls) : PageOf(a[1]) = "providers"
      BY <2>1, <3>1, <3>3 DEF PageOf
    <3> QED
      BY <1>1, <1>2, <2>1, <3>1, <3>2, <3>4, <3>5, ProvidersLess
  <2>3. CASE ~saves /\ arg.key = None
    <3>1. PICK e \in {"ok", "bad"} : view' = [view EXCEPT !.checks[arg.p] = e]
      BY <1>4, <1>6, <2>3
    <3>2. /\ view'.page = view.page /\ view'.route = view.route /\ SheetAndRows(view')
          /\ view'.sheet = view.sheet
          /\ \A q \in Providers : \/ view'.checks[q] \in {"ok", "bad"}
                                  \/ q # arg.p /\ view'.checks[q] = view.checks[q]
      BY <2>1, <3>1 DEF SheetAndRows
    <3>3. calls' = Without(i)
      BY <1>4, <2>3
    <3>4. /\ ForSheet(Waiting(calls)) => ForSheet(Waiting(calls'))
          /\ \A p : p # arg.p => (ForRow(Waiting(calls), p) => ForRow(Waiting(calls'), p))
      <4>1. /\ ForSheet(Waiting(calls)) => ForSheet(Waiting(Without(i)))
            /\ \A p : p # arg.p => (ForRow(Waiting(calls), p) => ForRow(Waiting(Without(i)), p))
        BY <2>1, <2>3, TestLess
      <4> QED
        BY <3>3, <4>1
    <3> QED
      BY <1>1, <1>2, <2>1, <3>2, <3>3, <3>4, ProvidersLess
  <2>4. CASE ~saves /\ arg.key # None
    <3>1. view' = [view EXCEPT !.sheet.busy = FALSE, !.sheet.failure = TRUE] /\ calls' = Without(i)
      BY <1>4, <1>6, <2>4
    <3>2. /\ view'.page = view.page /\ view'.route = view.route /\ DOMAIN view' = DOMAIN view
          /\ view'.checks = view.checks
          /\ view'.sheet = [[view.sheet EXCEPT !.busy = FALSE] EXCEPT !.failure = TRUE]
      BY <2>1, <3>1 DEF SheetAndRows
    <3>3. SheetAndRows(view') /\ ~view'.sheet.busy
      BY <2>1, <3>2 DEF SheetAndRows
    <3>4. \A p : ForRow(Waiting(calls), p) => ForRow(Waiting(calls'), p)
      <4>1. \A p : ForRow(Waiting(calls), p) => ForRow(Waiting(Without(i)), p)
        BY <2>1, <2>4, TestLess
      <4> QED
        BY <3>1, <4>1
    <3> QED
      BY <1>1, <1>2, <2>1, <3>1, <3>2, <3>3, <3>4, ProvidersLess
  <2> QED
    BY <2>2, <2>3, <2>4
<1> QED
  BY <1>5, <1>6

\* Saving or removing a key reloads the list, where it is still on screen
LEMMA ListReloaded ==
  ASSUME Inv, NEW i \in DOMAIN calls, NEW live,
         calls' = Without(i) \o RefreshCalls \o <<Reload("providers", live)>>
  PROVE  /\ Asked(calls') /\ Waiting(Without(i)) \subseteq Waiting(calls')
         /\ live => Waiting(calls') = Waiting(Without(i)) \cup {<<"providers", None>>}
         /\ ~live => Waiting(calls') = Waiting(Without(i))
<1> DEFINE c == Reload("providers", live)
           ds == Without(i) \o RefreshCalls
<1>1. CallsOk(RefreshCalls, server.written) /\ Asked(RefreshCalls) /\ Waiting(RefreshCalls) = {}
  BY RestWaits
<1>2. Waiting(ds) = Waiting(Without(i)) /\ Asked(ds) /\ CallsOk(ds, server.written)
  <2>1. Waiting(ds) = Waiting(Without(i)) \cup Waiting(RefreshCalls) /\ Asked(ds)
    BY <1>1, GoesOnWaits
  <2>2. CallsOk(ds, server.written)
    BY <1>1, WithoutWaits, CallsConcat
  <2> QED
    BY <1>1, <2>1, <2>2
<1>3. /\ Pair(c) = <<"providers", None>> /\ AskedOk(c) /\ CallOk(c, server.written)
      /\ Waits(c) => live
      /\ live => Waits(c)
  <2>1. "providers" \in Awaited /\ "providers" \notin Watched
    BY DEF Awaited, Watched
  <2>2. CallOk(c, server.written)
    BY <2>1, NewCall DEF Reload
  <2>3. Pair(c) = <<"providers", None>> /\ AskedOk(c)
    BY ReloadAsked
  <2>4. (Waits(c) => live) /\ (live => Waits(c))
    BY <2>1, ReloadAsked
  <2> QED
    BY <2>2, <2>3, <2>4
<1> HIDE DEF c, ds
<1>4. /\ CallsOk(<<c>>, server.written) /\ Asked(<<c>>)
      /\ Waiting(<<c>>) = IF live THEN {<<"providers", None>>} ELSE {}
  BY <1>3, CallsOne, WaitingOne
<1>5. Waiting(ds \o <<c>>) = Waiting(ds) \cup Waiting(<<c>>) /\ Asked(ds \o <<c>>)
  BY <1>2, <1>4, WaitingConcat
<1>6. calls' = ds \o <<c>>
  BY DEF ds, c
<1> QED
  BY <1>2, <1>4, <1>5, <1>6

LEMMA SaveLess ==
  ASSUME NEW waiting, NEW others, NEW arg, waiting = others \cup {<<"setProvider", arg>>}
  PROVE  \A p : ForRow(waiting, p) => ForRow(others, p)
BY ForLess

LEMMA RemoveLess ==
  ASSUME NEW waiting, NEW others, NEW arg, waiting = others \cup {<<"removeProvider", arg>>}
  PROVE  /\ ForSheet(waiting) => ForSheet(others)
         /\ \A p : ForRow(waiting, p) => ForRow(others, p)
<1>1. "removeProvider" \notin {"test", "setProvider"}
  OBVIOUS
<1> QED
  BY <1>1, ForLess

LEMMA ProvidersSaved == ASSUME Inv, ProviderSaved PROVE WaitInv'
<1>1. PICK i \in Arrived("setProvider") :
        /\ me' = me /\ server' = server
        /\ IF Ok(i) THEN calls' = Without(i) \o RefreshCalls \o <<Reload("providers", calls[i].live)>>
           ELSE calls' = Without(i)
        /\ ~calls[i].live => view' = view
        /\ calls[i].live => \/ view' = [view EXCEPT !.sheet.busy = FALSE, !.sheet.failure = TRUE]
                            \/ \E p, c : view' = Edited([view EXCEPT !.sheet.busy = FALSE,
                                                           !.checks[p] = IF c THEN @ ELSE "ok"], None)
  BY DEF ProviderSaved, CloseSheet, app
<1> DEFINE live == calls[i].live
           arg == calls[i].arg
<1>2. KeepsServer /\ i \in DOMAIN calls /\ calls[i].op = "setProvider"
  BY <1>1, InvParts, ServerKept, ArrivedCall
<1>3. CASE ~live
  <2>1. ~Waits(calls[i]) /\ view' = view
    BY <1>1, <1>3 DEF Waits
  <2>2. CASE Ok(i)
    <3>1. calls' = Without(i) \o RefreshCalls \o <<Reload("providers", live)>>
      BY <1>1, <2>2
    <3>2. KeepsCalls
      BY <1>2, <1>3, <2>1, <3>1, ListReloaded, WithoutWaits DEF KeepsCalls
    <3> QED
      BY <1>1, <1>2, <2>1, <3>2, SameAlike, QuietStep
  <2>3. CASE ~Ok(i)
    BY <1>1, <1>2, <2>1, <2>3, SameAlike, DeliveredQuiet
  <2> QED
    BY <2>2, <2>3
<1>4. CASE live
  <2>1. /\ view.page = "providers"
        /\ SheetAndRows(view) /\ {"page", "route", "editing"} \subseteq DOMAIN view
        /\ \A p \in Providers : view.checks[p] = "running" => ForRow(Waiting(calls), p)
        /\ Waiting(calls) = Waiting(Without(i)) \cup {<<"setProvider", arg>>}
        /\ Asked(Without(i)) /\ Waiting(Without(i)) \subseteq Waiting(calls)
    BY <1>1, <1>4, ProvidersHears
  <2>2. /\ Asked(calls') /\ Waiting(Without(i)) \subseteq Waiting(calls')
        /\ Waiting(calls') \subseteq Waiting(Without(i)) \cup {<<"providers", None>>}
    <3>1. CASE Ok(i)
      <4>1. calls' = Without(i) \o RefreshCalls \o <<Reload("providers", live)>>
        BY <1>1, <3>1
      <4> QED
        BY <1>2, <1>4, <4>1, ListReloaded
    <3> QED
      BY <1>1, <2>1, <3>1
  <2>3. \A p : ForRow(Waiting(calls), p) => ForRow(Waiting(calls'), p)
    BY <2>1, <2>2, SaveLess, ForMore
  <2>4. \A a \in Waiting(calls') \ Waiting(calls) : PageOf(a[1]) = "providers"
    <3>1. <<"providers", None>>[1] = "providers" /\ PageOf("providers") = "providers"
      BY DEF PageOf
    <3> QED
      BY <2>1, <2>2, <3>1
  <2>5. /\ view'.page = view.page /\ view'.route = view.route /\ SheetAndRows(view')
        /\ ~view'.sheet.busy
        /\ \A p \in Providers : view'.checks[p] = "running" => view.checks[p] = "running"
    <3>1. CASE view' = [view EXCEPT !.sheet.busy = FALSE, !.sheet.failure = TRUE]
      <4>1. /\ view'.page = view.page /\ view'.route = view.route /\ DOMAIN view' = DOMAIN view
            /\ view'.checks = view.checks
            /\ view'.sheet = [[view.sheet EXCEPT !.busy = FALSE] EXCEPT !.failure = TRUE]
        BY <2>1, <3>1 DEF SheetAndRows
      <4> QED
        BY <2>1, <4>1 DEF SheetAndRows
    <3>2. CASE \E p, c : view' = Edited([view EXCEPT !.sheet.busy = FALSE,
                                            !.checks[p] = IF c THEN @ ELSE "ok"], None)
      <4>1. PICK p, c : view' = Edited([view EXCEPT !.sheet.busy = FALSE,
                                            !.checks[p] = IF c THEN @ ELSE "ok"], None)
        BY <3>2
      <4> DEFINE v == [view EXCEPT !.sheet.busy = FALSE, !.checks[p] = IF c THEN @ ELSE "ok"]
      <4>2. /\ v.page = view.page /\ v.route = view.route /\ DOMAIN v = DOMAIN view
            /\ v.sheet = [view.sheet EXCEPT !.busy = FALSE]
            /\ v.checks = [view.checks EXCEPT ![p] = IF c THEN @ ELSE "ok"]
        BY <2>1 DEF SheetAndRows
      <4>3. view' = Edited(v, None)
        BY <4>1
      <4> HIDE DEF v
      <4>4. /\ SheetAndRows(v) /\ ~v.sheet.busy
            /\ \A q \in Providers : v.checks[q] = "running" => view.checks[q] = "running"
        BY <2>1, <4>2 DEF SheetAndRows
      <4>5. view' = v \/ view' = [v EXCEPT !.editing = None, !.sheet = BlankProviderSheet]
        BY <4>3 DEF Edited
      <4>6. CASE view' = [v EXCEPT !.editing = None, !.sheet = BlankProviderSheet]
        <5>1. /\ view'.page = v.page /\ view'.route = v.route /\ view'.checks = v.checks
              /\ DOMAIN view' = DOMAIN v /\ view'.sheet = BlankProviderSheet
          BY <2>1, <4>2, <4>6 DEF SheetAndRows
        <5> QED
          BY <4>2, <4>4, <5>1 DEF SheetAndRows, BlankProviderSheet
      <4> QED
        BY <4>2, <4>4, <4>5, <4>6
    <3> QED
      BY <1>1, <1>4, <3>1, <3>2
  <2> QED
    BY <1>1, <1>2, <2>1, <2>2, <2>3, <2>4, <2>5, ProvidersLess
<1> QED
  BY <1>3, <1>4

LEMMA ProvidersRemoved == ASSUME Inv, ProviderRemoved PROVE WaitInv'
<1>1. PICK i \in Arrived("removeProvider") :
        /\ me' = me /\ server' = server
        /\ IF Ok(i)
           THEN /\ view' = IF calls[i].live
                           THEN [view EXCEPT !.checks[calls[i].arg.p] = None] ELSE view
                /\ calls' = Without(i) \o RefreshCalls \o <<Reload("providers", calls[i].live)>>
           ELSE view' = view /\ calls' = Without(i)
  BY DEF ProviderRemoved, app
<1> DEFINE live == calls[i].live
           arg == calls[i].arg
<1>2. KeepsServer /\ i \in DOMAIN calls /\ calls[i].op = "removeProvider"
  BY <1>1, InvParts, ServerKept, ArrivedCall
<1>3. CASE ~live
  <2>1. ~Waits(calls[i]) /\ view' = view
    BY <1>1, <1>3 DEF Waits
  <2>2. CASE Ok(i)
    <3>1. calls' = Without(i) \o RefreshCalls \o <<Reload("providers", live)>>
      BY <1>1, <2>2
    <3>2. KeepsCalls
      BY <1>2, <1>3, <2>1, <3>1, ListReloaded, WithoutWaits DEF KeepsCalls
    <3> QED
      BY <1>1, <1>2, <2>1, <3>2, SameAlike, QuietStep
  <2>3. CASE ~Ok(i)
    BY <1>1, <1>2, <2>1, <2>3, SameAlike, DeliveredQuiet
  <2> QED
    BY <2>2, <2>3
<1>4. CASE live
  <2>1. /\ view.page = "providers"
        /\ SheetAndRows(view) /\ {"page", "route", "editing"} \subseteq DOMAIN view
        /\ view.sheet.busy => ForSheet(Waiting(calls))
        /\ \A p \in Providers : view.checks[p] = "running" => ForRow(Waiting(calls), p)
        /\ Waiting(calls) = Waiting(Without(i)) \cup {<<"removeProvider", arg>>}
        /\ Asked(Without(i)) /\ Waiting(Without(i)) \subseteq Waiting(calls)
    BY <1>1, <1>4, ProvidersHears
  <2>2. /\ Asked(calls') /\ Waiting(Without(i)) \subseteq Waiting(calls')
        /\ Waiting(calls') \subseteq Waiting(Without(i)) \cup {<<"providers", None>>}
    <3>1. CASE Ok(i)
      <4>1. calls' = Without(i) \o RefreshCalls \o <<Reload("providers", live)>>
        BY <1>1, <3>1
      <4> QED
        BY <1>2, <1>4, <4>1, ListReloaded
    <3> QED
      BY <1>1, <2>1, <3>1
  <2>3. /\ ForSheet(Waiting(calls)) => ForSheet(Waiting(calls'))
        /\ \A p : ForRow(Waiting(calls), p) => ForRow(Waiting(calls'), p)
    BY <2>1, <2>2, RemoveLess, ForMore
  <2>4. \A a \in Waiting(calls') \ Waiting(calls) : PageOf(a[1]) = "providers"
    <3>1. <<"providers", None>>[1] = "providers" /\ PageOf("providers") = "providers"
      BY DEF PageOf
    <3> QED
      BY <2>1, <2>2, <3>1
  <2>5. /\ view'.page = view.page /\ view'.route = view.route /\ SheetAndRows(view')
        /\ view'.sheet = view.sheet
        /\ \A p \in Providers : view'.checks[p] = "running" => view.checks[p] = "running"
    <3>1. view' = view \/ view' = [view EXCEPT !.checks[arg.p] = None]
      BY <1>1
    <3> HIDE DEF arg
    <3> QED
      BY <2>1, <3>1, NoCheckAssumption DEF SheetAndRows
  <2> QED
    BY <1>1, <1>2, <2>1, <2>2, <2>3, <2>4, <2>5, ProvidersLess
<1> QED
  BY <1>3, <1>4

LEMMA ProvidersWaited == ASSUME Inv, ProvidersNext PROVE WaitInv'
BY ProvidersClicks, ProvidersServed, ProvidersListed, ProvidersTested, ProvidersSaved,
   ProvidersRemoved DEF ProvidersNext

---------------------------------------------------------------------------
(* The list of indexes                                                     *)

LEMMA IndexesScreen ==
  ASSUME NEW waiting, NEW v, v.page = "indexes"
  PROVE  Screen(waiting, v) <=> OfPage(waiting, v) /\ IndexesWaits(waiting, v)
BY DEF Screen, PageWaits

LEMMA IndexesWaited == ASSUME Inv, IndexesNext PROVE WaitInv'
<1>0. me' = me /\ (~ServeCreateIndex => server' = server)
  BY DEF IndexesNext, OpenIndex, CreateIndex, EditIndex, SubmitIndex, CloseIndexSheet,
         ServeCreateIndex, IndexCreated, app
<1>1. CASE OpenIndex
  <2>1. calls' = calls /\ view' = view /\ server' = server
    BY <1>1 DEF OpenIndex
  <2> QED
    BY <1>0, <2>1, InvParts, ServerKept, SameAlike, StillQuiet
<1>2. CASE CreateIndex \/ EditIndex \/ CloseIndexSheet
  <2>1. calls' = calls /\ server' = server /\ view.page = "indexes"
    BY <1>2 DEF CreateIndex, EditIndex, CloseIndexSheet, OnIndexes
  <2>2. OfPage(Waiting(calls), view) /\ IndexesWaits(Waiting(calls), view)
    BY <2>1, InvParts, IndexesScreen
  <2>3. \/ view' = view \/ view' = [view EXCEPT !.creating = FALSE]
        \/ view' = [view EXCEPT !.creating = TRUE, !.sheet.name = None, !.sheet.busy = FALSE]
        \/ \E e : view' = [view EXCEPT !.sheet.name = e]
        \/ \E e : view' = [view EXCEPT !.sheet.text = e]
        \/ \E e : view' = [view EXCEPT !.sheet.dim = e]
        \/ \E e : view' = [view EXCEPT !.sheet.model = e, !.sheet.size = None]
        \/ \E e : view' = [view EXCEPT !.sheet.size = e]
    BY <1>2 DEF CreateIndex, EditIndex, CloseIndexSheet, IndexSheetOpened
  <2>4. /\ view'.page = view.page /\ view'.route = view.route
        /\ {"sheet", "creating"} \subseteq DOMAIN view' /\ "busy" \in DOMAIN view'.sheet
        /\ view'.creating /\ view'.sheet.busy => view.creating /\ view.sheet.busy
    <3>1. CASE \E e, f : view' = [view EXCEPT !.creating = f, !.sheet.name = None, !.sheet.busy = FALSE]
      <4>1. PICK f : view' = [view EXCEPT !.creating = f, !.sheet.name = None, !.sheet.busy = FALSE]
        BY <3>1
      <4>2. /\ view'.page = view.page /\ view'.route = view.route /\ DOMAIN view' = DOMAIN view
            /\ view'.sheet = [[view.sheet EXCEPT !.name = None] EXCEPT !.busy = FALSE]
        BY <2>2, <4>1, InvParts DEF IndexesWaits
      <4> QED
        BY <2>2, <4>2 DEF IndexesWaits
    <3>2. CASE \E e : view' = [view EXCEPT !.sheet.model = e, !.sheet.size = None]
      <4>1. PICK e : view' = [view EXCEPT !.sheet.model = e, !.sheet.size = None]
        BY <3>2
      <4>2. /\ view'.page = view.page /\ view'.route = view.route /\ DOMAIN view' = DOMAIN view
            /\ view'.sheet = [[view.sheet EXCEPT !.model = e] EXCEPT !.size = None]
            /\ view'.creating = view.creating
        BY <2>2, <4>1, InvParts DEF IndexesWaits
      <4> QED
        BY <2>2, <4>2 DEF IndexesWaits
    <3>3. CASE \/ view' = view \/ view' = [view EXCEPT !.creating = FALSE]
               \/ \E e : view' = [view EXCEPT !.sheet.name = e]
               \/ \E e : view' = [view EXCEPT !.sheet.text = e]
      BY <2>2, <3>3, InvParts DEF IndexesWaits
    <3>4. CASE \/ \E e : view' = [view EXCEPT !.sheet.dim = e]
               \/ \E e : view' = [view EXCEPT !.sheet.size = e]
      BY <2>2, <3>4, InvParts DEF IndexesWaits
    <3> QED
      BY <2>3, <3>1, <3>2, <3>3, <3>4
  <2>5. OfPage(Waiting(calls'), view') /\ IndexesWaits(Waiting(calls'), view')
    BY <2>1, <2>2, <2>4 DEF OfPage, IndexesWaits
  <2> QED
    BY <1>0, <2>1, <2>4, <2>5, IndexesScreen, InvParts, ServerKept, PageStep
<1>3. CASE SubmitIndex
  <2>1. view.page = "indexes" /\ view' = [view EXCEPT !.sheet.busy = TRUE] /\ server' = server
    BY <1>3 DEF SubmitIndex, OnIndexes
  <2>2. PICK arg : calls' = Append(calls, Call("createIndex", arg))
    BY <1>3 DEF SubmitIndex, Sent
  <2>3. IndexesWaits(Waiting(calls), view)
    BY <2>1, InvParts, IndexesScreen
  <2>4. /\ view'.page = view.page /\ view'.route = view.route
        /\ {"sheet", "creating"} \subseteq DOMAIN view' /\ "busy" \in DOMAIN view'.sheet
    BY <2>1, <2>3, InvParts DEF IndexesWaits
  <2>5. "createIndex" \in Awaited /\ "createIndex" \notin Checked /\ PageOf("createIndex") = "indexes"
    BY DEF Awaited, Checked, PageOf
  <2>6. /\ Asked(calls') /\ OfPage(Waiting(calls'), view')
        /\ For(Waiting(calls'), {"createIndex"})
    BY <2>1, <2>2, <2>4, <2>5, NewAsked, AskedMore
  <2>7. IndexesWaits(Waiting(calls'), view')
    BY <2>4, <2>6 DEF IndexesWaits
  <2> QED
    BY <1>0, <2>1, <2>4, <2>6, <2>7, IndexesScreen, InvParts, ServerKept, PageStep
<1>4. CASE ServeCreateIndex
  <2>1. PICK i \in Pending("createIndex") :
          (\E r : Answer(i, r)) \/ calls' = [calls EXCEPT ![i].st = "failed"]
    BY <1>4 DEF ServeCreateIndex
  <2>2. view' = view /\ (server' = server \/ \E n : server' = [server EXCEPT !.indexes = @ \cup {n}])
    BY <1>4 DEF ServeCreateIndex
  <2>3. KeepsServer
    BY <2>2, InvParts DEF KeepsServer, WaitInv
  <2> QED
    BY <1>0, <2>1, <2>2, <2>3, PendingCall, AnsweredQuiet, FailedQuiet DEF Answered
<1>5. CASE IndexCreated
  <2>1. PICK i \in Arrived("createIndex") :
          /\ IF ~calls[i].live THEN view' = view
             ELSE \/ Ok(i) /\ view' = [view EXCEPT !.creating = FALSE]
                  \/ ~Ok(i) /\ view' = [view EXCEPT !.sheet.busy = FALSE]
          /\ calls' = Without(i) \/ calls' = Without(i) \o OnChanged
    BY <1>5 DEF IndexCreated
  <2>2. i \in DOMAIN calls /\ calls[i].op = "createIndex" /\ server' = server /\ KeepsServer
    BY <1>0, <1>5, <2>1, ArrivedCall, InvParts, ServerKept DEF IndexCreated, app
  <2>3. Waiting(calls') = Waiting(Without(i)) /\ Asked(calls')
    <3>1. CallsOk(OnChanged, server.written) /\ Asked(OnChanged) /\ Waiting(OnChanged) = {}
      BY RestWaits
    <3>2. Waiting(Without(i) \o OnChanged) = Waiting(Without(i)) /\ Asked(Without(i) \o OnChanged)
      BY <2>2, <3>1, GoesOnWaits
    <3> QED
      BY <2>1, <2>2, <3>2, WithoutWaits
  <2>4. CASE ~calls[i].live
    <3>1. KeepsCalls
      BY <2>2, <2>3, <2>4, WithoutWaits DEF KeepsCalls, Waits
    <3> QED
      BY <1>0, <2>1, <2>2, <2>4, <3>1, SameAlike, QuietStep
  <2>5. CASE calls[i].live
    <3>1. view.page = "indexes"
      BY <2>2, <2>5, AwaitedWaits DEF Waits, Awaited, PageOf
    <3>2. OfPage(Waiting(calls), view) /\ IndexesWaits(Waiting(calls), view)
      BY <3>1, InvParts, IndexesScreen
    <3>3. /\ view'.page = view.page /\ view'.route = view.route
          /\ {"sheet", "creating"} \subseteq DOMAIN view' /\ "busy" \in DOMAIN view'.sheet
          /\ ~(view'.creating /\ view'.sheet.busy)
      BY <2>1, <2>5, <3>2, InvParts DEF IndexesWaits
    <3>4. OfPage(Waiting(calls'), view') /\ IndexesWaits(Waiting(calls'), view')
      BY <2>2, <2>3, <3>2, <3>3, WithoutWaits DEF OfPage, IndexesWaits
    <3> QED
      BY <1>0, <2>2, <2>3, <3>1, <3>3, <3>4, IndexesScreen, PageStep
  <2> QED
    BY <2>4, <2>5
<1> QED
  BY <1>1, <1>2, <1>3, <1>4, <1>5 DEF IndexesNext

---------------------------------------------------------------------------
(* The playground                                                          *)

Latest(waiting, op) == \E a \in waiting : a[1] = op /\ a[2].newest = TRUE

\* A search that is busy waits for its timer or for the newest call; so does a
\* comparison, while there is a text
SearchWaits(waiting, s) == s.busy => s.wait \/ Latest(waiting, "search")
CompareWaits(waiting, c) ==
    /\ c.asks.picked = <<>> => ~c.busy
    /\ c.busy /\ c.asks.text # None => c.wait \/ Latest(waiting, "compare")

LEMMA PlaygroundScreen ==
  ASSUME NEW waiting, NEW v, v.page = "playground"
  PROVE  Screen(waiting, v) <=> /\ OfPage(waiting, v) /\ IsFunction(v)
                                /\ v.search # None => SearchWaits(waiting, v.search)
                                /\ v.compare # None => CompareWaits(waiting, v.compare)
<1>1. Screen(waiting, v) <=> OfPage(waiting, v) /\ PlaygroundWaits(waiting, v)
  BY DEF Screen, PageWaits
<1>2. PlaygroundWaits(waiting, v) <=>
         /\ IsFunction(v)
         /\ v.search # None => SearchWaits(waiting, v.search)
         /\ v.compare # None => CompareWaits(waiting, v.compare)
  BY DEF PlaygroundWaits, IsFunction, SearchWaits, CompareWaits, Latest
<1> QED
  BY <1>1, <1>2

LEMMA PlaygroundParts ==
  ASSUME Inv, view.page = "playground"
  PROVE  /\ OfPage(Waiting(calls), view) /\ IsFunction(view)
         /\ {"page", "route", "search", "compare"} \subseteq DOMAIN view
         /\ view.search # None => SearchOk(view.search) /\ SearchWaits(Waiting(calls), view.search)
         /\ view.compare # None => CompareOk(view.compare)
                                   /\ CompareWaits(Waiting(calls), view.compare)
<1>1. /\ {"page", "route", "search", "compare"} \subseteq DOMAIN view
      /\ view.search # None => SearchOk(view.search)
      /\ view.compare # None => CompareOk(view.compare)
  BY InvParts DEF ShownOk
<1> QED
  BY <1>1, InvParts, PlaygroundScreen

\* One of the two parts moves, and nothing that the other waits for is gone
LEMMA SearchMoves ==
  ASSUME Inv, view.page = "playground", NEW s, view' = [view EXCEPT !.search = s],
         s = None \/ SearchWaits(Waiting(calls'), s),
         Latest(Waiting(calls), "compare") => Latest(Waiting(calls'), "compare"),
         Asked(calls'), OfPage(Waiting(calls'), view), KeepsServer, me' = me
  PROVE  WaitInv'
<1>1. /\ view'.page = view.page /\ view'.route = view.route /\ IsFunction(view')
      /\ view'.search = s /\ view'.compare = view.compare
  BY PlaygroundParts DEF IsFunction
<1>2. view.compare # None => CompareWaits(Waiting(calls'), view.compare)
  BY PlaygroundParts DEF CompareWaits
<1>3. OfPage(Waiting(calls'), view')
  BY <1>1 DEF OfPage
<1>4. Screen(Waiting(calls'), view')
  BY <1>1, <1>2, <1>3, PlaygroundScreen
<1> QED
  BY <1>1, <1>4, PageStep

LEMMA CompareMoves ==
  ASSUME Inv, view.page = "playground", NEW c, view' = [view EXCEPT !.compare = c],
         c = None \/ CompareWaits(Waiting(calls'), c),
         Latest(Waiting(calls), "search") => Latest(Waiting(calls'), "search"),
         Asked(calls'), OfPage(Waiting(calls'), view), KeepsServer, me' = me
  PROVE  WaitInv'
<1>1. /\ view'.page = view.page /\ view'.route = view.route /\ IsFunction(view')
      /\ view'.compare = c /\ view'.search = view.search
  BY PlaygroundParts DEF IsFunction
<1>2. view.search # None => SearchWaits(Waiting(calls'), view.search)
  BY PlaygroundParts DEF SearchWaits
<1>3. OfPage(Waiting(calls'), view')
  BY <1>1 DEF OfPage
<1>4. Screen(Waiting(calls'), view')
  BY <1>1, <1>2, <1>3, PlaygroundScreen
<1> QED
  BY <1>1, <1>4, PageStep

\* Calls of one kind are outdated: those of other kinds are as they were
LEMMA OutdatedWaits ==
  ASSUME Inv, NEW op, op \notin Checked
  PROVE  /\ DOMAIN Outdated(op) = DOMAIN calls /\ Asked(Outdated(op))
         /\ \A i \in DOMAIN calls : Outdated(op)[i].op = calls[i].op
         /\ \A other : other # op /\ Latest(Waiting(calls), other)
                          => Latest(Waiting(Outdated(op)), other)
         /\ OfPage(Waiting(Outdated(op)), view)
<1> DEFINE ds == Outdated(op)
<1>1. DOMAIN ds = DOMAIN calls
  BY DEF Outdated
<1>2. ASSUME NEW i \in DOMAIN calls
      PROVE  /\ ds[i].op = calls[i].op /\ ds[i].live = calls[i].live
             /\ calls[i].op # op => ds[i] = calls[i]
  <2>1. CASE calls[i].op = op
    <3> DEFINE x == [asks |-> None, newest |-> FALSE]
    <3>1. ds[i] = [calls[i] EXCEPT !.arg = x]
      BY <2>1 DEF Outdated
    <3> HIDE DEF x
    <3>2. IsCall(calls[i])
      BY InvParts, CallsElement DEF CallOk
    <3>3. ds[i] = [op |-> calls[i].op, arg |-> x, live |-> calls[i].live,
                   st |-> calls[i].st, reply |-> calls[i].reply]
      BY <3>1, <3>2, CallMade
    <3> QED
      BY <2>1, <3>3
  <2>2. CASE calls[i].op # op
    BY <2>2 DEF Outdated
  <2> QED
    BY <2>1, <2>2
<1> HIDE DEF ds
<1>3. Asked(ds)
  <2> SUFFICES ASSUME NEW i \in DOMAIN ds PROVE AskedOk(ds[i])
    BY DEF Asked
  <2>1. CASE calls[i].op = op
    BY <1>1, <1>2, <2>1 DEF AskedOk, Checked
  <2>2. CASE calls[i].op # op
    BY <1>1, <1>2, <2>2, InvParts DEF Asked
  <2> QED
    BY <2>1, <2>2
<1>4. ASSUME NEW other, other # op, Latest(Waiting(calls), other)
      PROVE  Latest(Waiting(ds), other)
  <2>1. PICK i \in DOMAIN calls : /\ calls[i].live /\ calls[i].op \in Awaited
                                  /\ calls[i].op = other /\ calls[i].arg.newest = TRUE
    BY <1>4 DEF Latest, Waiting
  <2>2. ds[i] = calls[i] /\ i \in DOMAIN ds
    BY <1>1, <1>2, <1>4, <2>1
  <2> DEFINE a == <<ds[i].op, ds[i].arg>>
  <2>3. a \in Waiting(ds)
    BY <2>1, <2>2 DEF Waiting
  <2>4. a[1] = other /\ a[2].newest = TRUE
    BY <2>1, <2>2
  <2> QED
    BY <2>3, <2>4 DEF Latest
<1>5. OfPage(Waiting(ds), view)
  <2> SUFFICES ASSUME NEW i \in DOMAIN ds, ds[i].live, ds[i].op \in Awaited
               PROVE  PageOf(ds[i].op) = view.page
    BY DEF OfPage, Waiting
  <2> QED
    BY <1>1, <1>2, AwaitedWaits DEF Waits
<1> QED
  BY <1>1, <1>2, <1>3, <1>4, <1>5 DEF ds

LEMMA SearchAgainWaits ==
  ASSUME NEW s, {"asks", "wait", "busy", "error", "result"} \subseteq DOMAIN s, NEW list
  PROVE  SearchAgain(s, list).wait \/ ~SearchAgain(s, list).busy
BY DEF SearchAgain

LEMMA SearchEdited == ASSUME Inv, EditSearch \/ ChooseIndex PROVE WaitInv'
<1>1. /\ Searching /\ calls' = Outdated("search") /\ server' = server /\ me' = me
      /\ \E s, list : /\ DOMAIN s = DOMAIN view.search
                      /\ view' = [view EXCEPT !.search = SearchAgain(s, list)]
  <2>1. CASE EditSearch
    <3>1. PICK a : view' = [view EXCEPT !.search = SearchAgain([@ EXCEPT !.asks = a],
                                                               shell.indexes.data)]
      BY <2>1 DEF EditSearch
    <3> DEFINE s == [view.search EXCEPT !.asks = a]
    <3>2. view' = [view EXCEPT !.search = SearchAgain(s, shell.indexes.data)]
      BY <3>1
    <3>3. DOMAIN s = DOMAIN view.search
      OBVIOUS
    <3> HIDE DEF s
    <3> QED
      BY <2>1, <3>2, <3>3 DEF EditSearch, app
  <2>2. CASE ChooseIndex
    <3>1. PICK n : view' = [view EXCEPT !.search = SearchAgain(Renamed(@, n), shell.indexes.data)]
      BY <2>2 DEF ChooseIndex
    <3> DEFINE s == Renamed(view.search, n)
    <3>2. view' = [view EXCEPT !.search = SearchAgain(s, shell.indexes.data)]
      BY <3>1
    <3>3. DOMAIN s = DOMAIN view.search
      BY DEF Renamed
    <3> HIDE DEF s
    <3> QED
      BY <2>2, <3>2, <3>3 DEF ChooseIndex, app
  <2> QED
    BY <2>1, <2>2
<1>2. PICK s, list : /\ DOMAIN s = DOMAIN view.search
                     /\ view' = [view EXCEPT !.search = SearchAgain(s, list)]
  BY <1>1
<1>3. view.page = "playground" /\ SearchOk(view.search)
  BY <1>1, PlaygroundParts DEF Searching
<1>4. SearchAgain(s, list).wait \/ ~SearchAgain(s, list).busy
  BY <1>2, <1>3, SearchAgainWaits DEF SearchOk
<1> DEFINE r == SearchAgain(s, list)
<1>5. view' = [view EXCEPT !.search = r] /\ SearchWaits(Waiting(calls'), r)
  BY <1>2, <1>4 DEF SearchWaits
<1> HIDE DEF r
<1>6. /\ Asked(calls') /\ OfPage(Waiting(calls'), view)
      /\ Latest(Waiting(calls), "compare") => Latest(Waiting(calls'), "compare")
  <2>1. "search" \notin Checked /\ "compare" # "search"
    BY DEF Checked
  <2> QED
    BY <1>1, <2>1, OutdatedWaits
<1> QED
  BY <1>1, <1>3, <1>5, <1>6, InvParts, ServerKept, SearchMoves

LEMMA SearchRun == ASSUME Inv, RunSearch PROVE WaitInv'
<1> DEFINE s == [view.search EXCEPT !.wait = FALSE, !.busy = TRUE]
           a == [asks |-> view.search.asks, newest |-> TRUE]
<1>1. /\ view.page = "playground" /\ view' = [view EXCEPT !.search = s]
      /\ calls' = Append(calls, Call("search", a)) /\ me' = me /\ server' = server
  BY DEF RunSearch, Searching, Sent, app
<1>2. a.newest = TRUE
  OBVIOUS
<1> HIDE DEF a, s
<1>3. view'.page = view.page
  BY <1>1, PlaygroundParts
<1>4. "search" \in Awaited /\ "search" \notin Checked /\ PageOf("search") = "playground"
  BY DEF Awaited, Checked, PageOf
<1>5. /\ Waiting(calls') = Waiting(calls) \cup {<<"search", a>>}
      /\ Asked(calls') /\ OfPage(Waiting(calls'), view')
  BY <1>1, <1>3, <1>4, NewAsked, AskedMore
<1>6. /\ Latest(Waiting(calls'), "search")
      /\ Latest(Waiting(calls), "compare") => Latest(Waiting(calls'), "compare")
  <2>1. <<"search", a>>[1] = "search" /\ <<"search", a>>[2] = a
    OBVIOUS
  <2> QED
    BY <1>2, <1>5, <2>1 DEF Latest
<1>7. SearchWaits(Waiting(calls'), s) /\ OfPage(Waiting(calls'), view)
  BY <1>3, <1>5, <1>6 DEF SearchWaits, OfPage
<1> QED
  BY <1>1, <1>5, <1>6, <1>7, InvParts, ServerKept, SearchMoves

\* A call that is not the newest is awaited in vain: the page forgets it
LEMMA LatestLess ==
  ASSUME Inv, NEW i \in DOMAIN calls, NEW op,
         calls[i].op # op \/ ~calls[i].live \/ ~calls[i].arg.newest,
         Latest(Waiting(calls), op)
  PROVE  Latest(Waiting(Without(i)), op)
<1>1. CASE ~Waits(calls[i])
  BY <1>1, WithoutWaits
<1>2. CASE Waits(calls[i])
  <2>1. PICK a \in Waiting(calls) : a[1] = op /\ a[2].newest = TRUE
    BY DEF Latest
  <2>2. Pair(calls[i])[1] = calls[i].op /\ Pair(calls[i])[2] = calls[i].arg /\ calls[i].live
    BY <1>2 DEF Pair, Waits
  <2>3. a # Pair(calls[i])
    BY <2>1, <2>2
  <2>4. a \in Waiting(Without(i))
    BY <1>2, <2>1, <2>3, WithoutWaits
  <2> QED
    BY <2>1, <2>4 DEF Latest
<1> QED
  BY <1>1, <1>2

LEMMA PlaygroundForgets ==
  ASSUME Inv, NEW i \in DOMAIN calls, calls[i].op \in Shows, ~calls[i].live \/ ~calls[i].arg.newest,
         calls' = Without(i), view' = view, me' = me, server' = server
  PROVE  WaitInv'
<1>1. CASE ~calls[i].live
  BY <1>1, SameAlike, DeliveredQuiet DEF Waits
<1>2. CASE calls[i].live
  <2>1. view.page = "playground"
    BY <1>2, AwaitedWaits DEF Waits, Awaited, PageOf, Shows
  <2>2. /\ Latest(Waiting(calls), "search") => Latest(Waiting(calls'), "search")
        /\ Latest(Waiting(calls), "compare") => Latest(Waiting(calls'), "compare")
    BY <1>2, LatestLess
  <2>3. /\ view.search # None => SearchWaits(Waiting(calls'), view.search)
        /\ view.compare # None => CompareWaits(Waiting(calls'), view.compare)
    BY <2>1, <2>2, PlaygroundParts DEF SearchWaits, CompareWaits
  <2>4. Asked(calls') /\ OfPage(Waiting(calls'), view)
    BY <2>1, WithoutWaits, PlaygroundParts DEF OfPage
  <2>5. Screen(Waiting(calls'), view)
    BY <2>1, <2>3, <2>4, PlaygroundParts, PlaygroundScreen
  <2> QED
    BY <2>4, <2>5, InvParts, ServerKept, PageStep
<1> QED
  BY <1>1, <1>2

LEMMA SearchHeard == ASSUME Inv, Searched PROVE WaitInv'
<1>1. PICK i \in Arrived("search") :
         /\ view' = IF ~calls[i].live \/ ~calls[i].arg.newest THEN view
                    ELSE IF ~Ok(i)
                    THEN [view EXCEPT !.search.busy = FALSE, !.search.error = TRUE]
                    ELSE [view EXCEPT !.search.busy = FALSE, !.search.error = FALSE,
                                      !.search.result = calls[i].arg.asks,
                                      !.search.facets = @ \/ ~calls[i].arg.asks.facet]
         /\ calls' = Without(i)
  BY DEF Searched
<1>2. i \in DOMAIN calls /\ calls[i].op = "search" /\ me' = me /\ server' = server
  BY ArrivedCall DEF Searched, app
<1>3. CASE ~calls[i].live \/ ~calls[i].arg.newest
  BY <1>1, <1>2, <1>3, PlaygroundForgets DEF Shows
<1>4. CASE calls[i].live /\ calls[i].arg.newest
  <2>1. view.page = "playground" /\ SearchOk(view.search)
    <3>1. <<calls[i].op, calls[i].arg>> \in Heard(calls)
      BY <1>2, <1>4 DEF Heard, Shows
    <3> QED
      BY <1>2, <1>4, <3>1, InvParts DEF NewestInv, ShownInv, HeardOk
  <2> DEFINE bad == [view.search EXCEPT !.busy = FALSE, !.error = TRUE]
             new == [view.search EXCEPT !.busy = FALSE, !.error = FALSE,
                                        !.result = calls[i].arg.asks,
                                        !.facets = @ \/ ~calls[i].arg.asks.facet]
  <2>2. view' = [view EXCEPT !.search = bad] \/ view' = [view EXCEPT !.search = new]
    BY <1>1, <1>4
  <2>3. ~bad.busy /\ ~new.busy
    BY <2>1 DEF SearchOk
  <2> HIDE DEF bad, new
  <2>4. SearchWaits(Waiting(calls'), bad) /\ SearchWaits(Waiting(calls'), new)
    BY <2>3 DEF SearchWaits
  <2>5. Asked(calls') /\ OfPage(Waiting(calls'), view)
    BY <1>1, <1>2, <2>1, WithoutWaits, PlaygroundParts DEF OfPage
  <2>6. Latest(Waiting(calls), "compare") => Latest(Waiting(calls'), "compare")
    BY <1>1, <1>2, LatestLess
  <2> QED
    BY <1>2, <2>1, <2>2, <2>4, <2>5, <2>6, InvParts, ServerKept, SearchMoves
<1> QED
  BY <1>3, <1>4

\* An edit starts the timer, or there is no text, or there is still no model
LEMMA CompareEdited == ASSUME Inv, EditCompare PROVE WaitInv'
<1>1. /\ view.page = "playground" /\ Can("write") /\ view.compare # None
      /\ me' = me /\ server' = server
  BY DEF EditCompare, Comparing, app
<1>2. PICK a : Fits(a) /\ Edits(a)
  BY InvParts, CompareEdits
<1>3. CompareOk(view.compare) /\ CompareWaits(Waiting(calls), view.compare)
  BY <1>1, PlaygroundParts
<1> DEFINE c == [view.compare EXCEPT !.asks = a]
           e == Compares(c)
<1>4. /\ e.asks = a /\ e.wait = Comparable(c) /\ e.busy = view.compare.busy
      /\ c.asks = a
  BY <1>3 DEF Compares, CompareOk
<1>5. Comparable(c) <=> a.text # None /\ a.picked # <<>>
  BY <1>1, <1>4 DEF Comparable
<1>6. /\ view' = [view EXCEPT !.compare = e]
      /\ calls' = IF Comparable(c) THEN Outdated("compare") ELSE calls
  BY <1>2 DEF Edits, ComparesCalls
<1> HIDE DEF c, e
<1>7. "compare" \notin Checked /\ "search" # "compare"
  BY DEF Checked
<1>8. /\ Asked(calls') /\ OfPage(Waiting(calls'), view)
      /\ Latest(Waiting(calls), "search") => Latest(Waiting(calls'), "search")
  BY <1>1, <1>6, <1>7, InvParts, PlaygroundParts, OutdatedWaits
<1>9. CompareWaits(Waiting(calls'), e)
  <2>1. a.picked = <<>> => ~e.busy
    BY <1>2, <1>3, <1>4 DEF Fits, CompareWaits
  <2>2. a.text # None /\ e.busy => e.wait
    BY <1>4, <1>5, <2>1
  <2> QED
    BY <1>4, <2>1, <2>2 DEF CompareWaits
<1> QED
  BY <1>1, <1>6, <1>8, <1>9, InvParts, ServerKept, CompareMoves

LEMMA CompareRun == ASSUME Inv, RunCompare PROVE WaitInv'
<1> DEFINE c == [view.compare EXCEPT !.wait = FALSE, !.busy = TRUE]
           a == [asks |-> view.compare.asks, newest |-> TRUE]
<1>1. /\ view.page = "playground" /\ view' = [view EXCEPT !.compare = c]
      /\ view.compare # None /\ view.compare.wait
      /\ calls' = Append(calls, Call("compare", a)) /\ me' = me /\ server' = server
  BY DEF RunCompare, Comparing, Sent, app
<1>2. a.newest = TRUE
  OBVIOUS
<1>3. c.asks = view.compare.asks /\ view.compare.asks.picked # <<>>
  BY <1>1, PlaygroundParts DEF CompareOk
<1> HIDE DEF a, c
<1>4. view'.page = view.page
  BY <1>1, PlaygroundParts
<1>5. "compare" \in Awaited /\ "compare" \notin Checked /\ PageOf("compare") = "playground"
  BY DEF Awaited, Checked, PageOf
<1>6. /\ Waiting(calls') = Waiting(calls) \cup {<<"compare", a>>}
      /\ Asked(calls') /\ OfPage(Waiting(calls'), view')
  BY <1>1, <1>4, <1>5, NewAsked, AskedMore
<1>7. /\ Latest(Waiting(calls'), "compare")
      /\ Latest(Waiting(calls), "search") => Latest(Waiting(calls'), "search")
  <2>1. <<"compare", a>>[1] = "compare" /\ <<"compare", a>>[2] = a
    OBVIOUS
  <2> QED
    BY <1>2, <1>6, <2>1 DEF Latest
<1>8. CompareWaits(Waiting(calls'), c) /\ OfPage(Waiting(calls'), view)
  BY <1>3, <1>4, <1>6, <1>7 DEF CompareWaits, OfPage
<1> QED
  BY <1>1, <1>6, <1>7, <1>8, InvParts, ServerKept, CompareMoves

LEMMA CompareHeard == ASSUME Inv, Compared PROVE WaitInv'
<1>1. PICK i \in Arrived("compare") :
         /\ view' = IF ~calls[i].live \/ ~calls[i].arg.newest THEN view
                    ELSE IF ~Ok(i)
                    THEN [view EXCEPT !.compare.busy = FALSE, !.compare.error = TRUE]
                    ELSE [view EXCEPT !.compare.busy = FALSE, !.compare.error = FALSE,
                                      !.compare.result = calls[i].arg.asks,
                                      !.compare.ranked = calls[i].arg.asks.docs]
         /\ calls' = Without(i)
  BY DEF Compared
<1>2. i \in DOMAIN calls /\ calls[i].op = "compare" /\ me' = me /\ server' = server
  BY ArrivedCall DEF Compared, app
<1>3. CASE ~calls[i].live \/ ~calls[i].arg.newest
  BY <1>1, <1>2, <1>3, PlaygroundForgets DEF Shows
<1>4. CASE calls[i].live /\ calls[i].arg.newest
  <2>1. view.page = "playground" /\ CompareOk(view.compare)
    <3>1. <<calls[i].op, calls[i].arg>> \in Heard(calls)
      BY <1>2, <1>4 DEF Heard, Shows
    <3> QED
      BY <1>2, <1>4, <3>1, InvParts DEF NewestInv, ShownInv, HeardOk
  <2> DEFINE bad == [view.compare EXCEPT !.busy = FALSE, !.error = TRUE]
             new == [view.compare EXCEPT !.busy = FALSE, !.error = FALSE,
                                         !.result = calls[i].arg.asks,
                                         !.ranked = calls[i].arg.asks.docs]
  <2>2. view' = [view EXCEPT !.compare = bad] \/ view' = [view EXCEPT !.compare = new]
    BY <1>1, <1>4
  <2>3. ~bad.busy /\ ~new.busy
    BY <2>1 DEF CompareOk
  <2> HIDE DEF bad, new
  <2>4. CompareWaits(Waiting(calls'), bad) /\ CompareWaits(Waiting(calls'), new)
    BY <2>3 DEF CompareWaits
  <2>5. Asked(calls') /\ OfPage(Waiting(calls'), view)
    BY <1>1, <1>2, <2>1, WithoutWaits, PlaygroundParts DEF OfPage
  <2>6. Latest(Waiting(calls), "search") => Latest(Waiting(calls'), "search")
    BY <1>1, <1>2, LatestLess
  <2> QED
    BY <1>2, <2>1, <2>2, <2>4, <2>5, <2>6, InvParts, ServerKept, CompareMoves
<1> QED
  BY <1>3, <1>4

LEMMA PlaygroundWaited == ASSUME Inv, PlaygroundNext PROVE WaitInv'
<1>1. CASE ServeSearch
  <2>1. PICK i \in Pending("search") \cup Pending("compare") :
          Answer(i, None) /\ view' = view /\ me' = me /\ server' = server
    BY <1>1 DEF ServeSearch, app
  <2> QED
    BY <2>1, InvParts, ServerKept, AnsweredQuiet DEF Answered
<1> QED
  BY <1>1, SearchEdited, SearchRun, SearchHeard, CompareEdited, CompareRun, CompareHeard
     DEF PlaygroundNext

---------------------------------------------------------------------------
(* The page of an index: what each panel waits for                         *)

LEMMA IndexScreen ==
  ASSUME NEW waiting, NEW v, v.page = "index"
  PROVE  Screen(waiting, v) <=> OfPage(waiting, v) /\ IndexWaits(waiting, v)
BY DEF Screen, PageWaits

LEMMA IndexParts ==
  ASSUME Inv, view.page = "index"
  PROVE  /\ OfPage(Waiting(calls), view) /\ IndexWaits(Waiting(calls), view)
         /\ view.info.data # None => PanelsWait(Waiting(calls), view)
         /\ {"page", "route", "info", "browse", "query", "upsert", "seed", "settings", "connect",
             "map", "models"} \subseteq DOMAIN view
BY InvParts, IndexScreen DEF IndexWaits

\* The same is awaited, but for calls of some kinds
SameBut(W, X, ops) == \A a : a[1] \notin ops => (a \in W <=> a \in X)

LEMMA PanelsSame ==
  ASSUME NEW W, NEW X, NEW ops, SameBut(W, X, ops)
  PROVE  /\ \A b : {"list", "metadata"} \cap ops = {} /\ BrowseWaits(W, b) => BrowseWaits(X, b)
         /\ \A q : "query" \notin ops /\ QueryWaits(W, q) => QueryWaits(X, q)
         /\ \A u, by : "upsert" \notin ops /\ BatchWaits(W, u, by) => BatchWaits(X, u, by)
         /\ \A s : "configure" \notin ops /\ SettingsWaits(W, s) => SettingsWaits(X, s)
         /\ \A c : {"setEmbedding", "fields"} \cap ops = {} /\ ConnectWaits(W, c)
                      => ConnectWaits(X, c)
<1>1. \A kinds : kinds \cap ops = {} => (For(W, kinds) <=> For(X, kinds))
  BY DEF SameBut, For
<1>2. \A b : {"list", "metadata"} \cap ops = {} /\ BrowseWaits(W, b) => BrowseWaits(X, b)
  BY <1>1 DEF BrowseWaits
<1>3. \A q : "query" \notin ops /\ QueryWaits(W, q) => QueryWaits(X, q)
  <2>1. "query" \notin ops => {"query"} \cap ops = {}
    OBVIOUS
  <2> QED
    BY <1>1, <2>1 DEF QueryWaits
<1>4. \A u, by : "upsert" \notin ops /\ BatchWaits(W, u, by) => BatchWaits(X, u, by)
  BY DEF SameBut, BatchWaits
<1>5. \A s : "configure" \notin ops /\ SettingsWaits(W, s) => SettingsWaits(X, s)
  BY DEF SameBut, SettingsWaits
<1>6. \A c : {"setEmbedding", "fields"} \cap ops = {} /\ ConnectWaits(W, c) => ConnectWaits(X, c)
  <2> SUFFICES ASSUME NEW c, {"setEmbedding", "fields"} \cap ops = {}, ConnectWaits(W, c)
               PROVE  ConnectWaits(X, c)
    OBVIOUS
  <2>1. {"fields"} \cap ops = {} /\ "setEmbedding" \notin ops
    OBVIOUS
  <2>2. For(W, {"fields"}) <=> For(X, {"fields"})
    BY <1>1, <2>1
  <2> QED
    BY <2>1, <2>2 DEF ConnectWaits, Picked, SameBut
<1> QED
  BY <1>2, <1>3, <1>4, <1>5, <1>6

LEMMA MapSame ==
  ASSUME NEW W, NEW X, NEW ops, SameBut(W, X, ops), {"map", "neighbours"} \cap ops = {},
         NEW v, MapWaits(W, v), NEW w, w.info = v.info, w.map = v.map, w.route = v.route
  PROVE  MapWaits(X, w)
<1> DEFINE kinds == {"map", "neighbours"}
<1>1. For(X, kinds) => For(W, kinds)
  BY DEF SameBut, For
<1>2. {a \in X : a[1] = "map"} = {a \in W : a[1] = "map"}
  BY DEF SameBut
<1> QED
  BY <1>1, <1>2 DEF MapWaits

\* One panel moves and awaits other calls of its own; the others go on as before
LEMMA IndexMoves ==
  ASSUME Inv, view.page = "index", NEW ops, SameBut(Waiting(calls), Waiting(calls'), ops),
         view'.page = view.page, view'.route = view.route, view'.info = view.info,
         DOMAIN view' = DOMAIN view,
         view.info.data # None =>
           /\ \/ view'.browse = view.browse /\ {"list", "metadata"} \cap ops = {}
              \/ BrowseWaits(Waiting(calls'), view'.browse)
           /\ \/ view'.query = view.query /\ "query" \notin ops
              \/ QueryWaits(Waiting(calls'), view'.query)
           /\ \/ /\ view'.upsert = view.upsert /\ view'.seed = view.seed /\ "upsert" \notin ops
              \/ /\ BatchWaits(Waiting(calls'), view'.upsert, "upsert")
                 /\ BatchWaits(Waiting(calls'), view'.seed, "seed")
           /\ \/ view'.settings = view.settings /\ "configure" \notin ops
              \/ SettingsWaits(Waiting(calls'), view'.settings),
         \/ view'.connect = view.connect /\ {"setEmbedding", "fields"} \cap ops = {}
         \/ ConnectWaits(Waiting(calls'), view'.connect),
         \/ view'.map = view.map /\ {"map", "neighbours"} \cap ops = {}
         \/ MapWaits(Waiting(calls'), view'),
         Asked(calls'), OfPage(Waiting(calls'), view), KeepsServer, me' = me
  PROVE  WaitInv'
<1> DEFINE W == Waiting(calls)
           X == Waiting(calls')
<1>1. IndexWaits(W, view)
  BY IndexParts
<1> HIDE DEF W
<1>2. SameBut(W, X, ops)
  BY DEF W
<1> HIDE DEF X
<1>3. view.info.data # None => PanelsWait(X, view')
  <2> SUFFICES ASSUME view.info.data # None PROVE PanelsWait(X, view')
    OBVIOUS
  <2>1. PanelsWait(W, view)
    BY <1>1 DEF IndexWaits
  <2>2. BrowseWaits(X, view'.browse)
    BY <1>2, <2>1, PanelsSame DEF X, PanelsWait
  <2>3. QueryWaits(X, view'.query)
    BY <1>2, <2>1, PanelsSame DEF X, PanelsWait
  <2>4. BatchWaits(X, view'.upsert, "upsert") /\ BatchWaits(X, view'.seed, "seed")
    BY <1>2, <2>1, PanelsSame DEF X, PanelsWait
  <2>5. SettingsWaits(X, view'.settings)
    BY <1>2, <2>1, PanelsSame DEF X, PanelsWait
  <2> QED
    BY <2>2, <2>3, <2>4, <2>5 DEF PanelsWait
<1>4. ConnectWaits(X, view'.connect)
  BY <1>1, <1>2, PanelsSame DEF X, IndexWaits
<1>5. MapWaits(X, view')
  BY <1>1, <1>2, MapSame DEF X, IndexWaits
<1>6. IndexWaits(X, view')
  BY <1>1, <1>3, <1>4, <1>5 DEF IndexWaits
<1>7. Screen(X, view')
  BY <1>6, IndexScreen DEF X, OfPage
<1> QED
  BY <1>7, PageStep DEF X

LEMMA BrowseMoves ==
  ASSUME Inv, view.page = "index", NEW e, view' = [view EXCEPT !.browse = e],
         NEW ops, ops \subseteq {"list", "metadata", "record", "delete", "index"},
         SameBut(Waiting(calls), Waiting(calls'), ops),
         view.info.data # None => BrowseWaits(Waiting(calls'), e),
         Asked(calls'), OfPage(Waiting(calls'), view), KeepsServer, me' = me
  PROVE  WaitInv'
<1>1. /\ view'.page = view.page /\ view'.route = view.route /\ view'.info = view.info
      /\ DOMAIN view' = DOMAIN view /\ view'.browse = e /\ view'.query = view.query
      /\ view'.upsert = view.upsert /\ view'.seed = view.seed
      /\ view'.settings = view.settings /\ view'.connect = view.connect /\ view'.map = view.map
  BY IndexParts
<1>2. /\ "query" \notin ops /\ "upsert" \notin ops /\ "configure" \notin ops
      /\ {"setEmbedding", "fields"} \cap ops = {} /\ {"map", "neighbours"} \cap ops = {}
  OBVIOUS
<1> QED
  BY <1>1, <1>2, IndexMoves

LEMMA QueryMoves ==
  ASSUME Inv, view.page = "index", NEW e, view' = [view EXCEPT !.query = e],
         SameBut(Waiting(calls), Waiting(calls'), {"query"}),
         view.info.data # None => QueryWaits(Waiting(calls'), e),
         Asked(calls'), OfPage(Waiting(calls'), view), KeepsServer, me' = me
  PROVE  WaitInv'
<1>1. /\ view'.page = view.page /\ view'.route = view.route /\ view'.info = view.info
      /\ DOMAIN view' = DOMAIN view /\ view'.browse = view.browse /\ view'.query = e
      /\ view'.upsert = view.upsert /\ view'.seed = view.seed
      /\ view'.settings = view.settings /\ view'.connect = view.connect /\ view'.map = view.map
  BY IndexParts
<1>2. /\ {"list", "metadata"} \cap {"query"} = {} /\ "upsert" \notin {"query"}
      /\ "configure" \notin {"query"} /\ {"setEmbedding", "fields"} \cap {"query"} = {}
      /\ {"map", "neighbours"} \cap {"query"} = {}
  OBVIOUS
<1> QED
  BY <1>1, <1>2, IndexMoves

LEMMA BatchMoves ==
  ASSUME Inv, view.page = "index", NEW e,
         \/ /\ view' = [view EXCEPT !.upsert = e]
            /\ view.info.data # None => /\ BatchWaits(Waiting(calls'), e, "upsert")
                                        /\ BatchWaits(Waiting(calls'), view.seed, "seed")
         \/ /\ view' = [view EXCEPT !.seed = e]
            /\ view.info.data # None => /\ BatchWaits(Waiting(calls'), view.upsert, "upsert")
                                        /\ BatchWaits(Waiting(calls'), e, "seed"),
         SameBut(Waiting(calls), Waiting(calls'), {"upsert", "index"}),
         Asked(calls'), OfPage(Waiting(calls'), view), KeepsServer, me' = me
  PROVE  WaitInv'
<1>1. /\ view'.page = view.page /\ view'.route = view.route /\ view'.info = view.info
      /\ DOMAIN view' = DOMAIN view /\ view'.browse = view.browse /\ view'.query = view.query
      /\ view'.settings = view.settings /\ view'.connect = view.connect /\ view'.map = view.map
      /\ view.info.data # None => /\ BatchWaits(Waiting(calls'), view'.upsert, "upsert")
                                  /\ BatchWaits(Waiting(calls'), view'.seed, "seed")
  BY IndexParts
<1> DEFINE ops == {"upsert", "index"}
<1>2. /\ {"list", "metadata"} \cap ops = {} /\ "query" \notin ops
      /\ "configure" \notin ops /\ {"setEmbedding", "fields"} \cap ops = {}
      /\ {"map", "neighbours"} \cap ops = {}
  OBVIOUS
<1> HIDE DEF ops
<1> QED
  BY <1>1, <1>2, IndexMoves DEF ops

LEMMA SettingsMoves ==
  ASSUME Inv, view.page = "index", NEW e, view' = [view EXCEPT !.settings = e],
         SameBut(Waiting(calls), Waiting(calls'), {"configure"}),
         view.info.data # None => SettingsWaits(Waiting(calls'), e),
         Asked(calls'), OfPage(Waiting(calls'), view), KeepsServer, me' = me
  PROVE  WaitInv'
<1>1. /\ view'.page = view.page /\ view'.route = view.route /\ view'.info = view.info
      /\ DOMAIN view' = DOMAIN view /\ view'.browse = view.browse /\ view'.query = view.query
      /\ view'.upsert = view.upsert /\ view'.seed = view.seed
      /\ view'.settings = e /\ view'.connect = view.connect /\ view'.map = view.map
  BY IndexParts
<1> DEFINE ops == {"configure"}
<1>2. /\ {"list", "metadata"} \cap ops = {} /\ "query" \notin ops /\ "upsert" \notin ops
      /\ {"setEmbedding", "fields"} \cap ops = {} /\ {"map", "neighbours"} \cap ops = {}
  OBVIOUS
<1> HIDE DEF ops
<1> QED
  BY <1>1, <1>2, IndexMoves DEF ops

LEMMA ConnectMoves ==
  ASSUME Inv, view.page = "index", NEW e, view' = [view EXCEPT !.connect = e],
         SameBut(Waiting(calls), Waiting(calls'), {"setEmbedding", "fields"}),
         ConnectWaits(Waiting(calls'), e),
         Asked(calls'), OfPage(Waiting(calls'), view), KeepsServer, me' = me
  PROVE  WaitInv'
<1>1. /\ view'.page = view.page /\ view'.route = view.route /\ view'.info = view.info
      /\ DOMAIN view' = DOMAIN view /\ view'.browse = view.browse /\ view'.query = view.query
      /\ view'.upsert = view.upsert /\ view'.seed = view.seed
      /\ view'.settings = view.settings /\ view'.connect = e /\ view'.map = view.map
  BY IndexParts
<1> DEFINE ops == {"setEmbedding", "fields"}
<1>2. /\ {"list", "metadata"} \cap ops = {} /\ "query" \notin ops /\ "upsert" \notin ops
      /\ "configure" \notin ops /\ {"map", "neighbours"} \cap ops = {}
  OBVIOUS
<1> HIDE DEF ops
<1> QED
  BY <1>1, <1>2, IndexMoves DEF ops

LEMMA MapMoves ==
  ASSUME Inv, view.page = "index", NEW e, view' = [view EXCEPT !.map = e],
         SameBut(Waiting(calls), Waiting(calls'), {"map", "neighbours"}),
         MapWaits(Waiting(calls'), view'),
         Asked(calls'), OfPage(Waiting(calls'), view), KeepsServer, me' = me
  PROVE  WaitInv'
<1>1. /\ view'.page = view.page /\ view'.route = view.route /\ view'.info = view.info
      /\ DOMAIN view' = DOMAIN view /\ view'.browse = view.browse /\ view'.query = view.query
      /\ view'.upsert = view.upsert /\ view'.seed = view.seed
      /\ view'.settings = view.settings /\ view'.connect = view.connect /\ view'.map = e
  BY IndexParts
<1> DEFINE ops == {"map", "neighbours"}
<1>2. /\ {"list", "metadata"} \cap ops = {} /\ "query" \notin ops /\ "upsert" \notin ops
      /\ "configure" \notin ops /\ {"setEmbedding", "fields"} \cap ops = {}
  OBVIOUS
<1> HIDE DEF ops
<1> QED
  BY <1>1, <1>2, IndexMoves DEF ops

\* What is awaited when a panel sends a call, and when a call of one comes back
LEMMA OneMore ==
  ASSUME NEW W, NEW op, NEW arg, NEW ops, op \in ops
  PROVE  SameBut(W, W \cup {<<op, arg>>}, ops)
BY DEF SameBut

LEMMA OneLess ==
  ASSUME Inv, NEW i \in DOMAIN calls, NEW rest, CallsOk(rest, server.written), Asked(rest),
         Waiting(rest) \subseteq {<<"index", None>>}, view.page = "index" \/ Waiting(rest) = {}
  PROVE  /\ SameBut(Waiting(calls), Waiting(Without(i)), {calls[i].op})
         /\ SameBut(Waiting(calls), Waiting(Without(i) \o rest), {calls[i].op, "index"})
         /\ Asked(Without(i)) /\ Asked(Without(i) \o rest)
         /\ OfPage(Waiting(Without(i)), view) /\ OfPage(Waiting(Without(i) \o rest), view)
<1>1. Pair(calls[i])[1] = calls[i].op
  BY DEF Pair
<1>2. \/ Waiting(Without(i)) = Waiting(calls)
      \/ Waiting(calls) = Waiting(Without(i)) \cup {Pair(calls[i])}
  BY WithoutWaits
<1>3. SameBut(Waiting(calls), Waiting(Without(i)), {calls[i].op})
  BY <1>1, <1>2 DEF SameBut
<1>4. /\ Waiting(Without(i) \o rest) = Waiting(Without(i)) \cup Waiting(rest)
      /\ Asked(Without(i)) /\ Asked(Without(i) \o rest)
  BY GoesOnWaits, WithoutWaits
<1>5. SameBut(Waiting(calls), Waiting(Without(i) \o rest), {calls[i].op, "index"})
  <2>1. <<"index", None>>[1] = "index"
    OBVIOUS
  <2> QED
    BY <1>3, <1>4, <2>1 DEF SameBut
<1>6. OfPage(Waiting(Without(i)), view)
  BY WithoutWaits, InvParts DEF OfPage, Screen
<1>7. OfPage(Waiting(Without(i) \o rest), view)
  <2>1. <<"index", None>>[1] = "index" /\ PageOf("index") = "index"
    BY DEF PageOf
  <2> QED
    BY <1>4, <1>6, <2>1 DEF OfPage
<1> QED
  BY <1>3, <1>4, <1>5, <1>6, <1>7

LEMMA ForStill ==
  ASSUME NEW W, NEW X, W \subseteq X, NEW kinds, For(W, kinds)
  PROVE  For(X, kinds)
BY DEF For

LEMMA PanelSends ==
  ASSUME Inv, view.page = "index", NEW op \in Awaited, PageOf(op) = "index",
         NEW arg, AskedOk(Call(op, arg)), calls' = Append(calls, Call(op, arg))
  PROVE  /\ Waiting(calls') = Waiting(calls) \cup {<<op, arg>>}
         /\ SameBut(Waiting(calls), Waiting(calls'), {op})
         /\ Asked(calls') /\ OfPage(Waiting(calls'), view)
<1>1. Waiting(calls') = Waiting(calls) \cup {<<op, arg>>} /\ Asked(calls')
  BY SentWaits
<1>2. OfPage(Waiting(calls), view) /\ <<op, arg>>[1] = op
  BY InvParts DEF Screen
<1>3. OfPage(Waiting(calls'), view)
  BY <1>1, <1>2 DEF OfPage
<1>4. SameBut(Waiting(calls), Waiting(calls) \cup {<<op, arg>>}, {op})
  <2>1. op \in {op}
    OBVIOUS
  <2> QED
    BY <2>1, OneMore
<1> QED
  BY <1>1, <1>3, <1>4

\* An answer that nobody hears, and what the handler sends then
LEMMA Unheard ==
  ASSUME Inv, NEW i \in DOMAIN calls, ~Waits(calls[i]), NEW rest,
         CallsOk(rest, server.written), Asked(rest), Waiting(rest) = {},
         calls' = Without(i) \o rest, Alike(view, view'), me' = me, server' = server
  PROVE  WaitInv'
<1>1. Waiting(Without(i)) = Waiting(calls)
  BY WithoutWaits
<1>2. Waiting(calls') = Waiting(Without(i)) \cup Waiting(rest) /\ Asked(calls')
  BY GoesOnWaits
<1>3. KeepsCalls
  BY <1>1, <1>2 DEF KeepsCalls
<1> QED
  BY <1>3, InvParts, ServerKept, QuietStep

---------------------------------------------------------------------------
(* Browse                                                                  *)

LEMMA BrowseClicked == ASSUME Inv, BrowseClicks PROVE WaitInv'
<1>1. /\ view.page = "index" /\ view.info.data # None /\ server' = server /\ me' = me
      /\ KeepsServer
  BY InvParts, ServerKept
     DEF BrowseClicks, Browsing, OnTab, OnIndex, ChoosePlace, LoadMore, OpenRecord, ArmDelete,
         ConfirmDelete, FindSimilar, app
<1>2. BrowseWaits(Waiting(calls), view.browse)
  BY <1>1, IndexParts DEF PanelsWait
<1>3. CASE ChoosePlace \/ LoadMore
  <2>1. PICK arg, e : /\ view' = [view EXCEPT !.browse = e] /\ "loading" \in DOMAIN e
                      /\ calls' = Append(calls, Call("list", arg))
    <3>1. CASE ChoosePlace
      <4>1. PICK p : /\ view' = [view EXCEPT !.browse = [BrowseEffect(@) EXCEPT !.at = p]]
                     /\ calls' = Append(calls, Load(p, None))
        BY <3>1 DEF ChoosePlace
      <4> DEFINE e == [BrowseEffect(view.browse) EXCEPT !.at = p]
      <4>2. view' = [view EXCEPT !.browse = e] /\ "loading" \in DOMAIN e
        BY <1>2, <4>1 DEF BrowseEffect, BrowseWaits
      <4> QED
        BY <4>1, <4>2 DEF Load
    <3>2. CASE LoadMore
      <4> DEFINE e == [view.browse EXCEPT !.loading = TRUE]
      <4>1. view' = [view EXCEPT !.browse = e] /\ "loading" \in DOMAIN e
        BY <1>2, <3>2 DEF LoadMore, BrowseWaits
      <4> QED
        BY <3>2, <4>1 DEF LoadMore, Load
    <3> QED
      BY <1>3, <3>1, <3>2
  <2>2. "list" \in Awaited /\ "list" \notin Checked /\ PageOf("list") = "index"
    BY DEF Awaited, Checked, PageOf
  <2>3. /\ Waiting(calls') = Waiting(calls) \cup {<<"list", arg>>}
        /\ SameBut(Waiting(calls), Waiting(calls'), {"list"})
        /\ Asked(calls') /\ OfPage(Waiting(calls'), view)
    BY <1>1, <2>1, <2>2, NewAsked, PanelSends
  <2>4. BrowseWaits(Waiting(calls'), e)
    <3>1. <<"list", arg>>[1] = "list"
      OBVIOUS
    <3> QED
      BY <2>1, <2>3, <3>1 DEF BrowseWaits, For
  <2>5. {"list"} \subseteq {"list", "metadata", "record", "delete", "index"}
    OBVIOUS
  <2> QED
    BY <1>1, <2>1, <2>3, <2>4, <2>5, BrowseMoves
<1>4. CASE OpenRecord
  <2>1. PICK r, arg : /\ view' = [view EXCEPT !.browse.selected = r, !.browse.armed = FALSE,
                                             !.browse.record = None]
                      /\ calls' = Append(calls, Call("record", arg))
    BY <1>4 DEF OpenRecord, Sent
  <2>2. "record" \in Awaited /\ "record" \notin Checked /\ PageOf("record") = "index"
    BY DEF Awaited, Checked, PageOf
  <2>3. /\ Waiting(calls') = Waiting(calls) \cup {<<"record", arg>>}
        /\ SameBut(Waiting(calls), Waiting(calls'), {"record"})
        /\ Asked(calls') /\ OfPage(Waiting(calls'), view)
    BY <1>1, <2>1, <2>2, NewAsked, PanelSends
  <2> DEFINE e == [view.browse EXCEPT !.selected = r, !.armed = FALSE, !.record = None]
  <2>4. view' = [view EXCEPT !.browse = e] /\ DOMAIN e = DOMAIN view.browse
        /\ ("loading" \in DOMAIN view.browse => e.loading = view.browse.loading)
    BY <2>1
  <2> HIDE DEF e
  <2>5. BrowseWaits(Waiting(calls'), e)
    <3>1. Waiting(calls) \subseteq Waiting(calls')
      BY <2>3
    <3>2. For(Waiting(calls), {"list", "metadata"}) => For(Waiting(calls'), {"list", "metadata"})
      BY <3>1, ForStill
    <3> QED
      BY <1>2, <2>4, <3>2 DEF BrowseWaits
  <2>6. {"record"} \subseteq {"list", "metadata", "record", "delete", "index"}
    OBVIOUS
  <2> QED
    BY <1>1, <2>3, <2>4, <2>5, <2>6, BrowseMoves
<1>5. CASE ArmDelete
  <2> DEFINE e == [view.browse EXCEPT !.armed = TRUE]
  <2>1. calls' = calls /\ view' = [view EXCEPT !.browse = e]
    BY <1>5 DEF ArmDelete
  <2>2. BrowseWaits(Waiting(calls'), e)
    BY <1>2, <2>1 DEF BrowseWaits
  <2> HIDE DEF e
  <2>3. SameBut(Waiting(calls), Waiting(calls'), {}) /\ Asked(calls')
        /\ OfPage(Waiting(calls'), view) /\ {} \subseteq {"list", "metadata", "record", "delete", "index"}
    BY <1>1, <2>1, InvParts, IndexParts DEF SameBut
  <2> QED
    BY <1>1, <2>1, <2>2, <2>3, BrowseMoves
<1>6. CASE ConfirmDelete
  <2>1. PICK arg : calls' = Append(calls, Call("delete", arg))
    BY <1>6 DEF ConfirmDelete, Sent
  <2>2. view' = view
    BY <1>6 DEF ConfirmDelete
  <2>3. "delete" \in Awaited /\ "delete" \notin Checked /\ PageOf("delete") = "index"
    BY DEF Awaited, Checked, PageOf
  <2> DEFINE ops == {"delete"}
  <2>4. /\ SameBut(Waiting(calls), Waiting(calls'), ops)
        /\ Asked(calls') /\ OfPage(Waiting(calls'), view)
    BY <1>1, <2>1, <2>3, NewAsked, PanelSends
  <2>5. /\ {"list", "metadata"} \cap ops = {} /\ "query" \notin ops /\ "upsert" \notin ops
        /\ "configure" \notin ops /\ {"setEmbedding", "fields"} \cap ops = {}
        /\ {"map", "neighbours"} \cap ops = {}
    OBVIOUS
  <2> HIDE DEF ops
  <2> QED
    BY <1>1, <2>2, <2>4, <2>5, IndexMoves
<1>7. CASE FindSimilar
  <2>1. calls' = calls /\ view' = view
    BY <1>7 DEF FindSimilar
  <2> QED
    BY <1>1, <2>1, SameAlike, StillQuiet
<1> QED
  BY <1>3, <1>4, <1>5, <1>6, <1>7 DEF BrowseClicks

LEMMA BrowseServed ==
  ASSUME Inv, ServeList \/ ServeMetadata \/ ServeRecord \/ ServeDelete
  PROVE  WaitInv'
<1>1. PICK i \in Pending("list") \cup Pending("metadata") \cup Pending("record") \cup
                Pending("delete") :
        \E r : Answer(i, r)
  BY DEF ServeList, ServeMetadata, ServeRecord, ServeDelete
<1>2. me' = me /\ view' = view
  BY DEF ServeList, ServeMetadata, ServeRecord, ServeDelete, app
<1>3. KeepsServer
  <2>1. CASE ServeDelete
    <3>1. PICK e : server' = [server EXCEPT !.records = e]
      BY <2>1 DEF ServeDelete
    <3>2. "records" \notin {"ef", "embed"}
      OBVIOUS
    <3> QED
      BY <3>1, <3>2, InvParts, ServerKept
  <2>2. CASE ~ServeDelete
    BY <2>2, InvParts, ServerKept DEF ServeList, ServeMetadata, ServeRecord
  <2> QED
    BY <2>1, <2>2
<1> QED
  BY <1>1, <1>2, <1>3, AnsweredQuiet DEF Answered

LEMMA BrowseListed == ASSUME Inv, ListLoaded PROVE WaitInv'
<1>1. PICK i \in Arrived("list") :
        /\ view' = IF ~calls[i].live THEN view
                   ELSE [view EXCEPT
                           !.browse.ids = IF ~Ok(i) THEN @
                                          ELSE IF calls[i].arg.token = None
                                          THEN calls[i].reply.ids
                                          ELSE @ \o calls[i].reply.ids,
                           !.browse.next = IF Ok(i) THEN calls[i].reply.next ELSE @,
                           !.browse.loading = @ /\ Ok(i) /\ calls[i].reply.ids # <<>>]
        /\ calls' = IF Ok(i) /\ calls[i].reply.ids # <<>>
                    THEN Append(Without(i), Reload("metadata", calls[i].live))
                    ELSE Without(i)
  BY DEF ListLoaded
<1> DEFINE fetches == Ok(i) /\ calls[i].reply.ids # <<>>
           c == Reload("metadata", calls[i].live)
<1>2. /\ i \in DOMAIN calls /\ calls[i].op = "list" /\ me' = me /\ server' = server
      /\ KeepsServer
  BY ArrivedCall, InvParts, ServerKept DEF ListLoaded, app
<1>3. AskedOk(c) /\ Pair(c) = <<"metadata", None>> /\ (Waits(c) <=> calls[i].live)
  BY ReloadAsked DEF Awaited
<1>4. calls' = IF fetches THEN Append(Without(i), c) ELSE Without(i)
  BY <1>1
<1>5. CASE ~calls[i].live
  <2>1. view' = view /\ ~Waits(calls[i]) /\ ~Waits(c)
    BY <1>1, <1>3, <1>5 DEF Waits
  <2> HIDE DEF c, fetches
  <2> QED
    BY <1>2, <1>3, <1>4, <2>1, SameAlike, GoesOnQuiet, DeliveredQuiet
<1>6. CASE calls[i].live
  <2>1. view.page = "index"
    BY <1>2, <1>6, AwaitedWaits DEF Waits, Awaited, PageOf
  <2> DEFINE ids == IF ~Ok(i) THEN view.browse.ids
                    ELSE IF calls[i].arg.token = None THEN calls[i].reply.ids
                    ELSE view.browse.ids \o calls[i].reply.ids
             next == IF Ok(i) THEN calls[i].reply.next ELSE view.browse.next
             loading == view.browse.loading /\ fetches
             e == [[[view.browse EXCEPT !.ids = ids] EXCEPT !.next = next] EXCEPT !.loading = loading]
  <2>2. view' = [view EXCEPT !.browse = e]
    BY <1>1, <1>6
  <2>3. loading => fetches
    OBVIOUS
  <2> HIDE DEF ids, next, loading
  <2>4. DOMAIN e = DOMAIN view.browse /\ ("loading" \in DOMAIN e => (e.loading => fetches))
    BY <2>3
  <2> HIDE DEF e, c, fetches
  <2> DEFINE W == Waiting(calls)
             V == Waiting(Without(i))
             X == Waiting(calls')
  <2>5. /\ X = IF fetches THEN V \cup {<<"metadata", None>>} ELSE V
        /\ Asked(calls')
    BY <1>2, <1>3, <1>4, <1>6, GoesOnOne, WithoutWaits
  <2>6. SameBut(W, V, {"list"}) /\ OfPage(V, view)
    <3>1. CallsOk(<<>>, server.written) /\ Asked(<<>>) /\ Waiting(<<>>) = {}
      BY CallsEmpty, WaitingOne
    <3> QED
      BY <1>2, <3>1, OneLess
  <2> HIDE DEF W, V, X
  <2>7. <<"metadata", None>>[1] = "metadata" /\ PageOf("metadata") = "index"
    BY DEF PageOf
  <2>8. SameBut(W, X, {"list", "metadata"}) /\ OfPage(X, view)
    BY <2>1, <2>5, <2>6, <2>7 DEF SameBut, OfPage
  <2>9. fetches => For(X, {"list", "metadata"})
    BY <2>5, <2>7 DEF For
  <2>10. view.info.data # None => BrowseWaits(X, e)
    <3>1. view.info.data # None => "loading" \in DOMAIN view.browse
      BY <2>1, IndexParts DEF PanelsWait, BrowseWaits
    <3> QED
      BY <2>4, <2>9, <3>1 DEF BrowseWaits
  <2>11. {"list", "metadata"} \subseteq {"list", "metadata", "record", "delete", "index"}
    OBVIOUS
  <2> QED
    BY <1>2, <2>1, <2>2, <2>5, <2>8, <2>10, <2>11, BrowseMoves DEF W, X
<1> QED
  BY <1>5, <1>6

LEMMA BrowseLoaded ==
  ASSUME Inv, MetadataLoaded \/ RecordLoaded \/ Deleted
  PROVE  WaitInv'
<1>1. PICK i \in Arrived("metadata") \cup Arrived("record") \cup Arrived("delete") :
        /\ \/ view' = view /\ (calls[i].op = "metadata" => ~calls[i].live)
           \/ /\ calls[i].live
              /\ \/ view' = [view EXCEPT !.browse.loading = FALSE]
                 \/ \E r : view' = [view EXCEPT !.browse.record = r] /\ calls[i].op = "record"
                 \/ \E e : /\ view' = [view EXCEPT !.browse.ids = e, !.browse.selected = None,
                                                   !.browse.record = None]
                           /\ calls[i].op = "delete"
        /\ calls' = Without(i) \/ calls' = Without(i) \o Refresh(calls[i].live)
  <2>1. CASE MetadataLoaded
    <3>1. PICK i \in Arrived("metadata") :
            /\ view' = IF calls[i].live THEN [view EXCEPT !.browse.loading = FALSE] ELSE view
            /\ calls' = Without(i)
      BY <2>1 DEF MetadataLoaded
    <3> QED
      BY <3>1
  <2>2. CASE RecordLoaded
    <3>1. PICK i \in Arrived("record") :
            /\ view' = IF calls[i].live /\ Ok(i)
                       THEN [view EXCEPT !.browse.record = calls[i].reply] ELSE view
            /\ calls' = Without(i)
      BY <2>2 DEF RecordLoaded
    <3> QED
      BY <3>1, ArrivedCall
  <2>3. CASE Deleted
    <3>1. PICK i \in Arrived("delete") :
            /\ \/ view' = view
               \/ /\ calls[i].live
                  /\ \E e : view' = [view EXCEPT !.browse.ids = e, !.browse.selected = None,
                                                 !.browse.record = None]
            /\ calls' = Without(i) \/ calls' = Without(i) \o Refresh(calls[i].live)
      BY <2>3 DEF Deleted
    <3> QED
      BY <3>1, ArrivedCall
  <2> QED
    BY <2>1, <2>2, <2>3
<1>2. /\ i \in DOMAIN calls /\ calls[i].op \in {"metadata", "record", "delete"}
      /\ me' = me /\ server' = server /\ KeepsServer
  BY ArrivedCall, InvParts, ServerKept DEF MetadataLoaded, RecordLoaded, Deleted, app
<1> DEFINE rest == IF calls' = Without(i) THEN <<>> ELSE Refresh(calls[i].live)
<1>3. /\ CallsOk(rest, server.written) /\ Asked(rest)
      /\ Waiting(rest) \subseteq {<<"index", None>>} /\ (~calls[i].live => Waiting(rest) = {})
  BY RestWaits, CallsEmpty, WaitingOne
<1>4. calls' = Without(i) \/ calls' = Without(i) \o rest
  BY <1>1
<1> HIDE DEF rest
<1>5. CASE ~calls[i].live
  <2>1. view' = view /\ ~Waits(calls[i])
    BY <1>1, <1>5 DEF Waits
  <2> QED
    BY <1>2, <1>3, <1>4, <1>5, <2>1, SameAlike, Unheard, DeliveredQuiet
<1>6. CASE calls[i].live
  <2>1. view.page = "index"
    BY <1>2, <1>6, AwaitedWaits DEF Waits, Awaited, PageOf
  <2> DEFINE ops == {calls[i].op, "index"}
             W == Waiting(calls)
             X == Waiting(calls')
  <2>2. /\ SameBut(W, X, ops) /\ Asked(calls') /\ OfPage(X, view)
    <3>1. /\ SameBut(W, Waiting(Without(i)), {calls[i].op})
          /\ SameBut(W, Waiting(Without(i) \o rest), {calls[i].op, "index"})
          /\ Asked(Without(i)) /\ Asked(Without(i) \o rest)
          /\ OfPage(Waiting(Without(i)), view) /\ OfPage(Waiting(Without(i) \o rest), view)
      BY <1>2, <1>3, <2>1, OneLess
    <3>2. SameBut(W, Waiting(Without(i)), {calls[i].op, "index"})
      BY <3>1 DEF SameBut
    <3> QED
      BY <1>4, <3>1, <3>2
  <2>3. ops \subseteq {"list", "metadata", "record", "delete", "index"}
    BY <1>2
  <2>4. view.info.data # None => BrowseWaits(W, view.browse)
    BY <2>1, IndexParts DEF PanelsWait
  <2>5. calls[i].op # "metadata" => {"list", "metadata"} \cap ops = {}
    BY <1>2
  <2>6. calls[i].op # "metadata" => (BrowseWaits(W, view.browse) => BrowseWaits(X, view.browse))
    BY <2>2, <2>5, PanelsSame
  <2> HIDE DEF W, X
  <2>7. CASE view' = view /\ calls[i].op # "metadata"
    <3>1. /\ "query" \notin ops /\ "upsert" \notin ops
          /\ "configure" \notin ops /\ {"setEmbedding", "fields"} \cap ops = {}
          /\ {"map", "neighbours"} \cap ops = {}
      BY <1>2
    <3> HIDE DEF ops
    <3> QED
      BY <1>2, <2>1, <2>2, <2>5, <2>7, <3>1, IndexMoves DEF W, X
  <2>8. CASE view' = [view EXCEPT !.browse.loading = FALSE]
    <3> DEFINE e == [view.browse EXCEPT !.loading = FALSE]
    <3>1. view.info.data # None => BrowseWaits(X, e)
      BY <2>4 DEF BrowseWaits
    <3> HIDE DEF e, ops
    <3>2. view' = [view EXCEPT !.browse = e]
      BY <2>8 DEF e
    <3> QED
      BY <1>2, <2>1, <2>2, <2>3, <3>1, <3>2, BrowseMoves DEF W, X
  <2>9. CASE /\ calls[i].op # "metadata"
             /\ \E f, g, h : \/ view' = [view EXCEPT !.browse.record = f]
                             \/ view' = [view EXCEPT !.browse.ids = f, !.browse.selected = g,
                                                     !.browse.record = h]
    <3>1. PICK e : /\ view' = [view EXCEPT !.browse = e] /\ DOMAIN e = DOMAIN view.browse
                   /\ "loading" \in DOMAIN view.browse => e.loading = view.browse.loading
      <4>1. PICK f, g, h : \/ view' = [view EXCEPT !.browse.record = f]
                           \/ view' = [view EXCEPT !.browse.ids = f, !.browse.selected = g,
                                                   !.browse.record = h]
        BY <2>9
      <4>2. CASE view' = [view EXCEPT !.browse.record = f]
        <5> DEFINE e == [view.browse EXCEPT !.record = f]
        <5>1. view' = [view EXCEPT !.browse = e] /\ DOMAIN e = DOMAIN view.browse
              /\ ("loading" \in DOMAIN view.browse => e.loading = view.browse.loading)
          BY <4>2
        <5> QED
          BY <5>1
      <4>3. CASE view' = [view EXCEPT !.browse.ids = f, !.browse.selected = g,
                                      !.browse.record = h]
        <5> DEFINE e == [view.browse EXCEPT !.ids = f, !.selected = g, !.record = h]
        <5>1. view' = [view EXCEPT !.browse = e] /\ DOMAIN e = DOMAIN view.browse
              /\ ("loading" \in DOMAIN view.browse => e.loading = view.browse.loading)
          BY <4>3
        <5> QED
          BY <5>1
      <4> QED
        BY <4>1, <4>2, <4>3
    <3>2. view.info.data # None => BrowseWaits(X, e)
      BY <2>4, <2>6, <2>9, <3>1 DEF BrowseWaits
    <3> HIDE DEF ops
    <3> QED
      BY <1>2, <2>1, <2>2, <2>3, <3>1, <3>2, BrowseMoves DEF W, X
  <2>10. CASE view' = view
    BY <1>1, <1>6, <2>7, <2>8, <2>9, <2>10
  <2>11. CASE \E r : view' = [view EXCEPT !.browse.record = r] /\ calls[i].op = "record"
    BY <2>9, <2>11
  <2>12. CASE \E e : /\ view' = [view EXCEPT !.browse.ids = e, !.browse.selected = None,
                                             !.browse.record = None]
                     /\ calls[i].op = "delete"
    <3>1. PICK e : view' = [view EXCEPT !.browse.ids = e, !.browse.selected = None,
                                        !.browse.record = None]
      BY <2>12
    <3>2. \E f, g, h : view' = [view EXCEPT !.browse.ids = f, !.browse.selected = g,
                                            !.browse.record = h]
      BY <3>1, Zenon
    <3>3. calls[i].op # "metadata"
      BY <2>12
    <3> QED
      BY <2>9, <3>2, <3>3, Zenon
  <2> QED
    BY <1>1, <2>8, <2>10, <2>11, <2>12
<1> QED
  BY <1>5, <1>6

LEMMA BrowseWaited == ASSUME Inv, BrowseNext PROVE WaitInv'
BY BrowseClicked, BrowseServed, BrowseListed, BrowseLoaded DEF BrowseNext

---------------------------------------------------------------------------
(* Query                                                                   *)

LEMMA QueryWaited == ASSUME Inv, QueryNext PROVE WaitInv'
<1>1. server' = server /\ me' = me /\ KeepsServer
  BY InvParts, ServerKept
     DEF QueryNext, QueryClicks, EditQuery, SubmitQuery, QueryMatch, ServeQuery, QueryAnswered, app
<1>2. CASE QueryClicks
  <2>1. view.page = "index" /\ view.info.data # None
    BY <1>2 DEF QueryClicks, Querying, OnTab, OnIndex
  <2>2. QueryWaits(Waiting(calls), view.query)
    BY <2>1, IndexParts DEF PanelsWait
  <2>3. CASE EditQuery
    <3>1. ASSUME NEW e, view' = [view EXCEPT !.query = e], DOMAIN e = DOMAIN view.query,
                 "busy" \in DOMAIN view.query => e.busy = view.query.busy
          PROVE  WaitInv'
      <4>1. calls' = calls
        BY <2>3 DEF EditQuery
      <4>2. QueryWaits(Waiting(calls'), e)
        BY <2>2, <3>1, <4>1 DEF QueryWaits
      <4>3. SameBut(Waiting(calls), Waiting(calls'), {"query"}) /\ Asked(calls')
            /\ OfPage(Waiting(calls'), view)
        BY <2>1, <4>1, InvParts, IndexParts DEF SameBut
      <4> QED
        BY <1>1, <2>1, <3>1, <4>2, <4>3, QueryMoves
    <3>2. CASE \E m \in Modes \cap ({"id", "vector"} \cup QueryControls),
                  t \in BOOLEAN, f \in BOOLEAN :
                  view' = [view EXCEPT !.query.mode = m, !.query.text = t, !.query.filter = f]
      <4>1. PICK m, t, f :
              view' = [view EXCEPT !.query.mode = m, !.query.text = t, !.query.filter = f]
        BY <3>2
      <4> DEFINE e == [[[view.query EXCEPT !.mode = m] EXCEPT !.text = t] EXCEPT !.filter = f]
      <4>2. view' = [view EXCEPT !.query = e]
        BY <4>1
      <4>3. DOMAIN e = DOMAIN view.query /\ ("busy" \in DOMAIN view.query => e.busy = view.query.busy)
        OBVIOUS
      <4> HIDE DEF e
      <4> QED
        BY <3>1, <4>2, <4>3
    <3>3. CASE \E r \in Ids \cup {None} : view' = [view EXCEPT !.query.id = r]
      <4>1. PICK r : view' = [view EXCEPT !.query.id = r]
        BY <3>3
      <4> DEFINE e == [view.query EXCEPT !.id = r]
      <4>2. view' = [view EXCEPT !.query = e]
        BY <4>1
      <4>3. DOMAIN e = DOMAIN view.query /\ ("busy" \in DOMAIN view.query => e.busy = view.query.busy)
        OBVIOUS
      <4> HIDE DEF e
      <4> QED
        BY <3>1, <4>2, <4>3
    <3>4. CASE \E ns \in Namespaces : view' = [view EXCEPT !.query.ns = ns]
      <4>1. PICK ns : view' = [view EXCEPT !.query.ns = ns]
        BY <3>4
      <4> DEFINE e == [view.query EXCEPT !.ns = ns]
      <4>2. view' = [view EXCEPT !.query = e]
        BY <4>1
      <4>3. DOMAIN e = DOMAIN view.query /\ ("busy" \in DOMAIN view.query => e.busy = view.query.busy)
        OBVIOUS
      <4> HIDE DEF e
      <4> QED
        BY <3>1, <4>2, <4>3
    <3> QED
      BY <2>3, <3>2, <3>3, <3>4 DEF EditQuery
  <2>4. ASSUME NEW arg, NEW e, calls' = Append(calls, Call("query", arg)),
               view' = [view EXCEPT !.query = e], "busy" \in DOMAIN e
        PROVE  WaitInv'
    <3>1. "query" \in Awaited /\ "query" \notin Checked /\ PageOf("query") = "index"
      BY DEF Awaited, Checked, PageOf
    <3>2. /\ Waiting(calls') = Waiting(calls) \cup {<<"query", arg>>}
          /\ SameBut(Waiting(calls), Waiting(calls'), {"query"})
          /\ Asked(calls') /\ OfPage(Waiting(calls'), view)
      BY <2>1, <2>4, <3>1, NewAsked, PanelSends
    <3>3. <<"query", arg>>[1] = "query"
      OBVIOUS
    <3>4. QueryWaits(Waiting(calls'), e)
      BY <2>4, <3>2, <3>3 DEF QueryWaits, For
    <3> QED
      BY <1>1, <2>1, <2>4, <3>2, <3>4, QueryMoves
  <2>5. CASE SubmitQuery
    <3>1. PICK arg : calls' = Append(calls, Call("query", arg))
      BY <2>5 DEF SubmitQuery, Sent
    <3> DEFINE e == [view.query EXCEPT !.busy = TRUE]
    <3>2. view' = [view EXCEPT !.query = e] /\ "busy" \in DOMAIN e
      BY <2>2, <2>5 DEF SubmitQuery, QueryWaits
    <3> HIDE DEF e
    <3> QED
      BY <2>4, <3>1, <3>2
  <2>6. CASE QueryMatch
    <3>1. PICK r : /\ view' = [view EXCEPT !.query.mode = "id", !.query.id = r,
                                           !.query.busy = @ \/ view.query.filter]
                   /\ IF view.query.filter
                      THEN Sent("query", Body("id", r, view.query.result.body.ns))
                      ELSE calls' = calls
      BY <2>6 DEF QueryMatch
    <3> DEFINE busy == view.query.busy \/ view.query.filter
               e == [[[view.query EXCEPT !.mode = "id"] EXCEPT !.id = r] EXCEPT !.busy = busy]
    <3>2. view' = [view EXCEPT !.query = e]
      BY <3>1
    <3>3. ~view.query.filter => (busy => view.query.busy)
      OBVIOUS
    <3> HIDE DEF busy
    <3>4. DOMAIN e = DOMAIN view.query /\ ("busy" \in DOMAIN e => e.busy = busy)
      OBVIOUS
    <3> HIDE DEF e
    <3>5. "busy" \in DOMAIN e
      BY <2>2, <3>4 DEF QueryWaits
    <3>6. CASE view.query.filter
      BY <2>4, <3>1, <3>2, <3>5, <3>6 DEF Sent
    <3>7. CASE ~view.query.filter
      <4>1. calls' = calls
        BY <3>1, <3>7
      <4>2. QueryWaits(Waiting(calls'), e)
        BY <2>2, <3>3, <3>4, <3>5, <3>7, <4>1 DEF QueryWaits
      <4>3. SameBut(Waiting(calls), Waiting(calls'), {"query"}) /\ Asked(calls')
            /\ OfPage(Waiting(calls'), view)
        BY <2>1, <4>1, InvParts, IndexParts DEF SameBut
      <4> QED
        BY <1>1, <2>1, <3>2, <4>2, <4>3, QueryMoves
    <3> QED
      BY <3>6, <3>7
  <2> QED
    BY <1>2, <2>3, <2>5, <2>6 DEF QueryClicks
<1>3. CASE ServeQuery
  <2>1. PICK i \in Pending("query") :
          (\E r : Answer(i, r)) \/ calls' = [calls EXCEPT ![i].st = "failed"]
    BY <1>3 DEF ServeQuery
  <2>2. view' = view
    BY <1>3 DEF ServeQuery
  <2> QED
    BY <1>1, <2>1, <2>2, PendingCall, AnsweredQuiet, FailedQuiet DEF Answered
<1>4. CASE QueryAnswered
  <2>1. PICK i \in Arrived("query") :
          /\ view' = IF ~calls[i].live THEN view
                     ELSE [view EXCEPT
                             !.query.busy = FALSE,
                             !.query.result = IF Ok(i) THEN calls[i].reply ELSE @,
                             !.query.last = IF Ok(i) THEN calls[i].arg ELSE @]
          /\ calls' = Without(i)
    BY <1>4 DEF QueryAnswered
  <2>2. i \in DOMAIN calls /\ calls[i].op = "query"
    BY ArrivedCall
  <2>3. CASE ~calls[i].live
    BY <1>1, <2>1, <2>2, <2>3, SameAlike, DeliveredQuiet DEF Waits
  <2>4. CASE calls[i].live
    <3>1. view.page = "index"
      BY <2>2, <2>4, AwaitedWaits DEF Waits, Awaited, PageOf
    <3> DEFINE x == IF Ok(i) THEN calls[i].reply ELSE view.query.result
               y == IF Ok(i) THEN calls[i].arg ELSE view.query.last
               e == [[[view.query EXCEPT !.busy = FALSE] EXCEPT !.result = x] EXCEPT !.last = y]
    <3>2. view' = [view EXCEPT !.query = e]
      BY <2>1, <2>4
    <3> HIDE DEF x, y
    <3>3. DOMAIN e = DOMAIN view.query /\ ("busy" \in DOMAIN e => e.busy = FALSE)
      OBVIOUS
    <3> HIDE DEF e
    <3>4. view.info.data # None => QueryWaits(Waiting(calls'), e)
      BY <3>1, <3>3, IndexParts DEF PanelsWait, QueryWaits
    <3>5. SameBut(Waiting(calls), Waiting(calls'), {"query"}) /\ Asked(calls')
          /\ OfPage(Waiting(calls'), view)
      <4>1. CallsOk(<<>>, server.written) /\ Asked(<<>>) /\ Waiting(<<>>) = {}
        BY CallsEmpty, WaitingOne
      <4> QED
        BY <2>1, <2>2, <4>1, OneLess
    <3> QED
      BY <1>1, <3>1, <3>2, <3>4, <3>5, QueryMoves
  <2> QED
    BY <2>3, <2>4
<1> QED
  BY <1>2, <1>3, <1>4 DEF QueryNext

---------------------------------------------------------------------------
(* Upsert, and the sample data of Get started                              *)

\* Another batch is on its way: it is for the panel that sent the first one
LEMMA BatchAsked ==
  ASSUME NEW arg, arg.by \in {"upsert", "seed"}, NEW live
  PROVE  /\ AskedOk(Call("upsert", arg)) /\ AskedOk([Call("upsert", arg) EXCEPT !.live = live])
         /\ Pair([Call("upsert", arg) EXCEPT !.live = live]) = <<"upsert", arg>>
         /\ live => Waits([Call("upsert", arg) EXCEPT !.live = live])
         /\ ~live => ~Waits([Call("upsert", arg) EXCEPT !.live = live])
<1>1. "upsert" \in Awaited
  BY DEF Awaited
<1>2. AskedOk(Call("upsert", arg)) /\ AskedOk([Call("upsert", arg) EXCEPT !.live = live])
  BY DEF AskedOk, Call
<1> QED
  BY <1>1, <1>2, NewAsked

LEMMA SameMore ==
  ASSUME NEW W, NEW X, NEW ops, SameBut(W, X, ops), NEW others, ops \subseteq others
  PROVE  SameBut(W, X, others)
BY DEF SameBut

LEMMA UpsertClicked == ASSUME Inv, UpsertClicks \/ Seed PROVE WaitInv'
<1>1. server' = server /\ me' = me /\ KeepsServer
  BY InvParts, ServerKept DEF UpsertClicks, EditRecords, SubmitRecords, Seed, app
<1>2. view.page = "index" /\ view.info.data # None
  BY DEF UpsertClicks, Upserting, Seed, OnTab, OnIndex
<1>3. /\ BatchWaits(Waiting(calls), view.upsert, "upsert")
      /\ BatchWaits(Waiting(calls), view.seed, "seed")
  BY <1>2, IndexParts DEF PanelsWait
<1>4. CASE EditRecords
  <2>1. ASSUME NEW e, view' = [view EXCEPT !.upsert = e], DOMAIN e = DOMAIN view.upsert,
               "busy" \in DOMAIN view.upsert => e.busy = view.upsert.busy
        PROVE  WaitInv'
    <3>1. calls' = calls
      BY <1>4 DEF EditRecords
    <3>2. BatchWaits(Waiting(calls'), e, "upsert")
      BY <1>3, <2>1, <3>1 DEF BatchWaits
    <3>3. /\ SameBut(Waiting(calls), Waiting(calls'), {"upsert", "index"}) /\ Asked(calls')
          /\ OfPage(Waiting(calls'), view) /\ BatchWaits(Waiting(calls'), view.seed, "seed")
      BY <1>2, <1>3, <3>1, InvParts, IndexParts DEF SameBut
    <3> QED
      BY <1>1, <1>2, <2>1, <3>2, <3>3, BatchMoves
  <2>2. CASE \E n \in 0 .. MaxRecords : view' = [view EXCEPT !.upsert.records = n]
    <3>1. PICK n : view' = [view EXCEPT !.upsert.records = n]
      BY <2>2
    <3> DEFINE e == [view.upsert EXCEPT !.records = n]
    <3>2. view' = [view EXCEPT !.upsert = e]
      BY <3>1
    <3>3. DOMAIN e = DOMAIN view.upsert /\ ("busy" \in DOMAIN view.upsert => e.busy = view.upsert.busy)
      OBVIOUS
    <3> HIDE DEF e
    <3> QED
      BY <2>1, <3>2, <3>3
  <2>3. CASE \E ns \in Namespaces : view' = [view EXCEPT !.upsert.ns = ns]
    <3>1. PICK ns : view' = [view EXCEPT !.upsert.ns = ns]
      BY <2>3
    <3> DEFINE e == [view.upsert EXCEPT !.ns = ns]
    <3>2. view' = [view EXCEPT !.upsert = e]
      BY <3>1
    <3>3. DOMAIN e = DOMAIN view.upsert /\ ("busy" \in DOMAIN view.upsert => e.busy = view.upsert.busy)
      OBVIOUS
    <3> HIDE DEF e
    <3> QED
      BY <2>1, <3>2, <3>3
  <2> QED
    BY <1>4, <2>2, <2>3 DEF EditRecords
<1>5. ASSUME NEW arg, arg.by \in {"upsert", "seed"}, calls' = Append(calls, Call("upsert", arg))
      PROVE  /\ \E a \in Waiting(calls') : a[1] = "upsert" /\ a[2].by = arg.by
             /\ BatchWaits(Waiting(calls'), view.upsert, "upsert")
             /\ BatchWaits(Waiting(calls'), view.seed, "seed")
             /\ SameBut(Waiting(calls), Waiting(calls'), {"upsert", "index"})
             /\ Asked(calls') /\ OfPage(Waiting(calls'), view)
  <2>1. "upsert" \in Awaited /\ PageOf("upsert") = "index"
    BY DEF Awaited, PageOf
  <2>2. AskedOk(Call("upsert", arg))
    BY <1>5 DEF AskedOk, Call
  <2>3. /\ Waiting(calls') = Waiting(calls) \cup {<<"upsert", arg>>}
        /\ SameBut(Waiting(calls), Waiting(calls'), {"upsert"})
        /\ Asked(calls') /\ OfPage(Waiting(calls'), view)
    BY <1>2, <1>5, <2>1, <2>2, PanelSends
  <2>4. SameBut(Waiting(calls), Waiting(calls'), {"upsert", "index"})
    BY <2>3, SameMore
  <2>5. <<"upsert", arg>>[1] = "upsert" /\ <<"upsert", arg>>[2] = arg
    OBVIOUS
  <2>6. \E a \in Waiting(calls') : a[1] = "upsert" /\ a[2].by = arg.by
    BY <2>3, <2>5
  <2>7. BatchWaits(Waiting(calls'), view.upsert, "upsert")
        /\ BatchWaits(Waiting(calls'), view.seed, "seed")
    BY <1>3, <2>3 DEF BatchWaits
  <2> QED
    BY <2>3, <2>4, <2>6, <2>7
<1>6. CASE SubmitRecords
  <2> DEFINE arg == [by |-> "upsert", ns |-> view.upsert.ns, from |-> 1, n |-> view.upsert.records]
             e == [view.upsert EXCEPT !.busy = TRUE]
  <2>1. calls' = Append(calls, Call("upsert", arg)) /\ view' = [view EXCEPT !.upsert = e]
    BY <1>6 DEF SubmitRecords, UpsertCall
  <2>2. arg.by = "upsert" /\ DOMAIN e = DOMAIN view.upsert
    OBVIOUS
  <2> HIDE DEF arg, e
  <2>3. /\ \E a \in Waiting(calls') : a[1] = "upsert" /\ a[2].by = "upsert"
        /\ BatchWaits(Waiting(calls'), view.seed, "seed")
        /\ SameBut(Waiting(calls), Waiting(calls'), {"upsert", "index"})
        /\ Asked(calls') /\ OfPage(Waiting(calls'), view)
    BY <1>5, <2>1, <2>2
  <2>4. BatchWaits(Waiting(calls'), e, "upsert")
    BY <1>3, <2>2, <2>3 DEF BatchWaits
  <2> QED
    BY <1>1, <1>2, <2>1, <2>3, <2>4, BatchMoves
<1>7. CASE Seed
  <2> DEFINE arg == [by |-> "seed", ns |-> DefaultSpace, from |-> 1, n |-> Samples]
             e == [busy |-> TRUE, done |-> 0]
  <2>1. calls' = Append(calls, Call("upsert", arg)) /\ view' = [view EXCEPT !.seed = e]
    BY <1>7 DEF Seed, UpsertCall
  <2>2. arg.by = "seed" /\ "busy" \in DOMAIN e
    OBVIOUS
  <2> HIDE DEF arg, e
  <2>3. /\ \E a \in Waiting(calls') : a[1] = "upsert" /\ a[2].by = "seed"
        /\ BatchWaits(Waiting(calls'), view.upsert, "upsert")
        /\ SameBut(Waiting(calls), Waiting(calls'), {"upsert", "index"})
        /\ Asked(calls') /\ OfPage(Waiting(calls'), view)
    BY <1>5, <2>1, <2>2
  <2>4. BatchWaits(Waiting(calls'), e, "seed")
    BY <2>2, <2>3 DEF BatchWaits
  <2> QED
    BY <1>1, <1>2, <2>1, <2>3, <2>4, BatchMoves
<1> QED
  BY <1>4, <1>6, <1>7 DEF UpsertClicks

LEMMA UpsertServed == ASSUME Inv, ServeUpsert PROVE WaitInv'
<1>1. PICK i \in Pending("upsert") : Answer(i, None)
  BY Zenon DEF ServeUpsert
<1>2. PICK a, x, y : server' = [server EXCEPT !.written[a.ns] = x, !.records[a.ns] = y]
  BY DEF ServeUpsert
<1>3. {"ef", "embed"} \subseteq DOMAIN server
  BY InvParts DEF WaitInv
<1>4. KeepsServer
  BY <1>2, <1>3 DEF KeepsServer
<1>5. me' = me /\ view' = view
  BY DEF ServeUpsert, app
<1>6. "upsert" \notin Answered
  BY DEF Answered
<1> QED
  BY <1>1, <1>4, <1>5, <1>6, AnsweredQuiet

LEMMA UpsertHeard == ASSUME Inv, BatchWritten PROVE WaitInv'
<1>1. PICK i \in Arrived("upsert") :
        LET a == calls[i].arg
            more == Ok(i) /\ LastOf(a) < a.n
            ends == Ok(i) /\ ~more
        IN /\ calls' = IF more THEN Append(Without(i), [NextBatch(a) EXCEPT !.live = calls[i].live])
                       ELSE IF ends THEN Without(i) \o Refresh(calls[i].live)
                       ELSE Without(i)
           /\ view' = IF ~calls[i].live THEN view
                      ELSE IF a.by = "upsert"
                      THEN [view EXCEPT !.upsert.busy = more,
                                        !.upsert.records = IF ends THEN 0 ELSE @]
                      ELSE [view EXCEPT !.seed.busy = more,
                                        !.seed.done = IF Ok(i) THEN LastOf(a) ELSE @]
  BY DEF BatchWritten
<1> DEFINE a == calls[i].arg
           more == Ok(i) /\ LastOf(a) < a.n
           ends == Ok(i) /\ ~more
           next == [by |-> a.by, ns |-> a.ns, from |-> LastOf(a) + 1, n |-> a.n]
<1>2. server' = server /\ me' = me /\ KeepsServer
  BY InvParts, ServerKept DEF BatchWritten, app
<1>3. i \in DOMAIN calls /\ calls[i].op = "upsert" /\ a.by \in {"upsert", "seed"}
  BY ArrivedCall, InvParts DEF Asked, AskedOk
<1>4. NextBatch(a) = Call("upsert", next) /\ next.by = a.by
  BY DEF NextBatch, UpsertCall
<1> HIDE DEF next
<1>5. CASE ~calls[i].live
  <2>1. view' = view /\ ~Waits(calls[i])
    BY <1>1, <1>5 DEF Waits
  <2>2. CASE more
    <3> DEFINE c == [Call("upsert", next) EXCEPT !.live = calls[i].live]
    <3>1. calls' = Append(Without(i), c)
      BY <1>1, <1>4, <2>2
    <3>2. ~Waits(c) /\ AskedOk(c)
      BY <1>3, <1>4, <1>5, BatchAsked
    <3> HIDE DEF c
    <3> QED
      BY <1>2, <1>3, <2>1, <3>1, <3>2, SameAlike, GoesOnQuiet
  <2>3. CASE ends
    <3>1. calls' = Without(i) \o Refresh(calls[i].live)
      BY <1>1, <2>3
    <3> QED
      BY <1>2, <1>3, <1>5, <2>1, <3>1, SameAlike, RestWaits, Unheard
  <2>4. CASE ~more /\ ~ends
    <3>1. calls' = Without(i)
      BY <1>1, <2>4
    <3> QED
      BY <1>2, <1>3, <2>1, <3>1, SameAlike, DeliveredQuiet
  <2> QED
    BY <2>2, <2>3, <2>4
<1>6. CASE calls[i].live
  <2>1. "upsert" \in Awaited /\ PageOf("upsert") = "index"
    BY DEF Awaited, PageOf
  <2>2. Waits(calls[i]) /\ view.page = "index"
    BY <1>3, <1>6, <2>1, AwaitedWaits DEF Waits
  <2>3. Waiting(calls) = Waiting(Without(i)) \cup {<<"upsert", a>>}
    BY <1>3, <2>2, WithoutWaits DEF Pair
  <2>4. /\ SameBut(Waiting(calls), Waiting(calls'), {"upsert", "index"})
        /\ Waiting(Without(i)) \subseteq Waiting(calls')
        /\ Asked(calls') /\ OfPage(Waiting(calls'), view)
        /\ more => \E x \in Waiting(calls') : x[1] = "upsert" /\ x[2].by = a.by
    <3>1. CASE more
      <4> DEFINE c == [Call("upsert", next) EXCEPT !.live = calls[i].live]
      <4>1. calls' = Append(Without(i), c)
        BY <1>1, <1>4, <3>1
      <4>2. Waits(c) /\ AskedOk(c) /\ Pair(c) = <<"upsert", next>>
        BY <1>3, <1>4, <1>6, BatchAsked
      <4> HIDE DEF c
      <4>3. /\ Waiting(calls') = Waiting(Without(i)) \cup {<<"upsert", next>>} /\ Asked(calls')
        BY <1>3, <4>1, <4>2, GoesOnOne
      <4>4. SameBut(Waiting(calls), Waiting(calls'), {"upsert", "index"})
        BY <2>3, <4>3 DEF SameBut
      <4>5. <<"upsert", next>>[1] = "upsert" /\ <<"upsert", next>>[2] = next
        OBVIOUS
      <4>6. OfPage(Waiting(calls'), view)
        BY <2>1, <2>2, <2>3, <4>3, <4>5, InvParts DEF OfPage, Screen
      <4> QED
        BY <1>4, <4>3, <4>4, <4>5, <4>6
    <3>2. CASE ends
      <4>1. calls' = Without(i) \o Refresh(calls[i].live)
        BY <1>1, <3>2
      <4>2. /\ CallsOk(Refresh(calls[i].live), server.written) /\ Asked(Refresh(calls[i].live))
            /\ Waiting(Refresh(calls[i].live)) \subseteq {<<"index", None>>}
        BY RestWaits
      <4>3. SameBut(Waiting(calls), Waiting(calls'), {"upsert", "index"})
            /\ Asked(calls') /\ OfPage(Waiting(calls'), view)
        BY <1>3, <2>2, <4>1, <4>2, OneLess
      <4>4. Waiting(Without(i)) \subseteq Waiting(calls')
        BY <1>3, <4>1, <4>2, GoesOnWaits
      <4> QED
        BY <3>2, <4>3, <4>4
    <3>3. CASE ~more /\ ~ends
      <4>1. calls' = Without(i)
        BY <1>1, <3>3
      <4>2. CallsOk(<<>>, server.written) /\ Asked(<<>>) /\ Waiting(<<>>) = {}
        BY CallsEmpty, WaitingOne
      <4>3. SameBut(Waiting(calls), Waiting(calls'), {"upsert"})
            /\ Asked(calls') /\ OfPage(Waiting(calls'), view)
        BY <1>3, <2>2, <4>1, <4>2, OneLess
      <4>4. SameBut(Waiting(calls), Waiting(calls'), {"upsert", "index"})
        BY <4>3, SameMore
      <4> QED
        BY <3>3, <4>1, <4>3, <4>4
    <3> QED
      BY <3>1, <3>2, <3>3
  <2>5. view.info.data # None => /\ BatchWaits(Waiting(calls), view.upsert, "upsert")
                                 /\ BatchWaits(Waiting(calls), view.seed, "seed")
    BY <2>2, IndexParts DEF PanelsWait
  <2>6. ASSUME NEW by, by # a.by, NEW u, BatchWaits(Waiting(calls), u, by)
        PROVE  BatchWaits(Waiting(calls'), u, by)
    <3>1. <<"upsert", a>>[2] = a
      OBVIOUS
    <3> HIDE DEF a
    <3> QED
      BY <2>3, <2>4, <2>6, <3>1 DEF BatchWaits
  <2> HIDE DEF more, ends
  <2>7. CASE a.by = "upsert"
    <3> DEFINE x == IF ends THEN 0 ELSE view.upsert.records
               e == [[view.upsert EXCEPT !.busy = more] EXCEPT !.records = x]
    <3>1. view' = [view EXCEPT !.upsert = e]
      BY <1>1, <1>6, <2>7 DEF more, ends
    <3> HIDE DEF x
    <3>2. DOMAIN e = DOMAIN view.upsert /\ ("busy" \in DOMAIN e => e.busy = more)
      OBVIOUS
    <3> HIDE DEF e
    <3>3. view.info.data # None => BatchWaits(Waiting(calls'), e, "upsert")
      BY <2>4, <2>5, <2>7, <3>2 DEF BatchWaits
    <3>4. view.info.data # None => BatchWaits(Waiting(calls'), view.seed, "seed")
      BY <2>5, <2>6, <2>7
    <3> QED
      BY <1>2, <2>2, <2>4, <3>1, <3>3, <3>4, BatchMoves
  <2>8. CASE a.by # "upsert"
    <3>0. a.by = "seed"
      BY <1>3, <2>8
    <3> DEFINE x == IF Ok(i) THEN LastOf(a) ELSE view.seed.done
               e == [[view.seed EXCEPT !.busy = more] EXCEPT !.done = x]
    <3>1. view' = [view EXCEPT !.seed = e]
      BY <1>1, <1>6, <2>8 DEF more
    <3> HIDE DEF x
    <3>2. DOMAIN e = DOMAIN view.seed /\ ("busy" \in DOMAIN e => e.busy = more)
      OBVIOUS
    <3> HIDE DEF e
    <3>3. view.info.data # None => BatchWaits(Waiting(calls'), e, "seed")
      BY <2>4, <2>5, <3>0, <3>2 DEF BatchWaits
    <3>4. view.info.data # None => BatchWaits(Waiting(calls'), view.upsert, "upsert")
      BY <2>5, <2>6, <3>0
    <3> QED
      BY <1>2, <2>2, <2>4, <3>1, <3>3, <3>4, BatchMoves
  <2> QED
    BY <2>7, <2>8
<1> QED
  BY <1>5, <1>6

LEMMA UpsertWaited == ASSUME Inv, UpsertNext PROVE WaitInv'
BY UpsertClicked, UpsertServed, UpsertHeard DEF UpsertNext

---------------------------------------------------------------------------
(* An index page that is shown anew: the picker comes or goes, another tab  *)
(* comes on screen, newer data arrives                                      *)

\* The index page v and the calls cs fit, but for the picker and the map
Panels(v, cs) ==
    /\ v.page = "index" /\ CallsOk(cs, server.written)
    /\ Asked(cs) /\ OfPage(Waiting(cs), v)
    /\ {"page", "route", "info", "browse", "query", "upsert", "seed", "settings", "connect",
        "map", "models"} \subseteq DOMAIN v
    /\ {"data", "error"} \subseteq DOMAIN v.info /\ v.info.data \in IndexInfo \cup {None}
    /\ v.info.data # None => PanelsWait(Waiting(cs), v)

LEMMA PanelsHere ==
  ASSUME Inv, view.page = "index"
  PROVE  /\ Panels(view, calls) /\ ConnectWaits(Waiting(calls), view.connect)
         /\ MapWaits(Waiting(calls), view)
<1>1. /\ view.page = "index" /\ CallsOk(calls, server.written) /\ Asked(calls)
      /\ OfPage(Waiting(calls), view) /\ IndexWaits(Waiting(calls), view)
      /\ {"page", "route", "info", "browse", "query", "upsert", "seed", "settings", "connect",
          "map", "models"} \subseteq DOMAIN view
  BY InvParts, IndexParts
<1> QED
  BY <1>1 DEF Panels, IndexWaits

LEMMA PanelsStep ==
  ASSUME Inv, view.page = "index", Panels(view', calls'), view'.route = view.route,
         ConnectWaits(Waiting(calls'), view'.connect), MapWaits(Waiting(calls'), view'),
         KeepsServer, me' = me
  PROVE  WaitInv'
<1>1. IndexWaits(Waiting(calls'), view') /\ view'.page = "index"
      /\ OfPage(Waiting(calls'), view') /\ Asked(calls')
  BY DEF Panels, IndexWaits
<1>2. Screen(Waiting(calls'), view')
  BY <1>1, IndexScreen
<1> QED
  BY <1>1, <1>2, PageStep

\* One part of the page moves, and the calls of the kinds ops with it
LEMMA PanelsMove ==
  ASSUME NEW v, NEW cs, Panels(v, cs), NEW w, NEW ds, NEW ops,
         SameBut(Waiting(cs), Waiting(ds), ops),
         CallsOk(ds, server.written), Asked(ds), OfPage(Waiting(ds), v),
         DOMAIN w = DOMAIN v, w.page = v.page, w.info = v.info,
         v.info.data # None =>
           /\ \/ w.browse = v.browse /\ {"list", "metadata"} \cap ops = {}
              \/ BrowseWaits(Waiting(ds), w.browse)
           /\ \/ w.query = v.query /\ "query" \notin ops
              \/ QueryWaits(Waiting(ds), w.query)
           /\ w.upsert = v.upsert /\ w.seed = v.seed /\ "upsert" \notin ops
           /\ \/ w.settings = v.settings /\ "configure" \notin ops
              \/ SettingsWaits(Waiting(ds), w.settings)
  PROVE  Panels(w, ds)
<1> DEFINE W == Waiting(cs)
           X == Waiting(ds)
<1>1. SameBut(W, X, ops) /\ OfPage(X, w)
  BY DEF OfPage
<1>2. v.info.data # None => PanelsWait(W, v)
  BY DEF Panels
<1> HIDE DEF W
<1>3. ASSUME v.info.data # None PROVE PanelsWait(X, w)
  <2> HIDE DEF X
  <2>1. PanelsWait(W, v)
    BY <1>2, <1>3
  <2>2. BrowseWaits(X, w.browse)
    BY <1>1, <1>3, <2>1, PanelsSame DEF X, PanelsWait
  <2>3. QueryWaits(X, w.query)
    BY <1>1, <1>3, <2>1, PanelsSame DEF X, PanelsWait
  <2>4. BatchWaits(X, w.upsert, "upsert") /\ BatchWaits(X, w.seed, "seed")
    BY <1>1, <1>3, <2>1, PanelsSame DEF PanelsWait
  <2>5. SettingsWaits(X, w.settings)
    BY <1>1, <1>3, <2>1, PanelsSame DEF X, PanelsWait
  <2> QED
    BY <2>2, <2>3, <2>4, <2>5 DEF PanelsWait
<1> QED
  BY <1>1, <1>3 DEF Panels

\* The map goes on, while it is of the same tab
LEMMA MapStill ==
  ASSUME NEW W, NEW X, NEW ops, SameBut(W, X, ops), {"map", "neighbours"} \cap ops = {},
         NEW v, MapWaits(W, v), NEW w, w.map = v.map, w.route = v.route,
         v.info.data = None <=> w.info.data = None
  PROVE  MapWaits(X, w)
<1> DEFINE kinds == {"map", "neighbours"}
<1>1. For(X, kinds) => For(W, kinds)
  BY DEF SameBut, For
<1>2. {a \in X : a[1] = "map"} = {a \in W : a[1] = "map"}
  BY DEF SameBut
<1> QED
  BY <1>1, <1>2 DEF MapWaits

\* Calls that are changed where they are
LEMMA ChangedWaits ==
  ASSUME NEW cs, NEW ds, DOMAIN ds = DOMAIN cs, NEW ops,
         \A i \in DOMAIN cs : /\ ds[i].op = cs[i].op /\ (ds[i].live => cs[i].live)
                              /\ cs[i].op \notin ops => /\ ds[i].arg = cs[i].arg
                                                        /\ cs[i].live => ds[i].live
  PROVE  /\ SameBut(Waiting(cs), Waiting(ds), ops)
         /\ \A v : OfPage(Waiting(cs), v) => OfPage(Waiting(ds), v)
<1>1. ASSUME NEW a, a[1] \notin ops, a \in Waiting(cs) PROVE a \in Waiting(ds)
  <2>1. PICK i \in DOMAIN cs : cs[i].live /\ cs[i].op \in Awaited /\ a = <<cs[i].op, cs[i].arg>>
    BY <1>1 DEF Waiting
  <2>2. a[1] = cs[i].op
    BY <2>1
  <2> QED
    BY <1>1, <2>1, <2>2 DEF Waiting
<1>2. ASSUME NEW a \in Waiting(ds)
      PROVE  /\ \E b \in Waiting(cs) : b[1] = a[1]
             /\ a[1] \notin ops => a \in Waiting(cs)
  <2>1. PICK i \in DOMAIN ds : ds[i].live /\ ds[i].op \in Awaited /\ a = <<ds[i].op, ds[i].arg>>
    BY <1>2 DEF Waiting
  <2>2. a[1] = cs[i].op /\ cs[i].live /\ cs[i].op \in Awaited
    BY <2>1
  <2>3. <<cs[i].op, cs[i].arg>> \in Waiting(cs) /\ <<cs[i].op, cs[i].arg>>[1] = cs[i].op
    BY <2>1, <2>2 DEF Waiting
  <2>4. a[1] \notin ops => a = <<cs[i].op, cs[i].arg>>
    BY <2>1, <2>2
  <2> QED
    BY <2>2, <2>3, <2>4
<1>3. SameBut(Waiting(cs), Waiting(ds), ops)
  BY <1>1, <1>2 DEF SameBut
<1>4. \A v : OfPage(Waiting(cs), v) => OfPage(Waiting(ds), v)
  <2> SUFFICES ASSUME NEW v, OfPage(Waiting(cs), v), NEW a \in Waiting(ds)
               PROVE  PageOf(a[1]) = v.page
    BY DEF OfPage
  <2>1. PICK b \in Waiting(cs) : b[1] = a[1]
    BY <1>2
  <2> QED
    BY <2>1 DEF OfPage
<1> QED
  BY <1>3, <1>4

LEMMA AskedAlike ==
  ASSUME NEW c, NEW d, AskedOk(c), d.op = c.op, d.arg = c.arg, d.st = c.st, d.reply = c.reply
  PROVE  AskedOk(d)
BY DEF AskedOk

LEMMA UnpickedNone ==
  ASSUME NEW cs, NEW w, CallsOk(cs, w), Asked(cs), NEW i \in DOMAIN cs,
         Unpicked(cs)[i].op = "setEmbedding"
  PROVE  Unpicked(cs)[i].arg.picker = FALSE
<1>1. IsCall(cs[i]) /\ AskedOk(cs[i])
  BY CallsElement DEF CallOk, Asked
<1>2. CASE cs[i].op = "setEmbedding"
  <2> DEFINE x == [cs[i].arg EXCEPT !.picker = FALSE]
  <2>1. Unpicked(cs)[i] = [cs[i] EXCEPT !.arg = x]
    BY <1>2 DEF Unpicked
  <2>2. Unpicked(cs)[i] = [op |-> cs[i].op, arg |-> x, live |-> cs[i].live, st |-> cs[i].st,
                           reply |-> cs[i].reply]
    BY <1>1, <2>1, CallMade
  <2>3. "picker" \in DOMAIN cs[i].arg
    BY <1>1, <1>2 DEF AskedOk
  <2>4. x.picker = FALSE
    BY <2>3
  <2> HIDE DEF x
  <2> QED
    BY <2>2, <2>4
<1>3. CASE cs[i].op # "setEmbedding"
  <2> DEFINE y == cs[i].live /\ cs[i].op # "fields"
  <2>1. Unpicked(cs)[i] = [cs[i] EXCEPT !.live = y]
    BY <1>3 DEF Unpicked
  <2> HIDE DEF y
  <2>2. Unpicked(cs)[i] = [op |-> cs[i].op, arg |-> cs[i].arg, live |-> y, st |-> cs[i].st,
                           reply |-> cs[i].reply]
    BY <1>1, <2>1, CallMade
  <2> QED
    BY <1>3, <2>2
<1> QED
  BY <1>2, <1>3

LEMMA NonePicked ==
  ASSUME NEW cs, \A i \in DOMAIN cs : cs[i].op = "setEmbedding" => cs[i].arg.picker = FALSE
  PROVE  ~Picked(Waiting(cs))
<1> SUFFICES ASSUME NEW a \in Waiting(cs), a[1] = "setEmbedding", a[2].picker = TRUE PROVE FALSE
  BY DEF Picked
<1>1. PICK i \in DOMAIN cs : a = <<cs[i].op, cs[i].arg>>
  BY DEF Waiting
<1>2. a[1] = cs[i].op /\ a[2] = cs[i].arg
  BY <1>1
<1> QED
  BY <1>2

LEMMA UnpickedWaits ==
  ASSUME NEW cs, NEW w, CallsOk(cs, w), Asked(cs)
  PROVE  /\ SameBut(Waiting(cs), Waiting(Unpicked(cs)), {"setEmbedding", "fields"})
         /\ ~For(Waiting(Unpicked(cs)), {"fields"}) /\ ~Picked(Waiting(Unpicked(cs)))
         /\ Asked(Unpicked(cs))
         /\ \A v : OfPage(Waiting(cs), v) => OfPage(Waiting(Unpicked(cs)), v)
<1> DEFINE ds == Unpicked(cs)
<1>1. DOMAIN ds = DOMAIN cs
  BY DEF Unpicked
<1>2. ASSUME NEW i \in DOMAIN cs
      PROVE  /\ ds[i].op = cs[i].op /\ (ds[i].live => cs[i].live)
             /\ cs[i].op \notin {"setEmbedding", "fields"} => /\ ds[i].arg = cs[i].arg
                                                              /\ cs[i].live => ds[i].live
             /\ cs[i].op = "fields" => ~ds[i].live
             /\ AskedOk(ds[i])
  <2>1. IsCall(cs[i]) /\ AskedOk(cs[i])
    BY CallsElement DEF CallOk, Asked
  <2>2. CASE cs[i].op = "setEmbedding"
    <3> DEFINE x == [cs[i].arg EXCEPT !.picker = FALSE]
    <3>1. ds[i] = [cs[i] EXCEPT !.arg = x]
      BY <2>2 DEF Unpicked
    <3>2. ds[i] = [op |-> cs[i].op, arg |-> x, live |-> cs[i].live, st |-> cs[i].st,
                   reply |-> cs[i].reply]
      BY <2>1, <3>1, CallMade
    <3>3. {"embed", "panel", "picker"} \subseteq DOMAIN cs[i].arg
      BY <2>1, <2>2 DEF AskedOk
    <3>4. DOMAIN x = DOMAIN cs[i].arg /\ x.picker = FALSE /\ x.embed = cs[i].arg.embed
      BY <3>3
    <3> HIDE DEF ds, x
    <3>5. AskedOk(ds[i])
      BY <2>1, <2>2, <3>2, <3>4 DEF AskedOk
    <3> QED
      BY <2>2, <3>2, <3>5
  <2>3. CASE cs[i].op # "setEmbedding"
    <3> DEFINE x == cs[i].live /\ cs[i].op # "fields"
    <3>1. ds[i] = [cs[i] EXCEPT !.live = x]
      BY <2>3 DEF Unpicked
    <3>2. ds[i] = [op |-> cs[i].op, arg |-> cs[i].arg, live |-> x, st |-> cs[i].st,
                   reply |-> cs[i].reply]
      BY <2>1, <3>1, CallMade
    <3> HIDE DEF ds
    <3>3. AskedOk(ds[i])
      BY <2>1, <3>2, AskedAlike
    <3>4. ds[i].op = cs[i].op /\ ds[i].arg = cs[i].arg /\ ds[i].live = x
      BY <3>2
    <3>5. /\ x => cs[i].live /\ cs[i].op # "fields"
          /\ cs[i].live /\ cs[i].op # "fields" => x
      OBVIOUS
    <3> HIDE DEF x
    <3> QED
      BY <2>3, <3>3, <3>4, <3>5
  <2> QED
    BY <2>2, <2>3
<1> HIDE DEF ds
<1>3. /\ SameBut(Waiting(cs), Waiting(ds), {"setEmbedding", "fields"})
      /\ \A v : OfPage(Waiting(cs), v) => OfPage(Waiting(ds), v)
  BY <1>1, <1>2, ChangedWaits
<1>4. ~For(Waiting(ds), {"fields"})
  <2> SUFFICES ASSUME NEW a \in Waiting(ds), a[1] = "fields" PROVE FALSE
    BY DEF For
  <2>1. PICK i \in DOMAIN ds : ds[i].live /\ a = <<ds[i].op, ds[i].arg>>
    BY DEF Waiting
  <2> QED
    BY <1>1, <1>2, <2>1
<1>5. Asked(ds)
  BY <1>1, <1>2 DEF Asked
<1>6. ~Picked(Waiting(ds))
  <2>1. \A i \in DOMAIN ds : ds[i].op = "setEmbedding" => ds[i].arg.picker = FALSE
    BY <1>1, UnpickedNone DEF ds
  <2> QED
    BY <2>1, NonePicked
<1> QED
  BY <1>3, <1>4, <1>5, <1>6 DEF ds

\* The picker that mounts hears of its fields; one that unmounts hears nothing
LEMMA PickerWaits ==
  ASSUME NEW v, NEW cs, Panels(v, cs), v.info.data # None, MapWaits(Waiting(cs), v),
         \/ ConnectWaits(Waiting(cs), v.connect)
         \/ v.connect # None /\ ~ShowsPicker(v)
  PROVE  /\ Panels(WithPicker(v, cs).view, WithPicker(v, cs).calls)
         /\ ConnectWaits(Waiting(WithPicker(v, cs).calls), WithPicker(v, cs).view.connect)
         /\ MapWaits(Waiting(WithPicker(v, cs).calls), WithPicker(v, cs).view)
         /\ WithPicker(v, cs).view.route = v.route
<1> DEFINE ops == {"setEmbedding", "fields"}
           u == WithPicker(v, cs).view
           ds == WithPicker(v, cs).calls
<1>1. /\ {"list", "metadata"} \cap ops = {} /\ "query" \notin ops /\ "upsert" \notin ops
      /\ "configure" \notin ops /\ {"map", "neighbours"} \cap ops = {}
  OBVIOUS
<1>2. /\ CallsOk(cs, server.written) /\ Asked(cs) /\ OfPage(Waiting(cs), v)
      /\ {"page", "route", "info", "browse", "query", "upsert", "seed", "settings", "connect",
          "map", "models"} \subseteq DOMAIN v
      /\ v.page = "index" /\ v.info.data \in IndexInfo
  BY DEF Panels
<1> HIDE DEF ops
<1>3. ASSUME NEW c, NEW m, u = [[v EXCEPT !.connect = c] EXCEPT !.models = m],
             SameBut(Waiting(cs), Waiting(ds), ops), CallsOk(ds, server.written), Asked(ds),
             OfPage(Waiting(ds), v), ConnectWaits(Waiting(ds), c)
      PROVE  /\ Panels(u, ds) /\ ConnectWaits(Waiting(ds), u.connect)
             /\ MapWaits(Waiting(ds), u) /\ u.route = v.route
  <2>1. /\ DOMAIN u = DOMAIN v /\ u.page = v.page /\ u.info = v.info /\ u.route = v.route
        /\ u.browse = v.browse /\ u.query = v.query /\ u.upsert = v.upsert /\ u.seed = v.seed
        /\ u.settings = v.settings /\ u.map = v.map /\ u.connect = c
    BY <1>2, <1>3
  <2> HIDE DEF u, ds
  <2>2. Panels(u, ds)
    BY <1>1, <1>3, <2>1, PanelsMove
  <2>3. MapWaits(Waiting(ds), u)
    <3>1. v.info.data = None <=> u.info.data = None
      BY <2>1
    <3>2. u.map = v.map /\ u.route = v.route
      BY <2>1
    <3>3. {"map", "neighbours"} \cap ops = {} /\ SameBut(Waiting(cs), Waiting(ds), ops)
      BY <1>1, <1>3
    <3> QED
      BY <3>1, <3>2, <3>3, MapStill
  <2> QED
    BY <1>3, <2>1, <2>2, <2>3
<1>4. CASE ShowsPicker(v) /\ v.connect = None
  <2> DEFINE c == ConnectMount(v.info.data.embed)
             call == Call("fields", None)
  <2>1. /\ u = [[v EXCEPT !.connect = c] EXCEPT !.models = NewModels]
        /\ ds = cs \o SubscribeCalls \o <<call>>
    BY <1>4 DEF WithPicker
  <2>2. c \in ConnectState /\ c.busy = FALSE /\ c # None
    <3>1. v.info.data.embed \in Models \cup {None}
      BY <1>2 DEF IndexInfo
    <3>2. c \in ConnectState /\ c.busy = FALSE
      BY <3>1 DEF ConnectMount, ConnectState
    <3> QED
      BY <3>2, NoPickerAssumption
  <2>3. "fields" \in Awaited /\ "fields" \notin Checked /\ PageOf("fields") = "index"
    BY DEF Awaited, Checked, PageOf
  <2>4. Waits(call) /\ AskedOk(call) /\ Pair(call) = <<"fields", None>>
        /\ CallOk(call, server.written)
    BY <2>3, NewAsked, NewCall DEF Watched
  <2> HIDE DEF call, c
  <2>5. /\ Waiting(<<call>>) = {<<"fields", None>>} /\ Asked(<<call>>)
        /\ CallsOk(<<call>>, server.written)
    BY <2>4, WaitingOne, CallsOne
  <2>6. /\ CallsOk(SubscribeCalls, server.written) /\ Asked(SubscribeCalls)
        /\ Waiting(SubscribeCalls) = {}
    BY RestWaits
  <2>7. /\ CallsOk(cs \o SubscribeCalls, server.written) /\ Asked(cs \o SubscribeCalls)
        /\ Waiting(cs \o SubscribeCalls) = Waiting(cs)
    BY <1>2, <2>6, WaitingConcat, CallsConcat
  <2>8. /\ CallsOk(ds, server.written) /\ Asked(ds)
        /\ Waiting(ds) = Waiting(cs) \cup {<<"fields", None>>}
    <3>1. CallsOk((cs \o SubscribeCalls) \o <<call>>, server.written)
      BY <2>5, <2>7, CallsConcat
    <3>2. /\ Asked((cs \o SubscribeCalls) \o <<call>>)
          /\ Waiting((cs \o SubscribeCalls) \o <<call>>)
               = Waiting(cs \o SubscribeCalls) \cup Waiting(<<call>>)
      BY <2>5, <2>7, WaitingConcat
    <3> QED
      BY <2>1, <2>5, <2>7, <3>1, <3>2
  <2>9. <<"fields", None>>[1] = "fields"
    OBVIOUS
  <2>10. OfPage(Waiting(ds), v)
    BY <1>2, <2>3, <2>8, <2>9 DEF OfPage
  <2>11. SameBut(Waiting(cs), Waiting(ds), ops)
    BY <2>8, <2>9 DEF SameBut, ops
  <2>12. ConnectWaits(Waiting(ds), c)
    BY <2>2 DEF ConnectWaits, Picked
  <2> QED
    BY <1>3, <2>1, <2>8, <2>10, <2>11, <2>12
<1>5. CASE ~ShowsPicker(v) /\ v.connect # None
  <2>1. u = [[v EXCEPT !.connect = None] EXCEPT !.models = NoModels] /\ ds = Unpicked(cs)
    BY <1>5 DEF WithPicker
  <2>2. /\ SameBut(Waiting(cs), Waiting(ds), ops) /\ ~For(Waiting(ds), {"fields"})
        /\ ~Picked(Waiting(ds)) /\ Asked(ds) /\ OfPage(Waiting(ds), v)
    BY <1>2, <2>1, UnpickedWaits DEF ops
  <2>3. CallsOk(ds, server.written)
    BY <1>2, <2>1, UnpickedCalls
  <2>4. ConnectWaits(Waiting(ds), None)
    BY <2>2 DEF ConnectWaits, Picked
  <2> QED
    BY <1>3, <2>1, <2>2, <2>3, <2>4
<1>6. CASE ~(ShowsPicker(v) /\ v.connect = None) /\ ~(~ShowsPicker(v) /\ v.connect # None)
  <2>1. u = v /\ ds = cs
    BY <1>6 DEF WithPicker
  <2>2. ConnectWaits(Waiting(cs), v.connect)
    BY <1>6
  <2> QED
    BY <2>1, <2>2
<1> QED
  BY <1>4, <1>5, <1>6

---------------------------------------------------------------------------
(* Connecting a model                                                      *)

LEMMA ConnectClicked == ASSUME Inv, ChooseModel \/ Connect \/ Disconnect PROVE WaitInv'
<1>1. server' = server /\ me' = me /\ KeepsServer
  BY InvParts, ServerKept DEF ChooseModel, Connect, Disconnect, app
<1>2. view.page = "index" /\ view.info.data # None
  BY DEF ChooseModel, Connect, Disconnect, Connecting, OnCard, OnTab, OnIndex
<1>3. ConnectWaits(Waiting(calls), view.connect)
  BY <1>2, PanelsHere
<1> DEFINE ops == {"setEmbedding", "fields"}
<1>4. ASSUME NEW arg, calls' = Append(calls, Call("setEmbedding", arg)),
             {"embed", "panel", "picker"} \subseteq DOMAIN arg, arg.embed \in Models \cup {None},
             arg.picker = TRUE => arg.panel = TRUE /\ arg.embed # None
      PROVE  /\ Waiting(calls') = Waiting(calls) \cup {<<"setEmbedding", arg>>}
             /\ SameBut(Waiting(calls), Waiting(calls'), ops)
             /\ Asked(calls') /\ OfPage(Waiting(calls'), view)
  <2>1. "setEmbedding" \in Awaited /\ PageOf("setEmbedding") = "index"
    BY DEF Awaited, PageOf
  <2>2. AskedOk(Call("setEmbedding", arg))
    BY <1>4 DEF AskedOk, Call
  <2>3. /\ Waiting(calls') = Waiting(calls) \cup {<<"setEmbedding", arg>>}
        /\ SameBut(Waiting(calls), Waiting(calls'), {"setEmbedding"})
        /\ Asked(calls') /\ OfPage(Waiting(calls'), view)
    BY <1>2, <1>4, <2>1, <2>2, PanelSends
  <2> QED
    BY <2>3, SameMore
<1>5. CASE ChooseModel
  <2>1. PICK m \in Compatible : view' = [view EXCEPT !.connect.choice = m]
    BY <1>5 DEF ChooseModel
  <2>2. calls' = calls /\ m \in Models /\ view.connect # None
    BY <1>5 DEF ChooseModel, Compatible, Connecting
  <2> DEFINE e == [view.connect EXCEPT !.choice = m]
  <2>3. view' = [view EXCEPT !.connect = e]
    BY <2>1
  <2>4. view.connect \in ConnectState
    BY <1>3, <2>2 DEF ConnectWaits, Picked
  <2>5. e \in ConnectState /\ e.busy = view.connect.busy
    BY <2>2, <2>4 DEF ConnectState
  <2> HIDE DEF e
  <2>6. ConnectWaits(Waiting(calls'), e)
    BY <1>3, <2>2, <2>5, NoPickerAssumption DEF ConnectWaits, Picked
  <2>7. /\ SameBut(Waiting(calls), Waiting(calls'), ops) /\ Asked(calls')
        /\ OfPage(Waiting(calls'), view)
    BY <1>2, <2>2, InvParts, IndexParts DEF SameBut
  <2> QED
    BY <1>1, <1>2, <2>3, <2>6, <2>7, ConnectMoves
<1>6. CASE Connect
  <2> DEFINE arg == [embed |-> view.connect.choice, panel |-> TRUE, picker |-> TRUE]
             e == [view.connect EXCEPT !.busy = TRUE]
  <2>1. calls' = Append(calls, Call("setEmbedding", arg)) /\ view' = [view EXCEPT !.connect = e]
    BY <1>6 DEF Connect, Sent
  <2>2. view.connect \in ConnectState
    BY <1>3, <1>6 DEF Connect, Connecting, ConnectWaits, Picked
  <2>3. view.connect.choice \in Models
    BY <1>6 DEF Connect, ConnectControls, Compatible
  <2>4. e \in ConnectState
    BY <2>2 DEF ConnectState
  <2>5. /\ {"embed", "panel", "picker"} \subseteq DOMAIN arg /\ arg.picker = TRUE
        /\ arg.panel = TRUE /\ arg.embed \in Models \cup {None} /\ arg.embed # None
    BY <2>3, ModelsAssumption
  <2> HIDE DEF arg, e
  <2>6. /\ Waiting(calls') = Waiting(calls) \cup {<<"setEmbedding", arg>>}
        /\ SameBut(Waiting(calls), Waiting(calls'), ops)
        /\ Asked(calls') /\ OfPage(Waiting(calls'), view)
    BY <1>4, <2>1, <2>5
  <2>7. <<"setEmbedding", arg>>[1] = "setEmbedding" /\ <<"setEmbedding", arg>>[2] = arg
    OBVIOUS
  <2>8. e # None
    BY <2>4, NoPickerAssumption
  <2>9. \E a \in Waiting(calls') : a[1] = "setEmbedding" /\ a[2].picker = TRUE
    BY <2>5, <2>6, <2>7
  <2>10. ConnectWaits(Waiting(calls'), e)
    BY <2>4, <2>8, <2>9 DEF ConnectWaits, Picked
  <2> QED
    BY <1>1, <1>2, <2>1, <2>6, <2>10, ConnectMoves
<1>7. CASE Disconnect
  <2> DEFINE arg == [embed |-> None, panel |-> TRUE, picker |-> FALSE]
  <2>1. calls' = Append(calls, Call("setEmbedding", arg)) /\ view' = view
    BY <1>7 DEF Disconnect, Sent
  <2>2. {"embed", "panel", "picker"} \subseteq DOMAIN arg /\ arg.picker = FALSE /\ arg.embed = None
    OBVIOUS
  <2> HIDE DEF arg
  <2>3. /\ Waiting(calls') = Waiting(calls) \cup {<<"setEmbedding", arg>>}
        /\ SameBut(Waiting(calls), Waiting(calls'), ops)
        /\ Asked(calls') /\ OfPage(Waiting(calls'), view)
    BY <1>4, <2>1, <2>2
  <2>4. <<"setEmbedding", arg>>[1] = "setEmbedding"
    OBVIOUS
  <2>5. ConnectWaits(Waiting(calls'), view.connect)
    <3>1. <<"setEmbedding", arg>>[2] = arg
      OBVIOUS
    <3>2. Picked(Waiting(calls')) <=> Picked(Waiting(calls))
      BY <2>2, <2>3, <2>4, <3>1 DEF Picked
    <3>3. For(Waiting(calls'), {"fields"}) => For(Waiting(calls), {"fields"})
      BY <2>3, <2>4 DEF For
    <3> QED
      BY <1>3, <3>2, <3>3 DEF ConnectWaits
  <2>7. /\ view'.page = view.page /\ view'.route = view.route /\ view'.info = view.info
        /\ DOMAIN view' = DOMAIN view /\ view'.browse = view.browse /\ view'.query = view.query
        /\ view'.upsert = view.upsert /\ view'.seed = view.seed
        /\ view'.settings = view.settings /\ view'.connect = view.connect /\ view'.map = view.map
    BY <2>1
  <2>8. /\ {"list", "metadata"} \cap ops = {} /\ "query" \notin ops /\ "upsert" \notin ops
        /\ "configure" \notin ops /\ {"map", "neighbours"} \cap ops = {}
    OBVIOUS
  <2> HIDE DEF ops
  <2> QED
    BY <1>1, <1>2, <2>3, <2>5, <2>7, <2>8, IndexMoves
<1> QED
  BY <1>5, <1>6, <1>7

LEMMA PickerOpened == ASSUME Inv, ChangeModel PROVE WaitInv'
<1> DEFINE s == [view.settings EXCEPT !.editing = TRUE]
           v == [view EXCEPT !.settings = s]
<1>1. /\ view' = WithPicker(v, calls).view /\ calls' = WithPicker(v, calls).calls
      /\ server' = server /\ me' = me
  BY DEF ChangeModel
<1>2. view.page = "index" /\ view.info.data # None
  BY DEF ChangeModel, OnCard, OnTab, OnIndex
<1>3. /\ Panels(view, calls) /\ ConnectWaits(Waiting(calls), view.connect)
      /\ MapWaits(Waiting(calls), view) /\ KeepsServer
  BY <1>1, <1>2, PanelsHere, InvParts, ServerKept
<1>4. /\ DOMAIN v = DOMAIN view /\ v.page = view.page /\ v.route = view.route
      /\ v.info = view.info /\ v.browse = view.browse /\ v.query = view.query
      /\ v.upsert = view.upsert /\ v.seed = view.seed /\ v.settings = s
      /\ v.connect = view.connect /\ v.map = view.map
  BY <1>3 DEF Panels
<1>5. SettingsWaits(Waiting(calls), view.settings)
  BY <1>2, <1>3 DEF Panels, PanelsWait
<1>6. /\ DOMAIN s = DOMAIN view.settings
      /\ {"ef", "saving"} \subseteq DOMAIN view.settings
           => s.ef = view.settings.ef /\ s.saving = view.settings.saving
  OBVIOUS
<1> HIDE DEF s, v
<1>7. SettingsWaits(Waiting(calls), s)
  BY <1>5, <1>6 DEF SettingsWaits
<1> DEFINE ops == {}
<1>8. /\ SameBut(Waiting(calls), Waiting(calls), ops) /\ {"list", "metadata"} \cap ops = {}
      /\ "query" \notin ops /\ "upsert" \notin ops /\ {"map", "neighbours"} \cap ops = {}
  BY DEF SameBut
<1> HIDE DEF ops
<1>9. Panels(v, calls)
  <2>1. CallsOk(calls, server.written) /\ Asked(calls) /\ OfPage(Waiting(calls), view)
    BY <1>3 DEF Panels
  <2> QED
    BY <1>3, <1>4, <1>7, <1>8, <2>1, PanelsMove
<1>10. MapWaits(Waiting(calls), v)
  BY <1>3, <1>4, <1>8, MapStill
<1>11. /\ Panels(view', calls') /\ ConnectWaits(Waiting(calls'), view'.connect)
       /\ MapWaits(Waiting(calls'), view') /\ view'.route = view.route
  BY <1>1, <1>2, <1>3, <1>4, <1>9, <1>10, PickerWaits
<1> QED
  BY <1>1, <1>2, <1>3, <1>11, PanelsStep

LEMMA FieldsWaited == ASSUME Inv, ServeFields \/ FieldsLoaded PROVE WaitInv'
<1>1. server' = server /\ me' = me /\ KeepsServer
  BY InvParts, ServerKept DEF ServeFields, FieldsLoaded, app
<1>2. CASE ServeFields
  <2>1. "fields" \notin Answered /\ view' = view
    BY <1>2 DEF ServeFields, Answered
  <2> QED
    BY <1>1, <1>2, <2>1, AnsweredQuiet DEF ServeFields
<1>3. CASE FieldsLoaded
  <2>1. PICK i \in Arrived("fields") :
          /\ view' = IF calls[i].live THEN [view EXCEPT !.connect.fields = TRUE] ELSE view
          /\ calls' = Without(i)
    BY <1>3 DEF FieldsLoaded
  <2>2. i \in DOMAIN calls /\ calls[i].op = "fields"
    BY ArrivedCall
  <2>3. CASE ~calls[i].live
    BY <1>1, <2>1, <2>2, <2>3, SameAlike, DeliveredQuiet DEF Waits
  <2>4. CASE calls[i].live
    <3>1. "fields" \in Awaited /\ PageOf("fields") = "index"
      BY DEF Awaited, PageOf
    <3>2. Waits(calls[i]) /\ view.page = "index" /\ Pair(calls[i]) \in Waiting(calls)
      BY <2>2, <2>4, <3>1, AwaitedWaits DEF Waits
    <3>3. <<"fields", calls[i].arg>> \in Waiting(calls)
          /\ Waiting(calls) = Waiting(Without(i)) \cup {<<"fields", calls[i].arg>>}
          /\ <<"fields", calls[i].arg>>[1] = "fields"
      BY <2>2, <3>2, WithoutWaits DEF Pair
    <3>4. For(Waiting(calls), {"fields"})
      BY <3>3 DEF For
    <3>5. ConnectWaits(Waiting(calls), view.connect)
      BY <3>2, PanelsHere
    <3>6. view.connect \in ConnectState
      BY <3>4, <3>5 DEF ConnectWaits, Picked
    <3> DEFINE e == [view.connect EXCEPT !.fields = TRUE]
    <3>7. view' = [view EXCEPT !.connect = e]
      BY <2>1, <2>4
    <3>8. e \in ConnectState /\ e.busy = view.connect.busy
      BY <3>6 DEF ConnectState
    <3> HIDE DEF e
    <3>9. e # None /\ view.connect # None
      BY <3>6, <3>8, NoPickerAssumption
    <3>10. view.connect.busy => \E a \in Waiting(Without(i)) : a[1] = "setEmbedding" /\ a[2].picker = TRUE
      BY <3>3, <3>5, <3>9 DEF ConnectWaits, Picked
    <3>11. ConnectWaits(Waiting(Without(i)), e)
      BY <3>8, <3>9, <3>10 DEF ConnectWaits, Picked
    <3>12. CallsOk(<<>>, server.written) /\ Asked(<<>>) /\ Waiting(<<>>) = {}
      BY CallsEmpty, WaitingOne
    <3>13. /\ SameBut(Waiting(calls), Waiting(Without(i)), {"fields"})
           /\ Asked(Without(i)) /\ OfPage(Waiting(Without(i)), view)
      BY <2>2, <3>2, <3>12, OneLess
    <3>14. SameBut(Waiting(calls), Waiting(Without(i)), {"setEmbedding", "fields"})
      BY <3>13, SameMore
    <3>15. calls' = Without(i)
      BY <2>1
    <3> HIDE DEF Without
    <3> QED
      BY <1>1, <3>2, <3>7, <3>11, <3>13, <3>14, <3>15, ConnectMoves
  <2> QED
    BY <2>3, <2>4
<1> QED
  BY <1>2, <1>3

LEMMA ConnectWaited == ASSUME Inv, ConnectNext PROVE WaitInv'
BY ConnectClicked, PickerOpened, FieldsWaited DEF ConnectNext

---------------------------------------------------------------------------
(* The map                                                                 *)

\* Calls of the kinds ops that are no longer heard
LEMMA OrphanWaits ==
  ASSUME CallsOk(calls, server.written), Asked(calls), NEW ops, NEW from,
         \A i \in DOMAIN calls : from[i] <=> calls[i].op \in ops
  PROVE  /\ SameBut(Waiting(calls), Waiting(Orphan(from)), ops)
         /\ \A a \in Waiting(Orphan(from)) : a[1] \notin ops
         /\ Asked(Orphan(from))
         /\ \A v : OfPage(Waiting(calls), v) => OfPage(Waiting(Orphan(from)), v)
<1> DEFINE ds == Orphan(from)
<1>1. DOMAIN ds = DOMAIN calls
  BY DEF Orphan
<1>2. ASSUME NEW i \in DOMAIN calls
      PROVE  /\ ds[i].op = calls[i].op /\ (ds[i].live => calls[i].live)
             /\ calls[i].op \notin ops => /\ ds[i].arg = calls[i].arg
                                          /\ calls[i].live => ds[i].live
             /\ calls[i].op \in ops => ~ds[i].live
             /\ AskedOk(ds[i])
  <2>1. IsCall(calls[i]) /\ AskedOk(calls[i])
    BY CallsElement DEF CallOk, Asked
  <2> DEFINE x == calls[i].live /\ ~from[i]
  <2>2. ds[i] = [calls[i] EXCEPT !.live = x]
    BY DEF Orphan
  <2>3. ds[i] = [op |-> calls[i].op, arg |-> calls[i].arg, live |-> x, st |-> calls[i].st,
                 reply |-> calls[i].reply]
    BY <2>1, <2>2, CallMade
  <2> HIDE DEF ds
  <2>4. AskedOk(ds[i])
    BY <2>1, <2>3, AskedAlike
  <2>5. ds[i].op = calls[i].op /\ ds[i].arg = calls[i].arg /\ ds[i].live = x
    BY <2>3
  <2>6. /\ x => calls[i].live /\ calls[i].op \notin ops
        /\ calls[i].live /\ calls[i].op \notin ops => x
    OBVIOUS
  <2> HIDE DEF x
  <2> QED
    BY <2>4, <2>5, <2>6
<1> HIDE DEF ds
<1>3. /\ SameBut(Waiting(calls), Waiting(ds), ops)
      /\ \A v : OfPage(Waiting(calls), v) => OfPage(Waiting(ds), v)
  BY <1>1, <1>2, ChangedWaits
<1>4. ASSUME NEW a \in Waiting(ds) PROVE a[1] \notin ops
  <2>1. PICK i \in DOMAIN ds : ds[i].live /\ a = <<ds[i].op, ds[i].arg>>
    BY DEF Waiting
  <2> QED
    BY <1>1, <1>2, <2>1
<1>5. Asked(ds)
  BY <1>1, <1>2 DEF Asked
<1> QED
  BY <1>3, <1>4, <1>5 DEF ds

Loading(W) == \E a \in W : a[1] = "map"
LEMMA MapMade ==
  ASSUME NEW W, NEW v, v.info.data # None, v.route.tab = "explore"
  PROVE  MapWaits(W, v) <=>
           /\ {"at", "data", "error"} \subseteq DOMAIN v.map
           /\ \A a \in W : a[1] = "map" => a[2] = v.map.at
           /\ v.map.data = None \/ v.map.error \/ Loading(W) \/ v.map.data.at = v.map.at
<1>1. {a \in W : a[1] = "map"} # {} <=> Loading(W)
  BY DEF Loading
<1> QED
  BY <1>1 DEF MapWaits

\* What changes neither the choices of the map nor its data
LEMMA MapKept ==
  ASSUME Inv, view.page = "index", view.info.data # None, view.route.tab = "explore",
         NEW e, view' = [view EXCEPT !.map = e], DOMAIN e = DOMAIN view.map,
         {"at", "data", "error"} \subseteq DOMAIN view.map =>
             e.at = view.map.at /\ e.data = view.map.data /\ e.error = view.map.error,
         SameBut(Waiting(calls), Waiting(calls'), {"neighbours"}),
         Asked(calls'), OfPage(Waiting(calls'), view), KeepsServer, me' = me
  PROVE  WaitInv'
<1>1. MapWaits(Waiting(calls), view) /\ {"page", "route", "info", "map"} \subseteq DOMAIN view
  BY PanelsHere, IndexParts
<1>2. /\ {"at", "data", "error"} \subseteq DOMAIN view.map
      /\ \A a \in Waiting(calls) : a[1] = "map" => a[2] = view.map.at
      /\ \/ view.map.data = None \/ view.map.error \/ Loading(Waiting(calls))
         \/ view.map.data.at = view.map.at
  BY <1>1, MapMade
<1>3. view'.info = view.info /\ view'.route = view.route /\ view'.map = e
  BY <1>1
<1>4. Loading(Waiting(calls)) => Loading(Waiting(calls'))
  BY DEF SameBut, Loading
<1>5. \A a \in Waiting(calls') : a[1] = "map" => a[2] = e.at
  BY <1>2 DEF SameBut
<1>6. MapWaits(Waiting(calls'), view')
  <2>1. view'.info.data # None /\ view'.route.tab = "explore"
    BY <1>3
  <2>2. /\ {"at", "data", "error"} \subseteq DOMAIN e
        /\ e.data = None \/ e.error \/ Loading(Waiting(calls')) \/ e.data.at = e.at
    BY <1>2, <1>4
  <2> QED
    BY <1>3, <1>5, <2>1, <2>2, MapMade
<1>7. SameBut(Waiting(calls), Waiting(calls'), {"map", "neighbours"})
  BY SameMore
<1> QED
  BY <1>6, <1>7, MapMoves

LEMMA MapClicked == ASSUME Inv, MapClicks PROVE WaitInv'
<1>1. server' = server /\ me' = me /\ KeepsServer
  BY InvParts, ServerKept
     DEF MapClicks, ChooseMap, SelectPoint, ClearPoint, IsolateGroup, OpenInQuery, app
<1>2. view.page = "index" /\ view.info.data # None /\ view.route.tab = "explore"
  BY DEF MapClicks, Exploring, OnTab, OnIndex
<1>3. MapWaits(Waiting(calls), view) /\ {"page", "route", "info", "map"} \subseteq DOMAIN view
  BY <1>2, PanelsHere, IndexParts
<1>4. {"at", "data", "error"} \subseteq DOMAIN view.map
  BY <1>2, <1>3, MapMade
<1>5. CASE ChooseMap
  <2>1. PICK p : /\ view' = [view EXCEPT !.map = [MapEffect(@) EXCEPT !.at = p]]
                 /\ calls' = Append(Cancelled, MapCall(p))
    BY <1>5 DEF ChooseMap
  <2> DEFINE e == [MapEffect(view.map) EXCEPT !.at = p]
  <2>2. view' = [view EXCEPT !.map = e]
    BY <2>1
  <2>3. {"at", "data", "error"} \subseteq DOMAIN e /\ e.at = p
    BY <1>4 DEF MapEffect
  <2> HIDE DEF e
  <2> DEFINE from == [i \in DOMAIN calls |-> calls[i].op = "map"]
             ops == {"map"}
  <2>4. Cancelled = Orphan(from) /\ \A i \in DOMAIN calls : from[i] <=> calls[i].op \in ops
    BY DEF Cancelled
  <2>5. CallsOk(calls, server.written) /\ Asked(calls) /\ OfPage(Waiting(calls), view)
    BY <1>2, InvParts, IndexParts
  <2> HIDE DEF from, ops
  <2>6. /\ SameBut(Waiting(calls), Waiting(Cancelled), ops)
        /\ \A a \in Waiting(Cancelled) : a[1] \notin ops
        /\ Asked(Cancelled) /\ OfPage(Waiting(Cancelled), view)
    BY <2>4, <2>5, OrphanWaits
  <2>7. CallsOk(Cancelled, server.written)
    BY <2>4, <2>5, CallsOrphan
  <2>8. "map" \in Awaited /\ PageOf("map") = "index"
    BY DEF Awaited, PageOf
  <2>9. Waits(MapCall(p)) /\ Pair(MapCall(p)) = <<"map", p>> /\ AskedOk(MapCall(p))
    BY <2>8 DEF MapCall, Call, Waits, Pair, AskedOk
  <2>10. Waiting(calls') = Waiting(Cancelled) \cup {<<"map", p>>} /\ Asked(calls')
    BY <2>1, <2>6, <2>7, <2>9, WaitingAppend
  <2>11. <<"map", p>>[1] = "map" /\ <<"map", p>>[2] = p
    OBVIOUS
  <2>12. OfPage(Waiting(calls'), view)
    BY <1>2, <2>6, <2>8, <2>10, <2>11 DEF OfPage
  <2>13. SameBut(Waiting(calls), Waiting(calls'), {"map", "neighbours"})
    BY <2>6, <2>10, <2>11 DEF SameBut, ops
  <2>14. /\ Loading(Waiting(calls'))
         /\ \A a \in Waiting(calls') : a[1] = "map" => a[2] = e.at
    BY <2>3, <2>6, <2>10, <2>11 DEF Loading, ops
  <2>15. view'.info = view.info /\ view'.route = view.route /\ view'.map = e
    BY <1>3, <2>2
  <2>16. MapWaits(Waiting(calls'), view')
    BY <1>2, <2>3, <2>14, <2>15, MapMade
  <2> QED
    BY <1>1, <1>2, <2>2, <2>10, <2>12, <2>13, <2>16, MapMoves
<1>6. CASE SelectPoint
  <2>1. PICK n, arg : /\ view' = [view EXCEPT !.map.selected = n, !.map.neighbours = None]
                      /\ calls' = Append(calls, Call("neighbours", arg))
    BY <1>6 DEF SelectPoint, Sent
  <2> DEFINE e == [[view.map EXCEPT !.selected = n] EXCEPT !.neighbours = None]
  <2>2. view' = [view EXCEPT !.map = e]
    BY <2>1
  <2>3. DOMAIN e = DOMAIN view.map /\ e.at = view.map.at /\ e.data = view.map.data
        /\ e.error = view.map.error
    BY <1>4
  <2> HIDE DEF e
  <2>4. "neighbours" \in Awaited /\ "neighbours" \notin Checked /\ PageOf("neighbours") = "index"
    BY DEF Awaited, Checked, PageOf
  <2>5. /\ SameBut(Waiting(calls), Waiting(calls'), {"neighbours"})
        /\ Asked(calls') /\ OfPage(Waiting(calls'), view)
    BY <1>2, <2>1, <2>4, NewAsked, PanelSends
  <2> QED
    BY <1>1, <1>2, <2>2, <2>3, <2>5, MapKept
<1>7. CASE ClearPoint \/ IsolateGroup
  <2>1. PICK e : /\ view' = [view EXCEPT !.map = e] /\ DOMAIN e = DOMAIN view.map
                 /\ e.at = view.map.at /\ e.data = view.map.data /\ e.error = view.map.error
    <3>1. CASE ClearPoint
      <4> DEFINE e == [[view.map EXCEPT !.selected = None] EXCEPT !.neighbours = None]
      <4>1. view' = [view EXCEPT !.map = e]
        BY <3>1 DEF ClearPoint
      <4>2. DOMAIN e = DOMAIN view.map /\ e.at = view.map.at /\ e.data = view.map.data
            /\ e.error = view.map.error
        BY <1>4
      <4> HIDE DEF e
      <4> QED
        BY <4>1, <4>2
    <3>2. CASE IsolateGroup
      <4> DEFINE e == [view.map EXCEPT !.isolated = ~@]
      <4>1. view' = [view EXCEPT !.map = e]
        BY <3>2 DEF IsolateGroup
      <4>2. DOMAIN e = DOMAIN view.map /\ e.at = view.map.at /\ e.data = view.map.data
            /\ e.error = view.map.error
        BY <1>4
      <4> HIDE DEF e
      <4> QED
        BY <4>1, <4>2
    <3> QED
      BY <1>7, <3>1, <3>2
  <2>2. calls' = calls
    BY <1>7 DEF ClearPoint, IsolateGroup
  <2>3. /\ SameBut(Waiting(calls), Waiting(calls'), {"neighbours"}) /\ Asked(calls')
        /\ OfPage(Waiting(calls'), view)
    BY <1>2, <2>2, InvParts, IndexParts DEF SameBut
  <2> QED
    BY <1>1, <1>2, <2>1, <2>3, MapKept
<1>8. CASE OpenInQuery
  <2>1. view' = view /\ calls' = calls
    BY <1>8 DEF OpenInQuery
  <2> QED
    BY <1>1, <2>1, SameAlike, StillQuiet
<1> QED
  BY <1>5, <1>6, <1>7, <1>8 DEF MapClicks

LEMMA MapServed == ASSUME Inv, ServeMap \/ ServeNeighbours PROVE WaitInv'
<1>1. server' = server /\ me' = me /\ KeepsServer /\ view' = view
  BY InvParts, ServerKept DEF ServeMap, ServeNeighbours, app
<1>2. CASE ServeMap
  <2>0. PICK i \in Pending("map") : \E points : Answer(i, [at |-> calls[i].arg, points |-> points])
    BY <1>2 DEF ServeMap
  <2>1. PICK points : Answer(i, [at |-> calls[i].arg, points |-> points])
    BY <2>0
  <2> DEFINE reply == [at |-> calls[i].arg, points |-> points]
  <2>2. i \in DOMAIN calls /\ calls[i].op = "map" /\ Answer(i, reply)
    BY <2>1, PendingCall
  <2>3. reply.at = calls[i].arg
    OBVIOUS
  <2> HIDE DEF reply
  <2>4. AskedOk(Become(calls[i], "answered", reply))
    BY <2>2, <2>3 DEF AskedOk, Become
  <2>5. KeepsCalls
    BY <2>2, <2>4, AnsweredWell
  <2> QED
    BY <1>1, <2>5, SameAlike, QuietStep
<1>3. CASE ServeNeighbours
  <2>1. PICK i \in Pending("neighbours") :
          (\E r : Answer(i, r)) \/ calls' = [calls EXCEPT ![i].st = "failed"]
    BY <1>3 DEF ServeNeighbours
  <2>2. "neighbours" \notin Answered
    BY DEF Answered
  <2> QED
    BY <1>1, <2>1, <2>2, PendingCall, AnsweredQuiet, FailedQuiet
<1> QED
  BY <1>2, <1>3

LEMMA MapHeard == ASSUME Inv, MapLoaded \/ NeighboursLoaded PROVE WaitInv'
<1>1. server' = server /\ me' = me /\ KeepsServer
  BY InvParts, ServerKept DEF MapLoaded, NeighboursLoaded, app
<1>2. PICK i \in Arrived("map") \cup Arrived("neighbours") :
        /\ calls' = Without(i)
        /\ ~calls[i].live => view' = view
        /\ calls[i].live => \/ view' = [view EXCEPT !.map.error = TRUE]
                            \/ /\ calls[i].op = "map" /\ Ok(i)
                               /\ view' = [view EXCEPT !.map.data = calls[i].reply]
                            \/ /\ calls[i].op = "neighbours"
                               /\ \E x : view' = [view EXCEPT !.map.neighbours = x]
  <2>1. CASE MapLoaded
    <3>1. PICK i \in Arrived("map") :
            /\ view' = IF ~calls[i].live THEN view
                       ELSE IF Ok(i) THEN [view EXCEPT !.map.data = calls[i].reply]
                       ELSE [view EXCEPT !.map.error = TRUE]
            /\ calls' = Without(i)
      BY <2>1 DEF MapLoaded
    <3>2. calls[i].op = "map"
      BY ArrivedCall
    <3> QED
      BY <3>1, <3>2
  <2>2. CASE NeighboursLoaded
    <3>1. PICK i \in Arrived("neighbours") :
            /\ view' = IF ~calls[i].live THEN view
                       ELSE IF Ok(i) THEN [view EXCEPT !.map.neighbours = calls[i].reply]
                       ELSE [view EXCEPT !.map.error = TRUE]
            /\ calls' = Without(i)
      BY <2>2 DEF NeighboursLoaded
    <3>2. calls[i].op = "neighbours"
      BY ArrivedCall
    <3> QED
      BY <3>1, <3>2
  <2> QED
    BY <2>1, <2>2
<1>3. i \in DOMAIN calls /\ calls[i].op \in {"map", "neighbours"}
  BY ArrivedCall
<1>4. CASE ~calls[i].live
  BY <1>1, <1>2, <1>3, <1>4, SameAlike, DeliveredQuiet DEF Waits
<1>5. CASE calls[i].live
  <2>1. /\ {"map", "neighbours"} \subseteq Awaited
        /\ PageOf("map") = "index" /\ PageOf("neighbours") = "index"
    BY DEF Awaited, PageOf
  <2> DEFINE arg == calls[i].arg
             op == calls[i].op
             W == Waiting(calls)
             X == Waiting(Without(i))
  <2>2. Waits(calls[i]) /\ view.page = "index"
    BY <1>3, <1>5, <2>1, AwaitedWaits DEF Waits
  <2>3. W = X \cup {<<op, arg>>} /\ <<op, arg>>[1] = op /\ <<op, arg>>[2] = arg
    BY <1>3, <2>2, WithoutWaits DEF Pair
  <2>4. MapWaits(W, view) /\ {"page", "route", "info", "map"} \subseteq DOMAIN view
    BY <2>2, PanelsHere, IndexParts
  <2>5. CallsOk(<<>>, server.written) /\ Asked(<<>>) /\ Waiting(<<>>) = {}
    BY CallsEmpty, WaitingOne
  <2>6. SameBut(W, X, {op}) /\ Asked(Without(i)) /\ OfPage(X, view)
    BY <1>3, <2>2, <2>5, OneLess
  <2> HIDE DEF arg, op, W, X
  <2>7. op \in {"map", "neighbours"}
    BY <1>3 DEF op
  <2>8. For(W, {"map", "neighbours"})
    BY <2>3, <2>7 DEF For
  <2>9. view.info.data # None /\ view.route.tab = "explore"
    BY <2>4, <2>8 DEF MapWaits
  <2>10. /\ {"at", "data", "error"} \subseteq DOMAIN view.map
         /\ \A a \in W : a[1] = "map" => a[2] = view.map.at
         /\ view.map.data = None \/ view.map.error \/ Loading(W) \/ view.map.data.at = view.map.at
    BY <2>4, <2>9, MapMade
  <2>11. ASSUME NEW e, view' = [view EXCEPT !.map = e], {"at", "data", "error"} \subseteq DOMAIN e,
                e.at = view.map.at, e.data = None \/ e.error \/ Loading(X) \/ e.data.at = e.at
         PROVE  WaitInv'
    <3>1. view'.info = view.info /\ view'.route = view.route /\ view'.map = e
      BY <2>4, <2>11
    <3>2. \A a \in X : a[1] = "map" => a[2] = e.at
      BY <2>3, <2>10, <2>11
    <3>3. MapWaits(X, view')
      BY <2>9, <2>11, <3>1, <3>2, MapMade
    <3>4. SameBut(W, X, {"map", "neighbours"})
      BY <2>6, <2>7, SameMore
    <3>5. /\ SameBut(Waiting(calls), Waiting(calls'), {"map", "neighbours"})
          /\ MapWaits(Waiting(calls'), view') /\ Asked(calls') /\ OfPage(Waiting(calls'), view)
      BY <1>2, <2>6, <3>3, <3>4 DEF W, X
    <3> QED
      BY <1>1, <2>2, <2>11, <3>5, MapMoves
  <2>12. CASE view' = [view EXCEPT !.map.error = TRUE]
    <3> DEFINE e == [view.map EXCEPT !.error = TRUE]
    <3>1. view' = [view EXCEPT !.map = e]
      BY <2>12
    <3>2. {"at", "data", "error"} \subseteq DOMAIN e /\ e.at = view.map.at /\ e.error = TRUE
      BY <2>10
    <3> HIDE DEF e
    <3> QED
      BY <2>11, <3>1, <3>2
  <2>13. CASE op = "map" /\ Ok(i) /\ view' = [view EXCEPT !.map.data = calls[i].reply]
    <3> DEFINE e == [view.map EXCEPT !.data = calls[i].reply]
    <3>1. view' = [view EXCEPT !.map = e]
      BY <2>13
    <3>2. {"at", "data", "error"} \subseteq DOMAIN e /\ e.at = view.map.at /\ e.data = calls[i].reply
      BY <2>10
    <3> HIDE DEF e
    <3>3. calls[i].reply.at = arg
      BY <1>3, <2>13, InvParts DEF Asked, AskedOk, Ok, op, arg
    <3>4. arg = view.map.at
      BY <2>3, <2>10, <2>13
    <3> QED
      BY <2>11, <3>1, <3>2, <3>3, <3>4
  <2>14. ASSUME op = "neighbours", NEW x, view' = [view EXCEPT !.map.neighbours = x]
         PROVE  WaitInv'
    <3> DEFINE e == [view.map EXCEPT !.neighbours = x]
    <3>1. view' = [view EXCEPT !.map = e]
      BY <2>14
    <3>2. /\ {"at", "data", "error"} \subseteq DOMAIN e /\ e.at = view.map.at
          /\ e.data = view.map.data /\ e.error = view.map.error
      BY <2>10
    <3> HIDE DEF e
    <3>3. Loading(W) => Loading(X)
      BY <2>3, <2>14 DEF Loading
    <3> QED
      BY <2>10, <2>11, <3>1, <3>2, <3>3
  <2> QED
    BY <1>2, <1>5, <2>12, <2>13, <2>14 DEF op
<1> QED
  BY <1>4, <1>5

LEMMA MapWaited == ASSUME Inv, MapNext PROVE WaitInv'
BY MapClicked, MapServed, MapHeard DEF MapNext

---------------------------------------------------------------------------
(* The index page: a tab that comes on screen                              *)

LEMMA MoreWaits ==
  ASSUME NEW cs, CallsOk(cs, server.written), Asked(cs), NEW v, OfPage(Waiting(cs), v),
         NEW op \in Awaited, PageOf(op) = v.page, NEW arg, AskedOk(Call(op, arg))
  PROVE  LET ds == Append(cs, Call(op, arg)) IN
         /\ Waiting(ds) = Waiting(cs) \cup {<<op, arg>>} /\ Asked(ds)
         /\ SameBut(Waiting(cs), Waiting(ds), {op}) /\ OfPage(Waiting(ds), v)
<1> DEFINE ds == Append(cs, Call(op, arg))
<1>1. Waits(Call(op, arg)) /\ Pair(Call(op, arg)) = <<op, arg>>
  BY NewAsked
<1>2. Waiting(ds) = Waiting(cs) \cup {<<op, arg>>} /\ Asked(ds)
  BY <1>1, WaitingAppend
<1> HIDE DEF ds
<1>3. <<op, arg>>[1] = op
  OBVIOUS
<1>4. SameBut(Waiting(cs), Waiting(ds), {op})
  BY <1>2, <1>3 DEF SameBut
<1>5. OfPage(Waiting(ds), v)
  BY <1>2, <1>3 DEF OfPage
<1> QED
  BY <1>2, <1>4, <1>5 DEF ds

\* Browse and Query await what they ask for when they come on screen, and
\* Explore mounts a map that loads
LEMMA ActivateWaits ==
  ASSUME NEW v, NEW cs, Panels(v, cs), v.info.data # None,
         v.route.tab # "explore" => MapWaits(Waiting(cs), v),
         v.route.tab = "explore" => ~For(Waiting(cs), {"map", "neighbours"})
  PROVE  LET u == Activate(v, cs).view
             ds == Activate(v, cs).calls IN
         /\ Panels(u, ds) /\ MapWaits(Waiting(ds), u)
         /\ ConnectWaits(Waiting(cs), v.connect) => ConnectWaits(Waiting(ds), u.connect)
         /\ u.route = v.route /\ u.info = v.info
         /\ u.connect = v.connect /\ u.settings = v.settings
<1> DEFINE u == Activate(v, cs).view
           ds == Activate(v, cs).calls
<1>1. /\ CallsOk(cs, server.written) /\ Asked(cs) /\ OfPage(Waiting(cs), v)
      /\ {"page", "route", "info", "browse", "query", "upsert", "seed", "settings", "connect",
          "map", "models"} \subseteq DOMAIN v
      /\ v.page = "index" /\ PanelsWait(Waiting(cs), v)
  BY DEF Panels
<1>2. CallsOk(ds, server.written)
  BY <1>1, ActivatedCalls
<1>3. /\ "list" \in Awaited /\ "query" \in Awaited /\ "map" \in Awaited
      /\ PageOf("list") = v.page /\ PageOf("query") = v.page /\ PageOf("map") = v.page
  BY <1>1 DEF Awaited, PageOf
<1>4. ASSUME NEW ops, ops = {"list"} \/ ops = {"query"} \/ ops = {},
             SameBut(Waiting(cs), Waiting(ds), ops), Asked(ds), OfPage(Waiting(ds), v),
             DOMAIN u = DOMAIN v, u.page = v.page, u.info = v.info, u.route = v.route,
             u.upsert = v.upsert, u.seed = v.seed, u.settings = v.settings,
             u.connect = v.connect, u.map = v.map, v.route.tab # "explore",
             (u.browse = v.browse /\ ops # {"list"}) \/ BrowseWaits(Waiting(ds), u.browse),
             (u.query = v.query /\ ops # {"query"}) \/ QueryWaits(Waiting(ds), u.query)
      PROVE  /\ Panels(u, ds) /\ MapWaits(Waiting(ds), u)
             /\ ConnectWaits(Waiting(cs), v.connect) => ConnectWaits(Waiting(ds), u.connect)
  <2>1. /\ "upsert" \notin ops /\ "configure" \notin ops /\ {"setEmbedding", "fields"} \cap ops = {}
        /\ {"map", "neighbours"} \cap ops = {}
        /\ ops # {"list"} => {"list", "metadata"} \cap ops = {}
        /\ ops # {"query"} => "query" \notin ops
    BY <1>4
  <2> HIDE DEF u, ds
  <2>2. Panels(u, ds)
    BY <1>2, <1>4, <2>1, PanelsMove
  <2>3. ConnectWaits(Waiting(cs), v.connect) => ConnectWaits(Waiting(ds), u.connect)
    BY <1>4, <2>1, PanelsSame
  <2>4. v.info.data = None <=> u.info.data = None
    BY <1>4
  <2>5. MapWaits(Waiting(ds), u)
    BY <1>4, <2>1, <2>4, MapStill
  <2> QED
    BY <2>2, <2>3, <2>5
<1>5. CASE v.route.tab = "browse"
  <2> DEFINE b == BrowseEffect(v.browse)
             arg == [at |-> v.browse.at, token |-> None]
  <2>1. u = [v EXCEPT !.browse = b] /\ ds = Append(cs, Call("list", arg))
    BY <1>5 DEF Activate, Load
  <2>2. AskedOk(Call("list", arg))
    BY NewAsked DEF Checked
  <2> HIDE DEF arg
  <2>3. "loading" \in DOMAIN v.browse
    BY <1>1 DEF PanelsWait, BrowseWaits
  <2>4. "loading" \in DOMAIN b
    BY <2>3 DEF BrowseEffect
  <2> HIDE DEF b
  <2>5. /\ DOMAIN u = DOMAIN v /\ u.page = v.page /\ u.info = v.info /\ u.route = v.route
        /\ u.upsert = v.upsert /\ u.seed = v.seed /\ u.settings = v.settings
        /\ u.connect = v.connect /\ u.map = v.map /\ u.query = v.query /\ u.browse = b
    BY <1>1, <2>1
  <2>6. /\ Waiting(ds) = Waiting(cs) \cup {<<"list", arg>>} /\ Asked(ds)
        /\ SameBut(Waiting(cs), Waiting(ds), {"list"}) /\ OfPage(Waiting(ds), v)
    <3>1. LET es == Append(cs, Call("list", arg)) IN
        /\ Waiting(es) = Waiting(cs) \cup {<<"list", arg>>} /\ Asked(es)
        /\ SameBut(Waiting(cs), Waiting(es), {"list"}) /\ OfPage(Waiting(es), v)
      BY <1>1, <1>3, <2>2, MoreWaits
    <3> QED
      BY <2>1, <3>1
  <2>7. <<"list", arg>>[1] = "list"
    OBVIOUS
  <2> HIDE DEF u, ds
  <2>8. BrowseWaits(Waiting(ds), u.browse)
    BY <2>4, <2>5, <2>6, <2>7 DEF BrowseWaits, For
  <2>9. {"list"} # {"query"} /\ v.route.tab # "explore"
    BY <1>5
  <2> QED
    BY <1>4, <2>5, <2>6, <2>8, <2>9 DEF u, ds
<1>6. CASE v.route.tab = "query" /\ v.route.like # None
  <2> DEFINE q == QueryEffect(v.query, v.route.like)
             arg == Body("id", v.route.like.id, v.route.like.ns)
  <2>1. /\ u = [v EXCEPT !.query = q]
        /\ ds = cs \o QueryEffectCalls(v.query, v.route.like)
    BY <1>6 DEF Activate
  <2>2. AskedOk(Call("query", arg))
    BY NewAsked DEF Checked
  <2> DEFINE busy == v.query.busy \/ v.query.filter
  <2>3. QueryWaits(Waiting(cs), v.query)
    BY <1>1 DEF PanelsWait
  <2>4. "busy" \in DOMAIN q /\ q.busy = busy
    BY <2>3 DEF QueryEffect, QueryWaits
  <2>5. busy => v.query.busy \/ v.query.filter
    OBVIOUS
  <2>6. /\ v.query.filter => ds = cs \o <<Call("query", arg)>>
        /\ ~v.query.filter => ds = cs \o <<>>
    BY <2>1 DEF QueryEffectCalls
  <2> HIDE DEF q, arg, busy
  <2>7. /\ DOMAIN u = DOMAIN v /\ u.page = v.page /\ u.info = v.info /\ u.route = v.route
        /\ u.upsert = v.upsert /\ u.seed = v.seed /\ u.settings = v.settings
        /\ u.connect = v.connect /\ u.map = v.map /\ u.browse = v.browse /\ u.query = q
    BY <1>1, <2>1
  <2> HIDE DEF u, ds
  <2>8. v.route.tab # "explore"
    BY <1>6
  <2>9. CASE v.query.filter
    <3>1. ds = Append(cs, Call("query", arg))
      BY <1>1, <2>6, <2>9 DEF CallsOk
    <3>2. /\ Waiting(ds) = Waiting(cs) \cup {<<"query", arg>>} /\ Asked(ds)
          /\ SameBut(Waiting(cs), Waiting(ds), {"query"}) /\ OfPage(Waiting(ds), v)
      <4>1. LET es == Append(cs, Call("query", arg)) IN
          /\ Waiting(es) = Waiting(cs) \cup {<<"query", arg>>} /\ Asked(es)
          /\ SameBut(Waiting(cs), Waiting(es), {"query"}) /\ OfPage(Waiting(es), v)
        BY <1>1, <1>3, <2>2, MoreWaits
      <4> QED
        BY <3>1, <4>1
    <3>3. <<"query", arg>>[1] = "query"
      OBVIOUS
    <3>4. QueryWaits(Waiting(ds), u.query)
      BY <2>4, <2>7, <3>2, <3>3 DEF QueryWaits, For
    <3>5. {"query"} # {"list"}
      OBVIOUS
    <3> QED
      BY <1>4, <2>7, <2>8, <3>2, <3>4, <3>5 DEF u, ds
  <2>10. CASE ~v.query.filter
    <3>1. ds = cs
      BY <1>1, <2>6, <2>10 DEF CallsOk
    <3>2. SameBut(Waiting(cs), Waiting(ds), {}) /\ Asked(ds) /\ OfPage(Waiting(ds), v)
      BY <1>1, <3>1 DEF SameBut
    <3>3. QueryWaits(Waiting(ds), u.query)
      BY <2>3, <2>4, <2>5, <2>7, <2>10, <3>1 DEF QueryWaits
    <3>4. {} # {"list"}
      OBVIOUS
    <3> QED
      BY <1>4, <2>7, <2>8, <3>2, <3>3, <3>4 DEF u, ds
  <2> QED
    BY <1>4, <2>9, <2>10, <2>7
<1>7. CASE v.route.tab = "explore"
  <2> DEFINE m == MapMount(StartMap)
             X == Waiting(ds)
  <2>1. u = [v EXCEPT !.map = m] /\ ds = Append(cs, Call("map", StartMap))
    BY <1>7 DEF Activate, MapCall
  <2>2. AskedOk(Call("map", StartMap))
    BY DEF AskedOk, Call
  <2>3. {"at", "data", "error"} \subseteq DOMAIN m /\ m.at = StartMap
    BY DEF MapMount
  <2> HIDE DEF m
  <2>4. /\ DOMAIN u = DOMAIN v /\ u.page = v.page /\ u.info = v.info /\ u.route = v.route
        /\ u.upsert = v.upsert /\ u.seed = v.seed /\ u.settings = v.settings
        /\ u.connect = v.connect /\ u.map = m /\ u.query = v.query /\ u.browse = v.browse
    BY <1>1, <2>1
  <2>5. /\ X = Waiting(cs) \cup {<<"map", StartMap>>} /\ Asked(ds)
        /\ SameBut(Waiting(cs), X, {"map"}) /\ OfPage(X, v)
    <3>1. LET es == Append(cs, Call("map", StartMap)) IN
        /\ Waiting(es) = Waiting(cs) \cup {<<"map", StartMap>>} /\ Asked(es)
        /\ SameBut(Waiting(cs), Waiting(es), {"map"}) /\ OfPage(Waiting(es), v)
      BY <1>1, <1>3, <2>2, MoreWaits
    <3> QED
      BY <2>1, <3>1
  <2>6. <<"map", StartMap>>[1] = "map" /\ <<"map", StartMap>>[2] = StartMap
    OBVIOUS
  <2> DEFINE ops == {"map"}
  <2>7. /\ {"list", "metadata"} \cap ops = {} /\ "query" \notin ops /\ "upsert" \notin ops
        /\ "configure" \notin ops /\ {"setEmbedding", "fields"} \cap ops = {}
        /\ SameBut(Waiting(cs), X, ops)
    BY <2>5
  <2> HIDE DEF ops, u, ds
  <2>8. Panels(u, ds)
    BY <1>2, <2>4, <2>5, <2>7, PanelsMove
  <2>9. ConnectWaits(Waiting(cs), v.connect) => ConnectWaits(X, u.connect)
    BY <2>4, <2>7, PanelsSame
  <2> HIDE DEF X
  <2>10. \A a \in X : a[1] = "map" => a[2] = StartMap
    BY <1>7, <2>5, <2>6 DEF For
  <2>11. Loading(X)
    BY <2>5, <2>6 DEF Loading
  <2>12. MapWaits(X, u)
    BY <1>7, <2>3, <2>4, <2>10, <2>11, MapMade
  <2> QED
    BY <2>4, <2>8, <2>9, <2>12 DEF X, u, ds
<1>8. CASE /\ v.route.tab # "browse" /\ v.route.tab # "explore"
           /\ ~(v.route.tab = "query" /\ v.route.like # None)
  <2>1. u = v /\ ds = cs
    BY <1>8 DEF Activate
  <2> QED
    BY <1>8, <2>1
<1> QED
  BY <1>4, <1>5, <1>6, <1>7, <1>8

---------------------------------------------------------------------------
(* The index page: its first data, and newer data                          *)

LEMMA DetachedWaits ==
  ASSUME NEW cs, NEW w, CallsOk(cs, w), Asked(cs),
         \A i \in DOMAIN cs : cs[i].op = "setEmbedding" => cs[i].arg.picker = FALSE
  PROVE  /\ SameBut(Waiting(cs), Waiting(Detached(cs)), {"configure", "deleteIndex", "setEmbedding"})
         /\ Asked(Detached(cs)) /\ ~Picked(Waiting(Detached(cs)))
         /\ \A v : OfPage(Waiting(cs), v) => OfPage(Waiting(Detached(cs)), v)
<1> DEFINE ds == Detached(cs)
           ops == {"configure", "deleteIndex", "setEmbedding"}
<1>1. DOMAIN ds = DOMAIN cs
  BY DEF Detached
<1>2. ASSUME NEW i \in DOMAIN cs
      PROVE  /\ ds[i].op = cs[i].op /\ (ds[i].live => cs[i].live)
             /\ cs[i].op \notin ops => /\ ds[i].arg = cs[i].arg
                                       /\ cs[i].live => ds[i].live
             /\ AskedOk(ds[i]) /\ (cs[i].op = "setEmbedding" => ds[i].arg.picker = FALSE)
  <2>1. IsCall(cs[i]) /\ AskedOk(cs[i])
    BY CallsElement DEF CallOk, Asked
  <2>2. CASE cs[i].op \in ops
    <3> DEFINE x == [cs[i].arg EXCEPT !.panel = FALSE]
    <3>1. ds[i] = [cs[i] EXCEPT !.arg = x]
      BY <2>2 DEF Detached
    <3>2. ds[i] = [op |-> cs[i].op, arg |-> x, live |-> cs[i].live, st |-> cs[i].st,
                   reply |-> cs[i].reply]
      BY <2>1, <3>1, CallMade
    <3>3. /\ DOMAIN x = DOMAIN cs[i].arg
          /\ "ef" \in DOMAIN cs[i].arg => x.ef = cs[i].arg.ef
          /\ "embed" \in DOMAIN cs[i].arg => x.embed = cs[i].arg.embed
          /\ "picker" \in DOMAIN cs[i].arg => x.picker = cs[i].arg.picker
      OBVIOUS
    <3> HIDE DEF ds, x
    <3>4. ds[i].op = cs[i].op /\ ds[i].arg = x /\ ds[i].live = cs[i].live
          /\ ds[i].st = cs[i].st /\ ds[i].reply = cs[i].reply
      BY <3>2
    <3>5. AskedOk(ds[i])
      <4>1. CASE cs[i].op = "configure"
        <5>1. {"ef", "panel"} \subseteq DOMAIN cs[i].arg /\ cs[i].arg.ef \in Widths
          BY <2>1, <4>1 DEF AskedOk
        <5> QED
          BY <2>1, <3>3, <3>4, <4>1, <5>1 DEF AskedOk
      <4>2. CASE cs[i].op = "setEmbedding"
        <5>1. {"embed", "panel", "picker"} \subseteq DOMAIN cs[i].arg
          BY <2>1, <4>2 DEF AskedOk
        <5>2. x.picker = FALSE
          BY <3>3, <4>2, <5>1
        <5> QED
          BY <2>1, <3>3, <3>4, <4>2, <5>1, <5>2 DEF AskedOk
      <4>3. CASE cs[i].op = "deleteIndex"
        BY <3>4, <4>3 DEF AskedOk
      <4> QED
        BY <2>2, <4>1, <4>2, <4>3
    <3>6. cs[i].op = "setEmbedding" => ds[i].arg.picker = FALSE
      <4> SUFFICES ASSUME cs[i].op = "setEmbedding" PROVE ds[i].arg.picker = FALSE
        OBVIOUS
      <4>1. {"embed", "panel", "picker"} \subseteq DOMAIN cs[i].arg
        BY <2>1 DEF AskedOk
      <4> QED
        BY <3>3, <3>4, <4>1
    <3> QED
      BY <2>2, <3>4, <3>5, <3>6
  <2>3. CASE cs[i].op \notin ops
    <3>1. ds[i] = cs[i]
      BY <2>3 DEF Detached
    <3> QED
      BY <2>1, <3>1
  <2> QED
    BY <2>2, <2>3
<1> HIDE DEF ds, ops
<1>3. /\ SameBut(Waiting(cs), Waiting(ds), ops)
      /\ \A v : OfPage(Waiting(cs), v) => OfPage(Waiting(ds), v)
  BY <1>1, <1>2, ChangedWaits
<1>4. Asked(ds)
  BY <1>1, <1>2 DEF Asked
<1>5. ~Picked(Waiting(ds))
  BY <1>1, <1>2, NonePicked
<1> QED
  BY <1>3, <1>4, <1>5 DEF ds, ops

\* The Get started page goes with the first record, and what it sent goes on unheard
SeedGoes(v, cs) ==
    [i \in DOMAIN cs |-> [cs[i] EXCEPT !.live = @ /\ ~(/\ v.info.data.count # 0
                                                       /\ cs[i].op = "upsert"
                                                       /\ cs[i].arg.by = "seed")]]

LEMMA SeedGoesWaits ==
  ASSUME NEW v, NEW cs, NEW w, CallsOk(cs, w), Asked(cs)
  PROVE  LET es == SeedGoes(v, cs) IN
         /\ CallsOk(es, w) /\ Asked(es) /\ SameBut(Waiting(cs), Waiting(es), {"upsert"})
         /\ \A u : OfPage(Waiting(cs), u) => OfPage(Waiting(es), u)
         /\ \A a \in Waiting(cs) : a[2].by # "seed" \/ v.info.data.count = 0 => a \in Waiting(es)
<1> DEFINE gone(i) == v.info.data.count # 0 /\ cs[i].op = "upsert" /\ cs[i].arg.by = "seed"
           x(i) == cs[i].live /\ ~gone(i)
           es == SeedGoes(v, cs)
<1>1. DOMAIN es = DOMAIN cs /\ es = [i \in DOMAIN cs |-> es[i]]
  BY DEF SeedGoes
<1>2. ASSUME NEW i \in DOMAIN cs
      PROVE  /\ es[i] = [cs[i] EXCEPT !.live = x(i)]
             /\ es[i].op = cs[i].op /\ es[i].arg = cs[i].arg /\ es[i].live = x(i)
             /\ AskedOk(es[i])
  <2>1. IsCall(cs[i]) /\ AskedOk(cs[i])
    BY CallsElement DEF CallOk, Asked
  <2>2. es[i] = [cs[i] EXCEPT !.live = x(i)]
    BY DEF SeedGoes
  <2> HIDE DEF es
  <2>3. es[i] = [op |-> cs[i].op, arg |-> cs[i].arg, live |-> x(i), st |-> cs[i].st,
                 reply |-> cs[i].reply]
    BY <2>1, <2>2, CallMade
  <2>4. AskedOk(es[i])
    BY <2>1, <2>3, AskedAlike
  <2> QED
    BY <2>2, <2>3, <2>4
<1> HIDE DEF es
<1>3. CallsOk(es, w)
  <2>1. \A i \in DOMAIN cs : \E y : es[i] = [cs[i] EXCEPT !.live = y]
    BY <1>2
  <2> QED
    BY <1>1, <2>1, CallsChanged
<1>4. Asked(es)
  BY <1>1, <1>2 DEF Asked
<1>5. /\ SameBut(Waiting(cs), Waiting(es), {"upsert"})
      /\ \A u : OfPage(Waiting(cs), u) => OfPage(Waiting(es), u)
  <2>1. ASSUME NEW i \in DOMAIN cs
        PROVE  /\ es[i].op = cs[i].op /\ (es[i].live => cs[i].live)
               /\ cs[i].op \notin {"upsert"} => /\ es[i].arg = cs[i].arg
                                                /\ cs[i].live => es[i].live
    <3>1. x(i) => cs[i].live
      OBVIOUS
    <3>2. cs[i].op \notin {"upsert"} /\ cs[i].live => x(i)
      OBVIOUS
    <3> HIDE DEF x
    <3> QED
      BY <1>2, <3>1, <3>2
  <2> QED
    BY <1>1, <2>1, ChangedWaits
<1>6. ASSUME NEW a \in Waiting(cs), a[2].by # "seed" \/ v.info.data.count = 0
      PROVE  a \in Waiting(es)
  <2>1. PICK i \in DOMAIN cs : cs[i].live /\ cs[i].op \in Awaited /\ a = <<cs[i].op, cs[i].arg>>
    BY <1>6 DEF Waiting
  <2>2. a[2] = cs[i].arg
    BY <2>1
  <2>3. ~gone(i)
    BY <1>6, <2>2
  <2> QED
    BY <1>1, <1>2, <2>1, <2>3 DEF Waiting
<1> QED
  BY <1>3, <1>4, <1>5, <1>6 DEF es

\* What newer data leaves of the calls: those of the seed go with the first
\* record, those of the Settings panel and its picker with another ef_search
LEMMA StillHeardWaits ==
  ASSUME NEW v, NEW cs, CallsOk(cs, server.written), Asked(cs)
  PROVE  LET ds == StillHeard(v, cs) IN
         /\ CallsOk(ds, server.written) /\ Asked(ds)
         /\ SameBut(Waiting(cs), Waiting(ds),
                    {"upsert", "setEmbedding", "fields", "configure", "deleteIndex"})
         /\ \A u : OfPage(Waiting(cs), u) => OfPage(Waiting(ds), u)
         /\ \A a \in Waiting(cs) : a[1] = "upsert" /\ (a[2].by # "seed" \/ v.info.data.count = 0)
                                      => a \in Waiting(ds)
         /\ ~NewWidth(v) => SameBut(Waiting(cs), Waiting(ds), {"upsert"})
         /\ NewWidth(v) => ~For(Waiting(ds), {"fields"}) /\ ~Picked(Waiting(ds))
<1> DEFINE es == SeedGoes(v, cs)
           ds == StillHeard(v, cs)
           ops == {"upsert", "setEmbedding", "fields", "configure", "deleteIndex"}
           detached == {"configure", "deleteIndex", "setEmbedding"}
           unpicked == {"setEmbedding", "fields"}
<1>1. ds = IF NewWidth(v) THEN Detached(Unpicked(es)) ELSE es
  BY DEF StillHeard, SeedGoes
<1>2. /\ CallsOk(es, server.written) /\ Asked(es) /\ SameBut(Waiting(cs), Waiting(es), {"upsert"})
      /\ \A u : OfPage(Waiting(cs), u) => OfPage(Waiting(es), u)
      /\ \A a \in Waiting(cs) : a[2].by # "seed" \/ v.info.data.count = 0 => a \in Waiting(es)
  BY SeedGoesWaits
<1>3. CallsOk(ds, server.written)
  BY StillHeardCalls
<1> HIDE DEF es, ds
<1>4. CASE ~NewWidth(v)
  <2>1. ds = es
    BY <1>1, <1>4
  <2>2. {"upsert"} \subseteq ops
    OBVIOUS
  <2>3. SameBut(Waiting(cs), Waiting(es), ops)
    BY <1>2, <2>2, SameMore
  <2> QED
    BY <1>2, <1>3, <1>4, <2>1, <2>3 DEF ds
<1>5. CASE NewWidth(v)
  <2> DEFINE fs == Unpicked(es)
  <2>1. ds = Detached(fs)
    BY <1>1, <1>5
  <2>2. /\ SameBut(Waiting(es), Waiting(fs), unpicked) /\ ~For(Waiting(fs), {"fields"})
        /\ Asked(fs) /\ \A u : OfPage(Waiting(es), u) => OfPage(Waiting(fs), u)
    BY <1>2, UnpickedWaits
  <2>3. CallsOk(fs, server.written)
    BY <1>2, UnpickedCalls
  <2>4. \A i \in DOMAIN fs : fs[i].op = "setEmbedding" => fs[i].arg.picker = FALSE
    <3>1. DOMAIN fs = DOMAIN es
      BY DEF Unpicked
    <3> QED
      BY <1>2, <3>1, UnpickedNone
  <2> HIDE DEF fs, unpicked, detached
  <2>5. /\ SameBut(Waiting(fs), Waiting(ds), detached) /\ Asked(ds) /\ ~Picked(Waiting(ds))
        /\ \A u : OfPage(Waiting(fs), u) => OfPage(Waiting(ds), u)
    BY <2>1, <2>2, <2>3, <2>4, DetachedWaits DEF detached
  <2>6. SameBut(Waiting(cs), Waiting(ds), ops)
    BY <1>2, <2>2, <2>5 DEF SameBut, unpicked, detached
  <2>7. ~For(Waiting(ds), {"fields"})
    BY <2>2, <2>5 DEF For, SameBut, detached
  <2>8. ASSUME NEW a \in Waiting(cs), a[1] = "upsert", a[2].by # "seed" \/ v.info.data.count = 0
        PROVE  a \in Waiting(ds)
    <3>1. a \in Waiting(es)
      BY <1>2, <2>8
    <3>2. "upsert" \notin unpicked /\ "upsert" \notin detached
      BY DEF unpicked, detached
    <3> QED
      BY <2>2, <2>5, <2>8, <3>1, <3>2 DEF SameBut
  <2>9. \A u : OfPage(Waiting(cs), u) => OfPage(Waiting(ds), u)
    BY <1>2, <2>2, <2>5
  <2> QED
    BY <1>3, <1>5, <2>5, <2>6, <2>7, <2>8, <2>9 DEF ds
<1> QED
  BY <1>4, <1>5

\* The panels mount with the first data and wait for nothing
LEMMA FirstWaits ==
  ASSUME NEW v0, NEW cs, Panels(v0, cs), v0.info.data = None, MapWaits(Waiting(cs), v0),
         NEW poll, {"data", "error"} \subseteq DOMAIN poll, poll.data \in IndexInfo
  PROVE  LET w == FirstShown([v0 EXCEPT !.info = poll]) IN
         /\ Panels(w, cs) /\ w.info.data # None /\ w.route = v0.route /\ w.connect = v0.connect
         /\ w.route.tab # "explore" => MapWaits(Waiting(cs), w)
         /\ w.route.tab = "explore" => ~For(Waiting(cs), {"map", "neighbours"})
<1> DEFINE v == [v0 EXCEPT !.info = poll]
           w == FirstShown(v)
           q == QueryMount(v.info.data)
           s == SettingsMount(v.info.data.ef)
           b == BrowseMount(StartPlace)
           W == Waiting(cs)
<1>1. /\ CallsOk(cs, server.written) /\ Asked(cs) /\ OfPage(W, v0) /\ v0.page = "index"
      /\ {"page", "route", "info", "browse", "query", "upsert", "seed", "settings", "connect",
          "map", "models"} \subseteq DOMAIN v0
  BY DEF Panels
<1>2. /\ DOMAIN v = DOMAIN v0 /\ v.page = v0.page /\ v.route = v0.route /\ v.info = poll
      /\ v.connect = v0.connect /\ v.map = v0.map
  BY <1>1
<1>3. /\ BrowseWaits(W, b) /\ QueryWaits(W, q)
      /\ BatchWaits(W, UpsertMount, "upsert") /\ BatchWaits(W, SeedMount, "seed")
  BY DEF BrowseWaits, BrowseMount, QueryWaits, QueryMount, BatchWaits, UpsertMount, SeedMount
<1>4. SettingsWaits(W, s)
  <2>1. v.info.data.ef \in Widths
    BY <1>2 DEF IndexInfo
  <2> HIDE DEF v
  <2> QED
    BY <2>1 DEF SettingsWaits, SettingsMount
<1> HIDE DEF v, q, s, b
<1>5. /\ DOMAIN w = DOMAIN v /\ w.page = v.page /\ w.route = v.route /\ w.info = v.info
      /\ w.browse = b /\ w.query = q /\ w.upsert = UpsertMount /\ w.seed = SeedMount
      /\ w.settings = s /\ w.connect = v.connect /\ w.map = v.map
  BY <1>1, <1>2 DEF FirstShown, q, s, b
<1> HIDE DEF w
<1>6. PanelsWait(W, w)
  BY <1>3, <1>4, <1>5 DEF PanelsWait
<1>7. Panels(w, cs)
  BY <1>1, <1>2, <1>5, <1>6 DEF Panels, OfPage
<1>8. w.info.data # None
  BY <1>2, <1>5, NoInfoAssumption
<1>9. ~For(W, {"map", "neighbours"}) /\ v0.map = None /\ \A a \in W : a[1] # "map"
  <2>1. ~For(W, {"map", "neighbours"}) /\ v0.map = None
    BY DEF MapWaits
  <2> QED
    BY <2>1 DEF For
<1>10. w.route.tab # "explore" => MapWaits(W, w)
  BY <1>2, <1>5, <1>9 DEF MapWaits
<1> QED
  BY <1>2, <1>5, <1>7, <1>8, <1>9, <1>10 DEF w, v

\* Newer data takes the Settings panel or the seed with it, which then wait for
\* nothing, and leaves the others and their calls
LEMMA AgainWaits ==
  ASSUME NEW v0, NEW cs, Panels(v0, cs), v0.info.data # None, MapWaits(Waiting(cs), v0),
         NEW poll, {"data", "error"} \subseteq DOMAIN poll, poll.data \in IndexInfo,
         \/ ConnectWaits(Waiting(cs), v0.connect)
         \/ v0.connect # None /\ poll.data.embed # None /\ ~v0.settings.editing
  PROVE  LET v == [v0 EXCEPT !.info = poll]
             u == ShownAgain(v)
             ds == StillHeard(v, cs) IN
         /\ Panels(u, ds) /\ u.info.data # None /\ u.route = v0.route
         /\ MapWaits(Waiting(ds), u)
         /\ ConnectWaits(Waiting(ds), u.connect) \/ (u.connect # None /\ ~ShowsPicker(u))
<1> DEFINE v == [v0 EXCEPT !.info = poll]
           u == ShownAgain(v)
           ds == StillHeard(v, cs)
           W == Waiting(cs)
           X == Waiting(ds)
           ops == {"upsert", "setEmbedding", "fields", "configure", "deleteIndex"}
           s == SettingsMount(v.info.data.ef)
<1>1. /\ CallsOk(cs, server.written) /\ Asked(cs) /\ OfPage(W, v0) /\ v0.page = "index"
      /\ {"page", "route", "info", "browse", "query", "upsert", "seed", "settings", "connect",
          "map", "models"} \subseteq DOMAIN v0
      /\ PanelsWait(W, v0)
  BY DEF Panels
<1>2. /\ DOMAIN v = DOMAIN v0 /\ v.page = v0.page /\ v.route = v0.route /\ v.info = poll
      /\ v.connect = v0.connect /\ v.map = v0.map /\ v.browse = v0.browse /\ v.query = v0.query
      /\ v.upsert = v0.upsert /\ v.seed = v0.seed /\ v.settings = v0.settings
  BY <1>1
<1> HIDE DEF v
<1>3. /\ CallsOk(ds, server.written) /\ Asked(ds) /\ SameBut(W, X, ops) /\ OfPage(X, v0)
      /\ \A a \in W : a[1] = "upsert" /\ (a[2].by # "seed" \/ v.info.data.count = 0) => a \in X
      /\ ~NewWidth(v) => SameBut(W, X, {"upsert"})
      /\ NewWidth(v) => ~For(X, {"fields"}) /\ ~Picked(X)
  BY <1>1, StillHeardWaits
<1>4. /\ DOMAIN u = DOMAIN v /\ u.page = v.page /\ u.route = v.route /\ u.info = v.info
      /\ u.browse = v.browse /\ u.query = v.query /\ u.upsert = v.upsert /\ u.map = v.map
      /\ u.seed = IF v.info.data.count = 0 THEN v.seed ELSE SeedMount
      /\ u.settings = IF NewWidth(v) THEN s ELSE v.settings
      /\ u.connect = IF NewWidth(v) THEN None ELSE v.connect
  BY <1>1, <1>2 DEF ShownAgain
<1> HIDE DEF u, ds
<1>5. {"list", "metadata"} \cap ops = {} /\ "query" \notin ops /\ {"map", "neighbours"} \cap ops = {}
  OBVIOUS
<1> HIDE DEF ops, W, X, s
<1>6. BrowseWaits(X, u.browse) /\ QueryWaits(X, u.query)
  <2>1. BrowseWaits(W, v0.browse) /\ QueryWaits(W, v0.query)
    BY <1>1 DEF PanelsWait
  <2> QED
    BY <1>2, <1>3, <1>4, <1>5, <2>1, PanelsSame
<1>7. BatchWaits(X, u.upsert, "upsert")
  <2>1. BatchWaits(W, v0.upsert, "upsert")
    BY <1>1 DEF PanelsWait
  <2>2. "upsert" # "seed"
    OBVIOUS
  <2> QED
    BY <1>2, <1>3, <1>4, <2>1, <2>2 DEF BatchWaits
<1>8. BatchWaits(X, u.seed, "seed")
  <2>1. BatchWaits(W, v0.seed, "seed")
    BY <1>1 DEF PanelsWait
  <2>2. CASE v.info.data.count = 0
    BY <1>2, <1>3, <1>4, <2>1, <2>2 DEF BatchWaits
  <2>3. CASE v.info.data.count # 0
    BY <1>4, <2>3 DEF BatchWaits, SeedMount
  <2> QED
    BY <2>2, <2>3
<1>9. SettingsWaits(X, u.settings)
  <2>1. CASE NewWidth(v)
    <3>1. v.info.data.ef \in Widths
      BY <1>2 DEF IndexInfo
    <3> QED
      BY <1>4, <2>1, <3>1 DEF SettingsWaits, SettingsMount, s
  <2>2. CASE ~NewWidth(v)
    <3>1. SettingsWaits(W, v0.settings) /\ "configure" \notin {"upsert"}
      BY <1>1 DEF PanelsWait
    <3> QED
      BY <1>2, <1>3, <1>4, <2>2, <3>1, PanelsSame
  <2> QED
    BY <2>1, <2>2
<1>10. Panels(u, ds)
  <2>1. PanelsWait(X, u)
    BY <1>6, <1>7, <1>8, <1>9 DEF PanelsWait
  <2> QED
    BY <1>1, <1>2, <1>3, <1>4, <2>1 DEF Panels, OfPage, X
<1>11. u.info.data # None
  BY <1>2, <1>4, NoInfoAssumption
<1>12. MapWaits(X, u)
  <2>1. v0.info.data = None <=> u.info.data = None
    BY <1>11
  <2>2. u.map = v0.map /\ u.route = v0.route /\ MapWaits(W, v0)
    BY <1>2, <1>4 DEF W
  <2> QED
    BY <1>3, <1>5, <2>1, <2>2, MapStill
<1>13. ConnectWaits(X, u.connect) \/ (u.connect # None /\ ~ShowsPicker(u))
  <2>1. CASE NewWidth(v)
    BY <1>3, <1>4, <2>1 DEF ConnectWaits, Picked
  <2>2. CASE ~NewWidth(v) /\ ConnectWaits(W, v0.connect)
    <3>1. {"setEmbedding", "fields"} \cap {"upsert"} = {}
      OBVIOUS
    <3> QED
      BY <1>2, <1>3, <1>4, <2>2, <3>1, PanelsSame
  <2>3. CASE ~NewWidth(v) /\ v0.connect # None /\ poll.data.embed # None /\ ~v0.settings.editing
    BY <1>2, <1>4, <2>3 DEF ShowsPicker
  <2> QED
    BY <2>1, <2>2, <2>3 DEF W
<1> QED
  BY <1>2, <1>4, <1>10, <1>11, <1>12, <1>13 DEF v, u, ds, X

\* Whatever shows an index leaves a page that waits only for calls it hears
LEMMA ShowIndexWaits ==
  ASSUME Inv, view.page = "index", NEW v0, v0.route = view.route, NEW cs, Panels(v0, cs),
         MapWaits(Waiting(cs), v0), NEW poll, {"data", "error"} \subseteq DOMAIN poll,
         poll.data \in IndexInfo \cup {None}, poll.data = None => v0.info.data = None,
         \/ ConnectWaits(Waiting(cs), v0.connect)
         \/ /\ v0.connect # None
            /\ poll.data # None /\ (v0.info.data # None => ~v0.settings.editing) /\ poll.data.embed # None,
         ShowIndex(v0, poll, cs)
  PROVE  WaitInv'
<1> DEFINE v == [v0 EXCEPT !.info = poll]
           first == Activate(FirstShown(v), cs)
<1>1. /\ poll.data = None => view' = v /\ calls' = cs
      /\ poll.data # None /\ v0.info.data = None =>
           /\ view' = WithPicker(first.view, first.calls).view
           /\ calls' = WithPicker(first.view, first.calls).calls
      /\ poll.data # None /\ v0.info.data # None =>
           /\ view' = WithPicker(ShownAgain(v), StillHeard(v, cs)).view
           /\ calls' = WithPicker(ShownAgain(v), StillHeard(v, cs)).calls
      /\ server' = server /\ me' = me
  BY DEF ShowIndex
<1>2. KeepsServer
  BY <1>1, InvParts, ServerKept
<1>3. CASE poll.data = None
  <2>1. v0.info.data = None
    BY <1>3
  <2>2. ConnectWaits(Waiting(cs), v0.connect)
    BY <1>3
  <2>3. view' = v /\ calls' = cs
    BY <1>1, <1>3
  <2>4. /\ DOMAIN v = DOMAIN v0 /\ v.page = v0.page /\ v.route = v0.route /\ v.info = poll
        /\ v.connect = v0.connect /\ v.map = v0.map
    BY DEF Panels
  <2> HIDE DEF v
  <2>5. Panels(v, cs)
    BY <1>3, <2>4 DEF Panels, OfPage
  <2>6. v0.info.data = None <=> v.info.data = None
    BY <1>3, <2>1, <2>4
  <2>7. SameBut(Waiting(cs), Waiting(cs), {}) /\ {"map", "neighbours"} \cap {} = {}
    BY DEF SameBut
  <2>8. MapWaits(Waiting(cs), v)
    BY <2>4, <2>6, <2>7, MapStill
  <2> QED
    BY <1>1, <1>2, <2>2, <2>3, <2>4, <2>5, <2>8, PanelsStep
<1>4. ASSUME NEW w, NEW ds, Panels(w, ds), w.info.data # None, MapWaits(Waiting(ds), w),
             ConnectWaits(Waiting(ds), w.connect) \/ (w.connect # None /\ ~ShowsPicker(w)),
             w.route = view.route,
             view' = WithPicker(w, ds).view, calls' = WithPicker(w, ds).calls
      PROVE  WaitInv'
  <2>1. /\ Panels(view', calls') /\ ConnectWaits(Waiting(calls'), view'.connect)
        /\ MapWaits(Waiting(calls'), view') /\ view'.route = view.route
    BY <1>4, PickerWaits
  <2> QED
    BY <1>1, <1>2, <2>1, PanelsStep
<1>5. CASE poll.data # None /\ v0.info.data = None
  <2> DEFINE w == FirstShown(v)
  <2>1. poll.data \in IndexInfo
    BY <1>5
  <2>2. /\ Panels(w, cs) /\ w.info.data # None /\ w.route = v0.route /\ w.connect = v0.connect
        /\ w.route.tab # "explore" => MapWaits(Waiting(cs), w)
        /\ w.route.tab = "explore" => ~For(Waiting(cs), {"map", "neighbours"})
    BY <1>5, <2>1, FirstWaits
  <2>3. w.info = poll /\ ~w.settings.editing
    <3>1. w.settings = SettingsMount(v.info.data.ef) /\ w.info = v.info /\ v.info = poll
      <4>1. {"info", "settings"} \subseteq DOMAIN v0
        BY DEF Panels
      <4> QED
        BY <4>1 DEF FirstShown
    <3> HIDE DEF w, v
    <3> QED
      BY <3>1 DEF SettingsMount
  <2> DEFINE u == Activate(w, cs).view
             ds == Activate(w, cs).calls
  <2>4. view' = WithPicker(u, ds).view /\ calls' = WithPicker(u, ds).calls
    BY <1>1, <1>5
  <2> HIDE DEF w
  <2>5. /\ Panels(u, ds) /\ MapWaits(Waiting(ds), u)
        /\ ConnectWaits(Waiting(cs), w.connect) => ConnectWaits(Waiting(ds), u.connect)
        /\ u.route = w.route /\ u.info = w.info
        /\ u.connect = w.connect /\ u.settings = w.settings
    BY <2>2, ActivateWaits
  <2> HIDE DEF u, ds
  <2>6. ConnectWaits(Waiting(ds), u.connect) \/ (u.connect # None /\ ~ShowsPicker(u))
    BY <2>2, <2>3, <2>5 DEF ShowsPicker
  <2> QED
    BY <1>4, <2>2, <2>3, <2>4, <2>5, <2>6
<1>6. CASE poll.data # None /\ v0.info.data # None
  <2> DEFINE w == ShownAgain(v)
             ds == StillHeard(v, cs)
  <2>1. poll.data \in IndexInfo
    BY <1>6
  <2>2. \/ ConnectWaits(Waiting(cs), v0.connect)
        \/ v0.connect # None /\ poll.data.embed # None /\ ~v0.settings.editing
    BY <1>6
  <2>3. /\ Panels(w, ds) /\ w.info.data # None /\ w.route = v0.route
        /\ MapWaits(Waiting(ds), w)
        /\ ConnectWaits(Waiting(ds), w.connect) \/ (w.connect # None /\ ~ShowsPicker(w))
    BY <1>6, <2>1, <2>2, AgainWaits
  <2>4. view' = WithPicker(w, ds).view /\ calls' = WithPicker(w, ds).calls
    BY <1>1, <1>6
  <2> HIDE DEF w, ds
  <2> QED
    BY <1>4, <2>3, <2>4
<1> QED
  BY <1>3, <1>5, <1>6

---------------------------------------------------------------------------
(* The index page: its polls, its tabs and its settings                    *)

\* Steps of the server that change nothing that a page awaits
LEMMA InfoOk == ASSUME Inv PROVE InfoNow \in IndexInfo
BY DEF Inv, WaitInv, InfoNow, IndexInfo

LEMMA ServerStep ==
  ASSUME Inv, KeepsCalls, view' = view, me' = me, {"ef", "embed"} \subseteq DOMAIN server',
         server'.ef \in Widths, server'.embed \in Models \cup {None}
  PROVE  WaitInv'
BY DEF Inv, WaitInv, KeepsCalls

LEMMA IndexPolled == ASSUME Inv, PollIndex \/ ServeIndex PROVE WaitInv'
<1>1. CASE PollIndex
  <2>1. /\ view.page = "index" /\ calls' = Append(calls, Call("index", None))
        /\ me' = me /\ view' = view /\ server' = server
    BY <1>1 DEF PollIndex, Polls, Ticks, Sent, app
  <2>2. "index" \in Awaited /\ PageOf("index") = "index"
    BY DEF Awaited, PageOf
  <2>3. AskedOk(Call("index", None))
    BY DEF AskedOk, Call
  <2>4. /\ SameBut(Waiting(calls), Waiting(calls'), {"index"})
        /\ Asked(calls') /\ OfPage(Waiting(calls'), view)
    BY <2>1, <2>2, <2>3, PanelSends
  <2>5. KeepsServer
    BY <2>1, InvParts, ServerKept
  <2> DEFINE ops == {"index"}
  <2>6. /\ {"list", "metadata"} \cap ops = {} /\ "query" \notin ops /\ "upsert" \notin ops
        /\ "configure" \notin ops /\ {"setEmbedding", "fields"} \cap ops = {}
        /\ {"map", "neighbours"} \cap ops = {}
    OBVIOUS
  <2> HIDE DEF ops
  <2> QED
    BY <2>1, <2>4, <2>5, <2>6, IndexMoves DEF ops
<1>2. CASE ServeIndex
  <2>1. PICK i \in Pending("index") :
          /\ IF Exists THEN Answer(i, InfoNow)
             ELSE calls' = [calls EXCEPT ![i].st = "failed", ![i].reply = "missing"]
          /\ me' = me /\ view' = view /\ server' = server
    BY <1>2 DEF ServeIndex, app
  <2>2. i \in DOMAIN calls /\ calls[i].op = "index"
    BY <2>1, PendingCall
  <2>3. KeepsServer
    BY <2>1, InvParts, ServerKept
  <2>4. CASE Exists
    <3>1. AskedOk(Become(calls[i], "answered", InfoNow))
      BY <2>2, InfoOk DEF AskedOk, Become
    <3>2. Answer(i, InfoNow)
      BY <2>1, <2>4
    <3>3. KeepsCalls
      BY <2>2, <3>1, <3>2, AnsweredWell
    <3> QED
      BY <2>1, <2>3, <3>3, SameAlike, QuietStep
  <2>5. CASE ~Exists
    BY <2>1, <2>2, <2>3, <2>5, FailedQuiet
  <2> QED
    BY <2>4, <2>5
<1> QED
  BY <1>1, <1>2

LEMMA IndexLoadedWaits == ASSUME Inv, IndexLoaded PROVE WaitInv'
<1>1. PICK i \in Arrived("index") :
        IF calls[i].live THEN ShowIndex(view, Polled(view.info, i), Without(i))
        ELSE calls' = Without(i) /\ UNCHANGED <<app, view, server>>
  BY Zenon DEF IndexLoaded
<1>2. i \in DOMAIN calls /\ calls[i].op = "index"
  BY <1>1, ArrivedCall
<1>3. CASE ~calls[i].live
  <2>1. ~Waits(calls[i])
    BY <1>3 DEF Waits
  <2>2. calls' = Without(i) /\ me' = me /\ view' = view /\ server' = server
    BY <1>1, <1>3 DEF app
  <2> QED
    BY <1>2, <2>1, <2>2, SameAlike, DeliveredQuiet
<1>4. CASE calls[i].live
  <2> DEFINE cs == Without(i)
             poll == Polled(view.info, i)
  <2>1. Waits(calls[i]) /\ PageOf("index") = "index"
    BY <1>2, <1>4 DEF Waits, Awaited, PageOf
  <2>2. view.page = "index"
    BY <1>2, <2>1, AwaitedWaits
  <2>3. /\ Panels(view, calls) /\ ConnectWaits(Waiting(calls), view.connect)
        /\ MapWaits(Waiting(calls), view)
    BY <2>2, PanelsHere
  <2>4. CallsOk(cs, server.written)
    BY <1>2, WithoutWaits
  <2>5. CallsOk(<<>>, server.written) /\ Asked(<<>>) /\ Waiting(<<>>) = {}
    BY CallsEmpty, WaitingOne
  <2>6. /\ SameBut(Waiting(calls), Waiting(cs), {"index"}) /\ Asked(cs)
        /\ OfPage(Waiting(cs), view)
    BY <1>2, <2>5, OneLess
  <2> HIDE DEF cs
  <2> DEFINE ops == {"index"}
  <2>7. /\ {"list", "metadata"} \cap ops = {} /\ "query" \notin ops /\ "upsert" \notin ops
        /\ "configure" \notin ops /\ {"setEmbedding", "fields"} \cap ops = {}
        /\ {"map", "neighbours"} \cap ops = {}
    OBVIOUS
  <2> HIDE DEF ops
  <2>8. SameBut(Waiting(calls), Waiting(cs), ops)
    BY <2>6 DEF ops
  <2>9. Panels(view, cs)
    BY <2>3, <2>4, <2>6, <2>7, <2>8, PanelsMove
  <2>10. MapWaits(Waiting(cs), view)
    BY <2>3, <2>7, <2>8, MapStill
  <2>11. ConnectWaits(Waiting(cs), view.connect)
    BY <2>3, <2>7, <2>8, PanelsSame
  <2>12. {"data", "error"} \subseteq DOMAIN view.info /\ view.info.data \in IndexInfo \cup {None}
    BY <2>3 DEF Panels
  <2>13. /\ {"data", "error"} \subseteq DOMAIN poll /\ poll.data \in IndexInfo \cup {None}
         /\ poll.data = None => view.info.data = None
    <3>1. CASE Ok(i)
      <4>1. calls[i].reply \in IndexInfo
        BY <1>2, <3>1, InvParts DEF Asked, AskedOk, Ok
      <4>2. poll = [data |-> calls[i].reply, error |-> None]
        BY <3>1 DEF Polled
      <4>3. DOMAIN poll = {"data", "error"} /\ poll.data = calls[i].reply
        BY <4>2
      <4> QED
        BY <4>1, <4>3, NoInfoAssumption
    <3>2. CASE ~Ok(i)
      BY <2>12, <3>2 DEF Polled
    <3> QED
      BY <3>1, <3>2
  <2>14. ShowIndex(view, poll, cs)
    BY <1>1, <1>4 DEF cs
  <2> HIDE DEF poll
  <2> QED
    BY <2>2, <2>9, <2>10, <2>11, <2>13, <2>14, ShowIndexWaits
<1> QED
  BY <1>3, <1>4

LEMMA SettingsClicked ==
  ASSUME Inv, ChooseTab \/ EditSettings \/ SaveWidth \/ DeleteIndex
  PROVE  WaitInv'
<1>1. CASE ChooseTab
  <2>1. calls' = calls /\ me' = me /\ view' = view /\ server' = server
    BY <1>1 DEF ChooseTab
  <2> QED
    BY <2>1, InvParts, ServerKept, SameAlike, StillQuiet
<1>2. ASSUME view.page = "index", view.info.data # None
      PROVE  /\ SettingsWaits(Waiting(calls), view.settings) /\ "settings" \in DOMAIN view
             /\ OfPage(Waiting(calls), view) /\ Asked(calls)
  BY <1>2, InvParts, IndexParts DEF PanelsWait
<1>3. CASE EditSettings
  <2>1. /\ view.page = "index" /\ view.info.data # None
        /\ calls' = calls /\ me' = me /\ server' = server
    BY <1>3 DEF EditSettings, OnSettings, OnTab, OnIndex, app
  <2>2. \/ \E w \in Widths : view' = [view EXCEPT !.settings = [@ EXCEPT !.ef = w]]
        \/ \E b : view' = [view EXCEPT !.settings = [@ EXCEPT !.confirm = b]]
    BY <1>3 DEF EditSettings
  <2>3. PICK e : view' = [view EXCEPT !.settings = e] /\ SettingsWaits(Waiting(calls'), e)
    <3>1. CASE \E w \in Widths : view' = [view EXCEPT !.settings = [@ EXCEPT !.ef = w]]
      <4>1. PICK w \in Widths : view' = [view EXCEPT !.settings = [@ EXCEPT !.ef = w]]
        BY <3>1
      <4> DEFINE e == [view.settings EXCEPT !.ef = w]
      <4>2. view' = [view EXCEPT !.settings = e]
        BY <4>1
      <4>3. SettingsWaits(Waiting(calls'), e)
        BY <1>2, <2>1 DEF SettingsWaits
      <4> HIDE DEF e
      <4> QED
        BY <4>2, <4>3
    <3>2. CASE \E b : view' = [view EXCEPT !.settings = [@ EXCEPT !.confirm = b]]
      <4>1. PICK b : view' = [view EXCEPT !.settings = [@ EXCEPT !.confirm = b]]
        BY <3>2
      <4> DEFINE e == [view.settings EXCEPT !.confirm = b]
      <4>2. view' = [view EXCEPT !.settings = e]
        BY <4>1
      <4>3. SettingsWaits(Waiting(calls'), e)
        BY <1>2, <2>1 DEF SettingsWaits
      <4> HIDE DEF e
      <4> QED
        BY <4>2, <4>3
    <3> QED
      BY <2>2, <3>1, <3>2
  <2>4. SameBut(Waiting(calls), Waiting(calls'), {"configure"})
    BY <2>1 DEF SameBut
  <2>5. KeepsServer
    BY <2>1, InvParts, ServerKept
  <2>6. Asked(calls') /\ OfPage(Waiting(calls'), view)
    BY <1>2, <2>1
  <2> QED
    BY <2>1, <2>3, <2>4, <2>5, <2>6, SettingsMoves
<1>4. CASE SaveWidth
  <2> DEFINE arg == [ef |-> view.settings.ef, panel |-> TRUE]
             e == [view.settings EXCEPT !.saving = TRUE]
  <2>1. /\ view.page = "index" /\ view.info.data # None
        /\ me' = me /\ server' = server
        /\ calls' = Append(calls, Call("configure", arg))
    BY <1>4 DEF SaveWidth, OnSettings, OnTab, OnIndex, Sent, app
  <2>2. view' = [view EXCEPT !.settings = e]
    BY <1>4 DEF SaveWidth
  <2>3. view.settings.ef \in Widths /\ {"ef", "saving", "editing"} \subseteq DOMAIN view.settings
    BY <1>2, <2>1 DEF SettingsWaits
  <2>4. arg.ef \in Widths /\ {"ef", "panel"} \subseteq DOMAIN arg /\ arg.panel = TRUE
    BY <2>3
  <2>5. {"ef", "saving", "editing"} \subseteq DOMAIN e /\ e.ef \in Widths
    BY <2>3
  <2> HIDE DEF arg, e
  <2>6. AskedOk(Call("configure", arg))
    BY <2>4 DEF AskedOk, Call
  <2>7. "configure" \in Awaited /\ PageOf("configure") = "index"
    BY DEF Awaited, PageOf
  <2>8. /\ Waiting(calls') = Waiting(calls) \cup {<<"configure", arg>>}
        /\ SameBut(Waiting(calls), Waiting(calls'), {"configure"})
        /\ Asked(calls') /\ OfPage(Waiting(calls'), view)
    BY <2>1, <2>6, <2>7, PanelSends
  <2>9. <<"configure", arg>>[1] = "configure" /\ <<"configure", arg>>[2] = arg
    OBVIOUS
  <2>10. \E a \in Waiting(calls') : a[1] = "configure" /\ a[2].panel = TRUE
    BY <2>4, <2>8, <2>9
  <2>11. SettingsWaits(Waiting(calls'), e)
    BY <2>5, <2>10 DEF SettingsWaits
  <2>12. KeepsServer
    BY <2>1, InvParts, ServerKept
  <2> QED
    BY <2>1, <2>2, <2>8, <2>11, <2>12, SettingsMoves
<1>5. CASE DeleteIndex
  <2> DEFINE arg == [panel |-> TRUE]
             e == [view.settings EXCEPT !.deleting = TRUE]
             ops == {"deleteIndex"}
  <2>1. /\ view.page = "index" /\ view.info.data # None
        /\ me' = me /\ server' = server
        /\ calls' = Append(calls, Call("deleteIndex", arg))
    BY <1>5 DEF DeleteIndex, OnSettings, OnTab, OnIndex, Sent, app
  <2>2. view' = [view EXCEPT !.settings = e]
    BY <1>5 DEF DeleteIndex
  <2> HIDE DEF arg
  <2>3. AskedOk(Call("deleteIndex", arg))
    BY DEF AskedOk, Call
  <2>4. "deleteIndex" \in Awaited /\ PageOf("deleteIndex") = "index"
    BY DEF Awaited, PageOf
  <2>5. /\ SameBut(Waiting(calls), Waiting(calls'), ops)
        /\ Asked(calls') /\ OfPage(Waiting(calls'), view)
    BY <2>1, <2>3, <2>4, PanelSends
  <2>6. /\ {"list", "metadata"} \cap ops = {} /\ "query" \notin ops /\ "upsert" \notin ops
        /\ "configure" \notin ops /\ {"setEmbedding", "fields"} \cap ops = {}
        /\ {"map", "neighbours"} \cap ops = {}
    OBVIOUS
  <2> HIDE DEF ops
  <2>7. SettingsWaits(Waiting(calls'), view.settings)
    BY <1>2, <2>1, <2>5, <2>6, PanelsSame
  <2>8. SettingsWaits(Waiting(calls'), e)
    BY <2>7 DEF SettingsWaits
  <2> HIDE DEF e
  <2>9. /\ view'.page = view.page /\ view'.route = view.route /\ view'.info = view.info
        /\ DOMAIN view' = DOMAIN view /\ view'.browse = view.browse /\ view'.query = view.query
        /\ view'.upsert = view.upsert /\ view'.seed = view.seed /\ view'.settings = e
        /\ view'.connect = view.connect /\ view'.map = view.map
    BY <2>1, <2>2, IndexParts
  <2>10. KeepsServer
    BY <2>1, InvParts, ServerKept
  <2> QED
    BY <2>1, <2>5, <2>6, <2>8, <2>9, <2>10, IndexMoves
<1> QED
  BY <1>1, <1>3, <1>4, <1>5

LEMMA SettingsServed == ASSUME Inv, ServeSettings \/ ServeDeleteIndex PROVE WaitInv'
<1>1. CASE ServeDeleteIndex
  <2>1. PICK i \in Pending("deleteIndex") :
          /\ Answer(i, None) \/ calls' = [calls EXCEPT ![i].st = "failed"]
          /\ me' = me /\ view' = view /\ server' = [server EXCEPT !.indexes = {}]
    BY <1>1 DEF ServeDeleteIndex, app
  <2>2. KeepsServer
    BY <2>1, InvParts, ServerKept
  <2> QED
    BY <2>1, <2>2, PendingCall, AnsweredQuiet, FailedQuiet DEF Answered
<1>2. CASE ServeSettings
  <2>1. PICK i \in Pending("configure") \cup Pending("setEmbedding") :
          /\ IF ~Exists THEN /\ calls' = [calls EXCEPT ![i].st = "failed"]
                             /\ UNCHANGED server
             ELSE IF calls[i].op = "configure"
             THEN /\ server' = [server EXCEPT !.ef = calls[i].arg.ef]
                  /\ Answer(i, [InfoNow EXCEPT !.ef = calls[i].arg.ef])
             ELSE /\ server' = [server EXCEPT !.embed = calls[i].arg.embed]
                  /\ Answer(i, [InfoNow EXCEPT !.embed = calls[i].arg.embed])
          /\ UNCHANGED <<app, view>>
    BY <1>2, Zenon DEF ServeSettings
  <2>2. i \in DOMAIN calls /\ calls[i].op \in {"configure", "setEmbedding"}
    BY <2>1, PendingCall
  <2>3. me' = me /\ view' = view
    BY <2>1 DEF app
  <2>4. /\ {"ef", "embed"} \subseteq DOMAIN server /\ server.ef \in Widths
        /\ server.embed \in Models \cup {None} /\ AskedOk(calls[i])
    BY <2>2, InvParts DEF WaitInv, Asked
  <2>5. CASE ~Exists
    <3>1. calls' = [calls EXCEPT ![i].st = "failed"] /\ server' = server
      BY <2>1, <2>5
    <3>2. KeepsServer
      BY <3>1, InvParts, ServerKept
    <3> QED
      BY <2>2, <2>3, <3>1, <3>2, FailedQuiet
  <2>6. CASE Exists /\ calls[i].op = "configure"
    <3> DEFINE ef == calls[i].arg.ef
               reply == [InfoNow EXCEPT !.ef = ef]
    <3>1. server' = [server EXCEPT !.ef = ef] /\ Answer(i, reply)
      BY <2>1, <2>6
    <3>2. ef \in Widths /\ {"ef", "panel"} \subseteq DOMAIN calls[i].arg
      BY <2>4, <2>6 DEF AskedOk
    <3> HIDE DEF ef
    <3>3. reply \in IndexInfo
      BY <3>2, InfoOk DEF IndexInfo
    <3> HIDE DEF reply
    <3>4. AskedOk(Become(calls[i], "answered", reply))
      BY <2>6, <3>2, <3>3 DEF AskedOk, Become, ef
    <3>5. KeepsCalls
      BY <2>2, <3>1, <3>4, AnsweredWell
    <3>6. /\ {"ef", "embed"} \subseteq DOMAIN server' /\ server'.ef \in Widths
          /\ server'.embed \in Models \cup {None}
      BY <2>4, <3>1, <3>2
    <3> QED
      BY <2>3, <3>5, <3>6, ServerStep
  <2>7. CASE Exists /\ calls[i].op = "setEmbedding"
    <3> DEFINE embed == calls[i].arg.embed
               reply == [InfoNow EXCEPT !.embed = embed]
    <3>1. server' = [server EXCEPT !.embed = embed] /\ Answer(i, reply)
      BY <2>1, <2>7
    <3>2. /\ embed \in Models \cup {None}
          /\ {"embed", "panel", "picker"} \subseteq DOMAIN calls[i].arg
          /\ calls[i].arg.picker = TRUE => calls[i].arg.panel = TRUE /\ calls[i].arg.embed # None
      BY <2>4, <2>7 DEF AskedOk
    <3> HIDE DEF embed
    <3>3. reply \in IndexInfo /\ reply.embed = embed
      BY <3>2, InfoOk DEF IndexInfo
    <3> HIDE DEF reply
    <3>4. AskedOk(Become(calls[i], "answered", reply))
      BY <2>7, <3>2, <3>3 DEF AskedOk, Become, embed
    <3>5. KeepsCalls
      BY <2>2, <3>1, <3>4, AnsweredWell
    <3>6. /\ {"ef", "embed"} \subseteq DOMAIN server' /\ server'.ef \in Widths
          /\ server'.embed \in Models \cup {None}
      BY <2>4, <3>1, <3>2
    <3> QED
      BY <2>3, <3>5, <3>6, ServerStep
  <2> QED
    BY <2>2, <2>5, <2>6, <2>7
<1> QED
  BY <1>1, <1>2

LEMMA SavedWaits == ASSUME Inv, Saved PROVE WaitInv'
<1> DEFINE deaf(i) == ~calls[i].live \/ ~calls[i].arg.panel
           done(i) == IF deaf(i) THEN view
                      ELSE IF calls[i].op = "configure"
                      THEN [view EXCEPT !.settings.saving = FALSE]
                      ELSE IF Ok(i)
                      THEN [view EXCEPT !.settings.editing = @ /\ calls[i].arg.embed = None]
                      ELSE IF calls[i].arg.picker
                      THEN [view EXCEPT !.connect.busy = FALSE] ELSE view
<1>1. PICK i \in Arrived("configure") \cup Arrived("setEmbedding") :
        IF calls[i].live /\ Ok(i)
        THEN ShowIndex(done(i), [data |-> calls[i].reply, error |-> view.info.error],
                       Without(i) \o OnChanged)
        ELSE /\ view' = done(i)
             /\ calls' = Without(i) \o (IF Ok(i) THEN OnChanged ELSE <<>>)
             /\ UNCHANGED <<app, server>>
  BY Zenon DEF Saved
<1> DEFINE v0 == done(i)
           rest == IF Ok(i) THEN OnChanged ELSE <<>>
           op == calls[i].op
           arg == calls[i].arg
<1>2. i \in DOMAIN calls /\ op \in {"configure", "setEmbedding"}
  BY <1>1, ArrivedCall
<1>3. CallsOk(rest, server.written) /\ Asked(rest) /\ Waiting(rest) = {}
  BY RestWaits, CallsEmpty, WaitingOne
<1>4. CASE ~calls[i].live
  <2>1. view' = view /\ calls' = Without(i) \o rest /\ me' = me /\ server' = server
    BY <1>1, <1>4 DEF app
  <2>2. ~Waits(calls[i])
    BY <1>4 DEF Waits
  <2> HIDE DEF rest
  <2> QED
    BY <1>2, <1>3, <2>1, <2>2, SameAlike, Unheard
<1>5. CASE calls[i].live
  <2> DEFINE W == Waiting(calls)
             cs == Without(i) \o rest
             X == Waiting(cs)
             a == <<op, arg>>
  <2>1. Waits(calls[i]) /\ PageOf(op) = "index"
    BY <1>2, <1>5 DEF Waits, Awaited, PageOf
  <2>2. view.page = "index"
    BY <1>2, <2>1, AwaitedWaits
  <2>3. /\ Panels(view, calls) /\ ConnectWaits(W, view.connect) /\ MapWaits(W, view)
        /\ a \in W /\ AskedOk(calls[i])
    BY <1>2, <2>1, <2>2, PanelsHere, AwaitedWaits, InvParts DEF Asked, Pair
  <2>4. /\ CallsOk(cs, server.written) /\ Asked(cs) /\ OfPage(X, view)
        /\ X \subseteq W /\ W = X \cup {a}
    <3> HIDE DEF rest
    <3>1. CallsOk(Without(i), server.written)
      BY <1>2, WithoutWaits
    <3>2. CallsOk(cs, server.written)
      BY <1>3, <3>1, CallsConcat
    <3>3. X = Waiting(Without(i)) \cup Waiting(rest) /\ Asked(cs)
      BY <1>2, <1>3, GoesOnWaits
    <3>4. /\ Waiting(Without(i)) \subseteq W
          /\ W = Waiting(Without(i)) \cup {a}
      BY <1>2, <2>1, WithoutWaits DEF Pair
    <3>5. X \subseteq W /\ W = X \cup {a}
      BY <1>3, <3>3, <3>4
    <3>6. OfPage(W, view)
      BY <2>3 DEF Panels
    <3> QED
      BY <3>2, <3>3, <3>5, <3>6 DEF OfPage
  <2>5. a[1] = op /\ a[2] = arg
    OBVIOUS
  <2>6. SameBut(W, X, {op})
    BY <2>4, <2>5 DEF SameBut
  <2>7. PICK s, c : /\ DOMAIN v0 = DOMAIN view /\ v0.page = view.page /\ v0.route = view.route
                    /\ v0.info = view.info /\ v0.browse = view.browse /\ v0.query = view.query
                    /\ v0.upsert = view.upsert /\ v0.seed = view.seed /\ v0.map = view.map
                    /\ v0.settings = s /\ v0.connect = c
                    /\ \/ s = view.settings
                       \/ op = "configure" /\ s = [view.settings EXCEPT !.saving = FALSE]
                       \/ /\ op = "setEmbedding"
                          /\ s = [view.settings EXCEPT !.editing = @ /\ arg.embed = None]
                    /\ \/ c = view.connect
                       \/ /\ op = "setEmbedding" /\ arg.picker = TRUE /\ ~Ok(i)
                          /\ c = [view.connect EXCEPT !.busy = FALSE]
                    /\ op = "configure" /\ arg.panel = TRUE
                         => s = [view.settings EXCEPT !.saving = FALSE]
                    /\ op = "setEmbedding" /\ arg.panel = TRUE /\ Ok(i)
                         => s = [view.settings EXCEPT !.editing = @ /\ arg.embed = None]
                    /\ op = "setEmbedding" /\ arg.panel = TRUE /\ arg.picker = TRUE /\ ~Ok(i)
                         => c = [view.connect EXCEPT !.busy = FALSE]
    <3> DEFINE saved == [view.settings EXCEPT !.saving = FALSE]
               closed == [view.settings EXCEPT !.editing = @ /\ arg.embed = None]
               idle == [view.connect EXCEPT !.busy = FALSE]
    <3>1. {"page", "route", "info", "browse", "query", "upsert", "seed", "settings", "connect",
           "map", "models"} \subseteq DOMAIN view
      BY <2>3 DEF Panels
    <3>2. CASE deaf(i)
      <4>1. v0 = view /\ arg.panel # TRUE
        BY <1>5, <3>2
      <4> QED
        BY <4>1
    <3>3. CASE ~deaf(i) /\ op = "configure"
      <4>1. v0 = [view EXCEPT !.settings = saved]
        BY <3>3
      <4> HIDE DEF v0, saved
      <4>2. /\ DOMAIN v0 = DOMAIN view /\ v0.page = view.page /\ v0.route = view.route
            /\ v0.info = view.info /\ v0.browse = view.browse /\ v0.query = view.query
            /\ v0.upsert = view.upsert /\ v0.seed = view.seed /\ v0.map = view.map
            /\ v0.settings = saved /\ v0.connect = view.connect
        BY <3>1, <4>1
      <4> QED
        BY <3>3, <4>2 DEF saved
    <3>4. CASE ~deaf(i) /\ op = "setEmbedding" /\ Ok(i)
      <4>1. v0 = [view EXCEPT !.settings = closed]
        BY <3>4
      <4> HIDE DEF v0, closed
      <4>2. /\ DOMAIN v0 = DOMAIN view /\ v0.page = view.page /\ v0.route = view.route
            /\ v0.info = view.info /\ v0.browse = view.browse /\ v0.query = view.query
            /\ v0.upsert = view.upsert /\ v0.seed = view.seed /\ v0.map = view.map
            /\ v0.settings = closed /\ v0.connect = view.connect
        BY <3>1, <4>1
      <4> QED
        BY <3>4, <4>2 DEF closed
    <3>5. CASE ~deaf(i) /\ op = "setEmbedding" /\ ~Ok(i) /\ arg.picker
      <4>1. v0 = [view EXCEPT !.connect = idle] /\ arg.picker = TRUE
        BY <3>5
      <4> HIDE DEF v0, idle
      <4>2. /\ DOMAIN v0 = DOMAIN view /\ v0.page = view.page /\ v0.route = view.route
            /\ v0.info = view.info /\ v0.browse = view.browse /\ v0.query = view.query
            /\ v0.upsert = view.upsert /\ v0.seed = view.seed /\ v0.map = view.map
            /\ v0.settings = view.settings /\ v0.connect = idle
        BY <3>1, <4>1
      <4> QED
        BY <3>5, <4>1, <4>2 DEF idle
    <3>6. CASE ~deaf(i) /\ op = "setEmbedding" /\ ~Ok(i) /\ ~arg.picker
      <4>1. v0 = view /\ arg.picker # TRUE
        BY <3>6
      <4> HIDE DEF v0
      <4> QED
        BY <3>6, <4>1
    <3> QED
      BY <1>2, <3>2, <3>3, <3>4, <3>5, <3>6
  <2> HIDE DEF v0, rest, cs, X, W, a
  <2>8. view.info.data # None => SettingsWaits(X, s)
    <3> SUFFICES ASSUME view.info.data # None PROVE SettingsWaits(X, s)
      OBVIOUS
    <3>1. SettingsWaits(W, view.settings)
      BY <2>3 DEF Panels, PanelsWait, W
    <3>2. /\ {"ef", "saving", "editing"} \subseteq DOMAIN s /\ s.ef \in Widths
          /\ s.saving = FALSE \/ s.saving = view.settings.saving
      BY <2>7, <3>1 DEF SettingsWaits
    <3>3. CASE s.saving = FALSE
      BY <3>2, <3>3 DEF SettingsWaits
    <3>4. CASE s.saving # FALSE
      <4>1. s.saving = view.settings.saving
        BY <3>2, <3>4
      <4>2. ~(op = "configure" /\ arg.panel = TRUE)
        BY <2>7, <3>1, <3>4 DEF SettingsWaits
      <4>3. \A b \in W : b[1] = "configure" /\ b[2].panel = TRUE => b \in X
        BY <2>4, <2>5, <4>2
      <4> QED
        BY <3>1, <3>2, <4>1, <4>3 DEF SettingsWaits
    <3> QED
      BY <3>3, <3>4
  <2>9. Panels(v0, cs)
    <3> DEFINE ops == {op}
    <3>1. SameBut(W, X, ops) /\ {"list", "metadata"} \cap ops = {} /\ "query" \notin ops
          /\ "upsert" \notin ops
      BY <1>2, <2>6
    <3> HIDE DEF ops
    <3>2. SameBut(Waiting(calls), Waiting(cs), ops)
      BY <3>1 DEF W, X
    <3>3. view.info.data # None => SettingsWaits(Waiting(cs), v0.settings)
      BY <2>7, <2>8 DEF X
    <3>4. OfPage(Waiting(cs), view)
      BY <2>4 DEF X
    <3> QED
      BY <2>3, <2>4, <2>7, <3>1, <3>2, <3>3, <3>4, PanelsMove
  <2>10. MapWaits(X, v0)
    <3>1. {"map", "neighbours"} \cap {op} = {}
      BY <1>2
    <3>2. /\ view.info.data = None <=> v0.info.data = None
          /\ v0.map = view.map /\ v0.route = view.route
      BY <2>7
    <3>3. MapWaits(W, view)
      BY <2>3 DEF W
    <3> QED
      BY <2>6, <3>1, <3>2, <3>3, MapStill
  <2>11. op = "configure" => ConnectWaits(X, view.connect)
    <3>1. op = "configure" => {"setEmbedding", "fields"} \cap {op} = {}
      OBVIOUS
    <3> QED
      BY <2>3, <2>6, <3>1, PanelsSame
  <2>12. /\ Picked(X) => Picked(W)
         /\ For(X, {"fields"}) => For(W, {"fields"})
         /\ Picked(W) => Picked(X) \/ (op = "setEmbedding" /\ arg.picker = TRUE)
    <3>1. Picked(X) => Picked(W)
      BY <2>4 DEF Picked
    <3>2. For(X, {"fields"}) => For(W, {"fields"})
      BY <2>4 DEF For
    <3>3. Picked(W) => Picked(X) \/ (op = "setEmbedding" /\ arg.picker = TRUE)
      BY <2>4, <2>5 DEF Picked
    <3> QED
      BY <3>1, <3>2, <3>3
  <2>13. /\ op = "setEmbedding" /\ arg.picker = TRUE => Picked(W) /\ view.connect # None
         /\ view.connect # None => view.connect \in ConnectState
    <3>1. op = "setEmbedding" /\ arg.picker = TRUE => Picked(W)
      BY <2>3, <2>5 DEF Picked
    <3> QED
      BY <2>3, <3>1 DEF ConnectWaits, W
  <2>14. ~(op = "setEmbedding" /\ arg.picker = TRUE) => ConnectWaits(X, view.connect)
    BY <2>3, <2>12 DEF ConnectWaits, W
  <2>15. CASE ~Ok(i)
    <3>1. view' = v0 /\ calls' = cs /\ me' = me /\ server' = server
      BY <1>1, <2>15 DEF app, v0, cs, rest
    <3>2. ConnectWaits(X, c)
      <4>1. CASE op = "setEmbedding" /\ arg.picker = TRUE
        <5>1. {"embed", "panel", "picker"} \subseteq DOMAIN arg /\ arg.panel = TRUE
          BY <2>3, <4>1 DEF AskedOk
        <5>2. c = [view.connect EXCEPT !.busy = FALSE]
          BY <2>7, <2>15, <4>1, <5>1
        <5>3. c \in ConnectState /\ c.busy = FALSE /\ c # None
          BY <2>13, <4>1, <5>2, NoPickerAssumption DEF ConnectState
        <5> QED
          BY <5>3 DEF ConnectWaits
      <4>2. CASE ~(op = "setEmbedding" /\ arg.picker = TRUE) /\ c = view.connect
        BY <2>14, <4>2
      <4>3. CASE ~(op = "setEmbedding" /\ arg.picker = TRUE) /\ c # view.connect
        BY <2>7, <4>3
      <4> QED
        BY <4>1, <4>2, <4>3
    <3>3. KeepsServer
      BY <3>1, InvParts, ServerKept
    <3>4. Panels(view', calls') /\ view'.route = view.route /\ view'.connect = c
      BY <2>7, <2>9, <3>1
    <3>5. ConnectWaits(Waiting(calls'), view'.connect) /\ MapWaits(Waiting(calls'), view')
      BY <2>10, <3>1, <3>2, <3>4 DEF X
    <3> QED
      BY <2>2, <3>1, <3>3, <3>4, <3>5, PanelsStep
  <2>16. CASE Ok(i)
    <3> DEFINE poll == [data |-> calls[i].reply, error |-> view.info.error]
    <3>1. ShowIndex(v0, poll, cs)
      BY <1>1, <1>5, <2>16 DEF v0, cs, rest
    <3>2. calls[i].reply \in IndexInfo /\ (op = "setEmbedding" => calls[i].reply.embed = arg.embed)
      BY <1>2, <2>3, <2>16 DEF AskedOk, Ok
    <3>3. /\ {"data", "error"} \subseteq DOMAIN poll /\ poll.data = calls[i].reply
          /\ poll.data # None
      BY <3>2, NoInfoAssumption
    <3> HIDE DEF poll
    <3>4. c = view.connect
      BY <2>7, <2>16
    <3>5. \/ ConnectWaits(Waiting(cs), v0.connect)
          \/ /\ v0.connect # None
             /\ poll.data # None /\ (v0.info.data # None => ~v0.settings.editing)
             /\ poll.data.embed # None
      <4>1. CASE op = "setEmbedding" /\ arg.picker = TRUE
        <5>1. {"embed", "panel", "picker"} \subseteq DOMAIN arg /\ arg.panel = TRUE
              /\ arg.embed # None
          BY <2>3, <4>1 DEF AskedOk
        <5>2. s = [view.settings EXCEPT !.editing = @ /\ arg.embed = None]
          BY <2>7, <2>16, <4>1, <5>1
        <5>3. v0.info.data # None => "editing" \in DOMAIN view.settings
          BY <2>3, <2>7 DEF Panels, PanelsWait, SettingsWaits
        <5>4. v0.info.data # None => ~s.editing
          BY <5>1, <5>2, <5>3
        <5> QED
          BY <2>7, <2>13, <3>2, <3>3, <3>4, <4>1, <5>1, <5>4
      <4>2. CASE ~(op = "setEmbedding" /\ arg.picker = TRUE)
        BY <2>7, <2>14, <3>4, <4>2 DEF X
      <4> QED
        BY <4>1, <4>2
    <3>6. MapWaits(Waiting(cs), v0)
      BY <2>10 DEF X
    <3>7. v0.route = view.route /\ poll.data \in IndexInfo \cup {None}
          /\ (poll.data = None => v0.info.data = None)
      BY <2>7, <3>2, <3>3
    <3> QED
      BY <2>2, <2>9, <3>1, <3>3, <3>5, <3>6, <3>7, ShowIndexWaits
  <2> QED
    BY <2>15, <2>16
<1> QED
  BY <1>4, <1>5

LEMMA IndexDeletedWaits == ASSUME Inv, IndexDeleted PROVE WaitInv'
<1> DEFINE rest(i) == IF Ok(i) THEN OnChanged ELSE <<>>
<1>1. PICK i \in Arrived("deleteIndex") :
        /\ \/ view' = view
           \/ calls[i].live /\ view' = [view EXCEPT !.settings = [@ EXCEPT !.deleting = FALSE]]
        /\ calls' = Without(i) \o rest(i) /\ me' = me /\ server' = server
  BY DEF IndexDeleted
<1> DEFINE ds == rest(i)
<1>2. i \in DOMAIN calls /\ calls[i].op = "deleteIndex"
  BY <1>1, ArrivedCall
<1>3. CallsOk(ds, server.written) /\ Asked(ds) /\ Waiting(ds) = {}
  BY RestWaits, CallsEmpty, WaitingOne
<1>4. calls' = Without(i) \o ds
  BY <1>1
<1> HIDE DEF rest, ds
<1>5. CASE ~calls[i].live
  <2>1. ~Waits(calls[i])
    BY <1>5 DEF Waits
  <2>2. view' = view
    BY <1>1, <1>5
  <2> QED
    BY <1>1, <1>2, <1>3, <1>4, <2>1, <2>2, SameAlike, Unheard
<1>6. CASE calls[i].live
  <2> DEFINE ops == {"deleteIndex", "index"}
  <2>1. Waits(calls[i]) /\ PageOf("deleteIndex") = "index"
    BY <1>2, <1>6 DEF Waits, Awaited, PageOf
  <2>2. view.page = "index"
    BY <1>2, <2>1, AwaitedWaits
  <2>3. /\ SameBut(Waiting(calls), Waiting(calls'), ops) /\ Asked(calls')
        /\ OfPage(Waiting(calls'), view)
    BY <1>2, <1>3, <1>4, <2>2, OneLess
  <2>4. /\ {"list", "metadata"} \cap ops = {} /\ "query" \notin ops /\ "upsert" \notin ops
        /\ "configure" \notin ops /\ {"setEmbedding", "fields"} \cap ops = {}
        /\ {"map", "neighbours"} \cap ops = {}
    OBVIOUS
  <2> HIDE DEF ops
  <2>5. KeepsServer
    BY <1>1, InvParts, ServerKept
  <2>6. /\ view'.page = view.page /\ view'.route = view.route /\ view'.info = view.info
        /\ DOMAIN view' = DOMAIN view /\ view'.browse = view.browse /\ view'.query = view.query
        /\ view'.upsert = view.upsert /\ view'.seed = view.seed
        /\ view'.connect = view.connect /\ view'.map = view.map
        /\ \/ view'.settings = view.settings
           \/ view'.settings = [view.settings EXCEPT !.deleting = FALSE]
    BY <1>1, <2>2, IndexParts
  <2>7. view.info.data # None => SettingsWaits(Waiting(calls'), view'.settings)
    <3> SUFFICES ASSUME view.info.data # None
                 PROVE  SettingsWaits(Waiting(calls'), view'.settings)
      OBVIOUS
    <3>1. SettingsWaits(Waiting(calls), view.settings)
      BY <2>2, IndexParts DEF PanelsWait
    <3>2. SettingsWaits(Waiting(calls'), view.settings)
      BY <2>3, <2>4, <3>1, PanelsSame
    <3> QED
      BY <2>6, <3>2 DEF SettingsWaits
  <2> QED
    BY <1>1, <2>2, <2>3, <2>4, <2>5, <2>6, <2>7, IndexMoves
<1> QED
  BY <1>5, <1>6

LEMMA IndexWaited == ASSUME Inv, IndexNext PROVE WaitInv'
BY IndexPolled, IndexLoadedWaits, SettingsClicked, SettingsServed, SavedWaits, IndexDeletedWaits
   DEF IndexNext

---------------------------------------------------------------------------
(* The app: the list of indexes and the models come to the page            *)

LEMMA ListHeard == ASSUME Inv, IndexesLoaded PROVE WaitInv'
<1>1. PICK i, list :
         /\ i \in Arrived("indexes") /\ me' = me /\ server' = server
         /\ \/ view' = Listed(view, list) /\ calls' = RemoveAt(ListedCalls(view, list), i)
            \/ view' = view /\ calls' = Without(i)
  <2>1. PICK i \in Arrived("indexes") :
           /\ IF calls[i].live
              THEN LET all == Polled(shell.indexes, i) IN
                   /\ shell' = [shell EXCEPT !.indexes = all]
                   /\ view' = Listed(view, all.data)
                   /\ calls' = RemoveAt(ListedCalls(view, all.data), i)
              ELSE calls' = Without(i) /\ UNCHANGED <<shell, view>>
           /\ UNCHANGED <<me, catalog, hash, server>>
    BY Zenon DEF IndexesLoaded
  <2> QED
    BY <2>1
<1>2. i \in DOMAIN calls /\ calls[i].op = "indexes"
  BY <1>1, ArrivedCall
<1>3. "indexes" \notin Awaited
  BY DEF Awaited
<1>4. CASE view' = view /\ calls' = Without(i)
  BY <1>1, <1>2, <1>3, <1>4, OtherCallWaits, SameAlike, DeliveredQuiet
<1>5. CASE Listed(view, list) = view
  <2>1. view' = view /\ calls' = Without(i)
    BY <1>1, <1>5 DEF ListedCalls, Without
  <2> QED
    BY <1>4, <2>1
<1>6. CASE Listed(view, list) # view /\ ~(view' = view /\ calls' = Without(i))
  <2>1. view' = Listed(view, list) /\ calls' = RemoveAt(Outdated("search"), i)
    BY <1>1, <1>6 DEF ListedCalls
  <2> DEFINE r == Renamed(view.search, IndexFor(view.search.asks.index, list))
  <2>2. view.page = "playground" /\ view.search # None
    BY <1>6 DEF Listed
  <2>3. SearchOk(view.search) /\ IsFunction(view) /\ {"search", "compare"} \subseteq DOMAIN view
    BY <2>2, PlaygroundParts
  <2>4. \/ view' = [view EXCEPT !.search = r] /\ r = view.search
        \/ view' = [view EXCEPT !.search = SearchAgain(r, list)]
    BY <1>6, <2>1, <2>2 DEF Listed
  <2>5. DOMAIN r = DOMAIN view.search
    BY DEF Renamed
  <2> HIDE DEF r
  <2>6. view' = [view EXCEPT !.search = SearchAgain(r, list)]
    <3>1. CASE view' = [view EXCEPT !.search = r] /\ r = view.search
      <4>1. [view EXCEPT !.search = view.search] = [f \in DOMAIN view |-> view[f]]
        OBVIOUS
      <4>2. view' = view
        BY <2>3, <3>1, <4>1 DEF IsFunction
      <4> QED
        BY <1>6, <2>1, <4>2
    <3> QED
      BY <2>4, <3>1
  <2>7. SearchAgain(r, list).wait \/ ~SearchAgain(r, list).busy
    BY <2>3, <2>5, SearchAgainWaits DEF SearchOk
  <2> DEFINE s == SearchAgain(r, list)
             cs == Outdated("search")
  <2>8. view' = [view EXCEPT !.search = s] /\ SearchWaits(Waiting(calls'), s)
    BY <2>6, <2>7 DEF SearchWaits
  <2> HIDE DEF s
  <2>9. /\ DOMAIN cs = DOMAIN calls /\ Asked(cs) /\ cs[i].op = "indexes"
        /\ Latest(Waiting(calls), "compare") => Latest(Waiting(cs), "compare")
        /\ OfPage(Waiting(cs), view)
    <3>1. "search" \notin Checked /\ "compare" # "search"
      BY DEF Checked
    <3> QED
      BY <1>2, <3>1, OutdatedWaits
  <2>10. CallsOk(cs, server.written)
    BY InvParts, OutdatedCalls DEF Watched
  <2> HIDE DEF cs
  <2>11. calls' = RemoveAt(cs, i)
    BY <2>1 DEF cs
  <2>12. ~Waits(cs[i])
    BY <1>3, <2>9 DEF Waits
  <2>13. Waiting(calls') = Waiting(cs) /\ Asked(calls')
    BY <1>2, <2>9, <2>10, <2>11, <2>12, WaitingDrop
  <2> QED
    BY <1>1, <2>2, <2>8, <2>9, <2>13, InvParts, ServerKept, SearchMoves
<1> QED
  BY <1>4, <1>5, <1>6

\* A comparison without a model waits for nothing, and does not when it gets one
LEMMA ModelsHeard == ASSUME Inv, ModelsLoaded PROVE WaitInv'
<1>1. PICK i \in Arrived("models") :
         /\ view' = view \/ view' = WithModels(view, calls[i].reply)
         /\ calls' = Without(i) /\ me' = me /\ server' = server
  BY DEF ModelsLoaded
<1>2. i \in DOMAIN calls /\ ~Waits(calls[i])
  <2>1. i \in DOMAIN calls /\ calls[i].op = "models"
    BY ArrivedCall
  <2> QED
    BY <2>1, OtherCallWaits DEF Awaited
<1>3. KeepsServer /\ KeepsCalls /\ Waiting(calls') = Waiting(calls) /\ Asked(calls')
  BY <1>1, <1>2, DeliveredKept, ServerKept, InvParts DEF KeepsCalls
<1> DEFINE seen == calls[i].reply
           models == [view.models EXCEPT !.seen = seen]
           w == [view EXCEPT !.models = models]
<1>4. w = [view EXCEPT !.models.seen = seen]
  OBVIOUS
<1>5. Alike(view, w)
  <2> HIDE DEF models
  <2>1. "models" \notin Waited
    BY DEF Waited
  <2> QED
    BY <2>1, FieldAlike
<1> HIDE DEF w
<1>6. CASE view' = view \/ view' = w
  BY <1>1, <1>3, <1>5, <1>6, SameAlike, QuietStep
<1>7. Screen(Waiting(calls'), w) /\ w.page = view.page /\ w.route = view.route
  BY <1>3, <1>5, InvParts, AlikeScreen, AlikeFields
<1>8. CASE view.page = "indexes" /\ view' = WithModels(view, seen)
  <2> DEFINE sheet == [w.sheet EXCEPT !.model = StartOn(@, seen)]
  <2>1. view' = [w EXCEPT !.sheet = sheet]
    BY <1>4, <1>8 DEF WithModels
  <2>2. OfPage(Waiting(calls'), w) /\ IndexesWaits(Waiting(calls'), w)
    BY <1>7, <1>8, IndexesScreen
  <2>3. "busy" \in DOMAIN sheet /\ sheet.busy = w.sheet.busy
    BY <2>2 DEF IndexesWaits
  <2> HIDE DEF sheet
  <2>4. /\ view'.sheet = sheet /\ DOMAIN view' = DOMAIN w /\ view'.creating = w.creating
        /\ view'.page = w.page /\ view'.route = w.route
    BY <2>1, <2>2 DEF IndexesWaits
  <2>5. OfPage(Waiting(calls'), view') /\ IndexesWaits(Waiting(calls'), view')
    BY <2>2, <2>3, <2>4 DEF OfPage, IndexesWaits
  <2> QED
    BY <1>1, <1>3, <1>7, <1>8, <2>4, <2>5, IndexesScreen, PageStep
<1>9. CASE /\ view.page = "playground" /\ view.compare # None
           /\ view.compare.asks.picked = <<>> /\ view' = WithModels(view, seen)
  <2> DEFINE old == view.compare
             a == [old.asks EXCEPT !.picked = Picks(<<>>, seen)]
             o == [old EXCEPT !.asks = a]
             c == [o EXCEPT !.wait = Comparable(o)]
  <2>1. CompareOk(old) /\ ~old.busy
    BY <1>9, PlaygroundParts DEF CompareWaits
  <2>2. ~c.busy
    <3> HIDE DEF a
    <3>1. o.busy = old.busy /\ "busy" \in DOMAIN o
      BY <2>1 DEF CompareOk
    <3> HIDE DEF o
    <3> QED
      BY <2>1, <3>1
  <2>3. w.compare = old /\ w.search = view.search /\ DOMAIN w = DOMAIN view
        /\ {"page", "route", "search", "compare"} \subseteq DOMAIN w
    <3>1. {"page", "route", "search", "compare"} \subseteq DOMAIN view
      BY <1>9, PlaygroundParts
    <3> QED
      BY <1>5, <3>1 DEF Alike, Waited
  <2>4. view' = [w EXCEPT !.compare = c]
    <3>1. view' = [w EXCEPT !.compare = Compares([@ EXCEPT !.asks.picked = Picks(<<>>, seen)])]
      BY <1>4, <1>9 DEF WithModels
    <3>2. [old EXCEPT !.asks.picked = Picks(<<>>, seen)] = o
      OBVIOUS
    <3>3. Compares(o) = c
      BY DEF Compares
    <3> HIDE DEF o, c
    <3>4. view' = [w EXCEPT !.compare = Compares(o)]
      BY <2>3, <3>1, <3>2
    <3> QED
      BY <3>3, <3>4
  <2> HIDE DEF c
  <2>5. /\ view'.page = "playground" /\ view'.route = w.route /\ IsFunction(view')
        /\ view'.search = w.search /\ view'.compare = c
    BY <1>7, <1>9, <2>3, <2>4 DEF IsFunction
  <2>6. OfPage(Waiting(calls'), w) /\ (w.search # None => SearchWaits(Waiting(calls'), w.search))
    BY <1>7, <1>9, PlaygroundScreen
  <2>7. CompareWaits(Waiting(calls'), c)
    BY <2>2 DEF CompareWaits
  <2>8. OfPage(Waiting(calls'), view')
    BY <1>7, <1>9, <2>5, <2>6 DEF OfPage
  <2>9. Screen(Waiting(calls'), view')
    BY <2>5, <2>6, <2>7, <2>8, PlaygroundScreen
  <2> QED
    BY <1>1, <1>3, <1>7, <1>9, <2>5, <2>9, PageStep
<1> QED
  BY <1>1, <1>4, <1>6, <1>8, <1>9 DEF WithModels

---------------------------------------------------------------------------
(* Pages that mount: they wait for nothing                                 *)

\* What App shows fits who is signed in, and the page waits for nothing
Idle(v, route, m) == /\ Frame(v.page) = Slot(route, m) /\ v.route = route
                     /\ PageWaits({}, v)

LEMMA PlainIdle ==
  ASSUME NEW v, NEW route, NEW m, v.route = route, Frame(v.page) = Slot(route, m),
         v.page \notin {"signin", "keys", "providers", "indexes", "playground", "index"}
  PROVE  Idle(v, route, m)
BY DEF Idle, PageWaits

LEMMA PagesIdle ==
  ASSUME NEW route, NEW m, Slot(route, m) = "shell"
  PROVE  /\ Idle(KeysMount(route), route, m) /\ Idle(ProvidersMount(route), route, m)
         /\ Idle(IndexesMount(route, m), route, m) /\ Idle(IndexMount(route), route, m)
<1>1. Idle(KeysMount(route), route, m)
  BY DEF Idle, Frame, PageWaits, KeysWaits, KeysMount, BlankKeySheet
<1>2. Idle(ProvidersMount(route), route, m)
  BY NoCheckAssumption
     DEF Idle, Frame, PageWaits, ProvidersWaits, ProvidersMount, BlankProviderSheet
<1>3. Idle(IndexesMount(route, m), route, m)
  <2> DEFINE v == IndexesMount(route, m)
             sheet == [BlankIndexSheet EXCEPT !.model = StartOn(@, NewModels.seen)]
  <2>1. "busy" \in DOMAIN sheet /\ ~sheet.busy
    BY DEF BlankIndexSheet
  <2>2. /\ v.page = "indexes" /\ v.route = route /\ v.sheet = sheet
        /\ {"sheet", "creating"} \subseteq DOMAIN v
    BY DEF IndexesMount
  <2> HIDE DEF v, sheet
  <2>3. Idle(v, route, m)
    BY <2>1, <2>2 DEF Idle, Frame, PageWaits, IndexesWaits
  <2> QED
    BY <2>3 DEF v
<1>4. Idle(IndexMount(route), route, m)
  <2> DEFINE v == IndexMount(route)
  <2>1. /\ v.page = "index" /\ v.route = route /\ v.info = NoData
        /\ v.connect = None /\ v.map = None
        /\ {"info", "browse", "query", "upsert", "seed", "settings", "connect", "map", "models"}
              \subseteq DOMAIN v
    BY DEF IndexMount
  <2>2. {"data", "error"} \subseteq DOMAIN NoData /\ NoData.data = None
    BY DEF NoData
  <2> HIDE DEF v
  <2>3. ConnectWaits({}, v.connect)
    BY <2>1 DEF ConnectWaits, Picked, For
  <2>4. MapWaits({}, v)
    BY <2>1, <2>2 DEF MapWaits, For
  <2>5. IndexWaits({}, v)
    BY <2>1, <2>2, <2>3, <2>4 DEF IndexWaits
  <2>6. Idle(v, route, m)
    BY <2>1, <2>5 DEF Idle, Frame, PageWaits
  <2> QED
    BY <2>6 DEF v
<1> QED
  BY <1>1, <1>2, <1>3, <1>4

LEMMA PlaygroundIdle ==
  ASSUME NEW route, NEW m
  PROVE  LET v == PlaygroundMount(route, m) IN
         v.page = "playground" /\ v.route = route /\ PlaygroundWaits({}, v)
<1> DEFINE v == PlaygroundMount(route, m)
<1>1. /\ v.page = "playground" /\ v.route = route /\ v = [f \in DOMAIN v |-> v[f]]
      /\ v.search \in {None, SearchMount} /\ v.compare \in {None, CompareMount(NewModels.seen, m)}
  BY DEF PlaygroundMount
<1>2. ~SearchMount.busy
  BY DEF SearchMount
<1>3. ~CompareMount(NewModels.seen, m).busy
  BY DEF CompareMount
<1> HIDE DEF v
<1>4. PlaygroundWaits({}, v)
  BY <1>1, <1>2, <1>3 DEF PlaygroundWaits
<1> QED
  BY <1>1, <1>4 DEF v

LEMMA MountedWaits ==
  ASSUME NEW route, NEW m
  PROVE  LET p == Mounted(route, m) IN
         /\ Idle(p.view, route, m) /\ Waiting(p.calls) = {} /\ Asked(p.calls)
<1> DEFINE Fresh(p) == /\ Idle(p.view, route, m) /\ Waiting(p.calls) = {} /\ Asked(p.calls)
<1>1. ASSUME NEW v, Idle(v, route, m) PROVE Fresh(Alone(v)) /\ Fresh(WithCatalog(v))
  BY <1>1, RestWaits, WaitingOne DEF Alone, WithCatalog
<1> HIDE DEF Fresh
<1>2. ASSUME Slot(route, m) \in {"out", "boot", "docs"} PROVE Fresh(Mounted(route, m))
  <2>1. CASE Slot(route, m) = "out"
    <3>1. Idle(SignInMount(route), route, m)
      BY <2>1 DEF Idle, Frame, PageWaits, SignInWaits, SignInMount
    <3> QED
      BY <1>1, <2>1, <3>1 DEF Mounted
  <2>2. CASE Slot(route, m) = "boot"
    <3> DEFINE v == [page |-> "boot", route |-> route]
    <3>1. v.page = "boot" /\ v.route = route
      OBVIOUS
    <3> HIDE DEF v
    <3>2. Idle(v, route, m)
      BY <2>2, <3>1, PlainIdle DEF Frame
    <3> QED
      BY <1>1, <2>2, <3>2 DEF Mounted, v
  <2>3. CASE Slot(route, m) = "docs"
    <3>1. Idle(DocsMount(route), route, m)
      BY <2>3, PlainIdle DEF Frame, DocsMount
    <3> QED
      BY <1>1, <2>3, <3>1 DEF Mounted
  <2> QED
    BY <1>2, <2>1, <2>2, <2>3
<1>3. ASSUME Slot(route, m) \notin {"out", "boot", "docs"} PROVE Fresh(Mounted(route, m))
  <2>1. Slot(route, m) = "shell" /\ Mounted(route, m) = MountPage(route, m)
    BY <1>3 DEF Slot, Mounted
  <2>2. /\ Idle(Elsewhere(route), route, m) /\ Idle(OverviewMount(route), route, m)
        /\ Idle(SecurityMount(route), route, m)
    BY <2>1, PlainIdle DEF Elsewhere, OverviewMount, SecurityMount, Frame
  <2>3. Idle(PlaygroundMount(route, m), route, m)
    BY <2>1, PlaygroundIdle DEF Idle, Frame, PageWaits
  <2>4. Fresh(MountPage(route, m))
    BY <1>1, <2>1, <2>2, <2>3, PagesIdle DEF MountPage
  <2> QED
    BY <2>1, <2>4
<1>4. Fresh(Mounted(route, m))
  BY <1>2, <1>3
<1> QED
  BY <1>4 DEF Fresh

\* A page that is new, and what was asked for the one before it is not heard
LEMMA AnewWaits ==
  ASSUME Inv, NEW route, NEW m, me' = m, server' = server, NEW cs,
         CallsOk(cs, server.written), Asked(cs), Waiting(cs) = {},
         view' = Mounted(route, m).view, calls' = cs \o Mounted(route, m).calls
  PROVE  WaitInv'
<1> DEFINE p == Mounted(route, m)
<1>1. Idle(p.view, route, m) /\ Waiting(p.calls) = {} /\ Asked(p.calls)
  BY MountedWaits
<1>2. CallsOk(p.calls, server.written)
  BY MountedFresh
<1>3. view' = p.view /\ calls' = cs \o p.calls
  OBVIOUS
<1> HIDE DEF p
<1>4. Waiting(calls') = {} /\ Asked(calls')
  BY <1>1, <1>2, <1>3, WaitingConcat
<1>5. FrameOk(view', me') /\ PageWaits({}, view')
  BY <1>1, <1>3 DEF Idle, FrameOk
<1>6. OfPage({}, view')
  BY DEF OfPage
<1> QED
  BY <1>4, <1>5, <1>6 DEF Inv, WaitInv

\* All that a page awaits is dropped with it
LEMMA DroppedWaits ==
  ASSUME Inv, NEW ds, DOMAIN ds = DOMAIN calls,
         \A i \in DOMAIN calls : \E x : /\ ds[i] = [calls[i] EXCEPT !.live = x]
                                        /\ calls[i].op \in Awaited => ~x
  PROVE  Waiting(ds) = {} /\ Asked(ds)
<1>1. ASSUME NEW i \in DOMAIN ds
      PROVE  AskedOk(ds[i]) /\ ~(ds[i].live /\ ds[i].op \in Awaited)
  <2>1. IsCall(calls[i]) /\ AskedOk(calls[i])
    BY InvParts, CallsElement DEF CallOk, Asked
  <2>2. PICK x : ds[i] = [calls[i] EXCEPT !.live = x] /\ (calls[i].op \in Awaited => ~x)
    BY Zenon
  <2>3. ds[i] = [op |-> calls[i].op, arg |-> calls[i].arg, live |-> x, st |-> calls[i].st,
                 reply |-> calls[i].reply]
    BY <2>1, <2>2, CallMade
  <2>4. AskedOk(ds[i])
    BY <2>1, <2>3, AskedAlike
  <2>5. ds[i].op = calls[i].op /\ ds[i].live = x
    BY <2>3
  <2> QED
    BY <2>2, <2>4, <2>5
<1>2. Asked(ds)
  BY <1>1 DEF Asked
<1>3. Waiting(ds) = {}
  BY <1>1 DEF Waiting
<1> QED
  BY <1>2, <1>3

\* A page that stays with its new address
LEMMA RouteStep ==
  ASSUME Inv, KeepsServer, Asked(calls'), me' = me, view'.page = view.page,
         Slot(view'.route, me) = Slot(view.route, me), Screen(Waiting(calls'), view')
  PROVE  WaitInv'
BY DEF Inv, WaitInv, KeepsServer, FrameOk, Screen

LEMMA PlaygroundTab ==
  ASSUME Inv, view.page = "playground", me' = me, server' = server, NEW route,
         Slot(route, me) = Slot(view.route, me),
         view' = PlaygroundRouted(route).view, calls' = PlaygroundRouted(route).calls
  PROVE  WaitInv'
<1>1. KeepsServer
  BY InvParts, ServerKept
<1>2. CASE route.tab = view.route.tab
  <2>1. view' = [view EXCEPT !.route = route] /\ calls' = calls
    BY <1>2 DEF PlaygroundRouted, OtherTab
  <2>2. /\ view'.page = "playground" /\ view'.route = route /\ IsFunction(view')
        /\ view'.search = view.search /\ view'.compare = view.compare
    BY <2>1, PlaygroundParts DEF IsFunction
  <2>3. OfPage(Waiting(calls'), view')
    BY <2>1, <2>2, PlaygroundParts DEF OfPage
  <2>4. Screen(Waiting(calls'), view')
    BY <2>1, <2>2, <2>3, PlaygroundParts, PlaygroundScreen
  <2> QED
    BY <1>1, <2>1, <2>2, <2>4, InvParts, RouteStep
<1>3. CASE route.tab # view.route.tab
  <2> DEFINE from == [i \in DOMAIN calls |-> calls[i].op \in {"search", "compare"}]
             v == PlaygroundMount(route, me)
  <2>1. view' = v /\ calls' = Orphan(from) \o SubscribeCalls
    BY <1>3 DEF PlaygroundRouted, OtherTab
  <2>2. \A i \in DOMAIN calls : from[i] <=> calls[i].op \in {"search", "compare"}
    OBVIOUS
  <2> HIDE DEF from
  <2>3. /\ \A a \in Waiting(Orphan(from)) : a[1] \notin {"search", "compare"}
        /\ Asked(Orphan(from)) /\ OfPage(Waiting(Orphan(from)), view)
        /\ CallsOk(Orphan(from), server.written)
    BY <2>2, InvParts, PlaygroundParts, OrphanWaits, CallsOrphan
  <2>4. Waiting(calls') = {} /\ Asked(calls')
    <3>1. Waiting(Orphan(from)) = {}
      <4> SUFFICES ASSUME NEW a \in Waiting(Orphan(from)) PROVE FALSE
        OBVIOUS
      <4>1. PageOf(a[1]) = "playground"
        BY <2>3 DEF OfPage
      <4> QED
        BY <2>3, <4>1 DEF PageOf
    <3>2. /\ CallsOk(SubscribeCalls, server.written) /\ Asked(SubscribeCalls)
          /\ Waiting(SubscribeCalls) = {}
      BY RestWaits
    <3> QED
      BY <2>1, <2>3, <3>1, <3>2, WaitingConcat
  <2>5. v.page = "playground" /\ v.route = route /\ PlaygroundWaits({}, v)
    BY PlaygroundIdle
  <2> HIDE DEF v
  <2>6. Screen({}, v)
    BY <2>5 DEF Screen, OfPage, PageWaits
  <2> QED
    BY <1>1, <2>1, <2>3, <2>4, <2>5, <2>6, RouteStep
<1> QED
  BY <1>2, <1>3

\* The tabs of an index: Explore takes its map away when it goes, and what was
\* asked for it is dropped
LEMMA IndexTab ==
  ASSUME Inv, view.page = "index", me' = me, server' = server, NEW route,
         Slot(route, me) = Slot(view.route, me),
         view' = IndexRouted(route).view, calls' = IndexRouted(route).calls
  PROVE  WaitInv'
<1> DEFINE kinds == {"map", "neighbours"}
           from == [i \in DOMAIN calls |-> calls[i].op \in kinds]
           m == IF route.tab = "explore" THEN view.map ELSE None
           r == [view EXCEPT !.route = route]
           x == [r EXCEPT !.map = m]
           cs == IF route.tab = "explore" THEN calls ELSE Orphan(from)
           same == route.tab = view.route.tab /\ (route.tab = "query" => route.like = None)
<1>1. KeepsServer
  BY InvParts, ServerKept
<1>2. /\ Panels(view, calls) /\ ConnectWaits(Waiting(calls), view.connect)
      /\ MapWaits(Waiting(calls), view)
  BY PanelsHere
<1>3. /\ {"page", "route", "info", "browse", "query", "upsert", "seed", "settings", "connect",
          "map", "models"} \subseteq DOMAIN view
      /\ OfPage(Waiting(calls), view)
  BY IndexParts
<1>4. /\ view.info.data = None \/ same => view' = x /\ calls' = cs
      /\ ~(view.info.data = None \/ same) => /\ view' = Activate(x, cs).view
                                             /\ calls' = Activate(x, cs).calls
  <2>1. x = [view EXCEPT !.route = route, !.map = IF route.tab = "explore" THEN @ ELSE None]
    OBVIOUS
  <2> QED
    BY <2>1 DEF IndexRouted
<1>5. /\ DOMAIN x = DOMAIN view /\ x.page = view.page /\ x.route = route /\ x.info = view.info
      /\ x.browse = view.browse /\ x.query = view.query /\ x.upsert = view.upsert
      /\ x.seed = view.seed /\ x.settings = view.settings /\ x.connect = view.connect
      /\ x.map = m
  <2>1. /\ DOMAIN r = DOMAIN view /\ r.page = view.page /\ r.route = route /\ r.info = view.info
        /\ r.browse = view.browse /\ r.query = view.query /\ r.upsert = view.upsert
        /\ r.seed = view.seed /\ r.settings = view.settings /\ r.connect = view.connect
    BY <1>3
  <2> HIDE DEF r, m
  <2> QED
    BY <1>3, <2>1
<1> HIDE DEF x
<1>6. /\ SameBut(Waiting(calls), Waiting(cs), kinds) /\ CallsOk(cs, server.written) /\ Asked(cs)
      /\ OfPage(Waiting(cs), view)
      /\ route.tab # "explore" => ~For(Waiting(cs), kinds)
  <2>1. CASE route.tab = "explore"
    BY <1>3, <2>1, InvParts DEF SameBut
  <2>2. CASE route.tab # "explore"
    <3>1. \A i \in DOMAIN calls : from[i] <=> calls[i].op \in kinds
      OBVIOUS
    <3> HIDE DEF from, kinds
    <3>2. /\ SameBut(Waiting(calls), Waiting(Orphan(from)), kinds)
          /\ \A a \in Waiting(Orphan(from)) : a[1] \notin kinds
          /\ Asked(Orphan(from)) /\ OfPage(Waiting(Orphan(from)), view)
      BY <1>3, <3>1, InvParts, OrphanWaits
    <3>3. CallsOk(Orphan(from), server.written)
      BY InvParts, CallsOrphan
    <3> QED
      BY <2>2, <3>2, <3>3 DEF For
  <2> QED
    BY <2>1, <2>2
<1>7. route.tab = "explore" => cs = calls
  OBVIOUS
<1> HIDE DEF cs
<1>8. Panels(x, cs)
  BY <1>2, <1>5, <1>6, PanelsMove
<1>9. ConnectWaits(Waiting(cs), x.connect)
  BY <1>2, <1>5, <1>6, PanelsSame
<1>10. route.tab # "explore" => MapWaits(Waiting(cs), x)
  BY <1>5, <1>6 DEF MapWaits, For
<1>11. ASSUME Panels(view', calls'), ConnectWaits(Waiting(calls'), view'.connect),
              MapWaits(Waiting(calls'), view'), view'.route = route
       PROVE  WaitInv'
  <2>1. IndexWaits(Waiting(calls'), view') /\ view'.page = "index"
        /\ OfPage(Waiting(calls'), view') /\ Asked(calls')
    BY <1>11 DEF Panels, IndexWaits
  <2>2. Screen(Waiting(calls'), view')
    BY <2>1, IndexScreen
  <2> QED
    BY <1>1, <1>11, <2>1, <2>2, RouteStep
<1>12. CASE view.info.data = None \/ same
  <2>1. view' = x /\ calls' = cs
    BY <1>4, <1>12
  <2>2. CASE route.tab # "explore"
    BY <1>5, <1>8, <1>9, <1>10, <1>11, <2>1, <2>2
  <2>3. CASE route.tab = "explore" /\ view.info.data = None
    <3>1. view.map = None /\ ~For(Waiting(calls), kinds)
      BY <1>2, <2>3 DEF MapWaits
    <3>2. MapWaits(Waiting(cs), x)
      BY <1>5, <1>7, <2>3, <3>1 DEF MapWaits, For
    <3> QED
      BY <1>5, <1>8, <1>9, <1>11, <2>1, <3>2
  <2>4. CASE route.tab = "explore" /\ view.info.data # None
    <3>1. view.route.tab = "explore"
      BY <1>12, <2>4
    <3>2. MapWaits(Waiting(cs), x)
      BY <1>2, <1>5, <1>7, <2>4, <3>1, MapMade
    <3> QED
      BY <1>5, <1>8, <1>9, <1>11, <2>1, <3>2
  <2> QED
    BY <2>2, <2>3, <2>4
<1>13. CASE ~(view.info.data = None \/ same)
  <2>1. view' = Activate(x, cs).view /\ calls' = Activate(x, cs).calls
    BY <1>4, <1>13
  <2>2. route.tab = "explore" => ~For(Waiting(cs), kinds)
    BY <1>2, <1>7, <1>13 DEF MapWaits
  <2>3. /\ Panels(view', calls') /\ MapWaits(Waiting(calls'), view')
        /\ ConnectWaits(Waiting(cs), x.connect) => ConnectWaits(Waiting(calls'), view'.connect)
        /\ view'.route = x.route
    <3> DEFINE u == Activate(x, cs).view
               ds == Activate(x, cs).calls
    <3>1. /\ x.info.data # None
          /\ x.route.tab # "explore" => MapWaits(Waiting(cs), x)
          /\ x.route.tab = "explore" => ~For(Waiting(cs), kinds)
      BY <1>5, <1>10, <1>13, <2>2
    <3>2. /\ Panels(u, ds) /\ MapWaits(Waiting(ds), u)
          /\ ConnectWaits(Waiting(cs), x.connect) => ConnectWaits(Waiting(ds), u.connect)
          /\ u.route = x.route
      BY <1>8, <3>1, ActivateWaits
    <3> QED
      BY <2>1, <3>2
  <2> QED
    BY <1>5, <1>9, <1>11, <2>3
<1> QED
  BY <1>12, <1>13

LEMMA SheetRouted ==
  ASSUME Inv, me' = me, server' = server, calls' = calls, NEW route,
         Slot(route, me) = Slot(view.route, me), view.page \in {"keys", "indexes", "providers"},
         view' = Routed(route).view
  PROVE  WaitInv'
<1> DEFINE v == [view EXCEPT !.route = route]
           same(w) == [view |-> w, calls |-> calls, hash |-> route]
<1>1. KeepsServer /\ Asked(calls') /\ OfPage(Waiting(calls'), view)
      /\ PageWaits(Waiting(calls'), view) /\ {"page", "route"} \subseteq DOMAIN view
  BY InvParts, ServerKept DEF Screen
<1>2. \A w : same(w).view = w
  OBVIOUS
<1> HIDE DEF same
<1>3. CASE view.page = "keys"
  <2>1. KeysWaits(Waiting(calls'), view)
    BY <1>1, <1>3 DEF PageWaits
  <2>2. view' = v \/ view' = Opened(v)
    BY <1>2, <1>3 DEF Routed, same
  <2>3. /\ v.page = "keys" /\ v.route = route /\ v.sheet = view.sheet /\ DOMAIN v = DOMAIN view
    BY <1>1, <1>3, <2>1 DEF KeysWaits
  <2> HIDE DEF v
  <2>4. KeysWaits(Waiting(calls'), view') /\ view'.page = "keys" /\ view'.route = route
    <3>1. CASE view' = v
      BY <2>1, <2>3, <3>1 DEF KeysWaits
    <3>2. CASE view' = Opened(v)
      <4>1. /\ view'.page = "keys" /\ view'.route = route /\ DOMAIN view' = DOMAIN view
            /\ view'.sheet = view.sheet
        BY <1>1, <2>1, <2>3, <3>2 DEF Opened, KeysWaits
      <4> QED
        BY <2>1, <4>1 DEF KeysWaits
    <3> QED
      BY <2>2, <3>1, <3>2
  <2>5. OfPage(Waiting(calls'), view')
    BY <1>1, <1>3, <2>4 DEF OfPage
  <2> QED
    BY <1>1, <1>3, <2>4, <2>5, KeysScreen, RouteStep
<1>4. CASE view.page = "indexes"
  <2>1. IndexesWaits(Waiting(calls'), view)
    BY <1>1, <1>4 DEF PageWaits
  <2>2. view' = v \/ view' = IndexSheetOpened(v)
    BY <1>2, <1>4 DEF Routed, same
  <2>3. /\ v.page = "indexes" /\ v.route = route /\ v.sheet = view.sheet
        /\ v.creating = view.creating /\ DOMAIN v = DOMAIN view
    BY <1>1, <1>4, <2>1 DEF IndexesWaits
  <2> HIDE DEF v
  <2>4. IndexesWaits(Waiting(calls'), view') /\ view'.page = "indexes" /\ view'.route = route
    <3>1. CASE view' = v
      BY <2>1, <2>3, <3>1 DEF IndexesWaits
    <3>2. CASE view' # v
      <4> DEFINE s == [v.sheet EXCEPT !.name = None, !.busy = FALSE]
                 o == [v EXCEPT !.creating = TRUE]
      <4>1. view' = [o EXCEPT !.sheet = s]
        <5>1. view' = [v EXCEPT !.creating = TRUE, !.sheet.name = None, !.sheet.busy = FALSE]
          BY <2>2, <3>2 DEF IndexSheetOpened
        <5> QED
          BY <5>1
      <4>2. "busy" \in DOMAIN s /\ ~s.busy
        BY <2>1, <2>3 DEF IndexesWaits
      <4> HIDE DEF s
      <4>3. DOMAIN o = DOMAIN view /\ o.page = "indexes" /\ o.route = route
        BY <1>1, <2>3
      <4> HIDE DEF o
      <4>4. /\ view'.page = "indexes" /\ view'.route = route /\ DOMAIN view' = DOMAIN view
            /\ view'.sheet = s
        BY <2>1, <4>1, <4>3 DEF IndexesWaits
      <4> QED
        BY <2>1, <4>2, <4>4 DEF IndexesWaits
    <3> QED
      BY <3>1, <3>2
  <2>5. OfPage(Waiting(calls'), view')
    BY <1>1, <1>4, <2>4 DEF OfPage
  <2> QED
    BY <1>1, <1>4, <2>4, <2>5, IndexesScreen, RouteStep
<1>5. CASE view.page = "providers"
  <2>1. ProvidersWaits(Waiting(calls'), view)
    BY <1>1, <1>5 DEF PageWaits
  <2>2. view' = v \/ \E p : view' = [v EXCEPT !.editing = p, !.sheet = BlankProviderSheet]
    BY <1>2, <1>5 DEF Routed, same, Requested, Edited
  <2>3. /\ v.page = "providers" /\ v.route = route /\ v.sheet = view.sheet
        /\ v.checks = view.checks /\ DOMAIN v = DOMAIN view
    BY <1>1, <1>5, <2>1 DEF ProvidersWaits
  <2> HIDE DEF v
  <2>4. ProvidersWaits(Waiting(calls'), view') /\ view'.page = "providers" /\ view'.route = route
    <3>1. CASE view' = v
      BY <2>1, <2>3, <3>1 DEF ProvidersWaits
    <3>2. CASE \E p : view' = [v EXCEPT !.editing = p, !.sheet = BlankProviderSheet]
      <4>1. PICK p : view' = [v EXCEPT !.editing = p, !.sheet = BlankProviderSheet]
        BY <3>2
      <4> DEFINE o == [v EXCEPT !.editing = p]
      <4>2. view' = [o EXCEPT !.sheet = BlankProviderSheet]
        BY <4>1
      <4>3. "busy" \in DOMAIN BlankProviderSheet /\ ~BlankProviderSheet.busy
        BY DEF BlankProviderSheet
      <4>4. /\ DOMAIN o = DOMAIN view /\ o.page = "providers" /\ o.route = route
            /\ o.checks = view.checks
        BY <1>1, <2>1, <2>3 DEF ProvidersWaits
      <4> HIDE DEF o
      <4>5. /\ view'.page = "providers" /\ view'.route = route /\ DOMAIN view' = DOMAIN view
            /\ view'.sheet = BlankProviderSheet /\ view'.checks = view.checks
        BY <2>1, <4>2, <4>4 DEF ProvidersWaits
      <4> QED
        BY <2>1, <4>3, <4>5 DEF ProvidersWaits
    <3> QED
      BY <2>2, <3>1, <3>2
  <2>5. OfPage(Waiting(calls'), view')
    BY <1>1, <1>5, <2>4 DEF OfPage
  <2> QED
    BY <1>1, <1>5, <2>4, <2>5, ProvidersScreen, RouteStep
<1> QED
  BY <1>3, <1>4, <1>5

LEMMA OtherRouted ==
  ASSUME Inv, me' = me, server' = server, calls' = calls, NEW route,
         Slot(route, me) = Slot(view.route, me),
         view.page \notin {"keys", "indexes", "providers", "index", "playground"},
         view' = Routed(route).view
  PROVE  WaitInv'
<1> DEFINE v == [view EXCEPT !.route = route]
           same(w) == [view |-> w, calls |-> calls, hash |-> route]
<1>1. KeepsServer /\ Asked(calls') /\ OfPage(Waiting(calls'), view)
      /\ PageWaits(Waiting(calls'), view) /\ {"page", "route"} \subseteq DOMAIN view
  BY InvParts, ServerKept DEF Screen
<1>2. \A w : same(w).view = w
  OBVIOUS
<1> HIDE DEF same
<1>3. v.page = view.page /\ v.route = route /\ DOMAIN v = DOMAIN view
  BY <1>1
<1>4. v.busy = view.busy
  BY <1>1
<1>5. CASE view.page # "docs"
  <2>1. view' = v
    BY <1>2, <1>5 DEF Routed, same
  <2> HIDE DEF v
  <2>2. view.page = "signin" => SignInWaits(Waiting(calls'), view')
    BY <1>1, <1>3, <1>4, <2>1 DEF PageWaits, SignInWaits
  <2>3. Screen(Waiting(calls'), view')
    BY <1>1, <1>3, <2>1, <2>2 DEF Screen, OfPage, PageWaits
  <2> QED
    BY <1>1, <1>3, <2>1, <2>3, RouteStep
<1>6. CASE view.page = "docs"
  <2>1. view' = v \/ view' = [v EXCEPT !.nav = FALSE]
    BY <1>2, <1>6 DEF Routed, same, DocsRouted
  <2> HIDE DEF v
  <2>2. view'.page = "docs" /\ view'.route = route
    BY <1>1, <1>3, <1>6, <2>1
  <2>3. Screen(Waiting(calls'), view')
    BY <1>1, <1>6, <2>2 DEF Screen, OfPage, PageWaits
  <2> QED
    BY <1>1, <1>6, <2>2, <2>3, RouteStep
<1> QED
  BY <1>5, <1>6

LEMMA RouteWaits ==
  ASSUME Inv, me' = me, server' = server, NEW route, Slot(route, me) = Slot(view.route, me),
         view' = Routed(route).view, calls' = Routed(route).calls
  PROVE  WaitInv'
<1> DEFINE same(w) == [view |-> w, calls |-> calls, hash |-> route]
<1>1. \A w : same(w).calls = calls
  OBVIOUS
<1> HIDE DEF same
<1>2. CASE view.page = "index"
  <2>1. Routed(route) = IndexRouted(route)
    BY <1>2 DEF Routed
  <2> QED
    BY <1>2, <2>1, IndexTab
<1>3. CASE view.page = "playground"
  <2>1. Routed(route) = PlaygroundRouted(route)
    BY <1>3 DEF Routed
  <2> QED
    BY <1>3, <2>1, PlaygroundTab
<1>4. CASE view.page \notin {"index", "playground"}
  <2>1. calls' = calls
    BY <1>1, <1>4 DEF Routed, same
  <2> QED
    BY <1>4, <2>1, SheetRouted, OtherRouted
<1> QED
  BY <1>2, <1>3, <1>4

LEMMA NavigateWaits == ASSUME Inv, Navigate PROVE WaitInv'
<1> DEFINE stays == Slot(hash, me) = Slot(view.route, me)
           from == [i \in DOMAIN calls |-> ~stays \/ calls[i].op \notin ShellOps]
           orphans == Orphan(from)
           mounted == Mounted(hash, me)
<1>1. /\ \/ stays /\ view' = Routed(hash).view /\ calls' = Routed(hash).calls
         \/ view' = mounted.view /\ calls' = orphans \o mounted.calls
      /\ me' = me /\ server' = server
  BY DEF Navigate
<1>2. CASE stays /\ view' = Routed(hash).view /\ calls' = Routed(hash).calls
  BY <1>1, <1>2, RouteWaits
<1>3. CASE view' = mounted.view /\ calls' = orphans \o mounted.calls
  <2>1. \A i \in DOMAIN calls : calls[i].op \in Awaited => from[i]
    BY DEF Awaited, ShellOps
  <2> HIDE DEF from
  <2>2. /\ DOMAIN orphans = DOMAIN calls
        /\ \A i \in DOMAIN calls : \E x : /\ orphans[i] = [calls[i] EXCEPT !.live = x]
                                          /\ calls[i].op \in Awaited => ~x
    <3>1. DOMAIN orphans = DOMAIN calls
          /\ \A i \in DOMAIN calls :
                orphans[i] = [calls[i] EXCEPT !.live = calls[i].live /\ ~from[i]]
      BY DEF Orphan
    <3> HIDE DEF orphans
    <3>2. ASSUME NEW i \in DOMAIN calls
          PROVE  \E x : /\ orphans[i] = [calls[i] EXCEPT !.live = x]
                        /\ calls[i].op \in Awaited => ~x
      <4> WITNESS calls[i].live /\ ~from[i]
      <4> QED
        BY <2>1, <3>1, Zenon
    <3> QED
      BY <3>1, <3>2
  <2>3. CallsOk(orphans, server.written)
    BY InvParts, CallsOrphan
  <2> HIDE DEF orphans
  <2>4. Waiting(orphans) = {} /\ Asked(orphans)
    BY <2>2, DroppedWaits
  <2> QED
    BY <1>1, <1>3, <2>3, <2>4, AnewWaits
<1> QED
  BY <1>1, <1>2, <1>3

\* Who is signed in: an answer that a page awaits and that decides it takes
\* the page away, the others leave what the page waits for
LEMMA MeWaits == ASSUME Inv, MeDecided PROVE WaitInv'
<1>1. PICK i \in DOMAIN calls :
         /\ Decides(i) /\ me' = NewMe(i) /\ server' = server
         /\ IF Slot(view.route, NewMe(i)) = Slot(view.route, me)
            THEN calls' = Without(i) /\ view' = view
            ELSE /\ view' = Mounted(view.route, NewMe(i)).view
                 /\ calls' = RemoveAt(Orphaned, i) \o Mounted(view.route, NewMe(i)).calls
  BY DEF MeDecided
<1> DEFINE m == NewMe(i)
<1>2. CASE Slot(view.route, m) = Slot(view.route, me)
  <2>1. ~Waits(calls[i])
    <3> SUFFICES ASSUME Waits(calls[i]) PROVE FALSE
      OBVIOUS
    <3>1. /\ view.page = PageOf(calls[i].op) /\ AskedOk(calls[i])
          /\ calls[i].op \in Awaited /\ Frame(view.page) = Slot(view.route, me)
      BY AwaitedWaits, InvParts DEF Waits, Asked, WaitInv, FrameOk
    <3>2. calls[i].op \notin {"me", "logout"}
      BY <3>1 DEF Awaited
    <3>3. CASE calls[i].st = "gone"
      <4>1. calls[i].op # "login"
        BY <3>1, <3>3 DEF AskedOk
      <4>2. Frame(view.page) = "shell"
        BY <3>1, <4>1 DEF Frame, PageOf, Awaited
      <4>3. me # "boot" /\ view.route.page # "docs"
        BY <3>1, <4>2 DEF Slot
      <4>4. m = "out"
        BY <3>2, <3>3, <4>1, <4>3 DEF NewMe, Ok
      <4> QED
        BY <1>2, <3>1, <4>2, <4>3, <4>4 DEF Slot
    <3>4. CASE calls[i].op = "login" /\ Ok(i)
      <4>1. calls[i].st = "answered" /\ calls[i].reply \in {"read", "write", "admin"}
        BY <3>1, <3>4, RolesAssumption DEF AskedOk, Ok
      <4>2. m = calls[i].reply
        BY <3>4, <4>1 DEF NewMe, Ok
      <4>3. Slot(view.route, me) = "out"
        BY <3>1, <3>4 DEF Frame, PageOf
      <4> QED
        BY <1>2, <4>1, <4>2, <4>3 DEF Slot
    <3> QED
      BY <1>1, <3>2, <3>3, <3>4 DEF Decides
  <2>2. calls' = Without(i) /\ view' = view
    BY <1>1, <1>2
  <2>3. Waiting(calls') = Waiting(calls) /\ Asked(calls')
    BY <2>1, <2>2, WithoutWaits
  <2>4. FrameOk(view', me')
    BY <1>1, <1>2, <2>2, InvParts DEF WaitInv, FrameOk
  <2>5. Screen(Waiting(calls'), view')
    BY <2>2, <2>3, InvParts
  <2>6. KeepsServer
    BY <1>1, InvParts, ServerKept
  <2> QED
    BY <2>3, <2>4, <2>5, <2>6, InvParts DEF Screen, KeepsServer, WaitInv
<1>3. CASE Slot(view.route, m) # Slot(view.route, me)
  <2> DEFINE ds == Orphaned
             cs == RemoveAt(ds, i)
  <2>1. DOMAIN ds = DOMAIN calls
        /\ \A j \in DOMAIN calls : ds[j] = [calls[j] EXCEPT !.live = FALSE]
    BY DEF Orphaned
  <2>2. CallsOk(ds, server.written)
    BY InvParts, CallsOrphan
  <2> HIDE DEF ds
  <2>3. \A j \in DOMAIN calls : \E x : /\ ds[j] = [calls[j] EXCEPT !.live = x]
                                       /\ calls[j].op \in Awaited => ~x
    <3> TAKE j \in DOMAIN calls
    <3> WITNESS FALSE
    <3> QED
      BY <2>1
  <2>4. Waiting(ds) = {} /\ Asked(ds)
    BY <2>1, <2>3, DroppedWaits
  <2>5. CallsOk(cs, server.written)
    BY <2>1, <2>2, CallsDrop
  <2>6. Waiting(cs) = {} /\ Asked(cs)
    <3>1. Waiting(cs) \subseteq Waiting(ds) /\ Asked(cs)
      BY <2>1, <2>2, <2>4, WaitingDrop
    <3> QED
      BY <2>4, <3>1
  <2>7. view' = Mounted(view.route, m).view /\ calls' = cs \o Mounted(view.route, m).calls
    BY <1>1, <1>3 DEF ds
  <2> HIDE DEF cs, m
  <2> QED
    BY <1>1, <2>5, <2>6, <2>7, AnewWaits DEF m
<1> QED
  BY <1>2, <1>3

---------------------------------------------------------------------------
(* The chart of the overview. Only its own actions touch what it draws: of *)
(* the other pages, those that are clicked are elsewhere and those that    *)
(* hear an answer are not heard on it; the shell keeps its own state.      *)

OfChart == {"page", "route", "range", "history"}
Still == DOMAIN view' = DOMAIN view /\ \A f \in OfChart : view'[f] = view[f]

LEMMA ChartFields ==
  ASSUME Inv, view.page = "home"
  PROVE  OfChart \subseteq DOMAIN view /\ ChartOk(view)
BY InvParts DEF Inv, ChartInv, ChartOk, OfChart

LEMMA FieldStill ==
  ASSUME Inv, view.page = "home",
         \/ view' = view
         \/ \E f, e : f \notin OfChart /\ view' = [view EXCEPT ![f] = e]
  PROVE  Still
BY ChartFields DEF Still

\* The overview does not hear what another page asked for
LEMMA HomeUnheard ==
  ASSUME Inv, view.page = "home", NEW i \in DOMAIN calls, calls[i].op \in Awaited
  PROVE  ~calls[i].live
<1> SUFFICES ASSUME calls[i].live PROVE FALSE
  OBVIOUS
<1>1. <<calls[i].op, calls[i].arg>> \in Waiting(calls)
  BY DEF Waiting
<1>2. PageOf(calls[i].op) = "home"
  BY <1>1, InvParts DEF Screen, OfPage
<1> QED
  BY <1>2 DEF PageOf

LEMMA SignInStill ==
  ASSUME Inv, view.page = "home", SignInNext \/ SessionEnds \/ SignOut PROVE Still
<1>1. CASE SignInRefused
  <2>1. PICK i \in Arrived("login") :
           view' = IF ~calls[i].live THEN view
                   ELSE [view EXCEPT !.busy = FALSE,
                             !.wait = IF calls[i].reply = "locked" THEN MaxWait ELSE @]
    BY <1>1 DEF SignInRefused
  <2>2. ~calls[i].live
    BY ArrivedCall, HomeUnheard DEF Awaited
  <2> QED
    BY <2>1, <2>2, FieldStill
<1>2. CASE ~SignInRefused
  <2>1. view' = view
    BY <1>2 DEF SignInNext, TypeKey, SubmitSignIn, WaitTick, ServeLogin, ServeMe, ServeLogout,
          SessionEnds, SignOut, OnSignIn
  <2> QED
    BY <2>1, FieldStill
<1> QED
  BY <1>1, <1>2

LEMMA ShellStill ==
  ASSUME Inv, view.page = "home", ShellNext \/ ServeModels \/ Refused \/ Failed PROVE Still
<1>1. view' = view
  BY DEF ShellNext, TogglePalette, TypeInPalette, MoveInPalette, RunCommand, FollowLink, PollShell,
         ServeIndexes, ServeStats, StatsLoaded, ServeModels, Refused, Failed
<1> QED
  BY <1>1, FieldStill

LEMMA KeysStill == ASSUME Inv, view.page = "home", KeysNext PROVE Still
<1>1. CASE KeyCreated
  <2>1. PICK i \in Arrived("createKey") : ~calls[i].live => view' = view
    BY <1>1 DEF KeyCreated
  <2>2. ~calls[i].live
    BY ArrivedCall, HomeUnheard DEF Awaited
  <2> QED
    BY <2>1, <2>2, FieldStill
<1>2. CASE Revoked \/ KeysLoaded
  <2>1. view' = view \/ \E e : \/ view' = [view EXCEPT !.confirming = e]
                               \/ view' = [view EXCEPT !.list = e]
    BY <1>2 DEF Revoked, KeysLoaded
  <2> QED
    BY <2>1, FieldStill DEF OfChart
<1>3. CASE ~(KeyCreated \/ Revoked \/ KeysLoaded)
  <2>1. view' = view
    BY <1>3 DEF KeysNext, AskRevoke, ViewActivity, CancelRevoke, ConfirmRevoke, ServeRevokeKey,
          PollKeys, ServeKeys, CreateKey, KeySheetEffect, EditKey, SubmitKey, CloseKeySheet,
          ServeCreateKey, OnKeys
  <2> QED
    BY <2>1, FieldStill
<1> QED
  BY <1>1, <1>2, <1>3

LEMMA ProvidersStill == ASSUME Inv, view.page = "home", ProvidersNext PROVE Still
<1>1. CASE ProvidersLoaded \/ TestDone \/ ProviderSaved \/ ProviderRemoved
  <2>1. PICK i \in DOMAIN calls :
          /\ calls[i].op \in {"providers", "test", "setProvider", "removeProvider"}
          /\ ~calls[i].live => view' = view
    BY <1>1, ArrivedCall DEF ProvidersLoaded, TestDone, ProviderSaved, ProviderRemoved, app
  <2>2. ~calls[i].live
    BY <2>1, HomeUnheard DEF Awaited
  <2> QED
    BY <2>1, <2>2, FieldStill
<1>2. CASE ~(ProvidersLoaded \/ TestDone \/ ProviderSaved \/ ProviderRemoved)
  <2>1. view' = view
    BY <1>2 DEF ProvidersNext, EditProvider, TestProvider, RemoveProvider, CloseProviderSheet,
          TypeProviderKey, SaveProviderKey, PollProviders, ServeProviders, ServeTest,
          ServeSetProvider, ServeRemoveProvider, OnProviders
  <2> QED
    BY <2>1, FieldStill
<1> QED
  BY <1>1, <1>2

LEMMA IndexStill == ASSUME Inv, view.page = "home", IndexNext PROVE Still
<1>1. CASE IndexLoaded \/ Saved \/ IndexDeleted
  <2>1. PICK i \in DOMAIN calls :
          /\ calls[i].op \in {"index", "configure", "setEmbedding", "deleteIndex"}
          /\ ~calls[i].live => view' = view
    BY <1>1, ArrivedCall DEF IndexLoaded, Saved, IndexDeleted, app
  <2>2. ~calls[i].live
    BY <2>1, HomeUnheard DEF Awaited
  <2> QED
    BY <2>1, <2>2, FieldStill
<1>2. CASE ~(IndexLoaded \/ Saved \/ IndexDeleted)
  <2>1. view' = view
    BY <1>2 DEF IndexNext, PollIndex, ServeIndex, ChooseTab, EditSettings, SaveWidth,
          DeleteIndex, ServeSettings, ServeDeleteIndex, OnSettings, OnTab, OnIndex
  <2> QED
    BY <2>1, FieldStill
<1> QED
  BY <1>1, <1>2

\* The panels of an index
LEMMA PanelsStill ==
  ASSUME Inv, view.page = "home", BrowseNext \/ QueryNext \/ UpsertNext \/ MapNext \/ ConnectNext
  PROVE  Still
<1> DEFINE Answers == \/ ListLoaded \/ MetadataLoaded \/ RecordLoaded \/ Deleted
                     \/ QueryAnswered \/ BatchWritten
                     \/ MapLoaded \/ NeighboursLoaded \/ FieldsLoaded
<1>1. CASE Answers
  <2>1. PICK i \in DOMAIN calls :
          /\ calls[i].op \in {"list", "metadata", "record", "delete", "query", "upsert", "map",
                              "neighbours", "fields"}
          /\ ~calls[i].live => view' = view
    BY <1>1, ArrivedCall DEF ListLoaded, MetadataLoaded, RecordLoaded, Deleted, QueryAnswered,
          BatchWritten, MapLoaded, NeighboursLoaded, FieldsLoaded
  <2>2. ~calls[i].live
    BY <2>1, HomeUnheard DEF Awaited
  <2> QED
    BY <2>1, <2>2, FieldStill
<1>2. CASE ~Answers
  <2>1. ~OnIndex
    BY DEF OnIndex
  <2>2. view' = view
    BY <1>2, <2>1
       DEF BrowseNext, BrowseClicks, Browsing, ServeList, ServeMetadata, ServeRecord, ServeDelete,
           QueryNext, QueryClicks, Querying, ServeQuery,
           UpsertNext, UpsertClicks, Upserting, Seed, ServeUpsert,
           MapNext, MapClicks, Exploring, ServeMap, ServeNeighbours,
           ConnectNext, ChooseModel, Connect, ChangeModel, Disconnect, Connecting, OnCard,
           ServeFields, OnTab
  <2> QED
    BY <2>2, FieldStill
<1> QED
  BY <1>1, <1>2

LEMMA BuildersStill ==
  ASSUME Inv, view.page = "home", IndexesNext \/ PlaygroundNext PROVE Still
<1>1. CASE IndexCreated \/ Searched \/ Compared
  <2>1. PICK i \in DOMAIN calls :
          /\ calls[i].op \in {"createIndex", "search", "compare"}
          /\ ~calls[i].live => view' = view
    BY <1>1, ArrivedCall DEF IndexCreated, Searched, Compared
  <2>2. ~calls[i].live
    BY <2>1, HomeUnheard DEF Awaited
  <2> QED
    BY <2>1, <2>2, FieldStill
<1>2. CASE ~(IndexCreated \/ Searched \/ Compared)
  <2>1. ~OnIndexes /\ ~Searching /\ ~Comparing
    BY DEF OnIndexes, Searching, Comparing
  <2>2. view' = view
    BY <1>2, <2>1
       DEF IndexesNext, OpenIndex, CreateIndex, EditIndex, SubmitIndex, CloseIndexSheet,
           ServeCreateIndex, PlaygroundNext, EditSearch, ChooseIndex, RunSearch, ServeSearch,
           EditCompare, RunCompare
  <2> QED
    BY <2>2, FieldStill
<1> QED
  BY <1>1, <1>2

LEMMA OthersStill ==
  ASSUME Inv, view.page = "home", SecurityNext \/ DocsNext PROVE Still
<1>1. ~OnSecurity /\ ~OnDocs
  BY DEF OnSecurity, OnDocs
<1>2. view' = view
  BY <1>1 DEF SecurityNext, PollEvents, FilterEvents, OpenEvent, EndSessions, LeaveButton,
        ServeRevokeAll, SessionsEnded, DocsNext, FollowDocLink, ToggleMenu, ToggleDocSearch,
        TypeInDocSearch, OpenResult
<1> QED
  BY <1>2, FieldStill

LEMMA SharedStill ==
  ASSUME Inv, view.page = "home", ModelsLoaded \/ IndexesLoaded PROVE Still
<1>1. CASE ModelsLoaded
  <2>1. view' = view \/ \E seen : view' = WithModels(view, seen)
    BY <1>1 DEF ModelsLoaded
  <2>2. \A seen : WithModels(view, seen) = [view EXCEPT !.models =
                     [view.models EXCEPT !.seen = seen]]
    BY DEF WithModels
  <2> QED
    BY <2>1, <2>2, FieldStill DEF OfChart
<1>2. CASE IndexesLoaded
  <2>1. view' = view
    BY <1>2 DEF IndexesLoaded, Listed
  <2> QED
    BY <2>1, FieldStill
<1> QED
  BY <1>1, <1>2

\* What a step does to the overview that stays: its charts are of the same
\* samples, or of one more and the same range
Charts ==
    /\ view'.page = "home" /\ view'.route.page = "home"
    /\ {"range", "history"} \subseteq DOMAIN view' /\ view'.range \in Ranges
    /\ \/ view'.history = view.history
       \/ /\ view'.range = view.range
          /\ \E s : NoOlder(view.history, s) /\ view'.history = Remembered(view.history, s)

LEMMA StillCharts == ASSUME Inv, view.page = "home", Still PROVE Charts
BY ChartFields DEF Still, Charts, OfChart, ChartOk

LEMMA SampleNewest ==
  ASSUME NEW h, HistoryOk(h), NEW d \in Nat, NEW v
  PROVE  NoOlder(h, Sample((IF h = <<>> THEN 0 ELSE Last(h).t) + d, v))
<1> DEFINE now == IF h = <<>> THEN 0 ELSE Last(h).t
           S == {h[n] : n \in DOMAIN h}
<1>1. h \in Seq(S)
  BY DEF HistoryOk
<1> HIDE DEF S
<1>2. h # <<>> => Len(h) \in DOMAIN h /\ \A n \in DOMAIN h : n <= Len(h)
  BY <1>1
<1>3. now \in Nat /\ \A n \in DOMAIN h : h[n].t \in Nat /\ h[n].t <= now
  BY <1>1, <1>2 DEF HistoryOk, Last
<1> HIDE DEF now
<1>4. now + d \in Nat /\ \A n \in DOMAIN h : h[n].t <= now + d
  BY <1>3
<1>5. NoOlder(h, Sample(now + d, v))
  BY <1>4 DEF NoOlder, Sample
<1> QED
  BY <1>5 DEF now

LEMMA OverviewCharts == ASSUME Inv, view.page = "home", OverviewNext PROVE Charts
<1>1. CASE LiveLoaded
  <2>1. PICK i \in Arrived("live") :
           IF calls[i].live /\ Ok(i)
           THEN LET now == IF view.history = <<>> THEN 0 ELSE Last(view.history).t IN
                \E d \in Gaps :
                   view' = [view EXCEPT !.stats = Polled(@, i),
                                 !.history = Remembered(@, Sample(now + d, calls[i].reply))]
           ELSE view' = IF calls[i].live THEN [view EXCEPT !.stats = Polled(@, i)] ELSE view
    BY <1>1 DEF LiveLoaded
  <2>2. CASE calls[i].live /\ Ok(i)
    <3> DEFINE now == IF view.history = <<>> THEN 0 ELSE Last(view.history).t
    <3>1. PICK d \in Gaps :
             view' = [view EXCEPT !.stats = Polled(@, i),
                           !.history = Remembered(@, Sample(now + d, calls[i].reply))]
      BY <2>1, <2>2
    <3>2. NoOlder(view.history, Sample(now + d, calls[i].reply))
      BY ChartFields, GapsAssumption, SampleNewest DEF ChartOk
    <3> DEFINE s == Sample(now + d, calls[i].reply)
    <3> HIDE DEF s
    <3>3. NoOlder(view.history, s) /\ view' = [view EXCEPT !.stats = Polled(@, i),
                                                           !.history = Remembered(@, s)]
      BY <3>1, <3>2 DEF s
    <3>4. /\ view'.page = view.page /\ view'.route = view.route /\ view'.range = view.range
          /\ DOMAIN view' = DOMAIN view
          /\ view'.history = Remembered(view.history, s)
      BY <3>3, ChartFields DEF OfChart
    <3> QED
      BY <3>3, <3>4, ChartFields DEF Charts, ChartOk
  <2>3. CASE ~(calls[i].live /\ Ok(i))
    <3>1. view' = view \/ \E e : view' = [view EXCEPT !.stats = e]
      BY <2>1, <2>3
    <3> QED
      BY <3>1, FieldStill, StillCharts DEF OfChart
  <2> QED
    BY <2>2, <2>3
<1>2. CASE FeedLoaded
  <2>1. view' = view \/ \E e : view' = [view EXCEPT !.feed = e] \/ view' = [view EXCEPT !.events = e]
    BY <1>2 DEF FeedLoaded
  <2> QED
    BY <2>1, FieldStill, StillCharts DEF OfChart
<1>3. CASE ChooseRange
  <2>1. PICK r \in Ranges : view' = [view EXCEPT !.range = r]
    BY <1>3 DEF ChooseRange
  <2>2. /\ view'.page = view.page /\ view'.route = view.route /\ view'.history = view.history
        /\ DOMAIN view' = DOMAIN view /\ view'.range = r
    BY <2>1, ChartFields DEF OfChart
  <2> QED
    BY <2>2, ChartFields DEF Charts, ChartOk
<1>4. CASE PollOverview \/ ServeLive \/ ServeEvents \/ NewIndex
  <2>1. view' = view
    BY <1>4 DEF PollOverview, ServeLive, ServeEvents, NewIndex
  <2> QED
    BY <2>1, FieldStill, StillCharts
<1> QED
  BY <1>1, <1>2, <1>3, <1>4 DEF OverviewNext

\* The overview is the page of its route in the shell: another route of the
\* same page changes nothing else, another page takes its place
LEMMA HomeFrame ==
  ASSUME Inv, view.page = "home"
  PROVE  Slot(view.route, me) = "shell" /\ view.route.page = "home"
BY InvParts, ChartFields DEF WaitInv, FrameOk, Frame, ChartOk

LEMMA NavigateCharts ==
  ASSUME Inv, view.page = "home", Navigate, view'.page = "home" PROVE Charts
<1> DEFINE stays == Slot(hash, me) = Slot(view.route, me)
           same == stays /\ \/ Slot(hash, me) # "shell"
                            \/ PageKey(hash) = PageKey(view.route)
<1>1. view' = IF same THEN Routed(hash).view ELSE Mounted(hash, me).view
  BY DEF Navigate
<1>2. hash.page = "home" /\ same
  <2>1. CASE same
    <3>1. PageKey(hash) = PageKey(view.route)
      BY <2>1, HomeFrame
    <3> QED
      BY <2>1, <3>1, HomeFrame DEF PageKey
  <2>2. CASE ~same
    <3>1. hash.page = "home" /\ Slot(hash, me) = "shell"
      BY <1>1, <2>2, OverviewFresh
    <3> QED
      BY <2>2, <3>1, HomeFrame DEF PageKey
  <2> QED
    BY <2>1, <2>2
<1>3. view' = [view EXCEPT !.route = hash]
  BY <1>1, <1>2 DEF Routed
<1>4. /\ view'.page = view.page /\ view'.route = hash /\ view'.history = view.history
      /\ view'.range = view.range /\ DOMAIN view' = DOMAIN view
  BY <1>3, ChartFields DEF OfChart
<1> QED
  BY <1>2, <1>4, ChartFields DEF Charts, ChartOk

LEMMA MeCharts ==
  ASSUME Inv, view.page = "home", MeDecided, view'.page = "home" PROVE Charts
<1>1. PICK i \in DOMAIN calls :
         \/ view' = view
         \/ /\ Slot(view.route, NewMe(i)) # Slot(view.route, me)
            /\ view' = Mounted(view.route, NewMe(i)).view
  BY DEF MeDecided
<1>2. view' = view
  BY <1>1, HomeFrame, OverviewFresh
<1> QED
  BY <1>2, FieldStill, StillCharts

LEMMA EveryChart ==
  ASSUME Inv, view.page = "home", Next, view'.page = "home" PROVE Charts
<1>1. CASE OverviewNext \/ Navigate \/ MeDecided
  BY <1>1, OverviewCharts, NavigateCharts, MeCharts
<1>2. CASE ~(OverviewNext \/ Navigate \/ MeDecided)
  <2>1. Still
    BY <1>2, SignInStill, ShellStill, KeysStill, ProvidersStill, IndexStill, PanelsStill,
       BuildersStill, OthersStill, SharedStill DEF Next, AppNext
  <2> QED
    BY <2>1, StillCharts
<1> QED
  BY <1>1, <1>2

LEMMA ChartStep ==
  ASSUME Inv, Next, ShownStep PROVE ChartInv'
<1> SUFFICES ASSUME view'.page = "home" PROVE ChartOk(view')
  BY DEF ChartInv
<1>1. CASE view.page = "home"
  <2>1. Charts
    BY <1>1, EveryChart
  <2>2. HistoryOk(view.history) /\ Len(view.history) <= MaxHistory
    BY <1>1, ChartFields DEF ChartOk
  <2>3. HistoryOk(view'.history) /\ Len(view'.history) <= MaxHistory
    <3>1. CASE view'.history = view.history
      BY <2>2, <3>1
    <3>2. CASE view'.history # view.history
      <4>1. PICK s : NoOlder(view.history, s) /\ view'.history = Remembered(view.history, s)
        BY <2>1, <3>2 DEF Charts
      <4> QED
        BY <2>2, <4>1, RememberedOk, RememberedFits
    <3> QED
      BY <3>1, <3>2
  <2> QED
    BY <2>1, <2>3 DEF Charts, ChartOk
<1>2. CASE view.page # "home"
  <2>1. PICK r : r.page = "home" /\ view' = OverviewMount(r)
    BY <1>2 DEF ShownStep, Charted
  <2>2. /\ {"range", "history"} \subseteq DOMAIN view' /\ view'.route = r
        /\ view'.range = (CHOOSE x \in Ranges : TRUE) /\ view'.history = <<>>
    BY <2>1 DEF OverviewMount
  <2>3. view'.range \in Ranges
    BY <2>2, RangesAssumption
  <2>4. HistoryOk(<<>>) /\ Len(<<>>) <= MaxHistory
    BY HistoryAssumption DEF HistoryOk
  <2> QED
    BY <2>1, <2>2, <2>3, <2>4 DEF ChartOk
<1> QED
  BY <1>1, <1>2

---------------------------------------------------------------------------
(* Every step                                                              *)

LEMMA InitWaits == ASSUME Init PROVE Inv
<1>1. NewestInv
  BY InitShown
<1>2. PICK j \in Journeys :
         /\ calls = <<Call("me", None)>> /\ me = "boot"
         /\ view = Mounted(hash, "boot").view
         /\ \E s : /\ {"ef", "embed"} \subseteq DOMAIN s /\ s = server
                   /\ s.ef = CHOOSE w \in Widths : TRUE
                   /\ s.embed = j.embed
  BY DEF Init
<1>3. {"ef", "embed"} \subseteq DOMAIN server /\ server.ef \in Widths
      /\ server.embed \in Models \cup {None}
  BY <1>2, WidthsAssumption, JourneysAssumption
<1>4. Waiting(calls) = {} /\ Asked(calls)
  <2>1. "me" \notin Awaited /\ "me" \notin Checked
    BY DEF Awaited, Checked
  <2> QED
    BY <1>2, <2>1, NewAsked, WaitingOne
<1>5. Idle(view, hash, "boot")
  BY <1>2, MountedWaits
<1>6. FrameOk(view, me) /\ PageWaits({}, view) /\ OfPage({}, view)
  BY <1>2, <1>5 DEF Idle, FrameOk, OfPage
<1>7. view.page # "home"
  BY <1>2, OverviewFresh DEF Slot
<1> QED
  BY <1>1, <1>3, <1>4, <1>6, <1>7 DEF Inv, WaitInv, ChartInv

LEMMA ShownParts == ASSUME Inv, Next PROVE ShownStep
BY EveryShownStep DEF Inv, WaitInv

LEMMA EveryWait == ASSUME Inv, Next PROVE WaitInv'
<1>1. CASE AppNext
  BY <1>1, NavigateWaits, MeWaits, NetworkWaits, ModelsHeard, ListHeard, SignInWaited
     DEF AppNext
<1>2. CASE SignInNext
  BY <1>2, SignInWaited
<1>3. CASE ShellNext \/ ServeModels \/ KeysNext \/ ProvidersNext
  BY <1>3, ShellWaits, KeysWaited, ProvidersWaited
<1>4. CASE IndexNext \/ BrowseNext \/ QueryNext \/ UpsertNext
  BY <1>4, IndexWaited, BrowseWaited, QueryWaited, UpsertWaited
<1>5. CASE MapNext \/ ConnectNext \/ IndexesNext \/ PlaygroundNext
  BY <1>5, MapWaited, ConnectWaited, IndexesWaited, PlaygroundWaited
<1>6. CASE OverviewNext \/ SecurityNext \/ DocsNext
  BY <1>6, OverviewWaits, SecurityWaits, DocsWaits
<1> QED
  BY <1>1, <1>2, <1>3, <1>4, <1>5, <1>6 DEF Next

\* The inductive invariant of the dashboard: the calls are as they were made,
\* the newest search and comparison ask for what the fields hold, and whatever
\* the page on screen waits for is in flight and heard by it.
THEOREM InvCorrect == Spec => []Inv
<1>1. Init => Inv
  BY InitWaits
<1>2. Inv /\ [Next]_vars => Inv'
  <2> SUFFICES ASSUME Inv, [Next]_vars PROVE Inv'
    OBVIOUS
  <2>1. CASE Next
    <3>1. NewestInv'
      BY <2>1, InvParts, EveryStep, ShownParts DEF NewestInv, GoodStep, ShownStep
    <3>2. WaitInv'
      BY <2>1, EveryWait
    <3>3. ChartInv'
      BY <2>1, InvParts, ShownParts, ChartStep
    <3> QED
      BY <3>1, <3>2, <3>3 DEF Inv
  <2>2. CASE UNCHANGED vars
    BY <2>2 DEF vars, app, Inv, NewestInv, CallsInv, ShownInv, WaitInv, ChartInv
  <2> QED
    BY <2>1, <2>2
<1> QED
  BY <1>1, <1>2, PTL DEF Spec

\* "Only the newest response is shown" (pages/Playground.tsx:121): once no
\* search is waited for and none failed, the results are those of the text,
\* index, namespace and filter now chosen, or there are none; so it is for a
\* comparison while there is a text, beside the documents that it ranked.
THEOREM OnlyTheNewestIsShown == Spec => []NewestOnly
<1>1. Inv => NewestOnly
  BY DEF Inv, NewestInv, ShownInv, ShownOk, SearchOk, CompareOk, NewestOnly, Searching, Comparing
<1> QED
  BY <1>1, InvCorrect, PTL

\* A secret stays on screen only if it did before, or came with this very
\* answer: one that was closed, or came while the sheet was closed, does not
\* outlast the effect of the next opening, nor does it come back with a page
\* that mounts with its sheet open (pages/Keys.tsx, the effect on [open]).
\* Between the opening and its effect it is on screen again.
THEOREM OldSecretsLeave == Spec => OldSecretsGo
<1>1. Inv /\ [Next]_vars =>
        [\A k \in KeyIds :
           Settled(k)' => \/ Settled(k)
                         \/ \E i \in Arrived("createKey") : calls[i].reply = k]_<<view, calls>>
  <2>1. ASSUME Inv, Next, NEW k \in KeyIds, Settled(k)'
        PROVE  Settled(k) \/ \E i \in Arrived("createKey") : calls[i].reply = k
    <3>1. /\ view'.page = "keys" /\ view'.creating /\ ~view'.opening
          /\ view'.sheet.created = k /\ k # None
      BY <2>1, KeyIdsAssumption DEF Settled, Revealed, OnKeys
    <3>2. Hidden
      BY <2>1, ShownParts DEF ShownStep
    <3> QED
      BY <3>1, <3>2 DEF Hidden, Settles, Settled, Revealed, OnKeys
  <2>2. UNCHANGED vars => UNCHANGED <<view, calls>>
    BY DEF vars
  <2> QED
    BY <2>1, <2>2
<1> QED
  BY <1>1, InvCorrect, PTL DEF Spec, OldSecretsGo

\* A call that is awaited is in flight and heard
LEMMA AwaitedFlies ==
  ASSUME NEW a \in Waiting(calls)
  PROVE  \E i \in DOMAIN calls : calls[i].op = a[1] /\ calls[i].live /\ calls[i].arg = a[2]
<1>1. PICK i \in DOMAIN calls : calls[i].live /\ a = <<calls[i].op, calls[i].arg>>
  BY DEF Waiting
<1>2. a[1] = calls[i].op /\ a[2] = calls[i].arg
  BY <1>1
<1> QED
  BY <1>1, <1>2

LEMMA FliesFor ==
  /\ \A ops : For(Waiting(calls), ops) => Awaits(ops)
  /\ \A op, f, e : (\E a \in Waiting(calls) : a[1] = op /\ a[2][f] = e) => AwaitsFrom(op, f, e)
BY AwaitedFlies DEF For, Awaits, AwaitsFrom

LEMMA PanelsHang ==
  ASSUME Inv, OnIndex
  PROVE  /\ view.browse.loading => Awaits({"list", "metadata"})
         /\ view.query.busy => Awaits({"query"})
         /\ view.upsert.busy => AwaitsFrom("upsert", "by", "upsert")
         /\ view.seed.busy => AwaitsFrom("upsert", "by", "seed")
         /\ view.settings.saving => AwaitsFrom("configure", "panel", TRUE)
         /\ view.connect # None /\ view.connect.busy =>
               AwaitsFrom("setEmbedding", "picker", TRUE)
<1>1. PanelsWait(Waiting(calls), view) /\ ConnectWaits(Waiting(calls), view.connect)
  BY PanelsHere, IndexParts DEF OnIndex
<1>2. /\ view.browse.loading => Awaits({"list", "metadata"})
      /\ view.query.busy => Awaits({"query"})
  BY <1>1, FliesFor DEF PanelsWait, BrowseWaits, QueryWaits
<1>3. /\ view.upsert.busy => AwaitsFrom("upsert", "by", "upsert")
      /\ view.seed.busy => AwaitsFrom("upsert", "by", "seed")
  <2>1. /\ view.upsert.busy => \E a \in Waiting(calls) : a[1] = "upsert" /\ a[2].by = "upsert"
        /\ view.seed.busy => \E a \in Waiting(calls) : a[1] = "upsert" /\ a[2].by = "seed"
    BY <1>1 DEF PanelsWait, BatchWaits
  <2> QED
    BY <2>1, AwaitedFlies DEF AwaitsFrom
<1>4. view.settings.saving => AwaitsFrom("configure", "panel", TRUE)
  BY <1>1, AwaitedFlies DEF PanelsWait, SettingsWaits, AwaitsFrom
<1>5. view.connect # None /\ view.connect.busy => AwaitsFrom("setEmbedding", "picker", TRUE)
  BY <1>1, AwaitedFlies DEF ConnectWaits, Picked, AwaitsFrom
<1> QED
  BY <1>2, <1>3, <1>4, <1>5

LEMMA SheetsHang ==
  ASSUME Inv
  PROVE  /\ OnSignIn /\ view.busy => Awaits({"login"})
         /\ OnKeys /\ view.sheet.busy => Awaits({"createKey"})
         /\ OnIndexes /\ view.creating /\ view.sheet.busy => Awaits({"createIndex"})
<1>1. PageWaits(Waiting(calls), view)
  BY InvParts DEF Screen
<1>2. OnSignIn /\ view.busy => Awaits({"login"})
  BY <1>1, FliesFor DEF PageWaits, SignInWaits, OnSignIn
<1>3. OnKeys /\ view.sheet.busy => Awaits({"createKey"})
  BY <1>1, FliesFor DEF PageWaits, KeysWaits, OnKeys
<1>4. OnIndexes /\ view.creating /\ view.sheet.busy => Awaits({"createIndex"})
  BY <1>1, FliesFor DEF PageWaits, IndexesWaits, OnIndexes
<1> QED
  BY <1>2, <1>3, <1>4

LEMMA ProvidersHang ==
  ASSUME Inv, view.page = "providers"
  PROVE  /\ view.sheet.busy => Awaits({"test", "setProvider"})
         /\ \A p \in Providers : view.checks[p] = "running" => AwaitsFrom("test", "p", p)
<1>1. ProvidersWaits(Waiting(calls), view)
  BY InvParts DEF Screen, PageWaits
<1>2. view.sheet.busy => Awaits({"test", "setProvider"})
  <2>1. view.sheet.busy => \E a \in Waiting(calls) : a[1] \in {"test", "setProvider"}
    BY <1>1 DEF ProvidersWaits, For
  <2> QED
    BY <2>1, AwaitedFlies DEF Awaits
<1>3. ASSUME NEW p \in Providers, view.checks[p] = "running" PROVE AwaitsFrom("test", "p", p)
  BY <1>1, <1>3, AwaitedFlies DEF ProvidersWaits, AwaitsFrom
<1> QED
  BY <1>2, <1>3

LEMMA PlaygroundHangs ==
  ASSUME Inv
  PROVE  /\ Searching /\ view.search.busy =>
               view.search.wait \/ AwaitsFrom("search", "newest", TRUE)
         /\ Comparing /\ view.compare.busy /\ Comparable(view.compare) =>
               view.compare.wait \/ AwaitsFrom("compare", "newest", TRUE)
<1>1. \A op : Latest(Waiting(calls), op) => AwaitsFrom(op, "newest", TRUE)
  BY AwaitedFlies DEF Latest, AwaitsFrom
<1> QED
  BY <1>1, PlaygroundParts DEF Searching, Comparing, Comparable, SearchWaits, CompareWaits

\* No spinner turns and no button stays disabled for a call that will not
\* come: what the page on screen waits for is in flight, and its end is heard
\* by the part of the page that waits, whatever failed, closed, mounted anew or
\* was polled in between (the finally of every handler, the reset effects).
THEOREM NothingWaitsInVain == Spec => []NothingHangs
<1>1. Inv => NothingHangs
  BY SheetsHang, ProvidersHang, PlaygroundHangs, PanelsHang DEF NothingHangs
<1> QED
  BY <1>1, InvCorrect, PTL

\* The map shown is that of the choices now made, unless one is on its way or
\* there is an error: the load of earlier choices is not heard any more once
\* they change (pages/VectorMap.tsx, the effect's cancelled flag).
THEOREM MapsAreCurrent == Spec => []MapIsCurrent
<1>1. ASSUME Inv, view.page = "index", view.info.data # None
      PROVE  \/ view.map = None \/ view.map.data = None \/ view.map.error
             \/ \E i \in DOMAIN calls : calls[i].op = "map" /\ calls[i].live
             \/ view.map.data.at = view.map.at
  <2>1. MapWaits(Waiting(calls), view)
    BY <1>1, PanelsHere
  <2>2. CASE view.route.tab # "explore"
    BY <1>1, <2>1, <2>2 DEF MapWaits
  <2>3. CASE view.route.tab = "explore"
    <3>1. Loading(Waiting(calls)) => \E i \in DOMAIN calls : calls[i].op = "map" /\ calls[i].live
      BY AwaitedFlies DEF Loading
    <3> QED
      BY <1>1, <2>1, <2>3, <3>1, MapMade
  <2> QED
    BY <2>2, <2>3
<1>2. Inv => MapIsCurrent
  BY <1>1 DEF MapIsCurrent
<1> QED
  BY <1>2, InvCorrect, PTL

\* "Aligned to the clock, so they don't shift as new samples arrive"
\* (charts.tsx:70): one more sample leaves every point of the chart but the
\* last where it was while no sample slides out of the range, and what is left
\* of a bucket that loses samples stays at the same time, as long as buckets
\* have the same length.
THEOREM BucketsDoNotShift == Spec => BucketsStay
<1> DEFINE A == /\ OnOverview /\ OnOverview' /\ view.range = view'.range
                /\ view.history # view'.history /\ Len(Visible) > 1
                /\ Step(Visible) = Step(Visible')
           Stay == LET old == {p \in Calm(Visible) : p.at < Last(Visible).t}
                       new == Calm(Visible')
                   IN /\ Len(Visible') > Len(Visible) => old \subseteq new
                      /\ \A p \in old : (\A q \in new : q.at # p.at) =>
                             Bucket(p.at - 1, Step(Visible)) < Bucket(Visible'[1].t, Step(Visible))
<1>1. ASSUME Inv, Next, A PROVE Stay
  <2>1. ChartOk(view) /\ Charts
    BY <1>1, ChartFields, EveryChart DEF OnOverview
  <2>2. PICK s : NoOlder(view.history, s) /\ view'.history = Remembered(view.history, s)
    BY <1>1, <2>1 DEF Charts
  <2> DEFINE q == view.history
             r == view.range
  <2>3. Visible = Newest(q, r) /\ Visible' = Newest(Remembered(q, s), r)
    BY <1>1, <2>2 DEF Visible
  <2>4. HistoryOk(q) /\ NoOlder(q, s) /\ r \in Nat \ {0}
    BY <2>1, <2>2, RangesAssumption DEF ChartOk
  <2>5. Len(Newest(q, r)) > 1 /\ Step(Newest(q, r)) = Step(Newest(Remembered(q, s), r))
    BY <1>1, <2>3
  <2> HIDE DEF q, r
  <2>6. PointsStay(Newest(q, r), Newest(Remembered(q, s), r))
    BY <2>4, <2>5, ChartMoves
  <2> QED
    BY <2>3, <2>6 DEF PointsStay
<1>2. Inv /\ [Next]_vars => [A => Stay]_view
  <2>1. UNCHANGED vars => UNCHANGED view
    BY DEF vars
  <2> QED
    BY <1>1, <2>1
<1> QED
  BY <1>2, InvCorrect, PTL DEF Spec, BucketsStay
=============================================================================
