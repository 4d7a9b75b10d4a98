------------------------ MODULE DashboardShownProofs ------------------------
(***************************************************************************)
(* Dashboard: every step keeps ShownInv, with which the playground shows   *)
(* the newest answer only, and settles on no old secret of the page Keys.  *)
(* As in DashboardProofs, there is one lemma for each page's actions. At   *)
(* the end, what the charts of the overview make of one more sample.       *)
(***************************************************************************)
EXTENDS DashboardProofs, FiniteSetTheorems, WellFoundedInduction

---------------------------------------------------------------------------
(* What is waited for: what the operators of Client do to it               *)

LEMMA HeardFrom ==
  ASSUME NEW cs, NEW ds,
         \A j \in DOMAIN ds : ds[j].live /\ ds[j].op \in Shows =>
            \E i \in DOMAIN cs : /\ cs[i].live /\ cs[i].op = ds[j].op
                                 /\ cs[i].arg = ds[j].arg
  PROVE  Heard(ds) \subseteq Heard(cs)
<1> SUFFICES ASSUME NEW a \in Heard(ds) PROVE a \in Heard(cs)
  OBVIOUS
<1>1. PICK j \in DOMAIN ds : ds[j].live /\ ds[j].op \in Shows /\ a = <<ds[j].op, ds[j].arg>>
  BY DEF Heard
<1>2. PICK i \in DOMAIN cs : cs[i].live /\ cs[i].op = ds[j].op /\ cs[i].arg = ds[j].arg
  BY <1>1
<1> QED
  BY <1>1, <1>2 DEF Heard

LEMMA HeardKept ==
  ASSUME NEW cs, NEW ds, DOMAIN ds = DOMAIN cs,
         \A i \in DOMAIN cs : \/ ds[i].op \notin Shows
                              \/ /\ ds[i].op = cs[i].op /\ ds[i].arg = cs[i].arg
                                 /\ ds[i].live => cs[i].live
  PROVE  Heard(ds) \subseteq Heard(cs)
BY HeardFrom

LEMMA HeardSet ==
  ASSUME NEW cs, NEW w, CallsOk(cs, w), NEW i \in DOMAIN cs, NEW st, NEW reply
  PROVE  /\ Heard([cs EXCEPT ![i].st = st]) \subseteq Heard(cs)
         /\ Heard([cs EXCEPT ![i].st = st, ![i].reply = reply]) \subseteq Heard(cs)
<1>1. IsCall(cs[i])
  BY CallsElement DEF CallOk
<1> DEFINE c == [cs[i] EXCEPT !.st = st]
           d == [cs[i] EXCEPT !.st = st, !.reply = reply]
<1>2. /\ c.op = cs[i].op /\ c.arg = cs[i].arg /\ c.live = cs[i].live
      /\ d.op = cs[i].op /\ d.arg = cs[i].arg /\ d.live = cs[i].live
  <2> DEFINE b == cs[i]
  <2>1. /\ c = [op |-> b.op, arg |-> b.arg, live |-> b.live, st |-> st, reply |-> b.reply]
        /\ d = [op |-> b.op, arg |-> b.arg, live |-> b.live, st |-> st, reply |-> reply]
    BY <1>1, CallMade, Zenon
  <2> HIDE DEF b, c, d
  <2>2. /\ c.op = b.op /\ c.arg = b.arg /\ c.live = b.live
        /\ d.op = b.op /\ d.arg = b.arg /\ d.live = b.live
    BY <2>1
  <2> QED
    BY <2>2 DEF b
<1>3. /\ [cs EXCEPT ![i].st = st] = [cs EXCEPT ![i] = c]
      /\ [cs EXCEPT ![i].st = st, ![i].reply = reply] = [cs EXCEPT ![i] = d]
  OBVIOUS
<1> HIDE DEF c, d
<1>4. Heard([cs EXCEPT ![i] = c]) \subseteq Heard(cs)
  BY <1>2, HeardKept
<1>5. Heard([cs EXCEPT ![i] = d]) \subseteq Heard(cs)
  BY <1>2, HeardKept
<1> QED
  BY <1>3, <1>4, <1>5

LEMMA HeardAppend ==
  ASSUME NEW cs, NEW w, CallsOk(cs, w), NEW c
  PROVE  /\ Heard(Append(cs, c)) \subseteq Heard(cs) \cup {<<c.op, c.arg>>}
         /\ c.op \notin Shows => Heard(Append(cs, c)) \subseteq Heard(cs)
<1> DEFINE S == {cs[i] : i \in DOMAIN cs}
           ds == Append(cs, c)
<1>1. cs \in Seq(S)
  BY DEF CallsOk
<1>2. \A j \in DOMAIN ds : ds[j] = c \/ (j \in DOMAIN cs /\ ds[j] = cs[j])
  <2> HIDE DEF S
  <2> QED
    BY <1>1
<1> HIDE DEF ds
<1>3. ASSUME NEW a \in Heard(ds)
      PROVE  a \in Heard(cs) \/ (a = <<c.op, c.arg>> /\ c.op \in Shows)
  <2>1. PICK j \in DOMAIN ds : ds[j].live /\ ds[j].op \in Shows /\ a = <<ds[j].op, ds[j].arg>>
    BY DEF Heard
  <2> QED
    BY <1>2, <2>1 DEF Heard
<1>4. Heard(ds) \subseteq Heard(cs) \cup {<<c.op, c.arg>>}
  BY <1>3
<1>5. c.op \notin Shows => Heard(ds) \subseteq Heard(cs)
  BY <1>3
<1> QED
  BY <1>4, <1>5 DEF ds

LEMMA HeardConcat ==
  ASSUME NEW cs, NEW w, CallsOk(cs, w), NEW ds, CallsOk(ds, w)
  PROVE  Heard(cs \o ds) \subseteq Heard(cs) \cup Heard(ds)
<1> DEFINE S == {cs[i] : i \in DOMAIN cs} \cup {ds[i] : i \in DOMAIN ds}
           es == cs \o ds
<1>1. cs \in Seq(S) /\ ds \in Seq(S)
  BY DEF CallsOk
<1>2. \A j \in DOMAIN es : \/ j \in DOMAIN cs /\ es[j] = cs[j]
                           \/ j - Len(cs) \in DOMAIN ds /\ es[j] = ds[j - Len(cs)]
  <2> HIDE DEF S
  <2> QED
    BY <1>1
<1> HIDE DEF es
<1>3. ASSUME NEW a \in Heard(es)
      PROVE  a \in Heard(cs) \cup Heard(ds)
  <2>1. PICK j \in DOMAIN es : es[j].live /\ es[j].op \in Shows /\ a = <<es[j].op, es[j].arg>>
    BY DEF Heard
  <2> QED
    BY <1>2, <2>1 DEF Heard
<1> QED
  BY <1>3 DEF es

LEMMA HeardSlice ==
  ASSUME NEW cs, NEW w, CallsOk(cs, w), NEW m \in Nat \ {0}, NEW n \in Nat, n <= Len(cs)
  PROVE  Heard(SubSeq(cs, m, n)) \subseteq Heard(cs)
<1> DEFINE S == {cs[j] : j \in DOMAIN cs}
           ds == SubSeq(cs, m, n)
<1>1. cs \in Seq(S)
  BY DEF CallsOk
<1>2. \A j \in DOMAIN ds : m + j - 1 \in DOMAIN cs /\ ds[j] = cs[m + j - 1]
  <2> HIDE DEF S
  <2> QED
    BY <1>1
<1> HIDE DEF ds
<1>3. Heard(ds) \subseteq Heard(cs)
  BY <1>2, HeardFrom
<1> QED
  BY <1>3 DEF ds

LEMMA HeardDrop ==
  ASSUME NEW cs, NEW w, CallsOk(cs, w), NEW i \in DOMAIN cs
  PROVE  Heard(RemoveAt(cs, i)) \subseteq Heard(cs)
<1> DEFINE k == i + 1
           h == i - 1
           n == Len(cs)
<1>1. 1 \in Nat \ {0} /\ k \in Nat \ {0} /\ h \in Nat /\ h <= n /\ n \in Nat /\ n <= n
  BY CallsElement
<1> HIDE DEF k, h
<1>2. CallsOk(SubSeq(cs, 1, h), w) /\ CallsOk(SubSeq(cs, k, n), w)
  BY <1>1, CallsSlice
<1>3. Heard(SubSeq(cs, 1, h)) \subseteq Heard(cs) /\ Heard(SubSeq(cs, k, n)) \subseteq Heard(cs)
  BY <1>1, HeardSlice
<1>4. RemoveAt(cs, i) = SubSeq(cs, 1, h) \o SubSeq(cs, k, n)
  BY DEF RemoveAt, k, h
<1> QED
  BY <1>2, <1>3, <1>4, HeardConcat

---------------------------------------------------------------------------
(* Steps of anything but the playground                                    *)

\* A sheet of Keys whose opening is over shows no secret or the one it showed
Settles(v, w) ==
    w.creating /\ ~w.opening =>
        \/ w.sheet.created = None
        \/ v.creating /\ ~v.opening /\ w.sheet.created = v.sheet.created

\* ... or the one that an answer has just brought
Hidden == view'.page = "keys" =>
    \/ view.page = "keys" /\ Settles(view, view')
    \/ view'.sheet.created = None
    \/ \E i \in Arrived("createKey") : calls[i].reply = view'.sheet.created

\* An overview that was not on screen is a new one
Charted == view'.page = "home" =>
               view.page = "home" \/ \E r : r.page = "home" /\ view' = OverviewMount(r)

ShownStep == ShownInv' /\ Hidden /\ Charted

Stays(v, w) ==
    /\ w.page = v.page
    /\ v.page \in {"keys", "playground"} => DOMAIN w = DOMAIN v
    /\ v.page = "keys" => "created" \in DOMAIN w.sheet /\ Settles(v, w)
    /\ v.page = "playground" => w.search = v.search /\ w.compare = v.compare

LEMMA StaysStep ==
  ASSUME NewestInv, Stays(view, view'), Heard(calls') \subseteq Heard(calls)
  PROVE  ShownStep
<1>1. ShownOk(view')
  BY DEF NewestInv, ShownInv, ShownOk, Stays
<1>2. HeardOk(Heard(calls'), view')
  BY DEF NewestInv, ShownInv, HeardOk, Stays
<1>3. Hidden /\ Charted
  BY DEF Hidden, Charted, Stays
<1> QED
  BY <1>1, <1>2, <1>3 DEF ShownStep, ShownInv

LEMMA ViewFields ==
  ASSUME NewestInv
  PROVE  /\ "page" \in DOMAIN view
         /\ view.page = "keys" => /\ {"creating", "opening", "sheet"} \subseteq DOMAIN view
                                  /\ "created" \in DOMAIN view.sheet
         /\ view.page = "playground" => {"search", "compare"} \subseteq DOMAIN view
BY DEF NewestInv, CallsInv, ViewOk, ShownInv, ShownOk

LEMMA SameStays == ASSUME NewestInv PROVE Stays(view, view)
BY ViewFields DEF Stays, Settles

LEMMA PageStays ==
  ASSUME view.page \notin {"keys", "playground"}, view'.page = view.page
  PROVE  Stays(view, view')
BY DEF Stays

LEMMA FieldStays ==
  ASSUME NewestInv, NEW f, NEW e,
         f \notin {"page", "creating", "opening", "sheet", "search", "compare"},
         view' = [view EXCEPT ![f] = e]
  PROVE  Stays(view, view')
BY ViewFields DEF Stays, Settles

LEMMA StillShown ==
  ASSUME NewestInv, Stays(view, view'), calls' = calls
  PROVE  ShownStep
BY StaysStep

LEMMA SentShown ==
  ASSUME NewestInv, Stays(view, view'), NEW op, op \notin Shows, NEW arg, Sent(op, arg)
  PROVE  ShownStep
<1>1. Call(op, arg).op = op
  BY DEF Call
<1>2. Heard(calls') \subseteq Heard(calls)
  BY <1>1, HeardAppend, KeptCalls DEF NewestInv, Sent
<1> QED
  BY <1>2, StaysStep

LEMMA ChangedShown ==
  ASSUME NewestInv, Stays(view, view'), NEW i \in DOMAIN calls, NEW st, NEW reply,
         \/ calls' = [calls EXCEPT ![i].st = st]
         \/ calls' = [calls EXCEPT ![i].st = st, ![i].reply = reply]
  PROVE  ShownStep
BY HeardSet, KeptCalls, StaysStep DEF NewestInv

LEMMA AnsweredShown ==
  ASSUME NewestInv, Stays(view, view'), NEW i \in DOMAIN calls, NEW reply, Answer(i, reply)
  PROVE  ShownStep
BY ChangedShown DEF Answer

LEMMA HeardWithout ==
  ASSUME NewestInv, NEW i \in DOMAIN calls
  PROVE  CallsOk(Without(i), server.written) /\ Heard(Without(i)) \subseteq Heard(calls)
BY HeardDrop, KeptCalls, WithoutCalls DEF NewestInv, Without

LEMMA DeliveredShown ==
  ASSUME NewestInv, Stays(view, view'), NEW i \in DOMAIN calls, calls' = Without(i)
  PROVE  ShownStep
BY HeardWithout, StaysStep

\* The rest of a handler that sends another call
LEMMA GoesOnShown ==
  ASSUME NewestInv, Stays(view, view'), NEW i \in DOMAIN calls, NEW c, c.op \notin Shows,
         calls' = Without(i) \/ calls' = Append(Without(i), c)
  PROVE  ShownStep
<1>1. Heard(calls') \subseteq Heard(calls)
  BY HeardWithout, HeardAppend
<1> QED
  BY <1>1, StaysStep

LEMMA HeardRefreshed ==
  ASSUME NEW cs, NEW w, CallsOk(cs, w), NEW live
  PROVE  /\ Heard(cs \o OnChanged) \subseteq Heard(cs)
         /\ Heard(cs \o Refresh(live)) \subseteq Heard(cs)
         /\ Heard(cs \o SubscribeCalls) \subseteq Heard(cs)
         /\ Heard(cs \o RefreshCalls) \subseteq Heard(cs)
         /\ Heard(SubscribeCalls) = {}
<1>1. \A ds, a : a \in Heard(ds) => \E j \in DOMAIN ds : ds[j].op \in Shows
  BY DEF Heard
<1>2. \A op, arg, e : [Call(op, arg) EXCEPT !.live = e].op = op
  BY DEF Call
<1>3. \A e : Reload("indexes", e).op \notin Shows /\ Reload("index", e).op \notin Shows
  BY <1>2 DEF Reload, Shows
<1>4. \A n, e : ModelsCall(n, e).op \notin Shows
  BY DEF ModelsCall, Call, Shows
<1>5. \A c : c.op \notin Shows => Heard(<<c>>) = {}
  BY <1>1
<1>6. Heard(<<>>) = {}
  BY <1>1
<1>7. Heard(OnChanged) = {}
  BY <1>3, <1>5, <1>6 DEF OnChanged
<1>8. /\ CallsOk(<<Reload("index", live)>>, w) /\ CallsOk(OnChanged, w)
      /\ CallsOk(Refresh(live), w) /\ CallsOk(SubscribeCalls, w) /\ CallsOk(RefreshCalls, w)
  <2>1. \A e : CallOk(Reload("indexes", e), w) /\ CallOk(Reload("index", e), w)
    BY NewCall DEF Reload, Watched
  <2>2. CallsOk(<<Reload("index", live)>>, w) /\ CallsOk(OnChanged, w)
    BY <2>1, CallsOne, CallsEmpty DEF OnChanged
  <2>3. CallsOk(Refresh(live), w)
    BY <2>2, CallsConcat DEF Refresh
  <2>4. \A n, e : CallOk(ModelsCall(n, e), w)
    BY NewCall DEF ModelsCall, Watched
  <2>5. CallsOk(SubscribeCalls, w) /\ CallsOk(RefreshCalls, w)
    BY <2>4, CallsOne, CallsEmpty DEF SubscribeCalls, RefreshCalls
  <2> QED
    BY <2>2, <2>3, <2>5
<1>9. Heard(Refresh(live)) = {}
  <2>1. Heard(Refresh(live)) \subseteq Heard(<<Reload("index", live)>>) \cup Heard(OnChanged)
    BY <1>8, HeardConcat DEF Refresh
  <2> QED
    BY <1>3, <1>5, <1>7, <2>1
<1>10. Heard(SubscribeCalls) = {} /\ Heard(RefreshCalls) = {}
  BY <1>4, <1>5, <1>6 DEF SubscribeCalls, RefreshCalls
<1> QED
  BY <1>7, <1>8, <1>9, <1>10, HeardConcat

---------------------------------------------------------------------------
(* Sign-in, the network, the shell, the documentation, the overview and    *)
(* the list of events                                                      *)

LEMMA NetworkShown == ASSUME NewestInv, Refused \/ Failed PROVE ShownStep
<1>1. PICK i \in DOMAIN calls : Refuse(i) \/ Fail(i)
  BY DEF Refused, Failed
<1>2. view' = view
  BY DEF Refused, Failed
<1> QED
  BY <1>1, <1>2, SameStays, ChangedShown DEF Refuse, Fail

LEMMA SignInShown ==
  ASSUME NewestInv, SignInNext \/ SessionEnds \/ SignOut
  PROVE  ShownStep
<1>0. Stays(view, view)
  BY SameStays
<1>1. CASE TypeKey \/ WaitTick \/ SessionEnds
  <2>1. calls' = calls /\ Stays(view, view')
    BY <1>0, <1>1, FieldStays DEF TypeKey, WaitTick, SessionEnds
  <2> QED
    BY <2>1, StillShown
<1>2. CASE SubmitSignIn
  BY <1>2, FieldStays, SentShown DEF SubmitSignIn, Shows
<1>3. CASE SignOut
  BY <1>0, <1>3, SentShown DEF SignOut, Shows
<1>4. CASE ServeLogin
  <2>1. PICK i \in Pending("login") :
         \/ (\E r : Answer(i, r)) /\ view' = view
         \/ (\E e : calls' = [calls EXCEPT ![i].st = "failed", ![i].reply = e]) /\ view' = view
    BY <1>4 DEF ServeLogin
  <2> QED
    BY <1>0, <2>1, PendingCall, AnsweredShown, ChangedShown
<1>5. CASE ServeMe
  BY <1>0, <1>5, PendingCall, AnsweredShown DEF ServeMe
<1>6. CASE ServeLogout
  BY <1>0, <1>6, PendingCall, AnsweredShown DEF ServeLogout
<1>7. CASE SignInRefused
  <2>1. PICK i \in Arrived("login") :
         /\ view' = IF ~calls[i].live THEN view
                    ELSE [view EXCEPT !.busy = FALSE,
                              !.wait = IF calls[i].reply = "locked" THEN MaxWait ELSE @]
         /\ calls' = Without(i)
    BY <1>7 DEF SignInRefused
  <2>2. Stays(view, view')
    BY <2>1, ViewFields DEF Stays, Settles
  <2> QED
    BY <2>1, <2>2, ArrivedCall, DeliveredShown
<1> QED
  BY <1>1, <1>2, <1>3, <1>4, <1>5, <1>6, <1>7 DEF SignInNext

LEMMA ShellShown == ASSUME NewestInv, ShellNext \/ ServeModels PROVE ShownStep
<1>0. Stays(view, view)
  BY SameStays
<1>1. CASE TogglePalette \/ TypeInPalette \/ MoveInPalette \/ RunCommand \/ FollowLink
  <2>1. UNCHANGED <<view, calls>>
    BY <1>1 DEF TogglePalette, TypeInPalette, MoveInPalette, RunCommand, FollowLink
  <2> QED
    BY <1>0, <2>1, StillShown
<1>2. CASE PollShell
  BY <1>0, <1>2, SentShown DEF PollShell, Ticks, Shows
<1>3. CASE ServeIndexes \/ ServeStats \/ ServeModels
  BY <1>0, <1>3, PendingCall, AnsweredShown DEF ServeIndexes, ServeStats, ServeModels
<1>4. CASE StatsLoaded
  BY <1>0, <1>4, ArrivedCall, DeliveredShown DEF StatsLoaded
<1> QED
  BY <1>1, <1>2, <1>3, <1>4 DEF ShellNext

LEMMA SecurityShown == ASSUME NewestInv, SecurityNext PROVE ShownStep
<1>0. Stays(view, view)
  BY SameStays
<1>1. CASE FilterEvents \/ OpenEvent \/ LeaveButton
  <2>1. calls' = calls /\ Stays(view, view')
    BY <1>1, PageStays, ViewFields DEF FilterEvents, OpenEvent, LeaveButton, OnSecurity
  <2> QED
    BY <2>1, StillShown
<1>2. CASE PollEvents
  BY <1>0, <1>2, SentShown DEF PollEvents, Polls, Ticks, Shows
<1>3. CASE EndSessions
  <2>1. Stays(view, view')
    BY <1>0, <1>3, FieldStays DEF EndSessions
  <2> QED
    BY <1>3, <2>1, SentShown, StillShown DEF EndSessions, Shows
<1>4. CASE ServeRevokeAll
  <2>1. PICK i \in Pending("revokeAll") :
           /\ \/ calls' = [calls EXCEPT ![i].st = "failed"]
              \/ Answer(i, None)
           /\ view' = view
    BY <1>4 DEF ServeRevokeAll
  <2> QED
    BY <1>0, <2>1, PendingCall, AnsweredShown, ChangedShown
<1>5. CASE SessionsEnded
  <2>1. PICK i \in Arrived("revokeAll") :
           /\ calls' = Without(i) \/ calls' = Append(Without(i), Call("logout", None))
           /\ view' = view
    BY <1>5 DEF SessionsEnded
  <2>2. Call("logout", None).op \notin Shows
    BY DEF Call, Shows
  <2> QED
    BY <1>0, <2>1, <2>2, ArrivedCall, GoesOnShown
<1> QED
  BY <1>1, <1>2, <1>3, <1>4, <1>5 DEF SecurityNext

LEMMA DocsShown == ASSUME NewestInv, DocsNext PROVE ShownStep
<1>1. calls' = calls
  BY DEF DocsNext, FollowDocLink, ToggleMenu, ToggleDocSearch, TypeInDocSearch, OpenResult
<1>2. view.page = "docs" /\ view'.page = view.page
  BY ViewFields
  DEF DocsNext, FollowDocLink, ToggleMenu, ToggleDocSearch, TypeInDocSearch, OpenResult, OnDocs
<1> QED
  BY <1>1, <1>2, PageStays, StillShown

LEMMA OverviewShown == ASSUME NewestInv, OverviewNext PROVE ShownStep
<1>0. Stays(view, view)
  BY SameStays
<1>1. CASE PollOverview
  BY <1>0, <1>1, SentShown DEF PollOverview, Polls, Ticks, Shows
<1>2. CASE ServeLive \/ ServeEvents
  BY <1>0, <1>2, PendingCall, AnsweredShown DEF ServeLive, ServeEvents
<1>3. CASE LiveLoaded \/ FeedLoaded
  <2>1. PICK i \in DOMAIN calls :
           /\ \/ \E e, h : view' = [view EXCEPT !.stats = e, !.history = h]
              \/ \E e : \/ view' = [view EXCEPT !.stats = e] \/ view' = [view EXCEPT !.feed = e]
                        \/ view' = [view EXCEPT !.events = e]
              \/ view' = view
           /\ calls' = Without(i)
    BY <1>3, ArrivedCall DEF LiveLoaded, FeedLoaded
  <2>2. Stays(view, view')
    BY <2>1, ViewFields DEF Stays, Settles
  <2> QED
    BY <2>1, <2>2, DeliveredShown
<1>4. CASE ChooseRange \/ NewIndex
  <2>1. calls' = calls /\ Stays(view, view')
    BY <1>0, <1>4, FieldStays DEF ChooseRange, NewIndex
  <2> QED
    BY <2>1, StillShown
<1> QED
  BY <1>1, <1>2, <1>3, <1>4 DEF OverviewNext

---------------------------------------------------------------------------
(* API keys, provider keys and the list of indexes                         *)

\* An answer or a failure, whatever else the server does
LEMMA ServedShown ==
  ASSUME NewestInv, view' = view, NEW i \in DOMAIN calls, NEW reply,
         \/ Answer(i, reply)
         \/ calls' = [calls EXCEPT ![i].st = "failed"]
  PROVE  ShownStep
BY SameStays, AnsweredShown, ChangedShown

LEMMA RefreshedShown ==
  ASSUME NewestInv, Stays(view, view'), NEW i \in DOMAIN calls, NEW live,
         \/ calls' = Without(i)
         \/ calls' = Without(i) \o OnChanged
         \/ calls' = Without(i) \o Refresh(live)
  PROVE  ShownStep
<1>1. Heard(calls') \subseteq Heard(calls)
  BY HeardWithout, HeardRefreshed
<1> QED
  BY <1>1, StaysStep

\* A sheet that opens settles later, when the effect of the opening has run
LEMMA OpenedStays ==
  ASSUME NewestInv, OnKeys,
         view' = Opened(view) \/ \E r : view' = Opened([view EXCEPT !.route = r])
  PROVE  Stays(view, view')
<1>1. DOMAIN view' = DOMAIN view /\ view'.page = "keys" /\ view'.opening
  BY ViewFields DEF Opened, OnKeys
<1>2. view'.sheet = view.sheet
  BY ViewFields DEF Opened, OnKeys
<1> QED
  BY <1>1, <1>2, ViewFields DEF Stays, Settles, OnKeys

\* ... and leaves a form without a secret
LEMMA EffectStays == ASSUME NewestInv, KeySheetEffect PROVE Stays(view, view')
<1>1. OnKeys /\ view' = [view EXCEPT !.opening = FALSE, !.sheet = Cleared(view.sheet)]
  BY DEF KeySheetEffect
<1>2. "created" \in DOMAIN Cleared(view.sheet) /\ Cleared(view.sheet).created = None
  BY DEF Cleared, BlankKeySheet
<1>3. DOMAIN view' = DOMAIN view /\ view'.page = "keys" /\ view'.sheet = Cleared(view.sheet)
  BY <1>1, ViewFields DEF OnKeys
<1> QED
  BY <1>1, <1>2, <1>3 DEF Stays, Settles, OnKeys

\* The fields of the form, and that it is busy
LEMMA FormStays ==
  ASSUME NewestInv, OnKeys, NEW f, f # "created", NEW e,
         view' = [view EXCEPT !.sheet = [view.sheet EXCEPT ![f] = e]]
  PROVE  Stays(view, view')
<1>1. "created" \in DOMAIN view'.sheet /\ view'.sheet.created = view.sheet.created
  BY ViewFields DEF OnKeys
<1>2. /\ DOMAIN view' = DOMAIN view /\ view'.page = view.page
      /\ view'.creating = view.creating /\ view'.opening = view.opening
  BY ViewFields DEF OnKeys
<1> QED
  BY <1>1, <1>2 DEF Stays, Settles, OnKeys

\* The secret that an answer brings
LEMMA CreatedShown == ASSUME NewestInv, KeyCreated PROVE ShownStep
<1>1. PICK i \in Arrived("createKey") :
        /\ view' = IF ~calls[i].live THEN view
                   ELSE [view EXCEPT !.sheet.busy = FALSE,
                             !.sheet.created = IF Ok(i) THEN calls[i].reply ELSE @]
        /\ calls' = Without(i) \/ calls' = Append(Without(i), Reload("keys", calls[i].live))
  BY DEF KeyCreated
<1>2. i \in DOMAIN calls /\ Reload("keys", calls[i].live).op \notin Shows
  BY ArrivedCall DEF Reload, Call, Shows
<1>3. CASE ~calls[i].live
  BY <1>1, <1>2, <1>3, SameStays, GoesOnShown
<1>4. CASE calls[i].live
  <2>1. PICK e : /\ view' = [view EXCEPT !.sheet.busy = FALSE, !.sheet.created = e]
                 /\ e = IF Ok(i) THEN calls[i].reply ELSE view.sheet.created
    <3> DEFINE k == IF Ok(i) THEN calls[i].reply ELSE view.sheet.created
    <3>1. view' = [view EXCEPT !.sheet.busy = FALSE, !.sheet.created = k]
      BY <1>1, <1>4
    <3> QED
      BY <3>1
  <2>2. DOMAIN view' = DOMAIN view /\ \A f \in DOMAIN view \ {"sheet"} : view'[f] = view[f]
    BY <2>1
  <2>3. Heard(calls') \subseteq Heard(calls)
    BY <1>1, <1>2, HeardWithout, HeardAppend
  <2>4. CASE view.page # "keys"
    <3>1. Stays(view, view')
      BY <2>2, <2>4, ViewFields DEF Stays
    <3> QED
      BY <2>3, <3>1, StaysStep
  <2>5. CASE view.page = "keys"
    <3>1. /\ view'.page = "keys" /\ DOMAIN view' = DOMAIN view
          /\ "created" \in DOMAIN view'.sheet /\ view'.sheet.created = e
          /\ view'.creating = view.creating /\ view'.opening = view.opening
      BY <2>1, <2>2, <2>5, ViewFields
    <3>2. ShownOk(view') /\ HeardOk(Heard(calls'), view')
      BY <2>3, <2>5, <3>1 DEF ShownOk, HeardOk, NewestInv, ShownInv
    <3>3. Hidden
      BY <1>1, <2>1, <2>5, <3>1 DEF Hidden, Settles
    <3> QED
      BY <3>1, <3>2, <3>3 DEF ShownStep, ShownInv, Charted
  <2> QED
    BY <2>4, <2>5
<1> QED
  BY <1>3, <1>4

LEMMA KeysShown == ASSUME NewestInv, KeysNext PROVE ShownStep
<1>0. /\ "page" \in DOMAIN view
      /\ view.page = "keys" => {"creating", "opening", "sheet"} \subseteq DOMAIN view
      /\ Stays(view, view)
  BY ViewFields, SameStays
<1>1. CASE AskRevoke \/ ViewActivity \/ CancelRevoke \/ CloseKeySheet
  <2>1. calls' = calls /\ view.page = "keys"
    BY <1>1 DEF AskRevoke, ViewActivity, CancelRevoke, CloseKeySheet, OnKeys
  <2>2. /\ DOMAIN view' = DOMAIN view /\ view'.page = view.page
        /\ view'.sheet = view.sheet /\ view'.opening = view.opening
        /\ view'.creating => view.creating
    BY <1>0, <1>1, <2>1 DEF AskRevoke, ViewActivity, CancelRevoke, CloseKeySheet
  <2>3. Stays(view, view')
    BY <2>1, <2>2, ViewFields DEF Stays, Settles
  <2> QED
    BY <2>1, <2>3, StillShown
<1>2. CASE ConfirmRevoke \/ PollKeys
  BY <1>0, <1>2, SentShown DEF ConfirmRevoke, PollKeys, Polls, Ticks, Shows
<1>3. CASE EditKey \/ SubmitKey
  <2>1. PICK f, e : /\ OnKeys /\ f # "created"
                    /\ view' = [view EXCEPT !.sheet = [view.sheet EXCEPT ![f] = e]]
    BY <1>3 DEF EditKey, SubmitKey
  <2>2. Stays(view, view')
    BY <2>1, FormStays
  <2> QED
    BY <1>3, <2>2, StillShown, SentShown DEF EditKey, SubmitKey, Shows
<1>4. CASE CreateKey
  <2>1. /\ OnKeys /\ calls' = calls
        /\ view' = view \/ view' = Opened(view)
    BY <1>4 DEF CreateKey, OpenKeySheet
  <2>2. Stays(view, view')
    BY <1>0, <2>1, OpenedStays
  <2> QED
    BY <2>1, <2>2, StillShown
<1>5. CASE KeySheetEffect
  <2>1. calls' = calls
    BY <1>5 DEF KeySheetEffect
  <2> QED
    BY <1>5, <2>1, EffectStays, StillShown
<1>6. CASE ServeRevokeKey \/ ServeKeys \/ ServeCreateKey
  <2>1. PICK i, reply :
           /\ i \in DOMAIN calls
           /\ Answer(i, reply) \/ calls' = [calls EXCEPT ![i].st = "failed"]
           /\ view' = view
    BY <1>6, PendingCall DEF ServeRevokeKey, ServeKeys, ServeCreateKey
  <2> QED
    BY <2>1, ServedShown
<1>7. CASE KeysLoaded
  BY <1>0, <1>7, ArrivedCall, FieldStays, DeliveredShown DEF KeysLoaded
<1>8. CASE Revoked
  <2>1. PICK i \in DOMAIN calls :
           /\ view' = view \/ view' = [view EXCEPT !.confirming = None]
           /\ \/ calls' = Without(i)
              \/ calls' = Append(Without(i), Reload("keys", calls[i].live))
    BY <1>8, ArrivedCall DEF Revoked
  <2>2. Stays(view, view')
    BY <1>0, <2>1, FieldStays
  <2>3. Reload("keys", calls[i].live).op \notin Shows
    BY DEF Reload, Call, Shows
  <2> QED
    BY <2>1, <2>2, <2>3, GoesOnShown
<1> QED
  BY <1>1, <1>2, <1>3, <1>4, <1>5, <1>6, <1>7, <1>8, CreatedShown DEF KeysNext

\* An answer about a provider is not heard by another page
LEMMA ProvidersHear ==
  ASSUME OfPage(Waiting(calls), view), NEW i \in DOMAIN calls, calls[i].live,
         calls[i].op \in {"providers", "setProvider"}
  PROVE  view.page = "providers"
<1> DEFINE a == <<calls[i].op, calls[i].arg>>
<1>1. a \in Waiting(calls) /\ a[1] = calls[i].op
  BY DEF Waiting, Awaited
<1>2. PageOf(a[1]) = "providers"
  BY <1>1 DEF PageOf
<1> QED
  BY <1>1, <1>2 DEF OfPage

LEMMA ProvidersShown ==
  ASSUME NewestInv, OfPage(Waiting(calls), view), ProvidersNext
  PROVE  ShownStep
<1>0. Stays(view, view) /\ "page" \in DOMAIN view
  BY SameStays, ViewFields
<1>1. CASE EditProvider \/ CloseProviderSheet \/ TypeProviderKey
  <2>1. view.page = "providers" /\ calls' = calls
    BY <1>1 DEF EditProvider, CloseProviderSheet, TypeProviderKey, OnProviders
  <2>2. view'.page = view.page
    BY <1>0, <1>1 DEF EditProvider, CloseProviderSheet, TypeProviderKey, CloseSheet, Edited
  <2> QED
    BY <2>1, <2>2, PageStays, StillShown
<1>2. CASE TestProvider \/ RemoveProvider \/ SaveProviderKey \/ PollProviders
  <2>1. PICK c : c.op \notin Shows /\ calls' = Append(calls, c)
    BY <1>2 DEF TestProvider, RemoveProvider, SaveProviderKey, PollProviders, Polls, Ticks,
                Sent, TestSaved, SaveCall, Call, Shows
  <2>2. view.page = "providers" /\ view'.page = view.page
    BY <1>0, <1>2 DEF TestProvider, RemoveProvider, SaveProviderKey, PollProviders, OnProviders
  <2>3. Heard(calls') \subseteq Heard(calls)
    BY <2>1, HeardAppend, KeptCalls DEF NewestInv
  <2> QED
    BY <2>2, <2>3, PageStays, StaysStep
<1>3. CASE ServeProviders \/ ServeTest \/ ServeSetProvider \/ ServeRemoveProvider
  <2>1. PICK i, reply : i \in DOMAIN calls /\ Answer(i, reply) /\ view' = view
    BY <1>3, PendingCall DEF ServeProviders, ServeTest, ServeSetProvider, ServeRemoveProvider
  <2> QED
    BY <2>1, ServedShown
<1>4. CASE ProvidersLoaded
  <2>1. PICK i \in DOMAIN calls :
           /\ \/ view' = view
              \/ /\ calls[i].live /\ calls[i].op = "providers"
                 /\ \E e : \/ view' = [view EXCEPT !.list = e]
                           \/ view' = Requested([view EXCEPT !.list = e])
           /\ calls' = Without(i)
    BY <1>4, ArrivedCall DEF ProvidersLoaded
  <2>2. view' = view \/ (view.page = "providers" /\ view'.page = view.page)
    BY <1>0, <2>1, ProvidersHear DEF Requested, Edited
  <2>3. Stays(view, view')
    BY <1>0, <2>2, PageStays
  <2> QED
    BY <2>1, <2>3, DeliveredShown
<1>5. CASE TestDone
  <2>1. PICK i \in Arrived("test") :
           /\ \/ view' = view
              \/ view' = [view EXCEPT !.checks[calls[i].arg.p] =
                              IF Ok(i) /\ calls[i].reply = "ok" THEN "ok" ELSE "bad"]
              \/ view' = [view EXCEPT !.sheet.busy = FALSE, !.sheet.failure = TRUE]
           /\ \/ calls' = Without(i)
              \/ calls' = Append(Without(i), [Call("setProvider", calls[i].arg)
                                                  EXCEPT !.live = calls[i].live])
    BY <1>5 DEF TestDone
  <2>2. Stays(view, view')
    BY <1>0, <2>1, ViewFields DEF Stays, Settles
  <2>3. i \in DOMAIN calls
        /\ [Call("setProvider", calls[i].arg) EXCEPT !.live = calls[i].live].op \notin Shows
    BY ArrivedCall DEF Call, Shows
  <2> QED
    BY <2>1, <2>2, <2>3, GoesOnShown
<1>6. CASE ProviderSaved \/ ProviderRemoved
  <2>1. PICK i, live :
           /\ i \in DOMAIN calls
           /\ \/ calls' = Without(i)
              \/ calls' = Without(i) \o RefreshCalls \o <<Reload("providers", live)>>
    BY <1>6, ArrivedCall DEF ProviderSaved, ProviderRemoved
  <2>2. Heard(calls') \subseteq Heard(calls)
    <3>1. /\ CallsOk(Without(i), server.written) /\ Heard(Without(i)) \subseteq Heard(calls)
          /\ Heard(Without(i) \o RefreshCalls) \subseteq Heard(Without(i))
          /\ CallsOk(Without(i) \o RefreshCalls, server.written)
      BY <2>1, HeardWithout, HeardRefreshed, RefreshedCalls
    <3>2. /\ CallOk(Reload("providers", live), server.written)
          /\ Reload("providers", live).op \notin Shows
      BY NewCall DEF Reload, Watched, Call, Shows
    <3>3. CallsOk(<<Reload("providers", live)>>, server.written)
          /\ Heard(<<Reload("providers", live)>>) = {}
      BY <3>2, CallsOne DEF Heard
    <3> QED
      BY <2>1, <3>1, <3>3, HeardConcat
  <2>3. Stays(view, view')
    <3>1. \/ view' = view
          \/ view' = [view EXCEPT !.sheet.busy = FALSE, !.sheet.failure = TRUE]
          \/ /\ view.page = "providers"
             /\ \E p, e, v : /\ v = [view EXCEPT !.sheet.busy = FALSE, !.checks[p] = e]
                             /\ view' = Edited(v, None)
          \/ \E p : view' = [view EXCEPT !.checks[p] = None]
      <4>1. CASE ProviderRemoved
        BY <4>1 DEF ProviderRemoved
      <4>2. CASE ProviderSaved
        <5>1. PICK k \in Arrived("setProvider") :
                 LET a == calls[k].arg
                     saved == [view EXCEPT !.sheet.busy = FALSE,
                                           !.checks[a.p] = IF a.anyway THEN @ ELSE "ok"]
                 IN \/ calls[k].live /\ view' = Edited(saved, None)
                    \/ view' = [view EXCEPT !.sheet.busy = FALSE, !.sheet.failure = TRUE]
                    \/ view' = view
          BY <4>2 DEF ProviderSaved, CloseSheet
        <5>2. calls[k].live => view.page = "providers"
          BY ArrivedCall, ProvidersHear
        <5>3. ASSUME calls[k].live,
                     view' = Edited([view EXCEPT !.sheet.busy = FALSE,
                                       !.checks[calls[k].arg.p] =
                                           IF calls[k].arg.anyway THEN @ ELSE "ok"], None)
              PROVE  \E p, e, v : /\ v = [view EXCEPT !.sheet.busy = FALSE, !.checks[p] = e]
                                 /\ view' = Edited(v, None)
          <6> DEFINE p == calls[k].arg.p
          <6>1. \E e : view' = Edited([view EXCEPT !.sheet.busy = FALSE, !.checks[p] = e], None)
            BY <5>3
          <6> QED
            BY <6>1
        <5> QED
          BY <5>1, <5>2, <5>3
      <4> QED
        BY <1>6, <4>1, <4>2
    <3>2. CASE /\ view.page = "providers"
               /\ \E p, e, v : /\ v = [view EXCEPT !.sheet.busy = FALSE, !.checks[p] = e]
                               /\ view' = Edited(v, None)
      <4>1. view'.page = view.page
        BY <1>0, <3>2 DEF Edited
      <4> QED
        BY <3>2, <4>1, PageStays
    <3> QED
      BY <1>0, <3>1, <3>2, ProvidersHear, ViewFields DEF Stays, Settles
  <2> QED
    BY <2>2, <2>3, StaysStep
<1> QED
  BY <1>1, <1>2, <1>3, <1>4, <1>5, <1>6 DEF ProvidersNext

LEMMA IndexesShown == ASSUME NewestInv, IndexesNext PROVE ShownStep
<1>0. Stays(view, view) /\ "page" \in DOMAIN view
  BY SameStays, ViewFields
<1>1. CASE OpenIndex \/ CreateIndex \/ EditIndex \/ CloseIndexSheet
  <2>1. view.page = "indexes" /\ calls' = calls
    BY <1>1 DEF OpenIndex, CreateIndex, EditIndex, CloseIndexSheet, OnIndexes
  <2>2. view'.page = view.page
    BY <1>0, <1>1 DEF OpenIndex, CreateIndex, EditIndex, CloseIndexSheet, IndexSheetOpened
  <2> QED
    BY <2>1, <2>2, PageStays, StillShown
<1>2. CASE SubmitIndex
  <2>1. view.page = "indexes" /\ view'.page = view.page
    BY <1>0, <1>2 DEF SubmitIndex, OnIndexes
  <2>2. Stays(view, view')
    BY <2>1, PageStays
  <2> QED
    BY <1>2, <2>2, SentShown DEF SubmitIndex, Shows
<1>3. CASE ServeCreateIndex
  <2>1. PICK i, reply :
           /\ i \in DOMAIN calls
           /\ Answer(i, reply) \/ calls' = [calls EXCEPT ![i].st = "failed"]
           /\ view' = view
    BY <1>3, PendingCall DEF ServeCreateIndex
  <2> QED
    BY <2>1, ServedShown
<1>4. CASE IndexCreated
  <2>1. PICK i \in DOMAIN calls :
           /\ \/ view' = view
              \/ view' = [view EXCEPT !.creating = FALSE]
              \/ view' = [view EXCEPT !.sheet.busy = FALSE]
           /\ calls' = Without(i) \/ calls' = Without(i) \o OnChanged
    BY <1>4, ArrivedCall DEF IndexCreated
  <2>2. Stays(view, view')
    BY <1>0, <2>1, ViewFields DEF Stays, Settles
  <2> QED
    BY <2>1, <2>2, RefreshedShown
<1> QED
  BY <1>1, <1>2, <1>3, <1>4 DEF IndexesNext

---------------------------------------------------------------------------
(* The page of an index                                                    *)

Untouched(v, w) ==
    /\ DOMAIN w = DOMAIN v
    /\ \A f \in {"page", "creating", "opening", "sheet", "search", "compare"} \cap DOMAIN v :
          w[f] = v[f]

LEMMA UntouchedStays ==
  ASSUME NewestInv, Untouched(view, view')
  PROVE  Stays(view, view')
BY ViewFields DEF Untouched, Stays, Settles

LEMMA UntouchedTwice ==
  ASSUME NEW u, NEW v, NEW w, Untouched(u, v), Untouched(v, w)
  PROVE  Untouched(u, w)
BY DEF Untouched

LEMMA HeardUnpicked ==
  ASSUME NEW cs, NEW w, CallsOk(cs, w)
  PROVE  Heard(Unpicked(cs)) \subseteq Heard(cs)
<1> DEFINE ds == Unpicked(cs)
<1>1. DOMAIN ds = DOMAIN cs
  BY DEF Unpicked
<1>2. ASSUME NEW i \in DOMAIN cs
      PROVE  \/ ds[i].op \notin Shows
             \/ /\ ds[i].op = cs[i].op /\ ds[i].arg = cs[i].arg
                /\ ds[i].live => cs[i].live
  <2>1. CASE cs[i].op = "setEmbedding"
    <3>1. ds[i] = [cs[i] EXCEPT !.arg.picker = FALSE]
      BY <2>1 DEF Unpicked
    <3>2. IsCall(cs[i])
      BY CallsElement DEF CallOk
    <3> QED
      BY <2>1, <3>1, <3>2 DEF IsCall, Shows
  <2>2. CASE cs[i].op # "setEmbedding"
    <3> DEFINE x == cs[i].live /\ cs[i].op # "fields"
    <3>1. ds[i] = [cs[i] EXCEPT !.live = x]
      BY <2>2 DEF Unpicked
    <3>2. x => cs[i].live
      OBVIOUS
    <3> HIDE DEF x, ds
    <3>3. IsCall(cs[i])
      BY CallsElement DEF CallOk
    <3>4. ds[i] = [op |-> cs[i].op, arg |-> cs[i].arg, live |-> x, st |-> cs[i].st,
                   reply |-> cs[i].reply]
      BY <3>1, <3>3, CallMade
    <3>5. ds[i].op = cs[i].op /\ ds[i].arg = cs[i].arg /\ ds[i].live = x
      BY <3>4
    <3> QED
      BY <3>2, <3>5
  <2> QED
    BY <2>1, <2>2
<1> HIDE DEF ds
<1>3. Heard(ds) \subseteq Heard(cs)
  BY <1>1, <1>2, HeardKept
<1> QED
  BY <1>3 DEF ds

LEMMA PickerHeard ==
  ASSUME NEW v, NEW cs, NEW w, CallsOk(cs, w)
  PROVE  /\ Untouched(v, WithPicker(v, cs).view)
         /\ Heard(WithPicker(v, cs).calls) \subseteq Heard(cs)
<1>1. CASE ShowsPicker(v) /\ v.connect = None
  <2> DEFINE u == [v EXCEPT !.connect = ConnectMount(v.info.data.embed), !.models = NewModels]
             ds == cs \o SubscribeCalls
             c == Call("fields", None)
  <2>1. WithPicker(v, cs).view = u /\ WithPicker(v, cs).calls = ds \o <<c>>
    BY <1>1 DEF WithPicker
  <2>2. Untouched(v, u)
    BY DEF Untouched
  <2>3. CallOk(c, w) /\ c.op \notin Shows
    BY NewCall DEF Watched, Call, Shows
  <2>4. CallsOk(ds, w) /\ Heard(ds) \subseteq Heard(cs)
    BY RefreshedCalls, HeardRefreshed
  <2> HIDE DEF c, ds, u
  <2>5. CallsOk(<<c>>, w) /\ Heard(<<c>>) = {}
    BY <2>3, CallsOne DEF Heard
  <2>6. Heard(ds \o <<c>>) \subseteq Heard(ds)
    BY <2>4, <2>5, HeardConcat
  <2> QED
    BY <2>1, <2>2, <2>4, <2>6
<1>2. CASE ~ShowsPicker(v) /\ v.connect # None
  <2> DEFINE u == [v EXCEPT !.connect = None, !.models = NoModels]
  <2>1. WithPicker(v, cs).view = u /\ WithPicker(v, cs).calls = Unpicked(cs)
    BY <1>2 DEF WithPicker
  <2>2. Untouched(v, u)
    BY DEF Untouched
  <2> QED
    BY <2>1, <2>2, HeardUnpicked
<1>3. CASE ~(ShowsPicker(v) /\ v.connect = None) /\ ~(~ShowsPicker(v) /\ v.connect # None)
  <2>1. WithPicker(v, cs).view = v /\ WithPicker(v, cs).calls = cs
    BY <1>3 DEF WithPicker
  <2> QED
    BY <2>1 DEF Untouched
<1> QED
  BY <1>1, <1>2, <1>3

LEMMA ConnectShown == ASSUME NewestInv, ConnectNext PROVE ShownStep
<1>0. Stays(view, view)
  BY SameStays
<1>1. CASE ChooseModel
  <2>1. calls' = calls /\ \E m : view' = [view EXCEPT !.connect.choice = m]
    BY <1>1 DEF ChooseModel
  <2>2. Untouched(view, view')
    BY <2>1 DEF Untouched
  <2> QED
    BY <2>1, <2>2, UntouchedStays, StillShown
<1>2. CASE Connect
  <2>1. view' = [view EXCEPT !.connect.busy = TRUE] /\ \E a : Sent("setEmbedding", a)
    BY <1>2 DEF Connect
  <2>2. Untouched(view, view')
    BY <2>1 DEF Untouched
  <2> QED
    BY <2>1, <2>2, UntouchedStays, SentShown DEF Shows
<1>3. CASE ChangeModel
  <2> DEFINE v == [view EXCEPT !.settings.editing = TRUE]
  <2>1. view' = WithPicker(v, calls).view /\ calls' = WithPicker(v, calls).calls
    BY <1>3 DEF ChangeModel
  <2>2. Untouched(view, v)
    BY DEF Untouched
  <2> HIDE DEF v
  <2>3. Untouched(v, view') /\ Heard(calls') \subseteq Heard(calls)
    BY <2>1, PickerHeard, KeptCalls DEF NewestInv
  <2> QED
    BY <2>2, <2>3, UntouchedTwice, UntouchedStays, StaysStep
<1>4. CASE Disconnect
  BY <1>0, <1>4, SentShown DEF Disconnect, Shows
<1>5. CASE ServeFields
  BY <1>5, PendingCall, ServedShown DEF ServeFields
<1>6. CASE FieldsLoaded
  <2>1. PICK i \in DOMAIN calls :
           /\ view' = view \/ view' = [view EXCEPT !.connect.fields = TRUE]
           /\ calls' = Without(i)
    BY <1>6, ArrivedCall DEF FieldsLoaded
  <2>2. Untouched(view, view')
    BY <2>1 DEF Untouched
  <2> QED
    BY <2>1, <2>2, UntouchedStays, DeliveredShown
<1> QED
  BY <1>1, <1>2, <1>3, <1>4, <1>5, <1>6 DEF ConnectNext

\* Calls that nobody hears any more
LEMMA HeardOrphan ==
  ASSUME NEW w, CallsOk(calls, w)
  PROVE  /\ \A from : /\ DOMAIN Orphan(from) = DOMAIN calls
                      /\ Heard(Orphan(from)) \subseteq Heard(calls)
                      /\ Heard(Orphan(from)) \subseteq {<<calls[i].op, calls[i].arg>> :
                            i \in {j \in DOMAIN calls : ~from[j] /\ calls[j].op \in Shows}}
         /\ DOMAIN Orphaned = DOMAIN calls /\ Heard(Orphaned) = {}
<1>1. ASSUME NEW from, NEW i \in DOMAIN calls
      PROVE  /\ Orphan(from)[i].op = calls[i].op /\ Orphan(from)[i].arg = calls[i].arg
             /\ Orphan(from)[i].live => calls[i].live /\ ~from[i]
  <2> DEFINE x == calls[i].live /\ ~from[i]
  <2>1. Orphan(from)[i] = [calls[i] EXCEPT !.live = x]
    BY DEF Orphan
  <2>2. x => calls[i].live /\ ~from[i]
    OBVIOUS
  <2> HIDE DEF x
  <2>3. IsCall(calls[i])
    BY CallsElement DEF CallOk
  <2>4. Orphan(from)[i] = [op |-> calls[i].op, arg |-> calls[i].arg, live |-> x,
                           st |-> calls[i].st, reply |-> calls[i].reply]
    BY <2>1, <2>3, CallMade
  <2>5. /\ Orphan(from)[i].op = calls[i].op /\ Orphan(from)[i].arg = calls[i].arg
        /\ Orphan(from)[i].live = x
    BY <2>4
  <2> QED
    BY <2>2, <2>5
<1>2. \A from : DOMAIN Orphan(from) = DOMAIN calls
  BY DEF Orphan
<1>3. \A i \in DOMAIN calls : ~Orphaned[i].live
  <2> SUFFICES ASSUME NEW i \in DOMAIN calls PROVE ~Orphaned[i].live
    OBVIOUS
  <2>1. IsCall(calls[i]) /\ Orphaned[i] = [calls[i] EXCEPT !.live = FALSE]
    BY CallsElement DEF Orphaned, CallOk
  <2> QED
    BY <2>1 DEF IsCall
<1>4. DOMAIN Orphaned = DOMAIN calls /\ Heard(Orphaned) = {}
  BY <1>3 DEF Orphaned, Heard
<1>5. ASSUME NEW from
      PROVE  /\ Heard(Orphan(from)) \subseteq Heard(calls)
             /\ Heard(Orphan(from)) \subseteq {<<calls[i].op, calls[i].arg>> :
                   i \in {j \in DOMAIN calls : ~from[j] /\ calls[j].op \in Shows}}
  <2> DEFINE ds == Orphan(from)
  <2>1. /\ DOMAIN ds = DOMAIN calls
        /\ \A i \in DOMAIN calls : /\ ds[i].op = calls[i].op /\ ds[i].arg = calls[i].arg
                                   /\ ds[i].live => calls[i].live /\ ~from[i]
    BY <1>1, <1>2
  <2> HIDE DEF ds
  <2>2. Heard(ds) \subseteq Heard(calls)
    BY <2>1, HeardKept
  <2>3. Heard(ds) \subseteq {<<calls[i].op, calls[i].arg>> :
                   i \in {j \in DOMAIN calls : ~from[j] /\ calls[j].op \in Shows}}
    BY <2>1 DEF Heard
  <2> QED
    BY <2>2, <2>3 DEF ds
<1> QED
  BY <1>2, <1>4, <1>5

\* Nothing is heard of a page that is left
LEMMA HeardNothing ==
  ASSUME NEW w, CallsOk(calls, w), NEW from,
         \A j \in DOMAIN calls : calls[j].op \in Shows => from[j]
  PROVE  Heard(Orphan(from)) = {}
<1>1. {j \in DOMAIN calls : ~from[j] /\ calls[j].op \in Shows} = {}
  OBVIOUS
<1>2. Heard(Orphan(from)) \subseteq {<<calls[i].op, calls[i].arg>> :
          i \in {j \in DOMAIN calls : ~from[j] /\ calls[j].op \in Shows}}
  BY HeardOrphan
<1> QED
  BY <1>1, <1>2

LEMMA MapShown == ASSUME NewestInv, MapNext PROVE ShownStep
<1>0. Stays(view, view) /\ CallsOk(calls, server.written)
  BY SameStays, KeptCalls DEF NewestInv
<1>1. CASE ChooseMap
  <2>1. PICK p : /\ view' = [view EXCEPT !.map = [MapEffect(@) EXCEPT !.at = p]]
                 /\ calls' = Append(Cancelled, MapCall(p))
    BY <1>1 DEF ChooseMap
  <2>2. Untouched(view, view')
    BY <2>1 DEF Untouched
  <2>3. CallsOk(Cancelled, server.written) /\ Heard(Cancelled) \subseteq Heard(calls)
    BY <1>0, CallsOrphan, HeardOrphan DEF Cancelled
  <2>4. Heard(calls') \subseteq Heard(calls)
    <3>1. MapCall(p).op \notin Shows
      BY DEF MapCall, Call, Shows
    <3> QED
      BY <2>1, <2>3, <3>1, HeardAppend
  <2> QED
    BY <2>2, <2>4, UntouchedStays, StaysStep
<1>2. CASE SelectPoint
  <2>1. PICK n : /\ view' = [view EXCEPT !.map.selected = n, !.map.neighbours = None]
                 /\ \E a : Sent("neighbours", a)
    BY <1>2 DEF SelectPoint
  <2>2. Untouched(view, view')
    BY <2>1 DEF Untouched
  <2> QED
    BY <2>1, <2>2, UntouchedStays, SentShown DEF Shows
<1>3. CASE ClearPoint \/ IsolateGroup \/ OpenInQuery
  <2>1. calls' = calls
    BY <1>3 DEF ClearPoint, IsolateGroup, OpenInQuery
  <2>2. view' = view \/ \E e : view' = [view EXCEPT !.map = e]
    BY <1>3 DEF ClearPoint, IsolateGroup, OpenInQuery
  <2>3. Untouched(view, view')
    BY <2>2 DEF Untouched
  <2> QED
    BY <2>1, <2>3, UntouchedStays, StillShown
<1>4. CASE ServeMap \/ ServeNeighbours
  <2>1. PICK i, reply :
           /\ i \in DOMAIN calls
           /\ Answer(i, reply) \/ calls' = [calls EXCEPT ![i].st = "failed"]
           /\ view' = view
    BY <1>4, PendingCall DEF ServeMap, ServeNeighbours
  <2> QED
    BY <2>1, ServedShown
<1>5. CASE MapLoaded \/ NeighboursLoaded
  <2>1. PICK i \in DOMAIN calls :
           /\ view' = view \/ \E e : view' = [view EXCEPT !.map = e]
           /\ calls' = Without(i)
    <3>1. PICK i \in DOMAIN calls :
             /\ \/ view' = view
                \/ view' = [view EXCEPT !.map.data = calls[i].reply]
                \/ view' = [view EXCEPT !.map.neighbours = calls[i].reply]
                \/ view' = [view EXCEPT !.map.error = TRUE]
             /\ calls' = Without(i)
      BY <1>5, ArrivedCall DEF MapLoaded, NeighboursLoaded
    <3> QED
      BY <3>1
  <2>2. Untouched(view, view')
    BY <2>1 DEF Untouched
  <2> QED
    BY <2>1, <2>2, UntouchedStays, DeliveredShown
<1> QED
  BY <1>1, <1>2, <1>3, <1>4, <1>5 DEF MapNext, MapClicks

LEMMA BrowseShown == ASSUME NewestInv, BrowseNext PROVE ShownStep
<1>0. Stays(view, view) /\ CallsOk(calls, server.written)
  BY SameStays, KeptCalls DEF NewestInv
<1>1. ASSUME NEW e, view' = [view EXCEPT !.browse = e]
      PROVE  Stays(view, view')
  BY <1>1, UntouchedStays DEF Untouched
<1>2. CASE ChoosePlace \/ LoadMore
  <2>1. PICK c : c.op \notin Shows /\ calls' = Append(calls, c)
    BY <1>2 DEF ChoosePlace, LoadMore, Load, Call, Shows
  <2>2. \E e : view' = [view EXCEPT !.browse = e]
    BY <1>2 DEF ChoosePlace, LoadMore
  <2> QED
    BY <1>0, <1>1, <2>1, <2>2, HeardAppend, StaysStep
<1>3. CASE OpenRecord
  <2>1. /\ \E r : view' = [view EXCEPT !.browse.selected = r, !.browse.armed = FALSE,
                                       !.browse.record = None]
        /\ \E a : Sent("record", a)
    BY <1>3 DEF OpenRecord
  <2>2. Untouched(view, view')
    BY <2>1 DEF Untouched
  <2> QED
    BY <2>1, <2>2, UntouchedStays, SentShown DEF Shows
<1>4. CASE ArmDelete \/ FindSimilar
  <2>1. calls' = calls /\ (view' = view \/ \E e : view' = [view EXCEPT !.browse = e])
    BY <1>4 DEF ArmDelete, FindSimilar
  <2> QED
    BY <1>0, <1>1, <2>1, StillShown
<1>5. CASE ConfirmDelete
  BY <1>0, <1>5, SentShown DEF ConfirmDelete, Shows
<1>6. CASE ServeList \/ ServeMetadata \/ ServeRecord \/ ServeDelete
  <2>1. PICK i, reply : i \in DOMAIN calls /\ Answer(i, reply) /\ view' = view
    BY <1>6, PendingCall DEF ServeList, ServeMetadata, ServeRecord, ServeDelete
  <2> QED
    BY <2>1, ServedShown
<1>7. CASE ListLoaded
  <2>1. PICK i \in Arrived("list") :
           /\ \/ view' = view
              \/ \E a, b, c : view' = [view EXCEPT !.browse.ids = a, !.browse.next = b,
                                                   !.browse.loading = c]
           /\ \/ calls' = Append(Without(i), Reload("metadata", calls[i].live))
              \/ calls' = Without(i)
    <3>1. PICK i \in Arrived("list") :
           /\ view' = IF ~calls[i].live THEN view
                      ELSE [view EXCEPT
                              !.browse.ids = IF ~Ok(i) THEN @
                                             ELSE IF calls[i].arg.token = None
                                             THEN calls[i].reply.ids
                                             ELSE @ \o calls[i].reply.ids,
                              !.browse.next = IF Ok(i) THEN calls[i].reply.next ELSE @,
                              !.browse.loading = @ /\ Ok(i) /\ calls[i].reply.ids # <<>>]
           /\ \/ calls' = Append(Without(i), Reload("metadata", calls[i].live))
              \/ calls' = Without(i)
      BY <1>7 DEF ListLoaded
    <3> QED
      BY <3>1
  <2>2. Untouched(view, view')
    BY <2>1 DEF Untouched
  <2>3. i \in DOMAIN calls /\ Reload("metadata", calls[i].live).op \notin Shows
    BY ArrivedCall DEF Reload, Call, Shows
  <2> QED
    BY <2>1, <2>2, <2>3, UntouchedStays, GoesOnShown
<1>8. CASE MetadataLoaded \/ RecordLoaded
  <2>1. PICK i \in DOMAIN calls :
           /\ view' = view \/ \E e : view' = [view EXCEPT !.browse = e]
           /\ calls' = Without(i)
    BY <1>8, ArrivedCall DEF MetadataLoaded, RecordLoaded
  <2> QED
    BY <1>0, <1>1, <2>1, DeliveredShown
<1>9. CASE Deleted
  <2>1. PICK i \in Arrived("delete") :
           /\ view' = view \/ \E e : view' = [view EXCEPT !.browse.ids = e,
                                        !.browse.selected = None, !.browse.record = None]
           /\ calls' = Without(i) \o Refresh(calls[i].live) \/ calls' = Without(i)
    BY <1>9 DEF Deleted
  <2>2. Untouched(view, view')
    BY <2>1 DEF Untouched
  <2> QED
    BY <2>1, <2>2, ArrivedCall, UntouchedStays, RefreshedShown
<1> QED
  BY <1>2, <1>3, <1>4, <1>5, <1>6, <1>7, <1>8, <1>9 DEF BrowseNext, BrowseClicks

LEMMA QueryShown == ASSUME NewestInv, QueryNext PROVE ShownStep
<1>0. Stays(view, view) /\ CallsOk(calls, server.written)
  BY SameStays, KeptCalls DEF NewestInv
<1>1. CASE EditQuery
  <2>1. /\ \/ \E m, t, f : view' = [view EXCEPT !.query.mode = m, !.query.text = t,
                                                !.query.filter = f]
           \/ \E r : view' = [view EXCEPT !.query.id = r]
           \/ \E ns : view' = [view EXCEPT !.query.ns = ns]
        /\ calls' = calls
    BY <1>1 DEF EditQuery
  <2>2. Untouched(view, view')
    BY <2>1 DEF Untouched
  <2> QED
    BY <2>1, <2>2, UntouchedStays, StillShown
<1>2. CASE SubmitQuery
  <2>1. view' = [view EXCEPT !.query.busy = TRUE] /\ \E a : Sent("query", a)
    BY <1>2 DEF SubmitQuery
  <2>2. Untouched(view, view')
    BY <2>1 DEF Untouched
  <2> QED
    BY <2>1, <2>2, UntouchedStays, SentShown DEF Shows
<1>3. CASE QueryMatch
  <2>1. /\ \E r, b : view' = [view EXCEPT !.query.mode = "id", !.query.id = r, !.query.busy = b]
        /\ calls' = calls \/ \E a : Sent("query", a)
    BY <1>3 DEF QueryMatch
  <2>2. Untouched(view, view')
    BY <2>1 DEF Untouched
  <2> QED
    BY <2>1, <2>2, UntouchedStays, SentShown, StillShown DEF Shows
<1>4. CASE ServeQuery
  <2>1. PICK i, reply :
           /\ i \in DOMAIN calls
           /\ Answer(i, reply) \/ calls' = [calls EXCEPT ![i].st = "failed"]
           /\ view' = view
    BY <1>4, PendingCall DEF ServeQuery
  <2> QED
    BY <2>1, ServedShown
<1>5. CASE QueryAnswered
  <2>1. PICK i \in Arrived("query") :
           /\ view' = IF ~calls[i].live THEN view
                      ELSE [view EXCEPT
                              !.query.busy = FALSE,
                              !.query.result = IF Ok(i) THEN calls[i].reply ELSE @,
                              !.query.last = IF Ok(i) THEN calls[i].arg ELSE @]
           /\ calls' = Without(i)
    BY <1>5 DEF QueryAnswered
  <2>2. view' = view \/ \E a, b : view' = [view EXCEPT !.query.busy = FALSE,
                                              !.query.result = a, !.query.last = b]
    BY <2>1
  <2>3. Untouched(view, view')
    BY <2>2 DEF Untouched
  <2> QED
    BY <2>1, <2>3, ArrivedCall, UntouchedStays, DeliveredShown
<1> QED
  BY <1>1, <1>2, <1>3, <1>4, <1>5 DEF QueryNext, QueryClicks

LEMMA UpsertShown == ASSUME NewestInv, UpsertNext PROVE ShownStep
<1>0. Stays(view, view) /\ CallsOk(calls, server.written)
  BY SameStays, KeptCalls DEF NewestInv
<1>1. CASE EditRecords
  <2>1. /\ \/ \E n : view' = [view EXCEPT !.upsert.records = n]
           \/ \E ns : view' = [view EXCEPT !.upsert.ns = ns]
        /\ calls' = calls
    BY <1>1 DEF EditRecords
  <2>2. Untouched(view, view')
    BY <2>1 DEF Untouched
  <2> QED
    BY <2>1, <2>2, UntouchedStays, StillShown
<1>2. CASE SubmitRecords \/ Seed
  <2>1. PICK c : c.op \notin Shows /\ calls' = Append(calls, c)
    BY <1>2 DEF SubmitRecords, Seed, UpsertCall, Call, Shows
  <2>2. \/ view' = [view EXCEPT !.upsert.busy = TRUE]
        \/ view' = [view EXCEPT !.seed = [busy |-> TRUE, done |-> 0]]
    BY <1>2 DEF SubmitRecords, Seed
  <2>3. Untouched(view, view')
    BY <2>2 DEF Untouched
  <2> QED
    BY <1>0, <2>1, <2>3, HeardAppend, UntouchedStays, StaysStep
<1>3. CASE ServeUpsert
  <2>1. PICK i \in DOMAIN calls : Answer(i, None) /\ view' = view
    BY <1>3, PendingCall DEF ServeUpsert
  <2> QED
    BY <2>1, ServedShown
<1>4. CASE BatchWritten
  <2>1. PICK i \in Arrived("upsert") :
           /\ \/ calls' = Append(Without(i), [NextBatch(calls[i].arg) EXCEPT !.live = calls[i].live])
              \/ calls' = Without(i) \o Refresh(calls[i].live)
              \/ calls' = Without(i)
           /\ \/ view' = view
              \/ \E m, n : view' = [view EXCEPT !.upsert.busy = m, !.upsert.records = n]
              \/ \E m, n : view' = [view EXCEPT !.seed.busy = m, !.seed.done = n]
    <3>1. PICK i \in Arrived("upsert") :
         LET a == calls[i].arg
             more == Ok(i) /\ LastOf(a) < a.n
             ends == Ok(i) /\ ~more
         IN /\ calls' = IF more
                        THEN Append(Without(i), [NextBatch(a) EXCEPT !.live = calls[i].live])
                        ELSE IF ends THEN Without(i) \o Refresh(calls[i].live)
                        ELSE Without(i)
            /\ view' = IF ~calls[i].live THEN view
                       ELSE IF a.by = "upsert"
                       THEN [view EXCEPT !.upsert.busy = more,
                                         !.upsert.records = IF ends THEN 0 ELSE @]
                       ELSE [view EXCEPT !.seed.busy = more,
                                         !.seed.done = IF Ok(i) THEN LastOf(a) ELSE @]
      BY <1>4 DEF BatchWritten
    <3> QED
      BY <3>1
  <2>2. Untouched(view, view')
    BY <2>1 DEF Untouched
  <2>3. [NextBatch(calls[i].arg) EXCEPT !.live = calls[i].live].op \notin Shows
    BY DEF NextBatch, UpsertCall, Call, Shows
  <2>4. i \in DOMAIN calls /\ Stays(view, view')
    BY <2>2, ArrivedCall, UntouchedStays
  <2>5. CASE calls' = Append(Without(i), [NextBatch(calls[i].arg) EXCEPT !.live = calls[i].live])
    BY <2>3, <2>4, <2>5, GoesOnShown
  <2>6. CASE calls' = Without(i) \o Refresh(calls[i].live) \/ calls' = Without(i)
    BY <2>4, <2>6, RefreshedShown
  <2> QED
    BY <2>1, <2>5, <2>6
<1> QED
  BY <1>1, <1>2, <1>3, <1>4 DEF UpsertNext, UpsertClicks

LEMMA ActivatedHeard ==
  ASSUME NEW v, NEW cs, NEW w, CallsOk(cs, w)
  PROVE  /\ Untouched(v, Activate(v, cs).view)
         /\ Heard(Activate(v, cs).calls) \subseteq Heard(cs)
<1>1. \A u : \/ u = [v EXCEPT !.browse = BrowseEffect(@)]
             \/ u = [v EXCEPT !.query = QueryEffect(@, v.route.like)]
             \/ u = [v EXCEPT !.map = MapMount(StartMap)]
             \/ u = v
             => Untouched(v, u)
  BY DEF Untouched
<1>2. \A b, m : Load(b, None).op \notin Shows /\ MapCall(m).op \notin Shows
  BY DEF Load, MapCall, Call, Shows
<1>3. /\ Heard(Append(cs, Load(v.browse.at, None))) \subseteq Heard(cs)
      /\ Heard(Append(cs, MapCall(StartMap))) \subseteq Heard(cs)
  BY <1>2, HeardAppend
<1>4. Heard(cs \o QueryEffectCalls(v.query, v.route.like)) \subseteq Heard(cs)
  <2> DEFINE ds == QueryEffectCalls(v.query, v.route.like)
  <2>1. CallsOk(ds, w)
    BY QueryCall, CallsOne, CallsEmpty DEF QueryEffectCalls
  <2>2. Heard(ds) = {}
    <3>1. \A body : Call("query", body).op \notin Shows
      BY DEF Call, Shows
    <3>2. ds = <<>> \/ \E body : ds = <<Call("query", body)>>
      BY DEF QueryEffectCalls
    <3> HIDE DEF ds
    <3>3. \A j \in DOMAIN ds : ds[j].op \notin Shows
      BY <3>1, <3>2
    <3> QED
      BY <3>3 DEF Heard
  <2> HIDE DEF ds
  <2>3. Heard(cs \o ds) \subseteq Heard(cs)
    BY <2>1, <2>2, HeardConcat
  <2> QED
    BY <2>3 DEF ds
<1> QED
  BY <1>1, <1>3, <1>4, ActivateCases

LEMMA HeardDetached ==
  ASSUME NEW cs, NEW w, CallsOk(cs, w)
  PROVE  Heard(Detached(cs)) \subseteq Heard(cs)
<1> DEFINE ds == Detached(cs)
<1>1. DOMAIN ds = DOMAIN cs
  BY DEF Detached
<1>2. ASSUME NEW i \in DOMAIN cs
      PROVE  ds[i] = cs[i] \/ ds[i].op \notin Shows
  <2>1. CASE cs[i].op \in {"configure", "deleteIndex", "setEmbedding"}
    <3>1. ds[i] = [cs[i] EXCEPT !.arg.panel = FALSE]
      BY <2>1 DEF Detached
    <3>2. IsCall(cs[i])
      BY CallsElement DEF CallOk
    <3> QED
      BY <2>1, <3>1, <3>2 DEF IsCall, Shows
  <2>2. CASE cs[i].op \notin {"configure", "deleteIndex", "setEmbedding"}
    BY <2>2 DEF Detached
  <2> QED
    BY <2>1, <2>2
<1> HIDE DEF ds
<1>3. Heard(ds) \subseteq Heard(cs)
  BY <1>1, <1>2, HeardKept
<1> QED
  BY <1>3 DEF ds

LEMMA HeardStill ==
  ASSUME NEW v, NEW cs, NEW w, CallsOk(cs, w)
  PROVE  Heard(StillHeard(v, cs)) \subseteq Heard(cs)
<1> DEFINE gone(i) == v.info.data.count # 0 /\ cs[i].op = "upsert" /\ cs[i].arg.by = "seed"
           ds == [i \in DOMAIN cs |-> [cs[i] EXCEPT !.live = @ /\ ~gone(i)]]
<1>1. DOMAIN ds = DOMAIN cs /\ ds = [i \in DOMAIN cs |-> ds[i]]
  OBVIOUS
<1>2. ASSUME NEW i \in DOMAIN cs
      PROVE  /\ \E x : ds[i] = [cs[i] EXCEPT !.live = x]
             /\ ds[i].op = cs[i].op /\ ds[i].arg = cs[i].arg
             /\ ds[i].live => cs[i].live
  <2> DEFINE x == cs[i].live /\ ~gone(i)
  <2>1. ds[i] = [cs[i] EXCEPT !.live = x]
    OBVIOUS
  <2>2. x => cs[i].live
    OBVIOUS
  <2> HIDE DEF x, ds, gone
  <2>3. IsCall(cs[i])
    BY CallsElement DEF CallOk
  <2>4. ds[i] = [op |-> cs[i].op, arg |-> cs[i].arg, live |-> x, st |-> cs[i].st,
                 reply |-> cs[i].reply]
    BY <2>1, <2>3, CallMade
  <2>5. ds[i].op = cs[i].op /\ ds[i].arg = cs[i].arg /\ ds[i].live = x
    BY <2>4
  <2> QED
    BY <2>1, <2>2, <2>5
<1>3. StillHeard(v, cs) = IF NewWidth(v) THEN Detached(Unpicked(ds)) ELSE ds
  BY DEF StillHeard
<1> HIDE DEF ds
<1>4. CallsOk(ds, w) /\ Heard(ds) \subseteq Heard(cs)
  <2>1. \A i \in DOMAIN cs : \E x : ds[i] = [cs[i] EXCEPT !.live = x]
    BY <1>2
  <2>2. CallsOk(ds, w)
    BY <1>1, <2>1, CallsChanged
  <2>3. Heard(ds) \subseteq Heard(cs)
    BY <1>1, <1>2, HeardKept
  <2> QED
    BY <2>2, <2>3
<1>5. CallsOk(Unpicked(ds), w) /\ Heard(Unpicked(ds)) \subseteq Heard(ds)
  BY <1>4, UnpickedCalls, HeardUnpicked
<1>6. Heard(Detached(Unpicked(ds))) \subseteq Heard(Unpicked(ds))
  BY <1>5, HeardDetached
<1> QED
  BY <1>3, <1>4, <1>5, <1>6

LEMMA IndexHeard ==
  ASSUME NEW v0, NEW poll, NEW cs, NEW w, CallsOk(cs, w), ShowIndex(v0, poll, cs)
  PROVE  Untouched(v0, view') /\ Heard(calls') \subseteq Heard(cs)
<1> DEFINE v == [v0 EXCEPT !.info = poll]
           u == FirstShown(v)
           x == ShownAgain(v)
           first == Activate(u, cs)
           ds == StillHeard(v, cs)
<1>1. Untouched(v0, v)
  BY DEF Untouched
<1>2. Untouched(v, u) /\ Untouched(v, x)
  BY DEF Untouched, FirstShown, ShownAgain
<1>3. /\ poll.data = None => view' = v /\ calls' = cs
      /\ poll.data # None /\ v0.info.data = None =>
           /\ view' = WithPicker(first.view, first.calls).view
           /\ calls' = WithPicker(first.view, first.calls).calls
      /\ poll.data # None /\ v0.info.data # None =>
           /\ view' = WithPicker(x, ds).view /\ calls' = WithPicker(x, ds).calls
  BY DEF ShowIndex
<1>4. /\ CallsOk(first.calls, w) /\ Untouched(u, first.view)
      /\ Heard(first.calls) \subseteq Heard(cs)
  BY ActivatedCalls, ActivatedHeard
<1>5. CallsOk(ds, w) /\ Heard(ds) \subseteq Heard(cs)
  BY StillHeardCalls, HeardStill
<1> HIDE DEF v, u, x, first, ds
<1>6. CASE poll.data = None
  BY <1>1, <1>3, <1>6
<1>7. CASE poll.data # None /\ v0.info.data = None
  <2>1. Untouched(first.view, view') /\ Heard(calls') \subseteq Heard(first.calls)
    BY <1>3, <1>4, <1>7, PickerHeard
  <2>2. Untouched(v0, u)
    BY <1>1, <1>2, UntouchedTwice
  <2>3. Untouched(v0, first.view)
    BY <1>4, <2>2, UntouchedTwice
  <2> QED
    BY <1>4, <2>1, <2>3, UntouchedTwice
<1>8. CASE poll.data # None /\ v0.info.data # None
  <2>1. Untouched(x, view') /\ Heard(calls') \subseteq Heard(ds)
    BY <1>3, <1>5, <1>8, PickerHeard
  <2>2. Untouched(v0, x)
    BY <1>1, <1>2, UntouchedTwice
  <2> QED
    BY <1>5, <2>1, <2>2, UntouchedTwice
<1> QED
  BY <1>6, <1>7, <1>8

LEMMA IndexShown == ASSUME NewestInv, IndexNext PROVE ShownStep
<1>0. Stays(view, view) /\ CallsOk(calls, server.written)
  BY SameStays, KeptCalls DEF NewestInv
<1>1. ASSUME view' = view \/ (\E e : view' = [view EXCEPT !.settings = e])
                 \/ (\E e : view' = [view EXCEPT !.connect = e])
      PROVE  Untouched(view, view') /\ Stays(view, view')
  BY <1>1, UntouchedStays DEF Untouched
<1>2. CASE PollIndex
  BY <1>0, <1>2, SentShown DEF PollIndex, Polls, Ticks, Shows
<1>3. CASE ServeIndex
  <2>1. PICK i \in Pending("index") :
          /\ \/ \E r : Answer(i, r)
             \/ calls' = [calls EXCEPT ![i].st = "failed", ![i].reply = "missing"]
          /\ view' = view
    BY <1>3 DEF ServeIndex
  <2> QED
    BY <1>0, <2>1, PendingCall, AnsweredShown, ChangedShown
<1>4. CASE IndexLoaded
  <2>1. PICK i \in Arrived("index") :
          \/ ShowIndex(view, Polled(view.info, i), Without(i))
          \/ calls' = Without(i) /\ view' = view
    BY <1>4 DEF IndexLoaded
  <2>2. i \in DOMAIN calls
    BY ArrivedCall
  <2>3. CallsOk(Without(i), server.written) /\ Heard(Without(i)) \subseteq Heard(calls)
    BY <2>2, HeardWithout
  <2>4. CASE ShowIndex(view, Polled(view.info, i), Without(i))
    <3>1. Untouched(view, view') /\ Heard(calls') \subseteq Heard(Without(i))
      BY <2>3, <2>4, IndexHeard
    <3> QED
      BY <2>3, <3>1, UntouchedStays, StaysStep
  <2> QED
    BY <1>0, <2>1, <2>2, <2>4, DeliveredShown
<1>5. CASE ChooseTab \/ EditSettings
  <2>1. calls' = calls /\ (view' = view \/ \E e : view' = [view EXCEPT !.settings = e])
    BY <1>5 DEF ChooseTab, EditSettings
  <2> QED
    BY <1>1, <2>1, StillShown
<1>6. CASE SaveWidth \/ DeleteIndex
  <2>1. /\ \E e : view' = [view EXCEPT !.settings = e]
        /\ \E a : Sent("configure", a) \/ Sent("deleteIndex", a)
    BY <1>6 DEF SaveWidth, DeleteIndex
  <2> QED
    BY <1>1, <2>1, SentShown DEF Shows
<1>7. CASE ServeSettings \/ ServeDeleteIndex
  <2>1. PICK i, reply :
           /\ i \in DOMAIN calls
           /\ Answer(i, reply) \/ calls' = [calls EXCEPT ![i].st = "failed"]
           /\ view' = view
    BY <1>7, PendingCall DEF ServeSettings, ServeDeleteIndex
  <2> QED
    BY <2>1, ServedShown
<1>8. CASE IndexDeleted
  <2>1. PICK i \in Arrived("deleteIndex") :
          /\ view' = view \/ \E e : view' = [view EXCEPT !.settings = e]
          /\ calls' = Without(i) \o OnChanged \/ calls' = Without(i) \o <<>>
    BY <1>8 DEF IndexDeleted
  <2>2. CallsOk(Without(i), server.written) /\ Heard(Without(i)) \subseteq Heard(calls)
    BY ArrivedCall, HeardWithout
  <2>3. Heard(calls') \subseteq Heard(calls)
    <3>1. Heard(Without(i) \o OnChanged) \subseteq Heard(Without(i))
      BY <2>2, HeardRefreshed
    <3>2. Heard(Without(i) \o <<>>) \subseteq Heard(Without(i)) \cup Heard(<<>>)
      BY <2>2, CallsEmpty, HeardConcat
    <3>3. Heard(<<>>) = {}
      BY DEF Heard
    <3> QED
      BY <2>1, <2>2, <3>1, <3>2, <3>3
  <2> QED
    BY <1>1, <2>1, <2>3, StaysStep
<1>9. CASE Saved
  <2>1. PICK i, done :
         /\ i \in DOMAIN calls
         /\ \/ done = view
            \/ \E e : done = [view EXCEPT !.settings = e]
            \/ \E e : done = [view EXCEPT !.connect = e]
         /\ \/ \E poll : ShowIndex(done, poll, Without(i) \o OnChanged)
            \/ view' = done /\ calls' = Without(i) \o OnChanged
            \/ view' = done /\ calls' = Without(i) \o <<>>
    <3>1. PICK i \in Arrived("configure") \cup Arrived("setEmbedding") :
          LET done == IF ~calls[i].live \/ ~calls[i].arg.panel THEN view
                      ELSE IF calls[i].op = "configure"
                      THEN [view EXCEPT !.settings.saving = FALSE]
                      ELSE IF Ok(i)
                      THEN [view EXCEPT !.settings.editing = @ /\ calls[i].arg.embed = None]
                      ELSE IF calls[i].arg.picker
                      THEN [view EXCEPT !.connect.busy = FALSE] ELSE view
          IN IF calls[i].live /\ Ok(i)
             THEN ShowIndex(done, [data |-> calls[i].reply, error |-> view.info.error],
                            Without(i) \o OnChanged)
             ELSE /\ view' = done
                  /\ calls' = Without(i) \o (IF Ok(i) THEN OnChanged ELSE <<>>)
                  /\ UNCHANGED <<app, server>>
      BY <1>9 DEF Saved
    <3> DEFINE done == IF ~calls[i].live \/ ~calls[i].arg.panel THEN view
                       ELSE IF calls[i].op = "configure"
                       THEN [view EXCEPT !.settings.saving = FALSE]
                       ELSE IF Ok(i)
                       THEN [view EXCEPT !.settings.editing = @ /\ calls[i].arg.embed = None]
                       ELSE IF calls[i].arg.picker
                       THEN [view EXCEPT !.connect.busy = FALSE] ELSE view
    <3>2. \/ done = view
          \/ \E e : done = [view EXCEPT !.settings = e]
          \/ \E e : done = [view EXCEPT !.connect = e]
      OBVIOUS
    <3>3. \/ \E poll : ShowIndex(done, poll, Without(i) \o OnChanged)
          \/ view' = done /\ calls' = Without(i) \o OnChanged
          \/ view' = done /\ calls' = Without(i) \o <<>>
      BY <3>1
    <3> HIDE DEF done
    <3> QED
      BY <3>2, <3>3, ArrivedCall
  <2>2. Untouched(view, done)
    BY <2>1 DEF Untouched
  <2>3. /\ CallsOk(Without(i), server.written) /\ Heard(Without(i)) \subseteq Heard(calls)
        /\ CallsOk(Without(i) \o OnChanged, server.written)
        /\ Heard(Without(i) \o OnChanged) \subseteq Heard(Without(i))
    BY <2>1, HeardWithout, HeardRefreshed, RefreshedCalls
  <2>4. Heard(Without(i) \o <<>>) \subseteq Heard(Without(i))
    <3>1. Heard(Without(i) \o <<>>) \subseteq Heard(Without(i)) \cup Heard(<<>>)
      BY <2>3, CallsEmpty, HeardConcat
    <3> QED
      BY <3>1 DEF Heard
  <2>5. CASE \E poll : ShowIndex(done, poll, Without(i) \o OnChanged)
    <3>1. Untouched(done, view') /\ Heard(calls') \subseteq Heard(Without(i) \o OnChanged)
      BY <2>3, <2>5, IndexHeard
    <3>2. Untouched(view, view') /\ Heard(calls') \subseteq Heard(calls)
      BY <2>2, <2>3, <3>1, UntouchedTwice
    <3> QED
      BY <3>2, UntouchedStays, StaysStep
  <2>6. CASE view' = done /\ (calls' = Without(i) \o OnChanged \/ calls' = Without(i) \o <<>>)
    BY <2>2, <2>3, <2>4, <2>6, UntouchedStays, StaysStep
  <2> QED
    BY <2>1, <2>5, <2>6
<1> QED
  BY <1>2, <1>3, <1>4, <1>5, <1>6, <1>7, <1>8, <1>9 DEF IndexNext

---------------------------------------------------------------------------
(* The playground: searching                                               *)

\* What an outdated search or comparison asked for no longer matters
LEMMA HeardOutdated ==
  ASSUME NEW w, CallsOk(calls, w), NEW op
  PROVE  /\ DOMAIN Outdated(op) = DOMAIN calls
         /\ \A a \in Heard(Outdated(op)) :
               IF a[1] = op THEN ~a[2].newest ELSE a \in Heard(calls)
<1> DEFINE ds == Outdated(op)
<1>1. DOMAIN ds = DOMAIN calls
  BY DEF Outdated
<1>2. ASSUME NEW i \in DOMAIN calls
      PROVE  IF calls[i].op = op THEN ds[i].op = op /\ ~ds[i].arg.newest ELSE ds[i] = calls[i]
  <2>1. CASE calls[i].op = op
    <3> DEFINE x == [asks |-> None, newest |-> FALSE]
    <3>1. ds[i] = [calls[i] EXCEPT !.arg = x]
      BY <2>1 DEF Outdated
    <3>2. ~x.newest
      OBVIOUS
    <3> HIDE DEF x
    <3>3. IsCall(calls[i])
      BY CallsElement DEF CallOk
    <3>4. ds[i] = [op |-> calls[i].op, arg |-> x, live |-> calls[i].live,
                   st |-> calls[i].st, reply |-> calls[i].reply]
      BY <3>1, <3>3, CallMade
    <3>5. ds[i].op = op /\ ds[i].arg = x
      BY <2>1, <3>4
    <3> QED
      BY <2>1, <3>2, <3>5
  <2>2. CASE calls[i].op # op
    BY <2>2 DEF Outdated
  <2> QED
    BY <2>1, <2>2
<1> HIDE DEF ds
<1>3. ASSUME NEW a \in Heard(ds)
      PROVE  IF a[1] = op THEN ~a[2].newest ELSE a \in Heard(calls)
  <2>1. PICK j \in DOMAIN ds : ds[j].live /\ ds[j].op \in Shows /\ a = <<ds[j].op, ds[j].arg>>
    BY DEF Heard
  <2>2. a[1] = ds[j].op /\ a[2] = ds[j].arg
    BY <2>1
  <2>3. CASE calls[j].op = op
    BY <1>1, <1>2, <2>2, <2>3
  <2>4. CASE calls[j].op # op
    <3>1. ds[j] = calls[j]
      BY <1>1, <1>2, <2>4
    <3> QED
      BY <1>1, <2>1, <2>2, <2>4, <3>1 DEF Heard
  <2> QED
    BY <2>3, <2>4
<1> QED
  BY <1>1, <1>3 DEF ds

\* A new search is on its way, or there is nothing to search
LEMMA SearchAgainOk ==
  ASSUME NEW s, {"asks", "wait", "busy", "error", "result"} \subseteq DOMAIN s, NEW list
  PROVE  SearchOk(SearchAgain(s, list))
<1>1. CASE s.asks.text # None /\ s.asks.index \in Searchable(list)
  BY <1>1 DEF SearchAgain, SearchOk
<1>2. CASE ~(s.asks.text # None /\ s.asks.index \in Searchable(list))
  BY <1>2 DEF SearchAgain, SearchOk
<1> QED
  BY <1>1, <1>2

\* With another search no call in flight is the newest
Stale(heard, op) ==
    \A a \in heard : IF a[1] = op THEN ~a[2].newest ELSE a \in Heard(calls)

LEMMA SearchShown ==
  ASSUME NewestInv, Searching, NEW s, SearchOk(s), view' = [view EXCEPT !.search = s],
         Stale(Heard(calls'), "search")
  PROVE  ShownStep
<1>1. /\ view.page = "playground" /\ {"page", "search", "compare"} \subseteq DOMAIN view
      /\ view'.page = "playground" /\ DOMAIN view' = DOMAIN view
      /\ view'.search = s /\ view'.compare = view.compare
  BY ViewFields DEF Searching
<1>2. ShownOk(view')
  BY <1>1 DEF ShownOk, NewestInv, ShownInv
<1>3. HeardOk(Heard(calls'), view')
  <2> SUFFICES ASSUME NEW a \in Heard(calls')
               PROVE  /\ a[1] # "search" \/ ~a[2].newest
                      /\ a[1] = "compare" /\ a[2].newest =>
                            /\ CompareOk(view.compare)
                            /\ view.compare.asks.picked # <<>>
                            /\ \/ a[2].asks = view.compare.asks
                               \/ view.compare.asks.text = None
    BY <1>1 DEF HeardOk
  <2>1. CASE a[1] = "search"
    BY <2>1 DEF Stale
  <2>2. CASE a[1] # "search"
    <3>1. a \in Heard(calls)
      BY <2>2 DEF Stale
    <3> QED
      BY <2>2, <3>1 DEF NewestInv, ShownInv, HeardOk
  <2> QED
    BY <2>1, <2>2
<1>4. Hidden /\ Charted
  BY <1>1 DEF Hidden, Charted
<1> QED
  BY <1>2, <1>3, <1>4 DEF ShownStep, ShownInv

\* The fields that each search and comparison has
LEMMA SearchFields ==
  ASSUME NewestInv
  PROVE  /\ Searching => SearchOk(view.search)
         /\ Comparing => CompareOk(view.compare)
BY DEF NewestInv, ShownInv, ShownOk, Searching, Comparing

LEMMA StaleCalls ==
  ASSUME NewestInv, NEW op
  PROVE  /\ Stale(Heard(Outdated(op)), op)
         /\ \A i \in DOMAIN calls : op \notin Watched =>
               Stale(Heard(RemoveAt(Outdated(op), i)), op)
<1>1. DOMAIN Outdated(op) = DOMAIN calls /\ Stale(Heard(Outdated(op)), op)
  BY HeardOutdated, KeptCalls DEF NewestInv, Stale
<1>2. ASSUME NEW i \in DOMAIN calls, op \notin Watched
      PROVE  Heard(RemoveAt(Outdated(op), i)) \subseteq Heard(Outdated(op))
  BY <1>1, <1>2, HeardDrop, OutdatedCalls DEF NewestInv
<1> QED
  BY <1>1, <1>2 DEF Stale

LEMMA ListShown == ASSUME NewestInv, IndexesLoaded PROVE ShownStep
<1>1. PICK i, list :
         /\ i \in Arrived("indexes")
         /\ \/ view' = Listed(view, list) /\ calls' = RemoveAt(ListedCalls(view, list), i)
            \/ view' = view /\ calls' = Without(i)
  BY DEF IndexesLoaded
<1>2. i \in DOMAIN calls
  BY <1>1, ArrivedCall
<1>3. CASE view' = view /\ calls' = Without(i)
  BY <1>2, <1>3, SameStays, DeliveredShown
<1>4. CASE Listed(view, list) = view
  <2>1. view' = view /\ calls' = Without(i)
    BY <1>1, <1>4 DEF ListedCalls, Without
  <2> QED
    BY <1>2, <2>1, SameStays, DeliveredShown
<1>5. CASE Listed(view, list) # view /\ ~(view' = view /\ calls' = Without(i))
  <2>1. view' = Listed(view, list) /\ calls' = RemoveAt(Outdated("search"), i)
    BY <1>1, <1>5 DEF ListedCalls
  <2> DEFINE r == Renamed(view.search, IndexFor(view.search.asks.index, list))
  <2>2. Searching /\ SearchOk(view.search)
    BY <1>5, SearchFields DEF Listed, Searching
  <2>3. \E s : /\ s = view.search \/ s = SearchAgain(r, list)
               /\ view' = [view EXCEPT !.search = s]
    BY <1>5, <2>1 DEF Listed
  <2>4. DOMAIN r = DOMAIN view.search
    BY DEF Renamed
  <2> HIDE DEF r
  <2>5. SearchOk(SearchAgain(r, list))
    BY <2>2, <2>4, SearchAgainOk DEF SearchOk
  <2>6. Stale(Heard(calls'), "search")
    BY <1>2, <2>1, StaleCalls DEF Watched
  <2> QED
    BY <2>2, <2>3, <2>5, <2>6, SearchShown
<1> QED
  BY <1>3, <1>4, <1>5

LEMMA EditSearchShown == ASSUME NewestInv, EditSearch \/ ChooseIndex PROVE ShownStep
<1>1. /\ Searching /\ calls' = Outdated("search")
      /\ \E s, list : /\ DOMAIN s = DOMAIN view.search
                      /\ view' = [view EXCEPT !.search = SearchAgain(s, list)]
  <2>1. CASE EditSearch
    <3>1. PICK a : view' = [view EXCEPT !.search = SearchAgain([@ EXCEPT !.asks = a],
                                                               shell.indexes.data)]
      BY <2>1 DEF EditSearch
    <3> DEFINE s == [view.search EXCEPT !.asks = a]
    <3>2. view' = [view EXCEPT !.search = SearchAgain(s, shell.indexes.data)]
      BY <3>1
    <3>3. DOMAIN s = DOMAIN view.search
      OBVIOUS
    <3> HIDE DEF s
    <3> QED
      BY <2>1, <3>2, <3>3 DEF EditSearch
  <2>2. CASE ChooseIndex
    <3>1. PICK n : view' = [view EXCEPT !.search = SearchAgain(Renamed(@, n), shell.indexes.data)]
      BY <2>2 DEF ChooseIndex
    <3> DEFINE s == Renamed(view.search, n)
    <3>2. view' = [view EXCEPT !.search = SearchAgain(s, shell.indexes.data)]
      BY <3>1
    <3>3. DOMAIN s = DOMAIN view.search
      BY DEF Renamed
    <3> HIDE DEF s
    <3> QED
      BY <2>2, <3>2, <3>3 DEF ChooseIndex
  <2> QED
    BY <2>1, <2>2
<1>2. PICK s, list : /\ DOMAIN s = DOMAIN view.search
                     /\ view' = [view EXCEPT !.search = SearchAgain(s, list)]
  BY <1>1
<1>3. SearchOk(SearchAgain(s, list))
  BY <1>1, <1>2, SearchFields, SearchAgainOk DEF SearchOk
<1>4. Stale(Heard(calls'), "search")
  BY <1>1, StaleCalls
<1> QED
  BY <1>1, <1>2, <1>3, <1>4, SearchShown

\* What is shown goes on to be of what is asked
LEMMA SearchKept ==
  ASSUME NewestInv, view.page = "playground", NEW s, SearchOk(s), s.asks = view.search.asks,
         view' = [view EXCEPT !.search = s],
         Heard(calls') \subseteq Heard(calls)
             \cup {<<"search", [asks |-> view.search.asks, newest |-> TRUE]>>}
  PROVE  ShownStep
<1>1. /\ view.page = "playground" /\ {"page", "search", "compare"} \subseteq DOMAIN view
      /\ view'.page = "playground" /\ DOMAIN view' = DOMAIN view
      /\ view'.search = s /\ view'.compare = view.compare
  BY ViewFields
<1>2. ShownOk(view')
  BY <1>1 DEF ShownOk, NewestInv, ShownInv
<1>3. HeardOk(Heard(calls'), view')
  <2> SUFFICES ASSUME NEW a \in Heard(calls')
               PROVE  /\ a[1] = "search" /\ a[2].newest => a[2].asks = s.asks
                      /\ a[1] = "compare" /\ a[2].newest =>
                            /\ CompareOk(view.compare)
                            /\ view.compare.asks.picked # <<>>
                            /\ \/ a[2].asks = view.compare.asks
                               \/ view.compare.asks.text = None
    BY <1>1 DEF HeardOk
  <2>1. CASE a \in Heard(calls)
    BY <2>1 DEF NewestInv, ShownInv, HeardOk
  <2>2. CASE a = <<"search", [asks |-> view.search.asks, newest |-> TRUE]>>
    BY <2>2
  <2> QED
    BY <2>1, <2>2
<1>4. Hidden /\ Charted
  BY <1>1 DEF Hidden, Charted
<1> QED
  BY <1>2, <1>3, <1>4 DEF ShownStep, ShownInv

LEMMA RunSearchShown == ASSUME NewestInv, RunSearch PROVE ShownStep
<1> DEFINE s == [view.search EXCEPT !.wait = FALSE, !.busy = TRUE]
           a == [asks |-> view.search.asks, newest |-> TRUE]
<1>1. /\ Searching /\ view' = [view EXCEPT !.search = s] /\ Sent("search", a)
  BY DEF RunSearch
<1>2. SearchOk(s) /\ s.asks = view.search.asks
  BY <1>1, SearchFields DEF SearchOk
<1> HIDE DEF s
<1>3. Heard(calls') \subseteq Heard(calls) \cup {<<"search", a>>}
  <2> HIDE DEF a
  <2>1. Call("search", a).op = "search" /\ Call("search", a).arg = a
    BY DEF Call
  <2> QED
    BY <1>1, <2>1, HeardAppend, KeptCalls DEF NewestInv, Sent
<1> QED
  BY <1>1, <1>2, <1>3, SearchKept DEF Searching

LEMMA SearchedShown == ASSUME NewestInv, Searched PROVE ShownStep
<1>1. PICK i \in Arrived("search") :
         /\ view' = IF ~calls[i].live \/ ~calls[i].arg.newest THEN view
                    ELSE IF ~Ok(i)
                    THEN [view EXCEPT !.search.busy = FALSE, !.search.error = TRUE]
                    ELSE [view EXCEPT !.search.busy = FALSE, !.search.error = FALSE,
                                      !.search.result = calls[i].arg.asks,
                                      !.search.facets = @ \/ ~calls[i].arg.asks.facet]
         /\ calls' = Without(i)
  BY DEF Searched
<1>2. i \in DOMAIN calls /\ calls[i].op = "search"
  BY ArrivedCall
<1>3. CASE ~calls[i].live \/ ~calls[i].arg.newest
  BY <1>1, <1>2, <1>3, SameStays, DeliveredShown
<1>4. CASE calls[i].live /\ calls[i].arg.newest
  <2>1. Heard(calls') \subseteq Heard(calls)
    BY <1>1, <1>2, HeardWithout
  <2>2. /\ view.page = "playground" /\ SearchOk(view.search)
        /\ calls[i].arg.asks = view.search.asks
    <3>1. <<calls[i].op, calls[i].arg>> \in Heard(calls)
      BY <1>2, <1>4 DEF Heard, Shows
    <3> QED
      BY <1>2, <1>4, <3>1 DEF NewestInv, ShownInv, HeardOk
  <2>3. \E s : /\ SearchOk(s) /\ s.asks = view.search.asks
               /\ view' = [view EXCEPT !.search = s]
    <3>1. CASE ~Ok(i)
      <4> DEFINE s == [view.search EXCEPT !.busy = FALSE, !.error = TRUE]
      <4>1. SearchOk(s) /\ s.asks = view.search.asks
        BY <2>2 DEF SearchOk
      <4>2. view' = [view EXCEPT !.search = s]
        BY <1>1, <1>4, <3>1
      <4> QED
        BY <4>1, <4>2
    <3>2. CASE Ok(i)
      <4> DEFINE s == [view.search EXCEPT !.busy = FALSE, !.error = FALSE,
                                          !.result = calls[i].arg.asks,
                                          !.facets = @ \/ ~calls[i].arg.asks.facet]
      <4>1. SearchOk(s) /\ s.asks = view.search.asks
        BY <2>2 DEF SearchOk
      <4>2. view' = [view EXCEPT !.search = s]
        BY <1>1, <1>4, <3>2
      <4> QED
        BY <4>1, <4>2
    <3> QED
      BY <3>1, <3>2
  <2> QED
    BY <2>1, <2>2, <2>3, SearchKept
<1> QED
  BY <1>3, <1>4

---------------------------------------------------------------------------
(* The playground: comparing                                               *)

LEMMA CompareMoved ==
  ASSUME NewestInv, view.page = "playground", NEW c, CompareOk(c),
         view'.page = "playground", DOMAIN view' = DOMAIN view,
         view'.compare = c, view'.search = view.search,
         \A a \in Heard(calls') :
             /\ a[1] # "compare" => a \in Heard(calls)
             /\ a[1] = "compare" /\ a[2].newest =>
                   /\ c.asks.picked # <<>>
                   /\ a[2].asks = c.asks \/ c.asks.text = None
  PROVE  ShownStep
<1>1. /\ {"page", "search", "compare"} \subseteq DOMAIN view
      /\ view'.page = "playground" /\ DOMAIN view' = DOMAIN view
      /\ view'.compare = c /\ view'.search = view.search
  BY ViewFields
<1>2. ShownOk(view')
  BY <1>1 DEF ShownOk, NewestInv, ShownInv
<1>3. HeardOk(Heard(calls'), view')
  <2> SUFFICES ASSUME NEW a \in Heard(calls')
               PROVE  /\ a[1] = "search" /\ a[2].newest =>
                            SearchOk(view.search) /\ a[2].asks = view.search.asks
                      /\ a[1] = "compare" /\ a[2].newest =>
                            /\ c.asks.picked # <<>>
                            /\ a[2].asks = c.asks \/ c.asks.text = None
    BY <1>1 DEF HeardOk
  <2> QED
    BY DEF NewestInv, ShownInv, HeardOk
<1>4. Hidden /\ Charted
  BY <1>1 DEF Hidden, Charted
<1> QED
  BY <1>2, <1>3, <1>4 DEF ShownStep, ShownInv

LEMMA CompareShown ==
  ASSUME NewestInv, view.page = "playground", NEW c, CompareOk(c),
         view' = [view EXCEPT !.compare = c],
         \A a \in Heard(calls') :
             /\ a[1] # "compare" => a \in Heard(calls)
             /\ a[1] = "compare" /\ a[2].newest =>
                   /\ c.asks.picked # <<>>
                   /\ a[2].asks = c.asks \/ c.asks.text = None
  PROVE  ShownStep
<1>1. /\ view'.page = "playground" /\ DOMAIN view' = DOMAIN view
      /\ view'.compare = c /\ view'.search = view.search
  BY ViewFields
<1> QED
  BY <1>1, CompareMoved

\* What the newest comparison in flight asks for
LEMMA NewestCompare ==
  ASSUME NewestInv, NEW a \in Heard(calls), a[1] = "compare", a[2].newest
  PROVE  /\ view.page = "playground" /\ CompareOk(view.compare)
         /\ view.compare.asks.picked # <<>>
         /\ a[2].asks = view.compare.asks \/ view.compare.asks.text = None
BY DEF NewestInv, ShownInv, HeardOk

\* An edit of the texts, the documents or the models
LEMMA EditedCompare ==
  ASSUME NEW c, CompareOk(c), NEW a, Can("write") \/ c.asks.picked = <<>>,
         {"text", "docs", "picked"} \subseteq DOMAIN a,
         a.picked \in Seq({a.picked[n] : n \in DOMAIN a.picked}),
         a.picked = <<>> => c.asks.picked = <<>>
  PROVE  CompareOk(Compares([c EXCEPT !.asks = a]))
<1> DEFINE d == [c EXCEPT !.asks = a]
<1>1. /\ DOMAIN d = DOMAIN c /\ d.asks = a /\ d.result = c.result /\ d.ranked = c.ranked
      /\ d.busy = c.busy /\ d.error = c.error
  BY DEF CompareOk
<1>2. Comparable(d) <=> Can("write") /\ a.text # None /\ a.picked # <<>>
  BY <1>1 DEF Comparable
<1> HIDE DEF d
<1> DEFINE e == Compares(d)
<1>3. /\ DOMAIN e = DOMAIN d /\ e.asks = a /\ e.result = c.result /\ e.ranked = c.ranked
      /\ e.wait = Comparable(d) /\ e.busy = c.busy /\ e.error = c.error
  BY <1>1 DEF Compares, CompareOk
<1> HIDE DEF e
<1>4. e.wait <=> Can("write") /\ a.text # None /\ a.picked # <<>>
  BY <1>2, <1>3
<1>5. a.picked = <<>> \/ ~Can("write") => c.result = None
  BY DEF CompareOk
<1>6. \/ e.result \in {None, e.asks} \/ e.asks.text = None
      \/ e.wait \/ e.busy \/ e.error
  BY <1>3, <1>4, <1>5
<1>7. e.result # None => e.ranked = e.result.docs
  BY <1>3 DEF CompareOk
<1>8. e.asks.picked = <<>> => e.result = None /\ ~e.wait
  BY <1>3, <1>4, <1>5
<1>9. {"asks", "wait", "busy", "error", "result", "ranked"} \subseteq DOMAIN e
  BY <1>1, <1>3 DEF CompareOk
<1>10. /\ {"text", "docs", "picked"} \subseteq DOMAIN e.asks
       /\ e.asks.picked \in Seq({e.asks.picked[n] : n \in DOMAIN e.asks.picked})
  BY <1>3
<1>11. CompareOk(e)
  BY <1>6, <1>7, <1>8, <1>9, <1>10, Zenon DEF CompareOk
<1> QED
  BY <1>11 DEF d, e

\* A sequence is one of its own elements
Own(q) == q \in Seq({q[n] : n \in DOMAIN q})

LEMMA OwnSeq == ASSUME NEW T, NEW q \in Seq(T) PROVE Own(q)
<1> DEFINE S == {q[n] : n \in DOMAIN q}
<1>1. Len(q) \in Nat /\ DOMAIN q = 1 .. Len(q) /\ \A n \in 1 .. Len(q) : q[n] \in S
  OBVIOUS
<1>2. q = [n \in 1 .. Len(q) |-> q[n]]
  OBVIOUS
<1>3. q \in [1 .. Len(q) -> S]
  BY <1>1, <1>2
<1> HIDE DEF S
<1>4. q \in Seq(S)
  BY <1>1, <1>3
<1> QED
  BY <1>4 DEF S, Own

LEMMA EditedSeq ==
  ASSUME NEW p, Own(p), NEW m
  PROVE  /\ \A n \in DOMAIN p : \A q : q = [p EXCEPT ![n] = m] =>
               Own(q) /\ (q = <<>> => p = <<>>)
         /\ \A n \in DOMAIN p : \A q : Len(p) > 1 /\ q = RemoveAt(p, n) =>
               Own(q) /\ q # <<>>
         /\ \A q : q = Append(p, m) =>
               Own(q) /\ q # <<>>
<1> DEFINE T == {p[k] : k \in DOMAIN p}
<1>1. p \in Seq(T)
  BY DEF Own
<1> HIDE DEF T
<1>2. p \in Seq(T \cup {m})
  BY <1>1
<1>3. ASSUME NEW n \in DOMAIN p
      PROVE  /\ [p EXCEPT ![n] = m] \in Seq(T \cup {m})
             /\ [p EXCEPT ![n] = m] = <<>> => p = <<>>
  BY <1>2, <1>3
<1>4. ASSUME NEW n \in DOMAIN p, Len(p) > 1
      PROVE  RemoveAt(p, n) \in Seq(T) /\ RemoveAt(p, n) # <<>>
  <2>1. n \in 1 .. Len(p) /\ Len(p) \in Nat
    BY <1>1
  <2>2. SubSeq(p, 1, n - 1) \in Seq(T) /\ SubSeq(p, n + 1, Len(p)) \in Seq(T)
    BY <1>1, <2>1
  <2>3. /\ RemoveAt(p, n) \in Seq(T)
        /\ Len(RemoveAt(p, n)) = Len(SubSeq(p, 1, n - 1)) + Len(SubSeq(p, n + 1, Len(p)))
    BY <2>2 DEF RemoveAt
  <2>4. Len(RemoveAt(p, n)) # 0
    BY <1>4, <1>1, <2>1, <2>3
  <2> QED
    BY <2>3, <2>4
<1>5. Append(p, m) \in Seq(T \cup {m}) /\ Append(p, m) # <<>>
  <2> DEFINE U == T \cup {m}
  <2>1. p \in Seq(U) /\ m \in U
    BY <1>2
  <2> HIDE DEF U
  <2>2. /\ Append(p, m) \in Seq(U) /\ Len(p) \in Nat
        /\ Len(Append(p, m)) = Len(p) + 1
    BY <2>1
  <2>3. Append(p, m) # <<>>
    BY <2>2
  <2> QED
    BY <2>2, <2>3 DEF U
<1>6. \A U, q : q \in Seq(U) => Own(q)
  BY OwnSeq, Zenon
<1> QED
  BY <1>3, <1>4, <1>5, <1>6, Zenon

\* What may be asked for after an edit, and the edit
Fits(a) == /\ {"text", "docs", "picked"} \subseteq DOMAIN a
           /\ Own(a.picked)
           /\ a.picked = <<>> => view.compare.asks.picked = <<>>

Edits(a) == /\ view' = [view EXCEPT !.compare = Compares([view.compare EXCEPT !.asks = a])]
            /\ calls' = ComparesCalls([view.compare EXCEPT !.asks = a])

LEMMA CompareEdits == ASSUME NewestInv, EditCompare PROVE \E a : Fits(a) /\ Edits(a)
<1>1. Comparing /\ CompareOk(view.compare)
  BY SearchFields DEF EditCompare
<1> DEFINE old == view.compare.asks
           picked == old.picked
<1>2. /\ Own(picked)
      /\ {"text", "docs", "picked"} \subseteq DOMAIN old
  BY <1>1 DEF CompareOk, Own
<1>3. \A q : Fits([old EXCEPT !.picked = q])
            <=> /\ Own(q)
                /\ q = <<>> => picked = <<>>
  BY <1>2 DEF Fits
<1>4. \E a : Fits(a) /\ Edits(a)
  <2>1. CASE \E t \in Texts \cup {None} : Edits([old EXCEPT !.text = t])
    BY <1>2, <2>1 DEF Fits
  <2>2. CASE \E d \in Documents : Edits([old EXCEPT !.docs = d])
    BY <1>2, <2>2 DEF Fits
  <2>3. CASE \E n \in DOMAIN picked, m \in Models : Edits([old EXCEPT !.picked[n] = m])
    <3>1. PICK n \in DOMAIN picked, m \in Models : Edits([old EXCEPT !.picked[n] = m])
      BY <2>3
    <3> DEFINE q == [picked EXCEPT ![n] = m]
    <3>0. q = [picked EXCEPT ![n] = m]
      OBVIOUS
    <3> HIDE DEF q
    <3>2. Own(q) /\ (q = <<>> => picked = <<>>)
      BY <1>2, <3>0, EditedSeq, Zenon
    <3>3. [old EXCEPT !.picked[n] = m] = [old EXCEPT !.picked = q]
      BY <3>0
    <3>4. Fits([old EXCEPT !.picked = q])
      BY <1>3, <3>2
    <3> QED
      BY <3>1, <3>3, <3>4, Zenon
  <2>4. CASE Len(picked) > 1
             /\ \E n \in DOMAIN picked : Edits([old EXCEPT !.picked = RemoveAt(@, n)])
    <3>1. PICK n \in DOMAIN picked : Edits([old EXCEPT !.picked = RemoveAt(picked, n)])
      BY <2>4
    <3> DEFINE q == RemoveAt(picked, n)
    <3>0. q = RemoveAt(picked, n)
      OBVIOUS
    <3> HIDE DEF q
    <3>2. Own(q) /\ q # <<>>
      BY <1>2, <2>4, <3>0, EditedSeq, Zenon
    <3>3. Fits([old EXCEPT !.picked = q])
      BY <1>3, <3>2
    <3> QED
      BY <3>0, <3>1, <3>3, Zenon
  <2>5. CASE \E m : Edits([old EXCEPT !.picked = Append(@, m)])
    <3>1. PICK m : Edits([old EXCEPT !.picked = Append(picked, m)])
      BY <2>5
    <3> DEFINE q == Append(picked, m)
    <3>0. q = Append(picked, m)
      OBVIOUS
    <3> HIDE DEF q
    <3>2. Own(q) /\ q # <<>>
      BY <1>2, <3>0, EditedSeq, Zenon
    <3>3. Fits([old EXCEPT !.picked = q])
      BY <1>3, <3>2
    <3> QED
      BY <3>0, <3>1, <3>3, Zenon
  <2> QED
    BY <2>1, <2>2, <2>3, <2>4, <2>5 DEF EditCompare, Edits
<1> QED
  BY <1>4

LEMMA EditCompareShown == ASSUME NewestInv, EditCompare PROVE ShownStep
<1>1. /\ Comparing /\ Can("write") /\ CompareOk(view.compare) /\ view.page = "playground"
      /\ {"search", "compare"} \subseteq DOMAIN view
  BY SearchFields, ViewFields DEF EditCompare, Comparing
<1>2. PICK a : Fits(a) /\ Edits(a)
  BY CompareEdits
<1> USE DEF Fits, Edits
<1> DEFINE c == [view.compare EXCEPT !.asks = a]
           e == Compares(c)
<1>3. CompareOk(e)
  BY <1>1, <1>2, EditedCompare DEF Own
<1>4. e.asks = a
  BY <1>1 DEF CompareOk, Compares
<1>5. c.asks = a
  BY <1>1 DEF CompareOk
<1>6. \A h \in Heard(calls') :
         /\ h[1] # "compare" => h \in Heard(calls)
         /\ h[1] = "compare" /\ h[2].newest =>
               /\ a.picked # <<>>
               /\ h[2].asks = a \/ a.text = None
  <2>1. CASE Comparable(c)
    <3>1. calls' = Outdated("compare")
      BY <1>2, <2>1 DEF ComparesCalls
    <3> QED
      BY <3>1, StaleCalls DEF Stale
  <2>2. CASE ~Comparable(c)
    <3>1. calls' = calls
      BY <1>2, <2>2 DEF ComparesCalls
    <3>2. a.text = None \/ a.picked = <<>>
      BY <1>1, <1>5, <2>2 DEF Comparable
    <3> QED
      BY <1>2, <3>1, <3>2, NewestCompare
  <2> QED
    BY <2>1, <2>2
<1>7. view' = [view EXCEPT !.compare = e]
  BY <1>2
<1> HIDE DEF e, c
<1> QED
  BY <1>1, <1>3, <1>4, <1>6, <1>7, CompareShown

\* What is compared goes on to be of what is asked
LEMMA CompareKept ==
  ASSUME NewestInv, view.page = "playground", NEW c, CompareOk(c), c.asks = view.compare.asks,
         c.asks.picked # <<>>, view' = [view EXCEPT !.compare = c],
         Heard(calls') \subseteq Heard(calls)
             \cup {<<"compare", [asks |-> view.compare.asks, newest |-> TRUE]>>}
  PROVE  ShownStep
<1>1. ASSUME NEW a \in Heard(calls')
      PROVE  /\ a[1] # "compare" => a \in Heard(calls)
             /\ a[1] = "compare" /\ a[2].newest =>
                   /\ c.asks.picked # <<>>
                   /\ a[2].asks = c.asks \/ c.asks.text = None
  <2>1. CASE a \in Heard(calls)
    BY <2>1, NewestCompare
  <2>2. CASE a = <<"compare", [asks |-> view.compare.asks, newest |-> TRUE]>>
    BY <2>2
  <2> QED
    BY <1>1, <2>1, <2>2
<1> QED
  BY <1>1, CompareShown

LEMMA RunCompareShown == ASSUME NewestInv, RunCompare PROVE ShownStep
<1> DEFINE c == [view.compare EXCEPT !.wait = FALSE, !.busy = TRUE]
           a == [asks |-> view.compare.asks, newest |-> TRUE]
<1>1. /\ Comparing /\ view.compare.wait
      /\ view' = [view EXCEPT !.compare = c] /\ Sent("compare", a)
  BY DEF RunCompare
<1>2. CompareOk(view.compare)
  BY <1>1, SearchFields
<1>3. CompareOk(c) /\ c.asks = view.compare.asks /\ c.asks.picked # <<>>
  <2>1. /\ DOMAIN c = DOMAIN view.compare /\ c.asks = view.compare.asks
        /\ c.result = view.compare.result /\ c.ranked = view.compare.ranked
        /\ c.wait = FALSE /\ c.busy = TRUE /\ c.error = view.compare.error
    BY <1>2 DEF CompareOk
  <2> HIDE DEF c
  <2> QED
    BY <1>1, <1>2, <2>1 DEF CompareOk
<1> HIDE DEF c
<1>4. Heard(calls') \subseteq Heard(calls) \cup {<<"compare", a>>}
  <2> HIDE DEF a
  <2>1. Call("compare", a).op = "compare" /\ Call("compare", a).arg = a
    BY DEF Call
  <2> QED
    BY <1>1, <2>1, HeardAppend, KeptCalls DEF NewestInv, Sent
<1> QED
  BY <1>1, <1>3, <1>4, CompareKept DEF Comparing

LEMMA ComparedShown == ASSUME NewestInv, Compared PROVE ShownStep
<1>1. PICK i \in Arrived("compare") :
         /\ view' = IF ~calls[i].live \/ ~calls[i].arg.newest THEN view
                    ELSE IF ~Ok(i)
                    THEN [view EXCEPT !.compare.busy = FALSE, !.compare.error = TRUE]
                    ELSE [view EXCEPT !.compare.busy = FALSE, !.compare.error = FALSE,
                                      !.compare.result = calls[i].arg.asks,
                                      !.compare.ranked = calls[i].arg.asks.docs]
         /\ calls' = Without(i)
  BY DEF Compared
<1>2. i \in DOMAIN calls /\ calls[i].op = "compare"
  BY ArrivedCall
<1>3. CASE ~calls[i].live \/ ~calls[i].arg.newest
  BY <1>1, <1>2, <1>3, SameStays, DeliveredShown
<1>4. CASE calls[i].live /\ calls[i].arg.newest
  <2>1. Heard(calls') \subseteq Heard(calls)
    BY <1>1, <1>2, HeardWithout
  <2>2. /\ view.page = "playground" /\ CompareOk(view.compare)
        /\ view.compare.asks.picked # <<>>
        /\ calls[i].arg.asks = view.compare.asks \/ view.compare.asks.text = None
    <3>1. <<calls[i].op, calls[i].arg>> \in Heard(calls)
      BY <1>2, <1>4 DEF Heard, Shows
    <3> QED
      BY <1>2, <1>4, <3>1 DEF NewestInv, ShownInv, HeardOk
  <2> DEFINE old == view.compare
             bad == [old EXCEPT !.busy = FALSE, !.error = TRUE]
             new == [old EXCEPT !.busy = FALSE, !.error = FALSE,
                                !.result = calls[i].arg.asks,
                                !.ranked = calls[i].arg.asks.docs]
  <2>3. CompareOk(bad) /\ bad.asks = old.asks
    <3>1. /\ DOMAIN bad = DOMAIN old /\ bad.asks = old.asks /\ bad.result = old.result
          /\ bad.ranked = old.ranked /\ bad.wait = old.wait /\ bad.error = TRUE
      BY <2>2 DEF CompareOk
    <3> HIDE DEF bad
    <3> QED
      BY <2>2, <3>1 DEF CompareOk
  <2>4. CompareOk(new) /\ new.asks = old.asks
    <3>1. /\ DOMAIN new = DOMAIN old /\ new.asks = old.asks
          /\ new.result = calls[i].arg.asks
          /\ new.ranked = new.result.docs /\ new.wait = old.wait
      BY <2>2 DEF CompareOk
    <3> HIDE DEF new
    <3> QED
      BY <2>2, <3>1 DEF CompareOk
  <2>5. view' = [view EXCEPT !.compare = bad] \/ view' = [view EXCEPT !.compare = new]
    BY <1>1, <1>4
  <2> HIDE DEF bad, new
  <2> QED
    BY <2>1, <2>2, <2>3, <2>4, <2>5, CompareKept
<1> QED
  BY <1>3, <1>4

LEMMA PlaygroundShown == ASSUME NewestInv, PlaygroundNext PROVE ShownStep
<1>1. ASSUME ServeSearch PROVE ShownStep
  BY <1>1, ServedShown, SameStays DEF ServeSearch, Pending
<1> QED
  BY <1>1, EditSearchShown, RunSearchShown, SearchedShown, EditCompareShown,
     RunCompareShown, ComparedShown DEF PlaygroundNext

---------------------------------------------------------------------------
(* What the shell and the catalog bring to the page                        *)

\* The models of a finite set can be listed
LEMMA SetToSeqKind == ASSUME NEW S, IsFiniteSet(S) PROVE SetToSeq(S) \in Seq(S)
<1>1. Cardinality(S) \in Nat /\ ExistsBijection(1 .. Cardinality(S), S)
  BY FS_CardinalityType
<1>2. \E f \in [1 .. Cardinality(S) -> S] : IsInjective(f)
  <2>1. PICK f \in Bijection(1 .. Cardinality(S), S) : TRUE
    BY <1>1 DEF ExistsBijection
  <2>2. f \in [1 .. Cardinality(S) -> S] /\ IsInjective(f)
    BY <2>1 DEF Bijection, Injection, IsInjective
  <2> QED
    BY <2>2
<1>3. SetToSeq(S) \in [1 .. Cardinality(S) -> S]
  BY <1>2 DEF SetToSeq
<1> QED
  BY <1>1, <1>3

LEMMA PicksModels ==
  ASSUME NEW seen
  PROVE  Own(Picks(<<>>, seen))
<1> DEFINE can == SetToSeq(Runnable(seen))
           q == Picks(<<>>, seen)
<1>1. can \in Seq(Runnable(seen))
  <2>1. IsFiniteSet(Runnable(seen))
    BY ModelsAssumption, FS_Subset DEF Runnable
  <2> QED
    BY <2>1, SetToSeqKind
<1> HIDE DEF can
<1>2. \E T : q \in Seq(T)
  <2>1. CASE seen = None
    <3>1. q = <<>>
      BY <2>1 DEF Picks
    <3> HIDE DEF q
    <3> QED
      BY <3>1
  <2>2. CASE seen # None /\ can = <<>>
    <3> DEFINE any == CHOOSE m \in Models : TRUE
    <3>1. q = <<any>>
      BY <2>2 DEF Picks, can
    <3> HIDE DEF q, any
    <3>2. q \in Seq({any})
      BY <3>1
    <3> QED
      BY <3>2
  <2>3. CASE seen # None /\ can # <<>>
    <3> DEFINE n == IF Len(can) < 2 THEN Len(can) ELSE 2
    <3>1. q = SubSeq(can, 1, n)
      BY <2>3 DEF Picks, can
    <3>2. n \in Nat /\ n <= Len(can)
      BY <1>1
    <3> HIDE DEF n, q
    <3>3. q \in Seq(Runnable(seen))
      BY <1>1, <3>1, <3>2
    <3> QED
      BY <3>3
  <2> QED
    BY <2>1, <2>2, <2>3
<1> HIDE DEF q
<1>3. Own(q)
  BY <1>2, OwnSeq
<1> QED
  BY <1>3 DEF q

LEMMA ModelsShown == ASSUME NewestInv, ModelsLoaded PROVE ShownStep
<1>1. PICK i \in Arrived("models") :
         /\ view' = view \/ view' = WithModels(view, calls[i].reply)
         /\ calls' = Without(i)
  BY DEF ModelsLoaded
<1>2. Heard(calls') \subseteq Heard(calls)
  BY <1>1, ArrivedCall, HeardWithout
<1> DEFINE seen == calls[i].reply
           w == [view EXCEPT !.models.seen = seen]
<1>3. DOMAIN w = DOMAIN view /\ Stays(view, w)
  BY ViewFields DEF Stays, Settles
<1>4. CASE view' = view \/ view' = w
  BY <1>2, <1>3, <1>4, SameStays, StaysStep
<1>5. CASE view.page = "indexes"
  BY <1>1, <1>2, <1>5, ViewFields, SameStays, PageStays, StaysStep DEF WithModels
<1>6. CASE /\ view.page = "playground" /\ view.compare # None
           /\ view.compare.asks.picked = <<>> /\ view' = WithModels(view, seen)
  <2> DEFINE old == view.compare
             a == [old.asks EXCEPT !.picked = Picks(<<>>, seen)]
             c == Compares([old EXCEPT !.asks = a])
  <2>1. CompareOk(old)
    BY <1>6 DEF NewestInv, ShownInv, ShownOk
  <2>2. /\ {"text", "docs", "picked"} \subseteq DOMAIN a
        /\ a.picked \in Seq({a.picked[n] : n \in DOMAIN a.picked})
    <3>1. a.picked = Picks(<<>>, seen) /\ {"text", "docs", "picked"} \subseteq DOMAIN a
      BY <2>1 DEF CompareOk
    <3> HIDE DEF a
    <3> QED
      BY <3>1, PicksModels DEF Own
  <2>3. view'.page = "playground" /\ DOMAIN view' = DOMAIN view
        /\ view'.compare = c /\ view'.search = view.search
    <3>1. w.page = "playground" /\ w.compare = old /\ w.search = view.search
          /\ {"page", "compare", "search"} \subseteq DOMAIN w
      BY <1>3, <1>6, ViewFields
    <3>2. [old EXCEPT !.asks.picked = Picks(<<>>, seen)] = [old EXCEPT !.asks = a]
      OBVIOUS
    <3>3. view' = [w EXCEPT !.compare = Compares([@ EXCEPT !.asks.picked = Picks(<<>>, seen)])]
      BY <1>6 DEF WithModels
    <3>4. view' = [w EXCEPT !.compare = c]
      BY <3>1, <3>2, <3>3
    <3> HIDE DEF w, c
    <3> QED
      BY <1>3, <3>1, <3>4
  <2> HIDE DEF a
  <2>4. CompareOk(c)
    BY <1>6, <2>1, <2>2, EditedCompare
  <2> HIDE DEF c
  <2>5. ASSUME NEW h \in Heard(calls')
        PROVE  /\ h[1] # "compare" => h \in Heard(calls)
               /\ ~(h[1] = "compare" /\ h[2].newest)
    BY <1>2, <1>6, <2>5, NewestCompare
  <2> QED
    BY <1>6, <2>3, <2>4, <2>5, CompareMoved
<1> QED
  BY <1>1, <1>4, <1>5, <1>6 DEF WithModels

---------------------------------------------------------------------------
(* Pages that mount and pages that get new props                           *)

\* A playground that is new shows no result
LEMMA PlaygroundFresh ==
  ASSUME NEW route, NEW m
  PROVE  ShownOk(PlaygroundMount(route, m))
<1>1. SearchOk(SearchMount)
  BY DEF SearchOk, SearchMount
<1>2. CompareOk(CompareMount(NewModels.seen, m))
  <2> DEFINE q == Picks(<<>>, NewModels.seen)
             a == [BlankCompare EXCEPT !.picked = q]
             c == CompareMount(NewModels.seen, m)
  <2>1. Own(q)
    BY PicksModels
  <2>2. c = [asks |-> a, wait |-> May(m, "write") /\ q # <<>>, busy |-> FALSE,
             error |-> FALSE, result |-> None, ranked |-> None]
    BY DEF CompareMount
  <2> HIDE DEF q, c
  <2>3. DOMAIN a = {"text", "docs", "picked"} /\ a.picked = q
    BY DEF BlankCompare
  <2> HIDE DEF a
  <2>4. /\ DOMAIN c = {"asks", "wait", "busy", "error", "result", "ranked"}
        /\ c.asks = a /\ c.result = None /\ (q = <<>> => ~c.wait)
    BY <2>2
  <2>5. CompareOk(c)
    BY <2>1, <2>3, <2>4 DEF CompareOk, Own
  <2> QED
    BY <2>5 DEF c
<1> DEFINE v == PlaygroundMount(route, m)
<1>3. /\ DOMAIN v = {"page", "route", "models", "search", "compare"}
      /\ v.page = "playground" /\ v.search \in {None, SearchMount}
      /\ v.compare \in {None, CompareMount(NewModels.seen, m)}
  BY DEF PlaygroundMount
<1> HIDE DEF v
<1>4. ShownOk(v)
  BY <1>1, <1>2, <1>3 DEF ShownOk
<1> QED
  BY <1>4 DEF v

\* A page that is new waits for nothing and shows no secret
LEMMA MountedShown ==
  ASSUME NEW route, NEW m
  PROVE  LET p == Mounted(route, m) IN
         /\ ShownOk(p.view) /\ (p.view.page = "keys" => p.view.sheet.created = None)
         /\ Heard(p.calls) = {}
<1> DEFINE Blank(v) == ShownOk(v) /\ (v.page = "keys" => v.sheet.created = None)
           Fresh(p) == Blank(p.view) /\ Heard(p.calls) = {}
<1>1. CallsOk(<<>>, server.written)
  BY CallsEmpty
<1>2. Heard(<<>>) = {} /\ Heard(SubscribeCalls) = {}
  <2>1. Heard(<<>>) = {}
    BY DEF Heard
  <2> QED
    BY <1>1, <2>1, HeardRefreshed
<1>3. ASSUME NEW v, v.page \notin {"keys", "playground"}
      PROVE  Blank(v)
  BY <1>3 DEF ShownOk
<1>4. Blank(KeysMount(route))
  BY DEF ShownOk, KeysMount, BlankKeySheet
<1>5. Blank(PlaygroundMount(route, m))
  BY PlaygroundFresh DEF PlaygroundMount
<1>6. /\ Blank(Elsewhere(route)) /\ Blank(OverviewMount(route)) /\ Blank(SecurityMount(route))
      /\ Blank(SignInMount(route)) /\ Blank(DocsMount(route))
      /\ Blank([page |-> "boot", route |-> route]) /\ Blank(IndexMount(route))
      /\ Blank(ProvidersMount(route)) /\ Blank(IndexesMount(route, m))
  <2> HIDE DEF Blank
  <2> QED
    BY <1>3 DEF Elsewhere, OverviewMount, SecurityMount, SignInMount, DocsMount,
       IndexMount, ProvidersMount, IndexesMount
<1> HIDE DEF Blank
<1>7. ASSUME NEW v, Blank(v)
      PROVE  Fresh(Alone(v)) /\ Fresh(WithCatalog(v))
  BY <1>2, <1>7 DEF Alone, WithCatalog
<1> HIDE DEF Fresh
<1>8. Fresh(MountPage(route, m))
  BY <1>4, <1>5, <1>6, <1>7 DEF MountPage
<1>9. Fresh(Mounted(route, m))
  BY <1>6, <1>7, <1>8 DEF Mounted
<1> QED
  BY <1>9 DEF Fresh, Blank

LEMMA OverviewFresh ==
  ASSUME NEW route, NEW m, Mounted(route, m).view.page = "home"
  PROVE  /\ route.page = "home" /\ Slot(route, m) = "shell"
         /\ Mounted(route, m).view = OverviewMount(route)
<1> DEFINE Other(p) == p.view.page # "home"
<1>1. /\ Other(Alone(SignInMount(route))) /\ Other(Alone([page |-> "boot", route |-> route]))
      /\ Other(Alone(DocsMount(route))) /\ Other(Alone(Elsewhere(route)))
      /\ Other(Alone(KeysMount(route))) /\ Other(Alone(ProvidersMount(route)))
      /\ Other(Alone(IndexMount(route))) /\ Other(Alone(SecurityMount(route)))
      /\ Other(WithCatalog(IndexesMount(route, m)))
      /\ Other(WithCatalog(PlaygroundMount(route, m)))
  BY DEF Alone, WithCatalog, SignInMount, DocsMount, Elsewhere, KeysMount, ProvidersMount,
         IndexMount, SecurityMount, IndexesMount, PlaygroundMount
<1>2. ~Other(Mounted(route, m))
  OBVIOUS
<1> HIDE DEF Other
<1>3. /\ Slot(route, m) \notin {"out", "boot", "docs"}
      /\ Mounted(route, m) = MountPage(route, m)
  BY <1>1, <1>2 DEF Mounted
<1>4. route.page = "home" /\ MountPage(route, m) = Alone(OverviewMount(route))
  BY <1>1, <1>2, <1>3 DEF MountPage
<1>5. Slot(route, m) = "shell"
  BY <1>3 DEF Slot
<1> QED
  BY <1>3, <1>4, <1>5 DEF Alone

\* A page that is new, and what was asked for the one before it is not heard
LEMMA AnewShown ==
  ASSUME ShownOk(view'), view'.page = "keys" => view'.sheet.created = None,
         view'.page = "home" => \E r : r.page = "home" /\ view' = OverviewMount(r),
         Heard(calls') = {}
  PROVE  ShownStep
BY DEF ShownStep, ShownInv, HeardOk, Hidden, Charted

LEMMA RouteShown ==
  ASSUME NewestInv, NEW route, view' = Routed(route).view, calls' = Routed(route).calls
  PROVE  ShownStep
<1> DEFINE v == [view EXCEPT !.route = route]
           same(w) == [view |-> w, calls |-> calls, hash |-> route]
<1>1. \A w : same(w).view = w /\ same(w).calls = calls
  OBVIOUS
<1>2. Stays(view, v) /\ v.page = view.page /\ "page" \in DOMAIN v
  BY ViewFields DEF Stays, Settles
<1> HIDE DEF same
<1>3. CASE view.page = "keys"
  <2>1. \/ view' = v /\ calls' = calls
        \/ view' = Opened(v) /\ calls' = calls
    BY <1>1, <1>3 DEF Routed, same
  <2>2. CASE view' = v /\ calls' = calls
    BY <1>2, <2>2, StillShown
  <2>3. CASE view' = Opened(v) /\ calls' = calls
    BY <1>3, <2>3, OpenedStays, StillShown DEF OnKeys
  <2> QED
    BY <2>1, <2>2, <2>3
<1>4. CASE view.page = "playground"
  <2> DEFINE from == [i \in DOMAIN calls |-> calls[i].op \in {"search", "compare"}]
             cs == Orphan(from)
  <2>1. \/ view' = v /\ calls' = calls
        \/ view' = PlaygroundMount(route, me) /\ calls' = cs \o SubscribeCalls
    BY <1>4 DEF Routed, PlaygroundRouted
  <2>2. CASE view' = v /\ calls' = calls
    BY <1>2, <2>2, StillShown
  <2>3. CASE view' = PlaygroundMount(route, me) /\ calls' = cs \o SubscribeCalls
    <3>1. CallsOk(cs, server.written) /\ Heard(cs) = {}
      <4>1. \A k \in DOMAIN calls : calls[k].op \in Shows => from[k]
        BY DEF Shows
      <4> HIDE DEF from
      <4> QED
        BY <4>1, HeardNothing, CallsOrphan, KeptCalls DEF NewestInv
    <3>2. Heard(calls') = {}
      <4> HIDE DEF cs
      <4> QED
        BY <2>3, <3>1, HeardRefreshed
    <3>3. ShownOk(view') /\ view'.page = "playground"
      BY <2>3, PlaygroundFresh DEF PlaygroundMount
    <3> QED
      BY <3>2, <3>3, AnewShown
  <2> QED
    BY <2>1, <2>2, <2>3
<1>5. CASE view.page = "index"
  <2> DEFINE x == [view EXCEPT !.route = route,
                               !.map = IF route.tab = "explore" THEN @ ELSE None]
             cs == IF route.tab = "explore" THEN calls
                   ELSE Orphan([i \in DOMAIN calls |-> calls[i].op \in {"map", "neighbours"}])
  <2>1. \/ view' = x /\ calls' = cs
        \/ view' = Activate(x, cs).view /\ calls' = Activate(x, cs).calls
    BY <1>5 DEF Routed, IndexRouted
  <2>2. CallsOk(cs, server.written) /\ Heard(cs) \subseteq Heard(calls)
    BY HeardOrphan, KeptCalls, CallsOrphan DEF NewestInv
  <2>3. Untouched(view, x)
    BY DEF Untouched
  <2> HIDE DEF x, cs
  <2>4. Untouched(view, view') /\ Heard(calls') \subseteq Heard(calls)
    BY <2>1, <2>2, <2>3, ActivatedHeard, UntouchedTwice
  <2> QED
    BY <2>4, UntouchedStays, StaysStep
<1>6. CASE view.page \notin {"keys", "playground", "index"}
  <2>1. calls' = calls /\ view'.page = view.page
    <3>1. \/ view' = v \/ view' = IndexSheetOpened(v)
          \/ view' = Requested(v) \/ view' = DocsRouted(v)
      BY <1>1, <1>6 DEF Routed, same
    <3>2. calls' = calls
      BY <1>1, <1>6 DEF Routed, same
    <3> HIDE DEF v
    <3>3. /\ IndexSheetOpened(v).page = v.page /\ Requested(v).page = v.page
          /\ DocsRouted(v).page = v.page
      BY <1>2 DEF IndexSheetOpened, Requested, Edited, DocsRouted
    <3> QED
      BY <1>2, <3>1, <3>2, <3>3
  <2> QED
    BY <1>6, <2>1, PageStays, StillShown
<1> QED
  BY <1>3, <1>4, <1>5, <1>6

LEMMA NavigateShown == ASSUME NewestInv, Navigate PROVE ShownStep
<1> DEFINE stays == Slot(hash, me) = Slot(view.route, me)
           orphans == Orphan([i \in DOMAIN calls |-> ~stays \/ calls[i].op \notin ShellOps])
           mounted == Mounted(hash, me)
<1>1. \/ view' = Routed(hash).view /\ calls' = Routed(hash).calls
      \/ view' = mounted.view /\ calls' = orphans \o mounted.calls
  BY DEF Navigate
<1>2. CallsOk(orphans, server.written) /\ Heard(orphans) = {}
  <2>1. CallsOk(calls, server.written)
    BY KeptCalls DEF NewestInv
  <2> DEFINE from == [i \in DOMAIN calls |-> ~stays \/ calls[i].op \notin ShellOps]
  <2>2. \A j \in DOMAIN calls : calls[j].op \in Shows => from[j]
    BY DEF Shows, ShellOps
  <2>3. orphans = Orphan(from)
    OBVIOUS
  <2> HIDE DEF from, orphans
  <2> QED
    BY <2>1, <2>2, <2>3, HeardNothing, CallsOrphan
<1> HIDE DEF orphans
<1>3. CASE view' = mounted.view /\ calls' = orphans \o mounted.calls
  <2>1. CallsOk(mounted.calls, server.written)
    BY MountedFresh
  <2>2. /\ ShownOk(mounted.view) /\ Heard(mounted.calls) = {}
        /\ mounted.view.page = "keys" => mounted.view.sheet.created = None
        /\ mounted.view.page = "home" =>
              \E r : r.page = "home" /\ mounted.view = OverviewMount(r)
    BY MountedShown, OverviewFresh
  <2> HIDE DEF mounted
  <2>3. Heard(calls') = {}
    BY <1>2, <1>3, <2>1, <2>2, HeardConcat
  <2> QED
    BY <1>3, <2>2, <2>3, AnewShown
<1> QED
  BY <1>1, <1>3, RouteShown

LEMMA MeShown == ASSUME NewestInv, MeDecided PROVE ShownStep
<1>1. PICK i, m :
         /\ i \in DOMAIN calls
         /\ \/ view' = view /\ calls' = Without(i)
            \/ /\ view' = Mounted(view.route, m).view
               /\ calls' = RemoveAt(Orphaned, i) \o Mounted(view.route, m).calls
  BY DEF MeDecided
<1>2. CASE view' = view /\ calls' = Without(i)
  BY <1>1, <1>2, SameStays, DeliveredShown
<1> DEFINE mounted == Mounted(view.route, m)
<1>3. CASE view' = mounted.view /\ calls' = RemoveAt(Orphaned, i) \o mounted.calls
  <2>1. CallsOk(Orphaned, server.written) /\ i \in DOMAIN Orphaned /\ Heard(Orphaned) = {}
    BY <1>1, CallsOrphan, HeardOrphan, KeptCalls DEF NewestInv, Orphaned
  <2>2. CallsOk(RemoveAt(Orphaned, i), server.written) /\ Heard(RemoveAt(Orphaned, i)) = {}
    BY <2>1, CallsDrop, HeardDrop
  <2>3. CallsOk(mounted.calls, server.written)
    BY MountedFresh
  <2>4. /\ ShownOk(mounted.view) /\ Heard(mounted.calls) = {}
        /\ mounted.view.page = "keys" => mounted.view.sheet.created = None
        /\ mounted.view.page = "home" =>
              \E r : r.page = "home" /\ mounted.view = OverviewMount(r)
    BY MountedShown, OverviewFresh
  <2> HIDE DEF mounted
  <2>5. Heard(calls') = {}
    BY <1>3, <2>2, <2>3, <2>4, HeardConcat
  <2> QED
    BY <1>3, <2>4, <2>5, AnewShown
<1> QED
  BY <1>1, <1>2, <1>3

---------------------------------------------------------------------------
(* Every step                                                              *)

LEMMA InitShown == ASSUME Init PROVE NewestInv
<1>1. CallsInv
  BY FirstCalls
<1>2. view = Mounted(hash, "boot").view /\ calls = <<Call("me", None)>>
  BY DEF Init
<1>3. ShownOk(view)
  BY <1>2, MountedShown
<1>4. Heard(calls) = {}
  BY <1>2 DEF Heard, Call, Shows
<1> QED
  BY <1>1, <1>3, <1>4 DEF NewestInv, ShownInv, HeardOk

LEMMA EveryShownStep ==
  ASSUME NewestInv, OfPage(Waiting(calls), view), Next
  PROVE  ShownStep
<1>1. CASE AppNext
  BY <1>1, NavigateShown, MeShown, NetworkShown, ModelsShown, ListShown, SignInShown
     DEF AppNext
<1>2. CASE SignInNext
  BY <1>2, SignInShown
<1>3. CASE ShellNext \/ ServeModels \/ KeysNext \/ ProvidersNext
  BY <1>3, ShellShown, KeysShown, ProvidersShown
<1>4. CASE IndexNext \/ BrowseNext \/ QueryNext \/ UpsertNext
  BY <1>4, IndexShown, BrowseShown, QueryShown, UpsertShown
<1>5. CASE MapNext \/ ConnectNext \/ IndexesNext \/ PlaygroundNext
  BY <1>5, MapShown, ConnectShown, IndexesShown, PlaygroundShown
<1>6. CASE OverviewNext \/ SecurityNext \/ DocsNext
  BY <1>6, OverviewShown, SecurityShown, DocsShown
<1> QED
  BY <1>1, <1>2, <1>3, <1>4, <1>5, <1>6 DEF Next

---------------------------------------------------------------------------
(* The charts of the overview: what one more sample does to their points.  *)
(* Calm is a set of points that depend on the samples of one bucket and on *)
(* the values held before them, so it is enough to follow single samples.  *)

\* Min and Max are choices: of a set of numbers, they are what they say
LEMMA LeastOf ==
  ASSUME NEW S \in SUBSET Nat, S # {}
  PROVE  Min(S) \in S /\ \A n \in S : Min(S) <= n
<1> DEFINE Less == {p \in Nat \X Nat : p[1] < p[2]}
<1>1. IsWellFoundedOn(Less, Nat)
  BY NatLessThanWellFounded DEF OpToRel
<1>2. PICK m \in S : \A n \in S : <<n, m>> \notin Less
  <2> HIDE DEF Less
  <2> QED
    BY <1>1, WFMin
<1>3. ASSUME NEW n \in S, n < m PROVE FALSE
  <2>1. <<n, m>> \in Less
    BY <1>3
  <2> HIDE DEF Less
  <2> QED
    BY <1>2, <2>1
<1>4. \A n \in S : m <= n
  BY <1>3
<1> QED
  BY <1>4 DEF Min

\* A bucket has a length
LEMMA StepIsLength == ASSUME NEW samples PROVE Step(samples) \in Nat \ {0}
<1> DEFINE span == samples[Len(samples)].t - samples[1].t
           fit == {n \in DOMAIN BucketSteps : span <= Target * BucketSteps[n]}
<1>1. Step(samples) = IF fit = {} THEN BucketSteps[Len(BucketSteps)] ELSE BucketSteps[Min(fit)]
  BY DEF Step
<1>2. fit \in SUBSET Nat /\ fit \subseteq DOMAIN BucketSteps
  BY StepsAssumption
<1> HIDE DEF fit
<1>3. fit # {} => Min(fit) \in DOMAIN BucketSteps
  BY <1>2, LeastOf
<1>4. Len(BucketSteps) \in DOMAIN BucketSteps
  BY StepsAssumption
<1> QED
  BY <1>1, <1>3, <1>4, StepsAssumption

LEMMA MinOfTwo == ASSUME NEW a \in Nat, NEW b \in Nat, a <= b PROVE Min({a, b}) = a
BY DEF Min

\* A bucket is an interval of times, and buckets follow each other
LEMMA BucketBounds ==
  ASSUME NEW t \in Nat, NEW step \in Nat \ {0}
  PROVE  /\ Bucket(t, step) \in Nat
         /\ Bucket(t, step) * step <= t
         /\ t < (Bucket(t, step) + 1) * step
BY DEF Bucket

LEMMA BucketOnly ==
  ASSUME NEW t \in Nat, NEW step \in Nat \ {0}, NEW k \in Nat, k * step <= t, t < (k + 1) * step
  PROVE  Bucket(t, step) = k
BY DEF Bucket

LEMMA BucketGrows ==
  ASSUME NEW t \in Nat, NEW u \in Nat, t <= u, NEW step \in Nat \ {0}
  PROVE  Bucket(t, step) <= Bucket(u, step)
BY DEF Bucket

LEMMA GreatestOf ==
  ASSUME NEW n \in Nat, NEW S \in SUBSET (1 .. n), S # {}
  PROVE  Max(S) \in S /\ \A m \in S : m <= Max(S)
<1> DEFINE T == {n - m : m \in S}
<1>0. \A m \in S : m \in 1 .. n /\ n - m \in Nat
  OBVIOUS
<1>1. T \in SUBSET Nat /\ T # {}
  BY <1>0
<1> HIDE DEF T
<1>2. Min(T) \in T /\ \A k \in T : Min(T) <= k
  BY <1>1, LeastOf
<1>3. PICK m \in S : Min(T) = n - m
  BY <1>2 DEF T
<1>4. \A k \in S : n - k \in T
  BY DEF T
<1>5. \A k \in S : k <= m
  BY <1>2, <1>3, <1>4
<1> QED
  BY <1>5 DEF Max

\* The samples that Newest leaves out
Skipped(q, n) == IF Len(q) > n THEN Len(q) - n ELSE 0

LEMMA NewestIs ==
  ASSUME NEW S, NEW q \in Seq(S), NEW n \in Nat
  PROVE  /\ Newest(q, n) \in Seq(S) /\ Skipped(q, n) \in 0 .. Len(q)
         /\ Len(Newest(q, n)) = Len(q) - Skipped(q, n)
         /\ \A i \in 1 .. Len(q) - Skipped(q, n) : Newest(q, n)[i] = q[i + Skipped(q, n)]
<1> DEFINE a == Skipped(q, n)
<1>1. a \in 0 .. Len(q) /\ Len(q) \in Nat
  BY DEF Skipped
<1>2. Newest(q, n) = SubSeq(q, a + 1, Len(q))
  BY DEF Newest, Skipped
<1> HIDE DEF a
<1> DEFINE b == a + 1
           w == SubSeq(q, b, Len(q))
<1>3. b \in 1 .. Len(q) + 1
  BY <1>1
<1>4. w \in Seq(S) /\ Len(w) = Len(q) - a /\ \A i \in 1 .. Len(w) : w[i] = q[i + a]
  BY <1>1, <1>3
<1> HIDE DEF w
<1>5. w = Newest(q, n)
  BY <1>2 DEF w
<1> QED
  BY <1>1, <1>4, <1>5 DEF a

LEMMA HistoryIn ==
  ASSUME NEW S, NEW q \in Seq(S), \A n \in DOMAIN q : q[n].t \in Nat,
         \A m, n \in DOMAIN q : m <= n => q[m].t <= q[n].t
  PROVE  HistoryOk(q)
<1>1. q \in Seq({q[n] : n \in DOMAIN q})
  OBVIOUS
<1> QED
  BY <1>1 DEF HistoryOk

LEMMA NewestOk ==
  ASSUME NEW q, HistoryOk(q), NEW n \in Nat
  PROVE  HistoryOk(Newest(q, n))
<1> DEFINE S == {q[m] : m \in DOMAIN q}
           w == Newest(q, n)
           a == Skipped(q, n)
<1>1. q \in Seq(S)
  BY DEF HistoryOk
<1> HIDE DEF S
<1>2. /\ w \in Seq(S) /\ a \in 0 .. Len(q) /\ Len(w) = Len(q) - a
      /\ \A i \in 1 .. Len(q) - a : w[i] = q[i + a]
  BY <1>1, NewestIs
<1> HIDE DEF w, a
<1>3. \A i \in DOMAIN w : i \in Nat /\ i + a \in DOMAIN q /\ w[i] = q[i + a]
  BY <1>1, <1>2
<1>4. \A i \in DOMAIN w : w[i].t \in Nat
  BY <1>3 DEF HistoryOk
<1>5. ASSUME NEW i \in DOMAIN w, NEW j \in DOMAIN w, i <= j PROVE w[i].t <= w[j].t
  <2>1. i + a <= j + a
    BY <1>2, <1>3, <1>5
  <2> QED
    BY <1>3, <2>1 DEF HistoryOk
<1>6. HistoryOk(w)
  BY <1>2, <1>4, <1>5, HistoryIn
<1> QED
  BY <1>6 DEF w

\* A sample that is no older than any
NoOlder(q, s) == s.t \in Nat /\ \A n \in DOMAIN q : q[n].t <= s.t

\* One more sample keeps the order of a history, however many are forgotten
LEMMA AppendOk ==
  ASSUME NEW q, HistoryOk(q), NEW s, NoOlder(q, s)
  PROVE  HistoryOk(Append(q, s))
<1> DEFINE S == {q[m] : m \in DOMAIN q} \cup {s}
           w == Append(q, s)
<1>1. q \in Seq({q[m] : m \in DOMAIN q})
  BY DEF HistoryOk
<1>2. q \in Seq(S) /\ s \in S
  BY <1>1
<1> HIDE DEF S
<1>3. /\ w \in Seq(S) /\ Len(w) = Len(q) + 1 /\ w[Len(q) + 1] = s
      /\ \A i \in DOMAIN q : w[i] = q[i]
  BY <1>2
<1> HIDE DEF w
<1>4. \A i \in DOMAIN w : i \in Nat /\ (i = Len(q) + 1 \/ (i \in DOMAIN q /\ i <= Len(q)))
  BY <1>2, <1>3
<1>5. \A i \in DOMAIN w : w[i].t \in Nat
  BY <1>3, <1>4 DEF HistoryOk, NoOlder
<1>6. ASSUME NEW i \in DOMAIN w, NEW j \in DOMAIN w, i <= j PROVE w[i].t <= w[j].t
  <2>1. CASE j = Len(q) + 1
    BY <1>3, <1>4, <1>5, <2>1 DEF NoOlder
  <2>2. CASE j \in DOMAIN q /\ j <= Len(q)
    <3>1. i \in DOMAIN q
      BY <1>4, <1>6, <2>2, <1>2
    <3> QED
      BY <1>3, <1>6, <2>2, <3>1 DEF HistoryOk
  <2> QED
    BY <1>4, <2>1, <2>2
<1>7. HistoryOk(w)
  BY <1>3, <1>5, <1>6, HistoryIn
<1> QED
  BY <1>7 DEF w

LEMMA RememberedOk ==
  ASSUME NEW q, HistoryOk(q), NEW s, NoOlder(q, s)
  PROVE  HistoryOk(Remembered(q, s))
<1> DEFINE m == MaxHistory - 1
<1>1. m \in Nat
  BY HistoryAssumption
<1> HIDE DEF m
<1>2. HistoryOk(Newest(q, m))
  BY <1>1, NewestOk
<1>3. NoOlder(Newest(q, m), s)
  <2> DEFINE S == {q[n] : n \in DOMAIN q}
             w == Newest(q, m)
  <2>1. q \in Seq(S)
    BY DEF HistoryOk
  <2> HIDE DEF S
  <2>2. \A i \in DOMAIN w : \E j \in DOMAIN q : w[i] = q[j]
    <3> DEFINE a == Skipped(q, m)
    <3>1. /\ w \in Seq(S) /\ a \in 0 .. Len(q) /\ Len(w) = Len(q) - a
          /\ \A i \in 1 .. Len(q) - a : w[i] = q[i + a]
      BY <1>1, <2>1, NewestIs
    <3> HIDE DEF w, a
    <3>2. \A i \in DOMAIN w : i + a \in DOMAIN q /\ w[i] = q[i + a]
      BY <2>1, <3>1
    <3> QED
      BY <3>2
  <2> HIDE DEF w
  <2>3. NoOlder(w, s)
    BY <2>2 DEF NoOlder
  <2> QED
    BY <2>3 DEF w
<1>4. HistoryOk(Append(Newest(q, m), s))
  BY <1>2, <1>3, AppendOk
<1> QED
  BY <1>4 DEF Remembered, m

LEMMA RememberedFits ==
  ASSUME NEW q, HistoryOk(q), NEW s
  PROVE  Len(Remembered(q, s)) <= MaxHistory
<1> DEFINE m == MaxHistory - 1
           S == {q[n] : n \in DOMAIN q} \cup {s}
           w == Newest(q, m)
<1>1. m \in Nat /\ m + 1 = MaxHistory
  BY HistoryAssumption
<1>2. q \in Seq({q[n] : n \in DOMAIN q})
  BY DEF HistoryOk
<1>3. q \in Seq(S) /\ s \in S
  BY <1>2
<1> HIDE DEF m, S
<1>4. w \in Seq(S) /\ Len(w) = Len(q) - Skipped(q, m)
  BY <1>1, <1>3, NewestIs
<1>5. Len(w) <= m
  BY <1>1, <1>3, <1>4 DEF Skipped
<1> HIDE DEF w
<1>6. Len(Append(w, s)) <= MaxHistory
  BY <1>1, <1>3, <1>4, <1>5
<1> QED
  BY <1>6 DEF Remembered, m, w

\* What is shown after one more sample: some samples less at the front
Slides(V, W, s) ==
    \E d \in 0 .. Len(V) :
        /\ Len(V) \in Nat /\ Len(W) = Len(V) + 1 - d
        /\ \A n \in 1 .. Len(V) - d : W[n] = V[n + d]
        /\ W[Len(W)] = s

LEMMA WindowMoves ==
  ASSUME NEW q, HistoryOk(q), NEW s, NEW r \in Nat \ {0}
  PROVE  Slides(Newest(q, r), Newest(Remembered(q, s), r), s)
<1> DEFINE V == Newest(q, r)
           W == Newest(Remembered(q, s), r)
           S == {q[m] : m \in DOMAIN q} \cup {s}
           k == MaxHistory - 1
           m == Newest(q, k)
           h == Append(m, s)
           a == Skipped(q, r)
           b == Skipped(q, k)
           c == Skipped(h, r)
<1>1. q \in Seq({q[n] : n \in DOMAIN q})
  BY DEF HistoryOk
<1>2. q \in Seq(S) /\ s \in S /\ k \in Nat /\ Len(q) \in Nat
  BY <1>1, HistoryAssumption
<1> HIDE DEF S, k
<1>3. /\ a \in 0 .. Len(q) /\ V \in Seq(S) /\ Len(V) = Len(q) - a
      /\ \A i \in 1 .. Len(q) - a : V[i] = q[i + a]
  BY <1>2, NewestIs
<1>4. /\ b \in 0 .. Len(q) /\ m \in Seq(S) /\ Len(m) = Len(q) - b
      /\ \A i \in 1 .. Len(q) - b : m[i] = q[i + b]
  BY <1>2, NewestIs
<1> HIDE DEF m, V
<1>5. /\ h \in Seq(S) /\ Len(h) = Len(m) + 1 /\ h[Len(m) + 1] = s
      /\ \A i \in 1 .. Len(m) : h[i] = m[i]
  BY <1>2, <1>4
<1> HIDE DEF h
<1>6. W = Newest(h, r)
  BY DEF Remembered, h, m, k
<1> HIDE DEF W
<1>7. /\ c \in 0 .. Len(h) /\ W \in Seq(S) /\ Len(W) = Len(h) - c
      /\ \A i \in 1 .. Len(h) - c : W[i] = h[i + c]
  BY <1>5, <1>6, NewestIs
<1>8. /\ a = IF Len(q) > r THEN Len(q) - r ELSE 0
      /\ b = IF Len(q) > k THEN Len(q) - k ELSE 0
      /\ c = IF Len(h) > r THEN Len(h) - r ELSE 0
  BY DEF Skipped
<1> HIDE DEF a, b, c
<1> DEFINE d == b + c - a
<1>9. /\ Len(q) \in Nat /\ a \in Nat /\ b \in Nat /\ c \in Nat /\ a <= Len(q) /\ b <= Len(q)
      /\ Len(V) = Len(q) - a /\ Len(m) = Len(q) - b /\ Len(h) = Len(q) - b + 1
      /\ Len(W) = Len(q) - b + 1 - c /\ Len(W) \in Nat /\ c <= Len(h)
      /\ Len(V) \in Nat /\ Len(m) \in Nat /\ Len(h) \in Nat
  BY <1>2, <1>3, <1>4, <1>5, <1>7
<1>10. d \in 0 .. Len(V) /\ Len(W) = Len(V) + 1 - d /\ Len(W) >= 1
  <2>1. d \in 0 .. Len(q) - a /\ Len(h) - c >= 1
    <3>1. CASE Len(q) > k
      <4>1. b = Len(q) - k /\ Len(h) = k + 1
        BY <1>2, <1>8, <1>9, <3>1
      <4> QED
        BY <1>2, <1>8, <1>9, <3>1, <4>1
    <3>2. CASE ~(Len(q) > k)
      <4>1. b = 0 /\ Len(h) = Len(q) + 1
        BY <1>2, <1>8, <1>9, <3>2
      <4> QED
        BY <1>2, <1>8, <1>9, <3>2, <4>1
    <3> QED
      BY <3>1, <3>2
  <2> QED
    BY <1>9, <2>1
<1>11. ASSUME NEW n \in 1 .. Len(V) - d PROVE W[n] = V[n + d]
  <2>1. n \in Nat /\ n >= 1 /\ n <= Len(q) - b - c
    BY <1>9, <1>10
  <2>2. /\ n \in 1 .. Len(h) - c /\ n + c \in 1 .. Len(m) /\ n + c \in 1 .. Len(q) - b
        /\ n + d \in 1 .. Len(q) - a /\ n + d + a = n + c + b
    BY <1>9, <1>10, <2>1
  <2>3. W[n] = h[n + c] /\ h[n + c] = m[n + c] /\ m[n + c] = q[n + c + b]
    BY <1>4, <1>5, <1>7, <2>2
  <2>4. V[n + d] = q[n + d + a]
    BY <1>3, <2>2
  <2> QED
    BY <2>2, <2>3, <2>4
<1>12. W[Len(W)] = s
  <2>1. Len(W) \in 1 .. Len(h) - c /\ Len(W) + c = Len(m) + 1
    BY <1>9, <1>10
  <2> QED
    BY <1>5, <1>7, <2>1
<1> HIDE DEF d
<1> QED
  BY <1>9, <1>10, <1>11, <1>12 DEF Slides, V, W

\* A point of a chart, and the samples that it is made of
Members(s, step, k) ==
    {n \in DOMAIN s : Bucket(s[n].t, step) = k /\ Held(s)[n] # Unknown}
Point(s, step, k) ==
    [at |-> Min({(k + 1) * step, s[Len(s)].t}), count |-> Cardinality(Members(s, step, k)),
     sum |-> SumFunction(Restrict(Held(s), Members(s, step, k)))]

LEMMA CalmIs ==
  ASSUME NEW s
  PROVE  Calm(s) = {Point(s, Step(s), k) : k \in {Bucket(s[n].t, Step(s)) : n \in DOMAIN s}}
BY DEF Calm, Point, Members

\* The time of a point, and that of an earlier bucket
LEMMA PointTime ==
  ASSUME NEW s, NEW k \in Nat, NEW step \in Nat \ {0}, s[Len(s)].t \in Nat
  PROVE  /\ (k + 1) * step < s[Len(s)].t => Point(s, step, k).at = (k + 1) * step
         /\ Point(s, step, k).at < s[Len(s)].t => (k + 1) * step < s[Len(s)].t
<1> DEFINE e == (k + 1) * step
           l == s[Len(s)].t
<1>1. e \in Nat /\ l \in Nat
  OBVIOUS
<1>2. Point(s, step, k).at = Min({e, l})
  BY DEF Point
<1> HIDE DEF e, l
<1>3. {e, l} = {l, e}
  OBVIOUS
<1>4. e < l => Min({e, l}) = e
  BY <1>1, MinOfTwo
<1>5. ~(e < l) => Min({e, l}) = l
  BY <1>1, <1>3, MinOfTwo
<1> QED
  BY <1>1, <1>2, <1>4, <1>5 DEF e, l

LEMMA BeforePoint ==
  ASSUME NEW k \in Nat, NEW step \in Nat \ {0}
  PROVE  Bucket((k + 1) * step - 1, step) = k
<1> DEFINE t == (k + 1) * step - 1
<1>1. (k + 1) * step = k * step + step /\ k * step \in Nat
  OBVIOUS
<1>2. t \in Nat /\ k * step <= t /\ t < (k + 1) * step
  BY <1>1
<1> HIDE DEF t
<1>3. Bucket(t, step) = k
  BY <1>2, BucketOnly
<1> QED
  BY <1>3 DEF t

LEMMA LaterBucket ==
  ASSUME NEW k \in Nat, NEW step \in Nat \ {0}, NEW t \in Nat, (k + 1) * step < t
  PROVE  Bucket(t, step) # k
BY BucketBounds

\* A last sample changes no value held before it, and no bucket but its own
LEMMA HeldSame ==
  ASSUME NEW V, NEW W, NEW l \in Nat, DOMAIN V = 1 .. l, DOMAIN W = 1 .. l + 1,
         \A n \in 1 .. l : W[n] = V[n]
  PROVE  \A n \in 1 .. l : Held(W)[n] = Held(V)[n]
<1> SUFFICES ASSUME NEW n \in 1 .. l PROVE Held(W)[n] = Held(V)[n]
  OBVIOUS
<1> DEFINE A == {k \in 1 .. n : V[k].v # Unknown}
           B == {k \in 1 .. n : W[k].v # Unknown}
<1>1. A = B
  OBVIOUS
<1>2. /\ Held(V)[n] = IF A = {} THEN Unknown ELSE V[Max(A)].v
      /\ Held(W)[n] = IF B = {} THEN Unknown ELSE W[Max(B)].v
  BY DEF Held
<1>3. A # {} => Max(A) \in A
  <2>1. n \in Nat /\ A \in SUBSET (1 .. n)
    OBVIOUS
  <2> HIDE DEF A
  <2> QED
    BY <2>1, GreatestOf
<1>4. A # {} => Max(A) \in 1 .. l
  <2>1. A \subseteq 1 .. l
    OBVIOUS
  <2> HIDE DEF A
  <2> QED
    BY <1>3, <2>1
<1> HIDE DEF A, B
<1> QED
  BY <1>1, <1>2, <1>4

LEMMA PointSame ==
  ASSUME NEW V, NEW W, NEW l \in Nat, DOMAIN V = 1 .. l, DOMAIN W = 1 .. l + 1,
         \A n \in 1 .. l : W[n] = V[n],
         NEW step, NEW k, Bucket(W[l + 1].t, step) # k
  PROVE  /\ Members(W, step, k) = Members(V, step, k)
         /\ Restrict(Held(W), Members(W, step, k)) = Restrict(Held(V), Members(V, step, k))
<1>1. \A n \in 1 .. l : Held(W)[n] = Held(V)[n]
  BY HeldSame
<1>2. \A n \in DOMAIN W : n \in 1 .. l \/ n = l + 1
  OBVIOUS
<1>3. Members(W, step, k) = Members(V, step, k)
  BY <1>1, <1>2 DEF Members
<1>4. Members(V, step, k) \subseteq 1 .. l
  BY DEF Members
<1> QED
  BY <1>1, <1>3, <1>4 DEF Restrict

\* What BucketsStay says of two charts with buckets of one length
PointsStay(V, W) ==
    LET old == {p \in Calm(V) : p.at < Last(V).t}
        new == Calm(W)
    IN /\ Len(W) > Len(V) => old \subseteq new
       /\ \A p \in old : (\A q \in new : q.at # p.at) =>
              Bucket(p.at - 1, Step(V)) < Bucket(W[1].t, Step(V))

\* Each point before the last sample is of a bucket that ended before it. With
\* no sample gone, the bucket has the same samples; with its sample left, it
\* still has a point, at its end.
LEMMA BucketsKept ==
  ASSUME NEW V, HistoryOk(V), NEW W, HistoryOk(W), NEW d \in 0 .. Len(V),
         Len(V) > 1, Len(W) = Len(V) + 1 - d, Len(W) >= 1,
         \A n \in 1 .. Len(V) - d : W[n] = V[n + d],
         V[Len(V)].t <= W[Len(W)].t, \A n \in DOMAIN V : n <= d => V[n].t <= W[1].t,
         Step(V) = Step(W)
  PROVE  PointsStay(V, W)
<1> DEFINE step == Step(V)
           l == Len(V)
           last == V[l].t
           next == W[Len(W)].t
<1>1. step \in Nat \ {0} /\ Step(W) = step
  BY StepIsLength
<1>2. /\ l \in Nat /\ DOMAIN V = 1 .. l /\ \A n \in 1 .. l : V[n].t \in Nat
      /\ Len(W) \in Nat /\ DOMAIN W = 1 .. Len(W) /\ \A n \in 1 .. Len(W) : W[n].t \in Nat
      /\ last \in Nat /\ next \in Nat /\ last <= next /\ Last(V).t = last
  <2>1. /\ l \in Nat /\ DOMAIN V = 1 .. l /\ \A n \in 1 .. l : V[n].t \in Nat
        /\ l \in 1 .. l
    BY DEF HistoryOk
  <2>2. /\ Len(W) \in Nat /\ DOMAIN W = 1 .. Len(W) /\ \A n \in 1 .. Len(W) : W[n].t \in Nat
        /\ Len(W) \in 1 .. Len(W)
    BY DEF HistoryOk
  <2> QED
    BY <2>1, <2>2 DEF Last
<1> HIDE DEF step
<1>3. ASSUME NEW p \in Calm(V), p.at < last
      PROVE  \E k \in Nat, n \in 1 .. l :
                /\ p = Point(V, step, k) /\ Bucket(V[n].t, step) = k
                /\ (k + 1) * step < last /\ p.at = (k + 1) * step
                /\ (k + 1) * step < next /\ Point(W, step, k).at = p.at
  <2>1. PICK n \in 1 .. l : p = Point(V, step, Bucket(V[n].t, step))
    BY <1>2, CalmIs DEF step
  <2> DEFINE k == Bucket(V[n].t, step)
  <2>2. k \in Nat
    BY <1>1, <1>2, BucketBounds
  <2> HIDE DEF k
  <2>3. p = Point(V, step, k)
    BY <2>1 DEF k
  <2>4. (k + 1) * step < last /\ p.at = (k + 1) * step
    BY <1>1, <1>2, <1>3, <2>2, <2>3, PointTime
  <2>5. (k + 1) * step < next
    <3> DEFINE e == (k + 1) * step
    <3>1. e \in Nat /\ e < last
      BY <1>1, <2>2, <2>4
    <3> HIDE DEF e, last, next
    <3>2. e < next
      BY <1>2, <3>1
    <3> QED
      BY <3>2 DEF e
  <2>6. Point(W, step, k).at = (k + 1) * step
    BY <1>1, <1>2, <2>2, <2>5, PointTime
  <2> QED
    BY <2>2, <2>3, <2>4, <2>5, <2>6 DEF k
<1>4. \A n \in 1 .. Len(W) : Point(W, step, Bucket(W[n].t, step)) \in Calm(W)
  BY <1>1, <1>2, CalmIs
<1>5. ASSUME Len(W) > l, NEW p \in Calm(V), p.at < last
      PROVE  p \in Calm(W)
  <2>0. d = 0 /\ Len(W) = l + 1
    BY <1>2, <1>5
  <2>1. d = 0 /\ Len(W) = l + 1 /\ \A n \in 1 .. l : W[n] = V[n]
    <3>1. ASSUME NEW n \in 1 .. l PROVE W[n] = V[n]
      <4>1. n \in 1 .. Len(V) - d /\ n + d = n
        BY <1>2, <2>0
      <4> QED
        BY <4>1
    <3> QED
      BY <2>0, <3>1
  <2>2. PICK k \in Nat, n \in 1 .. l :
           /\ p = Point(V, step, k) /\ Bucket(V[n].t, step) = k
           /\ (k + 1) * step < next /\ Point(W, step, k).at = p.at
    BY <1>3, <1>5
  <2>3. Bucket(W[l + 1].t, step) # k
    BY <1>1, <1>2, <2>1, <2>2, LaterBucket
  <2>4. /\ Members(W, step, k) = Members(V, step, k)
        /\ Restrict(Held(W), Members(W, step, k)) = Restrict(Held(V), Members(V, step, k))
    <3>1. l \in Nat /\ DOMAIN V = 1 .. l /\ DOMAIN W = 1 .. l + 1
      BY <1>2, <2>1
    <3> HIDE DEF l
    <3> QED
      BY <2>1, <2>3, <3>1, PointSame
  <2>5. Point(W, step, k) = p
    BY <2>2, <2>4 DEF Point
  <2>6. n \in 1 .. Len(W) /\ W[n] = V[n]
    BY <1>2, <2>1
  <2> QED
    BY <1>4, <2>2, <2>5, <2>6
<1>6. ASSUME NEW p \in Calm(V), p.at < last, \A q \in Calm(W) : q.at # p.at,
             ~(Bucket(p.at - 1, step) < Bucket(W[1].t, step))
      PROVE  FALSE
  <2>1. PICK k \in Nat, n \in 1 .. l :
           /\ p = Point(V, step, k) /\ Bucket(V[n].t, step) = k
           /\ p.at = (k + 1) * step /\ Point(W, step, k).at = p.at
    BY <1>3, <1>6
  <2>2. Bucket(p.at - 1, step) = k
    BY <1>1, <2>1, BeforePoint
  <2>3. \A m \in 1 .. Len(W) : Bucket(W[m].t, step) # k
    BY <1>4, <1>6, <2>1
  <2>4. W[1].t \in Nat /\ V[n].t \in Nat /\ 1 \in 1 .. Len(W)
    BY <1>2
  <2>5. Bucket(W[1].t, step) \in Nat
    BY <1>1, <2>4, BucketBounds
  <2>6. CASE n > d
    <3>1. n - d \in 1 .. Len(W) /\ n - d \in 1 .. l - d /\ (n - d) + d = n
      BY <1>2, <2>6
    <3>2. W[n - d] = V[n]
      BY <3>1
    <3> QED
      BY <2>1, <2>3, <3>1, <3>2
  <2>7. CASE ~(n > d)
    <3>1. V[n].t <= W[1].t
      <4>1. n <= d /\ n \in DOMAIN V
        BY <1>2, <2>7
      <4> QED
        BY <4>1
    <3>2. k <= Bucket(W[1].t, step)
      BY <1>1, <2>1, <2>4, <3>1, BucketGrows
    <3> QED
      BY <1>6, <2>2, <2>3, <2>4, <2>5, <3>2
  <2> QED
    BY <2>6, <2>7
<1> QED
  BY <1>2, <1>5, <1>6 DEF step, PointsStay

\* One more sample, and the range stays: the chart
LEMMA ChartMoves ==
  ASSUME NEW q, HistoryOk(q), NEW s, NoOlder(q, s), NEW r \in Nat \ {0},
         Len(Newest(q, r)) > 1, Step(Newest(q, r)) = Step(Newest(Remembered(q, s), r))
  PROVE  PointsStay(Newest(q, r), Newest(Remembered(q, s), r))
<1> DEFINE V == Newest(q, r)
           W == Newest(Remembered(q, s), r)
<1>1. HistoryOk(V)
  BY NewestOk
<1>2. HistoryOk(W)
  BY RememberedOk, NewestOk
<1>3. Slides(V, W, s)
  BY WindowMoves
<1>4. Len(V) > 1 /\ Step(V) = Step(W)
  OBVIOUS
<1>5. \A n \in 1 .. Len(V) : V[n].t <= s.t
  <2> DEFINE S == {q[m] : m \in DOMAIN q}
             a == Skipped(q, r)
  <2>1. q \in Seq(S)
    BY DEF HistoryOk
  <2> HIDE DEF S
  <2>2. /\ a \in 0 .. Len(q) /\ Len(V) = Len(q) - a
        /\ \A i \in 1 .. Len(q) - a : V[i] = q[i + a]
    BY <2>1, NewestIs
  <2> HIDE DEF a
  <2>3. \A i \in 1 .. Len(V) : i + a \in DOMAIN q /\ V[i] = q[i + a]
    BY <2>1, <2>2
  <2> QED
    BY <2>3 DEF NoOlder
<1> HIDE DEF V, W
<1>6. PICK d \in 0 .. Len(V) :
            /\ Len(V) \in Nat /\ Len(W) = Len(V) + 1 - d
            /\ \A n \in 1 .. Len(V) - d : W[n] = V[n + d]
            /\ W[Len(W)] = s
  BY <1>3 DEF Slides
<1>7. DOMAIN V = 1 .. Len(V) /\ Len(V) \in Nat /\ Len(W) >= 1
  BY <1>1, <1>6 DEF HistoryOk
<1>8. V[Len(V)].t <= W[Len(W)].t
  BY <1>6, <1>4, <1>7, <1>5
<1>9. ASSUME NEW n \in DOMAIN V, n <= d PROVE V[n].t <= W[1].t
  <2>1. CASE d = Len(V)
    BY <1>6, <1>7, <1>5, <2>1
  <2>2. CASE d # Len(V)
    <3>0. n \in Nat /\ d \in Nat /\ d < Len(V)
      BY <1>6, <1>7, <2>2
    <3>1. 1 \in 1 .. Len(V) - d /\ 1 + d \in DOMAIN V /\ n <= 1 + d
      BY <1>7, <1>9, <3>0
    <3>2. W[1] = V[1 + d]
      BY <1>6, <3>1
    <3> QED
      BY <1>1, <3>1, <3>2 DEF HistoryOk
  <2> QED
    BY <2>1, <2>2
<1> QED
  BY <1>1, <1>2, <1>6, <1>4, <1>7, <1>8, <1>9, BucketsKept DEF V, W
=============================================================================
