------------------------------ MODULE Overview ------------------------------
(***************************************************************************)
(* The Overview page (pages/Overview.tsx) and what its charts make of a    *)
(* history (charts.tsx, calm): samples of the server's metrics, polled     *)
(* every two seconds while the tab is visible, cut to a range and averaged *)
(* into buckets of the clock. The index page keeps a history of the same   *)
(* kind. A sample is a time and one value, which may be missing.           *)
(***************************************************************************)
EXTENDS Shell, FiniteSetsExt

CONSTANTS
    MaxHistory,     \* samples kept (450 in the code)
    Ranges,         \* samples shown (30, 150 and 450)
    Values,         \* values of a sample
    Gaps,           \* times between two samples; a hidden tab has longer ones
    MaxTime,        \* bound: the time of the last sample
    BucketSteps,    \* lengths of a bucket, in ascending order (BUCKETS_MS)
    Target          \* buckets wanted

ASSUME HistoryAssumption == MaxHistory \in Nat \ {0}
ASSUME RangesAssumption == Ranges \subseteq Nat \ {0} /\ Ranges # {}
ASSUME GapsAssumption == Gaps \subseteq Nat
ASSUME StepsAssumption == BucketSteps \in Seq(Nat \ {0}) /\ BucketSteps # <<>>

Unknown == -1       \* null: no such request in the last minute

Sample(t, v) == [t |-> t, v |-> v]

OverviewMount(route) ==
    [page |-> "home", route |-> route, stats |-> NoData, history |-> <<>>,
     range |-> CHOOSE r \in Ranges : TRUE, feed |-> NoData]

OverviewView ==
    [page : {"home"}, route : {OverviewRoute},
     stats : [data : Values \cup {None}, error : {None, "error"}],
     history : UNION {[1 .. n -> [t : 0 .. MaxTime, v : Values]] : n \in 0 .. MaxHistory},
     range : Ranges,
     feed : [data : {None, "events", "none"}, error : {None, "error"}]]

---------------------------------------------------------------------------
(* Slices and charts *)

Newest(seq, n) == SubSeq(seq, IF Len(seq) > n THEN Len(seq) - n + 1 ELSE 1, Len(seq))

RememberedOneMore(history, sample) ==                \* mutant of Remembered
    Append(Newest(history, MaxHistory), sample)
Remembered(history, sample) == Append(Newest(history, MaxHistory - 1), sample)

Visible == Newest(view.history, view.range)

\* hold: the last known value is carried across gaps
Held(samples) ==
    LET known(n) == {k \in 1 .. n : samples[k].v # Unknown} IN
    [n \in DOMAIN samples |->
        IF known(n) = {} THEN Unknown ELSE samples[Max(known(n))].v]

\* The shortest bucket that is long enough for the span to fit the target
Step(samples) ==
    LET span == samples[Len(samples)].t - samples[1].t
        fit == {n \in DOMAIN BucketSteps : span <= Target * BucketSteps[n]}
    IN IF fit = {} THEN BucketSteps[Len(BucketSteps)] ELSE BucketSteps[Min(fit)]

Bucket(t, step) == t \div step

CalmFromFirst(samples) ==                           \* mutant of Calm
    LET step == Step(samples)
        first == samples[1].t
        of(k) == {n \in DOMAIN samples : Bucket(samples[n].t - first, step) = k}
    IN {[at |-> Min({first + (k + 1) * step, samples[Len(samples)].t}),
         count |-> Cardinality(of(k)), sum |-> 0] :
        k \in {Bucket(samples[n].t - first, step) : n \in DOMAIN samples}}

\* calm: one point per bucket that has samples, at the end of the bucket but
\* not after the last sample, with the sum and the count of its known values
\* (the code shows their mean, eased)
Calm(samples) ==
    LET step == Step(samples)
        last == samples[Len(samples)].t
        keys == {Bucket(samples[n].t, step) : n \in DOMAIN samples}
        of(k) == {n \in DOMAIN samples : /\ Bucket(samples[n].t, step) = k
                                         /\ Held(samples)[n] # Unknown}
    IN {[at |-> Min({(k + 1) * step, last}), count |-> Cardinality(of(k)),
         sum |-> SumFunction(Restrict(Held(samples), of(k)))] : k \in keys}

---------------------------------------------------------------------------
OnOverview == view.page = "home"

\* Until the first answer there is a skeleton; "New index" is for admins
OverviewControls ==
    IF view.stats.data = None THEN {}
    ELSE {"range"} \cup (IF Can("admin") THEN {"new"} ELSE {})

PollOverview ==
    /\ OnOverview
    /\ Ticks("live") \/ Polls("events", view.feed)
    /\ UNCHANGED <<app, view, server>>

ServeLive == \E i \in Pending("live") : \E v \in Values :
    /\ Answer(i, v)
    /\ UNCHANGED <<app, view, server>>

\* GET /events, for admins; the page shows others an empty feed
ServeEvents == \E i \in Pending("events") :
    /\ Answer(i, IF Can("admin") THEN "events" ELSE "none")
    /\ UNCHANGED <<app, view, server>>

\* Every new stats object becomes a sample of this moment
LiveLoaded == \E i \in Arrived("live") :
    /\ IF calls[i].live /\ Ok(i)
       THEN LET now == IF view.history = <<>> THEN 0 ELSE Last(view.history).t IN
            \E d \in Gaps :
               /\ now + d <= MaxTime
               /\ view' = [view EXCEPT !.stats = Polled(@, i),
                             !.history = Remembered(@, Sample(now + d, calls[i].reply))]
       ELSE view' = IF calls[i].live THEN [view EXCEPT !.stats = Polled(@, i)] ELSE view
    /\ calls' = Without(i)
    /\ UNCHANGED <<app, server>>

FeedLoaded == \E i \in Arrived("events") :
    /\ view' = IF ~calls[i].live THEN view
               ELSE IF OnOverview THEN [view EXCEPT !.feed = Polled(@, i)]
               ELSE [view EXCEPT !.events = Polled(@, i)]
    /\ calls' = Without(i)
    /\ UNCHANGED <<app, server>>

ChooseRange ==
    /\ OnOverview /\ "range" \in OverviewControls
    /\ \E r \in Ranges \ {view.range} : view' = [view EXCEPT !.range = r]
    /\ UNCHANGED <<app, calls, server>>

NewIndex ==
    /\ OnOverview /\ "new" \in OverviewControls
    /\ go(IndexesRoute(TRUE))
    /\ UNCHANGED <<me, shell, catalog, view, calls, server>>

OverviewNext ==
    \/ PollOverview \/ ServeLive \/ ServeEvents \/ LiveLoaded \/ FeedLoaded
    \/ ChooseRange \/ NewIndex

---------------------------------------------------------------------------
\* "Aligned to the clock, so they don't shift as new samples arrive"
\* (charts.tsx:70): while the length of a bucket stays the same, a new sample
\* leaves every point of the chart but the last where it was, until the first
\* sample of its bucket or a value held from before slides out of the range;
\* what is left of such a bucket stays at the same time.
BucketsStay ==
    [][/\ OnOverview /\ OnOverview' /\ view.range = view'.range
       /\ view.history # view'.history /\ Len(Visible) > 1
       /\ Step(Visible) = Step(Visible')
       => LET old == {p \in Calm(Visible) : p.at < Last(Visible).t}
              new == Calm(Visible')
          IN /\ Len(Visible') > Len(Visible) => old \subseteq new
             /\ \A p \in old : (\A q \in new : q.at # p.at) =>
                    Bucket(p.at - 1, Step(Visible)) < Bucket(Visible'[1].t, Step(Visible))]_view
=============================================================================
