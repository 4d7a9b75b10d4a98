---------------------------- MODULE UpsertPanel ----------------------------
(***************************************************************************)
(* The Upsert panel of an index (pages/UpsertPanel.tsx) and the sample     *)
(* data of the Get started page (IndexPage.tsx): both write their records  *)
(* in batches, one call after the other, and refresh the page at the end.  *)
(* The text stands for the number of records parseRecords finds in it; 0   *)
(* is an empty or a bad text. Records are numbered in the order given.     *)
(***************************************************************************)
EXTENDS Client

CONSTANTS
    MaxRecords,     \* bound: records in the text
    Samples,        \* sample records (240 or 40 in the code)
    Batch           \* records per call (1000 or 200; 120 or 40 for samples)

ASSUME BatchAssumption ==
    MaxRecords \in Nat /\ Samples \in Nat \ {0} /\ Batch \in Nat \ {0}

UpsertMount == [records |-> 0, ns |-> DefaultSpace, busy |-> FALSE]
SeedMount == [busy |-> FALSE, done |-> 0]

UpsertState == [records : 0 .. MaxRecords, ns : Namespaces, busy : BOOLEAN]
SeedState == [busy : BOOLEAN, done : 0 .. Samples]

---------------------------------------------------------------------------
\* One call of the loop: records from .. from + Batch - 1 of n, for the panel
\* or the page that awaits it
UpsertCall(by, ns, from, n) ==
    Call("upsert", [by |-> by, ns |-> ns, from |-> from, n |-> n])

LastOfUncapped(arg) == arg.from + Batch - 1       \* mutant of LastOf
LastOf(arg) == IF arg.from + Batch - 1 < arg.n THEN arg.from + Batch - 1 ELSE arg.n

NextBatchHere(arg) ==                               \* mutant of NextBatch
    UpsertCall(arg.by, view.upsert.ns, LastOf(arg) + 1, arg.n)
NextBatch(arg) == UpsertCall(arg.by, arg.ns, LastOf(arg) + 1, arg.n)

UpsertControls ==
    {"form", "example"} \cup
    (IF view.upsert.busy \/ view.upsert.records = 0 THEN {} ELSE {"upsert"})

Upserting == OnTab("upsert") /\ Can("write")

EditRecords ==
    /\ UpsertControls \cap {"form", "example"} # {}
    /\ \/ \E n \in 0 .. MaxRecords : view' = [view EXCEPT !.upsert.records = n]
       \/ \E ns \in Namespaces : view' = [view EXCEPT !.upsert.ns = ns]
    /\ UNCHANGED <<app, calls, server>>

SubmitRecords ==
    /\ "upsert" \in UpsertControls /\ Free
    /\ view' = [view EXCEPT !.upsert.busy = TRUE]
    /\ calls' = Append(calls, UpsertCall("upsert", view.upsert.ns, 1, view.upsert.records))
    /\ UNCHANGED <<app, server>>

UpsertClicks == Upserting /\ (EditRecords \/ SubmitRecords)

\* The overview is the Get started page while the polls say it is empty
GetStarted == view.page = "index" /\ view.info.data # None /\ view.info.data.count = 0

Seed ==
    /\ GetStarted /\ OnTab("overview") /\ Can("write") /\ ~view.seed.busy /\ Free
    /\ view' = [view EXCEPT !.seed = [busy |-> TRUE, done |-> 0]]
    /\ calls' = Append(calls, UpsertCall("seed", DefaultSpace, 1, Samples))
    /\ UNCHANGED <<app, server>>

ServeUpsert == \E i \in Pending("upsert") :
    LET a == calls[i].arg IN
    /\ server' = [server EXCEPT !.written[a.ns] = @ \cup (a.from .. LastOf(a)),
                                !.records[a.ns] = @ \cup (a.from .. LastOf(a))]
    /\ Answer(i, None)
    /\ UNCHANGED <<app, view>>

\* The loop goes on, mounted or not; a failure ends it. After the last batch
\* the text of the panel is cleared, whatever it is by now.
BatchWritten == \E i \in Arrived("upsert") :
    LET a == calls[i].arg
        more == Ok(i) /\ LastOf(a) < a.n
        ends == Ok(i) /\ ~more
    IN /\ calls' = IF more THEN Append(Without(i), [NextBatch(a) EXCEPT !.live = calls[i].live])
                   ELSE IF ends THEN Without(i) \o Refresh(calls[i].live)
                   ELSE Without(i)
       /\ view' = IF ~calls[i].live THEN view
                  ELSE IF a.by = "upsert"
                  THEN [view EXCEPT !.upsert.busy = more,
                                    !.upsert.records = IF ends THEN 0 ELSE @]
                  ELSE [view EXCEPT !.seed.busy = more,
                                    !.seed.done = IF Ok(i) THEN LastOf(a) ELSE @]
       /\ UNCHANGED <<app, server>>

UpsertNext == UpsertClicks \/ Seed \/ ServeUpsert \/ BatchWritten

---------------------------------------------------------------------------
\* Every batch goes where the first one went, and none is skipped: when a
\* batch is on its way all records before it are in the namespace of the
\* click, though the text and the namespace field may have changed since and
\* the page may be gone (pages/UpsertPanel.tsx, submit; IndexPage.tsx, seed).
BatchesComplete ==
    \A i \in DOMAIN calls : calls[i].op = "upsert" =>
        1 .. calls[i].arg.from - 1 \subseteq server.written[calls[i].arg.ns]
=============================================================================
