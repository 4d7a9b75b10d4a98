---------------------------- MODULE IndexProofs ----------------------------
(***************************************************************************)
(* Index, numbers and snapshots: numbers only grow while something depends  *)
(* on them, and what a snapshot covers it holds.  With the parts of         *)
(* IndexTypeProofs and IndexMemoryProofs this makes Inv an invariant, under *)
(* which the steps of an index are those of the abstract Store.             *)
(***************************************************************************)
EXTENDS IndexMemoryProofs

-----------------------------------------------------------------------------
(* Sequence numbers.                                                        *)
LEMMA OneWriter ==
  ASSUME Base, NEW t \in Client, pc[t] = "commit"
  PROVE  /\ holder = t /\ Writing /\ seq > 0 /\ up = "up"
         /\ \A u \in Client : pc[u] = "commit" => u = t
BY ThreadFacts, BusyUp DEF Base, Places, Holders, Numbered, Writing

LEMMA CommittedType == Base => Committed \in Nat /\ Committed <= seq
<1> SUFFICES ASSUME Base PROVE Committed \in Nat /\ Committed <= seq
  OBVIOUS
<1>1. seq \in Nat /\ (Writing => seq > 0)
  BY OneWriter DEF Base, TypeOK, Writing
<1> QED
  BY <1>1 DEF Committed

LEMMA CommittedTypeNext == (Base => Committed \in Nat /\ Committed <= seq)'
BY CommittedType, PTL

LEMMA NoWriter ==
  ASSUME Base, holder = Nobody \/ ~Writing \/ \E t \in Thread : holder = t /\ pc[t] # "commit"
  PROVE  ~Writing /\ Committed = seq
BY ThreadFacts, OneWriter DEF Committed, Writing

(* The step of a thread that holds the storage lock keeps the counter.      *)
LEMMA HeldCounter ==
  ASSUME Base, [Next]_vars, NEW t \in Thread, holder = t, pc'[t] = pc[t]
  PROVE  seq' = seq /\ savedSeq' = savedSeq
<1> USE ThreadFacts
<1> pc \in [Thread -> ClientPlace \cup SnapshotPlace]
  BY DEF Base, TypeOK
<1>1. pc[t] \in {"commit", "drop_rows", "purge"} /\ up = "up"
  BY BusyUp DEF Base, Places, Holders
<1>2. \A u \in Thread : ~SaveSeq(u) /\ ~NextSeq(u)
  BY DEF SaveSeq, NextSeq
<1>3. ASSUME NEW u \in Client, StorageFails(u) PROVE FALSE
  BY <1>3 DEF StorageFails, UpsertFails, OtherWriteFails, Leave, GoTo
<1>4. ~Crash /\ ~Open
  BY <1>1 DEF Crash, Open
<1>5. seq' = seq
  BY <1>2, <1>3, <1>4, CounterFrame DEF Begin
<1>6. ASSUME NEW u \in Client, CommitWrite(u) \/ DropRows(u) PROVE savedSeq' = savedSeq
  BY <1>6 DEF CommitWrite, DropRows, Commit
<1>7. SnapshotPurge => savedSeq' = savedSeq
  BY DEF SnapshotPurge, Commit
<1>8. SnapshotDone => savedSeq' = savedSeq
  BY <1>2 DEF SnapshotDone, storageVars
<1>9. \A u \in Client : ~DropSaveSeq(u)
  BY <1>2 DEF DropSaveSeq
<1> QED
  BY <1>5, <1>6, <1>7, <1>8, <1>9, TableFrame

(* Writing begins and ends with the commit.                                 *)
LEMMA WritingFrame ==
  ASSUME Base, Base', [Next]_vars
  PROVE  \/ Writing' = Writing
         \/ \E t \in Client : \/ Begin(t) /\ ~Writing /\ Writing'
                              \/ (CommitWrite(t) \/ StorageFails(t)) /\ Writing /\ ~Writing'
         \/ Crash
<1> USE ThreadFacts DEF Writing
<1>1. ASSUME NEW t \in Client, Begin(t) PROVE ~Writing /\ Writing'
  <2>1. ~Writing
    BY <1>1, NoWriter DEF Begin, NextSeq
  <2>2. pc'[t] = "commit"
    BY <1>1 DEF Begin, GoTo, Base, TypeOK
  <2> QED
    BY <2>1, <2>2
<1>2. ASSUME NEW t \in Client, CommitWrite(t) \/ StorageFails(t) PROVE Writing /\ ~Writing'
  <2>1. pc[t] = "commit" /\ holder' = Nobody
    BY <1>2 DEF CommitWrite, StorageFails, Commit, UpsertFails, OtherWriteFails
  <2>2. \A u \in Client : pc'[u] # "commit"
    BY <2>1 DEF Base, Places, Holders
  <2> QED
    BY <2>1, <2>2
<1>3. CASE ~Crash /\ \A t \in Client : ~Begin(t) /\ ~CommitWrite(t) /\ ~StorageFails(t)
  BY <1>3, PlaceFrame
<1> QED
  BY <1>1, <1>2, <1>3

LEMMA SnapFrame ==
  ASSUME [Next]_vars
  PROVE  \/ UNCHANGED snap
         \/ \E t \in Client : RemoveSnapshot(t)
         \/ SnapshotSave \/ SnapshotPublish
BY DEF Next, ClientStep, SnapshotStep, Rest, vars, snapVars, Call, AcquireWrite, Begin,
       CommitWrite, StorageFails, Apply, DropSaveSeq, DropRows, PopNamespace,
       SnapshotStart, SnapshotNext, SnapshotFails, SnapshotDone, SnapshotPurge, Crash, Open
(* With several namespaces and no crash, no failed write gives its number   *)
(* back; with crashes, the one namespace is locked while a write fails.     *)
LEMMA FailedWrite ==
  ASSUME Inv, Environment, NEW t \in Client, StorageFails(t)
  PROVE  /\ pc[t] = "commit" /\ job[t].ns \in Ns
         /\ job[t].op \in {"upsert", "update", "set_metadata", "delete"}
         /\ seq' \in Nat /\ seq' \in {seq, Committed}
         /\ CrashesOfOneNamespace => seq' = Committed
         /\ \A ns \in Ns : snap[ns].seq <= seq'
         /\ seq' # seq => /\ pc[Snapshotter] \notin {"save", "publish"}
<1>1. pc[t] = "commit" /\ job[t].op \in FailingOps
  BY DEF StorageFails
<1>2. /\ job[t].ns \in Ns /\ job[t].op \in {"upsert", "update", "set_metadata", "delete"}
      /\ seq > 0 /\ seq \in Nat /\ Committed = seq - 1
      /\ \A ns \in Ns : snap[ns].seq <= seq /\ snap[ns].seq \in Nat
  <2>1. job[t].op \in {"upsert", "update", "set_metadata", "delete"}
    BY <1>1, ChangesFacts DEF Inv, Base, Places
  <2>2. seq > 0 /\ Writing /\ up = "up"
    BY <1>1, OneWriter DEF Inv
  <2>3. job[t].ns \in Ns /\ seq \in Nat
    BY <1>1, BusyFacts DEF Inv, Base, Places, TypeOK
  <2> QED
    BY <2>1, <2>2, <2>3 DEF Committed, Inv, Numbers, Counted, Base, TypeOK
<1>3. CASE job[t].op \in {"upsert", "update"}
  <2>1. seq' = seq - 1
    BY <1>3 DEF StorageFails, UpsertFails
  <2>2. SameNs
    BY <1>1, <1>3 DEF Environment, NoCrashes, CrashesOfOneNamespace
  <2>3. \A ns \in Ns : snap[ns].seq < seq
    <3>1. snap[job[t].ns].seq < seq
      BY <1>1 DEF Inv, Numbers, Counted
    <3> QED
      BY <1>2, <2>2, <3>1 DEF SameNs
  <2>4. pc[Snapshotter] \notin {"save", "publish"}
    <3>1. ASSUME pc[Snapshotter] \in {"save", "publish"} PROVE FALSE
      <4>1. Head(todo).ns # job[t].ns
        BY <1>1, <3>1, InsideAlone DEF Inside, Inv
      <4>2. Head(todo).ns \in Ns
        BY <3>1, HeadFacts DEF Inv, Base, Places, SnapshotLock
      <4> QED
        BY <1>2, <2>2, <4>1, <4>2 DEF SameNs
    <3> QED
      BY <3>1
  <2>5. \A ns \in Ns : snap[ns].seq <= seq'
    BY <1>2, <2>1, <2>3
  <2> QED
    BY <1>1, <1>2, <2>1, <2>4, <2>5
<1>4. CASE job[t].op \notin {"upsert", "update"}
  <2>1. seq' = seq
    BY <1>4 DEF StorageFails, OtherWriteFails
  <2>2. ~CrashesOfOneNamespace
    BY <1>1, <1>2, <1>4 DEF CrashesOfOneNamespace
  <2> QED
    BY <1>1, <1>2, <2>1, <2>2
<1> QED
  BY <1>3, <1>4

(* Numbers in the tables are committed.                                     *)
LEMMA AtMostStep ==
  ASSUME Inv, Environment, Base', [Next]_vars, up' = "up"
  PROVE  AtMost(Committed)'
<1> USE ThreadFacts
<1> /\ Base /\ TypeOK /\ seq \in Nat /\ savedSeq \in Nat
    /\ \A ns \in Ns, i \in Id : rows[ns][i].seq \in Nat
    /\ Committed \in Nat /\ Committed <= seq
  <2>1. Base /\ TypeOK
    BY DEF Inv, Base
  <2> QED
    BY <2>1, CommittedType DEF TypeOK, Row
<1>1. CASE Open
  <2>1. seq' = HighestSeq /\ rows' = rows /\ savedSeq' = savedSeq
    BY <1>1 DEF Open, StorageOpen
  <2>2. AtMost(seq)'
    BY <2>1, HighestFacts DEF Base, AtMost, Marks, RowSeqs
  <2>3. Committed' = seq'
    <3>1. \A t \in Thread : pc'[t] = "idle"
      BY <1>1 DEF Open, clientVars, Base, Places, Down
    <3> QED
      BY <3>1 DEF Committed, Writing
  <2> QED
    BY <2>2, <2>3
<1> SUFFICES ASSUME up = "up", ~Open, ~Crash PROVE AtMost(Committed)'
  BY <1>1, UpFrame DEF Crash
<1>2. AtMost(Committed)
  BY DEF Inv, Numbers, Counted
<1>3. \A ns \in Ns, i \in Id : rows[ns][i].seq <= Committed
  BY <1>2 DEF AtMost, Marks, RowSeqs
<1>4. savedSeq <= Committed
  BY <1>2 DEF AtMost, Marks
<1>5. ASSUME Committed <= Committed', Committed' \in Nat, savedSeq' <= Committed',
             \A ns \in Ns, i \in Id : rows'[ns][i].seq <= Committed'
      PROVE  AtMost(Committed)'
  BY <1>5 DEF AtMost, Marks, RowSeqs
<1>6. ASSUME NEW t \in Client, Begin(t) PROVE AtMost(Committed)'
  <2>1. Committed = seq /\ seq' = seq + 1 /\ rows' = rows /\ savedSeq' = savedSeq
    BY <1>6, NoWriter DEF Begin, NextSeq
  <2>2. Committed' = seq' - 1
    BY <1>6 DEF Committed, Writing, Begin, GoTo, Base, TypeOK
  <2> QED
    BY <1>2, <2>1, <2>2 DEF AtMost, Marks, RowSeqs
<1>7. ASSUME NEW t \in Client, CommitWrite(t) PROVE AtMost(Committed)'
  <2>1. pc[t] = "commit" /\ seq' = seq /\ savedSeq' = savedSeq /\ holder' = Nobody
    BY <1>7 DEF CommitWrite, Commit
  <2>2. Committed' = seq
    <3>1. \A u \in Client : pc'[u] # "commit"
      BY <2>1 DEF Base, Places, Holders
    <3> QED
      BY <2>1, <3>1 DEF Committed, Writing
  <2>3. rows' = [ns \in Ns |-> [i \in Id |-> IF ns = job[t].ns /\ i \in DOMAIN Changes(t)
                                             THEN Written(t, i) ELSE rows[ns][i]]]
    BY <1>7, CommitFacts DEF Base, Places
  <2>4. \A i \in DOMAIN Changes(t) : Written(t, i).seq \in {seq, rows[job[t].ns][i].seq}
                                     /\ i \in Id /\ job[t].ns \in Ns
    BY <2>1, WrittenFacts, BusyFacts DEF Base, Places
  <2>5. \A ns \in Ns, i \in Id : rows'[ns][i].seq \in {seq, rows[ns][i].seq}
    BY <2>3, <2>4
  <2>6. \A ns \in Ns, i \in Id : rows'[ns][i].seq <= seq
    <3> SUFFICES ASSUME NEW ns \in Ns, NEW i \in Id PROVE rows'[ns][i].seq <= seq
      OBVIOUS
    <3>1. rows[ns][i].seq \in Nat /\ rows[ns][i].seq <= Committed
      BY <1>3
    <3>2. rows[ns][i].seq <= seq
      BY <3>1
    <3> QED
      BY <2>5, <3>2
  <2>7. savedSeq' <= seq
    BY <1>4, <2>1
  <2> QED
    BY <1>5, <2>2, <2>6, <2>7
<1>8. ASSUME NEW t \in Client, StorageFails(t) PROVE AtMost(Committed)'
  <2>1. rows' = rows /\ savedSeq' = savedSeq /\ holder' = Nobody
    BY <1>8 DEF StorageFails, UpsertFails, OtherWriteFails
  <2>2. Committed' = seq'
    <3>1. \A u \in Client : pc'[u] # "commit"
      BY <2>1 DEF Base, Places, Holders
    <3> QED
      BY <3>1 DEF Committed, Writing
  <2>3. seq' \in Nat /\ Committed <= seq'
    BY <1>8, FailedWrite
  <2>4. \A ns \in Ns, i \in Id : rows'[ns][i].seq <= seq'
    <3> SUFFICES ASSUME NEW ns \in Ns, NEW i \in Id PROVE rows'[ns][i].seq <= seq'
      OBVIOUS
    <3>1. rows[ns][i].seq \in Nat /\ rows[ns][i].seq <= Committed
      BY <1>3
    <3> QED
      BY <2>1, <2>3, <3>1
  <2> QED
    BY <1>4, <1>5, <2>1, <2>2, <2>3, <2>4
<1>9. CASE \A t \in Client : ~Begin(t) /\ ~CommitWrite(t) /\ ~StorageFails(t)
  <2>1. Committed' = Committed
    <3>1. seq' = seq
      BY <1>9, CounterFrame
    <3>2. Writing' = Writing
      BY <1>9, WritingFrame
    <3> QED
      BY <3>1, <3>2 DEF Committed
  <2>2. CASE UNCHANGED <<rows, savedSeq>>
    BY <1>2, <2>1, <2>2 DEF AtMost, Marks, RowSeqs
  <2>3. ASSUME NEW t \in Thread, SaveSeq(t) PROVE AtMost(Committed)'
    <3>1. Committed = seq /\ savedSeq' = seq /\ rows' = rows
      BY <2>3, NoWriter DEF SaveSeq
    <3> QED
      BY <1>3, <1>5, <2>1, <3>1
  <2>4. ASSUME savedSeq' = savedSeq, \A ns \in Ns, i \in Id : rows'[ns][i] \in {rows[ns][i], NoRow}
        PROVE  AtMost(Committed)'
    <3>1. \A ns \in Ns, i \in Id : rows'[ns][i].seq <= Committed
      BY <1>3, <2>4 DEF NoRow
    <3> QED
      BY <1>4, <1>5, <2>1, <2>4, <3>1
  <2>5. ASSUME NEW t \in Client, DropRows(t) PROVE AtMost(Committed)'
    BY <2>4, <2>5, DropFacts DEF DropRows, Commit
  <2>6. CASE SnapshotPurge
    BY <2>4, <2>6 DEF SnapshotPurge, Commit, Purged
  <2> QED
    BY <1>9, <2>2, <2>3, <2>5, <2>6, TableFrame DEF DropSaveSeq, SnapshotDone, storageVars
<1> QED
  BY <1>6, <1>7, <1>8, <1>9

(* No snapshot is tagged beyond the counter.                                *)
LEMMA SnapshotTagStep ==
  ASSUME Inv, Environment, [Next]_vars, up' = "up", NEW ns \in Ns
  PROVE  snap'[ns].seq <= seq'
<1> USE ThreadFacts
<1> /\ Base /\ seq \in Nat /\ snap[ns].seq \in Nat /\ target \in Nat
    /\ snap \in [Ns -> [seq : Nat, vals : [Id -> Val \cup {Null}], saved : BOOLEAN]]
  BY DEF Inv, Base, TypeOK
<1>1. CASE Open
  <2>1. CrashesOfOneNamespace
    BY <1>1 DEF Open, Inv, Running, Environment
  <2>2. PICK s \in Marks : snap[ns].seq <= s
    BY <2>1 DEF Inv, Numbers, Remembered, Recorded
  <2>3. s <= HighestSeq /\ HighestSeq \in Nat /\ s \in Nat
    BY HighestFacts DEF Base, AtMost, TypeOK, Row, Marks, RowSeqs
  <2>4. seq' = HighestSeq /\ snap' = snap
    BY <1>1 DEF Open, StorageOpen, snapVars
  <2>5. snap[ns].seq <= HighestSeq
    BY <2>2, <2>3
  <2> QED
    BY <2>4, <2>5
<1>2. up = "up" \/ Open
  BY UpFrame
<1>3. up = "up" => snap[ns].seq <= seq
  BY DEF Inv, Numbers, Counted
<1>4. ASSUME NEW t \in Client, Begin(t) PROVE snap'[ns].seq <= seq'
  <2>1. seq' = seq + 1 /\ snap' = snap /\ up = "up"
    BY <1>4, BusyUp DEF Begin, NextSeq, snapVars
  <2> QED
    BY <1>3, <2>1
<1>5. ASSUME NEW t \in Client, StorageFails(t) PROVE snap'[ns].seq <= seq'
  BY <1>5, FailedWrite DEF StorageFails, snapVars
<1>6. CASE up = "up" /\ seq' = seq
  <2>1. CASE UNCHANGED snap
    BY <1>3, <1>6, <2>1
  <2>2. ASSUME NEW t \in Client, RemoveSnapshot(t) PROVE snap'[ns].seq <= seq'
    <3>1. snap' = [snap EXCEPT ![job[t].ns] = NoSnap]
      BY <2>2 DEF RemoveSnapshot
    <3>2. snap'[ns] \in {snap[ns], NoSnap}
      BY <3>1
    <3> QED
      BY <1>3, <1>6, <3>2 DEF NoSnap
  <2>3. CASE SnapshotSave
    <3>1. snap'[ns] \in {snap[ns], NoSnap}
      BY <2>3 DEF SnapshotSave
    <3> QED
      BY <1>3, <1>6, <3>1 DEF NoSnap
  <2>4. CASE SnapshotPublish
    <3>1. snap'[ns].seq \in {snap[ns].seq, target}
      BY <2>4 DEF SnapshotPublish
    <3>2. target <= seq
      BY <2>4 DEF SnapshotPublish, Inv, Numbers, Counted
    <3> QED
      BY <1>3, <1>6, <3>1, <3>2
  <2> QED
    BY <2>1, <2>2, <2>3, <2>4, SnapFrame
<1>7. ~Crash
  BY DEF Crash
<1> QED
  BY <1>1, <1>2, <1>4, <1>5, <1>6, <1>7, CounterFrame

(* The number a snapshot is about to publish is not beyond the counter.     *)
LEMMA TargetStep ==
  ASSUME Inv, Environment, [Next]_vars, pc'[Snapshotter] = "publish"
  PROVE  target' <= seq'
<1> USE ThreadFacts
<1> /\ Base /\ seq \in Nat /\ target \in Nat
    /\ pc \in [Thread -> ClientPlace \cup SnapshotPlace]
  BY DEF Inv, Base, TypeOK
<1>1. CASE SnapshotSave
  BY <1>1 DEF SnapshotSave, storageVars
<1>2. CASE ~SnapshotSave
  <2>1. pc[Snapshotter] = "publish" /\ target' = target
    <3>1. ASSUME NEW t \in Client, ClientStep(t)
          PROVE  pc'[Snapshotter] = pc[Snapshotter] /\ target' = target
      BY <3>1
      DEF ClientStep, GoTo, Leave, Call, AcquireWrite, Begin, CommitWrite, StorageFails, Apply,
          DropSaveSeq, DropRows, PopNamespace, RemoveSnapshot, snapVars
    <3>2. SnapshotStep => pc[Snapshotter] = "publish" /\ target' = target
      BY <1>2 DEF SnapshotStep, SnapshotStart, SnapshotNext, SnapshotPublish, GoTo,
                  SnapshotFails, SnapshotDone, SnapshotPurge, snapVars
    <3>3. ~Crash
      BY DEF Crash
    <3>4. Open \/ Rest \/ UNCHANGED vars => pc' = pc /\ target' = target
      BY DEF Open, Rest, vars, clientVars, snapVars
    <3> QED
      BY <3>1, <3>2, <3>3, <3>4 DEF Next
  <2>2. target <= seq
    BY <2>1 DEF Inv, Numbers, Counted
  <2>3. ASSUME NEW t \in Client, Begin(t) PROVE target' <= seq'
    <3>1. seq' = seq + 1
      BY <2>3 DEF Begin, NextSeq
    <3> QED
      BY <2>1, <2>2, <3>1
  <2>4. ASSUME NEW t \in Client, StorageFails(t) PROVE target' <= seq'
    <3>1. seq' = seq
      BY <2>1, <2>4, FailedWrite
    <3> QED
      BY <2>1, <2>2, <3>1
  <2>5. ~Crash /\ ~Open
    BY <2>1, BusyUp DEF Crash, Open
  <2> QED
    BY <2>1, <2>2, <2>3, <2>4, <2>5, CounterFrame
<1> QED
  BY <1>1, <1>2

(* A number in flight is above the tag of its own namespace: saving and     *)
(* writing exclude each other by the object's lock.                         *)
LEMMA InFlightStep ==
  ASSUME Inv, Base', [Next]_vars, NEW t \in Client, pc'[t] = "commit"
  PROVE  snap'[job'[t].ns].seq < seq'
<1> USE ThreadFacts
<1> /\ Base /\ Objects /\ seq \in Nat /\ pc[t] # "idle" /\ up = "up"
  <2>1. pc[t] # "idle"
    BY PlaceFrame DEF Begin, Inv
  <2> QED
    BY <2>1, BusyUp DEF Inv, Base, TypeOK
<1> DEFINE ns == job[t].ns
<1>1. ns \in Ns /\ job'[t] = job[t] /\ snap[ns].seq \in Nat
      /\ snap \in [Ns -> [seq : Nat, vals : [Id -> Val \cup {Null}], saved : BOOLEAN]]
  BY JobKept, BusyFacts DEF Base, Places, TypeOK
<1>2. CASE Begin(t)
  <2>1. seq' = seq + 1 /\ snap' = snap
    BY <1>2 DEF Begin, NextSeq, snapVars
  <2>2. snap[ns].seq <= seq
    BY <1>1 DEF Inv, Numbers, Counted
  <2>3. snap[ns].seq < seq + 1
    BY <1>1, <2>2
  <2> QED
    BY <1>1, <2>1, <2>3
<1>3. CASE pc[t] = "commit"
  <2>1. snap[ns].seq < seq /\ seq > 0
    BY <1>3, OneWriter DEF Inv, Numbers, Counted
  <2>2. seq' = seq
    BY <1>3, OneWriter, HeldCounter
  <2>3. snap'[ns] \in {snap[ns], NoSnap}
    <3>1. ASSUME NEW u \in Client, RemoveSnapshot(u) PROVE snap'[ns] \in {snap[ns], NoSnap}
      BY <1>1, <3>1 DEF RemoveSnapshot
    <3>2. SnapshotSave => snap'[ns] \in {snap[ns], NoSnap}
      BY <1>1 DEF SnapshotSave
    <3>3. SnapshotPublish => snap'[ns] = snap[ns]
      <4>1. SnapshotPublish => Head(todo).ns # ns
        BY <1>3, InsideAlone DEF SnapshotPublish, Inside
      <4> QED
        BY <1>1, <4>1 DEF SnapshotPublish
    <3> QED
      BY <3>1, <3>2, <3>3, SnapFrame
  <2> QED
    BY <1>1, <2>1, <2>2, <2>3 DEF NoSnap
<1> QED
  BY <1>2, <1>3, PlaceFrame

(* Numbers stay below the counter.                                          *)
LEMMA CountedStep == ASSUME Inv, Environment, Base', [Next]_vars PROVE Counted'
<1>1. pc'[Snapshotter] = "purge" => savedSeq' = seq'
  <2> SUFFICES ASSUME pc'[Snapshotter] = "purge" PROVE savedSeq' = seq'
    OBVIOUS
  <2>1. CASE SnapshotDone
    BY <2>1, ThreadFacts DEF SnapshotDone, GoTo, SaveSeq, Inv, Base, TypeOK
  <2>2. CASE ~SnapshotDone
    <3>1. pc[Snapshotter] = "purge"
      BY <2>2, ThreadFacts
      DEF Inv, Base, TypeOK, Next, ClientStep, SnapshotStep, Rest, vars, clientVars, GoTo, Leave,
          Call, AcquireWrite, Begin, CommitWrite, StorageFails, Apply, DropSaveSeq, DropRows,
          PopNamespace, RemoveSnapshot, SnapshotStart, SnapshotNext, SnapshotSave,
          SnapshotPublish, SnapshotFails, SnapshotPurge, Crash, Open
    <3>2. savedSeq = seq
      BY <3>1 DEF Inv, Numbers, Counted
    <3>3. holder = Snapshotter
      BY <3>1, ThreadFacts DEF Inv, Base, Places, Holders
    <3> QED
      BY <3>1, <3>2, <3>3, HeldCounter, ThreadFacts DEF Inv
  <2> QED
    BY <2>1, <2>2
<1> QED
  BY <1>1, AtMostStep, SnapshotTagStep, TargetStep, InFlightStep DEF Counted
(* A commit leaves a row with its number: what it changes was there.        *)
LEMMA CommitRecords ==
  ASSUME Inv, NEW t \in Client, CommitWrite(t)
  PROVE  Recorded(seq)'
<1> USE ThreadFacts
<1> Base
  BY DEF Inv
<1>1. /\ pc[t] = "commit" /\ seq' = seq /\ job[t].ns \in Ns /\ seq \in Nat
      /\ job[t].op \in {"upsert", "update", "set_metadata", "delete"}
  BY ChangesFacts, BusyFacts DEF CommitWrite, Commit, Base, Places, TypeOK
<1>2. PICK i : i \in DOMAIN Changes(t)
  BY <1>1, ChangesFacts DEF Base, Places
<1>3. i \in Id /\ i \in Ids(t)
  BY <1>1, <1>2, WrittenFacts, ChangesFacts DEF Base, Places
<1>4. mem[job[t].coll] = Live(rows[job[t].ns])
  BY <1>1, ChangedObject DEF Inv, Memory, InMemory
<1> DEFINE row == rows[job[t].ns][i]
<1>5. mem[job[t].coll][i] = LiveRow(row) /\ row \in Row
  BY <1>1, <1>3, <1>4 DEF Live, Base, TypeOK
<1>6. Written(t, i).seq = seq
  <2>1. CASE job[t].op \in {"upsert", "update"}
    BY <2>1 DEF Written
  <2>2. CASE job[t].op = "set_metadata"
    <3>1. mem[job[t].coll][i] \in Rec
      BY <1>1, <1>3, <2>2, ChangesFacts DEF Base, Places
    <3>2. row # NoRow
      BY <1>5, <3>1, NullIsNoVector DEF LiveRow, NoRow, Rec, Absent
    <3> QED
      BY <1>5, <2>2, <3>2 DEF Written, Row
  <2>3. CASE job[t].op = "delete"
    <3>1. i \in Present(mem[job[t].coll])
      BY <1>1, <1>2, <2>3, ChangesFacts DEF Base, Places
    <3>2. ~row.deleted
      BY <1>5, <3>1 DEF Present, LiveRow
    <3> QED
      BY <2>3, <3>2 DEF Written
  <2> QED
    BY <1>1, <2>1, <2>2, <2>3
<1>7. rows'[job[t].ns][i] = Written(t, i)
  BY <1>1, <1>2, <1>3, CommitFacts DEF Base, Places
<1> QED
  BY <1>1, <1>3, <1>6, <1>7 DEF Recorded, Marks, RowSeqs

(* Where the process may crash, the highest committed number can be read    *)
(* off the tables again.                                                    *)
LEMMA CommittedRecorded ==
  ASSUME Inv, Environment, CrashesOfOneNamespace, Base', [Next]_vars, up' = "up"
  PROVE  Recorded(Committed)'
<1> USE ThreadFacts
<1> Base /\ seq \in Nat
  BY DEF Inv, Base, TypeOK
<1>1. CASE Open
  <2>1. seq' = HighestSeq /\ HighestSeq \in Marks' /\ HighestSeq \in Nat
    BY <1>1, HighestFacts DEF Open, StorageOpen, Base, Marks, RowSeqs
  <2>2. Committed' = seq'
    <3>1. \A t \in Thread : pc'[t] = "idle"
      BY <1>1 DEF Open, clientVars, Base, Places, Down
    <3> QED
      BY <3>1 DEF Committed, Writing
  <2> QED
    BY <2>1, <2>2 DEF Recorded
<1> SUFFICES ASSUME up = "up", ~Open, ~Crash PROVE Recorded(Committed)'
  BY <1>1, UpFrame DEF Crash
<1>2. PICK s \in Marks : Committed <= s
  BY DEF Inv, Numbers, Remembered, Recorded
<1>3. ASSUME NEW t \in Client, Begin(t) PROVE Recorded(Committed)'
  <2>1. Committed = seq /\ seq' = seq + 1 /\ Marks' = Marks
    BY <1>3, NoWriter DEF Begin, NextSeq, Marks, RowSeqs
  <2>2. Committed' = seq' - 1
    BY <1>3 DEF Committed, Writing, Begin, GoTo, Base, TypeOK
  <2>3. Committed' = Committed
    BY <2>1, <2>2
  <2> QED
    BY <1>2, <2>1, <2>3 DEF Recorded
<1>4. ASSUME NEW t \in Client, CommitWrite(t) PROVE Recorded(Committed)'
  <2>1. Committed' = seq'
    BY <1>4, NoWriter DEF CommitWrite, Commit, Committed, Writing, Base, Places, Holders
  <2> QED
    BY <1>4, <2>1, CommitRecords DEF Recorded
<1>5. ASSUME NEW t \in Client, StorageFails(t) PROVE Recorded(Committed)'
  <2>1. seq' = Committed /\ Marks' = Marks /\ holder' = Nobody
    BY <1>5, FailedWrite
    DEF StorageFails, UpsertFails, OtherWriteFails, Marks, RowSeqs
  <2>2. Committed' = seq'
    BY <2>1 DEF Committed, Writing, Base, Places, Holders
  <2> QED
    BY <1>2, <2>1, <2>2 DEF Recorded
<1>6. CASE \A t \in Client : ~Begin(t) /\ ~CommitWrite(t) /\ ~StorageFails(t)
  <2>1. Committed' = Committed
    BY <1>6, CounterFrame, WritingFrame DEF Committed
  <2>2. CASE UNCHANGED <<rows, savedSeq>>
    BY <1>2, <2>1, <2>2 DEF Recorded, Marks, RowSeqs
  <2>3. ASSUME NEW t \in Thread, SaveSeq(t) PROVE Recorded(Committed)'
    <3>1. Committed = seq /\ savedSeq' = seq
      BY <2>3, NoWriter DEF SaveSeq
    <3> QED
      BY <2>1, <3>1 DEF Recorded, Marks
  <2>4. ASSUME NEW t \in Client, DropRows(t) PROVE FALSE
    <3>1. job[t].op = "delete_all"
      BY <2>4 DEF DropRows, Base, Places, Paths
    <3>2. \E r \in Request : r.op = job[t].op
      BY <2>4, BusyFacts DEF DropRows, Base, Places
    <3> QED
      BY <3>1, <3>2 DEF CrashesOfOneNamespace
  <2>5. CASE SnapshotPurge
    <3>1. savedSeq = seq /\ savedSeq' = savedSeq /\ pc[Snapshotter] = "purge"
      BY <2>5 DEF SnapshotPurge, Commit, Inv, Numbers, Counted
    <3>2. Committed <= seq
      BY CommittedType
    <3> QED
      BY <2>1, <3>1, <3>2 DEF Recorded, Marks
  <2> QED
    BY <1>6, <2>2, <2>3, <2>4, <2>5, TableFrame DEF DropSaveSeq, SnapshotDone, storageVars
<1> QED
  BY <1>3, <1>4, <1>5, <1>6

LEMMA DownFrame == ASSUME Base, [Next]_vars, up' # "up" PROVE UNCHANGED <<rows, savedSeq, snap>>
<1>1. ASSUME NEW t \in Client, ClientStep(t) PROVE FALSE
  <2>1. up' = up /\ (up = "up" \/ pc[t] # "idle")
    BY <1>1
    DEF ClientStep, Call, AcquireWrite, Begin, CommitWrite, StorageFails, Apply, runVars,
        DropSaveSeq, DropRows, PopNamespace, RemoveSnapshot
  <2> QED
    BY <2>1, BusyUp, ThreadFacts
<1>2. SnapshotStep => FALSE
  <2> SUFFICES ASSUME SnapshotStep PROVE FALSE
    OBVIOUS
  <2>1. up' = up /\ (up = "up" \/ pc[Snapshotter] # "idle")
    BY DEF SnapshotStep, SnapshotStart, SnapshotNext, SnapshotSave, SnapshotPublish,
           SnapshotFails, SnapshotDone, SnapshotPurge, runVars
  <2> QED
    BY <2>1, BusyUp, ThreadFacts
<1>3. Crash \/ Open \/ Rest \/ UNCHANGED vars => UNCHANGED <<rows, savedSeq, snap>>
  BY DEF Crash, StorageLost, Open, StorageOpen, Rest, vars, storageVars, snapVars
<1> QED
  BY <1>1, <1>2, <1>3 DEF Next

(* While the index is up, what counts is below what is committed; when it   *)
(* goes down or stays down, the tables and the snapshots stay.              *)
LEMMA RememberedStep == ASSUME Inv, Environment, Base', Counted', [Next]_vars PROVE Remembered'
<1> SUFFICES ASSUME CrashesOfOneNamespace, NEW ns \in Ns PROVE Recorded(snap[ns].seq)'
  BY CommittedRecorded DEF Remembered, CrashesOfOneNamespace
<1>1. CASE up' = "up"
  <2>1. PICK s \in Marks' : Committed' <= s
    BY <1>1, CommittedRecorded DEF Recorded
  <2>2. s \in Nat /\ Committed' \in Nat /\ seq' \in Nat /\ snap'[ns].seq \in Nat
    BY CommittedTypeNext DEF Base, TypeOK, Marks, RowSeqs, Row
  <2>3. snap'[ns].seq <= Committed'
    <3>1. CASE Writing'
      <4>1. PICK t \in Client : pc'[t] = "commit"
        BY <3>1 DEF Writing
      <4>2. job'[t] # NoJob /\ job'[t] \in Job \cup {NoJob}
        BY <4>1 DEF Base, Places, Jobs, TypeOK
      <4>3. job'[t].ns = ns
        BY <4>2 DEF Job, SameNs, CrashesOfOneNamespace
      <4> QED
        BY <2>2, <3>1, <4>1, <4>3 DEF Counted, Committed
    <3>2. CASE ~Writing'
      BY <1>1, <3>2 DEF Counted, Committed
    <3> QED
      BY <3>1, <3>2
  <2> QED
    BY <2>1, <2>2, <2>3 DEF Recorded
<1>2. CASE up' # "up"
  <2>1. UNCHANGED <<rows, savedSeq, snap>>
    BY <1>2, DownFrame DEF Inv
  <2> QED
    BY <2>1 DEF Inv, Numbers, Remembered, Recorded, Marks, RowSeqs
<1> QED
  BY <1>1, <1>2

(* Numbers is inductive relative to the whole of Inv.                       *)
LEMMA NumbersStep == ASSUME Inv, Environment, Base', [Next]_vars PROVE Numbers'
BY CountedStep, RememberedStep DEF Numbers
-----------------------------------------------------------------------------
(* Snapshots against rows.                                                  *)
LEMMA LowestFacts ==
  ASSUME NEW S \in SUBSET Nat, S # {}
  PROVE  Lowest(S) \in S /\ \A s \in S : Lowest(S) <= s
<1> DEFINE Less == {p \in Nat \X Nat : p[1] < p[2]}
<1>1. \E m \in S : \A n \in S : ~ (<<n, m>> \in Less)
  <2>1. IsWellFoundedOn(Less, Nat)
    BY NatLessThanWellFounded DEF OpToRel
  <2> HIDE DEF Less
  <2> QED
    BY <2>1, WFMin
<1>2. PICK m \in S : \A n \in S : ~ (<<n, m>> \in Less)
  BY <1>1
<1>3. \A n \in S : m <= n
  <2> SUFFICES ASSUME NEW n \in S PROVE m <= n
    OBVIOUS
  <2>1. m \in Nat /\ n \in Nat /\ ~ (<<n, m>> \in Less)
    BY <1>2
  <2>2. ~ (n < m)
    BY <2>1
  <2> QED
    BY <2>1, <2>2
<1> QED
  BY <1>2, <1>3 DEF Lowest

LEMMA CrashFacts ==
  ASSUME Inv, Environment, Crash
  PROVE  CrashesOfOneNamespace /\ \A ns : ~Dropping(ns)
<1>1. CrashesOfOneNamespace
  BY DEF Crash, Environment, NoCrashes, Inv, Base, TypeOK
<1>2. ASSUME NEW t \in Client, pc[t] \in {"pop", "rmtree"} PROVE FALSE
  <2>1. job[t].op = "delete_all"
    BY <1>2 DEF Inv, Base, Places, Paths
  <2>2. \E r \in Request : r.op = job[t].op
    BY <1>2, BusyFacts DEF Inv, Base, Places
  <2> QED
    BY <1>1, <2>1, <2>2 DEF CrashesOfOneNamespace
<1> QED
  BY <1>1, <1>2 DEF Dropping

LEMMA DroppingKept ==
  ASSUME Inv, Environment, [Next]_vars, NEW ns \in Ns, Dropping(ns)
  PROVE  Dropping(ns)' \/ ~snap'[ns].saved
<1>1. PICK t \in Client : pc[t] \in {"pop", "rmtree"} /\ job[t].ns = ns
  BY DEF Dropping
<1>2. ~Crash
  BY CrashFacts
<1>3. CASE pc'[t] \in {"pop", "rmtree"}
  <2>1. job'[t] = job[t]
    BY <1>1, <1>3, JobKept DEF Inv
  <2> QED
    BY <1>1, <1>3, <2>1 DEF Dropping
<1>4. CASE RemoveSnapshot(t)
  BY <1>1, <1>4 DEF RemoveSnapshot, NoSnap, Inv, Base, TypeOK
<1>5. CASE PopNamespace(t)
  BY <1>3, <1>5, ThreadFacts DEF PopNamespace, GoTo, Inv, Base, TypeOK
<1> QED
  BY <1>1, <1>2, <1>3, <1>4, <1>5, PlaceFrame DEF Inv

LEMMA RegisteredKept ==
  ASSUME Inv, [Next]_vars, ~Crash, ~Open, NEW ns \in Ns
  PROVE  Registered(ns) \subseteq Registered(ns)' \/ Dropping(ns)'
<1> TypeOK /\ OneEntry
  BY DEF Inv, Base, Objects
<1>1. CASE UNCHANGED collections
  BY <1>1 DEF Registered
<1>2. ASSUME NEW t \in Client, Call(t) PROVE Registered(ns) \subseteq Registered(ns)'
  <2>1. PICK r \in Request, c \in Coll :
          /\ c \in Registered(r.ns)' /\ \A n : n # r.ns => Registered(n)' = Registered(n)
          /\ Registered(r.ns)' = Registered(r.ns) \/ Registered(r.ns) = {}
    BY <1>2, CallRegistered
  <2> QED
    BY <2>1
<1>3. ASSUME NEW t \in Client, PopNamespace(t)
      PROVE  Registered(ns) \subseteq Registered(ns)' \/ Dropping(ns)'
  <2>1. Registered(ns)' = IF ns = job[t].ns THEN {} ELSE Registered(ns)
    BY <1>3, PopRegistered
  <2>2. pc'[t] = "rmtree" /\ job' = job
    BY <1>3, ThreadFacts DEF PopNamespace, GoTo, TypeOK
  <2> QED
    BY <2>1, <2>2 DEF Dropping
<1> QED
  BY <1>1, <1>2, <1>3, CollectionsFrame

(* What is written carries the new number.                                  *)
LEMMA WrittenSeq ==
  ASSUME Base, NEW t \in Client, pc[t] = "commit", NEW i \in DOMAIN Changes(t)
  PROVE  Written(t, i).seq = seq \/ Written(t, i) = rows[job[t].ns][i]
<1>1. /\ rows[job[t].ns][i] \in Row
      /\ job[t].op \in {"upsert", "update", "set_metadata", "delete"}
  <2>1. job[t].ns \in Ns /\ i \in Id
    BY BusyFacts, WrittenFacts DEF Base, Places
  <2>2. job[t].op \in {"upsert", "update", "set_metadata", "delete"}
    BY ChangesFacts DEF Base, Places
  <2> QED
    BY <2>1, <2>2 DEF Base, TypeOK
<1>2. CASE job[t].op \in {"upsert", "update"}
  BY <1>2 DEF Written
<1>3. CASE job[t].op = "set_metadata"
  BY <1>1, <1>3 DEF Written, Row
<1>4. CASE job[t].op = "delete"
  BY <1>4 DEF Written
<1> QED
  BY <1>1, <1>2, <1>3, <1>4

(* The snapshot thread saves the live rows.                                 *)
LEMMA SavedLive ==
  ASSUME Inv, pc[Snapshotter] \in {"save", "publish"}
  PROVE  /\ Head(todo).ns \in Ns /\ Head(todo).coll \in Registered(Head(todo).ns)
         /\ mem[Head(todo).coll] = Live(rows[Head(todo).ns])
<1>1. Head(todo).ns \in Ns /\ lock[Head(todo).coll] = Snapshotter
  BY HeadFacts DEF Inv, Base, Places, SnapshotLock
<1>2. Head(todo).coll \in Registered(Head(todo).ns)
  BY DEF Inv, Objects, StillRegistered
<1>3. \A t \in Client : Between(t) => job[t].coll # Head(todo).coll
  BY <1>1, ThreadFacts DEF Between, Inside, Inv, Base, Places, ClientLocks
<1>4. up = "up"
  BY BusyUp, ThreadFacts DEF Inv
<1> QED
  BY <1>1, <1>2, <1>3, <1>4 DEF Inv, Memory, InMemory

(* A purge takes no marker that a snapshot needs.                           *)
LEMMA PurgedCovered ==
  ASSUME Inv, SnapshotPurge, NEW ns \in Ns, snap[ns].saved, ~Dropping(ns)
  PROVE  Lowest(seqs) \in Nat /\ Lowest(seqs) <= snap[ns].seq
<1>1. pc[Snapshotter] = "purge" /\ seqs \in SUBSET Nat /\ snap[ns].seq \in Nat
  BY DEF SnapshotPurge, Inv, Base, TypeOK
<1>2. todo = <<>> /\ seqs # {}
  BY <1>1 DEF Inv, Base, Places, Purging
<1>3. PICK s \in seqs : s <= snap[ns].seq
  <2>1. Waiting(ns) \/ Bounding(ns)
    BY <1>1, <1>2 DEF Inv, Snapshots, RoundCovers
  <2>2. ~Waiting(ns)
    BY <1>2 DEF Waiting
  <2> QED
    BY <2>1, <2>2 DEF Bounding
<1>4. Lowest(seqs) \in seqs /\ Lowest(seqs) <= s
  BY <1>1, <1>2, LowestFacts
<1>5. Lowest(seqs) \in Nat /\ s \in Nat
  BY <1>1, <1>4
<1> QED
  BY <1>1, <1>3, <1>4, <1>5

(* A snapshot stays right: later writes have higher numbers, and a purge    *)
(* takes markers that no snapshot needs.                                    *)
LEMMA SnapshotsGoodStep ==
  ASSUME Inv, Environment, Base', [Next]_vars
  PROVE  SnapshotsGood'
<1> SUFFICES ASSUME NEW ns \in Ns, snap'[ns].saved, ~Dropping(ns)', NEW i \in Id,
                    Covered(ns, i)'
             PROVE  snap'[ns].vals[i] = LiveRow(rows'[ns][i]).val
  BY DEF SnapshotsGood
<1> USE ThreadFacts
<1> /\ Base /\ snap \in [Ns -> [seq : Nat, vals : [Id -> Val \cup {Null}], saved : BOOLEAN]]
    /\ rows[ns][i] \in Row /\ rows[ns][i].seq \in Nat /\ snap[ns].seq \in Nat /\ seq \in Nat
  BY DEF Inv, Base, TypeOK, Row
<1>1. CASE SnapshotPublish /\ Head(todo).ns = ns
  <2>1. snap'[ns].vals[i] = mem[Head(todo).coll][i].val
    BY <1>1 DEF SnapshotPublish
  <2>2. mem[Head(todo).coll][i] = LiveRow(rows[ns][i])
    BY <1>1, SavedLive DEF SnapshotPublish, Live
  <2> QED
    BY <1>1, <2>1, <2>2 DEF SnapshotPublish, storageVars
<1>2. CASE snap'[ns] = snap[ns]
  <2>1. ~Dropping(ns)
    BY DroppingKept
  <2>2. Covered(ns, i) => snap[ns].vals[i] = LiveRow(rows[ns][i]).val
    BY <1>2, <2>1 DEF Inv, Snapshots, SnapshotsGood
  <2>3. rows'[ns][i].seq <= snap[ns].seq
    BY <1>2 DEF Covered
  <2>4. CASE rows'[ns][i] = rows[ns][i]
    BY <1>2, <2>2, <2>3, <2>4 DEF Covered
  <2>5. ASSUME NEW t \in Client, CommitWrite(t) PROVE rows'[ns][i] = rows[ns][i]
    <3>1. pc[t] = "commit"
      BY <2>5 DEF CommitWrite
    <3>2. CASE ns = job[t].ns /\ i \in DOMAIN Changes(t)
      <4>1. snap[ns].seq < seq
        BY <3>1, <3>2 DEF Inv, Numbers, Counted
      <4>2. rows'[ns][i] = Written(t, i)
        BY <2>5, <3>2, CommitFacts DEF Base, Places
      <4>3. Written(t, i).seq # seq
        BY <2>3, <4>1, <4>2
      <4> QED
        BY <3>1, <3>2, <4>2, <4>3, WrittenSeq
    <3>3. CASE ~(ns = job[t].ns /\ i \in DOMAIN Changes(t))
      BY <2>5, <3>3, CommitFacts DEF Base, Places
    <3> QED
      BY <3>2, <3>3
  <2>6. ASSUME NEW t \in Client, DropRows(t) PROVE rows'[ns][i] = rows[ns][i]
    <3>1. pc'[t] = "pop" /\ job' = job
      BY <2>6 DEF DropRows, GoTo, Base, TypeOK
    <3>2. ns # job[t].ns
      BY <3>1 DEF Dropping
    <3> QED
      BY <2>6, <3>2, DropFacts
  <2>7. CASE SnapshotPurge
    <3>1. rows'[ns][i] = IF rows[ns][i].deleted /\ rows[ns][i].seq <= Lowest(seqs)
                         THEN NoRow ELSE rows[ns][i]
      BY <2>7 DEF SnapshotPurge, Commit, Purged
    <3>2. CASE rows[ns][i].deleted /\ rows[ns][i].seq <= Lowest(seqs)
      <4>1. Lowest(seqs) \in Nat /\ Lowest(seqs) <= snap[ns].seq
        BY <1>2, <2>1, <2>7, PurgedCovered
      <4>2. rows[ns][i].seq <= snap[ns].seq
        BY <3>2, <4>1
      <4> QED
        BY <1>2, <2>2, <3>1, <3>2, <4>2 DEF Covered, LiveRow, NoRow
    <3> QED
      BY <2>4, <3>1, <3>2
  <2>8. CASE UNCHANGED rows
    BY <2>4, <2>8
  <2> QED
    BY <2>4, <2>5, <2>6, <2>7, <2>8, TableFrame
    DEF DropSaveSeq, SnapshotDone, SaveSeq, storageVars
<1>3. CASE ~(SnapshotPublish /\ Head(todo).ns = ns)
  <2>1. ASSUME NEW t \in Client, RemoveSnapshot(t) PROVE snap'[ns] \in {snap[ns], NoSnap}
    BY <2>1 DEF RemoveSnapshot
  <2>2. SnapshotSave => snap'[ns] \in {snap[ns], NoSnap}
    BY DEF SnapshotSave
  <2>3. SnapshotPublish => snap'[ns] = snap[ns]
    BY <1>3 DEF SnapshotPublish
  <2>4. snap'[ns] # NoSnap
    BY DEF NoSnap
  <2>5. snap'[ns] = snap[ns]
    BY <2>1, <2>2, <2>3, <2>4, SnapFrame
  <2> QED
    BY <1>2, <2>5
<1> QED
  BY <1>1, <1>3

(* A snapshot stays with a registered namespace until the drop removes      *)
(* both.                                                                    *)
LEMMA SnapshotsOwnedStep ==
  ASSUME Inv, Environment, Base', [Next]_vars
  PROVE  SnapshotsOwned'
<1> SUFFICES ASSUME NoCrashes, NEW ns \in Ns, snap'[ns].saved
             PROVE  Registered(ns)' # {} \/ Dropping(ns)'
  BY DEF SnapshotsOwned, NoCrashes
<1>1. ~Crash /\ ~Open
  BY DEF Crash, Open, NoCrashes, Inv, Running, Base, TypeOK
<1>2. CASE SnapshotPublish /\ Head(todo).ns = ns
  <2>1. Head(todo).coll \in Registered(ns)
    BY <1>2, SavedLive DEF SnapshotPublish
  <2> QED
    BY <1>1, <2>1, RegisteredKept
<1>3. CASE snap[ns].saved
  <2>1. Registered(ns) # {} \/ Dropping(ns)
    BY <1>3 DEF Inv, Snapshots, SnapshotsOwned
  <2> QED
    BY <1>1, <2>1, RegisteredKept, DroppingKept
<1>4. CASE ~(SnapshotPublish /\ Head(todo).ns = ns)
  <2> snap \in [Ns -> [seq : Nat, vals : [Id -> Val \cup {Null}], saved : BOOLEAN]]
    BY DEF Inv, Base, TypeOK
  <2>1. ASSUME NEW t \in Client, RemoveSnapshot(t) PROVE snap'[ns] \in {snap[ns], NoSnap}
    BY <2>1 DEF RemoveSnapshot
  <2>2. SnapshotSave => snap'[ns] \in {snap[ns], NoSnap}
    BY DEF SnapshotSave
  <2>3. SnapshotPublish => snap'[ns] = snap[ns]
    BY <1>4 DEF SnapshotPublish
  <2>4. snap'[ns] = snap[ns]
    BY <2>1, <2>2, <2>3, SnapFrame DEF NoSnap
  <2> QED
    BY <1>3, <2>4
<1> QED
  BY <1>2, <1>4
LEMMA RoundFrame ==
  ASSUME [Next]_vars
  PROVE  \/ UNCHANGED <<todo, seqs>> /\ (SnapshotStart => pc'[Snapshotter] = pc[Snapshotter])
         \/ SnapshotStart \/ SnapshotNext \/ SnapshotPublish
         \/ SnapshotFails \/ SnapshotPurge \/ Crash
BY DEF Next, ClientStep, SnapshotStep, Rest, vars, snapVars, Call, AcquireWrite, Begin,
       CommitWrite, StorageFails, Apply, DropSaveSeq, DropRows, PopNamespace, RemoveSnapshot,
       SnapshotSave, SnapshotDone, Open

(* A round of snapshots forgets no snapshot on disk: what it has not saved  *)
(* again bounds its purge.                                                  *)
LEMMA RoundCoversStep ==
  ASSUME Inv, Environment, Base', [Next]_vars
  PROVE  RoundCovers'
<1> SUFFICES ASSUME pc'[Snapshotter] # "idle", NEW ns \in Ns, snap'[ns].saved
             PROVE  \/ Waiting(ns)' \/ Bounding(ns)' \/ Dropping(ns)'
                    \/ SameNs /\ seqs' = {}
  BY DEF RoundCovers, SameNs
<1> USE ThreadFacts
<1> /\ Base /\ TypeOK
    /\ snap \in [Ns -> [seq : Nat, vals : [Id -> Val \cup {Null}], saved : BOOLEAN]]
    /\ pc \in [Thread -> ClientPlace \cup SnapshotPlace]
  BY DEF Inv, Base, TypeOK
<1>1. ~Crash
  BY DEF Crash
<1>2. ~Open
  BY DEF Open, clientVars, Base, Places, Down
<1> SUFFICES ASSUME ~Dropping(ns)'
             PROVE  Waiting(ns)' \/ Bounding(ns)' \/ (SameNs /\ seqs' = {})
  OBVIOUS
<1>3. Registered(ns) \subseteq Registered(ns)'
  BY <1>1, <1>2, RegisteredKept
<1>4. ~Dropping(ns)
  BY DroppingKept
<1>5. CASE SnapshotPublish
  <2>1. /\ snap' = [snap EXCEPT ![Head(todo).ns] =
                      [seq |-> target, vals |-> [i \in Id |-> mem[Head(todo).coll][i].val],
                       saved |-> TRUE]]
        /\ seqs' = seqs \cup {target} /\ todo' = Tail(todo) /\ pc[Snapshotter] = "publish"
        /\ target \in Nat
    BY <1>5 DEF SnapshotPublish, TypeOK
  <2>2. CASE Head(todo).ns = ns
    <3>1. snap'[ns].seq = target /\ target \in seqs' /\ target <= target
      BY <2>1, <2>2
    <3>2. Bounding(ns)'
      BY <3>1 DEF Bounding
    <3> QED
      BY <3>2
  <2>3. CASE Head(todo).ns # ns
    <3>1. snap'[ns] = snap[ns]
      BY <2>1, <2>3
    <3>2. Head(todo).ns \in Ns
      BY <2>1, SavedLive
    <3>3. Waiting(ns) \/ Bounding(ns)
      BY <1>4, <2>1, <2>3, <3>1, <3>2 DEF Inv, Snapshots, RoundCovers, SameNs
    <3>4. Bounding(ns) => Bounding(ns)'
      BY <2>1, <3>1 DEF Bounding
    <3>5. ASSUME NEW k \in DOMAIN todo, todo[k].ns = ns, todo[k].coll \in Registered(ns)
          PROVE  Waiting(ns)'
      <4>1. todo # <<>>
        BY <2>1 DEF Base, Places, SnapshotLock
      <4>2. k # 1
        BY <2>3, <3>5, <4>1, HeadFacts
      <4>3. k - 1 \in DOMAIN todo' /\ todo'[k - 1] = todo[k]
        BY <2>1, <4>1, <4>2, HeadFacts
      <4> QED
        BY <1>3, <3>5, <4>3 DEF Waiting
    <3> QED
      BY <3>3, <3>4, <3>5 DEF Waiting
  <2> QED
    BY <2>2, <2>3
<1>6. CASE ~SnapshotPublish
  <2>1. snap'[ns] = snap[ns]
    <3>1. ASSUME NEW t \in Client, RemoveSnapshot(t) PROVE snap'[ns] \in {snap[ns], NoSnap}
      BY <3>1 DEF RemoveSnapshot
    <3>2. SnapshotSave => snap'[ns] \in {snap[ns], NoSnap}
      BY DEF SnapshotSave
    <3> QED
      BY <1>6, <3>1, <3>2, SnapFrame DEF NoSnap
  <2>2. CASE SnapshotStart /\ pc[Snapshotter] = "idle"
    <3>1. todo' = collections /\ seqs' = {} /\ collections' = collections
      BY <2>2 DEF SnapshotStart, collVars
    <3>2. CASE CrashesOfOneNamespace
      BY <3>1, <3>2 DEF CrashesOfOneNamespace
    <3>3. CASE NoCrashes
      <4>1. Registered(ns) # {}
        BY <1>4, <2>1, <3>3 DEF Inv, Snapshots, SnapshotsOwned
      <4>2. PICK k \in DOMAIN collections : collections[k].ns = ns
        BY <4>1 DEF Registered
      <4>3. collections[k].coll \in Registered(ns)
        BY <4>2 DEF Registered
      <4> QED
        BY <1>3, <3>1, <4>2, <4>3 DEF Waiting
    <3> QED
      BY <3>2, <3>3 DEF Environment
  <2>3. CASE SnapshotNext
    <3>1. pc[Snapshotter] = "next" /\ todo # <<>> /\ seqs' = seqs
      BY <2>3 DEF SnapshotNext
    <3>2. Waiting(ns) \/ Bounding(ns) \/ (SameNs /\ seqs = {})
      BY <1>4, <2>1, <3>1 DEF Inv, Snapshots, RoundCovers
    <3>3. Bounding(ns) => Bounding(ns)'
      BY <2>1, <3>1 DEF Bounding
    <3>4. ASSUME NEW k \in DOMAIN todo, todo[k].ns = ns, todo[k].coll \in Registered(ns)
          PROVE  Waiting(ns)'
      <4>1. CASE todo' = todo
        BY <1>3, <3>4, <4>1 DEF Waiting
      <4>2. CASE todo' = Tail(todo) /\ Head(todo).coll \notin Registered(Head(todo).ns)
        <5>1. k # 1
          BY <3>1, <3>4, <4>2, HeadFacts
        <5>2. k - 1 \in DOMAIN todo' /\ todo'[k - 1] = todo[k]
          BY <3>1, <4>2, <5>1, HeadFacts
        <5> QED
          BY <1>3, <3>4, <5>2 DEF Waiting
      <4> QED
        BY <2>3, <4>1, <4>2 DEF SnapshotNext
    <3> QED
      BY <3>1, <3>2, <3>3, <3>4 DEF Waiting
  <2>4. CASE UNCHANGED <<todo, seqs>> /\ pc[Snapshotter] # "idle"
    BY <1>3, <1>4, <2>1, <2>4 DEF Inv, Snapshots, RoundCovers, Waiting, Bounding
  <2>5. ~SnapshotFails /\ ~SnapshotPurge
    BY DEF SnapshotFails, SnapshotPurge, GoTo
  <2>6. CASE UNCHANGED <<todo, seqs>> /\ pc[Snapshotter] = "idle" /\ ~SnapshotStart
    <3>1. \A t \in Client : ClientStep(t) => pc'[Snapshotter] = pc[Snapshotter]
      BY DEF ClientStep, GoTo, Leave, Call, AcquireWrite, Begin, CommitWrite, StorageFails,
             Apply, DropSaveSeq, DropRows, PopNamespace, RemoveSnapshot
    <3>2. SnapshotStep => pc[Snapshotter] # "idle"
      BY <2>6 DEF SnapshotStep, SnapshotNext, SnapshotSave, SnapshotPublish, SnapshotFails,
                  SnapshotDone, SnapshotPurge
    <3>3. Rest \/ UNCHANGED vars => pc' = pc
      BY DEF Rest, vars, clientVars
    <3> QED
      BY <1>1, <1>2, <2>6, <3>1, <3>2, <3>3 DEF Next
  <2>7. CASE SnapshotStart /\ pc[Snapshotter] # "idle"
    BY <2>4, <2>7 DEF SnapshotStart
  <2> QED
    BY <1>1, <1>6, <2>2, <2>3, <2>4, <2>5, <2>6, <2>7, RoundFrame
<1> QED
  BY <1>5, <1>6

(* Snapshots is inductive relative to the whole of Inv.                     *)
LEMMA SnapshotsStep == ASSUME Inv, Environment, Base', [Next]_vars PROVE Snapshots'
BY SnapshotsGoodStep, RoundCoversStep, SnapshotsOwnedStep DEF Snapshots

-----------------------------------------------------------------------------
(* open() raises only on a tiny vector.                                     *)
LEMMA RunningStep == ASSUME Inv, Environment, [Next]_vars PROVE Running'
<1>1. CASE Open
  <2>1. ~NoCrashes
    BY <1>1 DEF Open, Inv, Running
  <2>2. \A ns \in Ns, i \in Id : LiveRow(rows[ns][i]).val \notin Tiny
    <3> SUFFICES ASSUME NEW ns \in Ns, NEW i \in Id
                 PROVE  LiveRow(rows[ns][i]).val \notin Tiny
      OBVIOUS
    <3>1. CASE rows[ns][i].deleted
      BY <3>1, TinyIsVal, NullIsNoVector DEF LiveRow, Absent
    <3>2. CASE ~rows[ns][i].deleted
      BY <3>2 DEF LiveRow, Inv, Memory, NoTinyRow
    <3> QED
      BY <3>1, <3>2
  <2>3. ~ \E ns \in NamespacesWithRows : Unloadable(ns)
    BY <2>2 DEF NamespacesWithRows, Unloadable
  <2>4. up' = "up"
    BY <1>1, <2>3 DEF Open
  <2> QED
    BY <2>1, <2>4 DEF Running, NoCrashes
<1>2. CASE Crash
  <2>1. ~NoCrashes
    BY <1>2 DEF Crash, NoCrashes, Inv, Base, TypeOK
  <2> QED
    BY <1>2, <2>1 DEF Crash, Running, NoCrashes
<1>3. CASE ~Open /\ ~Crash
  <2>1. up' = up
    BY <1>3
    DEF Next, ClientStep, SnapshotStep, Rest, vars, runVars, Call, AcquireWrite, Begin,
        CommitWrite, StorageFails, Apply, DropSaveSeq, DropRows, PopNamespace, RemoveSnapshot,
        SnapshotStart, SnapshotNext, SnapshotSave, SnapshotPublish, SnapshotFails,
        SnapshotDone, SnapshotPurge
  <2> QED
    BY <2>1 DEF Inv, Running, NoCrashes
<1> QED
  BY <1>1, <1>2, <1>3

(* A new index satisfies the invariant: nothing is stored, saved or         *)
(* running.                                                                 *)
LEMMA InitInv == ASSUME Environment, Init PROVE Inv
<1> USE ThreadFacts DEF Init, StorageInit
<1>1. Base
  BY InitBase
<1>2. \A t \in Client : pc[t] = "idle"
  OBVIOUS
<1>3. pc[Snapshotter] = "idle"
  OBVIOUS
<1>4. \A ns : Registered(ns) = {}
  BY DEF Registered
<1>5. Objects
  BY <1>2, <1>3 DEF Objects, OneEntry, StillRegistered
<1>6. \A ns \in Ns, i \in Id : rows[ns][i] = NoRow
  OBVIOUS
<1>7. \A ns \in Ns : Live(rows[ns]) = Empty
  <2>1. \A ns \in Ns, i \in Id : LiveRow(rows[ns][i]) = Absent
    BY <1>6 DEF LiveRow, NoRow
  <2> QED
    BY <2>1 DEF Live, Empty
<1>8. Memory
  BY <1>2, <1>4, <1>6, <1>7
  DEF Memory, NoTinyRow, NoRow, Unregistered, InMemory, Applying, DroppedRows
<1>9. Numbers
  <2>1. ~Writing
    BY <1>2 DEF Writing
  <2>2. \A s \in Marks : s = 0
    BY <1>6 DEF Marks, RowSeqs, NoRow
  <2>3. 0 \in Marks
    BY DEF Marks
  <2>4. \A ns \in Ns : snap[ns].seq = 0
    BY DEF NoSnap
  <2>5. Counted
    BY <1>2, <1>3, <2>1, <2>2, <2>4 DEF Counted, AtMost, Committed
  <2>6. Remembered
    BY <2>1, <2>3, <2>4 DEF Remembered, Recorded, Committed
  <2> QED
    BY <2>5, <2>6 DEF Numbers
<1>10. Snapshots
  BY <1>3 DEF Snapshots, SnapshotsGood, RoundCovers, SnapshotsOwned, NoSnap
<1>11. Running
  BY DEF Running
<1> QED
  BY <1>1, <1>5, <1>8, <1>9, <1>10, <1>11 DEF Inv

(* Inv is inductive.                                                        *)
LEMMA InvStep == ASSUME Environment, Inv, [Next]_vars PROVE Inv'
<1>1. Base'
  BY BaseStep DEF Inv
<1>2. Objects'
  BY <1>1, OneEntryStep, StillRegisteredStep DEF Inv, Objects, Environment
<1> QED
  BY <1>1, <1>2, MemoryStep, NumbersStep, SnapshotsStep, RunningStep DEF Inv

(* The inductive invariant of an index: for any clients, requests, records, *)
(* snapshot interval and failures that meet Environment, memory, tables,    *)
(* numbers and snapshots stay related as Inv says.                          *)
THEOREM InvCorrect == ASSUME Environment PROVE Spec => []Inv
<1>1. Init => Inv
  BY InitInv
<1>2. Inv /\ [Next]_vars => Inv'
  BY InvStep
<1> QED
  BY <1>1, <1>2, PTL DEF Spec

(* Index.InStep: whenever no client is inside a namespace's collection, its *)
(* readers see the live rows of SQLite.                                     *)
THEOREM InStepCorrect == ASSUME Environment PROVE Spec => []InStep
<1>1. Inv => InStep
  BY InvProperties
<1> QED
  BY <1>1, InvCorrect, PTL

(* Index.SameResult: a process that dies in any state is rebuilt from its   *)
(* snapshots and newer rows to exactly the live rows.                       *)
THEOREM SameResultCorrect == ASSUME Environment PROVE Spec => []SameResult
<1>1. Inv => SameResult
  BY InvProperties
<1> QED
  BY <1>1, InvCorrect, PTL

(* Index.NewerWritesReplayed: no live row that a snapshot lacks is taken    *)
(* for one that it covers.                                                  *)
THEOREM NewerWritesReplayedCorrect == ASSUME Environment PROVE Spec => []NewerWritesReplayed
<1>1. Inv => NewerWritesReplayed
  BY InvProperties
<1> QED
  BY <1>1, InvCorrect, PTL

(* Index.MarkersOutliveSnapshots: the purge that ends a snapshot takes no   *)
(* delete marker of a record that a snapshot still holds.                   *)
THEOREM MarkersOutliveSnapshotsCorrect ==
  ASSUME Environment PROVE Spec => []MarkersOutliveSnapshots
<1>1. Inv => MarkersOutliveSnapshots
  BY InvProperties
<1> QED
  BY <1>1, InvCorrect, PTL

-----------------------------------------------------------------------------
(* An index implements Store: through what a restart would load, every      *)
(* write call takes effect at the commit of its transaction, and nothing    *)
(* else changes a namespace.  The invariant makes the map from tables and   *)
(* snapshots to contents that of the live rows; the steps map one by one.   *)

(* The values the mapping gives the abstract store's variables.             *)
Data == [ns \in Ns |-> Loaded(ns)]
Calls == [t \in Client |-> CallOf(t)]
Asked(t) == [client |-> t, op |-> job[t].op, ns |-> job[t].ns, recs |-> job[t].recs]

LEMMA SameResultNext == (Inv => SameResult)'
<1>1. Inv => SameResult
  BY InvProperties
<1> QED
  BY <1>1, PTL

LEMMA DataLive ==
  ASSUME Inv, Inv'
  PROVE  /\ Data = [ns \in Ns |-> Live(rows[ns])]
         /\ Data' = [ns \in Ns |-> Live(rows[ns])']
<1>1. SameResult /\ SameResult'
  BY InvProperties, SameResultNext
<1> QED
  BY <1>1 DEF Data, SameResult

LEMMA DataKept ==
  ASSUME Inv, Inv', [Next]_vars, \A t \in Client : ~CommitWrite(t) /\ ~DropRows(t)
  PROVE  Data' = Data
<1>1. \A ns \in Ns : Live(rows[ns])' = Live(rows[ns])
  BY LiveFrame DEF Inv
<1> QED
  BY <1>1, DataLive

(* A client that has its collection in hand asked for one of the requests.  *)
LEMMA AskedFacts ==
  ASSUME Inv, NEW t \in Client, pc[t] # "idle"
  PROVE  /\ Asked(t) \in Request /\ Asked(t) \notin {None, Done}
         /\ Asked(t).op = job[t].op /\ Asked(t).ns = job[t].ns
         /\ Asked(t).recs = job[t].recs /\ job[t].ns \in Ns
<1>1. PICK r \in Request : /\ r.client = t /\ r.op = job[t].op
                           /\ r.ns = job[t].ns /\ r.recs = job[t].recs
  BY BusyFacts DEF Inv, Base, Places
<1>2. r \in WriteCall
  BY RequestType
<1>3. r = Asked(t)
  BY <1>1, <1>2 DEF Asked, WriteCall
<1>4. job[t].ns \in Ns
  BY BusyFacts DEF Inv, Base, Places
<1> QED
  BY <1>3, <1>4, MarkersAreNoCalls DEF Asked

LEMMA CallValues ==
  ASSUME NEW t \in Client
  PROVE  /\ pc[t] = "idle" => Calls[t] = None
         /\ pc[t] \in {"apply", "pop", "rmtree"} => Calls[t] = Done
         /\ pc[t] \notin {"idle", "apply", "pop", "rmtree"} => Calls[t] = Asked(t)
BY DEF Calls, CallOf, Asked

LEMMA CallsFrame ==
  ASSUME Inv, NEW t \in Client, ClientStep(t)
  PROVE  Calls' = [Calls EXCEPT ![t] = CallOf(t)']
<1>1. \A u \in Client : u # t => pc'[u] = pc[u] /\ job'[u] = job[u]
  BY ThreadFacts
  DEF ClientStep, GoTo, Leave, Call, AcquireWrite, Begin, CommitWrite, StorageFails,
      Apply, DropSaveSeq, DropRows, PopNamespace, RemoveSnapshot, Inv, Base, TypeOK
<1>2. \A u \in Client : u # t => CallOf(u)' = CallOf(u)
  BY <1>1 DEF CallOf
<1> QED
  BY <1>2 DEF Calls

(* An empty index is an empty store.                                        *)
LEMMA InitStore == ASSUME Init PROVE Promise!Init
<1>1. \A ns \in Ns : Loaded(ns) = Empty
  <2>1. \A ns \in Ns, i \in Id : rows[ns][i] = NoRow
    BY DEF Init, StorageInit
  <2> QED
    BY <2>1 DEF Loaded, NamespacesWithRows
<1>2. \A t \in Client : CallOf(t) = None
  BY ThreadFacts DEF Init, CallOf
<1> QED
  BY <1>1, <1>2 DEF Promise!Init, Promise!Empty, Empty, Promise!Absent, Absent, Init
-----------------------------------------------------------------------------
(* The steps, one action of Index at a time.  A call that the store answers *)
(* sees in memory what the abstract store holds.                            *)
LEMMA MemoryIsData ==
  ASSUME Inv, NEW t \in Client,
         \/ pc[t] = "commit"
         \/ pc[t] = "lock" /\ lock[job[t].coll] = Nobody
  PROVE  mem[job[t].coll] = Data[job[t].ns]
<1>1. up = "up" /\ job[t].ns \in Ns /\ job[t].coll \in Registered(job[t].ns)
  BY BusyUp, BusyFacts, ThreadFacts
  DEF Inv, Base, Places, Objects, StillRegistered
<1>2. \A u \in Client : Between(u) => job[u].coll # job[t].coll
  <2>1. CASE pc[t] = "commit"
    BY <2>1, InsideAlone DEF Between, Inside, Inv
  <2>2. CASE pc[t] = "lock" /\ lock[job[t].coll] = Nobody
    BY <2>2, ThreadFacts DEF Between, Inside, Inv, Base, Places, ClientLocks
  <2> QED
    BY <2>1, <2>2
<1>3. mem[job[t].coll] = Live(rows[job[t].ns])
  BY <1>1, <1>2 DEF Inv, Memory, InMemory
<1>4. Data[job[t].ns] = Live(rows[job[t].ns])
  BY <1>1, LoadedIsLive DEF Data, Inv, Memory, Snapshots
<1> QED
  BY <1>3, <1>4

(* A call is asked for.                                                     *)
LEMMA CallMaps ==
  ASSUME Inv, Inv', [Next]_vars, NEW t \in Client, Call(t)
  PROVE  Promise!Ask(t)
<1>1. up = "up" /\ up' = up /\ pc[t] = "idle" /\ pc'[t] = "lock"
  BY ThreadFacts DEF Call, runVars, GoTo, Inv, Base, TypeOK
<1>2. PICK r \in Request, c \in Coll :
           /\ r.client = t /\ r.ns \in Ns /\ job' = [job EXCEPT ![t] = JobFor(c, r)]
           /\ JobFor(c, r).coll = c /\ JobFor(c, r).ns = r.ns
           /\ JobFor(c, r).op = r.op /\ JobFor(c, r).recs = r.recs
           /\ c \in Registered(r.ns)'
           /\ \A ns : ns # r.ns => Registered(ns)' = Registered(ns)
           /\ \/ Registered(r.ns)' = Registered(r.ns) /\ UNCHANGED mem /\ UNCHANGED collections
              \/ /\ Registered(r.ns) = {} /\ Registered(r.ns)' = {c} /\ c \notin InUse
                 /\ collections' = Append(collections, [ns |-> r.ns, coll |-> c])
                 /\ mem' = [mem EXCEPT ![c] = Empty]
  BY CallRegistered, Zenon DEF Inv, Base
<1>3. CallOf(t)' = r
  <2>1. job'[t] = JobFor(c, r)
    BY <1>2 DEF Inv, Base, TypeOK
  <2>2. r \in WriteCall
    BY RequestType
  <2>3. CallOf(t)' = [client |-> t, op |-> r.op, ns |-> r.ns, recs |-> r.recs]
    BY <1>1, <1>2, <2>1 DEF CallOf
  <2> QED
    BY <1>2, <2>2, <2>3 DEF WriteCall
<1>4. Calls' = [Calls EXCEPT ![t] = r]
  BY <1>3, CallsFrame DEF ClientStep
<1>5. Calls[t] = None
  BY <1>1, CallValues
<1>6. Data' = Data
  <2>1. \A u \in Client : ~CommitWrite(u) /\ ~DropRows(u)
    BY <1>1, ThreadFacts DEF CommitWrite, DropRows, GoTo, Call, Commit, storageVars, Inv, Base, Places, Holders
  <2> QED
    BY <2>1, DataKept
<1> QED
  BY <1>1, <1>2, <1>4, <1>5, <1>6 DEF Promise!Ask, Promise!Become, Data, Calls

(* A call that finds nothing to do is refused; otherwise nothing shows.     *)
LEMMA AcquireMaps ==
  ASSUME Inv, Inv', [Next]_vars, NEW t \in Client, AcquireWrite(t)
  PROVE  Promise!Refuse(t) \/ UNCHANGED Promise!storeVars
<1>1. pc[t] = "lock" /\ lock[job[t].coll] = Nobody /\ up' = up /\ UNCHANGED <<rows, snap>>
  BY DEF AcquireWrite, runVars, storageVars, snapVars
<1>2. Calls[t] = Asked(t) /\ Calls' = [Calls EXCEPT ![t] = CallOf(t)']
  BY <1>1, CallValues, CallsFrame DEF ClientStep
<1>3. Data' = Data
  BY <1>1 DEF Data, Loaded, NamespacesWithRows, Recovered, Covered, MetadataAt
<1>4. CASE NothingToDo(t)
  <2>1. pc'[t] = "idle"
    BY <1>4, ThreadFacts DEF AcquireWrite, Leave, GoTo, Inv, Base, TypeOK
  <2>2. CallOf(t)' = None
    BY <2>1 DEF CallOf
  <2>3. /\ Asked(t) \notin {None, Done} /\ Asked(t).op = job[t].op
        /\ Asked(t).ns = job[t].ns /\ Asked(t).recs = job[t].recs
    BY <1>1, AskedFacts
  <2>4. Promise!Pointless(Asked(t))
    <3>1. DOMAIN Asked(t).recs \cap Present(Data[Asked(t).ns]) = {}
      BY <1>1, <1>4, <2>3, MemoryIsData DEF NothingToDo, Ids
    <3>2. Asked(t).op \in {"update", "set_metadata", "delete"}
      BY <1>4, <2>3 DEF NothingToDo
    <3> QED
      BY <3>1, <3>2 DEF Promise!Pointless, Promise!Present, Promise!Absent, Present, Absent, Data
  <2> QED
    BY <1>1, <1>2, <1>3, <2>2, <2>3, <2>4
    DEF Promise!Refuse, Promise!Become, Data, Calls
<1>5. CASE ~NothingToDo(t)
  <2>1. pc'[t] \in {"storage", "drop"} /\ job' = job
    BY <1>5, ThreadFacts DEF AcquireWrite, GoTo, Inv, Base, TypeOK
  <2>2. CallOf(t)' = Asked(t)
    BY <2>1 DEF CallOf, Asked
  <2>3. Calls' = Calls
    BY <1>2, <2>2 DEF Calls
  <2> QED
    BY <1>1, <1>3, <2>3 DEF Promise!storeVars, Data, Calls
<1> QED
  BY <1>4, <1>5
LEMMA DataChanged ==
  ASSUME Inv, Inv', NEW ns \in Ns, \A n \in Ns : n # ns => Live(rows[n])' = Live(rows[n])
  PROVE  Data' = [Data EXCEPT ![ns] = Live(rows[ns])']
<1> DEFINE L(n) == Live(rows[n])
<1>1. Data = [n \in Ns |-> L(n)] /\ Data' = [n \in Ns |-> L(n)']
  BY DataLive
<1>2. \A n \in Ns : n # ns => L(n)' = L(n)
  OBVIOUS
<1> HIDE DEF L
<1>3. Data' = [Data EXCEPT ![ns] = L(ns)']
  BY <1>1, <1>2
<1> QED
  BY <1>3 DEF L

(* A call takes effect when its transaction commits, on what the map holds  *)
(* then: memory, from which Changes is computed, is the live rows.          *)
LEMMA CommitMaps ==
  ASSUME Inv, Inv', [Next]_vars, NEW t \in Client, CommitWrite(t)
  PROVE  Promise!TakeEffect(t)
<1>1. pc[t] = "commit" /\ up' = up /\ job' = job /\ pc'[t] = "apply" /\ Base
  BY ThreadFacts DEF CommitWrite, runVars, GoTo, Inv, Base, TypeOK
<1> PICK ns \in Ns : ns = job[t].ns
  BY <1>1, AskedFacts
<1> DEFINE now == Data[ns]
<1>2. /\ Asked(t) \in Request /\ Asked(t) \notin {None, Done} /\ Asked(t).op = job[t].op
      /\ Asked(t).ns = ns /\ Asked(t).recs = job[t].recs /\ ns \in Ns
  BY <1>1, AskedFacts
<1>3. mem[job[t].coll] = now
  BY <1>1, MemoryIsData
<1>4. /\ Data = [n \in Ns |-> Live(rows[n])]
      /\ Data' = [n \in Ns |-> Live(rows[n])']
  BY DataLive
<1>5. Live(rows[ns])' = Overlay(Changes(t), now)
  <2>1. mem[job[t].coll] = Live(rows[job[t].ns])
    BY <1>3, <1>4
  <2>2. Live(rows[job[t].ns])' = Overlay(Changes(t), mem[job[t].coll])
    BY <1>1, <2>1, CommitLive
  <2> QED
    BY <1>1, <1>3, <2>2
<1>6. \A n \in Ns : n # ns => Live(rows[n])' = Live(rows[n])
  <2>1. \A u \in Client : CommitWrite(u) \/ DropRows(u) => u = t
    BY DEF CommitWrite, DropRows, Commit
  <2> QED
    BY <2>1, LiveFrame DEF Inv
<1>7. Data' = [Data EXCEPT ![ns] = Overlay(Changes(t), now)]
  <2>1. Data' = [Data EXCEPT ![ns] = Live(rows[ns])']
    BY <1>2, <1>6, DataChanged
  <2> QED
    BY <1>5, <2>1
<1>8. /\ job[t].op \in {"upsert", "update", "set_metadata", "delete"}
      /\ job[t].op = "upsert" => Changes(t) = job[t].recs
      /\ job[t].op \in {"update", "set_metadata"} =>
           /\ DOMAIN Changes(t) = Ids(t)
           /\ \A i \in Ids(t) : Changes(t)[i] = Merged(now[i], job[t].recs[i])
      /\ job[t].op = "delete" =>
           /\ DOMAIN Changes(t) = Ids(t) \cap Present(now)
           /\ \A i \in DOMAIN Changes(t) : Changes(t)[i] = Absent
  BY <1>1, <1>3, ChangesFacts DEF Base, Places
<1>9. Overlay(Changes(t), now) = Promise!Outcome(Asked(t))
  <2>1. CASE job[t].op = "upsert"
    BY <1>2, <1>8, <2>1 DEF Promise!Outcome, Promise!Overlay, Overlay, Data
  <2>2. CASE job[t].op \in {"update", "set_metadata"}
    <3>1. Promise!Outcome(Asked(t)) =
            Overlay([i \in Ids(t) |-> Merged(now[i], job[t].recs[i])], now)
      BY <1>2, <2>2 DEF Promise!Outcome, Promise!Overlay, Promise!Merged, Overlay, Merged, Ids, Data
    <3> QED
      BY <1>8, <2>2, <3>1 DEF Overlay
  <2>3. CASE job[t].op = "delete"
    <3>1. Promise!Outcome(Asked(t)) = Overlay([i \in Ids(t) |-> Absent], now)
      BY <1>2, <2>3 DEF Promise!Outcome, Promise!Overlay, Promise!Absent, Overlay, Absent, Ids, Data
    <3>2. \A i \in Id : i \in Ids(t) /\ i \notin DOMAIN Changes(t) => now[i] = Absent
      BY <1>8, <2>3 DEF Present
    <3> QED
      BY <1>8, <2>3, <3>1, <3>2 DEF Overlay
  <2> QED
    BY <1>8, <2>1, <2>2, <2>3
<1>10. ~Promise!Pointless(Asked(t))
  <2>1. ~NothingToDo(t)
    BY <1>1 DEF Base, Places, Paths
  <2>2. job[t].op \in {"update", "set_metadata", "delete"} => Ids(t) \cap Present(now) # {}
    BY <1>3, <2>1 DEF NothingToDo
  <2> HIDE DEF now
  <2>3. now = Data[ns]
    BY DEF now
  <2> QED
    BY <1>2, <2>2, <2>3
    DEF Promise!Pointless, Promise!Present, Promise!Absent, Present, Absent, Data, Ids
<1>11. Calls[t] = Asked(t) /\ Calls' = [Calls EXCEPT ![t] = Done]
  <2>1. CallOf(t)' = Done
    BY <1>1 DEF CallOf
  <2> QED
    BY <1>1, <2>1, CallValues, CallsFrame DEF ClientStep
<1>12. /\ Data' = [Data EXCEPT ![Calls[t].ns] = Promise!Outcome(Calls[t])]
       /\ ~Promise!Pointless(Calls[t]) /\ Calls[t] \notin {None, Done}
  BY <1>2, <1>7, <1>9, <1>10, <1>11
<1> QED
  BY <1>1, <1>11, <1>12 DEF Promise!TakeEffect, Promise!Become, Data, Calls

(* deleteAll takes effect when the rows are dropped.                        *)
LEMMA DropMaps ==
  ASSUME Inv, Inv', [Next]_vars, NEW t \in Client, DropRows(t)
  PROVE  Promise!TakeEffect(t)
<1>1. pc[t] = "drop_rows" /\ up' = up /\ job' = job /\ pc'[t] = "pop" /\ Base
  BY ThreadFacts DEF DropRows, runVars, GoTo, Inv, Base, TypeOK
<1> PICK ns \in Ns : ns = job[t].ns
  BY <1>1, AskedFacts
<1>2. /\ Asked(t) \notin {None, Done} /\ Asked(t).op = job[t].op
      /\ Asked(t).ns = ns /\ ns \in Ns /\ job[t].op = "delete_all"
  BY <1>1, AskedFacts DEF Base, Places, Paths
<1>3. /\ Data = [n \in Ns |-> Live(rows[n])]
      /\ Data' = [n \in Ns |-> Live(rows[n])']
  BY DataLive
<1>4. Live(rows[ns])' = Empty
  BY <1>1, DropFacts
<1>5. \A n \in Ns : n # ns => Live(rows[n])' = Live(rows[n])
  BY <1>1, DropFacts DEF Live
<1>6. Data' = [Data EXCEPT ![ns] = Empty]
  <2>1. Data' = [Data EXCEPT ![ns] = Live(rows[ns])']
    BY <1>2, <1>5, DataChanged
  <2> QED
    BY <1>4, <2>1
<1>7. Promise!Outcome(Asked(t)) = Empty /\ ~Promise!Pointless(Asked(t))
  BY <1>2 DEF Promise!Outcome, Promise!Pointless, Promise!Empty, Promise!Absent, Empty, Absent
<1>8. Calls[t] = Asked(t) /\ Calls' = [Calls EXCEPT ![t] = Done]
  <2>1. CallOf(t)' = Done
    BY <1>1 DEF CallOf
  <2> QED
    BY <1>1, <2>1, CallValues, CallsFrame DEF ClientStep
<1>9. /\ Data' = [Data EXCEPT ![Calls[t].ns] = Promise!Outcome(Calls[t])]
      /\ ~Promise!Pointless(Calls[t]) /\ Calls[t] \notin {None, Done}
  BY <1>2, <1>6, <1>7, <1>8
<1> QED
  BY <1>1, <1>8, <1>9 DEF Promise!TakeEffect, Promise!Become, Data, Calls

(* A failed transaction changes nothing, and its caller is told.            *)
LEMMA FailMaps ==
  ASSUME Inv, NEW t \in Client, StorageFails(t)
  PROVE  Promise!Fail(t)
<1>1. /\ pc[t] = "commit" /\ up' = up /\ pc'[t] = "idle" /\ job[t].op \in FailingOps
      /\ UNCHANGED <<rows, snap>>
  BY ThreadFacts DEF StorageFails, UpsertFails, OtherWriteFails, runVars, snapVars, Leave,
                     GoTo, Inv, Base, TypeOK
<1>2. Asked(t) \notin {None, Done} /\ Asked(t).op \in FailingOps
  BY <1>1, AskedFacts
<1>3. Data' = Data
  BY <1>1 DEF Data, Loaded, NamespacesWithRows, Recovered, Covered, MetadataAt
<1>4. Calls[t] = Asked(t) /\ Calls' = [Calls EXCEPT ![t] = None]
  <2>1. CallOf(t)' = None
    BY <1>1 DEF CallOf
  <2> QED
    BY <1>1, <2>1, CallValues, CallsFrame DEF ClientStep
<1> QED
  BY <1>1, <1>2, <1>3, <1>4 DEF Promise!Fail, Promise!Become, Data, Calls

(* A call returns after its effect.                                         *)
LEMMA ReturnMaps ==
  ASSUME Inv, Inv', [Next]_vars, NEW t \in Client, Apply(t) \/ RemoveSnapshot(t)
  PROVE  Promise!Return(t)
<1>1. pc[t] \in {"apply", "rmtree"} /\ up' = up /\ pc'[t] = "idle" /\ rows' = rows
  BY ThreadFacts DEF Apply, RemoveSnapshot, runVars, storageVars, Leave, GoTo, Inv, Base, TypeOK
<1>2. Data' = Data
  BY <1>1, DataLive
<1>3. Calls[t] = Done /\ Calls' = [Calls EXCEPT ![t] = None]
  <2>1. CallOf(t)' = None
    BY <1>1 DEF CallOf
  <2> QED
    BY <1>1, <2>1, CallValues, CallsFrame DEF ClientStep
<1> QED
  BY <1>1, <1>2, <1>3 DEF Promise!Return, Promise!Become, Data, Calls

LEMMA QuietMaps ==
  ASSUME Inv, Inv', [Next]_vars, NEW t \in Client,
         Begin(t) \/ DropSaveSeq(t) \/ PopNamespace(t)
  PROVE  UNCHANGED Promise!storeVars
<1>1. /\ up' = up /\ rows' = rows /\ job' = job
      /\ \/ pc[t] = "storage" /\ pc'[t] = "commit"
         \/ pc[t] = "drop" /\ pc'[t] = "drop_rows"
         \/ pc[t] = "pop" /\ pc'[t] = "rmtree"
  BY ThreadFacts DEF Begin, DropSaveSeq, PopNamespace, NextSeq, SaveSeq, runVars, storageVars,
                     GoTo, Inv, Base, TypeOK
<1>2. Data' = Data
  BY <1>1, DataLive
<1>3. CallOf(t)' = CallOf(t)
  BY <1>1 DEF CallOf
<1>4. Calls' = Calls
  BY <1>3, CallsFrame DEF Calls, ClientStep
<1> QED
  BY <1>1, <1>2, <1>4 DEF Promise!storeVars, Data, Calls

(* Saving, publishing and purging change nothing that a restart would load. *)
LEMMA SnapshotMaps ==
  ASSUME Inv, Inv', [Next]_vars, SnapshotStep
  PROVE  UNCHANGED Promise!storeVars
<1>1. /\ up' = up /\ job' = job /\ \A t \in Client : pc'[t] = pc[t]
  BY ThreadFacts
  DEF SnapshotStep, SnapshotStart, SnapshotNext, SnapshotSave, SnapshotPublish,
      SnapshotFails, SnapshotDone, SnapshotPurge, runVars, GoTo, Inv, Base, TypeOK
<1>2. \A t \in Client : ~CommitWrite(t) /\ ~DropRows(t)
  BY <1>1, ThreadFacts DEF CommitWrite, DropRows, GoTo, Inv, Base, TypeOK
<1>3. Data' = Data
  BY <1>2, DataKept
<1>4. \A t \in Client : CallOf(t)' = CallOf(t)
  BY <1>1 DEF CallOf
<1>5. Calls' = Calls
  BY <1>4 DEF Calls
<1> QED
  BY <1>1, <1>3, <1>5 DEF Promise!storeVars, Data, Calls

(* A crash keeps every committed write, and the calls in flight end without *)
(* an answer.                                                               *)
LEMMA CrashMaps ==
  ASSUME Inv, Inv', [Next]_vars, Crash
  PROVE  Promise!Crash
<1>1. up = "up" /\ up' = "down" /\ rows' = rows /\ \A t \in Client : pc'[t] = "idle"
  BY ThreadFacts DEF Crash, StorageLost
<1>2. Data' = Data
  BY <1>1, DataLive
<1>3. Calls' = [t \in Client |-> None]
  BY <1>1 DEF Calls, CallOf
<1> QED
  BY <1>1, <1>2, <1>3 DEF Promise!Crash, Data, Calls

(* Reopening changes nothing.                                               *)
LEMMA OpenMaps ==
  ASSUME Inv, Inv', [Next]_vars, Open
  PROVE  Promise!Reopen
<1>1. up # "up" /\ up' = "up" /\ rows' = rows /\ pc' = pc /\ job' = job
  BY OpenFacts DEF Open, StorageOpen, clientVars, Inv, Running
<1>2. Data' = Data
  BY <1>1, DataLive
<1>3. Calls' = Calls
  BY <1>1 DEF Calls, CallOf
<1> QED
  BY <1>1, <1>2, <1>3 DEF Promise!Reopen, Data, Calls

LEMMA StillMaps ==
  ASSUME Rest \/ UNCHANGED vars
  PROVE  UNCHANGED Promise!storeVars
<1>1. UNCHANGED <<rows, snap, pc, job, up>>
  BY DEF Rest, vars, storageVars, clientVars, snapVars, runVars
<1> QED
  BY <1>1 DEF Promise!storeVars, Loaded, NamespacesWithRows, Recovered, Covered, MetadataAt, CallOf

(* Every step of an index is a step of Store or changes nothing it shows.   *)
LEMMA StoreStep ==
  ASSUME Inv, Inv', [Next]_vars
  PROVE  [Promise!Next]_(Promise!storeVars)
<1>1. ASSUME NEW t \in Client, ClientStep(t) PROVE [Promise!Next]_(Promise!storeVars)
  BY <1>1, CallMaps, AcquireMaps, CommitMaps, DropMaps, FailMaps, ReturnMaps, QuietMaps
  DEF ClientStep, Promise!Next
<1>2. CASE SnapshotStep
  BY <1>2, SnapshotMaps
<1>3. CASE Crash
  BY <1>3, CrashMaps DEF Promise!Next
<1>4. CASE Open
  BY <1>4, OpenMaps DEF Promise!Next
<1>5. CASE Rest \/ UNCHANGED vars
  BY <1>5, StillMaps
<1> QED
  BY <1>1, <1>2, <1>3, <1>4, <1>5 DEF Next

(* Index.ImplementsStore: every write call takes effect once, as a whole,   *)
(* between its call and its return, with the outcome its caller is told;    *)
(* crashes, reopenings, snapshots and purges change nothing.                *)
THEOREM StoreImplemented == ASSUME Environment PROVE Spec => ImplementsStore
<1>1. Init => Promise!Init
  BY InitStore
<1>2. Inv /\ Inv' /\ [Next]_vars => [Promise!Next]_(Promise!storeVars)
  BY StoreStep
<1> QED
  BY <1>1, <1>2, InvCorrect, PTL DEF Spec, ImplementsStore, Promise!Spec
=============================================================================
