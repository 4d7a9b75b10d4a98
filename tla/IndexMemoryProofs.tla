------------------------- MODULE IndexMemoryProofs -------------------------
(***************************************************************************)
(* Index, what is registered and what memory holds: an object stays        *)
(* registered under the thread that is in it, and memory is what the live   *)
(* rows say but for the write under way.  Also what Inv says of the         *)
(* properties of the runs.                                                 *)
(***************************************************************************)
EXTENDS IndexTypeProofs

-----------------------------------------------------------------------------
(* The collections dict.                                                    *)
LEMMA RegisteredUnique ==
  ASSUME OneEntry
  PROVE  /\ \A ns : \A c, d \in Registered(ns) : c = d
         /\ \A m, n : \A c \in Registered(m) : c \in Registered(n) => m = n
BY DEF OneEntry, Registered

LEMMA AppendRegisters ==
  ASSUME collections \in Seq(Entry), NEW e \in Entry, collections' = Append(collections, e)
  PROVE  \A ns : Registered(ns)' = Registered(ns) \cup (IF ns = e.ns THEN {e.coll} ELSE {})
<1> SUFFICES ASSUME NEW ns
             PROVE  Registered(ns)' = Registered(ns) \cup (IF ns = e.ns THEN {e.coll} ELSE {})
  OBVIOUS
<1>1. /\ Len(collections) \in Nat /\ DOMAIN collections = 1 .. Len(collections)
      /\ DOMAIN collections' = 1 .. Len(collections) + 1
      /\ \A k \in DOMAIN collections : collections'[k] = collections[k]
      /\ collections'[Len(collections) + 1] = e
  BY AppendProperties, LenProperties
<1>2. \A k \in DOMAIN collections' : k \in DOMAIN collections \/ k = Len(collections) + 1
  BY <1>1
<1>3. DOMAIN collections \subseteq DOMAIN collections' /\ Len(collections) + 1 \in DOMAIN collections'
  BY <1>1
<1> QED
  BY <1>1, <1>2, <1>3 DEF Registered

LEMMA RemoveUnregisters ==
  ASSUME collections \in Seq(Entry), OneEntry, NEW k \in DOMAIN collections,
         collections' = RemoveAt(collections, k)
  PROVE  \A ns : Registered(ns)' = IF ns = collections[k].ns THEN {} ELSE Registered(ns)
<1> SUFFICES ASSUME NEW ns
             PROVE  Registered(ns)' = IF ns = collections[k].ns THEN {} ELSE Registered(ns)
  OBVIOUS
<1>1. /\ Len(collections) \in Nat /\ DOMAIN collections = 1 .. Len(collections)
      /\ DOMAIN collections' = 1 .. Len(collections) - 1
      /\ \A j \in 1 .. Len(collections) - 1 :
           collections'[j] = IF j < k THEN collections[j] ELSE collections[j + 1]
  BY RemoveAtFacts, LenProperties
<1>2. \A j \in DOMAIN collections' : \E m \in DOMAIN collections :
        m # k /\ collections'[j] = collections[m]
  BY <1>1
<1>3. \A m \in DOMAIN collections : m # k =>
        \E j \in DOMAIN collections' : collections'[j] = collections[m]
  <2> SUFFICES ASSUME NEW m \in DOMAIN collections, m # k
               PROVE  \E j \in DOMAIN collections' : collections'[j] = collections[m]
    OBVIOUS
  <2>1. CASE m < k
    BY <1>1, <2>1
  <2>2. CASE ~ (m < k)
    <3>1. m - 1 \in DOMAIN collections' /\ ~ (m - 1 < k) /\ (m - 1) + 1 = m
      BY <1>1, <2>2
    <3> QED
      BY <1>1, <3>1
  <2> QED
    BY <2>1, <2>2
<1>4. CASE ns = collections[k].ns
  <2>1. \A j \in DOMAIN collections' : collections'[j].ns # ns
    BY <1>2, <1>4 DEF OneEntry
  <2> QED
    BY <1>4, <2>1 DEF Registered
<1>5. CASE ns # collections[k].ns
  <2>1. ASSUME NEW c \in Registered(ns)' PROVE c \in Registered(ns)
    BY <1>2, <2>1 DEF Registered
  <2>2. ASSUME NEW c \in Registered(ns) PROVE c \in Registered(ns)'
    BY <1>3, <1>5, <2>2 DEF Registered
  <2> QED
    BY <1>5, <2>1, <2>2
<1> QED
  BY <1>4, <1>5

(* How the dict changes: a call adds a namespace, deleteAll pops its own,   *)
(* a process that dies or starts replaces it.                               *)
LEMMA CollectionsFrame ==
  ASSUME [Next]_vars
  PROVE  \/ UNCHANGED collections
         \/ \E t \in Client : Call(t) \/ PopNamespace(t)
         \/ Crash \/ Open
BY DEF Next, ClientStep, SnapshotStep, Rest, vars, collVars, AcquireWrite, Begin,
       CommitWrite, StorageFails, Apply, DropSaveSeq, DropRows, RemoveSnapshot,
       SnapshotStart, SnapshotNext, SnapshotSave, SnapshotPublish, SnapshotFails,
       SnapshotDone, SnapshotPurge

LEMMA PopRegistered ==
  ASSUME TypeOK, OneEntry, NEW t \in Client, PopNamespace(t)
  PROVE  \A ns : Registered(ns)' = IF ns = job[t].ns THEN {} ELSE Registered(ns)
<1>1. collections \in Seq(Entry)
  BY DEF TypeOK
<1>2. CASE Registered(job[t].ns) = {} /\ UNCHANGED collections
  BY <1>2 DEF Registered
<1>3. CASE \E k \in DOMAIN collections : /\ collections[k].ns = job[t].ns
                                         /\ collections' = RemoveAt(collections, k)
  BY <1>1, <1>3, RemoveUnregisters
<1> QED
  BY <1>2, <1>3 DEF PopNamespace

(* What a call leaves registered: its own object, and everything that was.  *)
LEMMA CallRegistered ==
  ASSUME TypeOK, NEW t \in Client, Call(t)
  PROVE  \E r \in Request, c \in Coll :
           /\ r.client = t /\ r.ns \in Ns /\ job' = [job EXCEPT ![t] = JobFor(c, r)]
           /\ JobFor(c, r).coll = c /\ JobFor(c, r).ns = r.ns
           /\ JobFor(c, r).op = r.op /\ JobFor(c, r).recs = r.recs
           /\ c \in Registered(r.ns)'
           /\ \A ns : ns # r.ns => Registered(ns)' = Registered(ns)
           /\ \/ Registered(r.ns)' = Registered(r.ns) /\ UNCHANGED mem /\ UNCHANGED collections
              \/ /\ Registered(r.ns) = {} /\ Registered(r.ns)' = {c} /\ c \notin InUse
                 /\ collections' = Append(collections, [ns |-> r.ns, coll |-> c])
                 /\ mem' = [mem EXCEPT ![c] = Empty]
<1>1. PICK r \in Request, c \in Coll :
        /\ r.client = t /\ job' = [job EXCEPT ![t] = JobFor(c, r)]
        /\ \/ c \in Registered(r.ns) /\ UNCHANGED <<collections, mem>>
           \/ /\ r.op = "upsert" /\ Registered(r.ns) = {} /\ c \notin InUse
              /\ collections' = Append(collections, [ns |-> r.ns, coll |-> c])
              /\ mem' = [mem EXCEPT ![c] = Empty]
  BY CallFacts
<1>2. /\ r.ns \in Ns /\ JobFor(c, r).coll = c /\ JobFor(c, r).ns = r.ns
      /\ JobFor(c, r).op = r.op /\ JobFor(c, r).recs = r.recs
  BY JobFacts
<1>3. CASE c \in Registered(r.ns) /\ UNCHANGED <<collections, mem>>
  <2>1. \A ns : Registered(ns)' = Registered(ns)
    BY <1>3 DEF Registered
  <2> QED
    BY <1>1, <1>2, <1>3, <2>1
<1>4. CASE /\ Registered(r.ns) = {} /\ c \notin InUse
           /\ collections' = Append(collections, [ns |-> r.ns, coll |-> c])
           /\ mem' = [mem EXCEPT ![c] = Empty]
  <2> DEFINE e == [ns |-> r.ns, coll |-> c]
  <2>1. e \in Entry /\ e.ns = r.ns /\ e.coll = c
    BY <1>2 DEF Entry
  <2>2. collections \in Seq(Entry) /\ collections' = Append(collections, e)
    BY <1>4 DEF TypeOK
  <2> HIDE DEF e
  <2>3. \A ns : Registered(ns)' = Registered(ns) \cup (IF ns = r.ns THEN {c} ELSE {})
    BY <2>1, <2>2, AppendRegisters
  <2> QED
    BY <1>1, <1>2, <1>4, <2>3
<1> QED
  BY <1>1, <1>3, <1>4

(* No namespace gets two objects and no object two namespaces.              *)
LEMMA OneEntryStep == ASSUME Base, OneEntry, [Next]_vars PROVE OneEntry'
<1> /\ TypeOK /\ collections \in Seq(Entry) /\ Len(collections) \in Nat
    /\ DOMAIN collections = 1 .. Len(collections)
  BY LenProperties DEF Base, TypeOK
<1>1. CASE UNCHANGED collections
  BY <1>1 DEF OneEntry
<1>2. ASSUME NEW t \in Client, Call(t) PROVE OneEntry'
  <2>1. PICK r \in Request, c \in Coll :
           \/ UNCHANGED collections
           \/ /\ r.ns \in Ns /\ Registered(r.ns) = {} /\ c \notin InUse
              /\ collections' = Append(collections, [ns |-> r.ns, coll |-> c])
    BY <1>2, CallRegistered
  <2>2. CASE /\ r.ns \in Ns /\ Registered(r.ns) = {} /\ c \notin InUse
             /\ collections' = Append(collections, [ns |-> r.ns, coll |-> c])
    <3> DEFINE e == [ns |-> r.ns, coll |-> c]
    <3>1. e \in Entry /\ e.ns = r.ns /\ e.coll = c
      BY <2>2 DEF Entry
    <3>2. \A k \in DOMAIN collections : collections[k].ns # r.ns /\ collections[k].coll # c
      BY <2>2 DEF Registered, InUse
    <3>3. collections' = Append(collections, e)
      BY <2>2
    <3> HIDE DEF e
    <3>4. /\ DOMAIN collections' = 1 .. Len(collections) + 1
          /\ \A k \in DOMAIN collections : collections'[k] = collections[k]
          /\ collections'[Len(collections) + 1] = e
      BY <3>1, <3>3, AppendProperties, LenProperties
    <3>5. \A k \in DOMAIN collections' : k \in DOMAIN collections \/ k = Len(collections) + 1
      BY <3>4
    <3> QED
      BY <3>1, <3>2, <3>4, <3>5 DEF OneEntry
  <2> QED
    BY <1>1, <2>1, <2>2
<1>3. ASSUME NEW t \in Client, PopNamespace(t) PROVE OneEntry'
  <2>1. CASE UNCHANGED collections
    BY <1>1, <2>1
  <2>2. ASSUME NEW k \in DOMAIN collections, collections' = RemoveAt(collections, k)
        PROVE  OneEntry'
    <3>1. /\ DOMAIN collections' = 1 .. Len(collections) - 1
          /\ \A j \in 1 .. Len(collections) - 1 :
               collections'[j] = IF j < k THEN collections[j] ELSE collections[j + 1]
      BY <2>2, RemoveAtFacts, LenProperties
    <3> DEFINE From(j) == IF j < k THEN j ELSE j + 1
    <3>2. \A j \in DOMAIN collections' :
            From(j) \in DOMAIN collections /\ collections'[j] = collections[From(j)]
      BY <3>1
    <3>3. \A i, j \in DOMAIN collections' : From(i) = From(j) => i = j
      BY <3>1
    <3> HIDE DEF From
    <3> QED
      BY <3>2, <3>3 DEF OneEntry
  <2> QED
    BY <1>3, <2>1, <2>2 DEF PopNamespace
<1>4. CASE Crash
  BY <1>4 DEF Crash, OneEntry
<1>5. CASE Open
  <2>1. CASE up' = "failed"
    BY <1>1, <1>5, <2>1 DEF Open
  <2>2. CASE up' # "failed"
    BY <1>5, <2>2, OpenFacts DEF OneEntry
  <2> QED
    BY <2>1, <2>2
<1> QED
  BY <1>1, <1>2, <1>3, <1>4, <1>5, CollectionsFrame

(* A namespace that is being dropped has no other caller.                   *)
LEMMA SameCaller ==
  ASSUME Base, DropsAlone, NEW t \in Client, pc[t] \in {"drop", "drop_rows", "pop", "rmtree"}
  PROVE  /\ \A u \in Client : pc[u] # "idle" /\ job[u].ns = job[t].ns => u = t
         /\ \A r \in Request : r.ns = job[t].ns => r.client = t
<1>1. job[t].op = "delete_all"
  BY DEF Base, Places, Paths
<1>2. \A u \in Client : pc[u] # "idle" =>
        \E r \in Request : r.client = u /\ r.op = job[u].op /\ r.ns = job[u].ns
  BY BusyFacts DEF Base, Places
<1>3. PICK own \in Request : own.client = t /\ own.op = "delete_all" /\ own.ns = job[t].ns
  BY <1>1, <1>2
<1> QED
  BY <1>2, <1>3 DEF DropsAlone

(* What is inside a collection is inside the one its namespace has.         *)
LEMMA InsideAlone ==
  ASSUME Base, Objects, NEW t \in Client, pc[t] \in Inside, pc[t] # "rmtree"
  PROVE  /\ job[t].coll \in Registered(job[t].ns) /\ lock[job[t].coll] = t
         /\ \A u \in Client : pc[u] \in Inside /\ job[u].coll = job[t].coll => u = t
         /\ \A u \in Client : pc[u] \in Inside /\ pc[u] # "rmtree" /\ job[u].ns = job[t].ns => u = t
         /\ pc[Snapshotter] \in {"save", "publish"} => Head(todo).ns # job[t].ns
<1> USE ThreadFacts DEF Inside
<1>1. job[t].coll \in Registered(job[t].ns) /\ lock[job[t].coll] = t
  BY DEF Base, Places, ClientLocks, Objects, StillRegistered
<1>2. \A u \in Client : pc[u] \in Inside => lock[job[u].coll] = u
  BY DEF Base, Places, ClientLocks
<1>3. \A c, d \in Registered(job[t].ns) : c = d
  BY RegisteredUnique DEF Objects
<1>4. \A u \in Client : pc[u] \in Inside /\ pc[u] # "rmtree" => job[u].coll \in Registered(job[u].ns)
  BY DEF Objects, StillRegistered
<1>5. pc[Snapshotter] \in {"save", "publish"} =>
        /\ lock[Head(todo).coll] = Snapshotter
        /\ Head(todo).coll \in Registered(Head(todo).ns)
  BY DEF Base, Places, SnapshotLock, Objects, StillRegistered
<1>6. \A u \in Client : pc[u] \in Inside /\ pc[u] # "rmtree" /\ job[u].ns = job[t].ns => u = t
  BY <1>1, <1>2, <1>3, <1>4
<1>7. pc[Snapshotter] \in {"save", "publish"} => Head(todo).ns # job[t].ns
  BY <1>1, <1>3, <1>5
<1> QED
  BY <1>1, <1>2, <1>6, <1>7

(* Nobody pops an object under another thread: a drop is its client's own,  *)
(* and holds the lock.                                                      *)
LEMMA StillRegisteredStep ==
  ASSUME Base, Base', DropsAlone, Objects, [Next]_vars
  PROVE  StillRegistered'
<1> USE ThreadFacts
<1> /\ pc \in [Thread -> ClientPlace \cup SnapshotPlace]
    /\ job \in [Client -> Job \cup {NoJob}] /\ TypeOK
    /\ \A t \in Client : pc[t] \in ClientPlace
    /\ pc[Snapshotter] \in SnapshotPlace
  BY DEF Base, TypeOK
<1>1. ASSUME NEW t \in Client, Call(t) PROVE StillRegistered'
  <2>1. PICK r \in Request, c \in Coll :
           /\ r.client = t /\ job' = [job EXCEPT ![t] = JobFor(c, r)]
           /\ JobFor(c, r).coll = c /\ JobFor(c, r).ns = r.ns
           /\ c \in Registered(r.ns)'
           /\ \A ns : ns # r.ns => Registered(ns)' = Registered(ns)
           /\ Registered(r.ns)' = Registered(r.ns) \/ Registered(r.ns) = {}
    BY <1>1, CallRegistered
  <2>2. pc' = [pc EXCEPT ![t] = "lock"] /\ todo' = todo
    BY <1>1 DEF Call, GoTo, snapVars
  <2>3. \A ns : Registered(ns) \subseteq Registered(ns)'
    BY <2>1
  <2>4. ASSUME NEW u \in Client, pc'[u] \notin {"idle", "rmtree"}
        PROVE  job'[u].coll \in Registered(job[u].ns)'
    <3>1. CASE u = t
      BY <2>1, <3>1
    <3>2. CASE u # t
      BY <2>1, <2>2, <2>3, <2>4, <3>2 DEF Objects, StillRegistered
    <3> QED
      BY <3>1, <3>2
  <2>5. ASSUME NEW u \in Client, pc'[u] = "rmtree"
        PROVE  Registered(job[u].ns)' = {}
    <3>1. u # t /\ pc[u] = "rmtree" /\ job'[u] = job[u]
      BY <2>1, <2>2, <2>5
    <3>2. r.ns # job[u].ns
      BY <2>1, <3>1, SameCaller
    <3> QED
      BY <2>1, <3>1, <3>2 DEF Objects, StillRegistered
  <2>6. pc'[Snapshotter] \in {"save", "publish"} =>
          Head(todo').coll \in Registered(Head(todo).ns)'
    BY <2>2, <2>3 DEF Objects, StillRegistered
  <2> QED
    BY <2>4, <2>5, <2>6 DEF StillRegistered
<1>2. ASSUME NEW t \in Client, PopNamespace(t) PROVE StillRegistered'
  <2>1. \A ns : Registered(ns)' = IF ns = job[t].ns THEN {} ELSE Registered(ns)
    BY <1>2, PopRegistered DEF Objects
  <2>2. /\ pc[t] = "pop" /\ pc' = [pc EXCEPT ![t] = "rmtree"] /\ job' = job /\ todo' = todo
    BY <1>2 DEF PopNamespace, GoTo, snapVars
  <2>3. ASSUME NEW u \in Client, pc'[u] \notin {"idle", "rmtree"}
        PROVE  job'[u].coll \in Registered(job[u].ns)'
    <3>1. u # t /\ pc[u] = pc'[u]
      BY <2>2, <2>3
    <3>2. job[u].ns # job[t].ns
      BY <2>2, <2>3, <3>1, SameCaller
    <3> QED
      BY <2>1, <2>2, <2>3, <3>1, <3>2 DEF Objects, StillRegistered
  <2>4. ASSUME NEW u \in Client, pc'[u] = "rmtree"
        PROVE  Registered(job[u].ns)' = {}
    BY <2>1, <2>2, <2>4 DEF Objects, StillRegistered
  <2>5. ASSUME pc'[Snapshotter] \in {"save", "publish"}
        PROVE  Head(todo').coll \in Registered(Head(todo).ns)'
    <3>1. Head(todo).ns # job[t].ns
      BY <2>2, <2>5, InsideAlone DEF Inside
    <3> QED
      BY <2>1, <2>2, <2>5, <3>1 DEF Objects, StillRegistered
  <2> QED
    BY <2>3, <2>4, <2>5 DEF StillRegistered
<1>3. CASE Crash
  BY <1>3 DEF Crash, StillRegistered
<1>4. CASE Open
  <2>1. \A t \in Thread : pc'[t] = "idle"
    BY <1>4 DEF Open, clientVars, Base, Places, Down
  <2> QED
    BY <2>1 DEF StillRegistered
<1>5. CASE UNCHANGED collections /\ ~Crash /\ ~Open /\ ~ \E t \in Client : Call(t) \/ PopNamespace(t)
  <2>1. \A ns : Registered(ns)' = Registered(ns)
    BY <1>5 DEF Registered
  <2>2. ASSUME NEW t \in Client, pc'[t] # "idle" PROVE job'[t] = job[t] /\ pc[t] # "idle"
    <3>1. pc[t] # "idle"
      BY <1>5, <2>2
      DEF Next, ClientStep, SnapshotStep, Rest, vars, clientVars, GoTo, Leave, AcquireWrite,
          Begin, CommitWrite, StorageFails, Apply, DropSaveSeq, DropRows, RemoveSnapshot,
          SnapshotStart, SnapshotNext, SnapshotSave, SnapshotPublish, SnapshotFails,
          SnapshotDone, SnapshotPurge
    <3> QED
      BY <2>2, <3>1, JobKept
  <2>3. ASSUME NEW t \in Client PROVE (pc'[t] = "rmtree") => (pc[t] = "rmtree")
    BY <1>5
    DEF Next, ClientStep, SnapshotStep, Rest, vars, clientVars, GoTo, Leave, AcquireWrite,
        Begin, CommitWrite, StorageFails, Apply, DropSaveSeq, DropRows, RemoveSnapshot,
        SnapshotStart, SnapshotNext, SnapshotSave, SnapshotPublish, SnapshotFails,
        SnapshotDone, SnapshotPurge
  <2>4. ASSUME NEW t \in Client, pc[t] = "rmtree" PROVE pc'[t] \in {"rmtree", "idle"}
    BY <1>5, <2>4
    DEF Next, ClientStep, SnapshotStep, Rest, vars, clientVars, GoTo, Leave, AcquireWrite,
        Begin, CommitWrite, StorageFails, Apply, DropSaveSeq, DropRows, RemoveSnapshot,
        SnapshotStart, SnapshotNext, SnapshotSave, SnapshotPublish, SnapshotFails,
        SnapshotDone, SnapshotPurge
  <2>5. ASSUME pc'[Snapshotter] \in {"save", "publish"}
        PROVE  todo' = todo /\ Head(todo).coll \in Registered(Head(todo).ns)
    <3>1. ASSUME NEW t \in Client, ClientStep(t)
          PROVE  pc'[Snapshotter] = pc[Snapshotter] /\ todo' = todo
      BY <3>1
      DEF ClientStep, GoTo, Leave, Call, AcquireWrite, Begin, CommitWrite, StorageFails, Apply,
          DropSaveSeq, DropRows, PopNamespace, RemoveSnapshot, snapVars
    <3>2. CASE SnapshotStep
      BY <2>5, <3>2
      DEF SnapshotStep, GoTo, SnapshotStart, SnapshotNext, SnapshotSave, SnapshotPublish,
          SnapshotFails, SnapshotDone, SnapshotPurge, Objects, StillRegistered
    <3>3. CASE UNCHANGED vars
      BY <2>5, <3>3 DEF vars, clientVars, snapVars, Objects, StillRegistered
    <3> QED
      BY <1>5, <2>5, <3>1, <3>2, <3>3 DEF Next, Rest, Objects, StillRegistered
  <2> QED
    BY <2>1, <2>2, <2>3, <2>4, <2>5 DEF StillRegistered, Objects
<1> QED
  BY <1>1, <1>2, <1>3, <1>4, <1>5, CollectionsFrame
-----------------------------------------------------------------------------
(* Live rows: a commit lays its changes over them, deleteAll empties them,  *)
(* and nothing else touches them, a purge least of all.                     *)
LEMMA LiveType == ASSUME Base, NEW ns \in Ns PROVE Live(rows[ns]) \in Contents
<1>1. \A i \in Id : /\ rows[ns][i] \in Row
                    /\ ~rows[ns][i].deleted => rows[ns][i].val \in Val
  BY DEF Base, TypeOK, Vectors
<1>2. \A i \in Id : LiveRow(rows[ns][i]) \in Rec \cup {Absent}
  BY <1>1 DEF LiveRow, Row, Rec
<1> QED
  BY <1>2 DEF Live, Contents

LEMMA WrittenLive ==
  ASSUME Base, NEW t \in Client, pc[t] = "commit", NEW i \in DOMAIN Changes(t),
         mem[job[t].coll] = Live(rows[job[t].ns])
  PROVE  LiveRow(Written(t, i)) = Changes(t)[i]
<1> DEFINE row == rows[job[t].ns][i]
           now == mem[job[t].coll][i]
           new == Changes(t)[i]
<1>1. /\ job[t].ns \in Ns /\ i \in Id /\ i \in Ids(t) /\ job[t].recs \in Recs
      /\ job[t].op \in {"upsert", "update", "set_metadata", "delete"}
      /\ \E r \in Request : r.op = job[t].op /\ r.recs = job[t].recs
  BY BusyFacts, ChangesFacts DEF Base, Places
<1>2. row \in Row /\ now = LiveRow(row)
  BY <1>1 DEF Base, TypeOK, Live
<1>3. CASE job[t].op \in {"upsert", "update"}
  <2>1. new \in Rec
    BY <1>3, ChangesFacts DEF Base, Places
  <2>2. Written(t, i) = [val |-> new.val, meta |-> new.meta, seq |-> seq, deleted |-> FALSE]
    BY <1>3 DEF Written
  <2> HIDE DEF new
  <2> QED
    BY <2>1, <2>2 DEF LiveRow, Rec, new
<1>4. CASE job[t].op = "set_metadata"
  <2>1. now \in Rec /\ new = Merged(now, job[t].recs[i])
    BY <1>1, <1>4, ChangesFacts DEF Base, Places
  <2>2. job[t].recs[i].val = Null
    BY <1>1, <1>4, RequestsAreCalls DEF Ids
  <2>3. ~row.deleted /\ now = [val |-> row.val, meta |-> row.meta]
    BY <1>2, <2>1, NullIsNoVector DEF LiveRow, Rec, Absent
  <2>4. row # NoRow
    BY <2>3 DEF NoRow
  <2>5. Written(t, i) = [row EXCEPT !.meta = new.meta, !.seq = seq]
    BY <1>4, <2>4 DEF Written
  <2>6. new.val = row.val /\ new = [val |-> new.val, meta |-> new.meta]
    BY <2>1, <2>2, <2>3 DEF Merged
  <2> HIDE DEF new, now, row
  <2>7. LiveRow(Written(t, i)) = [val |-> row.val, meta |-> new.meta]
    BY <1>2, <2>3, <2>5 DEF LiveRow, Row
  <2> QED
    BY <2>6, <2>7 DEF new
<1>5. CASE job[t].op = "delete"
  <2>1. i \in Present(mem[job[t].coll]) /\ new = Absent
    BY <1>5, ChangesFacts DEF Base, Places
  <2>2. ~row.deleted
    BY <1>2, <2>1 DEF Present, LiveRow
  <2>3. Written(t, i) = [val |-> Null, meta |-> {}, seq |-> seq, deleted |-> TRUE]
    BY <1>5, <2>2 DEF Written
  <2> QED
    BY <2>1, <2>3 DEF LiveRow
<1> QED
  BY <1>1, <1>3, <1>4, <1>5

(* The live rows after a commit are what the call asked for, laid over what *)
(* was in memory.                                                           *)
LEMMA CommitLive ==
  ASSUME Base, NEW t \in Client, CommitWrite(t), mem[job[t].coll] = Live(rows[job[t].ns])
  PROVE  Live(rows[job[t].ns])' = Overlay(Changes(t), mem[job[t].coll])
<1>1. /\ job[t].ns \in Ns /\ job'[t] = job[t] /\ pc[t] = "commit"
  BY BusyFacts DEF CommitWrite, Base, Places
<1>2. rows' = [ns \in Ns |-> [i \in Id |-> IF ns = job[t].ns /\ i \in DOMAIN Changes(t)
                                           THEN Written(t, i) ELSE rows[ns][i]]]
  BY CommitFacts DEF Base, Places
<1>3. \A i \in Id : LiveRow(rows'[job[t].ns][i]) = IF i \in DOMAIN Changes(t)
                                                   THEN Changes(t)[i] ELSE mem[job[t].coll][i]
  <2> SUFFICES ASSUME NEW i \in Id
               PROVE  LiveRow(rows'[job[t].ns][i]) = IF i \in DOMAIN Changes(t)
                                                     THEN Changes(t)[i] ELSE mem[job[t].coll][i]
    OBVIOUS
  <2>1. CASE i \in DOMAIN Changes(t)
    BY <1>1, <1>2, <2>1, WrittenLive
  <2>2. CASE i \notin DOMAIN Changes(t)
    BY <1>1, <1>2, <2>2 DEF Live
  <2> QED
    BY <2>1, <2>2
<1> QED
  BY <1>1, <1>3 DEF Live, Overlay

(* Dropped or purged rows were not live, or are the dropped namespace's.    *)
LEMMA PurgeLive ==
  ASSUME Base, NEW m, rows' = Purged(m), NEW ns \in Ns
  PROVE  /\ Live(rows[ns])' = Live(rows[ns])
         /\ \A i \in Id : rows[ns][i] = NoRow => rows'[ns][i] = NoRow
<1>1. \A i \in Id : rows'[ns][i] = IF rows[ns][i].deleted /\ rows[ns][i].seq <= m
                                   THEN NoRow ELSE rows[ns][i]
  BY DEF Purged
<1>2. \A i \in Id : LiveRow(rows'[ns][i]) = LiveRow(rows[ns][i])
  BY <1>1 DEF LiveRow, NoRow
<1> QED
  BY <1>1, <1>2 DEF Live, NoRow

LEMMA DropFacts ==
  ASSUME Base, NEW t \in Client, DropRows(t)
  PROVE  /\ \A i \in Id : rows'[job[t].ns][i] = NoRow
         /\ \A ns \in Ns : ns # job[t].ns => rows'[ns] = rows[ns]
         /\ Live(rows[job[t].ns])' = Empty
<1>1. job[t].ns \in Ns /\ job'[t] = job[t]
  BY BusyFacts DEF DropRows, Base, Places
<1>2. rows' = [rows EXCEPT ![job[t].ns] = [i \in Id |-> NoRow]]
  BY DEF DropRows, Commit, Dropped
<1>3. /\ \A i \in Id : rows'[job[t].ns][i] = NoRow
      /\ \A ns \in Ns : ns # job[t].ns => rows'[ns] = rows[ns]
  BY <1>1, <1>2 DEF Base, TypeOK
<1>4. \A i \in Id : LiveRow(rows'[job[t].ns][i]) = Absent
  BY <1>3 DEF LiveRow, NoRow
<1>5. Live(rows[job[t].ns])' = Empty
  BY <1>1, <1>4 DEF Live, Empty
<1> QED
  BY <1>3, <1>5

LEMMA LiveFrame ==
  ASSUME Base, [Next]_vars, NEW ns \in Ns,
         \A t \in Client : CommitWrite(t) \/ DropRows(t) => job[t].ns # ns
  PROVE  Live(rows[ns])' = Live(rows[ns])
<1>1. CASE rows' = rows
  BY <1>1
<1>2. ASSUME NEW t \in Client, CommitWrite(t) PROVE Live(rows[ns])' = Live(rows[ns])
  <2>1. job[t].ns # ns
    BY <1>2
  <2>2. \A i \in Id : rows'[ns][i] = rows[ns][i]
    BY <1>2, <2>1, CommitFacts DEF Base, Places
  <2> QED
    BY <2>2 DEF Live
<1>3. ASSUME NEW t \in Client, DropRows(t) PROVE Live(rows[ns])' = Live(rows[ns])
  BY <1>3, DropFacts
<1>4. CASE SnapshotPurge
  BY <1>4, PurgeLive DEF SnapshotPurge, Commit
<1>5. CASE SnapshotDone
  BY <1>1, <1>5 DEF SnapshotDone, SaveSeq, storageVars
<1>6. ASSUME NEW t \in Client, DropSaveSeq(t) PROVE Live(rows[ns])' = Live(rows[ns])
  BY <1>1, <1>6 DEF DropSaveSeq, SaveSeq
<1> QED
  BY <1>1, <1>2, <1>3, <1>4, <1>5, <1>6, TableFrame
-----------------------------------------------------------------------------
(* What the invariant says of the properties the runs check.                *)
LEMMA LoadedIsLive ==
  ASSUME Base, DroppedRows, SnapshotsGood, NEW ns \in Ns
  PROVE  Loaded(ns) = Live(rows[ns])
<1>1. CASE ns \notin NamespacesWithRows
  <2>1. \A i \in Id : LiveRow(rows[ns][i]) = Absent
    BY <1>1 DEF NamespacesWithRows, LiveRow, NoRow
  <2> QED
    BY <1>1, <2>1 DEF Loaded, Live, Empty
<1>2. CASE ns \in NamespacesWithRows /\ ~snap[ns].saved
  BY <1>2 DEF Loaded, Recovered
<1>3. CASE ns \in NamespacesWithRows /\ snap[ns].saved
  <2>1. \A i \in Id : Covered(ns, i) => snap[ns].vals[i] = LiveRow(rows[ns][i]).val
    BY <1>3 DEF NamespacesWithRows, DroppedRows, SnapshotsGood
  <2>2. ASSUME NEW i \in Id, Covered(ns, i)
        PROVE  LiveRow(rows[ns][i]) = IF snap[ns].vals[i] = Null THEN Absent
                                      ELSE [val |-> snap[ns].vals[i],
                                            meta |-> MetadataAt(ns, snap[ns].seq, i)]
    <3>1. CASE rows[ns][i].deleted
      BY <2>1, <2>2, <3>1 DEF LiveRow, Absent
    <3>2. CASE ~rows[ns][i].deleted
      <4>1. rows[ns][i].val \in Val
        BY <3>2 DEF Base, Vectors
      <4>2. snap[ns].vals[i] = rows[ns][i].val /\ snap[ns].vals[i] # Null
        BY <2>1, <2>2, <3>2, <4>1, NullIsNoVector DEF LiveRow
      <4>3. MetadataAt(ns, snap[ns].seq, i) = rows[ns][i].meta
        BY <2>2, <3>2 DEF MetadataAt, Covered
      <4> QED
        BY <3>2, <4>2, <4>3 DEF LiveRow
    <3> QED
      BY <3>1, <3>2
  <2>3. Loaded(ns) = [i \in Id |->
          IF ~Covered(ns, i) THEN LiveRow(rows[ns][i])
          ELSE IF snap[ns].vals[i] = Null THEN Absent
          ELSE [val |-> snap[ns].vals[i],
                meta |-> MetadataAt(ns, snap[ns].seq, i)]]
    BY <1>3 DEF Loaded, Recovered
  <2> QED
    BY <2>2, <2>3 DEF Live
<1> QED
  BY <1>1, <1>2, <1>3

(* What the invariant says of recovery and of readers.                      *)
LEMMA InvProperties ==
  ASSUME Inv
  PROVE  InStep /\ SameResult /\ NewerWritesReplayed /\ MarkersOutliveSnapshots
<1> USE DEF Inv, Memory, Snapshots
<1>1. SameResult
  BY LoadedIsLive DEF SameResult
<1>2. InStep
  <2>1. \A t \in Client : Between(t) => lock[job[t].coll] = t
    BY DEF Between, Inside, Base, Places, ClientLocks
  <2> QED
    BY <2>1 DEF InStep, Unregistered, InMemory
<1>3. NewerWritesReplayed
  BY DEF NewerWritesReplayed, DroppedRows, SnapshotsGood, LiveRow, NoRow
<1>4. MarkersOutliveSnapshots
  <2> SUFFICES ASSUME NEW ns \in NamespacesWithRows, NEW i \in Id,
                      snap[ns].saved, snap[ns].vals[i] # Null, rows[ns][i] = NoRow
               PROVE  FALSE
    BY DEF MarkersOutliveSnapshots
  <2>1. ns \in Ns /\ ~Dropping(ns)
    BY DEF NamespacesWithRows, DroppedRows
  <2>2. Covered(ns, i)
    BY <2>1 DEF Covered, NoRow, Base, TypeOK
  <2> QED
    BY <2>1, <2>2 DEF SnapshotsGood, LiveRow, NoRow, Absent
<1> QED
  BY <1>1, <1>2, <1>3, <1>4

-----------------------------------------------------------------------------
(* Memory and rows, step by step.                                           *)
LEMMA NoTinyChange ==
  ASSUME Base, NoTiny, NEW t \in Client, pc[t] \in {"commit", "apply"},
         job[t].op \in {"upsert", "update"}, NEW i \in Ids(t)
  PROVE  i \in DOMAIN Changes(t) /\ Changes(t)[i].val \notin Tiny
<1>1. PICK r \in Request : r.op = job[t].op /\ r.recs = job[t].recs
  BY BusyFacts DEF Base, Places
<1>2. job[t].recs[i].val \in Val /\ job[t].recs[i].val \notin Tiny
  BY <1>1, RequestsAreCalls DEF NoTiny, Ids
<1>3. CASE job[t].op = "upsert"
  BY <1>2, <1>3, ChangesFacts DEF Base, Places, Ids
<1>4. CASE job[t].op = "update"
  <2>1. i \in DOMAIN Changes(t) /\ Changes(t)[i] = Merged(mem[job[t].coll][i], job[t].recs[i])
    BY <1>4, ChangesFacts DEF Base, Places
  <2> QED
    BY <1>2, <2>1, NullIsNoVector DEF Merged
<1> QED
  BY <1>3, <1>4

LEMMA NotRefused ==
  ASSUME Base, NoTiny, NEW t \in Client, pc[t] = "apply"
  PROVE  ~Refused(t)
BY NoTinyChange DEF Refused

LEMMA NoTinyRowStep == ASSUME Base, NoTiny, NoTinyRow, [Next]_vars PROVE NoTinyRow'
<1>1. CASE UNCHANGED rows
  BY <1>1 DEF NoTinyRow
<1>2. ASSUME NEW t \in Client, CommitWrite(t) PROVE NoTinyRow'
  <2>1. pc[t] = "commit" /\ job[t].ns \in Ns
    BY <1>2, BusyFacts DEF CommitWrite, Base, Places
  <2>2. rows' = [ns \in Ns |-> [i \in Id |-> IF ns = job[t].ns /\ i \in DOMAIN Changes(t)
                                             THEN Written(t, i) ELSE rows[ns][i]]]
    BY <1>2, CommitFacts DEF Base, Places
  <2>3. ASSUME NEW i \in DOMAIN Changes(t), ~Written(t, i).deleted
        PROVE  Written(t, i).val \notin Tiny
    <3>1. /\ i \in Ids(t) /\ i \in Id
          /\ job[t].op \in {"upsert", "update", "set_metadata", "delete"}
      BY <2>1, BusyFacts, ChangesFacts DEF Base, Places
    <3>2. CASE job[t].op \in {"upsert", "update"}
      <4>1. Written(t, i).val = Changes(t)[i].val
        BY <3>2 DEF Written
      <4> QED
        BY <2>1, <3>1, <3>2, <4>1, NoTinyChange
    <3>3. CASE job[t].op \notin {"upsert", "update"}
      <4>1. /\ rows[job[t].ns][i] \in Row
            /\ ~rows[job[t].ns][i].deleted => rows[job[t].ns][i].val \notin Tiny
        BY <2>1, <3>1 DEF NoTinyRow, Base, TypeOK
      <4>2. /\ Written(t, i).val = rows[job[t].ns][i].val
            /\ ~rows[job[t].ns][i].deleted
        BY <2>3, <3>1, <3>3, <4>1 DEF Written, Row
      <4> QED
        BY <4>1, <4>2
    <3> QED
      BY <3>2, <3>3
  <2> QED
    BY <2>2, <2>3 DEF NoTinyRow
<1>3. ASSUME NEW t \in Client, DropRows(t) PROVE NoTinyRow'
  <2>1. \A ns \in Ns, i \in Id : rows'[ns][i] \in {rows[ns][i], NoRow}
    BY <1>3, DropFacts
  <2> QED
    BY <2>1 DEF NoTinyRow, NoRow
<1>4. CASE SnapshotPurge
  BY <1>4 DEF SnapshotPurge, Commit, Purged, NoTinyRow, NoRow
<1>5. CASE SnapshotDone
  BY <1>1, <1>5 DEF SnapshotDone, SaveSeq, storageVars
<1>6. ASSUME NEW t \in Client, DropSaveSeq(t) PROVE NoTinyRow'
  BY <1>1, <1>6 DEF DropSaveSeq, SaveSeq
<1> QED
  BY <1>1, <1>2, <1>3, <1>4, <1>5, <1>6, TableFrame
(* Who moves a client between the commit and the end of its call.           *)
LEMMA PlaceFrame ==
  ASSUME Base, [Next]_vars, NEW t \in Client
  PROVE  /\ pc'[t] = "apply" => pc[t] = "apply" \/ CommitWrite(t)
         /\ pc'[t] = "pop" => pc[t] = "pop" \/ DropRows(t)
         /\ pc'[t] = "rmtree" => pc[t] = "rmtree" \/ PopNamespace(t)
         /\ pc'[t] = "commit" => pc[t] = "commit" \/ Begin(t)
         /\ pc[t] = "apply" => pc'[t] = "apply" \/ Apply(t) \/ Crash
         /\ pc[t] = "pop" => pc'[t] = "pop" \/ PopNamespace(t) \/ Crash
         /\ pc[t] = "rmtree" => pc'[t] = "rmtree" \/ RemoveSnapshot(t) \/ Crash
         /\ pc[t] = "commit" => pc'[t] = "commit" \/ CommitWrite(t) \/ StorageFails(t) \/ Crash
<1> pc \in [Thread -> ClientPlace \cup SnapshotPlace]
  BY DEF Base, TypeOK
<1> USE ThreadFacts
<1>1. ASSUME NEW u \in Client, ClientStep(u), u # t PROVE pc'[t] = pc[t]
  BY <1>1 DEF ClientStep, GoTo, Leave, Call, AcquireWrite, Begin, CommitWrite, StorageFails,
              Apply, DropSaveSeq, DropRows, PopNamespace, RemoveSnapshot
<1>2. CASE ClientStep(t)
  BY <1>2 DEF ClientStep, GoTo, Leave, Call, AcquireWrite, Begin, CommitWrite, StorageFails,
              Apply, DropSaveSeq, DropRows, PopNamespace, RemoveSnapshot
<1>3. SnapshotStep => pc'[t] = pc[t]
  BY DEF SnapshotStep, GoTo, SnapshotStart, SnapshotNext, SnapshotSave, SnapshotPublish,
         SnapshotFails, SnapshotDone, SnapshotPurge
<1>4. Crash => pc'[t] = "idle"
  BY DEF Crash
<1>5. Open \/ Rest \/ UNCHANGED vars => pc'[t] = pc[t]
  BY DEF Open, Rest, vars, clientVars
<1> QED
  BY <1>1, <1>2, <1>3, <1>4, <1>5 DEF Next

(* The index comes up by opening only.                                      *)
LEMMA UpFrame ==
  ASSUME [Next]_vars, up' = "up"
  PROVE  up = "up" \/ Open
BY DEF Next, ClientStep, SnapshotStep, Rest, vars, runVars, Call, AcquireWrite, Begin,
       CommitWrite, StorageFails, Apply, DropSaveSeq, DropRows, PopNamespace, RemoveSnapshot,
       SnapshotStart, SnapshotNext, SnapshotSave, SnapshotPublish, SnapshotFails,
       SnapshotDone, SnapshotPurge, Crash

LEMMA BusyUp == ASSUME Base, NEW t \in Thread, pc[t] # "idle" PROVE up = "up"
BY DEF Base, Places, Down

LEMMA EmptyContents == \A x \in Contents : Present(x) = {} => x = Empty
BY DEF Contents, Present, Empty

LEMMA OpenLive ==
  ASSUME Inv, Open, up' = "up", NEW ns \in Ns
  PROVE  /\ Live(rows[ns])' = Live(rows[ns])
         /\ Registered(ns)' = {} => Live(rows[ns]) = Empty
         /\ \A c \in Registered(ns)' : mem'[c] = Live(rows[ns])
<1>1. Live(rows[ns])' = Live(rows[ns])
  BY DEF Open, StorageOpen
<1>2. \A n \in Ns : Loaded(n) = Live(rows[n])
  BY LoadedIsLive DEF Inv, Memory, Snapshots
<1>3. Registered(ns)' = {} => Present(Loaded(ns)) = {}
  <2>1. Present(Loaded(ns)) # {} => \E k \in DOMAIN collections' : collections'[k].ns = ns
    BY OpenFacts DEF Inv
  <2> QED
    BY <2>1 DEF Registered
<1>4. Present(Loaded(ns)) = {} => Live(rows[ns]) = Empty
  BY <1>2, LoadedType, EmptyContents DEF Inv
<1>5. \A c \in Registered(ns)' : mem'[c] = Loaded(ns)
  <2>1. \A k \in DOMAIN collections' :
          mem'[collections'[k].coll] = Loaded(collections'[k].ns)
    BY OpenFacts DEF Inv
  <2> QED
    BY <2>1 DEF Registered
<1> QED
  BY <1>1, <1>2, <1>3, <1>4, <1>5

(* A commit or a drop is on the rows of the object its caller is in.        *)
LEMMA ChangedObject ==
  ASSUME Inv, NEW t \in Client, CommitWrite(t) \/ DropRows(t)
  PROVE  /\ job[t].coll \in Registered(job[t].ns) /\ pc[t] \in Inside /\ pc[t] # "rmtree"
         /\ up = "up" /\ ~ \E u \in Client : Between(u) /\ job[u].coll = job[t].coll
<1>1. pc[t] \in {"commit", "drop_rows"}
  BY DEF CommitWrite, DropRows
<1>2. up = "up"
  BY <1>1, BusyUp, ThreadFacts DEF Inv
<1> QED
  BY <1>1, <1>2, InsideAlone DEF Inv, Inside, Between

LEMMA UnregisteredStep ==
  ASSUME Inv, Base', DropsAlone, [Next]_vars
  PROVE  Unregistered'
<1> SUFFICES ASSUME up' = "up", NEW ns \in Ns, Registered(ns)' = {}
             PROVE  Live(rows[ns])' = Empty
  BY DEF Unregistered
<1>1. CASE Open
  BY <1>1, OpenLive
<1> SUFFICES ASSUME up = "up", ~Open PROVE Live(rows[ns])' = Empty
  BY <1>1, UpFrame
<1>2. Registered(ns) = {} => Live(rows[ns]) = Empty
  BY DEF Inv, Memory, Unregistered
<1>3. CASE UNCHANGED collections
  <2>1. Registered(ns) = {}
    BY <1>3 DEF Registered
  <2>2. \A t \in Client : CommitWrite(t) \/ DropRows(t) => job[t].ns # ns
    BY <2>1, ChangedObject
  <2> QED
    BY <1>2, <2>1, <2>2, LiveFrame DEF Inv
<1>4. ASSUME NEW t \in Client, Call(t) PROVE Live(rows[ns])' = Empty
  <2>1. rows' = rows
    BY <1>4 DEF Call, storageVars
  <2>2. PICK r \in Request, c \in Coll :
          /\ c \in Registered(r.ns)' /\ \A n : n # r.ns => Registered(n)' = Registered(n)
    BY <1>4, CallRegistered DEF Inv, Base
  <2> QED
    BY <1>2, <2>1, <2>2
<1>5. ASSUME NEW t \in Client, PopNamespace(t) PROVE Live(rows[ns])' = Empty
  <2>1. rows' = rows /\ pc[t] = "pop"
    BY <1>5 DEF PopNamespace, storageVars
  <2>2. Registered(ns)' = IF ns = job[t].ns THEN {} ELSE Registered(ns)
    BY <1>5, PopRegistered DEF Inv, Objects, Base
  <2>3. CASE ns = job[t].ns
    <3>1. \A i \in Id : LiveRow(rows[ns][i]) = Absent
      BY <2>1, <2>3 DEF Inv, Memory, DroppedRows, Dropping, LiveRow, NoRow
    <3> QED
      BY <2>1, <3>1 DEF Live, Empty
  <2> QED
    BY <1>2, <2>1, <2>2, <2>3
<1>6. CASE Crash
  BY <1>6 DEF Crash
<1> QED
  BY <1>3, <1>4, <1>5, <1>6, CollectionsFrame

(* Memory follows the rows: the one write in between holds the lock of its  *)
(* object, and applies exactly what it committed.                           *)
LEMMA InMemoryStep ==
  ASSUME Inv, Base', Objects', NoTiny, [Next]_vars
  PROVE  InMemory'
<1> SUFFICES ASSUME up' = "up", NEW ns \in Ns, NEW c \in Registered(ns)',
                    \A t \in Client : Between(t)' => job'[t].coll # c
             PROVE  mem'[c] = Live(rows[ns])'
  BY DEF InMemory
<1>1. CASE Open
  BY <1>1, OpenLive
<1> SUFFICES ASSUME up = "up", ~Open PROVE mem'[c] = Live(rows[ns])'
  BY <1>1, UpFrame
<1> USE ThreadFacts
<1> /\ pc \in [Thread -> ClientPlace \cup SnapshotPlace]
    /\ mem \in [Coll -> Contents] /\ TypeOK /\ OneEntry /\ Base
    /\ job \in [Client -> Job \cup {NoJob}]
  BY DEF Inv, Objects, Base, TypeOK
<1>2. ASSUME c \in Registered(ns), \A t \in Client : Between(t) => job[t].coll # c
      PROVE  mem[c] = Live(rows[ns])
  BY <1>2 DEF Inv, Memory, InMemory
<1>3. ~Crash
  BY DEF Crash
<1>4. ASSUME NEW t \in Client, Call(t) PROVE mem'[c] = Live(rows[ns])'
  <2>1. rows' = rows /\ pc' = [pc EXCEPT ![t] = "lock"]
    BY <1>4 DEF Call, storageVars, GoTo
  <2>2. PICK r \in Request, free \in Coll :
           /\ r.client = t /\ r.ns \in Ns /\ job' = [job EXCEPT ![t] = JobFor(free, r)]
           /\ JobFor(free, r).coll = free /\ JobFor(free, r).ns = r.ns
           /\ JobFor(free, r).op = r.op /\ JobFor(free, r).recs = r.recs
           /\ free \in Registered(r.ns)'
           /\ \A n : n # r.ns => Registered(n)' = Registered(n)
           /\ \/ Registered(r.ns)' = Registered(r.ns) /\ UNCHANGED mem /\ UNCHANGED collections
              \/ /\ Registered(r.ns) = {} /\ Registered(r.ns)' = {free} /\ free \notin InUse
                 /\ collections' = Append(collections, [ns |-> r.ns, coll |-> free])
                 /\ mem' = [mem EXCEPT ![free] = Empty]
    BY <1>4, CallRegistered, Zenon
  <2>3. \A u \in Client : Between(u) => job[u].coll # c
    <3>1. ASSUME NEW u \in Client, Between(u) PROVE u # t /\ pc'[u] = pc[u] /\ job'[u] = job[u]
      BY <1>4, <2>1, <2>2, <3>1 DEF Between, Call
    <3> QED
      BY <3>1 DEF Between
  <2>4. CASE c \in Registered(ns)
    <3>1. c \in InUse
      BY <2>4 DEF Registered, InUse
    <3>2. CASE mem' = mem
      BY <1>2, <2>1, <2>3, <2>4, <3>2
    <3>3. CASE free \notin InUse /\ mem' = [mem EXCEPT ![free] = Empty]
      <4>1. c # free /\ c \in Coll
        BY <2>4, <3>1, <3>3, RegisteredType
      <4>2. mem'[c] = mem[c]
        BY <3>3, <4>1
      <4> QED
        BY <1>2, <2>1, <2>3, <2>4, <4>2
    <3> QED
      BY <2>2, <3>2, <3>3
  <2>5. CASE c \notin Registered(ns)
    <3>1. ns = r.ns /\ c = free /\ mem' = [mem EXCEPT ![free] = Empty] /\ Registered(ns) = {}
      BY <2>2, <2>5
    <3>2. Live(rows[ns]) = Empty
      BY <3>1 DEF Inv, Memory, Unregistered
    <3> QED
      BY <2>1, <3>1, <3>2
  <2> QED
    BY <2>4, <2>5
<1>5. ASSUME NEW t \in Client, CommitWrite(t) \/ DropRows(t) PROVE mem'[c] = Live(rows[ns])'
  <2>1. /\ UNCHANGED <<collections, mem, job>> /\ pc'[t] \in {"apply", "pop"}
        /\ \A u \in Client : Between(u) => Between(u)'
    BY <1>5 DEF CommitWrite, DropRows, collVars, GoTo, Between
  <2>2. c # job[t].coll /\ c \in Registered(ns)
    BY <2>1 DEF Between, Registered
  <2>3. \A u \in Client : CommitWrite(u) \/ DropRows(u) => job[u].ns # ns
    <3>1. \A u \in Client : CommitWrite(u) \/ DropRows(u) => u = t
      BY <1>5 DEF CommitWrite, DropRows, Commit
    <3>2. job[t].ns # ns
      BY <1>5, <2>2, ChangedObject, RegisteredUnique
    <3> QED
      BY <3>1, <3>2
  <2> QED
    BY <1>2, <2>1, <2>2, <2>3, LiveFrame
<1>6. ASSUME NEW t \in Client, Apply(t) PROVE mem'[c] = Live(rows[ns])'
  <2>1. /\ UNCHANGED <<collections, rows>> /\ pc[t] = "apply" /\ ~Refused(t)
        /\ mem' = [mem EXCEPT ![job[t].coll] = Overlay(Changes(t), @)]
        /\ pc' = [pc EXCEPT ![t] = "idle"] /\ job' = [job EXCEPT ![t] = NoJob]
    <3>1. pc[t] = "apply"
      BY <1>6 DEF Apply
    <3> QED
      BY <1>6, <3>1, NotRefused DEF Apply, storageVars, Leave, GoTo
  <2>2. c \in Registered(ns) /\ job[t].coll \in Coll /\ job[t].coll \in Registered(job[t].ns)
    <3>1. c \in Registered(ns)
      BY <2>1 DEF Registered
    <3> QED
      BY <2>1, <3>1, InsideAlone, BusyFacts DEF Inside, Inv, Base, Places
  <2>3. CASE c = job[t].coll
    <3>1. ns = job[t].ns
      BY <2>2, <2>3, RegisteredUnique
    <3>2. Live(rows[ns]) = Overlay(Changes(t), mem[c])
      BY <2>1, <2>3, <3>1 DEF Inv, Memory, Applying
    <3> QED
      BY <2>1, <2>2, <2>3, <3>2
  <2>4. CASE c # job[t].coll
    <3>1. \A u \in Client : Between(u) => job[u].coll # c
      BY <2>1, <2>4 DEF Between
    <3>2. mem'[c] = mem[c]
      BY <2>1, <2>2, <2>4
    <3> QED
      BY <1>2, <2>1, <2>2, <3>1, <3>2
  <2> QED
    BY <2>3, <2>4
<1>7. ASSUME NEW t \in Client, PopNamespace(t) PROVE mem'[c] = Live(rows[ns])'
  <2>1. /\ UNCHANGED <<rows, mem, job>> /\ pc[t] = "pop"
        /\ pc' = [pc EXCEPT ![t] = "rmtree"]
    BY <1>7 DEF PopNamespace, storageVars, GoTo
  <2>2. Registered(ns)' = IF ns = job[t].ns THEN {} ELSE Registered(ns)
    BY <1>7, PopRegistered
  <2>3. ns # job[t].ns /\ c \in Registered(ns)
    BY <2>2
  <2>4. job[t].coll \in Registered(job[t].ns)
    BY <2>1, InsideAlone DEF Inside, Inv
  <2>5. c # job[t].coll
    BY <2>3, <2>4, RegisteredUnique
  <2>6. \A u \in Client : Between(u) => job[u].coll # c
    BY <2>1, <2>5 DEF Between
  <2> QED
    BY <1>2, <2>1, <2>3, <2>6
<1>8. CASE /\ UNCHANGED <<collections, mem>>
           /\ ~ \E t \in Client : \/ Call(t) \/ Apply(t) \/ PopNamespace(t)
                                  \/ CommitWrite(t) \/ DropRows(t)
  <2>1. c \in Registered(ns) /\ mem'[c] = mem[c]
    BY <1>8 DEF Registered
  <2>2. \A u \in Client : Between(u) => Between(u)'
    BY <1>3, <1>8, PlaceFrame DEF Between
  <2>3. \A u \in Client : Between(u) => job[u].coll # c
    <3>1. \A u \in Client : Between(u) => job'[u] = job[u]
      BY <2>2, JobKept DEF Between
    <3> QED
      BY <2>2, <3>1
  <2>4. Live(rows[ns])' = Live(rows[ns])
    BY <1>8, LiveFrame
  <2> QED
    BY <1>2, <2>1, <2>3, <2>4
<1> QED
  BY <1>3, <1>4, <1>5, <1>6, <1>7, <1>8, CollectionsFrame, MemFrame

(* Nothing disturbs the rows or the object between a commit and its apply.  *)
LEMMA ApplyingStep == ASSUME Inv, Base', NoTiny, [Next]_vars PROVE Applying'
<1> SUFFICES ASSUME NEW t \in Client, pc'[t] = "apply"
             PROVE  Live(rows[job[t].ns])' = Overlay(Changes(t)', mem'[job'[t].coll])
  BY DEF Applying
<1> USE ThreadFacts
<1> Base /\ Objects
  BY DEF Inv
<1>1. CASE CommitWrite(t)
  <2>1. pc[t] = "commit" /\ job' = job /\ mem' = mem
    BY <1>1 DEF CommitWrite, collVars
  <2>2. mem[job[t].coll] = Live(rows[job[t].ns])
    <3>1. job[t].ns \in Ns
      BY <2>1, BusyFacts DEF Base, Places
    <3> QED
      BY <1>1, <3>1, ChangedObject DEF Inv, Memory, InMemory
  <2>3. Changes(t)' = Changes(t)
    BY <2>1 DEF Changes, Ids
  <2> QED
    BY <1>1, <2>1, <2>2, <2>3, CommitLive
<1>2. CASE pc[t] = "apply"
  <2>1. job'[t] = job[t]
    BY <1>2, JobKept
  <2>2. mem'[job[t].coll] = mem[job[t].coll]
    BY <1>2, MemKept DEF Inside
  <2>3. job[t].ns \in Ns
    BY <1>2, BusyFacts DEF Base, Places
  <2>4. \A u \in Client : CommitWrite(u) \/ DropRows(u) => job[u].ns # job[t].ns
    BY <1>2, ChangedObject, InsideAlone DEF Inside, Between
  <2>5. Live(rows[job[t].ns])' = Live(rows[job[t].ns])
    BY <2>1, <2>3, <2>4, LiveFrame
  <2>6. Changes(t)' = Changes(t)
    BY <2>1, <2>2 DEF Changes, Ids
  <2> QED
    BY <1>2, <2>1, <2>2, <2>5, <2>6 DEF Inv, Memory, Applying
<1> QED
  BY <1>1, <1>2, PlaceFrame

LEMMA DroppedRowsStep == ASSUME Inv, DropsAlone, [Next]_vars PROVE DroppedRows'
<1> SUFFICES ASSUME NEW t \in Client, pc'[t] \in {"pop", "rmtree"}, job'[t].ns \in Ns,
                    NEW i \in Id
             PROVE  rows'[job'[t].ns][i] = NoRow
  BY DEF DroppedRows, Dropping
<1> USE ThreadFacts
<1> Base
  BY DEF Inv
<1>1. CASE DropRows(t)
  BY <1>1, DropFacts DEF DropRows
<1>2. CASE pc[t] \in {"pop", "rmtree"}
  <2>1. job'[t] = job[t]
    BY <1>2, JobKept
  <2> DEFINE ns == job[t].ns
  <2>2. ns \in Ns /\ rows[ns][i] = NoRow
    BY <1>2, <2>1 DEF Inv, Memory, DroppedRows, Dropping
  <2>3. \A u \in Client : CommitWrite(u) \/ DropRows(u) => job[u].ns # ns
    BY <1>2, SameCaller DEF CommitWrite, DropRows
  <2>4. CASE UNCHANGED rows
    BY <2>1, <2>2, <2>4
  <2>5. ASSUME NEW u \in Client, CommitWrite(u) PROVE rows'[ns][i] = NoRow
    BY <2>2, <2>3, <2>5, CommitFacts DEF Base, Places
  <2>6. ASSUME NEW u \in Client, DropRows(u) PROVE rows'[ns][i] = NoRow
    BY <2>2, <2>3, <2>6, DropFacts
  <2>7. CASE SnapshotPurge
    BY <2>2, <2>7, PurgeLive DEF SnapshotPurge, Commit
  <2>8. CASE SnapshotDone \/ \E u \in Client : DropSaveSeq(u)
    BY <2>4, <2>8 DEF SnapshotDone, DropSaveSeq, SaveSeq, storageVars
  <2> QED
    BY <2>1, <2>4, <2>5, <2>6, <2>7, <2>8, TableFrame
<1> QED
  BY <1>1, <1>2, PlaceFrame DEF PopNamespace

(* Memory is inductive relative to the whole of Inv.                        *)
LEMMA MemoryStep == ASSUME Inv, Environment, [Next]_vars, Base', Objects' PROVE Memory'
BY NoTinyRowStep, UnregisteredStep, InMemoryStep, ApplyingStep, DroppedRowsStep
   DEF Inv, Memory, Environment
=============================================================================
