------------------------------- MODULE Index -------------------------------
(***************************************************************************)
(* needledb/core/index.py: the write path, the namespaces and the snapshots *)
(* of one index, over Storage.  Clients call upsert, update and delete; one *)
(* snapshot thread at a time saves every namespace and purges delete        *)
(* markers; the process can crash between any two steps and reopen.         *)
(*                                                                         *)
(* A collection is an object of its own: a thread keeps the one it looked up *)
(* even when deleteAll drops the namespace meanwhile.  Collection.tla shows  *)
(* that slots and rebuilds amount to the map `mem` keeps here; RWLock.tla    *)
(* that a writer is alone, so `lock` only names the thread inside.          *)
(***************************************************************************)
EXTENDS Storage, SequencesExt

CONSTANTS Client,         \* threads that serve write calls
          Snapshotter,    \* the thread inside Index.snapshot()
          Coll,           \* collection objects
          Request,        \* the calls clients may make: [client, op, ns, recs]
          FailingOps,     \* operations whose SQLite transaction may fail
          Tiny,           \* non-zero vectors whose float32 norm is zero (cosine)
          SnapshotEvery,  \* SNAPSHOT_EVERY
          None, Done,     \* markers of the abstract Store
          MaxSeq,         \* bound: no call starts once seq reaches it
          MaxCrashes      \* bound on crashes

Op == {"upsert", "update", "set_metadata", "delete", "delete_all"}

(* What a call may name: for each of its ids a record, or the part of one   *)
(* that update and delete give.                                             *)
Recs == UNION {[ids -> [val : Val \cup {Null}, meta : SUBSET Field]] : ids \in SUBSET Id}
WriteCall == [client : Client, op : Op, ns : Ns, recs : Recs]

ASSUME ThreadIs == Thread = Client \cup {Snapshotter}
ASSUME NobodyIsNoThread == Nobody \notin Thread
ASSUME SnapshotterIsNoClient == Snapshotter \notin Client
ASSUME TinyIsVal == Tiny \subseteq Val
ASSUME RequestType == Request \subseteq WriteCall
ASSUME MarkersAreNoCalls == None # Done /\ {None, Done} \cap Request = {}

(* Validation refuses anything else: a call is a list, upsert wants one of  *)
(* whole vectors that is not empty, update one id and, when it is not for   *)
(* metadata only, a vector.                                                 *)
ASSUME RequestsAreCalls ==
  \A r \in Request :
    /\ IsFiniteSet(DOMAIN r.recs)
    /\ r.op = "upsert" => DOMAIN r.recs # {}
    /\ r.op \in {"upsert", "update"} => \A i \in DOMAIN r.recs : r.recs[i].val \in Val
    /\ r.op \in {"update", "set_metadata"} => \E i \in Id : DOMAIN r.recs = {i}
    /\ r.op = "set_metadata" => \A i \in DOMAIN r.recs : r.recs[i].val = Null

(* Collection objects never run out when a process reopens an index.        *)
ASSUME EnoughObjects ==
  IsFiniteSet(Coll) /\ IsFiniteSet(Ns) /\ Cardinality(Ns) <= Cardinality(Coll)

VARIABLES collections,  \* the dict, in insertion order: <<[ns, coll], ...>>
          mem,          \* coll -> its live records
          lock,         \* coll -> the thread inside its RWLock, or Nobody
          pc, job,      \* where each thread is, and what each client is doing
          snap,         \* ns -> the snapshot CURRENT points at, or NoSnap
          todo, seqs,   \* snapshot(): collections left, seqs saved so far
          target,       \* snapshot(): the seq being saved
          spawned,      \* snapshot threads started and not yet running
          writes,       \* _writes_since_snapshot
          up,           \* "up", "down", or "failed": open() raised
          crashes

collVars == <<collections, mem, lock>>
clientVars == <<pc, job>>
snapVars == <<snap, todo, seqs, target>>
runVars == <<spawned, writes, up, crashes>>
vars == <<storageVars, collVars, clientVars, snapVars, runVars>>

NoSnap == [seq |-> 0, vals |-> [i \in Id |-> Null], saved |-> FALSE]
NoJob == [op |-> "none"]

Init == /\ StorageInit
        /\ collections = <<>>
        /\ mem = [c \in Coll |-> Empty]
        /\ lock = [c \in Coll |-> Nobody]
        /\ pc = [t \in Thread |-> "idle"]
        /\ job = [t \in Client |-> NoJob]
        /\ snap = [ns \in Ns |-> NoSnap]
        /\ todo = <<>> /\ seqs = {} /\ target = 0
        /\ spawned = 0 /\ writes = 0 /\ up = "up" /\ crashes = 0

-----------------------------------------------------------------------------
(* collections.get(ns): the registered object, as a set of at most one.     *)
Registered(ns) == {collections[k].coll : k \in
                     {j \in DOMAIN collections : collections[j].ns = ns}}

InUse == {collections[k].coll : k \in DOMAIN collections}
         \cup {job[t].coll : t \in {u \in Client : job[u] # NoJob}}
         \cup {todo[k].coll : k \in DOMAIN todo}

GoTo(t, place) == pc' = [pc EXCEPT ![t] = place]
Release(c) == lock' = [lock EXCEPT ![c] = Nobody]
JobFor(c, r) == [coll |-> c, op |-> r.op, ns |-> r.ns, recs |-> r.recs]
Leave(t) == /\ GoTo(t, "idle")
            /\ job' = [job EXCEPT ![t] = NoJob]

(* _collection(ns, create): under _ns_lock, so lookup and insert are one.   *)
(* Only upsert creates; the others answer at once when there is none.       *)
Call(t) ==
  /\ up = "up" /\ pc[t] = "idle" /\ seq < MaxSeq
  /\ \E r \in Request :
       /\ r.client = t
       /\ \/ \E c \in Registered(r.ns) :
               /\ job' = [job EXCEPT ![t] = JobFor(c, r)]
               /\ UNCHANGED <<collections, mem>>
          \/ /\ r.op = "upsert" /\ Registered(r.ns) = {} /\ Coll # InUse
             /\ LET c == CHOOSE x \in Coll : x \notin InUse IN
                  /\ job' = [job EXCEPT ![t] = JobFor(c, r)]
                  /\ collections' = Append(collections, [ns |-> r.ns, coll |-> c])
                  /\ mem' = [mem EXCEPT ![c] = Empty]
  /\ GoTo(t, "lock")
  /\ UNCHANGED <<storageVars, lock, snapVars, runVars>>

Ids(t) == DOMAIN job[t].recs

(* update finds no slot (NotFound), or no id of delete is present: the call *)
(* ends here with nothing written.                                          *)
NothingToDo(t) == /\ job[t].op \in {"update", "set_metadata", "delete"}
                  /\ Ids(t) \cap Present(mem[job[t].coll]) = {}

AcquireUnlocked(t) ==                                 \* mutant of AcquireWrite
  /\ pc[t] = "lock" /\ ~NothingToDo(t)
  /\ GoTo(t, "storage")
  /\ lock' = [lock EXCEPT ![job[t].coll] = t]
  /\ UNCHANGED <<storageVars, collections, mem, job, snapVars, runVars>>
AcquireWrite(t) ==
  /\ pc[t] = "lock" /\ lock[job[t].coll] = Nobody
  /\ IF NothingToDo(t)
     THEN Leave(t) /\ UNCHANGED lock
     ELSE /\ GoTo(t, IF job[t].op = "delete_all" THEN "drop" ELSE "storage")
          /\ lock' = [lock EXCEPT ![job[t].coll] = t]
          /\ UNCHANGED job
  /\ UNCHANGED <<storageVars, collections, mem, snapVars, runVars>>

-----------------------------------------------------------------------------
ChangesReplacing(t) ==                                \* mutant of Changes
  [i \in Ids(t) |-> IF job[t].recs[i].val # Null \/ job[t].op = "delete"
                    THEN job[t].recs[i]
                    ELSE [mem[job[t].coll][i] EXCEPT !.meta = job[t].recs[i].meta]]

(* What the call writes, seen by the memory of its collection: update       *)
(* merges into the record it finds, delete keeps only the ids it finds.     *)
Changes(t) ==
  LET now == mem[job[t].coll]
      ids == Ids(t)
  IN  CASE job[t].op = "upsert" -> job[t].recs
        [] job[t].op \in {"update", "set_metadata"} ->
             [i \in ids |-> Merged(now[i], job[t].recs[i])]
        [] job[t].op = "delete" -> [i \in ids \cap Present(now) |-> Absent]

Begin(t) == /\ pc[t] = "storage"
            /\ NextSeq(t)
            /\ GoTo(t, "commit")
            /\ UNCHANGED <<collVars, job, snapVars, runVars>>

(* An overwrite goes to storage.upsert, a metadata update to set_metadata.  *)
CommitWrite(t) ==
  LET ns == job[t].ns IN
  /\ pc[t] = "commit"
  /\ Commit(t, CASE job[t].op \in {"upsert", "update"} -> Upserted(ns, Changes(t))
                 [] job[t].op = "set_metadata" -> MetadataSet(ns, Changes(t))
                 [] job[t].op = "delete" -> Deleted(ns, DOMAIN Changes(t)))
  /\ GoTo(t, "apply")
  /\ UNCHANGED <<collVars, job, snapVars, runVars>>

StorageFails(t) ==
  /\ pc[t] = "commit" /\ job[t].op \in FailingOps
  /\ IF job[t].op \in {"upsert", "update"} THEN UpsertFails(t)
     ELSE OtherWriteFails(t)
  /\ Release(job[t].coll)
  /\ Leave(t)
  /\ UNCHANGED <<collections, mem, snapVars, runVars>>

(* apply_upsert refuses a batch with a zero norm, after the commit.         *)
Refused(t) == /\ job[t].op \in {"upsert", "update"}
              /\ \E i \in Ids(t) : Changes(t)[i].val \in Tiny

(* _after_write: count the records, start a snapshot thread at the limit.   *)
AfterWrite(count) ==
  IF writes + count >= SnapshotEvery
  THEN writes' = 0 /\ spawned' = spawned + 1
  ELSE writes' = writes + count /\ UNCHANGED spawned

Apply(t) ==
  LET c == job[t].coll IN
  /\ pc[t] = "apply"
  /\ IF Refused(t)
     THEN UNCHANGED <<mem, spawned, writes>>
     ELSE /\ mem' = [mem EXCEPT ![c] = Overlay(Changes(t), @)]
          /\ AfterWrite(Cardinality(DOMAIN Changes(t)))
  /\ Release(c)
  /\ Leave(t)
  /\ UNCHANGED <<storageVars, collections, snapVars, up, crashes>>

-----------------------------------------------------------------------------
(* delete(delete_all=True), all of it under the collection's write lock:    *)
(* drop_namespace, pop the namespace whatever object it holds by now, and   *)
(* remove the snapshot directory.                                           *)
DropSaveSeq(t) == /\ pc[t] = "drop"
                  /\ SaveSeq(t)
                  /\ GoTo(t, "drop_rows")
                  /\ UNCHANGED <<collVars, job, snapVars, runVars>>

DropRows(t) == /\ pc[t] = "drop_rows"
               /\ Commit(t, Dropped(job[t].ns))
               /\ GoTo(t, "pop")
               /\ UNCHANGED <<collVars, job, snapVars, runVars>>

PopNamespace(t) ==
  /\ pc[t] = "pop"
  /\ \/ Registered(job[t].ns) = {} /\ UNCHANGED collections
     \/ \E k \in DOMAIN collections : /\ collections[k].ns = job[t].ns
                                      /\ collections' = RemoveAt(collections, k)
  /\ GoTo(t, "rmtree")
  /\ UNCHANGED <<storageVars, mem, lock, job, snapVars, runVars>>

KeepSnapshot(t) == /\ pc[t] = "rmtree"                 \* mutant of RemoveSnapshot
                   /\ Release(job[t].coll)
                   /\ Leave(t)
                   /\ UNCHANGED <<storageVars, collections, mem, snapVars, runVars>>
RemoveSnapshot(t) ==
  /\ pc[t] = "rmtree"
  /\ snap' = [snap EXCEPT ![job[t].ns] = NoSnap]
  /\ Release(job[t].coll)
  /\ Leave(t)
  /\ UNCHANGED <<storageVars, collections, mem, todo, seqs, target, runVars>>

-----------------------------------------------------------------------------
(* A started snapshot thread takes _snapshot_lock without blocking; when a  *)
(* snapshot is running it returns at once.                                  *)
StartUnasked ==                                       \* mutant of SnapshotStart
  /\ up = "up" /\ pc[Snapshotter] = "idle"
  /\ spawned' = spawned - 1
  /\ GoTo(Snapshotter, "next")
  /\ todo' = collections
  /\ seqs' = {}
  /\ UNCHANGED <<storageVars, collVars, job, snap, target, writes, up, crashes>>
SnapshotStart ==
  /\ up = "up" /\ spawned > 0
  /\ spawned' = spawned - 1
  /\ IF pc[Snapshotter] # "idle"
     THEN UNCHANGED <<pc, todo, seqs>>
     ELSE /\ GoTo(Snapshotter, "next")
          /\ todo' = collections
          /\ seqs' = {}
  /\ UNCHANGED <<storageVars, collVars, job, snap, target, writes, up, crashes>>

(* The next collection's read lock; skip one that deleteAll dropped.        *)
SnapshotNext ==
  /\ pc[Snapshotter] = "next" /\ todo # <<>>
  /\ lock[Head(todo).coll] = Nobody
  /\ IF Head(todo).coll \in Registered(Head(todo).ns)
     THEN /\ lock' = [lock EXCEPT ![Head(todo).coll] = Snapshotter]
          /\ GoTo(Snapshotter, "save")
          /\ UNCHANGED todo
     ELSE todo' = Tail(todo) /\ UNCHANGED <<lock, pc>>
  /\ UNCHANGED <<storageVars, collections, mem, job, snap, seqs, target, runVars>>

(* seq is read without Storage._lock.  Saving again at the same seq first   *)
(* removes the directory that CURRENT still names.                          *)
SnapshotSave ==
  LET ns == Head(todo).ns IN
  /\ pc[Snapshotter] = "save"
  /\ target' = seq
  /\ snap' = IF snap[ns].seq = seq THEN [snap EXCEPT ![ns] = NoSnap] ELSE snap
  /\ GoTo(Snapshotter, "publish")
  /\ UNCHANGED <<storageVars, collVars, job, todo, seqs, runVars>>

(* The directory is renamed into place and CURRENT replaced.                *)
SnapshotPublish ==
  LET e == Head(todo) IN
  /\ pc[Snapshotter] = "publish"
  /\ snap' = [snap EXCEPT ![e.ns] =
                [seq |-> target, vals |-> [i \in Id |-> mem[e.coll][i].val],
                 saved |-> TRUE]]
  /\ seqs' = seqs \cup {target}
  /\ todo' = Tail(todo)
  /\ target' = 0
  /\ Release(e.coll)
  /\ GoTo(Snapshotter, "next")
  /\ UNCHANGED <<storageVars, collections, mem, job, runVars>>

(* Writing the files fails: the error ends the thread, nothing is purged.   *)
SnapshotFails ==
  /\ pc[Snapshotter] = "publish" /\ "snapshot" \in FailingOps
  /\ todo' = <<>> /\ seqs' = {} /\ target' = 0
  /\ Release(Head(todo).coll)
  /\ GoTo(Snapshotter, "idle")
  /\ UNCHANGED <<storageVars, collections, mem, job, snap, runVars>>

(* All saved: purge the markers up to the lowest seq, keeping seq first.    *)
SnapshotDone ==
  /\ pc[Snapshotter] = "next" /\ todo = <<>>
  /\ IF seqs = {} THEN GoTo(Snapshotter, "idle") /\ UNCHANGED storageVars
     ELSE SaveSeq(Snapshotter) /\ GoTo(Snapshotter, "purge")
  /\ UNCHANGED <<collVars, job, snapVars, runVars>>

Highest(S) == CHOOSE s \in S : \A other \in S : s >= other   \* mutant of Lowest
Lowest(S) == CHOOSE s \in S : \A other \in S : s <= other

SnapshotPurge ==
  /\ pc[Snapshotter] = "purge"
  /\ Commit(Snapshotter, Purged(Lowest(seqs)))
  /\ seqs' = {}
  /\ GoTo(Snapshotter, "idle")
  /\ UNCHANGED <<collVars, job, snap, todo, target, runVars>>

-----------------------------------------------------------------------------
(* Memory is gone with the process; the tables and the snapshots stay.      *)
Crash ==
  /\ up = "up" /\ crashes < MaxCrashes
  /\ StorageLost
  /\ collections' = <<>>
  /\ mem' = [c \in Coll |-> Empty]
  /\ lock' = [c \in Coll |-> Nobody]
  /\ pc' = [t \in Thread |-> "idle"]
  /\ job' = [t \in Client |-> NoJob]
  /\ todo' = <<>> /\ seqs' = {} /\ target' = 0
  /\ spawned' = 0 /\ writes' = 0
  /\ up' = "down" /\ crashes' = crashes + 1
  /\ UNCHANGED snap

(* _load of one namespace: the snapshot with the metadata of the rows it    *)
(* covers, then every newer row; without a snapshot, the live rows.         *)
Covered(ns, i) == rows[ns][i].seq <= snap[ns].seq

Recovered(ns) ==
  IF ~snap[ns].saved THEN Live(rows[ns])
  ELSE [i \in Id |->
          IF ~Covered(ns, i) THEN LiveRow(rows[ns][i])
          ELSE IF snap[ns].vals[i] = Null THEN Absent
          ELSE [val |-> snap[ns].vals[i],
                meta |-> MetadataAt(ns, snap[ns].seq, i)]]

(* A replayed row that apply_upsert refuses makes open() raise.             *)
Unloadable(ns) == \E i \in Id : /\ LiveRow(rows[ns][i]).val \in Tiny
                                /\ ~snap[ns].saved \/ ~Covered(ns, i)

(* Only namespaces with rows are loaded; one that comes out empty is not    *)
(* kept, and its snapshot directory is left behind.                         *)
Loaded(ns) == IF ns \in NamespacesWithRows THEN Recovered(ns) ELSE Empty

Orders(S) == {s \in [1..Cardinality(S) -> S] :
                \A j, k \in DOMAIN s : s[j] = s[k] => j = k}

Open ==
  /\ up = "down"
  /\ StorageOpen
  /\ IF \E ns \in NamespacesWithRows : Unloadable(ns)
     THEN up' = "failed" /\ UNCHANGED <<collections, mem>>
     ELSE LET kept == {ns \in Ns : Present(Loaded(ns)) # {}}
              objects == CHOOSE o \in Orders(Coll) : TRUE
          IN
          /\ up' = "up"
          /\ \E names \in Orders(kept) :
               /\ collections' = [k \in DOMAIN names |->
                                    [ns |-> names[k], coll |-> objects[k]]]
               /\ mem' = [c \in Coll |->
                            LET own == {k \in DOMAIN names : objects[k] = c}
                            IN  IF own = {} THEN Empty
                                ELSE Loaded(names[CHOOSE k \in own : TRUE])]
  /\ UNCHANGED <<lock, clientVars, snapVars, spawned, writes, crashes>>

(* Every thread is idle: the process waits for calls.                       *)
Rest == /\ \A t \in Thread : pc[t] = "idle"
        /\ UNCHANGED vars

ClientStep(t) == \/ Call(t) \/ AcquireWrite(t)
                 \/ Begin(t) \/ CommitWrite(t) \/ StorageFails(t) \/ Apply(t)
                 \/ DropSaveSeq(t) \/ DropRows(t) \/ PopNamespace(t) \/ RemoveSnapshot(t)

SnapshotStep == \/ SnapshotStart \/ SnapshotNext \/ SnapshotSave
                \/ SnapshotPublish \/ SnapshotFails \/ SnapshotDone \/ SnapshotPurge

Next == \/ \E t \in Client : ClientStep(t)
        \/ SnapshotStep
        \/ Crash \/ Open
        \/ Rest

Spec == Init /\ [][Next]_vars

-----------------------------------------------------------------------------
ClientPlace == {"idle", "lock", "storage", "commit", "apply",
                "drop", "drop_rows", "pop", "rmtree"}
SnapshotPlace == {"idle", "next", "save", "publish", "purge"}
Entry == [ns : Ns, coll : Coll]
Job == [coll : Coll, op : Op, ns : Ns, recs : Recs]

(* Every variable has its type, and every object is in at most one place.   *)
TypeOK ==
  /\ rows \in [Ns -> [Id -> Row]]
  /\ savedSeq \in Nat /\ seq \in Nat /\ holder \in Thread \cup {Nobody}
  /\ collections \in Seq(Entry)
  /\ mem \in [Coll -> Contents]
  /\ lock \in [Coll -> Thread \cup {Nobody}]
  /\ pc \in [Thread -> ClientPlace \cup SnapshotPlace]
  /\ \A t \in Client : pc[t] \in ClientPlace
  /\ pc[Snapshotter] \in SnapshotPlace
  /\ job \in [Client -> Job \cup {NoJob}]
  /\ snap \in [Ns -> [seq : Nat, vals : [Id -> Val \cup {Null}], saved : BOOLEAN]]
  /\ todo \in Seq(Entry) /\ seqs \subseteq Nat /\ target \in Nat
  /\ spawned \in Nat /\ writes \in Nat /\ crashes \in Nat
  /\ up \in {"up", "down", "failed"}

(* index.py:1 "the write path that keeps them in step": whenever no write   *)
(* is inside a namespace's collection, what its readers see is exactly the  *)
(* live rows of SQLite, and a namespace without a collection has none.      *)
InStep ==
  up = "up" =>
    \A ns \in Ns :
      /\ Registered(ns) = {} => Live(rows[ns]) = Empty
      /\ \A c \in Registered(ns) :
           lock[c] \notin Client => mem[c] = Live(rows[ns])

(* DESIGN.md:257 "With no usable snapshot the namespace is rebuilt from the *)
(* live rows: slower, same result": in every state, were the process to die *)
(* here, loading the snapshots and replaying would give the live rows.      *)
SameResult == \A ns \in Ns : Loaded(ns) = Live(rows[ns])

(* storage.py:43 "seq must never move backwards or replay would skip newer  *)
(* writes": a live row that the snapshot does not hold is newer than it.    *)
NewerWritesReplayed ==
  \A ns \in Ns, i \in Id :
    snap[ns].saved /\ ~rows[ns][i].deleted /\ Covered(ns, i)
      => snap[ns].vals[i] = rows[ns][i].val

(* A delete marker is purged only when no snapshot still holds its record:  *)
(* in a namespace that will be loaded, what the snapshot holds, the rows    *)
(* hold or mark as deleted.                                                 *)
MarkersOutliveSnapshots ==
  \A ns \in NamespacesWithRows, i \in Id :
    snap[ns].saved /\ snap[ns].vals[i] # Null => rows[ns][i] # NoRow

(* The calls of the abstract store: what a client asked and has no answer   *)
(* for, or Done from the commit that made it durable to its return.         *)
CallOf(t) ==
  IF pc[t] = "idle" THEN None
  ELSE IF pc[t] \in {"apply", "pop", "rmtree"} THEN Done
  ELSE [client |-> t, op |-> job[t].op, ns |-> job[t].ns, recs |-> job[t].recs]

Promise == INSTANCE Store WITH
             data <- [ns \in Ns |-> Loaded(ns)],
             call <- [t \in Client |-> CallOf(t)],
             up   <- up = "up"

(* Seen through what a restart would load, every call takes effect at once  *)
(* and once, with the outcome its caller is told, and crashes, snapshots    *)
(* and purges change nothing (DESIGN.md:29 "A crash loses no acknowledged   *)
(* write").                                                                 *)
ImplementsStore == Promise!Spec
=============================================================================
