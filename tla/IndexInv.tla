------------------------------ MODULE IndexInv -----------------------------
(***************************************************************************)
(* Why memory, SQLite and the snapshots of an index agree: the inductive    *)
(* invariant of Index, which the proof modules prove and the runs           *)
(* index_crash and index_namespaces check.                                  *)
(*                                                                         *)
(* Base says who is where: types, locks, jobs, a bound on the numbers.  On   *)
(* top of it Inv says which objects are registered (Objects), how memory    *)
(* relates to rows (Memory), what the sequence numbers are (Numbers), and    *)
(* what the snapshots hold (Snapshots).  Memory after a reopening is what   *)
(* the snapshots give, snapshots are right because of the numbers, and      *)
(* numbers because of who is registered and locked: no part is inductive    *)
(* alone.                                                                   *)
(***************************************************************************)
EXTENDS Index

Inside == {"storage", "commit", "apply", "drop", "drop_rows", "pop", "rmtree"}

(* A busy client makes one of the requests.                                 *)
Jobs == \A t \in Client :
          /\ pc[t] = "idle" <=> job[t] = NoJob
          /\ job[t] # NoJob => \E r \in Request : /\ r.client = t
                                                  /\ job[t] = JobFor(job[t].coll, r)

(* Who is inside a collection, and who is inside the storage.               *)
ClientLocks ==
  /\ \A t \in Client : pc[t] \in Inside => lock[job[t].coll] = t
  /\ \A c \in Coll : lock[c] \in Client =>
       pc[lock[c]] \in Inside /\ job[lock[c]].coll = c
SnapshotLock ==
  /\ pc[Snapshotter] \in {"save", "publish"} =>
       todo # <<>> /\ lock[Head(todo).coll] = Snapshotter
  /\ \A c \in Coll : lock[c] = Snapshotter =>
       pc[Snapshotter] \in {"save", "publish"} /\ Head(todo).coll = c
Holders == \A t \in Thread : holder = t <=> pc[t] \in {"commit", "drop_rows", "purge"}

(* Only deleteAll goes through the last four places of a client, and a      *)
(* write that has begun has something to do.                                *)
Paths == \A t \in Client :
  /\ pc[t] \in {"storage", "commit", "apply"} =>
       job[t].op # "delete_all" /\ ~NothingToDo(t)
  /\ pc[t] \in {"drop", "drop_rows", "pop", "rmtree"} => job[t].op = "delete_all"

(* Nothing of a process is left when it is down.                            *)
Down == up # "up" => /\ \A t \in Thread : pc[t] = "idle"
                     /\ collections = <<>> /\ todo = <<>>

(* A purge has saved something and has nothing left to save.                *)
Purging == pc[Snapshotter] = "purge" => todo = <<>> /\ seqs # {}

(* A number in flight was counted; a live row has a vector.                 *)
Marks == RowSeqs \cup {savedSeq}
AtMost(m) == \A s \in Marks : s <= m
Numbered == /\ \A t \in Client : pc[t] = "commit" => seq > 0
            /\ HighestSeq \in Marks /\ AtMost(HighestSeq)
Vectors == \A ns \in Ns, i \in Id : ~rows[ns][i].deleted => rows[ns][i].val \in Val

Places == Jobs /\ ClientLocks /\ SnapshotLock /\ Holders /\ Paths /\ Down /\ Purging
Base == TypeOK /\ Places /\ Numbered /\ Vectors

-----------------------------------------------------------------------------
(* Three things the code does not survive, as runs of Index show, and the   *)
(* proofs exclude: a stored vector whose norm underflows (tiny_vector),     *)
(* a namespace dropped under another client's write (drop_while_writing),   *)
(* and crashes that reuse a number or forget an emptied namespace           *)
(* (seq_reuse, emptied).  What is left is either any number of crashes with *)
(* one namespace, or any number of namespaces without a crash.              *)
NoTiny == \A r \in Request : r.op \in {"upsert", "update"} =>
            \A i \in DOMAIN r.recs : r.recs[i].val \notin Tiny

DropsAlone == \A r, other \in Request :
                r.op = "delete_all" /\ other.ns = r.ns => other.client = r.client

SameNs == \A m, n \in Ns : m = n

(* A failed write that keeps its number, or a dropped namespace whose       *)
(* snapshot is still there, is not safe from a crash.                       *)
CrashesOfOneNamespace ==
  /\ SameNs
  /\ \A r \in Request : r.op # "delete_all"
  /\ FailingOps \cap {"set_metadata", "delete"} = {}

(* A failed upsert gives back a number that the snapshot of another         *)
(* namespace may have used.                                                 *)
NoCrashes == MaxCrashes = 0 /\ FailingOps \cap {"upsert", "update"} = {}

Environment == NoTiny /\ DropsAlone /\ (CrashesOfOneNamespace \/ NoCrashes)

-----------------------------------------------------------------------------
(* The dict has one entry per namespace, and every entry its own object.    *)
OneEntry == \A j, k \in DOMAIN collections :
              \/ collections[j].ns = collections[k].ns
              \/ collections[j].coll = collections[k].coll
              => j = k

(* A client's object stays registered until the client itself pops it; the  *)
(* object being saved is registered.                                        *)
StillRegistered ==
  /\ \A t \in Client : pc[t] \notin {"idle", "rmtree"} =>
       job[t].coll \in Registered(job[t].ns)
  /\ \A t \in Client : pc[t] = "rmtree" => Registered(job[t].ns) = {}
  /\ pc[Snapshotter] \in {"save", "publish"} =>
       Head(todo).coll \in Registered(Head(todo).ns)

Objects == OneEntry /\ StillRegistered

-----------------------------------------------------------------------------
(* No live row has a tiny vector, so nothing is refused after its commit.   *)
NoTinyRow == \A ns \in Ns, i \in Id : ~rows[ns][i].deleted => rows[ns][i].val \notin Tiny

(* Memory is what the live rows say, but for the write between its commit   *)
(* and its apply, and the namespace between its drop and its pop.           *)
Unregistered == up = "up" => \A ns \in Ns : Registered(ns) = {} => Live(rows[ns]) = Empty

Between(t) == pc[t] \in {"apply", "pop"}
InMemory ==
  up = "up" =>
    \A ns \in Ns : \A c \in Registered(ns) :
      (\A t \in Client : Between(t) => job[t].coll # c) => mem[c] = Live(rows[ns])

Applying == \A t \in Client : pc[t] = "apply" =>
              Live(rows[job[t].ns]) = Overlay(Changes(t), mem[job[t].coll])

(* Nothing is left of a namespace between its drop and the end of the call. *)
Dropping(ns) == \E t \in Client : pc[t] \in {"pop", "rmtree"} /\ job[t].ns = ns
DroppedRows == \A ns \in Ns : Dropping(ns) => \A i \in Id : rows[ns][i] = NoRow

Memory == NoTinyRow /\ Unregistered /\ InMemory /\ Applying /\ DroppedRows

-----------------------------------------------------------------------------
(* The highest number that is committed: the one in flight does not count.  *)
Writing == \E t \in Client : pc[t] = "commit"
Committed == IF Writing THEN seq - 1 ELSE seq

(* Rows and the saved mark carry committed numbers only; a snapshot's tag   *)
(* may be the one in flight, but not of its own namespace.                  *)
Counted ==
  /\ up = "up" => AtMost(Committed)
  /\ up = "up" => \A ns \in Ns : snap[ns].seq <= seq
  /\ pc[Snapshotter] = "publish" => target <= seq
  /\ \A t \in Client : pc[t] = "commit" => snap[job[t].ns].seq < seq
  /\ pc[Snapshotter] = "purge" => savedSeq = seq

(* With crashes: a number that was committed or tags a snapshot can be read *)
(* off the tables.                                                          *)
Recorded(m) == \E s \in Marks : m <= s
Remembered ==
  CrashesOfOneNamespace =>
    /\ up = "up" => Recorded(Committed)
    /\ \A ns \in Ns : Recorded(snap[ns].seq)

Numbers == Counted /\ Remembered

-----------------------------------------------------------------------------
(* What a snapshot covers it holds.                                         *)
SnapshotsGood ==
  \A ns \in Ns : snap[ns].saved /\ ~Dropping(ns) =>
    \A i \in Id : Covered(ns, i) => snap[ns].vals[i] = LiveRow(rows[ns][i]).val

(* Every snapshot on disk is waiting to be saved again in this round, or    *)
(* bounds the purge that ends it, or is about to be removed.                *)
Waiting(ns) == \E k \in DOMAIN todo : todo[k].ns = ns /\ todo[k].coll \in Registered(ns)
Bounding(ns) == \E s \in seqs : s <= snap[ns].seq
RoundCovers ==
  pc[Snapshotter] # "idle" =>
    \A ns \in Ns : snap[ns].saved =>
      Waiting(ns) \/ Bounding(ns) \/ Dropping(ns) \/ (SameNs /\ seqs = {})

(* Without a crash, a snapshot belongs to a registered namespace.           *)
SnapshotsOwned ==
  NoCrashes => \A ns \in Ns : snap[ns].saved => Registered(ns) # {} \/ Dropping(ns)

Snapshots == SnapshotsGood /\ RoundCovers /\ SnapshotsOwned

(* The process is up where it cannot crash, and open() never raises.        *)
Running == up # "failed" /\ (NoCrashes => up = "up")

Inv == Base /\ Objects /\ Memory /\ Numbers /\ Snapshots /\ Running
=============================================================================
