------------------------------ MODULE Storage ------------------------------
(***************************************************************************)
(* needledb/core/storage.py: the SQLite tables of one index and the write   *)
(* counter.  Every operation runs under `_lock`; an operation that commits  *)
(* in more than one step, or that other threads can see half done through   *)
(* the unlocked `seq` attribute, is split into the steps it is made of, and  *)
(* `holder` is the thread inside it.                                        *)
(***************************************************************************)
EXTENDS Records

CONSTANTS Thread, Nobody

VARIABLES rows,       \* table records: namespace -> id -> row
          savedSeq,   \* table meta, key 'seq'
          seq,        \* Storage.seq, in memory
          holder      \* the thread that holds Storage._lock

storageVars == <<rows, savedSeq, seq, holder>>

StorageInit == /\ rows = [ns \in Ns |-> [i \in Id |-> NoRow]]
               /\ savedSeq = 0
               /\ seq = 0
               /\ holder = Nobody

-----------------------------------------------------------------------------
(* upsert, set_metadata and delete: take the lock and the next seq, then    *)
(* commit one transaction -- or fail, where only upsert gives the seq back. *)
NextSeq(t) == /\ holder = Nobody
              /\ holder' = t
              /\ seq' = seq + 1
              /\ UNCHANGED <<rows, savedSeq>>

Commit(t, table) == /\ holder = t
                    /\ holder' = Nobody
                    /\ rows' = table
                    /\ UNCHANGED <<savedSeq, seq>>

OtherWriteFails(t) == /\ holder = t
                      /\ holder' = Nobody
                      /\ UNCHANGED <<rows, savedSeq, seq>>

UpsertFails(t) == /\ holder = t
                  /\ holder' = Nobody
                  /\ seq' = seq - 1
                  /\ UNCHANGED <<rows, savedSeq>>

Rewritten(ns, ids, Change(_)) ==
  [rows EXCEPT ![ns] = [i \in Id |-> IF i \in ids THEN Change(i) ELSE @[i]]]

Upserted(ns, recs) ==
  Rewritten(ns, DOMAIN recs,
            LAMBDA i : [val |-> recs[i].val, meta |-> recs[i].meta,
                        seq |-> seq, deleted |-> FALSE])

(* set_metadata has no `deleted = 0` condition: it also touches a marker.    *)
MetadataSet(ns, recs) ==
  Rewritten(ns, {i \in DOMAIN recs : rows[ns][i] # NoRow},
            LAMBDA i : [rows[ns][i] EXCEPT !.meta = recs[i].meta, !.seq = seq])

Deleted(ns, ids) ==
  Rewritten(ns, {i \in ids : ~rows[ns][i].deleted},
            LAMBDA i : [val |-> Null, meta |-> {}, seq |-> seq, deleted |-> TRUE])

-----------------------------------------------------------------------------
(* drop_namespace and purge_deleted: two statements, each its own commit    *)
(* (the connection is in autocommit mode), under one hold of the lock.      *)
SaveSeq(t) == /\ holder = Nobody
              /\ holder' = t
              /\ savedSeq' = seq
              /\ UNCHANGED <<rows, seq>>

DroppedEverywhere(ns) == [n \in Ns |-> [i \in Id |-> NoRow]]   \* mutant of Dropped
Dropped(ns) == [rows EXCEPT ![ns] = [i \in Id |-> NoRow]]

PurgedAll(upTo) ==                                    \* mutant of Purged
  [ns \in Ns |-> [i \in Id |->
     IF rows[ns][i].deleted THEN NoRow ELSE rows[ns][i]]]
Purged(upTo) ==
  [ns \in Ns |-> [i \in Id |->
     LET row == rows[ns][i]
     IN  IF row.deleted /\ row.seq <= upTo THEN NoRow ELSE row]]

-----------------------------------------------------------------------------
(* What __init__ restores: the highest seq of a row or of the saved mark.   *)
RowSeqs == {rows[ns][i].seq : ns \in Ns, i \in Id}
HighestRowSeq == CHOOSE s \in RowSeqs : \A other \in RowSeqs : other <= s  \* mutant
HighestSeq == LET marks == RowSeqs \cup {savedSeq}
              IN  CHOOSE s \in marks : \A other \in marks : other <= s

(* The process is gone: committed tables stay, the counter does not.        *)
StorageLost == /\ seq' = 0
               /\ holder' = Nobody
               /\ UNCHANGED <<rows, savedSeq>>

StorageOpen == /\ seq' = HighestSeq
               /\ UNCHANGED <<rows, savedSeq, holder>>

NamespacesWithRows == {ns \in Ns : \E i \in Id : rows[ns][i] # NoRow}

(* metadata_map(ns, upTo)[i], with None for an id it does not list.         *)
MetadataAt(ns, upTo, i) ==
  LET row == rows[ns][i]
  IN  IF ~row.deleted /\ row.seq <= upTo THEN row.meta ELSE {}
=============================================================================
