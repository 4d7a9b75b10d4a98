----------------------------- MODULE Collection -----------------------------
(***************************************************************************)
(* needledb/core/collection.py: the slots of one namespace, their            *)
(* tombstones, and the background rebuild that promotes or compacts them.   *)
(* Every operation runs under the collection's write lock (RWLock), so each *)
(* is one step; the build itself runs outside the lock, between the step    *)
(* that starts it and the step that swaps its result in.                    *)
(*                                                                         *)
(* The object is one record, as in the code, so that replaying the log      *)
(* applies the same operators as the writes do.  _ops is a list exactly     *)
(* while _job is set.  _generation counts swaps (modulo 2 here); it grows    *)
(* only when the one job ends, so _rebuild's test of it never fails.        *)
(***************************************************************************)
EXTENDS Records

CONSTANTS Batch,           \* upsert batches: sequences of [id, rec]
          Tiny,            \* non-zero vectors whose float32 norm is zero (cosine)
          IndexType,       \* cfg.index_type: "auto", "flat" or "hnsw"
          PromoteAt,       \* AUTO_HNSW_THRESHOLD
          CompactMinDead,  \* COMPACT_MIN_DEAD
          CompactPercent,  \* 100 * COMPACT_FRACTION
          MayFail,         \* a background build may raise
          MaxSlots,        \* bound on slots
          MaxLog           \* bound on writes logged during one rebuild

Item == [id : Id, rec : Rec]

ASSUME TinyVectors == Tiny \subseteq Val
ASSUME BatchType == Batch \subseteq Seq(Item) \ {<<>>}
ASSUME LogBound == MaxLog \in Nat

VARIABLE self

NoJob == [kind |-> "none", copy |-> <<>>]

(* The id table is computed from slots and tombstones: the last slot of an  *)
(* id that is not dead.                                                     *)
LastOf(S) == CHOOSE k \in S : \A j \in S : j <= k
SlotTable(slots) ==
  [i \in Id |-> LET own == {k \in DOMAIN slots : slots[k].id = i /\ ~slots[k].tomb}
                IN  IF own = {} THEN 0 ELSE LastOf(own)]

New(slots, kind) ==
  [generation |-> 0, slots |-> slots, idToSlot |-> SlotTable(slots), kind |-> kind,
   live |-> Cardinality({i \in Id : SlotTable(slots)[i] # 0}), job |-> NoJob, ops |-> <<>>]

Init == self = New(<<>>, IF IndexType = "hnsw" THEN "hnsw" ELSE "flat")

-----------------------------------------------------------------------------
Building(s) == s.job # NoJob
Dead(s) == Len(s.slots) - s.live

LogNothing(s, op) == s                                \* mutant of Log
Log(s, op) == IF Building(s) THEN [s EXCEPT !.ops = Append(@, op)] ELSE s

(* The elements of a sequence at some of its places, in their order: the    *)
(* next place is the one with as many places before it as are taken.        *)
Place(S, n) == CHOOSE k \in S : Cardinality({j \in S : j < k}) = n - 1
Pick(s, S) == [n \in 1..Cardinality(S) |-> s[Place(S, n)]]

(* _tombstone, of several ids that have a slot.                             *)
Tombstone(s, ids) ==
  LET gone == {k \in {s.idToSlot[i] : i \in ids} : ~s.slots[k].tomb}
      table == [i \in Id |-> IF s.idToSlot[i] \in gone /\ s.slots[s.idToSlot[i]].id = i
                             THEN 0 ELSE s.idToSlot[i]]
  IN  [s EXCEPT !.slots = [k \in DOMAIN s.slots |->
                             IF k \in gone THEN [s.slots[k] EXCEPT !.tomb = TRUE]
                             ELSE s.slots[k]],
                !.idToSlot = table,
                !.live = s.live - Cardinality(gone)]

HasSlot(s, ids) == {i \in ids : s.idToSlot[i] # 0}

(* The batch behind the slots there are.                                    *)
Added(items) ==
  [n \in DOMAIN items |-> [id |-> items[n].id, rec |-> items[n].rec, tomb |-> FALSE]]
AddSlotsPastEnd(s, items) ==                          \* mutant of AddSlots
  LET own(i) == {n \in DOMAIN items : items[n].id = i}
      table == [i \in Id |-> IF own(i) = {} THEN s.idToSlot[i]
                             ELSE Len(s.slots) + 1 + LastOf(own(i))]
  IN  [s EXCEPT !.slots = s.slots \o Added(items), !.idToSlot = table,
                !.live = s.live + Len(items)]
AddSlots(s, items) ==
  LET own(i) == {n \in DOMAIN items : items[n].id = i}
      table == [i \in Id |-> IF own(i) = {} THEN s.idToSlot[i]
                             ELSE Len(s.slots) + LastOf(own(i))]
  IN  [s EXCEPT !.slots = s.slots \o Added(items), !.idToSlot = table,
                !.live = s.live + Len(items)]

(* _maybe_rebuild and _start_rebuild: copy what is live, start logging.     *)
Promote(s) == IndexType = "auto" /\ s.kind = "flat" /\ s.live >= PromoteAt

CompactBySize(s) == Len(s.slots) >= CompactMinDead    \* mutant of Compact
Compact(s) == /\ Dead(s) >= CompactMinDead
              /\ 100 * Dead(s) >= CompactPercent * Len(s.slots)

LiveSlots(s) == Pick(s.slots, {k \in DOMAIN s.slots : ~s.slots[k].tomb})

RebuildFlat(s) ==                                     \* mutant of MaybeRebuild
  IF Building(s) \/ ~(Promote(s) \/ Compact(s)) THEN s
  ELSE [s EXCEPT !.job = [kind |-> IF Promote(s) THEN "hnsw" ELSE "flat",
                          copy |-> LiveSlots(s)],
                 !.ops = <<>>]
MaybeRebuild(s) ==
  IF Building(s) \/ ~(Promote(s) \/ Compact(s)) THEN s
  ELSE [s EXCEPT !.job = [kind |-> IF Promote(s) THEN "hnsw" ELSE s.kind,
                          copy |-> LiveSlots(s)],
                 !.ops = <<>>]

-----------------------------------------------------------------------------
(* apply_upsert: the batch is logged as it came; of several items with one  *)
(* id the last is kept, in batch order.                                     *)
KeepAll(batch) == batch                               \* mutant of LastWins
FirstWins(batch) ==                                   \* mutant of LastWins
  Pick(batch, {k \in DOMAIN batch : \A j \in DOMAIN batch : batch[j].id = batch[k].id => j >= k})
Last(batch, k) == \A j \in DOMAIN batch : batch[j].id = batch[k].id => j <= k
LastWins(batch) == Pick(batch, {k \in DOMAIN batch : Last(batch, k)})

Named(items) == {items[k].id : k \in DOMAIN items}
Refuses(batch) == \E k \in DOMAIN LastWins(batch) : LastWins(batch)[k].rec.val \in Tiny

(* The state apply_upsert leaves, also when it raises.                      *)
ApplyUpsert(s, batch) ==
  LET logged == Log(s, [op |-> "upsert", batch |-> batch])
      kept == LastWins(batch)
  IN  IF Refuses(batch) THEN logged
      ELSE MaybeRebuild(AddSlots(Tombstone(logged, HasSlot(s, Named(kept))), kept))

SetUnlogged(s, i, fields) ==                          \* mutant of ApplySetMetadata
  [s EXCEPT !.slots[s.idToSlot[i]].rec.meta = @ \cup fields]
(* The caller has checked that the id is present.                           *)
ApplySetMetadata(s, i, fields) ==
  LET logged == Log(s, [op |-> "meta", id |-> i, fields |-> fields])
  IN  [logged EXCEPT !.slots[s.idToSlot[i]].rec.meta = @ \cup fields]

ApplyDelete(s, ids) ==
  LET removed == HasSlot(s, ids)
      logged == Log(s, [op |-> "delete", ids |-> removed])
  IN  IF removed = {} THEN s ELSE MaybeRebuild(Tombstone(logged, removed))

(* One logged write applied again; `raised` once apply_upsert has refused.  *)
ReplayOp(acc, op) ==
  IF acc.raised THEN acc
  ELSE CASE op.op = "upsert" -> [s |-> ApplyUpsert(acc.s, op.batch),
                                 raised |-> Refuses(op.batch)]
         [] op.op = "delete" -> [acc EXCEPT !.s = ApplyDelete(@, op.ids)]
         [] op.op = "meta" -> IF acc.s.idToSlot[op.id] = 0 THEN acc
                              ELSE [acc EXCEPT !.s = ApplySetMetadata(@, op.id, op.fields)]

Replayed(s, ops) ==
  LET done[n \in 0..Len(ops)] == IF n = 0 THEN [s |-> s, raised |-> FALSE]
                                 ELSE ReplayOp(done[n - 1], ops[n])
  IN  done[Len(ops)]

(* The state _rebuild swaps in, with the logged writes replayed onto it.    *)
Fresh(s) == [New(s.job.copy, s.job.kind) EXCEPT !.generation = (s.generation + 1) % 2]
Swapped(s) == LET done == Replayed(Fresh(s), s.ops)
              IN  IF done.raised THEN done.s ELSE MaybeRebuild(done.s)

-----------------------------------------------------------------------------
Room(count) == /\ Len(self.slots) + count <= MaxSlots
               /\ Len(self.ops) < MaxLog

Upsert(batch) == /\ Room(Len(batch))
                 /\ self' = ApplyUpsert(self, batch)

SetMetadata(i, fields) == /\ Room(0) /\ self.idToSlot[i] # 0
                          /\ self' = ApplySetMetadata(self, i, fields)

Delete(ids) == /\ Room(0)
               /\ self' = ApplyDelete(self, ids)

RebuildDone == /\ Building(self)
               /\ self' = Swapped(self)

RebuildFails == /\ MayFail /\ Building(self)
                /\ self' = [self EXCEPT !.job = NoJob, !.ops = <<>>]

RebuildEnds == RebuildFails \/ RebuildDone

(* save() now and load() in a new process: slots and tombstones come back   *)
(* as they were, the id table is computed from them, no job is running.     *)
SaveAndLoad == self' = New(self.slots, self.kind)

Next == \/ \E batch \in Batch : Upsert(batch)
        \/ \E i \in Id, fields \in SUBSET Field : SetMetadata(i, fields)
        \/ \E ids \in SUBSET Id : Delete(ids)
        \/ RebuildEnds
        \/ SaveAndLoad

Spec == Init /\ [][Next]_self

(* A started build runs on in its own thread until it is swapped in or has  *)
(* failed, and gets the write lock for either.                              *)
FairSpec == Spec /\ WF_self(RebuildEnds)

-----------------------------------------------------------------------------
Slot == [id : Id, rec : Rec, tomb : BOOLEAN]

TypeOK ==
  /\ self.slots \in Seq(Slot)
  /\ self.idToSlot \in [Id -> 0..Len(self.slots)]
  /\ self.live \in Nat /\ self.generation \in 0..1
  /\ self.kind \in {"flat", "hnsw"}
  /\ self.job.kind \in {"none", "flat", "hnsw"} /\ self.job.copy \in Seq(Slot)
  /\ Len(self.ops) <= MaxLog

(* The slot tables agree: an id points at its one live slot, and `live`     *)
(* counts them.  A snapshot keeps only slots and tombstones, so this is     *)
(* what makes the table it is loaded into the one that was saved.           *)
TablesAgree ==
  /\ self.idToSlot = SlotTable(self.slots)
  /\ self.live = Cardinality({k \in DOMAIN self.slots : ~self.slots[k].tomb})
  /\ self.live = Cardinality({i \in Id : self.idToSlot[i] # 0})

(* What queries and fetch read.                                             *)
ViewOf(s) == [i \in Id |-> IF s.idToSlot[i] = 0 THEN Absent
                           ELSE s.slots[s.idToSlot[i]].rec]
View == ViewOf(self)

(* The records a batch asks for: for each id its last item.                 *)
Asked(batch) ==
  [i \in {batch[k].id : k \in DOMAIN batch} |->
     (CHOOSE item \in {batch[k] : k \in DOMAIN batch} :
        \E k \in DOMAIN batch :
          /\ batch[k] = item /\ item.id = i
          /\ \A j \in DOMAIN batch : batch[j].id = i => j <= k).rec]

(* A write changes what readers see as it says and nothing else, whether    *)
(* or not a rebuild is running.                                             *)
WritesExact ==
  [][/\ \A batch \in Batch : Upsert(batch) =>
          View' = IF Refuses(batch) THEN View ELSE Overlay(Asked(batch), View)
     /\ \A i \in Id, fields \in SUBSET Field : SetMetadata(i, fields) =>
          View' = [View EXCEPT ![i].meta = @ \cup fields]
     /\ \A ids \in SUBSET Id : Delete(ids) =>
          View' = Overlay([i \in ids |-> Absent], View)]_self

(* README.md:277 "Writes that land during a rebuild are logged and replayed *)
(* before the swap": the step that swaps a rebuild in, and one that loads a *)
(* snapshot, show readers exactly the records they saw before.              *)
RebuildInvisible ==
  [][RebuildDone \/ RebuildFails \/ SaveAndLoad => View' = View]_self

(* A namespace promoted to HNSW is never swapped back to a flat index.      *)
PromotionSticks == [][self.kind = "hnsw" => self'.kind = "hnsw"]_self

(* wait_for_index() returns once writing stops: a rebuild ends, and those   *)
(* it chains to come to an end too.  (Under a load that keeps overwriting a *)
(* fifth of the slots during every rebuild, the chain has no end.)          *)
WritesStop == <>[][RebuildEnds]_self
RebuildsEnd == WritesStop => <>[]~Building(self)
=============================================================================
