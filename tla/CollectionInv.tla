--------------------------- MODULE CollectionInv ----------------------------
(***************************************************************************)
(* Why the tables of a collection agree and its rebuilds are invisible: the *)
(* inductive invariant of Collection, stated of any record s, since a swap  *)
(* takes as many steps on the record as there are logged writes.            *)
(***************************************************************************)
EXTENDS Collection

LoggedWrite == [op : {"upsert"}, batch : Batch]
               \cup [op : {"delete"}, ids : SUBSET Id]
               \cup [op : {"meta"}, id : Id, fields : SUBSET Field]
Job == [kind : {"flat", "hnsw"}, copy : Seq(Slot)]
State == [generation : 0..1, slots : Seq(Slot), idToSlot : [Id -> Nat],
          kind : {"flat", "hnsw"}, live : Nat, job : Job \cup {NoJob}, ops : Seq(LoggedWrite)]

(* Ids and live slots belong to each other one to one.                      *)
LivePlaces(slots) == {k \in DOMAIN slots : ~slots[k].tomb}
Tables(s) ==
  /\ \A k \in LivePlaces(s.slots) : s.idToSlot[s.slots[k].id] = k
  /\ \A i \in Id : s.idToSlot[i] # 0 => /\ s.idToSlot[i] \in LivePlaces(s.slots)
                                        /\ s.slots[s.idToSlot[i]].id = i
  /\ s.live = Cardinality(LivePlaces(s.slots))

(* A rebuild works on live slots of different ids, and never towards flat   *)
(* from HNSW.                                                               *)
CopyOf(s) ==
  Building(s) =>
    /\ \A k \in DOMAIN s.job.copy : ~s.job.copy[k].tomb
    /\ \A j, k \in DOMAIN s.job.copy : s.job.copy[j].id = s.job.copy[k].id => j = k
    /\ s.kind = "hnsw" => s.job.kind = "hnsw"

Good(s) == s \in State /\ Tables(s) /\ CopyOf(s)

(* Swapping the rebuild in now would show readers what they see.            *)
NoneRefused == \A batch \in Batch : ~Refuses(batch)
Follows(s) == Building(s) => LET done == Replayed(Fresh(s), s.ops)
                             IN  ~done.raised /\ ViewOf(done.s) = ViewOf(s)

(* The inductive invariant.  Readers never see `job` or `ops`: only that    *)
(* copy and log together give the view makes a swap invisible, and only     *)
(* that the tables agree lets a write change one slot per id.               *)
Inv == Good(self) /\ Len(self.ops) <= MaxLog /\ (NoneRefused => Follows(self))
=============================================================================
