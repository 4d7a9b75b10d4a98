-------------------------- MODULE CollectionProofs --------------------------
(***************************************************************************)
(* Proofs about Collection, for any ids, records, batches and thresholds.   *)
(* First what the operators on slots do (Pick, Tombstone, AddSlots), then   *)
(* what a write does to a record that satisfies Good, then the same for a   *)
(* log of writes by induction on its length, and at last the steps.         *)
(***************************************************************************)
EXTENDS CollectionInv, FiniteSetTheorems, SequenceTheorems, WellFoundedInduction, TLAPS

(* Induction over the naturals, with a set in place of a predicate.         *)
LEMMA Induction ==
  ASSUME NEW T \in SUBSET Nat, 0 \in T, \A n \in T : n + 1 \in T
  PROVE  \A n \in Nat : n \in T
<1> DEFINE Rest == Nat \ T
           Less == {p \in Nat \X Nat : p[1] < p[2]}
<1> SUFFICES ASSUME Rest # {} PROVE FALSE
  OBVIOUS
<1>1. IsWellFoundedOn(Less, Nat)
  BY NatLessThanWellFounded DEF OpToRel
<1>2. PICK m \in Rest : \A n \in Rest : ~ (<<n, m>> \in Less)
  <2> Rest \subseteq Nat
    OBVIOUS
  <2> HIDE DEF Rest, Less
  <2> QED
    BY <1>1, WFMin
<1>3. m \in Nat \ {0} /\ m - 1 \in Nat
  OBVIOUS
<1>4. <<m - 1, m>> \in Less
  BY <1>3
<1>5. m - 1 \in T
  <2> HIDE DEF Less
  <2> QED
    BY <1>2, <1>3, <1>4
<1> QED
  BY <1>3, <1>5

-----------------------------------------------------------------------------
(* The places of a finite set of numbers count it: ranks differ, and there  *)
(* are as many ranks as members.                                            *)
LEMMA PlaceFacts ==
  ASSUME NEW n \in Nat, NEW S \in SUBSET (1..n)
  PROVE  /\ Cardinality(S) \in Nat
         /\ \A m \in 1..Cardinality(S) : Place(S, m) \in S
         /\ \A k \in S : \E m \in 1..Cardinality(S) : Place(S, m) = k
         /\ \A l, m \in 1..Cardinality(S) : Place(S, l) = Place(S, m) => l = m
<1> DEFINE Below(k) == {j \in S : j < k}
           rank == [k \in S |-> Cardinality(Below(k)) + 1]
<1>1. IsFiniteSet(S) /\ Cardinality(S) \in Nat
  <2>1. IsFiniteSet(1..n)
    BY FS_Interval
  <2> QED
    BY <2>1, FS_Subset, FS_CardinalityType
<1>2. \A k \in S : /\ IsFiniteSet(Below(k)) /\ Cardinality(Below(k)) \in Nat
                   /\ Cardinality(Below(k)) <= Cardinality(S)
                   /\ Cardinality(Below(k)) # Cardinality(S)
  <2> TAKE k \in S
  <2>1. Below(k) \in SUBSET S /\ k \notin Below(k)
    OBVIOUS
  <2> HIDE DEF Below
  <2> QED
    BY <1>1, <2>1, FS_Subset, FS_CardinalityType
<1>3. \A j, k \in S : j < k => Cardinality(Below(j)) < Cardinality(Below(k))
  <2> SUFFICES ASSUME NEW j \in S, NEW k \in S, j < k
               PROVE  Cardinality(Below(j)) < Cardinality(Below(k))
    OBVIOUS
  <2>1. Below(j) \in SUBSET Below(k) /\ j \in Below(k) /\ j \notin Below(j)
    <3>1. \A i \in S : i \in Int
      OBVIOUS
    <3>2. \A i \in S : i < j => i < k
      BY <3>1
    <3>3. ~ (j < j)
      BY <3>1
    <3> QED
      BY <3>2, <3>3, Zenon
  <2>2. Cardinality(Below(j)) <= Cardinality(Below(k)) /\ Cardinality(Below(j)) # Cardinality(Below(k))
    <3> HIDE DEF Below
    <3> QED
      BY <1>2, <2>1, FS_Subset
  <2> QED
    BY <1>2, <2>2
<1>4. rank \in Injection(S, 1..Cardinality(S))
  <2>1. rank \in [S -> 1..Cardinality(S)]
    BY <1>1, <1>2
  <2>2. \A j, k \in S : rank[j] = rank[k] => j = k
    <3> SUFFICES ASSUME NEW j \in S, NEW k \in S, rank[j] = rank[k], j # k PROVE FALSE
      OBVIOUS
    <3>1. Cardinality(Below(j)) = Cardinality(Below(k))
      <4> HIDE DEF Below
      <4> QED
        BY <1>2
    <3>2. j < k \/ k < j
      OBVIOUS
    <3> QED
      BY <1>2, <1>3, <3>1, <3>2
  <2> QED
    BY <2>1, <2>2 DEF Injection, IsInjective
<1>5. \A m \in 1..Cardinality(S) : \E k \in S : rank[k] = m
  <2>1. IsFiniteSet(1..Cardinality(S)) /\ Cardinality(1..Cardinality(S)) = Cardinality(S)
    BY <1>1, FS_Interval
  <2>2. rank \in Surjection(S, 1..Cardinality(S))
    BY <1>4, <2>1, FS_Injection
  <2> QED
    BY <2>2 DEF Surjection
<1>6. \A m \in 1..Cardinality(S) : Place(S, m) \in S /\ rank[Place(S, m)] = m
  <2> SUFFICES ASSUME NEW m \in 1..Cardinality(S) PROVE Place(S, m) \in S /\ rank[Place(S, m)] = m
    OBVIOUS
  <2>1. PICK k \in S : rank[k] = m
    BY <1>5
  <2>2. Cardinality(Below(k)) = m - 1
    <3> HIDE DEF Below
    <3> QED
      BY <1>2, <2>1
  <2>3. Place(S, m) \in S /\ Cardinality(Below(Place(S, m))) = m - 1
    BY <2>2 DEF Place
  <2> QED
    <3> HIDE DEF Below
    <3> QED
      BY <1>2, <2>3
<1>7. \A k \in S : rank[k] \in 1..Cardinality(S) /\ Place(S, rank[k]) = k
  <2> HIDE DEF rank
  <2> QED
    BY <1>4, <1>6 DEF Injection, IsInjective
<1> HIDE DEF rank
<1> QED
  BY <1>1, <1>6, <1>7

(* Pick keeps each chosen element once.                                     *)
LEMMA PickFacts ==
  ASSUME NEW T, NEW s \in Seq(T), NEW S \in SUBSET DOMAIN s
  PROVE  /\ Pick(s, S) \in Seq(T)
         /\ DOMAIN Pick(s, S) = 1..Cardinality(S) /\ Cardinality(S) \in Nat
         /\ \A m \in DOMAIN Pick(s, S) : Place(S, m) \in S /\ Pick(s, S)[m] = s[Place(S, m)]
         /\ \A k \in S : \E m \in DOMAIN Pick(s, S) : Place(S, m) = k
         /\ \A l, m \in DOMAIN Pick(s, S) : Place(S, l) = Place(S, m) => l = m
<1>1. Len(s) \in Nat /\ DOMAIN s = 1..Len(s) /\ \A k \in DOMAIN s : s[k] \in T
  BY LenProperties, ElementOfSeq
<1>2. /\ Cardinality(S) \in Nat
      /\ \A m \in 1..Cardinality(S) : Place(S, m) \in S
      /\ \A k \in S : \E m \in 1..Cardinality(S) : Place(S, m) = k
      /\ \A l, m \in 1..Cardinality(S) : Place(S, l) = Place(S, m) => l = m
  BY <1>1, PlaceFacts
<1>3. /\ DOMAIN Pick(s, S) = 1..Cardinality(S)
      /\ \A m \in 1..Cardinality(S) : Pick(s, S)[m] = s[Place(S, m)]
  BY DEF Pick
<1>4. Pick(s, S) \in Seq(T)
  <2>1. Pick(s, S) \in [1..Cardinality(S) -> T]
    BY <1>1, <1>2 DEF Pick
  <2> QED
    BY <1>2, <2>1, SeqDef
<1> QED
  BY <1>2, <1>3, <1>4
-----------------------------------------------------------------------------
(* A replay is a function of the number of writes replayed so far: it       *)
(* exists by induction on that number.                                      *)
Replays(done, s, ops, n) ==
  done = [m \in 0..n |-> IF m = 0 THEN [s |-> s, raised |-> FALSE]
                         ELSE ReplayOp(done[m - 1], ops[m])]

LEMMA ReplayExists ==
  ASSUME NEW s, NEW ops
  PROVE  \A n \in Nat : \E done : Replays(done, s, ops, n)
<1> DEFINE T == {n \in Nat : \E done : Replays(done, s, ops, n)}
<1>1. 0 \in T
  <2>1. Replays([m \in 0..0 |-> [s |-> s, raised |-> FALSE]], s, ops, 0)
    BY DEF Replays
  <2> QED
    BY <2>1
<1>2. ASSUME NEW n \in T PROVE n + 1 \in T
  <2>1. PICK done : Replays(done, s, ops, n)
    OBVIOUS
  <2> DEFINE more == [m \in 0..n + 1 |-> IF m = n + 1 THEN ReplayOp(done[n], ops[n + 1])
                                         ELSE done[m]]
  <2>2. more[0] = [s |-> s, raised |-> FALSE]
    BY <2>1 DEF Replays
  <2>3. \A m \in 1..n + 1 : more[m] = ReplayOp(more[m - 1], ops[m])
    <3> SUFFICES ASSUME NEW m \in 1..n + 1 PROVE more[m] = ReplayOp(more[m - 1], ops[m])
      OBVIOUS
    <3>1. CASE m = n + 1
      BY <3>1
    <3>2. CASE m # n + 1
      <4>1. m \in 0..n /\ m # 0 /\ m - 1 \in 0..n
        BY <3>2
      <4>2. done[m] = ReplayOp(done[m - 1], ops[m])
        BY <2>1, <4>1 DEF Replays
      <4>3. more[m] = done[m] /\ more[m - 1] = done[m - 1]
        BY <4>1
      <4> QED
        BY <4>2, <4>3
    <3> QED
      BY <3>1, <3>2
  <2>4. Replays(more, s, ops, n + 1)
    <3>1. more = [m \in 0..n + 1 |-> more[m]]
      OBVIOUS
    <3>2. \A m \in 0..n + 1 : more[m] = IF m = 0 THEN [s |-> s, raised |-> FALSE]
                                        ELSE ReplayOp(more[m - 1], ops[m])
      <4> HIDE DEF more
      <4> QED
        BY <2>2, <2>3
    <3> HIDE DEF more
    <3> QED
      BY <3>1, <3>2 DEF Replays
  <2> QED
    BY <2>4
<1> HIDE DEF T
<1>3. \A n \in Nat : n \in T
  BY <1>1, <1>2, Induction DEF T
<1> QED
  BY <1>3 DEF T

LEMMA ReplayIs ==
  ASSUME NEW s, NEW ops, Len(ops) \in Nat
  PROVE  \E done : Replays(done, s, ops, Len(ops)) /\ Replayed(s, ops) = done[Len(ops)]
<1> DEFINE d == CHOOSE done : Replays(done, s, ops, Len(ops))
<1>1. \E done : Replays(done, s, ops, Len(ops))
  BY ReplayExists
<1>2. Replays(d, s, ops, Len(ops))
  BY <1>1
<1>3. Replayed(s, ops) = d[Len(ops)]
  BY DEF Replayed, Replays
<1> QED
  BY <1>2, <1>3

(* It starts from the given record and applies the writes in their order.   *)
LEMMA ReplaySteps ==
  ASSUME NEW s, NEW ops, Len(ops) \in Nat
  PROVE  \E done : /\ done[0] = [s |-> s, raised |-> FALSE]
                   /\ \A m \in 1..Len(ops) : done[m] = ReplayOp(done[m - 1], ops[m])
                   /\ Replayed(s, ops) = done[Len(ops)]
<1>1. PICK done : Replays(done, s, ops, Len(ops)) /\ Replayed(s, ops) = done[Len(ops)]
  BY ReplayIs
<1>2. done[0] = [s |-> s, raised |-> FALSE]
  BY <1>1 DEF Replays
<1>3. ASSUME NEW m \in 1..Len(ops) PROVE done[m] = ReplayOp(done[m - 1], ops[m])
  <2>1. m \in 0..Len(ops) /\ m # 0
    OBVIOUS
  <2>2. done[m] = IF m = 0 THEN [s |-> s, raised |-> FALSE] ELSE ReplayOp(done[m - 1], ops[m])
    BY <1>1, <2>1 DEF Replays
  <2> QED
    BY <2>1, <2>2
<1> QED
  BY <1>1, <1>2, <1>3

LEMMA ReplayEmpty ==
  ASSUME NEW s
  PROVE  Replayed(s, <<>>) = [s |-> s, raised |-> FALSE]
<1>1. Len(<<>>) = 0
  OBVIOUS
<1> QED
  BY <1>1, ReplaySteps

(* One more logged write is replayed after all the others.                  *)
LEMMA ReplayAppend ==
  ASSUME NEW s, NEW T, NEW ops \in Seq(T), NEW op \in T
  PROVE  Replayed(s, Append(ops, op)) = ReplayOp(Replayed(s, ops), op)
<1> DEFINE more == Append(ops, op)
           n == Len(ops)
<1>1. /\ n \in Nat /\ Len(more) = n + 1 /\ more[n + 1] = op
      /\ \A m \in 1..n : more[m] = ops[m]
  BY AppendProperties, LenProperties
<1> HIDE DEF more
<1>2. PICK old : /\ old[0] = [s |-> s, raised |-> FALSE]
                 /\ \A m \in 1..n : old[m] = ReplayOp(old[m - 1], ops[m])
                 /\ Replayed(s, ops) = old[n]
  BY <1>1, ReplaySteps
<1>3. PICK done : /\ done[0] = [s |-> s, raised |-> FALSE]
                  /\ \A m \in 1..n + 1 : done[m] = ReplayOp(done[m - 1], more[m])
                  /\ Replayed(s, more) = done[n + 1]
  <2>1. Len(more) \in Nat
    BY <1>1
  <2> QED
    BY <1>1, <2>1, ReplaySteps
<1> HIDE DEF n
<1> DEFINE Same == {m \in Nat : m <= n => done[m] = old[m]}
<1>4. 0 \in Same
  BY <1>2, <1>3
<1>5. ASSUME NEW m \in Same PROVE m + 1 \in Same
  <2> SUFFICES ASSUME m + 1 <= n PROVE done[m + 1] = old[m + 1]
    OBVIOUS
  <2>1. m \in Nat /\ m + 1 \in 1..n /\ m + 1 \in 1..n + 1 /\ m + 1 - 1 = m /\ m <= n
    BY <1>1
  <2>2. done[m] = old[m]
    BY <2>1
  <2> DEFINE k == m + 1
  <2>3. k \in 1..n /\ k \in 1..n + 1 /\ k - 1 = m
    BY <2>1
  <2> HIDE DEF k
  <2>4. done[k] = old[k]
    BY <1>1, <1>2, <1>3, <2>2, <2>3
  <2> QED
    BY <2>4 DEF k
<1> HIDE DEF Same
<1>6. \A m \in Nat : m \in Same
  BY <1>4, <1>5, Induction DEF Same
<1>7. done[n] = old[n]
  BY <1>1, <1>6 DEF Same
<1>8. done[n + 1] = ReplayOp(done[n], op)
  <2> DEFINE k == n + 1
  <2>1. k \in 1..n + 1 /\ k - 1 = n /\ more[k] = op
    BY <1>1
  <2> HIDE DEF k
  <2>2. done[k] = ReplayOp(done[n], op)
    BY <1>3, <2>1
  <2> QED
    BY <2>2 DEF k
<1> QED
  BY <1>2, <1>3, <1>7, <1>8 DEF more
-----------------------------------------------------------------------------
(* What a record of Good gives about its slots.                             *)
LEMMA GoodFacts ==
  ASSUME NEW s \in State, Tables(s)
  PROVE  /\ s.slots \in Seq(Slot) /\ s.idToSlot \in [Id -> Nat]
         /\ Len(s.slots) \in Nat /\ DOMAIN s.slots = 1..Len(s.slots)
         /\ \A k \in DOMAIN s.slots : s.slots[k] \in Slot
         /\ LivePlaces(s.slots) \subseteq 1..Len(s.slots)
         /\ IsFiniteSet(LivePlaces(s.slots))
         /\ \A i \in Id : s.idToSlot[i] # 0 => /\ s.idToSlot[i] \in DOMAIN s.slots
                                               /\ ~s.slots[s.idToSlot[i]].tomb
                                               /\ s.slots[s.idToSlot[i]].id = i
<1>1. s.slots \in Seq(Slot) /\ s.idToSlot \in [Id -> Nat]
  BY DEF State
<1>2. /\ Len(s.slots) \in Nat /\ DOMAIN s.slots = 1..Len(s.slots)
      /\ \A k \in DOMAIN s.slots : s.slots[k] \in Slot
  BY <1>1, LenProperties, ElementOfSeq
<1>3. LivePlaces(s.slots) \subseteq 1..Len(s.slots)
  BY <1>2 DEF LivePlaces
<1>4. IsFiniteSet(LivePlaces(s.slots))
  <2>1. IsFiniteSet(1..Len(s.slots))
    BY <1>2, FS_Interval
  <2> QED
    BY <1>3, <2>1, FS_Subset
<1>5. \A i \in Id : s.idToSlot[i] # 0 => /\ s.idToSlot[i] \in DOMAIN s.slots
                                         /\ ~s.slots[s.idToSlot[i]].tomb
                                         /\ s.slots[s.idToSlot[i]].id = i
  BY DEF Tables, LivePlaces
<1> QED
  BY <1>1, <1>2, <1>3, <1>4, <1>5



(* Tombstones of some ids take these ids away and leave the others.         *)
LEMMA TombstoneFacts ==
  ASSUME NEW s \in State, Tables(s), NEW ids \in SUBSET Id, \A i \in ids : s.idToSlot[i] # 0,
         NEW t, t = Tombstone(s, ids)
  PROVE  /\ t \in State /\ Tables(t) /\ Len(t.slots) = Len(s.slots)
         /\ t.generation = s.generation /\ t.kind = s.kind /\ t.job = s.job /\ t.ops = s.ops
         /\ \A i \in Id : t.idToSlot[i] = IF i \in ids THEN 0 ELSE s.idToSlot[i]
         /\ ViewOf(t) = Overlay([i \in ids |-> Absent], ViewOf(s))
<1> DEFINE gone == {k \in {s.idToSlot[i] : i \in ids} : ~s.slots[k].tomb}
           slots == [k \in DOMAIN s.slots |-> IF k \in gone THEN [s.slots[k] EXCEPT !.tomb = TRUE]
                                              ELSE s.slots[k]]
           table == [i \in Id |-> IF s.idToSlot[i] \in gone /\ s.slots[s.idToSlot[i]].id = i
                                  THEN 0 ELSE s.idToSlot[i]]
           n == s.live - Cardinality(gone)
<1>1. t = [s EXCEPT !.slots = slots, !.idToSlot = table, !.live = n]
  BY Zenon DEF Tombstone
<1>2. /\ gone = {s.idToSlot[i] : i \in ids} /\ gone \subseteq LivePlaces(s.slots)
      /\ \A i \in Id : s.idToSlot[i] # 0 => (s.idToSlot[i] \in gone <=> i \in ids)
  <2>1. \A i \in ids : s.idToSlot[i] \in DOMAIN s.slots /\ ~s.slots[s.idToSlot[i]].tomb
    BY GoodFacts
  <2>2. gone = {s.idToSlot[i] : i \in ids}
    BY <2>1, Zenon
  <2>3. \A i \in Id : s.idToSlot[i] # 0 /\ s.idToSlot[i] \in gone => i \in ids
    <3> SUFFICES ASSUME NEW i \in Id, NEW j \in ids, s.idToSlot[i] # 0, s.idToSlot[i] = s.idToSlot[j]
                 PROVE  i = j
      BY <2>2
    <3> QED
      BY GoodFacts
  <2> QED
    BY <2>1, <2>2, <2>3 DEF LivePlaces
<1>3. \A i \in Id : table[i] = IF i \in ids THEN 0 ELSE s.idToSlot[i]
  <2>1. 0 \notin gone
    BY <1>2
  <2> HIDE DEF gone
  <2> QED
    BY <1>2, <2>1, GoodFacts
<1>4. /\ DOMAIN slots = DOMAIN s.slots
      /\ \A k \in DOMAIN s.slots : /\ slots[k] \in Slot
                                   /\ slots[k].id = s.slots[k].id /\ slots[k].rec = s.slots[k].rec
                                   /\ slots[k].tomb <=> s.slots[k].tomb \/ k \in gone
  <2>1. \A k \in DOMAIN s.slots : s.slots[k] \in Slot
    BY GoodFacts
  <2>2. ASSUME NEW slot \in Slot
        PROVE  LET dead == [slot EXCEPT !.tomb = TRUE]
               IN  dead \in Slot /\ dead.id = slot.id /\ dead.rec = slot.rec /\ dead.tomb
    BY DEF Slot
  <2> HIDE DEF gone
  <2>3. ASSUME NEW k \in DOMAIN s.slots, k \in gone
        PROVE  /\ slots[k] \in Slot /\ slots[k].tomb
               /\ slots[k].id = s.slots[k].id /\ slots[k].rec = s.slots[k].rec
    BY <2>1, <2>2, <2>3
  <2>4. ASSUME NEW k \in DOMAIN s.slots, k \notin gone PROVE slots[k] = s.slots[k]
    BY <2>4
  <2> HIDE DEF slots
  <2>5. ASSUME NEW k \in DOMAIN s.slots
        PROVE  slots[k].tomb <=> s.slots[k].tomb \/ k \in gone
    BY <2>3, <2>4, Zenon
  <2> QED
    BY <2>1, <2>3, <2>4, <2>5, Zenon DEF slots
<1>5. slots \in Seq(Slot) /\ Len(slots) = Len(s.slots)
  <2>1. slots \in [1..Len(s.slots) -> Slot]
    <3>1. DOMAIN s.slots = 1..Len(s.slots) /\ slots = [k \in DOMAIN s.slots |-> slots[k]]
      BY GoodFacts
    <3> HIDE DEF gone, slots
    <3> QED
      BY <1>4, <3>1
  <2> HIDE DEF slots
  <2> QED
    BY <2>1, GoodFacts, SeqDef, LenProperties
<1>6. LivePlaces(slots) = LivePlaces(s.slots) \ gone
  <2> HIDE DEF slots, gone
  <2> QED
    BY <1>4 DEF LivePlaces
<1>7. n = Cardinality(LivePlaces(slots)) /\ n \in Nat
  <2>1. IsFiniteSet(LivePlaces(s.slots)) /\ s.live = Cardinality(LivePlaces(s.slots))
    BY GoodFacts DEF Tables
  <2>2. LivePlaces(s.slots) \cap gone = gone
    BY <1>2
  <2> HIDE DEF slots, gone
  <2>3. Cardinality(LivePlaces(slots)) = s.live - Cardinality(gone)
    <3>1. Cardinality(LivePlaces(s.slots) \ gone)
            = Cardinality(LivePlaces(s.slots)) - Cardinality(LivePlaces(s.slots) \cap gone)
      BY <2>1, FS_Difference
    <3> QED
      BY <1>6, <2>1, <2>2, <3>1
  <2>4. IsFiniteSet(LivePlaces(slots))
    BY <1>6, <2>1, FS_Difference
  <2> QED
    BY <2>3, <2>4, FS_CardinalityType
<1>8. table \in [Id -> Nat]
  <2> HIDE DEF gone
  <2> QED
    BY GoodFacts
<1> HIDE DEF gone, slots, table, n
<1>9. /\ t \in State /\ t.slots = slots /\ t.idToSlot = table /\ t.live = n
      /\ t.generation = s.generation /\ t.kind = s.kind /\ t.job = s.job /\ t.ops = s.ops
  <2>1. \A r : r = [s EXCEPT !.slots = slots, !.idToSlot = table, !.live = n] =>
          /\ r \in State /\ r.slots = slots /\ r.idToSlot = table /\ r.live = n
          /\ r.generation = s.generation /\ r.kind = s.kind /\ r.job = s.job /\ r.ops = s.ops
    BY <1>5, <1>7, <1>8 DEF State
  <2> QED
    BY <1>1, <2>1, Zenon
<1>10. Tables(t)
  <2>1. \A k \in LivePlaces(slots) : table[slots[k].id] = k
    <3> SUFFICES ASSUME NEW k \in LivePlaces(slots) PROVE table[slots[k].id] = k
      OBVIOUS
    <3>1. k \in LivePlaces(s.slots) /\ k \notin gone /\ k \in DOMAIN s.slots
      BY <1>6 DEF LivePlaces
    <3>2. s.slots[k].id \in Id /\ s.idToSlot[s.slots[k].id] = k /\ k # 0
      BY <3>1, GoodFacts DEF Slot, Tables
    <3>3. s.slots[k].id \notin ids
      BY <1>2, <3>1, <3>2
    <3> QED
      BY <1>3, <1>4, <3>1, <3>2, <3>3
  <2>2. \A i \in Id : table[i] # 0 => table[i] \in LivePlaces(slots) /\ slots[table[i]].id = i
    <3> SUFFICES ASSUME NEW i \in Id, table[i] # 0
                 PROVE  table[i] \in LivePlaces(slots) /\ slots[table[i]].id = i
      OBVIOUS
    <3>1. i \notin ids /\ table[i] = s.idToSlot[i]
      BY <1>3
    <3>2. /\ s.idToSlot[i] \in LivePlaces(s.slots) /\ s.idToSlot[i] \notin gone
          /\ s.slots[s.idToSlot[i]].id = i /\ s.idToSlot[i] \in DOMAIN s.slots
      BY <1>2, <3>1, GoodFacts DEF Tables
    <3> QED
      BY <1>4, <1>6, <3>1, <3>2
  <2> QED
    BY <1>7, <1>9, <2>1, <2>2 DEF Tables
<1>11. ViewOf(t) = Overlay([i \in ids |-> Absent], ViewOf(s))
  <2>1. \A i \in Id : (IF table[i] = 0 THEN Absent ELSE slots[table[i]].rec)
                      = IF i \in ids THEN Absent
                        ELSE IF s.idToSlot[i] = 0 THEN Absent ELSE s.slots[s.idToSlot[i]].rec
    BY <1>3, <1>4, GoodFacts
  <2> QED
    BY <1>9, <2>1 DEF ViewOf, Overlay
<1> QED
  BY <1>3, <1>5, <1>9, <1>10, <1>11
(* A sequence of slots behind another.                                      *)
LEMMA ConcatFacts ==
  ASSUME NEW t1 \in Seq(Slot), NEW t2 \in Seq(Slot), NEW t, t = t1 \o t2,
         NEW len, len = Len(t1), NEW count, count = Len(t2)
  PROVE  /\ t \in Seq(Slot) /\ Len(t) = len + count /\ DOMAIN t = 1..len + count
         /\ \A k \in 1..len : t[k] = t1[k]
         /\ \A m \in 1..count : t[len + m] = t2[m]
<1>1. /\ t \in Seq(Slot) /\ Len(t) = len + count
      /\ \A k \in 1..len + count : t[k] = IF k <= len THEN t1[k] ELSE t2[k - len]
  BY ConcatProperties
<1>2. len \in Nat /\ count \in Nat /\ DOMAIN t = 1..len + count
  BY <1>1, LenProperties
<1>3. ASSUME NEW m \in 1..count PROVE t[len + m] = t2[m]
  <2> DEFINE k == len + m
  <2>1. k \in 1..len + count /\ ~(k <= len) /\ k - len = m
    BY <1>2
  <2> HIDE DEF k
  <2>2. t[k] = t2[m]
    BY <1>1, <2>1
  <2> QED
    BY <2>2 DEF k
<1> QED
  BY <1>1, <1>2, <1>3

(* New slots, for different ids without a slot, add their records and leave *)
(* the others.                                                              *)
LEMMA AddSlotsFacts ==
  ASSUME NEW s \in State, Tables(s), NEW items \in Seq(Item),
         \A l, m \in DOMAIN items : items[l].id = items[m].id => l = m,
         \A m \in DOMAIN items : s.idToSlot[items[m].id] = 0,
         NEW t, t = AddSlots(s, items)
  PROVE  /\ t \in State /\ Tables(t)
         /\ t.generation = s.generation /\ t.kind = s.kind /\ t.job = s.job /\ t.ops = s.ops
         /\ \A i \in Id : i \notin Named(items) => ViewOf(t)[i] = ViewOf(s)[i]
         /\ \A m \in DOMAIN items : ViewOf(t)[items[m].id] = items[m].rec
<1> DEFINE own(i) == {m \in DOMAIN items : items[m].id = i}
           table == [i \in Id |-> IF own(i) = {} THEN s.idToSlot[i]
                                  ELSE Len(s.slots) + LastOf(own(i))]
           len == Len(s.slots)
           count == Len(items)
           slots == s.slots \o Added(items)
<1>1. t = [s EXCEPT !.slots = slots, !.idToSlot = table, !.live = s.live + count]
  BY Zenon DEF AddSlots
<1>2. /\ count \in Nat /\ DOMAIN items = 1..count
      /\ \A m \in DOMAIN items : items[m].id \in Id /\ items[m].rec \in Rec
  <2>1. count \in Nat /\ DOMAIN items = 1..count /\ \A m \in DOMAIN items : items[m] \in Item
    BY LenProperties, ElementOfSeq
  <2> QED
    BY <2>1 DEF Item
<1>3. /\ Added(items) \in Seq(Slot) /\ Len(Added(items)) = count
      /\ \A m \in 1..count : /\ Added(items)[m].id = items[m].id /\ Added(items)[m].rec = items[m].rec
                             /\ ~Added(items)[m].tomb
  <2>1. Added(items) \in [1..count -> Slot]
    <3>1. \A m \in DOMAIN items :
            [id |-> items[m].id, rec |-> items[m].rec, tomb |-> FALSE] \in Slot
      BY <1>2 DEF Slot
    <3> HIDE DEF count
    <3> QED
      BY <1>2, <3>1 DEF Added
  <2>2. Added(items) \in Seq(Slot)
    BY <1>2, <2>1, SeqDef
  <2>3. Len(Added(items)) = count
    BY <1>2, <2>1, <2>2, LenProperties
  <2> QED
    BY <1>2, <2>2, <2>3 DEF Added
<1>4. len \in Nat /\ s.slots \in Seq(Slot) /\ DOMAIN s.slots = 1..len /\ s.idToSlot \in [Id -> Nat]
  BY GoodFacts
<1>5. /\ slots \in Seq(Slot) /\ Len(slots) = len + count /\ DOMAIN slots = 1..len + count
      /\ \A k \in 1..len : slots[k] = s.slots[k]
      /\ \A m \in 1..count : slots[len + m] = Added(items)[m]
  <2> DEFINE added == Added(items)
  <2>1. slots = s.slots \o added /\ len = Len(s.slots) /\ count = Len(added)
    BY <1>3
  <2>2. s.slots \in Seq(Slot) /\ added \in Seq(Slot)
    BY <1>3, <1>4
  <2> HIDE DEF slots, len, count, added
  <2>3. /\ slots \in Seq(Slot) /\ Len(slots) = len + count /\ DOMAIN slots = 1..len + count
        /\ \A k \in 1..len : slots[k] = s.slots[k]
        /\ \A m \in 1..count : slots[len + m] = added[m]
    BY <2>1, <2>2, ConcatFacts
  <2> QED
    BY <2>3 DEF added
<1>6. \A m \in 1..count : table[items[m].id] = len + m
  <2> SUFFICES ASSUME NEW m \in 1..count PROVE table[items[m].id] = len + m
    OBVIOUS
  <2>1. own(items[m].id) = {m}
    BY <1>2
  <2>2. LastOf({m}) = m
    BY <1>2 DEF LastOf
  <2> QED
    BY <1>2, <2>1, <2>2
<1>7. \A i \in Id : i \notin Named(items) => table[i] = s.idToSlot[i]
  BY DEF Named
<1>8. table \in [Id -> Nat]
  <2> SUFFICES ASSUME NEW i \in Id PROVE table[i] \in Nat
    OBVIOUS
  <2>1. CASE i \in Named(items)
    <3>1. PICK m \in 1..count : items[m].id = i
      BY <1>2, <2>1 DEF Named
    <3>2. table[i] = len + m
      BY <1>6, <3>1, Zenon
    <3> HIDE DEF table
    <3> QED
      BY <1>2, <1>4, <3>1, <3>2
  <2>2. CASE i \notin Named(items)
    BY <1>4, <1>7, <2>2
  <2> QED
    BY <2>1, <2>2
<1> HIDE DEF slots, table
<1>9. LivePlaces(slots) = LivePlaces(s.slots) \cup (len + 1..len + count)
  <2>1. \A k \in 1..len : k \in LivePlaces(slots) <=> k \in LivePlaces(s.slots)
    BY <1>2, <1>4, <1>5 DEF LivePlaces
  <2>2. \A k \in len + 1..len + count : k \in LivePlaces(slots)
    <3> SUFFICES ASSUME NEW k \in len + 1..len + count PROVE k \in LivePlaces(slots)
      OBVIOUS
    <3>1. k \in 1..len + count /\ k - len \in 1..count /\ len + (k - len) = k
      BY <1>2, <1>4
    <3>2. slots[k] = Added(items)[k - len]
      BY <1>5, <3>1
    <3> QED
      BY <1>3, <1>5, <3>1, <3>2 DEF LivePlaces
  <2>3. LivePlaces(slots) \subseteq 1..len + count /\ LivePlaces(s.slots) \subseteq 1..len
    BY <1>4, <1>5 DEF LivePlaces
  <2>4. \A k \in 1..len + count : k \in 1..len \/ k \in len + 1..len + count
    BY <1>2, <1>4
  <2>5. \A k : k \in LivePlaces(slots) <=> k \in LivePlaces(s.slots) \cup (len + 1..len + count)
    <3>1. ASSUME NEW k, k \in LivePlaces(slots)
          PROVE  k \in LivePlaces(s.slots) \cup (len + 1..len + count)
      BY <2>1, <2>3, <2>4, <3>1, Zenon
    <3>2. ASSUME NEW k, k \in LivePlaces(s.slots) \cup (len + 1..len + count)
          PROVE  k \in LivePlaces(slots)
      BY <2>1, <2>2, <2>3, <3>2, Zenon
    <3> QED
      BY <3>1, <3>2
  <2> QED
    BY <2>5
<1>10. s.live + count = Cardinality(LivePlaces(slots)) /\ s.live + count \in Nat
  <2>1. /\ IsFiniteSet(LivePlaces(s.slots)) /\ s.live = Cardinality(LivePlaces(s.slots))
        /\ LivePlaces(s.slots) \subseteq 1..len /\ s.live \in Nat
    BY GoodFacts DEF Tables, State
  <2>2. IsFiniteSet(len + 1..len + count) /\ Cardinality(len + 1..len + count) = count
    <3>1. len + 1 \in Int /\ len + count \in Int
      BY <1>2, <1>4
    <3>2. /\ IsFiniteSet(len + 1..len + count)
          /\ Cardinality(len + 1..len + count)
               = IF len + 1 > len + count THEN 0 ELSE (len + count) - (len + 1) + 1
      BY <3>1, FS_Interval
    <3> QED
      BY <1>2, <1>4, <3>2
  <2>3. LivePlaces(s.slots) \cap (len + 1..len + count) = {}
    BY <1>4, <2>1
  <2>4. Cardinality(LivePlaces(slots)) = s.live + count - Cardinality({})
    <3> DEFINE old == LivePlaces(s.slots)
               added == len + 1..len + count
    <3>1. Cardinality(old \cup added)
            = Cardinality(old) + Cardinality(added) - Cardinality(old \cap added)
      <4> HIDE DEF old, added
      <4>1. IsFiniteSet(old) /\ IsFiniteSet(added)
        BY <2>1, <2>2 DEF old, added
      <4> QED
        BY <4>1, FS_Union
    <3> QED
      BY <1>9, <2>1, <2>2, <2>3, <3>1, Zenon
  <2> QED
    BY <1>2, <2>1, <2>4, FS_EmptySet
<1>11. /\ t \in State /\ t.slots = slots /\ t.idToSlot = table /\ t.live = s.live + count
       /\ t.generation = s.generation /\ t.kind = s.kind /\ t.job = s.job /\ t.ops = s.ops
  <2>1. \A r : r = [s EXCEPT !.slots = slots, !.idToSlot = table, !.live = s.live + count] =>
          /\ r \in State /\ r.slots = slots /\ r.idToSlot = table /\ r.live = s.live + count
          /\ r.generation = s.generation /\ r.kind = s.kind /\ r.job = s.job /\ r.ops = s.ops
    BY <1>5, <1>8, <1>10 DEF State
  <2> QED
    BY <1>1, <2>1, Zenon
<1>12. Tables(t)
  <2>1. \A k \in LivePlaces(slots) : table[slots[k].id] = k
    <3> SUFFICES ASSUME NEW k \in LivePlaces(slots) PROVE table[slots[k].id] = k
      OBVIOUS
    <3>1. CASE k \in LivePlaces(s.slots)
      <4>1. k \in 1..len /\ s.slots[k].id \in Id /\ s.idToSlot[s.slots[k].id] = k /\ k # 0
        <5>1. k \in 1..len /\ s.slots[k] \in Slot
          BY <1>4, <3>1, GoodFacts DEF LivePlaces
        <5>2. s.idToSlot[s.slots[k].id] = k
          BY <3>1 DEF Tables
        <5>3. k # 0
          BY <1>4, <5>1
        <5> QED
          BY <5>1, <5>2, <5>3 DEF Slot
      <4>2. s.slots[k].id \notin Named(items)
        BY <4>1 DEF Named
      <4> QED
        BY <1>5, <1>7, <4>1, <4>2
    <3>2. CASE k \in len + 1..len + count
      <4>1. k - len \in 1..count /\ len + (k - len) = k
        BY <1>2, <1>4, <3>2
      <4> DEFINE m == k - len
      <4>2. m \in 1..count /\ len + m = k
        BY <4>1
      <4> HIDE DEF m
      <4>3. slots[k] = Added(items)[m]
        BY <1>5, <4>2
      <4>4. slots[k].id = items[m].id
        BY <1>3, <4>2, <4>3
      <4> QED
        BY <1>6, <4>2, <4>4
    <3> QED
      BY <1>9, <3>1, <3>2
  <2>2. \A i \in Id : table[i] # 0 => table[i] \in LivePlaces(slots) /\ slots[table[i]].id = i
    <3> SUFFICES ASSUME NEW i \in Id, table[i] # 0
                 PROVE  table[i] \in LivePlaces(slots) /\ slots[table[i]].id = i
      OBVIOUS
    <3>1. CASE i \in Named(items)
      <4>1. PICK m \in 1..count : items[m].id = i
        BY <1>2, <3>1 DEF Named
      <4>2. table[i] = len + m /\ len + m \in len + 1..len + count
        BY <1>2, <1>4, <1>6, <4>1
      <4>3. slots[len + m].id = i
        BY <1>3, <1>5, <4>1
      <4> QED
        BY <1>9, <4>2, <4>3
    <3>2. CASE i \notin Named(items)
      <4>1. table[i] = s.idToSlot[i]
        BY <1>7, <3>2
      <4>2. s.idToSlot[i] \in LivePlaces(s.slots) /\ s.slots[s.idToSlot[i]].id = i
            /\ s.idToSlot[i] \in 1..len
        BY <1>4, <4>1, GoodFacts DEF Tables
      <4> QED
        BY <1>5, <1>9, <4>1, <4>2
    <3> QED
      BY <3>1, <3>2
  <2> QED
    BY <1>10, <1>11, <2>1, <2>2 DEF Tables
<1>13. ASSUME NEW i \in Id, i \notin Named(items) PROVE ViewOf(t)[i] = ViewOf(s)[i]
  <2>1. table[i] = s.idToSlot[i]
    BY <1>7, <1>13
  <2>2. table[i] # 0 => slots[table[i]] = s.slots[table[i]]
    BY <1>4, <1>5, <2>1, GoodFacts
  <2> QED
    BY <1>11, <2>1, <2>2 DEF ViewOf
<1>14. ASSUME NEW m \in DOMAIN items PROVE ViewOf(t)[items[m].id] = items[m].rec
  <2>1. m \in 1..count /\ items[m].id \in Id
    BY <1>2
  <2>2. table[items[m].id] = len + m /\ len + m # 0
    BY <1>4, <1>6, <2>1
  <2>3. slots[len + m].rec = items[m].rec
    BY <1>3, <1>5, <2>1
  <2> QED
    BY <1>11, <2>1, <2>2, <2>3 DEF ViewOf
<1> QED
  BY <1>11, <1>12, <1>13, <1>14
-----------------------------------------------------------------------------
(* A set of places that is not empty has a last one.                        *)
LEMMA LastExists ==
  \A n \in Nat : \A S \in SUBSET (1..n) : S # {} => \E k \in S : \A j \in S : j <= k
<1> DEFINE T == {n \in Nat : \A S \in SUBSET (1..n) :
                               S # {} => \E k \in S : \A j \in S : j <= k}
<1>1. 0 \in T
  <2>1. \A k : ~(k \in 1..0)
    OBVIOUS
  <2>2. \A S \in SUBSET (1..0) : S = {}
    BY <2>1, Zenon
  <2> QED
    BY <2>2
<1>2. ASSUME NEW n \in T PROVE n + 1 \in T
  <2> SUFFICES \A S \in SUBSET (1..n + 1) : S # {} => \E k \in S : \A j \in S : j <= k
    OBVIOUS
  <2> TAKE S \in SUBSET (1..n + 1)
  <2> HAVE S # {}
  <2>1. CASE n + 1 \in S
    BY <2>1
  <2>2. CASE n + 1 \notin S
    <3>1. S \in SUBSET (1..n)
      <4>1. \A k \in S : k \in 1..n + 1 /\ k # n + 1
        BY <2>2
      <4>2. n \in Nat
        OBVIOUS
      <4>3. \A k \in 1..n + 1 : k # n + 1 => k \in 1..n
        BY <4>2
      <4> QED
        BY <4>1, <4>3
    <3> QED
      BY <3>1
  <2> QED
    BY <2>1, <2>2
<1> HIDE DEF T
<1>3. \A n \in Nat : n \in T
  BY <1>1, <1>2, Induction DEF T
<1> QED
  BY <1>3 DEF T

(* LastWins keeps, for each id of a batch, the record it asks for.          *)
LEMMA LastWinsFacts ==
  ASSUME NEW batch \in Seq(Item), NEW kept, kept = LastWins(batch)
  PROVE  /\ kept \in Seq(Item) /\ Named(kept) = Named(batch) /\ Named(batch) \in SUBSET Id
         /\ \A l, m \in DOMAIN kept : kept[l].id = kept[m].id => l = m
         /\ DOMAIN Asked(batch) = Named(batch)
         /\ \A m \in DOMAIN kept : Asked(batch)[kept[m].id] = kept[m].rec
<1> DEFINE S == {k \in DOMAIN batch : Last(batch, k)}
<1>1. /\ Len(batch) \in Nat /\ DOMAIN batch = 1..Len(batch)
      /\ \A k \in DOMAIN batch : batch[k] \in Item
  BY LenProperties, ElementOfSeq
<1>2. kept = Pick(batch, S)
  BY Zenon DEF LastWins
<1>3. \A j, k \in S : batch[j].id = batch[k].id => j = k
  <2> SUFFICES ASSUME NEW j \in S, NEW k \in S, batch[j].id = batch[k].id PROVE j = k
    OBVIOUS
  <2>1. j <= k /\ k <= j
    BY DEF Last
  <2> QED
    BY <1>1, <2>1
<1>4. \A k \in DOMAIN batch : \E l \in S : batch[l].id = batch[k].id
  <2> SUFFICES ASSUME NEW k \in DOMAIN batch PROVE \E l \in S : batch[l].id = batch[k].id
    OBVIOUS
  <2> DEFINE same == {j \in DOMAIN batch : batch[j].id = batch[k].id}
  <2>1. same \in SUBSET (1..Len(batch)) /\ same # {}
    BY <1>1
  <2>2. PICK l \in same : \A j \in same : j <= l
    BY <1>1, <2>1, LastExists
  <2> QED
    BY <2>2 DEF Last
<1>5. \A k \in S : Asked(batch)[batch[k].id] = batch[k].rec
  <2> SUFFICES ASSUME NEW k \in S PROVE Asked(batch)[batch[k].id] = batch[k].rec
    OBVIOUS
  <2> DEFINE i == batch[k].id
             P(item) == \E l \in DOMAIN batch :
                          /\ batch[l] = item /\ item.id = i
                          /\ \A j \in DOMAIN batch : batch[j].id = i => j <= l
             items == {batch[l] : l \in DOMAIN batch}
  <2>1. batch[k] \in items /\ P(batch[k])
    BY DEF Last
  <2>2. ASSUME NEW item \in items, P(item) PROVE item = batch[k]
    <3>1. PICK l \in DOMAIN batch : /\ batch[l] = item /\ item.id = i
                                    /\ \A j \in DOMAIN batch : batch[j].id = i => j <= l
      BY <2>2
    <3>2. l \in S
      BY <3>1 DEF Last
    <3> QED
      BY <1>3, <3>1, <3>2
  <2>3. (CHOOSE item \in items : P(item)) = batch[k]
    <3> HIDE DEF P, items
    <3> QED
      BY <2>1, <2>2
  <2>4. i \in {batch[l].id : l \in DOMAIN batch}
    OBVIOUS
  <2>5. Asked(batch)[i] = (CHOOSE item \in items : P(item)).rec
    BY <2>4, Zenon DEF Asked
  <2> QED
    BY <2>3, <2>5
<1> HIDE DEF S
<1>6. S \in SUBSET DOMAIN batch
  BY DEF S
<1>7. /\ kept \in Seq(Item)
      /\ \A m \in DOMAIN kept : Place(S, m) \in S /\ kept[m] = batch[Place(S, m)]
      /\ \A k \in S : \E m \in DOMAIN kept : Place(S, m) = k
      /\ \A l, m \in DOMAIN kept : Place(S, l) = Place(S, m) => l = m
  BY <1>2, <1>6, PickFacts
<1>8. Named(kept) = Named(batch)
  <2>1. \A m \in DOMAIN kept : kept[m].id \in Named(batch)
    BY <1>6, <1>7 DEF Named
  <2>2. \A k \in DOMAIN batch : batch[k].id \in Named(kept)
    BY <1>4, <1>7 DEF Named
  <2> QED
    BY <2>1, <2>2 DEF Named
<1>9. Named(batch) \in SUBSET Id
  BY <1>1 DEF Named, Item
<1>10. DOMAIN Asked(batch) = Named(batch)
  BY DEF Asked, Named
<1> QED
  BY <1>3, <1>5, <1>7, <1>8, <1>9, <1>10
-----------------------------------------------------------------------------
(* Ids with a slot are as many as live slots.                               *)
LEMMA LiveIds ==
  ASSUME NEW n \in Nat, NEW slots, NEW table, DOMAIN slots = 1..n,
         \A k \in DOMAIN slots : slots[k].id \in Id,
         \A k \in LivePlaces(slots) : table[slots[k].id] = k,
         \A i \in Id : table[i] # 0 => table[i] \in LivePlaces(slots) /\ slots[table[i]].id = i
  PROVE  Cardinality({i \in Id : table[i] # 0}) = Cardinality(LivePlaces(slots))
<1> DEFINE live == LivePlaces(slots)
           ids == {i \in Id : table[i] # 0}
           idOf == [k \in live |-> slots[k].id]
<1>1. live \in SUBSET (1..n) /\ IsFiniteSet(live)
  <2>1. live \in SUBSET (1..n)
    BY DEF LivePlaces
  <2>2. IsFiniteSet(1..n)
    BY FS_Interval
  <2> HIDE DEF live
  <2> QED
    BY <2>1, <2>2, FS_Subset
<1>2. \A k \in live : k # 0 /\ slots[k].id \in ids
  <2>1. \A k \in live : k # 0 /\ k \in DOMAIN slots
    BY <1>1
  <2> QED
    BY <2>1
<1>3. idOf \in Bijection(live, ids)
  <2>1. idOf \in [live -> ids]
    BY <1>2
  <2>2. \A j, k \in live : idOf[j] = idOf[k] => j = k
    OBVIOUS
  <2>3. \A i \in ids : table[i] \in live /\ idOf[table[i]] = i
    OBVIOUS
  <2> HIDE DEF idOf, live, ids
  <2> QED
    BY <2>1, <2>2, <2>3 DEF Bijection, Injection, Surjection, IsInjective
<1> HIDE DEF live, ids, idOf
<1>4. Cardinality(ids) = Cardinality(live)
  BY <1>1, <1>3, FS_Bijection DEF ExistsBijection
<1> QED
  BY <1>4 DEF live, ids

(* A collection made of slots that are live once per id: each id with a     *)
(* live slot shows its record, and the others show none.                    *)
LEMMA NewFacts ==
  ASSUME NEW slots \in Seq(Slot), NEW kind \in {"flat", "hnsw"},
         \A j, k \in LivePlaces(slots) : slots[j].id = slots[k].id => j = k,
         NEW t, t = New(slots, kind)
  PROVE  /\ t \in State /\ Tables(t) /\ ~Building(t) /\ t.ops = <<>>
         /\ t.kind = kind /\ t.slots = slots /\ t.generation = 0
         /\ \A k \in LivePlaces(slots) : t.idToSlot[slots[k].id] = k
         /\ \A i \in Id : (\A k \in LivePlaces(slots) : slots[k].id # i) => t.idToSlot[i] = 0
<1> DEFINE own(i) == {k \in DOMAIN slots : slots[k].id = i /\ ~slots[k].tomb}
           table == SlotTable(slots)
<1>1. /\ Len(slots) \in Nat /\ DOMAIN slots = 1..Len(slots)
      /\ \A k \in DOMAIN slots : slots[k] \in Slot /\ slots[k].id \in Id
  <2>1. /\ Len(slots) \in Nat /\ DOMAIN slots = 1..Len(slots)
        /\ \A k \in DOMAIN slots : slots[k] \in Slot
    BY LenProperties, ElementOfSeq
  <2> QED
    BY <2>1 DEF Slot
<1>2. \A i \in Id : table[i] = IF own(i) = {} THEN 0 ELSE LastOf(own(i))
  BY DEF SlotTable
<1>3. ASSUME NEW k \in LivePlaces(slots) PROVE table[slots[k].id] = k /\ k # 0
  <2>1. k \in DOMAIN slots /\ k \in 1..Len(slots) /\ slots[k].id \in Id
    BY <1>1 DEF LivePlaces
  <2>2. own(slots[k].id) = {k}
    BY <2>1 DEF LivePlaces
  <2>3. LastOf({k}) = k
    BY <2>1 DEF LastOf
  <2>4. table[slots[k].id] = IF own(slots[k].id) = {} THEN 0 ELSE LastOf(own(slots[k].id))
    BY <1>2, <2>1
  <2> HIDE DEF table, own
  <2> QED
    BY <2>1, <2>2, <2>3, <2>4
<1>4. ASSUME NEW i \in Id, \A k \in LivePlaces(slots) : slots[k].id # i PROVE table[i] = 0
  BY <1>2, <1>4 DEF LivePlaces
<1>5. ASSUME NEW i \in Id, table[i] # 0
      PROVE  table[i] \in LivePlaces(slots) /\ slots[table[i]].id = i
  <2>1. PICK k \in LivePlaces(slots) : slots[k].id = i
    BY <1>4, <1>5
  <2> QED
    BY <1>3, <2>1
<1>6. table \in [Id -> Nat]
  <2>1. \A i \in Id : table[i] \in Nat
    <3>1. LivePlaces(slots) \subseteq Nat
      BY <1>1 DEF LivePlaces
    <3> HIDE DEF table
    <3> QED
      BY <1>5, <3>1
  <2>2. table = [i \in Id |-> table[i]]
    BY DEF SlotTable
  <2> HIDE DEF table
  <2> QED
    BY <2>1, <2>2
<1> HIDE DEF table
<1>7. Cardinality({i \in Id : table[i] # 0}) = Cardinality(LivePlaces(slots))
  BY <1>1, <1>3, <1>5, LiveIds
<1>8. Cardinality(LivePlaces(slots)) \in Nat
  <2>1. IsFiniteSet(1..Len(slots)) /\ LivePlaces(slots) \subseteq 1..Len(slots)
    BY <1>1, FS_Interval DEF LivePlaces
  <2> QED
    BY <2>1, FS_Subset, FS_CardinalityType
<1>9. /\ t \in State /\ t.ops = <<>> /\ t.kind = kind /\ t.slots = slots
      /\ t.idToSlot = table /\ t.job = NoJob /\ t.generation = 0
      /\ t.live = Cardinality(LivePlaces(slots))
  <2>1. ASSUME NEW n \in Nat, NEW r,
               r = [generation |-> 0, slots |-> slots, idToSlot |-> table, kind |-> kind,
                    live |-> n, job |-> NoJob, ops |-> <<>>]
        PROVE  /\ r \in State /\ r.ops = <<>> /\ r.kind = kind /\ r.slots = slots
               /\ r.idToSlot = table /\ r.job = NoJob /\ r.generation = 0 /\ r.live = n
    BY <1>6, <2>1 DEF State
  <2>2. t = [generation |-> 0, slots |-> slots, idToSlot |-> table, kind |-> kind,
             live |-> Cardinality({i \in Id : table[i] # 0}), job |-> NoJob, ops |-> <<>>]
    BY Zenon DEF New, table
  <2> DEFINE n == Cardinality({i \in Id : table[i] # 0})
  <2>3. n \in Nat /\ n = Cardinality(LivePlaces(slots))
    BY <1>7, <1>8, Zenon
  <2> HIDE DEF n
  <2>4. t = [generation |-> 0, slots |-> slots, idToSlot |-> table, kind |-> kind,
             live |-> n, job |-> NoJob, ops |-> <<>>]
    BY <2>2, Zenon DEF n
  <2>5. /\ t \in State /\ t.ops = <<>> /\ t.kind = kind /\ t.slots = slots
        /\ t.idToSlot = table /\ t.job = NoJob /\ t.generation = 0 /\ t.live = n
    BY <2>1, <2>3, <2>4, Zenon
  <2> QED
    BY <2>3, <2>5, Zenon
<1> QED
  BY <1>3, <1>4, <1>5, <1>9 DEF Tables, Building
-----------------------------------------------------------------------------
(* The copy a rebuild works on: the live slots, which have different ids.   *)
LEMMA CopyFacts ==
  ASSUME NEW s \in State, Tables(s)
  PROVE  /\ LiveSlots(s) \in Seq(Slot)
         /\ \A m \in DOMAIN LiveSlots(s) :
              \E k \in LivePlaces(s.slots) : LiveSlots(s)[m] = s.slots[k] /\ ~s.slots[k].tomb
         /\ \A k \in LivePlaces(s.slots) :
              \E m \in DOMAIN LiveSlots(s) : LiveSlots(s)[m] = s.slots[k]
         /\ \A l, m \in DOMAIN LiveSlots(s) : LiveSlots(s)[l].id = LiveSlots(s)[m].id => l = m
<1> DEFINE S == LivePlaces(s.slots)
           copy == LiveSlots(s)
<1>1. S \in SUBSET DOMAIN s.slots /\ s.slots \in Seq(Slot) /\ \A k \in S : ~s.slots[k].tomb
  BY GoodFacts DEF LivePlaces
<1>2. copy = Pick(s.slots, S)
  BY Zenon DEF LiveSlots, LivePlaces
<1>3. \A j, k \in S : s.slots[j].id = s.slots[k].id => j = k
  BY DEF Tables
<1> HIDE DEF S, copy
<1>4. /\ copy \in Seq(Slot)
      /\ \A m \in DOMAIN copy : Place(S, m) \in S /\ copy[m] = s.slots[Place(S, m)]
      /\ \A k \in S : \E m \in DOMAIN copy : Place(S, m) = k
      /\ \A l, m \in DOMAIN copy : Place(S, l) = Place(S, m) => l = m
  BY <1>1, <1>2, PickFacts
<1>5. \A l, m \in DOMAIN copy : copy[l].id = copy[m].id => l = m
  BY <1>3, <1>4
<1>6. \A k \in S : \E m \in DOMAIN copy : copy[m] = s.slots[k]
  BY <1>4
<1>7. \A m \in DOMAIN copy : \E k \in S : copy[m] = s.slots[k] /\ ~s.slots[k].tomb
  BY <1>1, <1>4
<1> QED
  BY <1>4, <1>5, <1>6, <1>7 DEF S, copy

(* _maybe_rebuild leaves all but the job and its log alone.                 *)
LEMMA MaybeRebuildFacts ==
  ASSUME NEW s, Good(s), NEW t, t = MaybeRebuild(s)
  PROVE  /\ Good(t) /\ ViewOf(t) = ViewOf(s) /\ t.kind = s.kind /\ t.generation = s.generation
         /\ t.slots = s.slots /\ t.idToSlot = s.idToSlot
         /\ Building(s) => t = s
         /\ t = s \/ (~Building(s) /\ Building(t) /\ t.ops = <<>> /\ t.job.copy = LiveSlots(s))
<1> DEFINE kind == IF Promote(s) THEN "hnsw" ELSE s.kind
           job == [kind |-> kind, copy |-> LiveSlots(s)]
<1>1. s \in State /\ Tables(s) /\ CopyOf(s)
  BY DEF Good
<1>2. CASE t = s
  BY <1>2
<1>3. CASE t # s
  <2>1. ~Building(s) /\ t = [s EXCEPT !.job = job, !.ops = <<>>]
    BY <1>3, Zenon DEF MaybeRebuild
  <2>2. kind \in {"flat", "hnsw"} /\ (s.kind = "hnsw" => kind = "hnsw")
    BY <1>1 DEF State
  <2>3. LiveSlots(s) \in Seq(Slot)
    BY <1>1, CopyFacts
  <2> HIDE DEF kind
  <2>4. job \in Job /\ job # NoJob /\ job.kind = kind /\ job.copy = LiveSlots(s)
    BY <2>2, <2>3 DEF Job, NoJob
  <2> HIDE DEF job
  <2>5. /\ t \in State /\ t.job = job /\ t.ops = <<>> /\ t.kind = s.kind
        /\ t.slots = s.slots /\ t.idToSlot = s.idToSlot /\ t.live = s.live
        /\ t.generation = s.generation
    <3>1. \A r : r = [s EXCEPT !.job = job, !.ops = <<>>] =>
                   /\ r \in State /\ r.job = job /\ r.ops = <<>> /\ r.kind = s.kind
                   /\ r.slots = s.slots /\ r.idToSlot = s.idToSlot /\ r.live = s.live
                   /\ r.generation = s.generation
      <4>1. <<>> \in Seq(LoggedWrite)
        BY EmptySeq
      <4>2. job \in Job \cup {NoJob}
        BY <2>4
      <4> QED
        BY <1>1, <4>1, <4>2 DEF State
    <3> QED
      BY <2>1, <3>1, Zenon
  <2>6. Tables(t) /\ ViewOf(t) = ViewOf(s)
    BY <1>1, <2>5 DEF Tables, ViewOf
  <2>7. CopyOf(t)
    <3>1. /\ \A m \in DOMAIN LiveSlots(s) : ~LiveSlots(s)[m].tomb
          /\ \A l, m \in DOMAIN LiveSlots(s) : LiveSlots(s)[l].id = LiveSlots(s)[m].id => l = m
      BY <1>1, CopyFacts
    <3> QED
      BY <2>2, <2>4, <2>5, <3>1 DEF CopyOf
  <2>8. Building(t)
    BY <2>4, <2>5 DEF Building
  <2> QED
    BY <2>1, <2>4, <2>5, <2>6, <2>7, <2>8 DEF Good
<1> QED
  BY <1>2, <1>3

(* The collection a rebuild makes of its copy.                              *)
LEMMA FreshFacts ==
  ASSUME NEW s, Good(s), Building(s), NEW t, t = Fresh(s)
  PROVE  /\ Good(t) /\ ~Building(t) /\ t.ops = <<>> /\ t.kind = s.job.kind
         /\ \A m \in DOMAIN s.job.copy : ViewOf(t)[s.job.copy[m].id] = s.job.copy[m].rec
         /\ \A i \in Id : (\A m \in DOMAIN s.job.copy : s.job.copy[m].id # i) => ViewOf(t)[i] = Absent
<1> DEFINE copy == s.job.copy
           new == New(copy, s.job.kind)
<1>1. s \in State /\ s.job \in Job /\ copy \in Seq(Slot) /\ s.job.kind \in {"flat", "hnsw"}
      /\ s.generation \in 0..1
  <2>1. s \in State /\ s.job # NoJob
    BY DEF Good, Building
  <2>2. s.job \in Job /\ s.generation \in 0..1
    BY <2>1 DEF State
  <2> QED
    BY <2>1, <2>2 DEF Job
<1>2. /\ \A m \in DOMAIN copy : ~copy[m].tomb
      /\ \A j, k \in DOMAIN copy : copy[j].id = copy[k].id => j = k
  BY DEF Good, CopyOf
<1>3. LivePlaces(copy) = DOMAIN copy
  BY <1>2 DEF LivePlaces
<1> HIDE DEF copy
<1>4. /\ new \in State /\ Tables(new) /\ ~Building(new) /\ new.ops = <<>>
      /\ new.kind = s.job.kind /\ new.slots = copy
      /\ \A k \in DOMAIN copy : new.idToSlot[copy[k].id] = k
      /\ \A i \in Id : (\A k \in DOMAIN copy : copy[k].id # i) => new.idToSlot[i] = 0
  BY <1>1, <1>2, <1>3, NewFacts
<1> HIDE DEF new
<1>5. /\ t \in State /\ t.ops = new.ops /\ t.kind = new.kind /\ t.slots = new.slots
      /\ t.idToSlot = new.idToSlot /\ t.job = new.job /\ t.live = new.live
  <2> DEFINE g == (s.generation + 1) % 2
  <2>1. g \in 0..1
    BY <1>1
  <2>2. t = [new EXCEPT !.generation = g]
    BY Zenon DEF Fresh, new, copy
  <2> HIDE DEF g
  <2>3. \A r : r = [new EXCEPT !.generation = g] =>
          /\ r \in State /\ r.ops = new.ops /\ r.kind = new.kind /\ r.slots = new.slots
          /\ r.idToSlot = new.idToSlot /\ r.job = new.job /\ r.live = new.live
    BY <1>4, <2>1 DEF State
  <2> QED
    BY <2>2, <2>3, Zenon
<1>6. ~Building(t) /\ CopyOf(t) /\ Tables(t)
  BY <1>4, <1>5 DEF Building, CopyOf, Tables
<1>7. ViewOf(t) = ViewOf(new)
  BY <1>5 DEF ViewOf
<1>8. ASSUME NEW m \in DOMAIN copy PROVE ViewOf(new)[copy[m].id] = copy[m].rec
  <2>1. copy[m].id \in Id /\ m # 0
    <3>1. DOMAIN copy = 1..Len(copy) /\ copy[m] \in Slot
      BY <1>1, LenProperties, ElementOfSeq
    <3> QED
      BY <3>1 DEF Slot
  <2> QED
    BY <1>4, <2>1 DEF ViewOf
<1>9. ASSUME NEW i \in Id, \A m \in DOMAIN copy : copy[m].id # i PROVE ViewOf(new)[i] = Absent
  BY <1>4, <1>9 DEF ViewOf
<1> QED
  BY <1>4, <1>5, <1>6, <1>7, <1>8, <1>9 DEF Good, copy
(* Readers find nothing exactly where the id table has no slot.             *)
LEMMA ViewFacts ==
  ASSUME NEW s \in State, Tables(s)
  PROVE  /\ ViewOf(s) \in [Id -> Rec \cup {Absent}]
         /\ \A i \in Id : s.idToSlot[i] = 0 <=> ViewOf(s)[i] = Absent
<1> SUFFICES ASSUME NEW i \in Id
             PROVE  /\ ViewOf(s)[i] \in Rec \cup {Absent}
                    /\ s.idToSlot[i] = 0 <=> ViewOf(s)[i] = Absent
  BY DEF ViewOf
<1>1. CASE s.idToSlot[i] = 0
  BY <1>1 DEF ViewOf
<1>2. CASE s.idToSlot[i] # 0
  <2>1. s.slots[s.idToSlot[i]] \in Slot
    BY <1>2, GoodFacts
  <2>2. ViewOf(s)[i] \in Rec
    BY <1>2, <2>1 DEF ViewOf, Slot
  <2>3. Absent \notin Rec
    BY NullIsNoVector DEF Absent, Rec
  <2> QED
    BY <1>2, <2>2, <2>3
<1> QED
  BY <1>1, <1>2

(* A rebuild that has just started has readers' view in its copy.           *)
LEMMA StartFacts ==
  ASSUME NEW s, Good(s), ~Building(s), NEW t, t = MaybeRebuild(s), Building(t)
  PROVE  t.ops = <<>> /\ ViewOf(Fresh(t)) = ViewOf(t)
<1>1. s \in State /\ Tables(s)
  BY DEF Good
<1>2. /\ Good(t) /\ t.ops = <<>> /\ t.job.copy = LiveSlots(s) /\ ViewOf(t) = ViewOf(s)
  BY MaybeRebuildFacts
<1> DEFINE copy == LiveSlots(s)
<1>3. /\ \A m \in DOMAIN copy : ViewOf(Fresh(t))[copy[m].id] = copy[m].rec
      /\ \A i \in Id : (\A m \in DOMAIN copy : copy[m].id # i) => ViewOf(Fresh(t))[i] = Absent
  BY <1>2, FreshFacts
<1>4. /\ \A m \in DOMAIN copy : \E k \in LivePlaces(s.slots) : copy[m] = s.slots[k]
      /\ \A k \in LivePlaces(s.slots) : \E m \in DOMAIN copy : copy[m] = s.slots[k]
  BY <1>1, CopyFacts
<1> HIDE DEF copy
<1>5. ASSUME NEW i \in Id PROVE ViewOf(Fresh(t))[i] = ViewOf(s)[i]
  <2>1. CASE s.idToSlot[i] = 0
    <3>1. \A k \in LivePlaces(s.slots) : s.slots[k].id # i
      <4>1. \A k \in LivePlaces(s.slots) : k # 0
        BY <1>1, GoodFacts
      <4> QED
        BY <1>1, <2>1, <4>1 DEF Tables
    <3>2. ViewOf(Fresh(t))[i] = Absent
      BY <1>3, <1>4, <3>1
    <3> QED
      BY <2>1, <3>2 DEF ViewOf
  <2>2. CASE s.idToSlot[i] # 0
    <3>1. s.idToSlot[i] \in LivePlaces(s.slots) /\ s.slots[s.idToSlot[i]].id = i
      BY <1>1, <2>2 DEF Tables
    <3>2. PICK m \in DOMAIN copy : copy[m] = s.slots[s.idToSlot[i]]
      BY <1>4, <3>1
    <3>3. ViewOf(Fresh(t))[i] = s.slots[s.idToSlot[i]].rec
      BY <1>3, <3>1, <3>2
    <3> QED
      BY <2>2, <3>3 DEF ViewOf
  <2> QED
    BY <2>1, <2>2
<1>6. ViewOf(Fresh(t)) = ViewOf(s)
  BY <1>5 DEF ViewOf
<1> QED
  BY <1>2, <1>6

-----------------------------------------------------------------------------
(* What a logged write does to the records readers see, ...                 *)
Effect(op, view) ==
  CASE op.op = "upsert" -> IF Refuses(op.batch) THEN view ELSE Overlay(Asked(op.batch), view)
    [] op.op = "delete" -> Overlay([i \in op.ids |-> Absent], view)
    [] op.op = "meta" -> [view EXCEPT ![op.id].meta = @ \cup op.fields]

(* ... and to the rebuild: it is logged while one runs, and may start one,  *)
(* which has what readers see after the write.                              *)
Logs(s, t, op) ==
  /\ Good(t) /\ t.kind = s.kind
  /\ Building(s) => t.job = s.job /\ t.generation = s.generation /\ t.ops = Append(s.ops, op)
  /\ ~Building(s) /\ ~Building(t) => t.ops = s.ops
  /\ ~Building(s) /\ Building(t) => t.ops = <<>> /\ ViewOf(Fresh(t)) = ViewOf(t)
Wrote(s, t, op) ==
  /\ Logs(s, t, op) /\ ViewOf(t) = Effect(op, ViewOf(s))
  /\ op.op = "meta" => ViewOf(s)[op.id] # Absent

LEMMA LogFacts ==
  ASSUME NEW s, Good(s), NEW op \in LoggedWrite, NEW t, t = Log(s, op)
  PROVE  /\ Good(t) /\ ViewOf(t) = ViewOf(s) /\ t.kind = s.kind /\ t.slots = s.slots
         /\ t.idToSlot = s.idToSlot /\ t.job = s.job /\ t.generation = s.generation
         /\ Building(t) <=> Building(s)
         /\ t.ops = IF Building(s) THEN Append(s.ops, op) ELSE s.ops
<1>1. s \in State /\ Tables(s) /\ CopyOf(s)
  BY DEF Good
<1>2. CASE Building(s)
  <2> DEFINE ops == Append(s.ops, op)
  <2>1. ops \in Seq(LoggedWrite)
    BY <1>1, AppendProperties DEF State
  <2>2. t = [s EXCEPT !.ops = ops]
    <3>1. t = [s EXCEPT !.ops = Append(@, op)]
      BY <1>2, Zenon DEF Log
    <3> QED
      BY <1>1, <3>1 DEF State
  <2>3. ops = Append(s.ops, op)
    OBVIOUS
  <2> HIDE DEF ops
  <2>4. /\ t \in State /\ t.ops = ops /\ t.kind = s.kind /\ t.slots = s.slots /\ t.live = s.live
        /\ t.idToSlot = s.idToSlot /\ t.job = s.job /\ t.generation = s.generation
    <3>1. \A r : r = [s EXCEPT !.ops = ops] =>
            /\ r \in State /\ r.ops = ops /\ r.kind = s.kind /\ r.slots = s.slots /\ r.live = s.live
            /\ r.idToSlot = s.idToSlot /\ r.job = s.job /\ r.generation = s.generation
      BY <1>1, <2>1 DEF State
    <3> QED
      BY <2>2, <3>1, Zenon
  <2>5. Tables(t) /\ CopyOf(t) /\ ViewOf(t) = ViewOf(s) /\ (Building(t) <=> Building(s))
    BY <1>1, <2>4 DEF Tables, CopyOf, ViewOf, Building
  <2> QED
    BY <1>2, <2>3, <2>4, <2>5 DEF Good
<1>3. CASE ~Building(s)
  <2>1. t = s
    BY <1>3 DEF Log
  <2> QED
    BY <1>3, <2>1
<1> QED
  BY <1>2, <1>3

(* The end of an upsert or a delete: what _maybe_rebuild does to a record   *)
(* with the same job and log as the logged one.                             *)
LEMMA EndOfWrite ==
  ASSUME NEW s, Good(s), NEW op \in LoggedWrite, NEW r, r \in State, Tables(r),
         r.job = s.job, r.kind = s.kind, r.generation = s.generation,
         r.ops = IF Building(s) THEN Append(s.ops, op) ELSE s.ops,
         NEW t, t = MaybeRebuild(r)
  PROVE  Logs(s, t, op) /\ ViewOf(t) = ViewOf(r)
<1>1. CopyOf(r) /\ (Building(r) <=> Building(s))
  BY DEF Good, CopyOf, Building
<1>2. Good(r)
  BY <1>1 DEF Good
<1>3. /\ Good(t) /\ ViewOf(t) = ViewOf(r) /\ t.kind = r.kind
      /\ Building(r) => t = r
      /\ t = r \/ (~Building(r) /\ Building(t))
  BY <1>2, MaybeRebuildFacts, Zenon
<1>4. ~Building(r) /\ Building(t) => t.ops = <<>> /\ ViewOf(Fresh(t)) = ViewOf(t)
  BY <1>2, StartFacts
<1> QED
  BY <1>1, <1>3, <1>4 DEF Logs
LEMMA UpsertFacts ==
  ASSUME NEW s, Good(s), NEW batch \in Batch, NEW t, t = ApplyUpsert(s, batch)
  PROVE  Wrote(s, t, [op |-> "upsert", batch |-> batch])
<1> DEFINE op == [op |-> "upsert", batch |-> batch]
           logged == Log(s, op)
           kept == LastWins(batch)
           gone == HasSlot(s, Named(kept))
           cleared == Tombstone(logged, gone)
           filled == AddSlots(cleared, kept)
<1>1. op \in LoggedWrite /\ op.op = "upsert" /\ op.batch = batch
  BY DEF LoggedWrite
<1>2. t = IF Refuses(batch) THEN logged ELSE MaybeRebuild(filled)
  BY Zenon DEF ApplyUpsert
<1>3. /\ kept \in Seq(Item) /\ Named(kept) = Named(batch) /\ Named(batch) \in SUBSET Id
      /\ \A l, m \in DOMAIN kept : kept[l].id = kept[m].id => l = m
      /\ DOMAIN Asked(batch) = Named(batch)
      /\ \A m \in DOMAIN kept : Asked(batch)[kept[m].id] = kept[m].rec
  <2>1. batch \in Seq(Item)
    BY BatchType
  <2> QED
    BY <2>1, LastWinsFacts
<1> HIDE DEF op, kept
<1>4. /\ Good(logged) /\ ViewOf(logged) = ViewOf(s) /\ logged.kind = s.kind
      /\ logged.idToSlot = s.idToSlot /\ logged.job = s.job /\ logged.generation = s.generation
      /\ Building(logged) <=> Building(s)
      /\ logged.ops = IF Building(s) THEN Append(s.ops, op) ELSE s.ops
  BY <1>1, LogFacts
<1> HIDE DEF logged
<1>5. CASE Refuses(batch)
  <2>1. t = logged
    BY <1>2, <1>5
  <2>2. Effect(op, ViewOf(s)) = ViewOf(s)
    BY <1>1, <1>5 DEF Effect
  <2> QED
    BY <1>1, <1>4, <2>1, <2>2 DEF Wrote, Logs, op
<1>6. CASE ~Refuses(batch)
  <2>1. logged \in State /\ Tables(logged)
    BY <1>4 DEF Good
  <2>2. /\ gone \in SUBSET Id /\ \A i \in gone : logged.idToSlot[i] # 0 /\ i \in Named(kept)
        /\ \A i \in Named(kept) : i \notin gone => logged.idToSlot[i] = 0
    BY <1>3, <1>4 DEF HasSlot
  <2> HIDE DEF gone
  <2>3. /\ cleared \in State /\ Tables(cleared)
        /\ cleared.generation = logged.generation /\ cleared.kind = logged.kind
        /\ cleared.job = logged.job /\ cleared.ops = logged.ops
        /\ \A i \in Id : cleared.idToSlot[i] = IF i \in gone THEN 0 ELSE logged.idToSlot[i]
        /\ ViewOf(cleared) = Overlay([i \in gone |-> Absent], ViewOf(logged))
    BY <2>1, <2>2, TombstoneFacts
  <2> HIDE DEF cleared
  <2>4. \A m \in DOMAIN kept : cleared.idToSlot[kept[m].id] = 0
    BY <1>3, <2>2, <2>3 DEF Named
  <2>5. /\ filled \in State /\ Tables(filled)
        /\ filled.generation = cleared.generation /\ filled.kind = cleared.kind
        /\ filled.job = cleared.job /\ filled.ops = cleared.ops
        /\ \A i \in Id : i \notin Named(kept) => ViewOf(filled)[i] = ViewOf(cleared)[i]
        /\ \A m \in DOMAIN kept : ViewOf(filled)[kept[m].id] = kept[m].rec
    BY <1>3, <2>3, <2>4, AddSlotsFacts
  <2> HIDE DEF filled
  <2>6. ASSUME NEW i \in Id PROVE ViewOf(filled)[i] = Overlay(Asked(batch), ViewOf(s))[i]
    <3>1. CASE i \in Named(kept)
      <4>1. PICK m \in DOMAIN kept : kept[m].id = i
        BY <3>1 DEF Named
      <4> QED
        BY <1>3, <2>5, <3>1, <4>1 DEF Overlay
    <3>2. CASE i \notin Named(kept)
      <4>1. i \notin gone
        BY <2>2, <3>2
      <4>2. ViewOf(cleared)[i] = ViewOf(s)[i]
        BY <1>4, <2>3, <4>1 DEF Overlay
      <4> QED
        BY <1>3, <2>5, <3>2, <4>2 DEF Overlay
    <3> QED
      BY <3>1, <3>2
  <2>7. ViewOf(filled) = Overlay(Asked(batch), ViewOf(s))
    BY <2>6 DEF ViewOf, Overlay
  <2>8. Logs(s, t, op) /\ ViewOf(t) = ViewOf(filled)
    <3>1. t = MaybeRebuild(filled)
      BY <1>2, <1>6
    <3>2. /\ filled.job = s.job /\ filled.kind = s.kind /\ filled.generation = s.generation
          /\ filled.ops = IF Building(s) THEN Append(s.ops, op) ELSE s.ops
      BY <1>4, <2>3, <2>5, Zenon
    <3> QED
      BY <1>1, <2>5, <3>1, <3>2, EndOfWrite
  <2>9. Effect(op, ViewOf(s)) = Overlay(Asked(batch), ViewOf(s))
    BY <1>1, <1>6 DEF Effect
  <2> QED
    BY <1>1, <2>7, <2>8, <2>9 DEF Wrote, op
<1> QED
  BY <1>5, <1>6

(* A delete of some ids is logged for those that have a slot; for the       *)
(* others there is nothing to take away.                                    *)
LEMMA DeleteFacts ==
  ASSUME NEW s, Good(s), NEW ids \in SUBSET Id, NEW t, t = ApplyDelete(s, ids)
  PROVE  /\ ViewOf(t) = Overlay([i \in ids |-> Absent], ViewOf(s))
         /\ IF HasSlot(s, ids) = {} THEN t = s
            ELSE Wrote(s, t, [op |-> "delete", ids |-> HasSlot(s, ids)])
<1> DEFINE removed == HasSlot(s, ids)
           op == [op |-> "delete", ids |-> removed]
           logged == Log(s, op)
           cleared == Tombstone(logged, removed)
<1>1. t = IF removed = {} THEN s ELSE MaybeRebuild(cleared)
  BY Zenon DEF ApplyDelete
<1>2. /\ removed \in SUBSET Id /\ \A i \in removed : s.idToSlot[i] # 0
      /\ \A i \in Id : i \in removed => i \in ids
      /\ \A i \in Id : i \in ids /\ i \notin removed => s.idToSlot[i] = 0
  BY DEF HasSlot
<1> HIDE DEF removed
<1>3. op \in LoggedWrite /\ op.op = "delete" /\ op.ids = removed
  BY <1>2 DEF LoggedWrite
<1> HIDE DEF op
<1>4. Overlay([i \in removed |-> Absent], ViewOf(s)) = Overlay([i \in ids |-> Absent], ViewOf(s))
  <2>1. s \in State /\ Tables(s)
    BY DEF Good
  <2>2. \A i \in Id : i \in ids /\ i \notin removed => ViewOf(s)[i] = Absent
    BY <1>2, <2>1, ViewFacts
  <2> QED
    BY <1>2, <2>2 DEF Overlay
<1>5. CASE removed = {}
  <2>1. t = s
    BY <1>1, <1>5
  <2>2. Overlay([i \in removed |-> Absent], ViewOf(s)) = ViewOf(s)
    BY <1>5 DEF Overlay, ViewOf
  <2> QED
    BY <1>4, <1>5, <2>1, <2>2 DEF removed
<1>6. CASE removed # {}
  <2>1. /\ Good(logged) /\ ViewOf(logged) = ViewOf(s) /\ logged.kind = s.kind
        /\ logged.idToSlot = s.idToSlot /\ logged.job = s.job /\ logged.generation = s.generation
        /\ logged.ops = IF Building(s) THEN Append(s.ops, op) ELSE s.ops
    BY <1>3, LogFacts
  <2> HIDE DEF logged
  <2>2. logged \in State /\ Tables(logged)
    BY <2>1 DEF Good
  <2>3. /\ cleared \in State /\ Tables(cleared)
        /\ cleared.generation = logged.generation /\ cleared.kind = logged.kind
        /\ cleared.job = logged.job /\ cleared.ops = logged.ops
        /\ ViewOf(cleared) = Overlay([i \in removed |-> Absent], ViewOf(logged))
    BY <1>2, <2>1, <2>2, TombstoneFacts
  <2> HIDE DEF cleared
  <2>4. Logs(s, t, op) /\ ViewOf(t) = ViewOf(cleared)
    <3>1. t = MaybeRebuild(cleared)
      BY <1>1, <1>6
    <3>2. /\ cleared.job = s.job /\ cleared.kind = s.kind /\ cleared.generation = s.generation
          /\ cleared.ops = IF Building(s) THEN Append(s.ops, op) ELSE s.ops
      BY <2>1, <2>3, Zenon
    <3> QED
      BY <1>3, <2>3, <3>1, <3>2, EndOfWrite
  <2>5. Effect(op, ViewOf(s)) = Overlay([i \in removed |-> Absent], ViewOf(s))
    BY <1>3 DEF Effect
  <2>6. Wrote(s, t, op)
    BY <1>3, <2>1, <2>3, <2>4, <2>5 DEF Wrote
  <2> QED
    BY <1>4, <1>6, <2>1, <2>3, <2>4, <2>6 DEF removed, op
<1> QED
  BY <1>5, <1>6
(* New metadata of an id that has a slot changes this one slot.             *)
LEMMA MetaFacts ==
  ASSUME NEW s, Good(s), NEW i \in Id, s.idToSlot[i] # 0, NEW fields \in SUBSET Field,
         NEW t, t = ApplySetMetadata(s, i, fields)
  PROVE  Wrote(s, t, [op |-> "meta", id |-> i, fields |-> fields])
<1> DEFINE op == [op |-> "meta", id |-> i, fields |-> fields]
           logged == Log(s, op)
           k == s.idToSlot[i]
           slot == s.slots[k]
           rec == [slot.rec EXCEPT !.meta = slot.rec.meta \cup fields]
           new == [slot EXCEPT !.rec = rec]
           slots == [s.slots EXCEPT ![k] = new]
<1>1. op \in LoggedWrite /\ op.op = "meta" /\ op.id = i /\ op.fields = fields
  BY DEF LoggedWrite
<1>2. t = [logged EXCEPT !.slots[k].rec.meta = @ \cup fields]
  BY Zenon DEF ApplySetMetadata
<1>3. s \in State /\ Tables(s) /\ CopyOf(s)
  BY DEF Good
<1>4. /\ k \in DOMAIN s.slots /\ slot \in Slot /\ ~slot.tomb /\ slot.id = i /\ slot.rec \in Rec
      /\ s.slots \in Seq(Slot) /\ Len(s.slots) \in Nat /\ DOMAIN s.slots = 1..Len(s.slots)
  <2>1. /\ k \in DOMAIN s.slots /\ slot \in Slot /\ ~slot.tomb /\ slot.id = i
        /\ s.slots \in Seq(Slot) /\ Len(s.slots) \in Nat /\ DOMAIN s.slots = 1..Len(s.slots)
    BY <1>3, GoodFacts
  <2> QED
    BY <2>1 DEF Slot
<1> HIDE DEF op
<1>5. /\ Good(logged) /\ ViewOf(logged) = ViewOf(s) /\ logged.kind = s.kind
      /\ logged.slots = s.slots
      /\ logged.idToSlot = s.idToSlot /\ logged.job = s.job /\ logged.generation = s.generation
      /\ logged.ops = IF Building(s) THEN Append(s.ops, op) ELSE s.ops
      /\ Building(logged) <=> Building(s)
  BY <1>1, LogFacts
<1> HIDE DEF logged
<1>6. logged \in State /\ Tables(logged) /\ CopyOf(logged)
  BY <1>5 DEF Good
<1>7. rec \in Rec /\ new \in Slot /\ new.id = i /\ ~new.tomb /\ new.rec = rec
  BY <1>4 DEF Slot, Rec
<1>8. /\ slots \in Seq(Slot) /\ DOMAIN slots = DOMAIN s.slots /\ slots[k] = new
      /\ \A j \in DOMAIN s.slots : j # k => slots[j] = s.slots[j]
  <2> HIDE DEF new
  <2>1. slots \in Seq(Slot)
    BY <1>4, <1>7, ExceptSeq
  <2> QED
    BY <1>4, <2>1
<1>9. t = [logged EXCEPT !.slots = slots]
  <2>1. \A r \in State : r.slots = s.slots =>
          [r EXCEPT !.slots[k].rec.meta = @ \cup fields] = [r EXCEPT !.slots = slots]
    BY DEF State
  <2> HIDE DEF slots, k
  <2> QED
    BY <1>2, <1>5, <1>6, <2>1, Zenon
<1> HIDE DEF slots, new
<1>10. /\ t \in State /\ t.slots = slots /\ t.idToSlot = s.idToSlot /\ t.live = logged.live
       /\ t.kind = s.kind /\ t.job = s.job /\ t.generation = s.generation /\ t.ops = logged.ops
  <2>1. \A r : r = [logged EXCEPT !.slots = slots] =>
          /\ r \in State /\ r.slots = slots /\ r.idToSlot = logged.idToSlot /\ r.live = logged.live
          /\ r.kind = logged.kind /\ r.job = logged.job /\ r.generation = logged.generation
          /\ r.ops = logged.ops
    BY <1>6, <1>8 DEF State
  <2> QED
    BY <1>5, <1>9, <2>1, Zenon
<1>11. LivePlaces(slots) = LivePlaces(s.slots) /\ \A j \in DOMAIN s.slots : slots[j].id = s.slots[j].id
  BY <1>4, <1>7, <1>8 DEF LivePlaces
<1>12. Tables(t) /\ CopyOf(t)
  <2>1. LivePlaces(s.slots) \subseteq DOMAIN s.slots
    BY DEF LivePlaces
  <2>2. logged.live = Cardinality(LivePlaces(s.slots))
    BY <1>5, <1>6 DEF Tables
  <2>3. Tables(t)
    BY <1>3, <1>10, <1>11, <2>1, <2>2 DEF Tables
  <2> QED
    BY <1>5, <1>6, <1>10, <2>3 DEF CopyOf, Building
<1>13. ViewOf(t) = Effect(op, ViewOf(s))
  <2>1. Effect(op, ViewOf(s)) = [ViewOf(s) EXCEPT ![i].meta = @ \cup fields]
    BY <1>1 DEF Effect
  <2>2. ViewOf(s)[i] = slot.rec
    BY DEF ViewOf
  <2>3. ASSUME NEW j \in Id PROVE ViewOf(t)[j] = IF j = i THEN rec ELSE ViewOf(s)[j]
    <3>1. CASE j = i
      BY <1>4, <1>7, <1>8, <1>10, <3>1 DEF ViewOf
    <3>2. CASE j # i
      <4>1. s.idToSlot[j] # 0 => s.idToSlot[j] \in DOMAIN s.slots /\ s.idToSlot[j] # k
        BY <1>3, <1>4, <3>2, GoodFacts
      <4> QED
        BY <1>8, <1>10, <3>2, <4>1 DEF ViewOf
    <3> QED
      BY <3>1, <3>2
  <2>4. [ViewOf(s) EXCEPT ![i].meta = @ \cup fields] = [j \in Id |-> IF j = i THEN rec ELSE ViewOf(s)[j]]
    <3>1. DOMAIN ViewOf(s) = Id
      BY DEF ViewOf
    <3> QED
      BY <2>2, <3>1
  <2>5. ViewOf(t) = [j \in Id |-> IF j = i THEN rec ELSE ViewOf(s)[j]]
    <3>1. ViewOf(t) = [j \in Id |-> ViewOf(t)[j]]
      BY DEF ViewOf
    <3> QED
      BY <2>3, <3>1
  <2> QED
    BY <2>1, <2>4, <2>5
<1>14. ViewOf(s)[i] # Absent
  BY <1>3, ViewFacts
<1>15. Logs(s, t, op)
  BY <1>5, <1>10, <1>12 DEF Logs, Good, Building
<1> QED
  BY <1>1, <1>13, <1>14, <1>15 DEF Wrote, op
-----------------------------------------------------------------------------
(* What a replay holds at any point: a record, and whether apply_upsert has *)
(* refused a batch.                                                         *)
Replay == [s : State, raised : BOOLEAN]

(* Replaying one write is a write to the record, or changes nothing.        *)
Changes(s, t) == t = s \/ \E op \in LoggedWrite : Wrote(s, t, op)

LEMMA ReplayOpFacts ==
  ASSUME NEW r \in Replay, Good(r.s), NEW op \in LoggedWrite, NEW q, q = ReplayOp(r, op)
  PROVE  /\ q \in Replay /\ Changes(r.s, q.s)
         /\ NoneRefused /\ ~r.raised => ~q.raised
         /\ ~r.raised /\ (op.op = "meta" => ViewOf(r.s)[op.id] # Absent)
              => ViewOf(q.s) = Effect(op, ViewOf(r.s))
<1>1. /\ op.op \in {"upsert", "delete", "meta"}
      /\ op.op = "upsert" => op.batch \in Batch /\ op = [op |-> "upsert", batch |-> op.batch]
      /\ op.op = "delete" => op.ids \in SUBSET Id
      /\ op.op = "meta" => /\ op.id \in Id /\ op.fields \in SUBSET Field
                           /\ op = [op |-> "meta", id |-> op.id, fields |-> op.fields]
  BY DEF LoggedWrite
<1>2. r.s \in State /\ Tables(r.s) /\ r.raised \in BOOLEAN
  BY DEF Good, Replay
<1>3. \A t : Wrote(r.s, t, op) => t \in State /\ Changes(r.s, t) /\ ViewOf(t) = Effect(op, ViewOf(r.s))
  BY DEF Wrote, Logs, Good, Changes
<1>4. \A t \in State : LET p == [r EXCEPT !.s = t] IN p \in Replay /\ p.s = t /\ p.raised = r.raised
  BY DEF Replay
<1>5. CASE r.raised
  <2>1. q = r
    BY <1>5 DEF ReplayOp
  <2> QED
    BY <1>5, <2>1 DEF Changes
<1>6. CASE ~r.raised /\ op.op = "upsert"
  <2> DEFINE t == ApplyUpsert(r.s, op.batch)
  <2>1. q = [s |-> t, raised |-> Refuses(op.batch)]
    BY <1>6 DEF ReplayOp
  <2>2. Wrote(r.s, t, op)
    <3>1. Wrote(r.s, t, [op |-> "upsert", batch |-> op.batch])
      BY <1>1, <1>6, UpsertFacts
    <3> QED
      BY <1>1, <1>6, <3>1
  <2> HIDE DEF t
  <2>3. Refuses(op.batch) \in BOOLEAN /\ (NoneRefused => ~Refuses(op.batch))
    BY <1>1, <1>6, Zenon DEF NoneRefused, Refuses
  <2>4. t \in State /\ Changes(r.s, t) /\ ViewOf(t) = Effect(op, ViewOf(r.s))
    BY <1>3, <2>2
  <2>5. q \in Replay /\ q.s = t /\ (q.raised <=> Refuses(op.batch))
    BY <2>1, <2>3, <2>4 DEF Replay
  <2> QED
    BY <2>3, <2>4, <2>5
<1>7. CASE ~r.raised /\ op.op = "delete"
  <2> DEFINE t == ApplyDelete(r.s, op.ids)
  <2>1. q = [r EXCEPT !.s = t]
    BY <1>7 DEF ReplayOp
  <2>2. /\ ViewOf(t) = Overlay([i \in op.ids |-> Absent], ViewOf(r.s))
        /\ IF HasSlot(r.s, op.ids) = {} THEN t = r.s
           ELSE Wrote(r.s, t, [op |-> "delete", ids |-> HasSlot(r.s, op.ids)])
    BY <1>1, <1>7, DeleteFacts
  <2> HIDE DEF t
  <2>3. Changes(r.s, t)
    <3>1. [op |-> "delete", ids |-> HasSlot(r.s, op.ids)] \in LoggedWrite
      BY <1>1, <1>7 DEF HasSlot, LoggedWrite
    <3> QED
      BY <2>2, <3>1 DEF Changes
  <2>4. t \in State
    BY <1>2, <2>3 DEF Changes, Wrote, Logs, Good
  <2>5. q \in Replay /\ q.s = t /\ q.raised = r.raised
    BY <1>4, <2>1, <2>4
  <2>6. ViewOf(t) = Effect(op, ViewOf(r.s))
    BY <1>7, <2>2 DEF Effect
  <2> QED
    BY <1>7, <2>3, <2>5, <2>6
<1>8. CASE ~r.raised /\ op.op = "meta" /\ r.s.idToSlot[op.id] = 0
  <2>1. q = r
    BY <1>8 DEF ReplayOp
  <2>2. ViewOf(r.s)[op.id] = Absent
    BY <1>1, <1>2, <1>8, ViewFacts
  <2> QED
    BY <1>8, <2>1, <2>2 DEF Changes
<1>9. CASE ~r.raised /\ op.op = "meta" /\ r.s.idToSlot[op.id] # 0
  <2> DEFINE t == ApplySetMetadata(r.s, op.id, op.fields)
  <2>1. q = [r EXCEPT !.s = t]
    BY <1>9 DEF ReplayOp
  <2>2. Wrote(r.s, t, op)
    <3>1. Wrote(r.s, t, [op |-> "meta", id |-> op.id, fields |-> op.fields])
      BY <1>1, <1>9, MetaFacts
    <3> QED
      BY <1>1, <1>9, <3>1
  <2> HIDE DEF t
  <2>3. t \in State /\ Changes(r.s, t) /\ ViewOf(t) = Effect(op, ViewOf(r.s))
    BY <1>3, <2>2
  <2>4. q \in Replay /\ q.s = t /\ q.raised = r.raised
    BY <1>4, <2>1, <2>3
  <2> QED
    BY <1>9, <2>3, <2>4
<1> QED
  BY <1>1, <1>5, <1>6, <1>7, <1>8, <1>9
LEMMA ChangesFacts ==
  ASSUME NEW s, Good(s), NEW t, Changes(s, t)
  PROVE  Good(t) /\ t.kind = s.kind /\ Len(s.ops) \in Nat /\ Len(t.ops) <= Len(s.ops) + 1
<1>1. s.ops \in Seq(LoggedWrite) /\ Len(s.ops) \in Nat
  <2>1. s.ops \in Seq(LoggedWrite)
    BY DEF Good, State
  <2> QED
    BY <2>1, LenProperties
<1>2. CASE t = s
  BY <1>1, <1>2
<1>3. ASSUME NEW op \in LoggedWrite, Wrote(s, t, op)
      PROVE  Good(t) /\ t.kind = s.kind /\ Len(t.ops) <= Len(s.ops) + 1
  <2>1. Logs(s, t, op)
    BY <1>3 DEF Wrote
  <2>2. t.ops = Append(s.ops, op) \/ t.ops = s.ops \/ t.ops = <<>>
    BY <2>1 DEF Logs
  <2>3. Len(Append(s.ops, op)) = Len(s.ops) + 1 /\ Len(<<>>) = 0
    BY <1>1, AppendProperties
  <2> QED
    BY <1>1, <2>1, <2>2, <2>3 DEF Logs
<1> QED
  BY <1>1, <1>2, <1>3 DEF Changes

(* Induction along a replay: G[n] are the records n writes may lead to.     *)
LEMMA ReplayInduction ==
  ASSUME NEW G, \A n \in Nat : \A u \in G[n] : Good(u),
         \A n \in Nat : \A u \in G[n] : \A v : Changes(u, v) => v \in G[n + 1],
         NEW s \in G[0], NEW ops \in Seq(LoggedWrite), NEW r, r = Replayed(s, ops)
  PROVE  r \in Replay /\ r.s \in G[Len(ops)] /\ (NoneRefused => ~r.raised)
<1>1. Len(ops) \in Nat /\ \A m \in 1..Len(ops) : ops[m] \in LoggedWrite
  BY LenProperties, ElementOfSeq
<1>2. PICK done : /\ done[0] = [s |-> s, raised |-> FALSE]
                  /\ \A m \in 1..Len(ops) : done[m] = ReplayOp(done[m - 1], ops[m])
                  /\ Replayed(s, ops) = done[Len(ops)]
  BY <1>1, ReplaySteps
<1> DEFINE n == Len(ops)
           Fine(m) == done[m] \in Replay /\ done[m].s \in G[m] /\ (NoneRefused => ~done[m].raised)
           T == {m \in Nat : m <= n => Fine(m)}
<1>3. 0 \in T
  <2>1. s \in State
    BY DEF Good
  <2>2. Fine(0)
    BY <1>2, <2>1 DEF Replay
  <2> QED
    BY <2>2
<1>4. ASSUME NEW m \in T PROVE m + 1 \in T
  <2> SUFFICES ASSUME m + 1 <= n PROVE Fine(m + 1)
    OBVIOUS
  <2> DEFINE k == m + 1
  <2>1. m \in Nat /\ k \in 1..n /\ k - 1 = m /\ m <= n
    BY <1>1
  <2>2. Fine(m)
    BY <2>1
  <2>3. k = m + 1
    OBVIOUS
  <2> HIDE DEF k, n
  <2>4. done[k] = ReplayOp(done[m], ops[k]) /\ ops[k] \in LoggedWrite
    BY <1>1, <1>2, <2>1 DEF n
  <2>5. Good(done[m].s)
    BY <2>1, <2>2
  <2>6. /\ done[k] \in Replay /\ Changes(done[m].s, done[k].s)
        /\ NoneRefused /\ ~done[m].raised => ~done[k].raised
    BY <2>2, <2>4, <2>5, ReplayOpFacts
  <2>7. done[k].s \in G[k]
    BY <2>1, <2>2, <2>3, <2>6
  <2> QED
    BY <2>2, <2>3, <2>6, <2>7
<1> HIDE DEF T, Fine, n
<1>5. \A m \in Nat : m \in T
  BY <1>3, <1>4, Induction DEF T
<1>6. Fine(n)
  BY <1>1, <1>5 DEF T, n
<1> QED
  BY <1>2, <1>6 DEF Fine, n

(* A replay leaves a record of Good, of the kind it began with, whose log   *)
(* (of the rebuild it may have started itself) is no longer than the log.   *)
LEMMA ReplayFacts ==
  ASSUME NEW s, Good(s), s.ops = <<>>, NEW ops \in Seq(LoggedWrite), NEW r, r = Replayed(s, ops)
  PROVE  /\ r \in Replay /\ Good(r.s) /\ r.s.kind = s.kind /\ Len(r.s.ops) <= Len(ops)
         /\ NoneRefused => ~r.raised
<1> DEFINE P(u, n) == Good(u) /\ u.kind = s.kind /\ Len(u.ops) <= n
           G == [n \in Nat |-> {u \in State : P(u, n)}]
<1>1. \A n \in Nat : \A u : u \in G[n] <=> u \in State /\ P(u, n)
  OBVIOUS
<1>2. s \in G[0]
  BY DEF Good
<1>3. ASSUME NEW n \in Nat, NEW u \in G[n], NEW v, Changes(u, v) PROVE v \in G[n + 1]
  <2>1. Good(u) /\ u.kind = s.kind /\ Len(u.ops) <= n
    BY <1>1
  <2>2. Good(v) /\ v.kind = u.kind /\ Len(u.ops) \in Nat /\ Len(v.ops) <= Len(u.ops) + 1
    BY <1>3, <2>1, ChangesFacts
  <2>3. v \in State /\ v.ops \in Seq(LoggedWrite)
    BY <2>2 DEF Good, State
  <2>4. Len(v.ops) <= n + 1
    <3>1. Len(v.ops) \in Nat
      BY <2>3, LenProperties
    <3> QED
      BY <2>1, <2>2, <3>1
  <2> QED
    BY <1>1, <2>1, <2>2, <2>3, <2>4
<1>4. \A n \in Nat : \A u \in G[n] : Good(u)
  BY <1>1
<1> HIDE DEF G
<1>5. r \in Replay /\ r.s \in G[Len(ops)] /\ (NoneRefused => ~r.raised)
  BY <1>2, <1>3, <1>4, ReplayInduction
<1>6. Len(ops) \in Nat
  BY LenProperties
<1> QED
  BY <1>1, <1>5, <1>6

(* While copy and log give readers' view, one more logged write gives the   *)
(* view after it.                                                           *)
LEMMA WriteFollowed ==
  ASSUME NoneRefused, NEW s, Good(s), Follows(s), NEW op \in LoggedWrite, NEW t, Wrote(s, t, op)
  PROVE  Follows(t)
<1>1. Logs(s, t, op) /\ ViewOf(t) = Effect(op, ViewOf(s))
  BY DEF Wrote
<1>2. CASE ~Building(t)
  BY <1>2 DEF Follows
<1>3. CASE Building(t) /\ ~Building(s)
  <2>1. t.ops = <<>> /\ ViewOf(Fresh(t)) = ViewOf(t)
    BY <1>1, <1>3 DEF Logs
  <2>2. Replayed(Fresh(t), t.ops) = [s |-> Fresh(t), raised |-> FALSE]
    BY <2>1, ReplayEmpty
  <2> QED
    BY <2>1, <2>2 DEF Follows
<1>4. CASE Building(t) /\ Building(s)
  <2> DEFINE r == Replayed(Fresh(s), s.ops)
             q == Replayed(Fresh(t), t.ops)
  <2>1. s.ops \in Seq(LoggedWrite)
    BY DEF Good, State
  <2>2. t.job = s.job /\ t.generation = s.generation /\ t.ops = Append(s.ops, op)
    BY <1>1, <1>4 DEF Logs
  <2>3. Fresh(t) = Fresh(s)
    BY <2>2 DEF Fresh
  <2>4. q = ReplayOp(r, op)
    BY <2>1, <2>2, <2>3, ReplayAppend
  <2>5. ~r.raised /\ ViewOf(r.s) = ViewOf(s)
    BY <1>4, Zenon DEF Follows
  <2>6. r \in Replay /\ Good(r.s)
    <3>1. Good(Fresh(s)) /\ Fresh(s).ops = <<>>
      BY <1>4, FreshFacts
    <3> QED
      BY <2>1, <3>1, ReplayFacts
  <2>7. op.op = "meta" => ViewOf(s)[op.id] # Absent
    BY DEF Wrote
  <2> HIDE DEF r, q
  <2>8. ~q.raised /\ ViewOf(q.s) = Effect(op, ViewOf(s))
    <3>1. /\ NoneRefused /\ ~r.raised => ~q.raised
          /\ ~r.raised /\ (op.op = "meta" => ViewOf(r.s)[op.id] # Absent)
               => ViewOf(q.s) = Effect(op, ViewOf(r.s))
      BY <2>4, <2>6, ReplayOpFacts
    <3> QED
      BY <2>5, <2>7, <3>1
  <2>9. ~q.raised /\ ViewOf(q.s) = ViewOf(t)
    BY <1>1, <2>8
  <2> QED
    BY <2>9, Zenon DEF Follows, q
<1> QED
  BY <1>2, <1>3, <1>4

LEMMA ReplayFollowed ==
  ASSUME NoneRefused, NEW s, Good(s), ~Building(s), NEW ops \in Seq(LoggedWrite)
  PROVE  Follows(Replayed(s, ops).s)
<1> DEFINE P(u) == Good(u) /\ Follows(u)
           G == [n \in Nat |-> {u \in State : P(u)}]
<1>1. \A n \in Nat : \A u : u \in G[n] <=> u \in State /\ P(u)
  OBVIOUS
<1>2. s \in G[0]
  BY DEF Good, Follows
<1>3. ASSUME NEW n \in Nat, NEW u \in G[n], NEW v, Changes(u, v) PROVE v \in G[n + 1]
  <2>1. Good(u) /\ Follows(u)
    BY <1>1
  <2>2. Good(v) /\ v \in State
    BY <1>3, <2>1, ChangesFacts DEF Good
  <2>3. Follows(v)
    BY <1>3, <2>1, WriteFollowed DEF Changes
  <2> QED
    BY <1>1, <2>2, <2>3
<1>4. \A n \in Nat : \A u \in G[n] : Good(u)
  BY <1>1
<1> HIDE DEF G
<1>5. Replayed(s, ops).s \in G[Len(ops)]
  BY <1>2, <1>3, <1>4, ReplayInduction
<1>6. Len(ops) \in Nat
  BY LenProperties
<1> QED
  BY <1>1, <1>5, <1>6
-----------------------------------------------------------------------------
(* The end of a rebuild, and loading a snapshot.                            *)
LEMMA SwappedFacts ==
  ASSUME NEW s, Good(s), Building(s), NEW t, t = Swapped(s)
  PROVE  /\ Good(t) /\ t.kind = s.job.kind /\ Len(t.ops) <= Len(s.ops)
         /\ NoneRefused /\ Follows(s) => ViewOf(t) = ViewOf(s) /\ Follows(t)
<1> DEFINE done == Replayed(Fresh(s), s.ops)
<1>1. s.ops \in Seq(LoggedWrite) /\ Len(s.ops) \in Nat
  <2>1. s.ops \in Seq(LoggedWrite)
    BY DEF Good, State
  <2> QED
    BY <2>1, LenProperties
<1>2. Good(Fresh(s)) /\ ~Building(Fresh(s)) /\ Fresh(s).ops = <<>> /\ Fresh(s).kind = s.job.kind
  BY FreshFacts
<1>3. /\ Good(done.s) /\ done.s.kind = s.job.kind /\ Len(done.s.ops) <= Len(s.ops)
  BY <1>1, <1>2, ReplayFacts
<1>4. NoneRefused => Follows(done.s)
  BY <1>1, <1>2, ReplayFollowed
<1>5. Follows(s) => ~done.raised /\ ViewOf(done.s) = ViewOf(s)
  BY Zenon DEF Follows
<1>6. t = IF done.raised THEN done.s ELSE MaybeRebuild(done.s)
  BY Zenon DEF Swapped
<1> HIDE DEF done
<1>7. CASE t = done.s
  BY <1>3, <1>4, <1>5, <1>7
<1>8. CASE t = MaybeRebuild(done.s) /\ t # done.s
  <2>1. /\ Good(t) /\ ViewOf(t) = ViewOf(done.s) /\ t.kind = done.s.kind
        /\ ~Building(done.s) /\ Building(t) /\ t.ops = <<>>
    BY <1>3, <1>8, MaybeRebuildFacts
  <2>2. ViewOf(Fresh(t)) = ViewOf(t)
    BY <1>3, <1>8, <2>1, StartFacts
  <2>3. Replayed(Fresh(t), t.ops) = [s |-> Fresh(t), raised |-> FALSE]
    BY <2>1, ReplayEmpty
  <2>4. Follows(t)
    BY <2>2, <2>3 DEF Follows
  <2>5. Len(t.ops) = 0
    BY <2>1
  <2> QED
    BY <1>1, <1>3, <1>5, <2>1, <2>4, <2>5
<1> QED
  BY <1>6, <1>7, <1>8

LEMMA FailedFacts ==
  ASSUME NEW s, Good(s), NEW t, t = [s EXCEPT !.job = NoJob, !.ops = <<>>]
  PROVE  /\ Good(t) /\ ~Building(t) /\ t.kind = s.kind /\ t.ops = <<>> /\ ViewOf(t) = ViewOf(s)
<1>1. s \in State /\ Tables(s)
  BY DEF Good
<1>2. <<>> \in Seq(LoggedWrite)
  BY EmptySeq
<1>3. /\ t \in State /\ t.job = NoJob /\ t.ops = <<>> /\ t.kind = s.kind
      /\ t.slots = s.slots /\ t.idToSlot = s.idToSlot /\ t.live = s.live
  BY <1>1, <1>2 DEF State
<1>4. Tables(t) /\ ViewOf(t) = ViewOf(s) /\ ~Building(t)
  BY <1>1, <1>3 DEF Tables, ViewOf, Building
<1> QED
  BY <1>3, <1>4 DEF Good, CopyOf

LEMMA LoadedFacts ==
  ASSUME NEW s, Good(s), NEW t, t = New(s.slots, s.kind)
  PROVE  /\ Good(t) /\ ~Building(t) /\ t.kind = s.kind /\ t.ops = <<>> /\ ViewOf(t) = ViewOf(s)
         /\ \A i \in Id : t.idToSlot[i] = s.idToSlot[i]
<1>1. s \in State /\ Tables(s) /\ s.slots \in Seq(Slot) /\ s.kind \in {"flat", "hnsw"}
  BY DEF Good, State
<1>2. \A j, k \in LivePlaces(s.slots) : s.slots[j].id = s.slots[k].id => j = k
  BY <1>1 DEF Tables
<1>3. /\ t \in State /\ Tables(t) /\ ~Building(t) /\ t.ops = <<>>
      /\ t.kind = s.kind /\ t.slots = s.slots
      /\ \A k \in LivePlaces(s.slots) : t.idToSlot[s.slots[k].id] = k
      /\ \A i \in Id : (\A k \in LivePlaces(s.slots) : s.slots[k].id # i) => t.idToSlot[i] = 0
  BY <1>1, <1>2, NewFacts
<1>4. ASSUME NEW i \in Id PROVE t.idToSlot[i] = s.idToSlot[i]
  <2>1. CASE s.idToSlot[i] = 0
    <3>1. \A k \in LivePlaces(s.slots) : k # 0
      BY <1>1, GoodFacts
    <3> QED
      BY <1>1, <1>3, <2>1, <3>1 DEF Tables
  <2>2. CASE s.idToSlot[i] # 0
    BY <1>1, <1>3, <2>2 DEF Tables
  <2> QED
    BY <2>1, <2>2
<1>5. ViewOf(t) = ViewOf(s)
  BY <1>3, <1>4 DEF ViewOf
<1> QED
  BY <1>3, <1>4, <1>5 DEF Good, CopyOf

-----------------------------------------------------------------------------
LEMMA InitInv == Init => Inv
<1> SUFFICES ASSUME Init PROVE Inv
  OBVIOUS
<1> DEFINE kind == IF IndexType = "hnsw" THEN "hnsw" ELSE "flat"
<1>1. kind \in {"flat", "hnsw"} /\ self = New(<<>>, kind)
  BY DEF Init
<1> HIDE DEF kind
<1>2. <<>> \in Seq(Slot) /\ LivePlaces(<<>>) = {}
  BY EmptySeq DEF LivePlaces
<1>3. self \in State /\ Tables(self) /\ ~Building(self) /\ self.ops = <<>>
  BY <1>1, <1>2, NewFacts
<1>4. Len(self.ops) <= MaxLog
  BY <1>3, LogBound
<1> QED
  BY <1>3, <1>4 DEF Inv, Good, CopyOf, Follows

(* Every write has room in the log, is a write of the record, and so keeps  *)
(* the invariant.                                                           *)
LEMMA WriteInv ==
  ASSUME Inv, Len(self.ops) < MaxLog, Changes(self, self')
  PROVE  Inv' /\ self'.kind = self.kind
<1>1. Good(self)
  BY DEF Inv
<1>2. /\ Good(self') /\ self'.kind = self.kind
      /\ Len(self.ops) \in Nat /\ Len(self'.ops) <= Len(self.ops) + 1
  BY <1>1, ChangesFacts
<1>3. Len(self'.ops) <= MaxLog
  <2>1. self'.ops \in Seq(LoggedWrite)
    BY <1>2 DEF Good, State
  <2>2. Len(self'.ops) \in Nat
    BY <2>1, LenProperties
  <2> QED
    BY <1>2, <2>2, LogBound
<1>4. ASSUME NoneRefused PROVE Follows(self')
  <2>1. Follows(self)
    BY <1>4 DEF Inv
  <2>2. CASE self' = self
    BY <2>1, <2>2
  <2>3. ASSUME NEW op \in LoggedWrite, Wrote(self, self', op) PROVE Follows(self')
    BY <1>1, <1>4, <2>1, <2>3, WriteFollowed
  <2> QED
    BY <2>2, <2>3 DEF Changes
<1> QED
  BY <1>2, <1>3, <1>4 DEF Inv
LEMMA UpsertStep ==
  ASSUME Inv, NEW batch \in Batch, Upsert(batch)
  PROVE  /\ Inv' /\ self'.kind = self.kind
         /\ View' = IF Refuses(batch) THEN View ELSE Overlay(Asked(batch), View)
<1> DEFINE op == [op |-> "upsert", batch |-> batch]
<1>1. Good(self) /\ self' = ApplyUpsert(self, batch) /\ Len(self.ops) < MaxLog
  BY DEF Inv, Upsert, Room
<1>2. op \in LoggedWrite /\ op.op = "upsert" /\ op.batch = batch
  BY DEF LoggedWrite
<1>3. Wrote(self, self', op)
  BY <1>1, UpsertFacts
<1> HIDE DEF op
<1>4. Changes(self, self')
  BY <1>2, <1>3 DEF Changes
<1>5. ViewOf(self') = IF Refuses(batch) THEN ViewOf(self) ELSE Overlay(Asked(batch), ViewOf(self))
  BY <1>2, <1>3 DEF Wrote, Effect
<1> QED
  BY <1>1, <1>4, <1>5, WriteInv DEF View

LEMMA MetadataStep ==
  ASSUME Inv, NEW i \in Id, NEW fields \in SUBSET Field, SetMetadata(i, fields)
  PROVE  /\ Inv' /\ self'.kind = self.kind
         /\ View' = [View EXCEPT ![i].meta = @ \cup fields]
<1> DEFINE op == [op |-> "meta", id |-> i, fields |-> fields]
<1>1. /\ Good(self) /\ self' = ApplySetMetadata(self, i, fields)
      /\ Len(self.ops) < MaxLog /\ self.idToSlot[i] # 0
  BY DEF Inv, SetMetadata, Room
<1>2. op \in LoggedWrite /\ op.op = "meta" /\ op.id = i /\ op.fields = fields
  BY DEF LoggedWrite
<1>3. Wrote(self, self', op)
  BY <1>1, MetaFacts
<1> HIDE DEF op
<1>4. Changes(self, self')
  BY <1>2, <1>3 DEF Changes
<1>5. ViewOf(self') = [ViewOf(self) EXCEPT ![i].meta = @ \cup fields]
  BY <1>2, <1>3 DEF Wrote, Effect
<1> QED
  BY <1>1, <1>4, <1>5, WriteInv DEF View

LEMMA DeleteStep ==
  ASSUME Inv, NEW ids \in SUBSET Id, Delete(ids)
  PROVE  /\ Inv' /\ self'.kind = self.kind
         /\ View' = Overlay([i \in ids |-> Absent], View)
<1> DEFINE op == [op |-> "delete", ids |-> HasSlot(self, ids)]
<1>1. Good(self) /\ self' = ApplyDelete(self, ids) /\ Len(self.ops) < MaxLog
  BY DEF Inv, Delete, Room
<1>2. op \in LoggedWrite
  BY DEF LoggedWrite, HasSlot
<1>3. /\ ViewOf(self') = Overlay([i \in ids |-> Absent], ViewOf(self))
      /\ IF HasSlot(self, ids) = {} THEN self' = self ELSE Wrote(self, self', op)
  BY <1>1, DeleteFacts
<1> HIDE DEF op
<1>4. Changes(self, self')
  BY <1>2, <1>3 DEF Changes
<1> QED
  BY <1>1, <1>3, <1>4, WriteInv DEF View

(* Readers see nothing of the end of a rebuild or of a reload, and only a   *)
(* swap changes the kind of index, to that of the job.                      *)
LEMMA RebuildStep ==
  ASSUME Inv, RebuildDone \/ RebuildFails \/ SaveAndLoad
  PROVE  /\ Inv' /\ (NoneRefused => View' = View)
         /\ self.kind = "hnsw" => self'.kind = "hnsw"
<1>1. Good(self) /\ Len(self.ops) <= MaxLog /\ (NoneRefused => Follows(self))
  BY DEF Inv
<1>2. 0 <= MaxLog /\ Len(<<>>) = 0
  BY LogBound
<1>3. CASE RebuildDone
  <2>1. Building(self) /\ self' = Swapped(self)
    BY <1>3 DEF RebuildDone
  <2>2. /\ Good(self') /\ self'.kind = self.job.kind /\ Len(self'.ops) <= Len(self.ops)
        /\ NoneRefused => ViewOf(self') = ViewOf(self) /\ Follows(self')
    BY <1>1, <2>1, SwappedFacts
  <2>3. self.kind = "hnsw" => self.job.kind = "hnsw"
    BY <1>1, <2>1 DEF Good, CopyOf
  <2>4. Len(self'.ops) <= MaxLog
    <3>1. self.ops \in Seq(LoggedWrite) /\ self'.ops \in Seq(LoggedWrite)
      BY <1>1, <2>2 DEF Good, State
    <3>2. Len(self.ops) \in Nat /\ Len(self'.ops) \in Nat
      BY <3>1, LenProperties
    <3> QED
      BY <1>1, <2>2, <3>2, LogBound
  <2> QED
    BY <2>2, <2>3, <2>4 DEF Inv, View
<1>4. CASE RebuildFails
  <2>1. self' = [self EXCEPT !.job = NoJob, !.ops = <<>>]
    BY <1>4 DEF RebuildFails
  <2>2. /\ Good(self') /\ ~Building(self') /\ self'.kind = self.kind
        /\ self'.ops = <<>> /\ ViewOf(self') = ViewOf(self)
    BY <1>1, <2>1, FailedFacts
  <2> QED
    BY <1>2, <2>2 DEF Inv, View, Follows
<1>5. CASE SaveAndLoad
  <2>1. self' = New(self.slots, self.kind)
    BY <1>5 DEF SaveAndLoad
  <2>2. /\ Good(self') /\ ~Building(self') /\ self'.kind = self.kind
        /\ self'.ops = <<>> /\ ViewOf(self') = ViewOf(self)
    BY <1>1, <2>1, LoadedFacts
  <2> QED
    BY <1>2, <2>2 DEF Inv, View, Follows
<1> QED
  BY <1>3, <1>4, <1>5

LEMMA NextInv == Inv /\ [Next]_self => Inv' /\ (self.kind = "hnsw" => self'.kind = "hnsw")
<1> SUFFICES ASSUME Inv, [Next]_self
             PROVE  Inv' /\ (self.kind = "hnsw" => self'.kind = "hnsw")
  OBVIOUS
<1>1. ASSUME NEW batch \in Batch, Upsert(batch)
      PROVE  Inv' /\ (self.kind = "hnsw" => self'.kind = "hnsw")
  BY <1>1, UpsertStep
<1>2. ASSUME NEW i \in Id, NEW fields \in SUBSET Field, SetMetadata(i, fields)
      PROVE  Inv' /\ (self.kind = "hnsw" => self'.kind = "hnsw")
  BY <1>2, MetadataStep
<1>3. ASSUME NEW ids \in SUBSET Id, Delete(ids)
      PROVE  Inv' /\ (self.kind = "hnsw" => self'.kind = "hnsw")
  BY <1>3, DeleteStep
<1>4. CASE RebuildEnds
  BY <1>4, RebuildStep DEF RebuildEnds
<1>5. CASE SaveAndLoad
  BY <1>5, RebuildStep
<1>6. CASE UNCHANGED self
  BY <1>6 DEF Inv
<1> QED
  BY <1>1, <1>2, <1>3, <1>4, <1>5, <1>6 DEF Next

(* The id table, the slots, the tombstones and the count of live slots fit  *)
(* together, and a rebuild works on live slots of different ids whose log   *)
(* brings them to what readers see: the inductive invariant.                *)
THEOREM InvCorrect == Spec => []Inv
<1>1. Init => Inv
  BY InitInv
<1>2. Inv /\ [Next]_self => Inv'
  BY NextInv
<1> QED
  BY <1>1, <1>2, PTL DEF Spec

(* Every part of a collection has its type (collection.py:42-62).           *)
THEOREM TypeCorrect == Spec => []TypeOK
<1>1. Inv => TypeOK
  <2> SUFFICES ASSUME Inv PROVE TypeOK
    OBVIOUS
  <2>1. self \in State /\ Tables(self) /\ Len(self.ops) <= MaxLog
    BY DEF Inv, Good
  <2>2. self.idToSlot \in [Id -> 0..Len(self.slots)]
    <3>1. self.idToSlot \in [Id -> Nat] /\ Len(self.slots) \in Nat
      BY <2>1, GoodFacts
    <3>2. \A i \in Id : self.idToSlot[i] # 0 => self.idToSlot[i] \in 1..Len(self.slots)
      BY <2>1, GoodFacts
    <3>3. \A i \in Id : self.idToSlot[i] \in 0..Len(self.slots)
      BY <3>1, <3>2
    <3> QED
      BY <3>1, <3>3
  <2>3. self.job.kind \in {"none", "flat", "hnsw"} /\ self.job.copy \in Seq(Slot)
    <3>1. self.job \in Job \cup {NoJob}
      BY <2>1 DEF State
    <3>2. <<>> \in Seq(Slot)
      BY EmptySeq
    <3> QED
      <4>1. CASE self.job \in Job
        BY <4>1 DEF Job
      <4>2. CASE self.job = NoJob
        BY <3>2, <4>2 DEF NoJob
      <4> QED
        BY <3>1, <4>1, <4>2
  <2>4. /\ self.slots \in Seq(Slot) /\ self.live \in Nat /\ self.generation \in 0..1
        /\ self.kind \in {"flat", "hnsw"}
    BY <2>1 DEF State
  <2> QED
    BY <2>1, <2>2, <2>3, <2>4 DEF TypeOK
<1> QED
  BY <1>1, InvCorrect, PTL

(* The id table can be computed from slots and tombstones, which is all a   *)
(* snapshot keeps, and `live` counts live slots and ids alike.              *)
THEOREM TablesCorrect == Spec => []TablesAgree
<1>1. Inv => TablesAgree
  <2> SUFFICES ASSUME Inv PROVE TablesAgree
    OBVIOUS
  <2>1. self \in State /\ Tables(self) /\ Good(self)
    BY DEF Inv, Good
  <2> DEFINE t == New(self.slots, self.kind)
  <2>2. t.idToSlot = SlotTable(self.slots)
    BY DEF New
  <2>3. /\ self.slots \in Seq(Slot) /\ self.idToSlot \in [Id -> Nat]
        /\ Len(self.slots) \in Nat /\ DOMAIN self.slots = 1..Len(self.slots)
        /\ \A k \in DOMAIN self.slots : self.slots[k].id \in Id
    <3>1. /\ self.slots \in Seq(Slot) /\ self.idToSlot \in [Id -> Nat]
          /\ Len(self.slots) \in Nat /\ DOMAIN self.slots = 1..Len(self.slots)
          /\ \A k \in DOMAIN self.slots : self.slots[k] \in Slot
      BY <2>1, GoodFacts
    <3> QED
      BY <3>1 DEF Slot
  <2>4. SlotTable(self.slots) = self.idToSlot
    <3>1. \A i \in Id : t.idToSlot[i] = self.idToSlot[i]
      BY <2>1, LoadedFacts
    <3>2. SlotTable(self.slots) = [i \in Id |-> SlotTable(self.slots)[i]]
      BY DEF SlotTable
    <3> HIDE DEF t
    <3> QED
      BY <2>2, <2>3, <3>1, <3>2
  <2>5. Cardinality({i \in Id : self.idToSlot[i] # 0}) = Cardinality(LivePlaces(self.slots))
    BY <2>1, <2>3, LiveIds DEF Tables
  <2> QED
    BY <2>1, <2>4, <2>5 DEF TablesAgree, Tables, LivePlaces
<1> QED
  BY <1>1, InvCorrect, PTL

(* Each write changes what readers see as it says and nothing else, whether *)
(* or not a rebuild is running.                                             *)
THEOREM WritesExactCorrect == Spec => WritesExact
<1> DEFINE Exact ==
      /\ \A batch \in Batch : Upsert(batch) =>
           View' = IF Refuses(batch) THEN View ELSE Overlay(Asked(batch), View)
      /\ \A i \in Id, fields \in SUBSET Field : SetMetadata(i, fields) =>
           View' = [View EXCEPT ![i].meta = @ \cup fields]
      /\ \A ids \in SUBSET Id : Delete(ids) => View' = Overlay([i \in ids |-> Absent], View)
<1>1. Inv => Exact
  BY UpsertStep, MetadataStep, DeleteStep
<1>2. Inv /\ [Next]_self => [Exact]_self
  BY <1>1
<1> QED
  BY <1>2, InvCorrect, PTL DEF Spec, WritesExact

(* A rebuild that ends, or a snapshot that is loaded, shows readers exactly *)
(* the records they saw, if no batch can be refused on replay.              *)
THEOREM RebuildInvisibleCorrect ==
  ASSUME NoneRefused
  PROVE  Spec => RebuildInvisible
<1>1. Inv => (RebuildDone \/ RebuildFails \/ SaveAndLoad => View' = View)
  BY RebuildStep
<1>2. Inv /\ [Next]_self => [RebuildDone \/ RebuildFails \/ SaveAndLoad => View' = View]_self
  BY <1>1
<1> QED
  BY <1>2, InvCorrect, PTL DEF Spec, RebuildInvisible

(* No step takes a namespace from HNSW back to a flat index.                *)
THEOREM PromotionCorrect == Spec => PromotionSticks
<1>1. Inv /\ [Next]_self => [self.kind = "hnsw" => self'.kind = "hnsw"]_self
  BY NextInv
<1> QED
  BY <1>1, InvCorrect, PTL DEF Spec, PromotionSticks
=============================================================================
