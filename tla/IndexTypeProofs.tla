-------------------------- MODULE IndexTypeProofs --------------------------
(***************************************************************************)
(* Index, for any clients, namespaces, ids, requests and crashes: every     *)
(* variable keeps its type, one thread at a time is inside a collection and *)
(* inside the storage, and a write that has begun has something to do.      *)
(* These parts are inductive only together: that memory holds records needs *)
(* the lock, that the counter is a natural number needs the storage lock.   *)
(***************************************************************************)
EXTENDS IndexInv, FiniteSetTheorems, SequenceTheorems, TLAPS

-----------------------------------------------------------------------------
(* Threads, places and calls.                                               *)
LEMMA ThreadFacts ==
  /\ Client \subseteq Thread /\ Snapshotter \in Thread
  /\ \A t \in Thread : t \in Client \/ t = Snapshotter
  /\ Snapshotter \notin Client /\ Nobody \notin Thread
BY ThreadIs, NobodyIsNoThread, SnapshotterIsNoClient

LEMMA JobFacts ==
  ASSUME NEW c \in Coll, NEW r \in Request
  PROVE  /\ JobFor(c, r) \in Job /\ JobFor(c, r) # NoJob
         /\ JobFor(c, r).coll = c /\ JobFor(c, r).op = r.op
         /\ JobFor(c, r).ns = r.ns /\ JobFor(c, r).recs = r.recs
         /\ r.client \in Client /\ r.op \in Op /\ r.ns \in Ns /\ r.recs \in Recs
<1>1. r \in WriteCall
  BY RequestType
<1>2. r.client \in Client /\ r.op \in Op /\ r.ns \in Ns /\ r.recs \in Recs
  BY <1>1 DEF WriteCall
<1>3. JobFor(c, r) # NoJob
  <2>1. r.op # "none"
    BY <1>2 DEF Op
  <2> QED
    BY <2>1 DEF JobFor, NoJob
<1> QED
  BY <1>2, <1>3 DEF JobFor, Job

LEMMA RecsFacts ==
  ASSUME NEW recs \in Recs
  PROVE  /\ DOMAIN recs \subseteq Id
         /\ \A i \in DOMAIN recs : /\ recs[i] \in [val : Val \cup {Null}, meta : SUBSET Field]
                                   /\ recs[i].val \in Val \cup {Null}
                                   /\ recs[i].meta \subseteq Field
                                   /\ recs[i] = [val |-> recs[i].val, meta |-> recs[i].meta]
                                   /\ recs[i].val \in Val => recs[i] \in Rec
<1>1. PICK ids \in SUBSET Id : recs \in [ids -> [val : Val \cup {Null}, meta : SUBSET Field]]
  BY DEF Recs
<1> QED
  BY <1>1 DEF Rec

(* What Jobs says of a busy client.                                         *)
LEMMA BusyFacts ==
  ASSUME TypeOK, Jobs, NEW t \in Client, pc[t] # "idle"
  PROVE  /\ job[t] \in Job /\ job[t] # NoJob
         /\ job[t].coll \in Coll /\ job[t].ns \in Ns /\ job[t].op \in Op
         /\ job[t].recs \in Recs /\ Ids(t) \subseteq Id
         /\ \E r \in Request : /\ r.client = t /\ r.op = job[t].op
                               /\ r.ns = job[t].ns /\ r.recs = job[t].recs
<1>1. job[t] # NoJob /\ job[t] \in Job
  BY DEF Jobs, TypeOK
<1>2. job[t].coll \in Coll /\ job[t].ns \in Ns /\ job[t].op \in Op /\ job[t].recs \in Recs
  BY <1>1 DEF Job
<1>3. PICK r \in Request : r.client = t /\ job[t] = JobFor(job[t].coll, r)
  BY <1>1 DEF Jobs
<1>4. r.op = job[t].op /\ r.ns = job[t].ns /\ r.recs = job[t].recs
  BY <1>2, <1>3, JobFacts
<1>5. Ids(t) \subseteq Id
  BY <1>2, RecsFacts DEF Ids
<1> QED
  BY <1>1, <1>2, <1>3, <1>4, <1>5

LEMMA RegisteredType == TypeOK => \A ns : Registered(ns) \subseteq Coll
<1> SUFFICES ASSUME TypeOK, NEW ns, NEW k \in DOMAIN collections
             PROVE  collections[k].coll \in Coll
  BY DEF Registered
<1>1. collections[k] \in Entry
  BY ElementOfSeq, LenProperties DEF TypeOK
<1> QED
  BY <1>1 DEF Entry

LEMMA RemoveAtFacts ==
  ASSUME NEW S, NEW s \in Seq(S), NEW k \in DOMAIN s
  PROVE  /\ RemoveAt(s, k) \in Seq(S)
         /\ Len(RemoveAt(s, k)) = Len(s) - 1
         /\ \A j \in 1 .. Len(s) - 1 :
              RemoveAt(s, k)[j] = IF j < k THEN s[j] ELSE s[j + 1]
<1> DEFINE front == SubSeq(s, 1, k - 1)
           back == SubSeq(s, k + 1, Len(s))
<1>1. Len(s) \in Nat /\ k \in 1 .. Len(s) /\ \A j \in 1 .. Len(s) : s[j] \in S
  BY LenProperties, ElementOfSeq
<1>2. /\ front \in Seq(S) /\ Len(front) = k - 1
      /\ \A j \in 1 .. k - 1 : front[j] = s[j]
  <2>1. \A j \in 1 .. k - 1 : s[j] \in S
    BY <1>1
  <2> QED
    BY <1>1, <2>1, SubSeqProperties
<1>3. /\ back \in Seq(S) /\ Len(back) = Len(s) - k
      /\ \A j \in 1 .. Len(s) - k : back[j] = s[j + k]
  <2>1. \A j \in k + 1 .. Len(s) : s[j] \in S
    BY <1>1
  <2>2. /\ back \in Seq(S)
        /\ Len(back) = IF k + 1 <= Len(s) THEN Len(s) - (k + 1) + 1 ELSE 0
        /\ \A j \in 1 .. Len(s) - (k + 1) + 1 : back[j] = s[(k + 1) + j - 1]
    BY <1>1, <2>1, SubSeqProperties
  <2> QED
    BY <1>1, <2>2
<1>4. /\ front \o back \in Seq(S)
      /\ Len(front \o back) = Len(front) + Len(back)
      /\ \A j \in 1 .. Len(front) + Len(back) :
           (front \o back)[j] = IF j <= Len(front) THEN front[j] ELSE back[j - Len(front)]
  BY <1>2, <1>3, ConcatProperties
<1>5. RemoveAt(s, k) = front \o back
  BY DEF RemoveAt
<1> HIDE DEF front, back
<1>6. Len(front) + Len(back) = Len(s) - 1
  BY <1>1, <1>2, <1>3
<1>7. ASSUME NEW j \in 1 .. Len(s) - 1
      PROVE  (front \o back)[j] = IF j < k THEN s[j] ELSE s[j + 1]
  <2>1. CASE j < k
    <3>1. j \in 1 .. k - 1 /\ j <= Len(front) /\ j \in 1 .. Len(front) + Len(back)
      BY <1>1, <1>2, <1>6, <2>1
    <3> QED
      BY <1>2, <1>4, <2>1, <3>1
  <2>2. CASE ~ (j < k)
    <3>1. /\ j - (k - 1) \in 1 .. Len(s) - k /\ (j - (k - 1)) + k = j + 1
          /\ ~ (j <= Len(front)) /\ j \in 1 .. Len(front) + Len(back)
      BY <1>1, <1>2, <1>6, <2>2
    <3> QED
      BY <1>2, <1>3, <1>4, <2>2, <3>1
  <2> QED
    BY <2>1, <2>2
<1> QED
  BY <1>4, <1>5, <1>6, <1>7

(* The highest of a bounded set of marks is one of them: were the least     *)
(* upper bound none, one less would be an upper bound.                      *)
LEMMA HighestExists ==
  ASSUME TypeOK, \E m \in Nat : AtMost(m)
  PROVE  HighestSeq \in Marks /\ HighestSeq \in Nat /\ AtMost(HighestSeq)
<1> DEFINE Bounds == {m \in Nat : AtMost(m)}
           Less == {p \in Nat \X Nat : p[1] < p[2]}
<1>1. Marks \subseteq Nat /\ savedSeq \in Marks
  BY DEF TypeOK, Marks, RowSeqs, Row
<1>2. \E m \in Bounds : \A n \in Bounds : ~ (<<n, m>> \in Less)
  <2>1. Bounds \subseteq Nat /\ Bounds # {}
    OBVIOUS
  <2>2. IsWellFoundedOn(Less, Nat)
    BY NatLessThanWellFounded DEF OpToRel
  <2> HIDE DEF Bounds, Less
  <2> QED
    BY <2>1, <2>2, WFMin
<1>3. PICK m \in Bounds : \A n \in Bounds : m <= n
  <2>1. PICK m \in Bounds : \A n \in Bounds : ~ (<<n, m>> \in Less)
    BY <1>2
  <2>2. ASSUME NEW n \in Bounds PROVE m <= n
    <3>1. m \in Nat /\ n \in Nat /\ ~ (<<n, m>> \in Less)
      BY <2>1
    <3>2. ~ (n < m)
      BY <3>1
    <3> QED
      BY <3>1, <3>2
  <2> HIDE DEF Bounds
  <2> QED
    BY <2>1, <2>2
<1>4. m \in Marks
  <2> SUFFICES ASSUME m \notin Marks PROVE FALSE
    OBVIOUS
  <2>1. \A s \in Marks : s <= m - 1
    BY <1>1, <1>3 DEF AtMost
  <2>2. m - 1 \in Bounds
    BY <1>1, <2>1 DEF AtMost
  <2> QED
    BY <1>3, <2>2
<1>5. \A other \in Marks : other <= m
  BY <1>3 DEF AtMost
<1>6. HighestSeq = CHOOSE s \in Marks : \A other \in Marks : other <= s
  BY DEF HighestSeq, Marks
<1>7. HighestSeq \in Marks /\ \A other \in Marks : other <= HighestSeq
  BY <1>4, <1>5, <1>6
<1> QED
  BY <1>1, <1>7 DEF AtMost

LEMMA HighestNext ==
  (TypeOK /\ (\E m \in Nat : AtMost(m)) => HighestSeq \in Marks /\ AtMost(HighestSeq))'
<1>1. TypeOK /\ (\E m \in Nat : AtMost(m)) => HighestSeq \in Marks /\ AtMost(HighestSeq)
  BY HighestExists
<1> QED
  BY <1>1, PTL

LEMMA HighestFacts ==
  ASSUME TypeOK, Numbered
  PROVE  HighestSeq \in Marks /\ HighestSeq \in Nat /\ AtMost(HighestSeq)
<1>1. Marks \subseteq Nat
  BY DEF TypeOK, Marks, RowSeqs, Row
<1> QED
  BY <1>1 DEF Numbered

(* What a write that has begun changes: one or more ids, finitely many, and *)
(* each of them to a record, or to nothing when it deletes.                 *)
LEMMA ChangesFacts ==
  ASSUME TypeOK, Jobs, Paths, NEW t \in Client,
         pc[t] \in {"storage", "commit", "apply"}
  PROVE  /\ job[t].op \in {"upsert", "update", "set_metadata", "delete"}
         /\ DOMAIN Changes(t) \subseteq Ids(t) /\ DOMAIN Changes(t) # {}
         /\ Cardinality(DOMAIN Changes(t)) \in Nat
         /\ job[t].op = "upsert" => Changes(t) = job[t].recs
         /\ job[t].op \in {"update", "set_metadata"} =>
              /\ DOMAIN Changes(t) = Ids(t)
              /\ \A i \in Ids(t) : /\ mem[job[t].coll][i] \in Rec
                                   /\ Changes(t)[i] = Merged(mem[job[t].coll][i], job[t].recs[i])
         /\ job[t].op = "delete" =>
              /\ DOMAIN Changes(t) = Ids(t) \cap Present(mem[job[t].coll])
              /\ \A i \in DOMAIN Changes(t) : Changes(t)[i] = Absent
         /\ job[t].op # "delete" => \A i \in DOMAIN Changes(t) : Changes(t)[i] \in Rec
         /\ job[t].op \in {"upsert", "update"} =>
              \A i \in Ids(t) : Changes(t)[i].val = job[t].recs[i].val
<1> DEFINE c == job[t].coll
           recs == job[t].recs
           now == mem[c]
<1>1. /\ c \in Coll /\ job[t].op \in Op /\ recs \in Recs /\ Ids(t) \subseteq Id
      /\ \E r \in Request : r.op = job[t].op /\ r.recs = recs
  BY BusyFacts
<1>2. PICK r \in Request : r.op = job[t].op /\ r.recs = recs
  BY <1>1
<1>3. job[t].op \in {"upsert", "update", "set_metadata", "delete"}
  BY <1>1 DEF Paths, Op
<1>4. now \in [Id -> Rec \cup {Absent}]
  BY <1>1 DEF TypeOK, Contents
<1>5. \A i \in Ids(t) : /\ recs[i].val \in Val \cup {Null} /\ recs[i].meta \subseteq Field
                        /\ recs[i].val \in Val => recs[i] \in Rec
  BY <1>1, RecsFacts DEF Ids
<1>6. IsFiniteSet(Ids(t))
  BY <1>2, RequestsAreCalls DEF Ids
<1>7. job[t].op \in {"update", "set_metadata", "delete"} => Ids(t) \cap Present(now) # {}
  BY DEF Paths, NothingToDo
<1>8. job[t].op \in {"update", "set_metadata"} => \A i \in Ids(t) : now[i] \in Rec
  <2> SUFFICES ASSUME job[t].op \in {"update", "set_metadata"}, NEW i \in Ids(t)
               PROVE  now[i] \in Rec
    OBVIOUS
  <2>1. PICK j \in Id : Ids(t) = {j}
    BY <1>2, RequestsAreCalls DEF Ids
  <2>2. i \in Present(now)
    BY <1>7, <2>1
  <2> QED
    BY <1>4, <2>2 DEF Present
<1>9. CASE job[t].op = "upsert"
  <2>1. Changes(t) = recs
    BY <1>9 DEF Changes
  <2>2. DOMAIN Changes(t) = Ids(t) /\ Ids(t) # {}
    BY <1>2, <1>9, <2>1, RequestsAreCalls DEF Ids
  <2>3. \A i \in Ids(t) : recs[i].val \in Val
    BY <1>2, <1>9, RequestsAreCalls DEF Ids
  <2>4. \A i \in Ids(t) : recs[i] \in Rec
    BY <1>5, <2>3
  <2> QED
    BY <1>3, <1>6, <1>9, <2>1, <2>2, <2>4, FS_CardinalityType
<1>10. CASE job[t].op \in {"update", "set_metadata"}
  <2>1. Changes(t) = [i \in Ids(t) |-> Merged(now[i], recs[i])]
    BY <1>10 DEF Changes
  <2>2. DOMAIN Changes(t) = Ids(t) /\ Ids(t) # {}
    BY <1>7, <1>10, <2>1
  <2>3. \A i \in Ids(t) : now[i].val \in Val /\ now[i].meta \subseteq Field
    BY <1>8, <1>10 DEF Rec
  <2>4. \A i \in Ids(t) : Merged(now[i], recs[i]) \in Rec
    BY <1>5, <2>3 DEF Merged, Rec
  <2>5. job[t].op = "update" => \A i \in Ids(t) : Merged(now[i], recs[i]).val = recs[i].val
    <3>1. job[t].op = "update" => \A i \in Ids(t) : recs[i].val \in Val
      BY <1>2, RequestsAreCalls DEF Ids
    <3> QED
      BY <3>1, NullIsNoVector DEF Merged
  <2> HIDE DEF now, recs
  <2>6. \A i \in Ids(t) : Changes(t)[i] = Merged(now[i], recs[i])
    BY <2>1
  <2> QED
    BY <1>3, <1>6, <1>8, <1>10, <2>2, <2>4, <2>5, <2>6, FS_CardinalityType DEF now, recs
<1>11. CASE job[t].op = "delete"
  <2>1. Changes(t) = [i \in Ids(t) \cap Present(now) |-> Absent]
    BY <1>11 DEF Changes
  <2>2. DOMAIN Changes(t) = Ids(t) \cap Present(now) /\ DOMAIN Changes(t) # {}
    BY <1>7, <1>11, <2>1
  <2>3. Cardinality(DOMAIN Changes(t)) \in Nat
    BY <1>6, <2>2, FS_Intersection, FS_CardinalityType
  <2> QED
    BY <1>3, <1>11, <2>1, <2>2, <2>3
<1> QED
  BY <1>3, <1>9, <1>10, <1>11

-----------------------------------------------------------------------------
(* What a commit does to the rows: only those it changes, each by the       *)
(* statement of its operation.                                              *)
Written(t, i) ==
  LET row == rows[job[t].ns][i]
      new == Changes(t)[i]
  IN  CASE job[t].op \in {"upsert", "update"} ->
             [val |-> new.val, meta |-> new.meta, seq |-> seq, deleted |-> FALSE]
        [] job[t].op = "set_metadata" ->
             IF row = NoRow THEN row ELSE [row EXCEPT !.meta = new.meta, !.seq = seq]
        [] job[t].op = "delete" ->
             IF row.deleted THEN row
             ELSE [val |-> Null, meta |-> {}, seq |-> seq, deleted |-> TRUE]

(* What a committed transaction does to the tables, written out row by row. *)
LEMMA CommitFacts ==
  ASSUME TypeOK, Jobs, Paths, NEW t \in Client, CommitWrite(t)
  PROVE  rows' = [ns \in Ns |-> [i \in Id |->
                    IF ns = job[t].ns /\ i \in DOMAIN Changes(t)
                    THEN Written(t, i) ELSE rows[ns][i]]]
<1> DEFINE own == job[t].ns
           ids == DOMAIN Changes(t)
<1>1. /\ own \in Ns /\ ids \subseteq Id
      /\ job[t].op \in {"upsert", "update", "set_metadata", "delete"}
  <2>1. own \in Ns /\ Ids(t) \subseteq Id
    BY BusyFacts DEF CommitWrite
  <2> QED
    BY <2>1, ChangesFacts DEF CommitWrite
<1>2. rows \in [Ns -> [Id -> Row]]
  BY DEF TypeOK
<1> HIDE DEF own, ids
<1>3. CASE job[t].op \in {"upsert", "update"}
  <2>1. rows' = Upserted(own, Changes(t))
    BY <1>3 DEF CommitWrite, Commit, own
  <2>2. rows' = [rows EXCEPT ![own] = [i \in Id |-> IF i \in ids
                   THEN [val |-> Changes(t)[i].val, meta |-> Changes(t)[i].meta,
                         seq |-> seq, deleted |-> FALSE]
                   ELSE rows[own][i]]]
    BY <1>1, <1>2, <2>1 DEF Upserted, Rewritten, ids
  <2> QED
    BY <1>1, <1>2, <1>3, <2>2 DEF Written, own, ids
<1>4. CASE job[t].op = "set_metadata"
  <2>1. rows' = MetadataSet(own, Changes(t))
    BY <1>4 DEF CommitWrite, Commit, own
  <2>2. rows' = [rows EXCEPT ![own] = [i \in Id |->
                   IF i \in {j \in ids : rows[own][j] # NoRow}
                   THEN [rows[own][i] EXCEPT !.meta = Changes(t)[i].meta, !.seq = seq]
                   ELSE rows[own][i]]]
    BY <1>1, <1>2, <2>1 DEF MetadataSet, Rewritten, ids
  <2> QED
    BY <1>1, <1>2, <1>4, <2>2 DEF Written, own, ids
<1>5. CASE job[t].op = "delete"
  <2>1. rows' = Deleted(own, ids)
    BY <1>5 DEF CommitWrite, Commit, own, ids
  <2>2. rows' = [rows EXCEPT ![own] = [i \in Id |->
                   IF i \in {j \in ids : ~rows[own][j].deleted}
                   THEN [val |-> Null, meta |-> {}, seq |-> seq, deleted |-> TRUE]
                   ELSE rows[own][i]]]
    BY <1>1, <1>2, <2>1 DEF Deleted, Rewritten
  <2> QED
    BY <1>1, <1>2, <1>5, <2>2 DEF Written, own, ids
<1> QED
  BY <1>1, <1>3, <1>4, <1>5
LEMMA WrittenFacts ==
  ASSUME Base, NEW t \in Client, pc[t] = "commit", NEW i \in DOMAIN Changes(t)
  PROVE  /\ i \in Id /\ Written(t, i) \in Row
         /\ Written(t, i).seq \in {seq, rows[job[t].ns][i].seq}
         /\ ~Written(t, i).deleted => Written(t, i).val \in Val
<1> DEFINE row == rows[job[t].ns][i]
           new == Changes(t)[i]
<1>1. job[t].ns \in Ns /\ i \in Id
  BY BusyFacts, ChangesFacts DEF Base, Places
<1>2. row \in Row /\ (~row.deleted => row.val \in Val) /\ seq \in Nat
  BY <1>1 DEF Base, TypeOK, Vectors
<1>3. /\ job[t].op \in {"upsert", "update", "set_metadata", "delete"}
      /\ job[t].op # "delete" => new \in Rec
  BY ChangesFacts DEF Base, Places
<1> HIDE DEF row, new
<1>4. CASE job[t].op \in {"upsert", "update"}
  <2>1. Written(t, i) = [val |-> new.val, meta |-> new.meta, seq |-> seq, deleted |-> FALSE]
    BY <1>4 DEF Written, new
  <2> QED
    BY <1>1, <1>2, <1>3, <1>4, <2>1 DEF Row, Rec
<1>5. CASE job[t].op = "set_metadata"
  <2>1. \/ Written(t, i) = row
        \/ Written(t, i) = [row EXCEPT !.meta = new.meta, !.seq = seq]
    BY <1>5 DEF Written, row, new
  <2> QED
    BY <1>1, <1>2, <1>3, <1>5, <2>1 DEF Row, Rec, row
<1>6. CASE job[t].op = "delete"
  <2>1. \/ Written(t, i) = row
        \/ Written(t, i) = [val |-> Null, meta |-> {}, seq |-> seq, deleted |-> TRUE]
    BY <1>6 DEF Written, row
  <2>2. CASE Written(t, i) = row
    BY <1>1, <1>2, <2>2 DEF row
  <2>3. CASE Written(t, i) = [val |-> Null, meta |-> {}, seq |-> seq, deleted |-> TRUE]
    BY <1>1, <1>2, <2>3 DEF Row
  <2> QED
    BY <2>1, <2>2, <2>3
<1> QED
  BY <1>3, <1>4, <1>5, <1>6

(* A commit, a drop and a purge keep the tables what they are: rows with    *)
(* bounded numbers, the live ones with a vector.                            *)
LEMMA CommitTables ==
  ASSUME Base, NEW t \in Client, CommitWrite(t)
  PROVE  /\ rows' \in [Ns -> [Id -> Row]] /\ Vectors'
         /\ \E m \in Nat : AtMost(m)'
<1>1. rows' = [ns \in Ns |-> [i \in Id |-> IF ns = job[t].ns /\ i \in DOMAIN Changes(t)
                                           THEN Written(t, i) ELSE rows[ns][i]]]
  BY CommitFacts DEF Base, Places
<1>2. pc[t] = "commit" /\ savedSeq' = savedSeq
  BY DEF CommitWrite, Commit
<1>3. ASSUME NEW ns \in Ns, NEW i \in Id
      PROVE  /\ rows'[ns][i] \in Row
             /\ ~rows'[ns][i].deleted => rows'[ns][i].val \in Val
             /\ rows'[ns][i].seq \in {seq, rows[ns][i].seq}
  BY <1>1, <1>2, WrittenFacts DEF Base, TypeOK, Vectors
<1>4. rows' \in [Ns -> [Id -> Row]]
  BY <1>1, <1>3
<1>5. Vectors'
  BY <1>3 DEF Vectors
<1>6. \E m \in Nat : AtMost(m)'
  <2>1. PICK m \in Nat : AtMost(m)
    BY HighestFacts DEF Base
  <2>2. seq \in Nat
    BY DEF Base, TypeOK
  <2>3. PICK n \in Nat : m <= n /\ seq <= n
    BY <2>1, <2>2
  <2>4. /\ savedSeq \in Nat /\ savedSeq <= m
        /\ \A ns \in Ns, i \in Id : rows[ns][i].seq \in Nat /\ rows[ns][i].seq <= m
    <3>1. savedSeq <= m /\ \A ns \in Ns, i \in Id : rows[ns][i].seq <= m
      BY <2>1 DEF AtMost, Marks, RowSeqs
    <3>2. savedSeq \in Nat /\ \A ns \in Ns, i \in Id : rows[ns][i].seq \in Nat
      BY DEF Base, TypeOK, Row
    <3> QED
      BY <3>1, <3>2
  <2>5. \A ns \in Ns, i \in Id : rows'[ns][i].seq <= n
    BY <1>3, <2>2, <2>3, <2>4
  <2>6. savedSeq' <= n
    BY <1>2, <2>3, <2>4
  <2>7. AtMost(n)'
    BY <2>5, <2>6 DEF AtMost, Marks, RowSeqs
  <2> QED
    BY <2>7
<1> QED
  BY <1>4, <1>5, <1>6

LEMMA EmptiedTables ==
  ASSUME Base, savedSeq' = savedSeq, rows' \in [Ns -> [Id -> Row]],
         \A ns \in Ns, i \in Id : rows'[ns][i] \in {rows[ns][i], NoRow}
  PROVE  Vectors' /\ \E m \in Nat : AtMost(m)'
<1>1. Vectors'
  BY DEF Base, Vectors, NoRow
<1>2. PICK m \in Nat : AtMost(m)
  BY HighestFacts DEF Base
<1>3. \A ns \in Ns, i \in Id : rows'[ns][i].seq <= m
  <2> SUFFICES ASSUME NEW ns \in Ns, NEW i \in Id PROVE rows'[ns][i].seq <= m
    OBVIOUS
  <2>1. rows[ns][i].seq <= m
    BY <1>2 DEF AtMost, Marks, RowSeqs
  <2> QED
    BY <2>1 DEF NoRow
<1>4. savedSeq' <= m
  BY <1>2 DEF AtMost, Marks
<1>5. AtMost(m)'
  BY <1>3, <1>4 DEF AtMost, Marks, RowSeqs
<1> QED
  BY <1>1, <1>5
-----------------------------------------------------------------------------
(* Reopening: every namespace that has records gets an object of its own,   *)
(* which holds what was loaded.                                             *)
LEMMA LoadedType == ASSUME Base, NEW ns \in Ns PROVE Loaded(ns) \in Contents
<1>1. \A i \in Id : /\ rows[ns][i] \in Row
                    /\ ~rows[ns][i].deleted => rows[ns][i].val \in Val
  BY DEF Base, TypeOK, Vectors
<1>2. \A i \in Id : LiveRow(rows[ns][i]) \in Rec \cup {Absent}
  BY <1>1 DEF LiveRow, Row, Rec
<1>3. \A i \in Id : snap[ns].vals[i] \in Val \cup {Null}
  BY DEF Base, TypeOK
<1>4. \A i \in Id : MetadataAt(ns, snap[ns].seq, i) \subseteq Field
  BY <1>1 DEF MetadataAt, Row
<1>5. Recovered(ns) \in Contents
  <2>1. CASE ~snap[ns].saved
    BY <1>2, <2>1 DEF Recovered, Live, Contents
  <2>2. CASE snap[ns].saved
    <3>1. ASSUME NEW i \in Id, snap[ns].vals[i] # Null
          PROVE  [val |-> snap[ns].vals[i], meta |-> MetadataAt(ns, snap[ns].seq, i)] \in Rec
      BY <1>3, <1>4, <3>1 DEF Rec
    <3> QED
      BY <1>2, <2>2, <3>1 DEF Recovered, Contents
  <2> QED
    BY <2>1, <2>2
<1> QED
  BY <1>5 DEF Loaded, Empty, Contents

LEMMA OrdersFacts ==
  ASSUME NEW S, IsFiniteSet(S)
  PROVE  /\ Cardinality(S) \in Nat
         /\ \E order \in Orders(S) : TRUE
         /\ \A order \in Orders(S) :
              /\ DOMAIN order = 1 .. Cardinality(S)
              /\ \A k \in DOMAIN order : order[k] \in S
              /\ \A x \in S : \E k \in DOMAIN order : order[k] = x
              /\ \A j, k \in DOMAIN order : order[j] = order[k] => j = k
<1> DEFINE n == Cardinality(S)
<1>1. n \in Nat /\ ExistsBijection(1 .. n, S)
  BY FS_CardinalityType
<1>2. PICK f : f \in Bijection(1 .. n, S)
  BY <1>1 DEF ExistsBijection
<1>3. f \in Orders(S)
  BY <1>2 DEF Bijection, Injection, IsInjective, Orders
<1>4. ASSUME NEW order \in Orders(S), NEW x \in S
      PROVE  \E k \in DOMAIN order : order[k] = x
  <2>1. order \in Injection(1 .. n, S) /\ DOMAIN order = 1 .. n
    BY DEF Orders, Injection, IsInjective
  <2>2. Cardinality(1 .. n) = Cardinality(S)
    BY <1>1, FS_Interval
  <2>3. order \in Surjection(1 .. n, S)
    BY <2>1, <2>2, FS_Injection
  <2> QED
    BY <2>1, <2>3 DEF Surjection
<1> QED
  BY <1>1, <1>3, <1>4 DEF Orders

(* What a successful open() leaves: one object per namespace with records,  *)
(* nothing else.                                                            *)
LEMMA OpenFacts ==
  ASSUME Base, Open, up' # "failed"
  PROVE  /\ up' = "up"
         /\ collections' \in Seq(Entry) /\ mem' \in [Coll -> Contents]
         /\ \A j, k \in DOMAIN collections' :
              \/ collections'[j].ns = collections'[k].ns
              \/ collections'[j].coll = collections'[k].coll
              => j = k
         /\ \A k \in DOMAIN collections' :
              mem'[collections'[k].coll] = Loaded(collections'[k].ns)
         /\ \A ns \in Ns : Present(Loaded(ns)) # {} =>
              \E k \in DOMAIN collections' : collections'[k].ns = ns
<1> DEFINE kept == {ns \in Ns : Present(Loaded(ns)) # {}}
           objects == CHOOSE o \in Orders(Coll) : TRUE
<1>1. PICK names \in Orders(kept) :
        /\ up' = "up"
        /\ collections' = [k \in DOMAIN names |-> [ns |-> names[k], coll |-> objects[k]]]
        /\ mem' = [c \in Coll |->
                     IF {k \in DOMAIN names : objects[k] = c} = {} THEN Empty
                     ELSE Loaded(names[CHOOSE k \in {k \in DOMAIN names : objects[k] = c} : TRUE])]
  BY DEF Open
<1> HIDE DEF kept, objects
<1>2. kept \subseteq Ns /\ IsFiniteSet(kept) /\ IsFiniteSet(Ns) /\ IsFiniteSet(Coll)
      /\ Cardinality(kept) <= Cardinality(Ns) /\ Cardinality(Ns) <= Cardinality(Coll)
  <2>1. kept \subseteq Ns
    BY DEF kept
  <2> QED
    BY <2>1, EnoughObjects, FS_Subset
<1>3. /\ Cardinality(kept) \in Nat /\ Cardinality(Ns) \in Nat /\ Cardinality(Coll) \in Nat
  BY <1>2, OrdersFacts
<1>4. /\ DOMAIN names = 1 .. Cardinality(kept)
      /\ \A k \in DOMAIN names : names[k] \in kept
      /\ \A x \in kept : \E k \in DOMAIN names : names[k] = x
      /\ \A j, k \in DOMAIN names : names[j] = names[k] => j = k
  BY <1>2, OrdersFacts
<1>5. objects \in Orders(Coll)
  BY <1>2, OrdersFacts DEF objects
<1>6. /\ DOMAIN objects = 1 .. Cardinality(Coll)
      /\ \A k \in DOMAIN objects : objects[k] \in Coll
      /\ \A j, k \in DOMAIN objects : objects[j] = objects[k] => j = k
  BY <1>2, <1>5, OrdersFacts
<1>7. DOMAIN names \subseteq DOMAIN objects
  BY <1>2, <1>3, <1>4, <1>6
<1>8. /\ DOMAIN collections' = DOMAIN names
      /\ \A k \in DOMAIN names : /\ collections'[k] \in Entry
                                 /\ collections'[k].ns = names[k]
                                 /\ collections'[k].coll = objects[k]
  BY <1>1, <1>2, <1>4, <1>6, <1>7 DEF Entry
<1>9. collections' \in Seq(Entry)
  <2>1. collections' \in [1 .. Cardinality(kept) -> Entry]
    BY <1>1, <1>4, <1>8
  <2> QED
    BY <1>3, <2>1, SeqDef
<1>10. ASSUME NEW k \in DOMAIN names
       PROVE  mem'[objects[k]] = Loaded(names[k])
  <2>1. {j \in DOMAIN names : objects[j] = objects[k]} = {k}
    BY <1>6, <1>7
  <2>2. objects[k] \in Coll
    BY <1>6, <1>7
  <2>3. (CHOOSE j \in {k} : TRUE) = k
    OBVIOUS
  <2> QED
    BY <1>1, <2>1, <2>2, <2>3
<1>11. mem' \in [Coll -> Contents]
  <2>1. Empty \in Contents
    BY DEF Empty, Contents
  <2>2. ASSUME NEW c \in Coll PROVE mem'[c] \in Contents
    <3>1. CASE {k \in DOMAIN names : objects[k] = c} = {}
      BY <1>1, <2>1, <3>1
    <3>2. CASE {k \in DOMAIN names : objects[k] = c} # {}
      <4>1. PICK k \in DOMAIN names : objects[k] = c
        BY <3>2
      <4>2. mem'[c] = Loaded(names[k])
        BY <1>10, <4>1
      <4> QED
        BY <1>2, <1>4, <4>2, LoadedType
    <3> QED
      BY <3>1, <3>2
  <2> QED
    BY <1>1, <2>2
<1>12. \A ns \in Ns : Present(Loaded(ns)) # {} =>
         \E k \in DOMAIN collections' : collections'[k].ns = ns
  <2> SUFFICES ASSUME NEW ns \in Ns, Present(Loaded(ns)) # {}
               PROVE  \E k \in DOMAIN collections' : collections'[k].ns = ns
    OBVIOUS
  <2>1. ns \in kept
    BY DEF kept
  <2> QED
    BY <1>4, <1>8, <2>1
<1> QED
  BY <1>1, <1>4, <1>6, <1>7, <1>8, <1>9, <1>10, <1>11, <1>12
-----------------------------------------------------------------------------
LEMMA HeadFacts ==
  ASSUME TypeOK, todo # <<>>
  PROVE  /\ Head(todo) \in Entry /\ Head(todo).ns \in Ns /\ Head(todo).coll \in Coll
         /\ Head(todo) = todo[1] /\ 1 \in DOMAIN todo
         /\ Tail(todo) \in Seq(Entry) /\ Len(Tail(todo)) = Len(todo) - 1
         /\ \A k \in DOMAIN Tail(todo) : k + 1 \in DOMAIN todo /\ Tail(todo)[k] = todo[k + 1]
         /\ \A k \in DOMAIN todo : k # 1 => /\ k - 1 \in DOMAIN Tail(todo)
                                            /\ Tail(todo)[k - 1] = todo[k]
<1>1. todo \in Seq(Entry)
  BY DEF TypeOK
<1>2. /\ Head(todo) \in Entry /\ Tail(todo) \in Seq(Entry)
      /\ Len(Tail(todo)) = Len(todo) - 1
      /\ \A k \in 1 .. Len(Tail(todo)) : Tail(todo)[k] = todo[k + 1]
  BY <1>1, HeadTailProperties
<1>3. Len(todo) \in Nat \ {0} /\ DOMAIN todo = 1 .. Len(todo)
      /\ DOMAIN Tail(todo) = 1 .. Len(todo) - 1
  BY <1>1, <1>2, EmptySeq, LenProperties
<1>4. Head(todo) = todo[1]
  BY <1>1 DEF Head
<1> QED
  BY <1>2, <1>3, <1>4 DEF Entry

(* A free object, for the namespace an upsert creates.                      *)
LEMMA FreeObject ==
  ASSUME TypeOK, Coll # InUse, NEW c, c = CHOOSE x \in Coll : x \notin InUse
  PROVE  c \in Coll /\ c \notin InUse
<1>1. InUse \subseteq Coll
  <2>1. \A k \in DOMAIN collections : collections[k].coll \in Coll
    <3>1. \A k \in DOMAIN collections : collections[k] \in Entry
      BY ElementOfSeq, LenProperties DEF TypeOK
    <3> QED
      BY <3>1 DEF Entry
  <2>2. \A k \in DOMAIN todo : todo[k].coll \in Coll
    <3>1. \A k \in DOMAIN todo : todo[k] \in Entry
      BY ElementOfSeq, LenProperties DEF TypeOK
    <3> QED
      BY <3>1 DEF Entry
  <2>3. \A t \in Client : job[t] # NoJob => job[t].coll \in Coll
    BY DEF TypeOK, Job
  <2> QED
    BY <2>1, <2>2, <2>3 DEF InUse
<1>2. \E x \in Coll : x \notin InUse
  BY <1>1
<1> QED
  BY <1>2

(* What a call does, with the new object named when there is one.           *)
LEMMA CallFacts ==
  ASSUME TypeOK, NEW t \in Client, Call(t)
  PROVE  \E r \in Request, c \in Coll :
           /\ r.client = t /\ job' = [job EXCEPT ![t] = JobFor(c, r)]
           /\ \/ c \in Registered(r.ns) /\ UNCHANGED <<collections, mem>>
              \/ /\ r.op = "upsert" /\ Registered(r.ns) = {} /\ c \notin InUse
                 /\ collections' = Append(collections, [ns |-> r.ns, coll |-> c])
                 /\ mem' = [mem EXCEPT ![c] = Empty]
<1>1. PICK r \in Request :
        /\ r.client = t
        /\ \/ \E c \in Registered(r.ns) :
                /\ job' = [job EXCEPT ![t] = JobFor(c, r)]
                /\ UNCHANGED <<collections, mem>>
           \/ /\ r.op = "upsert" /\ Registered(r.ns) = {} /\ Coll # InUse
              /\ LET c == CHOOSE x \in Coll : x \notin InUse IN
                   /\ job' = [job EXCEPT ![t] = JobFor(c, r)]
                   /\ collections' = Append(collections, [ns |-> r.ns, coll |-> c])
                   /\ mem' = [mem EXCEPT ![c] = Empty]
  BY DEF Call
<1>2. CASE \E c \in Registered(r.ns) : /\ job' = [job EXCEPT ![t] = JobFor(c, r)]
                                       /\ UNCHANGED <<collections, mem>>
  BY <1>1, <1>2, RegisteredType
<1>3. CASE /\ r.op = "upsert" /\ Registered(r.ns) = {} /\ Coll # InUse
           /\ LET c == CHOOSE x \in Coll : x \notin InUse IN
                /\ job' = [job EXCEPT ![t] = JobFor(c, r)]
                /\ collections' = Append(collections, [ns |-> r.ns, coll |-> c])
                /\ mem' = [mem EXCEPT ![c] = Empty]
  <2> DEFINE c == CHOOSE x \in Coll : x \notin InUse
  <2>1. c \in Coll /\ c \notin InUse
    BY <1>3, FreeObject
  <2> QED
    BY <1>1, <1>3, <2>1
<1> QED
  BY <1>1, <1>2, <1>3

(* Every step keeps the types; the storage lock keeps seq a natural number  *)
(* when a failed upsert gives its number back.                              *)
LEMMA TypeStep == ASSUME Base, [Next]_vars PROVE TypeOK'
<1> USE DEF Base
<1>1. ASSUME NEW t \in Client, Call(t) PROVE TypeOK'
  <2>1. PICK r \in Request, c \in Coll :
           /\ r.client = t /\ job' = [job EXCEPT ![t] = JobFor(c, r)]
           /\ \/ c \in Registered(r.ns) /\ UNCHANGED <<collections, mem>>
              \/ /\ r.op = "upsert" /\ Registered(r.ns) = {} /\ c \notin InUse
                 /\ collections' = Append(collections, [ns |-> r.ns, coll |-> c])
                 /\ mem' = [mem EXCEPT ![c] = Empty]
    BY <1>1, CallFacts
  <2>2. JobFor(c, r) \in Job /\ [ns |-> r.ns, coll |-> c] \in Entry
    BY JobFacts DEF Entry
  <2>3. collections' \in Seq(Entry)
    <3>1. collections \in Seq(Entry)
      BY DEF TypeOK
    <3>2. Append(collections, [ns |-> r.ns, coll |-> c]) \in Seq(Entry)
      BY <2>2, <3>1, AppendProperties
    <3> QED
      BY <2>1, <3>1, <3>2
  <2>4. mem' \in [Coll -> Contents]
    BY <2>1 DEF TypeOK, Contents, Empty
  <2> QED
    BY <1>1, <2>1, <2>2, <2>3, <2>4, ThreadFacts
    DEF TypeOK, Call, GoTo, storageVars, snapVars, runVars, ClientPlace
<1>2. ASSUME NEW t \in Client, AcquireWrite(t) PROVE TypeOK'
  <2>1. /\ lock' \in [Coll -> Thread \cup {Nobody}]
        /\ job' \in [Client -> Job \cup {NoJob}]
    BY <1>2, ThreadFacts DEF TypeOK, AcquireWrite, Leave
  <2>2. \E place \in ClientPlace : pc' = [pc EXCEPT ![t] = place]
    BY <1>2 DEF AcquireWrite, Leave, GoTo, ClientPlace
  <2> QED
    BY <1>2, <2>1, <2>2, ThreadFacts DEF TypeOK, AcquireWrite, storageVars, snapVars, runVars
<1>3. ASSUME NEW t \in Client, Begin(t) PROVE TypeOK'
  BY <1>3, ThreadFacts
  DEF TypeOK, Begin, NextSeq, GoTo, collVars, snapVars, runVars, ClientPlace
<1>4. ASSUME NEW t \in Client, CommitWrite(t) PROVE TypeOK'
  <2>1. rows' \in [Ns -> [Id -> Row]]
    BY <1>4, CommitTables
  <2> QED
    BY <1>4, <2>1, ThreadFacts
    DEF TypeOK, CommitWrite, Commit, GoTo, collVars, snapVars, runVars, ClientPlace
<1>5. ASSUME NEW t \in Client, StorageFails(t) PROVE TypeOK'
  <2>1. seq' \in Nat
    BY <1>5 DEF StorageFails, UpsertFails, OtherWriteFails, TypeOK, Numbered
  <2> QED
    BY <1>5, <2>1, ThreadFacts
    DEF TypeOK, StorageFails, UpsertFails, OtherWriteFails, GoTo, Leave, Release,
        snapVars, runVars, ClientPlace
<1>6. ASSUME NEW t \in Client, Apply(t) PROVE TypeOK'
  <2>1. job[t].coll \in Coll /\ Ids(t) \subseteq Id
    BY <1>6, BusyFacts DEF Apply, Places
  <2>2. /\ Cardinality(DOMAIN Changes(t)) \in Nat
        /\ \A i \in DOMAIN Changes(t) : Changes(t)[i] \in Rec \cup {Absent}
    BY <1>6, ChangesFacts DEF Apply, Places
  <2>3. Overlay(Changes(t), mem[job[t].coll]) \in Contents
    BY <2>1, <2>2 DEF Overlay, Contents, TypeOK
  <2>4. mem' \in [Coll -> Contents]
    BY <1>6, <2>3 DEF Apply, TypeOK
  <2>5. writes' \in Nat /\ spawned' \in Nat
    <3>1. CASE Refused(t)
      BY <1>6, <3>1 DEF Apply, TypeOK
    <3>2. CASE ~Refused(t)
      BY <1>6, <2>2, <3>2 DEF Apply, AfterWrite, TypeOK
    <3> QED
      BY <3>1, <3>2
  <2> QED
    BY <1>6, <2>1, <2>4, <2>5, ThreadFacts
    DEF TypeOK, Apply, GoTo, Leave, Release, storageVars, snapVars, ClientPlace
<1>7. ASSUME NEW t \in Client, DropSaveSeq(t) PROVE TypeOK'
  BY <1>7, ThreadFacts
  DEF TypeOK, DropSaveSeq, SaveSeq, GoTo, collVars, snapVars, runVars, ClientPlace
<1>8. ASSUME NEW t \in Client, DropRows(t) PROVE TypeOK'
  <2>1. rows' \in [Ns -> [Id -> Row]]
    BY <1>8 DEF DropRows, Commit, Dropped, TypeOK, Row, NoRow
  <2> QED
    BY <1>8, <2>1, ThreadFacts
    DEF TypeOK, DropRows, Commit, GoTo, collVars, snapVars, runVars, ClientPlace
<1>9. ASSUME NEW t \in Client, PopNamespace(t) PROVE TypeOK'
  <2>1. collections' \in Seq(Entry)
    BY <1>9, RemoveAtFacts DEF PopNamespace, TypeOK
  <2> QED
    BY <1>9, <2>1, ThreadFacts
    DEF TypeOK, PopNamespace, GoTo, storageVars, snapVars, runVars, ClientPlace
<1>10. ASSUME NEW t \in Client, RemoveSnapshot(t) PROVE TypeOK'
  <2>1. NoSnap \in [seq : Nat, vals : [Id -> Val \cup {Null}], saved : BOOLEAN]
    BY DEF NoSnap
  <2>2. snap' \in [Ns -> [seq : Nat, vals : [Id -> Val \cup {Null}], saved : BOOLEAN]]
    BY <1>10, <2>1 DEF TypeOK, RemoveSnapshot
  <2> QED
    BY <1>10, <2>2, ThreadFacts
    DEF TypeOK, RemoveSnapshot, GoTo, Leave, Release, storageVars, runVars, ClientPlace
<1>11. CASE SnapshotStart
  <2>1. spawned' \in Nat
    BY <1>11 DEF TypeOK, SnapshotStart
  <2>2. todo' \in Seq(Entry) /\ seqs' \subseteq Nat
    BY <1>11 DEF TypeOK, SnapshotStart
  <2> QED
    BY <1>11, <2>1, <2>2, ThreadFacts
    DEF TypeOK, SnapshotStart, GoTo, storageVars, collVars, SnapshotPlace
<1>12. CASE SnapshotNext
  <2>1. lock' \in [Coll -> Thread \cup {Nobody}] /\ todo' \in Seq(Entry)
    <3>1. lock' = lock \/ lock' = [lock EXCEPT ![Head(todo).coll] = Snapshotter]
      BY <1>12 DEF SnapshotNext
    <3>2. todo # <<>> /\ todo' \in {todo, Tail(todo)}
      BY <1>12 DEF SnapshotNext
    <3>3. lock \in [Coll -> Thread \cup {Nobody}] /\ todo \in Seq(Entry)
      BY DEF TypeOK
    <3>4. todo' \in Seq(Entry)
      BY <3>2, <3>3, HeadTailProperties
    <3>5. lock' \in [Coll -> Thread \cup {Nobody}]
      BY <3>1, <3>3, ThreadFacts
    <3> QED
      BY <3>4, <3>5
  <2>2. \E place \in SnapshotPlace : pc' = [pc EXCEPT ![Snapshotter] = place]
    BY <1>12, ThreadFacts DEF SnapshotNext, GoTo, TypeOK, SnapshotPlace
  <2> QED
    BY <1>12, <2>1, <2>2, ThreadFacts DEF TypeOK, SnapshotNext, storageVars, runVars
<1>13. CASE SnapshotSave
  <2>1. NoSnap \in [seq : Nat, vals : [Id -> Val \cup {Null}], saved : BOOLEAN]
    BY DEF NoSnap
  <2> QED
    BY <1>13, <2>1, ThreadFacts
    DEF TypeOK, SnapshotSave, GoTo, storageVars, collVars, runVars, SnapshotPlace
<1>14. CASE SnapshotPublish
  <2>1. todo # <<>>
    BY <1>14 DEF SnapshotPublish, Places, SnapshotLock
  <2>2. \A i \in Id : mem[Head(todo).coll][i].val \in Val \cup {Null}
    BY <2>1, HeadFacts DEF TypeOK, Contents, Rec, Absent
  <2>3. snap' \in [Ns -> [seq : Nat, vals : [Id -> Val \cup {Null}], saved : BOOLEAN]]
    BY <1>14, <2>2 DEF SnapshotPublish, TypeOK
  <2> QED
    BY <1>14, <2>1, <2>3, ThreadFacts, HeadFacts
    DEF TypeOK, SnapshotPublish, GoTo, Release, storageVars, runVars, SnapshotPlace
<1>15. CASE SnapshotFails
  <2>1. todo' \in Seq(Entry)
    BY <1>15, EmptySeq DEF SnapshotFails
  <2> QED
    BY <1>15, <2>1, ThreadFacts
    DEF TypeOK, SnapshotFails, GoTo, Release, storageVars, runVars, SnapshotPlace
<1>16. CASE SnapshotDone
  BY <1>16, ThreadFacts
  DEF TypeOK, SnapshotDone, SaveSeq, GoTo, storageVars, collVars, snapVars, runVars, SnapshotPlace
<1>17. CASE SnapshotPurge
  <2>1. rows' \in [Ns -> [Id -> Row]]
    BY <1>17 DEF SnapshotPurge, Commit, Purged, TypeOK, Row, NoRow
  <2> QED
    BY <1>17, <2>1, ThreadFacts
    DEF TypeOK, SnapshotPurge, Commit, GoTo, collVars, runVars, SnapshotPlace
<1>18. CASE Crash
  BY <1>18, ThreadFacts
  DEF TypeOK, Crash, StorageLost, ClientPlace, SnapshotPlace, Contents, Empty
<1>19. CASE Open
  <2>1. collections' \in Seq(Entry) /\ mem' \in [Coll -> Contents] /\ up' \in {"up", "failed"}
    <3>1. CASE up' = "failed"
      BY <1>19, <3>1 DEF Open, TypeOK
    <3>2. CASE up' # "failed"
      BY <1>19, <3>2, OpenFacts
    <3> QED
      BY <3>1, <3>2
  <2>2. seq' \in Nat
    BY <1>19, HighestFacts DEF Open, StorageOpen
  <2> QED
    BY <1>19, <2>1, <2>2 DEF TypeOK, Open, StorageOpen, clientVars, snapVars
<1>20. CASE UNCHANGED vars
  BY <1>20 DEF TypeOK, vars, storageVars, collVars, clientVars, snapVars, runVars
<1> QED
  BY <1>1, <1>2, <1>3, <1>4, <1>5, <1>6, <1>7, <1>8, <1>9, <1>10, <1>11, <1>12, <1>13,
     <1>14, <1>15, <1>16, <1>17, <1>18, <1>19, <1>20
  DEF Next, ClientStep, SnapshotStep, Rest
(* The steps that write a table; every other one leaves both alone.         *)
LEMMA TableFrame ==
  ASSUME [Next]_vars
  PROVE  \/ UNCHANGED <<rows, savedSeq>>
         \/ \E t \in Client : CommitWrite(t) \/ DropSaveSeq(t) \/ DropRows(t)
         \/ SnapshotDone \/ SnapshotPurge
BY DEF Next, ClientStep, SnapshotStep, Rest, vars, storageVars, Call, AcquireWrite, Begin,
       NextSeq, StorageFails, UpsertFails, OtherWriteFails, Apply, PopNamespace,
       RemoveSnapshot, SnapshotStart, SnapshotNext, SnapshotSave, SnapshotPublish,
       SnapshotFails, Crash, StorageLost, Open, StorageOpen

(* Every step keeps a vector in each live row and a bound on all numbers.   *)
LEMMA TableStep == ASSUME Base, [Next]_vars PROVE Vectors' /\ \E m \in Nat : AtMost(m)'
<1>1. CASE UNCHANGED <<rows, savedSeq>>
  <2>1. HighestSeq \in Nat /\ AtMost(HighestSeq)
    BY HighestFacts DEF Base
  <2>2. AtMost(HighestSeq)' = AtMost(HighestSeq) /\ HighestSeq' = HighestSeq
    BY <1>1 DEF AtMost, Marks, RowSeqs, HighestSeq
  <2> QED
    BY <1>1, <2>1, <2>2 DEF Base, Vectors
<1>2. ASSUME NEW t \in Client, CommitWrite(t) PROVE Vectors' /\ \E m \in Nat : AtMost(m)'
  BY <1>2, CommitTables
<1>3. ASSUME NEW t \in Thread, SaveSeq(t) PROVE Vectors' /\ \E m \in Nat : AtMost(m)'
  <2>1. Vectors'
    BY <1>3 DEF SaveSeq, Base, Vectors
  <2>2. PICK m \in Nat : AtMost(m)
    BY HighestFacts DEF Base
  <2>3. seq \in Nat /\ \A ns \in Ns, i \in Id : rows[ns][i].seq \in Nat
    BY DEF Base, TypeOK, Row
  <2>4. PICK n \in Nat : m <= n /\ seq <= n
    BY <2>3
  <2>5. \A ns \in Ns, i \in Id : rows[ns][i].seq <= m
    BY <2>2 DEF AtMost, Marks, RowSeqs
  <2>6. \A ns \in Ns, i \in Id : rows[ns][i].seq <= n
    BY <2>3, <2>4, <2>5
  <2>7. AtMost(n)'
    BY <1>3, <2>4, <2>6 DEF SaveSeq, AtMost, Marks, RowSeqs
  <2> QED
    BY <2>1, <2>7
<1>4. ASSUME NEW t \in Client, DropRows(t) PROVE Vectors' /\ \E m \in Nat : AtMost(m)'
  <2>1. /\ savedSeq' = savedSeq /\ rows' \in [Ns -> [Id -> Row]]
        /\ \A ns \in Ns, i \in Id : rows'[ns][i] \in {rows[ns][i], NoRow}
    BY <1>4 DEF DropRows, Commit, Dropped, Base, TypeOK, Row, NoRow
  <2> QED
    BY <2>1, EmptiedTables
<1>5. CASE SnapshotPurge
  <2>1. /\ savedSeq' = savedSeq /\ rows' \in [Ns -> [Id -> Row]]
        /\ \A ns \in Ns, i \in Id : rows'[ns][i] \in {rows[ns][i], NoRow}
    BY <1>5 DEF SnapshotPurge, Commit, Purged, Base, TypeOK, Row, NoRow
  <2> QED
    BY <2>1, EmptiedTables
<1>6. CASE SnapshotDone
  BY <1>1, <1>3, <1>6, ThreadFacts DEF SnapshotDone, storageVars
<1>7. ASSUME NEW t \in Client, DropSaveSeq(t) PROVE Vectors' /\ \E m \in Nat : AtMost(m)'
  BY <1>3, <1>7, ThreadFacts DEF DropSaveSeq
<1> QED
  BY <1>1, <1>2, <1>4, <1>5, <1>6, <1>7, TableFrame

(* One thread at a time is inside the storage.                              *)
LEMMA HolderStep == ASSUME Base, [Next]_vars, TypeOK' PROVE Holders'
<1> USE ThreadFacts DEF Base, Places, Holders, GoTo, Leave
<1> pc \in [Thread -> ClientPlace \cup SnapshotPlace]
  BY DEF TypeOK
<1>1. ASSUME NEW t \in Client, Call(t) PROVE Holders'
  BY <1>1 DEF Call, storageVars
<1>2. ASSUME NEW t \in Client, AcquireWrite(t) PROVE Holders'
  BY <1>2 DEF AcquireWrite, storageVars
<1>3. ASSUME NEW t \in Client, Begin(t) PROVE Holders'
  BY <1>3 DEF Begin, NextSeq
<1>4. ASSUME NEW t \in Client, CommitWrite(t) PROVE Holders'
  BY <1>4 DEF CommitWrite, Commit
<1>5. ASSUME NEW t \in Client, StorageFails(t) PROVE Holders'
  BY <1>5 DEF StorageFails, UpsertFails, OtherWriteFails
<1>6. ASSUME NEW t \in Client, Apply(t) PROVE Holders'
  BY <1>6 DEF Apply, storageVars
<1>7. ASSUME NEW t \in Client, DropSaveSeq(t) PROVE Holders'
  BY <1>7 DEF DropSaveSeq, SaveSeq
<1>8. ASSUME NEW t \in Client, DropRows(t) PROVE Holders'
  BY <1>8 DEF DropRows, Commit
<1>9. ASSUME NEW t \in Client, PopNamespace(t) PROVE Holders'
  BY <1>9 DEF PopNamespace, storageVars
<1>10. ASSUME NEW t \in Client, RemoveSnapshot(t) PROVE Holders'
  BY <1>10 DEF RemoveSnapshot, storageVars
<1>11. CASE SnapshotStart
  BY <1>11 DEF SnapshotStart, storageVars
<1>12. CASE SnapshotNext
  BY <1>12 DEF SnapshotNext, storageVars
<1>13. CASE SnapshotSave
  BY <1>13 DEF SnapshotSave, storageVars
<1>14. CASE SnapshotPublish
  BY <1>14 DEF SnapshotPublish, storageVars
<1>15. CASE SnapshotFails
  BY <1>15 DEF SnapshotFails, storageVars
<1>16. CASE SnapshotDone
  BY <1>16 DEF SnapshotDone, SaveSeq, storageVars
<1>17. CASE SnapshotPurge
  BY <1>17 DEF SnapshotPurge, Commit
<1>18. CASE Crash
  BY <1>18 DEF Crash, StorageLost
<1>19. CASE Open
  BY <1>19 DEF Open, StorageOpen, clientVars
<1>20. CASE UNCHANGED vars
  BY <1>20 DEF vars, storageVars, clientVars
<1> QED
  BY <1>1, <1>2, <1>3, <1>4, <1>5, <1>6, <1>7, <1>8, <1>9, <1>10, <1>11, <1>12, <1>13,
     <1>14, <1>15, <1>16, <1>17, <1>18, <1>19, <1>20
  DEF Next, ClientStep, SnapshotStep, Rest

(* The steps that touch the counter.                                        *)
LEMMA CounterFrame ==
  ASSUME [Next]_vars
  PROVE  \/ seq' = seq
         \/ \E t \in Client : Begin(t) \/ StorageFails(t)
         \/ Crash \/ Open
BY DEF Next, ClientStep, SnapshotStep, Rest, vars, storageVars, Call, AcquireWrite,
       CommitWrite, Commit, Apply, DropSaveSeq, SaveSeq, DropRows, PopNamespace,
       RemoveSnapshot, SnapshotStart, SnapshotNext, SnapshotSave, SnapshotPublish,
       SnapshotFails, SnapshotDone, SnapshotPurge

(* So the highest number exists after every step, and a number in flight is *)
(* never zero.                                                              *)
LEMMA NumberedStep == ASSUME Base, [Next]_vars, TypeOK', Holders' PROVE Numbered'
<1>1. \E m \in Nat : AtMost(m)'
  BY TableStep
<1>2. ASSUME NEW t \in Client, pc'[t] = "commit" PROVE seq' > 0
  <2>1. CASE pc[t] = "commit"
    <3>1. seq > 0 /\ holder = t
      BY <2>1, ThreadFacts DEF Base, Places, Numbered, Holders
    <3>2. seq' = seq
      <4>1. ASSUME NEW u \in Client, Begin(u) PROVE FALSE
        BY <3>1, <4>1, ThreadFacts DEF Begin, NextSeq
      <4>2. ASSUME NEW u \in Client, StorageFails(u) PROVE FALSE
        BY <1>2, <3>1, <4>2, ThreadFacts
        DEF StorageFails, UpsertFails, OtherWriteFails, Leave, GoTo, Base, TypeOK
      <4>3. ~ Crash
        BY <1>2, ThreadFacts DEF Crash
      <4>4. ~ Open
        BY <2>1, ThreadFacts DEF Open, Base, Places, Down
      <4> QED
        BY <4>1, <4>2, <4>3, <4>4, CounterFrame
    <3> QED
      BY <3>1, <3>2
  <2>2. CASE pc[t] # "commit"
    <3> pc \in [Thread -> ClientPlace \cup SnapshotPlace] /\ t \in Thread /\ t # Snapshotter
      BY ThreadFacts DEF Base, TypeOK
    <3>1. ASSUME NEW u \in Client, ClientStep(u) PROVE Begin(t)
      <4>1. u \in Thread
        BY ThreadFacts
      <4>2. u = t
        BY <1>2, <2>2, <3>1, <4>1
        DEF ClientStep, GoTo, Leave, Call, AcquireWrite, Begin, CommitWrite, StorageFails, Apply,
            DropSaveSeq, DropRows, PopNamespace, RemoveSnapshot
      <4> QED
        BY <1>2, <3>1, <4>2
        DEF ClientStep, GoTo, Leave, Call, AcquireWrite, Begin, CommitWrite, StorageFails, Apply,
            DropSaveSeq, DropRows, PopNamespace, RemoveSnapshot
    <3>2. ~SnapshotStep
      BY <1>2, <2>2 DEF SnapshotStep, SnapshotStart, SnapshotNext, SnapshotSave, SnapshotPublish,
                        SnapshotFails, SnapshotDone, SnapshotPurge, GoTo
    <3>3. ~Crash /\ ~Open /\ ~Rest /\ pc' # pc
      BY <1>2, <2>2 DEF Crash, Open, Rest, vars, clientVars
    <3>4. Begin(t)
      BY <3>1, <3>2, <3>3 DEF Next, vars, clientVars
    <3> QED
      BY <3>4 DEF Begin, NextSeq, Base, TypeOK
  <2> QED
    BY <2>1, <2>2
<1> QED
  BY <1>1, <1>2, HighestNext DEF Numbered
-----------------------------------------------------------------------------
(* A client keeps its job until its call ends, and the memory of the        *)
(* collection it is inside changes only when it applies its write.          *)
LEMMA JobKept ==
  ASSUME Base, [Next]_vars, NEW t \in Client, pc[t] # "idle", pc'[t] # "idle"
  PROVE  job'[t] = job[t]
<1> pc \in [Thread -> ClientPlace \cup SnapshotPlace] /\ job \in [Client -> Job \cup {NoJob}]
  BY DEF Base, TypeOK
<1>1. ASSUME NEW u \in Client, ClientStep(u) PROVE job'[t] = job[t]
  BY <1>1, ThreadFacts
  DEF ClientStep, GoTo, Leave, Call, AcquireWrite, Begin, CommitWrite, StorageFails, Apply,
      DropSaveSeq, DropRows, PopNamespace, RemoveSnapshot
<1>2. CASE SnapshotStep
  BY <1>2 DEF SnapshotStep, SnapshotStart, SnapshotNext, SnapshotSave, SnapshotPublish,
              SnapshotFails, SnapshotDone, SnapshotPurge
<1>3. CASE Crash
  BY <1>3, ThreadFacts DEF Crash
<1>4. CASE Open \/ Rest \/ UNCHANGED vars
  BY <1>4 DEF Open, Rest, vars, clientVars
<1> QED
  BY <1>1, <1>2, <1>3, <1>4 DEF Next

LEMMA MemFrame ==
  ASSUME [Next]_vars
  PROVE  \/ UNCHANGED mem
         \/ \E t \in Client : Call(t) \/ Apply(t)
         \/ Crash \/ Open
BY DEF Next, ClientStep, SnapshotStep, Rest, vars, collVars, AcquireWrite, Begin,
       CommitWrite, StorageFails, DropSaveSeq, DropRows, PopNamespace, RemoveSnapshot,
       SnapshotStart, SnapshotNext, SnapshotSave, SnapshotPublish, SnapshotFails,
       SnapshotDone, SnapshotPurge

LEMMA MemKept ==
  ASSUME Base, [Next]_vars, NEW t \in Client, pc[t] \in Inside, pc'[t] # "idle"
  PROVE  mem'[job[t].coll] = mem[job[t].coll]
<1> DEFINE c == job[t].coll
<1>1. c \in Coll /\ lock[c] = t /\ job[t] # NoJob /\ pc[t] # "idle"
  BY BusyFacts DEF Base, Places, ClientLocks, Inside
<1>2. mem \in [Coll -> Contents]
  BY DEF Base, TypeOK
<1>3. ASSUME NEW u \in Client, Call(u) PROVE mem'[c] = mem[c]
  <2>1. \/ UNCHANGED mem
        \/ \E free \in Coll : free \notin InUse /\ mem' = [mem EXCEPT ![free] = Empty]
    BY <1>3, CallFacts DEF Base
  <2>2. c \in InUse
    BY <1>1 DEF InUse
  <2> QED
    BY <1>1, <1>2, <2>1, <2>2
<1>4. ASSUME NEW u \in Client, Apply(u) PROVE mem'[c] = mem[c]
  <2>1. u # t
    BY <1>4, ThreadFacts DEF Apply, Leave, GoTo, Base, TypeOK
  <2>2. job[u].coll \in Coll /\ lock[job[u].coll] = u
    BY <1>4, BusyFacts DEF Apply, Base, Places, ClientLocks, Inside
  <2>3. job[u].coll # c
    BY <1>1, <2>1, <2>2
  <2> HIDE DEF c
  <2> QED
    BY <1>1, <1>2, <1>4, <2>2, <2>3 DEF Apply
<1>5. ~ Crash
  BY ThreadFacts DEF Crash
<1>6. ~ Open
  BY <1>1, ThreadFacts DEF Open, Base, Places, Down
<1> QED
  BY <1>3, <1>4, <1>5, <1>6, MemFrame

LEMMA JobsStep == ASSUME Base, [Next]_vars, TypeOK' PROVE Jobs'
<1> USE ThreadFacts DEF Base, Places, Jobs, GoTo, Leave
<1> pc \in [Thread -> ClientPlace \cup SnapshotPlace] /\ job \in [Client -> Job \cup {NoJob}]
  BY DEF TypeOK
<1>1. ASSUME NEW t \in Client, Call(t) PROVE Jobs'
  <2>1. PICK r \in Request, c \in Coll :
           /\ r.client = t /\ job' = [job EXCEPT ![t] = JobFor(c, r)]
           /\ \/ c \in Registered(r.ns) /\ UNCHANGED <<collections, mem>>
              \/ /\ r.op = "upsert" /\ Registered(r.ns) = {} /\ c \notin InUse
                 /\ collections' = Append(collections, [ns |-> r.ns, coll |-> c])
                 /\ mem' = [mem EXCEPT ![c] = Empty]
    BY <1>1, CallFacts
  <2>2. JobFor(c, r) # NoJob /\ JobFor(c, r).coll = c
    BY JobFacts
  <2> QED
    BY <1>1, <2>1, <2>2 DEF Call
<1>2. ASSUME NEW t \in Client, AcquireWrite(t) PROVE Jobs'
  BY <1>2 DEF AcquireWrite
<1>3. ASSUME NEW t \in Client, Begin(t) PROVE Jobs'
  BY <1>3 DEF Begin
<1>4. ASSUME NEW t \in Client, CommitWrite(t) PROVE Jobs'
  BY <1>4 DEF CommitWrite
<1>5. ASSUME NEW t \in Client, StorageFails(t) PROVE Jobs'
  BY <1>5 DEF StorageFails
<1>6. ASSUME NEW t \in Client, Apply(t) PROVE Jobs'
  BY <1>6 DEF Apply
<1>7. ASSUME NEW t \in Client, DropSaveSeq(t) PROVE Jobs'
  BY <1>7 DEF DropSaveSeq
<1>8. ASSUME NEW t \in Client, DropRows(t) PROVE Jobs'
  BY <1>8 DEF DropRows
<1>9. ASSUME NEW t \in Client, PopNamespace(t) PROVE Jobs'
  BY <1>9 DEF PopNamespace
<1>10. ASSUME NEW t \in Client, RemoveSnapshot(t) PROVE Jobs'
  BY <1>10 DEF RemoveSnapshot
<1>11. CASE SnapshotStep
  BY <1>11 DEF SnapshotStep, SnapshotStart, SnapshotNext, SnapshotSave, SnapshotPublish,
               SnapshotFails, SnapshotDone, SnapshotPurge
<1>12. CASE Crash
  BY <1>12 DEF Crash
<1>13. CASE Open
  BY <1>13 DEF Open, clientVars
<1>14. CASE UNCHANGED vars
  BY <1>14 DEF vars, clientVars
<1> QED
  BY <1>1, <1>2, <1>3, <1>4, <1>5, <1>6, <1>7, <1>8, <1>9, <1>10, <1>11, <1>12, <1>13, <1>14
  DEF Next, ClientStep, Rest

LEMMA PathsStep == ASSUME Base, [Next]_vars, TypeOK' PROVE Paths'
<1> SUFFICES ASSUME NEW t \in Client, pc'[t] # "idle"
             PROVE  /\ pc'[t] \in {"storage", "commit", "apply"} =>
                         job'[t].op # "delete_all" /\ ~NothingToDo(t)'
                    /\ pc'[t] \in {"drop", "drop_rows", "pop", "rmtree"} =>
                         job'[t].op = "delete_all"
  BY DEF Paths
<1> pc \in [Thread -> ClientPlace \cup SnapshotPlace]
  BY DEF Base, TypeOK
<1>1. CASE pc[t] \in {"idle", "lock"} /\ ~AcquireWrite(t)
  <2>1. pc'[t] \in {"idle", "lock"}
    BY <1>1, ThreadFacts
    DEF Next, ClientStep, SnapshotStep, Rest, vars, clientVars, GoTo, Leave, Call,
        AcquireWrite, Begin, CommitWrite, StorageFails, Apply, DropSaveSeq, DropRows,
        PopNamespace, RemoveSnapshot, SnapshotStart, SnapshotNext, SnapshotSave,
        SnapshotPublish, SnapshotFails, SnapshotDone, SnapshotPurge, Crash, Open
  <2> QED
    BY <2>1
<1>2. CASE AcquireWrite(t)
  <2>1. mem' = mem /\ job'[t] = job[t] /\ ~NothingToDo(t)
    BY <1>2, ThreadFacts DEF AcquireWrite, GoTo, Leave
  <2>2. NothingToDo(t)' <=> NothingToDo(t)
    BY <2>1 DEF NothingToDo, Ids, Present
  <2>3. pc'[t] = IF job[t].op = "delete_all" THEN "drop" ELSE "storage"
    BY <1>2, <2>1, ThreadFacts DEF AcquireWrite, GoTo
  <2> QED
    BY <2>1, <2>2, <2>3
<1>3. CASE pc[t] \in Inside
  <2>1. job'[t] = job[t] /\ mem'[job[t].coll] = mem[job[t].coll]
    BY <1>3, JobKept, MemKept DEF Inside
  <2>2. NothingToDo(t)' <=> NothingToDo(t)
    BY <2>1 DEF NothingToDo, Ids, Present
  <2>3. /\ pc'[t] \in {"storage", "commit", "apply"} =>
             pc[t] \in {"storage", "commit", "apply"}
        /\ pc'[t] \in {"drop", "drop_rows", "pop", "rmtree"} =>
             pc[t] \in {"drop", "drop_rows", "pop", "rmtree"}
    BY <1>3, ThreadFacts
    DEF Inside, Next, ClientStep, SnapshotStep, Rest, vars, clientVars, GoTo, Leave, Call,
        AcquireWrite, Begin, CommitWrite, StorageFails, Apply, DropSaveSeq, DropRows,
        PopNamespace, RemoveSnapshot, SnapshotStart, SnapshotNext, SnapshotSave,
        SnapshotPublish, SnapshotFails, SnapshotDone, SnapshotPurge, Crash, Open
  <2> QED
    BY <2>1, <2>2, <2>3 DEF Base, Places, Paths
<1>4. pc[t] \in {"idle", "lock"} \cup Inside
  BY DEF Base, TypeOK, ClientPlace, Inside
<1> QED
  BY <1>1, <1>2, <1>3, <1>4
(* One thread at a time is inside a collection.                             *)
LEMMA LocksStep == ASSUME Base, [Next]_vars, TypeOK' PROVE ClientLocks' /\ SnapshotLock'
<1> USE ThreadFacts DEF GoTo, Leave, Release, ClientLocks, SnapshotLock, Inside
<1> /\ pc \in [Thread -> ClientPlace \cup SnapshotPlace]
    /\ job \in [Client -> Job \cup {NoJob}]
    /\ lock \in [Coll -> Thread \cup {Nobody}]
  BY DEF Base, TypeOK
<1> ClientLocks /\ SnapshotLock
  BY DEF Base, Places
<1> \A t \in Client : pc[t] \in ClientPlace
  BY DEF Base, TypeOK
<1> pc[Snapshotter] \in SnapshotPlace
  BY DEF Base, TypeOK
<1> \A t \in Client : pc[t] # "idle" => job[t].coll \in Coll
  BY BusyFacts DEF Base, Places
<1> DEFINE Goal == ClientLocks' /\ SnapshotLock'
<1>1. ASSUME NEW t \in Client, Call(t) PROVE Goal
  BY <1>1, JobKept DEF Call, snapVars
<1>2. ASSUME NEW t \in Client, AcquireWrite(t) PROVE Goal
  <2>1. CASE NothingToDo(t)
    BY <1>2, <2>1 DEF AcquireWrite, snapVars
  <2>2. CASE ~NothingToDo(t)
    <3>1. /\ pc[t] = "lock" /\ lock[job[t].coll] = Nobody /\ job' = job /\ todo' = todo
          /\ lock' = [lock EXCEPT ![job[t].coll] = t]
          /\ \E place \in {"drop", "storage"} : pc' = [pc EXCEPT ![t] = place]
      BY <1>2, <2>2 DEF AcquireWrite, snapVars
    <3>2. job[t].coll \in Coll
      BY <3>1
    <3>3. ClientLocks'
      BY <3>1, <3>2
    <3>4. SnapshotLock'
      BY <3>1, <3>2
    <3> QED
      BY <3>3, <3>4
  <2> QED
    BY <2>1, <2>2
<1>3. ASSUME NEW t \in Client, Begin(t) PROVE Goal
  BY <1>3 DEF Begin, collVars, snapVars
<1>4. ASSUME NEW t \in Client, CommitWrite(t) PROVE Goal
  BY <1>4 DEF CommitWrite, collVars, snapVars
<1>5. ASSUME NEW t \in Client, StorageFails(t) PROVE Goal
  BY <1>5 DEF StorageFails, snapVars
<1>6. ASSUME NEW t \in Client, Apply(t) PROVE Goal
  BY <1>6 DEF Apply, snapVars
<1>7. ASSUME NEW t \in Client, DropSaveSeq(t) PROVE Goal
  BY <1>7 DEF DropSaveSeq, collVars, snapVars
<1>8. ASSUME NEW t \in Client, DropRows(t) PROVE Goal
  BY <1>8 DEF DropRows, collVars, snapVars
<1>9. ASSUME NEW t \in Client, PopNamespace(t) PROVE Goal
  BY <1>9 DEF PopNamespace, snapVars
<1>10. ASSUME NEW t \in Client, RemoveSnapshot(t) PROVE Goal
  BY <1>10 DEF RemoveSnapshot
<1>11. CASE SnapshotStart
  BY <1>11 DEF SnapshotStart, collVars
<1>12. CASE SnapshotNext
  <2>1. Head(todo).coll \in Coll
    BY <1>12, HeadFacts DEF SnapshotNext, Base
  <2> QED
    BY <1>12, <2>1 DEF SnapshotNext
<1>13. CASE SnapshotSave
  BY <1>13 DEF SnapshotSave, collVars
<1>14. CASE SnapshotPublish
  BY <1>14 DEF SnapshotPublish
<1>15. CASE SnapshotFails
  BY <1>15 DEF SnapshotFails
<1>16. CASE SnapshotDone
  BY <1>16 DEF SnapshotDone, collVars, snapVars
<1>17. CASE SnapshotPurge
  BY <1>17 DEF SnapshotPurge, collVars
<1>18. CASE Crash
  BY <1>18 DEF Crash
<1>19. CASE Open
  BY <1>19 DEF Open, clientVars, snapVars
<1>20. CASE UNCHANGED vars
  BY <1>20 DEF vars, clientVars, collVars, snapVars
<1> QED
  BY <1>1, <1>2, <1>3, <1>4, <1>5, <1>6, <1>7, <1>8, <1>9, <1>10, <1>11, <1>12, <1>13,
     <1>14, <1>15, <1>16, <1>17, <1>18, <1>19, <1>20
  DEF Next, ClientStep, SnapshotStep, Rest

LEMMA DownStep == ASSUME Base, [Next]_vars, TypeOK' PROVE Down'
<1> USE ThreadFacts DEF Base, Places, Down
<1>1. CASE up = "up"
  <2>1. ASSUME NEW t \in Client, ClientStep(t) PROVE up' = up
    BY <2>1
    DEF ClientStep, Call, AcquireWrite, Begin, CommitWrite, StorageFails, Apply,
        DropSaveSeq, DropRows, PopNamespace, RemoveSnapshot, runVars
  <2>2. SnapshotStep => up' = up
    BY DEF SnapshotStep, SnapshotStart, SnapshotNext, SnapshotSave, SnapshotPublish,
           SnapshotFails, SnapshotDone, SnapshotPurge, runVars
  <2>3. Crash => Down'
    BY DEF Crash
  <2>4. ~ Open
    BY <1>1 DEF Open
  <2> QED
    BY <1>1, <2>1, <2>2, <2>3, <2>4 DEF Next, Rest, vars, runVars
<1>2. CASE up # "up"
  <2>1. ASSUME NEW t \in Client, ClientStep(t) PROVE FALSE
    BY <1>2, <2>1
    DEF ClientStep, Call, AcquireWrite, Begin, CommitWrite, StorageFails, Apply,
        DropSaveSeq, DropRows, PopNamespace, RemoveSnapshot
  <2>2. ~ SnapshotStep
    BY <1>2 DEF SnapshotStep, SnapshotStart, SnapshotNext, SnapshotSave, SnapshotPublish,
                SnapshotFails, SnapshotDone, SnapshotPurge
  <2>3. ~ Crash
    BY <1>2 DEF Crash
  <2>4. Open => Down'
    <3> SUFFICES ASSUME Open PROVE Down'
      OBVIOUS
    <3>1. CASE up' = "failed"
      BY <1>2, <3>1 DEF Open, clientVars, snapVars
    <3>2. CASE up' # "failed"
      BY <3>2, OpenFacts
    <3> QED
      BY <3>1, <3>2
  <2>5. UNCHANGED vars => Down'
    BY <1>2 DEF vars, collVars, clientVars, snapVars, runVars
  <2> QED
    BY <2>1, <2>2, <2>3, <2>4, <2>5 DEF Next, Rest
<1> QED
  BY <1>1, <1>2

LEMMA PurgingStep == ASSUME Base, [Next]_vars, TypeOK' PROVE Purging'
<1> USE ThreadFacts DEF GoTo, Purging
<1> pc \in [Thread -> ClientPlace \cup SnapshotPlace] /\ Purging
  BY DEF Base, Places, TypeOK
<1>1. ASSUME NEW t \in Client, ClientStep(t) PROVE Purging'
  <2>1. UNCHANGED <<todo, seqs>> /\ pc'[Snapshotter] = pc[Snapshotter]
    BY <1>1
    DEF ClientStep, Leave, Call, AcquireWrite, Begin, CommitWrite, StorageFails, Apply,
        DropSaveSeq, DropRows, PopNamespace, RemoveSnapshot, snapVars
  <2> QED
    BY <2>1
<1>2. CASE SnapshotStep
  BY <1>2 DEF SnapshotStep, SnapshotStart, SnapshotNext, SnapshotSave, SnapshotPublish,
              SnapshotFails, SnapshotDone, SnapshotPurge, snapVars
<1>3. CASE Crash \/ Open \/ Rest \/ UNCHANGED vars
  BY <1>3 DEF Crash, Open, Rest, vars, clientVars, snapVars
<1> QED
  BY <1>1, <1>2, <1>3 DEF Next

-----------------------------------------------------------------------------
(* A new index is empty, idle and unlocked.                                 *)
LEMMA InitBase == Init => Base
<1> SUFFICES ASSUME Init PROVE Base
  OBVIOUS
<1> USE ThreadFacts DEF Init, StorageInit
<1>1. /\ rows \in [Ns -> [Id -> Row]]
      /\ snap \in [Ns -> [seq : Nat, vals : [Id -> Val \cup {Null}], saved : BOOLEAN]]
      /\ mem \in [Coll -> Contents]
  BY DEF Row, NoRow, NoSnap, Contents, Empty
<1>2. collections \in Seq(Entry) /\ todo \in Seq(Entry)
  BY EmptySeq
<1>3. TypeOK
  BY <1>1, <1>2 DEF TypeOK, ClientPlace, SnapshotPlace
<1>4. Places
  <2>1. Jobs /\ Holders /\ Paths
    BY DEF Jobs, Holders, Paths
  <2>2. ClientLocks /\ SnapshotLock /\ Down /\ Purging
    BY DEF ClientLocks, SnapshotLock, Down, Purging, Inside
  <2> QED
    BY <2>1, <2>2 DEF Places
<1>5. Numbered /\ Vectors
  <2>1. AtMost(0)
    BY DEF AtMost, Marks, RowSeqs, NoRow
  <2> QED
    BY <1>3, <2>1, HighestExists DEF Numbered, Vectors, NoRow
<1> QED
  BY <1>3, <1>4, <1>5 DEF Base

(* Base is inductive: each part by a lemma over the steps of Next.          *)
LEMMA BaseStep == Base /\ [Next]_vars => Base'
<1> SUFFICES ASSUME Base, [Next]_vars PROVE Base'
  OBVIOUS
<1>1. TypeOK'
  BY TypeStep
<1>2. Holders'
  BY <1>1, HolderStep
<1>3. Places'
  BY <1>1, <1>2, JobsStep, PathsStep, LocksStep, DownStep, PurgingStep DEF Places
<1>4. Numbered' /\ Vectors'
  BY <1>1, <1>2, NumberedStep, TableStep
<1> QED
  BY <1>1, <1>3, <1>4 DEF Base

(* Types, places, locks and the highest number are right in every state of  *)
(* any index, however it is used.                                           *)
THEOREM BaseCorrect == Spec => []Base
BY InitBase, BaseStep, PTL DEF Spec

(* Index.TypeOK: every variable keeps its type, whatever the clients call,  *)
(* which transactions fail and wherever the process crashes.                *)
THEOREM TypeCorrect == Spec => []TypeOK
<1>1. Base => TypeOK
  BY DEF Base
<1> QED
  BY <1>1, BaseCorrect, PTL
=============================================================================
