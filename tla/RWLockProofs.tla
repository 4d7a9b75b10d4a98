---------------------------- MODULE RWLockProofs ----------------------------
(***************************************************************************)
(* RWLock for any finite sets of readers and writers: the counters count,   *)
(* a writer is alone, no wake-up is lost, and the lock implements           *)
(* ReadersWriters.  Inv is the conjunction of RWLock's invariants; it is    *)
(* inductive as it stands because the counters say who is inside.           *)
(***************************************************************************)
EXTENDS RWLock, FiniteSetTheorems, TLAPS

Inv == TypeOK /\ CountersExact /\ Exclusion /\ NoLostWakeup

(* There are finitely many threads, so each place holds finitely many.      *)
LEMMA ThreadFinite == IsFiniteSet(Thread)
  BY ThreadsFinite, FS_Union DEF Thread

LEMMA AtFinite == \A p : IsFiniteSet(At(p)) /\ Cardinality(At(p)) \in Nat
<1>1. \A p : At(p) \subseteq Thread
  BY DEF At
<1> QED
  BY <1>1, ThreadFinite, FS_Subset, FS_CardinalityType

(* A thread that moves from one place to another leaves one set of threads  *)
(* and joins another; the other places keep theirs.                         *)
LEMMA Move ==
  ASSUME TypeOK, NEW t \in Thread, NEW p \in Place, NEW q \in Place,
         pc[t] = p, p # q, Become(t, q)
  PROVE  /\ \A other : other # q /\ other # p => At(other)' = At(other)
         /\ At(q)' = At(q) \cup {t}
         /\ At(p)' = At(p) \ {t}
         /\ Cardinality(At(q))' = Cardinality(At(q)) + 1
         /\ Cardinality(At(p))' = Cardinality(At(p)) - 1
<1>1. \A r : At(r)' = {u \in Thread : (IF u = t THEN q ELSE pc[u]) = r}
  BY DEF TypeOK, Become, At
<1>2. \A other : other # q /\ other # p => At(other)' = At(other)
  BY <1>1 DEF At
<1>3. At(q)' = At(q) \cup {t} /\ t \notin At(q)
  BY <1>1 DEF At
<1>4. At(p)' = At(p) \ {t} /\ t \in At(p)
  BY <1>1 DEF At
<1>5. Cardinality(At(q))' = Cardinality(At(q)) + 1
  BY <1>3, AtFinite, FS_AddElement
<1>6. Cardinality(At(p))' = Cardinality(At(p)) - 1
  BY <1>4, AtFinite, FS_RemoveElement
<1> QED
  BY <1>2, <1>3, <1>4, <1>5, <1>6

(* The counters tell whether anybody is inside.                             *)
LEMMA NobodyReading == CountersExact => (readers = 0 <=> At("reading") = {})
  BY AtFinite, FS_EmptySet DEF CountersExact

-----------------------------------------------------------------------------
LEMMA InitInv == Init => Inv
<1> SUFFICES ASSUME Init PROVE Inv
  OBVIOUS
<1>1. TypeOK /\ Exclusion /\ NoLostWakeup
  BY DEF Init, TypeOK, Place, Exclusion, At, NoLostWakeup
<1>2. \A p : p # "idle" => At(p) = {}
  BY DEF Init, At
<1>3. CountersExact
  BY <1>2, FS_EmptySet DEF Init, CountersExact
<1> QED
  BY <1>1, <1>3 DEF Inv

(* The four ways through the wait loops: sleep or enter, as reader or       *)
(* writer.  A thread that sleeps has just seen its loop condition true.     *)
LEMMA ReaderSleeps ==
  ASSUME Inv, NEW t \in Thread, pc[t] \in {"idle", "reader_waiting"},
         writer \/ waiting # 0, TestRead(t)
  PROVE  Inv'
<1>1. /\ Become(t, "reader_waiting") /\ asleep' = asleep \cup {t}
      /\ UNCHANGED <<readers, writer, waiting>>
  BY DEF TestRead
<1>2. \A p \in {"reading", "writing", "writer_waiting"} : At(p)' = At(p)
  BY <1>1 DEF Inv, TypeOK, Become, At
<1>3. TypeOK'
  BY <1>1 DEF Inv, TypeOK, Become, Place
<1>4. CountersExact' /\ Exclusion'
  <2>1. CountersExact'
    BY <1>1, <1>2 DEF Inv, CountersExact
  <2>2. Exclusion'
    BY <1>1, <1>2 DEF Inv, TypeOK, Become, Exclusion
  <2> QED
    BY <2>1, <2>2
<1>5. NoLostWakeup'
  BY <1>1 DEF Inv, TypeOK, Become, NoLostWakeup
<1> QED
  BY <1>3, <1>4, <1>5 DEF Inv

LEMMA ReaderEnters ==
  ASSUME Inv, NEW t \in Thread, pc[t] \in {"idle", "reader_waiting"},
         t \notin asleep, ~writer, waiting = 0, TestRead(t)
  PROVE  Inv'
<1>1. /\ Become(t, "reading") /\ readers' = readers + 1
      /\ UNCHANGED <<writer, waiting, asleep>>
  BY DEF TestRead
<1>2. /\ At("reading")' = At("reading") \cup {t}
      /\ Cardinality(At("reading"))' = Cardinality(At("reading")) + 1
      /\ \A p \in {"writing", "writer_waiting"} : At(p)' = At(p)
  BY <1>1, Move DEF Inv, Place
<1>3. TypeOK'
  BY <1>1 DEF Inv, TypeOK, Become, Place
<1>4. CountersExact'
  BY <1>1, <1>2 DEF Inv, CountersExact
<1>5. Exclusion'
  BY <1>2 DEF Inv, CountersExact, Exclusion
<1>6. NoLostWakeup'
  BY <1>1 DEF Inv, TypeOK, Become, NoLostWakeup
<1> QED
  BY <1>3, <1>4, <1>5, <1>6 DEF Inv

LEMMA WriterSleeps ==
  ASSUME Inv, NEW t \in Thread, writer \/ readers # 0,
         \/ pc[t] = "idle" /\ TestWrite(t, waiting + 1)
         \/ pc[t] = "writer_waiting" /\ TestWrite(t, waiting)
  PROVE  Inv'
<1>1. /\ Become(t, "writer_waiting") /\ asleep' = asleep \cup {t}
      /\ UNCHANGED <<readers, writer>>
      /\ waiting' = waiting + (IF pc[t] = "idle" THEN 1 ELSE 0)
  BY DEF TestWrite, Inv, TypeOK
<1>2. \A p \in {"reading", "writing"} : At(p)' = At(p)
  BY <1>1 DEF Inv, TypeOK, Become, At
<1>3. TypeOK'
  BY <1>1 DEF Inv, TypeOK, Become, Place
<1>4. waiting' = Cardinality(At("writer_waiting"))'
  <2>1. CASE pc[t] = "idle"
    BY <1>1, <2>1, Move DEF Inv, CountersExact, Place
  <2>2. CASE pc[t] = "writer_waiting"
    <3>1. At("writer_waiting")' = At("writer_waiting")
      BY <1>1, <2>2 DEF Inv, TypeOK, Become, At
    <3> QED
      BY <1>1, <2>2, <3>1 DEF Inv, TypeOK, CountersExact
  <2> QED
    BY <2>1, <2>2
<1>5. CountersExact'
  BY <1>1, <1>2, <1>4 DEF Inv, CountersExact
<1>6. Exclusion'
  BY <1>1, <1>2 DEF Inv, TypeOK, Become, Exclusion
<1>7. NoLostWakeup'
  BY <1>1 DEF Inv, TypeOK, Become, NoLostWakeup
<1> QED
  BY <1>3, <1>5, <1>6, <1>7 DEF Inv

LEMMA WriterEnters ==
  ASSUME Inv, NEW t \in Thread, t \notin asleep, ~writer, readers = 0,
         \/ pc[t] = "idle" /\ TestWrite(t, waiting + 1)
         \/ pc[t] = "writer_waiting" /\ TestWrite(t, waiting)
  PROVE  Inv'
<1>1. /\ Become(t, "writing") /\ writer' = TRUE
      /\ UNCHANGED <<readers, asleep>>
      /\ waiting' = waiting - (IF pc[t] = "idle" THEN 0 ELSE 1)
  BY DEF TestWrite, Inv, TypeOK
<1>2. At("writing")' = At("writing") \cup {t} /\ At("reading")' = At("reading")
  BY <1>1, Move DEF Inv, Place
<1>3. waiting' = Cardinality(At("writer_waiting"))'
  <2>1. CASE pc[t] = "idle"
    BY <1>1, <2>1, Move DEF Inv, TypeOK, CountersExact, Place
  <2>2. CASE pc[t] = "writer_waiting"
    BY <1>1, <2>2, Move DEF Inv, CountersExact, Place
  <2> QED
    BY <2>1, <2>2
<1>4. TypeOK'
  <2>1. pc[t] = "writer_waiting" => waiting # 0
    <3>1. pc[t] = "writer_waiting" => At("writer_waiting") # {}
      BY DEF At
    <3>2. At("writer_waiting") # {} => Cardinality(At("writer_waiting")) # 0
      BY AtFinite, FS_EmptySet
    <3> QED
      BY <3>1, <3>2 DEF Inv, CountersExact
  <2>2. waiting' \in Nat
    BY <1>1, <2>1 DEF Inv, TypeOK
  <2> QED
    BY <1>1, <2>2 DEF Inv, TypeOK, Become, Place
<1>5. CountersExact'
  BY <1>1, <1>2, <1>3 DEF Inv, CountersExact
<1>6. Exclusion'
  <2>1. At("reading") = {} /\ At("writing") = {}
    BY NobodyReading DEF Inv, CountersExact
  <2>2. At("reading")' = {} /\ At("writing")' = {t}
    BY <1>2, <2>1
  <2> QED
    BY <2>2 DEF Exclusion, At
<1>7. NoLostWakeup'
  BY <1>1 DEF Inv, TypeOK, Become, NoLostWakeup
<1> QED
  BY <1>4, <1>5, <1>6, <1>7 DEF Inv

(* The two exits.  The last reader and every writer notify the sleepers.    *)
LEMMA ReaderLeaves ==
  ASSUME Inv, NEW t \in Thread, ReadExit(t)
  PROVE  Inv'
<1>1. /\ pc[t] = "reading" /\ Become(t, "idle") /\ readers' = readers - 1
      /\ asleep' = (IF readers' = 0 THEN {} ELSE asleep)
      /\ UNCHANGED <<writer, waiting>>
  BY DEF ReadExit
<1>2. /\ At("reading")' = At("reading") \ {t}
      /\ Cardinality(At("reading"))' = Cardinality(At("reading")) - 1
      /\ \A p \in {"writing", "writer_waiting"} : At(p)' = At(p)
  BY <1>1, Move DEF Inv, Place
<1>3. CountersExact'
  BY <1>1, <1>2 DEF Inv, CountersExact
<1>4. TypeOK'
  <2>1. readers # 0
    BY <1>1, NobodyReading DEF Inv, At
  <2> QED
    BY <1>1, <2>1 DEF Inv, TypeOK, Become, Place
<1>5. Exclusion'
  BY <1>1, <1>2 DEF Inv, TypeOK, Become, Exclusion
<1>6. NoLostWakeup'
  BY <1>1 DEF Inv, TypeOK, Become, NoLostWakeup
<1> QED
  BY <1>3, <1>4, <1>5, <1>6 DEF Inv

LEMMA WriterLeaves ==
  ASSUME Inv, NEW t \in Thread, WriteExit(t)
  PROVE  Inv'
<1>1. /\ pc[t] = "writing" /\ Become(t, "idle") /\ writer' = FALSE
      /\ asleep' = {} /\ UNCHANGED <<readers, waiting>>
  BY DEF WriteExit
<1>2. /\ At("writing")' = At("writing") \ {t}
      /\ \A p \in {"reading", "writer_waiting"} : At(p)' = At(p)
  BY <1>1, Move DEF Inv, Place
<1>3. At("writing")' = {}
  BY <1>1, <1>2 DEF Inv, Exclusion, At
<1>4. TypeOK'
  BY <1>1 DEF Inv, TypeOK, Become, Place
<1>5. CountersExact'
  BY <1>1, <1>2, <1>3 DEF Inv, CountersExact
<1>6. Exclusion' /\ NoLostWakeup'
  BY <1>1, <1>3 DEF Exclusion, NoLostWakeup
<1> QED
  BY <1>4, <1>5, <1>6 DEF Inv

LEMMA StepInv == Inv /\ [Next]_vars => Inv'
<1> SUFFICES ASSUME Inv, [Next]_vars PROVE Inv'
  OBVIOUS
<1>1. ASSUME NEW t \in Reader, ReadStep(t) PROVE Inv'
  <2>0. t \in Thread
    BY DEF Thread
  <2>1. CASE ReadEnter(t) \/ ReadWake(t)
    <3>1. pc[t] \in {"idle", "reader_waiting"} /\ t \notin asleep /\ TestRead(t)
      BY <2>1 DEF ReadEnter, ReadWake, Inv, TypeOK
    <3>2. CASE writer \/ waiting # 0
      BY <2>0, <3>1, <3>2, ReaderSleeps
    <3>3. CASE ~writer /\ waiting = 0
      BY <2>0, <3>1, <3>3, ReaderEnters
    <3> QED
      BY <3>2, <3>3
  <2>2. CASE ReadExit(t)
    BY <2>0, <2>2, ReaderLeaves
  <2> QED
    BY <1>1, <2>1, <2>2 DEF ReadStep
<1>2. ASSUME NEW t \in Writer, WriteStep(t) PROVE Inv'
  <2>0. t \in Thread
    BY DEF Thread
  <2>1. CASE WriteEnter(t) \/ WriteWake(t)
    <3>1. /\ t \notin asleep
          /\ \/ pc[t] = "idle" /\ TestWrite(t, waiting + 1)
             \/ pc[t] = "writer_waiting" /\ TestWrite(t, waiting)
      BY <2>1 DEF WriteEnter, WriteWake, Inv, TypeOK
    <3>2. CASE writer \/ readers # 0
      BY <2>0, <3>1, <3>2, WriterSleeps
    <3>3. CASE ~writer /\ readers = 0
      BY <2>0, <3>1, <3>3, WriterEnters
    <3> QED
      BY <3>2, <3>3
  <2>2. CASE WriteExit(t)
    BY <2>0, <2>2, WriterLeaves
  <2> QED
    BY <1>2, <2>1, <2>2 DEF WriteStep
<1>3. CASE UNCHANGED vars
  BY <1>3 DEF vars, Inv, TypeOK, CountersExact, Exclusion, NoLostWakeup, At
<1> QED
  BY <1>1, <1>2, <1>3 DEF Next

-----------------------------------------------------------------------------
(* The inductive invariant: Init gives it, every step keeps it.             *)
THEOREM InvAlways == Spec => []Inv
  BY InitInv, StepInv, PTL DEF Spec

(* Every variable has its type; the wait set holds only threads in wait().  *)
THEOREM TypeCorrect == Spec => []TypeOK
<1>1. Inv => TypeOK
  BY DEF Inv
<1> QED
  BY <1>1, InvAlways, PTL

(* The counters of the lock say who is inside it.                           *)
THEOREM CountersCorrect == Spec => []CountersExact
<1>1. Inv => CountersExact
  BY DEF Inv
<1> QED
  BY <1>1, InvAlways, PTL

(* A writer is alone with the collection.                                   *)
THEOREM MutualExclusion == Spec => []Exclusion
<1>1. Inv => Exclusion
  BY DEF Inv
<1> QED
  BY <1>1, InvAlways, PTL

(* A thread sleeps in wait() only while the condition it waits on is true.  *)
THEOREM WakeupsNotLost == Spec => []NoLostWakeup
<1>1. Inv => NoLostWakeup
  BY DEF Inv
<1> QED
  BY <1>1, InvAlways, PTL

-----------------------------------------------------------------------------
(* The refinement: side says who holds what, queue who asked to write.      *)
side == [t \in Thread |-> Held(t)]
queue == At("writer_waiting")

LEMMA InitRefines == Init => Promise!Init
  BY DEF Init, Promise!Init, Held, At, Thread, Promise!Thread

(* A thread that goes from place p to place q changes its own side only.    *)
LEMMA SideMoves ==
  ASSUME Inv, NEW t \in Thread, NEW q \in Place, Become(t, q)
  PROVE  side' = [side EXCEPT ![t] = IF q \in {"reading", "writing"} THEN q ELSE "out"]
  BY DEF Inv, TypeOK, Become, side, Held

(* A read begins only while no writer holds or waits.                       *)
LEMMA ReadRefines ==
  ASSUME Inv, NEW t \in Reader, ReadStep(t)
  PROVE  Promise!Next \/ UNCHANGED <<side, queue>>
<1>0. t \in Thread
  BY DEF Thread
<1>1. CASE ReadEnter(t) \/ ReadWake(t)
  <2>1. pc[t] \in {"idle", "reader_waiting"} /\ TestRead(t)
    BY <1>1 DEF ReadEnter, ReadWake
  <2>2. CASE writer \/ waiting # 0
    <3>1. Become(t, "reader_waiting")
      BY <2>1, <2>2 DEF TestRead
    <3>2. side' = side
      BY <1>0, <2>1, <3>1, SideMoves DEF Place, side, Held
    <3>3. queue' = queue
      BY <1>0, <2>1, <3>1 DEF Inv, TypeOK, Become, queue, At
    <3> QED
      BY <3>2, <3>3
  <2>3. CASE ~writer /\ waiting = 0
    <3>1. Become(t, "reading")
      BY <2>1, <2>3 DEF TestRead
    <3>2. side' = [side EXCEPT ![t] = "reading"] /\ side[t] = "out"
      BY <1>0, <2>1, <3>1, SideMoves DEF Place, side, Held
    <3>3. queue = {} /\ queue' = queue
      <4>1. queue = {}
        BY <2>3, AtFinite, FS_EmptySet DEF Inv, CountersExact, queue
      <4>2. queue' = queue
        BY <1>0, <2>1, <3>1 DEF Inv, TypeOK, Become, queue, At
      <4> QED
        BY <4>1, <4>2
    <3>4. \A u \in Thread : side[u] # "writing"
      BY <2>3 DEF Inv, CountersExact, side, Held, At
    <3>5. Promise!StartRead(t)
      BY <3>2, <3>3, <3>4 DEF Promise!StartRead, Promise!Thread, Thread, side, queue
    <3> QED
      BY <3>5 DEF Promise!Next
  <2> QED
    BY <2>2, <2>3
<1>2. CASE ReadExit(t)
  <2>1. pc[t] = "reading" /\ Become(t, "idle")
    BY <1>2 DEF ReadExit
  <2>2. side' = [side EXCEPT ![t] = "out"] /\ side[t] # "out"
    BY <1>0, <2>1, SideMoves DEF Place, side, Held
  <2>3. queue' = queue
    BY <1>0, <2>1 DEF Inv, TypeOK, Become, queue, At
  <2>4. Promise!Finish(t)
    BY <2>2, <2>3 DEF Promise!Finish, side, queue
  <2> QED
    BY <1>0, <2>4 DEF Promise!Next, Promise!Thread, Thread
<1> QED
  BY <1>1, <1>2 DEF ReadStep

(* A writer queues, enters when everyone is out, or leaves.                 *)
LEMMA WriteRefines ==
  ASSUME Inv, NEW t \in Writer, WriteStep(t)
  PROVE  Promise!Next \/ UNCHANGED <<side, queue>>
<1>0. t \in Thread
  BY DEF Thread
<1>1. CASE WriteEnter(t) \/ WriteWake(t)
  <2>1. pc[t] \in {"idle", "writer_waiting"}
    BY <1>1 DEF WriteEnter, WriteWake
  <2>2. side[t] = "out"
    BY <1>0, <2>1 DEF side, Held
  <2>3. CASE writer \/ readers # 0
    <3>1. Become(t, "writer_waiting")
      BY <1>1, <2>3 DEF WriteEnter, WriteWake, TestWrite
    <3>2. side' = side
      BY <1>0, <2>2, <3>1, SideMoves DEF Place, side
    <3>3. queue' = queue \cup {t}
      BY <1>0, <2>1, <3>1 DEF Inv, TypeOK, Become, queue, At
    <3>4. Promise!AskWrite(t)
      BY <2>2, <3>2, <3>3 DEF Promise!AskWrite, side, queue
    <3> QED
      BY <3>4 DEF Promise!Next
  <2>4. CASE ~writer /\ readers = 0
    <3>1. Become(t, "writing")
      BY <1>1, <2>4 DEF WriteEnter, WriteWake, TestWrite
    <3>2. side' = [side EXCEPT ![t] = "writing"]
      BY <1>0, <3>1, SideMoves DEF Place
    <3>3. queue' = queue \ {t}
      BY <1>0, <2>1, <3>1 DEF Inv, TypeOK, Become, queue, At
    <3>4. \A u \in Thread : side[u] = "out"
      BY <2>4, NobodyReading DEF Inv, CountersExact, side, Held, At
    <3>5. Promise!StartWrite(t)
      BY <3>2, <3>3, <3>4 DEF Promise!StartWrite, Promise!Thread, Thread, side, queue
    <3> QED
      BY <3>5 DEF Promise!Next
  <2> QED
    BY <2>3, <2>4
<1>2. CASE WriteExit(t)
  <2>1. pc[t] = "writing" /\ Become(t, "idle")
    BY <1>2 DEF WriteExit
  <2>2. side' = [side EXCEPT ![t] = "out"] /\ side[t] # "out"
    BY <1>0, <2>1, SideMoves DEF Place, side, Held
  <2>3. queue' = queue
    BY <1>0, <2>1 DEF Inv, TypeOK, Become, queue, At
  <2>4. Promise!Finish(t)
    BY <2>2, <2>3 DEF Promise!Finish, side, queue
  <2> QED
    BY <1>0, <2>4 DEF Promise!Next, Promise!Thread, Thread
<1> QED
  BY <1>1, <1>2 DEF WriteStep

LEMMA StepRefines == Inv /\ [Next]_vars => [Promise!Next]_<<side, queue>>
<1> SUFFICES ASSUME Inv, [Next]_vars
             PROVE  Promise!Next \/ UNCHANGED <<side, queue>>
  OBVIOUS
<1>1. CASE UNCHANGED vars
  BY <1>1 DEF vars, side, queue, Held, At
<1> QED
  BY <1>1, ReadRefines, WriteRefines DEF Next

(* The lock is the abstract readers-writer lock: reads are shared, a writer *)
(* is alone, and no read begins while a write waits.                        *)
THEOREM Refinement == Spec => ImplementsReadersWriters
<1>1. [Promise!Next]_<<side, queue>> => [Promise!Next]_(Promise!abstractVars)
  BY DEF Promise!abstractVars, side, queue
<1> QED
  BY <1>1, InvAlways, InitRefines, StepRefines, PTL
     DEF Spec, ImplementsReadersWriters, Promise!Spec
=============================================================================
