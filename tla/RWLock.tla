------------------------------- MODULE RWLock -------------------------------
(***************************************************************************)
(* needledb/core/rwlock.py: one Condition around three counters.  Every    *)
(* `with self._cond` block runs under the condition's mutex, so each block  *)
(* is one action; wait() puts the thread in the wait set, notify_all()      *)
(* empties it, and a notified thread tests the loop condition again only    *)
(* when it gets the mutex back -- other threads may run first.              *)
(***************************************************************************)
EXTENDS Integers, FiniteSets

CONSTANTS Reader,   \* threads that call read()
          Writer    \* threads that call write(); a thread may be in both sets

ASSUME ThreadsFinite == IsFiniteSet(Reader) /\ IsFiniteSet(Writer)

Thread == Reader \cup Writer

VARIABLES readers,   \* _readers
          writer,    \* _writer
          waiting,   \* _waiting_writers
          asleep,    \* the condition's wait set
          pc         \* where each thread is in read() or write()

vars == <<readers, writer, waiting, asleep, pc>>

Init == /\ readers = 0
        /\ writer = FALSE
        /\ waiting = 0
        /\ asleep = {}
        /\ pc = [t \in Thread |-> "idle"]

Become(t, place) == pc' = [pc EXCEPT ![t] = place]

(* The wait loop of read(): sleep while a writer holds or waits.           *)
TestReadUncounted(t) ==                               \* mutant of TestRead
  /\ ~writer /\ waiting = 0
  /\ Become(t, "reading")
  /\ UNCHANGED <<readers, writer, waiting, asleep>>
TestReadBarging(t) ==                                 \* mutant of TestRead
  IF writer
  THEN /\ Become(t, "reader_waiting")
       /\ asleep' = asleep \cup {t}
       /\ UNCHANGED <<readers, writer, waiting>>
  ELSE /\ Become(t, "reading")
       /\ readers' = readers + 1
       /\ UNCHANGED <<writer, waiting, asleep>>
TestRead(t) ==
  IF writer \/ waiting # 0
  THEN /\ Become(t, "reader_waiting")
       /\ asleep' = asleep \cup {t}
       /\ UNCHANGED <<readers, writer, waiting>>
  ELSE /\ Become(t, "reading")
       /\ readers' = readers + 1
       /\ UNCHANGED <<writer, waiting, asleep>>

ReadEnter(t) == pc[t] = "idle" /\ TestRead(t)

ReadWake(t) == pc[t] = "reader_waiting" /\ t \notin asleep /\ TestRead(t)

ReadExitSilent(t) == /\ pc[t] = "reading"              \* mutant of ReadExit
                     /\ Become(t, "idle")
                     /\ readers' = readers - 1
                     /\ UNCHANGED <<writer, waiting, asleep>>
ReadExit(t) == /\ pc[t] = "reading"
               /\ Become(t, "idle")
               /\ readers' = readers - 1
               /\ asleep' = IF readers' = 0 THEN {} ELSE asleep
               /\ UNCHANGED <<writer, waiting>>

(* The wait loop of write(), with `queued` writers counted in              *)
(* _waiting_writers when the test is made.                                 *)
TestWriteLeaking(t, queued) ==                        \* mutant of TestWrite
  /\ ~writer /\ readers = 0
  /\ Become(t, "writing")
  /\ waiting' = queued
  /\ writer' = TRUE
  /\ UNCHANGED <<readers, asleep>>
TestWriteBarging(t, queued) ==                        \* mutant of TestWrite
  IF writer
  THEN /\ Become(t, "writer_waiting")
       /\ asleep' = asleep \cup {t}
       /\ waiting' = queued
       /\ UNCHANGED <<readers, writer>>
  ELSE /\ Become(t, "writing")
       /\ waiting' = queued - 1
       /\ writer' = TRUE
       /\ UNCHANGED <<readers, asleep>>
TestWrite(t, queued) ==
  IF writer \/ readers # 0
  THEN /\ Become(t, "writer_waiting")
       /\ asleep' = asleep \cup {t}
       /\ waiting' = queued
       /\ UNCHANGED <<readers, writer>>
  ELSE /\ Become(t, "writing")
       /\ waiting' = queued - 1
       /\ writer' = TRUE
       /\ UNCHANGED <<readers, asleep>>

WriteEnter(t) == pc[t] = "idle" /\ TestWrite(t, waiting + 1)

WriteWake(t) == /\ pc[t] = "writer_waiting"
                /\ t \notin asleep
                /\ TestWrite(t, waiting)

WriteExit(t) == /\ pc[t] = "writing"
                /\ Become(t, "idle")
                /\ writer' = FALSE
                /\ asleep' = {}
                /\ UNCHANGED <<readers, waiting>>

ReadStep(t) == ReadEnter(t) \/ ReadWake(t) \/ ReadExit(t)
WriteStep(t) == WriteEnter(t) \/ WriteWake(t) \/ WriteExit(t)

Next == (\E t \in Reader : ReadStep(t)) \/ (\E t \in Writer : WriteStep(t))

(* Threads call the lock when they like, but one that is inside it runs     *)
(* on: a woken thread gets the mutex, a holder leaves its with block.       *)
Fairness == /\ \A t \in Reader : WF_vars(ReadWake(t)) /\ WF_vars(ReadExit(t))
            /\ \A t \in Writer : WF_vars(WriteWake(t)) /\ WF_vars(WriteExit(t))

Spec == Init /\ [][Next]_vars
FairSpec == Spec /\ Fairness

-----------------------------------------------------------------------------
Place == {"idle", "reader_waiting", "reading", "writer_waiting", "writing"}

(* The counters count, the wait set holds threads that called wait().      *)
TypeOK == /\ readers \in Nat
          /\ writer \in BOOLEAN
          /\ waiting \in Nat
          /\ pc \in [Thread -> Place]
          /\ asleep \subseteq
               {t \in Thread : pc[t] \in {"reader_waiting", "writer_waiting"}}

At(place) == {t \in Thread : pc[t] = place}

(* The three counters of the lock always say who is inside: a leaked count *)
(* would block every later writer or let one in beside a reader.           *)
CountersExact == /\ readers = Cardinality(At("reading"))
                 /\ waiting = Cardinality(At("writer_waiting"))
                 /\ writer = (At("writing") # {})

(* A writer is alone with the collection: no second writer, no reader.     *)
Exclusion == \A t \in At("writing"), u \in Thread :
                u # t => pc[u] \notin {"reading", "writing"}

(* No wake-up is lost: a thread sleeps in wait() only while its loop        *)
(* condition is true, so whoever makes it false has notified it.           *)
NoLostWakeup == \A t \in asleep :
    /\ pc[t] = "reader_waiting" => writer \/ waiting # 0
    /\ pc[t] = "writer_waiting" => writer \/ readers # 0

(* rwlock.py:4 "a steady query load cannot starve an upsert": once a write  *)
(* waits, a writer is let in, whatever the readers do.  With one writer it  *)
(* is that one; which of several is not promised.                           *)
UpsertsNotStarved ==
    (\E t \in Writer : pc[t] = "writer_waiting")
      ~> (\E t \in Writer : pc[t] = "writing")

(* What callers see of the lock, and the abstract lock it implements.      *)
Held(t) == IF pc[t] \in {"reading", "writing"} THEN pc[t] ELSE "out"

Promise == INSTANCE ReadersWriters
             WITH side  <- [t \in Thread |-> Held(t)],
                  queue <- At("writer_waiting")

ImplementsReadersWriters == Promise!Spec
=============================================================================
