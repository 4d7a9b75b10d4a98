--------------------------- MODULE ReadersWriters ---------------------------
(***************************************************************************)
(* What needledb/core/rwlock.py promises its callers, without saying how: *)
(* any number of threads share the read side, a writer is alone, and a    *)
(* read does not begin while a writer is waiting.  RWLock implements it.   *)
(***************************************************************************)
CONSTANTS Reader,   \* the threads that take the read side (queries, snapshots)
          Writer    \* the threads that take the write side (upserts, rebuilds)

Thread == Reader \cup Writer

VARIABLES side,     \* side[t]: what t holds, "out", "reading" or "writing"
          queue     \* the writers that asked and do not hold the lock yet

abstractVars == <<side, queue>>

Init == /\ side = [t \in Thread |-> "out"]
        /\ queue = {}

StartRead(t) == /\ side[t] = "out"
                /\ queue = {}
                /\ \A u \in Thread : side[u] # "writing"
                /\ side' = [side EXCEPT ![t] = "reading"]
                /\ UNCHANGED queue

AskWrite(t) == /\ side[t] = "out"
               /\ queue' = queue \cup {t}
               /\ UNCHANGED side

StartWrite(t) == /\ \A u \in Thread : side[u] = "out"
                 /\ side' = [side EXCEPT ![t] = "writing"]
                 /\ queue' = queue \ {t}

Finish(t) == /\ side[t] # "out"
             /\ side' = [side EXCEPT ![t] = "out"]
             /\ UNCHANGED queue

Next == \/ \E t \in Reader : StartRead(t)
        \/ \E t \in Writer : AskWrite(t) \/ StartWrite(t)
        \/ \E t \in Thread : Finish(t)

Spec == Init /\ [][Next]_abstractVars
=============================================================================
