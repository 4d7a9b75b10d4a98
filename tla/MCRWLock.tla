------------------------------ MODULE MCRWLock ------------------------------
(* RWLock for TLC: a reader, a writer, and threads that are both, so that   *)
(* two writers can meet two readers and every order of wake-ups occurs.     *)
EXTENDS RWLock

CONSTANTS t1, t2, t3, t4

Readers == {t1, t2, t3}
Writers == {t2, t3, t4}
=============================================================================
