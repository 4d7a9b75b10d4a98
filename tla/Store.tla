------------------------------- MODULE Store -------------------------------
(***************************************************************************)
(* What an index promises its clients: a durable map per namespace, on      *)
(* which every write call takes effect once, atomically, between its call   *)
(* and its return -- or not at all, and then the caller hears of it.  A     *)
(* crash loses the calls in progress and nothing that took effect.          *)
(***************************************************************************)
EXTENDS Records

CONSTANTS Client, Request, None, Done,
          FailingOps   \* the operations that may report a storage error

VARIABLES data,    \* data[ns]: the contents of the namespace
          call,    \* call[c]: None, the request c waits for, or Done
          up       \* the index is open

storeVars == <<data, call, up>>

Init == /\ data = [ns \in Ns |-> Empty]
        /\ call = [c \in Client |-> None]
        /\ up = TRUE

Become(c, v) == call' = [call EXCEPT ![c] = v]

Ask(c) == /\ call[c] = None
          /\ \E r \in Request : r.client = c /\ Become(c, r)
          /\ up
          /\ UNCHANGED <<data, up>>

(* The records a request leaves behind, seen by the data it takes effect on.*)
Outcome(r) ==
  LET now == data[r.ns]
      ids == DOMAIN r.recs
  IN  CASE r.op = "upsert" -> Overlay(r.recs, now)
        [] r.op \in {"update", "set_metadata"} ->
             Overlay([i \in ids |-> Merged(now[i], r.recs[i])], now)
        [] r.op = "delete" -> Overlay([i \in ids |-> Absent], now)
        [] r.op = "delete_all" -> Empty

(* update raises NotFound, delete removes nothing: no named id is present.  *)
Pointless(r) == /\ r.op \in {"update", "set_metadata", "delete"}
                /\ DOMAIN r.recs \cap Present(data[r.ns]) = {}

TakeEffect(c) == /\ call[c] \notin {None, Done}
                 /\ ~Pointless(call[c])
                 /\ data' = [data EXCEPT ![call[c].ns] = Outcome(call[c])]
                 /\ Become(c, Done)
                 /\ UNCHANGED up

Refuse(c) == /\ call[c] \notin {None, Done}
             /\ Pointless(call[c])
             /\ Become(c, None)
             /\ UNCHANGED <<data, up>>

(* The storage reports an error and the call has had no effect.             *)
Fail(c) == /\ call[c] \notin {None, Done}
           /\ call[c].op \in FailingOps
           /\ Become(c, None)
           /\ UNCHANGED <<data, up>>

Return(c) == /\ call[c] = Done
             /\ Become(c, None)
             /\ UNCHANGED <<data, up>>

Crash == /\ up
         /\ up' = FALSE
         /\ call' = [c \in Client |-> None]
         /\ UNCHANGED data

Reopen == /\ ~up
          /\ up' = TRUE
          /\ UNCHANGED <<data, call>>

Next == \/ \E c \in Client : \/ Ask(c) \/ TakeEffect(c) \/ Refuse(c)
                             \/ Fail(c) \/ Return(c)
        \/ Crash \/ Reopen

Spec == Init /\ [][Next]_storeVars
=============================================================================
