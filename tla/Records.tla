------------------------------ MODULE Records ------------------------------
(***************************************************************************)
(* The data of one index.  A record is a vector and a set of metadata       *)
(* fields; a vector is one of a few values, metadata the set of fields that *)
(* are present, so that merging metadata differs from replacing it.         *)
(* A row is what the SQLite table `records` holds for one primary key.      *)
(***************************************************************************)
EXTENDS Integers, FiniteSets, Sequences, TLC

CONSTANTS Ns,      \* namespaces of the index
          Id,      \* record ids
          Val,     \* vectors
          Field,   \* metadata fields
          Null     \* no vector: the vals column of a delete marker

ASSUME NullIsNoVector == Null \notin Val

Rec == [val : Val, meta : SUBSET Field]
Absent == [val |-> Null, meta |-> {}]

(* A namespace as its readers see it: a record or Absent for every id.      *)
Contents == [Id -> Rec \cup {Absent}]
Empty == [i \in Id |-> Absent]
Present(contents) == {i \in Id : contents[i] # Absent}

(* A partial set of changes laid over a namespace.                          *)
Overlay(recs, contents) ==
  [i \in Id |-> IF i \in DOMAIN recs THEN recs[i] ELSE contents[i]]

(* What updating record `old` to `new` gives: metadata is merged, and a     *)
(* missing vector keeps the old one.                                        *)
Merged(old, new) == [val  |-> IF new.val = Null THEN old.val ELSE new.val,
                     meta |-> old.meta \cup new.meta]

Row == [val : Val \cup {Null}, meta : SUBSET Field, seq : Nat, deleted : BOOLEAN]

(* A key with no row; sequence numbers of real rows start at 1.             *)
NoRow == [val |-> Null, meta |-> {}, seq |-> 0, deleted |-> TRUE]

(* The live records among the rows of a namespace.                          *)
LiveRow(row) == IF row.deleted THEN Absent
                ELSE [val |-> row.val, meta |-> row.meta]
Live(table) == [i \in Id |-> LiveRow(table[i])]
=============================================================================
