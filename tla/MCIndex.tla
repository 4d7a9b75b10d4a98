------------------------------ MODULE MCIndex ------------------------------
(* Small instances of Index for TLC: who calls what, on which namespaces.   *)
EXTENDS Index

CONSTANTS c1, c2, a, b, v1, v2, f

R(v, fields) == [val |-> v, meta |-> fields]
Req(c, op, ns, recs) == [client |-> c, op |-> op, ns |-> ns, recs |-> recs]

OneNamespace == {1}
TwoNamespaces == {1, 2}

\* Two clients on one namespace, every operation, no deleteAll: batches,
\* overwrites, merges, deletes that find all, some or none of their ids.
SharedNamespace ==
  {Req(c1, "upsert", 1, a :> R(v1, {}) @@ b :> R(v1, {f})),
   Req(c1, "set_metadata", 1, a :> R(Null, {f})),
   Req(c1, "delete", 1, a :> Absent),
   Req(c2, "update", 1, a :> R(v2, {})),
   Req(c2, "delete", 1, a :> Absent @@ b :> Absent)}

\* Each namespace has one client, which deletes part of it or drops it and
\* fills it with other records.
OwnNamespaces ==
  {Req(c1, "upsert", 1, a :> R(v1, {}) @@ b :> R(v1, {f})),
   Req(c1, "delete", 1, a :> Absent),
   Req(c2, "upsert", 2, a :> R(v1, {})),
   Req(c2, "upsert", 2, b :> R(v1, {})),
   Req(c2, "delete_all", 2, <<>>)}

\* One client writes a namespace that another drops.
DropWhileWriting ==
  {Req(c1, "upsert", 1, a :> R(v1, {})), Req(c2, "delete_all", 1, <<>>)}

\* One client stores a vector whose float32 norm underflows to zero.
TinyVector == {Req(c1, "upsert", 1, a :> R(v1, {})), Req(c1, "upsert", 1, a :> R(v2, {}))}

\* Two namespaces, one client each.
TwoWriters == {Req(c1, "upsert", 1, a :> R(v1, {})), Req(c2, "upsert", 2, a :> R(v1, {}))}

\* One client empties a namespace and fills it again, beside another one.
EmptyAndRefill ==
  {Req(c1, "upsert", 1, a :> R(v1, {})), Req(c1, "upsert", 1, b :> R(v1, {})),
   Req(c1, "delete", 1, a :> Absent), Req(c1, "upsert", 2, a :> R(v1, {}))}
=============================================================================
