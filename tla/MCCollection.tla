---------------------------- MODULE MCCollection ----------------------------
(* Collection for TLC: two ids, thresholds of a few slots, and batches that  *)
(* repeat an id.                                                             *)
EXTENDS CollectionInv

CONSTANTS a, b, v1, v2, f

Put(i, v, fields) == [id |-> i, rec |-> [val |-> v, meta |-> fields]]

Batches == {<<Put(a, v1, {})>>, <<Put(b, v1, {f})>>,
            <<Put(a, v1, {f}), Put(b, v2, {}), Put(a, v2, {})>>}

TinyBatches == {<<Put(a, v1, {})>>, <<Put(b, v1, {})>>, <<Put(b, v2, {})>>}
=============================================================================
