---------------------------- MODULE MCDataStore ----------------------------
\* Keys and values of up to 2 bytes, with a text on each side of every limit
\* the code checks.  The local caller and the first remote one write and read
\* both tables; the second remote caller only queues behind the first.
EXTENDS DataStore, TLC

MCLength == [s \in {"k", "m", "v"} |-> 1] @@ [s \in {"kk", "mm", "vv"} |-> 2] @@ ("vvv" :> 3)
Of(ops, keys) == {q \in Reads : q.op \in ops /\ ("k" \in DOMAIN q => q.k \in keys)}
Put(k, v, t) == [op |-> "put", k |-> k, v |-> v, t |-> t]
PutMeta(k, v) == [op |-> "put_meta", k |-> k, v |-> v]
MCAsks ==
  "l1" :> {Put("k", "v", 0), Put("k", "vv", 1), Put("k", "vvv", 0), Put("kk", "v", 1),
           PutMeta("m", "vvv"), PutMeta("mm", "v")}
          \cup Of({"get", "get_meta"}, {"k", "m", "mm"})
          \cup Of({"timestamp", "first_timestamp", "last_timestamp"}, {"kk"}) @@
  "r1" :> {Put("k", "v", 1), Put("k", "vvv", 1), PutMeta("mm", "v")}
          \cup Of({"get"}, {"k"}) @@
  "r2" :> Of({"get"}, {"k"})
=============================================================================
