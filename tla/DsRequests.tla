----------------------------- MODULE DsRequests -----------------------------
(***************************************************************************)
(* The requests of a DataStore or DataStoreClient object, the limits the   *)
(* C++ code puts on their texts, and what a request means for a table of   *)
(* rows (datastore.cpp, dsclient.cpp, the wrappers in kvs739.cpp).  A text *)
(* is an identity; what the code asks of it is its length, and whether it  *)
(* is clean, that is made of printable characters other than '[' and ']'.  *)
(***************************************************************************)
EXTENDS Integers

CONSTANTS Key,      \* keys of table data_store
          MetaKey,  \* keys of table data_store_meta, named apart from Key
          Value,    \* values offered to put and put_meta
          Length,   \* the length in bytes of each of these texts
          Dirty,    \* the texts among them that are not clean
          Stamp,    \* timestamps a caller of put passes; 0 when it passes none
          MaxTime,  \* bound: the operating system's clock reads 1..MaxTime
          MaxKey,   \* MAX_KEY_SIZE
          MaxValue  \* MAX_VALUE_SIZE

ASSUME DsAssumption ==
  /\ Length \in [Key \cup MetaKey \cup Value -> Nat]
  /\ Key \cap MetaKey = {}
  /\ Stamp \subseteq Int /\ MaxTime \in Nat
  /\ \A t \in Stamp : t <= MaxTime
  /\ MaxKey \in Nat \ {0} /\ MaxValue \in Nat \ {0}

NoCall == [op |-> "none"]
Reads == [op: {"get", "timestamp"}, k: Key] \cup [op: {"get_meta"}, k: MetaKey]
            \cup [op: {"first_timestamp", "last_timestamp"}]
\* A meta value of exactly MaxValue bytes is left out: get_meta lets it through
\* its length check and strcpy then writes one byte past the daemon's buffer.
Writes == [op: {"put"}, k: Key, v: Value, t: Stamp]
            \cup [op: {"put_meta"}, k: MetaKey, v: {v \in Value : Length[v] # MaxValue}]
Request == Reads \cup Writes

ValidKey(k) == Length[k] \in 1..MaxKey /\ k \notin Dirty
ValidValue(v) == Length[v] <= MaxValue /\ v \notin Dirty
ValidMetaKey(k) == Length[k] \in 1..(MaxKey - 1)

\* What DataStoreClient refuses before it opens a connection.
ClientRefuses(q) == \/ q.op \in {"get", "put"} /\ ~ValidKey(q.k)
                    \/ q.op = "put" /\ ~ValidValue(q.v)

\* What data_store refuses.  put_meta looks at the length of the key where it
\* means that of the value, so any value passes.
Refused(q) == \/ q.op = "timestamp" /\ ~ValidKey(q.k)
              \/ q.op \in {"get_meta", "put_meta"} /\ ~ValidMetaKey(q.k)
              \/ ClientRefuses(q)

Row == [v: Value, t: 0..MaxTime]
NoRow == [v |-> "none", t |-> -1]

\* The first row of the SELECT for q: none, or one of those that tie for it.
Selected(tbl, q) ==
  LET stored == {tbl[k] : k \in Key} \ {NoRow}
  IN  CASE q.op = "last_timestamp" -> {r \in stored : \A s \in stored : s.t <= r.t}
        [] q.op = "first_timestamp" -> {r \in stored : \A s \in stored : r.t <= s.t}
        [] OTHER -> {tbl[q.k]} \ {NoRow}

\* The rows REPLACE may store for q: without a timestamp the clock gives one.
\* Mutant of Written: the check for a missing timestamp is dropped.
WrittenAsGiven(q) == {[v |-> q.v, t |-> IF q.op = "put" THEN q.t ELSE 0]}
Written(q) ==
  {[v |-> q.v, t |-> t] : t \in IF q.op = "put_meta" THEN {0}
                                ELSE IF q.t <= 0 THEN 1..MaxTime ELSE {q.t}}

\* What a caller is told.
None == [kind |-> "none"]
Done == [kind |-> "done"]
Error == [kind |-> "error"]
Missing(q) == IF q.op \in {"get", "get_meta"} THEN [kind |-> "missing"]
              ELSE [kind |-> "time", t |-> -1]
\* The wrappers offer a buffer of MaxValue - 1 bytes, one less than put accepts.
Found(q, r) ==
  CASE q.op \notin {"get", "get_meta"} -> [kind |-> "time", t |-> r.t]
    [] Length[r.v] <= MaxValue - 1 -> [kind |-> "row", row |-> r]
    [] OTHER -> Error
Reply == {None, Done, Error, [kind |-> "missing"]}
           \cup [kind: {"row"}, row: Row] \cup [kind: {"time"}, t: -1..MaxTime]
=============================================================================
