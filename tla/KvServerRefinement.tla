------------------------- MODULE KvServerRefinement -------------------------
(***************************************************************************)
(* The servers implement the map of KvMap for a client that uses them      *)
(* alone while none of them stops.                                         *)
(***************************************************************************)
EXTENDS KvServer

\* The server whose memory is the map: the one busy with a put, else any.
Current ==
  IF \E s \in Server : Busy(s) THEN CHOOSE s \in Server : Busy(s) ELSE 1

AbsMap == [k \in Key |-> mem[Current].kvs[k].v]

\* A put has taken effect once its server has stored it (insert, before sync_bidi).
AbsCall == [c \in Client |->
  IF req[c] = NoReq THEN [op |-> "none"]
  ELSE IF req[c].msg.op = "get" THEN [op |-> "get", k |-> req[c].msg.k]
  ELSE IF job[req[c].s].n = req[c].n THEN [op |-> "stored", old |-> job[req[c].s].old]
  ELSE [op |-> "put", k |-> req[c].msg.k, v |-> req[c].msg.v]]

Abs == INSTANCE KvMap WITH map <- AbsMap, call <- AbsCall, res <- res

\* Every behaviour of the servers is one of the abstract map: a get sees the last
\* put whatever server answers it, and a put returns the value it replaced
\* (lib739kv.h:17-26, basic_server.py:131-167).
ImplementsMap == Abs!Spec
=============================================================================
