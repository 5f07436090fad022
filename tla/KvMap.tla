------------------------------- MODULE KvMap -------------------------------
(***************************************************************************)
(* What the replicated store promises a client that uses it alone: one     *)
(* map, whatever server answers.  A put takes effect at one instant        *)
(* between its call and its return and returns the value it replaced; a    *)
(* get returns the value the map holds (lib739kv.h:17-26, kvlib.py:84-145). *)
(***************************************************************************)
CONSTANTS Client, Key, Value, NoValue

VARIABLES map,   \* the value of each key, NoValue when it has none
          call,  \* the call each client has under way
          res    \* what each client's last call returned

vars == <<map, call, res>>

NoCall == [op |-> "none"]
NoRes == [ok |-> FALSE, val |-> NoValue]
Maybe == Value \cup {NoValue}
Calls == {NoCall} \cup [op: {"get"}, k: Key] \cup [op: {"put"}, k: Key, v: Value]
            \cup [op: {"stored"}, old: Maybe]

TypeOK ==
  /\ map \in [Key -> Maybe]
  /\ call \in [Client -> Calls]
  /\ res \in [Client -> [ok: BOOLEAN, val: Maybe]]

Init ==
  /\ map = [k \in Key |-> NoValue]
  /\ call = [c \in Client |-> NoCall]
  /\ res = [c \in Client |-> NoRes]

Call(c) ==
  /\ call[c] = NoCall
  /\ \E k \in Key :
       \/ call' = [call EXCEPT ![c] = [op |-> "get", k |-> k]]
       \/ \E v \in Value : call' = [call EXCEPT ![c] = [op |-> "put", k |-> k, v |-> v]]
  /\ UNCHANGED <<map, res>>

\* The instant at which the put is visible to every later get.
PutEffect(c) ==
  /\ call[c].op = "put"
  /\ map' = [map EXCEPT ![call[c].k] = call[c].v]
  /\ call' = [call EXCEPT ![c] = [op |-> "stored", old |-> map[call[c].k]]]
  /\ UNCHANGED res

PutReturn(c) ==
  /\ call[c].op = "stored"
  /\ res' = [res EXCEPT ![c] = [ok |-> TRUE, val |-> call[c].old]]
  /\ call' = [call EXCEPT ![c] = NoCall]
  /\ UNCHANGED map

GetReturn(c) ==
  /\ call[c].op = "get"
  /\ res' = [res EXCEPT ![c] = [ok |-> TRUE, val |-> map[call[c].k]]]
  /\ call' = [call EXCEPT ![c] = NoCall]
  /\ UNCHANGED map

Next == \E c \in Client : Call(c) \/ PutEffect(c) \/ PutReturn(c) \/ GetReturn(c)

Spec == Init /\ [][Next]_vars
=============================================================================
