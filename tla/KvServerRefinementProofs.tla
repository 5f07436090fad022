---------------------- MODULE KvServerRefinementProofs ----------------------
(***************************************************************************)
(* The servers of KvServer implement the map of KvMap for one client and   *)
(* no outage, for every number of servers, keys, values and calls: initial *)
(* states map to initial states, steps to steps of the map or to none.     *)
(***************************************************************************)
EXTENDS KvServerAloneProofs, KvServerRefinement

\* What a server is busy with is a put.
OnlyPuts == \A c \in Client : req[c] # NoReq /\ ~Calm => req[c].msg.op = "insert"

(***************************************************************************)
(* The mapping.                                                            *)
(***************************************************************************)

\* The memory of the busy server is the map; without one, that of every server.
LEMMA MapAt == IInv => \A s \in Server : Busy(s) \/ Calm => AbsMap = [k \in Key |-> mem[s].kvs[k].v]
<1> SUFFICES ASSUME IInv, NEW s \in Server, Busy(s) \/ Calm
             PROVE  mem[Current].kvs = mem[s].kvs
  BY DEF AbsMap
<1>1. CASE Busy(s)
  <2>1. \A p \in Server : Busy(p) => p = s
    BY <1>1 DEF IInv, Control, ControlOf
  <2>2. Current = s
    BY <1>1, <2>1 DEF Current
  <2> QED BY <2>2
<1>2. CASE Calm
  <2>1. Current = 1 /\ 1 \in Server
    BY <1>2, NServersAssumption DEF Current, Calm, Server
  <2> QED BY <1>2, <2>1 DEF IInv, Replicas, Same
<1> QED BY <1>1, <1>2

\* The same of the state after a step.
LEMMA MapAtNext ==
  IInv' => \A s \in Server : Busy(s)' \/ Calm' => AbsMap' = [k \in Key |-> mem'[s].kvs[k].v]
<1> SUFFICES ASSUME IInv', NEW s \in Server, Busy(s)' \/ Calm'
             PROVE  (mem[Current].kvs)' = mem'[s].kvs
  BY DEF AbsMap
<1>1. CASE Busy(s)'
  <2>1. \A p \in Server : Busy(p)' => p = s
    BY <1>1 DEF IInv, Control, ControlOf
  <2>2. Current' = s
    BY <1>1, <2>1 DEF Current
  <2> QED BY <2>2
<1>2. CASE Calm'
  <2>1. Current' = 1 /\ 1 \in Server
    BY <1>2, NServersAssumption DEF Current, Calm, Server
  <2> QED BY <1>2, <2>1 DEF IInv, Replicas, Same
<1> QED BY <1>1, <1>2

\* The client's call is the only message, or what the busy server is busy with.
LEMMA CallUnderWay ==
  ASSUME IInv, NEW c \in Client, req[c] # NoReq
  PROVE  /\ req[c] \in Request
         /\ Calm => OnlyMessage(req[c].s, req[c].msg)
         /\ \A s \in Server : Busy(s) => s = req[c].s /\ job[s] \in Job /\ job[s].n = req[c].n
<1>1. req[c] \in Request /\ Pending(c)
  BY DEF IInv, TypeOK, Control
<1>2. ASSUME Calm PROVE OnlyMessage(req[c].s, req[c].msg)
  <2>1. job[req[c].s].n # req[c].n
    BY <1>1, <1>2, Jobs DEF Calm, Request, IInv
  <2>2. PICK i \in DOMAIN backlog[req[c].s] : backlog[req[c].s][i] = req[c].msg
    BY <1>1, <2>1 DEF Pending
  <2>3. PICK s \in Server : OnlyMessage(s, Head(backlog[s]))
    BY <1>1, <1>2, <2>2 DEF IInv, Control, Silent, Request
  <2> QED BY <1>1, <2>2, <2>3 DEF OnlyMessage, Request
<1>3. ASSUME NEW s \in Server, Busy(s)
      PROVE  s = req[c].s /\ job[s] \in Job /\ job[s].n = req[c].n
  <2>1. ControlOf(s) /\ \A p \in Server \ {s} : ~Busy(p)
    BY <1>3 DEF IInv, Control, ControlOf
  <2>2. ASSUME NEW p \in Server, NEW i \in DOMAIN backlog[p] PROVE backlog[p][i] \notin CallMsg
    <3>1. backlog[p] = <<UpdateOf(s)>>
      BY <1>3, <2>1, <2>2 DEF ControlOf, Busy, Silent, OnlyMessage
    <3> QED BY <2>2, <3>1 DEF UpdateOf, CallMsg
  <2>3. job[req[c].s].n = req[c].n
    BY <1>1, <2>2 DEF Pending, Request
  <2>4. Busy(req[c].s)
    BY <1>1, <2>3, Jobs DEF IInv, Request
  <2> QED BY <1>1, <1>3, <2>1, <2>3, <2>4, Jobs DEF IInv, Request
<1> QED BY <1>1, <1>2, <1>3

(***************************************************************************)
(* The steps of the servers as steps of the map.                           *)
(***************************************************************************)

LEMMA OnlyPutsInit == Init => OnlyPuts
BY DEF Init, OnlyPuts

\* A call begins: the map's client calls too.
LEMMA CallMaps ==
  ASSUME Alone, IInv, NEW c \in Client, Put(c) \/ Get(c)
  PROVE  Abs!Call(c)
<1>1. PICK s \in Server, k \in Key, msg \in CallMsg :
        /\ ClientCall(c, s, msg) /\ msg.k = k /\ msg.n = nreq + 1
        /\ msg.op \in {"insert", "get"}
  <2>1. nreq + 1 \in Nat \ {0}
    BY DEF IInv, TypeOK
  <2>2. CASE Put(c)
    <3>1. PICK s \in Server, k \in Key, v \in Value :
            ClientCall(c, s, [op |-> "insert", c |-> c, n |-> nreq + 1, k |-> k, v |-> v])
      BY <2>2 DEF Put
    <3>2. [op |-> "insert", c |-> c, n |-> nreq + 1, k |-> k, v |-> v] \in CallMsg
      BY <2>1 DEF CallMsg
    <3> QED BY <3>1, <3>2
  <2>3. CASE Get(c)
    <3>1. PICK s \in Server, k \in Key :
            ClientCall(c, s, [op |-> "get", c |-> c, n |-> nreq + 1, k |-> k])
      BY <2>3 DEF Get
    <3>2. [op |-> "get", c |-> c, n |-> nreq + 1, k |-> k] \in CallMsg
      BY <2>1 DEF CallMsg
    <3> QED BY <3>1, <3>2
  <2> QED BY <2>2, <2>3
<1>2. /\ req[c] = NoReq /\ Calm /\ \A d \in Client : d = c
      /\ req' = [req EXCEPT ![c] = [n |-> nreq + 1, s |-> s, msg |-> msg]]
      /\ UNCHANGED <<phase, mem, job, res>>
  BY <1>1 DEF ClientCall, IInv, Control, Alone
<1>3. job[s].n # nreq + 1
  BY <1>2, Jobs DEF Calm, IInv, TypeOK
<1>4. UNCHANGED AbsMap
  BY <1>2 DEF AbsMap, Current, Busy
<1>5. req'[c] = [n |-> nreq + 1, s |-> s, msg |-> msg] /\ req'[c] # NoReq
  BY <1>2 DEF IInv, TypeOK, NoReq
<1>6. AbsCall = [d \in Client |-> [op |-> "none"]]
  BY <1>2 DEF AbsCall
<1>7. \A d \in Client : req'[d] # NoReq /\ req'[d].msg = msg /\ job'[req'[d].s].n # req'[d].n
  BY <1>2, <1>3, <1>5
<1>8. msg.op = "get" => AbsCall' = [d \in Client |-> [op |-> "get", k |-> k]]
  BY <1>1, <1>7 DEF AbsCall
<1>9. msg.op # "get" => /\ msg.v \in Value
                        /\ AbsCall' = [d \in Client |-> [op |-> "put", k |-> k, v |-> msg.v]]
  BY <1>1, <1>7 DEF AbsCall, CallMsg
<1>10. AbsCall[c] = [op |-> "none"]
  BY <1>6
<1>11. \/ AbsCall' = [AbsCall EXCEPT ![c] = [op |-> "get", k |-> k]]
       \/ \E v \in Value : AbsCall' = [AbsCall EXCEPT ![c] = [op |-> "put", k |-> k, v |-> v]]
  BY <1>2, <1>6, <1>8, <1>9
<1> QED BY <1>2, <1>4, <1>10, <1>11 DEF Abs!Call, Abs!NoCall

\* A get is answered with what the map holds.
LEMMA GetMaps ==
  ASSUME Alone, IInv, NEW s \in Server, HandleGet(s)
  PROVE  \E c \in Client : Abs!GetReturn(c)
<1> DEFINE msg == Head(backlog[s])
<1>1. /\ Calm /\ OnlyMessage(s, msg) /\ msg \in CallMsg /\ msg.op = "get"
      /\ \A c \in Client : req[c] # NoReq /\ req[c].n = msg.n /\ c = msg.c
  BY CallAlone DEF HandleGet, IInv, Accept
<1>2. msg.c \in Client /\ msg.k \in Key
  BY <1>1 DEF CallMsg
<1> DEFINE c == msg.c
           val == mem[s].kvs[msg.k].v
<1>3. /\ UNCHANGED <<phase, mem>>
      /\ Answer(c, msg.n, val)
  BY DEF HandleGet
<1> HIDE DEF msg, c, val
<1>4. req[c] # NoReq /\ req[c].n = msg.n /\ \A d \in Client : d = c
  BY <1>1, <1>2 DEF c
<1>5. OnlyMessage(req[c].s, req[c].msg) /\ req[c] \in Request
  BY <1>1, <1>2, <1>4, CallUnderWay
<1>6. req[c].msg = msg
  BY <1>1, <1>5 DEF OnlyMessage, Request
<1>7. AbsCall[c] = [op |-> "get", k |-> msg.k]
  BY <1>1, <1>2, <1>4, <1>6 DEF AbsCall
<1>8. req' = [req EXCEPT ![c] = NoReq] /\ res' = [res EXCEPT ![c] = [ok |-> TRUE, val |-> val]]
  BY <1>4, <1>3 DEF Answer
<1>9. UNCHANGED AbsMap
  BY <1>3 DEF AbsMap, Current, Busy
<1>10. AbsMap[msg.k] = val
  BY <1>1, <1>2, MapAt DEF val
<1>11. AbsCall' = [AbsCall EXCEPT ![c] = [op |-> "none"]]
  BY <1>4, <1>2, <1>8 DEF AbsCall, IInv, TypeOK
<1>12. Abs!GetReturn(c)
  <2>1. AbsCall[c].op = "get" /\ AbsMap[AbsCall[c].k] = val
    BY <1>7, <1>10
  <2>2. AbsCall' = [AbsCall EXCEPT ![c] = Abs!NoCall]
    BY <1>11 DEF Abs!NoCall
  <2>3. res' = [res EXCEPT ![c] = [ok |-> TRUE, val |-> AbsMap[AbsCall[c].k]]]
    BY <1>8, <2>1
  <2> QED BY <2>1, <2>2, <2>3, <1>9 DEF Abs!GetReturn
<1> QED BY <1>2, <1>12 DEF c

\* A put takes effect when its server stores it.
LEMMA InsertMaps ==
  ASSUME Alone, IInv, IInv', NEW s \in Server, HandleInsert(s)
  PROVE  \E c \in Client : Abs!PutEffect(c)
<1> DEFINE msg == Head(backlog[s])
<1>1. /\ Calm /\ OnlyMessage(s, msg) /\ msg \in CallMsg /\ msg.op = "insert"
      /\ \A c \in Client : req[c] # NoReq /\ req[c].n = msg.n /\ c = msg.c
  BY CallAlone DEF HandleInsert, IInv, Accept
<1>2. msg.c \in Client /\ msg.k \in Key /\ msg.v \in Value
  BY <1>1 DEF CallMsg
<1> DEFINE c == msg.c
<1>3. req[c] # NoReq /\ req[c].n = msg.n /\ \A d \in Client : d = c
  BY <1>1, <1>2
<1>4. OnlyMessage(req[c].s, req[c].msg) /\ req[c] \in Request
  BY <1>1, <1>2, <1>3, CallUnderWay
<1>5. req[c].msg = msg /\ req[c].s = s
  BY <1>1, <1>4 DEF OnlyMessage, Request
<1>6. job[s].n # msg.n
  BY <1>1, <1>3, <1>4, Jobs DEF Calm, IInv, Request
<1>7. AbsCall[c] = [op |-> "put", k |-> msg.k, v |-> msg.v]
  BY <1>1, <1>2, <1>3, <1>5, <1>6 DEF AbsCall
<1>8. PICK t \in InsertTimes(s) :
        /\ mem' = [mem EXCEPT ![s] = Insert(@, s, msg.k, msg.v, t)]
        /\ job' = [job EXCEPT ![s] =
             [n |-> msg.n, c |-> msg.c, k |-> msg.k, v |-> msg.v, t |-> t,
              old |-> mem[s].kvs[msg.k].v, peer |-> NextPeer(s, 0), reached |-> {}]]
  BY DEF HandleInsert
<1> HIDE DEF msg
<1>9. phase' = [phase EXCEPT ![s] = "send"] /\ UNCHANGED <<req, res>>
  BY DEF HandleInsert, clientVars
<1>10. job'[s].n = msg.n /\ job'[s].old = mem[s].kvs[msg.k].v
  BY <1>8 DEF IInv, TypeOK
<1>11. Busy(s)'
  BY <1>9 DEF Busy, IInv, TypeOK
<1>12. /\ AbsMap = [k \in Key |-> mem[s].kvs[k].v]
       /\ AbsMap' = [k \in Key |-> mem'[s].kvs[k].v]
  BY <1>1, <1>11, MapAt, MapAtNext
<1>13. mem'[s].kvs = [mem[s].kvs EXCEPT ![msg.k] = [v |-> msg.v, t |-> t]]
  BY <1>8 DEF Insert, IInv, TypeOK
<1>14. AbsMap' = [AbsMap EXCEPT ![msg.k] = msg.v]
  BY <1>2, <1>12, <1>13, MemType DEF IInv
<1>15. AbsCall' = [AbsCall EXCEPT ![c] = [op |-> "stored", old |-> AbsMap[msg.k]]]
  BY <1>1, <1>2, <1>3, <1>5, <1>9, <1>10, <1>12 DEF AbsCall
<1> HIDE DEF c
<1>16. Abs!PutEffect(c)
  <2>1. AbsCall[c].op = "put" /\ AbsCall[c].k = msg.k /\ AbsCall[c].v = msg.v
    BY <1>7
  <2> QED BY <2>1, <1>9, <1>14, <1>15 DEF Abs!PutEffect
<1> QED BY <1>2, <1>16 DEF c

\* The end of insert is the put's return, with the value that was replaced.
LEMMA FinishMaps ==
  ASSUME Alone, IInv, IInv', OnlyPuts, NEW s \in Server, FinishInsert(s)
  PROVE  \E c \in Client : Abs!PutReturn(c)
<1>1. Busy(s) /\ ~Calm /\ job[s] \in Job
  BY Jobs DEF FinishInsert, Busy, Calm, IInv
<1> DEFINE c == job[s].c
<1>2. c \in Client /\ \A d \in Client : d = c
  BY <1>1 DEF Job, Alone
<1>3. req[c] # NoReq
  BY <1>1, <1>2 DEF IInv, Control
<1>4. req[c] \in Request /\ req[c].s = s /\ req[c].n = job[s].n /\ req[c].msg.op = "insert"
  BY <1>1, <1>2, <1>3, CallUnderWay DEF OnlyPuts
<1>5. /\ phase' = [phase EXCEPT ![s] = "idle"] /\ UNCHANGED mem
      /\ Answer(c, job[s].n, job[s].old)
  BY DEF FinishInsert
<1> HIDE DEF c
<1>6. AbsCall[c] = [op |-> "stored", old |-> job[s].old]
  BY <1>2, <1>3, <1>4 DEF AbsCall
<1>7. /\ req' = [req EXCEPT ![c] = NoReq]
      /\ res' = [res EXCEPT ![c] = [ok |-> TRUE, val |-> job[s].old]]
  BY <1>4, <1>5 DEF Answer
<1>8. Calm'
  BY <1>1, <1>5 DEF Calm, Busy, IInv, TypeOK, Control, ControlOf
<1>9. UNCHANGED AbsMap
  BY <1>1, <1>5, <1>8, MapAt, MapAtNext
<1>10. AbsCall' = [AbsCall EXCEPT ![c] = [op |-> "none"]]
  <2>1. req'[c] = NoReq
    BY <1>2, <1>7 DEF IInv, TypeOK
  <2> QED BY <1>2, <2>1 DEF AbsCall
<1>11. Abs!PutReturn(c)
  <2>1. AbsCall[c].op = "stored" /\ AbsCall[c].old = job[s].old
    BY <1>6
  <2> QED BY <2>1, <1>7, <1>9, <1>10 DEF Abs!PutReturn, Abs!NoCall
<1> QED BY <1>2, <1>11

\* While a put is synchronised the map stands still: of the busy server's entries
\* none changes, and its job keeps the call it is for.
LEMMA SyncMaps ==
  ASSUME IInv, IInv', NEW s \in Server,
         SyncConnect(s) \/ SyncSend(s) \/ HandleUpdate(s) \/ SyncReply(s)
  PROVE  UNCHANGED Abs!vars /\ UNCHANGED req /\ ~Calm
<1>1. /\ UNCHANGED <<req, res>>
      /\ \A p \in Server : job'[p].n = job[p].n /\ job'[p].old = job[p].old
  <2>1. CASE SyncReply(s)
    <3>1. job[s] \in Job
      BY <2>1, Jobs DEF SyncReply, Busy, IInv
    <3>2. /\ job'[s].n = job[s].n /\ job'[s].old = job[s].old
          /\ \A p \in Server \ {s} : job'[p] = job[p]
      BY <2>1, <3>1 DEF SyncReply, IInv, TypeOK, Job
    <3> QED BY <2>1, <3>2 DEF SyncReply, clientVars
  <2>2. CASE SyncConnect(s) \/ SyncSend(s) \/ HandleUpdate(s)
    BY <2>2 DEF SyncConnect, SyncSend, HandleUpdate, clientVars
  <2> QED BY <2>1, <2>2
<1>2. UNCHANGED AbsCall
  <2>1. \A c \in Client : req[c] # NoReq => req[c].s \in Server
    BY DEF IInv, TypeOK, Request
  <2> QED BY <1>1, <2>1 DEF AbsCall
<1>3. PICK b \in Server : Busy(b) /\ Busy(b)' /\ mem'[b].kvs = mem[b].kvs
  <2>1. CASE SyncConnect(s) \/ SyncSend(s)
    BY <2>1 DEF SyncConnect, SyncSend, Busy, IInv, TypeOK
  <2>2. CASE SyncReply(s)
    <3>1. mem'[s].kvs = mem[s].kvs
      BY <2>2, StepReply
    <3> QED BY <2>2, <3>1 DEF SyncReply, Busy, IInv, TypeOK
  <2>3. CASE HandleUpdate(s)
    <3>1. PICK p \in Server : phase[p] = "wait" /\ p # s
      BY <2>3, UpdateAlone DEF HandleUpdate, IInv
    <3>2. mem'[p] = mem[p] /\ phase'[p] = phase[p]
      BY <2>3, <3>1 DEF HandleUpdate, IInv, TypeOK
    <3> QED BY <3>1, <3>2 DEF Busy
  <2> QED BY <2>1, <2>2, <2>3
<1>4. UNCHANGED AbsMap
  BY <1>3, MapAt, MapAtNext
<1>5. ~Calm
  BY <1>3 DEF Calm
<1> QED BY <1>1, <1>2, <1>4, <1>5 DEF Abs!vars

\* Every step of the servers is a step of the map or leaves it alone.
LEMMA StepMaps ==
  ASSUME Alone, IInv, IInv', OnlyPuts, Next
  PROVE  [Abs!Next]_(Abs!vars)
<1>1. ASSUME NEW c \in Client, ClientStep(c) PROVE [Abs!Next]_(Abs!vars)
  <2>1. Put(c) \/ Get(c)
    BY <1>1, Impossible DEF ClientStep, IInv
  <2> QED BY <2>1, CallMaps DEF Abs!Next
<1>2. ASSUME NEW s \in Server, ServerStep(s) PROVE [Abs!Next]_(Abs!vars)
  <2>1. CASE HandleGet(s)
    BY <2>1, GetMaps DEF Abs!Next
  <2>2. CASE HandleInsert(s)
    BY <2>2, InsertMaps DEF Abs!Next
  <2>3. CASE SyncConnect(s) \/ SyncSend(s) \/ HandleUpdate(s) \/ SyncReply(s)
    BY <2>3, SyncMaps
  <2>4. CASE FinishInsert(s)
    BY <2>4, FinishMaps DEF Abs!Next
  <2> QED BY <1>2, <2>1, <2>2, <2>3, <2>4, Impossible DEF ServerStep, IInv
<1>3. \A s \in Server : ~OutsideStep(s)
  BY Impossible DEF IInv
<1> QED BY <1>1, <1>2, <1>3 DEF Next

\* A server becomes busy with the client's put, and ends with the call.
LEMMA OnlyPutsStep ==
  ASSUME Alone, IInv, OnlyPuts, Next
  PROVE  OnlyPuts'
<1>1. ASSUME NEW c \in Client, ClientStep(c) PROVE Calm'
  <2>1. Put(c) \/ Get(c)
    BY <1>1, Impossible DEF ClientStep, IInv
  <2>2. req[c] = NoReq /\ UNCHANGED phase
    BY <2>1 DEF Put, Get, ClientCall
  <2> QED BY <2>2 DEF IInv, Control, Calm, Busy
<1>2. ASSUME NEW s \in Server, HandleInsert(s) PROVE OnlyPuts'
  <2>1. /\ Calm /\ OnlyMessage(s, Head(backlog[s])) /\ Head(backlog[s]).op = "insert"
    BY <1>2, CallAlone DEF HandleInsert, IInv, Accept
  <2>2. UNCHANGED req
    BY <1>2 DEF HandleInsert, clientVars
  <2>3. ASSUME NEW c \in Client, req[c] # NoReq PROVE req[c].msg.op = "insert"
    <3>1. OnlyMessage(req[c].s, req[c].msg) /\ req[c] \in Request
      BY <2>1, <2>3, CallUnderWay
    <3> QED BY <2>1, <3>1 DEF OnlyMessage, Request
  <2> QED BY <2>2, <2>3 DEF OnlyPuts
<1>3. ASSUME NEW s \in Server, HandleGet(s) PROVE Calm'
  <2>1. Calm /\ UNCHANGED phase
    BY <1>3, CallAlone DEF HandleGet, IInv
  <2> QED BY <2>1 DEF Calm, Busy
<1>4. ASSUME NEW s \in Server, FinishInsert(s) PROVE Calm'
  BY <1>4 DEF FinishInsert, Calm, Busy, IInv, TypeOK, Control, ControlOf
<1>5. ASSUME NEW s \in Server,
             SyncConnect(s) \/ SyncSend(s) \/ HandleUpdate(s) \/ SyncReply(s)
      PROVE  OnlyPuts'
  <2>1. UNCHANGED req /\ ~Calm
    <3>1. IInv'
      BY <1>5, AloneStep
    <3> QED BY <1>5, <3>1, SyncMaps
  <2> QED BY <2>1 DEF OnlyPuts
<1>6. Calm' => OnlyPuts'
  BY DEF OnlyPuts
<1> QED BY <1>1, <1>2, <1>3, <1>4, <1>5, <1>6, Impossible DEF Next, ServerStep, IInv

LEMMA InitMaps == Init => Abs!Init
<1> SUFFICES ASSUME Init PROVE Abs!Init
  OBVIOUS
<1>1. Calm /\ 1 \in Server
  BY NServersAssumption DEF Init, Calm, Busy, Server
<1>2. AbsMap = [k \in Key |-> mem[1].kvs[k].v]
  BY <1>1, AloneInit, MapAt
<1>3. AbsMap = [k \in Key |-> NoValue]
  BY <1>1, <1>2 DEF Init, Fresh, NoEntry
<1>4. AbsCall = [c \in Client |-> [op |-> "none"]]
  BY DEF Init, AbsCall
<1> QED BY <1>3, <1>4 DEF Init, Abs!Init, Abs!NoCall, Abs!NoRes

\* For a client that uses them alone while none stops, any number of servers are one
\* map: a put takes effect at one instant and returns what it replaced, a get returns
\* what the map holds, whatever server answers (lib739kv.h:17-26, basic_server.py:131-167).
THEOREM ServersImplementMap ==
  ASSUME Alone
  PROVE  Spec => ImplementsMap
<1>1. IInv /\ OnlyPuts /\ [Next]_vars => IInv' /\ OnlyPuts' /\ [Abs!Next]_(Abs!vars)
  <2> SUFFICES ASSUME IInv, OnlyPuts, [Next]_vars
               PROVE  IInv' /\ OnlyPuts' /\ [Abs!Next]_(Abs!vars)
    OBVIOUS
  <2>1. CASE Next
    BY <2>1, AloneStep, OnlyPutsStep, StepMaps
  <2>2. CASE UNCHANGED vars
    <3>1. IInv' /\ OnlyPuts'
      BY <2>2, AloneStutter DEF OnlyPuts, Calm, Busy, vars
    <3>2. UNCHANGED AbsMap
      BY <2>2 DEF AbsMap, Current, Busy, vars
    <3>3. UNCHANGED AbsCall
      BY <2>2 DEF AbsCall, vars
    <3> QED BY <2>2, <3>1, <3>2, <3>3 DEF Abs!vars, vars
  <2> QED BY <2>1, <2>2
<1> QED BY <1>1, AloneInit, OnlyPutsInit, InitMaps, PTL DEF Spec, ImplementsMap, Abs!Spec
=============================================================================
