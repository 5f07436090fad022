------------------------ MODULE KvServerAloneProofs ------------------------
(***************************************************************************)
(* With one client and no outage, the replicas of KvServer agree, for      *)
(* every number of servers, keys, values and calls.                        *)
(***************************************************************************)
EXTENDS KvServerProofs

(***************************************************************************)
(* Who can take a step.                                                    *)
(***************************************************************************)

\* An idle server has no job; a busy one has.
LEMMA Jobs ==
  ASSUME TypeOK, NEW s \in Server
  PROVE  /\ Busy(s) => job[s] \in Job
         /\ ~Busy(s) => job[s] = NoJob /\ job[s].n = 0
BY DEF TypeOK, Busy, NoJob

\* While a call waits in a backlog nothing else is under way.
LEMMA CallAlone ==
  ASSUME Alone, TypeOK, Control, NEW s \in Server, NEW op \in {"get", "insert"}, Accept(s, op)
  PROVE  /\ Calm /\ OnlyMessage(s, Head(backlog[s]))
         /\ Head(backlog[s]) \in CallMsg
         /\ \A c \in Client : /\ req[c] # NoReq /\ req[c].n = Head(backlog[s]).n
                              /\ c = Head(backlog[s]).c
<1> DEFINE msg == Head(backlog[s])
<1>1. backlog[s] # <<>> /\ msg.op = op
  BY DEF Accept
<1>2. msg \in CallMsg
  BY <1>1, HeadType DEF Msg, UpdateMsg
<1>3. Calm
  <2> SUFFICES ASSUME NEW p \in Server, Busy(p) PROVE FALSE
    BY DEF Calm
  <2>1. ControlOf(p)
    BY DEF Control
  <2>2. ~Silent
    BY <1>1 DEF Silent
  <2>3. job[p].peer \in Server /\ OnlyMessage(job[p].peer, UpdateOf(p))
    BY <2>1, <2>2 DEF ControlOf, Busy
  <2>4. backlog[s] = <<UpdateOf(p)>>
    BY <1>1, <2>3 DEF OnlyMessage
  <2> QED BY <1>1, <2>4 DEF UpdateOf
<1>4. OnlyMessage(s, msg)
  BY <1>1, <1>3 DEF Control, Silent, OnlyMessage
<1>5. ASSUME NEW c \in Client
      PROVE  req[c] # NoReq /\ req[c].n = msg.n /\ c = msg.c
  <2>1. req[c] # NoReq /\ Pending(c) /\ req[c].msg.n = req[c].n
    BY <1>1 DEF Control, Silent
  <2>2. req[c] \in Request
    BY <2>1 DEF TypeOK
  <2>3. PICK i \in DOMAIN backlog[req[c].s] : backlog[req[c].s][i] = req[c].msg
    BY <1>3, <2>1, <2>2, Jobs DEF Pending, Calm, Request
  <2>4. backlog[s] = <<msg>> /\ \A p \in Server \ {s} : backlog[p] = <<>>
    BY <1>4 DEF OnlyMessage
  <2>5. req[c].s = s /\ req[c].msg = msg
    BY <2>2, <2>3, <2>4 DEF Request
  <2> QED BY <1>2, <2>1, <2>5 DEF Alone, CallMsg
<1> QED BY <1>2, <1>3, <1>4, <1>5

\* An update that has been sent is that of the one busy server, which waits for it.
LEMMA UpdateAlone ==
  ASSUME TypeOK, Control, NEW s \in Server, Accept(s, "update"), IsSent(Head(backlog[s]))
  PROVE  \E p \in Server : /\ phase[p] = "wait" /\ inbox[p] = NoReply /\ job[p].peer = s /\ p # s
                           /\ OnlyMessage(s, UpdateOf(p)) /\ Head(backlog[s]) = UpdateOf(p)
<1>1. backlog[s] # <<>> /\ Head(backlog[s]).op = "update"
  BY DEF Accept
<1>2. ~Silent
  BY <1>1 DEF Silent
<1>3. ~Calm
  <2> SUFFICES ASSUME Calm PROVE FALSE
    OBVIOUS
  <2>1. PICK q \in Server : /\ OnlyMessage(q, Head(backlog[q]))
                            /\ Head(backlog[q]).op \in {"insert", "get"}
    BY <1>2 DEF Control
  <2>2. q = s
    BY <1>1, <2>1 DEF OnlyMessage
  <2> QED BY <1>1, <2>1, <2>2
<1>4. PICK p \in Server : Busy(p)
  BY <1>3 DEF Calm
<1>5. ControlOf(p)
  BY DEF Control
<1>6. /\ phase[p] \in {"linked", "wait"} /\ inbox[p] = NoReply
      /\ job[p].peer \in Server /\ job[p].peer # p /\ OnlyMessage(job[p].peer, UpdateOf(p))
  BY <1>2, <1>4, <1>5 DEF ControlOf, Busy
<1>7. job[p].peer = s
  BY <1>1, <1>6 DEF OnlyMessage
<1>8. Head(backlog[s]) = UpdateOf(p)
  BY <1>6, <1>7 DEF OnlyMessage
<1>9. phase[p] = "wait"
  BY <1>6, <1>8 DEF IsSent, UpdateOf
<1> QED BY <1>6, <1>7, <1>8, <1>9

\* No server is down, no connection is lost, no wait is in vain.
LEMMA Impossible ==
  ASSUME Alone, TypeOK, Control
  PROVE  /\ \A s \in Server : /\ ~SyncRefused(s) /\ ~SyncReset(s) /\ ~SyncTimeout(s)
                              /\ ~HandleShutdown(s) /\ ~StopClose(s) /\ ~OutsideStep(s)
         /\ \A c \in Client : ~ConnectRefused(c) /\ ~ClientReset(c) /\ ~ClientTimeout(c)
<1>1. \A s \in Server : IsUp(s) /\ phase[s] # "stopping"
  BY DEF Control, ControlOf, IsUp, Up
<1>2. ASSUME NEW s \in Server, backlog[s] # <<>>
      PROVE  Head(backlog[s]).op \in {"insert", "get", "update"}
  <2>1. CASE Calm
    BY <1>2, <2>1 DEF Control, Silent, OnlyMessage
  <2>2. ASSUME NEW p \in Server, Busy(p) PROVE Head(backlog[s]).op = "update"
    <3>1. ControlOf(p) /\ ~Silent
      BY <1>2 DEF Control, Silent
    <3>2. OnlyMessage(job[p].peer, UpdateOf(p))
      BY <2>2, <3>1 DEF ControlOf, Busy
    <3>3. backlog[s] = <<UpdateOf(p)>>
      BY <1>2, <3>2 DEF OnlyMessage
    <3> QED BY <3>3 DEF UpdateOf
  <2> QED BY <2>1, <2>2 DEF Calm
<1>3. ASSUME NEW s \in Server PROVE ~SyncReset(s)
  <2> SUFFICES ASSUME phase[s] \in {"linked", "wait"}, inbox[s] = NoReply PROVE AtPeer(s)
    BY DEF SyncReset
  <2>1. backlog[job[s].peer] = <<UpdateOf(s)>>
    BY DEF Control, ControlOf, OnlyMessage
  <2>2. 1 \in DOMAIN backlog[job[s].peer] /\ backlog[job[s].peer][1] = UpdateOf(s)
    BY <2>1
  <2> QED BY <2>2 DEF AtPeer, UpdateOf
<1>4. \A s \in Server : ~HandleShutdown(s) /\ ~Deaf(s)
  BY <1>2 DEF HandleShutdown, Accept, Deaf, Ended
<1>10. ASSUME NEW s \in Server, Stuck(s) PROVE FALSE
  <2>1. PICK S \in SUBSET Server :
          s \in S /\ \A p \in S : Deaf(p) \/ (Waits(p) /\ job[p].peer \in S)
    BY <1>10 DEF Stuck
  <2>2. \A p \in S : Busy(p) /\ job[p].peer \in S
    BY <1>4, <2>1 DEF Waits, Busy
  <2> QED BY <2>1, <2>2 DEF Control, ControlOf
<1>5. \A s \in Server : ~OutsideStep(s)
  BY <1>1 DEF OutsideStep, IdleTimeout, SendShutdown, Kill, Cut, CutClient, Restart, Outage, Alone
<1>6. \A s \in Server : ~SyncRefused(s)
  BY <1>1 DEF SyncRefused
<1>7. \A c \in Client : ~ConnectRefused(c) /\ ~ClientReset(c)
  BY <1>1 DEF ConnectRefused, ClientReset, Control
<1>8. \A c \in Client : ~ClientTimeout(c)
  BY <1>10 DEF ClientTimeout, TypeOK, Request
<1>9. \A s \in Server : ~SyncTimeout(s) /\ ~StopClose(s)
  BY <1>1, <1>10 DEF SyncTimeout, StopClose
<1> QED BY <1>3, <1>4, <1>5, <1>6, <1>7, <1>8, <1>9

(***************************************************************************)
(* The steps that leave the replicas alone.                                *)
(***************************************************************************)

LEMMA ReplicasUnchanged ==
  ASSUME Replicas, UNCHANGED <<mem, phase, job, inbox, clock>>
  PROVE  Replicas'
BY DEF Replicas, NotAhead, PutOf, AnswerTo, Same, ClockCovers, Calm, Busy, Done

LEMMA AppendToEmpty ==
  ASSUME Silent, TypeOK, NEW p \in Server, NEW msg \in Msg,
         backlog' = [backlog EXCEPT ![p] = Append(@, msg)]
  PROVE  backlog'[p] = <<msg>> /\ \A q \in Server \ {p} : backlog'[q] = <<>>
<1>1. Append(<<>>, msg) = <<msg>>
  OBVIOUS
<1> QED BY <1>1 DEF Silent, TypeOK

LEMMA StepCall ==
  ASSUME Alone, IInv, NEW c \in Client, Put(c) \/ Get(c)
  PROVE  Control' /\ Replicas'
<1>1. PICK s \in Server, msg \in CallMsg : ClientCall(c, s, msg) /\ msg.n = nreq + 1
  <2>1. nreq + 1 \in Nat \ {0}
    BY DEF IInv, TypeOK
  <2>2. \A k \in Key, v \in Value :
          [op |-> "insert", c |-> c, n |-> nreq + 1, k |-> k, v |-> v] \in CallMsg
    BY <2>1 DEF CallMsg
  <2>3. \A k \in Key : [op |-> "get", c |-> c, n |-> nreq + 1, k |-> k] \in CallMsg
    BY <2>1 DEF CallMsg
  <2>4. CASE Put(c)
    BY <2>2, <2>4 DEF Put
  <2>5. CASE Get(c)
    BY <2>3, <2>5 DEF Get
  <2> QED BY <2>4, <2>5
<1>2. req[c] = NoReq /\ Calm /\ Silent
  BY <1>1 DEF ClientCall, IInv, Control
<1>3. backlog'[s] = <<msg>> /\ \A p \in Server \ {s} : backlog'[p] = <<>>
  BY <1>1, <1>2, AppendToEmpty DEF ClientCall, IInv, Msg
<1>4. Head(backlog'[s]) = msg /\ msg.op \in {"insert", "get"}
  BY <1>3 DEF CallMsg
<1>5. UNCHANGED <<mem, phase, job, inbox, clock, epoch>>
  BY <1>1 DEF ClientCall, procVars
<1>6. Replicas'
  BY <1>5, ReplicasUnchanged DEF IInv
<1>7. \A p \in Server : ControlOf(p)'
  BY <1>2, <1>5 DEF IInv, Control, ControlOf, Calm, Busy
<1>8. (\E p \in Server : /\ backlog[p] # <<>> /\ OnlyMessage(p, Head(backlog[p]))
                        /\ Head(backlog[p]).op \in {"insert", "get"})'
  BY <1>3, <1>4 DEF OnlyMessage
<1>9. ASSUME NEW d \in Client
      PROVE  req'[d] # NoReq /\ Pending(d)' /\ req'[d].msg.n = req'[d].n
  <2>1. d = c
    BY DEF Alone
  <2>2. req'[d] = [n |-> nreq + 1, s |-> s, msg |-> msg]
    BY <1>1, <2>1 DEF ClientCall, IInv, TypeOK
  <2>3. 1 \in DOMAIN backlog'[s] /\ backlog'[s][1] = msg
    BY <1>3
  <2>4. Pending(d)'
    BY <2>2, <2>3 DEF Pending
  <2> QED BY <1>1, <2>2, <2>4 DEF NoReq, IInv, TypeOK
<1>10. Control'
  BY <1>7, <1>8, <1>9 DEF Control
<1> QED BY <1>6, <1>10

LEMMA StepGet ==
  ASSUME Alone, IInv, NEW s \in Server, HandleGet(s)
  PROVE  Control' /\ Replicas'
<1> DEFINE msg == Head(backlog[s])
<1>1. /\ Calm /\ OnlyMessage(s, msg)
      /\ \A c \in Client : req[c] # NoReq /\ req[c].n = msg.n /\ c = msg.c
  BY CallAlone DEF HandleGet, IInv
<1>2. Silent'
  BY <1>1 DEF HandleGet, OnlyMessage, Silent, IInv, TypeOK
<1>3. UNCHANGED <<mem, phase, job, inbox, clock>>
  BY DEF HandleGet
<1>4. Calm'
  BY <1>1, <1>3 DEF Calm, Busy
<1>5. \A c \in Client : req'[c] = NoReq
  BY <1>1 DEF HandleGet, Answer, IInv, TypeOK
<1>6. \A p \in Server : ControlOf(p)'
  BY <1>1, <1>3 DEF IInv, Control, ControlOf, Calm, Busy
<1>7. Control'
  BY <1>2, <1>4, <1>5, <1>6 DEF Control
<1> QED BY <1>3, <1>7, ReplicasUnchanged DEF IInv

\* Connecting and sending leave the replicas, and who has handled the put, as they are.
LEMMA StepOfSender ==
  ASSUME IInv, NEW s \in Server, Busy(s), inbox[s] = NoReply, phase[s] \in {"send", "linked"},
         NEW to \in {"linked", "wait"}, phase' = [phase EXCEPT ![s] = to],
         UNCHANGED <<mem, job, inbox, clock, epoch>>
  PROVE  Replicas' /\ \A p \in Server : Busy(p)' <=> Busy(p)
<1>1. \A p \in Server : Busy(p)' <=> Busy(p)
  BY DEF Busy, IInv, TypeOK
<1>2. \A q, p \in Server : Busy(q) => (Done(q, p)' <=> Done(q, p))
  BY DEF Done, IInv, TypeOK, Control, ControlOf, Busy
<1>3. \A p \in Server : PutOf(p)' /\ AnswerTo(p)'
  BY <1>1, <1>2 DEF IInv, Replicas, PutOf, AnswerTo
<1>4. Same'
  BY <1>1 DEF IInv, Replicas, Same, Calm
<1> QED BY <1>1, <1>3, <1>4 DEF IInv, Replicas, NotAhead, ClockCovers

LEMMA StepConnect ==
  ASSUME IInv, NEW s \in Server, SyncConnect(s)
  PROVE  Control' /\ Replicas'
<1>1. /\ phase[s] = "send" /\ Busy(s) /\ job[s].peer \in Server /\ job[s].peer # s
      /\ Silent /\ inbox[s] = NoReply
  BY DEF SyncConnect, IInv, Control, ControlOf, Busy
<1>2. /\ UNCHANGED <<mem, job, inbox, clock, epoch, req>>
      /\ phase' = [phase EXCEPT ![s] = "linked"]
  BY DEF SyncConnect, procVars, clientVars
<1>3. Replicas' /\ \A p \in Server : Busy(p)' <=> Busy(p)
  BY <1>1, <1>2, StepOfSender
<1>6. OnlyMessage(job[s].peer, UpdateOf(s))'
  <2>1. UpdateOf(s) \in Msg
    BY <1>1 DEF UpdateOf, Msg, UpdateMsg, Job, IInv, TypeOK, Busy
  <2>2. backlog' = [backlog EXCEPT ![job[s].peer] = Append(@, UpdateOf(s))]
    BY DEF SyncConnect
  <2>3. /\ backlog'[job[s].peer] = <<UpdateOf(s)>>
        /\ \A q \in Server \ {job[s].peer} : backlog'[q] = <<>>
    BY <1>1, <2>1, <2>2, AppendToEmpty DEF IInv
  <2> QED BY <1>2, <2>3 DEF OnlyMessage, UpdateOf
<1>7. \A p \in Server : ControlOf(p)'
  BY <1>1, <1>2, <1>3, <1>6 DEF IInv, TypeOK, Control, ControlOf, Busy
<1>8. ASSUME NEW c \in Client PROVE req'[c] # NoReq /\ Pending(c)' /\ req'[c].msg.n = req'[c].n
  <2>1. req[c] # NoReq /\ Pending(c) /\ req[c].msg.n = req[c].n
    BY <1>1 DEF IInv, Control, Calm
  <2>2. req[c] \in Request
    BY <2>1 DEF IInv, TypeOK
  <2>3. job[req[c].s].n = req[c].n
    BY <1>1, <2>1, <2>2 DEF Pending, Silent, Request
  <2> QED BY <1>2, <2>1, <2>3 DEF Pending
<1>9. ~Calm'
  BY <1>1, <1>3 DEF Calm
<1>10. Control'
  BY <1>7, <1>8, <1>9 DEF Control
<1> QED BY <1>3, <1>10

LEMMA StepSend ==
  ASSUME IInv, NEW s \in Server, SyncSend(s)
  PROVE  Control' /\ Replicas'
<1>1. /\ phase[s] = "linked" /\ Busy(s) /\ job[s].peer \in Server /\ job[s].peer # s
      /\ OnlyMessage(job[s].peer, UpdateOf(s)) /\ inbox[s] = NoReply
  <2>1. phase[s] = "linked" /\ backlog[job[s].peer] # <<>> /\ job[s].peer \in Server
    BY DEF SyncSend, AtPeer, IInv, TypeOK
  <2> QED BY <2>1 DEF IInv, Control, ControlOf, Busy, Silent
<1>2. /\ UNCHANGED <<mem, job, backlog, inbox, clock, epoch, req>>
      /\ phase' = [phase EXCEPT ![s] = "wait"]
  BY DEF SyncSend, procVars, clientVars
<1>3. Replicas' /\ \A p \in Server : Busy(p)' <=> Busy(p)
  BY <1>1, <1>2, StepOfSender
<1>4. OnlyMessage(job[s].peer, UpdateOf(s))'
  BY <1>1, <1>2 DEF OnlyMessage, UpdateOf
<1>5. \A p \in Server : ControlOf(p)'
  BY <1>1, <1>2, <1>3, <1>4 DEF IInv, TypeOK, Control, ControlOf, Busy
<1>6. ~Calm /\ ~Calm'
  BY <1>1, <1>3 DEF Calm
<1>7. \A c \in Client : Pending(c)' <=> Pending(c)
  BY <1>2 DEF Pending
<1>8. Control'
  BY <1>2, <1>5, <1>6, <1>7 DEF IInv, Control
<1> QED BY <1>3, <1>8

(***************************************************************************)
(* The steps of a put.                                                     *)
(***************************************************************************)

\* No server's entry becomes older in the step.
Grows == \A s \in Server, k \in Key :
  mem[s].kvs[k].t \in Nat /\ mem'[s].kvs[k].t \in Nat /\ mem'[s].kvs[k].t >= mem[s].kvs[k].t

\* Entries that agree on every key are the same kvs.
LEMMA SameFunction ==
  ASSUME NEW S, NEW T, NEW f \in [S -> T], NEW g \in [S -> T], \A x \in S : f[x] = g[x]
  PROVE  f = g
OBVIOUS

\* A server's memory by its parts.
LEMMA MemType ==
  ASSUME TypeOK, NEW s \in Server
  PROVE  /\ mem[s].kvs \in [Key -> MaybeEntry] /\ mem[s].su \in [Server -> Nat]
         /\ \A k \in Key : mem[s].kvs[k].t \in Nat
         /\ \A p \in Server : mem[s].su[p] \in Nat
<1>1. mem[s].kvs \in [Key -> MaybeEntry] /\ mem[s].su \in [Server -> Nat]
  BY DEF TypeOK, Memory
<1> QED BY <1>1, EntryType

LEMMA StepInsert ==
  ASSUME Alone, IInv, NEW s \in Server, HandleInsert(s)
  PROVE  Control' /\ Replicas' /\ Grows
<1> DEFINE msg == Head(backlog[s])
           k == msg.k
<1>1. /\ Calm /\ OnlyMessage(s, msg) /\ msg \in CallMsg /\ msg.op = "insert"
      /\ \A c \in Client : req[c] # NoReq /\ req[c].n = msg.n /\ c = msg.c
  BY CallAlone DEF HandleInsert, IInv, Accept
<1>2. k \in Key /\ msg.v \in Value
  BY <1>1 DEF CallMsg
<1>3. PICK t \in InsertTimes(s) :
        /\ mem' = [mem EXCEPT ![s] = Insert(@, s, msg.k, msg.v, t)]
        /\ job' = [job EXCEPT ![s] =
             [n |-> msg.n, c |-> msg.c, k |-> msg.k, v |-> msg.v, t |-> t,
              old |-> mem[s].kvs[msg.k].v, peer |-> NextPeer(s, 0), reached |-> {}]]
        /\ clock' = t
  BY DEF HandleInsert
<1>4. /\ phase' = [phase EXCEPT ![s] = "send"] /\ UNCHANGED <<inbox, req>>
      /\ backlog' = [backlog EXCEPT ![s] = Tail(@)]
  BY DEF HandleInsert, clientVars
<1> HIDE DEF msg
<1>5. clock \in Nat /\ t = clock + 1
  BY <1>1, Jobs DEF InsertTimes, Calm, IInv, TypeOK
<1>6. \A p \in Server : phase[p] = "idle" /\ inbox[p] = NoReply
  BY <1>1 DEF Calm, Busy, IInv, Control, ControlOf
<1>7. /\ phase'[s] = "send" /\ \A p \in Server \ {s} : phase'[p] = "idle"
      /\ \A p \in Server : inbox'[p] = NoReply
      /\ Busy(s)' /\ \A p \in Server \ {s} : ~Busy(p)'
  BY <1>4, <1>6 DEF IInv, TypeOK, Busy
<1>8. job'[s].t = t /\ job'[s].k = k /\ job'[s].v = msg.v /\ job'[s].n = msg.n /\ job'[s].peer = NextPeer(s, 0)
  BY <1>3 DEF IInv, TypeOK
<1>9. Silent'
  BY <1>1, <1>4 DEF OnlyMessage, Silent, IInv, TypeOK
<1>10. Control'
  <2>1. NextPeer(s, 0) # s
    BY NextPeerType, NServersAssumption
  <2>2. \A p \in Server : ControlOf(p)'
    BY <1>7, <1>8, <1>9, <2>1 DEF ControlOf
  <2>3. ASSUME NEW c \in Client PROVE req'[c] # NoReq /\ Pending(c)' /\ req'[c].msg.n = req'[c].n
    <3>1. req[c] \in Request /\ Pending(c) /\ req[c].msg.n = req[c].n /\ req[c].n = msg.n
      BY <1>1 DEF IInv, Control, TypeOK
    <3>2. PICK i \in DOMAIN backlog[req[c].s] : backlog[req[c].s][i] = req[c].msg
      BY <1>1, <3>1, Jobs DEF Pending, Calm, Request, IInv
    <3>3. req[c].s = s
      BY <1>1, <3>1, <3>2 DEF OnlyMessage, Request
    <3> QED BY <1>1, <1>4, <1>8, <3>1, <3>3 DEF Pending
  <2> QED BY <1>7, <2>2, <2>3 DEF Control, Calm
<1>11. /\ mem'[s].kvs = [mem[s].kvs EXCEPT ![k] = [v |-> msg.v, t |-> t]]
       /\ mem'[s].su = [mem[s].su EXCEPT ![s] = t]
       /\ \A p \in Server \ {s} : mem'[p] = mem[p]
  BY <1>3 DEF Insert, IInv, TypeOK
<1> HIDE DEF k
<1>12. /\ mem'[s].kvs[k] = [v |-> msg.v, t |-> t]
       /\ \A j \in Key \ {k} : mem'[s].kvs[j] = mem[s].kvs[j]
       /\ \A p \in Server \ {s} : mem'[s].su[p] = mem[s].su[p]
  BY <1>2, <1>11, MemType DEF IInv
<1>13. \A p, q \in Server : mem[p].kvs = mem[q].kvs
  BY <1>1 DEF IInv, Replicas, Same
<1>14. /\ \A p \in Server, j \in Key : mem[p].kvs[j].t \in Nat /\ mem[p].kvs[j].t < t
       /\ \A p, q \in Server : mem[p].su[q] \in Nat /\ (p # q => mem[p].su[q] < t)
  BY <1>5, MemType DEF IInv, Replicas, NotAhead
<1>15. NotAhead'
  BY <1>3, <1>5, <1>11, <1>12, <1>14 DEF NotAhead
<1>16. PutOf(s)'
  <2> SUFFICES ASSUME NEW p \in Server \ {s}
               PROVE  /\ \A j \in Key \ {k} : mem'[p].kvs[j] = mem'[s].kvs[j]
                      /\ \A q \in Server \ {s, p} : mem'[p].su[q] < clock'
                      /\ ~Done(s, p)' /\ mem'[p].kvs[k].t < clock' /\ mem'[p].su[s] < clock'
                      /\ mem'[s].su[p] < clock'
    BY <1>3, <1>8, <1>12 DEF PutOf
  <2>1. ~Done(s, p)'
    BY <1>7, <1>8 DEF Done, NextPeer, Server
  <2> QED BY <1>2, <1>3, <1>11, <1>12, <1>13, <1>14, <2>1
<1>17. \A p \in Server : PutOf(p)' /\ AnswerTo(p)'
  BY <1>7, <1>16 DEF PutOf, AnswerTo
<1>18. \A j \in Key : mem'[s].kvs[j].t = IF j = k THEN t ELSE mem[s].kvs[j].t
  BY <1>12
<1>19. ASSUME NEW q \in Server, NEW j \in Key
       PROVE  /\ mem[q].kvs[j].t \in Nat /\ mem'[q].kvs[j].t \in Nat
              /\ mem'[q].kvs[j].t >= mem[q].kvs[j].t
  <2>1. CASE q = s
    BY <1>5, <1>14, <1>18, <2>1
  <2>2. CASE q # s
    <3>1. mem'[q] = mem[q]
      BY <1>11, <2>2
    <3> QED BY <1>14, <3>1
  <2> QED BY <2>1, <2>2
<1>20. ASSUME NEW p \in Server, NEW q \in Server PROVE ClockCovers(p, q)'
  <2> SUFFICES ASSUME p # q, NEW j \in Key, mem'[p].kvs[j].t <= mem'[p].su[q]
               PROVE  mem'[q].kvs[j].t >= mem'[p].kvs[j].t
    BY <1>19 DEF ClockCovers
  <2>3. mem'[p].su[q] = mem[p].su[q] /\ mem[p].su[q] < t /\ mem[p].su[q] \in Nat
    <3>1. mem[p].su[q] < t /\ mem[p].su[q] \in Nat
      BY <1>14
    <3>2. CASE p = s
      BY <1>12, <3>1, <3>2
    <3>3. CASE p # s
      <4>1. mem'[p] = mem[p]
        BY <1>11, <3>3
      <4> QED BY <3>1, <4>1
    <3> QED BY <3>2, <3>3
  <2>4. mem'[p].kvs[j].t = mem[p].kvs[j].t
    <3>1. CASE p = s
      <4>1. mem'[p].kvs[j].t # t
        BY <1>5, <2>3
      <4> QED BY <1>18, <3>1, <4>1
    <3>2. CASE p # s
      <4>1. mem'[p] = mem[p]
        BY <1>11, <3>2
      <4> QED BY <4>1
    <3> QED BY <3>1, <3>2
  <2>5. mem[q].kvs[j].t >= mem[p].kvs[j].t
    BY <2>3, <2>4 DEF IInv, Replicas, ClockCovers
  <2> QED BY <1>14, <1>19, <2>4, <2>5
<1>21. Replicas'
  BY <1>7, <1>15, <1>17, <1>20 DEF Replicas, Same, Calm
<1> QED BY <1>10, <1>21, <1>19 DEF Grows

LEMMA StepFinish ==
  ASSUME Alone, IInv, NEW s \in Server, FinishInsert(s)
  PROVE  Control' /\ Replicas'
<1>1. /\ phase[s] = "send" /\ Busy(s) /\ job[s] \in Job /\ job[s].peer \notin Server
      /\ Silent /\ inbox[s] = NoReply /\ \A p \in Server \ {s} : ~Busy(p)
  BY Jobs DEF FinishInsert, IInv, Control, ControlOf, Busy
<1>2. UNCHANGED <<mem, inbox, clock, backlog>> /\ phase' = [phase EXCEPT ![s] = "idle"]
  BY DEF FinishInsert
<1>3. Calm' /\ Silent'
  BY <1>1, <1>2 DEF Calm, Busy, Silent, IInv, TypeOK
<1>4. \A p \in Server : ControlOf(p)'
  BY <1>1, <1>2, <1>3 DEF IInv, TypeOK, Control, ControlOf, Calm, Busy
<1>5. ASSUME NEW c \in Client PROVE req'[c] = NoReq
  <2>1. req[c] # NoReq /\ req[c] \in Request /\ Pending(c)
    BY <1>1 DEF IInv, TypeOK, Control, Calm
  <2>2. job[req[c].s].n = req[c].n /\ req[c].n # 0
    BY <1>1, <2>1 DEF Pending, Silent, Request
  <2>3. req[c].s = s
    BY <1>1, <2>1, <2>2, Jobs DEF Request, IInv
  <2>4. job[s].c = c
    BY <1>1 DEF Job, Alone
  <2> QED BY <2>2, <2>3, <2>4 DEF FinishInsert, Answer, IInv, TypeOK
<1>6. Control'
  BY <1>3, <1>4, <1>5 DEF Control
<1>7. ASSUME NEW p \in Server PROVE mem[p].kvs = mem[s].kvs
  <2>1. CASE p = s
    BY <2>1
  <2>2. CASE p # s
    <3>1. job[s].peer = NServers + 1 /\ p < job[s].peer
      BY <1>1, NServersAssumption DEF Job, Server
    <3>2. Done(s, p)
      BY <3>1 DEF Done
    <3>3. job[s].k \in Key /\ \A k \in Key : mem[p].kvs[k] = mem[s].kvs[k]
      BY <1>1, <2>2, <3>2 DEF IInv, Replicas, PutOf, Job
    <3> QED BY <3>3, MemType DEF IInv
  <2> QED BY <2>1, <2>2
<1>8. Same'
  BY <1>2, <1>7 DEF Same
<1>9. \A p \in Server : PutOf(p)' /\ AnswerTo(p)'
  <2>1. \A p \in Server : inbox[p] = NoReply
    BY <1>1 DEF IInv, Control, ControlOf, Busy
  <2> QED BY <1>2, <1>3, <2>1 DEF PutOf, AnswerTo, Calm
<1>10. Replicas'
  BY <1>2, <1>8, <1>9 DEF IInv, Replicas, NotAhead, ClockCovers
<1> QED BY <1>6, <1>10

\* The answer of a server that lacked the put of p, and what it has afterwards.
LEMMA StepUpdate ==
  ASSUME IInv, NEW s \in Server, HandleUpdate(s)
  PROVE  Control' /\ Replicas' /\ Grows
<1>1. PICK p \in Server :
        /\ phase[p] = "wait" /\ inbox[p] = NoReply /\ job[p].peer = s /\ p # s
        /\ OnlyMessage(s, UpdateOf(p)) /\ Head(backlog[s]) = UpdateOf(p)
  BY UpdateAlone DEF HandleUpdate, IInv
<1> DEFINE msg == UpdateOf(p)
           k == job[p].k
           answer == ReceiveReply(mem[s], msg)
<1>2. /\ Busy(p) /\ job[p] \in Job /\ \A q \in Server \ {p} : ~Busy(q) /\ inbox[q] = NoReply
      /\ phase[s] = "idle"
  BY <1>1, Jobs DEF IInv, Control, ControlOf, Busy
<1>3. /\ msg \in UpdateMsg /\ msg.from = p /\ msg.e = epoch[p] /\ msg.k = k /\ msg.v = job[p].v
      /\ msg.t = clock /\ k \in Key /\ clock \in Nat \ {0}
  BY <1>2 DEF UpdateOf, UpdateMsg, Job, IInv, TypeOK, Replicas, PutOf
<1> HIDE DEF msg
<1>4. /\ mem' = [mem EXCEPT ![s] = Receive(@, msg)]
      /\ inbox' = [inbox EXCEPT ![p] = [e |-> epoch[s], replay |-> answer]]
      /\ backlog' = [backlog EXCEPT ![s] = Tail(@)]
      /\ UNCHANGED <<phase, job, clock, epoch, req>>
  BY <1>1, <1>3 DEF HandleUpdate, procVars, clientVars, msg
<1>5. inbox'[p] = [e |-> epoch[s], replay |-> answer] /\ inbox'[p] # NoReply
      /\ \A q \in Server \ {p} : inbox'[q] = NoReply
  BY <1>2, <1>4 DEF IInv, TypeOK, NoReply
<1>6. Silent'
  BY <1>1, <1>4 DEF OnlyMessage, Silent, IInv, TypeOK
<1>7. \A q \in Server : Busy(q)' <=> Busy(q)
  BY <1>4 DEF Busy
<1>8. Control'
  <2>1. \A q \in Server : ControlOf(q)'
    BY <1>1, <1>2, <1>4, <1>5, <1>6, <1>7 DEF IInv, Control, ControlOf, Busy
  <2>2. ASSUME NEW c \in Client PROVE req'[c] # NoReq /\ Pending(c)' /\ req'[c].msg.n = req'[c].n
    <3>1. req[c] \in Request /\ req[c] # NoReq /\ Pending(c) /\ req[c].msg.n = req[c].n
      BY <1>2 DEF IInv, Control, Calm, TypeOK
    <3>2. job[req[c].s].n = req[c].n
      <4> SUFFICES ASSUME NEW i \in DOMAIN backlog[req[c].s],
                          backlog[req[c].s][i] = req[c].msg
                   PROVE  FALSE
        BY <3>1 DEF Pending
      <4>1. req[c].msg = msg
        BY <1>1, <3>1 DEF OnlyMessage, Request, msg
      <4> QED BY <1>3, <3>1, <4>1 DEF Request, CallMsg, UpdateMsg
    <3> QED BY <1>4, <3>1, <3>2 DEF Pending
  <2>3. ~Calm'
    BY <1>2, <1>7 DEF Calm
  <2> QED BY <2>1, <2>2, <2>3 DEF Control
<1>9. /\ mem[p].kvs[k] = [v |-> job[p].v, t |-> clock]
      /\ \A q \in Server \ {p} :
           /\ \A j \in Key \ {k} : mem[q].kvs[j] = mem[p].kvs[j]
           /\ \A r \in Server \ {p, q} : mem[q].su[r] < clock
  BY <1>2 DEF IInv, Replicas, PutOf
<1>10. mem[s].kvs[k].t < clock /\ mem[s].su[p] < clock
  <2>1. ~Done(p, s)
    BY <1>1, NServersAssumption DEF Done, Server
  <2> QED BY <1>1, <1>2, <2>1 DEF IInv, Replicas, PutOf
<1>11. \A q \in Server : /\ mem[q].kvs \in [Key -> MaybeEntry] /\ mem[q].su \in [Server -> Nat]
                        /\ \A j \in Key : mem[q].kvs[j].t \in Nat /\ mem[q].kvs[j].t <= clock
  BY MemType DEF IInv, Replicas, NotAhead
<1>12. Store(mem[s].kvs, msg.k, msg.v, msg.t) = mem[p].kvs
  <2> DEFINE new == Store(mem[s].kvs, msg.k, msg.v, msg.t)
  <2>1. new = [mem[s].kvs EXCEPT ![k] = [v |-> job[p].v, t |-> clock]]
    BY <1>3, <1>10 DEF Store
  <2>2. \A j \in Key : new[j] = mem[p].kvs[j]
    BY <1>1, <1>3, <1>9, <1>11, <2>1
  <2>3. new \in [Key -> MaybeEntry]
    BY <1>3, <1>11, StoreType DEF UpdateMsg
  <2>4. mem[p].kvs \in [Key -> MaybeEntry]
    BY <1>11
  <2> HIDE DEF new
  <2>5. new = mem[p].kvs
    BY <2>2, <2>3, <2>4, SameFunction
  <2> QED BY <2>5 DEF new
<1>13. Playback(mem[s], p, clock) = mem[s].su[p] /\ mem[s].su[p] \in Nat
  BY <1>3, <1>10, <1>11 DEF Playback
<1>14. answer = Replay(mem[p].kvs, mem[s].su[p])
  BY <1>3, <1>12, <1>13 DEF ReceiveReply
<1>15. /\ answer \in [Key -> MaybeEntry]
       /\ answer[k] = mem[p].kvs[k]
       /\ \A j \in Key : answer[j].t > 0 => answer[j] = mem[p].kvs[j]
  BY <1>3, <1>9, <1>10, <1>11, <1>13, <1>14 DEF Replay, NoEntry, MaybeEntry
<1> HIDE DEF answer
<1>16. Max(Times(answer) \cup {clock}) = clock
  <2>1. \A y \in Times(answer) : y \in Nat /\ y <= clock
    <3> SUFFICES ASSUME NEW j \in Key, answer[j].t # 0
                 PROVE  answer[j].t \in Nat /\ answer[j].t <= clock
      BY DEF Times
    <3>1. answer[j].t \in Nat
      BY <1>15 DEF MaybeEntry, Entry, NoEntry
    <3>2. answer[j] = mem[p].kvs[j]
      BY <1>15, <3>1
    <3> QED BY <1>11, <3>2
  <2> QED BY <1>3, <2>1, MaxIs
<1>17. /\ mem'[s].kvs = mem[p].kvs /\ mem'[s].su = [mem[s].su EXCEPT ![p] = clock]
       /\ \A q \in Server \ {s} : mem'[q] = mem[q]
  BY <1>3, <1>4, <1>12, <1>16 DEF Receive, answer, IInv, TypeOK
<1> HIDE DEF k
<1>18. /\ mem'[p].kvs = mem[p].kvs /\ mem'[p].su = mem[p].su
       /\ mem'[s].su[p] = clock /\ \A q \in Server \ {p} : mem'[s].su[q] = mem[s].su[q]
  BY <1>1, <1>11, <1>17
<1>19. NotAhead'
  <2>1. \A q \in Server, j \in Key : mem'[q].kvs[j].t <= clock
    BY <1>11, <1>17
  <2>2. \A q, u \in Server : q # u => mem[q].su[u] <= clock
    BY DEF NotAhead, IInv, Replicas
  <2>3. \A q, u \in Server : q # u => mem'[q].su[u] <= clock
    <3> SUFFICES ASSUME NEW q \in Server, NEW u \in Server, q # u
                 PROVE  mem'[q].su[u] <= clock
      OBVIOUS
    <3>1. CASE q = s /\ u = p
      BY <1>3, <1>18, <3>1
    <3>2. CASE q = s /\ u # p
      <4>1. mem'[q].su[u] = mem[q].su[u]
        BY <1>18, <3>2
      <4> QED BY <2>2, <4>1
    <3>3. CASE q # s
      <4>1. mem'[q] = mem[q]
        BY <1>17, <3>3
      <4> QED BY <2>2, <4>1
    <3> QED BY <3>1, <3>2, <3>3
  <2> QED BY <1>4, <2>1, <2>3 DEF NotAhead
<1>20. AnswerTo(p)'
  BY <1>4, <1>5, <1>15, <1>18 DEF AnswerTo, k
<1>21. PutOf(p)'
  <2>1. \A q \in Server \ {p} : Done(p, q)' <=> (Done(p, q) \/ q = s)
    BY <1>1, <1>4, <1>5, NServersAssumption DEF Done, Server
  <2>2. /\ job'[p].t = clock' /\ job'[p].k = k
        /\ mem'[p].kvs[k] = [v |-> job'[p].v, t |-> clock']
    BY <1>2, <1>4, <1>9, <1>18 DEF IInv, Replicas, PutOf, k
  <2> SUFFICES ASSUME NEW q \in Server \ {p}
               PROVE  /\ \A j \in Key \ {k} : mem'[q].kvs[j] = mem'[p].kvs[j]
                      /\ \A r \in Server \ {p, q} : mem'[q].su[r] < clock'
                      /\ IF Done(p, q)' THEN mem'[q].kvs[k] = mem'[p].kvs[k]
                         ELSE mem'[q].kvs[k].t < clock' /\ mem'[q].su[p] < clock'
                      /\ q >= job'[p].peer => mem'[p].su[q] < clock'
    BY <2>2 DEF PutOf
  <2>3. q >= job'[p].peer => mem'[p].su[q] < clock'
    BY <1>2, <1>4, <1>18 DEF IInv, Replicas, PutOf
  <2>4. CASE q = s
    BY <1>4, <1>9, <1>17, <1>18, <2>1, <2>3, <2>4
  <2>5. CASE q # s
    <3>1. mem'[q] = mem[q]
      BY <1>17, <2>5
    <3>2. IF Done(p, q) THEN mem[q].kvs[k] = mem[p].kvs[k]
          ELSE mem[q].kvs[k].t < clock /\ mem[q].su[p] < clock
      BY <1>2 DEF IInv, Replicas, PutOf, k
    <3> QED BY <1>4, <1>9, <1>18, <2>1, <2>3, <2>5, <3>1, <3>2
  <2> QED BY <2>4, <2>5
<1>22. \A q \in Server : PutOf(q)' /\ AnswerTo(q)'
  BY <1>2, <1>5, <1>7, <1>20, <1>21 DEF PutOf, AnswerTo
<1>23. ASSUME NEW r \in Server, NEW j \in Key
       PROVE  /\ mem[r].kvs[j].t \in Nat /\ mem'[r].kvs[j].t \in Nat
              /\ mem'[r].kvs[j].t >= mem[r].kvs[j].t
  <2>1. CASE r = s
    <3>1. \A i \in Key \ {k} : mem[s].kvs[i] = mem[p].kvs[i]
      BY <1>1, <1>9
    <3>2. mem[p].kvs[k].t = clock
      BY <1>9
    <3> QED BY <1>11, <1>17, <2>1, <3>1, <3>2
  <2>2. CASE r # s
    <3>1. mem'[r] = mem[r]
      BY <1>17, <2>2
    <3> QED BY <1>11, <3>1
  <2> QED BY <2>1, <2>2
<1>24. ASSUME NEW q \in Server, NEW r \in Server PROVE ClockCovers(q, r)'
  <2> SUFFICES ASSUME q # r, NEW j \in Key, mem'[q].kvs[j].t <= mem'[q].su[r]
               PROVE  mem'[r].kvs[j].t >= mem'[q].kvs[j].t
    BY <1>23 DEF ClockCovers
  <2>2. ClockCovers(q, r)
    BY DEF IInv, Replicas
  <2>3. CASE q # s
    <3>1. mem'[q] = mem[q]
      BY <1>17, <2>3
    <3>2. mem[r].kvs[j].t >= mem[q].kvs[j].t
      BY <2>2, <3>1 DEF ClockCovers
    <3> QED BY <1>11, <1>23, <3>1, <3>2
  <2>4. CASE q = s /\ r = p
    BY <1>11, <1>17, <1>18, <1>23, <2>4
  <2>5. CASE q = s /\ r # p
    <3>1. mem'[q].su[r] = mem[s].su[r] /\ mem[s].su[r] < clock /\ mem[s].su[r] \in Nat
      BY <1>1, <1>9, <1>11, <1>18, <2>5
    <3>2. j # k
      BY <1>3, <1>9, <1>17, <2>5, <3>1
    <3>3. mem'[q].kvs[j] = mem[s].kvs[j]
      BY <1>1, <1>9, <1>17, <2>5, <3>2
    <3>4. mem[r].kvs[j].t >= mem[s].kvs[j].t
      BY <2>2, <2>5, <3>1, <3>3 DEF ClockCovers
    <3> QED BY <1>11, <1>23, <3>3, <3>4
  <2> QED BY <2>3, <2>4, <2>5
<1>25. ~Calm'
  BY <1>2, <1>7 DEF Calm
<1>26. Replicas'
  BY <1>19, <1>22, <1>24, <1>25 DEF Replicas, Same
<1> QED BY <1>8, <1>26, <1>23 DEF Grows

\* The originating server takes the answer: nothing in it is news to it.
LEMMA StepReply ==
  ASSUME IInv, NEW s \in Server, SyncReply(s)
  PROVE  Control' /\ Replicas' /\ \A p \in Server : mem'[p].kvs = mem[p].kvs
<1> DEFINE p == job[s].peer
           k == job[s].k
           answer == inbox[s].replay
<1>1. /\ phase[s] = "wait" /\ inbox[s] # NoReply /\ p \in Server /\ p # s /\ Silent
      /\ Busy(s) /\ job[s] \in Job /\ inbox[s] \in Reply
      /\ \A q \in Server \ {s} : ~Busy(q) /\ inbox[q] = NoReply
  BY Jobs DEF SyncReply, IInv, TypeOK, Control, ControlOf, Busy
<1>2. /\ mem' = [mem EXCEPT ![s] = Update(@, s, p, answer)]
      /\ inbox' = [inbox EXCEPT ![s] = NoReply]
      /\ phase' = [phase EXCEPT ![s] = "send"]
      /\ UNCHANGED <<backlog, clock, req, epoch>>
  BY DEF SyncReply, clientVars, procVars
<1>3. /\ job'[s].peer = NextPeer(s, p) /\ job'[s].k = k /\ job'[s].v = job[s].v
      /\ job'[s].t = job[s].t /\ job'[s].n = job[s].n
      /\ \A q \in Server \ {s} : job'[q] = job[q]
  BY <1>1 DEF SyncReply, IInv, TypeOK, Job
<1>4. /\ phase'[s] = "send" /\ \A q \in Server \ {s} : phase'[q] = phase[q]
      /\ \A q \in Server : inbox'[q] = NoReply /\ (Busy(q)' <=> Busy(q))
  BY <1>1, <1>2 DEF IInv, TypeOK, Busy
<1>5. NextPeer(s, p) # s /\ \A q \in Server \ {s} : q < NextPeer(s, p) <=> q <= p
  BY <1>1, NServersAssumption DEF NextPeer, Server
<1>6. Control'
  <2>1. \A q \in Server : ControlOf(q)'
    BY <1>1, <1>2, <1>3, <1>4, <1>5 DEF IInv, Control, ControlOf, Busy, Silent
  <2>2. ASSUME NEW c \in Client PROVE req'[c] # NoReq /\ Pending(c)' /\ req'[c].msg.n = req'[c].n
    <3>1. req[c] \in Request /\ req[c] # NoReq /\ Pending(c) /\ req[c].msg.n = req[c].n
      BY <1>1 DEF IInv, Control, Calm, TypeOK
    <3>2. job[req[c].s].n = req[c].n
      BY <1>1, <3>1 DEF Pending, Silent, Request
    <3>3. job'[req[c].s].n = req[c].n
      BY <1>3, <3>1, <3>2 DEF Request
    <3> QED BY <1>2, <3>1, <3>3 DEF Pending
  <2>3. ~Calm'
    BY <1>1, <1>4 DEF Calm
  <2> QED BY <2>1, <2>2, <2>3 DEF Control
<1>7. \A q \in Server : /\ mem[q].kvs \in [Key -> MaybeEntry] /\ mem[q].su \in [Server -> Nat]
                       /\ \A j \in Key : mem[q].kvs[j].t \in Nat /\ mem[q].kvs[j].t <= clock
  BY MemType DEF IInv, Replicas, NotAhead
<1>8. /\ k \in Key /\ clock \in Nat \ {0} /\ mem[s].kvs[k] = [v |-> job[s].v, t |-> clock]
      /\ answer[k] = mem[s].kvs[k]
      /\ \A j \in Key : answer[j].t > 0 => answer[j] = mem[s].kvs[j]
  BY <1>1 DEF IInv, TypeOK, Replicas, PutOf, AnswerTo, Job
<1>9. answer \in [Key -> MaybeEntry] /\ \A j \in Key : answer[j].t \in Nat
  BY <1>1 DEF Reply, MaybeEntry, Entry, NoEntry
<1> HIDE DEF answer
<1>10. Times(answer) # {} /\ Max(Times(answer)) = clock
  <2>1. clock \in Times(answer)
    BY <1>8 DEF Times
  <2>2. \A y \in Times(answer) : y \in Nat /\ clock >= y
    <3> SUFFICES ASSUME NEW j \in Key, answer[j].t # 0
                 PROVE  answer[j].t \in Nat /\ answer[j].t <= clock
      BY <1>8 DEF Times
    <3>1. answer[j] = mem[s].kvs[j]
      BY <1>8, <1>9
    <3> QED BY <1>1, <1>7, <3>1
  <2> QED BY <2>1, <2>2, MaxIs
<1>11. /\ mem'[s].kvs = [j \in Key |-> IF answer[j].t > 0 THEN answer[j] ELSE mem[s].kvs[j]]
       /\ mem'[s].su = [mem[s].su EXCEPT ![p] = clock, ![s] = Min(Times(answer) \cup {@})]
       /\ \A q \in Server \ {s} : mem'[q] = mem[q]
  BY <1>2, <1>10 DEF Update, IInv, TypeOK
<1>12. mem'[s].kvs = mem[s].kvs
  BY <1>7, <1>8, <1>11
<1>13. /\ mem'[s].su[p] = clock /\ \A q \in Server \ {s, p} : mem'[s].su[q] = mem[s].su[q]
       /\ \A q \in Server : mem'[q].kvs = mem[q].kvs
  BY <1>1, <1>7, <1>11, <1>12
<1>14. NotAhead'
  <2>1. \A q, u \in Server : q # u => mem[q].su[u] <= clock
    BY DEF NotAhead, IInv, Replicas
  <2>2. \A q, u \in Server : q # u => mem'[q].su[u] <= clock
    <3> SUFFICES ASSUME NEW q \in Server, NEW u \in Server, q # u
                 PROVE  mem'[q].su[u] <= clock
      OBVIOUS
    <3>1. CASE q = s /\ u = p
      BY <1>8, <1>13, <3>1
    <3>2. CASE q = s /\ u # p
      <4>1. mem'[q].su[u] = mem[q].su[u]
        BY <1>13, <3>2
      <4> QED BY <2>1, <4>1
    <3>3. CASE q # s
      <4>1. mem'[q] = mem[q]
        BY <1>11, <3>3
      <4> QED BY <2>1, <4>1
    <3> QED BY <3>1, <3>2, <3>3
  <2> QED BY <1>2, <1>7, <1>13, <2>2 DEF NotAhead
<1>15. PutOf(s)'
  <2>1. \A q \in Server \ {s} : Done(s, q)' <=> Done(s, q)
    BY <1>1, <1>3, <1>4, <1>5, NServersAssumption DEF Done, Server
  <2>2. job'[s].t = clock' /\ mem'[s].kvs[k] = [v |-> job'[s].v, t |-> clock']
    BY <1>1, <1>2, <1>3, <1>8, <1>13 DEF IInv, Replicas, PutOf
  <2> SUFFICES ASSUME NEW q \in Server \ {s}
               PROVE  /\ \A j \in Key \ {k} : mem'[q].kvs[j] = mem'[s].kvs[j]
                      /\ \A r \in Server \ {s, q} : mem'[q].su[r] < clock'
                      /\ IF Done(s, q)' THEN mem'[q].kvs[k] = mem'[s].kvs[k]
                         ELSE mem'[q].kvs[k].t < clock' /\ mem'[q].su[s] < clock'
                      /\ q >= job'[s].peer => mem'[s].su[q] < clock'
    BY <1>3, <2>2 DEF PutOf
  <2>3. /\ \A j \in Key \ {k} : mem[q].kvs[j] = mem[s].kvs[j]
        /\ \A r \in Server \ {s, q} : mem[q].su[r] < clock
        /\ IF Done(s, q) THEN mem[q].kvs[k] = mem[s].kvs[k]
           ELSE mem[q].kvs[k].t < clock /\ mem[q].su[s] < clock
        /\ q >= job[s].peer => mem[s].su[q] < clock
    BY <1>1 DEF IInv, Replicas, PutOf
  <2>4. q >= job'[s].peer => q > p /\ mem'[s].su[q] = mem[s].su[q]
    BY <1>1, <1>3, <1>5, <1>13, NextPeerType, NServersAssumption DEF Server, NextPeer
  <2>5. q >= job'[s].peer => mem'[s].su[q] < clock'
    BY <1>1, <1>2, <2>3, <2>4 DEF Server
  <2>6. mem'[q] = mem[q]
    BY <1>11
  <2> QED BY <1>2, <1>13, <2>1, <2>3, <2>5, <2>6
<1>16. \A q \in Server : PutOf(q)' /\ AnswerTo(q)'
  BY <1>1, <1>4, <1>15 DEF PutOf, AnswerTo
<1>17. ASSUME NEW q \in Server, NEW r \in Server PROVE ClockCovers(q, r)'
  <2>1. ClockCovers(q, r)
    BY DEF IInv, Replicas
  <2>2. CASE q # s \/ r \notin {s, p}
    BY <1>11, <1>13, <2>1, <2>2 DEF ClockCovers
  <2>3. CASE q = s /\ r = s
    BY <1>7, <1>13, <2>3 DEF ClockCovers
  <2>4. CASE q = s /\ r = p
    <3>1. Done(s, p)
      BY <1>1 DEF Done
    <3>2. \A j \in Key : mem[p].kvs[j] = mem[s].kvs[j]
      BY <1>1, <3>1 DEF IInv, Replicas, PutOf
    <3>3. \A j \in Key : mem'[r].kvs[j].t = mem'[q].kvs[j].t /\ mem'[q].kvs[j].t \in Nat
      BY <1>1, <1>7, <1>13, <2>4, <3>2
    <3> QED BY <3>3 DEF ClockCovers
  <2> QED BY <2>2, <2>3, <2>4
<1>18. ~Calm'
  BY <1>1, <1>4 DEF Calm
<1>19. Replicas'
  BY <1>14, <1>16, <1>17, <1>18 DEF Replicas, Same
<1> QED BY <1>6, <1>13, <1>19

(***************************************************************************)
(* The theorems.                                                           *)
(***************************************************************************)

LEMMA AloneInit == Init => IInv
<1> SUFFICES ASSUME Init PROVE IInv
  OBVIOUS
<1>1. TypeOK
  BY TypeInit
<1>2. /\ \A s \in Server : phase[s] = "idle" /\ inbox[s] = NoReply /\ backlog[s] = <<>>
      /\ \A s \in Server : mem[s] = Fresh(0)
      /\ \A c \in Client : req[c] = NoReq
      /\ clock = 0
  BY DEF Init
<1>3. Control
  BY <1>2 DEF Control, ControlOf, Calm, Silent, Busy
<1>4. \A s \in Server : PutOf(s) /\ AnswerTo(s)
  BY <1>2 DEF PutOf, AnswerTo, Busy
<1>5. /\ \A s, p \in Server : mem[s].kvs = mem[p].kvs /\ mem[s].su[p] = 0
      /\ \A s \in Server, k \in Key : mem[s].kvs[k].t = 0
  BY <1>2 DEF Fresh, NoEntry
<1>6. NotAhead /\ Same /\ \A s, p \in Server : ClockCovers(s, p)
  BY <1>2, <1>5 DEF NotAhead, Same, ClockCovers
<1> QED BY <1>1, <1>3, <1>4, <1>6 DEF IInv, Replicas

LEMMA AloneStep ==
  ASSUME Alone, IInv, Next
  PROVE  IInv' /\ Grows
<1>1. TypeOK'
  BY TypeNext DEF IInv
<1> SUFFICES Control' /\ Replicas' /\ Grows
  BY <1>1 DEF IInv
<1>2. (\A s \in Server : mem'[s].kvs = mem[s].kvs) => Grows
  BY MemType DEF Grows, IInv
<1>3. ASSUME NEW c \in Client, ClientStep(c) PROVE Control' /\ Replicas' /\ Grows
  <2>1. Put(c) \/ Get(c)
    BY <1>3, Impossible DEF ClientStep, IInv
  <2>2. UNCHANGED mem
    BY <2>1 DEF Put, Get, ClientCall
  <2> QED BY <1>2, <2>1, <2>2, StepCall
<1>4. ASSUME NEW s \in Server, ServerStep(s) PROVE Control' /\ Replicas' /\ Grows
  <2>1. CASE HandleGet(s)
    BY <1>2, <2>1, StepGet DEF HandleGet
  <2>2. CASE HandleInsert(s)
    BY <2>2, StepInsert
  <2>3. CASE HandleUpdate(s)
    BY <2>3, StepUpdate
  <2>4. CASE SyncConnect(s)
    BY <1>2, <2>4, StepConnect DEF SyncConnect
  <2>7. CASE SyncSend(s)
    BY <1>2, <2>7, StepSend DEF SyncSend
  <2>5. CASE SyncReply(s)
    BY <1>2, <2>5, StepReply
  <2>6. CASE FinishInsert(s)
    BY <1>2, <2>6, StepFinish DEF FinishInsert
  <2> QED BY <1>4, <2>1, <2>2, <2>3, <2>4, <2>5, <2>6, <2>7, Impossible DEF ServerStep, IInv
<1>5. \A s \in Server : ~OutsideStep(s)
  BY Impossible DEF IInv
<1> QED BY <1>3, <1>4, <1>5 DEF Next

LEMMA AloneStutter ==
  ASSUME IInv, UNCHANGED vars
  PROVE  IInv'
<1>1. TypeOK'
  BY TypeNext DEF IInv
<1>2. Control'
  <2>1. UNCHANGED <<phase, job, backlog, inbox, epoch, req>>
    BY DEF vars
  <2>2. \A s \in Server : UpdateOf(s)' = UpdateOf(s) /\ (Busy(s)' <=> Busy(s))
    BY <2>1 DEF UpdateOf, Busy
  <2>3. \A s \in Server : ControlOf(s)' <=> ControlOf(s)
    BY <2>1, <2>2 DEF ControlOf, Silent, OnlyMessage
  <2>4. (Calm' <=> Calm) /\ (Silent' <=> Silent) /\ \A c \in Client : Pending(c)' <=> Pending(c)
    BY <2>1, <2>2 DEF Calm, Silent, Pending
  <2> QED BY <2>1, <2>3, <2>4 DEF IInv, Control, OnlyMessage
<1>3. Replicas'
  BY ReplicasUnchanged DEF IInv, vars
<1> QED BY <1>1, <1>2, <1>3 DEF IInv

\* The invariant from which the theorems below follow: one client, no outage.
THEOREM AloneInvariant ==
  ASSUME Alone
  PROVE  Spec => []IInv
<1>1. IInv /\ [Next]_vars => IInv'
  BY AloneStutter, AloneStep
<1> QED BY <1>1, AloneInit, PTL DEF Spec

\* With one client and no outage the replicas agree whenever no put is under way,
\* however many servers there are (basic_server.py:169-174, 280-301).
THEOREM ReplicasConverge ==
  ASSUME Alone
  PROVE  Spec => []Converged
<1>1. IInv => Converged
  BY DEF IInv, Replicas, Same, Calm, Busy, Converged, Quiet
<1> QED BY <1>1, AloneInvariant, PTL

\* Every server's record of a peer's time is right: the peer has all it will not be
\* sent again (basic_server.py:176-200, 289-297).
THEOREM PeerTimesCover ==
  ASSUME Alone
  PROVE  Spec => []ClocksCover
<1>1. IInv => ClocksCover
  BY DEF IInv, Replicas, ClocksCover
<1> QED BY <1>1, AloneInvariant, PTL

\* No exception ends a server: connect, recv and the handlers of the put's peers
\* (basic_server.py:202-235, which catches only a refused connection) never fail.
THEOREM NoProcessRaises ==
  ASSUME Alone
  PROVE  Spec => []NoneRaised
<1>1. IInv => NoneRaised
  BY DEF IInv, Control, ControlOf, NoneRaised
<1> QED BY <1>1, AloneInvariant, PTL

\* No step of receive or update replaces an entry by an older one, although update
\* compares nothing (basic_server.py:187).
THEOREM EntriesNeverOlder ==
  ASSUME Alone
  PROVE  Spec => NeverOlder
<1>1. IInv /\ Next =>
        \A s \in Server, k \in Key :
          IsUp(s) /\ IsUp(s)' /\ epoch'[s] = epoch[s] => mem'[s].kvs[k].t >= mem[s].kvs[k].t
  BY AloneStep DEF Grows
<1> QED BY <1>1, AloneInvariant, PTL DEF Spec, NeverOlder
=============================================================================
