------------------------ MODULE KvServerOutageProofs ------------------------
(***************************************************************************)
(* With one client, whatever stops servers and however often, at most one  *)
(* of them is busy, the servers that have answered a put hold it, and a    *)
(* time identifies a put: for every number of servers, keys, values, calls *)
(* and outages, but for a kill that comes between a connect and the send   *)
(* after it (NoCut).                                                       *)
(***************************************************************************)
EXTENDS KvServerProofs

(***************************************************************************)
(* What a step leaves of a backlog.                                        *)
(***************************************************************************)

\* After the step p's backlog holds, in the same order, messages it held before, and
\* messages of New.
Kept(p, New) ==
  \E d \in {0, 1} : \A i \in DOMAIN backlog'[p] :
    i \in Nat /\ (backlog'[p][i] \notin New =>
                    i + d \in DOMAIN backlog[p] /\ backlog[p][i + d] = backlog'[p][i])

LEMMA BacklogType ==
  ASSUME TypeOK, NEW p \in Server
  PROVE  /\ DOMAIN backlog[p] \subseteq Nat
         /\ \A i \in DOMAIN backlog[p] : backlog[p][i] \in Msg
         /\ \A i \in Updates(p) : backlog[p][i] \in UpdateMsg
<1>1. backlog[p] \in Seq(Msg)
  BY DEF TypeOK
<1>2. DOMAIN backlog[p] = 1..Len(backlog[p]) /\ \A i \in 1..Len(backlog[p]) : backlog[p][i] \in Msg
  BY <1>1
<1> QED BY <1>2 DEF Updates, Msg, CallMsg

LEMMA FirstMessage ==
  ASSUME TypeOK, NEW p \in Server, backlog[p] # <<>>
  PROVE  1 \in DOMAIN backlog[p] /\ backlog[p][1] = Head(backlog[p])
<1>1. backlog[p] \in Seq(Msg)
  BY DEF TypeOK
<1>2. Len(backlog[p]) \in Nat /\ DOMAIN backlog[p] = 1..Len(backlog[p]) /\ Len(backlog[p]) # 0
  BY <1>1, HeadTailProperties, EmptySeq, LenProperties
<1>3. backlog[p][1] = Head(backlog[p])
  BY <1>1
<1> QED BY <1>2, <1>3

LEMMA KeptSame ==
  ASSUME TypeOK, NEW p \in Server, backlog'[p] = backlog[p] \/ backlog'[p] = <<>>
  PROVE  Kept(p, {})
<1>1. CASE backlog'[p] = <<>>
  BY <1>1 DEF Kept
<1>2. CASE backlog'[p] = backlog[p]
  <2>1. \A i \in DOMAIN backlog'[p] :
          i \in Nat /\ i + 0 \in DOMAIN backlog[p] /\ backlog[p][i + 0] = backlog'[p][i]
    BY <1>2, BacklogType
  <2> QED BY <2>1 DEF Kept
<1> QED BY <1>1, <1>2

LEMMA KeptMore ==
  ASSUME NEW p \in Server, NEW New, Kept(p, {})
  PROVE  Kept(p, New)
BY DEF Kept

LEMMA KeptTail ==
  ASSUME TypeOK, NEW s \in Server, backlog[s] # <<>>, backlog' = [backlog EXCEPT ![s] = Tail(@)]
  PROVE  /\ \A p \in Server : Kept(p, {})
         /\ 1 \in DOMAIN backlog[s] /\ backlog[s][1] = Head(backlog[s])
         /\ \A i \in DOMAIN backlog'[s] : /\ i \in Nat \ {0} /\ i + 1 \in DOMAIN backlog[s]
                                          /\ backlog[s][i + 1] = backlog'[s][i]
         /\ \A p \in Server \ {s} : backlog'[p] = backlog[p]
<1>1. backlog[s] \in Seq(Msg) /\ backlog'[s] = Tail(backlog[s])
  BY DEF TypeOK
<1>2. /\ 1 \in DOMAIN backlog[s] /\ backlog[s][1] = Head(backlog[s])
      /\ \A i \in DOMAIN backlog'[s] : /\ i \in Nat \ {0} /\ i + 1 \in DOMAIN backlog[s]
                                       /\ backlog[s][i + 1] = backlog'[s][i]
  <2>1. /\ Len(backlog[s]) \in Nat /\ Len(backlog'[s]) = Len(backlog[s]) - 1
        /\ \A i \in 1..Len(backlog'[s]) : backlog'[s][i] = backlog[s][i + 1]
    BY <1>1, HeadTailProperties, LenProperties
  <2>2. DOMAIN backlog[s] = 1..Len(backlog[s]) /\ DOMAIN backlog'[s] = 1..Len(backlog'[s])
    BY <1>1, HeadTailProperties
  <2>3. Len(backlog[s]) # 0
    BY <1>1, EmptySeq
  <2>4. backlog[s][1] = Head(backlog[s])
    BY <1>1
  <2> QED BY <2>1, <2>2, <2>3, <2>4
<1>3. \A p \in Server \ {s} : backlog'[p] = backlog[p]
  BY DEF TypeOK
<1>4. Kept(s, {})
  BY <1>2 DEF Kept
<1>5. \A p \in Server \ {s} : Kept(p, {})
  BY <1>3, KeptSame
<1> QED BY <1>2, <1>3, <1>4, <1>5

LEMMA KeptAppend ==
  ASSUME TypeOK, NEW s \in Server, NEW msg \in Msg, backlog' = [backlog EXCEPT ![s] = Append(@, msg)]
  PROVE  /\ Kept(s, {msg}) /\ \A p \in Server \ {s} : backlog'[p] = backlog[p] /\ Kept(p, {})
         /\ \A i \in DOMAIN backlog'[s] :
              i = Len(backlog[s]) + 1 \/ (i \in DOMAIN backlog[s] /\ backlog'[s][i] = backlog[s][i])
         /\ backlog'[s][Len(backlog[s]) + 1] = msg
         /\ Len(backlog[s]) + 1 \in DOMAIN backlog'[s]
<1>1. backlog[s] \in Seq(Msg) /\ backlog'[s] = Append(backlog[s], msg)
  BY DEF TypeOK
<1>2. /\ \A i \in DOMAIN backlog'[s] :
           /\ i \in Nat
           /\ i = Len(backlog[s]) + 1 \/ (i \in DOMAIN backlog[s] /\ backlog'[s][i] = backlog[s][i])
      /\ backlog'[s][Len(backlog[s]) + 1] = msg
      /\ Len(backlog[s]) + 1 \in DOMAIN backlog'[s]
  BY <1>1
<1>3. \A i \in DOMAIN backlog'[s] :
        backlog'[s][i] # msg => i + 0 \in DOMAIN backlog[s] /\ backlog[s][i + 0] = backlog'[s][i]
  BY <1>2
<1>4. Kept(s, {msg})
  BY <1>2, <1>3 DEF Kept
<1>5. \A p \in Server \ {s} : backlog'[p] = backlog[p]
  BY DEF TypeOK
<1> QED BY <1>2, <1>4, <1>5, KeptSame

(***************************************************************************)
(* One call under way.                                                     *)
(***************************************************************************)

NoCalls == \A s \in Server : \A i \in DOMAIN backlog[s] : ~IsCall(backlog[s][i])

\* A client that has no call, or whose call is nowhere, leaves every server free.
LEMMA Free ==
  ASSUME OneClient, TypeOK, OneCall, NEW c \in Client, req[c] = NoReq \/ ~Pending(c)
  PROVE  Calm /\ NoCalls
<1>1. ASSUME NEW s \in Server, Busy(s) PROVE FALSE
  <2>1. req[c] # NoReq /\ req[c].s = s /\ req[c].n = job[s].n
    BY <1>1 DEF OneCall, OneClient
  <2> QED BY <2>1 DEF Pending
<1>2. ASSUME NEW s \in Server, NEW i \in DOMAIN backlog[s], IsCall(backlog[s][i]) PROVE FALSE
  <2>1. req[c] # NoReq /\ req[c].s = s /\ req[c].msg = backlog[s][i]
    BY <1>2 DEF OneCall, OneClient
  <2> QED BY <2>1 DEF Pending
<1> QED BY <1>1, <1>2 DEF Calm, NoCalls

\* The message that a server takes is the only call.
LEMMA CallTaken ==
  ASSUME OneClient, TypeOK, OneCall, NEW s \in Server, NEW op \in {"get", "insert"},
         Accept(s, op), backlog' = [backlog EXCEPT ![s] = Tail(@)]
  PROVE  /\ Calm /\ NoCalls' /\ Head(backlog[s]) \in CallMsg
         /\ \A c \in Client : /\ req[c] # NoReq /\ req[c].s = s /\ req[c].msg = Head(backlog[s])
                              /\ req[c].n = Head(backlog[s]).n
<1>1. backlog[s] # <<>> /\ Head(backlog[s]).op = op
  BY DEF Accept
<1>2. /\ 1 \in DOMAIN backlog[s] /\ backlog[s][1] = Head(backlog[s])
      /\ \A i \in DOMAIN backlog'[s] : /\ i \in Nat \ {0} /\ i + 1 \in DOMAIN backlog[s]
                                       /\ backlog[s][i + 1] = backlog'[s][i]
      /\ \A p \in Server \ {s} : backlog'[p] = backlog[p]
  BY <1>1, KeptTail
<1>3. Head(backlog[s]) \in CallMsg
  BY <1>1, HeadType DEF Msg, UpdateMsg
<1>4. IsCall(backlog[s][1])
  BY <1>1, <1>2 DEF IsCall
<1>5. /\ Calm /\ \A j \in DOMAIN backlog[s] : IsCall(backlog[s][j]) => j = 1
      /\ \A c \in Client : req[c] # NoReq /\ req[c].s = s /\ req[c].msg = Head(backlog[s])
  BY <1>2, <1>4 DEF OneCall, OneClient
<1>6. \A c \in Client : req[c].n = Head(backlog[s]).n
  BY <1>5 DEF OneCall
<1>7. ASSUME NEW p \in Server, NEW i \in DOMAIN backlog'[p], IsCall(backlog'[p][i]) PROVE FALSE
  <2>1. CASE p = s
    BY <1>2, <1>5, <1>7, <2>1
  <2>2. CASE p # s
    <3>1. i \in DOMAIN backlog[p] /\ IsCall(backlog[p][i])
      BY <1>2, <1>7, <2>2
    <3>2. PICK c \in Client : req[c].s = p
      BY <3>1 DEF OneCall
    <3> QED BY <1>5, <2>2, <3>2
  <2> QED BY <2>1, <2>2
<1>8. NoCalls'
  BY <1>7 DEF NoCalls, IsCall
<1> QED BY <1>3, <1>5, <1>6, <1>8

LEMMA BusyOne ==
  ASSUME OneClient, OneCall, NEW s \in Server, NEW p \in Server, Busy(s), Busy(p)
  PROVE  s = p
BY DEF OneClient, OneCall

\* No server waits for one that waits for it.
LEMMA NeverStuck ==
  ASSUME OneClient, TypeOK, Heard, OneCall, NEW s \in Server
  PROVE  ~Stuck(s)
<1> SUFFICES ASSUME Stuck(s) PROVE FALSE
  OBVIOUS
<1>1. ASSUME NEW p \in Server, Deaf(p) PROVE FALSE
  <2>1. 1 \in DOMAIN backlog[p] /\ backlog[p][1] = Head(backlog[p])
    BY <1>1, FirstMessage DEF Deaf
  <2> QED BY <1>1, <2>1 DEF Deaf, Heard
<1>2. PICK S \in SUBSET Server : s \in S /\ \A p \in S : phase[p] = "wait" /\ job[p].peer \in S
  BY <1>1 DEF Stuck, Waits
<1>3. Busy(s) /\ Busy(job[s].peer) /\ job[s].peer # s
  BY <1>2 DEF Busy, OneCall
<1> QED BY <1>2, <1>3, BusyOne

\* A step that starts no put and adds no call.
LEMMA OneCallKept ==
  ASSUME TypeOK, OneCall, UNCHANGED req, NEW New, \A msg \in New : ~IsCall(msg),
         \A p \in Server : /\ Busy(p)' => Busy(p) /\ job'[p].n = job[p].n /\ job'[p].peer # p
                           /\ Kept(p, New)
  PROVE  OneCall'
<1>1. ASSUME NEW p \in Server, NEW i \in DOMAIN backlog'[p], IsCall(backlog'[p][i])
      PROVE  /\ Calm'
             /\ \E c \in Client : req'[c] # NoReq /\ req'[c].s = p /\ req'[c].msg = backlog'[p][i]
             /\ \A j \in DOMAIN backlog'[p] : IsCall(backlog'[p][j]) => j = i
  <2>1. PICK d \in {0, 1} : \A j \in DOMAIN backlog'[p] :
          j \in Nat /\ (backlog'[p][j] \notin New =>
                          j + d \in DOMAIN backlog[p] /\ backlog[p][j + d] = backlog'[p][j])
    BY DEF Kept
  <2>2. \A j \in DOMAIN backlog'[p] : IsCall(backlog'[p][j]) =>
          j \in Nat /\ j + d \in DOMAIN backlog[p] /\ backlog[p][j + d] = backlog'[p][j]
    BY <2>1
  <2>3. i \in Nat /\ i + d \in DOMAIN backlog[p] /\ backlog[p][i + d] = backlog'[p][i]
    BY <1>1, <2>2
  <2>4. /\ Calm
        /\ \E c \in Client : req[c] # NoReq /\ req[c].s = p /\ req[c].msg = backlog[p][i + d]
        /\ \A j \in DOMAIN backlog[p] : IsCall(backlog[p][j]) => j = i + d
    BY <1>1, <2>3 DEF OneCall
  <2>5. \A j \in DOMAIN backlog'[p] : IsCall(backlog'[p][j]) => j = i
    BY <2>2, <2>3, <2>4
  <2>6. Calm'
    BY <2>4 DEF Calm
  <2> QED BY <2>3, <2>4, <2>5, <2>6
<1>2. ASSUME NEW p \in Server, Busy(p)'
      PROVE  \E c \in Client : req'[c] # NoReq /\ req'[c].s = p /\ req'[c].n = job'[p].n
  BY <1>2 DEF OneCall
<1> QED BY <1>1, <1>2 DEF OneCall, IsCall

LEMMA OneCallEnds ==
  ASSUME TypeOK', Calm', NoCalls', \A c \in Client : req'[c] # NoReq => req'[c].msg.n = req'[c].n
  PROVE  OneCall'
BY DEF OneCall, Calm, NoCalls

LEMMA OneCallClient ==
  ASSUME OneClient, TypeOK, TypeOK', Heard, OneCall, NEW c \in Client, ClientStep(c)
  PROVE  OneCall'
<1>1. ASSUME NEW s \in Server, NEW msg \in CallMsg, ClientCall(c, s, msg), msg.n = nreq + 1
      PROVE  OneCall'
  <2>1. req[c] = NoReq /\ Calm /\ NoCalls /\ \A d \in Client : d = c
    BY <1>1, Free DEF ClientCall, OneClient
  <2>2. backlog' = [backlog EXCEPT ![s] = Append(@, msg)] /\ msg \in Msg
    BY <1>1 DEF ClientCall, Msg
  <2>3. /\ \A p \in Server \ {s} : backlog'[p] = backlog[p]
        /\ \A i \in DOMAIN backlog'[s] :
             i = Len(backlog[s]) + 1 \/ (i \in DOMAIN backlog[s] /\ backlog'[s][i] = backlog[s][i])
        /\ backlog'[s][Len(backlog[s]) + 1] = msg
    BY <2>2, KeptAppend
  <2>4. /\ req'[c] = [n |-> nreq + 1, s |-> s, msg |-> msg]
        /\ UNCHANGED <<phase, job>>
    BY <1>1 DEF ClientCall, TypeOK
  <2>5. req'[c] # NoReq /\ req'[c].n = nreq + 1 /\ req'[c].s = s /\ req'[c].msg = msg
    BY <2>4 DEF NoReq
  <2>6. \A p \in Server : ~Busy(p)'
    BY <2>1, <2>4 DEF Calm, Busy
  <2>7. ASSUME NEW p \in Server, NEW i \in DOMAIN backlog'[p], IsCall(backlog'[p][i])
        PROVE  p = s /\ i = Len(backlog[s]) + 1 /\ backlog'[p][i] = msg
    BY <2>1, <2>3, <2>7 DEF NoCalls
  <2>8. \A p \in Server : \A i \in DOMAIN backlog'[p] : IsCall(backlog'[p][i]) =>
          /\ Calm'
          /\ \E d \in Client : req'[d] # NoReq /\ req'[d].s = p /\ req'[d].msg = backlog'[p][i]
          /\ \A j \in DOMAIN backlog'[p] : IsCall(backlog'[p][j]) => j = i
    BY <2>5, <2>6, <2>7 DEF Calm
  <2>9. \A d \in Client : req'[d].msg.n = req'[d].n
    BY <1>1, <2>1, <2>5
  <2> QED BY <2>6, <2>8, <2>9 DEF OneCall, IsCall
<1>2. ASSUME Calm, NoCalls, UNCHANGED <<phase, backlog>>,
             \A d \in Client : req'[d] = NoReq \/ req'[d] = req[d]
      PROVE  OneCall'
  <2>1. Calm' /\ NoCalls'
    BY <1>2 DEF Calm, Busy, NoCalls, IsCall
  <2> QED BY <1>2, <2>1, OneCallEnds DEF OneCall
<1>3. CASE Put(c)
  <2>1. nreq + 1 \in Nat \ {0}
    BY DEF TypeOK
  <2>2. \A k \in Key, v \in Value :
          [op |-> "insert", c |-> c, n |-> nreq + 1, k |-> k, v |-> v] \in CallMsg
    BY <2>1 DEF CallMsg
  <2> QED BY <1>1, <1>3, <2>2 DEF Put
<1>4. CASE Get(c)
  <2>1. nreq + 1 \in Nat \ {0}
    BY DEF TypeOK
  <2>2. \A k \in Key : [op |-> "get", c |-> c, n |-> nreq + 1, k |-> k] \in CallMsg
    BY <2>1 DEF CallMsg
  <2> QED BY <1>1, <1>4, <2>2 DEF Get
<1>5. CASE ConnectRefused(c)
  <2>1. Calm /\ NoCalls
    BY <1>5, Free DEF ConnectRefused
  <2> QED BY <1>2, <1>5, <2>1 DEF ConnectRefused
<1>6. ~ClientTimeout(c)
  BY NeverStuck DEF ClientTimeout, TypeOK, Request
<1>7. CASE ClientReset(c)
  <2>1. Calm /\ NoCalls
    BY <1>7, Free DEF ClientReset
  <2>2. \A d \in Client : req'[d] = NoReq \/ req'[d] = req[d]
    BY <1>7 DEF ClientReset, GiveUp, TypeOK
  <2> QED BY <1>2, <1>7, <2>1, <2>2 DEF ClientReset, GiveUp
<1> QED BY <1>3, <1>4, <1>5, <1>6, <1>7 DEF ClientStep

\* The process that dies loses its connections and its put; the others go on.
LEMMA DieFields ==
  ASSUME TypeOK, NEW s \in Server, NEW how \in Down, Die(s, how, backlog)
  PROVE  /\ ~Busy(s)' /\ ~IsUp(s)' /\ backlog'[s] = <<>> /\ inbox'[s] = NoReply
         /\ \A p \in Server \ {s} :
              /\ phase'[p] = phase[p] /\ mem'[p] = mem[p] /\ job'[p] = job[p]
              /\ backlog'[p] = backlog[p] /\ inbox'[p] = inbox[p]
         /\ \A p \in Server : Kept(p, {})
         /\ UNCHANGED <<epoch, clock, req, res, nreq>>
<1>1. /\ phase'[s] = how /\ backlog'[s] = <<>> /\ inbox'[s] = NoReply
      /\ \A p \in Server \ {s} :
           /\ phase'[p] = phase[p] /\ mem'[p] = mem[p] /\ job'[p] = job[p]
           /\ backlog'[p] = backlog[p] /\ inbox'[p] = inbox[p]
      /\ UNCHANGED <<epoch, clock, req, res, nreq>>
  BY DEF Die, TypeOK, clientVars
<1>2. \A p \in Server : Kept(p, {})
  BY <1>1, KeptSame
<1> QED BY <1>1, <1>2 DEF Busy, IsUp, Up, Down

\* The steps in which a process dies.
LEMMA WhoDies ==
  ASSUME NEW s \in Server, SyncReset(s) \/ SyncTimeout(s) \/ StopClose(s) \/ Kill(s)
  PROVE  (\E how \in Down : Die(s, how, backlog)) /\ disk' \in {disk, [disk EXCEPT ![s] = mem[s]]}
BY DEF SyncReset, SyncTimeout, StopClose, Kill, Down

\* The steps that neither answer a client nor start a put nor end a process.
Quietly(s) ==
  \/ HandleUpdate(s) \/ HandleShutdown(s) \/ SyncRefused(s) \/ SyncConnect(s) \/ SyncSend(s)
  \/ SyncReply(s) \/ IdleTimeout(s) \/ SendShutdown(s) \/ Restart(s)

\* No other step is left, since nobody is killed between connect and send.
LEMMA Uncut ==
  ASSUME NoCut, NEW s \in Server
  PROVE  ~Cut(s) /\ ~CutClient(s)
BY DEF NoCut, Cut, CutClient, Outage

\* A server busy after such a step was busy with the same put.
LEMMA QuietlyBusy ==
  ASSUME TypeOK, NEW s \in Server, Quietly(s), NEW p \in Server, Busy(p)'
  PROVE  /\ Busy(p) /\ UNCHANGED req
         /\ job'[p].n = job[p].n /\ job'[p].k = job[p].k /\ job'[p].t = job[p].t /\ job'[p].v = job[p].v
         /\ job'[p].peer \in {job[p].peer, NextPeer(p, job[p].peer)}
<1>1. UNCHANGED req
  BY DEF Quietly, HandleUpdate, HandleShutdown, SyncRefused, SyncConnect, SyncSend, SyncReply, IdleTimeout,
         SendShutdown, Restart, BeginShutdown, clientVars
<1>2. CASE SyncRefused(s)
  BY <1>1, <1>2 DEF SyncRefused, Busy, TypeOK, Job, NoJob
<1>3. CASE SyncReply(s)
  <2>1. Busy(s) /\ job[s] \in Job
    BY <1>3 DEF SyncReply, Busy, TypeOK
  <2>2. CASE p = s
    BY <1>1, <1>3, <2>1, <2>2 DEF SyncReply, TypeOK, Job
  <2>3. CASE p # s
    BY <1>1, <1>3, <2>3 DEF SyncReply, Busy, TypeOK
  <2> QED BY <2>2, <2>3
<1>4. CASE HandleUpdate(s) \/ HandleShutdown(s) \/ SyncConnect(s) \/ SyncSend(s)
         \/ IdleTimeout(s) \/ SendShutdown(s) \/ Restart(s)
  BY <1>1, <1>4 DEF HandleUpdate, HandleShutdown, SyncConnect, SyncSend, IdleTimeout, SendShutdown, Restart,
                    BeginShutdown, Busy, TypeOK
<1> QED BY <1>2, <1>3, <1>4 DEF Quietly

\* What SyncConnect opens carries an update to another server.
LEMMA Sends ==
  ASSUME TypeOK, NEW s \in Server, SyncConnect(s)
  PROVE  /\ backlog' = [backlog EXCEPT ![job[s].peer] = Append(@, UpdateOf(s))]
         /\ UpdateOf(s) \in UpdateMsg /\ UpdateOf(s) \in Msg /\ job[s].peer \in Server
<1>1. job[s] \in Job /\ epoch[s] \in Nat \ {0}
  BY DEF SyncConnect, TypeOK
<1>2. UpdateOf(s) \in UpdateMsg
  BY <1>1 DEF UpdateOf, UpdateMsg, Job
<1> QED BY <1>2 DEF SyncConnect, UpdateOf, Msg

\* The put that a server begins.
LEMMA InsertFields ==
  ASSUME TypeOK, NEW s \in Server, HandleInsert(s)
  PROVE  LET msg == Head(backlog[s]) IN
         \E t \in InsertTimes(s) :
           /\ mem' = [mem EXCEPT ![s] = Insert(@, s, msg.k, msg.v, t)]
           /\ clock' = t
           /\ job'[s].n = msg.n /\ job'[s].k = msg.k /\ job'[s].v = msg.v /\ job'[s].t = t
           /\ job'[s].peer = NextPeer(s, 0) /\ job'[s].reached = {}
           /\ \A p \in Server \ {s} : job'[p] = job[p]
<1> DEFINE msg == Head(backlog[s])
<1>1. PICK t \in InsertTimes(s) :
        /\ mem' = [mem EXCEPT ![s] = Insert(@, s, msg.k, msg.v, t)]
        /\ job' = [job EXCEPT ![s] =
             [n |-> msg.n, c |-> msg.c, k |-> msg.k, v |-> msg.v, t |-> t,
              old |-> mem[s].kvs[msg.k].v, peer |-> NextPeer(s, 0), reached |-> {}]]
        /\ clock' = t
  BY DEF HandleInsert
<1> HIDE DEF msg
<1>2. /\ job'[s].n = msg.n /\ job'[s].k = msg.k /\ job'[s].v = msg.v /\ job'[s].t = t
      /\ job'[s].peer = NextPeer(s, 0) /\ job'[s].reached = {}
      /\ \A p \in Server \ {s} : job'[p] = job[p]
  BY <1>1 DEF TypeOK
<1> QED BY <1>1, <1>2 DEF msg

LEMMA QuietlyKept ==
  ASSUME TypeOK, NEW s \in Server, Quietly(s)
  PROVE  /\ ~SyncConnect(s) => \A p \in Server : Kept(p, {[op |-> "shutdown"]})
         /\ SyncConnect(s) => \A p \in Server : Kept(p, {UpdateOf(s)})
<1>1. CASE HandleUpdate(s) \/ HandleShutdown(s)
  <2>1. backlog[s] # <<>> /\ backlog' = [backlog EXCEPT ![s] = Tail(@)]
    BY <1>1 DEF HandleUpdate, HandleShutdown, Accept
  <2> QED BY <2>1, KeptTail, KeptMore
<1>2. CASE SyncRefused(s) \/ SyncSend(s) \/ SyncReply(s) \/ IdleTimeout(s) \/ Restart(s)
  <2>1. UNCHANGED backlog
    BY <1>2 DEF SyncRefused, SyncSend, SyncReply, IdleTimeout, Restart
  <2> QED BY <2>1, KeptSame, KeptMore
<1>3. CASE SendShutdown(s)
  <2>1. backlog' = [backlog EXCEPT ![s] = Append(@, [op |-> "shutdown"])]
    BY <1>3 DEF SendShutdown
  <2>2. [op |-> "shutdown"] \in Msg
    BY DEF Msg
  <2>3. \A p \in Server : Kept(p, {[op |-> "shutdown"]})
    BY <2>1, <2>2, KeptAppend, KeptMore
  <2> QED BY <1>3, <2>3 DEF SendShutdown, SyncConnect, TypeOK
<1>4. CASE SyncConnect(s)
  <2>1. /\ backlog' = [backlog EXCEPT ![job[s].peer] = Append(@, UpdateOf(s))]
        /\ UpdateOf(s) \in Msg /\ job[s].peer \in Server
    BY <1>4, Sends
  <2>2. /\ Kept(job[s].peer, {UpdateOf(s)})
        /\ \A p \in Server \ {job[s].peer} : Kept(p, {})
    BY <2>1, KeptAppend
  <2>3. \A p \in Server : Kept(p, {UpdateOf(s)})
    BY <2>2, KeptMore
  <2> QED BY <1>4, <2>3
<1> QED BY <1>1, <1>2, <1>3, <1>4 DEF Quietly

LEMMA OneCallServer ==
  ASSUME OneClient, NoCut, TypeOK, TypeOK', OneCall, NEW s \in Server,
         ServerStep(s) \/ OutsideStep(s)
  PROVE  OneCall'
<1>1. CASE HandleGet(s)
  <2>1. Calm /\ NoCalls'
    BY <1>1, CallTaken DEF HandleGet
  <2>2. Calm'
    BY <1>1, <2>1 DEF HandleGet, Calm, Busy
  <2>3. \A c \in Client : req'[c] = NoReq \/ req'[c] = req[c]
    BY <1>1 DEF HandleGet, Answer, TypeOK
  <2> QED BY <2>1, <2>2, <2>3, OneCallEnds DEF OneCall
<1>2. CASE HandleInsert(s)
  <2>1. /\ Calm /\ NoCalls'
        /\ \A c \in Client : /\ req[c] # NoReq /\ req[c].s = s /\ req[c].msg = Head(backlog[s])
                             /\ req[c].n = Head(backlog[s]).n
        /\ Head(backlog[s]) \in CallMsg
    BY <1>2, CallTaken DEF HandleInsert
  <2>2. job'[s].n = Head(backlog[s]).n /\ job'[s].peer = NextPeer(s, 0)
    BY <1>2, InsertFields
  <2>3. UNCHANGED req /\ \A p \in Server \ {s} : ~Busy(p)'
    BY <1>2, <2>1 DEF HandleInsert, clientVars, TypeOK, Calm, Busy
  <2>4. job'[s].peer # s
    BY <2>2 DEF NextPeer, Server
  <2>5. Head(backlog[s]).c \in Client
    BY <2>1 DEF CallMsg
  <2> QED BY <2>1, <2>2, <2>3, <2>4, <2>5 DEF OneCall, NoCalls
<1>3. CASE FinishInsert(s)
  <2>1. Busy(s) /\ ~Calm
    BY <1>3 DEF FinishInsert, Busy, Calm
  <2>2. NoCalls'
    BY <1>3, <2>1 DEF FinishInsert, OneCall, NoCalls, IsCall
  <2>3. Calm'
    BY <1>3, <2>1, BusyOne DEF FinishInsert, Calm, Busy, TypeOK
  <2>4. \A c \in Client : req'[c] = NoReq \/ req'[c] = req[c]
    BY <1>3 DEF FinishInsert, Answer, TypeOK
  <2> QED BY <2>2, <2>3, <2>4, OneCallEnds DEF OneCall
<1>4. CASE SyncReset(s) \/ SyncTimeout(s) \/ StopClose(s) \/ Kill(s)
  <2>1. PICK how \in Down : Die(s, how, backlog)
    BY <1>4, WhoDies
  <2>2. /\ ~Busy(s)' /\ \A p \in Server \ {s} : phase'[p] = phase[p] /\ job'[p] = job[p]
        /\ UNCHANGED req /\ \A p \in Server : Kept(p, {})
    BY <2>1, DieFields
  <2>3. \A p \in Server : Busy(p)' => Busy(p) /\ job'[p].n = job[p].n /\ job'[p].peer # p
    BY <2>2 DEF Busy, OneCall
  <2> QED BY <2>2, <2>3, OneCallKept
<1>5. CASE Quietly(s)
  <2>1. \A p \in Server : Busy(p)' => Busy(p) /\ job'[p].n = job[p].n /\ job'[p].peer # p
    <3> SUFFICES ASSUME NEW p \in Server, Busy(p)'
                 PROVE  Busy(p) /\ job'[p].n = job[p].n /\ job'[p].peer # p
      OBVIOUS
    <3>1. /\ Busy(p) /\ job'[p].n = job[p].n
          /\ job'[p].peer \in {job[p].peer, NextPeer(p, job[p].peer)}
      BY <1>5, QuietlyBusy
    <3>2. job[p].peer # p
      BY <3>1 DEF OneCall
    <3>3. job[p].peer \in Nat
      BY <3>1, NServersAssumption DEF TypeOK, Busy, Job
    <3> QED BY <3>1, <3>2, <3>3 DEF NextPeer, Server
  <2>2. PICK New : (\A msg \in New : ~IsCall(msg)) /\ \A p \in Server : Kept(p, New)
    <3>1. ~IsCall(UpdateOf(s)) /\ ~IsCall([op |-> "shutdown"])
      BY DEF IsCall, UpdateOf
    <3> QED BY <1>5, <3>1, QuietlyKept
  <2>3. UNCHANGED req
    BY <1>5 DEF Quietly, HandleUpdate, HandleShutdown, SyncRefused, SyncConnect, SyncSend, SyncReply, IdleTimeout,
                SendShutdown, Restart, BeginShutdown, clientVars
  <2> QED BY <2>1, <2>2, <2>3, OneCallKept
<1> QED BY <1>1, <1>2, <1>3, <1>4, <1>5, Uncut DEF ServerStep, OutsideStep, Quietly

(***************************************************************************)
(* One update of each process under way.                                   *)
(***************************************************************************)

\* Restarts are counted: a process that runs after a step ran before it.
Onward == \A p \in Server :
  epoch'[p] >= epoch[p] /\ (epoch'[p] = epoch[p] /\ IsUp(p)' => IsUp(p))

\* A process that is connected to a peer and has no answer yet stays so.
WaitsOn(p) ==
  IsUp(p)' /\ epoch'[p] = epoch[p] /\ phase[p] \in {"linked", "wait"} /\ inbox[p] = NoReply =>
    phase'[p] \in {"linked", "wait"} /\ inbox'[p] = NoReply /\ job'[p] = job[p]

LEMMA ClientFrame ==
  ASSUME NEW c \in Client, ClientStep(c)
  PROVE  UNCHANGED <<phase, mem, disk, job, inbox, epoch, clock>>
BY DEF ClientStep, Put, Get, ClientCall, ConnectRefused, ClientReset, ClientTimeout, GiveUp, procVars

LEMMA OnwardStep ==
  ASSUME NoCut, TypeOK, Next
  PROVE  Onward
<1>1. ASSUME UNCHANGED epoch, \A p \in Server : IsUp(p)' => IsUp(p) PROVE Onward
  BY <1>1 DEF Onward, TypeOK
<1>2. ASSUME NEW c \in Client, ClientStep(c) PROVE Onward
  <2>1. UNCHANGED <<phase, epoch>>
    BY <1>2, ClientFrame
  <2> QED BY <1>1, <2>1 DEF IsUp
<1>3. ASSUME NEW s \in Server, Restart(s) PROVE Onward
  <2>1. epoch' = [epoch EXCEPT ![s] = @ + 1] /\ \A p \in Server \ {s} : phase'[p] = phase[p]
    BY <1>3 DEF Restart, TypeOK
  <2> QED BY <2>1 DEF Onward, TypeOK, IsUp
<1>4. ASSUME NEW s \in Server, SyncReset(s) \/ SyncTimeout(s) \/ StopClose(s) \/ Kill(s) PROVE Onward
  <2>1. PICK how \in Down : Die(s, how, backlog)
    BY <1>4, WhoDies
  <2>2. ~IsUp(s)' /\ UNCHANGED epoch /\ \A p \in Server \ {s} : phase'[p] = phase[p]
    BY <2>1, DieFields
  <2> QED BY <1>1, <2>2 DEF IsUp
<1>5. ASSUME NEW s \in Server, \/ HandleGet(s) \/ HandleInsert(s) \/ HandleUpdate(s) \/ HandleShutdown(s)
                               \/ SyncRefused(s) \/ SyncConnect(s) \/ SyncSend(s) \/ SyncReply(s)
                               \/ FinishInsert(s) \/ IdleTimeout(s) \/ SendShutdown(s)
      PROVE  Onward
  <2>1. UNCHANGED epoch
    BY <1>5 DEF HandleGet, HandleInsert, HandleUpdate, HandleShutdown, SyncRefused, SyncConnect, SyncSend, SyncReply,
                FinishInsert, IdleTimeout, SendShutdown, BeginShutdown, procVars
  <2>2. \A p \in Server : IsUp(p)' => IsUp(p)
    BY <1>5 DEF HandleGet, HandleInsert, HandleUpdate, HandleShutdown, SyncRefused, SyncConnect, SyncSend, SyncReply,
                FinishInsert, IdleTimeout, SendShutdown, BeginShutdown, Accept, IsUp, Up, TypeOK
  <2> QED BY <1>1, <2>1, <2>2
<1> QED BY <1>2, <1>3, <1>4, <1>5, Uncut DEF Next, ServerStep, OutsideStep

LEMMA WaitsStep ==
  ASSUME NoCut, TypeOK, NEW s \in Server, ServerStep(s) \/ OutsideStep(s), ~HandleUpdate(s)
  PROVE  \A p \in Server : WaitsOn(p)
<1>1. CASE SyncReset(s) \/ SyncTimeout(s) \/ StopClose(s) \/ Kill(s)
  <2>1. PICK how \in Down : Die(s, how, backlog)
    BY <1>1, WhoDies
  <2> QED BY <2>1, DieFields DEF WaitsOn
<1>2. CASE HandleGet(s) \/ HandleInsert(s) \/ HandleShutdown(s) \/ IdleTimeout(s) \/ SendShutdown(s)
  <2>1. \A p \in Server : phase[p] \in {"linked", "wait"} =>
          phase'[p] = phase[p] /\ inbox'[p] = inbox[p] /\ job'[p] = job[p]
    <3>1. CASE HandleInsert(s)
      <4>1. phase[s] = "idle" /\ \A p \in Server \ {s} : job'[p] = job[p]
        BY <3>1, InsertFields DEF HandleInsert, Accept
      <4> QED BY <3>1, <4>1 DEF HandleInsert, TypeOK
    <3> QED BY <1>2, <3>1 DEF HandleGet, HandleShutdown, IdleTimeout, SendShutdown, BeginShutdown,
                              Accept, TypeOK
  <2> QED BY <2>1 DEF WaitsOn
<1>3. CASE SyncRefused(s) \/ SyncConnect(s) \/ SyncReply(s) \/ FinishInsert(s) \/ Restart(s)
  <2>1. \A p \in Server \ {s} : phase'[p] = phase[p] /\ inbox'[p] = inbox[p] /\ job'[p] = job[p]
    BY <1>3 DEF SyncRefused, SyncConnect, SyncReply, FinishInsert, Restart, TypeOK
  <2>2. phase[s] \notin {"linked", "wait"} \/ inbox[s] # NoReply
    BY <1>3 DEF SyncRefused, SyncConnect, SyncReply, FinishInsert, Restart, IsUp, Up
  <2> QED BY <2>1, <2>2 DEF WaitsOn
<1>4. CASE SyncSend(s)
  BY <1>4 DEF SyncSend, WaitsOn, TypeOK
<1> QED BY <1>1, <1>2, <1>3, <1>4, Uncut DEF ServerStep, OutsideStep

\* The updates that were there before the step, when their senders, but for X, wait on.
LEMMA OneUpdateKept ==
  ASSUME TypeOK, OneUpdate, Onward, NEW New, NEW X, \A q \in Server \ X : WaitsOn(q),
         \A p \in Server : Kept(p, New), TypeOK'
  PROVE  \A p \in Server : \A i \in Updates(p)' :
           LET msg == backlog'[p][i] IN
           msg \notin New => /\ msg \in UpdateMsg /\ msg.e <= epoch'[msg.from]
                             /\ msg.from \notin X => UpdateFrom(p, i)'
<1> SUFFICES ASSUME NEW p \in Server, NEW i \in Updates(p)', backlog'[p][i] \notin New
             PROVE  /\ backlog'[p][i] \in UpdateMsg
                    /\ backlog'[p][i].e <= epoch'[backlog'[p][i].from]
                    /\ backlog'[p][i].from \notin X => UpdateFrom(p, i)'
  OBVIOUS
<1>1. PICK d \in {0, 1} : \A j \in DOMAIN backlog'[p] :
        j \in Nat /\ (backlog'[p][j] \notin New =>
                        j + d \in DOMAIN backlog[p] /\ backlog[p][j + d] = backlog'[p][j])
  BY DEF Kept
<1>2. i \in DOMAIN backlog'[p] /\ backlog'[p][i].op = "update"
  BY DEF Updates
<1>3. i \in Nat /\ i + d \in Updates(p) /\ backlog[p][i + d] = backlog'[p][i]
  BY <1>1, <1>2 DEF Updates
<1>4. PICK msg \in UpdateMsg : msg = backlog[p][i + d] /\ msg = backlog'[p][i]
  BY <1>3, BacklogType
<1> DEFINE q == msg.from
<1>8. q \in Server
  BY DEF UpdateMsg
<1> HIDE DEF q
<1>5. /\ msg.e <= epoch[q] /\ msg.e \in Nat /\ epoch[q] \in Nat /\ epoch'[q] \in Nat /\ epoch'[q] >= epoch[q]
  <2>1. msg.e <= epoch[q]
    BY <1>3, <1>4 DEF OneUpdate, UpdateFrom, q
  <2>2. msg.e \in Nat
    BY DEF UpdateMsg
  <2> QED BY <1>8, <2>1, <2>2 DEF TypeOK, Onward
<1>6. ASSUME q \notin X, msg.e = epoch'[q], IsUp(q)'
      PROVE  /\ phase'[q] \in {"linked", "wait"} /\ inbox'[q] = NoReply
             /\ job'[q].peer = p /\ msg = UpdateOf(q)'
             /\ \A j \in DOMAIN backlog'[p] : backlog'[p][j] = msg => j = i
  <2>1. msg.e = epoch[q] /\ epoch'[q] = epoch[q] /\ IsUp(q)
    BY <1>5, <1>6, <1>8 DEF Onward
  <2>2. /\ phase[q] \in {"linked", "wait"} /\ inbox[q] = NoReply
        /\ job[q].peer = p /\ msg = UpdateOf(q)
        /\ \A j \in DOMAIN backlog[p] : backlog[p][j] = msg => j = i + d
    BY <1>3, <1>4, <2>1 DEF OneUpdate, UpdateFrom, q
  <2>3. phase'[q] \in {"linked", "wait"} /\ inbox'[q] = NoReply /\ job'[q] = job[q]
    BY <1>6, <1>8, <2>1, <2>2 DEF WaitsOn
  <2>4. \A j \in DOMAIN backlog'[p] : backlog'[p][j] = msg => j = i
    BY <1>1, <1>3, <1>4, <2>2
  <2> QED BY <2>1, <2>2, <2>3, <2>4 DEF UpdateOf
<1>7. msg.e <= epoch'[q]
  BY <1>5
<1> QED BY <1>4, <1>6, <1>7 DEF UpdateFrom, q

\* Only SyncConnect adds updates to backlogs.
LEMMA ServerMessages ==
  ASSUME NoCut, TypeOK, NEW s \in Server, ServerStep(s) \/ OutsideStep(s), ~SyncConnect(s)
  PROVE  \E New : (\A msg \in New : msg.op \notin {"update", "ended"}) /\ \A p \in Server : Kept(p, New)
<1>1. CASE HandleGet(s) \/ HandleInsert(s)
  BY <1>1, KeptTail DEF HandleGet, HandleInsert, Accept
<1>2. CASE FinishInsert(s)
  BY <1>2, KeptSame DEF FinishInsert
<1>3. CASE SyncReset(s) \/ SyncTimeout(s) \/ StopClose(s) \/ Kill(s)
  BY <1>3, WhoDies, DieFields
<1>4. CASE Quietly(s)
  <2>1. [op |-> "shutdown"].op \notin {"update", "ended"}
    OBVIOUS
  <2> QED BY <1>4, <2>1, QuietlyKept
<1> QED BY <1>1, <1>2, <1>3, <1>4, Uncut DEF ServerStep, OutsideStep, Quietly

LEMMA ClientMessages ==
  ASSUME TypeOK, NEW c \in Client, ClientStep(c)
  PROVE  \E New : (\A msg \in New : msg.op \notin {"update", "ended"}) /\ \A p \in Server : Kept(p, New)
<1>1. ASSUME NEW s \in Server, NEW msg \in CallMsg, ClientCall(c, s, msg)
      PROVE  msg.op \notin {"update", "ended"} /\ \A p \in Server : Kept(p, {msg})
  BY <1>1, KeptAppend, KeptMore DEF ClientCall, CallMsg, Msg
<1>2. CASE Put(c) \/ Get(c)
  <2>1. nreq + 1 \in Nat \ {0}
    BY DEF TypeOK
  <2>2. \A k \in Key, v \in Value :
          [op |-> "insert", c |-> c, n |-> nreq + 1, k |-> k, v |-> v] \in CallMsg
    BY <2>1 DEF CallMsg
  <2>3. \A k \in Key : [op |-> "get", c |-> c, n |-> nreq + 1, k |-> k] \in CallMsg
    BY <2>1 DEF CallMsg
  <2>4. PICK s \in Server, msg \in CallMsg : ClientCall(c, s, msg)
    BY <1>2, <2>2, <2>3 DEF Put, Get
  <2> QED BY <1>1, <2>4
<1>3. CASE ~Put(c) /\ ~Get(c)
  <2>1. UNCHANGED backlog
    BY <1>3 DEF ClientStep, ConnectRefused, ClientReset, ClientTimeout, GiveUp
  <2> QED BY <2>1, KeptSame
<1> QED BY <1>2, <1>3

LEMMA UpdatesWait ==
  ASSUME TypeOK, OneUpdate, Onward, NEW New, \A q \in Server : WaitsOn(q),
         \A p \in Server : Kept(p, New), TypeOK'
  PROVE  \A p \in Server : \A i \in Updates(p)' : backlog'[p][i] \notin New => UpdateFrom(p, i)'
<1> DEFINE X == {}
<1>1. \A q \in Server \ X : WaitsOn(q)
  OBVIOUS
<1> HIDE DEF X
<1>2. \A p \in Server : \A i \in Updates(p)' :
        backlog'[p][i] \notin New => (backlog'[p][i].from \notin X => UpdateFrom(p, i)')
  BY <1>1, OneUpdateKept
<1> QED BY <1>2 DEF X

\* The update that HandleUpdate takes from a process that waits for the answer was the
\* only one of it.
LEMMA UpdateTaken ==
  ASSUME TypeOK, OneUpdate, NEW s \in Server, HandleUpdate(s)
  PROVE  LET msg == Head(backlog[s]) IN
         /\ msg \in UpdateMsg /\ msg.e <= epoch[msg.from] /\ phase[s] = "idle"
         /\ msg.e = epoch[msg.from] /\ phase[msg.from] = "wait" =>
              /\ msg = UpdateOf(msg.from) /\ job[msg.from].peer = s /\ msg.from # s
              /\ inbox[msg.from] = NoReply
              /\ \A p \in Server : \A i \in Updates(p)' :
                   backlog'[p][i].from = msg.from => backlog'[p][i].e < epoch[msg.from]
<1> DEFINE msg == Head(backlog[s])
           q == msg.from
<1>1. /\ backlog[s] # <<>> /\ msg.op = "update" /\ phase[s] = "idle"
      /\ backlog' = [backlog EXCEPT ![s] = Tail(@)]
  BY DEF HandleUpdate, Accept
<1>2. /\ 1 \in DOMAIN backlog[s] /\ backlog[s][1] = msg
      /\ \A i \in DOMAIN backlog'[s] : /\ i \in Nat \ {0} /\ i + 1 \in DOMAIN backlog[s]
                                       /\ backlog[s][i + 1] = backlog'[s][i]
      /\ \A p \in Server \ {s} : backlog'[p] = backlog[p]
  BY <1>1, KeptTail
<1>3. 1 \in Updates(s)
  BY <1>1, <1>2 DEF Updates
<1>4. msg \in UpdateMsg /\ UpdateFrom(s, 1) /\ backlog[s][1] = msg
  BY <1>2, <1>3, BacklogType DEF OneUpdate
<1> HIDE DEF msg
<1>5. msg.e <= epoch[q] /\ q \in Server
  BY <1>4 DEF UpdateFrom, UpdateMsg
<1>6. ASSUME msg.e = epoch[q], phase[q] = "wait"
      PROVE  /\ msg = UpdateOf(q) /\ job[q].peer = s /\ q # s /\ inbox[q] = NoReply
             /\ \A p \in Server : \A i \in Updates(p)' : backlog'[p][i].from = q => backlog'[p][i].e < epoch[q]
  <2>1. IsUp(q)
    BY <1>6 DEF IsUp, Up
  <2>2. /\ msg = UpdateOf(q) /\ job[q].peer = s /\ inbox[q] = NoReply
        /\ \A j \in DOMAIN backlog[s] : backlog[s][j] = msg => j = 1
    BY <1>4, <1>6, <2>1 DEF UpdateFrom
  <2>3. ASSUME NEW p \in Server, NEW j \in Updates(p), backlog[p][j].from = q, p # s \/ j # 1
        PROVE  backlog[p][j].e < epoch[q]
    <3>1. backlog[p][j] \in UpdateMsg /\ backlog[p][j].e <= epoch[q] /\ epoch[q] \in Nat /\ backlog[p][j].e \in Nat
      BY <1>5, <2>3, BacklogType DEF OneUpdate, UpdateFrom, TypeOK, UpdateMsg
    <3>2. backlog[p][j].e = epoch[q] => p = s /\ backlog[p][j] = msg
      BY <1>6, <2>1, <2>2, <2>3 DEF OneUpdate, UpdateFrom
    <3>3. backlog[p][j].e # epoch[q]
      BY <2>2, <2>3, <3>2 DEF Updates
    <3> QED BY <3>1, <3>3
  <2>4. ASSUME NEW p \in Server, NEW i \in Updates(p)', backlog'[p][i].from = q
        PROVE  backlog'[p][i].e < epoch[q]
    <3>1. i \in DOMAIN backlog'[p] /\ backlog'[p][i].op = "update"
      BY DEF Updates
    <3>2. CASE p = s
      <4>1. i + 1 \in Updates(s) /\ i + 1 # 1 /\ backlog[s][i + 1] = backlog'[s][i]
        BY <1>2, <3>1, <3>2 DEF Updates
      <4> QED BY <2>3, <2>4, <3>2, <4>1
    <3>3. CASE p # s
      <4>1. i \in Updates(p) /\ backlog[p][i] = backlog'[p][i]
        BY <1>2, <3>1, <3>3 DEF Updates
      <4> QED BY <2>3, <2>4, <3>3, <4>1
    <3> QED BY <3>2, <3>3
  <2> QED BY <1>1, <1>6, <2>2, <2>4
<1> QED BY <1>1, <1>4, <1>5, <1>6 DEF msg

LEMMA OneUpdateServer ==
  ASSUME NoCut, TypeOK, TypeOK', OneUpdate, Onward, NEW s \in Server, ServerStep(s) \/ OutsideStep(s),
         \A p \in Server : AnswerHolds(p)
  PROVE  OneUpdate'
<1>1. CASE HandleUpdate(s)
  <2> DEFINE msg == Head(backlog[s])
             q == msg.from
             taken == msg.e = epoch[q] /\ phase[q] = "wait"
             X == IF taken THEN {q} ELSE {}
  <2>1. backlog[s] # <<>> /\ backlog' = [backlog EXCEPT ![s] = Tail(@)] /\ UNCHANGED <<phase, job, epoch>>
    BY <1>1 DEF HandleUpdate, Accept, procVars
  <2>2. \A p \in Server : Kept(p, {})
    BY <2>1, KeptTail
  <2>3. \A p \in Server \ X : inbox'[p] = inbox[p]
    BY <1>1 DEF HandleUpdate, TypeOK
  <2>4. taken => \A p \in Server : \A i \in Updates(p)' :
                   backlog'[p][i].from = q => backlog'[p][i].e < epoch[q]
    BY <1>1, UpdateTaken
  <2>5. msg \in UpdateMsg /\ q \in Server
    BY <1>1, UpdateTaken DEF UpdateMsg
  <2> HIDE DEF msg, q
  <2>6. \A p \in Server \ X : WaitsOn(p)
    BY <2>1, <2>3 DEF WaitsOn
  <2> HIDE DEF taken, X
  <2>7. ASSUME NEW p \in Server, NEW i \in Updates(p)' PROVE UpdateFrom(p, i)'
    <3>1. /\ backlog'[p][i] \in UpdateMsg /\ backlog'[p][i].e <= epoch'[backlog'[p][i].from]
          /\ backlog'[p][i].from \notin X => UpdateFrom(p, i)'
      BY <2>2, <2>6, OneUpdateKept
    <3>2. CASE backlog'[p][i].from \in X
      <4>1. backlog'[p][i].from = q /\ backlog'[p][i].e < epoch[q]
        BY <2>4, <3>2 DEF X
      <4>2. backlog'[p][i].e # epoch'[q]
        <5>1. epoch'[q] = epoch[q] /\ epoch[q] \in Nat
          BY <2>1, <2>5 DEF TypeOK
        <5>2. backlog'[p][i].e \in Nat
          BY <3>1 DEF UpdateMsg
        <5> QED BY <4>1, <5>1, <5>2
      <4> QED BY <3>1, <4>1, <4>2 DEF UpdateFrom
    <3> QED BY <3>1, <3>2
  <2> QED BY <2>7 DEF OneUpdate
<1>2. CASE SyncConnect(s)
  <2> DEFINE p == job[s].peer
             msg == UpdateOf(s)
  <2>1. /\ msg \in UpdateMsg /\ msg \in Msg /\ p \in Server
        /\ backlog' = [backlog EXCEPT ![p] = Append(@, msg)]
    BY <1>2, Sends
  <2>2. /\ \A r \in Server \ {p} : backlog'[r] = backlog[r]
        /\ \A i \in DOMAIN backlog'[p] :
             i = Len(backlog[p]) + 1 \/ (i \in DOMAIN backlog[p] /\ backlog'[p][i] = backlog[p][i])
        /\ backlog'[p][Len(backlog[p]) + 1] = msg
        /\ \A r \in Server : Kept(r, {msg})
    BY <2>1, KeptAppend, KeptMore
  <2>3. /\ phase[s] = "send" /\ phase'[s] = "linked" /\ UNCHANGED <<inbox, job, epoch>>
        /\ msg.from = s /\ msg.e = epoch[s] /\ msg.op = "update"
    BY <1>2 DEF SyncConnect, procVars, TypeOK, UpdateOf
  <2>4. \A r \in Server : \A i \in DOMAIN backlog[r] : backlog[r][i] # msg
    <3>1. IsUp(s)
      BY <2>3 DEF IsUp, Up
    <3> QED BY <2>3, <3>1 DEF OneUpdate, UpdateFrom, Updates
  <2>5. \A r \in Server : WaitsOn(r)
    BY <1>2, WaitsStep DEF ServerStep, SyncConnect, HandleUpdate, Accept
  <2>6. UpdateOf(s)' = msg
    BY <2>3 DEF UpdateOf
  <2> HIDE DEF msg
  <2>7. ASSUME NEW r \in Server, NEW i \in Updates(r)' PROVE UpdateFrom(r, i)'
    <3>1. CASE backlog'[r][i] # msg
      <4>1. \A u \in Server : \A j \in Updates(u)' : backlog'[u][j] \notin {msg} => UpdateFrom(u, j)'
        BY <2>2, <2>5, UpdatesWait
      <4> QED BY <3>1, <4>1
    <3>2. CASE backlog'[r][i] = msg
      <4>1. i \in DOMAIN backlog'[r]
        BY DEF Updates
      <4>2. r = p /\ \A j \in DOMAIN backlog'[p] : backlog'[p][j] = msg => j = Len(backlog[p]) + 1
        BY <2>1, <2>2, <2>4, <3>2, <4>1
      <4>3. inbox[s] = NoReply
        BY <2>3 DEF AnswerHolds
      <4>4. msg.e <= epoch'[s] /\ phase'[s] = "linked" /\ inbox'[s] = NoReply /\ job'[s].peer = r
        BY <2>1, <2>3, <4>2, <4>3 DEF UpdateMsg
      <4>5. \A j \in DOMAIN backlog'[r] : backlog'[r][j] = msg => j = i
        BY <3>2, <4>1, <4>2
      <4> QED BY <2>3, <2>6, <3>2, <4>4, <4>5 DEF UpdateFrom
    <3> QED BY <3>1, <3>2
  <2> QED BY <2>7 DEF OneUpdate
<1>3. CASE ~HandleUpdate(s) /\ ~SyncConnect(s)
  <2>1. \A p \in Server : WaitsOn(p)
    BY <1>3, WaitsStep
  <2>2. PICK New : (\A msg \in New : msg.op \notin {"update", "ended"}) /\ \A p \in Server : Kept(p, New)
    BY <1>3, ServerMessages
  <2>3. ASSUME NEW p \in Server, NEW i \in Updates(p)' PROVE UpdateFrom(p, i)'
    <3>1. backlog'[p][i] \notin New
      BY <2>2 DEF Updates
    <3> QED BY <2>1, <2>2, <3>1, UpdatesWait
  <2> QED BY <2>3 DEF OneUpdate
<1> QED BY <1>1, <1>2, <1>3

LEMMA OneUpdateClient ==
  ASSUME TypeOK, TypeOK', OneUpdate, NEW c \in Client, ClientStep(c)
  PROVE  OneUpdate'
<1>1. UNCHANGED <<phase, job, inbox, epoch>>
  BY ClientFrame
<1>2. Onward /\ \A p \in Server : WaitsOn(p)
  BY <1>1 DEF Onward, WaitsOn, IsUp, TypeOK
<1>3. PICK New : (\A msg \in New : msg.op \notin {"update", "ended"}) /\ \A p \in Server : Kept(p, New)
  BY ClientMessages
<1>4. \A p \in Server : \A i \in Updates(p)' : backlog'[p][i] \notin New => UpdateFrom(p, i)'
  BY <1>2, <1>3, UpdatesWait
<1>5. \A p \in Server : \A i \in Updates(p)' : backlog'[p][i] \notin New
  BY <1>3 DEF Updates
<1> QED BY <1>4, <1>5 DEF OneUpdate

(***************************************************************************)
(* No connection that has ended.                                           *)
(***************************************************************************)
LEMMA HeardKept ==
  ASSUME Heard, NEW New, \A msg \in New : msg.op \notin {"update", "ended"},
         \A p \in Server : Kept(p, New)
  PROVE  Heard'
<1> SUFFICES ASSUME NEW p \in Server, NEW i \in DOMAIN backlog'[p] PROVE backlog'[p][i] # Ended
  BY DEF Heard, Ended
<1>1. PICK d \in {0, 1} : \A j \in DOMAIN backlog'[p] :
        j \in Nat /\ (backlog'[p][j] \notin New =>
                        j + d \in DOMAIN backlog[p] /\ backlog[p][j + d] = backlog'[p][j])
  BY DEF Kept
<1>2. Ended \notin New
  BY DEF Ended
<1> QED BY <1>1, <1>2 DEF Heard

LEMMA HeardStep ==
  ASSUME NoCut, TypeOK, Heard, Next
  PROVE  Heard'
<1>1. ASSUME NEW s \in Server, SyncConnect(s) PROVE Heard'
  <2>1. PICK peer \in Server, msg \in UpdateMsg :
          /\ msg = UpdateOf(s) /\ backlog' = [backlog EXCEPT ![peer] = Append(@, msg)] /\ msg \in Msg
    BY <1>1, Sends
  <2>2. /\ \A p \in Server \ {peer} : backlog'[p] = backlog[p]
        /\ \A i \in DOMAIN backlog'[peer] :
             backlog'[peer][i] = msg \/ (i \in DOMAIN backlog[peer] /\ backlog'[peer][i] = backlog[peer][i])
    BY <2>1, KeptAppend
  <2>3. msg # Ended
    BY <2>1 DEF UpdateOf, Ended
  <2> QED BY <2>2, <2>3 DEF Heard, Ended
<1>2. ASSUME NEW s \in Server, ServerStep(s) \/ OutsideStep(s), ~SyncConnect(s) PROVE Heard'
  BY <1>2, ServerMessages, HeardKept
<1>3. ASSUME NEW c \in Client, ClientStep(c) PROVE Heard'
  BY <1>3, ClientMessages, HeardKept
<1> QED BY <1>1, <1>2, <1>3 DEF Next

(***************************************************************************)
(* What the servers that have answered hold.                               *)
(***************************************************************************)

\* No process that holds the put of s loses it.
NotOlder(s) == \A p \in Server :
  epoch'[p] = epoch[p] /\ IsUp(p)' /\ mem[p].kvs[job[s].k].t >= job[s].t =>
    mem'[p].kvs[job[s].k].t >= job[s].t

LEMMA HoldsKept ==
  ASSUME TypeOK, TypeOK', Onward, NEW s \in Server, NEW p \in Server, NEW e \in Nat, NotOlder(s),
         job'[s].k = job[s].k, job'[s].t = job[s].t, Holds(s, p, e)
  PROVE  Holds(s, p, e)'
<1>1. epoch[p] \in Nat /\ epoch'[p] \in Nat /\ epoch'[p] >= epoch[p]
  BY DEF TypeOK, Onward
<1>2. e <= epoch'[p]
  BY <1>1 DEF Holds
<1>3. ASSUME e = epoch'[p], IsUp(p)' PROVE mem'[p].kvs[job[s].k].t >= job[s].t
  <2>1. e = epoch[p] /\ epoch'[p] = epoch[p] /\ IsUp(p)
    BY <1>1, <1>3 DEF Holds, Onward
  <2> QED BY <1>3, <2>1 DEF Holds, NotOlder
<1> QED BY <1>2, <1>3 DEF Holds

\* A server that the step does not touch.
LEMMA BystanderHolds ==
  ASSUME TypeOK, TypeOK', Onward, NEW s \in Server, AnswerHolds(s), PutHolds(s), Busy(s) => NotOlder(s),
         phase'[s] = phase[s], job'[s] = job[s], inbox'[s] = inbox[s], epoch'[s] = epoch[s]
  PROVE  AnswerHolds(s)' /\ PutHolds(s)'
<1>1. CASE ~Busy(s)
  <2>1. ~Busy(s)' /\ inbox[s] = NoReply
    BY <1>1 DEF Busy, AnswerHolds
  <2> QED BY <2>1 DEF AnswerHolds, PutHolds
<1>2. CASE Busy(s)
  <2>1. NotOlder(s) /\ job[s] \in Job /\ IsUp(s)'
    BY <1>2 DEF Busy, TypeOK, IsUp, Up
  <2>2. ASSUME NEW r \in job[s].reached PROVE Holds(s, r[1], r[2])'
    <3>1. r[1] \in Server /\ r[2] \in Nat
      BY <2>1 DEF Job
    <3>2. Holds(s, r[1], r[2])
      BY <1>2 DEF PutHolds
    <3> QED BY <2>1, <3>1, <3>2, HoldsKept
  <2>3. mem'[s].kvs[job'[s].k].t >= job'[s].t
    BY <1>2, <2>1 DEF PutHolds, NotOlder
  <2>4. PutHolds(s)'
    BY <2>2, <2>3 DEF PutHolds, Holds
  <2>5. ASSUME inbox[s] # NoReply PROVE Holds(s, job[s].peer, inbox[s].e)'
    <3>1. phase[s] = "wait" /\ Holds(s, job[s].peer, inbox[s].e)
      BY <2>5 DEF AnswerHolds
    <3>2. job[s].peer \in Server /\ inbox[s].e \in Nat
      BY <2>5, <3>1 DEF TypeOK, Reply
    <3> QED BY <2>1, <3>1, <3>2, HoldsKept
  <2>6. AnswerHolds(s)'
    BY <2>5 DEF AnswerHolds, Holds
  <2> QED BY <2>4, <2>6
<1> QED BY <1>1, <1>2

LEMMA Idles ==
  ASSUME NEW s \in Server, ~Busy(s)', inbox'[s] = NoReply
  PROVE  AnswerHolds(s)' /\ PutHolds(s)'
BY DEF AnswerHolds, PutHolds

\* receive makes no entry older, stores the update or keeps a newer entry, and answers
\* with entries that it holds then.
LEMMA ReceiveNewer ==
  ASSUME NEW m \in Memory, NEW msg \in UpdateMsg, NEW k \in Key
  PROVE  /\ Receive(m, msg).kvs[k].t >= m.kvs[k].t
         /\ Receive(m, msg).kvs[msg.k].t >= msg.t
         /\ ReceiveReply(m, msg)[k] \in {NoEntry, Receive(m, msg).kvs[k]}
         /\ Receive(m, msg).kvs[k] \in {m.kvs[k], [v |-> msg.v, t |-> msg.t]}
<1>1. /\ m.kvs \in [Key -> MaybeEntry] /\ \A j \in Key : m.kvs[j].t \in Nat
      /\ msg.k \in Key /\ msg.t \in Nat
  BY DEF Memory, MaybeEntry, Entry, NoEntry, UpdateMsg
<1>2. Receive(m, msg).kvs = Store(m.kvs, msg.k, msg.v, msg.t)
  BY DEF Receive
<1>3. /\ Store(m.kvs, msg.k, msg.v, msg.t)[k].t >= m.kvs[k].t
      /\ Store(m.kvs, msg.k, msg.v, msg.t)[msg.k].t >= msg.t
      /\ Store(m.kvs, msg.k, msg.v, msg.t)[k] \in {m.kvs[k], [v |-> msg.v, t |-> msg.t]}
  BY <1>1 DEF Store
<1>4. ReceiveReply(m, msg)[k] \in {NoEntry, Store(m.kvs, msg.k, msg.v, msg.t)[k]}
  BY DEF ReceiveReply, Replay
<1> QED BY <1>2, <1>3, <1>4

LEMMA MemoryTimes == \A m \in Memory, k \in Key : m.kvs[k].t \in Nat
BY DEF Memory, MaybeEntry, Entry, NoEntry

LEMMA HoldsServer ==
  ASSUME OneClient, NoCut, OutageInv, TypeOK', Onward, NEW s \in Server,
         ServerStep(s) \/ OutsideStep(s)
  PROVE  \A p \in Server : AnswerHolds(p)' /\ PutHolds(p)'
<1>1. \A p \in Server : AnswerHolds(p) /\ PutHolds(p)
  BY DEF OutageInv
<1>2. TypeOK /\ OneCall /\ OneUpdate
  BY DEF OutageInv
<1>3. ASSUME UNCHANGED <<mem, phase, job, inbox, epoch>>, NEW p \in Server
      PROVE  AnswerHolds(p)' /\ PutHolds(p)'
  BY <1>1, <1>2, <1>3, BystanderHolds DEF NotOlder
<1>4. CASE HandleGet(s) \/ SendShutdown(s)
  BY <1>3, <1>4 DEF HandleGet, SendShutdown, procVars
<1>5. CASE HandleInsert(s)
  <2>1. Calm /\ Head(backlog[s]) \in CallMsg /\ Head(backlog[s]).op = "insert"
    BY <1>2, <1>5, CallTaken DEF HandleInsert, Accept
  <2>2. /\ \A p \in Server : inbox'[p] = NoReply
        /\ \A p \in Server \ {s} : ~Busy(p)'
    BY <1>1, <1>5, <2>1 DEF HandleInsert, AnswerHolds, Calm, Busy, OutageInv, TypeOK
  <2>3. PICK t \in InsertTimes(s) :
          /\ mem' = [mem EXCEPT ![s] = Insert(@, s, Head(backlog[s]).k, Head(backlog[s]).v, t)]
          /\ job'[s].k = Head(backlog[s]).k /\ job'[s].t = t /\ job'[s].reached = {}
    BY <1>2, <1>5, InsertFields
  <2>4. mem'[s].kvs[job'[s].k].t = job'[s].t /\ job'[s].t \in Nat
    <3>1. Head(backlog[s]).k \in Key
      BY <2>1 DEF CallMsg
    <3>2. mem[s].kvs \in [Key -> MaybeEntry]
      BY <1>2 DEF TypeOK, Memory
    <3>3. mem'[s].kvs[job'[s].k].t = job'[s].t
      BY <1>2, <2>3, <3>1, <3>2 DEF Insert, TypeOK
    <3>4. phase'[s] = "send"
      BY <1>2, <1>5 DEF HandleInsert, TypeOK
    <3>5. job'[s] \in Job
      BY <3>4 DEF TypeOK
    <3> QED BY <3>3, <3>5 DEF Job
  <2>5. PutHolds(s)'
    BY <2>3, <2>4 DEF PutHolds
  <2> QED BY <2>2, <2>5, Idles DEF AnswerHolds
<1>6. CASE HandleUpdate(s)
  <2>1. PICK msg \in UpdateMsg : msg = Head(backlog[s])
    BY <1>2, <1>6, UpdateTaken
  <2> DEFINE q == msg.from
  <2>2. /\ mem' = [mem EXCEPT ![s] = Receive(@, msg)]
        /\ inbox' = IF phase[q] = "wait" /\ epoch[q] = msg.e
                     THEN [inbox EXCEPT ![q] = [e |-> epoch[s], replay |-> ReceiveReply(mem[s], msg)]]
                     ELSE inbox
        /\ UNCHANGED <<phase, job, epoch>>
    BY <1>6, <2>1 DEF HandleUpdate, procVars
  <2>3. /\ msg \in UpdateMsg
        /\ msg.e = epoch[q] /\ phase[q] = "wait" => msg = UpdateOf(q) /\ job[q].peer = s /\ q # s
    BY <1>2, <1>6, <2>1, UpdateTaken
  <2> HIDE DEF q
  <2>4. mem[s] \in Memory /\ mem'[s] = Receive(mem[s], msg) /\ \A p \in Server \ {s} : mem'[p] = mem[p]
    BY <1>2, <2>2 DEF TypeOK
  <2>5. \A p \in Server, k \in Key : mem'[p].kvs[k].t >= mem[p].kvs[k].t /\ mem'[p].kvs[k].t \in Nat /\ mem[p].kvs[k].t \in Nat
    <3>1. \A p \in Server, k \in Key : mem'[p].kvs[k].t \in Nat /\ mem[p].kvs[k].t \in Nat
      BY <1>2, MemoryTimes DEF TypeOK
    <3> QED BY <2>3, <2>4, <3>1, ReceiveNewer
  <2>6. ASSUME NEW p \in Server, Busy(p) PROVE NotOlder(p) /\ job[p] \in Job
    <3>1. job[p] \in Job
      BY <1>2, <2>6 DEF TypeOK, Busy
    <3>2. job[p].k \in Key /\ job[p].t \in Nat
      BY <3>1 DEF Job
    <3> QED BY <2>5, <3>1, <3>2 DEF NotOlder
  <2>7. ASSUME NEW p \in Server, inbox'[p] = inbox[p] PROVE AnswerHolds(p)' /\ PutHolds(p)'
    BY <1>1, <1>2, <2>2, <2>6, <2>7, BystanderHolds
  <2>8. ASSUME phase[q] = "wait", epoch[q] = msg.e PROVE AnswerHolds(q)' /\ PutHolds(q)'
    <3>1. q \in Server /\ Busy(q) /\ q # s /\ msg = UpdateOf(q) /\ job[q].peer = s
      BY <2>3, <2>8 DEF UpdateMsg, Busy, q
    <3>2. NotOlder(q) /\ job[q] \in Job /\ IsUp(q)'
      BY <2>2, <2>6, <2>8, <3>1 DEF IsUp, Up
    <3>3. ASSUME NEW r \in job[q].reached PROVE Holds(q, r[1], r[2])'
      <4>1. r[1] \in Server /\ r[2] \in Nat /\ Holds(q, r[1], r[2])
        BY <1>1, <3>1, <3>2 DEF Job, PutHolds
      <4> QED BY <1>2, <2>2, <3>1, <3>2, <4>1, HoldsKept
    <3>4. mem'[q].kvs[job'[q].k].t >= job'[q].t
      BY <1>1, <2>2, <3>1, <3>2 DEF PutHolds, NotOlder
    <3>5. PutHolds(q)'
      BY <2>2, <3>3, <3>4 DEF PutHolds
    <3>6. inbox'[q] = [e |-> epoch[s], replay |-> ReceiveReply(mem[s], msg)]
      BY <1>2, <2>2, <2>8, <3>1 DEF TypeOK
    <3>7. msg.k = job[q].k /\ msg.t = job[q].t /\ msg.k \in Key /\ msg.t \in Nat
      BY <3>1, <3>2 DEF UpdateOf, Job
    <3>8. mem'[s].kvs[job[q].k].t >= job[q].t
      BY <2>3, <2>4, <3>7, ReceiveNewer
    <3>9. Holds(q, s, epoch[s])'
      BY <1>2, <2>2, <3>8 DEF Holds, TypeOK
    <3>10. ReceiveReply(mem[s], msg)[job[q].k].t \in {0} \cup {t \in Nat : t >= job[q].t}
      <4>1. ReceiveReply(mem[s], msg)[msg.k] \in {NoEntry, mem'[s].kvs[msg.k]}
        BY <2>3, <2>4, <3>7, ReceiveNewer
      <4> QED BY <2>5, <3>7, <3>8, <4>1 DEF NoEntry
    <3>11. AnswerHolds(q)'
      BY <2>2, <2>8, <3>1, <3>6, <3>9, <3>10 DEF AnswerHolds, Holds
    <3> QED BY <3>5, <3>11
  <2>9. \A p \in Server : inbox'[p] = inbox[p] \/ (p = q /\ phase[q] = "wait" /\ epoch[q] = msg.e)
    BY <1>2, <2>2 DEF TypeOK
  <2> QED BY <2>7, <2>8, <2>9
<1>7. CASE SyncReset(s) \/ SyncTimeout(s) \/ StopClose(s) \/ Kill(s)
  <2>1. PICK how \in Down : Die(s, how, backlog)
    BY <1>7, WhoDies
  <2>2. /\ ~Busy(s)' /\ ~IsUp(s)' /\ inbox'[s] = NoReply /\ UNCHANGED epoch
        /\ \A p \in Server \ {s} :
             phase'[p] = phase[p] /\ mem'[p] = mem[p] /\ job'[p] = job[p] /\ inbox'[p] = inbox[p]
    BY <1>2, <2>1, DieFields
  <2>3. \A p \in Server : NotOlder(p)
    BY <2>2 DEF NotOlder
  <2>4. \A p \in Server \ {s} : AnswerHolds(p)' /\ PutHolds(p)'
    BY <1>1, <1>2, <2>2, <2>3, BystanderHolds
  <2> QED BY <2>2, <2>4, Idles
<1>8. CASE HandleShutdown(s) \/ IdleTimeout(s) \/ Restart(s) \/ FinishInsert(s)
  <2>1. ~Busy(s)' /\ inbox'[s] = NoReply
    BY <1>1, <1>2, <1>8 DEF HandleShutdown, IdleTimeout, Restart, FinishInsert, BeginShutdown, Accept,
                            Busy, AnswerHolds, TypeOK, IsUp, Up
  <2>2. \A p \in Server \ {s} :
          /\ phase'[p] = phase[p] /\ mem'[p] = mem[p] /\ job'[p] = job[p]
          /\ inbox'[p] = inbox[p] /\ epoch'[p] = epoch[p]
    BY <1>2, <1>8 DEF HandleShutdown, IdleTimeout, Restart, FinishInsert, BeginShutdown, procVars, TypeOK
  <2>3. mem'[s] = mem[s] \/ epoch'[s] # epoch[s]
    BY <1>2, <1>8 DEF HandleShutdown, IdleTimeout, Restart, FinishInsert, BeginShutdown, TypeOK
  <2>4. \A p \in Server : NotOlder(p)
    BY <2>2, <2>3 DEF NotOlder
  <2>5. \A p \in Server \ {s} : AnswerHolds(p)' /\ PutHolds(p)'
    BY <1>1, <1>2, <2>2, <2>4, BystanderHolds
  <2> QED BY <2>1, <2>5, Idles
<1>9. CASE SyncRefused(s) \/ SyncConnect(s) \/ SyncSend(s)
  <2>1. Busy(s) /\ phase[s] # "wait" /\ inbox[s] = NoReply /\ job[s] \in Job
    BY <1>1, <1>2, <1>9 DEF SyncRefused, SyncConnect, SyncSend, Busy, AnswerHolds, TypeOK
  <2>2. /\ UNCHANGED <<mem, inbox, epoch>>
        /\ \A p \in Server \ {s} : phase'[p] = phase[p] /\ job'[p] = job[p]
        /\ job'[s].k = job[s].k /\ job'[s].t = job[s].t /\ job'[s].reached = job[s].reached
    <3>1. CASE SyncRefused(s)
      BY <1>2, <2>1, <3>1 DEF SyncRefused, procVars, TypeOK, Job
    <3>2. CASE SyncConnect(s) \/ SyncSend(s)
      BY <1>2, <3>2 DEF SyncConnect, SyncSend, procVars, TypeOK
    <3> QED BY <1>9, <3>1, <3>2
  <2>3. \A p \in Server : NotOlder(p)
    BY <2>2 DEF NotOlder
  <2>4. \A p \in Server \ {s} : AnswerHolds(p)' /\ PutHolds(p)'
    BY <1>1, <1>2, <2>2, <2>3, BystanderHolds
  <2>5. ASSUME NEW r \in job[s].reached PROVE Holds(s, r[1], r[2])'
    <3>1. r[1] \in Server /\ r[2] \in Nat /\ Holds(s, r[1], r[2])
      BY <1>1, <2>1 DEF Job, PutHolds
    <3> QED BY <1>2, <2>2, <2>3, <3>1, HoldsKept
  <2>6. mem'[s].kvs[job'[s].k].t >= job'[s].t
    BY <1>1, <2>1, <2>2 DEF PutHolds
  <2>7. PutHolds(s)' /\ AnswerHolds(s)'
    BY <2>1, <2>2, <2>5, <2>6 DEF PutHolds, AnswerHolds
  <2> QED BY <2>4, <2>7
<1>10. CASE SyncReply(s)
  <2> DEFINE k == job[s].k
             answer == inbox[s].replay
  <2>1. /\ phase[s] = "wait" /\ Busy(s) /\ inbox[s] # NoReply /\ inbox[s] \in Reply
        /\ job[s] \in Job /\ job[s].peer \in Server /\ \A p \in Server \ {s} : ~Busy(p)
    BY <1>2, <1>10, BusyOne DEF SyncReply, Busy, TypeOK
  <2>2. PICK peer \in Server, e \in Nat : peer = job[s].peer /\ e = inbox[s].e
    BY <2>1 DEF Reply
  <2>3. /\ mem' = [mem EXCEPT ![s] = Update(@, s, peer, answer)]
        /\ inbox' = [inbox EXCEPT ![s] = NoReply] /\ UNCHANGED epoch
        /\ phase' = [phase EXCEPT ![s] = "send"]
    BY <1>10, <2>2 DEF SyncReply, procVars
  <2>4. /\ job'[s].k = k /\ job'[s].t = job[s].t
        /\ job'[s].reached = job[s].reached \cup {<<peer, e>>}
        /\ \A p \in Server \ {s} : job'[p] = job[p]
    BY <1>2, <1>10, <2>1, <2>2 DEF SyncReply, TypeOK, Job
  <2>5. k \in Key /\ job[s].t \in Nat /\ e \in Nat
    BY <2>1 DEF Job
  <2>6. mem'[s].kvs[k].t >= job[s].t
    <3>1. mem'[s].kvs[k] = IF answer[k].t > 0 THEN answer[k] ELSE mem[s].kvs[k]
      BY <1>2, <2>3, <2>5 DEF Update, TypeOK
    <3>2. answer[k].t \in {0} \cup {t \in Nat : t >= job[s].t} /\ job[s].t > 0
      BY <1>1, <2>1 DEF AnswerHolds, Job
    <3>3. mem[s].kvs[k].t >= job[s].t
      BY <1>1, <2>1 DEF PutHolds
    <3> QED BY <2>5, <3>1, <3>2, <3>3
  <2>7. NotOlder(s)
    <3>1. \A p \in Server \ {s} : mem'[p] = mem[p]
      BY <1>2, <2>3 DEF TypeOK
    <3> QED BY <2>6, <3>1 DEF NotOlder
  <2>8. ASSUME NEW r \in job'[s].reached PROVE Holds(s, r[1], r[2])'
    <3>1. CASE r \in job[s].reached
      <4>1. r[1] \in Server /\ r[2] \in Nat /\ Holds(s, r[1], r[2])
        BY <1>1, <2>1, <3>1 DEF Job, PutHolds
      <4> QED BY <1>2, <2>4, <2>7, <4>1, HoldsKept
    <3>2. CASE r = <<peer, e>>
      <4>1. Holds(s, peer, e)
        BY <1>1, <2>1, <2>2 DEF AnswerHolds
      <4>2. Holds(s, peer, e)'
        BY <1>2, <2>1, <2>4, <2>5, <2>7, <4>1, HoldsKept
      <4> QED BY <3>2, <4>2
    <3> QED BY <2>4, <2>8, <3>1, <3>2
  <2>9. PutHolds(s)'
    BY <2>4, <2>6, <2>8 DEF PutHolds
  <2>10. inbox'[s] = NoReply
    BY <1>2, <2>3 DEF TypeOK
  <2>11. ASSUME NEW p \in Server \ {s} PROVE AnswerHolds(p)' /\ PutHolds(p)'
    <3>1. ~Busy(p)' /\ inbox'[p] = NoReply
      BY <1>1, <1>2, <2>1, <2>3 DEF Busy, AnswerHolds, TypeOK
    <3> QED BY <3>1, Idles
  <2> QED BY <2>9, <2>10, <2>11 DEF AnswerHolds
<1> QED BY <1>4, <1>5, <1>6, <1>7, <1>8, <1>9, <1>10, Uncut DEF ServerStep, OutsideStep

LEMMA HoldsClient ==
  ASSUME OutageInv, TypeOK', NEW c \in Client, ClientStep(c)
  PROVE  \A p \in Server : AnswerHolds(p)' /\ PutHolds(p)'
<1>1. UNCHANGED <<phase, mem, job, inbox, epoch>>
  BY ClientFrame
<1>2. TypeOK /\ Onward /\ \A p \in Server : NotOlder(p)
  BY <1>1 DEF Onward, NotOlder, IsUp, OutageInv, TypeOK
<1> QED BY <1>1, <1>2, BystanderHolds DEF OutageInv

(***************************************************************************)
(* One entry of each time.                                                 *)
(***************************************************************************)

\* Where x can be an entry.
EntryAt(x) ==
  \/ \E s \in Server, k \in Key : x = <<k, mem[s].kvs[k].t, mem[s].kvs[k].v>>
  \/ \E s \in Server, k \in Key : disk[s] # Nothing /\ x = <<k, disk[s].kvs[k].t, disk[s].kvs[k].v>>
  \/ \E s \in Server, k \in Key :
       inbox[s] # NoReply /\ x = <<k, inbox[s].replay[k].t, inbox[s].replay[k].v>>
  \/ \E k \in Key : x = <<k, 0, NoValue>>
  \/ \E s \in Server : Busy(s) /\ x = <<job[s].k, job[s].t, job[s].v>>
  \/ \E s \in Server : \E i \in Updates(s) : x = <<backlog[s][i].k, backlog[s][i].t, backlog[s][i].v>>

EntriesAt == \A x : x \in Entries <=> EntryAt(x)

LEMMA EntryIn == EntriesAt
<1> SUFFICES ASSUME NEW x PROVE x \in Entries <=> EntryAt(x)
  BY DEF EntriesAt
<1> DEFINE none == [k \in Key |-> NoEntry]
<1>1. \A kvs : x \in EntriesOf(kvs) <=> \E k \in Key : x = <<k, kvs[k].t, kvs[k].v>>
  BY DEF EntriesOf
<1>2. x \in EntriesOf(none) <=> \E k \in Key : x = <<k, 0, NoValue>>
  BY <1>1 DEF NoEntry
<1>3. \A kvs : kvs \in Tables <=>
        \/ kvs \in {mem[s].kvs : s \in Server}
        \/ kvs \in {disk[s].kvs : s \in {p \in Server : disk[p] # Nothing}}
        \/ kvs \in {inbox[s].replay : s \in {p \in Server : inbox[p] # NoReply}}
        \/ kvs = none
  BY DEF Tables
<1> HIDE DEF none
<1>4. x \in TableEntries <=> \E kvs \in Tables : x \in EntriesOf(kvs)
  BY DEF TableEntries
<1>5. ASSUME x \in TableEntries
      PROVE  \/ \E s \in Server : x \in EntriesOf(mem[s].kvs)
             \/ \E s \in Server : disk[s] # Nothing /\ x \in EntriesOf(disk[s].kvs)
             \/ \E s \in Server : inbox[s] # NoReply /\ x \in EntriesOf(inbox[s].replay)
             \/ x \in EntriesOf(none)
  <2>1. PICK kvs \in Tables : x \in EntriesOf(kvs)
    BY <1>4, <1>5
  <2> QED BY <1>3, <2>1
<1>6. ASSUME NEW kvs \in Tables, x \in EntriesOf(kvs) PROVE x \in TableEntries
  BY <1>4, <1>6
<1>7. /\ \A s \in Server : mem[s].kvs \in Tables
      /\ \A s \in Server : disk[s] # Nothing => disk[s].kvs \in Tables
      /\ \A s \in Server : inbox[s] # NoReply => inbox[s].replay \in Tables
      /\ none \in Tables
  BY <1>3
<1>8. x \in PutEntries <=> \E y \in Puts : x = <<y.k, y.t, y.v>>
  BY DEF PutEntries
<1>9. \A y : y \in Puts <=> \/ \E s \in Server : Busy(s) /\ y = job[s]
                           \/ \E s \in Server : \E i \in Updates(s) : y = backlog[s][i]
  BY DEF Puts
<1>10. x \in PutEntries <=>
         \/ \E s \in Server : Busy(s) /\ x = <<job[s].k, job[s].t, job[s].v>>
         \/ \E s \in Server : \E i \in Updates(s) :
              x = <<backlog[s][i].k, backlog[s][i].t, backlog[s][i].v>>
  BY <1>8, <1>9
<1>11. x \in TableEntries <=>
         \/ \E s \in Server, k \in Key : x = <<k, mem[s].kvs[k].t, mem[s].kvs[k].v>>
         \/ \E s \in Server, k \in Key : disk[s] # Nothing /\ x = <<k, disk[s].kvs[k].t, disk[s].kvs[k].v>>
         \/ \E s \in Server, k \in Key :
              inbox[s] # NoReply /\ x = <<k, inbox[s].replay[k].t, inbox[s].replay[k].v>>
         \/ \E k \in Key : x = <<k, 0, NoValue>>
  <2>1. \A s \in Server :
          /\ x \in EntriesOf(mem[s].kvs) <=> \E k \in Key : x = <<k, mem[s].kvs[k].t, mem[s].kvs[k].v>>
          /\ x \in EntriesOf(disk[s].kvs) <=> \E k \in Key : x = <<k, disk[s].kvs[k].t, disk[s].kvs[k].v>>
          /\ x \in EntriesOf(inbox[s].replay) <=>
               \E k \in Key : x = <<k, inbox[s].replay[k].t, inbox[s].replay[k].v>>
    BY <1>1
  <2>2. x \in TableEntries <=>
          \/ \E s \in Server : x \in EntriesOf(mem[s].kvs)
          \/ \E s \in Server : disk[s] # Nothing /\ x \in EntriesOf(disk[s].kvs)
          \/ \E s \in Server : inbox[s] # NoReply /\ x \in EntriesOf(inbox[s].replay)
          \/ x \in EntriesOf(none)
    BY <1>5, <1>6, <1>7
  <2> QED BY <1>2, <2>1, <2>2
<1>12. x \in Entries <=> x \in TableEntries \/ x \in PutEntries
  BY DEF Entries
<1> QED BY <1>10, <1>11, <1>12 DEF EntryAt

LEMMA EntriesHere ==
  /\ \A s \in Server, k \in Key :
       /\ <<k, mem[s].kvs[k].t, mem[s].kvs[k].v>> \in Entries
       /\ disk[s] # Nothing => <<k, disk[s].kvs[k].t, disk[s].kvs[k].v>> \in Entries
       /\ inbox[s] # NoReply => <<k, inbox[s].replay[k].t, inbox[s].replay[k].v>> \in Entries
       /\ <<k, 0, NoValue>> \in Entries
  /\ \A s \in Server : Busy(s) => <<job[s].k, job[s].t, job[s].v>> \in Entries
  /\ \A s \in Server : \A i \in Updates(s) :
       <<backlog[s][i].k, backlog[s][i].t, backlog[s][i].v>> \in Entries
BY EntryIn DEF EntriesAt, EntryAt

\* What is at server s after a step was an entry before it, but for New.
MemoryFrom(s, New) == \A k \in Key : <<k, mem'[s].kvs[k].t, mem'[s].kvs[k].v>> \in Entries \cup New
DiskFrom(s) == disk'[s] # Nothing =>
  \A k \in Key : <<k, disk'[s].kvs[k].t, disk'[s].kvs[k].v>> \in Entries
AnswerFrom(s) == inbox'[s] # NoReply =>
  \A k \in Key : <<k, inbox'[s].replay[k].t, inbox'[s].replay[k].v>> \in Entries
PutFrom(s, New) == Busy(s)' => <<job'[s].k, job'[s].t, job'[s].v>> \in Entries \cup New
UpdatesFrom(s) ==
  \A i \in Updates(s)' : <<backlog'[s][i].k, backlog'[s][i].t, backlog'[s][i].v>> \in Entries
AllFrom(New) == \A s \in Server :
  MemoryFrom(s, New) /\ DiskFrom(s) /\ AnswerFrom(s) /\ PutFrom(s, New) /\ UpdatesFrom(s)

LEMMA EntriesFrom ==
  ASSUME NEW New, AllFrom(New)
  PROVE  Entries' \subseteq Entries \cup New
<1> SUFFICES ASSUME NEW x \in Entries' PROVE x \in Entries \cup New
  OBVIOUS
<1>1. \A k \in Key : <<k, 0, NoValue>> \in Entries
  BY EntryIn DEF EntriesAt, EntryAt
<1>2. EntriesAt'
  BY EntryIn, PTL
<1>3. EntryAt(x)'
  BY <1>2 DEF EntriesAt
<1> QED BY <1>1, <1>3 DEF EntryAt, AllFrom, MemoryFrom, DiskFrom, AnswerFrom, PutFrom, UpdatesFrom

\* A server that a step leaves alone has no new entries.
LEMMA SameFrom ==
  ASSUME NEW s \in Server, NEW New
  PROVE  /\ mem'[s] = mem[s] => MemoryFrom(s, New)
         /\ disk'[s] = disk[s] => DiskFrom(s)
         /\ inbox'[s] \in {inbox[s], NoReply} => AnswerFrom(s)
         /\ (Busy(s)' => Busy(s) /\ job'[s].k = job[s].k /\ job'[s].t = job[s].t /\ job'[s].v = job[s].v)
              => PutFrom(s, New)
BY EntriesHere DEF MemoryFrom, DiskFrom, AnswerFrom, PutFrom

LEMMA UpdatesStay ==
  ASSUME NEW New, \A msg \in New : msg.op # "update", \A p \in Server : Kept(p, New)
  PROVE  \A p \in Server : UpdatesFrom(p)
<1> SUFFICES ASSUME NEW p \in Server, NEW i \in Updates(p)'
             PROVE  \E j \in Updates(p) : backlog[p][j] = backlog'[p][i]
  BY EntriesHere DEF UpdatesFrom
<1>1. PICK d \in {0, 1} : \A j \in DOMAIN backlog'[p] :
        j \in Nat /\ (backlog'[p][j] \notin New =>
                        j + d \in DOMAIN backlog[p] /\ backlog[p][j + d] = backlog'[p][j])
  BY DEF Kept
<1>2. i \in DOMAIN backlog'[p] /\ backlog'[p][i].op = "update"
  BY DEF Updates
<1>3. i + d \in DOMAIN backlog[p] /\ backlog[p][i + d] = backlog'[p][i]
  BY <1>1, <1>2
<1> QED BY <1>2, <1>3 DEF Updates

LEMMA EntriesType ==
  ASSUME TypeOK, NEW x \in Entries
  PROVE  x[2] \in Nat
<1>1. \A s \in Server, k \in Key : mem[s].kvs[k].t \in Nat /\ (disk[s] # Nothing => disk[s].kvs[k].t \in Nat)
  BY MemoryTimes DEF TypeOK
<1>2. \A s \in Server, k \in Key : inbox[s] # NoReply => inbox[s].replay[k].t \in Nat
  <2> SUFFICES ASSUME NEW s \in Server, NEW k \in Key, inbox[s] # NoReply
               PROVE  inbox[s].replay[k].t \in Nat
    OBVIOUS
  <2>1. inbox[s].replay[k] \in MaybeEntry
    BY DEF TypeOK, Reply
  <2> QED BY <2>1 DEF MaybeEntry, Entry, NoEntry
<1>3. \A s \in Server : \A i \in Updates(s) : backlog[s][i].t \in Nat
  BY BacklogType DEF UpdateMsg
<1>4. \A s \in Server : Busy(s) => job[s].t \in Nat
  <2>1. \A s \in Server : Busy(s) => job[s] \in Job
    BY DEF TypeOK, Busy
  <2> QED BY <2>1 DEF Job
<1> QED BY <1>1, <1>2, <1>3, <1>4, EntryIn DEF EntriesAt, EntryAt

LEMMA OnceKept ==
  ASSUME EntryOnce, UNCHANGED clock, \A New : AllFrom(New)
  PROVE  EntryOnce'
<1>1. Entries' \subseteq Entries \cup {}
  BY EntriesFrom
<1> QED BY <1>1 DEF EntryOnce

LEMMA OnceMore ==
  ASSUME TypeOK, EntryOnce, NEW k, NEW v, AllFrom({<<k, clock + 1, v>>}),
         clock' = clock + 1
  PROVE  EntryOnce'
<1>1. clock \in Nat /\ \A x \in Entries : x[2] \in Nat /\ x[2] <= clock
  BY EntriesType DEF TypeOK, EntryOnce
<1>2. \A x, y \in Entries : x[1] = y[1] /\ x[2] = y[2] => x = y
  BY DEF EntryOnce
<1> DEFINE new == <<k, clock + 1, v>>
<1>3. new[2] = clock + 1 /\ Entries' \subseteq Entries \cup {new}
  BY EntriesFrom
<1> HIDE DEF new
<1>4. \A x \in Entries \cup {new} : x[2] <= clock'
  BY <1>1, <1>3
<1>5. \A x, y \in Entries \cup {new} : x[1] = y[1] /\ x[2] = y[2] => x = y
  BY <1>1, <1>2, <1>3
<1> QED BY <1>3, <1>4, <1>5 DEF EntryOnce

LEMMA OnceClient ==
  ASSUME TypeOK, EntryOnce, NEW c \in Client, ClientStep(c)
  PROVE  EntryOnce'
<1>1. UNCHANGED <<phase, mem, disk, job, inbox, clock>>
  BY ClientFrame
<1>2. \A p \in Server : UpdatesFrom(p)
  BY ClientMessages, UpdatesStay
<1>3. \A New : AllFrom(New)
  BY <1>1, <1>2, SameFrom DEF AllFrom, Busy
<1> QED BY <1>1, <1>3, OnceKept

LEMMA OnceServer ==
  ASSUME OneClient, NoCut, OutageInv, NEW s \in Server, ServerStep(s) \/ OutsideStep(s)
  PROVE  EntryOnce'
<1>1. TypeOK /\ OneCall /\ OneUpdate /\ EntryOnce
  BY DEF OutageInv
<1>2. CASE ~SyncConnect(s)
  <2>1. \A p \in Server : UpdatesFrom(p)
    BY <1>1, <1>2, ServerMessages, UpdatesStay
  <2>2. CASE \/ HandleGet(s) \/ HandleShutdown(s) \/ SyncRefused(s) \/ SyncSend(s) \/ FinishInsert(s)
             \/ IdleTimeout(s) \/ SendShutdown(s)
    <3>1. UNCHANGED <<mem, disk, inbox, clock>>
      BY <2>2 DEF HandleGet, HandleShutdown, SyncRefused, SyncSend, FinishInsert, IdleTimeout, SendShutdown,
                  BeginShutdown, procVars
    <3>2. ASSUME NEW p \in Server, Busy(p)'
          PROVE  Busy(p) /\ job'[p].k = job[p].k /\ job'[p].t = job[p].t /\ job'[p].v = job[p].v
      <4>1. CASE HandleGet(s)
        BY <3>2, <4>1 DEF HandleGet, Busy
      <4>2. CASE FinishInsert(s)
        BY <1>1, <3>2, <4>2 DEF FinishInsert, Busy, TypeOK
      <4>3. CASE Quietly(s)
        BY <1>1, <3>2, <4>3, QuietlyBusy
      <4> QED BY <2>2, <4>1, <4>2, <4>3 DEF Quietly
    <3>3. \A New : AllFrom(New)
      BY <2>1, <3>1, <3>2, SameFrom DEF AllFrom
    <3> QED BY <1>1, <3>1, <3>3, OnceKept
  <2>3. CASE HandleInsert(s)
    <3>1. PICK t \in InsertTimes(s), msg \in CallMsg :
            /\ mem' = [mem EXCEPT ![s] = Insert(@, s, msg.k, msg.v, t)] /\ clock' = t
            /\ job'[s].k = msg.k /\ job'[s].v = msg.v /\ job'[s].t = t
            /\ \A p \in Server \ {s} : job'[p] = job[p]
      <4>1. Head(backlog[s]) \in CallMsg
        BY <1>1, <2>3, CallTaken DEF HandleInsert
      <4> QED BY <1>1, <2>3, <4>1, InsertFields
    <3>2. Calm
      BY <1>1, <2>3, CallTaken DEF HandleInsert
    <3>3. t = clock + 1
      <4>1. \A p \in Server : job[p] = NoJob
        BY <1>1, <3>2 DEF Calm, Busy, TypeOK
      <4> QED BY <4>1 DEF InsertTimes
    <3> DEFINE k == msg.k
               v == msg.v
    <3>4. UNCHANGED <<disk, inbox>> /\ \A p \in Server \ {s} : ~Busy(p)' /\ mem'[p] = mem[p]
      BY <1>1, <2>3, <3>1, <3>2 DEF HandleInsert, procVars, Calm, Busy, TypeOK
    <3>5. MemoryFrom(s, {<<k, clock + 1, v>>})
      <4>1. mem'[s].kvs = [mem[s].kvs EXCEPT ![k] = [v |-> v, t |-> t]]
        BY <1>1, <3>1 DEF Insert, TypeOK
      <4>2. mem[s].kvs \in [Key -> MaybeEntry]
        BY <1>1 DEF TypeOK, Memory
      <4>3. \A j \in Key : mem'[s].kvs[j] = mem[s].kvs[j] \/ (j = k /\ mem'[s].kvs[j] = [v |-> v, t |-> t])
        BY <4>1, <4>2
      <4>4. ASSUME NEW j \in Key
            PROVE  <<j, mem'[s].kvs[j].t, mem'[s].kvs[j].v>> \in Entries \cup {<<k, clock + 1, v>>}
        <5>1. CASE mem'[s].kvs[j] = mem[s].kvs[j]
          BY <5>1, EntriesHere
        <5>2. CASE j = k /\ mem'[s].kvs[j] = [v |-> v, t |-> t]
          BY <3>3, <5>2
        <5> QED BY <4>3, <5>1, <5>2
      <4> QED BY <4>4 DEF MemoryFrom
    <3>6. PutFrom(s, {<<k, clock + 1, v>>})
      BY <3>1, <3>3 DEF PutFrom
    <3>7. AllFrom({<<k, clock + 1, v>>})
      BY <2>1, <3>4, <3>5, <3>6, SameFrom DEF AllFrom, PutFrom
    <3> QED BY <1>1, <3>1, <3>3, <3>7, OnceMore
  <2>4. CASE HandleUpdate(s)
    <3>1. PICK msg \in UpdateMsg : msg = Head(backlog[s])
      BY <1>1, <2>4, UpdateTaken
    <3>2. /\ mem' = [mem EXCEPT ![s] = Receive(@, msg)]
          /\ inbox' = IF phase[msg.from] = "wait" /\ epoch[msg.from] = msg.e
                       THEN [inbox EXCEPT ![msg.from] = [e |-> epoch[s], replay |-> ReceiveReply(mem[s], msg)]]
                       ELSE inbox
          /\ UNCHANGED <<phase, job, disk, clock>>
      BY <2>4, <3>1 DEF HandleUpdate, procVars
    <3>3. mem[s] \in Memory /\ mem'[s] = Receive(mem[s], msg) /\ \A p \in Server \ {s} : mem'[p] = mem[p]
      BY <1>1, <3>2 DEF TypeOK
    <3>4. <<msg.k, msg.t, msg.v>> \in Entries
      <4>1. backlog[s] # <<>> /\ backlog' = [backlog EXCEPT ![s] = Tail(@)] /\ msg.op = "update"
        BY <2>4, <3>1 DEF HandleUpdate, Accept
      <4>2. 1 \in Updates(s) /\ backlog[s][1] = msg
        BY <1>1, <3>1, <4>1, KeptTail DEF Updates
      <4> QED BY <4>2, EntriesHere
    <3>5. ASSUME NEW k \in Key PROVE <<k, mem'[s].kvs[k].t, mem'[s].kvs[k].v>> \in Entries
      <4>1. CASE mem'[s].kvs[k] = mem[s].kvs[k]
        BY <4>1, EntriesHere
      <4>2. CASE mem'[s].kvs[k] # mem[s].kvs[k]
        <5>1. k = msg.k /\ mem'[s].kvs[k] = [v |-> msg.v, t |-> msg.t]
          BY <3>3, <4>2 DEF Receive, Store, Memory, UpdateMsg
        <5> QED BY <3>4, <5>1
      <4> QED BY <4>1, <4>2
    <3>6. ASSUME NEW k \in Key
          PROVE  <<k, ReceiveReply(mem[s], msg)[k].t, ReceiveReply(mem[s], msg)[k].v>> \in Entries
      <4>1. ReceiveReply(mem[s], msg)[k] \in {NoEntry, mem'[s].kvs[k]}
        BY <3>3, ReceiveNewer
      <4>2. <<k, NoEntry.t, NoEntry.v>> \in Entries
        BY EntriesHere DEF NoEntry
      <4> QED BY <3>5, <4>1, <4>2
    <3>7. ASSUME NEW p \in Server PROVE AnswerFrom(p)
      <4>1. \/ inbox'[p] = inbox[p]
            \/ inbox'[p] = [e |-> epoch[s], replay |-> ReceiveReply(mem[s], msg)]
        BY <1>1, <3>2 DEF TypeOK
      <4>2. CASE inbox'[p] = inbox[p]
        BY <4>2, SameFrom
      <4>3. CASE inbox'[p] = [e |-> epoch[s], replay |-> ReceiveReply(mem[s], msg)]
        BY <3>6, <4>3 DEF AnswerFrom
      <4> QED BY <4>1, <4>2, <4>3
    <3>8. \A New : AllFrom(New)
      <4>1. \A New : MemoryFrom(s, New)
        BY <3>5 DEF MemoryFrom
      <4> QED BY <2>1, <3>2, <3>3, <3>7, <4>1, SameFrom DEF AllFrom, Busy
    <3> QED BY <1>1, <3>2, <3>8, OnceKept
  <2>5. CASE SyncReply(s)
    <3>1. PICK peer \in Server : peer = job[s].peer
      BY <1>1, <2>5 DEF SyncReply, TypeOK
    <3>2. /\ inbox[s] # NoReply /\ mem' = [mem EXCEPT ![s] = Update(@, s, peer, inbox[s].replay)]
          /\ inbox' = [inbox EXCEPT ![s] = NoReply] /\ UNCHANGED <<disk, clock>>
      BY <2>5, <3>1 DEF SyncReply, procVars
    <3>3. \A p \in Server : inbox'[p] \in {inbox[p], NoReply} /\ (p # s => mem'[p] = mem[p])
      BY <1>1, <3>2 DEF TypeOK
    <3>4. \A k \in Key : mem'[s].kvs[k] = inbox[s].replay[k] \/ mem'[s].kvs[k] = mem[s].kvs[k]
      BY <1>1, <3>2 DEF Update, TypeOK
    <3>5. \A New : MemoryFrom(s, New)
      BY <3>2, <3>4, EntriesHere DEF MemoryFrom
    <3>6. ASSUME NEW p \in Server, Busy(p)'
          PROVE  Busy(p) /\ job'[p].k = job[p].k /\ job'[p].t = job[p].t /\ job'[p].v = job[p].v
      BY <1>1, <2>5, <3>6, QuietlyBusy DEF Quietly
    <3>7. \A New : AllFrom(New)
      BY <2>1, <3>2, <3>3, <3>5, <3>6, SameFrom DEF AllFrom
    <3> QED BY <1>1, <3>2, <3>7, OnceKept
  <2>6. CASE SyncReset(s) \/ SyncTimeout(s) \/ StopClose(s) \/ Kill(s)
    <3>1. PICK how \in Down : Die(s, how, backlog)
      BY <2>6, WhoDies
    <3>2. /\ ~Busy(s)' /\ inbox'[s] = NoReply /\ UNCHANGED clock
          /\ \A p \in Server \ {s} :
               phase'[p] = phase[p] /\ mem'[p] = mem[p] /\ job'[p] = job[p] /\ inbox'[p] = inbox[p]
      BY <1>1, <3>1, DieFields
    <3>3. \A New : MemoryFrom(s, New)
      <4>1. \A k \in Key : mem'[s].kvs[k].t = 0 /\ mem'[s].kvs[k].v = NoValue
        BY <1>1, <3>1 DEF Die, Fresh, NoEntry, TypeOK
      <4> QED BY <4>1, EntriesHere DEF MemoryFrom
    <3>4. \A p \in Server : disk'[p] = disk[p] \/ (p = s /\ disk'[p] = mem[s])
      BY <1>1, <2>6, WhoDies DEF TypeOK
    <3>5. \A p \in Server : DiskFrom(p)
      BY <3>4, SameFrom, EntriesHere DEF DiskFrom
    <3>6. \A New : AllFrom(New)
      BY <2>1, <3>2, <3>3, <3>5, SameFrom DEF AllFrom, Busy, PutFrom
    <3> QED BY <1>1, <3>2, <3>6, OnceKept
  <2>7. CASE Restart(s)
    <3>1. PICK start \in {0, clock} :
            mem' = [mem EXCEPT ![s] = IF disk[s] = Nothing THEN Fresh(start) ELSE disk[s]]
      BY <2>7 DEF Restart
    <3>2. /\ UNCHANGED <<disk, inbox, clock>> /\ \A p \in Server \ {s} : mem'[p] = mem[p]
      BY <1>1, <2>7, <3>1 DEF Restart, TypeOK
    <3>3. \A k \in Key : \/ disk[s] # Nothing /\ mem'[s].kvs[k] = disk[s].kvs[k]
                         \/ mem'[s].kvs[k].t = 0 /\ mem'[s].kvs[k].v = NoValue
      BY <1>1, <3>1 DEF Fresh, NoEntry, TypeOK
    <3>4. \A New : MemoryFrom(s, New)
      BY <3>3, EntriesHere DEF MemoryFrom
    <3>5. ASSUME NEW p \in Server, Busy(p)'
          PROVE  Busy(p) /\ job'[p].k = job[p].k /\ job'[p].t = job[p].t /\ job'[p].v = job[p].v
      BY <1>1, <2>7, <3>5, QuietlyBusy DEF Quietly
    <3>6. \A New : AllFrom(New)
      BY <2>1, <3>2, <3>4, <3>5, SameFrom DEF AllFrom
    <3> QED BY <1>1, <3>2, <3>6, OnceKept
  <2> QED BY <1>2, <2>2, <2>3, <2>4, <2>5, <2>6, <2>7, Uncut DEF ServerStep, OutsideStep
<1>3. CASE SyncConnect(s)
  <2>1. PICK peer \in Server, msg \in UpdateMsg :
          /\ msg = UpdateOf(s) /\ backlog' = [backlog EXCEPT ![peer] = Append(@, msg)] /\ msg \in Msg
    BY <1>1, <1>3, Sends
  <2>2. /\ \A p \in Server \ {peer} : backlog'[p] = backlog[p]
        /\ \A i \in DOMAIN backlog'[peer] :
             backlog'[peer][i] = msg \/ (i \in DOMAIN backlog[peer] /\ backlog'[peer][i] = backlog[peer][i])
    BY <1>1, <2>1, KeptAppend
  <2>3. /\ Busy(s) /\ \A p \in Server : Busy(p)' => Busy(p)
        /\ UNCHANGED <<mem, disk, job, inbox, clock>>
    BY <1>1, <1>3 DEF SyncConnect, Busy, procVars, TypeOK
  <2>4. <<msg.k, msg.t, msg.v>> \in Entries
    BY <2>1, <2>3, EntriesHere DEF UpdateOf
  <2>5. \A p \in Server : UpdatesFrom(p)
    BY <2>2, <2>4, EntriesHere DEF UpdatesFrom, Updates
  <2>6. \A New : AllFrom(New)
    BY <2>3, <2>5, SameFrom DEF AllFrom
  <2> QED BY <1>1, <2>3, <2>6, OnceKept
<1> QED BY <1>2, <1>3

(***************************************************************************)
(* The theorems.                                                           *)
(***************************************************************************)
LEMMA OutageInit ==
  ASSUME Init
  PROVE  OutageInv
<1>1. /\ \A s \in Server : backlog[s] = <<>> /\ ~Busy(s) /\ inbox[s] = NoReply /\ disk[s] = Nothing
      /\ \A c \in Client : req[c] = NoReq
      /\ \A s \in Server, k \in Key : mem[s].kvs[k].t = 0 /\ mem[s].kvs[k].v = NoValue
      /\ clock = 0
  BY DEF Init, Busy, Fresh, NoEntry
<1>2. \A s \in Server : Updates(s) = {}
  BY <1>1 DEF Updates
<1>3. \A x \in Entries : \E k \in Key : x = <<k, 0, NoValue>>
  BY <1>1, <1>2, EntryIn DEF EntriesAt, EntryAt
<1>4. EntryOnce
  BY <1>1, <1>3 DEF EntryOnce
<1>5. Heard /\ OneCall /\ OneUpdate
  BY <1>1, <1>2 DEF Heard, OneCall, OneUpdate
<1>6. \A s \in Server : AnswerHolds(s) /\ PutHolds(s)
  BY <1>1 DEF AnswerHolds, PutHolds
<1> QED BY <1>4, <1>5, <1>6, TypeInit DEF OutageInv

LEMMA OutageStep ==
  ASSUME OneClient, NoCut, OutageInv, [Next]_vars
  PROVE  OutageInv'
<1>1. TypeOK /\ Heard /\ OneCall /\ OneUpdate /\ EntryOnce /\ \A s \in Server : AnswerHolds(s) /\ PutHolds(s)
  BY DEF OutageInv
<1>2. TypeOK'
  BY <1>1, TypeNext
<1>3. Next => Heard'
  BY <1>1, HeardStep
<1>4. ASSUME NEW c \in Client, ClientStep(c) PROVE OutageInv'
  BY <1>1, <1>2, <1>4, <1>3, OneCallClient, OneUpdateClient, HoldsClient, OnceClient DEF OutageInv, Next
<1>5. ASSUME NEW s \in Server, ServerStep(s) \/ OutsideStep(s) PROVE OutageInv'
  <2>1. Onward
    BY <1>1, <1>5, OnwardStep DEF Next
  <2>2. Heard'
    BY <1>5, <1>3 DEF Next
  <2> QED BY <1>1, <1>2, <1>5, <2>1, <2>2, OneCallServer, OneUpdateServer, HoldsServer, OnceServer
          DEF OutageInv
<1>6. CASE UNCHANGED vars
  <2>1. UNCHANGED <<phase, mem, disk, job, backlog, inbox, epoch, req, clock>>
    BY <1>6 DEF vars
  <2>2. \A p \in Server : Kept(p, {})
    BY <1>1, <2>1, KeptSame
  <2>3. Heard' /\ OneCall'
    BY <1>1, <2>1 DEF Heard, OneCall, Calm, Busy, IsCall
  <2>4. OneUpdate'
    BY <1>1, <2>1 DEF OneUpdate, UpdateFrom, Updates, UpdateOf, IsUp
  <2>5. \A s \in Server : AnswerHolds(s)' /\ PutHolds(s)'
    BY <1>1, <2>1 DEF AnswerHolds, PutHolds, Holds, Busy, IsUp
  <2>6. \A New : AllFrom(New)
    <3>1. \A p \in Server : UpdatesFrom(p)
      BY <2>2, UpdatesStay
    <3> QED BY <2>1, <3>1, SameFrom DEF AllFrom, Busy
  <2>7. EntryOnce'
    BY <1>1, <2>1, <2>6, OnceKept
  <2> QED BY <1>2, <2>3, <2>4, <2>5, <2>7 DEF OutageInv
<1> QED BY <1>4, <1>5, <1>6 DEF Next

\* With one client, whatever stops servers (but for a kill between connect and send: see
\* OneAlive), the inductive invariant holds: its call is in one place, a running process has at most the update it waits for an answer to on
\* its way, no process that took a put loses it, and of a key there is one entry of each
\* time, in memories, databases, answers and updates together (basic_server.py:131-200,
\* 280-301).
THEOREM OutageInvariant == ASSUME OneClient, NoCut PROVE Spec => []OutageInv
<1>1. Init => OutageInv
  BY OutageInit
<1>2. OutageInv /\ [Next]_vars => OutageInv'
  BY OutageStep
<1> QED BY <1>1, <1>2, PTL DEF Spec

\* With one client at most one server is ever busy with a put, even when its calls fail
\* because servers die under them, as long as none is killed between the connect and the
\* send of an update (basic_server.py:211, 219): what the protocol assumes (:66-68).
THEOREM OneServerBusy == ASSUME OneClient, NoCut PROVE Spec => []OneBusy
<1>1. OutageInv => OneBusy
  BY BusyOne DEF OutageInv, OneBusy
<1> QED BY <1>1, OutageInvariant, PTL

\* With one client, whatever stops servers but for a kill between connect and send, no
\* server waits for one that waits for it, directly or not, or for one that is deaf, so no
\* wait is left to a timeout (basic_server.py:212, 260-262, kvlib.py:159).
THEOREM NoWaitInACircle == ASSUME OneClient, NoCut PROVE Spec => []NoneStuck
<1>1. OutageInv => NoneStuck
  BY NeverStuck DEF OutageInv, NoneStuck
<1> QED BY <1>1, OutageInvariant, PTL

\* With one client, whatever stops servers, the servers that have answered the update of
\* a put, and the server it was made at, hold it or a later one until they are restarted
\* (receive, basic_server.py:285-287; update, basic_server.py:191-199).
THEOREM AnsweredPeersKeepUp == ASSUME OneClient, NoCut PROVE Spec => []PeersKeepUp
<1>1. ASSUME OutageInv PROVE PeersKeepUp
  <2> SUFFICES ASSUME NEW s \in Server, Busy(s)
               PROVE  /\ mem[s].kvs[job[s].k].t >= job[s].t
                      /\ \A p \in Server : <<p, epoch[p]>> \in job[s].reached /\ IsUp(p) =>
                           mem[p].kvs[job[s].k].t >= job[s].t
    BY DEF PeersKeepUp
  <2>1. PutHolds(s)
    BY <1>1 DEF OutageInv
  <2>2. \A p \in Server : <<p, epoch[p]>> \in job[s].reached => Holds(s, p, epoch[p])
    BY <2>1 DEF PutHolds
  <2> QED BY <2>1, <2>2 DEF PutHolds, Holds
<1> QED BY <1>1, OutageInvariant, PTL

\* With one client, whatever stops servers and whatever a restart finds, two entries of a
\* key with the same time have the same value: receive and update, which compare only
\* times (basic_server.py:191-199, 285-287), never take one put for another.
THEOREM TimesIdentifyPuts == ASSUME OneClient, NoCut PROVE Spec => []TimeIdentifiesPut
<1>1. ASSUME OutageInv PROVE TimeIdentifiesPut
  <2> SUFFICES ASSUME NEW p \in Server, NEW q \in Server, NEW k \in Key,
                      mem[p].kvs[k].t = mem[q].kvs[k].t
               PROVE  mem[p].kvs[k].v = mem[q].kvs[k].v
    BY DEF TimeIdentifiesPut
  <2> DEFINE x == <<k, mem[p].kvs[k].t, mem[p].kvs[k].v>>
             y == <<k, mem[q].kvs[k].t, mem[q].kvs[k].v>>
  <2>1. x \in Entries /\ y \in Entries /\ x[1] = y[1] /\ x[2] = y[2]
    BY EntriesHere
  <2>2. x = y
    BY <1>1, <2>1 DEF OutageInv, EntryOnce
  <2> QED BY <2>2
<1> QED BY <1>1, OutageInvariant, PTL
=============================================================================
