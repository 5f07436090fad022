--------------------------- MODULE KvServerProofs ---------------------------
(***************************************************************************)
(* Theorems about KvServer, for every number of servers, clients, keys,    *)
(* values and calls.                                                       *)
(***************************************************************************)
EXTENDS KvServerInv, NumberLemmas, SequenceTheorems, TLAPS

(***************************************************************************)
(* Type correctness.                                                       *)
(***************************************************************************)

\* The times in an answer are finitely many positive numbers.
LEMMA TimesType ==
  ASSUME NEW replay \in [Key -> MaybeEntry]
  PROVE  Times(replay) \in SUBSET (Nat \ {0}) /\ IsFiniteSet(Times(replay))
<1> DEFINE f == [k \in Key |-> replay[k].t]
<1>1. f \in [Key -> Nat]
  BY DEF MaybeEntry, Entry, NoEntry
<1>2. {f[k] : k \in Key} = {replay[k].t : k \in Key} /\ {replay[k].t : k \in Key} \subseteq Nat
  BY DEF MaybeEntry, Entry, NoEntry
<1> HIDE DEF f
<1>3. IsFiniteSet({f[k] : k \in Key})
  BY <1>1, ImageFinite, KeyAssumption
<1>4. Times(replay) \subseteq {f[k] : k \in Key} /\ Times(replay) \subseteq Nat \ {0}
  BY <1>2 DEF Times
<1> QED BY <1>3, <1>4, FS_Subset

\* insert, receive and update leave a server's memory well formed.
LEMMA InsertType ==
  ASSUME NEW m \in Memory, NEW s \in Server, NEW k \in Key, NEW v \in Value, NEW t \in Nat \ {0}
  PROVE  Insert(m, s, k, v, t) \in Memory
BY DEF Insert, Memory, MaybeEntry, Entry

LEMMA StoreType ==
  ASSUME NEW kvs \in [Key -> MaybeEntry], NEW k \in Key, NEW v \in Value, NEW t \in Nat \ {0}
  PROVE  Store(kvs, k, v, t) \in [Key -> MaybeEntry]
BY DEF Store, MaybeEntry, Entry

LEMMA ReceiveType ==
  ASSUME NEW m \in Memory, NEW msg \in UpdateMsg
  PROVE  Receive(m, msg) \in Memory /\ ReceiveReply(m, msg) \in [Key -> MaybeEntry]
<1> DEFINE r == ReceiveReply(m, msg)
<1>1. Store(m.kvs, msg.k, msg.v, msg.t) \in [Key -> MaybeEntry]
  BY StoreType DEF Memory, UpdateMsg
<1>2. r \in [Key -> MaybeEntry]
  BY <1>1 DEF ReceiveReply, Replay, MaybeEntry
<1> HIDE DEF r
<1>3. Times(r) \in SUBSET Nat /\ IsFiniteSet(Times(r))
  BY <1>2, TimesType
<1>4. Times(r) \cup {msg.t} \in SUBSET Nat /\ Times(r) \cup {msg.t} # {}
  BY <1>3 DEF UpdateMsg
<1>5. Max(Times(r) \cup {msg.t}) \in Nat
  BY <1>3, <1>4, FS_AddElement, MaxInSet
<1> QED BY <1>1, <1>2, <1>5 DEF r, Receive, Memory, UpdateMsg

LEMMA UpdateType ==
  ASSUME NEW m \in Memory, NEW s \in Server, NEW p \in Server, NEW replay \in [Key -> MaybeEntry]
  PROVE  Update(m, s, p, replay) \in Memory
<1> DEFINE T == Times(replay)
<1>1. T \in SUBSET (Nat \ {0}) /\ IsFiniteSet(T)
  BY TimesType
<1> HIDE DEF T
<1>2. m.kvs \in [Key -> MaybeEntry] /\ m.su \in [Server -> Nat]
  BY DEF Memory
<1>3. T # {} => Max(T) \in Nat
  BY <1>1, MaxInSet
<1>4. ASSUME NEW n \in Nat PROVE Min(T \cup {n}) \in Nat
  <2>1. T \cup {n} \in SUBSET Nat /\ T \cup {n} # {}
    BY <1>1
  <2>2. IsFiniteSet(T \cup {n})
    BY <1>1, FS_AddElement
  <2> QED BY <2>1, <2>2, MinInSet
<1>5. Update(m, s, p, replay).su \in [Server -> Nat]
  BY <1>2, <1>3, <1>4 DEF Update, T
<1>6. Update(m, s, p, replay).kvs \in [Key -> MaybeEntry]
  BY <1>2 DEF Update
<1> QED BY <1>5, <1>6 DEF Update, Memory

LEMMA FreshType == \A start \in Nat : Fresh(start) \in Memory
BY DEF Fresh, Memory, MaybeEntry

\* The entries in a server's memory.
LEMMA EntryType ==
  ASSUME TypeOK, NEW s \in Server, NEW k \in Key
  PROVE  /\ mem[s].kvs[k] \in MaybeEntry
         /\ mem[s].kvs[k].v \in Value \cup {NoValue} /\ mem[s].kvs[k].t \in Nat
<1>1. mem[s].kvs[k] \in MaybeEntry
  BY DEF TypeOK, Memory
<1> QED BY <1>1 DEF MaybeEntry, Entry, NoEntry

\* What a client's answer, a death and a call leave of the types.
LEMMA AnswerType ==
  ASSUME TypeOK, NEW c \in Client, NEW n, NEW val \in Value \cup {NoValue}, Answer(c, n, val)
  PROVE  /\ req' \in [Client -> Request \cup {NoReq}]
         /\ res' \in [Client -> [ok: BOOLEAN, val: Value \cup {NoValue}]]
<1>1. [ok |-> TRUE, val |-> val] \in [ok: BOOLEAN, val: Value \cup {NoValue}]
  OBVIOUS
<1>2. CASE req[c].n = n
  BY <1>1, <1>2 DEF TypeOK, Answer
<1>3. CASE req[c].n # n
  BY <1>3 DEF TypeOK, Answer
<1> QED BY <1>2, <1>3

LEMMA HeadType ==
  ASSUME TypeOK, NEW s \in Server, backlog[s] # <<>>
  PROVE  /\ Head(backlog[s]) \in Msg
         /\ [backlog EXCEPT ![s] = Tail(@)] \in [Server -> Seq(Msg)]
BY HeadTailProperties DEF TypeOK

LEMMA AppendType ==
  ASSUME TypeOK, NEW s \in Server, NEW msg \in Msg
  PROVE  [backlog EXCEPT ![s] = Append(@, msg)] \in [Server -> Seq(Msg)]
BY AppendProperties DEF TypeOK

LEMMA NextPeerType ==
  ASSUME NEW s \in Server, NEW i \in 0..NServers
  PROVE  NextPeer(s, i) \in 1..(NServers + 1) /\ NextPeer(s, i) # s /\ NextPeer(s, i) > i
BY NServersAssumption DEF NextPeer, Server

LEMMA DieType ==
  ASSUME TypeOK, NEW s \in Server, NEW how \in Down,
         NEW conns \in [Server -> Seq(Msg)], Die(s, how, conns),
         txn' = [txn EXCEPT ![s] = Fresh(0)]
  PROVE  /\ phase' \in [Server -> Up \cup Down]
         /\ mem' \in [Server -> Memory]
         /\ txn' \in [Server -> Memory]
         /\ job' \in [Server -> Job \cup {NoJob}]
         /\ \A p \in Server : job'[p] # NoJob <=> phase'[p] \in {"send", "linked", "wait"}
         /\ \A p \in Server : phase'[p] \in {"linked", "wait"} => job'[p].peer \in Server
         /\ backlog' \in [Server -> Seq(Msg)]
         /\ inbox' \in [Server -> Reply \cup {NoReply}]
         /\ UNCHANGED <<epoch, clock, clientVars>>
<1>1. Fresh(0) \in Memory
  BY FreshType
<1>2. <<>> \in Seq(Msg)
  BY EmptySeq
<1>3. /\ \A p \in Server : job'[p] # NoJob <=> phase'[p] \in {"send", "linked", "wait"}
      /\ \A p \in Server : phase'[p] \in {"linked", "wait"} => job'[p].peer \in Server
  BY DEF TypeOK, Die, Down
<1> QED BY <1>1, <1>2, <1>3 DEF TypeOK, Die

LEMMA TypeInit == Init => TypeOK
<1> SUFFICES ASSUME Init PROVE TypeOK
  OBVIOUS
<1>1. Fresh(0) \in Memory
  BY FreshType
<1>2. <<>> \in Seq(Msg)
  BY EmptySeq
<1>3. [ok |-> FALSE, val |-> NoValue] \in [ok: BOOLEAN, val: Value \cup {NoValue}]
  OBVIOUS
<1> QED BY <1>1, <1>2, <1>3 DEF Init, TypeOK, Up

LEMMA TypeClientCall ==
  ASSUME TypeOK, NEW c \in Client, ClientStep(c)
  PROVE  TypeOK'
<1>1. ASSUME NEW s \in Server, NEW msg \in CallMsg, ClientCall(c, s, msg)
      PROVE  TypeOK'
  <2>1. [backlog EXCEPT ![s] = Append(@, msg)] \in [Server -> Seq(Msg)]
    BY AppendType DEF Msg
  <2>2. req' \in [Client -> Request \cup {NoReq}] /\ nreq' \in Nat
    BY <1>1 DEF ClientCall, TypeOK, Request
  <2> QED BY <1>1, <2>1, <2>2 DEF ClientCall, TypeOK, procVars
<1>2. CASE Put(c)
  <2>1. nreq + 1 \in Nat \ {0}
    BY DEF TypeOK
  <2>2. \A k \in Key, v \in Value :
          [op |-> "insert", c |-> c, n |-> nreq + 1, k |-> k, v |-> v] \in CallMsg
    BY <2>1 DEF CallMsg
  <2> QED BY <1>1, <1>2, <2>2 DEF Put
<1>3. CASE Get(c)
  <2>1. nreq + 1 \in Nat \ {0}
    BY DEF TypeOK
  <2>2. \A k \in Key : [op |-> "get", c |-> c, n |-> nreq + 1, k |-> k] \in CallMsg
    BY <2>1 DEF CallMsg
  <2> QED BY <1>1, <1>3, <2>2 DEF Get
<1>4. [ok |-> FALSE, val |-> NoValue] \in [ok: BOOLEAN, val: Value \cup {NoValue}]
  OBVIOUS
<1>5. CASE ConnectRefused(c)
  <2>1. res' \in [Client -> [ok: BOOLEAN, val: Value \cup {NoValue}]]
    BY <1>4, <1>5 DEF ConnectRefused, TypeOK
  <2> QED BY <1>5, <2>1 DEF ConnectRefused, TypeOK, procVars
<1>6. CASE ClientReset(c) \/ ClientTimeout(c)
  <2>1. GiveUp(c)
    BY <1>6 DEF ClientReset, ClientTimeout
  <2>2. res' \in [Client -> [ok: BOOLEAN, val: Value \cup {NoValue}]]
    BY <1>4, <2>1 DEF GiveUp, TypeOK
  <2>3. req' \in [Client -> Request \cup {NoReq}]
    BY <2>1 DEF GiveUp, TypeOK
  <2> QED BY <2>1, <2>2, <2>3 DEF GiveUp, TypeOK, procVars
<1> QED BY <1>2, <1>3, <1>5, <1>6 DEF ClientStep

LEMMA TypeServerStep ==
  ASSUME TypeOK, NEW s \in Server, ServerStep(s)
  PROVE  TypeOK'
<1> USE DEF procVars, clientVars
<1>1. CASE HandleGet(s)
  <2>1. Head(backlog[s]) \in Msg /\ [backlog EXCEPT ![s] = Tail(@)] \in [Server -> Seq(Msg)]
    BY <1>1, HeadType DEF HandleGet, Accept
  <2> DEFINE msg == Head(backlog[s])
  <2>2. msg.c \in Client /\ msg.k \in Key
    BY <1>1, <2>1 DEF HandleGet, Accept, Msg, UpdateMsg, CallMsg
  <2>3. mem[s].kvs[msg.k].v \in Value \cup {NoValue}
    BY <2>2, EntryType
  <2>4. Answer(msg.c, msg.n, mem[s].kvs[msg.k].v)
    BY <1>1 DEF HandleGet
  <2> HIDE DEF msg
  <2>5. req' \in [Client -> Request \cup {NoReq}] /\ res' \in [Client -> [ok: BOOLEAN, val: Value \cup {NoValue}]]
    BY <2>2, <2>3, <2>4, AnswerType
  <2> QED BY <1>1, <2>1, <2>5 DEF HandleGet, TypeOK
<1>2. CASE HandleInsert(s)
  <2>1. Head(backlog[s]) \in Msg /\ [backlog EXCEPT ![s] = Tail(@)] \in [Server -> Seq(Msg)]
    BY <1>2, HeadType DEF HandleInsert, Accept
  <2> DEFINE msg == Head(backlog[s])
  <2>2. msg.c \in Client /\ msg.k \in Key /\ msg.v \in Value /\ msg.n \in Nat \ {0}
    BY <1>2, <2>1 DEF HandleInsert, Accept, Msg, UpdateMsg, CallMsg
  <2>3. PICK t \in InsertTimes(s) :
          /\ mem' = [mem EXCEPT ![s] = Insert(@, s, msg.k, msg.v, t)]
          /\ txn' = [txn EXCEPT ![s] = Insert(mem[s], s, msg.k, msg.v, t)]
          /\ job' = [job EXCEPT ![s] =
               [n |-> msg.n, c |-> msg.c, k |-> msg.k, v |-> msg.v, t |-> t,
                old |-> mem[s].kvs[msg.k].v, peer |-> NextPeer(s, 0), reached |-> {}]]
          /\ clock' = t
    BY <1>2 DEF HandleInsert
  <2>4. t \in Nat \ {0}
    <3>1. CASE t = clock + 1
      BY <3>1 DEF TypeOK
    <3>2. CASE \E p \in Server \ {s} : job[p] # NoJob /\ job[p].t = t
      <4>1. PICK p \in Server : job[p] # NoJob /\ job[p].t = t
        BY <3>2
      <4>2. job[p] \in Job
        BY <4>1 DEF TypeOK
      <4> QED BY <4>1, <4>2 DEF Job
    <3> QED BY <2>3, <3>1, <3>2 DEF InsertTimes
  <2>5. NextPeer(s, 0) \in 1..(NServers + 1)
    BY NextPeerType, NServersAssumption
  <2>6. mem[s].kvs[msg.k].v \in Value \cup {NoValue}
    BY <2>2, EntryType
  <2> HIDE DEF msg
  <2>7. Insert(mem[s], s, msg.k, msg.v, t) \in Memory
    BY <2>2, <2>4, InsertType DEF TypeOK
  <2>8. mem' \in [Server -> Memory] /\ txn' \in [Server -> Memory]
    BY <2>3, <2>7 DEF TypeOK
  <2>9. job'[s] \in Job /\ \A p \in Server \ {s} : job'[p] = job[p]
    BY <2>2, <2>3, <2>4, <2>5, <2>6 DEF TypeOK, Job
  <2>10. job' \in [Server -> Job \cup {NoJob}]
    BY <2>3, <2>9 DEF TypeOK
  <2>11. /\ \A p \in Server : job'[p] # NoJob <=> phase'[p] \in {"send", "linked", "wait"}
         /\ \A p \in Server : phase'[p] \in {"linked", "wait"} => job'[p].peer \in Server
    BY <1>2, <2>9 DEF HandleInsert, TypeOK, Job, NoJob
  <2> QED BY <1>2, <2>1, <2>3, <2>4, <2>8, <2>10, <2>11 DEF HandleInsert, TypeOK, Up
<1>3. CASE HandleUpdate(s)
  <2>1. Head(backlog[s]) \in Msg /\ [backlog EXCEPT ![s] = Tail(@)] \in [Server -> Seq(Msg)]
    BY <1>3, HeadType DEF HandleUpdate, Accept
  <2> DEFINE msg == Head(backlog[s])
  <2>2. msg \in UpdateMsg
    BY <1>3, <2>1 DEF HandleUpdate, Accept, Msg, CallMsg
  <2>3. Receive(mem[s], msg) \in Memory /\ ReceiveReply(mem[s], msg) \in [Key -> MaybeEntry]
    BY <2>2, ReceiveType DEF TypeOK
  <2>4. [e |-> epoch[s], replay |-> ReceiveReply(mem[s], msg)] \in Reply
    BY <2>3 DEF Reply, TypeOK
  <2>5. inbox' \in [Server -> Reply \cup {NoReply}]
    BY <1>3, <2>2, <2>4 DEF HandleUpdate, TypeOK, UpdateMsg
  <2> QED BY <1>3, <2>1, <2>3, <2>5 DEF HandleUpdate, TypeOK
<1>4. CASE HandleShutdown(s)
  <2>1. [backlog EXCEPT ![s] = Tail(@)] \in [Server -> Seq(Msg)]
    BY <1>4, HeadType DEF HandleShutdown, Accept
  <2> QED BY <1>4, <2>1 DEF HandleShutdown, BeginShutdown, Accept, TypeOK, Up
<1>5. CASE SyncRefused(s)
  <2>1. job[s] \in Job /\ job[s].peer \in 0..NServers
    BY <1>5 DEF SyncRefused, TypeOK, Server
  <2>2. NextPeer(s, job[s].peer) \in 1..(NServers + 1)
    BY <2>1, NextPeerType
  <2>3. job'[s] = [job[s] EXCEPT !.peer = NextPeer(s, @)] /\ \A p \in Server \ {s} : job'[p] = job[p]
    BY <1>5 DEF SyncRefused, TypeOK
  <2>4. job'[s] \in Job
    BY <2>1, <2>2, <2>3 DEF Job
  <2>5. job' \in [Server -> Job \cup {NoJob}]
    BY <1>5, <2>4 DEF SyncRefused, TypeOK
  <2>6. phase' = phase /\ phase[s] = "send"
    BY <1>5 DEF SyncRefused
  <2>7. job'[s] # NoJob
    BY <2>4 DEF Job, NoJob
  <2>8. \A p \in Server : job'[p] # NoJob <=> phase'[p] \in {"send", "linked", "wait"}
    <3> TAKE p \in Server
    <3>1. CASE p = s
      BY <2>6, <2>7, <3>1
    <3>2. CASE p # s
      BY <2>3, <2>6, <3>2 DEF TypeOK
    <3> QED BY <3>1, <3>2
  <2>9. \A p \in Server : phase'[p] \in {"linked", "wait"} => job'[p].peer \in Server
    BY <2>3, <2>6 DEF TypeOK
  <2> QED BY <1>5, <2>5, <2>8, <2>9 DEF SyncRefused, TypeOK
<1>6. CASE SyncConnect(s)
  <2>1. job[s] \in Job /\ job[s].peer \in Server
    BY <1>6 DEF SyncConnect, TypeOK
  <2>2. UpdateOf(s) \in Msg
    BY <2>1 DEF UpdateOf, Msg, UpdateMsg, Job, TypeOK
  <2>3. backlog' \in [Server -> Seq(Msg)]
    BY <1>6, <2>1, <2>2, AppendType DEF SyncConnect
  <2> QED BY <1>6, <2>3 DEF SyncConnect, TypeOK, Up
<1>11. CASE SyncSend(s)
  BY <1>11 DEF SyncSend, TypeOK, Up
<1>7. CASE SyncReply(s)
  <2>1. job[s] \in Job /\ inbox[s] \in Reply
    BY <1>7 DEF SyncReply, TypeOK
  <2>2. job[s].peer \in Server /\ job[s].peer \in 0..NServers
    BY <1>7 DEF SyncReply, TypeOK, Server
  <2>3. NextPeer(s, job[s].peer) \in 1..(NServers + 1)
    BY <2>2, NextPeerType
  <2> DEFINE r == job[s].reached \cup {<<job[s].peer, inbox[s].e>>}
  <2>4. r \in SUBSET (Server \X (Nat \ {0}))
    BY <2>1, <2>2 DEF Job, Reply
  <2> HIDE DEF r
  <2>5. job' = [job EXCEPT ![s] = [job[s] EXCEPT !.peer = NextPeer(s, @), !.reached = r]]
    BY <1>7 DEF SyncReply, TypeOK, r
  <2>6. [job[s] EXCEPT !.peer = NextPeer(s, @), !.reached = r] \in Job
    BY <2>1, <2>3, <2>4 DEF Job
  <2>7. Update(mem[s], s, job[s].peer, inbox[s].replay) \in Memory
    BY <2>1, <2>2, UpdateType DEF TypeOK, Reply
  <2>8. mem' \in [Server -> Memory]
    BY <1>7, <2>7 DEF SyncReply, TypeOK
  <2>9. job' \in [Server -> Job \cup {NoJob}] /\ job'[s] \in Job /\ \A p \in Server \ {s} : job'[p] = job[p]
    BY <2>5, <2>6 DEF TypeOK
  <2>10. /\ \A p \in Server : job'[p] # NoJob <=> phase'[p] \in {"send", "linked", "wait"}
         /\ \A p \in Server : phase'[p] \in {"linked", "wait"} => job'[p].peer \in Server
    BY <1>7, <2>9 DEF SyncReply, TypeOK, Job, NoJob
  <2> QED BY <1>7, <2>8, <2>9, <2>10 DEF SyncReply, TypeOK, Up
<1>8. CASE FinishInsert(s)
  <2>1. job[s] \in Job
    BY <1>8 DEF FinishInsert, TypeOK
  <2>2. req' \in [Client -> Request \cup {NoReq}] /\ res' \in [Client -> [ok: BOOLEAN, val: Value \cup {NoValue}]]
    BY <1>8, <2>1, AnswerType DEF FinishInsert, Job
  <2> QED BY <1>8, <2>2 DEF FinishInsert, TypeOK, Up
<1>9. CASE SyncReset(s) \/ SyncTimeout(s)
  BY <1>9, DieType DEF SyncReset, SyncTimeout, TypeOK, Down
<1>10. CASE StopClose(s)
  BY <1>10, DieType DEF StopClose, TypeOK, Down
<1> QED BY <1>1, <1>2, <1>3, <1>4, <1>5, <1>6, <1>7, <1>8, <1>9, <1>10, <1>11
    DEF ServerStep

LEMMA TypeOutsideStep ==
  ASSUME TypeOK, NEW s \in Server, OutsideStep(s)
  PROVE  TypeOK'
<1> USE DEF procVars, clientVars
<1>1. outages + 1 \in Nat
  BY DEF TypeOK
<1>2. CASE IdleTimeout(s)
  BY <1>1, <1>2 DEF IdleTimeout, Outage, BeginShutdown, TypeOK, Up
<1>3. CASE SendShutdown(s)
  <2>1. backlog' \in [Server -> Seq(Msg)]
    BY <1>3, AppendType DEF SendShutdown, Msg
  <2> QED BY <1>1, <1>3, <2>1 DEF SendShutdown, Outage, TypeOK
<1>4. CASE Kill(s)
  BY <1>1, <1>4, DieType DEF Kill, Outage, TypeOK, Down
<1>6. CASE Cut(s)
  <2> DEFINE conns == [p \in Server |-> [i \in DOMAIN backlog[p] |->
                         IF backlog[p][i] = UpdateOf(s) THEN Ended ELSE backlog[p][i]]]
  <2>1. ASSUME NEW p \in Server PROVE conns[p] \in Seq(Msg)
    <3>1. backlog[p] \in Seq(Msg)
      BY DEF TypeOK
    <3>2. Ended \in Msg
      BY DEF Ended, Msg
    <3>3. /\ Len(backlog[p]) \in Nat /\ DOMAIN backlog[p] = 1..Len(backlog[p])
          /\ \A i \in DOMAIN backlog[p] : backlog[p][i] \in Msg
      BY <3>1, LenProperties, ElementOfSeq
    <3>4. conns[p] \in [1..Len(backlog[p]) -> Msg]
      BY <3>2, <3>3
    <3> HIDE DEF conns
    <3> QED BY <3>3, <3>4, SeqDef
  <2>2. conns \in [Server -> Seq(Msg)]
    BY <2>1
  <2>3. Die(s, "killed", conns) /\ txn' = [txn EXCEPT ![s] = Fresh(0)]
    BY <1>6 DEF Cut
  <2> HIDE DEF conns
  <2> QED BY <1>1, <1>6, <2>2, <2>3, DieType DEF Cut, Outage, TypeOK, Down
<1>7. CASE CutClient(s)
  <2>1. backlog' \in [Server -> Seq(Msg)]
    BY <1>7, AppendType DEF CutClient, Msg, Ended
  <2> QED BY <1>1, <1>7, <2>1 DEF CutClient, Outage, TypeOK
<1>5. CASE Restart(s)
  <2>1. PICK start \in {0, clock} :
          LET found == IF disk[s] = Nothing THEN Fresh(start) ELSE disk[s] IN
          mem' = [mem EXCEPT ![s] = found] /\ txn' = [txn EXCEPT ![s] = found]
    BY <1>5 DEF Restart
  <2>2. Fresh(start) \in Memory
    BY FreshType DEF TypeOK
  <2>3. mem' \in [Server -> Memory] /\ txn' \in [Server -> Memory]
    BY <2>1, <2>2 DEF TypeOK
  <2> QED BY <1>5, <2>3 DEF Restart, IsUp, TypeOK, Up
<1> QED BY <1>2, <1>3, <1>4, <1>5, <1>6, <1>7 DEF OutsideStep

LEMMA TypeNext == TypeOK /\ [Next]_vars => TypeOK'
<1>1. ASSUME TypeOK, UNCHANGED vars PROVE TypeOK'
  BY <1>1 DEF TypeOK, vars
<1> QED BY <1>1, TypeClientCall, TypeServerStep, TypeOutsideStep DEF Next

\* Type correctness of the servers for every value of the constants: in particular
\* the times that receive and update compute are always times.
THEOREM TypeCorrect == Spec => []TypeOK
BY TypeInit, TypeNext, PTL DEF Spec
=============================================================================
