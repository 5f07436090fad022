-------------------------- MODULE RpcBridgeProofs --------------------------
(***************************************************************************)
(* The inductive invariant of RpcBridge and what follows from it: what a   *)
(* return code says about the servers, about the puts and about the        *)
(* arguments, for any programs, servers, keys, values, lists and calls.    *)
(***************************************************************************)
EXTENDS RpcBridge, NumberLemmas, SequenceTheorems, TLAPS

\* The handler thread works for p; p's connection is in the queue.
Busy(p) == h.pc # "idle" /\ h.p = p
Waits(p) == \E i \in DOMAIN queue : queue[i] = p

\* Whoever is queued or served has a call under way, and is so once.
Carried ==
  /\ \A p \in Caller : Waits(p) \/ Busy(p) => call[p] # NoCall
  /\ \A p \in Caller : ~(Waits(p) /\ Busy(p))
  /\ \A i, j \in DOMAIN queue : queue[i] = queue[j] => i = j

\* The handler stands where the call it serves can have taken it.
Fits ==
  /\ h.pc \in {"asked", "answered"} => Op.op \in {"get", "put"}
  /\ h.pc = "asked" => \E i \in DOMAIN SERVERS : SERVERS[i] = h.s
  /\ h.pc = "killing" => Op.op = "shutdown"

\* The main thread's own call gets no further than the interpreter lock.
OwnFails == Busy("main") => h.pc = "enter" \/ (h.pc = "reply" /\ h.code = -1)

\* p's call may still have its effect, through the handler thread.
Open(p) == \/ Waits(p)
           \/ Busy(p) /\ (h.pc = "enter" \/ (h.pc = "asked" /\ h.s \in up))

\* Every put under way or late has a number, the callers' all different.
Numbers ==
  /\ \A r \in late : r.n \in DOMAIN applied
  /\ \A p \in Caller : call[p].op = "put" => call[p].n \in DOMAIN applied
  /\ \A p, q \in Caller : /\ call[p].op = "put" /\ call[q].op = "put"
                           /\ call[p].n = call[q].n
                             => p = q

\* A put still to come, late or not, has not been begun; an answered one has.
DoneOnce ==
  /\ \A n \in DOMAIN applied : applied[n] <= 1
  /\ \A r \in late : applied[r.n] = 0
  /\ \A r, s \in late : r.n = s.n => r = s
  /\ \A p \in Caller : call[p].op = "put" /\ Open(p)
                         => applied[call[p].n] = 0 /\ \A r \in late : r.n # call[p].n
  /\ h.pc = "answered" /\ Op.op = "put" => applied[Op.n] = 1
  /\ h.pc = "reply" /\ Op.op = "put" /\ h.code # -1 /\ SERVERS # <<>> => applied[Op.n] = 1

\* The servers that shutdown has gone through are down, and stay down.
Stopped ==
  /\ h.pc = "killing" => \A j \in DOMAIN SERVERS : j < h.i => SERVERS[j] \notin up
  /\ h.pc = "reply" /\ Op.op = "shutdown" /\ h.code = 0
       => \A j \in DOMAIN SERVERS : SERVERS[j] \notin up

\* A late put is at a server of SERVERS that runs.
LateLeft == \A r \in late : r.s \in up /\ \E i \in DOMAIN SERVERS : SERVERS[i] = r.s

Core == TypeOK /\ Carried /\ Fits /\ OwnFails /\ Numbers /\ DoneOnce /\ Stopped
IInv == Core /\ LateLeft

LEMMA HandlerFields ==
  ASSUME TypeOK
  PROVE  /\ h.pc \in {"idle", "enter", "asked", "answered", "killing", "reply"}
         /\ h.pc # "idle" => h.p \in Caller
         /\ h.pc = "asked" => h.s \in Server
         /\ h.pc = "answered" => h.val \in Value \cup {NoValue}
         /\ h.pc = "killing" => h.i \in Nat \ {0}
                                /\ h = [pc |-> "killing", p |-> h.p, i |-> h.i]
BY DEF TypeOK, Idle

LEMMA CallFields ==
  ASSUME TypeOK, NEW p \in Caller
  PROVE  /\ call[p] # NoCall <=> call[p].op \in {"init", "put", "get", "shutdown"}
         /\ call[p].op \in {"put", "get"} => call[p].k \in Key
         /\ call[p].op = "put" => call[p].v \in Value /\ call[p].n \in Nat \ {0}
         /\ call[p].op = "init" => call[p].list \in Seq(Entry)
<1>1. call[p] \in Plain \cup Numbered \cup {NoCall}
  BY DEF TypeOK
<1>2. NoCall.op = "none"
  BY DEF NoCall
<1> QED BY <1>1, <1>2 DEF Plain, Numbered

\* The numbers of the puts so far.
LEMMA Counts ==
  ASSUME TypeOK
  PROVE  /\ Len(applied) \in Nat /\ DOMAIN applied = 1..Len(applied)
         /\ \A n \in DOMAIN applied : applied[n] \in Nat
BY DEF TypeOK

LEMMA ParsedPrefix ==
  ASSUME NEW l \in Seq(Entry)
  PROVE  /\ Parsed(l) \in 0..Len(l)
         /\ \A i \in 1..Parsed(l) : l[i] \in Server
         /\ Parsed(l) < Len(l) => l[Parsed(l) + 1] \notin Server
<1> DEFINE Prefix(n) == /\ \A i \in 1..n : l[i] \in Server
                        /\ n < Len(l) => l[n + 1] \notin Server
           S == {i \in 1..Len(l) : l[i] \notin Server}
<1>0. Len(l) \in Nat
  OBVIOUS
<1>1. \E n \in 0..Len(l) : Prefix(n)
  <2>1. CASE S = {}
    <3>1. Prefix(Len(l))
      BY <2>1, <1>0
    <3> QED BY <3>1, <1>0
  <2>2. CASE S # {}
    <3>1. S \in SUBSET Nat /\ IsFiniteSet(S)
      <4>1. IsFiniteSet(1..Len(l))
        BY <1>0, FS_Interval
      <4> QED BY <4>1, <1>0, FS_Subset
    <3>2. Min(S) \in S /\ \A y \in S : Min(S) =< y
      BY <2>2, <3>1, MinInSet
    <3> DEFINE m == Min(S)
    <3> HIDE DEF m
    <3>3. m \in 1..Len(l) /\ l[m] \notin Server /\ \A i \in 1..(m - 1) : l[i] \in Server
      <4>1. m \in S /\ \A y \in S : m =< y
        BY <3>2 DEF m
      <4>2. m \in 1..Len(l) /\ l[m] \notin Server
        BY <4>1
      <4>3. ASSUME NEW i \in 1..(m - 1) PROVE l[i] \in Server
        <5>1. i \in 1..Len(l) /\ ~(m =< i)
          BY <4>2, <1>0
        <5> QED BY <5>1, <4>1
      <4> QED BY <4>2, <4>3
    <3>4. Prefix(m - 1) /\ m - 1 \in 0..Len(l)
      BY <3>3, <1>0
    <3> QED BY <3>4
  <2> QED BY <2>1, <2>2
<1>2. Parsed(l) = CHOOSE n \in 0..Len(l) : Prefix(n)
  BY DEF Parsed
<1> HIDE DEF Prefix
<1>3. Parsed(l) \in 0..Len(l) /\ Prefix(Parsed(l))
  BY <1>1, <1>2
<1> QED BY <1>3 DEF Prefix

\* The queue after a connection is added, and after the first is taken.
LEMMA QueueGrows ==
  ASSUME TypeOK, NEW p \in Caller, queue' = Append(queue, p)
  PROVE  /\ queue' \in Seq(Caller)
         /\ DOMAIN queue' = 1..(Len(queue) + 1) /\ DOMAIN queue = 1..Len(queue)
         /\ \A i \in 1..Len(queue) : queue'[i] = queue[i]
         /\ queue'[Len(queue) + 1] = p
BY DEF TypeOK

LEMMA QueueShrinks ==
  ASSUME TypeOK, queue # <<>>, queue' = Tail(queue)
  PROVE  /\ queue' \in Seq(Caller) /\ Head(queue) \in Caller
         /\ Len(queue) \in Nat \ {0} /\ Head(queue) = queue[1]
         /\ DOMAIN queue' = 1..(Len(queue) - 1) /\ DOMAIN queue = 1..Len(queue)
         /\ \A i \in 1..(Len(queue) - 1) : queue'[i] = queue[i + 1]
BY HeadTailProperties DEF TypeOK

\* A put that has not been begun is begun once by a store.
LEMMA StoreDoes ==
  ASSUME TypeOK, NEW r, r.k \in Key, r.v \in Value, r.n \in DOMAIN applied, applied[r.n] = 0,
         Store(r)
  PROVE  /\ given' \in [Key -> SUBSET Value]
         /\ applied' \in Seq(Nat) /\ DOMAIN applied' = DOMAIN applied
         /\ applied'[r.n] = 1
         /\ \A n \in DOMAIN applied \ {r.n} : applied'[n] = applied[n]
<1>1. given' \in [Key -> SUBSET Value]
  BY DEF Store, TypeOK
<1> DEFINE n0 == r.n
<1>2. n0 \in 1..Len(applied) /\ applied \in Seq(Nat) /\ applied[n0] = 0
      /\ applied' = [applied EXCEPT ![n0] = @ + 1]
  BY Counts DEF Store, TypeOK
<1> HIDE DEF n0
<1>3. /\ applied' \in Seq(Nat) /\ DOMAIN applied' = DOMAIN applied
      /\ applied'[n0] = 1
      /\ \A n \in DOMAIN applied \ {n0} : applied'[n] = applied[n]
  BY <1>2
<1> QED BY <1>1, <1>3 DEF n0

LEMMA IInvInit == Init => IInv
<1> SUFFICES ASSUME Init PROVE IInv
  OBVIOUS
<1>1. h.pc = "idle" /\ NoCall.op = "none"
  BY DEF Init, Idle, NoCall
<1>2. TypeOK
  BY DEF Init, TypeOK
<1> QED BY <1>1, <1>2 DEF Init, IInv, Core, LateLeft, Carried, Fits, OwnFails, Numbers, DoneOnce,
                          Stopped, Busy, Waits, Open

LEMMA MainStepKeeps ==
  ASSUME Core, MainStep
  PROVE  Core'
<1> USE HandlerFields, CallFields DEF Core
<1>1. TypeOK'
  BY DEF TypeOK, MainStep, Op
<1>2. Carried'
  BY DEF Carried, Busy, Waits, MainStep, Op, TypeOK
<1>3. Fits'
  BY DEF Fits, MainStep, Op, TypeOK
<1>4. OwnFails'
  BY DEF OwnFails, Busy, Carried, MainStep, Op, GilFree, TypeOK
<1>5. Numbers' /\ DoneOnce'
  BY DEF Numbers, DoneOnce, Open, Busy, Waits, Carried, MainStep, Op, TypeOK
<1>6. Stopped'
  BY DEF Stopped, MainStep, Op, TypeOK
<1> QED BY <1>1, <1>2, <1>3, <1>4, <1>5, <1>6

LEMMA CallKeeps ==
  ASSUME Core, NEW q \in Caller, Call(q)
  PROVE  Core'
<1> USE HandlerFields, CallFields DEF Core
<1>1. PICK ask \in Plain \cup PutOf :
        /\ call' = [call EXCEPT ![q] = Made(ask)]
        /\ applied' = IF ask.op = "put" THEN Append(applied, 0) ELSE applied
  BY BridgeAssumption DEF Call
<1> DEFINE new == Made(ask)
<1>2. /\ call[q] = NoCall /\ queue' = Append(queue, q)
      /\ UNCHANGED <<main, h, SERVERS, up, given, late, buf>>
  BY DEF Call
<1>3. /\ new \in Plain \cup Numbered /\ new # NoCall /\ new.op = ask.op
      /\ new.op = "put" => new.n = Len(applied) + 1
  BY Counts DEF Made, Plain, PutOf, Numbered, NoCall
<1>10. /\ applied' \in Seq(Nat) /\ DOMAIN applied \subseteq DOMAIN applied'
       /\ \A n \in DOMAIN applied : applied'[n] = applied[n]
       /\ new.op = "put" => /\ new.n \in DOMAIN applied' /\ new.n \notin DOMAIN applied
                            /\ applied'[new.n] = 0
       /\ \A n \in DOMAIN applied' : applied'[n] <= 1
  <2>1. applied \in Seq(Nat) /\ \A n \in DOMAIN applied : applied[n] <= 1
    BY DEF TypeOK, DoneOnce
  <2>2. CASE ask.op = "put"
    <3>1. applied' = Append(applied, 0) /\ new.n = Len(applied) + 1
      BY <1>1, <1>3, <2>2
    <3> HIDE DEF new
    <3>2. /\ applied' \in Seq(Nat) /\ DOMAIN applied' = 1..(Len(applied) + 1)
          /\ \A n \in 1..Len(applied) : applied'[n] = applied[n]
          /\ applied'[Len(applied) + 1] = 0
      BY <2>1, <3>1
    <3> QED BY <2>1, <3>1, <3>2, Counts
  <2>3. CASE ask.op # "put"
    <3>1. applied' = applied /\ new.op # "put"
      BY <1>1, <1>3, <2>3
    <3> HIDE DEF new
    <3> QED BY <2>1, <3>1
  <2> QED BY <2>2, <2>3
<1>4. /\ queue' \in Seq(Caller)
      /\ DOMAIN queue' = 1..(Len(queue) + 1) /\ DOMAIN queue = 1..Len(queue)
      /\ \A i \in 1..Len(queue) : queue'[i] = queue[i]
      /\ queue'[Len(queue) + 1] = q
  BY <1>2, QueueGrows
<1>5. ~Busy(q) /\ ~Waits(q)
  BY <1>2 DEF Carried
<1>6. \A p \in Caller : (Waits(p)' <=> Waits(p) \/ p = q) /\ (Busy(p)' <=> Busy(p))
  <2>1. \A p \in Caller : Busy(p)' <=> Busy(p)
    BY <1>2 DEF Busy
  <2>2. Len(queue) \in Nat
    BY DEF TypeOK
  <2>3. Waits(q)'
    BY <1>4, <2>2 DEF Waits
  <2>4. ASSUME NEW p \in Caller, Waits(p) PROVE Waits(p)'
    <3>1. PICK i \in 1..Len(queue) : queue[i] = p
      BY <2>4, <1>4 DEF Waits
    <3>2. i \in DOMAIN queue' /\ queue'[i] = p
      BY <3>1, <2>2, <1>4
    <3> QED BY <3>2 DEF Waits
  <2>5. ASSUME NEW p \in Caller \ {q}, Waits(p)' PROVE Waits(p)
    <3>1. PICK i \in 1..(Len(queue) + 1) : queue'[i] = p
      BY <2>5, <1>4 DEF Waits
    <3>2. i \in DOMAIN queue /\ queue[i] = p
      BY <3>1, <2>2, <1>4
    <3> QED BY <3>2 DEF Waits
  <2> QED BY <2>1, <2>3, <2>4, <2>5
<1>7. \A p \in Caller \ {q} : call'[p] = call[p]
  BY <1>1 DEF TypeOK
<1>8. call'[q] = new
  BY <1>1 DEF TypeOK
<1> HIDE DEF new
<1>9. h.pc # "idle" => h.p # q
  BY <1>5 DEF Busy
<1>11. TypeOK'
  <2>1. call' \in [Caller -> Plain \cup Numbered \cup {NoCall}]
    BY <1>1, <1>3 DEF TypeOK, new
  <2> QED BY <2>1, <1>2, <1>4, <1>10 DEF TypeOK
<1>12. Carried'
  <2>1. \A i, j \in DOMAIN queue' : queue'[i] = queue'[j] => i = j
    <3>1. Len(queue) \in Nat
      BY DEF TypeOK
    <3> QED BY <1>4, <1>5, <3>1 DEF Carried, Waits
  <2> QED BY <2>1, <1>3, <1>5, <1>6, <1>7, <1>8 DEF Carried
<1>13. Fits'
  BY <1>2, <1>7, <1>9 DEF Fits, Op
<1>14. OwnFails'
  BY <1>2 DEF OwnFails, Busy
<1>15. Numbers'
  <2>1. \A r \in late : r.n \in DOMAIN applied'
    BY <1>10 DEF Numbers
  <2>2. \A p \in Caller : call'[p].op = "put" => call'[p].n \in DOMAIN applied'
    BY <1>7, <1>8, <1>10 DEF Numbers
  <2>3. ASSUME NEW p \in Caller, NEW t \in Caller, p # t,
               call'[p].op = "put" /\ call'[t].op = "put"
        PROVE  call'[p].n # call'[t].n
    BY <2>3, <1>7, <1>8, <1>10 DEF Numbers
  <2> QED BY <1>2, <2>1, <2>2, <2>3 DEF Numbers
<1>17. DoneOnce'
  <2>1. \A p \in Caller \ {q} : Open(p)' => Open(p)
    BY <1>2, <1>6 DEF Open
  <2>2. \A r \in late : r.n \in DOMAIN applied /\ applied'[r.n] = 0
    BY <1>10 DEF Numbers, DoneOnce
  <2>3. ASSUME NEW p \in Caller, call'[p].op = "put", Open(p)'
        PROVE  applied'[call'[p].n] = 0 /\ \A r \in late : r.n # call'[p].n
    <3>1. CASE p = q
      BY <2>2, <2>3, <3>1, <1>8, <1>10
    <3>2. CASE p # q
      BY <2>1, <2>3, <3>2, <1>7, <1>10 DEF DoneOnce, Numbers
    <3> QED BY <3>1, <3>2
  <2>4. h.pc \in {"answered", "reply"} /\ Op.op = "put"
          => Op' = Op /\ Op.n \in DOMAIN applied
    BY <1>2, <1>7, <1>9 DEF Op, Numbers
  <2>5. h.pc \in {"answered", "reply"} => Op' = Op
    BY <1>2, <1>7, <1>9 DEF Op
  <2> QED BY <2>2, <2>3, <2>4, <2>5, <1>2, <1>10 DEF DoneOnce
<1>16. Stopped'
  BY <1>2, <1>7, <1>9 DEF Stopped, Op
<1> QED BY <1>11, <1>12, <1>13, <1>14, <1>15, <1>16, <1>17

LEMMA TakeKeeps ==
  ASSUME Core, Take
  PROVE  Core'
<1> USE HandlerFields, CallFields DEF Core
<1>1. TypeOK'
  BY DEF TypeOK, Take, Reply, Op
<1>2. Carried'
  BY DEF Carried, Busy, Waits, Take, Reply, Op, TypeOK
<1>3. Fits'
  BY DEF Fits, Take, Reply, Op, TypeOK
<1>4. OwnFails'
  BY DEF OwnFails, Busy, Carried, Take, Reply, Op, GilFree, TypeOK
<1>5. Numbers' /\ DoneOnce'
  BY DEF Numbers, DoneOnce, Open, Busy, Waits, Carried, Take, Reply, Op, TypeOK
<1>6. Stopped'
  BY DEF Stopped, Take, Reply, Op, TypeOK
<1> QED BY <1>1, <1>2, <1>3, <1>4, <1>5, <1>6

LEMMA InitServersKeeps ==
  ASSUME Core, InitServers
  PROVE  Core'
<1> USE HandlerFields, CallFields DEF Core
<1>1. TypeOK'
  <2>1. h.p \in Caller /\ Op.list \in Seq(Entry)
    BY DEF InitServers, In, Op
  <2> DEFINE n == Parsed(Op.list)
  <2>2. n \in Int /\ \A i \in 1..n : Op.list[i] \in Server
    BY <2>1, ParsedPrefix
  <2>3. SubSeq(Op.list, 1, n) \in Seq(Server)
    <3> HIDE DEF n
    <3> QED BY <2>2, SubSeqProperties
  <2>4. SERVERS' \in Seq(Server)
    BY <2>3, ConcatProperties DEF InitServers, TypeOK
  <2> QED BY <2>1, <2>4 DEF TypeOK, InitServers, Reply
<1>2. Carried'
  BY DEF Carried, Busy, Waits, InitServers, In, Reply, Op, TypeOK
<1>3. Fits'
  BY DEF Fits, InitServers, In, Reply, Op, TypeOK
<1>4. OwnFails'
  BY DEF OwnFails, Busy, Carried, InitServers, In, Reply, Op, GilFree, TypeOK
<1>5. Numbers' /\ DoneOnce'
  BY DEF Numbers, DoneOnce, Open, Busy, Waits, Carried, InitServers, In, Reply, Op, TypeOK
<1>6. Stopped'
  BY DEF Stopped, InitServers, In, Reply, Op, TypeOK
<1> QED BY <1>1, <1>2, <1>3, <1>4, <1>5, <1>6

LEMMA RefuseInputKeeps ==
  ASSUME Core, RefuseInput
  PROVE  Core'
<1> USE HandlerFields, CallFields DEF Core
<1>1. TypeOK'
  BY DEF TypeOK, RefuseInput, In, Reply, Op
<1>2. Carried'
  BY DEF Carried, Busy, Waits, RefuseInput, In, Reply, Op, TypeOK
<1>3. Fits'
  BY DEF Fits, RefuseInput, In, Reply, Op, TypeOK
<1>4. OwnFails'
  BY DEF OwnFails, Busy, Carried, RefuseInput, In, Reply, Op, GilFree, TypeOK
<1>5. Numbers' /\ DoneOnce'
  BY DEF Numbers, DoneOnce, Open, Busy, Waits, Carried, RefuseInput, In, Reply, Op, TypeOK
<1>6. Stopped'
  BY DEF Stopped, RefuseInput, In, Reply, Op, TypeOK
<1> QED BY <1>1, <1>2, <1>3, <1>4, <1>5, <1>6

LEMMA NoServersKeeps ==
  ASSUME Core, NoServers
  PROVE  Core'
<1> USE HandlerFields, CallFields DEF Core
<1>1. TypeOK'
  BY DEF TypeOK, NoServers, In, Reply, Op
<1>2. Carried'
  BY DEF Carried, Busy, Waits, NoServers, In, Reply, Op, TypeOK
<1>3. Fits'
  BY DEF Fits, NoServers, In, Reply, Op, TypeOK
<1>4. OwnFails'
  BY DEF OwnFails, Busy, Carried, NoServers, In, Reply, Op, GilFree, TypeOK
<1>5. Numbers' /\ DoneOnce'
  BY DEF Numbers, DoneOnce, Open, Busy, Waits, Carried, NoServers, In, Reply, Op, TypeOK
<1>6. Stopped'
  BY DEF Stopped, NoServers, In, Reply, Op, TypeOK
<1> QED BY <1>1, <1>2, <1>3, <1>4, <1>5, <1>6

LEMMA ConnectKeeps ==
  ASSUME Core, Connect
  PROVE  Core'
<1> USE HandlerFields, CallFields DEF Core
<1>1. TypeOK'
  BY DEF TypeOK, Connect, In, Reply, Op
<1>2. Carried'
  BY DEF Carried, Busy, Waits, Connect, In, Reply, Op, TypeOK
<1>3. Fits'
  BY DEF Fits, Connect, In, Reply, Op, TypeOK
<1>4. OwnFails'
  BY DEF OwnFails, Busy, Carried, Connect, In, Reply, Op, GilFree, TypeOK
<1>5. Numbers' /\ DoneOnce'
  BY DEF Numbers, DoneOnce, Open, Busy, Waits, Carried, Connect, In, Reply, Op, TypeOK
<1>6. Stopped'
  BY DEF Stopped, Connect, In, Reply, Op, TypeOK
<1> QED BY <1>1, <1>2, <1>3, <1>4, <1>5, <1>6

LEMMA ServeKeeps ==
  ASSUME Core, Serve
  PROVE  Core'
<1> USE HandlerFields, CallFields DEF Core
<1>1. /\ h.pc = "asked" /\ h.s \in up /\ Busy(h.p) /\ h.p \in Caller
      /\ UNCHANGED <<main, call, queue, SERVERS, up, late, buf>>
  BY DEF Serve, Busy
<1>2. Op.op \in {"get", "put"} /\ Op.k \in Key /\ Op = call[h.p]
  BY <1>1 DEF Fits, Op
<1>0. PICK v \in Value \cup {NoValue} : h' = [pc |-> "answered", p |-> h.p, val |-> v]
  BY <1>2 DEF Serve, TypeOK
<1>3. Op.op = "put" => /\ Op.n \in DOMAIN applied /\ applied[Op.n] = 0
                       /\ \A r \in late : r.n # Op.n
  BY <1>1, <1>2 DEF DoneOnce, Open, Numbers
<1>4. /\ given' \in [Key -> SUBSET Value]
      /\ applied' \in Seq(Nat) /\ DOMAIN applied' = DOMAIN applied
      /\ Op.op = "put" => applied'[Op.n] = 1
      /\ \A n \in DOMAIN applied : applied'[n] = applied[n] \/ (n = Op.n /\ Op.op = "put")
  <2>1. CASE Op.op = "put"
    <3>1. Store(Op) /\ Op.v \in Value
      BY <1>1, <1>2, <2>1 DEF Serve, Perform
    <3> QED BY <1>1, <1>2, <1>3, <2>1, <3>1, StoreDoes
  <2>2. CASE Op.op # "put"
    BY <2>2 DEF Serve, Perform, TypeOK
  <2> QED BY <2>1, <2>2
<1>5. TypeOK'
  BY <1>0, <1>1, <1>2, <1>4 DEF TypeOK
<1>6. Carried'
  BY <1>0, <1>1 DEF Carried, Busy, Waits
<1>7. Fits' /\ OwnFails' /\ Stopped'
  BY <1>0, <1>1, <1>2 DEF Fits, Op, OwnFails, Busy, Stopped
<1>8. Numbers'
  BY <1>1, <1>4 DEF Numbers
<1>9. DoneOnce'
  <2>1. \A n \in DOMAIN applied' : applied'[n] <= 1
    BY <1>3, <1>4 DEF DoneOnce
  <2>2. \A r \in late : applied'[r.n] = 0
    BY <1>3, <1>4 DEF DoneOnce, Numbers
  <2>3. \A p \in Caller : Open(p)' => Open(p) /\ p # h.p
    BY <1>0, <1>1 DEF Open, Busy, Waits, Carried
  <2>4. ASSUME NEW p \in Caller, call[p].op = "put", Open(p)'
        PROVE  applied'[call[p].n] = 0 /\ \A r \in late : r.n # call[p].n
    <3>1. call[p].n \in DOMAIN applied /\ ~(call[p].n = Op.n /\ Op.op = "put")
      BY <1>1, <1>2, <2>3, <2>4 DEF Numbers
    <3> QED BY <3>1, <1>4, <2>3, <2>4 DEF DoneOnce
  <2>5. h'.pc = "answered" /\ Op' = Op
    BY <1>0, <1>1 DEF Op
  <2>6. \A r, s \in late : r.n = s.n => r = s
    BY DEF DoneOnce
  <2> QED BY <1>1, <1>4, <2>1, <2>2, <2>4, <2>5, <2>6 DEF DoneOnce
<1> QED BY <1>5, <1>6, <1>7, <1>8, <1>9

LEMMA HearKeeps ==
  ASSUME Core, Hear
  PROVE  Core'
<1> USE HandlerFields, CallFields DEF Core
<1>1. TypeOK'
  BY DEF TypeOK, Hear, Reply, Op
<1>2. Carried'
  BY DEF Carried, Busy, Waits, Hear, Reply, Op, TypeOK
<1>3. Fits'
  BY DEF Fits, Hear, Reply, Op, TypeOK
<1>4. OwnFails'
  BY DEF OwnFails, Busy, Carried, Hear, Reply, Op, GilFree, TypeOK
<1>5. Numbers' /\ DoneOnce'
  BY DEF Numbers, DoneOnce, Open, Busy, Waits, Carried, Hear, Reply, Op, TypeOK
<1>6. Stopped'
  BY DEF Stopped, Fits, Hear, Reply, Op, TypeOK
<1> QED BY <1>1, <1>2, <1>3, <1>4, <1>5, <1>6

LEMMA LoseKeeps ==
  ASSUME Core, Lose
  PROVE  Core'
<1> USE HandlerFields, CallFields DEF Core
<1>1. TypeOK'
  BY DEF TypeOK, Lose, Reply, Op
<1>2. Carried'
  BY DEF Carried, Busy, Waits, Lose, Reply, Op, TypeOK
<1>3. Fits'
  BY DEF Fits, Lose, Reply, Op, TypeOK
<1>4. OwnFails'
  BY DEF OwnFails, Busy, Carried, Lose, Reply, Op, GilFree, TypeOK
<1>5. Numbers' /\ DoneOnce'
  BY DEF Numbers, DoneOnce, Open, Busy, Waits, Carried, Lose, Reply, Op, TypeOK
<1>6. Stopped'
  BY DEF Stopped, Lose, Reply, Op, TypeOK
<1> QED BY <1>1, <1>2, <1>3, <1>4, <1>5, <1>6

LEMMA TimeoutKeeps ==
  ASSUME Core, Timeout
  PROVE  Core'
<1> USE HandlerFields, CallFields DEF Core
<1>1. TypeOK'
  <2>1. Leave \subseteq [n: Nat \ {0}, k: Key, v: Value, s: Server]
    BY DEF Leave, Op, Timeout
  <2> QED BY <2>1 DEF TypeOK, Timeout, Reply
<1>2. Carried'
  BY DEF Carried, Busy, Waits, Timeout, Reply, Leave, Op, TypeOK
<1>3. Fits'
  BY DEF Fits, Timeout, Reply, Leave, Op, TypeOK
<1>4. OwnFails'
  BY DEF OwnFails, Busy, Carried, Timeout, Reply, Leave, Op, GilFree, TypeOK
<1>5. Numbers' /\ DoneOnce'
  BY DEF Numbers, DoneOnce, Open, Busy, Waits, Carried, Timeout, Reply, Leave, Op, TypeOK
<1>6. Stopped'
  BY DEF Stopped, Timeout, Reply, Leave, Op, TypeOK
<1> QED BY <1>1, <1>2, <1>3, <1>4, <1>5, <1>6

LEMMA LateServeKeeps ==
  ASSUME Core, LateServe
  PROVE  Core'
<1> USE HandlerFields, CallFields DEF Core
<1>1. PICK r \in late : /\ r.s \in up /\ Store(r) /\ late' = late \ {r}
                        /\ UNCHANGED <<main, call, queue, h, SERVERS, up, buf>>
  BY DEF LateServe
<1>2. r.k \in Key /\ r.v \in Value /\ r.n \in DOMAIN applied
  BY DEF TypeOK, Numbers
<1>3. applied[r.n] = 0
  BY DEF DoneOnce
<1>4. /\ given' \in [Key -> SUBSET Value]
      /\ applied' \in Seq(Nat) /\ DOMAIN applied' = DOMAIN applied
      /\ applied'[r.n] = 1
      /\ \A n \in DOMAIN applied \ {r.n} : applied'[n] = applied[n]
  BY <1>1, <1>2, <1>3, StoreDoes
<1>5. TypeOK'
  BY <1>1, <1>4 DEF TypeOK
<1>6. Carried' /\ Fits' /\ OwnFails' /\ Stopped' /\ Numbers'
  BY <1>1, <1>4 DEF Carried, Fits, Op, OwnFails, Busy, Waits, Stopped, Numbers
<1>7. DoneOnce'
  <2>1. \A n \in DOMAIN applied' : applied'[n] <= 1
    BY <1>4 DEF DoneOnce
  <2>2. \A t \in late' : t \in late /\ t.n \in DOMAIN applied \ {r.n}
    BY <1>1 DEF Numbers, DoneOnce
  <2>3. \A t \in late' : applied'[t.n] = 0
    BY <1>4, <2>2 DEF DoneOnce
  <2>4. \A p \in Caller : Open(p)' <=> Open(p)
    BY <1>1 DEF Open, Busy, Waits
  <2>5. ASSUME NEW p \in Caller, call[p].op = "put", Open(p)'
        PROVE  applied'[call[p].n] = 0 /\ \A t \in late' : t.n # call[p].n
    <3>1. call[p].n \in DOMAIN applied \ {r.n}
      BY <2>4, <2>5 DEF DoneOnce, Numbers
    <3> QED BY <3>1, <1>4, <2>2, <2>4, <2>5 DEF DoneOnce
  <2>6. /\ h.pc \in {"answered", "reply"} => h.p \in Caller
        /\ h.pc \in {"answered", "reply"} /\ Op.op = "put" => Op.n \in DOMAIN applied
    BY DEF Numbers, Op
  <2>7. h.pc \in {"answered", "reply"} /\ Op.op = "put" /\ applied[Op.n] = 1 => applied'[Op.n] = 1
    BY <1>3, <1>4, <2>6
  <2>8. \A t, s \in late' : t.n = s.n => t = s
    BY <2>2 DEF DoneOnce
  <2>9. UNCHANGED <<h, call, SERVERS, Op>>
    BY <1>1 DEF Op
  <2> QED BY <2>1, <2>3, <2>5, <2>7, <2>8, <2>9 DEF DoneOnce
<1> QED BY <1>5, <1>6, <1>7

LEMMA DownKeeps ==
  ASSUME Core, Down
  PROVE  Core'
<1> USE HandlerFields, CallFields DEF Core
<1>1. PICK s \in up :
        /\ up' = up \ {s}
        /\ late' = {r \in late : r.s # s}
        /\ \/ UNCHANGED <<given, applied>>
           \/ h.pc = "asked" /\ h.s = s /\ Perform
  BY DEF Down
<1>2. UNCHANGED <<main, call, queue, h, SERVERS, buf>>
  BY DEF Down
<1>3. /\ given' \in [Key -> SUBSET Value]
      /\ applied' \in Seq(Nat) /\ DOMAIN applied' = DOMAIN applied
      /\ \A n \in DOMAIN applied : applied'[n] <= 1
      /\ \A n \in DOMAIN applied :
           \/ applied'[n] = applied[n]
           \/ /\ h.pc = "asked" /\ h.s = s /\ Op.op = "put" /\ n = Op.n
              /\ \A r \in late : r.n # n
  <2>0. applied \in Seq(Nat) /\ \A n \in DOMAIN applied : applied[n] <= 1
    BY DEF TypeOK, DoneOnce
  <2>1. CASE UNCHANGED <<given, applied>> \/ Op.op # "put"
    <3>1. UNCHANGED <<given, applied>>
      BY <1>1, <2>1 DEF Perform
    <3> QED BY <2>0, <3>1 DEF TypeOK
  <2>2. CASE ~(UNCHANGED <<given, applied>>) /\ Op.op = "put"
    <3>1. h.pc = "asked" /\ h.s = s /\ Store(Op)
      BY <1>1, <2>2 DEF Perform
    <3>2. h.p \in Caller /\ Op = call[h.p] /\ Op.k \in Key /\ Op.v \in Value
          /\ Op.n \in DOMAIN applied
      BY <2>2, <3>1 DEF Op, Numbers
    <3>3. applied[Op.n] = 0 /\ \A r \in late : r.n # Op.n
      BY <2>2, <3>1, <3>2 DEF DoneOnce, Open, Busy
    <3>4. /\ given' \in [Key -> SUBSET Value]
          /\ applied' \in Seq(Nat) /\ DOMAIN applied' = DOMAIN applied
          /\ applied'[Op.n] = 1
          /\ \A n \in DOMAIN applied \ {Op.n} : applied'[n] = applied[n]
      BY <3>1, <3>2, <3>3, StoreDoes
    <3> QED BY <2>0, <2>2, <3>1, <3>3, <3>4
  <2> QED BY <2>1, <2>2
<1>4. TypeOK'
  BY <1>1, <1>2, <1>3 DEF TypeOK
<1>5. Carried' /\ Fits' /\ OwnFails' /\ Stopped' /\ Numbers'
  BY <1>1, <1>2, <1>3 DEF Carried, Fits, Op, OwnFails, Busy, Waits, Stopped, Numbers
<1>6. DoneOnce'
  <2>1. \A r \in late' : r \in late /\ r.n \in DOMAIN applied
    BY <1>1 DEF Numbers
  <2>2. \A r \in late' : applied'[r.n] = 0
    BY <1>3, <2>1 DEF DoneOnce
  <2>3. \A p \in Caller : Open(p)' => Open(p) /\ ~(h.pc = "asked" /\ h.s = s /\ p = h.p)
    BY <1>1, <1>2 DEF Open, Busy, Waits, Carried
  <2>4. ASSUME NEW p \in Caller, call[p].op = "put", Open(p)'
        PROVE  applied'[call[p].n] = 0 /\ \A r \in late' : r.n # call[p].n
    <3>1. call[p].n \in DOMAIN applied
      BY <2>4 DEF Numbers
    <3>2. ~(h.pc = "asked" /\ h.s = s /\ Op.op = "put" /\ call[p].n = Op.n)
      BY <2>3, <2>4 DEF Numbers, Op
    <3>3. applied'[call[p].n] = applied[call[p].n]
      BY <1>3, <3>1, <3>2
    <3> QED BY <3>3, <2>1, <2>3, <2>4 DEF DoneOnce
  <2>5. h.pc \in {"answered", "reply"} /\ Op.op = "put" => applied'[Op.n] = applied[Op.n]
    <3>1. h.pc \in {"answered", "reply"} /\ Op.op = "put" => Op.n \in DOMAIN applied
      BY DEF Op, Numbers
    <3> QED BY <1>3, <3>1
  <2>6. \A t, r \in late' : t.n = r.n => t = r
    BY <2>1 DEF DoneOnce
  <2>7. UNCHANGED <<h, call, SERVERS, Op>>
    BY <1>2 DEF Op
  <2> QED BY <1>3, <2>2, <2>4, <2>5, <2>6, <2>7 DEF DoneOnce
<1> QED BY <1>4, <1>5, <1>6

LEMMA StartKillingKeeps ==
  ASSUME Core, StartKilling
  PROVE  Core'
<1> USE HandlerFields, CallFields DEF Core
<1>1. TypeOK'
  BY DEF TypeOK, StartKilling, In, Op
<1>2. Carried'
  BY DEF Carried, Busy, Waits, StartKilling, In, Op, TypeOK
<1>3. Fits'
  BY DEF Fits, StartKilling, In, Op, TypeOK
<1>4. OwnFails'
  BY DEF OwnFails, Busy, Carried, StartKilling, In, Op, GilFree, TypeOK
<1>5. Numbers' /\ DoneOnce'
  BY DEF Numbers, DoneOnce, Open, Busy, Waits, Carried, StartKilling, In, Op, TypeOK
<1>6. Stopped'
  BY DEF Stopped, StartKilling, In, Op, TypeOK
<1> QED BY <1>1, <1>2, <1>3, <1>4, <1>5, <1>6

LEMMA KillKeeps ==
  ASSUME Core, Kill
  PROVE  Core'
<1> USE HandlerFields, CallFields DEF Core
<1>1. TypeOK'
  BY DEF TypeOK, Kill, Reply, Op
<1>2. Carried'
  BY DEF Carried, Busy, Waits, Kill, Reply, Op, TypeOK
<1>3. Fits'
  BY DEF Fits, Kill, Reply, Op, TypeOK
<1>4. OwnFails'
  BY DEF OwnFails, Busy, Carried, Kill, Reply, Op, GilFree, TypeOK
<1>5. Numbers' /\ DoneOnce'
  BY DEF Numbers, DoneOnce, Open, Busy, Waits, Carried, Kill, Reply, Op, TypeOK
<1>6. Stopped'
  BY DEF Stopped, Kill, Reply, Op, TypeOK
<1> QED BY <1>1, <1>2, <1>3, <1>4, <1>5, <1>6

LEMMA KilledAllKeeps ==
  ASSUME Core, KilledAll
  PROVE  Core'
<1> USE HandlerFields, CallFields DEF Core
<1>1. TypeOK'
  BY DEF TypeOK, KilledAll, Reply, Op
<1>2. Carried'
  BY DEF Carried, Busy, Waits, KilledAll, Reply, Op, TypeOK
<1>3. Fits'
  BY DEF Fits, KilledAll, Reply, Op, TypeOK
<1>4. OwnFails'
  BY DEF OwnFails, Busy, Carried, KilledAll, Reply, Op, GilFree, TypeOK
<1>5. Numbers' /\ DoneOnce'
  BY DEF Numbers, DoneOnce, Fits, Open, Busy, Waits, KilledAll, Reply, Op, TypeOK
<1>6. Stopped'
  BY DEF Stopped, KilledAll, Reply, Op, TypeOK
<1> QED BY <1>1, <1>2, <1>3, <1>4, <1>5, <1>6

LEMMA ReturnKeeps ==
  ASSUME Core, Return
  PROVE  Core'
<1> USE HandlerFields, CallFields DEF Core
<1>1. TypeOK'
  BY DEF TypeOK, Return, Idle, Op
<1>2. Carried'
  BY DEF Carried, Busy, Waits, Return, Idle, Op, TypeOK
<1>3. Fits'
  BY DEF Fits, Return, Idle, Op, TypeOK
<1>4. OwnFails'
  BY DEF OwnFails, Busy, Carried, Return, Idle, Op, GilFree, TypeOK
<1>5. Numbers' /\ DoneOnce'
  <2>1. /\ h' = Idle /\ h'.pc = "idle"
        /\ UNCHANGED <<queue, SERVERS, up, late, applied>>
    BY DEF Return, Idle
  <2>2. NoCall.op # "put"
    BY DEF NoCall
  <2>3. \A p \in Caller : call'[p].op = "put" => call'[p] = call[p] /\ p # h.p
    <3>1. call' = [call EXCEPT ![h.p] = NoCall]
      BY DEF Return
    <3> QED BY <2>2, <3>1 DEF TypeOK
  <2>4. \A p \in Caller : Open(p)' => Open(p)
    BY <2>1 DEF Open, Busy, Waits
  <2>5. Numbers'
    BY <2>1, <2>3 DEF Numbers
  <2>6. DoneOnce'
    BY <2>1, <2>3, <2>4 DEF DoneOnce
  <2> QED BY <2>5, <2>6
<1>6. Stopped'
  BY DEF Stopped, Return, Idle, Op, TypeOK
<1> QED BY <1>1, <1>2, <1>3, <1>4, <1>5, <1>6

\* init adds servers behind those it was given before.
LEMMA ServersGrow ==
  ASSUME TypeOK, InitServers
  PROVE  /\ DOMAIN SERVERS \subseteq DOMAIN SERVERS'
         /\ \A i \in DOMAIN SERVERS : SERVERS'[i] = SERVERS[i]
<1> DEFINE named == SubSeq(Op.list, 1, Parsed(Op.list))
<1>1. h.p \in Caller /\ Op.list \in Seq(Entry)
  BY HandlerFields, CallFields DEF InitServers, In, Op
<1>2. Parsed(Op.list) \in Int /\ \A i \in 1..Parsed(Op.list) : Op.list[i] \in Server
  BY <1>1, ParsedPrefix
<1>3. named \in Seq(Server)
  BY <1>2, SubSeqProperties
<1>4. SERVERS' = SERVERS \o named /\ SERVERS \in Seq(Server)
  BY DEF InitServers, TypeOK
<1> HIDE DEF named
<1>5. /\ Len(SERVERS) \in Nat /\ Len(named) \in Nat /\ Len(SERVERS') = Len(SERVERS) + Len(named)
      /\ DOMAIN SERVERS = 1..Len(SERVERS) /\ DOMAIN SERVERS' = 1..Len(SERVERS')
      /\ \A i \in 1..Len(SERVERS) : SERVERS'[i] = SERVERS[i]
  BY <1>3, <1>4, ConcatProperties
<1> QED BY <1>5

LEMMA LateLeftKept ==
  ASSUME Core, LateLeft, [Next]_vars
  PROVE  LateLeft'
<1>1. CASE UNCHANGED <<late, up, SERVERS>>
  BY <1>1 DEF LateLeft
<1>2. CASE InitServers
  <2>1. UNCHANGED <<late, up>>
    BY <1>2 DEF InitServers
  <2>2. /\ DOMAIN SERVERS \subseteq DOMAIN SERVERS'
        /\ \A i \in DOMAIN SERVERS : SERVERS'[i] = SERVERS[i]
    BY <1>2, ServersGrow DEF Core
  <2> QED BY <2>1, <2>2 DEF LateLeft
<1>3. CASE Timeout
  <2>1. late' = late \cup Leave /\ UNCHANGED <<up, SERVERS>> /\ h.pc = "asked" /\ h.s \in up
    BY <1>3 DEF Timeout
  <2>2. \E i \in DOMAIN SERVERS : SERVERS[i] = h.s
    BY <2>1 DEF Core, Fits
  <2>3. \A r \in Leave : r.s = h.s
    BY DEF Leave
  <2> QED BY <2>1, <2>2, <2>3 DEF LateLeft
<1>4. CASE LateServe
  BY <1>4 DEF LateServe, LateLeft
<1>5. CASE Down
  BY <1>5 DEF Down, LateLeft
<1>6. CASE Kill
  BY <1>6 DEF Kill, LateLeft
<1>7. MainStep \/ Take \/ RefuseInput \/ NoServers \/ Connect \/ Serve \/ Hear \/ Lose
        \/ StartKilling \/ KilledAll \/ Return \/ (\E p \in Caller : Call(p)) \/ UNCHANGED vars
        => UNCHANGED <<late, up, SERVERS>>
  BY DEF MainStep, Take, RefuseInput, NoServers, Connect, Serve, Hear, Lose, StartKilling,
         KilledAll, Return, Call, vars
<1> QED BY <1>1, <1>2, <1>3, <1>4, <1>5, <1>6, <1>7 DEF Next, Handler

LEMMA CoreStep == Core /\ [Next]_vars => Core'
<1> SUFFICES ASSUME Core, [Next]_vars PROVE Core'
  OBVIOUS
<1>1. CASE Handler
  BY <1>1, TakeKeeps, InitServersKeeps, RefuseInputKeeps, NoServersKeeps, ConnectKeeps, HearKeeps,
     LoseKeeps, TimeoutKeeps, StartKillingKeeps, KillKeeps, KilledAllKeeps, ReturnKeeps DEF Handler
<1>2. CASE UNCHANGED vars
  BY <1>2 DEF vars, Core, TypeOK, Carried, Fits, Op, OwnFails, Numbers, DoneOnce, Stopped, Open,
              Busy, Waits
<1> QED BY <1>1, <1>2, MainStepKeeps, CallKeeps, ServeKeeps, LateServeKeeps, DownKeeps DEF Next

LEMMA IInvStep == IInv /\ [Next]_vars => IInv'
BY CoreStep, LateLeftKept DEF IInv

\* The invariant holds throughout, whatever the programs call and however the
\* servers stop or fall behind.
THEOREM BridgeInvariant == Spec => []IInv
BY IInvInit, IInvStep, PTL DEF Spec

\* Every variable has its type; SERVERS holds addresses only (kvlib.py:25-28).
THEOREM BridgeTypes == Spec => []TypeOK
<1>1. IInv => TypeOK
  BY DEF IInv, Core
<1> QED BY <1>1, BridgeInvariant, PTL

\* A put that does not return -1 has been begun by one server, and none is ever
\* begun twice, with answers late or lost and puts made again (kvlib.py:84-120).
THEOREM PutsAreDoneOnce == Spec => PutsOnce
<1> DEFINE Once == /\ \A n \in DOMAIN applied' : applied'[n] <= 1
                   /\ Returns /\ Op.op = "put" /\ h.code # -1 /\ SERVERS # <<>>
                        => applied[Op.n] = 1
<1>1. IInv /\ IInv' => [Once]_vars
  <2>1. IInv' => \A n \in DOMAIN applied' : applied'[n] <= 1
    BY DEF IInv, Core, DoneOnce
  <2>2. IInv => (Returns /\ Op.op = "put" /\ h.code # -1 /\ SERVERS # <<>> => applied[Op.n] = 1)
    BY DEF IInv, Core, DoneOnce, Returns
  <2> QED BY <2>1, <2>2
<1>2. Spec => [][Once]_vars
  <2> HIDE DEF Once
  <2> QED BY <1>1, BridgeInvariant, PTL DEF Spec
<1> QED BY <1>2 DEF PutsOnce

\* After a shutdown that returns 0 no server of SERVERS runs, and no put whose
\* answer was late is left to any of them (kvlib.py:34-45).
THEOREM ShutdownIsComplete == Spec => ShutdownStops
<1>1. IInv => [Returns /\ Op.op = "shutdown" /\ h.code = 0
                 => late = {} /\ \A i \in DOMAIN SERVERS : SERVERS[i] \notin up]_vars
  BY DEF IInv, Core, LateLeft, Stopped, Returns
<1> QED BY <1>1, BridgeInvariant, PTL DEF Spec, ShutdownStops

\* The main thread's own calls never succeed (kvs739.cpp:61-104).
THEOREM OwnCallsNeverSucceed == Spec => OwnCallsFail
<1>1. IInv => [Returns /\ h.p = "main" => h.code = -1]_vars
  BY DEF IInv, Core, OwnFails, Busy, Returns
<1> QED BY <1>1, BridgeInvariant, PTL DEF Spec, OwnCallsFail

\* Every failed call has one of the known causes (kvlib.py:147-168,
\* rpcserver.cpp:144-209).
THEOREM FailuresHaveCauses == Spec => FailsForCause
<1> DEFINE Cause(q) ==
      \/ main < 5 + Rank[q.op]
      \/ q.op = "init" /\ \E i \in DOMAIN q.list : q.list[i] \notin Server
      \/ q.op = "put" /\ q.v \in Bad
      \/ q.op # "init" /\ \E i \in DOMAIN SERVERS : SERVERS[i] \notin up
      \/ q.op = "shutdown" /\ \E i \in DOMAIN SERVERS : SERVERS[i] \notin Listed
      \/ Timeout
           Fails == h.pc # "reply" /\ h'.pc = "reply" /\ h'.code = -1
<1>1. ASSUME IInv, Next, Fails PROVE Cause(call[h'.p])
  <2> USE <1>1, HandlerFields, CallFields DEF IInv, Core
  <2>1. CASE Take
    <3> DEFINE p == Head(queue)
    <3>1. p \in Caller /\ Waits(p)
      BY <2>1, HeadTailProperties DEF Take, TypeOK, Waits
    <3>2. call[p].op \in DOMAIN Rank /\ Rank[call[p].op] \in 1..4
      BY <3>1 DEF Carried, Rank
    <3>3. ~Registered(call[p].op) /\ h'.p = p
      BY <2>1 DEF Take, Reply
    <3> HIDE DEF p
    <3>4. main \in Int
      BY DEF TypeOK
    <3>5. main < 5 + Rank[call[p].op]
      BY <3>2, <3>3, <3>4 DEF Registered
    <3> QED BY <3>3, <3>5
  <2>2. CASE InitServers
    <3>1. h'.p = h.p /\ Op.op = "init" /\ Op.list \in Seq(Entry)
      BY <2>2 DEF InitServers, In, Op, Reply
    <3>2. Parsed(Op.list) # Len(Op.list)
      BY <2>2 DEF InitServers, Reply
    <3>3. Parsed(Op.list) + 1 \in DOMAIN Op.list /\ Op.list[Parsed(Op.list) + 1] \notin Server
      BY <3>1, <3>2, ParsedPrefix
    <3> QED BY <3>1, <3>3 DEF Op
  <2>3. CASE RefuseInput
    BY <2>3 DEF RefuseInput, Refuses, In, Op, Reply
  <2>4. CASE Connect
    <3>1. \E i \in DOMAIN SERVERS : SERVERS[i] \notin up
      BY <2>4 DEF Connect
    <3> QED BY <2>4, <3>1 DEF Connect, In, Op, Reply
  <2>5. CASE Lose
    BY <2>5 DEF Lose, Fits, Op, Reply
  <2>6. CASE Timeout
    BY <2>6
  <2>7. CASE Kill
    <3>1. h.i \in DOMAIN SERVERS /\ SERVERS[h.i] \notin up \cap Listed /\ h'.p = h.p
      BY <2>7 DEF Kill, Reply, TypeOK
    <3> QED BY <2>7, <3>1 DEF Kill, Fits, Op
  <2>8. ~NoServers /\ ~Hear /\ ~StartKilling /\ ~KilledAll /\ ~Return
    BY DEF NoServers, Hear, StartKilling, KilledAll, Return, Reply, Idle
  <2>9. ~MainStep /\ ~Serve /\ ~LateServe /\ ~Down /\ \A p \in Caller : ~Call(p)
    BY DEF MainStep, Serve, LateServe, Down, Call
  <2> QED BY <2>1, <2>2, <2>3, <2>4, <2>5, <2>6, <2>7, <2>8, <2>9 DEF Next, Handler
<1>2. IInv /\ [Next]_vars => [Fails => Cause(call[h'.p])]_vars
  <2> HIDE DEF Cause, Fails
  <2> QED BY <1>1
<1>3. IInv /\ [Next]_vars
        => [Fails => LET q == call[h'.p]
                     IN  \/ main < 5 + Rank[q.op]
                         \/ q.op = "init" /\ \E i \in DOMAIN q.list : q.list[i] \notin Server
                         \/ q.op = "put" /\ q.v \in Bad
                         \/ q.op # "init" /\ \E i \in DOMAIN SERVERS : SERVERS[i] \notin up
                         \/ q.op = "shutdown" /\ \E i \in DOMAIN SERVERS : SERVERS[i] \notin Listed
                         \/ Timeout]_vars
  BY <1>2
<1> QED BY <1>3, BridgeInvariant, PTL DEF Spec, FailsForCause
=============================================================================
