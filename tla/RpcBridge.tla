----------------------------- MODULE RpcBridge -----------------------------
(***************************************************************************)
(* The way of a call from a C program to the servers: lib739kv.cpp and     *)
(* rpcclient.cpp send one message to the Python process that imported the  *)
(* module kvs; there the one handler thread of rpcserver.cpp hands it, in  *)
(* kvs739.cpp, to a Python function of kvlib.py, which asks one server of  *)
(* SERVERS.  The main thread of that process imports kvs, registers the    *)
(* functions and may itself call kvs.get, keeping Python's interpreter     *)
(* lock while it waits.  ConnServer models the connections of the handler  *)
(* thread and the end of the process, KvServer the servers: here any value *)
(* whose put one of them has begun may be what another of them has.        *)
(***************************************************************************)
EXTENDS Integers, Sequences, FiniteSets

CONSTANTS Prog,       \* the C programs
          Server,     \* the addresses the servers listen on
          Entry,      \* what a list for init may hold: addresses, and other text
          Listed,     \* those server_manager.py wrote into the pid file
          Key, Value, \* keys, and values as non-empty sequences of characters
          Bad,        \* the values bad_input refuses
          Asks,       \* the calls each caller makes
          MaxServers, \* bound: no init is called once SERVERS has this length
          MaxPuts     \* bound: puts that callers make

Caller == Prog \cup {"main"}
NoValue == <<>>
NoCall == [op |-> "none"]
Plain == [op: {"init"}, list: Seq(Entry)] \cup [op: {"get"}, k: Key] \cup [op: {"shutdown"}]
PutOf == [op: {"put"}, k: Key, v: Value]
Numbered == [op: {"put"}, k: Key, v: Value, n: Nat \ {0}]

ASSUME BridgeAssumption ==
  /\ "main" \notin Prog
  /\ Server \subseteq Entry /\ Listed \subseteq Server /\ Bad \subseteq Value
  /\ \A p \in Caller : \A q \in Asks[p] : q \in Plain \cup PutOf
  /\ NoValue \notin Value /\ MaxServers \in Nat /\ MaxPuts \in Nat

VARIABLES main,     \* how many steps of importing and registering are done
          call,     \* the call each caller waits for
          queue,    \* the callers whose connections wait (conns_)
          h,        \* what the handler thread is doing
          SERVERS,  \* kvlib's list of servers
          up,       \* the servers that run
          given,    \* the values of each key whose put a server has begun
          late,     \* puts whose caller was told -1, not yet begun by their server
          buf,      \* the buffer each caller passes to kv739_get
          applied   \* history: how often servers began each put, in the order of the calls

vars == <<main, call, queue, h, SERVERS, up, given, late, buf, applied>>

\* 1: serve(); 2-5: the C callbacks, in PyInit_kvs; 6-9: the Python functions.
Rank == [init |-> 1, put |-> 2, get |-> 3, shutdown |-> 4]
\* Mutant of Registered: the last function is never seen as registered.
RegisteredTooLate(op) == main > 1 + Rank[op] /\ main > 5 + Rank[op]
Registered(op) == main >= 1 + Rank[op] /\ main >= 5 + Rank[op]

\* Python code runs in the handler thread only while the main thread does not
\* sit in a call of its own: kvs_get does not give up the interpreter lock.
\* Mutant of GilFree: the wrappers release the lock around kv739_get.
GilReleased == TRUE
GilFree == call["main"] = NoCall

Idle == [pc |-> "idle"]
Reply(p, code, v) == [pc |-> "reply", p |-> p, code |-> code, val |-> v]
Op == call[h.p]
In(pc, ops) == h.pc = pc /\ Op.op \in ops

Init ==
  /\ main = 0
  /\ call = [p \in Caller |-> NoCall]
  /\ queue = <<>> /\ h = Idle
  /\ SERVERS = <<>> /\ up = Server
  /\ given = [k \in Key |-> {}] /\ late = {}
  /\ buf = [p \in Caller |-> <<>>]
  /\ applied = <<>>

MainStep ==
  /\ main < 9 /\ GilFree /\ main' = main + 1
  /\ UNCHANGED <<call, queue, h, SERVERS, up, given, late, buf, applied>>

\* A put is known by its number, so that one made again is another put.
Made(q) == IF q.op = "put" THEN [op |-> "put", k |-> q.k, v |-> q.v, n |-> Len(applied) + 1]
           ELSE q

\* A call before serve() is refused and returns -1 at once: no state changes.
Call(p) ==
  /\ call[p] = NoCall /\ main >= 1 /\ (p = "main" => main >= 5)
  /\ \E q \in Asks[p] :
       /\ q.op = "init" => Len(SERVERS) < MaxServers
       /\ q.op = "put" => Len(applied) < MaxPuts
       /\ call' = [call EXCEPT ![p] = Made(q)]
       /\ applied' = IF q.op = "put" THEN Append(applied, 0) ELSE applied
  /\ queue' = Append(queue, p)
  /\ UNCHANGED <<main, h, SERVERS, up, given, late, buf>>

Take ==
  /\ h.pc = "idle" /\ queue # <<>>
  /\ LET p == Head(queue)
     IN  h' = IF Registered(call[p].op) THEN [pc |-> "enter", p |-> p] ELSE Reply(p, -1, NoValue)
  /\ queue' = Tail(queue)
  /\ UNCHANGED <<main, call, SERVERS, up, given, late, buf, applied>>

\* c_init appends the servers in front of the first entry that is not an
\* address, and only then fails.
Parsed(l) == CHOOSE n \in 0..Len(l) : /\ \A i \in 1..n : l[i] \in Server
                                      /\ n < Len(l) => l[n + 1] \notin Server
\* Mutant of InitServers: an entry is appended before its port is parsed.
InitUnparsed ==
  /\ In("enter", {"init"}) /\ GilFree
  /\ SERVERS' = SERVERS \o Op.list
  /\ h' = Reply(h.p, IF Parsed(Op.list) = Len(Op.list) THEN 0 ELSE -1, NoValue)
  /\ UNCHANGED <<main, call, queue, up, given, late, buf, applied>>
InitServers ==
  /\ In("enter", {"init"}) /\ GilFree
  /\ SERVERS' = SERVERS \o SubSeq(Op.list, 1, Parsed(Op.list))
  /\ h' = Reply(h.p, IF Parsed(Op.list) = Len(Op.list) THEN 0 ELSE -1, NoValue)
  /\ UNCHANGED <<main, call, queue, up, given, late, buf, applied>>

Refuses == Op.op = "put" /\ Op.v \in Bad
\* put() returns -1 where c_put unpacks a pair: a TypeError, so -1 either way.
RefuseInput ==
  /\ In("enter", {"put"}) /\ GilFree /\ Refuses
  /\ h' = Reply(h.p, -1, NoValue)
  /\ UNCHANGED <<main, call, queue, SERVERS, up, given, late, buf, applied>>

\* Without servers connect() returns None, and so do get() and put(): c_get
\* answers "[]", which becomes 1, c_put the empty string, which becomes 0.
NoServers ==
  /\ In("enter", {"get", "put"}) /\ GilFree /\ ~Refuses /\ SERVERS = <<>>
  /\ h' = Reply(h.p, IF Op.op = "get" THEN 1 ELSE 0, NoValue)
  /\ UNCHANGED <<main, call, queue, SERVERS, up, given, late, buf, applied>>

\* A server picked at random; if it refuses, sock.shutdown raises in the
\* handler of that refusal and no other server is tried.
Connect ==
  /\ In("enter", {"get", "put"}) /\ GilFree /\ ~Refuses
  /\ \E i \in DOMAIN SERVERS :
       h' = IF SERVERS[i] \in up THEN [pc |-> "asked", p |-> h.p, s |-> SERVERS[i]]
            ELSE Reply(h.p, -1, NoValue)
  /\ UNCHANGED <<main, call, queue, SERVERS, up, given, late, buf, applied>>

\* The server stores put r and sends it to the others: from now on any may have it.
Store(r) == /\ given' = [given EXCEPT ![r.k] = @ \cup {r.v}]
            /\ applied' = [applied EXCEPT ![r.n] = @ + 1]
Perform == IF Op.op = "put" THEN Store(Op) ELSE UNCHANGED <<given, applied>>

\* The server answers with the value it has, or had; with nothing if none.
Serve ==
  /\ h.pc = "asked" /\ h.s \in up /\ Perform
  /\ \E v \in given[Op.k] \cup {NoValue} : h' = [pc |-> "answered", p |-> h.p, val |-> v]
  /\ UNCHANGED <<main, call, queue, SERVERS, up, late, buf>>

Hear ==
  /\ h.pc = "answered" /\ GilFree
  /\ h' = Reply(h.p, 0, h.val)
  /\ UNCHANGED <<main, call, queue, SERVERS, up, given, late, buf, applied>>

\* The connection ends without an answer, or ten seconds pass without one.
Lose ==
  /\ h.pc = "asked" /\ GilFree /\ h.s \notin up
  /\ h' = Reply(h.p, -1, NoValue)
  /\ UNCHANGED <<main, call, queue, SERVERS, up, given, late, buf, applied>>

Leave == IF Op.op = "put" THEN {[n |-> Op.n, k |-> Op.k, v |-> Op.v, s |-> h.s]} ELSE {}
\* Mutant of Timeout: the library asks again when no answer comes.
TimeoutRetry ==
  /\ h.pc = "asked" /\ GilFree /\ h.s \in up
  /\ late' = late \cup Leave
  /\ h' = [pc |-> "enter", p |-> h.p]
  /\ UNCHANGED <<main, call, queue, SERVERS, up, given, buf, applied>>
Timeout ==
  /\ h.pc = "asked" /\ GilFree /\ h.s \in up
  /\ late' = late \cup Leave
  /\ h' = Reply(h.p, -1, NoValue)
  /\ UNCHANGED <<main, call, queue, SERVERS, up, given, buf, applied>>

\* Nothing orders a late put and the puts its caller makes after it.
LateServe ==
  /\ \E r \in late : r.s \in up /\ Store(r) /\ late' = late \ {r}
  /\ UNCHANGED <<main, call, queue, h, SERVERS, up, buf>>

\* A server stops, idle for too long or killed from outside, perhaps between
\* performing a request and answering it.
Down ==
  /\ \E s \in up :
       /\ up' = up \ {s}
       /\ late' = {r \in late : r.s # s}
       /\ \/ UNCHANGED <<given, applied>>
          \/ h.pc = "asked" /\ h.s = s /\ Perform
  /\ UNCHANGED <<main, call, queue, h, SERVERS, buf>>

\* shutdown() goes through SERVERS in order and fails at the first server that
\* refuses the connection, or whose process the pid file does not name: that
\* one has only been told to stop, and does so later (Down).
StartKilling ==
  /\ In("enter", {"shutdown"}) /\ GilFree
  /\ h' = [pc |-> "killing", p |-> h.p, i |-> 1]
  /\ UNCHANGED <<main, call, queue, SERVERS, up, given, late, buf, applied>>

\* Mutant of Kill: the loop ends with its first server.
KillFirst ==
  /\ h.pc = "killing" /\ GilFree /\ h.i <= Len(SERVERS)
  /\ LET s == SERVERS[h.i]
     IN  /\ up' = up \ ({s} \cap Listed)
         /\ late' = {r \in late : r.s \in up'}
         /\ h' = IF s \in up \cap Listed THEN Reply(h.p, 0, NoValue) ELSE Reply(h.p, -1, NoValue)
  /\ UNCHANGED <<main, call, queue, SERVERS, given, buf, applied>>
Kill ==
  /\ h.pc = "killing" /\ GilFree /\ h.i <= Len(SERVERS)
  /\ LET s == SERVERS[h.i]
     IN  /\ up' = up \ ({s} \cap Listed)
         /\ late' = {r \in late : r.s \in up'}
         /\ h' = IF s \in up \cap Listed THEN [h EXCEPT !.i = @ + 1] ELSE Reply(h.p, -1, NoValue)
  /\ UNCHANGED <<main, call, queue, SERVERS, given, buf, applied>>

KilledAll ==
  /\ h.pc = "killing" /\ GilFree /\ h.i > Len(SERVERS)
  /\ h' = Reply(h.p, 0, NoValue)
  /\ UNCHANGED <<main, call, queue, SERVERS, up, given, late, buf, applied>>

\* rpc_client::get copies the characters of the value and no terminating zero.
Copied(v, b) == v \o SubSeq(b, Len(v) + 1, Len(b))

Return ==
  /\ h.pc = "reply"
  /\ call' = [call EXCEPT ![h.p] = NoCall]
  /\ buf' = IF Op.op = "get" /\ h.code = 0 THEN [buf EXCEPT ![h.p] = Copied(h.val, @)] ELSE buf
  /\ h' = Idle
  /\ UNCHANGED <<main, queue, SERVERS, up, given, late, applied>>

Handler == \/ Take \/ InitServers \/ RefuseInput \/ NoServers \/ Connect \/ Hear \/ Lose
           \/ Timeout \/ StartKilling \/ Kill \/ KilledAll \/ Return
Next == \/ MainStep \/ Handler \/ Serve \/ LateServe \/ Down
        \/ \E p \in Caller : Call(p)

Spec == Init /\ [][Next]_vars
\* The handler thread keeps running; its wait for a server ends after 10 s.
FairSpec == Spec /\ WF_vars(Handler)
-----------------------------------------------------------------------------
\* Every variable has its type; an entry of a server list that is no address
\* never enters SERVERS, where connect() would choke on it (kvlib.py:28-31).
TypeOK ==
  /\ main \in 0..9
  /\ call \in [Caller -> Plain \cup Numbered \cup {NoCall}]
  /\ queue \in Seq(Caller)
  /\ \/ h = Idle
     \/ h \in [pc: {"enter"}, p: Caller] \cup [pc: {"asked"}, p: Caller, s: Server]
              \cup [pc: {"answered"}, p: Caller, val: Value \cup {NoValue}]
              \cup [pc: {"killing"}, p: Caller, i: Nat \ {0}]
              \cup [pc: {"reply"}, p: Caller, code: {-1, 0, 1}, val: Value \cup {NoValue}]
  /\ SERVERS \in Seq(Server)
  /\ up \subseteq Server
  /\ given \in [Key -> SUBSET Value]
  /\ late \subseteq [n: Nat \ {0}, k: Key, v: Value, s: Server]
  /\ applied \in Seq(Nat)

Returns == h.pc = "reply" /\ h'.pc = "idle"

\* A put that does not return -1 has been begun by exactly one server when it
\* returns, unless no server was ever configured; one that returns -1 is begun
\* at most once, even later, and even when its caller makes it again meanwhile
\* (kvlib.py:84-120: no answer is asked for twice).
PutsOnce ==
  [][/\ \A n \in DOMAIN applied' : applied'[n] <= 1
     /\ Returns /\ Op.op = "put" /\ h.code # -1 /\ SERVERS # <<>> => applied[Op.n] = 1]_vars

\* When kv739_shutdown returns 0, no server of SERVERS runs, however often and
\* with whatever lists init was called before, and so no put that returned -1 is
\* still to be begun (kvlib.py:38-45).
ShutdownStops ==
  [][Returns /\ Op.op = "shutdown" /\ h.code = 0
       => late = {} /\ \A i \in DOMAIN SERVERS : SERVERS[i] \notin up]_vars

\* A call fails only for a cause: its function is not registered yet, its input
\* is bad, a server of SERVERS is down or unknown to the pid file, or the
\* answer takes too long.  A shutdown may stumble over its own first half.
FailsForCause ==
  [][h.pc # "reply" /\ h'.pc = "reply" /\ h'.code = -1
       => LET q == call[h'.p]
          IN  \/ main < 5 + Rank[q.op]
              \/ q.op = "init" /\ \E i \in DOMAIN q.list : q.list[i] \notin Server
              \/ q.op = "put" /\ q.v \in Bad
              \/ q.op # "init" /\ \E i \in DOMAIN SERVERS : SERVERS[i] \notin up
              \/ q.op = "shutdown" /\ \E i \in DOMAIN SERVERS : SERVERS[i] \notin Listed
              \/ Timeout]_vars

\* kvs.get and kvs.put, called in the process that serves the bridge, never
\* succeed: without registered functions they fail, with them they hang
\* (kvs739.cpp:61-104, 347, 397).
OwnCallsFail == [][Returns /\ h.p = "main" => h.code = -1]_vars

\* test_roundtrip_value imports kvs, calls kvs.init, kvs.put and kvs.get in the same
\* process and expects the value back (testing/test.py:26-33), here with every server up.
OwnCallsWork ==
  [][Returns /\ h.p = "main" /\ Op.op \in {"put", "get"} /\ up = Server => h.code # -1]_vars

\* Every call ends, unless the main thread waits in a call of its own for the
\* handler thread, which waits for the interpreter lock that thread keeps.
SelfWait == call["main"] # NoCall /\ h.pc \notin {"idle", "reply"}
CallsEnd == \A p \in Caller : call[p] # NoCall ~> (call[p] = NoCall \/ SelfWait)

\* "If the key is present, it should return 0 and store the value in the
\* provided string.  [...] If the key is not present, it should return 1."
\* (lib739kv.h:17-21), for a get that reached a server.
GetAsDocumented ==
  [][Returns /\ Op.op = "get" /\ SERVERS # <<>>
       => /\ h.code = 0 => h.val # NoValue /\ buf'[h.p] = h.val
          /\ h.code = 1 => h.val = NoValue]_vars
=============================================================================
