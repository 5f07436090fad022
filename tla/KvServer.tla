------------------------------ MODULE KvServer ------------------------------
(***************************************************************************)
(* The replicated key-value servers of basic_server.py, with the clients   *)
(* of kvlib.py that call them.  A server is one process with one thread:   *)
(* it accepts a connection, handles its request to the end and accepts the *)
(* next.  A put (Action.INSERT) is stored and then sent to every other     *)
(* server in turn (Action.UPDATE); each answers with the entries it thinks *)
(* the sender lacks.  While it waits for an answer a server serves nobody. *)
(*                                                                         *)
(* One action is one stretch of a server's code between two points where   *)
(* another process can see or change something: accepting a connection,    *)
(* connecting to a peer, sending to it, receiving its answer, the death of *)
(* a process.                                                              *)
(* Servers are 1 .. NServers in the order of their ports, which is the     *)
(* order in which sync_bidi visits server_updates.  Times are natural      *)
(* numbers; 0 is before every put.                                         *)
(***************************************************************************)
EXTENDS Integers, Sequences, FiniteSets, FiniteSetsExt

CONSTANTS NServers,   \* the length of the port list
          Client, Key, Value,
          NoValue,    \* the value of a key that has no entry
          MaxReqs,    \* bound: calls that clients make
          MaxOutages, \* bound: times that something stops a server
          Outages     \* what may: "idle" (accept timeout), "shutdown", "kill", and
                      \* "cut", a kill between a connect and the send after it

ASSUME NServersAssumption == NServers \in Nat \ {0}
ASSUME KeyAssumption == IsFiniteSet(Key)
ASSUME NoValueAssumption == NoValue \notin Value
ASSUME BoundsAssumption ==
  MaxReqs \in Nat /\ MaxOutages \in Nat /\ Outages \subseteq {"idle", "shutdown", "kill", "cut"}

Server == 1..NServers

VARIABLES
  phase,   \* where each server's thread is
  mem,     \* kvs and server_updates of each process
  txn,     \* the database as its open transaction shows it (save_db)
  disk,    \* the database as committed: what a restart finds
  job,     \* the insert a server is busy with: the locals of insert, sync_bidi
  backlog, \* connections each server has not handled, with the requests they carry
  inbox,   \* the peer's answer on the connection send_kv has open
  epoch,   \* how often each server was restarted: its connections die with it
  req,     \* the call each client has under way
  res,     \* what each client's last call returned
  nreq,    \* number of calls made, which numbers the calls
  clock,   \* the time of the latest put
  outages  \* number of outages so far

vars == <<phase, mem, txn, disk, job, backlog, inbox, epoch, req, res, nreq, clock, outages>>
clientVars == <<req, res, nreq>>
procVars == <<epoch, disk, outages>>

NoEntry == [v |-> NoValue, t |-> 0]
NoJob == [n |-> 0]
NoReply == [e |-> 0]
NoReq == [n |-> 0]
Nothing == [kvs |-> <<>>]       \* a database file without tables

Ended == [op |-> "ended"]       \* a connection whose other end died before it sent

\* "idle" is in accept, or in handle_client's recv on the first connection of the
\* backlog; "send", "linked" and "wait" are in send_kv: to connect, connected, sent.
Up == {"idle", "send", "linked", "wait", "stopping"}
Down == {"stopped", "killed", "raised"}

IsUp(s) == phase[s] \in Up

(***************************************************************************)
(* The handlers as functions of a server's memory m.                       *)
(***************************************************************************)

\* __init__ when the database has no tables: no key, every server at start.
Fresh(start) == [kvs |-> [k \in Key |-> NoEntry], su |-> [p \in Server |-> start]]

\* insert, up to the call of sync_bidi, at server s.
Insert(m, s, k, v, t) ==
  [kvs |-> [m.kvs EXCEPT ![k] = [v |-> v, t |-> t]], su |-> [m.su EXCEPT ![s] = t]]

\* Mutant of Store: an entry that exists is never replaced.
StoreNewOnly(kvs, k, v, t) ==
  IF kvs[k].t = 0 THEN [kvs EXCEPT ![k] = [v |-> v, t |-> t]] ELSE kvs

\* receive stores an entry that is new or newer ("k not in kvs" is time 0).
Store(kvs, k, v, t) ==
  IF kvs[k].t < t THEN [kvs EXCEPT ![k] = [v |-> v, t |-> t]] ELSE kvs

\* Mutant of Playback: the sender's recorded time is not looked at.
PlaybackNow(m, sender, t) == t

\* The time from which receive plays entries forward to the sender.
Playback(m, sender, t) == IF t < m.su[sender] THEN t ELSE m.su[sender]

\* The entries of kvs newer than the time since; NoEntry stands for the others.
Replay(kvs, since) == [k \in Key |-> IF kvs[k].t > since THEN kvs[k] ELSE NoEntry]

Times(replay) == {replay[k].t : k \in Key} \ {0}

\* What receive answers to the UPDATE msg, and the memory it leaves.
ReceiveReply(m, msg) ==
  Replay(Store(m.kvs, msg.k, msg.v, msg.t), Playback(m, msg.from, msg.t))

Receive(m, msg) ==
  [kvs |-> Store(m.kvs, msg.k, msg.v, msg.t),
   su  |-> [m.su EXCEPT ![msg.from] = Max(Times(ReceiveReply(m, msg)) \cup {msg.t})]]

\* Mutant of Update: the answer replaces all of kvs.
UpdateReplacing(m, s, p, replay) ==
  [kvs |-> replay,
   su  |-> IF Times(replay) = {} THEN m.su
           ELSE [m.su EXCEPT ![p] = Max(Times(replay)), ![s] = Min(Times(replay) \cup {@})]]

\* update at server s with peer p's answer.  Its test "kve not in self.kvs" asks
\* for a KvEntry among the key strings, so it is always true and every replayed
\* entry overwrites the local one.
Update(m, s, p, replay) ==
  [kvs |-> [k \in Key |-> IF replay[k].t > 0 THEN replay[k] ELSE m.kvs[k]],
   su  |-> IF Times(replay) = {} THEN m.su
           ELSE [m.su EXCEPT ![p] = Max(Times(replay)), ![s] = Min(Times(replay) \cup {@})]]

\* Mutants of NextPeer: the server's own entry is not skipped; it is skipped again
\* after every later one.
NextPeerNoSkip(s, i) == i + 1
NextPeerSkipping(s, i) == IF i + 1 >= s THEN i + 2 ELSE i + 1

\* sync_bidi visits every server but its own; NServers + 1 is the loop's end.
NextPeer(s, i) == IF i + 1 = s THEN i + 2 ELSE i + 1

\* Mutant of InsertTimes: a clock that counts whole seconds.
CoarseTimes(s) == {clock + 1} \cup ({clock} \ {0})

\* datetime.now(): later than every earlier put, except that two servers may read
\* the same microsecond before either hears of the other's put, or its client has
\* given it up.
InsertTimes(s) ==
  {clock + 1} \cup
  {t \in {clock} : \E p \in Server \ {s} :
     job[p] # NoJob /\ job[p].t = t /\ mem[s].su[p] < t /\ req[job[p].c].n = job[p].n}

(***************************************************************************)
(* Clients: connect to some server (connect picks at random), send one     *)
(* request, wait for the answer.                                           *)
(***************************************************************************)

\* A refused connection makes connect's sock.shutdown raise OSError.
ConnectRefused(c) ==
  /\ req[c] = NoReq /\ nreq < MaxReqs
  /\ \E s \in Server : ~IsUp(s)
  /\ nreq' = nreq + 1
  /\ res' = [res EXCEPT ![c] = [ok |-> FALSE, val |-> NoValue]]
  /\ UNCHANGED <<phase, mem, txn, job, backlog, inbox, req, clock, procVars>>

ClientCall(c, s, msg) ==
  /\ req[c] = NoReq /\ nreq < MaxReqs /\ IsUp(s)
  /\ nreq' = nreq + 1
  /\ req' = [req EXCEPT ![c] = [n |-> nreq + 1, s |-> s, msg |-> msg]]
  /\ backlog' = [backlog EXCEPT ![s] = Append(@, msg)]
  /\ UNCHANGED <<phase, mem, txn, job, inbox, res, clock, procVars>>

Put(c) == \E s \in Server, k \in Key, v \in Value :
  ClientCall(c, s, [op |-> "insert", c |-> c, n |-> nreq + 1, k |-> k, v |-> v])

Get(c) == \E s \in Server, k \in Key :
  ClientCall(c, s, [op |-> "get", c |-> c, n |-> nreq + 1, k |-> k])

\* The answer reaches the client unless it has given up this call.
Answer(c, n, val) ==
  IF req[c].n = n
    THEN /\ req' = [req EXCEPT ![c] = NoReq]
         /\ res' = [res EXCEPT ![c] = [ok |-> TRUE, val |-> val]]
    ELSE UNCHANGED <<req, res>>

GiveUp(c) ==
  /\ req' = [req EXCEPT ![c] = NoReq]
  /\ res' = [res EXCEPT ![c] = [ok |-> FALSE, val |-> NoValue]]
  /\ UNCHANGED <<phase, mem, txn, job, backlog, inbox, nreq, clock, procVars>>

Pending(c) ==
  \/ job[req[c].s].n = req[c].n
  \/ \E i \in DOMAIN backlog[req[c].s] : backlog[req[c].s][i] = req[c].msg

\* Mutant of ClientReset: an empty read is followed by the next, as in handle_client.
NoClientReset(c) == FALSE
\* The server died with the connection open.
ClientReset(c) == req[c] # NoReq /\ ~Pending(c) /\ GiveUp(c)

\* s works on a connection that ended without a message: handle_client reads
\* nothing from it, again and again, since it does not test for that.
Deaf(s) == phase[s] = "idle" /\ backlog[s] # <<>> /\ Head(backlog[s]) = Ended

\* s has sent an update and has no answer to it yet.
Waits(s) == phase[s] = "wait" /\ inbox[s] = NoReply

\* Mutant of Stuck: the timeout is shorter than a peer's answer takes.
Slow(s) == Waits(s)

\* No answer of s can come before a timeout: of the servers it waits for, directly or
\* not, each is deaf or waits for another of them.
Stuck(s) == \E S \in SUBSET Server :
  s \in S /\ \A p \in S : Deaf(p) \/ (Waits(p) /\ job[p].peer \in S)

\* The client's socket timeout (10 s) passes only when its server is stuck.
ClientTimeout(c) == req[c] # NoReq /\ Pending(c) /\ Stuck(req[c].s) /\ GiveUp(c)

(***************************************************************************)
(* The server's thread.                                                    *)
(***************************************************************************)
Accept(s, op) == phase[s] = "idle" /\ backlog[s] # <<>> /\ Head(backlog[s]).op = op

HandleGet(s) ==
  /\ Accept(s, "get")
  /\ LET msg == Head(backlog[s]) IN Answer(msg.c, msg.n, mem[s].kvs[msg.k].v)
  /\ backlog' = [backlog EXCEPT ![s] = Tail(@)]
  /\ UNCHANGED <<phase, mem, txn, job, inbox, nreq, clock, procVars>>

\* insert up to sync_bidi, with its first save_db.
HandleInsert(s) ==
  /\ Accept(s, "insert")
  /\ LET msg == Head(backlog[s]) IN
     \E t \in InsertTimes(s) :
       /\ mem' = [mem EXCEPT ![s] = Insert(@, s, msg.k, msg.v, t)]
       /\ txn' = [txn EXCEPT ![s] = Insert(mem[s], s, msg.k, msg.v, t)]
       /\ job' = [job EXCEPT ![s] =
            [n |-> msg.n, c |-> msg.c, k |-> msg.k, v |-> msg.v, t |-> t,
             old |-> mem[s].kvs[msg.k].v, peer |-> NextPeer(s, 0), reached |-> {}]]
       /\ clock' = t
  /\ phase' = [phase EXCEPT ![s] = "send"]
  /\ backlog' = [backlog EXCEPT ![s] = Tail(@)]
  /\ UNCHANGED <<inbox, clientVars, procVars>>

\* send_kv returns [] and update changes nothing.
SyncRefused(s) ==
  /\ phase[s] = "send" /\ job[s].peer \in Server /\ ~IsUp(job[s].peer)
  /\ job' = [job EXCEPT ![s].peer = NextPeer(s, @)]
  /\ UNCHANGED <<phase, mem, txn, backlog, inbox, clock, clientVars, procVars>>

\* The connection of s to its peer, with the message it carries once that is sent.
UpdateOf(s) == [op |-> "update", from |-> s, e |-> epoch[s],
                k |-> job[s].k, v |-> job[s].v, t |-> job[s].t]

AtPeer(s) == \E i \in DOMAIN backlog[job[s].peer] :
  LET msg == backlog[job[s].peer][i] IN
  msg.op = "update" /\ msg.from = s /\ msg.e = epoch[s]

SyncConnect(s) ==
  /\ phase[s] = "send" /\ job[s].peer \in Server /\ IsUp(job[s].peer)
  /\ backlog' = [backlog EXCEPT ![job[s].peer] = Append(@, UpdateOf(s))]
  /\ phase' = [phase EXCEPT ![s] = "linked"]
  /\ UNCHANGED <<mem, txn, job, inbox, clock, clientVars, procVars>>

\* From here on the peer can read the message.
SyncSend(s) ==
  /\ phase[s] = "linked" /\ AtPeer(s)
  /\ phase' = [phase EXCEPT ![s] = "wait"]
  /\ UNCHANGED <<mem, txn, job, backlog, inbox, clock, clientVars, procVars>>

IsSent(msg) == ~(phase[msg.from] = "linked" /\ epoch[msg.from] = msg.e)

\* receive and its answer, which goes nowhere if the sender has died since.
HandleUpdate(s) ==
  /\ Accept(s, "update") /\ IsSent(Head(backlog[s]))
  /\ LET msg == Head(backlog[s]) IN
       /\ mem' = [mem EXCEPT ![s] = Receive(@, msg)]
       /\ txn' = [txn EXCEPT ![s] = Receive(mem[s], msg)]
       /\ inbox' = IF phase[msg.from] = "wait" /\ epoch[msg.from] = msg.e
                     THEN [inbox EXCEPT ![msg.from] =
                            [e |-> epoch[s], replay |-> ReceiveReply(mem[s], msg)]]
                     ELSE inbox
  /\ backlog' = [backlog EXCEPT ![s] = Tail(@)]
  /\ UNCHANGED <<phase, job, clock, clientVars, procVars>>

\* update with the peer's answer, and on to the next peer.
SyncReply(s) ==
  /\ phase[s] = "wait" /\ inbox[s] # NoReply
  /\ mem' = [mem EXCEPT ![s] = Update(@, s, job[s].peer, inbox[s].replay)]
  /\ job' = [job EXCEPT ![s].peer = NextPeer(s, @),
                        ![s].reached = @ \cup {<<job[s].peer, inbox[s].e>>}]
  /\ inbox' = [inbox EXCEPT ![s] = NoReply]
  /\ phase' = [phase EXCEPT ![s] = "send"]
  /\ UNCHANGED <<txn, backlog, clock, clientVars, procVars>>

\* The end of insert: the second save_db, and the answer to the client.
FinishInsert(s) ==
  /\ phase[s] = "send" /\ job[s].peer \notin Server
  /\ txn' = [txn EXCEPT ![s] = mem[s]]
  /\ Answer(job[s].c, job[s].n, job[s].old)
  /\ phase' = [phase EXCEPT ![s] = "idle"]
  /\ job' = [job EXCEPT ![s] = NoJob]
  /\ UNCHANGED <<mem, backlog, inbox, nreq, clock, procVars>>

\* The process ends: its memory, its open transaction and its connections go.
Die(s, how, conns) ==
  /\ phase' = [phase EXCEPT ![s] = how]
  /\ mem' = [mem EXCEPT ![s] = Fresh(0)]
  /\ job' = [job EXCEPT ![s] = NoJob]
  /\ backlog' = [conns EXCEPT ![s] = <<>>]
  /\ inbox' = [inbox EXCEPT ![s] = NoReply]
  /\ UNCHANGED <<epoch, clock, clientVars>>

\* send or recv meets a connection the peer's death has closed; what it raises, or
\* json.loads of nothing, is caught nowhere and ends the process.
SyncReset(s) ==
  /\ phase[s] \in {"linked", "wait"} /\ inbox[s] = NoReply /\ ~AtPeer(s)
  /\ Die(s, "raised", backlog)
  /\ txn' = [txn EXCEPT ![s] = Fresh(0)]
  /\ UNCHANGED <<disk, outages>>

\* Mutants of SyncTimeout: no timeout ("FIXME remove"); one that is caught, like a
\* refused connection.
NoSyncTimeout(s) == FALSE
SyncTimeoutCaught(s) ==
  /\ Waits(s) /\ Stuck(s)
  /\ job' = [job EXCEPT ![s].peer = NextPeer(s, @)]
  /\ phase' = [phase EXCEPT ![s] = "send"]
  /\ UNCHANGED <<mem, txn, backlog, inbox, clock, clientVars, procVars>>

\* The 20 s timeout of send_kv, caught nowhere either.
SyncTimeout(s) ==
  /\ Waits(s) /\ Stuck(s)
  /\ Die(s, "raised", backlog)
  /\ txn' = [txn EXCEPT ![s] = Fresh(0)]
  /\ UNCHANGED <<disk, outages>>

\* shutdown has begun; until the socket is closed, connections still succeed.
BeginShutdown(s) ==
  /\ phase' = [phase EXCEPT ![s] = "stopping"]
  /\ UNCHANGED <<mem, txn, job, inbox, clock, clientVars, epoch, disk>>

HandleShutdown(s) ==
  /\ Accept(s, "shutdown")
  /\ backlog' = [backlog EXCEPT ![s] = Tail(@)]
  /\ BeginShutdown(s) /\ UNCHANGED outages

\* shutdown: save_db, commit, close.
StopClose(s) ==
  /\ phase[s] = "stopping"
  /\ disk' = [disk EXCEPT ![s] = mem[s]]
  /\ Die(s, "stopped", backlog)
  /\ txn' = [txn EXCEPT ![s] = Fresh(0)]
  /\ UNCHANGED outages

(***************************************************************************)
(* What stops and starts servers from outside.                             *)
(***************************************************************************)
Outage(what) == what \in Outages /\ outages < MaxOutages /\ outages' = outages + 1

\* accept's timeout (10 s without a connection) shuts the server down.
IdleTimeout(s) ==
  /\ Outage("idle") /\ phase[s] = "idle" /\ backlog[s] = <<>>
  /\ BeginShutdown(s) /\ UNCHANGED backlog

\* kvlib.kill: a SHUTDOWN request, for which nobody waits.
SendShutdown(s) ==
  /\ Outage("shutdown") /\ IsUp(s)
  /\ backlog' = [backlog EXCEPT ![s] = Append(@, [op |-> "shutdown"])]
  /\ UNCHANGED <<phase, mem, txn, job, inbox, clock, clientVars, epoch, disk>>

\* SIGTERM (kvlib.shutdown) or a crash, at any point but one.
Kill(s) ==
  /\ Outage("kill") /\ IsUp(s) /\ phase[s] # "linked"
  /\ Die(s, "killed", backlog)
  /\ txn' = [txn EXCEPT ![s] = Fresh(0)]
  /\ UNCHANGED disk

\* The same between connect and send: the peer is left with an empty connection.
Cut(s) ==
  /\ Outage("cut") /\ phase[s] = "linked"
  /\ Die(s, "killed", [p \in Server |-> [i \in DOMAIN backlog[p] |->
                          IF backlog[p][i] = UpdateOf(s) THEN Ended ELSE backlog[p][i]]])
  /\ txn' = [txn EXCEPT ![s] = Fresh(0)]
  /\ UNCHANGED disk

\* So it is by a client program killed between connect and send.
CutClient(s) ==
  /\ Outage("cut") /\ IsUp(s)
  /\ backlog' = [backlog EXCEPT ![s] = Append(@, Ended)]
  /\ UNCHANGED <<phase, mem, txn, job, inbox, clock, clientVars, epoch, disk>>

\* __init__ on the committed database.  start is now (server_manager) or 0 (by
\* hand), and counts only where the database has no server times.
Restart(s) ==
  /\ ~IsUp(s)
  /\ \E start \in {0, clock} :
       LET found == IF disk[s] = Nothing THEN Fresh(start) ELSE disk[s] IN
       /\ mem' = [mem EXCEPT ![s] = found]
       /\ txn' = [txn EXCEPT ![s] = found]
  /\ phase' = [phase EXCEPT ![s] = "idle"]
  /\ epoch' = [epoch EXCEPT ![s] = @ + 1]
  /\ UNCHANGED <<disk, job, backlog, inbox, clock, clientVars, outages>>

(***************************************************************************)
(* The specification.                                                      *)
(***************************************************************************)
Init ==
  /\ phase = [s \in Server |-> "idle"]
  /\ mem = [s \in Server |-> Fresh(0)]
  /\ txn = [s \in Server |-> Fresh(0)]
  /\ disk = [s \in Server |-> Nothing]
  /\ job = [s \in Server |-> NoJob]
  /\ backlog = [s \in Server |-> <<>>]
  /\ inbox = [s \in Server |-> NoReply]
  /\ epoch = [s \in Server |-> 1]
  /\ req = [c \in Client |-> NoReq]
  /\ res = [c \in Client |-> [ok |-> FALSE, val |-> NoValue]]
  /\ nreq = 0 /\ clock = 0 /\ outages = 0

ClientStep(c) == Put(c) \/ Get(c) \/ ConnectRefused(c) \/ ClientReset(c) \/ ClientTimeout(c)

ServerStep(s) ==
  \/ HandleGet(s) \/ HandleInsert(s) \/ HandleUpdate(s) \/ HandleShutdown(s)
  \/ SyncRefused(s) \/ SyncConnect(s) \/ SyncSend(s) \/ SyncReply(s) \/ SyncReset(s)
  \/ SyncTimeout(s)
  \/ FinishInsert(s) \/ StopClose(s)

OutsideStep(s) ==
  IdleTimeout(s) \/ SendShutdown(s) \/ Kill(s) \/ Cut(s) \/ CutClient(s) \/ Restart(s)

Next ==
  \/ \E c \in Client : ClientStep(c)
  \/ \E s \in Server : ServerStep(s) \/ OutsideStep(s)

Spec == Init /\ [][Next]_vars

\* A server that can go on does, and a client notices a closed connection and the end
\* of its ten seconds.  Nothing obliges clients to call, servers to be restarted or
\* outages to happen.
Fairness ==
  /\ \A s \in Server : WF_vars(ServerStep(s))
  /\ \A c \in Client : WF_vars(ClientReset(c) \/ ClientTimeout(c))

FairSpec == Spec /\ Fairness

(***************************************************************************)
(* Types.                                                                  *)
(***************************************************************************)
Entry == [v: Value, t: Nat \ {0}]
MaybeEntry == Entry \cup {NoEntry}
Memory == [kvs: [Key -> MaybeEntry], su: [Server -> Nat]]
UpdateMsg == [op: {"update"}, from: Server, e: Nat \ {0}, k: Key, v: Value, t: Nat \ {0}]
CallMsg ==
  [op: {"insert"}, c: Client, n: Nat \ {0}, k: Key, v: Value]
    \cup [op: {"get"}, c: Client, n: Nat \ {0}, k: Key]
Msg == UpdateMsg \cup CallMsg \cup [op: {"shutdown", "ended"}]
Job == [n: Nat \ {0}, c: Client, k: Key, v: Value, t: Nat \ {0}, old: Value \cup {NoValue},
        peer: 1..(NServers + 1), reached: SUBSET (Server \X (Nat \ {0}))]
Reply == [e: Nat \ {0}, replay: [Key -> MaybeEntry]]
Request == [n: Nat \ {0}, s: Server, msg: CallMsg]

\* Every variable keeps its shape: in particular a server is busy exactly while it
\* has a job, and waits only for a server.
TypeOK ==
  /\ phase \in [Server -> Up \cup Down]
  /\ mem \in [Server -> Memory]
  /\ txn \in [Server -> Memory]
  /\ disk \in [Server -> Memory \cup {Nothing}]
  /\ job \in [Server -> Job \cup {NoJob}]
  /\ \A s \in Server : job[s] # NoJob <=> phase[s] \in {"send", "linked", "wait"}
  /\ \A s \in Server : phase[s] \in {"linked", "wait"} => job[s].peer \in Server
  /\ backlog \in [Server -> Seq(Msg)]
  /\ inbox \in [Server -> Reply \cup {NoReply}]
  /\ epoch \in [Server -> Nat \ {0}]
  /\ req \in [Client -> Request \cup {NoReq}]
  /\ res \in [Client -> [ok: BOOLEAN, val: Value \cup {NoValue}]]
  /\ nreq \in Nat /\ clock \in Nat /\ outages \in Nat

(***************************************************************************)
(* Properties.                                                             *)
(***************************************************************************)
Busy(s) == phase[s] \in {"send", "linked", "wait"}

Updates(s) == {i \in DOMAIN backlog[s] : backlog[s][i].op = "update"}

\* Nothing is being synchronised, and no server has been restarted.
Quiet == \A s \in Server : phase[s] = "idle" /\ epoch[s] = 1 /\ Updates(s) = {}

\* While no server has stopped, the replicas agree whenever no put is under way:
\* sync_bidi and receive bring every server every entry (basic_server.py:169-174).
Converged == Quiet => \A p, q \in Server : mem[p].kvs = mem[q].kvs

\* What a server's record of a peer's time promises receive, which replays only
\* later entries: the peer has every entry up to that time, or a newer one.
ClockCovers(s, p) ==
  \A k \in Key : mem[s].kvs[k].t <= mem[s].su[p] => mem[p].kvs[k].t >= mem[s].kvs[k].t

\* Every server knows what every peer has: no entry is dropped from the replay
\* that the peer still needs (basic_server.py:289-297, 191-195).
ClocksCover == \A s, p \in Server : IsUp(s) /\ IsUp(p) => ClockCovers(s, p)

\* One client keeps at most one server busy, even when its calls fail because servers
\* die under them: what the protocol assumes (basic_server.py:66-68) and what keeps
\* servers from waiting for one another.  Only a process killed between its connect and
\* its send (:211, 219) makes it false: see OneAlive.
OneBusy == \A s, p \in Server : Busy(s) /\ Busy(p) => s = p

\* With one client nobody waits for an answer that cannot come: no server waits for
\* one that waits for it, or for one that is deaf, whatever servers stop, unless a process
\* is killed between connect and send.  So the timeouts of send_kv and kvlib (both marked
\* "FIXME remove", basic_server.py:212, kvlib.py:159) end no such wait but after that.
NoneStuck == \A s \in Server : ~Stuck(s)

\* s must end by an exception: its answer can no longer come.  Of the servers it waits
\* for each is deaf, or has lost its peer, or waits for another of them.
Hopeless(p, S) ==
  \/ Deaf(p)
  \/ phase[p] = "linked" /\ ~AtPeer(p)
  \/ Waits(p) /\ (AtPeer(p) => job[p].peer \in S)

Doomed(s) == \E S \in SUBSET Server : s \in S /\ \A p \in S : Hopeless(p, S)

\* When processes are killed between connect and send, the timeouts do end calls, and
\* one client makes a second server busy.  But then the first one can only raise: at
\* any time one put at most can still be finished.
OneAlive ==
  \A s, p \in Server : Busy(s) /\ Busy(p) /\ ~Doomed(s) /\ ~Doomed(p) => s = p

\* A put is not finished once its client has given it up, so no answer overtakes a
\* later call: the 10 s of kvlib.py:159 end only when the server's 20 s will, or its
\* peer's death does (basic_server.py:212, 228).
GivenUpForGood ==
  [][\A s \in Server : Busy(s) /\ phase'[s] = "idle" /\ epoch'[s] = epoch[s]
                          => req[job[s].c].n = job[s].n]_vars

\* No server process ends by an uncaught exception of send_kv.
NoneRaised == \A s \in Server : phase[s] # "raised"

\* While a put is being synchronised, every peer that has answered (and has not been
\* restarted since) holds the new entry or a later one, and so does the originating
\* server itself, whatever it was sent back (basic_server.py:147-153, 285-287).
PeersKeepUp ==
  \A s \in Server : Busy(s) =>
    /\ mem[s].kvs[job[s].k].t >= job[s].t
    /\ \A p \in Server : <<p, epoch[p]>> \in job[s].reached /\ IsUp(p) =>
         mem[p].kvs[job[s].k].t >= job[s].t

\* Entries in the memory of servers that have the same key and the same
\* time have the same value: a time identifies a put.
TimeIdentifiesPut ==
  \A p, q \in Server, k \in Key :
    mem[p].kvs[k].t = mem[q].kvs[k].t => mem[p].kvs[k].v = mem[q].kvs[k].v

\* No step replaces an entry of a process that goes on by an older one, neither in
\* receive nor in update.
NeverOlder ==
  [][\A s \in Server, k \in Key :
       IsUp(s) /\ IsUp(s)' /\ epoch'[s] = epoch[s] => mem'[s].kvs[k].t >= mem[s].kvs[k].t]_vars

\* Every call a client makes comes to an end, with an answer or an error, whatever
\* servers die, stop or deadlock.
EveryCallEnds == \A c \in Client : req[c] # NoReq ~> req[c] = NoReq

\* No server is busy with a put for ever, though peers die, become deaf or wait for it
\* (the timeout marked "FIXME remove", basic_server.py:212, is needed for that).
EveryPutEnds == \A s \in Server : Busy(s) ~> ~Busy(s)
=============================================================================
