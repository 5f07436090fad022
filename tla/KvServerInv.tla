---------------------------- MODULE KvServerInv ----------------------------
(***************************************************************************)
(* The inductive invariant of KvServer for the use it is made for: one     *)
(* client, and servers that nothing stops (basic_server.py:66-68).         *)
(***************************************************************************)
EXTENDS KvServer

Alone == (\A c, d \in Client : c = d) /\ Outages = {}

Calm == \A s \in Server : ~Busy(s)
Silent == \A s \in Server : backlog[s] = <<>>
OnlyMessage(s, msg) ==
  backlog[s] = <<msg>> /\ \A p \in Server \ {s} : backlog[p] = <<>>

\* Peer p has handled the update of the put that s is busy with.
Done(s, p) == p < job[s].peer \/ (p = job[s].peer /\ phase[s] = "wait" /\ inbox[s] # NoReply)

\* One call is under way at a time, and one server or one message carries it.
ControlOf(s) ==
  /\ phase[s] \in {"idle", "send", "linked", "wait"}
  /\ Busy(s) => \A p \in Server \ {s} : ~Busy(p)
  /\ Busy(s) => job[s].peer # s
  /\ inbox[s] # NoReply => phase[s] = "wait"
  /\ phase[s] = "send" => Silent
  /\ phase[s] \in {"linked", "wait"} =>
       /\ job[s].peer \in Server
       /\ IF inbox[s] = NoReply THEN OnlyMessage(job[s].peer, UpdateOf(s)) ELSE Silent

Control ==
  /\ \A s \in Server : ControlOf(s)
  /\ Calm => Silent \/ \E s \in Server :
       /\ backlog[s] # <<>> /\ OnlyMessage(s, Head(backlog[s]))
       /\ Head(backlog[s]).op \in {"insert", "get"}
  /\ \A c \in Client : IF req[c] = NoReq THEN Calm /\ Silent
                       ELSE Pending(c) /\ req[c].msg.n = req[c].n

\* No entry and no recorded time is later than the latest put.
NotAhead ==
  \A s \in Server :
    /\ \A k \in Key : mem[s].kvs[k].t <= clock
    /\ \A p \in Server \ {s} : mem[s].su[p] <= clock

\* The put of s is the latest; the others have the same entries, but for its key on
\* those that have not handled it, which record no time as late as its own.
PutOf(s) == Busy(s) =>
  /\ job[s].t = clock
  /\ mem[s].kvs[job[s].k] = [v |-> job[s].v, t |-> clock]
  /\ \A p \in Server \ {s} :
       /\ \A k \in Key \ {job[s].k} : mem[p].kvs[k] = mem[s].kvs[k]
       /\ \A q \in Server \ {s, p} : mem[p].su[q] < clock
       /\ IF Done(s, p) THEN mem[p].kvs[job[s].k] = mem[s].kvs[job[s].k]
          ELSE mem[p].kvs[job[s].k].t < clock /\ mem[p].su[s] < clock
       /\ p >= job[s].peer => mem[s].su[p] < clock

\* The answer a server waits for holds its own put and nothing it lacks.
AnswerTo(s) == inbox[s] # NoReply =>
  /\ inbox[s].replay[job[s].k] = mem[s].kvs[job[s].k]
  /\ \A k \in Key : inbox[s].replay[k].t > 0 => inbox[s].replay[k] = mem[s].kvs[k]

Same == Calm => \A p, q \in Server : mem[p].kvs = mem[q].kvs

Replicas ==
  /\ NotAhead
  /\ \A s \in Server : PutOf(s) /\ AnswerTo(s)
  /\ Same
  /\ \A s, p \in Server : ClockCovers(s, p)

\* Inductive for a single client without outages: it implies Converged, ClocksCover
\* and NoneRaised, whose truth at one step rests on where the put under way has got to
\* (basic_server.py:131-200, 280-301).
IInv == TypeOK /\ Control /\ Replicas

(***************************************************************************)
(* The inductive invariant for one client when servers may stop, but not   *)
(* between a connect and the send after it.                                *)
(***************************************************************************)
OneClient == \A c, d \in Client : c = d

\* Nobody is killed between a connect and the send after it.
NoCut == "cut" \notin Outages

\* So no backlog holds a connection that ended before its message.
Heard == \A s \in Server : \A i \in DOMAIN backlog[s] : backlog[s][i] # Ended

IsCall(msg) == msg.op \in {"insert", "get"}

\* The client's call is under way in one place: one message that no server has taken,
\* or one server busy with it.  A client gives a call up only when it is nowhere.
OneCall ==
  /\ \A c \in Client : req[c] # NoReq => req[c].msg.n = req[c].n
  /\ \A s \in Server : Busy(s) =>
       /\ job[s].peer # s
       /\ \E c \in Client : req[c] # NoReq /\ req[c].s = s /\ req[c].n = job[s].n
  /\ \A s \in Server : \A i \in DOMAIN backlog[s] : IsCall(backlog[s][i]) =>
       /\ Calm
       /\ \E c \in Client : req[c] # NoReq /\ req[c].s = s /\ req[c].msg = backlog[s][i]
       /\ \A j \in DOMAIN backlog[s] : IsCall(backlog[s][j]) => j = i

\* An update from a process that still runs is the one it waits for an answer to.
\* Those of processes that have died may still lie in backlogs.
UpdateFrom(p, i) == LET msg == backlog[p][i] IN
  /\ msg.e <= epoch[msg.from]
  /\ msg.e = epoch[msg.from] /\ IsUp(msg.from) =>
       /\ phase[msg.from] \in {"linked", "wait"} /\ inbox[msg.from] = NoReply
       /\ job[msg.from].peer = p /\ msg = UpdateOf(msg.from)
       /\ \A j \in DOMAIN backlog[p] : backlog[p][j] = msg => j = i

OneUpdate == \A p \in Server : \A i \in Updates(p) : UpdateFrom(p, i)

\* Process e of server p, if it still runs, holds the put of s or a later one.
Holds(s, p, e) ==
  e <= epoch[p] /\ (e = epoch[p] /\ IsUp(p) => mem[p].kvs[job[s].k].t >= job[s].t)

\* So does every process that has answered, the busy server itself, and the answer
\* it has not yet read, in which the key of the put is absent or not older.
AnswerHolds(s) == inbox[s] # NoReply =>
  /\ phase[s] = "wait" /\ Holds(s, job[s].peer, inbox[s].e)
  /\ inbox[s].replay[job[s].k].t \in {0} \cup {t \in Nat : t >= job[s].t}

PutHolds(s) == Busy(s) =>
  /\ mem[s].kvs[job[s].k].t >= job[s].t
  /\ \A r \in job[s].reached : Holds(s, r[1], r[2])

\* Every entry there is, with its key: in the tables of memories, databases and answers
\* (and of a server that is new), and in the puts of busy servers and of updates.
Tables ==
  {mem[s].kvs : s \in Server}
    \cup {disk[s].kvs : s \in {p \in Server : disk[p] # Nothing}}
    \cup {inbox[s].replay : s \in {p \in Server : inbox[p] # NoReply}}
    \cup {[k \in Key |-> NoEntry]}
Puts ==
  {job[s] : s \in {p \in Server : Busy(p)}}
    \cup UNION {{backlog[s][i] : i \in Updates(s)} : s \in Server}
EntriesOf(kvs) == {<<k, kvs[k].t, kvs[k].v>> : k \in Key}
TableEntries == UNION {EntriesOf(kvs) : kvs \in Tables}
PutEntries == {<<x.k, x.t, x.v>> : x \in Puts}
Entries == TableEntries \cup PutEntries

\* Of a key there is one entry of each time, and none later than the latest put.
EntryOnce ==
  /\ \A x \in Entries : x[2] <= clock
  /\ \A x, y \in Entries : x[1] = y[1] /\ x[2] = y[2] => x = y

\* Inductive for a single client whatever stops servers, with NoCut: it implies OneBusy,
\* PeersKeepUp and TimeIdentifiesPut (basic_server.py:66-68, 131-200, 280-301).
OutageInv ==
  /\ TypeOK /\ Heard /\ OneCall /\ OneUpdate /\ EntryOnce
  /\ \A s \in Server : AnswerHolds(s) /\ PutHolds(s)
=============================================================================
