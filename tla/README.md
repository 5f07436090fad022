# A verification model of the CS 739 replicated key-value store

The repository holds one program, `proj1`: a key-value store replicated over
Python servers, with a client library for C and Python. `proj2` is a stub.
This directory holds TLA+ modules translated from the source, TLC configurations
that check them on small instances, and TLAPS proofs. Paths below are under
`src/proj1/src/` unless they say otherwise.

## The system

| Part | State | Operations | Talks to |
|---|---|---|---|
| Replicated server, `basic_server.py` | `kvs`, `server_updates`, an open SQLite transaction | GET, INSERT, UPDATE, SHUTDOWN requests; synchronisation; accept timeout; restart | the other servers, one connection per update; clients |
| Client library, `kvlib.py` | `SERVERS` | `init`, `put`, `get`, `kill`, `start`, `shutdown` | a random server per call |
| SQLite dictionary, `withsqlite.py` | one table, one transaction | `begin`, `save`, item access | the server that owns it |
| Server manager, `server_manager.py` | the pid file | starts all servers, runs a test script | servers, the `kvs` module |
| Threaded connection server, `dsserver.cpp`, `rpcserver.cpp`, `queue.h` | `running_`, a queue of connections, the listening socket | `serve`, `connection_handler`, `message_handler`, `stop` | `dsclient`, `rpc_client` |
| Daemon, `kvdaemon.cpp` | none | runs a `dsserver` until it stops | |
| Data store, `datastore.cpp` | two SQLite tables | get, put, metadata, timestamps, limits | `dsserver`, `kvs` |
| RPC bridge, `kvs739.cpp`, `rpcserver.cpp`, `rpcclient.cpp`, `lib739kv.cpp` | callbacks, one static client | `kv739_init/get/put/shutdown` | C programs on one side, `kvlib.py` on the other |
| Message format, `message.cpp` | none | accessors of a fixed record | |

`shell.c`, `sqlite3.h` and `sqlite3ext.h` are third-party code; `strutil.h` is
not used; `debug.*` and `exception.h` hold no state.

A C program calls `lib739kv`, which sends one message per call to the
`rpc_server` inside the Python process of the server manager; its callback runs
`kvlib.py`, which calls one replicated server. `dsserver` and its clients are an
earlier, unreplicated store that is still built and exported to Python.

### What is hard about it

* A server has one thread. While it sends its put to the others it serves
  nobody, so two servers that do so at once wait for each other until a timeout.
* What a server sends back to a peer depends on its record of what that peer
  has. The record is moved forward and back by `update` and `receive`, never
  acknowledged, and reloaded from an old database after a restart.
* A peer may die, stop or be down at any point of the synchronisation, and
  exceptions of the socket calls end the process. A connection whose maker dies
  before it sends anything keeps the server that accepted it busy for ever.
* Nothing is committed to the database before an orderly shutdown.
* In the connection server, `stop` resets a flag, empties the queue and shuts the
  socket down while one thread is somewhere around `accept` and the other
  somewhere around a condition variable.
* Several processes have the data store's file open. SQLite locks it, nobody
  waits for a lock, and a read that meets one looks like a missing row.
* In the bridge one handler thread calls Python functions that need the
  interpreter's lock, functions are registered after the server has started, and
  a server can be gone, told to stop, or too slow for the ten seconds of a call.

What makes each part correct: the replicas agree when nothing is under way, the
recorded times never claim too much, entries never go back, every call ends; a
client alone sees one map; no wakeup is lost and `stop` ends both threads; the
data store is one table whatever process asks it, and errs only under contention
or an outage; a return code of the bridge says what happened at the servers.
`PROJECT.json` lists every hazard at its line with the properties about it, or the reason
why none covers it yet.

## Modules

| Module | What it is |
|---|---|
| `KvServer` | the replicated servers and their clients |
| `KvServerInv` | the inductive invariants for one client, without and with outages |
| `KvMap` | abstract: one atomic map |
| `KvServerRefinement` | `KvServer` implements `KvMap` |
| `MCKvServer` | `KvServer` for TLC, with its symmetry |
| `NumberLemmas` | maximum and minimum of finite sets of numbers |
| `KvServerProofs` | types of `KvServer` |
| `KvServerAloneProofs` | the invariant without outages and what follows from it |
| `KvServerRefinementProofs` | `KvServer` implements `KvMap`, step by step |
| `KvServerOutageProofs` | the invariant with outages and what follows from it |
| `ConnServer` | the two threads of `dsserver` and `rpc_server`, and `stop` |
| `ConnServerProofs` | types of `ConnServer`, wakeups, the order of `stop`, where connections are and in which order |
| `DsRequests` | the data store's requests, their limits and meaning |
| `TimedTable` | abstract: one table of rows with timestamps |
| `DataStore` | processes, the daemon and its clients on one SQLite file; implements `TimedTable` |
| `MCDataStore` | `DataStore` for TLC |
| `DataStoreProofs` | types, snapshots and the refinement of `DataStore` |
| `RpcBridge` | a call from a C program through the Python process to a server |
| `MCRpcBridge` | `RpcBridge` for TLC |
| `RpcBridgeProofs` | the invariant of `RpcBridge` and what follows from it |

### KvServer

State. `phase[s]` is where server `s` stands: waiting for a connection, about to
contact a peer (`send`), connected to it (`linked`), waiting for its answer
(`wait`), in `shutdown` (`stopping`), or not running, for one of three reasons. `mem` is `kvs` with
`server_updates`; `txn` what the open transaction shows; `disk` what is
committed. `job` holds the locals of `insert` and `sync_bidi`, with the peers
that have answered so far. `backlog` holds connections that were made and not
accepted, each with its request, or with `Ended` when their maker died before it
sent one. `inbox` is the answer to the one connection a
server has open. `epoch` counts restarts, so that an answer to a dead process
goes nowhere. `req` and `res` are the clients' side.

Actions follow the code from one point where another process can see or change
something to the next. `HandleInsert` is `insert` up to `sync_bidi`; then, for each
peer in turn, `SyncRefused`, or `SyncConnect`, `SyncSend` and `SyncReply`; then
`FinishInsert`. `HandleUpdate` is `receive` with its answer, once the message has been
sent (`IsSent`). A connection that the peer's death closes is `SyncReset`, the 20 s
timeout `SyncTimeout`; both end the process, because nothing catches their
exception. `StopClose` commits. `Kill`, `IdleTimeout`, `SendShutdown` and `Restart`
come from outside.

`Cut` kills a server between `connect` and `send`; `CutClient` does so to a client
program, one that does not call again. Either leaves `Ended` in a backlog, and
the server that comes to it is `Deaf`: the loop of `handle_client` reads nothing for ever
(`basic_server.py:260-262`), so no action of that server is enabled again but
being killed.

Abstractions. Keys and values are model values; JSON and the framing of messages
are left out, since every message of the repository is sent whole. Times are
numbers in the order in which clocks are read; a put takes the next number,
except that a server may read the same microsecond as another one whose put it
has not heard of. A clock that goes back is not modelled. Memory is total over
`Key`: `NoEntry`, at time 0, is a key without an entry, before every put as
`datetime.min` never is compared in the code. Timeouts elapse only where waiting
longer would change nothing (`Stuck`: each server that is waited for is deaf or waits
for another such one): a slow server is not mistaken for a dead one. When a server
is stuck its own timeout and its client's come in either order. The listen backlog is not bounded.

Left out of it: input validation in `kvlib.py`, the list `SERVERS`, two servers
on one database.

### KvMap

A put takes effect at one instant between its call and its return, and returns
the value it replaced; a get returns the current value. The refinement mapping
takes the map from the server that is busy with a put, and from any otherwise,
and counts a put as effective once its server has stored it.

### ConnServer

`kind` tells which server this is: `rpc` (an `rpc_server` in a Python process,
which closes its connections and is stopped only by the end of the process),
`daemon` (a `dsserver` under `kvdaemon`, which exits within a second after a
SHUT_DOWN request) or `hosted` (a `dsserver` in a Python process, which may also
call `stop` on a thread of its own). The state is `running_`, the queue with
`skip_dequeue_`, the listening socket with the connections not accepted, where
each thread is, how far each call of `stop` is, which descriptors are open, and
what each client has done. Each action is one access to shared state;
the critical sections of `queue.h` are atomic because they never block while
they hold the mutex, and a notification is a step of its own because the code
notifies after it has released the mutex. Spurious wakeups are allowed.

What a request does is one step, `Receive`: only `message_handler` touches the
store or calls back. `running_` is read and written without
synchronisation; every read in the loops follows an opaque call, so the build
reads memory each time, and the model reads it once per test. The run-up
to `serve`, and destruction, are left out.

### DsRequests, TimedTable, DataStore

`DsRequests` says which requests there are (`message.h:13`), which texts
`data_store` and `dsclient` refuse, and what a request selects or stores. A text
is an identity with a length and a bit that says whether it is clean. Three
oddities of the code are in it because the properties tell them apart:
`put_meta` checks the wrong length, a read offers a buffer one byte shorter
than the longest value, and a put without a timestamp takes the clock's.

`DataStore`: local callers have a `DataStore` object each, in a process each;
remote callers have a `DataStoreClient`. `stage[c]` is where a caller's
request stands: sent to the daemon, being executed (`run`, then one of the three SQLite
locks), answered. `got` is the row its statement stands on, and then its answer;
`queue` what the daemon's handler thread has not taken; `rows` what is
committed. A statement steps as SQLite's rollback journal does: a reader
stands on a row (`shared`) until its destructor; a writer reserves the file,
keeps new readers out (`pending`), and commits if no reader is left. No busy
timeout is set anywhere, so a lock that is taken is an answer at once:
`ReadBusy`, `WriteBusy`, `CommitBusy`. The locks are SQLite's and external; what the code makes
of `SQLITE_BUSY` is its own. `Crash` ends the daemon at any point; its orderly
stop, the threads and the queue in detail are `ConnServer`'s.

`TimedTable` is the promise: a write takes effect once, between its call and
its return; a read answers from one instant. A write fails only while
another caller is at work, a read misses a row only while another caller
writes, and a remote caller may hear of an error whatever happened.

Left out: a meta value of exactly `MAX_VALUE_SIZE` bytes (the daemon's `strcpy`
writes past its buffer, `datastore.cpp:174`), values too long for a message,
remote requests whose key `set_key` asserts against (`message.cpp:81`), errors
of SQLite other than a busy file, `get_key_value_since`, opening the file.
The clock reads any time in `1..MaxTime`, so nothing depends on it going forward.

### RpcBridge

`main` counts how far the main thread is with importing `kvs` and
registering the four functions; `call`, `queue` and `h` carry a call from its
C program over the connection queue to the handler thread and back; `SERVERS` is
kvlib's list. The servers are the set `up` and, for each key, the values whose
put one of them has begun (`given`). A get may be answered by any of these, or by
nothing: which one a server has is `KvServer`'s subject, and when several programs
put at once the replicas may differ (see `kv_older` below). `late` holds puts whose caller was
already told -1 and whose server has not begun them, `buf` the buffer each caller gives to
`kv739_get`. Puts are numbered in the order of the calls, so that a put made again
is another put; `applied` is a history variable that counts how often servers
began each. A program may put again while an earlier put of its own is late: nothing
in `rpcclient.cpp` or `kvlib.py` keeps it from that, or orders the two.

A call goes `Take`, then by its operation `InitServers`, `RefuseInput`,
`NoServers`, `Connect` or `StartKilling`; a connected call ends by `Hear`, `Lose`
or `Timeout`; `Return` tells the program. `shutdown` goes through `SERVERS` one server at a time
(`Kill`). Python code runs in the handler thread only while the main thread is in no
call of its own (`GilFree`): `kvs.get` and `kvs.put` do not release the
interpreter lock while they wait (`kvs739.cpp:71`, `97`), so such a call
fails or never returns.

Abstractions. Which values `bad_input` refuses is the constant `Bad`. A call before
`serve` is refused at once and changes nothing. SHUTDOWN and the SIGTERM
behind it are one step; a server missing from the pid file (`Listed`) gets only
the first, and stops when `Down` says so. A Python function takes the interpreter lock at
its beginning; the calls of the interpreter's API outside it
(`kvs739.cpp:272`, `363`, `413`) are data races and not modelled. Left out: `put`'s
old value and its buffer, an empty list for `init` (`args_pack` then writes in
front of its buffer), lists longer than its buffers, the end of the
Python process (`ConnServer`).

## Runs

| Run | Instance | Shows |
|---|---|---|
| `kv_single` | 3 servers, 1 client, 2 keys, 2 values, 4 calls, no outage | `TypeOK`, `IInv`, `Converged`, `ClocksCover`, `NoneRaised`, `NeverOlder`, and `ImplementsMap` |
| `kv_outages` | the same with 3 calls and 1 crash, accept timeout or SHUTDOWN, any number of restarts | `PeersKeepUp`, `TimeIdentifiesPut`, `OneBusy`, `NoneStuck`, `OutageInv` |
| `kv_calls_end` | 3 servers, 2 clients, 1 key, 1 value, 2 calls, 1 SHUTDOWN or kill between connect and send | `EveryCallEnds`, `EveryPutEnds` |
| `kv_cut` | 3 servers, 1 client, 1 key, 1 value, 3 calls, 2 kills, also between connect and send | `OneAlive`, `GivenUpForGood` |
| `kv_peer_dies` | 2 servers, 1 crash | violates `NoneRaised` |
| `kv_older` | 2 servers, 4 calls, 2 accept timeouts | violates `NeverOlder` |
| `conn_servers` | 3 connections, 1 of them in the kernel's backlog, all three kinds of server | `TypeOK`, `NoLostWakeup`, `NeverThrown`, `OnItsWay`, `InOrder`, `Answered`, `ListenerEnds`, `CallsEnd` |
| `table_calls` | 1 local caller, 2 clients, 2 keys in each table, texts of length 1 to 3 around limits of 2, any number of calls and crashes | `TypeOK`, `SnapshotHolds`, `ImplementsTable`, `CallsEnd` |
| `bridge_calls` | 2 C programs and the main thread, 3 servers, one of them missing from the pid file, 2 puts, any number of other calls | `TypeOK`, `PutsOnce`, `FailsForCause`, `ShutdownStops`, `OwnCallsFail`, `CallsEnd` |
| `bridge_codes` | the same, `SERVERS` shorter | violates `GetAsDocumented` |
| `bridge_own` | the main thread alone | violates `OwnCallsWork` |
| `conn_stop` | 1 connection, a hosted server, `stop` by another thread | violates `HandlerEnds` |

Bounds. Three servers are the least at which a put has reached some peers and
not others, and at which two peers can know different things of a third; the
proofs lift the results of `kv_single` to any number. Two keys let a replay
carry an entry other than the put's own. Four calls are enough for puts of
both keys through different servers and a get after them. Two outages in
`kv_older` are the least that violate the property. Three connections are one
in service, one queued and one not accepted, the three places where a stop can
find one. In `kv_cut` the second kill is what can end, or cut short in turn, what
the first has left. In `kv_calls_end` the kill between `connect` and `send` is the only crash: to
those that wait for the process any other is like it or like a server that stops. `MaxReqs`, `MaxOutages` and `MaxConns` bound calls, outages and connections;
restarts are bounded by the outages before them. Deadlock is not
checked: a system whose clients have made all their calls stops.

In `table_calls` a length of 2 for both limits puts a text on either side of
each (`MaxKey`, `MaxKey - 1`, `MaxValue`, `MaxValue - 1`); a local writer and
a remote one meet on a key, and a third caller waits behind the remote
one in the daemon's queue. The proofs lift these results to any number.
`MaxTime` bounds the clock. In `bridge_calls` one program stores a good value and a bad one, reads,
initialises with two servers and shuts down; the other stores another value and
initialises with a list of a third server, which the pid file does not name, and of
what is no address. `MaxServers` is the
length of `SERVERS` from which `init` is not called: 2 lets a second `init` add to
what a failed one left, before or after a shutdown. `MaxPuts` bounds the puts, because
they are numbered; 2 are a late put and the same put made again, or one of each program. The main thread may end up
waiting for ever in its own call, so deadlock is not checked there either.

Symmetry over keys, values and clients is used in the runs of safety properties only.

### What the violations say

* `kv_peer_dies`. A peer that dies between an update and its answer takes the
  sender with it, where `README.md:57` promises no detrimental effect.
* `kv_older`. The comparison of times in `update` is never reached, because the
  test before it (`basic_server.py:187`) looks for an entry among the keys and
  is always true. After idle shutdowns a server can be sent an entry older than its
  own, and takes it. With one client and no outage this never happens: `NeverOlder`
  holds in `kv_single` and is proved. With two clients it needs no outage: when they put one
  key at two servers, the third, which has handled the earlier put and not
  the later, replays the earlier entry to the server of the later put, and no
  message is left that would repair that. The protocol assumes a single client
  (`basic_server.py:66-68`).
* `bridge_codes`. A server answers the empty string for an absent key
  (`basic_server.py:163`), `c_get` looks for `None` (`kvlib.py:142`), so
  `kv739_get` returns 0 where `lib739kv.h:19` says 1, and leaves in the caller's
  buffer what was there. 1 is returned only while no server is configured.
* `bridge_own`. `testing/test.py:26-33` calls `kvs.put` and `kvs.get` in the process
  that imported `kvs` and expects its value back. That process has registered no
  functions, so both fail (`kvs739.cpp:324`, `380`); in one that has, they wait for
  ever for the interpreter lock they hold. `OwnCallsFail` is proved: there is no third case.
* `conn_stop`. `dequeue_wait` forgets an earlier `clear`, so a `stop` on another
  thread can leave `message_handler` waiting for ever (`queue.h:36`).

Without a run of their own: the comment "save before contacting any number of
remote servers" (`basic_server.py:150`) does not hold against a crash, since
`save_db` writes into a transaction that only `shutdown` commits (`HandleInsert` changes
`txn`, `StopClose` `disk`). A client or server killed between `connect` and
`send` leaves its peer in `handle_client`'s loop, and the test for an empty
message behind it (`basic_server.py:264`) is never reached: such a server
answers nobody again, and every put that waits for it ends by a timeout, its
server with it (`Cut`, `Deaf`; `kv_cut` and `kv_calls_end` show what still holds). `datastore.h:27` says of `get_last_timestamp` that it
"returns -1 if no value exist"; it also does so while another process commits
(`sqlstatement.cpp:64`). `TimedTable` states this weakness, and that there is no other.
`lib739kv.h:14` promises that `kv739_init` can follow a shutdown with a different
server; since `SERVERS` is never cleared (`kvlib.py:28`), later calls may pick a
stopped server and fail, which `FailsForCause` names among the causes.

### Fairness

`FairSpec` of `KvServer`: each server takes a step of its own when it can, and a
client notices that its connection was closed, or its 10 s end when its server is
stuck. Clients need not call, nobody need restart a server, and no outage need
happen. A call to a deaf server ends by the client's timeout alone (`kvlib.py:159`); a
put that waits for a deaf server, or in a circle, is ended at its server by the timeout
marked "FIXME remove" (`basic_server.py:212`), which is what `EveryPutEnds` rests on.

`FairSpec` of `ConnServer`: each thread goes on when it can, a `stop` that has
begun is finished, `kvdaemon` looks at `is_running` again and again, and a
client that has connected sends its request or dies (`send_message` does nothing
in between). Nobody need connect or call `stop`, and no spurious wakeup need come.

`FairSpec` of `DataStore`: each caller's request goes on when it can, be it in
its own process or in the daemon's handler thread. Nobody need call, nothing
need crash or restart. `FairSpec` of `RpcBridge`: the handler thread goes on
when it can, and its wait for a server ends, because `connect` sets a timeout of ten
seconds (`kvlib.py:159`). No server need answer, and the main thread need not go on.

## Proofs

For every value of the constants:

* `TypeCorrect` (`KvServerProofs`): `TypeOK`, under any outages. It shows that
  a busy server has a job and a waiting one a peer, whatever dies.
* `AloneInvariant` (`KvServerAloneProofs`): `IInv` under the assumption `Alone`,
  one client and no outage, which is what `basic_server.py:66-68` assumes. From
  it follow `ReplicasConverge` (`Converged`), `PeerTimesCover` (`ClocksCover`),
  `NoProcessRaises` (`NoneRaised`) and `EntriesNeverOlder` (`NeverOlder`).
* `ServersImplementMap` (`KvServerRefinementProofs`): `ImplementsMap`, the whole
  refinement of `KvMap`, under the same assumption.
* `OutageInvariant` (`KvServerOutageProofs`): `OutageInv` under `OneClient` and
  `NoCut`, whatever servers crash, stop and restart, and when, except that nobody is
  killed between `connect` and `send`. From it follow
  `OneServerBusy` (`OneBusy`), `NoWaitInACircle` (`NoneStuck`),
  `AnsweredPeersKeepUp` (`PeersKeepUp`) and `TimesIdentifyPuts`
  (`TimeIdentifiesPut`).
* `ConnTypes`, `WakeupsArrive` (`NoLostWakeup`), `StopIsClean` (`NeverThrown`),
  `NoneForgotten` (`OnItsWay`) and `HandledInOrder` (`InOrder`)
  (`ConnServerProofs`), for any number of connections and every kind of server.
* `BridgeInvariant`, and from it `BridgeTypes` (`TypeOK`), `PutsAreDoneOnce`
  (`PutsOnce`), `ShutdownIsComplete` (`ShutdownStops`), `OwnCallsNeverSucceed`
  (`OwnCallsFail`) and `FailuresHaveCauses` (`FailsForCause`)
  (`RpcBridgeProofs`), for any programs, servers, lists and calls, from
  `BridgeAssumption` alone.
* `DataStoreTypes` (`TypeOK`), `SnapshotsHold` (`SnapshotHolds`) and
  `TableImplemented` (`ImplementsTable`, the whole refinement)
  (`DataStoreProofs`), for any callers, texts and limits.

Why `IInv` is what it is. `Converged` says nothing while a put is under way, so
the invariant has to say how far it has got. `Control` says that one server or
one message carries the only call under way. `PutOf` says that all servers agree
but for the put's own key on peers it has not reached (`Done`), that these
record no time as late as the put, and that the put's server does not
either. `AnswerTo` says that an answer holds nothing new to the server it
goes to. So `update`, which compares nothing, replaces no entry by a different
one, and the minimum it takes rolls no clock back below what a peer needs.
`ClockCovers` for every pair is then preserved, because a recorded time moves only to the
time of the put itself.

`ServersImplementMap` maps each step that stores a put at its own server
(`HandleInsert`) to `PutEffect`, the end of its synchronisation to `PutReturn`, a
get to `GetReturn`, and every other step to none. The map is taken from the busy
server, or from any other when all are free; that these are the same is `Same` and
`PutOf` of `IInv`. `OnlyPuts` adds that what keeps a server busy is a put.

Why `OutageInv` is what it is. A client may give up a call that a dead server took,
and call another server while updates of the dead one still lie in backlogs.
`OneCall` says that the call is in one message or with one busy server, and that a client
gives it up only when it is nowhere; so a put finds every server free, and
`OneBusy` and `NoneStuck` follow. `OneUpdate` tells the update of a running process from those
left by dead ones: the first is what its sender waits for. `AnswerHolds` and
`PutHolds` say, of the answer not yet read, of the busy server and of every process
that has answered, that they hold the put or a later one. Processes are told apart by
`epoch`, since a restarted one may have lost it. `EntryOnce` is about all entries wherever
they are: in memories, databases, answers, jobs and updates, those of dead processes
included. An old update or database may bring back an old entry at any time, so
nothing less is inductive. It is kept because a put that starts while nobody is
busy takes a time later than every entry there is. `Heard` says that no backlog
holds a connection without a message, so no server is deaf and no timeout comes
before the one it is for.

`NoCut` is needed: after a kill between `connect` and `send` the next put waits
for a deaf server, its client's timeout may end before the server's, and the
client's next call makes a second server busy, against `OneBusy`. What is left then is
`OneAlive` and `GivenUpForGood`, checked in `kv_cut` and not proved.

`OnItsWay` is inductive with the types and `StopsInOrder`: while `running_` is set,
`stop` has dropped nothing and each thread hands its connection to the next place. `HandledInOrder` needs `InLine`: the connections in the kernel's backlog, with the
listener, in the queue and with the handler are numbered in this order, and none appears twice;
what `stop` removes leaves the rest in order.

`WakeupsArrive` needs only the types: whoever makes wait's predicate true holds the
program counter of the notification still to come. `StopIsClean` needs
`StopsInOrder`: a call of `stop` past its first step implies that `running_` is
reset, so `accept` can fail only after that.

`SnapshotsHold` needs `Linked`: a caller holds a lock only for a request of
the kind that takes it, and `got` is a row exactly while it reads. While a
reader stands on a row, no `Commit` is enabled, and no second writer can reserve the file. `TableImplemented` maps
`rows` and `call` to themselves and the answer to `tableOut`: a read takes
effect when its statement stands on a row, not when it is
answered, which is where `SnapshotHolds` is used. Its invariant `Matched` adds
that whoever has been answered has something to be told, nobody else has, and a
write that holds a lock passed the checks.

`IInv` of `RpcBridgeProofs` has seven parts beside the types. `Carried`: a
call is in the queue or with the handler at most once. `Fits`: the handler waits
only for an operation that waits. `OwnFails`: the main thread's own call gets no
further than the interpreter lock, since nothing but the end of that call frees it.
`Numbers`: the puts under way have different numbers, and no new put has the number
of a late one. `DoneOnce`: a put that can still take effect, through the handler or late,
has not; its awkward case is a server that begins the put and stops before
it answers. `Stopped`: the servers that `shutdown` has passed stay down. `LateLeft`: a
late put is at a running server of `SERVERS`, so none is left when all of them are down.

Only model-checked: the liveness properties (`EveryCallEnds`, `EveryPutEnds`, `Answered`,
`ListenerEnds`, and `CallsEnd` of three modules), because fairness is out of the
prover's reach, and `OneAlive` and `GivenUpForGood`. Every other invariant and action
property of a passing run, and every refinement, is a theorem. What the code breaks is shown by runs that end in a violation.

## Not modelled

* `shell.c`, `sqlite3.h` and `sqlite3ext.h`, nine tenths of the lines under
  `proj1/src`, are SQLite's own.
* `sqlresult.h` and `get_key_value_since`: no caller, and `DataStoreResults` in
  `kvs739.cpp` returns nothing.
* Construction and destruction of the C++ objects and their Python wrappers
  (`dsserver.cpp:21` reads `running_` uninitialised there).
* Undefined behaviour without a bounded set of outcomes: writes past buffers
  (`datastore.cpp:174`, `dsclient.cpp:161`, `rpcclient.cpp:159`), interpreter
  calls without its lock (`kvs739.cpp:272`).
* The interface of `withsqlite.py` that the server does not use, `start` of `kvlib.py`,
  logging, the test programs.

## Plan

Done: `KvServer` with its invariants, its refinement of `KvMap` and their proofs;
`ConnServer` with its proofs; `DataStore` with its refinement and proofs;
`RpcBridge` with its invariant and proofs.

1. An invariant for one client that holds under `Cut` too, for `OneAlive`.
2. `RpcBridge` composed with the phases of `KvServer`: what a program can read
   after its own put, late or not.
3. What the servers still promise several clients without outages, where
   `Converged` fails.
