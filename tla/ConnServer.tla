----------------------------- MODULE ConnServer -----------------------------
(***************************************************************************)
(* The two threads of dsserver (dsserver.cpp) and of rpc_server            *)
(* (rpcserver.cpp), which share their code, with the queue (queue.h)       *)
(* between them: connection_handler accepts connections and enqueues them, *)
(* message_handler dequeues them, answers one request on each and takes    *)
(* the next; stop, on a third thread or on message_handler itself          *)
(* (SHUT_DOWN), ends both.                                                 *)
(*                                                                         *)
(* One action is one stretch of a thread between two reads or writes of    *)
(* what threads share: running_, the queue under its mutex, the condition  *)
(* variable, the listening socket, a connection.  Connections are numbered *)
(* in the order in which they are made.                                    *)
(***************************************************************************)
EXTENDS Integers, Sequences, SequencesExt, FiniteSets

CONSTANTS MaxConns,   \* bound: connections that clients make
          Backlog,    \* connections the kernel keeps until they are accepted
          Kinds       \* the uses of the threads to consider

\* rpc_server in the Python process whose module kvs starts it, dsserver under
\* kvdaemon, and dsserver in a Python process (DataStoreServer).
ASSUME LimitsAssumption ==
  MaxConns \in Nat /\ Backlog \in Nat \ {0} /\ Kinds \subseteq {"rpc", "daemon", "hosted"}

Conn == 1..MaxConns
NoConn == 0

VARIABLES
  kind,      \* which server this is; it does not change
  running,   \* running_
  conns,     \* queue_ of conns_
  skip,      \* skip_dequeue_ of conns_
  listening, \* sockfd_ accepts connections
  pending,   \* connections made and not yet accepted
  lpc,       \* where connection_handler is
  lconn,     \* its newsockfd
  hpc,       \* where message_handler is
  hconn,     \* its sockfd
  spc,       \* how far each call of stop is, in StopOrder; 0 before it
  open,      \* connections whose descriptor the server has not closed
  client,    \* what each connection's client has done and seen
  alive      \* the process is there

queueVars == <<conns, skip>>
netVars == <<listening, pending>>
vars == <<kind, running, conns, skip, listening, pending, lpc, lconn, hpc, hconn, spc, open,
          client, alive>>

\* message_handler closes the connections it has answered.
Closes == kind = "rpc"

\* The process exits once the server is not running.
Exits == kind = "daemon"

\* Whose SHUT_DOWN request, or call of stop, stops the server; the process that holds
\* an rpc_server stops it only when it ends itself.
StopsBy(who) ==
  \/ who = "client" /\ kind \in {"daemon", "hosted"}
  \/ who = "other" /\ kind = "hosted"

Stopper == {"handler", "other"}

\* Mutant of StopOrder: the socket is shut down before running_ is reset.
StopOrderSocketFirst == <<"shutdown", "flag", "clear", "notify">>

\* Mutant of StopOrder: the socket is not shut down.
StopOrderNoSocket == <<"flag", "clear", "notify", "notify">>

\* The steps of stop; clear and notify are those of queue::clear.
StopOrder == <<"flag", "clear", "notify", "shutdown">>

At(t, step) == spc[t] \in DOMAIN StopOrder /\ StopOrder[spc[t]] = step

\* The clients that wait for an answer, of the connections in S, see them reset.
Reset(S) ==
  client' = [c \in Conn |->
    IF c \in S /\ client[c] \in {"connected", "call", "stop"} THEN "failed" ELSE client[c]]

\* Mutant of Notify: the notification is forgotten.
NotifyNobody == UNCHANGED hpc

\* notify_one and notify_all: only message_handler ever waits.
Notify == hpc' = IF hpc = "waiting" THEN "woken" ELSE hpc

(***************************************************************************)
(* Clients: send_message of dsclient and rpc_client.                       *)
(***************************************************************************)
Connect(c) ==
  /\ alive /\ listening /\ Len(pending) < Backlog
  /\ client[c] = "new" /\ \A d \in 1..(c - 1) : client[d] # "new"
  /\ client' = [client EXCEPT ![c] = "connected"]
  /\ pending' = Append(pending, c)
  /\ UNCHANGED <<kind, running, queueVars, listening, lpc, lconn, hpc, hconn, spc, open, alive>>

SendRequest(c) ==
  /\ client[c] = "connected"
  /\ \E r \in {"call"} \cup (IF StopsBy("client") THEN {"stop"} ELSE {}) :
       client' = [client EXCEPT ![c] = r]
  /\ UNCHANGED <<kind, running, queueVars, netVars, lpc, lconn, hpc, hconn, spc, open, alive>>

\* The client's process ends before its request is sent; when it ends later, the
\* server cannot tell.
Quit(c) ==
  /\ client[c] = "connected"
  /\ client' = [client EXCEPT ![c] = "gone"]
  /\ UNCHANGED <<kind, running, queueVars, netVars, lpc, lconn, hpc, hconn, spc, open, alive>>

(***************************************************************************)
(* connection_handler.                                                     *)
(***************************************************************************)
ListenerLoop ==
  /\ alive /\ lpc = "loop"
  /\ lpc' = IF running THEN "accept" ELSE "ended"
  /\ UNCHANGED <<kind, running, queueVars, netVars, lconn, hpc, hconn, spc, open, client, alive>>

\* accept returns a connection, or an error once the socket is shut down.
Accept ==
  /\ alive /\ lpc = "accept"
  /\ IF listening
       THEN /\ pending # <<>>
            /\ lconn' = Head(pending)
            /\ pending' = Tail(pending)
            /\ open' = open \cup {Head(pending)}
       ELSE /\ lconn' = NoConn
            /\ UNCHANGED <<pending, open>>
  /\ lpc' = "accepted"
  /\ UNCHANGED <<kind, running, queueVars, listening, hpc, hconn, spc, client, alive>>

\* The test of running_, and of accept's error, whose exception no one catches: it
\* ends the process.
Accepted ==
  /\ alive /\ lpc = "accepted"
  /\ lpc' = IF ~running THEN "ended" ELSE IF lconn = NoConn THEN "thrown" ELSE "push"
  /\ alive' = (lpc' # "thrown")
  /\ IF alive' THEN UNCHANGED client ELSE Reset(Conn)
  /\ UNCHANGED <<kind, running, queueVars, netVars, lconn, hpc, hconn, spc, open>>

\* enqueue: push_back under the mutex ...
Enqueue ==
  /\ alive /\ lpc = "push"
  /\ conns' = Append(conns, lconn)
  /\ lpc' = "notify"
  /\ UNCHANGED <<kind, running, skip, netVars, lconn, hpc, hconn, spc, open, client, alive>>

\* ... and notify_one after it.
EnqueueNotify ==
  /\ alive /\ lpc = "notify"
  /\ Notify
  /\ lpc' = "loop"
  /\ UNCHANGED <<kind, running, queueVars, netVars, lconn, hconn, spc, open, client, alive>>

(***************************************************************************)
(* message_handler.                                                        *)
(***************************************************************************)
HandlerLoop ==
  /\ alive /\ hpc = "loop"
  /\ hpc' = IF running THEN "dequeue" ELSE "ended"
  /\ UNCHANGED <<kind, running, queueVars, netVars, lpc, lconn, hconn, spc, open, client, alive>>

\* Mutant of Take: the connection that came last.
TakeLast ==
  /\ hconn' = Last(conns)
  /\ conns' = Front(conns)
  /\ hpc' = "taken"

Take ==
  /\ hconn' = Head(conns)
  /\ conns' = Tail(conns)
  /\ hpc' = "taken"

\* Mutant of Dequeue: it waits without a look at the queue.
DequeueBlindly ==
  /\ alive /\ hpc = "dequeue"
  /\ skip' = FALSE
  /\ hpc' = "waiting"
  /\ UNCHANGED <<conns, hconn>>
  /\ UNCHANGED <<kind, running, netVars, lpc, lconn, spc, open, client, alive>>

\* dequeue_wait forgets an earlier clear, and waits unless there is a connection.
Dequeue ==
  /\ alive /\ hpc = "dequeue"
  /\ skip' = FALSE
  /\ IF conns # <<>> THEN Take ELSE hpc' = "waiting" /\ UNCHANGED <<conns, hconn>>
  /\ UNCHANGED <<kind, running, netVars, lpc, lconn, spc, open, client, alive>>

\* A condition variable may wake without a notification.
WakeSpuriously ==
  /\ alive /\ hpc = "waiting"
  /\ hpc' = "woken"
  /\ UNCHANGED <<kind, running, queueVars, netVars, lpc, lconn, hconn, spc, open, client, alive>>

\* Mutant of Wake: wait without its predicate.
WakeUnguarded ==
  /\ alive /\ hpc = "woken"
  /\ IF conns # <<>> THEN Take ELSE hpc' = "taken" /\ UNCHANGED <<conns, hconn>>
  /\ UNCHANGED <<kind, running, skip, netVars, lpc, lconn, spc, open, client, alive>>

\* wait's predicate, and what dequeue_wait does once it holds.
Wake ==
  /\ alive /\ hpc = "woken"
  /\ \/ skip /\ hpc' = "loop" /\ UNCHANGED <<conns, hconn>>
     \/ ~skip /\ conns # <<>> /\ Take
     \/ ~skip /\ conns = <<>> /\ hpc' = "waiting" /\ UNCHANGED <<conns, hconn>>
  /\ UNCHANGED <<kind, running, skip, netVars, lpc, lconn, spc, open, client, alive>>

\* The test of running_ after dequeue_wait leaves the connection as it is.
Taken ==
  /\ alive /\ hpc = "taken"
  /\ hpc' = IF running THEN "receive" ELSE "ended"
  /\ UNCHANGED <<kind, running, queueVars, netVars, lpc, lconn, hconn, spc, open, client, alive>>

\* recv waits for the whole request, or for the end of the client, which makes it an
\* empty request (command NONE).  SHUT_DOWN is answered before stop is called.
Receive ==
  /\ alive /\ hpc = "receive" /\ client[hconn] # "connected"
  /\ hpc' = IF client[hconn] = "stop" THEN "stop" ELSE "close"
  /\ client' = [client EXCEPT ![hconn] = IF @ = "gone" THEN @ ELSE "answered"]
  /\ UNCHANGED <<kind, running, queueVars, netVars, lpc, lconn, hconn, spc, open, alive>>

\* Mutant of Close: the descriptor stays open.
CloseNothing ==
  /\ alive /\ hpc = "close"
  /\ hpc' = "loop"
  /\ UNCHANGED <<kind, running, queueVars, netVars, lpc, lconn, hconn, spc, open, client, alive>>

Close ==
  /\ alive /\ hpc = "close"
  /\ open' = IF Closes THEN open \ {hconn} ELSE open
  /\ hpc' = "loop"
  /\ UNCHANGED <<kind, running, queueVars, netVars, lpc, lconn, hconn, spc, client, alive>>

(***************************************************************************)
(* stop, called by message_handler or by another thread t.                 *)
(***************************************************************************)
StopBegin(t) ==
  /\ alive /\ spc[t] = 0
  /\ IF t = "handler" THEN hpc = "stop" ELSE StopsBy("other")
  /\ spc' = [spc EXCEPT ![t] = 1]
  /\ UNCHANGED <<kind, running, queueVars, netVars, lpc, lconn, hpc, hconn, open, client, alive>>

StopFlag(t) ==
  /\ alive /\ At(t, "flag")
  /\ running' = FALSE
  /\ spc' = [spc EXCEPT ![t] = @ + 1]
  /\ UNCHANGED <<kind, queueVars, netVars, lpc, lconn, hpc, hconn, open, client, alive>>

\* clear drops the connections it finds, without closing them.
StopClear(t) ==
  /\ alive /\ At(t, "clear")
  /\ skip' = TRUE /\ conns' = <<>>
  /\ spc' = [spc EXCEPT ![t] = @ + 1]
  /\ UNCHANGED <<kind, running, netVars, lpc, lconn, hpc, hconn, open, client, alive>>

StopNotify(t) ==
  /\ alive /\ At(t, "notify")
  /\ Notify
  /\ spc' = [spc EXCEPT ![t] = @ + 1]
  /\ UNCHANGED <<kind, running, queueVars, netVars, lpc, lconn, hconn, open, client, alive>>

\* The kernel resets the connections nobody has accepted.
StopSocket(t) ==
  /\ alive /\ At(t, "shutdown")
  /\ listening' = FALSE /\ pending' = <<>>
  /\ Reset(ToSet(pending))
  /\ spc' = [spc EXCEPT ![t] = @ + 1]
  /\ UNCHANGED <<kind, running, queueVars, lpc, lconn, hpc, hconn, open, alive>>

\* message_handler goes on after its call of stop; dsserver closes nothing.
StopReturn ==
  /\ alive /\ hpc = "stop" /\ spc["handler"] > Len(StopOrder)
  /\ hpc' = "close"
  /\ UNCHANGED <<kind, running, queueVars, netVars, lpc, lconn, hconn, spc, open, client, alive>>

\* main of kvdaemon looks at is_running every second.
Exit ==
  /\ alive /\ Exits /\ ~running
  /\ alive' = FALSE
  /\ Reset(Conn)
  /\ UNCHANGED <<kind, running, queueVars, netVars, lpc, lconn, hpc, hconn, spc, open>>

(***************************************************************************)
(* The specification.                                                      *)
(***************************************************************************)
Init ==
  /\ kind \in Kinds
  /\ running = TRUE /\ alive = TRUE /\ listening = TRUE /\ skip = FALSE
  /\ conns = <<>> /\ pending = <<>>
  /\ lpc = "loop" /\ lconn = NoConn
  /\ hpc = "loop" /\ hconn = NoConn
  /\ spc = [t \in Stopper |-> 0]
  /\ open = {}
  /\ client = [c \in Conn |-> "new"]

ListenerStep == ListenerLoop \/ Accept \/ Accepted \/ Enqueue \/ EnqueueNotify
HandlerStep == HandlerLoop \/ Dequeue \/ Wake \/ Taken \/ Receive \/ Close \/ StopReturn
StopStep(t) == StopFlag(t) \/ StopClear(t) \/ StopNotify(t) \/ StopSocket(t)
ClientStep(c) == Connect(c) \/ SendRequest(c) \/ Quit(c)

Next ==
  \/ \E c \in Conn : ClientStep(c)
  \/ ListenerStep \/ HandlerStep \/ WakeSpuriously
  \/ \E t \in Stopper : StopBegin(t) \/ StopStep(t)
  \/ Exit

Spec == Init /\ [][Next]_vars

\* Threads that can go on do; a client that has connected sends its request or dies.
\* Nobody need connect, call stop or wake spuriously.
Fairness ==
  /\ WF_vars(ListenerStep) /\ WF_vars(HandlerStep) /\ WF_vars(Exit)
  /\ WF_vars(StopBegin("handler"))
  /\ \A t \in Stopper : WF_vars(StopStep(t))
  /\ \A c \in Conn : WF_vars(SendRequest(c) \/ Quit(c))

FairSpec == Spec /\ Fairness

\* Every variable keeps its shape.
TypeOK ==
  /\ kind \in Kinds
  /\ running \in BOOLEAN /\ skip \in BOOLEAN /\ listening \in BOOLEAN /\ alive \in BOOLEAN
  /\ conns \in Seq(Conn) /\ pending \in Seq(Conn)
  /\ lpc \in {"loop", "accept", "accepted", "push", "notify", "ended", "thrown"}
  /\ hpc \in {"loop", "dequeue", "waiting", "woken", "taken", "receive", "stop", "close",
              "ended"}
  /\ lconn \in Conn \cup {NoConn} /\ hconn \in Conn \cup {NoConn}
  /\ lpc \in {"push", "notify"} => lconn \in Conn
  /\ hpc \in {"taken", "receive", "stop", "close"} => hconn \in Conn
  /\ spc \in [Stopper -> 0..(Len(StopOrder) + 1)]
  /\ open \in SUBSET Conn
  /\ client \in [Conn -> {"new", "connected", "call", "stop", "gone", "answered", "failed"}]

(***************************************************************************)
(* Properties.                                                             *)
(***************************************************************************)

\* No wakeup is lost between threads that run: when message_handler waits beside a
\* connection, or beside a clear, whoever left it there has yet to notify
\* (queue.h:25-31, 33-40, 68-75).
NoLostWakeup ==
  hpc = "waiting" =>
    /\ conns # <<>> => lpc = "notify"
    /\ skip => \E t \in Stopper : At(t, "notify")

\* stop never makes connection_handler throw, whatever it is at when the socket is shut
\* down under it (dsserver.cpp:70-77, 309-316).
NeverThrown == lpc # "thrown"

\* Connections are handled in the order in which they were made, each at most once.
InOrder == [][hconn' > hconn]_hconn

\* While rpc_server runs, every open connection is on its way through its threads: none
\* is forgotten, and none handled is kept (rpcserver.cpp:218-222).
OnItsWay ==
  alive /\ running /\ Closes => \A c \in open :
    \/ c = lconn /\ lpc \in {"accepted", "push"}
    \/ \E i \in DOMAIN conns : conns[i] = c
    \/ c = hconn /\ hpc \in {"taken", "receive", "close", "stop"}

\* A server that is not stopped answers every request.
Answered ==
  \A c \in Conn : client[c] \in {"call", "stop"} ~> client[c] = "answered" \/ ~running

\* After the stop, connection_handler ends, or the process does.
ListenerEnds == ~running ~> (lpc = "ended" \/ ~alive)

\* No client of a process that exits waits for ever, whatever stage its connection had
\* reached when the server was stopped.
CallsEnd ==
  \A c \in Conn : Exits /\ client[c] \in {"call", "stop"} ~> client[c] \in {"answered", "failed"}

\* stop ends message_handler too, and leaves it nowhere to wait: "clear the connection
\* queue and wake up all the blocking thread" (dsserver.cpp:312).
HandlerEnds == ~running ~> (hpc = "ended" \/ ~alive)
=============================================================================
