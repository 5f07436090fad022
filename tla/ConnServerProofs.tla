-------------------------- MODULE ConnServerProofs --------------------------
(***************************************************************************)
(* Proofs about ConnServer, for every number of connections and every way  *)
(* to stop the server: its types, that no wakeup is lost between its       *)
(* threads, that stop never makes connection_handler throw, and that every *)
(* connection is on its way to the handler, in the order of arrival.       *)
(***************************************************************************)
EXTENDS ConnServer, SequenceTheorems, TLAPS

\* The socket is shut down only after running_ is reset, which nothing sets again.
StopsInOrder ==
  /\ \A t \in Stopper : spc[t] > 1 => ~running
  /\ ~listening => ~running
  /\ lpc = "accepted" /\ lconn = NoConn => ~running
  /\ lpc # "thrown"

LEMMA StopSteps ==
  /\ Len(StopOrder) = 4 /\ DOMAIN StopOrder = 1..4
  /\ \A t : At(t, "flag") <=> spc[t] = 1
  /\ \A t : At(t, "clear") <=> spc[t] = 2
  /\ \A t : At(t, "notify") <=> spc[t] = 3
  /\ \A t : At(t, "shutdown") <=> spc[t] = 4
<1>1. Len(StopOrder) = 4 /\ DOMAIN StopOrder = 1..4
  BY DEF StopOrder
<1>2. /\ StopOrder[1] = "flag" /\ StopOrder[2] = "clear"
      /\ StopOrder[3] = "notify" /\ StopOrder[4] = "shutdown"
  BY DEF StopOrder
<1>3. \A i \in 1..4 : i = 1 \/ i = 2 \/ i = 3 \/ i = 4
  OBVIOUS
<1> QED BY <1>1, <1>2, <1>3 DEF At

(***************************************************************************)
(* Types.                                                                  *)
(***************************************************************************)

LEMMA TypeInit == Init => TypeOK
<1>1. Len(StopOrder) = 4
  BY StopSteps
<1> SUFFICES ASSUME Init PROVE TypeOK
  OBVIOUS
<1>2. spc \in [Stopper -> 0..(Len(StopOrder) + 1)]
  BY <1>1 DEF Init
<1>3. /\ <<>> \in Seq(Conn)
      /\ client \in [Conn -> {"new", "connected", "call", "stop", "gone", "answered", "failed"}]
  BY DEF Init
<1> QED BY <1>2, <1>3 DEF Init, TypeOK

LEMMA TakeType ==
  ASSUME TypeOK, conns # <<>>, Take
  PROVE  conns' \in Seq(Conn) /\ hconn' \in Conn /\ hpc' = "taken"
BY DEF Take, TypeOK

LEMMA ResetType ==
  ASSUME TypeOK, NEW S, Reset(S)
  PROVE  client' \in [Conn -> {"new", "connected", "call", "stop", "gone", "answered", "failed"}]
BY DEF Reset, TypeOK

LEMMA TypeClient ==
  ASSUME TypeOK, NEW c \in Conn, ClientStep(c)
  PROVE  TypeOK'
<1>1. CASE Connect(c)
  BY <1>1 DEF Connect, TypeOK, queueVars
<1>2. CASE SendRequest(c)
  BY <1>2 DEF SendRequest, TypeOK, queueVars, netVars
<1>3. CASE Quit(c)
  BY <1>3 DEF Quit, TypeOK, queueVars, netVars
<1> QED BY <1>1, <1>2, <1>3 DEF ClientStep

LEMMA TypeListener ==
  ASSUME TypeOK, ListenerStep
  PROVE  TypeOK'
<1>1. CASE ListenerLoop
  BY <1>1 DEF ListenerLoop, TypeOK, queueVars, netVars
<1>2. CASE Accept
  <2>1. /\ lconn' \in Conn \cup {NoConn}
        /\ pending' \in Seq(Conn)
        /\ open' \in SUBSET Conn
    <3>1. pending # <<>> => Head(pending) \in Conn /\ Tail(pending) \in Seq(Conn)
      BY DEF TypeOK
    <3> QED BY <1>2, <3>1 DEF Accept, TypeOK
  <2> QED BY <1>2, <2>1 DEF Accept, TypeOK, queueVars
<1>3. CASE Accepted
  <2>1. client' \in [Conn -> {"new", "connected", "call", "stop", "gone", "answered", "failed"}]
    BY <1>3, ResetType DEF Accepted, TypeOK
  <2> QED BY <1>3, <2>1 DEF Accepted, TypeOK, queueVars, netVars
<1>4. CASE Enqueue
  BY <1>4 DEF Enqueue, TypeOK, netVars
<1>5. CASE EnqueueNotify
  BY <1>5 DEF EnqueueNotify, Notify, TypeOK, queueVars, netVars
<1> QED BY <1>1, <1>2, <1>3, <1>4, <1>5 DEF ListenerStep

LEMMA TypeHandler ==
  ASSUME TypeOK, HandlerStep \/ WakeSpuriously
  PROVE  TypeOK'
<1>1. CASE HandlerLoop
  BY <1>1 DEF HandlerLoop, TypeOK, queueVars, netVars
<1>2. CASE Dequeue
  BY <1>2, TakeType DEF Dequeue, TypeOK, netVars
<1>3. CASE Wake
  BY <1>3, TakeType DEF Wake, TypeOK, netVars
<1>4. CASE Taken
  BY <1>4 DEF Taken, TypeOK, queueVars, netVars
<1>5. CASE Receive
  BY <1>5 DEF Receive, TypeOK, queueVars, netVars
<1>6. CASE Close
  BY <1>6 DEF Close, TypeOK, queueVars, netVars
<1>7. CASE StopReturn
  BY <1>7 DEF StopReturn, TypeOK, queueVars, netVars
<1>8. CASE WakeSpuriously
  BY <1>8 DEF WakeSpuriously, TypeOK, queueVars, netVars
<1> QED BY <1>1, <1>2, <1>3, <1>4, <1>5, <1>6, <1>7, <1>8 DEF HandlerStep

LEMMA TypeStop ==
  ASSUME TypeOK, NEW t \in Stopper, StopBegin(t) \/ StopStep(t)
  PROVE  TypeOK'
<1>1. CASE StopBegin(t)
  BY <1>1, StopSteps DEF StopBegin, TypeOK, queueVars, netVars
<1>2. CASE StopFlag(t)
  <2>1. running' \in BOOLEAN
    BY <1>2 DEF StopFlag
  <2>2. spc' \in [Stopper -> 0..(Len(StopOrder) + 1)]
    BY <1>2, StopSteps DEF StopFlag, TypeOK
  <2> QED BY <1>2, <2>1, <2>2 DEF StopFlag, TypeOK, queueVars, netVars
<1>3. CASE StopClear(t)
  BY <1>3, StopSteps DEF StopClear, TypeOK, netVars
<1>4. CASE StopNotify(t)
  BY <1>4, StopSteps DEF StopNotify, Notify, TypeOK, queueVars, netVars
<1>5. CASE StopSocket(t)
  <2>1. client' \in [Conn -> {"new", "connected", "call", "stop", "gone", "answered", "failed"}]
    BY <1>5, ResetType DEF StopSocket
  <2>2. spc' \in [Stopper -> 0..(Len(StopOrder) + 1)]
    BY <1>5, StopSteps DEF StopSocket, TypeOK
  <2>3. listening' \in BOOLEAN /\ pending' \in Seq(Conn)
    <3>1. listening' = FALSE /\ pending' = <<>>
      BY <1>5 DEF StopSocket
    <3>2. <<>> \in Seq(Conn)
      OBVIOUS
    <3> QED BY <3>1, <3>2
  <2> QED BY <1>5, <2>1, <2>2, <2>3 DEF StopSocket, TypeOK, queueVars
<1> QED BY <1>1, <1>2, <1>3, <1>4, <1>5 DEF StopStep

LEMMA TypeExit ==
  ASSUME TypeOK, Exit
  PROVE  TypeOK'
<1>1. client' \in [Conn -> {"new", "connected", "call", "stop", "gone", "answered", "failed"}]
  BY ResetType DEF Exit
<1> QED BY <1>1 DEF Exit, TypeOK, queueVars, netVars

LEMMA TypeNext == TypeOK /\ [Next]_vars => TypeOK'
<1>1. TypeOK /\ UNCHANGED vars => TypeOK'
  BY DEF TypeOK, vars
<1> QED BY <1>1, TypeClient, TypeListener, TypeHandler, TypeStop, TypeExit DEF Next

\* Every variable keeps its shape; in particular message_handler works only on
\* connections it has taken from the queue (queue.h:33-50).
THEOREM ConnTypes == Spec => []TypeOK
BY TypeInit, TypeNext, PTL DEF Spec

(***************************************************************************)
(* No wakeup is lost.                                                      *)
(***************************************************************************)

LEMMA WakeupInit == Init => NoLostWakeup
BY DEF Init, NoLostWakeup

LEMMA WakeupNext == TypeOK /\ NoLostWakeup /\ [Next]_vars => NoLostWakeup'
<1> SUFFICES ASSUME TypeOK, NoLostWakeup, [Next]_vars PROVE NoLostWakeup'
  OBVIOUS
<1>1. CASE UNCHANGED vars
  BY <1>1 DEF NoLostWakeup, At, vars
<1>2. ASSUME NEW c \in Conn, ClientStep(c) PROVE NoLostWakeup'
  BY <1>2 DEF ClientStep, Connect, SendRequest, Quit, queueVars, NoLostWakeup, At
<1>3. CASE ListenerStep
  <2>1. UNCHANGED <<skip, spc>>
    BY <1>3 DEF ListenerStep, ListenerLoop, Accept, Accepted, Enqueue, EnqueueNotify, queueVars
  <2>2. CASE Enqueue
    BY <2>1, <2>2 DEF Enqueue, NoLostWakeup, At
  <2>3. CASE EnqueueNotify
    BY <2>3 DEF EnqueueNotify, Notify, NoLostWakeup
  <2>4. CASE ListenerLoop \/ Accept \/ Accepted
    BY <2>1, <2>4 DEF ListenerLoop, Accept, Accepted, queueVars, NoLostWakeup, At
  <2> QED BY <1>3, <2>2, <2>3, <2>4 DEF ListenerStep
<1>4. CASE HandlerStep \/ WakeSpuriously
  <2>1. CASE Dequeue
    BY <2>1 DEF Dequeue, Take, NoLostWakeup
  <2>2. CASE Wake
    BY <2>2 DEF Wake, Take, NoLostWakeup
  <2>3. hpc' # "waiting" \/ Dequeue \/ Wake
    BY <1>4 DEF HandlerStep, HandlerLoop, Taken, Receive, Close, StopReturn, WakeSpuriously
  <2> QED BY <2>1, <2>2, <2>3 DEF NoLostWakeup
<1>5. ASSUME NEW t \in Stopper, StopBegin(t) \/ StopStep(t) PROVE NoLostWakeup'
  <2>1. CASE StopNotify(t)
    BY <2>1 DEF StopNotify, Notify, NoLostWakeup
  <2>2. CASE StopClear(t)
    <3>1. spc'[t] = 3
      BY <2>2, StopSteps DEF StopClear, TypeOK
    <3>2. At(t, "notify")'
      BY <3>1 DEF At, StopOrder
    <3> QED BY <2>2, <3>2 DEF StopClear, NoLostWakeup
  <2>3. CASE StopBegin(t) \/ StopFlag(t) \/ StopSocket(t)
    <3>1. UNCHANGED <<conns, skip, lpc, hpc>>
      BY <2>3 DEF StopBegin, StopFlag, StopSocket, queueVars
    <3>2. \A u \in Stopper : At(u, "notify") => u # t
      BY <2>3, StopSteps DEF StopBegin, StopFlag, StopSocket
    <3>3. \A u \in Stopper : At(u, "notify") => At(u, "notify")'
      BY <2>3, <3>2 DEF StopBegin, StopFlag, StopSocket, At, TypeOK
    <3> QED BY <3>1, <3>3 DEF NoLostWakeup
  <2> QED BY <1>5, <2>1, <2>2, <2>3 DEF StopStep
<1>6. CASE Exit
  BY <1>6 DEF Exit, queueVars, NoLostWakeup, At
<1> QED BY <1>1, <1>2, <1>3, <1>4, <1>5, <1>6 DEF Next

\* Whoever leaves message_handler waiting beside a connection, or beside a clear, has
\* yet to notify it (queue.h:25-50, 68-75).
THEOREM WakeupsArrive == Spec => []NoLostWakeup
BY WakeupInit, WakeupNext, ConnTypes, PTL DEF Spec

(***************************************************************************)
(* stop does not make connection_handler throw.                            *)
(***************************************************************************)

LEMMA OrderInit == Init => StopsInOrder
BY DEF Init, StopsInOrder, Stopper

LEMMA OrderNext == TypeOK /\ StopsInOrder /\ [Next]_vars => StopsInOrder'
<1> SUFFICES ASSUME TypeOK, StopsInOrder, [Next]_vars PROVE StopsInOrder'
  OBVIOUS
<1>1. CASE UNCHANGED vars
  BY <1>1 DEF StopsInOrder, vars
<1>2. ASSUME NEW c \in Conn, ClientStep(c) PROVE StopsInOrder'
  BY <1>2 DEF ClientStep, Connect, SendRequest, Quit, netVars, StopsInOrder
<1>3. CASE ListenerStep
  <2>1. UNCHANGED <<running, listening, spc>>
    BY <1>3 DEF ListenerStep, ListenerLoop, Accept, Accepted, Enqueue, EnqueueNotify, netVars
  <2>2. CASE Accept
    <3>1. pending # <<>> => Head(pending) \in Conn
      BY DEF TypeOK
    <3>2. NoConn \notin Conn
      BY LimitsAssumption DEF Conn, NoConn
    <3> QED BY <2>1, <2>2, <3>1, <3>2 DEF Accept, StopsInOrder
  <2>3. CASE ListenerLoop \/ Accepted \/ Enqueue \/ EnqueueNotify
    BY <2>1, <2>3 DEF ListenerLoop, Accepted, Enqueue, EnqueueNotify, StopsInOrder
  <2> QED BY <1>3, <2>2, <2>3 DEF ListenerStep
<1>4. CASE HandlerStep \/ WakeSpuriously
  BY <1>4 DEF HandlerStep, HandlerLoop, Dequeue, Wake, Taken, Receive, Close, StopReturn,
     WakeSpuriously, netVars, StopsInOrder
<1>5. ASSUME NEW t \in Stopper, StopBegin(t) \/ StopStep(t) PROVE StopsInOrder'
  <2>1. UNCHANGED <<lpc, lconn>>
    BY <1>5 DEF StopBegin, StopStep, StopFlag, StopClear, StopNotify, StopSocket
  <2>2. CASE StopBegin(t)
    BY <2>1, <2>2 DEF StopBegin, netVars, StopsInOrder, TypeOK
  <2>3. CASE StopFlag(t)
    BY <2>1, <2>3 DEF StopFlag, StopsInOrder
  <2>4. CASE StopClear(t) \/ StopNotify(t) \/ StopSocket(t)
    <3>1. ~running /\ UNCHANGED running
      BY <2>4, StopSteps DEF StopClear, StopNotify, StopSocket, StopsInOrder
    <3> QED BY <2>1, <3>1 DEF StopsInOrder
  <2> QED BY <1>5, <2>2, <2>3, <2>4 DEF StopStep
<1>6. CASE Exit
  BY <1>6 DEF Exit, netVars, StopsInOrder
<1> QED BY <1>1, <1>2, <1>3, <1>4, <1>5, <1>6 DEF Next

\* Whatever connection_handler is at when stop shuts the socket down, it sees running_
\* reset before it can see accept's error (dsserver.cpp:70-77, 309-316).
THEOREM StopIsClean == Spec => []NeverThrown
<1>1. StopsInOrder => NeverThrown
  BY DEF StopsInOrder, NeverThrown
<1> QED BY <1>1, OrderInit, OrderNext, ConnTypes, PTL DEF Spec

(***************************************************************************)
(* Where connections are, and in which order.                              *)
(***************************************************************************)

\* The positions of a sequence of connections, of its tail and with one more.
LEMMA ConnSeq ==
  ASSUME NEW s \in Seq(Conn)
  PROVE  /\ DOMAIN s = 1..Len(s) /\ Len(s) \in Nat /\ \A i \in DOMAIN s : s[i] \in Conn
         /\ s # <<>> =>
              /\ 1 \in DOMAIN s /\ Head(s) = s[1]
              /\ \A i \in DOMAIN Tail(s) : i + 1 \in DOMAIN s /\ Tail(s)[i] = s[i + 1]
              /\ \A i \in DOMAIN s \ {1} : i - 1 \in DOMAIN Tail(s) /\ Tail(s)[i - 1] = s[i]
         /\ \A c \in Conn :
              /\ \A i \in DOMAIN Append(s, c) :
                   \/ i \in DOMAIN s /\ Append(s, c)[i] = s[i]
                   \/ i = Len(s) + 1 /\ Append(s, c)[i] = c
              /\ \A i \in DOMAIN s : i \in DOMAIN Append(s, c) /\ Append(s, c)[i] = s[i]
              /\ \E i \in DOMAIN Append(s, c) : Append(s, c)[i] = c
<1>1. DOMAIN s = 1..Len(s) /\ Len(s) \in Nat /\ \A i \in 1..Len(s) : s[i] \in Conn
  BY LenProperties
<1>2. ASSUME s # <<>>
      PROVE  /\ 1 \in DOMAIN s /\ Head(s) = s[1]
             /\ \A i \in DOMAIN Tail(s) : i + 1 \in DOMAIN s /\ Tail(s)[i] = s[i + 1]
             /\ \A i \in DOMAIN s \ {1} : i - 1 \in DOMAIN Tail(s) /\ Tail(s)[i - 1] = s[i]
  <2>1. Len(s) # 0 /\ Head(s) = s[1]
    BY <1>2, EmptySeq, HeadTailProperties
  <2>2. /\ Tail(s) \in Seq(Conn) /\ Len(Tail(s)) = Len(s) - 1
        /\ \A i \in 1..Len(Tail(s)) : Tail(s)[i] = s[i + 1]
    BY <1>2, HeadTailProperties
  <2>3. DOMAIN Tail(s) = 1..(Len(s) - 1)
    BY <2>2
  <2> QED BY <1>1, <2>1, <2>2, <2>3
<1>3. ASSUME NEW c \in Conn
      PROVE  /\ \A i \in DOMAIN Append(s, c) :
                  \/ i \in DOMAIN s /\ Append(s, c)[i] = s[i]
                  \/ i = Len(s) + 1 /\ Append(s, c)[i] = c
             /\ \A i \in DOMAIN s : i \in DOMAIN Append(s, c) /\ Append(s, c)[i] = s[i]
             /\ \E i \in DOMAIN Append(s, c) : Append(s, c)[i] = c
  <2>1. /\ DOMAIN Append(s, c) = 1..(Len(s) + 1)
        /\ \A i \in 1..Len(s) : Append(s, c)[i] = s[i]
        /\ Append(s, c)[Len(s) + 1] = c
    BY AppendProperties
  <2>2. Len(s) + 1 \in DOMAIN Append(s, c)
    BY <1>1, <2>1
  <2> QED BY <1>1, <2>1, <2>2
<1> QED BY <1>1, <1>2, <1>3

\* An open connection is with connection_handler, in the queue or with message_handler.
LEMMA OnItsWayNext ==
  ASSUME TypeOK, StopsInOrder, OnItsWay, [Next]_vars
  PROVE  OnItsWay'
<1> SUFFICES ASSUME alive', running', Closes', NEW c \in open'
             PROVE  \/ c = lconn' /\ lpc' \in {"accepted", "push"}
                    \/ \E i \in DOMAIN conns' : conns'[i] = c
                    \/ c = hconn' /\ hpc' \in {"taken", "receive", "close", "stop"}
  BY DEF OnItsWay
<1> DEFINE AtListener == c = lconn /\ lpc \in {"accepted", "push"}
           Queued == \E i \in DOMAIN conns : conns[i] = c
           AtHandler == c = hconn /\ hpc \in {"taken", "receive", "close", "stop"}
           Before == alive /\ running /\ Closes /\ c \in open
<1>1. Before => AtListener \/ Queued \/ AtHandler
  BY DEF OnItsWay
<1>2. conns \in Seq(Conn) /\ open \subseteq Conn /\ NoConn \notin Conn
  BY LimitsAssumption DEF TypeOK, Conn, NoConn
<1>3. CASE UNCHANGED vars
  BY <1>1, <1>3 DEF vars, Closes
<1>4. ASSUME NEW d \in Conn, ClientStep(d) PROVE AtListener' \/ Queued' \/ AtHandler'
  BY <1>1, <1>4 DEF ClientStep, Connect, SendRequest, Quit, queueVars, netVars, Closes
<1>5. CASE ListenerStep
  <2>1. CASE Accept
    <3>1. UNCHANGED <<kind, running, conns, hpc, hconn, alive>> /\ lpc' = "accepted" /\ lpc = "accept"
      BY <2>1 DEF Accept, queueVars
    <3>2. CASE c \in open
      BY <1>1, <3>1, <3>2 DEF Closes
    <3>3. CASE c \notin open
      BY <2>1, <3>1, <3>3 DEF Accept
    <3> QED BY <3>2, <3>3
  <2>2. CASE Enqueue
    <3>1. /\ UNCHANGED <<kind, running, hpc, hconn, open, alive>> /\ conns' = Append(conns, lconn)
          /\ lconn \in Conn
      BY <2>2 DEF Enqueue, TypeOK
    <3>2. /\ \A i \in DOMAIN conns : i \in DOMAIN conns' /\ conns'[i] = conns[i]
          /\ \E i \in DOMAIN conns' : conns'[i] = lconn
      BY <1>2, <3>1, ConnSeq
    <3> QED BY <1>1, <3>1, <3>2 DEF Closes
  <2>3. CASE Accepted
    <3>1. UNCHANGED <<kind, running, conns, hpc, hconn, open, lconn>> /\ lpc = "accepted"
      BY <2>3 DEF Accepted, queueVars
    <3>2. alive /\ (lconn # NoConn => lpc' = "push")
      BY <2>3, <3>1 DEF Accepted
    <3> QED BY <1>1, <1>2, <3>1, <3>2 DEF Closes
  <2>4. CASE ListenerLoop \/ EnqueueNotify
    <3>1. /\ UNCHANGED <<kind, running, conns, hconn, open, alive>> /\ lpc \notin {"accepted", "push"}
          /\ hpc' = hpc \/ hpc = "waiting"
      BY <2>4 DEF ListenerLoop, EnqueueNotify, Notify, queueVars
    <3> QED BY <1>1, <3>1 DEF Closes
  <2> QED BY <1>5, <2>1, <2>2, <2>3, <2>4 DEF ListenerStep
<1>6. CASE HandlerStep \/ WakeSpuriously
  <2>1. UNCHANGED <<kind, running, lpc, lconn, alive>> /\ open' \subseteq open
    BY <1>6 DEF HandlerStep, HandlerLoop, Dequeue, Wake, Taken, Receive, Close, StopReturn, WakeSpuriously
  <2>2. Before
    BY <2>1 DEF Closes
  <2>3. CASE Take /\ conns # <<>> /\ hpc \in {"dequeue", "woken"}
    <3>1. /\ hconn' = conns[1] /\ hpc' = "taken"
          /\ \A i \in DOMAIN conns \ {1} : i - 1 \in DOMAIN conns' /\ conns'[i - 1] = conns[i]
      BY <1>2, <2>3, ConnSeq DEF Take
    <3> QED BY <1>1, <2>1, <2>2, <2>3, <3>1
  <2>4. CASE UNCHANGED <<conns, hconn>>
    <3>1. CASE Close
      <4>1. c # hconn
        BY <2>2, <3>1 DEF Close
      <4> QED BY <1>1, <2>1, <2>2, <2>4, <4>1
    <3>2. CASE HandlerLoop \/ Dequeue \/ Wake \/ WakeSpuriously
      <4>1. hpc \in {"loop", "dequeue", "waiting", "woken"}
        BY <3>2 DEF HandlerLoop, Dequeue, Wake, WakeSpuriously
      <4> QED BY <1>1, <2>1, <2>2, <2>4, <4>1
    <3>3. CASE Taken \/ Receive \/ StopReturn
      <4>1. hpc' \in {"taken", "receive", "close", "stop"}
        BY <2>1, <3>3 DEF Taken, Receive, StopReturn
      <4> QED BY <1>1, <2>1, <2>2, <2>4, <4>1
    <3> QED BY <1>6, <3>1, <3>2, <3>3 DEF HandlerStep
  <2>5. (Take /\ conns # <<>> /\ hpc \in {"dequeue", "woken"}) \/ UNCHANGED <<conns, hconn>>
    BY <1>6 DEF HandlerStep, HandlerLoop, Dequeue, Wake, Taken, Receive, Close, StopReturn,
                WakeSpuriously, queueVars
  <2> QED BY <2>3, <2>4, <2>5
<1>7. ASSUME NEW t \in Stopper, StopBegin(t) \/ StopStep(t) PROVE AtListener' \/ Queued' \/ AtHandler'
  <2>1. ~StopFlag(t)
    BY DEF StopFlag
  <2>2. ~StopClear(t)
    <3>1. ASSUME StopClear(t) PROVE ~running /\ UNCHANGED running
      <4>1. spc[t] = 2
        BY <3>1, StopSteps DEF StopClear
      <4>2. spc[t] > 1
        BY <4>1
      <4> QED BY <3>1, <4>2 DEF StopClear, StopsInOrder
    <3> QED BY <3>1
  <2>3. /\ UNCHANGED <<kind, running, conns, lpc, lconn, hconn, open, alive>>
        /\ hpc' = hpc \/ hpc = "waiting"
    BY <1>7, <2>1, <2>2 DEF StopBegin, StopStep, StopNotify, Notify, StopSocket, queueVars
  <2> QED BY <1>1, <2>3 DEF Closes
<1>8. ~Exit
  BY DEF Exit
<1> QED BY <1>3, <1>4, <1>5, <1>6, <1>7, <1>8 DEF Next

\* While rpc_server runs, no connection it has accepted and not closed is forgotten, and
\* none is kept once it is answered (rpcserver.cpp:218-222).
THEOREM NoneForgotten == Spec => []OnItsWay
<1>1. Init => OnItsWay
  BY DEF Init, OnItsWay
<1>2. TypeOK /\ StopsInOrder /\ OnItsWay /\ [Next]_vars => OnItsWay'
  BY OnItsWayNext
<1> QED BY <1>1, <1>2, OrderInit, OrderNext, ConnTypes, PTL DEF Spec

\* Connections are numbered in the order in which they are made, and so is the line they
\* stand in: message_handler, the queue, connection_handler, the kernel, those to come.
Carried == lconn # NoConn /\ lpc \in {"accepted", "push"}

Rising(s) == \A i, j \in DOMAIN s : i < j => s[i] < s[j]

InLine ==
  /\ Rising(conns) /\ Rising(pending)
  /\ \A i \in DOMAIN conns : hconn < conns[i]
  /\ Carried => hconn < lconn /\ \A i \in DOMAIN conns : conns[i] < lconn
  /\ \A j \in DOMAIN pending :
       /\ hconn < pending[j] /\ lconn < pending[j]
       /\ \A i \in DOMAIN conns : conns[i] < pending[j]
  /\ \A c \in Conn : client[c] = "new" =>
       /\ hconn < c /\ lconn < c
       /\ \A i \in DOMAIN conns : conns[i] < c
       /\ \A j \in DOMAIN pending : pending[j] < c

\* The steps that move nobody forward in the line.
LEMMA InLineKept ==
  ASSUME TypeOK, InLine, UNCHANGED <<hconn, lconn>>, Carried' => Carried,
         conns' \in {conns, <<>>}, pending' \in {pending, <<>>},
         \A c \in Conn : client'[c] = "new" => client[c] = "new"
  PROVE  InLine'
<1>1. /\ \A i \in DOMAIN conns' : i \in DOMAIN conns /\ conns'[i] = conns[i]
      /\ \A i \in DOMAIN pending' : i \in DOMAIN pending /\ pending'[i] = pending[i]
  OBVIOUS
<1>2. Rising(conns)' /\ Rising(pending)'
  BY <1>1 DEF InLine, Rising
<1> QED BY <1>1, <1>2 DEF InLine

LEMMA InLineTake ==
  ASSUME TypeOK, InLine, conns # <<>>, Take, UNCHANGED <<pending, lpc, lconn, client>>
  PROVE  InLine' /\ hconn' > hconn
<1>1. conns \in Seq(Conn) /\ hconn' = Head(conns) /\ conns' = Tail(conns)
  BY DEF Take, TypeOK
<1>2. /\ 1 \in DOMAIN conns /\ hconn' = conns[1] /\ DOMAIN conns' \subseteq Nat \ {0}
      /\ \A i \in DOMAIN conns' : i + 1 \in DOMAIN conns /\ conns'[i] = conns[i + 1]
  <2>1. conns' \in Seq(Conn)
    BY <1>1
  <2> QED BY <1>1, <2>1, ConnSeq
<1>3. hconn' > hconn
  <2>1. hconn < conns[1]
    BY <1>2 DEF InLine
  <2>2. hconn \in Nat /\ conns[1] \in Nat
    BY <1>1, <1>2, ConnSeq DEF TypeOK, Conn, NoConn
  <2> QED BY <1>2, <2>1, <2>2
<1>4. Rising(conns)'
  BY <1>2 DEF InLine, Rising
<1>5. \A i \in DOMAIN conns' : hconn' < conns'[i]
  BY <1>2 DEF InLine, Rising
<1>6. Carried' => hconn' < lconn' /\ \A i \in DOMAIN conns' : conns'[i] < lconn'
  BY <1>2 DEF InLine, Carried
<1>7. Rising(pending)' /\ \A j \in DOMAIN pending' :
        /\ hconn' < pending'[j] /\ lconn' < pending'[j]
        /\ \A i \in DOMAIN conns' : conns'[i] < pending'[j]
  BY <1>2 DEF InLine, Rising
<1>8. \A c \in Conn : client'[c] = "new" =>
        /\ hconn' < c /\ lconn' < c
        /\ \A i \in DOMAIN conns' : conns'[i] < c
        /\ \A j \in DOMAIN pending' : pending'[j] < c
  BY <1>2 DEF InLine
<1> QED BY <1>3, <1>4, <1>5, <1>6, <1>7, <1>8 DEF InLine

LEMMA InLineNext ==
  ASSUME TypeOK, InLine, [Next]_vars
  PROVE  InLine' /\ (hconn' # hconn => hconn' > hconn)
<1>1. conns \in Seq(Conn) /\ pending \in Seq(Conn) /\ NoConn \notin Conn /\ Conn \subseteq Nat
  BY LimitsAssumption DEF TypeOK, Conn, NoConn
<1>2. CASE UNCHANGED vars
  BY <1>2, InLineKept DEF vars, Carried
<1>3. ASSUME NEW c \in Conn, Connect(c) PROVE InLine' /\ hconn' = hconn
  <2>1. /\ UNCHANGED <<conns, lpc, lconn, hconn>> /\ pending' = Append(pending, c)
        /\ client[c] = "new" /\ \A d \in 1..(c - 1) : client[d] # "new"
        /\ client' = [client EXCEPT ![c] = "connected"]
    BY <1>3 DEF Connect, queueVars
  <2>2. \A i \in DOMAIN pending' :
          \/ i \in DOMAIN pending /\ pending'[i] = pending[i]
          \/ i = Len(pending) + 1 /\ pending'[i] = c
    BY <1>1, <2>1, ConnSeq
  <2>3. /\ hconn < c /\ lconn < c
        /\ \A i \in DOMAIN conns : conns[i] < c
        /\ \A j \in DOMAIN pending : pending[j] < c
    BY <2>1 DEF InLine
  <2>4. \A d \in Conn : client'[d] = "new" => client[d] = "new" /\ c < d
    BY <1>1, <2>1 DEF TypeOK, Conn
  <2>5. /\ \A i \in DOMAIN pending' : i \in Nat /\ pending'[i] \in Nat
        /\ DOMAIN pending = 1..Len(pending) /\ Len(pending) \in Nat
    <3>1. pending' \in Seq(Conn)
      BY <1>1, <2>1
    <3>2. DOMAIN pending' = 1..Len(pending') /\ Len(pending') \in Nat /\ \A i \in DOMAIN pending' : pending'[i] \in Conn
      BY <3>1, ConnSeq
    <3>3. DOMAIN pending = 1..Len(pending) /\ Len(pending) \in Nat
      BY <1>1, ConnSeq
    <3>4. \A i \in DOMAIN pending' : i \in Nat
      BY <3>2
    <3>5. \A i \in DOMAIN pending' : pending'[i] \in Nat
      BY <3>2 DEF Conn
    <3> QED BY <3>3, <3>4, <3>5
  <2>6. Rising(pending)'
    BY <1>1, <2>2, <2>3, <2>5 DEF InLine, Rising
  <2>7. \A j \in DOMAIN pending' :
          /\ hconn' < pending'[j] /\ lconn' < pending'[j]
          /\ \A i \in DOMAIN conns' : conns'[i] < pending'[j]
    BY <2>1, <2>2, <2>3 DEF InLine
  <2>8. \A d \in Conn : client'[d] = "new" =>
          /\ hconn' < d /\ lconn' < d
          /\ \A i \in DOMAIN conns' : conns'[i] < d
          /\ \A j \in DOMAIN pending' : pending'[j] < d
    BY <2>1, <2>2, <2>4 DEF InLine
  <2> QED BY <2>1, <2>6, <2>7, <2>8 DEF InLine, Rising, Carried
<1>4. ASSUME NEW c \in Conn, SendRequest(c) \/ Quit(c) PROVE InLine' /\ hconn' = hconn
  <2>1. UNCHANGED <<conns, pending, lpc, lconn, hconn>>
    BY <1>4 DEF SendRequest, Quit, queueVars, netVars
  <2>2. \A d \in Conn : client'[d] = "new" => client[d] = "new"
    BY <1>4 DEF SendRequest, Quit, TypeOK
  <2> QED BY <2>1, <2>2, InLineKept DEF Carried
<1>5. CASE Accept
  <2>1. UNCHANGED <<conns, hconn, client>> /\ lpc = "accept"
    BY <1>5 DEF Accept, queueVars
  <2>2. CASE ~listening
    <3>1. lconn' = NoConn /\ pending' = pending
      BY <1>5, <2>2 DEF Accept
    <3>2. \A c \in Conn : NoConn < c
      BY DEF Conn, NoConn
    <3>3. \A j \in DOMAIN pending : pending[j] \in Conn
      BY <1>1, ConnSeq
    <3> QED BY <2>1, <3>1, <3>2, <3>3 DEF InLine, Rising, Carried
  <2>3. CASE listening
    <3>1. pending # <<>> /\ lconn' = Head(pending) /\ pending' = Tail(pending) /\ lpc' = "accepted"
      BY <1>5, <2>3 DEF Accept
    <3>2. /\ 1 \in DOMAIN pending /\ lconn' = pending[1] /\ DOMAIN pending' \subseteq Nat \ {0}
          /\ \A i \in DOMAIN pending' : i + 1 \in DOMAIN pending /\ pending'[i] = pending[i + 1]
      <4>1. pending' \in Seq(Conn)
        BY <1>1, <3>1
      <4> QED BY <1>1, <3>1, <4>1, ConnSeq
    <3>3. Rising(pending)' /\ \A j \in DOMAIN pending' : lconn' < pending'[j]
      BY <3>2 DEF InLine, Rising
    <3>4. hconn' < lconn' /\ \A i \in DOMAIN conns' : conns'[i] < lconn'
      BY <2>1, <3>2 DEF InLine
    <3>5. \A j \in DOMAIN pending' : hconn' < pending'[j] /\ \A i \in DOMAIN conns' : conns'[i] < pending'[j]
      BY <2>1, <3>2 DEF InLine
    <3>6. \A c \in Conn : client'[c] = "new" =>
            /\ hconn' < c /\ lconn' < c
            /\ \A i \in DOMAIN conns' : conns'[i] < c
            /\ \A j \in DOMAIN pending' : pending'[j] < c
      BY <2>1, <3>2 DEF InLine
    <3> QED BY <2>1, <3>3, <3>4, <3>5, <3>6 DEF InLine, Rising
  <2> QED BY <2>2, <2>3
<1>6. CASE Enqueue
  <2>1. /\ UNCHANGED <<pending, hconn, lconn, client>> /\ conns' = Append(conns, lconn)
        /\ lconn \in Conn /\ Carried /\ ~Carried'
    BY <1>1, <1>6 DEF Enqueue, netVars, TypeOK, Carried
  <2>2. \A i \in DOMAIN conns' :
          \/ i \in DOMAIN conns /\ conns'[i] = conns[i]
          \/ i = Len(conns) + 1 /\ conns'[i] = lconn
    BY <1>1, <2>1, ConnSeq
  <2>3. /\ \A i \in DOMAIN conns' : i \in Nat /\ conns'[i] \in Nat
        /\ DOMAIN conns = 1..Len(conns) /\ Len(conns) \in Nat
    <3>1. conns' \in Seq(Conn)
      BY <1>1, <2>1
    <3>2. DOMAIN conns' = 1..Len(conns') /\ Len(conns') \in Nat /\ \A i \in DOMAIN conns' : conns'[i] \in Conn
      BY <3>1, ConnSeq
    <3>3. DOMAIN conns = 1..Len(conns) /\ Len(conns) \in Nat
      BY <1>1, ConnSeq
    <3>4. \A i \in DOMAIN conns' : i \in Nat
      BY <3>2
    <3>5. \A i \in DOMAIN conns' : conns'[i] \in Nat
      BY <3>2 DEF Conn
    <3> QED BY <3>3, <3>4, <3>5
  <2>4. hconn < lconn /\ \A i \in DOMAIN conns : conns[i] < lconn
    BY <2>1 DEF InLine
  <2>5. Rising(conns)'
    BY <1>1, <2>1, <2>2, <2>3, <2>4 DEF InLine, Rising
  <2>6. /\ \A i \in DOMAIN conns' : hconn' < conns'[i]
        /\ \A j \in DOMAIN pending' :
             /\ hconn' < pending'[j] /\ lconn' < pending'[j]
             /\ \A i \in DOMAIN conns' : conns'[i] < pending'[j]
    BY <2>1, <2>2, <2>4 DEF InLine
  <2>7. \A c \in Conn : client'[c] = "new" =>
          /\ hconn' < c /\ lconn' < c
          /\ \A i \in DOMAIN conns' : conns'[i] < c
          /\ \A j \in DOMAIN pending' : pending'[j] < c
    BY <2>1, <2>2 DEF InLine
  <2> QED BY <2>1, <2>5, <2>6, <2>7 DEF InLine, Rising
<1>7. CASE ListenerLoop \/ Accepted \/ EnqueueNotify
  <2>1. UNCHANGED <<conns, pending, lconn, hconn>> /\ (Carried' => Carried)
    BY <1>7 DEF ListenerLoop, Accepted, EnqueueNotify, queueVars, netVars, Carried
  <2>2. \A c \in Conn : client'[c] = "new" => client[c] = "new"
    BY <1>7 DEF ListenerLoop, Accepted, EnqueueNotify, Reset
  <2> QED BY <2>1, <2>2, InLineKept
<1>8. CASE HandlerStep \/ WakeSpuriously
  <2>1. UNCHANGED <<pending, lpc, lconn>>
    BY <1>8 DEF HandlerStep, HandlerLoop, Dequeue, Wake, Taken, Receive, Close, StopReturn,
                WakeSpuriously, netVars
  <2>2. \/ Take /\ conns # <<>> /\ UNCHANGED client
        \/ UNCHANGED <<conns, hconn>>
    BY <1>8 DEF HandlerStep, HandlerLoop, Dequeue, Wake, Taken, Receive, Close, StopReturn,
                WakeSpuriously, queueVars
  <2>3. \A c \in Conn : client'[c] = "new" => client[c] = "new"
    BY <1>8 DEF HandlerStep, HandlerLoop, Dequeue, Wake, Taken, Receive, Close, StopReturn,
                WakeSpuriously, TypeOK
  <2> QED BY <2>1, <2>2, <2>3, InLineTake, InLineKept DEF Carried
<1>9. ASSUME NEW t \in Stopper, StopBegin(t) \/ StopStep(t) PROVE InLine' /\ hconn' = hconn
  <2>1. /\ UNCHANGED <<lpc, lconn, hconn>> /\ conns' \in {conns, <<>>} /\ pending' \in {pending, <<>>}
    BY <1>9 DEF StopBegin, StopStep, StopFlag, StopClear, StopNotify, StopSocket, queueVars, netVars
  <2>2. \A c \in Conn : client'[c] = "new" => client[c] = "new"
    BY <1>9 DEF StopBegin, StopStep, StopFlag, StopClear, StopNotify, StopSocket, Reset
  <2> QED BY <2>1, <2>2, InLineKept DEF Carried
<1>10. CASE Exit
  <2>1. UNCHANGED <<conns, pending, lpc, lconn, hconn>>
    BY <1>10 DEF Exit, queueVars, netVars
  <2>2. \A c \in Conn : client'[c] = "new" => client[c] = "new"
    BY <1>10 DEF Exit, Reset
  <2> QED BY <2>1, <2>2, InLineKept DEF Carried
<1> QED BY <1>2, <1>3, <1>4, <1>5, <1>6, <1>7, <1>8, <1>9, <1>10 DEF Next, ClientStep, ListenerStep, vars

\* Connections are handled in the order in which they are made, each at most once,
\* whoever stops the server in between (queue.h:25-50; rpcserver.cpp:193-222).
THEOREM HandledInOrder == Spec => InOrder
<1>1. Init => InLine
  BY DEF Init, InLine, Rising, Carried, Conn, NoConn
<1>2. TypeOK /\ InLine /\ [Next]_vars => InLine'
  BY InLineNext
<1>3. TypeOK /\ InLine /\ [Next]_vars => [hconn' > hconn]_hconn
  BY InLineNext
<1> QED BY <1>1, <1>2, <1>3, ConnTypes, PTL DEF Spec, InOrder
=============================================================================
