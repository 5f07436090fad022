----------------------------- MODULE DataStore -----------------------------
(***************************************************************************)
(* The data store: local callers use a DataStore on the SQLite file, each  *)
(* in a process of its own; remote callers a DataStoreClient, whose        *)
(* requests the one handler thread of dsserver executes on a DataStore of  *)
(* the same file.  Every connection to the file takes SQLite's locks       *)
(* (external: shared, reserved, pending, as its rollback journal uses      *)
(* them); no busy timeout is set, so a lock that is taken is an error at   *)
(* once (sqlstatement.cpp:39, 64).  ConnServer models the daemon's         *)
(* connections; here a crash also stands for its orderly stop.             *)
(***************************************************************************)
EXTENDS DsRequests, Sequences

CONSTANTS Local, Remote,  \* the callers
          Asks            \* the requests each of them may make

\* message::set_key asserts that a key fits (message.cpp:81): the model leaves out
\* the remote requests that would end their caller's process there.
ASSUME CallersAssumption ==
  /\ Local \cap Remote = {}
  /\ Asks \in [Local \cup Remote -> SUBSET Request]
  /\ \A c \in Remote : \A q \in Asks[c] :
       q.op \in {"timestamp", "get_meta", "put_meta"} => Length[q.k] \in 1..MaxKey

VARIABLES rows,   \* the committed rows: one per key, NoRow when it has none
          stage,  \* where each caller's request is
          call,   \* the request each caller has under way
          got,    \* the row its statement stands on, then its answer
          queue,  \* the remote requests dsserver has not taken yet (conns_)
          up      \* whether dsserver runs

vars == <<rows, stage, call, got, queue, up>>

Caller == Local \cup Remote
\* Stages in which a request is being executed on its connection.
Executing == {"run", "shared", "reserved", "pending"}

Init ==
  /\ rows = [k \in Key \cup MetaKey |-> NoRow]
  /\ stage = [c \in Caller |-> "idle"]
  /\ call = [c \in Caller |-> NoCall]
  /\ got = [c \in Caller |-> None]
  /\ queue = <<>>
  /\ up = TRUE

Enter(c, s) == stage' = [stage EXCEPT ![c] = s]
Answer(c, reply) == Enter(c, "answer") /\ got' = [got EXCEPT ![c] = reply]
Others(c, stages) == \E d \in Caller \ {c} : stage[d] \in stages

\* A caller starts a request: a remote one is refused by DataStoreClient, fails
\* to connect, or waits in the daemon's queue.
Call(c) ==
  /\ stage[c] = "idle"
  /\ \E q \in Asks[c] :
       /\ call' = [call EXCEPT ![c] = q]
       /\ \/ c \in Local /\ Enter(c, "run") /\ UNCHANGED <<got, queue>>
          \/ /\ c \in Remote /\ up /\ ~ClientRefuses(q)
             /\ Enter(c, "sent") /\ queue' = Append(queue, c) /\ UNCHANGED got
          \/ /\ c \in Remote /\ (~up \/ ClientRefuses(q))
             /\ Answer(c, Error) /\ UNCHANGED queue
  /\ UNCHANGED <<rows, up>>

\* The handler thread takes the next connection when it has answered the last.
Take(c) ==
  /\ stage[c] = "sent" /\ queue # <<>> /\ Head(queue) = c
  /\ \A d \in Remote : stage[d] \notin Executing
  /\ Enter(c, "run") /\ queue' = Tail(queue)
  /\ UNCHANGED <<rows, call, got, up>>

Refuse(c) ==
  /\ stage[c] = "run" /\ Refused(call[c])
  /\ Answer(c, Error)
  /\ UNCHANGED <<rows, call, queue, up>>

Runs(c, kind) == stage[c] = "run" /\ call[c] \in kind /\ ~Refused(call[c])

\* sql_statement::read() is false for SQLITE_BUSY as for no row.
ReadBusy(c) ==
  /\ Runs(c, Reads) /\ Others(c, {"pending"})
  /\ Answer(c, Missing(call[c]))
  /\ UNCHANGED <<rows, call, queue, up>>

Read(c) ==
  /\ Runs(c, Reads) /\ ~Others(c, {"pending"})
  /\ LET found == Selected(rows, call[c])
     IN  \/ found = {} /\ Answer(c, Missing(call[c]))
         \/ \E r \in found : Enter(c, "shared") /\ got' = [got EXCEPT ![c] = r]
  /\ UNCHANGED <<rows, call, queue, up>>

\* The columns are copied and the statement's destructor ends the read.
ReadDone(c) ==
  /\ stage[c] = "shared"
  /\ Answer(c, Found(call[c], got[c]))
  /\ UNCHANGED <<rows, call, queue, up>>

\* Mutant of WriteBusy: the statement is stepped again while the file is busy.
WriteRetry(c) ==
  /\ Runs(c, Writes) /\ Others(c, {"reserved", "pending"})
  /\ UNCHANGED vars
WriteBusy(c) ==
  /\ Runs(c, Writes) /\ Others(c, {"reserved", "pending"})
  /\ Answer(c, Error)
  /\ UNCHANGED <<rows, call, queue, up>>

Reserve(c) ==
  /\ Runs(c, Writes) /\ ~Others(c, {"reserved", "pending"})
  /\ Enter(c, "reserved")
  /\ UNCHANGED <<rows, call, got, queue, up>>

\* The end of the REPLACE, in autocommit mode, first keeps new readers out ...
Pend(c) ==
  /\ stage[c] = "reserved"
  /\ Enter(c, "pending")
  /\ UNCHANGED <<rows, call, got, queue, up>>

\* ... then stores the row if no reader is left ...
\* Mutant of Commit: the row is stored under the eyes of a reader, whose statement
\* was destroyed before the columns were copied.
CommitAnyway(c) ==
  /\ stage[c] = "pending"
  /\ \E r \in Written(call[c]) : rows' = [rows EXCEPT ![call[c].k] = r]
  /\ Answer(c, Done)
  /\ UNCHANGED <<call, queue, up>>
Commit(c) ==
  /\ stage[c] = "pending" /\ ~Others(c, {"shared"})
  /\ \E r \in Written(call[c]) : rows' = [rows EXCEPT ![call[c].k] = r]
  /\ Answer(c, Done)
  /\ UNCHANGED <<call, queue, up>>

\* ... and otherwise rolls back: step() returns SQLITE_BUSY, execute() throws.
\* Mutant of CommitBusy: execute() ignores what step() returned.
CommitBusyIgnored(c) ==
  /\ stage[c] = "pending" /\ Others(c, {"shared"})
  /\ Answer(c, Done)
  /\ UNCHANGED <<rows, call, queue, up>>
CommitBusy(c) ==
  /\ stage[c] = "pending" /\ Others(c, {"shared"})
  /\ Answer(c, Error)
  /\ UNCHANGED <<rows, call, queue, up>>

\* The caller is told got[c].
Return(c) ==
  /\ stage[c] = "answer"
  /\ Enter(c, "idle")
  /\ call' = [call EXCEPT ![c] = NoCall]
  /\ got' = [got EXCEPT ![c] = None]
  /\ UNCHANGED <<rows, queue, up>>

\* The daemon's process ends: its connection's locks are gone, SQLite rolls an
\* unfinished write back, and a client whose answer was not sent sees the
\* connection end (dsclient.cpp:44).
Crash ==
  /\ up /\ up' = FALSE /\ queue' = <<>>
  /\ \E unsent \in SUBSET {c \in Remote : stage[c] = "answer"} :
       LET lost == unsent \cup {c \in Remote : stage[c] \in Executing \cup {"sent"}}
       IN  /\ stage' = [c \in Caller |-> IF c \in lost THEN "answer" ELSE stage[c]]
           /\ got' = [c \in Caller |-> IF c \in lost THEN Error ELSE got[c]]
  /\ UNCHANGED <<rows, call>>

Restart == ~up /\ up' = TRUE /\ UNCHANGED <<rows, stage, call, got, queue>>

Step(c) == \/ Take(c) \/ Refuse(c) \/ ReadBusy(c) \/ Read(c) \/ ReadDone(c) \/ WriteBusy(c)
           \/ Reserve(c) \/ Pend(c) \/ Commit(c) \/ CommitBusy(c) \/ Return(c)
Next == Crash \/ Restart \/ \E c \in Caller : Call(c) \/ Step(c)

Spec == Init /\ [][Next]_vars
\* Every caller's process and the daemon's handler thread keep running.
FairSpec == Spec /\ \A c \in Caller : WF_vars(Step(c))
-----------------------------------------------------------------------------
\* Every variable has its type: in particular no row is ever stored with the
\* timestamp 0 a caller passes for "now" (datastore.cpp:132).
TypeOK ==
  /\ rows \in [Key \cup MetaKey -> Row \cup {NoRow}]
  /\ \A k \in Key : rows[k].t # 0
  /\ stage \in [Caller -> Executing \cup {"idle", "sent", "answer"}]
  /\ call \in [Caller -> Request \cup {NoCall}]
  /\ got \in [Caller -> Reply \cup Row]
  /\ queue \in Seq(Remote)
  /\ up \in BOOLEAN

\* While a statement stands on a row (datastore.cpp:84-95 copies its columns
\* one by one), that row is still what the table holds, so value and timestamp
\* belong together; and two writers never both hold the file.
SnapshotHolds ==
  /\ \A c \in Caller : stage[c] = "shared" => got[c] \in Selected(rows, call[c])
  /\ \A c, d \in Caller : stage[c] \in {"reserved", "pending"}
                            /\ stage[d] \in {"reserved", "pending"} => c = d

\* The data store is one table: every write between its call and its return or
\* not at all, every read from one instant, failures only in the company of
\* another caller at work or of a daemon that stopped (TimedTable).
tableOut == [c \in Caller |-> IF stage[c] = "shared" THEN Found(call[c], got[c]) ELSE got[c]]
Table == INSTANCE TimedTable WITH out <- tableOut
ImplementsTable == Table!Spec

\* Every request is answered: no lock is waited for, the daemon takes its
\* queue in order, and a stopped daemon ends its clients' requests.
CallsEnd == \A c \in Caller : stage[c] # "idle" ~> stage[c] = "idle"
=============================================================================
