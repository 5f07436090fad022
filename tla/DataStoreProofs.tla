-------------------------- MODULE DataStoreProofs --------------------------
(***************************************************************************)
(* The types of the data store and the lock discipline, for any callers,   *)
(* requests, texts and limits.                                             *)
(***************************************************************************)
EXTENDS DataStore, TLAPS

\* A statement that stands on a row belongs to a read, a lock for writing to a
\* write; everywhere else got is an answer.
Linked ==
  /\ TypeOK
  /\ \A c \in Caller : stage[c] = "shared" => call[c] \in Reads /\ got[c] \in Row
  /\ \A c \in Caller : stage[c] # "shared" => got[c] \in Reply
  /\ \A c \in Caller : stage[c] \in {"reserved", "pending"} => call[c] \in Writes

LEMMA SelectedIsRow ==
  ASSUME NEW tbl \in [Key \cup MetaKey -> Row \cup {NoRow}], NEW q \in Reads
  PROVE  Selected(tbl, q) \subseteq Row
<1>1. CASE q.op \in {"first_timestamp", "last_timestamp"}
  BY <1>1 DEF Selected
<1>2. CASE q.op \notin {"first_timestamp", "last_timestamp"}
  <2>1. q.k \in Key \cup MetaKey
    BY <1>2 DEF Reads
  <2>2. Selected(tbl, q) = {tbl[q.k]} \ {NoRow}
    BY <1>2 DEF Selected
  <2> QED BY <2>1, <2>2
<1> QED BY <1>1, <1>2

LEMMA RepliesAreReplies ==
  ASSUME NEW q \in Reads
  PROVE  /\ Missing(q) \in Reply
         /\ \A r \in Row : Found(q, r) \in Reply
<1>1. Missing(q) \in Reply
  BY DsAssumption DEF Missing, Reply
<1>2. ASSUME NEW r \in Row PROVE Found(q, r) \in Reply
  <2>1. r.t \in -1..MaxTime
    BY DsAssumption DEF Row
  <2>2. CASE q.op \notin {"get", "get_meta"}
    BY <2>1, <2>2 DEF Found, Reply
  <2>3. CASE q.op \in {"get", "get_meta"} /\ Length[r.v] <= MaxValue - 1
    BY <2>3 DEF Found, Reply
  <2>4. CASE q.op \in {"get", "get_meta"} /\ ~(Length[r.v] <= MaxValue - 1)
    BY <2>4 DEF Found, Reply, Error
  <2> QED BY <2>2, <2>3, <2>4
<1> QED BY <1>1, <1>2

\* What REPLACE stores for a write is a row, dated unless it is metadata.
LEMMA WrittenIsRow ==
  ASSUME NEW q \in Writes, NEW r \in Written(q)
  PROVE  r \in Row /\ q.k \in Key \cup MetaKey /\ (q.k \in Key => r.t # 0)
<1>1. CASE q.op = "put"
  <2>1. q.v \in Value /\ q.k \in Key /\ q.t \in Stamp
    BY <1>1 DEF Writes
  <2>2. PICK t \in Int : r = [v |-> q.v, t |-> t] /\ t \in 1..MaxTime
    BY <1>1, <2>1, DsAssumption DEF Written
  <2> QED BY <2>1, <2>2, DsAssumption DEF Row
<1>2. CASE q.op = "put_meta"
  <2>1. q.v \in Value /\ q.k \in MetaKey
    BY <1>2 DEF Writes
  <2>2. r = [v |-> q.v, t |-> 0]
    BY <1>2 DEF Written
  <2> QED BY <2>1, <2>2, DsAssumption DEF Row
<1> QED BY <1>1, <1>2 DEF Writes

\* A crash turns some requests that remote callers have under way into errors.
LEMMA CrashLoses ==
  ASSUME Crash
  PROVE  \E lost \in SUBSET Remote :
           /\ \A c \in lost : stage[c] # "idle"
           /\ stage' = [c \in Caller |-> IF c \in lost THEN "answer" ELSE stage[c]]
           /\ got' = [c \in Caller |-> IF c \in lost THEN Error ELSE got[c]]
<1>1. PICK unsent \in SUBSET {c \in Remote : stage[c] = "answer"} :
        LET gone == unsent \cup {c \in Remote : stage[c] \in Executing \cup {"sent"}}
        IN  /\ stage' = [c \in Caller |-> IF c \in gone THEN "answer" ELSE stage[c]]
            /\ got' = [c \in Caller |-> IF c \in gone THEN Error ELSE got[c]]
  BY DEF Crash
<1> DEFINE lost == unsent \cup {c \in Remote : stage[c] \in Executing \cup {"sent"}}
<1>2. lost \in SUBSET Remote /\ \A c \in lost : stage[c] # "idle"
  BY DEF Executing
<1> WITNESS lost \in SUBSET Remote
<1> QED BY <1>1, <1>2

LEMMA LinkedInit == Init => Linked
<1> SUFFICES ASSUME Init PROVE Linked
  OBVIOUS
<1>1. NoRow.t = -1 /\ None \in Reply
  BY DEF NoRow, None, Reply
<1>2. TypeOK
  BY <1>1 DEF Init, TypeOK, Caller
<1> QED BY <1>1, <1>2 DEF Init, Linked

LEMMA LinkedStep == Linked /\ [Next]_vars => Linked'
<1> SUFFICES ASSUME Linked, [Next]_vars PROVE Linked'
  OBVIOUS
<1> USE DEF Linked, TypeOK
<1>0. {None, Done, Error} \subseteq Reply
  BY DEF Reply
<1>1. ASSUME NEW c \in Caller, Call(c) PROVE Linked'
  <2>1. PICK q \in Request : call' = [call EXCEPT ![c] = q]
    BY <1>1, CallersAssumption DEF Call, Caller
  <2>2. CASE Enter(c, "run") /\ UNCHANGED <<got, queue>>
    BY <1>1, <2>1, <2>2 DEF Call, Enter, Executing
  <2>3. CASE c \in Remote /\ Enter(c, "sent") /\ queue' = Append(queue, c) /\ UNCHANGED got
    <3>1. queue' \in Seq(Remote)
      BY <2>3
    <3> QED BY <1>1, <2>1, <2>3, <3>1 DEF Call, Enter, Executing
  <2>4. CASE Answer(c, Error) /\ UNCHANGED queue
    BY <1>0, <1>1, <2>1, <2>4 DEF Call, Enter, Answer, Executing
  <2> QED BY <1>1, <2>2, <2>3, <2>4 DEF Call
<1>2. ASSUME NEW c \in Caller, Take(c) PROVE Linked'
  BY <1>2 DEF Take, Enter, Executing
<1>3. ASSUME NEW c \in Caller, Refuse(c) PROVE Linked'
  BY <1>0, <1>3 DEF Refuse, Answer, Enter, Executing
<1>4. ASSUME NEW c \in Caller, ReadBusy(c) PROVE Linked'
  <2>1. Missing(call[c]) \in Reply
    BY <1>4, RepliesAreReplies DEF ReadBusy, Runs
  <2> QED BY <1>4, <2>1 DEF ReadBusy, Answer, Enter, Executing
<1>5. ASSUME NEW c \in Caller, Read(c) PROVE Linked'
  <2>1. call[c] \in Reads
    BY <1>5 DEF Read, Runs
  <2>2. CASE Answer(c, Missing(call[c]))
    <3>1. Missing(call[c]) \in Reply
      BY <2>1, RepliesAreReplies
    <3> QED BY <1>5, <2>2, <3>1 DEF Read, Answer, Enter, Executing
  <2>3. CASE \E r \in Selected(rows, call[c]) : Enter(c, "shared") /\ got' = [got EXCEPT ![c] = r]
    <3>1. Selected(rows, call[c]) \subseteq Row
      BY <2>1, SelectedIsRow
    <3> QED BY <1>5, <2>1, <2>3, <3>1 DEF Read, Enter, Executing
  <2> QED BY <1>5, <2>2, <2>3 DEF Read
<1>6. ASSUME NEW c \in Caller, ReadDone(c) PROVE Linked'
  <2>1. Found(call[c], got[c]) \in Reply
    BY <1>6, RepliesAreReplies DEF ReadDone
  <2> QED BY <1>6, <2>1 DEF ReadDone, Answer, Enter, Executing
<1>7. ASSUME NEW c \in Caller, WriteBusy(c) PROVE Linked'
  BY <1>0, <1>7 DEF WriteBusy, Answer, Enter, Executing
<1>8. ASSUME NEW c \in Caller, Reserve(c) PROVE Linked'
  BY <1>8 DEF Reserve, Runs, Enter, Executing
<1>9. ASSUME NEW c \in Caller, Pend(c) PROVE Linked'
  BY <1>9 DEF Pend, Enter, Executing
<1>10. ASSUME NEW c \in Caller, Commit(c) PROVE Linked'
  <2>1. PICK r \in Written(call[c]) : rows' = [rows EXCEPT ![call[c].k] = r]
    BY <1>10 DEF Commit
  <2>2. r \in Row /\ call[c].k \in Key \cup MetaKey /\ (call[c].k \in Key => r.t # 0)
    BY <1>10, WrittenIsRow DEF Commit
  <2>3. /\ rows' \in [Key \cup MetaKey -> Row \cup {NoRow}]
        /\ \A k \in Key : rows'[k].t # 0
    BY <2>1, <2>2
  <2> QED BY <1>0, <1>10, <2>3 DEF Commit, Answer, Enter, Executing
<1>11. ASSUME NEW c \in Caller, CommitBusy(c) PROVE Linked'
  BY <1>0, <1>11 DEF CommitBusy, Answer, Enter, Executing
<1>12. ASSUME NEW c \in Caller, Return(c) PROVE Linked'
  BY <1>0, <1>12 DEF Return, Enter, Executing
<1>13. ASSUME Crash PROVE Linked'
  <2>1. PICK lost \in SUBSET Remote :
          /\ stage' = [c \in Caller |-> IF c \in lost THEN "answer" ELSE stage[c]]
          /\ got' = [c \in Caller |-> IF c \in lost THEN Error ELSE got[c]]
    BY <1>13, CrashLoses
  <2>2. rows' = rows /\ call' = call /\ queue' = <<>> /\ up' = FALSE
    BY <1>13 DEF Crash
  <2>3. stage' \in [Caller -> Executing \cup {"idle", "sent", "answer"}]
    BY <2>1
  <2>4. Error \in Reply /\ "answer" \notin {"shared", "reserved", "pending"}
    BY <1>0
  <2>5. got' \in [Caller -> Reply \cup Row]
    BY <2>1, <2>4
  <2>6. queue' \in Seq(Remote)
    BY <2>2
  <2>7. TypeOK'
    BY <2>2, <2>3, <2>5, <2>6
  <2>8. \A c \in Caller : \/ stage'[c] = stage[c] /\ got'[c] = got[c]
                          \/ stage'[c] = "answer" /\ got'[c] = Error
    BY <2>1
  <2> HIDE DEF TypeOK
  <2> QED BY <2>2, <2>4, <2>7, <2>8
<1>14. ASSUME Restart PROVE Linked'
  BY <1>14 DEF Restart
<1>15. ASSUME UNCHANGED vars PROVE Linked'
  BY <1>15 DEF vars
<1> QED BY <1>1, <1>2, <1>3, <1>4, <1>5, <1>6, <1>7, <1>8, <1>9, <1>10, <1>11, <1>12,
           <1>13, <1>14, <1>15 DEF Next, Step

\* Whatever the callers ask for, every variable keeps its type; no data row is
\* ever stored with the timestamp 0 that stands for "now".
THEOREM DataStoreTypes == Spec => []TypeOK
<1>1. Linked => TypeOK
  BY DEF Linked
<1> QED BY LinkedInit, LinkedStep, <1>1, PTL DEF Spec

\* Most steps neither write a row nor take a lock.
LEMMA QuietStep ==
  ASSUME SnapshotHolds, UNCHANGED rows,
         \A c \in Caller : stage'[c] \in {"shared", "reserved", "pending"} =>
            /\ stage[c] = "shared" <=> stage'[c] = "shared"
            /\ stage[c] \in {"reserved", "pending"} <=> stage'[c] \in {"reserved", "pending"}
            /\ got'[c] = got[c] /\ call'[c] = call[c]
  PROVE  SnapshotHolds'
<1>1. ASSUME NEW c \in Caller, stage'[c] = "shared" PROVE got'[c] \in Selected(rows, call[c])'
  <2>1. got[c] \in Selected(rows, call[c])
    BY <1>1 DEF SnapshotHolds
  <2>2. got'[c] = got[c] /\ call'[c] = call[c]
    BY <1>1
  <2> QED BY <2>1, <2>2 DEF Selected
<1> QED BY <1>1 DEF SnapshotHolds

LEMMA SnapshotStep == Linked /\ SnapshotHolds /\ [Next]_vars => SnapshotHolds'
<1> SUFFICES ASSUME Linked, SnapshotHolds, [Next]_vars PROVE SnapshotHolds'
  OBVIOUS
<1> USE DEF Linked, TypeOK, Enter, Answer
<1>1. ASSUME NEW c \in Caller, Call(c) PROVE SnapshotHolds'
  BY <1>1, QuietStep DEF Call
<1>2. ASSUME NEW c \in Caller, Take(c) \/ Refuse(c) \/ ReadBusy(c) \/ ReadDone(c) \/ WriteBusy(c)
                                 \/ Pend(c) \/ CommitBusy(c) \/ Return(c)
      PROVE SnapshotHolds'
  BY <1>2, QuietStep DEF Take, Refuse, ReadBusy, ReadDone, WriteBusy, Pend, CommitBusy, Return
<1>3. ASSUME NEW c \in Caller, Read(c) PROVE SnapshotHolds'
  <2>1. CASE Answer(c, Missing(call[c]))
    BY <1>3, <2>1, QuietStep DEF Read
  <2>2. CASE \E r \in Selected(rows, call[c]) : Enter(c, "shared") /\ got' = [got EXCEPT ![c] = r]
    <3>1. ASSUME NEW d \in Caller, stage'[d] = "shared"
          PROVE  got'[d] \in Selected(rows, call[d])'
      <4>1. got'[d] \in Selected(rows, call[d])
        BY <1>3, <2>2, <3>1 DEF SnapshotHolds, Read
      <4> QED BY <1>3, <4>1 DEF Read, Selected
    <3> QED BY <1>3, <2>2, <3>1 DEF SnapshotHolds, Read
  <2> QED BY <1>3, <2>1, <2>2 DEF Read
<1>4. ASSUME NEW c \in Caller, Reserve(c) PROVE SnapshotHolds'
  <2>1. ASSUME NEW d \in Caller, stage'[d] = "shared"
        PROVE  got'[d] \in Selected(rows, call[d])'
    <3>1. got[d] \in Selected(rows, call[d])
      BY <1>4, <2>1 DEF SnapshotHolds, Reserve
    <3> QED BY <1>4, <3>1 DEF Reserve, Selected
  <2> QED BY <1>4, <2>1 DEF SnapshotHolds, Reserve, Others, Executing
<1>5. ASSUME NEW c \in Caller, Commit(c) PROVE SnapshotHolds'
  <2>1. \A d \in Caller : stage'[d] # "shared"
    BY <1>5 DEF Commit, Others
  <2> QED BY <1>5, <2>1 DEF SnapshotHolds, Commit
<1>6. ASSUME Crash PROVE SnapshotHolds'
  BY <1>6, QuietStep DEF Crash
<1>7. ASSUME Restart \/ UNCHANGED vars PROVE SnapshotHolds'
  BY <1>7, QuietStep DEF Restart, vars
<1> QED BY <1>1, <1>2, <1>3, <1>4, <1>5, <1>6, <1>7 DEF Next, Step

\* A row a statement stands on stays in the table until the statement is done,
\* and no two callers hold the file for writing, however many there are.
THEOREM SnapshotsHold == Spec => []SnapshotHolds
<1>1. Init => SnapshotHolds
  BY DEF Init, SnapshotHolds
<1> QED BY <1>1, LinkedInit, LinkedStep, SnapshotStep, PTL DEF Spec
-----------------------------------------------------------------------------
\* What the refinement needs to know of got: empty until the request is
\* decided, and never for a write that data_store would have refused.
Matched ==
  /\ Linked
  /\ \A c \in Caller : stage[c] \notin {"shared", "answer"} => got[c] = None
  /\ \A c \in Caller : stage[c] = "answer" => got[c] # None
  /\ \A c \in Caller : stage[c] = "idle" <=> call[c] = NoCall
  /\ \A c \in Caller : stage[c] \in {"reserved", "pending"} => ~Refused(call[c])

LEMMA RepliesAreDecided ==
  ASSUME NEW q, NEW r
  PROVE  /\ Missing(q) # None /\ Found(q, r) # None
         /\ Done # None /\ Error # None
<1>1. Done # None /\ Error # None
  BY DEF Done, Error, None
<1>2. Missing(q) # None
  BY DEF Missing, None
<1>3. CASE q.op \notin {"get", "get_meta"}
  BY <1>1, <1>2, <1>3 DEF Found, None
<1>4. CASE q.op \in {"get", "get_meta"} /\ Length[r.v] <= MaxValue - 1
  BY <1>1, <1>2, <1>4 DEF Found, None
<1>5. CASE q.op \in {"get", "get_meta"} /\ ~(Length[r.v] <= MaxValue - 1)
  BY <1>1, <1>2, <1>5 DEF Found
<1> QED BY <1>3, <1>4, <1>5

LEMMA MatchedStep == Matched /\ [Next]_vars => Matched'
<1> SUFFICES ASSUME Matched, [Next]_vars PROVE Matched'
  OBVIOUS
<1>0. Linked' /\ Linked
  BY LinkedStep DEF Matched
<1>a. /\ stage \in [Caller -> Executing \cup {"idle", "sent", "answer"}]
      /\ DOMAIN call = Caller /\ DOMAIN got = Caller
  BY <1>0 DEF Linked, TypeOK
<1> USE DEF Matched, Enter, Answer
<1>1. ASSUME NEW c \in Caller, Call(c) PROVE Matched'
  <2>1. PICK q \in Request : call' = [call EXCEPT ![c] = q]
    BY <1>1, CallersAssumption DEF Call, Caller
  <2>2. q # NoCall
    BY DEF Request, Reads, Writes, NoCall
  <2> QED BY <1>0, <1>a, <1>1, <2>1, <2>2, RepliesAreDecided DEF Call, Caller
<1>2. ASSUME NEW c \in Caller, Take(c) \/ Pend(c) PROVE Matched'
  BY <1>0, <1>a, <1>2 DEF Take, Pend
<1>3. ASSUME NEW c \in Caller, Reserve(c) PROVE Matched'
  BY <1>0, <1>a, <1>3 DEF Reserve, Runs
<1>4. ASSUME NEW c \in Caller,
             Refuse(c) \/ ReadBusy(c) \/ ReadDone(c) \/ WriteBusy(c) \/ Commit(c) \/ CommitBusy(c)
      PROVE  Matched'
  BY <1>0, <1>a, <1>4, RepliesAreDecided
     DEF Refuse, ReadBusy, ReadDone, WriteBusy, Commit, CommitBusy, Runs
<1>5. ASSUME NEW c \in Caller, Read(c) PROVE Matched'
  BY <1>0, <1>a, <1>5, RepliesAreDecided DEF Read, Runs
<1>6. ASSUME NEW c \in Caller, Return(c) PROVE Matched'
  BY <1>0, <1>a, <1>6 DEF Return
<1>7. ASSUME Crash PROVE Matched'
  <2>1. PICK lost \in SUBSET Remote :
          /\ \A c \in lost : stage[c] # "idle"
          /\ stage' = [c \in Caller |-> IF c \in lost THEN "answer" ELSE stage[c]]
          /\ got' = [c \in Caller |-> IF c \in lost THEN Error ELSE got[c]]
    BY <1>7, CrashLoses
  <2>2. call' = call
    BY <1>7 DEF Crash
  <2>3. \A c \in Caller : \/ stage'[c] = stage[c] /\ got'[c] = got[c]
                          \/ stage[c] # "idle" /\ stage'[c] = "answer" /\ got'[c] = Error
    BY <2>1
  <2> QED BY <1>0, <2>2, <2>3, RepliesAreDecided
<1>8. ASSUME Restart \/ UNCHANGED vars PROVE Matched'
  BY <1>0, <1>8 DEF Restart, vars
<1> QED BY <1>1, <1>2, <1>3, <1>4, <1>5, <1>6, <1>7, <1>8 DEF Next, Step

\* The table's instance reads the requests as the data store does.
LEMMA SameRequests ==
  /\ Table!Caller = Caller
  /\ Table!NoCall = NoCall /\ Table!None = None /\ Table!Done = Done /\ Table!Error = Error
  /\ Table!NoRow = NoRow
  /\ Table!Reads = Reads /\ Table!Writes = Writes
  /\ \A q : Table!Refused(q) <=> Refused(q)
  /\ \A q : Table!Missing(q) = Missing(q) /\ Table!Written(q) = Written(q)
  /\ \A q, r : Table!Found(q, r) = Found(q, r)
  /\ \A tbl, q : Table!Selected(tbl, q) = Selected(tbl, q)
<1>1. Table!Caller = Caller
  BY DEF Table!Caller, Caller
<1>2. /\ Table!NoCall = NoCall /\ Table!None = None /\ Table!Done = Done /\ Table!Error = Error
      /\ Table!NoRow = NoRow
  BY DEF Table!NoCall, NoCall, Table!None, None, Table!Done, Done, Table!Error, Error,
         Table!NoRow, NoRow
<1>3. Table!Reads = Reads /\ Table!Writes = Writes
  BY DEF Table!Reads, Reads, Table!Writes, Writes
<1>4. ASSUME NEW q PROVE Table!Refused(q) <=> Refused(q)
  BY DEF Table!Refused, Refused, Table!ClientRefuses, ClientRefuses, Table!ValidKey, ValidKey,
         Table!ValidValue, ValidValue, Table!ValidMetaKey, ValidMetaKey
<1>5. ASSUME NEW q PROVE Table!Missing(q) = Missing(q) /\ Table!Written(q) = Written(q)
  BY DEF Table!Missing, Missing, Table!Written, Written
<1>6. ASSUME NEW q, NEW r PROVE Table!Found(q, r) = Found(q, r)
  BY <1>2 DEF Table!Found, Found
<1>7. ASSUME NEW tbl, NEW q PROVE Table!Selected(tbl, q) = Selected(tbl, q)
  BY <1>2 DEF Table!Selected, Selected
<1> QED BY <1>1, <1>2, <1>3, <1>4, <1>5, <1>6, <1>7

\* Each step of the data store is a step of the table or leaves it alone.
LEMMA TableStep == Matched /\ Matched' /\ [Next]_vars => [Table!Next]_Table!vars
<1> SUFFICES ASSUME Matched, Matched', [Next]_vars PROVE [Table!Next]_Table!vars
  OBVIOUS
<1>a. /\ stage \in [Caller -> Executing \cup {"idle", "sent", "answer"}]
      /\ DOMAIN call = Caller /\ DOMAIN got = Caller
  BY DEF Matched, Linked, TypeOK
<1> USE SameRequests DEF Enter, Answer
<1> DEFINE Out(s, q, g) == IF s = "shared" THEN Found(q, g) ELSE g
<1>c. /\ tableOut = [d \in Caller |-> Out(stage[d], call[d], got[d])]
      /\ tableOut' = [d \in Caller |-> Out(stage'[d], call'[d], got'[d])]
  BY DEF tableOut
<1>d. ASSUME NEW c \in Caller, NEW reply, Answer(c, reply), UNCHANGED call
      PROVE  tableOut' = [tableOut EXCEPT ![c] = reply]
  BY <1>a, <1>c, <1>d
<1>1. ASSUME NEW c \in Caller, Call(c) PROVE Table!Call(c)
  <2>1. call[c] = NoCall
    BY <1>1 DEF Call, Matched
  <2>2. PICK q \in Asks[c] : call' = [call EXCEPT ![c] = q]
    BY <1>1 DEF Call
  <2>3. CASE UNCHANGED got /\ stage'[c] # "shared"
    <3>1. \A d \in Caller : Out(stage'[d], call'[d], got'[d]) = Out(stage[d], call[d], got[d])
      BY <1>1, <1>a, <2>2, <2>3 DEF Call
    <3>2. UNCHANGED tableOut
      BY <1>c, <3>1
    <3> QED BY <1>1, <2>1, <2>2, <3>2 DEF Call, Table!Call
  <2>4. CASE c \in Remote /\ Answer(c, Error)
    <3>1. \A d \in Caller \ {c} : Out(stage'[d], call'[d], got'[d]) = Out(stage[d], call[d], got[d])
      BY <1>a, <2>2, <2>4
    <3>2. Out(stage'[c], call'[c], got'[c]) = Error
      BY <1>a, <2>4
    <3>3. tableOut' = [tableOut EXCEPT ![c] = Error]
      BY <1>c, <3>1, <3>2
    <3> QED BY <1>1, <2>1, <2>2, <2>4, <3>3 DEF Call, Table!Call, Table!Decide
  <2> QED BY <1>1, <1>a, <2>3, <2>4 DEF Call
<1>2. ASSUME NEW c \in Caller, Take(c) \/ Reserve(c) \/ Pend(c) \/ ReadDone(c)
      PROVE  UNCHANGED Table!vars
  <2>1. \A d \in Caller : Out(stage'[d], call'[d], got'[d]) = Out(stage[d], call[d], got[d])
    BY <1>2, <1>a DEF Take, Reserve, Runs, Pend, ReadDone, Matched
  <2> QED BY <1>2, <1>c, <2>1 DEF Take, Reserve, Pend, ReadDone, Table!vars
<1>e. ASSUME NEW c \in Caller, stage[c] \in {"run", "reserved", "pending"} PROVE Table!Undecided(c)
  BY <1>c, <1>e DEF Matched, Table!Undecided
<1>3. ASSUME NEW c \in Caller, Refuse(c) \/ WriteBusy(c) \/ CommitBusy(c) PROVE Table!Fail(c)
  <2>1. Table!Undecided(c) /\ UNCHANGED <<rows, call>> /\ Table!Decide(c, Error)
    BY <1>3, <1>d, <1>e DEF Refuse, WriteBusy, CommitBusy, Runs, Table!Decide
  <2>2. CASE Refuse(c)
    BY <2>1, <2>2 DEF Refuse, Table!Fail
  <2>3. CASE WriteBusy(c) \/ CommitBusy(c)
    <3>1. call[c] \in Writes
      BY <2>3 DEF WriteBusy, CommitBusy, Runs, Matched, Linked
    <3>2. PICK d \in Caller \ {c} : stage[d] \in {"shared", "reserved", "pending"}
      BY <2>3 DEF WriteBusy, CommitBusy, Others
    <3>3. call[d] # NoCall
      BY <3>2 DEF Matched
    <3> QED BY <2>1, <3>1, <3>2, <3>3 DEF Table!Fail, Table!OthersAtWork
  <2> QED BY <1>3, <2>2, <2>3
<1>4. ASSUME NEW c \in Caller, ReadBusy(c) \/ Read(c) PROVE Table!Read(c)
  <2>1. Table!Undecided(c) /\ call[c] \in Reads /\ ~Refused(call[c]) /\ UNCHANGED <<rows, call>>
    BY <1>4, <1>e DEF ReadBusy, Read, Runs
  <2>2. CASE ReadBusy(c)
    <3>1. Table!Decide(c, Missing(call[c]))
      BY <1>d, <2>2 DEF ReadBusy, Table!Decide
    <3>2. PICK d \in Caller \ {c} : stage[d] = "pending"
      BY <2>2 DEF ReadBusy, Others
    <3>3. Table!OthersWrite(c)
      BY <1>e, <3>2 DEF Table!OthersWrite, Matched, Linked
    <3> QED BY <2>1, <3>1, <3>3 DEF Table!Read
  <2>3. CASE Selected(rows, call[c]) = {} /\ Answer(c, Missing(call[c]))
    BY <1>d, <2>1, <2>3 DEF Table!Read, Table!Decide
  <2>4. ASSUME NEW r \in Selected(rows, call[c]), Enter(c, "shared"), got' = [got EXCEPT ![c] = r]
        PROVE  Table!Read(c)
    <3>1. \A d \in Caller \ {c} : Out(stage'[d], call'[d], got'[d]) = Out(stage[d], call[d], got[d])
      BY <1>a, <2>1, <2>4
    <3>2. Out(stage'[c], call'[c], got'[c]) = Found(call[c], r)
      BY <1>a, <2>1, <2>4
    <3>3. tableOut' = [tableOut EXCEPT ![c] = Found(call[c], r)]
      BY <1>c, <3>1, <3>2
    <3> QED BY <2>1, <2>4, <3>3 DEF Table!Read, Table!Decide
  <2> QED BY <1>4, <2>2, <2>3, <2>4 DEF Read
<1>5. ASSUME NEW c \in Caller, Commit(c) PROVE Table!Write(c)
  <2>1. Table!Undecided(c) /\ call[c] \in Writes /\ ~Refused(call[c])
    BY <1>5, <1>e DEF Commit, Matched, Linked
  <2>2. Table!Decide(c, Done)
    BY <1>5, <1>d DEF Commit, Table!Decide
  <2> QED BY <1>5, <2>1, <2>2 DEF Commit, Table!Write
<1>6. ASSUME NEW c \in Caller, Return(c) PROVE Table!Return(c)
  <2>1. call[c] # NoCall /\ tableOut[c] # None
    BY <1>6, <1>c DEF Return, Matched
  <2>2. \A d \in Caller \ {c} : Out(stage'[d], call'[d], got'[d]) = Out(stage[d], call[d], got[d])
    BY <1>6, <1>a DEF Return
  <2>3. Out(stage'[c], call'[c], got'[c]) = None
    BY <1>6, <1>a DEF Return
  <2>4. tableOut' = [tableOut EXCEPT ![c] = None]
    BY <1>c, <2>2, <2>3
  <2> QED BY <1>6, <2>1, <2>4 DEF Return, Table!Return, Table!Decide
<1>7. ASSUME Crash PROVE Table!Outage
  <2>1. PICK lost \in SUBSET Remote :
          /\ \A c \in lost : stage[c] # "idle"
          /\ stage' = [c \in Caller |-> IF c \in lost THEN "answer" ELSE stage[c]]
          /\ got' = [c \in Caller |-> IF c \in lost THEN Error ELSE got[c]]
    BY <1>7, CrashLoses
  <2>2. lost \in SUBSET {c \in Remote : call[c] # NoCall}
    BY <2>1 DEF Matched, Caller
  <2>3. UNCHANGED <<rows, call>>
    BY <1>7 DEF Crash
  <2>4. \A c \in Caller : Out(stage'[c], call'[c], got'[c])
                          = IF c \in lost THEN Error ELSE Out(stage[c], call[c], got[c])
    BY <2>1, <2>3
  <2>5. tableOut' = [c \in Caller |-> IF c \in lost THEN Error ELSE tableOut[c]]
    BY <1>c, <2>4
  <2> QED BY <2>2, <2>3, <2>5 DEF Table!Outage
<1>8. ASSUME Restart \/ UNCHANGED vars PROVE UNCHANGED Table!vars
  BY <1>8 DEF Restart, vars, Table!vars, tableOut
<1> QED BY <1>1, <1>2, <1>3, <1>4, <1>5, <1>6, <1>7, <1>8 DEF Next, Step, Table!Next

\* For every set of callers and requests, every text and every limit: the data
\* store behaves as one table (TimedTable), locks, busy errors, the daemon's
\* queue and its crashes included.
THEOREM TableImplemented == Spec => ImplementsTable
<1>1. Init => Matched
  <2> SUFFICES ASSUME Init PROVE Matched
    OBVIOUS
  <2> QED BY LinkedInit DEF Matched, Init
<1>2. Init => Table!Init
  BY SameRequests DEF Init, Table!Init, tableOut
<1> QED BY <1>1, <1>2, MatchedStep, TableStep, PTL DEF Spec, ImplementsTable, Table!Spec
=============================================================================
