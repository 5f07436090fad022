----------------------------- MODULE TimedTable -----------------------------
(***************************************************************************)
(* What the data store promises its callers, whatever process they are in: *)
(* one table of rows.  A write takes effect once, at one instant between   *)
(* its call and its return, and a read answers from the table of one such  *)
(* instant.  Two weaknesses are part of the promise because the code has   *)
(* them: nobody waits for a lock, so a call may fail, and a read may miss  *)
(* a row that is there, but only while another caller is at work; and a    *)
(* remote caller may hear of an error although its write took effect.      *)
(***************************************************************************)
EXTENDS DsRequests

CONSTANTS Local, Remote,  \* the callers
          Asks            \* the requests each of them may make

VARIABLES rows,  \* the stored row of each key, NoRow when it has none
          call,  \* the request each caller has under way
          out    \* the answer decided for it, None before it takes effect

vars == <<rows, call, out>>

Caller == Local \cup Remote

Init ==
  /\ rows = [k \in Key \cup MetaKey |-> NoRow]
  /\ call = [c \in Caller |-> NoCall]
  /\ out = [c \in Caller |-> None]

Undecided(c) == call[c] # NoCall /\ out[c] = None
OthersAtWork(c) == \E d \in Caller \ {c} : call[d] # NoCall
OthersWrite(c) == \E d \in Caller \ {c} : Undecided(d) /\ call[d] \in Writes

Decide(c, reply) == out' = [out EXCEPT ![c] = reply]

Call(c) ==
  /\ call[c] = NoCall
  /\ \E q \in Asks[c] : call' = [call EXCEPT ![c] = q]
  /\ \/ UNCHANGED out
     \/ c \in Remote /\ Decide(c, Error)
  /\ UNCHANGED rows

Read(c) ==
  /\ Undecided(c) /\ call[c] \in Reads /\ ~Refused(call[c])
  /\ LET found == Selected(rows, call[c])
     IN  \/ found = {} /\ Decide(c, Missing(call[c]))
         \/ \E r \in found : Decide(c, Found(call[c], r))
         \/ OthersWrite(c) /\ Decide(c, Missing(call[c]))
  /\ UNCHANGED <<rows, call>>

Write(c) ==
  /\ Undecided(c) /\ call[c] \in Writes /\ ~Refused(call[c])
  /\ \E r \in Written(call[c]) : rows' = [rows EXCEPT ![call[c].k] = r]
  /\ Decide(c, Done)
  /\ UNCHANGED call

Fail(c) ==
  /\ Undecided(c)
  /\ Refused(call[c]) \/ (call[c] \in Writes /\ OthersAtWork(c))
  /\ Decide(c, Error)
  /\ UNCHANGED <<rows, call>>

Outage ==
  /\ \E lost \in SUBSET {c \in Remote : call[c] # NoCall} :
       out' = [c \in Caller |-> IF c \in lost THEN Error ELSE out[c]]
  /\ UNCHANGED <<rows, call>>

\* The caller is told out[c].
Return(c) ==
  /\ call[c] # NoCall /\ out[c] # None
  /\ call' = [call EXCEPT ![c] = NoCall]
  /\ Decide(c, None)
  /\ UNCHANGED rows

Next == Outage \/ \E c \in Caller : Call(c) \/ Read(c) \/ Write(c) \/ Fail(c) \/ Return(c)

Spec == Init /\ [][Next]_vars
=============================================================================
