---------------------------- MODULE Connection ----------------------------
(***************************************************************************)
(* MySqlDatabase: the one MySQL connection that all of Drogon's threads     *)
(* share, under mutex_.  query() is mysql_query and mysql_store_result,     *)
(* which are two conversations with the server; execute() is the first of   *)
(* them; quote() only needs the connection's character set.  The rows are   *)
(* model values; what the statements mean is the business of FileStore,     *)
(* Uploads and Sessions.                                                    *)
(***************************************************************************)
EXTENDS Naturals

CONSTANTS Threads,   \* Drogon's worker threads
          Rows,      \* what the database can hold
          Nobody,    \* the holder of a free mutex
          MaxCalls,  \* bound: calls made in a behaviour
          MaxFaults  \* bound: lost connections, refused statements, restarts

ASSUME NobodyAssumption == Nobody \notin Threads
ASSUME BoundsAssumption == {MaxCalls, MaxFaults} \subseteq Nat

VARIABLES table, up, call, answer, \* as in Statements
          holder,  \* mutex_: the thread that has it
          pc,      \* each thread: idle, waiting for the mutex, at mysql_query,
                   \* or at mysql_store_result
          pending, \* the result the server holds ready on the connection
          calls, faults \* bounds

client == <<call, answer>>
bounds == <<calls, faults>>
vars   == <<table, up, call, answer, holder, pc, pending, calls, faults>>

S == INSTANCE Statements

----------------------------------------------------------------------------
At(t, label) == pc[t] = label
Fault == faults < MaxFaults /\ faults' = faults + 1 /\ UNCHANGED calls

\* A handler calls query, execute or quote.  The quotes of a statement are
\* arguments, done before it is called.
Begin(t) ==
  /\ At(t, "idle") /\ calls < MaxCalls
  /\ S!Ask(t)
  /\ pc' = [pc EXCEPT ![t] = "lock"]
  /\ calls' = calls + 1
  /\ UNCHANGED <<holder, pending, faults>>

\* Faulty: no mutex.
PassLock(t) ==
  /\ At(t, "lock")
  /\ holder' = t
  /\ pc' = [pc EXCEPT ![t] = "run"]
  /\ UNCHANGED <<table, up, client, pending, bounds>>

Lock(t) ==
  /\ At(t, "lock") /\ holder = Nobody
  /\ holder' = t
  /\ pc' = [pc EXCEPT ![t] = "run"]
  /\ UNCHANGED <<table, up, client, pending, bounds>>

\* The lock_guard goes with the call, however it ends.
Return(t, a) ==
  /\ S!Answer(t, a)
  /\ holder' = Nobody
  /\ pc' = [pc EXCEPT ![t] = "idle"]
  /\ UNCHANGED pending

Quote(t) ==
  /\ At(t, "run") /\ call[t].op = "quote"
  /\ Return(t, S!Ok)
  /\ UNCHANGED <<table, up, bounds>>

Speaks(t) == At(t, "run") /\ call[t].op # "quote"

Execute(t) ==
  /\ Speaks(t) /\ up /\ call[t].op # "select"
  /\ table' = S!Apply(call[t], table)
  /\ Return(t, S!Ok)
  /\ UNCHANGED <<up, bounds>>

\* Faulty: the mutex is let go between the two halves of query().
QueryUnlocked(t) ==
  /\ Speaks(t) /\ up /\ call[t].op = "select"
  /\ pending' = table
  /\ holder' = Nobody
  /\ pc' = [pc EXCEPT ![t] = "store"]
  /\ UNCHANGED <<table, up, client, bounds>>

\* A SELECT: the server answers with the header and holds the rows ready.
Query(t) ==
  /\ Speaks(t) /\ up /\ call[t].op = "select"
  /\ pending' = table
  /\ pc' = [pc EXCEPT ![t] = "store"]
  /\ UNCHANGED <<table, up, client, holder, bounds>>

Fetch(t) ==
  /\ At(t, "store")
  /\ Return(t, S!Result(pending))
  /\ UNCHANGED <<table, up, bounds>>

\* Faulty: an exception leaves the mutex taken.
KeepLock(t) ==
  /\ Speaks(t) /\ ~up
  /\ S!Answer(t, S!Thrown)
  /\ pc' = [pc EXCEPT ![t] = "idle"]
  /\ UNCHANGED <<table, up, holder, pending, bounds>>

\* A connection once lost is not opened again: every later statement throws.
Gone(t) ==
  /\ Speaks(t) /\ ~up
  /\ Return(t, S!Thrown)
  /\ UNCHANGED <<table, up, bounds>>

\* The server refuses the statement, a duplicate or a foreign key.
Refuse(t) ==
  /\ Speaks(t) /\ up /\ call[t].op # "select" /\ Fault
  /\ Return(t, S!Thrown)
  /\ UNCHANGED <<table, up>>

\* mysql_query fails: the statement or the answer to it was lost.
LoseQuery(t) ==
  /\ Speaks(t) /\ up /\ Fault
  /\ up' = FALSE
  /\ table' \in {table, S!Apply(call[t], table)}
  /\ Return(t, S!Thrown)

\* mysql_store_result returns NULL, which query takes for a statement without rows: the
\* connection was lost, or the server cut the statement short, or no memory was left, and
\* the connection works on.
LoseResult(t) ==
  /\ At(t, "store") /\ Fault
  /\ up' \in {FALSE, up}
  /\ Return(t, S!Result({}))
  /\ UNCHANGED table

\* MySQL closes a connection that was idle too long, or stops.
Close ==
  /\ up /\ Fault
  /\ up' = FALSE
  /\ UNCHANGED <<table, client, holder, pc, pending>>

\* The server process is started again; main() and the constructor connect, or exit.
Restart ==
  /\ Fault
  /\ S!Start
  /\ holder' = Nobody
  /\ pc' = [t \in Threads |-> "idle"]
  /\ UNCHANGED pending

Step(t) == Lock(t) \/ Quote(t) \/ Execute(t) \/ Query(t) \/ Fetch(t) \/ Gone(t)

Quiet == calls = MaxCalls /\ \A t \in Threads : At(t, "idle")

Init == /\ S!Init
        /\ holder = Nobody
        /\ pc = [t \in Threads |-> "idle"]
        /\ pending = {}
        /\ calls = 0 /\ faults = 0

Next == \/ \E t \in Threads : Begin(t) \/ Step(t) \/ Refuse(t) \/ LoseQuery(t) \/ LoseResult(t)
        \/ Close \/ Restart
        \/ Quiet /\ UNCHANGED vars

\* The threads run, and the server answers or the connection fails.  A request makes
\* finitely many calls, so the mutex is free for good unless someone keeps it.
Fairness == \A t \in Threads : WF_vars(Step(t))

Spec     == Init /\ [][Next]_vars
FairSpec == Spec /\ Fairness

----------------------------------------------------------------------------
\* The type invariant.
TypeOK ==
  /\ table \subseteq Rows /\ pending \subseteq Rows
  /\ up \in BOOLEAN
  /\ call \in [Threads -> {S!NoCall} \cup S!Calls]
  /\ answer \in [Threads -> S!Answers]
  /\ holder \in Threads \cup {Nobody}
  /\ pc \in [Threads -> {"idle", "lock", "run", "store"}]
  /\ \A t \in Threads : call[t] = S!NoCall <=> pc[t] = "idle"
  /\ {calls, faults} \subseteq Nat

\* One thread at a time talks to MySQL, and the rows it is about to fetch are those
\* the database holds: no other statement comes between the two halves of query().
OneTalker ==
  /\ \A t \in Threads : pc[t] \in {"run", "store"} => holder = t
  /\ \A t \in Threads : pc[t] = "store" => call[t].op = "select" /\ pending = table

\* The inductive invariant: what the mutex is for (MySqlDatabase.cpp 43-46, 68).
ConnectionInv == TypeOK /\ OneTalker

\* Every call is a statement that takes effect at one moment, and none does on a
\* connection that was lost, which is not opened again (MySqlDatabase.cpp 43-49, 66-70,
\* 83-87); or it throws; or it is a SELECT without a result.
ImplementsStatements == S!Spec

\* Every call returns or throws: no thread waits for the mutex for ever.
Answered == \A t \in Threads : pc[t] = "lock" ~> pc[t] = "idle"
============================================================================
