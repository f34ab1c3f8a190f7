-------------------------- MODULE ConnectionProofs --------------------------
(***************************************************************************)
(* MySqlDatabase keeps what Statements promises, with any number of threads *)
(* and whatever is lost: the mutex makes the two halves of query() one, and *)
(* nothing takes effect on a connection that was lost.                      *)
(***************************************************************************)
EXTENDS Connection, TLAPS

LEMMA InitInv == Init => ConnectionInv
  BY BoundsAssumption, NobodyAssumption
  DEF Init, ConnectionInv, TypeOK, OneTalker, S!Init, S!NoCall, S!Ok, S!Answers, S!Calls

\* The answers and the rows a call can leave are of their types.
LEMMA ApplyRows ==
  ASSUME NEW c \in S!Calls, NEW T \in SUBSET Rows
  PROVE  S!Apply(c, T) \in SUBSET Rows
  BY DEF S!Apply, S!Calls

LEMMA ReturnTyped ==
  ASSUME ConnectionInv, NEW t \in Threads, NEW a \in S!Answers, Return(t, a)
  PROVE  /\ call' \in [Threads -> {S!NoCall} \cup S!Calls]
         /\ answer' \in [Threads -> S!Answers]
         /\ pc' \in [Threads -> {"idle", "lock", "run", "store"}]
         /\ holder' \in Threads \cup {Nobody} /\ pending' \subseteq Rows
         /\ \A u \in Threads : call'[u] = S!NoCall <=> pc'[u] = "idle"
         /\ \A u \in Threads : u # t => pc'[u] = pc[u] /\ call'[u] = call[u]
         /\ pc'[t] = "idle"
  BY DEF ConnectionInv, TypeOK, Return, S!Answer

\* Whoever returns held the mutex, so nobody else was talking.
LEMMA ReturnAlone ==
  ASSUME ConnectionInv, NEW t \in Threads, pc[t] \in {"run", "store"},
         NEW a \in S!Answers, Return(t, a)
  PROVE  OneTalker'
  <1>1. \A u \in Threads : u # t => pc[u] \notin {"run", "store"}
    BY NobodyAssumption DEF ConnectionInv, OneTalker
  <1>2. \A u \in Threads : pc'[u] \notin {"run", "store"}
    BY <1>1, ReturnTyped
  <1> QED BY <1>2 DEF OneTalker

LEMMA AnswersTyped ==
  /\ S!Ok \in S!Answers /\ S!Thrown \in S!Answers
  /\ \A T \in SUBSET Rows : S!Result(T) \in S!Answers
  BY DEF S!Ok, S!Thrown, S!Answers, S!Result

LEMMA SpeaksCall ==
  ASSUME ConnectionInv, NEW t \in Threads, pc[t] # "idle"
  PROVE  call[t] \in S!Calls /\ call[t] # S!NoCall
  BY DEF ConnectionInv, TypeOK

LEMMA NextInv ==
  ASSUME ConnectionInv, [Next]_vars
  PROVE  ConnectionInv'
  <1> USE AnswersTyped
  <1>1. ASSUME NEW t \in Threads, Begin(t) PROVE ConnectionInv'
    BY <1>1, BoundsAssumption
    DEF Begin, At, S!Ask, ConnectionInv, TypeOK, OneTalker, S!NoCall, S!Calls
  <1>2. ASSUME NEW t \in Threads, Lock(t) PROVE ConnectionInv'
    BY <1>2, NobodyAssumption DEF Lock, At, ConnectionInv, TypeOK, OneTalker, client, bounds
  <1>3. ASSUME NEW t \in Threads, Quote(t) PROVE ConnectionInv'
    <2>1. pc[t] = "run" /\ Return(t, S!Ok)
      BY <1>3 DEF Quote, At
    <2>2. OneTalker'
      BY <2>1, ReturnAlone
    <2> QED BY <1>3, <2>1, <2>2, ReturnTyped DEF Quote, ConnectionInv, TypeOK, bounds
  <1>4. ASSUME NEW t \in Threads, Execute(t) PROVE ConnectionInv'
    <2>1. pc[t] = "run" /\ Return(t, S!Ok)
      BY <1>4 DEF Execute, Speaks, At
    <2>2. OneTalker'
      BY <2>1, ReturnAlone
    <2>3. table' \subseteq Rows
      BY <1>4, <2>1, SpeaksCall, ApplyRows DEF Execute, ConnectionInv, TypeOK
    <2> QED BY <1>4, <2>1, <2>2, <2>3, ReturnTyped DEF Execute, ConnectionInv, TypeOK, bounds
  <1>5. ASSUME NEW t \in Threads, Query(t) PROVE ConnectionInv'
    <2>1. \A u \in Threads : u # t => pc[u] \notin {"run", "store"}
      BY <1>5, NobodyAssumption DEF Query, Speaks, At, ConnectionInv, OneTalker
    <2>2. OneTalker'
      BY <1>5, <2>1 DEF Query, Speaks, At, client, ConnectionInv, OneTalker, TypeOK
    <2> QED BY <1>5, <2>2, SpeaksCall DEF Query, Speaks, At, ConnectionInv, TypeOK, client, bounds
  <1>6. ASSUME NEW t \in Threads, Fetch(t) PROVE ConnectionInv'
    <2>1. pc[t] = "store" /\ Return(t, S!Result(pending)) /\ pending \subseteq Rows
      BY <1>6 DEF Fetch, At, ConnectionInv, TypeOK
    <2>2. OneTalker'
      BY <2>1, ReturnAlone
    <2> QED BY <1>6, <2>1, <2>2, ReturnTyped DEF Fetch, ConnectionInv, TypeOK, bounds
  <1>7. ASSUME NEW t \in Threads, Gone(t) PROVE ConnectionInv'
    <2>1. pc[t] = "run" /\ Return(t, S!Thrown)
      BY <1>7 DEF Gone, Speaks, At
    <2>2. OneTalker'
      BY <2>1, ReturnAlone
    <2> QED BY <1>7, <2>1, <2>2, ReturnTyped DEF Gone, ConnectionInv, TypeOK, bounds
  <1>8. ASSUME NEW t \in Threads, Refuse(t) PROVE ConnectionInv'
    <2>1. pc[t] = "run" /\ Return(t, S!Thrown)
      BY <1>8 DEF Refuse, Speaks, At
    <2>2. OneTalker'
      BY <2>1, ReturnAlone
    <2> QED BY <1>8, <2>1, <2>2, ReturnTyped DEF Refuse, Fault, ConnectionInv, TypeOK
  <1>9. ASSUME NEW t \in Threads, LoseQuery(t) PROVE ConnectionInv'
    <2>1. pc[t] = "run" /\ Return(t, S!Thrown)
      BY <1>9 DEF LoseQuery, Speaks, At
    <2>2. OneTalker'
      BY <2>1, ReturnAlone
    <2>3. table' \subseteq Rows
      BY <1>9, <2>1, SpeaksCall, ApplyRows DEF LoseQuery, ConnectionInv, TypeOK
    <2>4. up' \in BOOLEAN
      BY <1>9 DEF LoseQuery
    <2>5. calls' \in Nat /\ faults' \in Nat
      BY <1>9 DEF LoseQuery, Fault, ConnectionInv, TypeOK
    <2> QED BY <2>1, <2>2, <2>3, <2>4, <2>5, ReturnTyped DEF ConnectionInv, TypeOK
  <1>10. ASSUME NEW t \in Threads, LoseResult(t) PROVE ConnectionInv'
    <2>1. pc[t] = "store" /\ Return(t, S!Result({}))
      BY <1>10 DEF LoseResult, At
    <2>2. OneTalker'
      BY <2>1, ReturnAlone
    <2>3. up' \in BOOLEAN
      BY <1>10 DEF LoseResult, ConnectionInv, TypeOK
    <2>4. calls' \in Nat /\ faults' \in Nat /\ table' = table
      BY <1>10 DEF LoseResult, Fault, ConnectionInv, TypeOK
    <2> QED BY <2>1, <2>2, <2>3, <2>4, ReturnTyped DEF ConnectionInv, TypeOK
  <1>11. ASSUME Close PROVE ConnectionInv'
    <2>1. up' \in BOOLEAN
      BY <1>11 DEF Close
    <2>2. calls' \in Nat /\ faults' \in Nat
      BY <1>11 DEF Close, Fault, ConnectionInv, TypeOK
    <2>3. UNCHANGED <<table, client, holder, pc, pending>>
      BY <1>11 DEF Close
    <2> QED BY <2>1, <2>2, <2>3 DEF client, ConnectionInv, TypeOK, OneTalker
  <1>12. ASSUME Restart PROVE ConnectionInv'
    BY <1>12 DEF Restart, Fault, S!Start, ConnectionInv, TypeOK, OneTalker, S!NoCall, S!Calls
  <1>13. CASE UNCHANGED vars
    BY <1>13 DEF vars, ConnectionInv, TypeOK, OneTalker
  <1> QED
    BY <1>1, <1>2, <1>3, <1>4, <1>5, <1>6, <1>7, <1>8, <1>9, <1>10, <1>11, <1>12, <1>13
    DEF Next, Step

\* The mutex keeps the two halves of a query together, with any number of threads and
\* whatever fails (ConnectionInv).
THEOREM ConnectionInvHolds == Spec => []ConnectionInv
  BY InitInv, NextInv, PTL DEF Spec

----------------------------------------------------------------------------
LEMMA InitStatements == Init => S!Init
  BY DEF Init

\* Every step is one of Statements, or none: a query takes effect when its rows are
\* fetched, for they are still those of the database.
LEMMA StepStatements ==
  ASSUME ConnectionInv, [Next]_vars
  PROVE  [S!Next]_(S!vars)
  <1>1. ASSUME NEW t \in Threads, Begin(t) PROVE S!Next
    BY <1>1 DEF Begin, S!Next
  <1>2. ASSUME NEW t \in Threads, Lock(t) PROVE UNCHANGED S!vars
    BY <1>2 DEF Lock, client, S!vars
  <1>3. ASSUME NEW t \in Threads, Quote(t) PROVE S!Next
    <2>1. S!Escape(t)
      BY <1>3, SpeaksCall DEF Quote, At, Return, S!Escape
    <2> QED BY <2>1 DEF S!Next
  <1>4. ASSUME NEW t \in Threads, Execute(t) PROVE S!Next
    <2>1. call[t] # S!NoCall /\ call[t].op # "select"
      BY <1>4, SpeaksCall DEF Execute, Speaks, At, ConnectionInv
    <2>2. S!Take(t)
      BY <1>4, <2>1 DEF Execute, Return, S!Take, S!Honest
    <2> QED BY <2>2 DEF S!Next
  <1>5. ASSUME NEW t \in Threads, Query(t) PROVE UNCHANGED S!vars
    BY <1>5 DEF Query, client, S!vars
  <1>6. ASSUME NEW t \in Threads, Fetch(t) PROVE S!Next
    <2>1. call[t] # S!NoCall /\ call[t].op = "select" /\ pending = table
      BY <1>6, SpeaksCall DEF Fetch, At, ConnectionInv, OneTalker
    <2>2. S!Apply(call[t], table) = table
      BY <2>1 DEF S!Apply
    <2>3. S!Take(t)
      BY <1>6, <2>1, <2>2 DEF Fetch, Return, S!Take, S!Honest
    <2> QED BY <2>3 DEF S!Next
  <1>7. ASSUME NEW t \in Threads, Gone(t) \/ Refuse(t) \/ LoseQuery(t) PROVE S!Next
    <2>1. S!Throw(t)
      BY <1>7, SpeaksCall DEF Gone, Refuse, LoseQuery, Speaks, At, Return, S!Throw
    <2> QED BY <2>1 DEF S!Next
  <1>8. ASSUME NEW t \in Threads, LoseResult(t) PROVE S!Next
    <2>1. S!Mislead(t)
      BY <1>8, SpeaksCall DEF LoseResult, At, Return, S!Mislead, ConnectionInv, OneTalker
    <2> QED BY <2>1 DEF S!Next
  <1>9. CASE Close
    BY <1>9 DEF Close, client, S!Close, S!Next
  <1>10. CASE Restart
    BY <1>10 DEF Restart, S!Next
  <1>11. CASE UNCHANGED vars
    BY <1>11 DEF vars, S!vars
  <1> QED BY <1>1, <1>2, <1>3, <1>4, <1>5, <1>6, <1>7, <1>8, <1>9, <1>10, <1>11 DEF Next, Step

\* The shared connection does what MySqlDatabase promises (ImplementsStatements): with any
\* number of threads the calls are atomic statements, in spite of the two halves of query().
THEOREM StatementsImplemented == Spec => ImplementsStatements
  BY InitStatements, StepStatements, ConnectionInvHolds, PTL DEF Spec, ImplementsStatements, S!Spec
============================================================================
