--------------------------- MODULE UploadsProofs ---------------------------
(***************************************************************************)
(* Proofs about Uploads, for any number of threads, plans, pieces, requests *)
(* and faults.  UploadInv is inductive: a step keeps what the tables and    *)
(* the disk hold (Store), takes nothing away that another handler relies on *)
(* (NothingLost), and leaves its own handler knowing what it should.        *)
(***************************************************************************)
EXTENDS UploadsProps, FiniteSetTheorems, SequenceTheorems, TLAPS

\* UploadInv without the handlers.
Store == /\ TablesOK /\ DiskOK
         /\ ContentAsPlanned
         /\ ListedChunksThere
         /\ \A c \in chunkRows : c[2] < sessions[c[1]].plan.total

Handlers == pc \in [Threads -> Labels] /\ req \in [Threads -> Requests] /\ work \in [Threads -> Locals]

HandlerInv(t) == RequestOK(t) /\ Knows(t)

LEMMA Parts ==
  UploadInv <=> /\ Store /\ Handlers
                /\ \A t \in Threads : HandlerInv(t)
                /\ {issued, others, faults} \subseteq Nat /\ misled \in BOOLEAN
  BY DEF UploadInv, TypeOK, Store, Handlers, HandlerInv

\* The kinds of requests.
LEMMA RequestKinds ==
  ASSUME NEW t \in Threads, RequestOK(t)
  PROVE  /\ pc[t] \in Labels /\ req[t] \in Requests
         /\ pc[t] = "idle" <=> req[t].op = "none"
         /\ req[t].op = "none" => req[t] = NoRequest
         /\ req[t].op = "init" <=> req[t] \in InitReq /\ pc[t] \in InitLabels
         /\ req[t].op = "chunk" <=> req[t] \in ChunkReq /\ pc[t] \in ChunkLabels
         /\ req[t].op = "complete" <=> req[t] \in CompleteReq /\ pc[t] \in CompleteLabels
         /\ req[t].op \in {"none", "init", "chunk", "complete"}
  BY DEF RequestOK, InitReq, ChunkReq, CompleteReq, NoRequest, Labels, Requests,
         InitLabels, ChunkLabels, CompleteLabels

LEMMA PlanTypes ==
  ASSUME NEW p \in Plans
  PROVE  /\ p \in Plan /\ p.sha \in Seq(Pieces) /\ p.parent \in {0, Folder} /\ p.name \in Names
         /\ p.total \in Nat \ {0}
  BY PlansAssumption DEF Plan

\* A row of a session.
LEMMA SessionTypes ==
  ASSUME TablesOK, NEW id \in DOMAIN sessions
  PROVE  /\ sessions[id] \in Session /\ id \in Nat \ {0}
         /\ sessions[id].plan \in Plans
  <1>1. sessions \in Seq(Session) /\ DOMAIN sessions = 1 .. Len(sessions) /\ Len(sessions) \in Nat
    BY LenProperties DEF TablesOK
  <1>2. sessions[id] \in Session
    BY <1>1, ElementOfSeq
  <1> QED BY <1>1, <1>2 DEF Session

\* The plan of a handler is one of Plans.
LEMMA HandlerPlan ==
  ASSUME TablesOK, NEW t \in Threads, RequestOK(t), pc[t] # "idle"
  PROVE  PlanOf(t) \in Plans /\ (req[t].op # "init" => req[t].id \in DOMAIN sessions)
  <1>1. CASE req[t].op = "init"
    BY <1>1, RequestKinds DEF PlanOf, InitReq
  <1>2. CASE req[t].op = "chunk"
    <2>1. req[t] \in ChunkReq
      BY <1>2, RequestKinds
    <2> QED BY <1>2, <2>1, SessionTypes DEF PlanOf, ChunkReq
  <1>3. CASE req[t].op = "complete"
    <2>1. req[t] \in CompleteReq
      BY <1>3, RequestKinds
    <2> QED BY <1>3, <2>1, SessionTypes DEF PlanOf, CompleteReq
  <1> QED BY <1>1, <1>2, <1>3, RequestKinds

\* What a handler knows survives the steps of others.
LEMMA OthersKeep ==
  ASSUME TablesOK, NothingLost, NEW t \in Threads, HandlerInv(t),
         pc'[t] = pc[t], req'[t] = req[t], work'[t] = work[t]
  PROVE  HandlerInv(t)'
  <1>1. RequestOK(t)'
    BY DEF HandlerInv, RequestOK, InitReq, ChunkReq, CompleteReq, NothingLost
  <1>2. CASE pc[t] = "idle"
    BY <1>1, <1>2, RequestKinds DEF HandlerInv, Knows
  <1>3. CASE req[t].op = "init"
    <2>1. pc[t] \in InitLabels /\ PlanOf(t)' = PlanOf(t)
      BY <1>3, RequestKinds DEF HandlerInv, PlanOf
    <2> QED BY <1>1, <1>3, <2>1 DEF HandlerInv, Knows, InitLabels
  <1>4. CASE pc[t] # "idle" /\ req[t].op # "init"
    <2>1. req[t].id \in DOMAIN sessions /\ PlanOf(t)' = PlanOf(t)
      BY <1>4, HandlerPlan DEF HandlerInv, PlanOf, NothingLost
    <2>2. /\ sessions'[req[t].id].status = "uploading" => Uploading(req[t].id)
          /\ ChunkOf(t)' = ChunkOf(t) /\ ChunkOf(t)[1] = req[t].id
      BY <2>1 DEF NothingLost, ChunkOf
    <2>3. pc[t] \in {"fill", "record"} /\ sessions'[req[t].id].status = "uploading"
            => ChunkOf(t) \in DOMAIN temp'
      <3>1. SUFFICES ASSUME pc[t] \in {"fill", "record"}, sessions'[req[t].id].status = "uploading"
                     PROVE  ChunkOf(t) \in DOMAIN temp'
        OBVIOUS
      <3>2. ChunkOf(t) \in DOMAIN temp
        BY <3>1, <2>2 DEF HandlerInv, Knows
      <3> QED BY <3>1, <3>2, <2>2 DEF NothingLost
    <2>4. req[t].op = "complete" /\ pc[t] \in {"mkdir", "merge"}
            => \A i \in 0 .. PlanOf(t).total - 1 : <<req[t].id, i>> \in chunkRows'
      BY DEF HandlerInv, Knows, NothingLost
    <2>5. pc[t] = "rmdir" => sessions'[req[t].id].status # "uploading"
      BY <2>2 DEF HandlerInv, Knows
    <2> QED BY <1>1, <2>1, <2>2, <2>3, <2>4, <2>5 DEF HandlerInv, Knows, Uploading
  <1> QED BY <1>2, <1>3, <1>4

----------------------------------------------------------------------------
\* The steps that write neither tables nor disk keep Store.
LEMMA UnchangedStore ==
  ASSUME Store, UNCHANGED <<tables, disk>>
  PROVE  Store' /\ NothingLost
  BY DEF Store, NothingLost, tables, disk, TablesOK, DiskOK, ContentAsPlanned, ListedChunksThere, Uploading

BoundsOK == {issued, others, faults} \subseteq Nat /\ misled \in BOOLEAN

\* Only t's handler moves.
Moves(t) == /\ pc'   = [pc EXCEPT ![t] = pc'[t]]
            /\ req'  = [req EXCEPT ![t] = req'[t]]
            /\ work' = [work EXCEPT ![t] = work'[t]]

LEMMA HandlerMoves ==
  ASSUME UploadInv, NEW t \in Threads, Moves(t), work'[t] \in Locals, HandlerInv(t)',
         Store', NothingLost, BoundsOK'
  PROVE  UploadInv' /\ NothingLost
  <1>1. Store /\ Handlers /\ \A s \in Threads : HandlerInv(s)
    BY Parts
  <1>2. ASSUME NEW s \in Threads PROVE HandlerInv(s)'
    <2>1. CASE s = t
      BY <2>1
    <2>2. CASE s # t
      <3>1. pc'[s] = pc[s] /\ req'[s] = req[s] /\ work'[s] = work[s]
        BY <1>1, <2>2 DEF Moves, Handlers
      <3> QED BY <1>1, <3>1, OthersKeep DEF Store
    <2> QED BY <2>1, <2>2
  <1>3. pc'[t] \in Labels /\ req'[t] \in Requests'
    BY RequestKinds DEF HandlerInv, RequestOK, Labels, Requests
  <1>4. Requests \subseteq Requests'
    BY DEF Requests, InitReq, ChunkReq, CompleteReq, NothingLost
  <1>5. pc' \in [Threads -> Labels] /\ work' \in [Threads -> Locals]
    BY <1>1, <1>3 DEF Moves, Handlers
  <1>6. req' \in [Threads -> Requests']
    BY <1>1, <1>3, <1>4 DEF Moves, Handlers
  <1> QED BY <1>2, <1>5, <1>6, Parts DEF Handlers, Store, BoundsOK, UploadInv, TypeOK, HandlerInv

\* A handler that answers, fails or is abandoned.
LEMMA HandlerLeaves ==
  ASSUME UploadInv, NEW t \in Threads, Abandon(t), Store', NothingLost, BoundsOK'
  PROVE  UploadInv' /\ NothingLost
  <1>1. Handlers
    BY Parts
  <1>2. pc'[t] = "idle" /\ req'[t] = NoRequest /\ work'[t] = <<>> /\ Moves(t)
    BY <1>1 DEF Abandon, Handlers, Moves
  <1>3. work'[t] \in Locals
    BY <1>2 DEF Locals
  <1>4. HandlerInv(t)'
    BY <1>2 DEF HandlerInv, RequestOK, Knows, NoRequest
  <1> QED BY <1>2, <1>3, <1>4, HandlerMoves

\* A handler that goes on to another label with the same request.
LEMMA HandlerGoesOn ==
  ASSUME UploadInv, NEW t \in Threads, NEW label, pc' = [pc EXCEPT ![t] = label], req' = req,
         work' = [work EXCEPT ![t] = work'[t]], work'[t] \in Locals,
         HandlerInv(t)', Store', NothingLost, BoundsOK'
  PROVE  UploadInv' /\ NothingLost
  <1>1. Handlers
    BY Parts
  <1>2. Moves(t)
    BY <1>1 DEF Moves, Handlers
  <1> QED BY <1>2, HandlerMoves

----------------------------------------------------------------------------
LEMMA JustGoes ==
  ASSUME UploadInv, NEW t \in Threads, NEW label, Goto(t, label),
         UNCHANGED <<tables, disk, work>>, HandlerInv(t)'
  PROVE  UploadInv' /\ NothingLost
  <1>1. Store' /\ NothingLost
    BY Parts, UnchangedStore
  <1>2. work' = [work EXCEPT ![t] = work'[t]] /\ work'[t] \in Locals
    BY Parts DEF Handlers
  <1>3. BoundsOK'
    BY Parts DEF BoundsOK, Goto, bounds
  <1> QED BY <1>1, <1>2, <1>3, HandlerGoesOn DEF Goto

LEMMA JustReplies ==
  ASSUME UploadInv, NEW t \in Threads, Reply(t), UNCHANGED <<tables, disk>>
  PROVE  UploadInv' /\ NothingLost
  <1>1. Store' /\ NothingLost
    BY Parts, UnchangedStore
  <1>2. BoundsOK'
    BY Parts DEF BoundsOK, Reply, bounds
  <1> QED BY <1>1, <1>2, HandlerLeaves DEF Reply

\* What is known of t's handler, by its label and its request.
LEMMA Known ==
  ASSUME UploadInv, NEW t \in Threads
  PROVE  /\ Store /\ TablesOK /\ DiskOK /\ Handlers /\ RequestOK(t) /\ Knows(t)
         /\ work[t] \in Locals /\ pc[t] \in Labels
  BY Parts DEF HandlerInv, Store, Handlers

\* The steps of init that only ask.
LEMMA InitAsks ==
  ASSUME UploadInv, NEW t \in Threads, NEW label \in InitLabels, req[t].op = "init",
         Goto(t, label), UNCHANGED <<tables, disk, work>>
  PROVE  UploadInv' /\ NothingLost
  <1>1. req[t] \in InitReq
    BY Known, RequestKinds
  <1>2. pc'[t] = label /\ req'[t] = req[t]
    BY Known DEF Goto, Handlers
  <1>3. RequestOK(t)'
    BY <1>1, <1>2 DEF RequestOK, InitReq
  <1>4. Knows(t)'
    BY <1>2 DEF Knows, InitLabels
  <1> QED BY <1>3, <1>4, JustGoes DEF HandlerInv

\* The operation a label tells.
LEMMA LabelOps ==
  ASSUME UploadInv, NEW t \in Threads
  PROVE  /\ pc[t] \in {"parent", "object", "find", "insert"} => req[t].op = "init"
         /\ pc[t] \in {"write", "fill", "record"} => req[t].op = "chunk"
         /\ pc[t] \in {"count", "merge", "check", "create", "mark", "rmdir"} => req[t].op = "complete"
         /\ pc[t] = "name" => req[t].op \in {"init", "complete"}
         /\ pc[t] \in {"session", "mkdir"} => req[t].op \in {"chunk", "complete"}
  <1>1. RequestOK(t)
    BY Known
  <1>2. /\ req[t].op = "none" => pc[t] = "idle"
        /\ req[t].op = "init" => pc[t] \in InitLabels
        /\ req[t].op = "chunk" => pc[t] \in ChunkLabels
        /\ req[t].op = "complete" => pc[t] \in CompleteLabels
        /\ req[t].op \in {"none", "init", "chunk", "complete"}
    BY <1>1, RequestKinds
  <1> QED BY <1>2 DEF InitLabels, ChunkLabels, CompleteLabels

LEMMA InitSteps ==
  ASSUME UploadInv, NEW t \in Threads,
         \/ CheckParent(t) \/ CheckObject(t) \/ FindSession(t)
         \/ CheckName(t) /\ req[t].op = "init"
  PROVE  UploadInv' /\ NothingLost
  <1>1. req[t].op = "init"
    BY LabelOps DEF CheckParent, CheckObject, FindSession, At
  <1>2. CASE CheckParent(t)
    BY <1>1, <1>2, InitAsks, JustReplies DEF CheckParent, InitLabels
  <1>3. CASE CheckObject(t)
    BY <1>1, <1>3, InitAsks, JustReplies DEF CheckObject, InitLabels
  <1>4. CASE FindSession(t)
    BY <1>1, <1>4, InitAsks, JustReplies DEF FindSession, InitLabels
  <1>5. CASE CheckName(t)
    BY <1>1, <1>5, InitAsks, JustReplies DEF CheckName, InitLabels
  <1> QED BY <1>2, <1>3, <1>4, <1>5

----------------------------------------------------------------------------
\* As many rows as chunks, all in range, are all the chunks.
LEMMA AllListed ==
  ASSUME Store, NEW id \in DOMAIN sessions,
         Cardinality(ChunkRowsOf(id)) = sessions[id].plan.total
  PROVE  \A i \in 0 .. sessions[id].plan.total - 1 : <<id, i>> \in chunkRows
  <1> DEFINE total   == sessions[id].plan.total
             indexes == 0 .. total - 1
             all     == {<<id, i>> : i \in indexes}
             f       == [i \in indexes |-> <<id, i>>]
  <1>1. total \in Nat \ {0}
    BY SessionTypes, PlanTypes DEF Store
  <1>2. IsFiniteSet(indexes) /\ Cardinality(indexes) = total
    <2>1. /\ IsFiniteSet(0 .. total - 1)
          /\ Cardinality(0 .. total - 1) = IF 0 > total - 1 THEN 0 ELSE (total - 1) - 0 + 1
      <3>1. 0 \in Int /\ total - 1 \in Int
        BY <1>1
      <3> HIDE DEF total
      <3> QED BY <3>1, FS_Interval
    <2> HIDE DEF total
    <2> QED BY <1>1, <2>1
  <1>3. f \in Bijection(indexes, all)
    BY DEF Bijection, Injection, Surjection, IsInjective
  <1>4. IsFiniteSet(all) /\ Cardinality(all) = total
    <2> HIDE DEF f, all, indexes
    <2> QED BY <1>2, <1>3, FS_Bijection DEF ExistsBijection
  <1>5. ChunkRowsOf(id) \subseteq all
    <2>1. ASSUME NEW c \in chunkRows, c[1] = id
          PROVE  c \in all
      <3>1. c = <<c[1], c[2]>> /\ c[2] \in Nat
        BY DEF Store, TablesOK
      <3>2. c[2] < total
        BY <2>1 DEF Store
      <3> QED BY <1>1, <2>1, <3>1, <3>2
    <2> QED BY <2>1 DEF ChunkRowsOf
  <1>6. ChunkRowsOf(id) = all
    <2> HIDE DEF all, total
    <2>1. Cardinality(ChunkRowsOf(id)) = total
      BY DEF total
    <2> QED BY <1>4, <1>5, <2>1, FS_Subset
  <1> QED BY <1>6 DEF ChunkRowsOf

\* Of a handler of chunk or complete.
LEMMA OpenSession ==
  ASSUME UploadInv, NEW t \in Threads, req[t].op \in {"chunk", "complete"}
  PROVE  /\ req[t].id \in DOMAIN sessions /\ PlanOf(t) = sessions[req[t].id].plan
         /\ PlanOf(t) \in Plans /\ PlanOf(t).total \in Nat \ {0} /\ PlanOf(t).sha \in Seq(Pieces)
         /\ req[t].op = "chunk" => req[t] \in ChunkReq /\ pc[t] \in ChunkLabels
         /\ req[t].op = "complete" => req[t] \in CompleteReq /\ pc[t] \in CompleteLabels
  <1>1. RequestOK(t) /\ TablesOK
    BY Known
  <1>2. pc[t] # "idle"
    BY <1>1, RequestKinds
  <1> QED BY <1>1, <1>2, RequestKinds, HandlerPlan, PlanTypes DEF PlanOf

\* A request that stays, in a step that changes no session.
LEMMA StaysOK ==
  ASSUME UploadInv, NEW t \in Threads, req[t].op \in {"chunk", "complete"}, req' = req,
         DOMAIN sessions \subseteq DOMAIN sessions',
         pc'[t] \in IF req[t].op = "chunk" THEN ChunkLabels ELSE CompleteLabels
  PROVE  RequestOK(t)'
  BY OpenSession DEF RequestOK, ChunkReq, CompleteReq

LEMMA LoadSessionInv ==
  ASSUME UploadInv, NEW t \in Threads, LoadSession(t)
  PROVE  UploadInv' /\ NothingLost
  <1>1. req[t].op \in {"chunk", "complete"}
    BY LabelOps DEF LoadSession, At
  <1>2. CASE Reply(t)
    BY <1>2, JustReplies DEF LoadSession
  <1>3. CASE ~Reply(t)
    <2> DEFINE label == IF req[t].op = "chunk" THEN "mkdir" ELSE "count"
    <2>1. Goto(t, label) /\ UNCHANGED <<tables, disk, work>> /\ IndexInRange(t)
      BY <1>3 DEF LoadSession
    <2>2. pc'[t] = label /\ req' = req /\ sessions' = sessions
      BY <2>1, Known DEF Goto, Handlers, tables
    <2>3. RequestOK(t)'
      BY <1>1, <2>2, StaysOK DEF ChunkLabels, CompleteLabels
    <2>4. Knows(t)'
      BY <1>1, <2>1, <2>2 DEF Knows, IndexInRange, PlanOf
    <2> QED BY <2>1, <2>3, <2>4, JustGoes DEF HandlerInv
  <1> QED BY <1>2, <1>3

LEMMA CountChunksInv ==
  ASSUME UploadInv, NEW t \in Threads, CountChunks(t)
  PROVE  UploadInv' /\ NothingLost
  <1>1. req[t].op = "complete"
    BY LabelOps DEF CountChunks, At
  <1>2. CASE Reply(t)
    BY <1>2, JustReplies DEF CountChunks
  <1>3. CASE ~Reply(t)
    <2>1. /\ Goto(t, "mkdir") /\ UNCHANGED <<tables, disk, work>>
          /\ Cardinality(ChunkRowsOf(req[t].id)) = PlanOf(t).total
      BY <1>3 DEF CountChunks
    <2>2. pc'[t] = "mkdir" /\ req' = req /\ sessions' = sessions /\ chunkRows' = chunkRows
      BY <2>1, Known DEF Goto, Handlers, tables
    <2>3. RequestOK(t)'
      BY <1>1, <2>2, StaysOK DEF CompleteLabels
    <2>4. \A i \in 0 .. PlanOf(t).total - 1 : <<req[t].id, i>> \in chunkRows
      BY <1>1, <2>1, AllListed, OpenSession, Known
    <2>5. Knows(t)'
      BY <1>1, <2>2, <2>4 DEF Knows, PlanOf
    <2> QED BY <2>1, <2>3, <2>5, JustGoes DEF HandlerInv
  <1> QED BY <1>2, <1>3

LEMMA MergeNextInv ==
  ASSUME UploadInv, NEW t \in Threads, MergeNext(t)
  PROVE  UploadInv' /\ NothingLost
  <1>1. req[t].op = "complete" /\ pc[t] = "merge"
    BY LabelOps DEF MergeNext, At
  <1>2. CASE Reply(t)
    BY <1>2, JustReplies DEF MergeNext
  <1>3. CASE ~Reply(t)
    <2> DEFINE next  == <<req[t].id, Len(work[t])>>
               label == IF Len(work[t]) + 1 = PlanOf(t).total THEN "check" ELSE "merge"
    <2>1. /\ next \in DOMAIN temp /\ work' = [work EXCEPT ![t] = Append(@, temp[next])]
          /\ Goto(t, label) /\ UNCHANGED <<tables, disk>>
      BY <1>3 DEF MergeNext
    <2>2. pc'[t] = label /\ req' = req /\ sessions' = sessions /\ chunkRows' = chunkRows
      BY <2>1, Known DEF Goto, Handlers, tables
    <2>3. work'[t] \in Locals
      <3>1. work[t] \in Seq(Pieces \cup {Torn}) /\ temp[next] \in Pieces \cup {Torn}
        BY <2>1, Known DEF Locals, DiskOK
      <3>2. work'[t] = Append(work[t], temp[next])
        BY <2>1, Known DEF Handlers
      <3> QED BY <3>1, <3>2, AppendProperties DEF Locals
    <2>4. RequestOK(t)'
      BY <1>1, <2>2, StaysOK DEF CompleteLabels
    <2>5. Knows(t)'
      BY <1>1, <2>2, Known DEF Knows, PlanOf
    <2>6. Store' /\ NothingLost
      BY <2>1, Known, UnchangedStore
    <2>7. BoundsOK'
      BY <2>1, Parts DEF BoundsOK, Goto, bounds
    <2>8. pc' = [pc EXCEPT ![t] = label] /\ work' = [work EXCEPT ![t] = work'[t]]
      BY <2>1, Known DEF Goto, Handlers
    <2> QED BY <2>2, <2>3, <2>4, <2>5, <2>6, <2>7, <2>8, HandlerGoesOn DEF HandlerInv
  <1> QED BY <1>2, <1>3

LEMMA CheckContentInv ==
  ASSUME UploadInv, NEW t \in Threads, CheckContent(t)
  PROVE  UploadInv' /\ NothingLost
  <1>1. req[t].op = "complete"
    BY LabelOps DEF CheckContent, At
  <1>2. CASE Reply(t)
    BY <1>2, JustReplies DEF CheckContent
  <1>3. CASE ~Reply(t)
    <2>1. Goto(t, "name") /\ UNCHANGED <<tables, disk, work>> /\ work[t] = PlanOf(t).sha
      BY <1>3 DEF CheckContent
    <2>2. pc'[t] = "name" /\ req' = req /\ sessions' = sessions /\ work' = work
      BY <2>1, Known DEF Goto, Handlers, tables
    <2>3. RequestOK(t)'
      BY <1>1, <2>2, StaysOK DEF CompleteLabels
    <2>4. Knows(t)'
      BY <1>1, <2>1, <2>2 DEF Knows, PlanOf
    <2> QED BY <2>1, <2>3, <2>4, JustGoes DEF HandlerInv
  <1> QED BY <1>2, <1>3

LEMMA CheckNameInv ==
  ASSUME UploadInv, NEW t \in Threads, CheckName(t)
  PROVE  UploadInv' /\ NothingLost
  <1>1. req[t].op \in {"init", "complete"} /\ pc[t] = "name"
    BY LabelOps DEF CheckName, At
  <1>2. CASE req[t].op = "init"
    BY <1>2, InitSteps
  <1>3. CASE req[t].op = "complete" /\ Reply(t)
    BY <1>3, JustReplies DEF CheckName
  <1>4. CASE req[t].op = "complete" /\ ~Reply(t)
    <2>1. Goto(t, "create") /\ UNCHANGED <<tables, disk, work>>
      BY <1>4 DEF CheckName
    <2>2. pc'[t] = "create" /\ req' = req /\ sessions' = sessions /\ work' = work
      BY <2>1, Known DEF Goto, Handlers, tables
    <2>3. RequestOK(t)'
      BY <1>4, <2>2, StaysOK DEF CompleteLabels
    <2>4. work[t] = PlanOf(t).sha
      BY <1>1, <1>4, Known DEF Knows
    <2>5. Knows(t)'
      BY <1>4, <2>2, <2>4 DEF Knows, PlanOf
    <2> QED BY <2>1, <2>3, <2>5, JustGoes DEF HandlerInv
  <1> QED BY <1>1, <1>2, <1>3, <1>4

----------------------------------------------------------------------------
\* The steps that write the disk.

LEMMA MakeDirInv ==
  ASSUME UploadInv, NEW t \in Threads, MakeDir(t)
  PROVE  UploadInv' /\ NothingLost
  <1> DEFINE label == IF req[t].op = "chunk" THEN "write" ELSE "merge"
  <1>1. req[t].op \in {"chunk", "complete"} /\ pc[t] = "mkdir"
    BY LabelOps DEF MakeDir, At
  <1>2. /\ dirs' = dirs \cup {req[t].id} /\ Goto(t, label)
        /\ UNCHANGED <<tables, temp, work>>
    BY DEF MakeDir
  <1>3. pc' = [pc EXCEPT ![t] = label] /\ pc'[t] = label /\ req' = req /\ sessions' = sessions
        /\ chunkRows' = chunkRows /\ work' = [work EXCEPT ![t] = work'[t]] /\ work'[t] \in Locals
    BY <1>2, Known DEF Goto, Handlers, tables
  <1>4. RequestOK(t)'
    BY <1>1, <1>3, StaysOK DEF ChunkLabels, CompleteLabels
  <1>5. Knows(t)'
    <2>1. /\ req[t].op = "chunk" => req[t].index < PlanOf(t).total
          /\ req[t].op = "complete"
               => \A i \in 0 .. PlanOf(t).total - 1 : <<req[t].id, i>> \in chunkRows
      BY <1>1, Known DEF Knows
    <2> QED BY <1>1, <1>3, <2>1 DEF Knows, PlanOf
  <1>6. DiskOK'
    BY <1>1, <1>2, Known, OpenSession DEF DiskOK, tables
  <1>7. Store' /\ NothingLost
    BY <1>2, <1>6, Known DEF Store, NothingLost, tables, TablesOK, ContentAsPlanned, ListedChunksThere, Uploading
  <1>8. BoundsOK'
    BY <1>2, Parts DEF BoundsOK, Goto, bounds
  <1> QED BY <1>3, <1>4, <1>5, <1>7, <1>8, HandlerGoesOn DEF HandlerInv

\* A chunk file that is written or rewritten, whole or not.
LEMMA PutStore ==
  ASSUME Store, UNCHANGED <<tables, dirs>>, NEW cut, cut \subseteq dirs \X Nat,
         DOMAIN temp' = DOMAIN temp \cup cut,
         temp' \in [DOMAIN temp' -> Pieces \cup {Torn}]
  PROVE  Store' /\ NothingLost
  BY DEF Store, NothingLost, tables, TablesOK, DiskOK, ContentAsPlanned, ListedChunksThere, Uploading

LEMMA PutTypes ==
  ASSUME DiskOK, NEW key, NEW piece \in Pieces \cup {Torn}, temp' = Put(key, piece)
  PROVE  DOMAIN temp' = DOMAIN temp \cup {key} /\ temp' \in [DOMAIN temp' -> Pieces \cup {Torn}]
  BY DEF DiskOK, Put

\* A handler that writes its chunk and goes on.
LEMMA PutInv ==
  ASSUME UploadInv, NEW t \in Threads, req[t].op = "chunk", pc[t] \in {"write", "fill"},
         ChunkOf(t) \in dirs \X Nat, NEW piece \in Pieces \cup {Torn}, temp' = Put(ChunkOf(t), piece),
         NEW label \in {"fill", "record"}, pc' = [pc EXCEPT ![t] = label],
         UNCHANGED <<tables, dirs, req, work>>, BoundsOK'
  PROVE  UploadInv' /\ NothingLost
  <1>1. /\ DOMAIN temp' = DOMAIN temp \cup {ChunkOf(t)}
        /\ temp' \in [DOMAIN temp' -> Pieces \cup {Torn}]
    BY Known, PutTypes
  <1>2. Store' /\ NothingLost
    <2>1. {ChunkOf(t)} \subseteq dirs \X Nat
      OBVIOUS
    <2> QED BY <1>1, <2>1, Known, PutStore
  <1>3. pc'[t] = label /\ req' = req /\ sessions' = sessions
        /\ work' = [work EXCEPT ![t] = work'[t]] /\ work'[t] \in Locals
    BY Known DEF Handlers, tables
  <1>4. RequestOK(t)'
    BY <1>3, StaysOK DEF ChunkLabels
  <1>5. Knows(t)'
    BY <1>1, <1>3, Known DEF Knows, PlanOf, ChunkOf
  <1> QED BY <1>2, <1>3, <1>4, <1>5, HandlerGoesOn DEF HandlerInv

LEMMA OpenChunkInv ==
  ASSUME UploadInv, NEW t \in Threads, OpenChunk(t)
  PROVE  UploadInv' /\ NothingLost
  <1>1. req[t].op = "chunk" /\ pc[t] = "write" /\ UNCHANGED <<tables, dirs>>
    BY LabelOps DEF OpenChunk, At
  <1>2. CASE Reply(t) /\ UNCHANGED temp
    BY <1>1, <1>2, JustReplies DEF disk
  <1>3. CASE req[t].id \in dirs /\ temp' = Put(ChunkOf(t), Torn) /\ Goto(t, "fill") /\ UNCHANGED work
    <2>1. req[t] \in ChunkReq
      BY <1>1, OpenSession
    <2>2. req[t].index \in Nat
      BY <2>1, IndexesAssumption DEF ChunkReq
    <2>3. ChunkOf(t) \in dirs \X Nat
      BY <1>3, <2>2 DEF ChunkOf
    <2>4. BoundsOK' /\ req' = req
      BY <1>3, Parts DEF BoundsOK, Goto, bounds
    <2>5. pc' = [pc EXCEPT ![t] = "fill"]
      BY <1>3 DEF Goto
    <2> QED BY <1>1, <1>3, <2>3, <2>4, <2>5, PutInv
  <1> QED BY <1>2, <1>3 DEF OpenChunk

LEMMA FillChunkInv ==
  ASSUME UploadInv, NEW t \in Threads, FillChunk(t)
  PROVE  UploadInv' /\ NothingLost
  <1>1. /\ req[t].op = "chunk" /\ pc[t] = "fill" /\ pc' = [pc EXCEPT ![t] = "record"]
        /\ UNCHANGED <<tables, dirs, req, work, misled, issued, others>>
    BY LabelOps DEF FillChunk, At
  <1>2. BoundsOK'
    BY <1>1, Parts DEF BoundsOK, FillChunk
  <1>3. CASE ChunkOf(t) \in DOMAIN temp
    <2>1. ChunkOf(t) \in dirs \X Nat
      BY <1>3, Known DEF DiskOK
    <2>2. req[t].piece \in Pieces
      BY <1>1, OpenSession DEF ChunkReq
    <2>3. \/ temp' = Put(ChunkOf(t), req[t].piece)
          \/ temp' = Put(ChunkOf(t), Torn)
      BY <1>3 DEF FillChunk
    <2> QED BY <1>1, <1>2, <2>1, <2>2, <2>3, PutInv
  <1>4. CASE ChunkOf(t) \notin DOMAIN temp
    <2>1. temp' = temp
      BY <1>4 DEF FillChunk
    <2>2. Store' /\ NothingLost
      BY <1>1, <2>1, Known, UnchangedStore DEF disk
    <2>3. pc'[t] = "record" /\ sessions' = sessions
          /\ work' = [work EXCEPT ![t] = work'[t]] /\ work'[t] \in Locals
      BY <1>1, Known DEF Handlers, tables
    <2>4. RequestOK(t)'
      BY <1>1, <2>3, StaysOK DEF ChunkLabels
    <2>5. Knows(t)'
      BY <1>1, <1>4, <2>1, <2>3, Known DEF Knows, PlanOf, ChunkOf, Uploading
    <2> QED BY <1>1, <1>2, <2>2, <2>3, <2>4, <2>5, HandlerGoesOn DEF HandlerInv
  <1> QED BY <1>3, <1>4

LEMMA RemoveDirInv ==
  ASSUME UploadInv, NEW t \in Threads, RemoveDir(t)
  PROVE  UploadInv' /\ NothingLost
  <1>1. req[t].op = "complete" /\ pc[t] = "rmdir"
    BY LabelOps DEF RemoveDir, At
  <1>2. ~Uploading(req[t].id)
    BY <1>1, Known DEF Knows
  <1>3. /\ dirs' = dirs \ {req[t].id} /\ UNCHANGED tables
        /\ DOMAIN temp' = {x \in DOMAIN temp : x[1] # req[t].id}
        /\ temp' \in [DOMAIN temp' -> Pieces \cup {Torn}]
    BY Known DEF RemoveDir, DiskOK
  <1>4. DiskOK'
    BY <1>3, Known DEF DiskOK, tables
  <1>5. ListedChunksThere'
    BY <1>2, <1>3, Known DEF Store, ListedChunksThere, tables, Uploading
  <1>6. Store'
    BY <1>3, <1>4, <1>5, Known DEF Store, tables, TablesOK, ContentAsPlanned
  <1>7. NothingLost
    BY <1>2, <1>3 DEF NothingLost, tables, Uploading
  <1>8. BoundsOK'
    BY Parts DEF BoundsOK, RemoveDir, Reply, bounds
  <1> QED BY <1>6, <1>7, <1>8, HandlerLeaves DEF RemoveDir, Reply

----------------------------------------------------------------------------
\* The steps that write the tables.

LEMMA InsertSessionInv ==
  ASSUME UploadInv, NEW t \in Threads, InsertSession(t)
  PROVE  UploadInv' /\ NothingLost
  <1> DEFINE new == [plan |-> PlanOf(t), status |-> "uploading", expired |-> FALSE]
  <1>1. req[t].op = "init" /\ PlanOf(t) \in Plans
    BY LabelOps, Known, RequestKinds, HandlerPlan DEF InsertSession, At
  <1>2. new \in Session
    BY <1>1 DEF Session
  <1>3. sessions' = Append(sessions, new) /\ UNCHANGED <<folder, rows, nextRow, chunkRows, dirs, temp>>
    BY DEF InsertSession, disk
  <1>4. /\ sessions \in Seq(Session) /\ DOMAIN sessions = 1 .. Len(sessions)
        /\ Len(sessions) \in Nat
    BY Known, LenProperties DEF TablesOK
  <1>5. /\ sessions' \in Seq(Session) /\ DOMAIN sessions' = 1 .. Len(sessions) + 1
        /\ \A s \in DOMAIN sessions : sessions'[s] = sessions[s]
    <2> HIDE DEF new
    <2> QED BY <1>2, <1>3, <1>4, AppendProperties, LenProperties
  <1>6. DOMAIN sessions \subseteq DOMAIN sessions'
    BY <1>4, <1>5
  <1>7. TablesOK' /\ DiskOK'
    BY <1>3, <1>5, <1>6, Known DEF TablesOK, DiskOK
  <1>8. \A c \in chunkRows : c[1] \in DOMAIN sessions
    BY Known DEF TablesOK
  <1>9. ContentAsPlanned'
    BY <1>3, <1>5, Known DEF Store, TablesOK, ContentAsPlanned
  <1>10. Store'
    BY <1>3, <1>5, <1>7, <1>8, <1>9, Known DEF Store, ListedChunksThere, Uploading
  <1>11. NothingLost
    BY <1>3, <1>5, <1>6 DEF NothingLost, Uploading
  <1>12. BoundsOK'
    BY Parts DEF BoundsOK, InsertSession, Reply, bounds
  <1> QED BY <1>10, <1>11, <1>12, HandlerLeaves DEF InsertSession, Reply

LEMMA RecordChunkInv ==
  ASSUME UploadInv, NEW t \in Threads, RecordChunk(t)
  PROVE  UploadInv' /\ NothingLost
  <1>1. req[t].op = "chunk" /\ pc[t] = "record"
    BY LabelOps DEF RecordChunk, At
  <1>2. /\ chunkRows' = chunkRows \cup {ChunkOf(t)}
        /\ UNCHANGED <<folder, rows, nextRow, sessions, dirs, temp>>
    BY DEF RecordChunk, disk
  <1>3. /\ req[t].id \in DOMAIN sessions /\ req[t].index \in Nat
        /\ req[t].index < sessions[req[t].id].plan.total
    <2>1. req[t] \in ChunkReq /\ req[t].id \in DOMAIN sessions /\ PlanOf(t) = sessions[req[t].id].plan
      BY <1>1, OpenSession
    <2>2. req[t].index \in Nat
      BY <2>1, IndexesAssumption DEF ChunkReq
    <2> QED BY <1>1, <2>1, <2>2, Known DEF Knows
  <1>4. Uploading(req[t].id) => ChunkOf(t) \in DOMAIN temp
    BY <1>1, Known DEF Knows
  <1>5. ChunkOf(t)[1] = req[t].id /\ ChunkOf(t)[2] = req[t].index
    BY DEF ChunkOf
  <1>6. ChunkOf(t) \in (DOMAIN sessions) \X Nat
    BY <1>3 DEF ChunkOf
  <1>7. TablesOK' /\ DiskOK'
    BY <1>2, <1>6, Known DEF TablesOK, DiskOK
  <1>8. Store'
    BY <1>2, <1>3, <1>4, <1>5, <1>7, Known DEF Store, ContentAsPlanned, ListedChunksThere, Uploading
  <1>9. NothingLost
    BY <1>2 DEF NothingLost, Uploading
  <1>10. BoundsOK'
    BY Parts DEF BoundsOK, RecordChunk, Reply, bounds
  <1> QED BY <1>8, <1>9, <1>10, HandlerLeaves DEF RecordChunk, Reply

\* A new row of a file, with the content of its session if it has one.
LEMMA AddRowStore ==
  ASSUME Store, UNCHANGED <<folder, sessions, chunkRows, disk>>, NEW row \in RowType, AddRow(row),
         row.from \in {0} \cup DOMAIN sessions,
         row.from # 0 => row.content = sessions[row.from].plan.sha
  PROVE  Store' /\ NothingLost
  <1>1. /\ DOMAIN rows' = DOMAIN rows \cup {nextRow} /\ nextRow' = nextRow + 1
        /\ \A i \in DOMAIN rows' : rows'[i] = IF i = nextRow THEN row ELSE rows[i]
    BY DEF AddRow
  <1>2. rows' \in [DOMAIN rows' -> RowType]
    BY <1>1 DEF AddRow, Store, TablesOK
  <1>3. TablesOK'
    <2>1. nextRow' \in Nat \ {0} /\ DOMAIN rows' \subseteq 1 .. nextRow' - 1
      BY <1>1 DEF Store, TablesOK
    <2>2. ASSUME NEW i \in DOMAIN rows'
          PROVE  rows'[i].from \in {0} \cup DOMAIN sessions'
      BY <1>1 DEF Store, TablesOK
    <2> QED BY <1>2, <2>1, <2>2 DEF Store, TablesOK
  <1>4. ContentAsPlanned'
    BY <1>1 DEF Store, ContentAsPlanned
  <1> QED BY <1>3, <1>4 DEF Store, NothingLost, disk, DiskOK, ListedChunksThere, Uploading

LEMMA CreateFileInv ==
  ASSUME UploadInv, NEW t \in Threads, CreateFile(t)
  PROVE  UploadInv' /\ NothingLost
  <1> DEFINE row == [parent |-> PlanOf(t).parent, name |-> PlanOf(t).name, content |-> work[t],
                     deleted |-> FALSE, from |-> req[t].id]
  <1>1. req[t].op = "complete" /\ pc[t] = "create"
    BY LabelOps DEF CreateFile, At
  <1>2. /\ AddRow(row) /\ Goto(t, "mark")
        /\ UNCHANGED <<folder, sessions, chunkRows, disk, work>>
    BY DEF CreateFile
  <1>3. /\ PlanOf(t) \in Plans /\ PlanOf(t) = sessions[req[t].id].plan
        /\ req[t].id \in DOMAIN sessions /\ work[t] = PlanOf(t).sha
    BY <1>1, OpenSession, Known DEF Knows
  <1>4. req[t].id \in Nat
    BY <1>3, SessionTypes, Known
  <1>5. row \in RowType
    BY <1>3, <1>4, PlanTypes DEF RowType
  <1>6. /\ row.from = req[t].id /\ row.content = work[t]
    OBVIOUS
  <1>7. Store' /\ NothingLost
    <2> HIDE DEF row
    <2> QED BY <1>2, <1>3, <1>5, <1>6, Known, AddRowStore
  <1>8. /\ pc' = [pc EXCEPT ![t] = "mark"] /\ pc'[t] = "mark" /\ req' = req /\ sessions' = sessions
        /\ work' = [work EXCEPT ![t] = work'[t]] /\ work'[t] \in Locals
    BY <1>2, Known DEF Goto, Handlers
  <1>9. RequestOK(t)'
    BY <1>1, <1>8, StaysOK DEF CompleteLabels
  <1>10. Knows(t)'
    BY <1>1, <1>8 DEF Knows
  <1>11. BoundsOK'
    BY <1>2, Parts DEF BoundsOK, Goto, bounds
  <1> QED BY <1>7, <1>8, <1>9, <1>10, <1>11, HandlerGoesOn DEF HandlerInv

\* A session whose plan stays and that is not opened: closed, or expired.
LEMMA SessionStore ==
  ASSUME Store, UNCHANGED <<folder, rows, nextRow, chunkRows, disk>>,
         sessions' \in Seq(Session), DOMAIN sessions' = DOMAIN sessions,
         \A s \in DOMAIN sessions : /\ sessions'[s].plan = sessions[s].plan
                                    /\ sessions'[s].status = "uploading" => Uploading(s)
  PROVE  Store' /\ NothingLost
  <1>1. TablesOK' /\ DiskOK'
    BY DEF Store, TablesOK, DiskOK, disk
  <1>2. \A c \in chunkRows : c[1] \in DOMAIN sessions
    BY DEF Store, TablesOK
  <1>3. ListedChunksThere'
    BY <1>2 DEF Store, ListedChunksThere, disk, Uploading
  <1>4. ContentAsPlanned'
    BY DEF Store, TablesOK, ContentAsPlanned
  <1>5. \A c \in chunkRows' : c[2] < sessions'[c[1]].plan.total
    BY <1>2 DEF Store
  <1>6. \A c \in DOMAIN temp : c[1] \in DOMAIN sessions
    BY DEF Store, DiskOK
  <1> QED BY <1>1, <1>3, <1>4, <1>5, <1>6 DEF Store, NothingLost, disk

LEMMA MarkCompletedInv ==
  ASSUME UploadInv, NEW t \in Threads, MarkCompleted(t)
  PROVE  UploadInv' /\ NothingLost
  <1>1. req[t].op = "complete" /\ pc[t] = "mark"
    BY LabelOps DEF MarkCompleted, At
  <1>2. /\ sessions' = [sessions EXCEPT ![req[t].id].status = "completed"] /\ Goto(t, "rmdir")
        /\ UNCHANGED <<folder, rows, nextRow, chunkRows, disk, work>>
    BY DEF MarkCompleted
  <1>3. req[t].id \in DOMAIN sessions /\ TablesOK
    BY <1>1, OpenSession, Known
  <1>4. /\ DOMAIN sessions' = DOMAIN sessions
        /\ \A s \in DOMAIN sessions : /\ sessions'[s] \in Session /\ sessions'[s].plan = sessions[s].plan
                                      /\ sessions'[s].status = "uploading" => Uploading(s)
        /\ sessions'[req[t].id].status = "completed"
    BY <1>2, <1>3, SessionTypes DEF Uploading, Session
  <1>5. sessions' \in Seq(Session)
    <2>1. /\ sessions \in Seq(Session) /\ DOMAIN sessions = 1 .. Len(sessions)
          /\ Len(sessions) \in Nat
      BY <1>3, LenProperties DEF TablesOK
    <2>2. sessions' \in [1 .. Len(sessions) -> Session]
      BY <1>2, <1>4, <2>1
    <2> QED BY <2>1, <2>2
  <1>6. Store' /\ NothingLost
    BY <1>2, <1>4, <1>5, Known, SessionStore
  <1>7. /\ pc' = [pc EXCEPT ![t] = "rmdir"] /\ pc'[t] = "rmdir" /\ req' = req
        /\ work' = [work EXCEPT ![t] = work'[t]] /\ work'[t] \in Locals
    BY <1>2, Known DEF Goto, Handlers
  <1>8. RequestOK(t)'
    BY <1>1, <1>4, <1>7, StaysOK DEF CompleteLabels
  <1>9. Knows(t)'
    BY <1>1, <1>4, <1>7 DEF Knows, Uploading
  <1>10. BoundsOK'
    BY <1>2, Parts DEF BoundsOK, Goto, bounds
  <1> QED BY <1>6, <1>7, <1>8, <1>9, <1>10, HandlerGoesOn DEF HandlerInv

----------------------------------------------------------------------------
LEMMA BeginInv ==
  ASSUME UploadInv, NEW t \in Threads, Begin(t)
  PROVE  UploadInv' /\ NothingLost
  <1>1. Store' /\ NothingLost /\ sessions' = sessions
    BY Known, UnchangedStore DEF Begin, tables
  <1>2. pc'[t] \in {"parent", "session"} /\ Moves(t) /\ work'[t] \in Locals
    BY Known DEF Begin, Handlers, Moves
  <1>3. \/ pc'[t] = "parent" /\ req'[t] \in InitReq
        \/ pc'[t] = "session" /\ req'[t] \in ChunkReq
        \/ pc'[t] = "session" /\ req'[t] \in CompleteReq
    BY Known DEF Begin, Handlers, InitReq, ChunkReq, CompleteReq
  <1>4. RequestOK(t)'
    BY <1>1, <1>3 DEF RequestOK, InitReq, ChunkReq, CompleteReq, InitLabels, ChunkLabels, CompleteLabels
  <1>5. Knows(t)'
    BY <1>3 DEF Knows, InitReq, ChunkReq, CompleteReq
  <1>6. BoundsOK'
    BY Parts DEF BoundsOK, Begin
  <1> QED BY <1>1, <1>2, <1>4, <1>5, <1>6, HandlerMoves DEF HandlerInv

LEMMA StepInv ==
  ASSUME UploadInv, NEW t \in Threads, Step(t)
  PROVE  UploadInv' /\ NothingLost
  BY InitSteps, CheckNameInv, InsertSessionInv, LoadSessionInv, MakeDirInv, OpenChunkInv,
     FillChunkInv, RecordChunkInv, CountChunksInv, MergeNextInv, CheckContentInv, CreateFileInv,
     MarkCompletedInv, RemoveDirInv DEF Step

\* A step of nobody's handler.
LEMMA NobodyMoves ==
  ASSUME UploadInv, UNCHANGED handler, Store', NothingLost, BoundsOK'
  PROVE  UploadInv' /\ NothingLost
  <1>1. Store /\ Handlers /\ \A s \in Threads : HandlerInv(s)
    BY Parts
  <1>2. ASSUME NEW s \in Threads PROVE HandlerInv(s)'
    <2>1. pc'[s] = pc[s] /\ req'[s] = req[s] /\ work'[s] = work[s]
      BY DEF handler
    <2> QED BY <1>1, <2>1, OthersKeep DEF Store
  <1>3. Requests \subseteq Requests'
    BY DEF Requests, InitReq, ChunkReq, CompleteReq, NothingLost
  <1>4. Handlers'
    BY <1>1, <1>3 DEF Handlers, handler
  <1> QED BY <1>2, <1>4, Parts DEF Store, UploadInv, TypeOK, HandlerInv, BoundsOK, Handlers

\* The rows change, but a row that stays keeps its content and its session.
LEMMA RowsStore ==
  ASSUME Store, UNCHANGED <<nextRow, sessions, chunkRows, disk>>,
         folder' \in {"active", "deleted", "gone"},
         DOMAIN rows' \subseteq DOMAIN rows, rows' \in [DOMAIN rows' -> RowType],
         \A i \in DOMAIN rows' : rows'[i].content = rows[i].content /\ rows'[i].from = rows[i].from
  PROVE  Store' /\ NothingLost
  BY DEF Store, NothingLost, TablesOK, DiskOK, ContentAsPlanned, ListedChunksThere, Uploading, disk

LEMMA RowTypes ==
  ASSUME NEW row \in RowType
  PROVE  LET deleted == [row EXCEPT !.deleted = TRUE]
         IN  deleted \in RowType /\ deleted.content = row.content /\ deleted.from = row.from
  BY DEF RowType

\* A session that expires keeps its plan and its status.
LEMMA ExpiredStore ==
  ASSUME Store, NEW s \in DOMAIN sessions, sessions' = [sessions EXCEPT ![s].expired = TRUE],
         UNCHANGED <<folder, rows, nextRow, chunkRows, disk>>
  PROVE  Store' /\ NothingLost
  <1>1. TablesOK
    BY DEF Store
  <1>2. /\ DOMAIN sessions' = DOMAIN sessions
        /\ \A r \in DOMAIN sessions : /\ sessions'[r] \in Session
                                      /\ sessions'[r].plan = sessions[r].plan
                                      /\ sessions'[r].status = sessions[r].status
    BY <1>1, SessionTypes DEF Session
  <1>3. sessions' \in Seq(Session)
    <2>1. /\ sessions \in Seq(Session) /\ DOMAIN sessions = 1 .. Len(sessions)
          /\ Len(sessions) \in Nat
      BY <1>1, LenProperties DEF TablesOK
    <2>2. sessions' \in [1 .. Len(sessions) -> Session]
      BY <1>2, <2>1
    <2> QED BY <2>1, <2>2
  <1>4. \A r \in DOMAIN sessions : sessions'[r].status = "uploading" => Uploading(r)
    BY <1>2 DEF Uploading
  <1> QED BY <1>2, <1>3, <1>4, SessionStore

LEMMA OtherInv ==
  ASSUME UploadInv, Other
  PROVE  UploadInv' /\ NothingLost
  <1>1. Store /\ TablesOK /\ DiskOK
    BY Parts DEF Store
  <1>2. rows \in [DOMAIN rows -> RowType]
    BY <1>1 DEF TablesOK
  <1>3. BoundsOK' /\ UNCHANGED <<handler, disk, chunkRows>>
    BY Parts DEF BoundsOK, Other, OtherUpload, DeleteFile, DeleteFolder, PurgeFile, PurgeFolder,
                 Expire, Elsewhere
  <1>4. CASE OtherUpload
    <2>1. PICK p \in Plans : AddRow([parent |-> p.parent, name |-> p.name, content |-> p.sha,
                                     deleted |-> FALSE, from |-> 0])
      BY <1>4 DEF OtherUpload
    <2> DEFINE row == [parent |-> p.parent, name |-> p.name, content |-> p.sha,
                       deleted |-> FALSE, from |-> 0]
    <2>2. row \in RowType /\ row.from = 0
      BY PlanTypes DEF RowType
    <2>3. UNCHANGED <<folder, sessions>>
      BY <1>4 DEF OtherUpload, Elsewhere
    <2>4. AddRow(row)
      BY <2>1
    <2>5. Store' /\ NothingLost
      <3> HIDE DEF row
      <3> QED BY <1>1, <1>3, <2>2, <2>3, <2>4, AddRowStore
    <2> QED BY <1>3, <2>5, NobodyMoves
  <1>5. CASE DeleteFile
    <2>1. PICK i \in DOMAIN rows : rows' = [rows EXCEPT ![i].deleted = TRUE]
      BY <1>5 DEF DeleteFile
    <2>2. /\ DOMAIN rows' = DOMAIN rows
          /\ \A j \in DOMAIN rows' : \/ rows'[j] = rows[j]
                                     \/ rows'[j] = [rows[j] EXCEPT !.deleted = TRUE]
      BY <1>2, <2>1
    <2>3. \A j \in DOMAIN rows' : /\ rows'[j] \in RowType /\ rows'[j].content = rows[j].content
                                  /\ rows'[j].from = rows[j].from
      BY <1>2, <2>2, RowTypes
    <2>4. rows' \in [DOMAIN rows' -> RowType]
      BY <1>2, <2>1, <2>3
    <2>5. UNCHANGED <<folder, nextRow, sessions>> /\ folder' \in {"active", "deleted", "gone"}
      BY <1>1, <1>5 DEF DeleteFile, Elsewhere, TablesOK
    <2> QED BY <1>1, <1>3, <2>2, <2>3, <2>4, <2>5, RowsStore, NobodyMoves
  <1>6. CASE DeleteFolder
    <2>1. rows' = [i \in DOMAIN rows |-> IF rows[i].parent = Folder
                                         THEN [rows[i] EXCEPT !.deleted = TRUE] ELSE rows[i]]
      BY <1>6 DEF DeleteFolder
    <2>2. DOMAIN rows' = DOMAIN rows
      BY <2>1
    <2>3. \A j \in DOMAIN rows' : /\ rows'[j] \in RowType /\ rows'[j].content = rows[j].content
                                  /\ rows'[j].from = rows[j].from
      BY <1>2, <2>1, RowTypes
    <2>4. rows' \in [DOMAIN rows' -> RowType]
      BY <2>1, <2>3
    <2>5. UNCHANGED <<nextRow, sessions>> /\ folder' \in {"active", "deleted", "gone"}
      BY <1>6 DEF DeleteFolder, Elsewhere
    <2> QED BY <1>1, <1>3, <2>2, <2>3, <2>4, <2>5, RowsStore, NobodyMoves
  <1>7. CASE PurgeFile \/ PurgeFolder
    <2>1. PICK kept \in SUBSET DOMAIN rows : rows' = [i \in kept |-> rows[i]]
      BY <1>7 DEF PurgeFile, PurgeFolder
    <2>2. UNCHANGED <<nextRow, sessions>> /\ folder' \in {"active", "deleted", "gone"}
      BY <1>1, <1>7 DEF PurgeFile, PurgeFolder, Elsewhere, TablesOK
    <2> QED BY <1>1, <1>2, <1>3, <2>1, <2>2, RowsStore, NobodyMoves
  <1>8. CASE Expire
    <2>1. PICK s \in DOMAIN sessions : sessions' = [sessions EXCEPT ![s].expired = TRUE]
      BY <1>8 DEF Expire
    <2>2. UNCHANGED <<folder, rows, nextRow>>
      BY <1>8 DEF Expire
    <2>3. Store' /\ NothingLost
      BY <1>1, <1>3, <2>1, <2>2, ExpiredStore
    <2> QED BY <1>3, <2>3, NobodyMoves
  <1> QED BY <1>4, <1>5, <1>6, <1>7, <1>8 DEF Other

\* A process death stops every handler.
LEMMA CrashInv ==
  ASSUME UploadInv, Crash
  PROVE  UploadInv' /\ NothingLost
  <1>1. Store' /\ NothingLost
    BY Parts, UnchangedStore DEF Crash
  <1>2. \A t \in Threads : pc'[t] = "idle" /\ req'[t] = NoRequest /\ work'[t] = <<>>
    BY DEF Crash
  <1>3. \A t \in Threads : HandlerInv(t)'
    BY <1>2 DEF HandlerInv, RequestOK, Knows, NoRequest
  <1>4. Handlers'
    <2>1. <<>> \in Locals
      BY DEF Locals
    <2> QED BY <2>1 DEF Crash, Handlers, Labels, Requests
  <1>5. BoundsOK'
    BY Parts DEF BoundsOK, Crash
  <1> QED BY <1>1, <1>3, <1>4, <1>5, Parts DEF Store, UploadInv, TypeOK, HandlerInv, BoundsOK, Handlers

LEMMA FailInv ==
  ASSUME UploadInv, NEW t \in Threads, Fail(t)
  PROVE  UploadInv' /\ NothingLost
  <1>1. Store' /\ NothingLost
    BY Known, UnchangedStore DEF Fail
  <1>2. BoundsOK'
    BY Parts DEF BoundsOK, Fail
  <1> QED BY <1>1, <1>2, HandlerLeaves DEF Fail

\* A handler that is given no rows goes on as if there were none.
LEMMA MisleadInv ==
  ASSUME UploadInv, NEW t \in Threads, Mislead(t)
  PROVE  UploadInv' /\ NothingLost
  <1>1. Store' /\ NothingLost
    BY Known, UnchangedStore DEF Mislead
  <1>2. BoundsOK'
    BY Parts DEF BoundsOK, Mislead
  <1>3. req' = req /\ sessions' = sessions /\ work' = work
        /\ work' = [work EXCEPT ![t] = work'[t]] /\ work'[t] \in Locals
    BY Known DEF Mislead, Handlers, tables
  <1>4. ASSUME NEW label \in {"object", "find", "insert"}, pc' = [pc EXCEPT ![t] = label],
               req[t].op = "init"
        PROVE  UploadInv' /\ NothingLost
    <2>1. req[t] \in InitReq /\ pc'[t] = label
      BY <1>4, Known, RequestKinds DEF Handlers
    <2>2. RequestOK(t)' /\ Knows(t)'
      BY <1>3, <1>4, <2>1 DEF RequestOK, InitReq, Knows, InitLabels
    <2> QED BY <1>1, <1>2, <1>3, <1>4, <2>2, HandlerGoesOn DEF HandlerInv
  <1>5. CASE pc[t] = "name" /\ req[t].op # "init" /\ pc' = [pc EXCEPT ![t] = "create"]
    <2>1. req[t].op = "complete" /\ pc'[t] = "create" /\ work[t] = PlanOf(t).sha
      BY <1>5, LabelOps, Known DEF Knows, Handlers
    <2>2. RequestOK(t)'
      BY <1>3, <2>1, StaysOK DEF CompleteLabels
    <2>3. Knows(t)'
      BY <1>3, <2>1 DEF Knows, PlanOf
    <2> QED BY <1>1, <1>2, <1>3, <1>5, <2>2, <2>3, HandlerGoesOn DEF HandlerInv
  <1>6. \/ pc[t] = "name" /\ pc' = [pc EXCEPT ![t] = IF req[t].op = "init" THEN "object" ELSE "create"]
        \/ pc[t] = "object" /\ pc' = [pc EXCEPT ![t] = "find"]
        \/ pc[t] = "find" /\ pc' = [pc EXCEPT ![t] = "insert"]
    BY DEF Mislead, At
  <1> QED BY <1>4, <1>5, <1>6, LabelOps

LEMMA InitInv == Init => UploadInv
  <1> SUFFICES ASSUME Init PROVE UploadInv
    OBVIOUS
  <1>1. TablesOK /\ DiskOK
    BY DEF Init, TablesOK, DiskOK
  <1>2. Handlers
    <2>1. <<>> \in Locals
      BY DEF Locals
    <2> QED BY <2>1 DEF Init, Handlers, Labels, Requests
  <1>3. \A t \in Threads : HandlerInv(t)
    BY DEF Init, HandlerInv, RequestOK, Knows, NoRequest
  <1>4. ContentAsPlanned /\ ListedChunksThere /\ chunkRows = {}
    BY DEF Init, ContentAsPlanned, ListedChunksThere
  <1>5. BoundsOK
    <2>1. {issued, others, faults} \subseteq Nat
      BY DEF Init
    <2>2. misled \in BOOLEAN
      BY Zenon DEF Init
    <2> QED BY <2>1, <2>2 DEF BoundsOK
  <1> QED BY <1>1, <1>2, <1>3, <1>4, <1>5, Parts DEF Store, BoundsOK

LEMMA NextInv == UploadInv /\ [Next]_vars => UploadInv' /\ NothingLost
  <1> SUFFICES ASSUME UploadInv, [Next]_vars PROVE UploadInv' /\ NothingLost
    OBVIOUS
  <1>1. CASE \E t \in Threads : Begin(t) \/ Step(t) \/ Fail(t) \/ Mislead(t)
    BY <1>1, BeginInv, StepInv, FailInv, MisleadInv
  <1>2. CASE Other \/ Crash
    BY <1>2, OtherInv, CrashInv
  <1>3. CASE UNCHANGED vars
    <2>1. UNCHANGED <<tables, disk>> /\ UNCHANGED handler /\ UNCHANGED bounds
      BY <1>3 DEF vars
    <2>2. Store' /\ NothingLost
      BY <2>1, Parts, UnchangedStore
    <2>3. BoundsOK'
      BY <2>1, Parts DEF BoundsOK, bounds
    <2> QED BY <2>1, <2>2, <2>3, NobodyMoves
  <1> QED BY <1>1, <1>2, <1>3 DEF Next

\* UploadInv holds with any number of threads, plans, requests and faults.
THEOREM UploadsInvariant == Spec => []UploadInv
  BY InitInv, NextInv, PTL DEF Spec

\* Every handler has the locals it uses, and every session, chunk and file the shape
\* of the tables, whatever handlers do at once (FileRoutes.cpp 223-373).
THEOREM TypeCorrect == Spec => []TypeOK
  <1>1. UploadInv => TypeOK
    BY DEF UploadInv
  <1> QED BY <1>1, UploadsInvariant, PTL

\* A file made from chunks has the content its session was opened for
\* (FileRoutes.cpp 353-366), however handlers interleave, fail or are killed.
THEOREM PlannedContent == Spec => []ContentAsPlanned
  <1>1. UploadInv => ContentAsPlanned
    BY DEF UploadInv
  <1> QED BY <1>1, UploadsInvariant, PTL

\* A listed chunk of an open session is on disk (FileRoutes.cpp 318-324, 370-372).
THEOREM ChunksOnDisk == Spec => []ListedChunksThere
  <1>1. UploadInv => ListedChunksThere
    BY DEF UploadInv
  <1> QED BY <1>1, UploadsInvariant, PTL

\* A complete that has counted its chunks finds every file it merges, as long as
\* no other complete has closed the session (FileRoutes.cpp 344-353).
THEOREM CountedOnDisk == Spec => []CountedChunksThere
  <1>1. UploadInv => CountedChunksThere
    <2>1. SUFFICES ASSUME UploadInv, NEW t \in Threads, req[t].op = "complete",
                          pc[t] \in {"mkdir", "merge"}, Uploading(req[t].id),
                          NEW i \in 0 .. PlanOf(t).total - 1
                   PROVE  <<req[t].id, i>> \in DOMAIN temp
      BY DEF CountedChunksThere
    <2>2. <<req[t].id, i>> \in chunkRows
      BY <2>1, Known DEF Knows
    <2> QED BY <2>1, <2>2 DEF UploadInv, ListedChunksThere
  <1> QED BY <1>1, UploadsInvariant, PTL

\* Sessions keep their plans and never open again, and no chunk of an open
\* session is lost by any step (FileRoutes.cpp 299-373).
THEOREM NoChunkLost == Spec => NeverLost
  <1>1. UploadInv /\ [Next]_vars => [NothingLost]_vars
    BY NextInv
  <1> QED BY <1>1, UploadsInvariant, PTL DEF Spec, NeverLost

----------------------------------------------------------------------------
\* One thread, as without a configuration file (ProdMain.cpp 17-20): nobody
\* comes between a check and the statement that relies on it.
One == \A s, t \in Threads : s = t

\* The handler has answered, or was given up.
LEMMA LeftChecked ==
  ASSUME UploadInv, NEW t \in Threads, Abandon(t)
  PROVE  Checked(t)' /\ pc'[t] = "idle"
  <1>1. pc'[t] = "idle" /\ req'[t] = NoRequest
    BY Known DEF Abandon, Handlers
  <1> QED BY <1>1 DEF Checked, NoRequest

\* The handler goes on, and no session or row changes.
LEMMA GoneChecked ==
  ASSUME UploadInv, NEW t \in Threads, NEW label, pc' = [pc EXCEPT ![t] = label],
         UNCHANGED <<req, rows, sessions, misled>>, label # "mark",
         label = "insert" => Resumable(PlanOf(t)) = {},
         req[t].op \in {"chunk", "complete"} /\ label \notin {"session", "rmdir"} => Uploading(req[t].id),
         label = "create" => ~NameTaken(PlanOf(t).parent, PlanOf(t).name)
  PROVE  Checked(t)'
  <1>1. pc'[t] = label /\ req' = req /\ rows' = rows /\ sessions' = sessions
    BY Known DEF Handlers
  <1> QED BY <1>1 DEF Checked, PlanOf, Resumable, NameTaken, Uploading

\* No session or row changes, and no directory of a closed session stays.
LEMMA AloneKeeps ==
  ASSUME One, UploadInv, AloneInv, NEW t \in Threads, UNCHANGED <<rows, sessions, misled>>,
         faults' = 0 => faults = 0, faults' = 0 => pc[t] # "mark",
         faults' = 0 => \A s \in dirs' : \/ Uploading(s)
                                         \/ s \in dirs /\ (pc[t] = "rmdir" => s # req[t].id),
         Checked(t)'
  PROVE  AloneInv'
  <1>1. OneOpen' /\ UniqueNames' /\ OneFileEach'
    BY DEF AloneInv, OneOpen, UniqueNames, OneFileEach, Resumable
  <1>2. ASSUME faults' = 0 PROVE RowsClosed' /\ DirsOpen'
    <2>1. RowsClosed /\ DirsOpen
      BY <1>2 DEF AloneInv
    <2>2. RowsClosed'
      BY <1>2, <2>1 DEF One, RowsClosed, Uploading
    <2>3. DirsOpen'
      BY <1>2, <2>1 DEF One, DirsOpen, Uploading
    <2> QED BY <2>2, <2>3
  <1>3. \A s \in Threads : Checked(s)'
    BY DEF One
  <1> QED BY <1>1, <1>2, <1>3 DEF AloneInv

\* The steps that only look, or answer.
LEMMA AloneLooks ==
  ASSUME One, UploadInv, AloneInv, NEW t \in Threads, UNCHANGED <<tables, disk>>,
         pc[t] \notin {"mark", "rmdir"}, UNCHANGED <<misled, faults>>, Checked(t)'
  PROVE  AloneInv'
  <1>1. UNCHANGED <<rows, sessions>> /\ dirs' = dirs
    BY DEF tables, disk
  <1>2. faults = 0 => \A s \in dirs : Uploading(s)
    BY DEF One, AloneInv, DirsOpen
  <1> QED BY <1>1, <1>2, AloneKeeps

LEMMA AloneAsks ==
  ASSUME One, UploadInv, AloneInv, NEW t \in Threads,
         \/ CheckParent(t) \/ CheckName(t) \/ CheckObject(t) \/ FindSession(t)
         \/ LoadSession(t) \/ CountChunks(t) \/ MergeNext(t) \/ CheckContent(t)
  PROVE  AloneInv'
  <1>1. /\ UNCHANGED <<tables, disk>> /\ UNCHANGED <<rows, sessions>>
        /\ pc[t] \notin {"mark", "rmdir", "idle"}
    BY DEF CheckParent, CheckName, CheckObject, FindSession, LoadSession, CountChunks, MergeNext,
           CheckContent, At, tables
  <1>2. CASE Reply(t)
    <2>1. UNCHANGED <<misled, faults>> /\ Checked(t)'
      BY <1>2, LeftChecked DEF Reply, bounds
    <2> QED BY <1>1, <2>1, AloneLooks
  <1>3. ASSUME NEW label, Goto(t, label), label # "mark",
               label = "insert" => Resumable(PlanOf(t)) = {},
               req[t].op \in {"chunk", "complete"} /\ label \notin {"session", "rmdir"} => Uploading(req[t].id),
               label = "create" => ~NameTaken(PlanOf(t).parent, PlanOf(t).name)
        PROVE  AloneInv'
    <2>1. UNCHANGED <<misled, faults>>
      BY <1>3 DEF Goto, bounds
    <2>2. Checked(t)'
      BY <1>1, <1>3, <2>1, GoneChecked DEF Goto
    <2> QED BY <1>1, <2>1, <2>2, AloneLooks
  <1>4. Checked(t)
    BY DEF AloneInv
  <1>5. CASE CheckParent(t) \/ CheckObject(t) \/ FindSession(t)
    <2>1. req[t].op = "init"
      BY <1>5, LabelOps DEF CheckParent, CheckObject, FindSession, At
    <2>2. CASE CheckParent(t)
      BY <1>2, <1>3, <2>1, <2>2 DEF CheckParent
    <2>3. CASE CheckObject(t)
      BY <1>2, <1>3, <2>1, <2>3 DEF CheckObject
    <2>4. CASE FindSession(t)
      BY <1>2, <1>3, <2>1, <2>4 DEF FindSession
    <2> QED BY <1>5, <2>2, <2>3, <2>4
  <1>6. CASE CheckName(t)
    <2>1. CASE req[t].op = "init"
      BY <1>2, <1>3, <1>6, <2>1 DEF CheckName
    <2>2. CASE req[t].op = "complete"
      <3>1. Uploading(req[t].id)
        BY <1>4, <1>6, <2>2 DEF Checked, CheckName, At
      <3> QED BY <1>2, <1>3, <1>6, <2>2, <3>1 DEF CheckName
    <2> QED BY <1>6, <2>1, <2>2, LabelOps DEF CheckName, At
  <1>7. CASE LoadSession(t)
    <2> DEFINE label == IF req[t].op = "chunk" THEN "mkdir" ELSE "count"
    <2>1. label \in {"mkdir", "count"}
      OBVIOUS
    <2>2. CASE ~Reply(t)
      <3>1. Goto(t, label)
        BY <1>7, <2>2 DEF LoadSession
      <3>2. Uploading(req[t].id)
        BY <1>7, <2>2 DEF LoadSession, Uploading
      <3> HIDE DEF label
      <3> QED BY <1>3, <2>1, <3>1, <3>2
    <2> QED BY <1>2, <2>2
  <1>8. CASE CountChunks(t) \/ MergeNext(t) \/ CheckContent(t)
    <2>1. req[t].op = "complete"
      BY <1>8, LabelOps DEF CountChunks, MergeNext, CheckContent, At
    <2>2. Uploading(req[t].id)
      BY <1>4, <1>8, <2>1 DEF Checked, CountChunks, MergeNext, CheckContent, At
    <2>3. CASE CountChunks(t)
      BY <1>2, <1>3, <2>1, <2>2, <2>3 DEF CountChunks
    <2>4. CASE MergeNext(t)
      <3> DEFINE label == IF Len(work[t]) + 1 = PlanOf(t).total THEN "check" ELSE "merge"
      <3>1. label \in {"check", "merge"}
        OBVIOUS
      <3>2. Reply(t) \/ Goto(t, label)
        BY <2>4 DEF MergeNext
      <3> HIDE DEF label
      <3> QED BY <1>2, <1>3, <2>1, <2>2, <3>1, <3>2
    <2>5. CASE CheckContent(t)
      BY <1>2, <1>3, <2>1, <2>2, <2>5 DEF CheckContent
    <2> QED BY <1>8, <2>3, <2>4, <2>5
  <1> QED BY <1>5, <1>6, <1>7, <1>8

LEMMA AloneBegins ==
  ASSUME One, UploadInv, AloneInv, NEW t \in Threads, Begin(t)
  PROVE  AloneInv'
  <1>1. pc[t] = "idle" /\ pc'[t] \in {"parent", "session"} /\ UNCHANGED <<misled, faults>>
        /\ UNCHANGED <<tables, disk>> /\ (pc'[t] = "parent" => req'[t].op = "init")
    BY Known DEF Begin, At, Handlers
  <1>2. Checked(t)'
    BY <1>1 DEF Checked
  <1> QED BY <1>1, <1>2, AloneLooks

----------------------------------------------------------------------------
\* The steps of one thread that write.
LEMMA AloneWritesDisk ==
  ASSUME One, UploadInv, AloneInv, NEW t \in Threads,
         MakeDir(t) \/ OpenChunk(t) \/ FillChunk(t) \/ RecordChunk(t) \/ RemoveDir(t)
  PROVE  AloneInv'
  <1>1. Checked(t) /\ faults \in Nat /\ UNCHANGED <<rows, sessions, misled>>
    BY Parts DEF AloneInv, MakeDir, OpenChunk, FillChunk, RecordChunk, RemoveDir, tables, Goto,
                 Reply, bounds
  <1>2. faults = 0 => \A s \in dirs : Uploading(s) \/ (pc[t] = "rmdir" /\ s = req[t].id)
    BY DEF One, AloneInv, DirsOpen
  <1>3. CASE MakeDir(t)
    <2> DEFINE label == IF req[t].op = "chunk" THEN "write" ELSE "merge"
    <2>1. req[t].op \in {"chunk", "complete"} /\ pc[t] = "mkdir" /\ label \in {"write", "merge"}
      BY <1>3, LabelOps DEF MakeDir, At
    <2>2. Uploading(req[t].id)
      BY <1>1, <2>1 DEF Checked
    <2>3. Goto(t, label) /\ dirs' = dirs \cup {req[t].id}
      BY <1>3 DEF MakeDir
    <2> HIDE DEF label
    <2>4. Checked(t)' /\ faults' = faults
      BY <1>1, <2>1, <2>2, <2>3, GoneChecked DEF Goto, bounds
    <2> QED BY <1>1, <1>2, <2>1, <2>2, <2>3, <2>4, AloneKeeps
  <1>4. CASE OpenChunk(t) \/ FillChunk(t)
    <2>1. req[t].op = "chunk" /\ pc[t] \in {"write", "fill"} /\ dirs' = dirs
      BY <1>4, LabelOps DEF OpenChunk, FillChunk, At
    <2>2. Uploading(req[t].id)
      BY <1>1, <2>1 DEF Checked
    <2>3. CASE Reply(t)
      <3>1. Checked(t)' /\ faults' = faults
        BY <2>3, LeftChecked DEF Reply, bounds
      <3> QED BY <1>1, <1>2, <2>1, <3>1, AloneKeeps
    <2>4. ASSUME NEW label \in {"fill", "record"}, pc' = [pc EXCEPT ![t] = label], req' = req,
                 faults' \in {faults, faults + 1}
          PROVE  AloneInv'
      <3>1. Checked(t)'
        BY <1>1, <2>2, <2>4, GoneChecked
      <3>2. faults' = 0 => faults = 0
        BY <1>1, <2>4
      <3> QED BY <1>1, <1>2, <2>1, <3>1, <3>2, AloneKeeps
    <2> QED BY <1>4, <2>3, <2>4 DEF OpenChunk, FillChunk, Goto, bounds
  <1>5. CASE RecordChunk(t)
    <2>1. pc[t] = "record" /\ dirs' = dirs /\ Reply(t)
      BY <1>5 DEF RecordChunk, At, disk
    <2>2. Checked(t)' /\ faults' = faults
      BY <2>1, LeftChecked DEF Reply, bounds
    <2> QED BY <1>1, <1>2, <2>1, <2>2, AloneKeeps
  <1>6. CASE RemoveDir(t)
    <2>1. pc[t] = "rmdir" /\ dirs' = dirs \ {req[t].id} /\ Reply(t)
      BY <1>6 DEF RemoveDir, At
    <2>2. Checked(t)' /\ faults' = faults
      BY <2>1, LeftChecked DEF Reply, bounds
    <2> QED BY <1>1, <1>2, <2>1, <2>2, AloneKeeps
  <1> QED BY <1>3, <1>4, <1>5, <1>6

LEMMA AloneInserts ==
  ASSUME One, UploadInv, AloneInv, NEW t \in Threads, InsertSession(t)
  PROVE  AloneInv'
  <1> DEFINE new == [plan |-> PlanOf(t), status |-> "uploading", expired |-> FALSE]
  <1>1. /\ sessions' = Append(sessions, new) /\ rows' = rows /\ dirs' = dirs /\ Reply(t)
        /\ pc[t] = "insert" /\ misled' = misled
    BY DEF InsertSession, At, disk, Reply, bounds
  <1>2. /\ sessions \in Seq(Session) /\ DOMAIN sessions = 1 .. Len(sessions)
        /\ Len(sessions) \in Nat
    BY Known, LenProperties DEF TablesOK
  <1>3. new \in Session
    BY LabelOps, Known, RequestKinds, HandlerPlan DEF InsertSession, At, Session
  <1>4. /\ DOMAIN sessions' = 1 .. Len(sessions) + 1
        /\ \A s \in DOMAIN sessions : sessions'[s] = sessions[s]
        /\ sessions'[Len(sessions) + 1] = new
    <2> HIDE DEF new
    <2> QED BY <1>1, <1>2, <1>3, AppendProperties, LenProperties
  <1>5. ~misled => \A s \in DOMAIN sessions : s \notin Resumable(PlanOf(t))
    BY <1>1 DEF AloneInv, Checked
  <1>6. OneOpen'
    <2>1. SUFFICES ASSUME ~misled, NEW s \in DOMAIN sessions', NEW u \in DOMAIN sessions',
                          sessions'[u].plan = sessions'[s].plan,
                          sessions'[s].status = "uploading", ~sessions'[s].expired,
                          sessions'[u].status = "uploading", ~sessions'[u].expired
                   PROVE  s = u
      BY <1>1 DEF OneOpen, Resumable
    <2>2. CASE s \in DOMAIN sessions /\ u \in DOMAIN sessions
      BY <1>4, <2>1, <2>2 DEF AloneInv, OneOpen, Resumable
    <2>3. CASE s = Len(sessions) + 1 /\ u \in DOMAIN sessions
      BY <1>4, <1>5, <2>1, <2>3 DEF Resumable
    <2>4. CASE u = Len(sessions) + 1 /\ s \in DOMAIN sessions
      BY <1>4, <1>5, <2>1, <2>4 DEF Resumable
    <2> QED BY <1>2, <1>4, <2>2, <2>3, <2>4
  <1>7. Checked(t)' /\ pc'[t] = "idle" /\ faults' = faults /\ misled' = misled
    BY <1>1, LeftChecked DEF Reply, bounds
  <1>8. UniqueNames' /\ OneFileEach'
    BY <1>1, <1>7 DEF AloneInv, UniqueNames, OneFileEach
  <1>9. ASSUME faults' = 0 PROVE RowsClosed' /\ DirsOpen'
    <2>1. RowsClosed /\ DirsOpen
      BY <1>7, <1>9 DEF AloneInv
    <2>2. RowsClosed'
      BY <1>1, <1>4, <2>1, Known DEF One, RowsClosed, Uploading, TablesOK
    <2>3. DirsOpen'
      BY <1>1, <1>4, <2>1, Known DEF One, DirsOpen, Uploading, DiskOK
    <2> QED BY <2>2, <2>3
  <1> QED BY <1>6, <1>7, <1>8, <1>9 DEF AloneInv, One

LEMMA AloneCreates ==
  ASSUME One, UploadInv, AloneInv, NEW t \in Threads, CreateFile(t)
  PROVE  AloneInv'
  <1> DEFINE row == [parent |-> PlanOf(t).parent, name |-> PlanOf(t).name, content |-> work[t],
                     deleted |-> FALSE, from |-> req[t].id]
  <1>1. /\ AddRow(row) /\ pc' = [pc EXCEPT ![t] = "mark"] /\ req' = req /\ faults' = faults
        /\ misled' = misled /\ sessions' = sessions /\ dirs' = dirs /\ pc[t] = "create"
    BY DEF CreateFile, At, Goto, bounds, disk
  <1>2. /\ req[t].op = "complete" /\ work[t] = PlanOf(t).sha /\ Uploading(req[t].id)
        /\ (~misled => ~NameTaken(PlanOf(t).parent, PlanOf(t).name)) /\ pc'[t] = "mark"
    BY <1>1, LabelOps, Known DEF Knows, AloneInv, Checked, Handlers
  <1>3. /\ DOMAIN rows' = DOMAIN rows \cup {nextRow} /\ nextRow \notin DOMAIN rows
        /\ rows'[nextRow] = row /\ \A i \in DOMAIN rows : rows'[i] = rows[i]
    BY <1>1, Known DEF AddRow, TablesOK
  <1>4. /\ row.parent = PlanOf(t).parent /\ row.name = PlanOf(t).name
        /\ row.content = PlanOf(t).sha /\ row.from = req[t].id /\ row.deleted = FALSE
    BY <1>2
  <1> HIDE DEF row
  <1>5. OneOpen'
    BY <1>1 DEF AloneInv, OneOpen, Resumable
  <1>6. UniqueNames'
    BY <1>1, <1>2, <1>3, <1>4 DEF AloneInv, UniqueNames, NameTaken
  <1>7. ASSUME faults = 0 PROVE \A i \in DOMAIN rows : rows[i].from = 0 \/ ~Uploading(rows[i].from)
    BY <1>1, <1>7 DEF One, AloneInv, RowsClosed
  <1>8. OneFileEach'
    BY <1>1, <1>2, <1>3, <1>4, <1>7 DEF AloneInv, OneFileEach
  <1>9. ASSUME faults' = 0 PROVE RowsClosed' /\ DirsOpen'
    <2>1. RowsClosed'
      BY <1>1, <1>2, <1>3, <1>4, <1>7, <1>9 DEF RowsClosed, Uploading
    <2>2. \A s \in dirs : Uploading(s)
      BY <1>1, <1>9 DEF One, AloneInv, DirsOpen
    <2> QED BY <1>1, <2>1, <2>2 DEF DirsOpen, Uploading
  <1>10. Checked(t)'
    <2>1. PlanOf(t)' = PlanOf(t) /\ Uploading(req[t].id)'
      BY <1>1, <1>2 DEF PlanOf, Uploading
    <2> QED BY <1>1, <1>2, <1>3, <1>4, <2>1 DEF Checked
  <1> QED BY <1>5, <1>6, <1>8, <1>9, <1>10 DEF AloneInv, One

LEMMA AloneCloses ==
  ASSUME One, UploadInv, AloneInv, NEW t \in Threads, MarkCompleted(t)
  PROVE  AloneInv'
  <1>1. /\ sessions' = [sessions EXCEPT ![req[t].id].status = "completed"]
        /\ pc' = [pc EXCEPT ![t] = "rmdir"] /\ req' = req /\ faults' = faults
        /\ misled' = misled /\ rows' = rows /\ dirs' = dirs /\ pc[t] = "mark"
    BY DEF MarkCompleted, At, Goto, bounds, disk
  <1>2. /\ req[t].op = "complete" /\ req[t].id \in DOMAIN sessions /\ pc'[t] = "rmdir"
    BY <1>1, LabelOps, OpenSession, Known DEF Handlers
  <1>3. \A s \in DOMAIN sessions : sessions[s] \in Session
    BY SessionTypes, Known
  <1>4. /\ DOMAIN sessions' = DOMAIN sessions
        /\ sessions'[req[t].id].status = "completed"
        /\ \A s \in DOMAIN sessions : s # req[t].id => sessions'[s] = sessions[s]
    BY <1>1, <1>2, <1>3 DEF Session
  <1>5. OneOpen'
    BY <1>1, <1>4 DEF AloneInv, OneOpen, Resumable
  <1>6. UniqueNames' /\ OneFileEach'
    BY <1>1 DEF AloneInv, UniqueNames, OneFileEach
  <1>7. ASSUME faults' = 0 PROVE RowsClosed' /\ DirsOpen'
    <2>1. RowsClosed /\ DirsOpen
      BY <1>1, <1>7 DEF AloneInv
    <2>2. RowsClosed'
      BY <1>1, <1>4, <2>1, Known DEF One, RowsClosed, Uploading, TablesOK
    <2>3. DirsOpen'
      BY <1>1, <1>2, <1>4, <2>1, Known DEF One, DirsOpen, Uploading, DiskOK
    <2> QED BY <2>2, <2>3
  <1>8. Checked(t)'
    BY <1>1, <1>2 DEF Checked
  <1> QED BY <1>5, <1>6, <1>7, <1>8 DEF AloneInv, One

LEMMA AloneFails ==
  ASSUME One, UploadInv, AloneInv, Crash \/ \E t \in Threads : Fail(t)
  PROVE  AloneInv'
  <1>1. UNCHANGED <<rows, sessions, misled>> /\ faults' = faults + 1 /\ faults \in Nat
    BY Parts DEF Crash, Fail, tables
  <1>2. \A t \in Threads : Checked(t)'
    <2>1. CASE Crash
      BY <2>1 DEF Crash, Checked, NoRequest
    <2>2. ASSUME NEW t \in Threads, Fail(t) PROVE Checked(t)'
      BY <2>2, LeftChecked DEF Fail
    <2> QED BY <2>1, <2>2 DEF One
  <1>3. faults' # 0
    BY <1>1
  <1>4. OneOpen' /\ UniqueNames'
    BY <1>1 DEF AloneInv, OneOpen, UniqueNames, Resumable
  <1> QED BY <1>2, <1>3, <1>4 DEF AloneInv, OneFileEach

\* A handler that is given no rows may go on to insert, or to create, and knows less.
LEMMA AloneMisled ==
  ASSUME One, UploadInv, AloneInv, NEW t \in Threads, Mislead(t)
  PROVE  AloneInv'
  <1>1. UNCHANGED <<rows, sessions, req>> /\ faults' = faults + 1 /\ faults \in Nat /\ misled'
    BY Parts DEF Mislead, tables
  <1>2. PICK label \in {"object", "find", "insert", "create"} :
          pc' = [pc EXCEPT ![t] = label] /\ (label = "create" => pc[t] = "name")
    BY DEF Mislead, At
  <1>3. req[t].op \in {"chunk", "complete"} => Uploading(req[t].id)
    BY LabelOps DEF AloneInv, Checked, Mislead, At
  <1>4. Checked(t)'
    <2>1. pc'[t] = label /\ req'[t] = req[t] /\ sessions' = sessions /\ misled'
      BY <1>1, <1>2, Known DEF Handlers
    <2> QED BY <1>3, <2>1 DEF Checked, Uploading
  <1>5. OneOpen' /\ UniqueNames' /\ OneFileEach' /\ faults' # 0
    BY <1>1 DEF OneOpen, UniqueNames, OneFileEach
  <1> QED BY <1>4, <1>5 DEF AloneInv, One

----------------------------------------------------------------------------
\* The other handlers run when the thread is idle, and the clock at any time.
LEMMA AloneOthers ==
  ASSUME One, UploadInv, AloneInv, Other, ~Expire
  PROVE  AloneInv'
  <1>1. Elsewhere
    BY DEF Other, OtherUpload, DeleteFile, DeleteFolder, PurgeFile, PurgeFolder
  <1>2. /\ sessions' = sessions /\ dirs' = dirs /\ UNCHANGED <<misled, faults>>
        /\ \A t \in Threads : pc[t] = "idle" /\ pc'[t] = "idle" /\ req'[t] = req[t]
    BY <1>1 DEF Elsewhere, At, One, disk, handler
  <1>3. \A t \in Threads : Checked(t)'
    <2>1. \A t \in Threads : req[t].op = "none"
      BY <1>2, Known, RequestKinds
    <2> QED BY <1>2, <2>1 DEF Checked
  <1>4. OneOpen'
    BY <1>2 DEF AloneInv, OneOpen, Resumable
  <1>5. faults = 0 => DirsOpen' /\ \A i \in DOMAIN rows : rows[i].from = 0 \/ ~Uploading(rows[i].from)
    BY <1>2 DEF AloneInv, DirsOpen, RowsClosed, Uploading
  <1>6. CASE OtherUpload
    <2>1. PICK p \in Plans :
            /\ ~NameTaken(p.parent, p.name)
            /\ AddRow([parent |-> p.parent, name |-> p.name, content |-> p.sha, deleted |-> FALSE,
                       from |-> 0])
      BY <1>6 DEF OtherUpload
    <2>2. /\ DOMAIN rows' = DOMAIN rows \cup {nextRow} /\ nextRow \notin DOMAIN rows
          /\ rows'[nextRow].parent = p.parent /\ rows'[nextRow].name = p.name
          /\ rows'[nextRow].from = 0
          /\ \A i \in DOMAIN rows : rows'[i] = rows[i]
      BY <2>1, Parts DEF AddRow, Store, TablesOK
    <2>3. UniqueNames'
      BY <1>2, <2>1, <2>2 DEF AloneInv, UniqueNames, NameTaken
    <2>4. OneFileEach'
      BY <1>2, <2>2 DEF AloneInv, OneFileEach
    <2>5. faults = 0 => RowsClosed'
      BY <1>2, <1>5, <2>2 DEF RowsClosed, Uploading
    <2> QED BY <1>2, <1>3, <1>4, <1>5, <2>3, <2>4, <2>5 DEF AloneInv
  <1>7. CASE DeleteFile \/ DeleteFolder \/ PurgeFile \/ PurgeFolder
    <2>1. /\ DOMAIN rows' \subseteq DOMAIN rows
          /\ \A i \in DOMAIN rows' : /\ rows'[i].parent = rows[i].parent /\ rows'[i].name = rows[i].name
                                     /\ rows'[i].from = rows[i].from
                                     /\ rows[i].deleted => rows'[i].deleted
      <3>1. rows \in [DOMAIN rows -> RowType]
        BY Parts DEF Store, TablesOK
      <3>2. CASE DeleteFile
        BY <3>1, <3>2 DEF DeleteFile, RowType
      <3>3. CASE DeleteFolder
        BY <3>1, <3>3 DEF DeleteFolder, RowType
      <3>4. CASE PurgeFile \/ PurgeFolder
        BY <3>4 DEF PurgeFile, PurgeFolder
      <3> QED BY <1>7, <3>2, <3>3, <3>4
    <2>2. UniqueNames'
      BY <1>2, <2>1 DEF AloneInv, UniqueNames
    <2>3. OneFileEach'
      BY <1>2, <2>1 DEF AloneInv, OneFileEach
    <2>4. faults = 0 => RowsClosed'
      BY <1>2, <1>5, <2>1 DEF RowsClosed, Uploading
    <2> QED BY <1>2, <1>3, <1>4, <1>5, <2>2, <2>3, <2>4 DEF AloneInv
  <1> QED BY <1>6, <1>7 DEF Other

LEMMA AloneExpires ==
  ASSUME One, UploadInv, AloneInv, Expire
  PROVE  AloneInv'
  <1>1. PICK s \in DOMAIN sessions : sessions' = [sessions EXCEPT ![s].expired = TRUE]
    BY DEF Expire
  <1>2. UNCHANGED <<rows, dirs, pc, req, misled, faults>>
    BY DEF Expire, disk, handler
  <1>3. \A u \in DOMAIN sessions : sessions[u] \in Session
    BY SessionTypes, Parts DEF Store
  <1>4. /\ DOMAIN sessions' = DOMAIN sessions
        /\ \A u \in DOMAIN sessions : /\ sessions'[u].plan = sessions[u].plan
                                      /\ sessions'[u].status = sessions[u].status
                                      /\ sessions[u].expired => sessions'[u].expired
    BY <1>1, <1>3 DEF Session
  <1>5. OneOpen'
    BY <1>2, <1>4 DEF AloneInv, OneOpen, Resumable
  <1>6. UniqueNames' /\ OneFileEach'
    BY <1>2 DEF AloneInv, UniqueNames, OneFileEach
  <1>7. faults' = 0 => RowsClosed' /\ DirsOpen'
    <2>1. ASSUME faults' = 0 PROVE RowsClosed /\ DirsOpen
      BY <1>2, <2>1 DEF AloneInv
    <2>2. ASSUME faults' = 0 PROVE RowsClosed'
      BY <1>2, <1>4, <2>1, <2>2, Parts DEF RowsClosed, Uploading, Store, TablesOK
    <2>3. ASSUME faults' = 0 PROVE DirsOpen'
      BY <1>2, <1>4, <2>1, <2>3, Parts DEF DirsOpen, Uploading, Store, DiskOK
    <2> QED BY <2>2, <2>3
  <1>8. ASSUME NEW t \in Threads PROVE Checked(t)'
    <2>1. Checked(t) /\ pc'[t] = pc[t] /\ req'[t] = req[t] /\ rows' = rows /\ misled' = misled
      BY <1>2 DEF AloneInv
    <2>2. CASE req[t].op \in {"chunk", "complete"}
      <3>1. req[t].id \in DOMAIN sessions /\ pc[t] # "insert"
        BY <2>2, OpenSession, LabelOps
      <3>2. PlanOf(t)' = PlanOf(t) /\ (Uploading(req[t].id) => Uploading(req[t].id)')
        BY <1>4, <2>1, <2>2, <3>1 DEF PlanOf, Uploading
      <3> QED BY <2>1, <3>1, <3>2 DEF Checked, NameTaken
    <2>3. CASE req[t].op \notin {"chunk", "complete"}
      <3>1. pc[t] \notin {"create", "mark"}
        BY <2>3, LabelOps
      <3>2. pc[t] = "insert" => PlanOf(t)' = PlanOf(t)
        BY <2>1, LabelOps DEF PlanOf
      <3>3. pc[t] = "insert" /\ ~misled => Resumable(PlanOf(t))' = {}
        BY <1>4, <2>1, <3>2 DEF Checked, Resumable
      <3> QED BY <2>1, <2>3, <3>1, <3>3 DEF Checked
    <2> QED BY <2>2, <2>3
  <1> QED BY <1>5, <1>6, <1>7, <1>8 DEF AloneInv

LEMMA AloneStarts == Init => AloneInv
  <1> SUFFICES ASSUME Init PROVE AloneInv
    OBVIOUS
  <1>1. DOMAIN rows = {} /\ DOMAIN sessions = {} /\ dirs = {}
    BY DEF Init
  <1>2. \A t \in Threads : Checked(t)
    BY DEF Init, Checked, NoRequest
  <1> QED BY <1>1, <1>2 DEF AloneInv, OneOpen, UniqueNames, OneFileEach, RowsClosed, DirsOpen

LEMMA AloneNext ==
  ASSUME One, UploadInv, AloneInv, [Next]_vars
  PROVE  AloneInv'
  <1>1. ASSUME NEW t \in Threads, Step(t) PROVE AloneInv'
    BY <1>1, AloneAsks, AloneWritesDisk, AloneInserts, AloneCreates, AloneCloses DEF Step
  <1>2. CASE UNCHANGED vars
    <2>1. UNCHANGED <<rows, sessions, dirs, pc, req, misled, faults>>
      BY <1>2 DEF vars, tables, disk, handler, bounds
    <2> QED BY <2>1 DEF AloneInv, OneOpen, UniqueNames, OneFileEach, RowsClosed, DirsOpen, Checked,
                       Resumable, Uploading, PlanOf, NameTaken
  <1>3. CASE Other
    BY <1>3, AloneOthers, AloneExpires
  <1>4. CASE Crash \/ \E t \in Threads : Fail(t)
    BY <1>4, AloneFails
  <1>5. CASE \E t \in Threads : Begin(t)
    BY <1>5, AloneBegins
  <1> QED BY <1>1, <1>2, <1>3, <1>4, <1>5, AloneMisled DEF Next

\* What holds of one thread that is shown its rows: init never opens a second session to
\* resume.
LEMMA AloneCounts ==
  ASSUME AloneInv, ~misled, NEW p \in Plans
  PROVE  Cardinality(Resumable(p)) <= 1
  <1>1. \A s, u \in Resumable(p) : s = u
    BY DEF AloneInv, OneOpen, Resumable
  <1>2. CASE Resumable(p) = {}
    BY <1>2, FS_EmptySet
  <1>3. CASE Resumable(p) # {}
    <2>1. PICK s \in Resumable(p) : TRUE
      BY <1>3
    <2>2. Resumable(p) = {s}
      BY <1>1, <2>1
    <2>3. Cardinality({s}) = 1
      BY FS_Singleton
    <2> QED BY <2>2, <2>3
  <1> QED BY <1>2, <1>3

\* With one thread, AloneInv holds beside UploadInv: the check of a handler is still true
\* when it inserts the session, creates the file or closes the session
\* (FileRoutes.cpp 242-294, 358-370).
THEOREM AloneInvariant ==
  ASSUME \A s, t \in Threads : s = t
  PROVE  Spec => [](UploadInv /\ AloneInv)
  <1>1. One
    BY DEF One
  <1>2. UploadInv /\ AloneInv /\ [Next]_vars => (UploadInv /\ AloneInv)'
    BY <1>1, NextInv, AloneNext
  <1> QED BY <1>2, InitInv, AloneStarts, PTL DEF Spec

\* With one thread, init resumes the one open session of its plan: there is never a
\* second one, if no SELECT has been misled (FileRoutes.cpp 249-272).
THEOREM OneThreadResumes ==
  ASSUME \A s, t \in Threads : s = t
  PROVE  Spec => []OneToResume
  <1>1. UploadInv /\ AloneInv => OneToResume
    BY AloneCounts DEF OneToResume
  <1> QED BY <1>1, AloneInvariant, PTL

\* With one thread, and while nothing has failed, an upload makes one file, however often
\* complete is called and sessions expire (FileRoutes.cpp 358-370).
THEOREM OneThreadOneFile ==
  ASSUME \A s, t \in Threads : s = t
  PROVE  Spec => []OneFileEach
  <1>1. UploadInv /\ AloneInv => OneFileEach
    BY DEF AloneInv
  <1> QED BY <1>1, AloneInvariant, PTL

\* With one thread, complete gives no row a name that is taken, though it merges
\* the chunks between init's check of the name and the row (FileRoutes.cpp 358-366), if
\* no SELECT has been misled.
THEOREM OneThreadNames ==
  ASSUME \A s, t \in Threads : s = t
  PROVE  Spec => []UniqueNames
  <1>1. UploadInv /\ AloneInv => UniqueNames
    BY DEF AloneInv
  <1> QED BY <1>1, AloneInvariant, PTL

\* With one thread, and while nothing has failed, the chunks of a closed session are gone
\* once its handler has answered (FileRoutes.cpp 369-370).
THEOREM OneThreadTempGone ==
  ASSUME \A s, t \in Threads : s = t
  PROVE  Spec => []TempGone
  <1>1. UploadInv /\ AloneInv => TempGone
    BY DEF AloneInv, DirsOpen, TempGone
  <1> QED BY <1>1, AloneInvariant, PTL

\* With one thread, a session is closed only with its file in place, and stays closed
\* (FileRoutes.cpp 364-368).
THEOREM OneThreadCloses ==
  ASSUME \A s, t \in Threads : s = t
  PROVE  Spec => ClosedWithFile
  <1> DEFINE Good == \A s \in DOMAIN sessions :
                       /\ sessions[s].status = "completed" => sessions'[s].status = "completed"
                       /\ sessions'[s].status # sessions[s].status
                            => \E i \in DOMAIN rows : rows[i].from = s /\ rows[i].content = sessions[s].plan.sha
  <1>1. ASSUME UploadInv, AloneInv, Next PROVE Good
    <2>1. CASE sessions' = sessions
      BY <2>1
    <2>2. ASSUME NEW t \in Threads, InsertSession(t) PROVE Good
      <3>1. /\ sessions \in Seq(Session) /\ DOMAIN sessions = 1 .. Len(sessions)
            /\ Len(sessions) \in Nat
        BY <1>1, Known, LenProperties DEF TablesOK
      <3>2. \A s \in DOMAIN sessions : sessions'[s] = sessions[s]
        BY <2>2, <3>1 DEF InsertSession
      <3> QED BY <3>2
    <2>3. ASSUME NEW t \in Threads, MarkCompleted(t) PROVE Good
      <3>1. /\ req[t].op = "complete" /\ req[t].id \in DOMAIN sessions /\ pc[t] = "mark"
            /\ PlanOf(t) = sessions[req[t].id].plan
        BY <1>1, <2>3, LabelOps, OpenSession DEF MarkCompleted, At
      <3>2. \E i \in DOMAIN rows : /\ rows[i].from = req[t].id
                                   /\ rows[i].content = sessions[req[t].id].plan.sha
        BY <1>1, <3>1 DEF AloneInv, Checked
      <3>3. \A s \in DOMAIN sessions : sessions[s] \in Session
        BY <1>1, SessionTypes, Known
      <3>4. /\ sessions'[req[t].id].status = "completed"
            /\ \A s \in DOMAIN sessions : s # req[t].id => sessions'[s] = sessions[s]
        BY <2>3, <3>1, <3>3 DEF MarkCompleted, Session
      <3> QED BY <3>2, <3>4
    <2>4. CASE Expire
      <3>1. \A s \in DOMAIN sessions : sessions[s] \in Session
        BY <1>1, SessionTypes, Parts DEF Store
      <3>2. \A s \in DOMAIN sessions : sessions'[s].status = sessions[s].status
        BY <2>4, <3>1 DEF Expire, Session
      <3> QED BY <3>2
    <2>5. CASE Crash \/ (Other /\ ~Expire) \/ (\E t \in Threads : Begin(t) \/ Fail(t) \/ Mislead(t)) \/ UNCHANGED vars
      BY <2>1, <2>5 DEF Crash, Other, OtherUpload, DeleteFile, DeleteFolder, PurgeFile, PurgeFolder,
           Elsewhere, Begin, Fail, Mislead, tables, vars
    <2>6. ASSUME NEW t \in Threads, Step(t), ~InsertSession(t), ~MarkCompleted(t) PROVE sessions' = sessions
      BY <2>6 DEF Step, CheckParent, CheckName, CheckObject, FindSession, LoadSession, MakeDir,
           OpenChunk, FillChunk, RecordChunk, CountChunks, MergeNext, CheckContent, CreateFile, RemoveDir, tables
    <2> QED BY <1>1, <2>1, <2>2, <2>3, <2>4, <2>5, <2>6 DEF Next
  <1>2. UploadInv /\ AloneInv /\ [Next]_vars => [Good]_vars
    BY <1>1
  <1>3. ClosedWithFile <=> [][Good]_vars
    BY DEF ClosedWithFile
  <1> QED BY <1>2, <1>3, AloneInvariant, PTL DEF Spec
============================================================================
