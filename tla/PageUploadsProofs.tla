------------------------- MODULE PageUploadsProofs -------------------------
(***************************************************************************)
(* Proofs about PageUploads, for any number of tabs, threads, files and     *)
(* faults.  The steps of the server keep UploadInv as in UploadsProofs; what *)
(* a page knows of its session is only ever added to.                       *)
(***************************************************************************)
EXTENDS PageUploads, UploadsProofs, WellFoundedInduction

----------------------------------------------------------------------------
\* What the CHOOSEs of the page find.
LEMMA LeastOf ==
  ASSUME NEW S, S \subseteq Nat, S # {}
  PROVE  LET j == CHOOSE x \in S : \A k \in S : x <= k
         IN  j \in S /\ \A k \in S : j <= k
  <1>1. \E x \in S : \A y \in S : ~ (<<y, x>> \in OpToRel(<, Nat))
    BY NatLessThanWellFounded, WFMin
  <1>2. PICK x \in S : \A y \in S : ~ (<<y, x>> \in OpToRel(<, Nat))
    BY <1>1
  <1>3. ASSUME NEW y \in S PROVE x <= y
    <2>1. y < x => <<y, x>> \in {ss \in Nat \X Nat : ss[1] < ss[2]}
      OBVIOUS
    <2> QED BY <1>2, <2>1 DEF OpToRel
  <1> QED BY <1>3

LEMMA NewestOf ==
  ASSUME NEW n \in Nat, NEW S, S \subseteq 1 .. n, S # {}
  PROVE  Newest(S) \in S
  <1> DEFINE T == {n - s : s \in S}
  <1>1. T \subseteq Nat /\ T # {}
    <2>1. \A s \in S : s \in 1 .. n /\ n - s \in Nat
      OBVIOUS
    <2> QED BY <2>1
  <1>2. \E x \in T : \A y \in T : x <= y
    <2> HIDE DEF T
    <2> QED BY <1>1, LeastOf
  <1>3. PICK s \in S : \A r \in S : n - s <= n - r
    BY <1>2
  <1>4. \A r \in S : r <= s
    BY <1>3
  <1> QED BY <1>4 DEF Newest

\* The loop of the page goes on to the first chunk that is missing, so all before it
\* are listed, and to complete when none is.
Goes(p, q, S) ==
  /\ q \in Page /\ q.at \in {"chunk", "complete"} /\ q.by = None /\ q.next < q.plan.total
  /\ q.plan = p.plan /\ q.id = p.id /\ q.up = p.up /\ q.refused = p.refused
  /\ q.at = "chunk" => q.refused \/ \A j \in 0 .. q.next - 1 : <<q.id, j>> \in S
  /\ q.at = "complete" => q.refused \/ \A j \in 0 .. q.plan.total - 1 : <<q.id, j>> \in S

LEMMA SendFromGoes ==
  ASSUME NEW S, NEW p \in Page, NEW i \in Nat, p.next < p.plan.total,
         \A j \in p.up : <<p.id, j>> \in S,
         p.refused \/ \A j \in 0 .. i - 1 : <<p.id, j>> \in S
  PROVE  Goes(p, SendFrom(p, i), S)
  <1> DEFINE total   == p.plan.total
             missing == {j \in i .. total - 1 : j \notin p.up}
             first   == CHOOSE j \in missing : \A k \in missing : j <= k
             q       == SendFrom(p, i)
  <1>1. total \in Nat /\ p.plan \in Plans
    BY PlanTypes DEF Page
  <1>2. CASE missing = {}
    <2>1. q = Moved(p, "complete")
      BY <1>2 DEF SendFrom
    <2>2. /\ q \in Page /\ q.at = "complete" /\ q.by = None /\ q.next = p.next
          /\ q.plan = p.plan /\ q.id = p.id /\ q.up = p.up /\ q.refused = p.refused
      BY <2>1 DEF Moved, Page, Waiting
    <2>3. p.refused \/ \A j \in 0 .. total - 1 : <<p.id, j>> \in S
      BY <1>1, <1>2
    <2>4. Goes(p, q, S)
      <3> HIDE DEF q
      <3> QED BY <2>2, <2>3 DEF Goes
    <2> QED BY <2>4
  <1>3. CASE missing # {}
    <2>1. first \in missing /\ \A k \in missing : first <= k
      <3>1. missing \subseteq Nat
        BY <1>1
      <3> HIDE DEF missing
      <3> QED BY <1>3, <3>1, LeastOf
    <2>2. q = [Moved(p, "chunk") EXCEPT !.next = first]
      BY <1>3 DEF SendFrom
    <2>3. first \in Nat /\ first < total
      <3> HIDE DEF first
      <3> QED BY <2>1, <1>1
    <2>4. /\ q \in Page /\ q.at = "chunk" /\ q.by = None /\ q.next = first
          /\ q.plan = p.plan /\ q.id = p.id /\ q.up = p.up /\ q.refused = p.refused
      <3> HIDE DEF first
      <3> QED BY <2>2, <2>3 DEF Moved, Page, Waiting
    <2>5. p.refused \/ \A j \in 0 .. first - 1 : <<p.id, j>> \in S
      <3> HIDE DEF first
      <3> QED BY <1>1, <2>1, <2>3
    <2>6. Goes(p, q, S)
      <3> HIDE DEF q, first
      <3> QED BY <2>3, <2>4, <2>5 DEF Goes
    <2> QED BY <2>6
  <1> QED BY <1>2, <1>3

----------------------------------------------------------------------------
\* PageInv, tab by tab and handler by handler.
TabInv(b) ==
  /\ page[b].id <= Len(sessions) /\ page[b].next < page[b].plan.total
  /\ page[b].by # None => /\ page[b].at \in {"init", "chunk", "complete"}
                          /\ req[page[b].by] = RequestOf(page[b])
  /\ PageKnows(page[b])
  /\ page[b].at = "done" => Filed(page[b].plan)
  /\ page[b].at = "complete" /\ ~page[b].refused
       => \A i \in 0 .. page[b].plan.total - 1 : <<page[b].id, i>> \in chunkRows

OneServed  == \A b, c \in Tabs : page[b].by = page[c].by /\ page[b].by # None => b = c
FiledBy(t) == pc[t] \in {"mark", "rmdir"} => Filed(PlanOf(t))

LEMMA PageParts ==
  PageInv <=> /\ UploadInv /\ page \in [Tabs -> Page] /\ OneServed
              /\ \A b \in Tabs : TabInv(b)
              /\ \A t \in Threads : FiledBy(t)
  BY DEF PageInv, PageTypeOK, UploadInv, DoneIsFiled, AllSent, OneServed, TabInv, FiledBy

LEMMA PartsNext ==
  ASSUME UploadInv', page' \in [Tabs -> Page], OneServed', \A b \in Tabs : TabInv(b)',
         \A t \in Threads : FiledBy(t)'
  PROVE  PageInv'
  BY DEF PageInv, PageTypeOK, UploadInv, DoneIsFiled, AllSent, OneServed, TabInv, FiledBy

\* What no step here takes away: as in Uploads, and the rows, which nobody deletes.
RowsStay == \A i \in DOMAIN rows : i \in DOMAIN rows' /\ rows'[i] = rows[i]
Grows    == UploadInv' /\ NothingLost /\ RowsStay

LEMMA SessionsGrow ==
  ASSUME UploadInv, Grows
  PROVE  /\ DOMAIN sessions = 1 .. Len(sessions) /\ Len(sessions) \in Nat
         /\ DOMAIN sessions' = 1 .. Len(sessions') /\ Len(sessions') \in Nat
         /\ Len(sessions) <= Len(sessions')
  <1>1. sessions \in Seq(Session) /\ sessions' \in Seq(Session)
    BY DEF UploadInv, TypeOK, TablesOK, Grows
  <1>2. /\ DOMAIN sessions = 1 .. Len(sessions) /\ Len(sessions) \in Nat
        /\ DOMAIN sessions' = 1 .. Len(sessions') /\ Len(sessions') \in Nat
    BY <1>1, LenProperties
  <1>3. DOMAIN sessions \subseteq DOMAIN sessions'
    BY DEF Grows, NothingLost
  <1>4. Len(sessions) >= 1 => Len(sessions) \in DOMAIN sessions
    BY <1>2
  <1> QED BY <1>2, <1>3, <1>4

LEMMA TabStays ==
  ASSUME PageInv, Grows, NEW b \in Tabs, page'[b] = page[b],
         page[b].by # None => req'[page[b].by] = req[page[b].by]
  PROVE  TabInv(b)'
  <1>1. TabInv(b) /\ UploadInv /\ page[b] \in Page
    BY PageParts
  <1>2. page[b].id <= Len(sessions')
    BY <1>1, SessionsGrow DEF TabInv, Page
  <1>3. page[b].at = "done" => Filed(page[b].plan)'
    BY <1>1 DEF TabInv, Filed, Grows, RowsStay
  <1>4. PageKnows(page[b])'
    BY <1>1 DEF TabInv, PageKnows, Grows, NothingLost
  <1> QED BY <1>1, <1>2, <1>3, <1>4 DEF TabInv, RequestOf, Grows, NothingLost

\* A page that asks for nothing of its session.
LEMMA TabAtRest ==
  ASSUME PageInv, Grows, NEW b \in Tabs, NEW at \in {"rest", "init", "instant", "failed"},
         page'[b].at = at, page'[b].by = None, page'[b].id = 0 \/ page'[b].id = page[b].id,
         page'[b].next < page'[b].plan.total
  PROVE  TabInv(b)'
  <1>1. TabInv(b) /\ UploadInv /\ page[b] \in Page
    BY PageParts
  <1>2. page'[b].id <= Len(sessions')
    BY <1>1, SessionsGrow DEF TabInv, Page
  <1> QED BY <1>2 DEF TabInv, PageKnows

LEMMA HandlerFiled ==
  ASSUME PageInv, Grows, NEW t \in Threads, pc'[t] = pc[t], req'[t] = req[t]
  PROVE  FiledBy(t)'
  <1>1. FiledBy(t) /\ UploadInv
    BY PageParts
  <1>2. SUFFICES ASSUME pc[t] \in {"mark", "rmdir"} PROVE Filed(PlanOf(t))'
    BY DEF FiledBy
  <1>3. req[t].op = "complete"
    BY <1>1, <1>2, LabelOps
  <1>4. PlanOf(t)' = PlanOf(t)
    BY <1>1, <1>3, OpenSession DEF PlanOf, Grows, NothingLost
  <1>5. Filed(PlanOf(t))
    BY <1>1, <1>2 DEF FiledBy
  <1> QED BY <1>4, <1>5 DEF Filed, Grows, RowsStay

\* The handler that serves a page has its request.
LEMMA Serving ==
  ASSUME PageInv, NEW b \in Tabs, NEW t \in Threads, page[b].by = t
  PROVE  /\ pc[t] # "idle" /\ page[b].at = req[t].op /\ PlanOf(t) = page[b].plan
         /\ page[b].at # "init" => page[b].id = req[t].id /\ page[b].id \in DOMAIN sessions
         /\ page[b].at = "chunk" => page[b].next = req[t].index
         /\ page[b].at \in {"init", "chunk", "complete"}
  <1>1. TabInv(b) /\ UploadInv /\ page[b] \in Page /\ t # None
    BY PageParts, NoneAssumption
  <1>2. req[t] = RequestOf(page[b]) /\ page[b].at \in {"init", "chunk", "complete"}
    BY <1>1 DEF TabInv
  <1>3. /\ page[b].at = "init" => req[t] = [op |-> "init", plan |-> page[b].plan]
        /\ page[b].at = "chunk" => req[t] = [op |-> "chunk", id |-> page[b].id, index |-> page[b].next,
                                            piece |-> page[b].plan.sha[page[b].next + 1]]
        /\ page[b].at = "complete" => req[t] = [op |-> "complete", id |-> page[b].id]
    BY <1>2 DEF RequestOf
  <1>4. req[t].op = page[b].at /\ req[t].op # "none"
    BY <1>2, <1>3
  <1>5. pc[t] # "idle"
    BY <1>1, <1>4, Known, RequestKinds
  <1>6. page[b].at # "init" => page[b].id \in DOMAIN sessions /\ sessions[page[b].id].plan = page[b].plan
    BY <1>1, <1>2 DEF TabInv, PageKnows
  <1> QED BY <1>2, <1>3, <1>4, <1>5, <1>6 DEF PlanOf

----------------------------------------------------------------------------
\* The steps of the server.
LEMMA RowAdded ==
  ASSUME UploadInv, NEW row, AddRow(row)
  PROVE  RowsStay /\ nextRow \in DOMAIN rows' /\ rows'[nextRow] = row
  <1>1. nextRow \notin DOMAIN rows
    BY DEF UploadInv, TypeOK, TablesOK
  <1> QED BY <1>1 DEF AddRow, RowsStay

\* A step of t moves nobody else, and takes its request only when it answers.
StepMoves(t) ==
  /\ \A s \in Threads \ {t} : pc'[s] = pc[s] /\ req'[s] = req[s]
  /\ pc'[t] = "idle" \/ req'[t] = req[t]

LEMMA HandlerSteps ==
  ASSUME UploadInv, NEW t \in Threads, Step(t)
  PROVE  StepMoves(t)
  <1>1. pc \in [Threads -> Labels] /\ req \in [Threads -> Requests]
    BY DEF UploadInv, TypeOK
  <1>2. ASSUME Reply(t) PROVE StepMoves(t)
    BY <1>1, <1>2 DEF Reply, Abandon, StepMoves
  <1>3. ASSUME NEW label, Goto(t, label) PROVE StepMoves(t)
    BY <1>1, <1>3 DEF Goto, StepMoves
  <1>4. CASE CheckParent(t) \/ CheckName(t) \/ CheckObject(t) \/ FindSession(t) \/ InsertSession(t)
    BY <1>2, <1>3, <1>4 DEF CheckParent, CheckName, CheckObject, FindSession, InsertSession
  <1>5. CASE LoadSession(t) \/ MakeDir(t) \/ RecordChunk(t) \/ CountChunks(t) \/ MergeNext(t)
    BY <1>2, <1>3, <1>5 DEF LoadSession, MakeDir, RecordChunk, CountChunks, MergeNext
  <1>6. CASE CheckContent(t) \/ CreateFile(t) \/ MarkCompleted(t) \/ RemoveDir(t)
    BY <1>2, <1>3, <1>6 DEF CheckContent, CreateFile, MarkCompleted, RemoveDir
  <1>7. CASE OpenChunk(t) \/ FillChunk(t)
    <2>1. Reply(t) \/ Goto(t, "fill") \/ (pc' = [pc EXCEPT ![t] = "record"] /\ req' = req)
      BY <1>7 DEF OpenChunk, FillChunk
    <2> QED BY <1>1, <1>2, <1>3, <2>1 DEF StepMoves
  <1> QED BY <1>4, <1>5, <1>6, <1>7 DEF Step

LEMMA StepRows ==
  ASSUME UploadInv, NEW t \in Threads, Step(t)
  PROVE  RowsStay
  <1>1. CASE CreateFile(t)
    BY <1>1, RowAdded DEF CreateFile
  <1>2. CASE ~CreateFile(t)
    <2>1. rows' = rows
      BY <1>2 DEF Step, CheckParent, CheckName, CheckObject, FindSession, InsertSession, LoadSession,
              MakeDir, OpenChunk, FillChunk, RecordChunk, CountChunks, MergeNext, CheckContent, MarkCompleted,
              RemoveDir, tables
    <2> QED BY <2>1 DEF RowsStay
  <1> QED BY <1>1, <1>2

\* What the last statements of the handlers leave behind.
LEMMA LastStatements ==
  ASSUME UploadInv, NEW t \in Threads, Step(t)
  PROVE  /\ At(t, "find") /\ pc'[t] = "idle" => Resumable(PlanOf(t)) # {}
         /\ At(t, "insert") => sessions' = Append(sessions, [plan |-> PlanOf(t), status |-> "uploading",
                                                            expired |-> FALSE])
         /\ At(t, "record") => ChunkOf(t) \in chunkRows'
         /\ pc'[t] \in {"mark", "rmdir"} => CreateFile(t) \/ (At(t, "mark") /\ req'[t] = req[t])
  <1>0. pc \in [Threads -> Labels] /\ req \in [Threads -> Requests]
    BY DEF UploadInv, TypeOK
  <1>1. At(t, "find") /\ pc'[t] = "idle" => Resumable(PlanOf(t)) # {}
    <2>1. At(t, "find") => FindSession(t)
      BY DEF Step, At, CheckParent, CheckName, CheckObject, InsertSession, LoadSession,
             MakeDir, OpenChunk, FillChunk, RecordChunk, CountChunks, MergeNext, CheckContent, CreateFile,
             MarkCompleted, RemoveDir
    <2> QED BY <1>0, <2>1 DEF FindSession, Goto
  <1>2. At(t, "insert") => InsertSession(t)
    BY DEF Step, At, CheckParent, CheckName, CheckObject, FindSession, LoadSession,
           MakeDir, OpenChunk, FillChunk, RecordChunk, CountChunks, MergeNext, CheckContent, CreateFile,
           MarkCompleted, RemoveDir
  <1>3. At(t, "record") => RecordChunk(t)
    BY DEF Step, At, CheckParent, CheckName, CheckObject, FindSession, InsertSession, LoadSession,
           MakeDir, OpenChunk, FillChunk, CountChunks, MergeNext, CheckContent, CreateFile,
           MarkCompleted, RemoveDir
  <1>4. ASSUME NEW label, Goto(t, label) PROVE pc'[t] = label /\ req'[t] = req[t]
    BY <1>0, <1>4 DEF Goto
  <1>5. ASSUME Reply(t) PROVE pc'[t] = "idle"
    BY <1>0, <1>5 DEF Reply, Abandon
  <1>6. pc'[t] \in {"mark", "rmdir"} => CreateFile(t) \/ MarkCompleted(t)
    <2>1. CASE CheckParent(t) \/ CheckName(t) \/ CheckObject(t) \/ FindSession(t) \/ InsertSession(t)
      BY <1>4, <1>5, <2>1 DEF CheckParent, CheckName, CheckObject, FindSession, InsertSession
    <2>2. CASE LoadSession(t) \/ MakeDir(t) \/ RecordChunk(t) \/ CountChunks(t) \/ MergeNext(t)
      BY <1>4, <1>5, <2>2 DEF LoadSession, MakeDir, RecordChunk, CountChunks, MergeNext
    <2>3. CASE CheckContent(t) \/ RemoveDir(t)
      BY <1>4, <1>5, <2>3 DEF CheckContent, RemoveDir
    <2>4. CASE OpenChunk(t) \/ FillChunk(t)
      BY <1>0, <1>4, <1>5, <2>4 DEF OpenChunk, FillChunk
    <2> QED BY <2>1, <2>2, <2>3, <2>4 DEF Step
  <1>7. MarkCompleted(t) => At(t, "mark") /\ req'[t] = req[t]
    BY <1>4 DEF MarkCompleted
  <1>8. InsertSession(t) => sessions' = Append(sessions, [plan |-> PlanOf(t), status |-> "uploading",
                                                          expired |-> FALSE])
    BY DEF InsertSession
  <1>9. RecordChunk(t) => ChunkOf(t) \in chunkRows'
    BY DEF RecordChunk
  <1> QED BY <1>1, <1>2, <1>3, <1>6, <1>7, <1>8, <1>9

LEMMA StepFiles ==
  ASSUME PageInv, Grows, NEW t \in Threads, Step(t)
  PROVE  FiledBy(t)'
  <1>0. UploadInv /\ FiledBy(t)
    BY PageParts
  <1>1. SUFFICES ASSUME pc'[t] \in {"mark", "rmdir"} PROVE Filed(PlanOf(t))'
    BY DEF FiledBy
  <1>2. CASE CreateFile(t)
    <2>1. req[t].op = "complete" /\ req'[t] = req[t] /\ work[t] = PlanOf(t).sha
      BY <1>0, <1>2, Known, LabelOps DEF CreateFile, At, Goto, Knows
    <2>2. PlanOf(t)' = PlanOf(t)
      BY <1>0, <2>1, OpenSession DEF PlanOf, Grows, NothingLost
    <2> DEFINE row == [parent |-> PlanOf(t).parent, name |-> PlanOf(t).name, content |-> work[t],
                       deleted |-> FALSE, from |-> req[t].id]
    <2>3. nextRow \in DOMAIN rows' /\ rows'[nextRow] = row
      BY <1>0, <1>2, RowAdded DEF CreateFile
    <2> QED BY <2>1, <2>2, <2>3 DEF Filed
  <1>3. CASE At(t, "mark") /\ req'[t] = req[t]
    <2>1. req[t].op = "complete" /\ Filed(PlanOf(t))
      BY <1>0, <1>3, LabelOps DEF FiledBy, At
    <2>2. PlanOf(t)' = PlanOf(t)
      BY <1>0, <1>3, <2>1, OpenSession DEF PlanOf, Grows, NothingLost
    <2> QED BY <2>1, <2>2 DEF Filed, Grows, RowsStay
  <1> QED BY <1>0, <1>1, <1>2, <1>3, LastStatements

----------------------------------------------------------------------------
\* The session that init answers with is one of this plan.
LEMMA GivenSession ==
  ASSUME PageInv, Grows, NEW t \in Threads, Step(t), pc'[t] = "idle", pc[t] \in {"find", "insert"}
  PROVE  SessionGiven(t) \in DOMAIN sessions' /\ sessions'[SessionGiven(t)].plan = PlanOf(t)
  <1>0. UploadInv /\ sessions \in Seq(Session)
    BY PageParts DEF UploadInv, TypeOK, TablesOK
  <1>1. CASE At(t, "find")
    <2>1. Resumable(PlanOf(t)) # {} /\ Resumable(PlanOf(t)) \subseteq 1 .. Len(sessions)
      BY <1>0, <1>1, LastStatements, SessionsGrow DEF Resumable
    <2>2. SessionGiven(t) \in Resumable(PlanOf(t))
      BY <1>0, <1>1, <2>1, NewestOf, SessionsGrow DEF SessionGiven, At
    <2> QED BY <2>2 DEF Resumable, Grows, NothingLost
  <1>2. CASE At(t, "insert")
    <2> DEFINE row == [plan |-> PlanOf(t), status |-> "uploading", expired |-> FALSE]
    <2>1. sessions' = Append(sessions, row)
      BY <1>0, <1>2, LastStatements
    <2>2. Len(sessions') = Len(sessions) + 1 /\ sessions'[Len(sessions) + 1] = row
      <3> HIDE DEF row
      <3> QED BY <1>0, <2>1, AppendProperties
    <2>3. SessionGiven(t) = Len(sessions) + 1
      BY <1>2 DEF SessionGiven
    <2> QED BY <1>0, <2>2, <2>3, SessionsGrow
  <1> QED BY <1>1, <1>2 DEF At

\* The answer to init: the content is there already, or there is a session.
LEMMA InitAnswered ==
  ASSUME PageInv, Grows, NEW b \in Tabs, NEW t \in Threads, page[b].by = t, page[b].at = "init",
         NEW ok \in BOOLEAN, ok => Step(t) /\ pc'[t] = "idle",
         page'[b] = After(page[b], t, ok)
  PROVE  page'[b] \in Page /\ page'[b].by = None /\ TabInv(b)'
  <1>0. page[b] \in Page /\ TabInv(b)
    BY PageParts
  <1>1. \/ page'[b] = Moved(page[b], "instant") \/ page'[b] = Moved(page[b], "failed")
        \/ /\ ok /\ pc[t] \in {"find", "insert"}
           /\ page'[b] = [Moved(page[b], "status") EXCEPT !.id = SessionGiven(t)]
    BY DEF After
  <1>2. CASE page'[b] = Moved(page[b], "instant") \/ page'[b] = Moved(page[b], "failed")
    <2>1. /\ page'[b] \in Page /\ page'[b].by = None /\ page'[b].at \in {"instant", "failed"}
          /\ page'[b].id = page[b].id /\ page'[b].next = page[b].next /\ page'[b].plan = page[b].plan
      BY <1>0, <1>2 DEF Moved, Page, Waiting
    <2> QED BY <1>0, <2>1, TabAtRest DEF TabInv
  <1>3. CASE /\ ok /\ pc[t] \in {"find", "insert"}
             /\ page'[b] = [Moved(page[b], "status") EXCEPT !.id = SessionGiven(t)]
    <2>1. SessionGiven(t) \in DOMAIN sessions' /\ sessions'[SessionGiven(t)].plan = page[b].plan
      BY <1>3, GivenSession, Serving
    <2>2. SessionGiven(t) \in Nat /\ SessionGiven(t) <= Len(sessions')
      BY <2>1, PageParts, SessionsGrow
    <2>3. /\ page'[b] \in Page /\ page'[b].by = None /\ page'[b].at = "status"
          /\ page'[b].id = SessionGiven(t) /\ page'[b].next = page[b].next /\ page'[b].plan = page[b].plan
      <3> HIDE DEF SessionGiven
      <3> QED BY <1>0, <1>3, <2>2 DEF Moved, Page, Waiting
    <2> QED BY <1>0, <2>1, <2>2, <2>3 DEF TabInv, PageKnows
  <1> QED BY <1>1, <1>2, <1>3

\* The page goes on with what is missing, in a session whose chunks are listed.
LEMMA TabGoes ==
  ASSUME UploadInv', NEW b \in Tabs, NEW p, Goes(p, page'[b], chunkRows'),
         p.id \in DOMAIN sessions', sessions'[p.id].plan = p.plan,
         \A j \in p.up : <<p.id, j>> \in chunkRows'
  PROVE  page'[b] \in Page /\ page'[b].by = None /\ TabInv(b)'
  <1>1. sessions' \in Seq(Session)
    BY DEF UploadInv, TypeOK, TablesOK
  <1>2. p.id <= Len(sessions')
    BY <1>1, LenProperties
  <1>3. PageKnows(page[b])'
    BY DEF Goes, PageKnows
  <1> QED BY <1>2, <1>3 DEF Goes, TabInv

LEMMA ChunkAnswered ==
  ASSUME PageInv, Grows, NEW b \in Tabs, NEW t \in Threads, page[b].by = t, page[b].at = "chunk",
         NEW ok \in BOOLEAN, ok => Step(t) /\ pc'[t] = "idle",
         page'[b] = After(page[b], t, ok)
  PROVE  page'[b] \in Page /\ page'[b].by = None /\ TabInv(b)'
  <1> DEFINE refused == page[b].refused \/ ~(ok /\ At(t, "record"))
             p       == [page[b] EXCEPT !.refused = refused]
  <1>0. page[b] \in Page /\ TabInv(b) /\ UploadInv /\ page[b].next \in Nat
    BY PageParts DEF Page
  <1>1. /\ p \in Page /\ p.at = "chunk" /\ p.next = page[b].next /\ p.plan = page[b].plan
        /\ p.id = page[b].id /\ p.up = page[b].up /\ p.refused = refused
    <2> HIDE DEF refused
    <2>1. refused \in BOOLEAN
      BY <1>0 DEF refused, Page
    <2> QED BY <1>0, <2>1 DEF Page
  <1>2. page'[b] = SendFrom(p, p.next + 1)
    BY DEF After
  <1>3. /\ p.id \in DOMAIN sessions' /\ sessions'[p.id].plan = p.plan
        /\ \A j \in p.up : <<p.id, j>> \in chunkRows'
    <2> HIDE DEF p
    <2> QED BY <1>0, <1>1 DEF TabInv, PageKnows, Grows, NothingLost
  <1>4. p.refused \/ \A j \in 0 .. (p.next + 1) - 1 : <<p.id, j>> \in chunkRows'
    <2>1. SUFFICES ASSUME ~refused PROVE \A j \in 0 .. (p.next + 1) - 1 : <<p.id, j>> \in chunkRows'
      BY <1>1
    <2> HIDE DEF p
    <2>2. ~page[b].refused /\ ok /\ At(t, "record")
      BY <2>1
    <2>3. ChunkOf(t) \in chunkRows' /\ ChunkOf(t) = <<p.id, p.next>>
      BY <1>0, <1>1, <2>2, LastStatements, Serving DEF ChunkOf
    <2>4. \A j \in 0 .. p.next - 1 : <<p.id, j>> \in chunkRows'
      BY <1>0, <1>1, <2>2 DEF TabInv, PageKnows, Grows, NothingLost
    <2>5. \A j \in 0 .. (p.next + 1) - 1 : j = p.next \/ j \in 0 .. p.next - 1
      BY <1>0, <1>1
    <2> QED BY <2>3, <2>4, <2>5
  <1> HIDE DEF p
  <1>5. Goes(p, SendFrom(p, p.next + 1), chunkRows')
    BY <1>0, <1>1, <1>3, <1>4, SendFromGoes DEF TabInv
  <1> QED BY <1>2, <1>3, <1>5, TabGoes DEF Grows

LEMMA CompleteAnswered ==
  ASSUME PageInv, Grows, NEW b \in Tabs, NEW t \in Threads, page[b].by = t, page[b].at = "complete",
         NEW ok \in BOOLEAN, page'[b] = After(page[b], t, ok)
  PROVE  page'[b] \in Page /\ page'[b].by = None /\ TabInv(b)'
  <1>0. page[b] \in Page /\ TabInv(b) /\ UploadInv /\ FiledBy(t)
    BY PageParts
  <1>1. page'[b] = Moved(page[b], "failed") \/ (At(t, "rmdir") /\ page'[b] = Moved(page[b], "done"))
    BY DEF After
  <1>2. /\ page'[b] \in Page /\ page'[b].by = None /\ page'[b].at \in {"failed", "done"}
        /\ page'[b].id = page[b].id /\ page'[b].next = page[b].next /\ page'[b].plan = page[b].plan
        /\ page'[b].at = "done" => At(t, "rmdir")
    BY <1>0, <1>1 DEF Moved, Page
  <1>3. CASE page'[b].at = "failed"
    BY <1>0, <1>2, <1>3, TabAtRest DEF TabInv
  <1>4. CASE page'[b].at = "done"
    <2>1. Filed(page[b].plan)
      BY <1>0, <1>2, <1>4, Serving DEF FiledBy, At
    <2>2. Filed(page[b].plan)'
      BY <1>2, <2>1 DEF Filed, Grows, RowsStay
    <2>3. page'[b].id <= Len(sessions')
      BY <1>0, <1>2, SessionsGrow DEF TabInv, Page
    <2> QED BY <1>0, <1>2, <1>4, <2>2, <2>3 DEF TabInv, PageKnows
  <1> QED BY <1>2, <1>3, <1>4

LEMMA HandlerAnswers ==
  ASSUME PageInv, Grows, NEW t \in Threads, StepMoves(t), FiledBy(t)',
         NEW ok \in BOOLEAN, ok => Step(t), Answer(t, ok)
  PROVE  PageInv'
  <1>0. UploadInv /\ page \in [Tabs -> Page] /\ OneServed /\ \A b \in Tabs : TabInv(b)
    BY PageParts
  <1>1. ASSUME NEW b \in Tabs
        PROVE  page'[b] \in Page /\ TabInv(b)' /\ page'[b].by \in {None, page[b].by}
    <2>1. CASE page[b].by = t /\ pc'[t] = "idle"
      <3>1. page'[b] = After(page[b], t, ok)
        BY <2>1 DEF Answer, ServedBy
      <3>2. page[b].at \in {"init", "chunk", "complete"}
        BY <2>1, Serving
      <3> QED BY <2>1, <3>1, <3>2, InitAnswered, ChunkAnswered, CompleteAnswered
    <2>2. CASE ~(page[b].by = t /\ pc'[t] = "idle")
      <3>1. page'[b] = page[b]
        BY <2>2 DEF Answer, ServedBy
      <3>2. page[b].by # None => req'[page[b].by] = req[page[b].by]
        <4>1. page[b].by \in Threads \cup {None}
          BY <1>0 DEF Page
        <4> QED BY <2>2, <4>1 DEF StepMoves
      <3> QED BY <1>0, <3>1, <3>2, TabStays
    <2> QED BY <2>1, <2>2
  <1>2. page' \in [Tabs -> Page]
    BY <1>1 DEF Answer
  <1>3. OneServed'
    BY <1>0, <1>1 DEF OneServed
  <1>4. \A s \in Threads : FiledBy(s)'
    BY HandlerFiled DEF StepMoves
  <1> QED BY <1>1, <1>2, <1>3, <1>4, PartsNext DEF Grows

\* A page that goes on by itself, or stays, while no handler moves.
LEMMA PageGoesOn ==
  ASSUME PageInv, Grows, UNCHANGED <<pc, req>>, NEW b \in Tabs,
         page' = [page EXCEPT ![b] = page'[b]],
         page'[b] \in Page, page'[b].by = None, TabInv(b)'
  PROVE  PageInv'
  <1>0. page \in [Tabs -> Page] /\ OneServed
    BY PageParts
  <1>1. \A c \in Tabs : c = b \/ page'[c] = page[c]
    BY <1>0
  <1>2. \A c \in Tabs : TabInv(c)'
    BY <1>1, TabStays
  <1>3. page' \in [Tabs -> Page]
    BY <1>0
  <1>4. OneServed'
    BY <1>0, <1>1 DEF OneServed
  <1>5. \A t \in Threads : FiledBy(t)'
    BY HandlerFiled
  <1> QED BY <1>2, <1>3, <1>4, <1>5, PartsNext DEF Grows

LEMMA NothingGrows ==
  ASSUME UploadInv, UNCHANGED <<tables, disk, handler>>, BoundsOK'
  PROVE  Grows
  <1>1. Store' /\ NothingLost
    BY Parts, UnchangedStore
  <1>2. UploadInv'
    BY <1>1, NobodyMoves
  <1> QED BY <1>1, <1>2 DEF Grows, RowsStay, tables

----------------------------------------------------------------------------
LEMMA ServeInv ==
  ASSUME PageInv, NEW t \in Threads, Serve(t)
  PROVE  PageInv'
  <1>1. UploadInv /\ Step(t) /\ Answer(t, TRUE)
    BY PageParts DEF Serve
  <1>2. Grows
    BY <1>1, StepInv, StepRows DEF Grows
  <1> QED BY <1>1, <1>2, HandlerSteps, StepFiles, HandlerAnswers

LEMMA FailingInv ==
  ASSUME PageInv, NEW t \in Threads, Failing(t)
  PROVE  PageInv'
  <1>1. UploadInv /\ Fail(t) /\ Answer(t, FALSE)
    BY PageParts DEF Failing
  <1>2. Grows
    <2>1. rows' = rows
      BY <1>1 DEF Fail, tables
    <2> QED BY <1>1, <2>1, FailInv DEF Grows, RowsStay
  <1>3. pc'[t] = "idle" /\ StepMoves(t)
    BY <1>1, Known DEF Fail, Abandon, StepMoves, Handlers
  <1>4. FiledBy(t)'
    BY <1>3 DEF FiledBy
  <1> QED BY <1>1, <1>2, <1>3, <1>4, HandlerAnswers

\* A handler that is misled answers nobody, and is not about to close a session.
LEMMA MisledInv ==
  ASSUME PageInv, NEW t \in Threads, Misled(t)
  PROVE  PageInv'
  <1>0. UploadInv /\ page \in [Tabs -> Page] /\ OneServed /\ Mislead(t) /\ page' = page
    BY PageParts DEF Misled
  <1>1. Grows
    <2>1. rows' = rows
      BY <1>0 DEF Mislead, tables
    <2> QED BY <1>0, <2>1, MisleadInv DEF Grows, RowsStay
  <1>2. /\ req' = req /\ pc'[t] \notin {"mark", "rmdir"}
        /\ \A s \in Threads \ {t} : pc'[s] = pc[s]
    BY <1>0, Known DEF Mislead, Handlers
  <1>3. \A b \in Tabs : TabInv(b)'
    BY <1>0, <1>1, <1>2, TabStays
  <1>4. ASSUME NEW s \in Threads PROVE FiledBy(s)'
    <2>1. CASE s = t
      BY <1>2, <2>1 DEF FiledBy
    <2>2. CASE s # t
      BY <1>1, <1>2, <2>2, HandlerFiled
    <2> QED BY <2>1, <2>2
  <1>5. OneServed' /\ page' \in [Tabs -> Page]
    BY <1>0 DEF OneServed
  <1> QED BY <1>1, <1>3, <1>4, <1>5, PartsNext DEF Grows

LEMMA DownInv ==
  ASSUME PageInv, Down
  PROVE  PageInv'
  <1>0. UploadInv /\ page \in [Tabs -> Page] /\ Crash /\ \A b \in Tabs : TabInv(b)
    BY PageParts DEF Down
  <1>1. Grows
    <2>1. rows' = rows
      BY <1>0 DEF Crash, tables
    <2> QED BY <1>0, <2>1, CrashInv DEF Grows, RowsStay
  <1>2. ASSUME NEW b \in Tabs
        PROVE  page'[b] \in Page /\ TabInv(b)' /\ page'[b].by = None
    <2>1. CASE page[b].by = None
      <3>1. page'[b] = page[b]
        BY <2>1 DEF Down
      <3> QED BY <1>0, <1>1, <2>1, <3>1, TabStays
    <2>2. CASE page[b].by # None
      <3>1. page'[b] = Moved(page[b], "failed") /\ page[b] \in Page
        BY <1>0, <2>2 DEF Down
      <3>2. /\ page'[b] \in Page /\ page'[b].by = None /\ page'[b].at = "failed"
            /\ page'[b].id = page[b].id /\ page'[b].next = page[b].next /\ page'[b].plan = page[b].plan
        BY <3>1 DEF Moved, Page
      <3> QED BY <1>0, <1>1, <3>2, TabAtRest DEF TabInv
    <2> QED BY <2>1, <2>2
  <1>3. page' \in [Tabs -> Page]
    BY <1>2 DEF Down
  <1>4. OneServed' /\ \A t \in Threads : FiledBy(t)'
    BY <1>0, <1>2 DEF OneServed, FiledBy, Crash
  <1> QED BY <1>1, <1>2, <1>3, <1>4, PartsNext DEF Grows

LEMMA FreshPage ==
  ASSUME NEW p \in Plans
  PROVE  /\ Fresh(p) \in Page /\ Fresh(p).at = "init" /\ Fresh(p).by = None /\ Fresh(p).id = 0
         /\ Fresh(p).next < Fresh(p).plan.total
         /\ LET q == [Fresh(p) EXCEPT !.at = "rest"]
            IN  q \in Page /\ q.at = "rest" /\ q.by = None /\ q.id = 0 /\ q.next < q.plan.total
  <1>1. 0 < p.total
    BY PlanTypes
  <1>2. /\ Fresh(p) \in Page /\ Fresh(p).at = "init" /\ Fresh(p).by = None /\ Fresh(p).id = 0
        /\ Fresh(p).next = 0 /\ Fresh(p).plan = p
    BY DEF Fresh, Page, Waiting
  <1> DEFINE q == [Fresh(p) EXCEPT !.at = "rest"]
  <1>3. q \in Page /\ q.at = "rest" /\ q.by = None /\ q.id = 0 /\ q.next = 0 /\ q.plan = p
    BY DEF Fresh, Page, Waiting
  <1> QED BY <1>1, <1>2, <1>3

LEMMA StartInv ==
  ASSUME PageInv, NEW b \in Tabs, Start(b) \/ Retry(b)
  PROVE  PageInv'
  <1>0. UploadInv /\ page \in [Tabs -> Page] /\ page[b].plan \in Plans
    BY PageParts DEF Page
  <1>1. PICK p \in Plans : page' = [page EXCEPT ![b] = Fresh(p)]
    BY <1>0 DEF Start, Retry
  <1>2. Grows /\ UNCHANGED <<pc, req>>
    BY <1>0, NothingGrows, Parts DEF Start, Retry, vars, bounds, BoundsOK, handler
  <1>3. page'[b] = Fresh(p)
    BY <1>0, <1>1
  <1>4. TabInv(b)'
    BY <1>2, <1>3, FreshPage, TabAtRest
  <1> QED BY <1>1, <1>2, <1>3, <1>4, FreshPage, PageGoesOn

LEMMA LoseInv ==
  ASSUME PageInv, NEW b \in Tabs, Lose(b)
  PROVE  PageInv'
  <1>0. UploadInv /\ page \in [Tabs -> Page] /\ page[b] \in Page /\ TabInv(b)
    BY PageParts
  <1>1. Grows /\ UNCHANGED <<pc, req>>
    BY <1>0, NothingGrows, Parts DEF Lose, BoundsOK, handler
  <1>2. page'[b] = Moved(page[b], "failed") /\ page' = [page EXCEPT ![b] = page'[b]]
    BY <1>0 DEF Lose
  <1>3. /\ page'[b] \in Page /\ page'[b].by = None /\ page'[b].at = "failed"
        /\ page'[b].id = page[b].id /\ page'[b].next = page[b].next /\ page'[b].plan = page[b].plan
    BY <1>0, <1>2 DEF Moved, Page
  <1>4. TabInv(b)'
    BY <1>0, <1>1, <1>3, TabAtRest DEF TabInv
  <1> QED BY <1>1, <1>2, <1>3, <1>4, PageGoesOn

\* What a page asks for is a request that Uploads knows.
LEMMA PageRequest ==
  ASSUME PageInv, NEW b \in Tabs
  PROVE  LET r == RequestOf(page[b]) IN
         /\ page[b].at = "init" => r \in InitReq /\ r.op = "init"
         /\ page[b].at = "chunk" => r \in ChunkReq /\ r.op = "chunk"
         /\ page[b].at = "complete" => r \in CompleteReq /\ r.op = "complete"
  <1> DEFINE p == page[b]
  <1>0. p \in Page /\ TabInv(b) /\ p.plan \in Plans
    BY PageParts DEF Page
  <1>1. p.at \in {"chunk", "complete"} => p.id \in DOMAIN sessions
    BY <1>0 DEF TabInv, PageKnows
  <1>2. p.next \in Indexes /\ p.plan.sha[p.next + 1] \in Pieces
    <2>1. p.plan.total \in Nat \ {0} /\ p.plan.sha \in Seq(Pieces)
      BY <1>0, PlanTypes
    <2>2. p.next \in 0 .. p.plan.total - 1 /\ p.next + 1 \in 1 .. p.plan.total
      BY <1>0, <2>1 DEF TabInv, Page
    <2>3. Len(p.plan.sha) = p.plan.total /\ p.next \in Indexes
      BY <1>0, <2>2, FilesAssumption
    <2> QED BY <2>1, <2>2, <2>3, ElementOfSeq
  <1> HIDE DEF p
  <1>3. p.at = "init" => RequestOf(p) \in InitReq /\ RequestOf(p).op = "init"
    BY <1>0 DEF RequestOf, InitReq
  <1>4. p.at = "chunk" => RequestOf(p) \in ChunkReq /\ RequestOf(p).op = "chunk"
    BY <1>1, <1>2 DEF RequestOf, ChunkReq
  <1>5. p.at = "complete" => RequestOf(p) \in CompleteReq /\ RequestOf(p).op = "complete"
    BY <1>1 DEF RequestOf, CompleteReq
  <1> QED BY <1>3, <1>4, <1>5 DEF p

LEMMA TakeUpInv ==
  ASSUME PageInv, NEW b \in Tabs, TakeUp(b)
  PROVE  PageInv'
  <1>0. UploadInv /\ page \in [Tabs -> Page] /\ page[b] \in Page /\ OneServed /\ \A c \in Tabs : TabInv(c)
    BY PageParts
  <1>1. PICK t \in Threads :
          /\ At(t, "idle") /\ req' = [req EXCEPT ![t] = RequestOf(page[b])]
          /\ pc' = [pc EXCEPT ![t] = IF page[b].at = "init" THEN "parent" ELSE "session"]
          /\ page' = [page EXCEPT ![b].by = t]
    BY DEF TakeUp
  <1>2. /\ page[b].at \in {"init", "chunk", "complete"} /\ page[b].by = None
        /\ UNCHANGED <<tables, disk, work, bounds>>
    BY DEF TakeUp
  <1>3. /\ req'[t] = RequestOf(page[b])
        /\ pc'[t] = IF page[b].at = "init" THEN "parent" ELSE "session"
        /\ Moves(t) /\ work'[t] \in Locals
        /\ \A s \in Threads \ {t} : pc'[s] = pc[s] /\ req'[s] = req[s]
    BY <1>0, <1>1, <1>2, Known DEF Handlers, Moves
  <1>4. Grows
    <2>1. Store' /\ NothingLost
      BY <1>0, <1>2, Known, UnchangedStore
    <2>2. BoundsOK'
      BY <1>0, <1>2, Parts DEF BoundsOK, bounds
    <2>3. RequestOK(t)'
      BY <1>2, <1>3, PageRequest DEF RequestOK, InitLabels, ChunkLabels, CompleteLabels, tables,
                                      InitReq, ChunkReq, CompleteReq
    <2>4. Knows(t)'
      BY <1>2, <1>3, PageRequest DEF Knows
    <2>5. UploadInv'
      BY <1>0, <1>3, <2>1, <2>2, <2>3, <2>4, HandlerMoves DEF HandlerInv
    <2> QED BY <1>2, <2>1, <2>5 DEF Grows, RowsStay, tables
  <1>5. /\ page'[b] \in Page /\ page'[b].by = t /\ page'[b].at = page[b].at
        /\ page'[b].plan = page[b].plan /\ page'[b].id = page[b].id /\ page'[b].next = page[b].next
        /\ page'[b].up = page[b].up /\ page'[b].refused = page[b].refused
        /\ page' \in [Tabs -> Page] /\ \A c \in Tabs \ {b} : page'[c] = page[c]
    BY <1>0, <1>1 DEF Page
  <1>6. \A c \in Tabs : page[c].by # t
    BY <1>1, Serving DEF At
  <1>7. OneServed'
    BY <1>0, <1>5, <1>6 DEF OneServed
  <1>8. TabInv(b)'
    <2>1. TabInv(b) /\ page[b].id <= Len(sessions')
      BY <1>0, <1>2 DEF TabInv, tables
    <2>2. RequestOf(page'[b]) = RequestOf(page[b])
      BY <1>2, <1>5 DEF RequestOf
    <2>3. PageKnows(page[b])'
      BY <1>2, <1>5, <2>1 DEF TabInv, PageKnows, tables
    <2> QED BY <1>2, <1>3, <1>5, <2>1, <2>2, <2>3 DEF TabInv, tables
  <1>9. ASSUME NEW c \in Tabs, c # b PROVE TabInv(c)'
    <2>1. page[c].by # None => req'[page[c].by] = req[page[c].by]
      BY <1>0, <1>3, <1>6 DEF Page
    <2> QED BY <1>4, <1>5, <1>9, <2>1, TabStays
  <1>10. \A s \in Threads : FiledBy(s)'
    <2>1. FiledBy(t)'
      BY <1>3 DEF FiledBy
    <2> QED BY <1>3, <1>4, <2>1, HandlerFiled
  <1> QED BY <1>4, <1>5, <1>7, <1>8, <1>9, <1>10, PartsNext DEF Grows

\* The chunks that status lists are all in the table.
LEMMA ListedInv ==
  ASSUME PageInv, Grows, NEW b \in Tabs, page[b].at = "status", NEW listed \in SUBSET Nat,
         \A j \in listed : <<page[b].id, j>> \in chunkRows,
         UNCHANGED <<pc, req, sessions, chunkRows>>, Listed(b, listed)
  PROVE  PageInv'
  <1> DEFINE p == [page[b] EXCEPT !.up = listed]
  <1>0. UploadInv /\ page \in [Tabs -> Page] /\ page[b] \in Page /\ TabInv(b)
    BY PageParts
  <1>1. page' = [page EXCEPT ![b] = SendFrom(p, 0)]
    BY DEF Listed
  <1>2. page'[b] = SendFrom(p, 0) /\ page' = [page EXCEPT ![b] = page'[b]]
    BY <1>0, <1>1
  <1>3. /\ p \in Page /\ p.up = listed /\ p.id = page[b].id /\ p.plan = page[b].plan /\ p.next = page[b].next
    BY <1>0 DEF Page
  <1>4. p.id \in DOMAIN sessions' /\ sessions'[p.id].plan = p.plan
    BY <1>0, <1>3 DEF TabInv, PageKnows
  <1> HIDE DEF p
  <1>5. Goes(p, SendFrom(p, 0), chunkRows')
    <2>1. \A j \in 0 .. 0 - 1 : <<p.id, j>> \in chunkRows'
      OBVIOUS
    <2> QED BY <1>0, <1>3, <2>1, SendFromGoes DEF TabInv
  <1>6. page'[b] \in Page /\ page'[b].by = None /\ TabInv(b)'
    BY <1>2, <1>3, <1>4, <1>5, TabGoes DEF Grows
  <1> QED BY <1>2, <1>6, PageGoesOn

LEMMA StatusInv ==
  ASSUME PageInv, NEW b \in Tabs, Status(b) \/ StatusMisled(b)
  PROVE  PageInv'
  <1> DEFINE listed == {c[2] : c \in ChunkRowsOf(page[b].id)}
  <1>0. UploadInv
    BY PageParts
  <1>1. page[b].at = "status" /\ UNCHANGED <<tables, disk, handler>> /\ BoundsOK'
    <2>1. {issued, others, faults} \subseteq Nat /\ misled \in BOOLEAN
      BY <1>0, Parts
    <2>2. page[b].at = "status" /\ UNCHANGED <<tables, disk, handler>>
      BY DEF Status, StatusMisled, vars
    <2>3. {issued, others, faults}' \subseteq Nat
      BY <2>1 DEF Status, StatusMisled, vars, bounds
    <2>4. misled' = misled \/ misled' = TRUE
      BY DEF Status, StatusMisled, vars, bounds
    <2>5. misled' \in BOOLEAN
      BY <2>1, <2>4, Zenon
    <2> QED BY <2>2, <2>3, <2>5 DEF BoundsOK
  <1>2. Grows /\ UNCHANGED <<pc, req, sessions, chunkRows>>
    <2>1. UNCHANGED <<pc, req, sessions, chunkRows>>
      BY <1>1 DEF handler, tables
    <2> QED BY <1>0, <1>1, <2>1, NothingGrows
  <1>3. listed \subseteq Nat /\ \A j \in listed : <<page[b].id, j>> \in chunkRows
    <2>1. chunkRows \subseteq (DOMAIN sessions) \X Nat
      BY <1>0 DEF UploadInv, TypeOK, TablesOK
    <2> QED BY <2>1 DEF ChunkRowsOf
  <1>4. Listed(b, listed) \/ Listed(b, {})
    BY DEF Status, StatusMisled
  <1> HIDE DEF listed
  <1> QED BY <1>1, <1>2, <1>3, <1>4, ListedInv

LEMMA InstantInv ==
  ASSUME PageInv, NEW b \in Tabs, Instant(b)
  PROVE  PageInv'
  <1> DEFINE p   == page[b].plan
             row == [parent |-> p.parent, name |-> p.name, content |-> p.sha, deleted |-> FALSE, from |-> 0]
  <1>0. UploadInv /\ page \in [Tabs -> Page] /\ page[b] \in Page /\ TabInv(b) /\ p \in Plans
    BY PageParts DEF Page
  <1>1. /\ UNCHANGED <<folder, sessions, chunkRows, disk, handler, bounds>>
        /\ \/ AddRow(row) /\ page' = [page EXCEPT ![b] = Moved(page[b], "done")]
           \/ UNCHANGED <<rows, nextRow>> /\ page' = [page EXCEPT ![b] = Moved(page[b], "failed")]
    BY DEF Instant
  <1>2. BoundsOK' /\ UNCHANGED <<pc, req>>
    BY <1>0, <1>1, Parts DEF BoundsOK, bounds, handler
  <1>3. /\ page'[b] = Moved(page[b], "done") \/ page'[b] = Moved(page[b], "failed")
        /\ page' = [page EXCEPT ![b] = page'[b]]
    BY <1>0, <1>1
  <1>4. /\ page'[b] \in Page /\ page'[b].by = None /\ page'[b].at \in {"done", "failed"}
        /\ page'[b].id = page[b].id /\ page'[b].next = page[b].next /\ page'[b].plan = p
    BY <1>0, <1>3 DEF Moved, Page
  <1>5. CASE AddRow(row) /\ page'[b] = Moved(page[b], "done")
    <2>1. row \in RowType /\ row.from = 0
      BY <1>0, PlanTypes DEF RowType
    <2>2. Grows /\ nextRow \in DOMAIN rows' /\ rows'[nextRow] = row
      <3> HIDE DEF row
      <3>1. Store' /\ NothingLost
        BY <1>0, <1>1, <1>5, <2>1, Parts, AddRowStore
      <3>2. UploadInv'
        BY <1>0, <1>1, <1>2, <3>1, NobodyMoves
      <3> QED BY <1>0, <1>5, <3>1, <3>2, RowAdded DEF Grows
    <2>3. Filed(p)'
      BY <1>4, <2>2 DEF Filed
    <2>4. page'[b].at = "done" /\ page'[b].id <= Len(sessions')
      BY <1>0, <1>1, <1>4, <1>5 DEF TabInv, Moved, Page
    <2>5. TabInv(b)'
      BY <1>0, <1>4, <2>3, <2>4 DEF TabInv, PageKnows
    <2> QED BY <1>2, <1>3, <1>4, <2>2, <2>5, PageGoesOn
  <1>6. CASE UNCHANGED <<rows, nextRow>> /\ page'[b] = Moved(page[b], "failed")
    <2>1. Grows
      BY <1>0, <1>1, <1>2, <1>6, NothingGrows DEF tables
    <2>2. page'[b].at = "failed"
      BY <1>0, <1>6 DEF Moved, Page
    <2>3. TabInv(b)'
      BY <1>0, <1>4, <2>1, <2>2, TabAtRest DEF TabInv
    <2> QED BY <1>2, <1>3, <1>4, <2>1, <2>3, PageGoesOn
  <1> QED BY <1>0, <1>1, <1>5, <1>6

LEMMA OvernightInv ==
  ASSUME PageInv, Overnight
  PROVE  PageInv'
  <1>0. UploadInv /\ page \in [Tabs -> Page] /\ OneServed
    BY PageParts
  <1>1. PICK s \in DOMAIN sessions : sessions' = [sessions EXCEPT ![s].expired = TRUE]
    BY DEF Overnight
  <1>2. UNCHANGED <<folder, rows, nextRow, chunkRows, disk, handler, bounds, page>>
    BY DEF Overnight
  <1>3. BoundsOK' /\ UNCHANGED <<pc, req>>
    BY <1>0, <1>2, Parts DEF BoundsOK, bounds, handler
  <1>4. Grows
    <2>1. Store' /\ NothingLost
      BY <1>0, <1>1, <1>2, Parts, ExpiredStore
    <2>2. UploadInv'
      BY <1>0, <1>2, <1>3, <2>1, NobodyMoves
    <2> QED BY <1>2, <2>1, <2>2 DEF Grows, RowsStay
  <1>5. \A b \in Tabs : TabInv(b)'
    BY <1>2, <1>3, <1>4, TabStays
  <1>6. \A t \in Threads : FiledBy(t)'
    BY <1>3, <1>4, HandlerFiled
  <1>7. OneServed' /\ page' \in [Tabs -> Page]
    BY <1>0, <1>2 DEF OneServed
  <1> QED BY <1>4, <1>5, <1>6, <1>7, PartsNext DEF Grows

LEMMA PageStays ==
  ASSUME PageInv, UNCHANGED all
  PROVE  PageInv'
  <1>0. UploadInv /\ page \in [Tabs -> Page] /\ OneServed
    BY PageParts
  <1>1. UNCHANGED <<tables, disk, handler, bounds, page, pc, req>>
    BY DEF all, vars, handler
  <1>2. Grows
    BY <1>0, <1>1, NothingGrows, Parts DEF BoundsOK, bounds
  <1>3. \A b \in Tabs : TabInv(b)'
    BY <1>1, <1>2, TabStays
  <1>4. \A t \in Threads : FiledBy(t)'
    BY <1>1, <1>2, HandlerFiled
  <1>5. OneServed' /\ page' \in [Tabs -> Page]
    BY <1>0, <1>1 DEF OneServed
  <1> QED BY <1>2, <1>3, <1>4, <1>5, PartsNext DEF Grows

----------------------------------------------------------------------------
LEMMA PageStarts == PageInit => PageInv
  <1> SUFFICES ASSUME PageInit PROVE PageInv
    OBVIOUS
  <1> DEFINE p == CHOOSE q \in Plans : TRUE
             r == [Fresh(p) EXCEPT !.at = "rest"]
  <1>1. p \in Plans
    BY FilesAssumption
  <1>2. UploadInv /\ sessions = <<>> /\ \A t \in Threads : pc[t] = "idle"
    BY InitInv DEF PageInit, Init
  <1>3. r \in Page /\ r.at = "rest" /\ r.by = None /\ r.id = 0 /\ r.next < r.plan.total
    BY <1>1, FreshPage
  <1>4. page = [b \in Tabs |-> r]
    BY DEF PageInit
  <1> HIDE DEF r
  <1>5. \A b \in Tabs : TabInv(b)
    BY <1>2, <1>3, <1>4 DEF TabInv, PageKnows
  <1>6. OneServed /\ page \in [Tabs -> Page] /\ \A t \in Threads : FiledBy(t)
    BY <1>2, <1>3, <1>4 DEF OneServed, FiledBy
  <1> QED BY <1>2, <1>5, <1>6, PageParts

LEMMA PageStep == PageInv /\ [PageNext]_all => PageInv'
  <1> SUFFICES ASSUME PageInv, [PageNext]_all PROVE PageInv'
    OBVIOUS
  <1>1. ASSUME NEW b \in Tabs,
               \/ Start(b) \/ Retry(b) \/ TakeUp(b) \/ Status(b) \/ StatusMisled(b)
               \/ Instant(b) \/ Lose(b)
        PROVE  PageInv'
    BY <1>1, StartInv, TakeUpInv, StatusInv, InstantInv, LoseInv
  <1>2. ASSUME NEW t \in Threads, Serve(t) \/ Failing(t) \/ Misled(t)
        PROVE  PageInv'
    BY <1>2, ServeInv, FailingInv, MisledInv
  <1> QED BY <1>1, <1>2, DownInv, OvernightInv, PageStays DEF PageNext

\* With any number of tabs and threads, any files and any faults, PageInv holds: what a
\* page takes for uploaded is listed, and who serves it serves what it waits for
\* (app.js 387-462 with FileRoutes.cpp 223-373).
THEOREM PageInvHolds == PageSpec => []PageInv
  BY PageStarts, PageStep, PTL DEF PageSpec

\* The pages and the handlers keep their types, and a handler that serves a page has
\* its request (app.js 387-462).
THEOREM PageTypes == PageSpec => []PageTypeOK
  <1>1. PageInv => PageTypeOK
    BY DEF PageInv
  <1> QED BY <1>1, PageInvHolds, PTL

\* What a page calls complete is filed, with the content that was picked, whatever was
\* lost on the way (app.js 446-461).
THEOREM DoneIsFiledHolds == PageSpec => []DoneIsFiled
  <1>1. PageInv => DoneIsFiled
    BY DEF PageInv
  <1> QED BY <1>1, PageInvHolds, PTL

\* Unless a chunk of this try was refused, all chunks are listed when the page asks for
\* completion (app.js 425-446): skipping what status lists leaves out nothing.
THEOREM AllSentHolds == PageSpec => []AllSent
  <1>1. PageInv => AllSent
    BY DEF PageInv
  <1> QED BY <1>1, PageInvHolds, PTL
============================================================================
