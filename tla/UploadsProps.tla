---------------------------- MODULE UploadsProps ----------------------------
(***************************************************************************)
(* What chunked uploads promise, stated about Uploads.                      *)
(***************************************************************************)
EXTENDS Uploads

InitLabels     == {"parent", "name", "object", "find", "insert"}
ChunkLabels    == {"session", "mkdir", "write", "fill", "record"}
CompleteLabels == {"session", "count", "mkdir", "merge", "check", "name", "create", "mark", "rmdir"}

InitReq     == [op : {"init"}, plan : Plans]
ChunkReq    == [op : {"chunk"}, id : DOMAIN sessions, index : Indexes, piece : Pieces]
CompleteReq == [op : {"complete"}, id : DOMAIN sessions]
Labels      == {"idle"} \cup InitLabels \cup ChunkLabels \cup CompleteLabels
Requests    == {NoRequest} \cup InitReq \cup ChunkReq \cup CompleteReq
Locals      == Seq(Pieces \cup {Torn})

TablesOK ==
  /\ folder \in {"active", "deleted", "gone"}
  /\ nextRow \in Nat \ {0} /\ DOMAIN rows \subseteq 1 .. nextRow - 1
  /\ rows \in [DOMAIN rows -> RowType]
  /\ \A i \in DOMAIN rows : rows[i].from \in {0} \cup DOMAIN sessions
  /\ sessions \in Seq(Session)
  /\ chunkRows \subseteq (DOMAIN sessions) \X Nat

DiskOK ==
  /\ dirs \subseteq DOMAIN sessions
  /\ DOMAIN temp \subseteq dirs \X Nat
  /\ temp \in [DOMAIN temp -> Pieces \cup {Torn}]

\* A handler's request fits where it is.
RequestOK(t) ==
  \/ pc[t] = "idle" /\ req[t] = NoRequest
  \/ pc[t] \in InitLabels /\ req[t] \in InitReq
  \/ pc[t] \in ChunkLabels /\ req[t] \in ChunkReq
  \/ pc[t] \in CompleteLabels /\ req[t] \in CompleteReq

\* The type invariant.
TypeOK ==
  /\ TablesOK /\ DiskOK
  /\ pc \in [Threads -> Labels] /\ req \in [Threads -> Requests] /\ work \in [Threads -> Locals]
  /\ \A t \in Threads : RequestOK(t)
  /\ {issued, others, faults} \subseteq Nat /\ misled \in BOOLEAN

----------------------------------------------------------------------------
\* A file made from chunks has the content its session was opened for, whatever
\* chunks were sent, sent again or cut short meanwhile (FileRoutes.cpp 353-358).
ContentAsPlanned ==
  \A i \in DOMAIN rows : rows[i].from # 0 => rows[i].content = sessions[rows[i].from].plan.sha

Uploading(id) == sessions[id].status = "uploading"

\* A chunk that upload_chunks lists is on disk as long as its session is open, so
\* a complete that has counted total_chunks rows finds every file it merges.
ListedChunksThere == \A c \in chunkRows : Uploading(c[1]) => c \in DOMAIN temp
CountedChunksThere ==
  \A t \in Threads :
    /\ req[t].op = "complete" /\ pc[t] \in {"mkdir", "merge"} /\ Uploading(req[t].id)
    => \A i \in 0 .. PlanOf(t).total - 1 : <<req[t].id, i>> \in DOMAIN temp

\* What a handler knows from the steps it has done, and no other handler undoes:
\* the merged content is the one planned, the index is in range, the chunk is on
\* disk, the session is closed, every chunk is listed.
Knows(t) ==
  /\ pc[t] = "create" \/ (pc[t] = "name" /\ req[t].op = "complete") => work[t] = PlanOf(t).sha
  /\ req[t].op = "chunk" /\ pc[t] # "session" => req[t].index < PlanOf(t).total
  /\ pc[t] \in {"fill", "record"} /\ Uploading(req[t].id) => ChunkOf(t) \in DOMAIN temp
  /\ pc[t] = "rmdir" => ~Uploading(req[t].id)
  /\ req[t].op = "complete" /\ pc[t] \in {"mkdir", "merge"}
       => \A i \in 0 .. PlanOf(t).total - 1 : <<req[t].id, i>> \in chunkRows

\* The inductive invariant: the contents, the listed chunks, and what every
\* handler has checked stay right while other handlers run, fail and are killed
\* (FileRoutes.cpp 299-373).
UploadInv ==
  /\ TypeOK
  /\ ContentAsPlanned
  /\ ListedChunksThere
  /\ \A c \in chunkRows : c[2] < sessions[c[1]].plan.total
  /\ \A t \in Threads : Knows(t)

\* The plan of a session never changes, a closed session is not opened again, no
\* chunk is struck off the list, and no chunk file goes while its session is open.
NothingLost ==
  /\ DOMAIN sessions \subseteq DOMAIN sessions'
  /\ \A s \in DOMAIN sessions : /\ sessions'[s].plan = sessions[s].plan
                                /\ sessions'[s].status = "uploading" => Uploading(s)
  /\ chunkRows \subseteq chunkRows'
  /\ \A c \in DOMAIN temp : sessions'[c[1]].status = "uploading" => c \in DOMAIN temp'
NeverLost == [][NothingLost]_vars

\* A session is closed only with the file in place, and stays closed
\* (FileRoutes.cpp 364-368).
ClosedWithFile ==
  [][\A s \in DOMAIN sessions :
       /\ sessions[s].status = "completed" => sessions'[s].status = "completed"
       /\ sessions'[s].status # sessions[s].status
            => \E i \in DOMAIN rows : rows[i].from = s /\ rows[i].content = sessions[s].plan.sha]_vars

\* Init of the plan of an open session resumes it (FileRoutes.cpp 249 and the
\* smoke test, 221): there is never a second one to resume, as long as MySQL has shown
\* every SELECT its rows (MySqlDatabase.cpp 45-48).
OneToResume == ~misled => \A p \in Plans : Cardinality(Resumable(p)) <= 1

\* A session makes one file, if nothing fails before it is closed.
OneFileEach == faults = 0 => \A i, j \in DOMAIN rows : rows[i].from # 0 /\ rows[i].from = rows[j].from => i = j

\* Nothing is left of a closed session but its rows, once its handler is done.
TempGone ==
  faults = 0 /\ (\A t \in Threads : pc[t] = "idle") =>
     \A s \in DOMAIN sessions : ~Uploading(s) => s \notin dirs

\* What a resumed upload skips is what was sent: the listed chunks are whole.
ListedChunksWhole == \A c \in chunkRows \cap DOMAIN temp : Uploading(c[1]) => temp[c] # Torn

\* nameTaken (FileOps.h 18): no two active rows of a folder have the same name, likewise.
UniqueNames ==
  ~misled => \A i, j \in DOMAIN rows : /\ i # j /\ ~rows[i].deleted /\ ~rows[j].deleted
                                       /\ rows[i].parent = rows[j].parent
                                       => rows[i].name # rows[j].name

\* A file is put into a folder that exists (RouteUtils.cpp 175).
FolderThere == \A i \in DOMAIN rows : rows[i].parent = Folder => folder # "gone"
----------------------------------------------------------------------------
\* With one thread, what a handler has checked still holds when it acts on it.
OneOpen == ~misled => \A s, u \in DOMAIN sessions :
             LET p == sessions[s].plan IN
             sessions[u].plan = p /\ {s, u} \subseteq Resumable(p) => s = u

Checked(t) ==
  /\ pc[t] = "insert" /\ ~misled => Resumable(PlanOf(t)) = {}
  /\ req[t].op \in {"chunk", "complete"} /\ pc[t] \notin {"session", "rmdir"} => Uploading(req[t].id)
  /\ pc[t] = "create" /\ ~misled => ~NameTaken(PlanOf(t).parent, PlanOf(t).name)
  /\ pc[t] = "mark" => \E i \in DOMAIN rows : /\ rows[i].from = req[t].id
                                              /\ rows[i].content = PlanOf(t).sha

\* Rows and directories are left of a session while a complete is at work on it.
RowsClosed == \A i \in DOMAIN rows :
                \/ rows[i].from = 0 \/ ~Uploading(rows[i].from)
                \/ \E t \in Threads : pc[t] = "mark" /\ req[t].id = rows[i].from
DirsOpen == \A s \in dirs : Uploading(s) \/ \E t \in Threads : pc[t] = "rmdir" /\ req[t].id = s

\* The inductive invariant of one thread.
AloneInv == /\ OneOpen /\ UniqueNames /\ OneFileEach
            /\ faults = 0 => RowsClosed /\ DirsOpen
            /\ \A t \in Threads : Checked(t)
============================================================================
