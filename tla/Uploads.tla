------------------------------ MODULE Uploads ------------------------------
(***************************************************************************)
(* Uploads in chunks: the tables upload_sessions and upload_chunks, the     *)
(* directories uploads/<upload_id>/ and the handlers of /api/uploads in     *)
(* FileRoutes.cpp, one statement or disk operation a step.                  *)
(*                                                                          *)
(* What the other handlers do to the rows of files is an action each here;  *)
(* FileStore has their statements.  A content is the sequence of its        *)
(* pieces, and stands for its contentHash: hashes are taken to be unequal   *)
(* for unequal contents.                                                    *)
(***************************************************************************)
EXTENDS Integers, FiniteSets, Sequences

CONSTANTS Names,       \* file names
          Pieces,      \* what one chunk can hold
          Plans,       \* the bodies of POST /api/uploads/init
          Indexes,     \* the chunk_index values clients send
          Threads,     \* Drogon's worker threads
          MaxRequests, \* bound: requests handled in a behaviour
          MaxOthers,   \* bound: what other handlers and the clock do
          MaxFaults    \* bound: failed calls, short writes, process deaths

Folder == 1 \* the id of the one folder; 0 is the top

\* total_chunks and size_bytes are what the client says; chunk_size only tells
\* sessions apart and is part of what makes two plans different.
Plan == [parent : {0, Folder}, name : Names, sha : Seq(Pieces), size : Nat, total : Nat \ {0}]

ASSUME PlansAssumption   == Plans \subseteq Plan
ASSUME IndexesAssumption == Indexes \subseteq Nat
ASSUME BoundsAssumption  == {MaxRequests, MaxOthers, MaxFaults} \subseteq Nat

VARIABLES folder,    \* the folder: active, deleted (in the recycle bin) or gone
          rows,      \* the rows of files that are files: id -> row
          nextRow,   \* AUTO_INCREMENT of files
          sessions,  \* the rows of upload_sessions, by upload_id
          chunkRows, \* the rows of upload_chunks: <<upload_id, chunk_index>>
          dirs,      \* the directories uploads/<upload_id>
          temp,      \* the chunk files: <<upload_id, chunk_index>> -> piece
          pc, req, work, \* each thread: where it is, its request, its locals
          misled,    \* a SELECT has been given no result for a row that is there
          issued, others, faults \* bounds

tables  == <<folder, rows, nextRow, sessions, chunkRows>>
disk    == <<dirs, temp>>
handler == <<pc, req, work>>
bounds  == <<misled, issued, others, faults>>
vars    == <<tables, disk, handler, bounds>>

\* from is the session a row was completed from, 0 for a direct upload.
RowType == [parent : {0, Folder}, name : Names, content : Seq(Pieces), deleted : BOOLEAN, from : Nat]
Session == [plan : Plans, status : {"uploading", "completed"}, expired : BOOLEAN]
Torn    == "torn"

NoRequest == [op |-> "none"]

----------------------------------------------------------------------------
\* What the SELECTs return.

ParentExists(p) == p = 0 \/ folder = "active"
NameTaken(p, n) == \E i \in DOMAIN rows :
                     ~rows[i].deleted /\ rows[i].parent = p /\ rows[i].name = n
ObjectWith(sha) == \E i \in DOMAIN rows : rows[i].content = sha

\* Faulty: also those that have expired.
ResumableEver(plan) == {s \in DOMAIN sessions : /\ sessions[s].plan = plan
                                                /\ sessions[s].status = "uploading"}
Resumable(plan) == {s \in DOMAIN sessions : /\ sessions[s].plan = plan
                                            /\ sessions[s].status = "uploading"
                                            /\ ~sessions[s].expired}

ChunkRowsOf(id) == {c \in chunkRows : c[1] = id}

----------------------------------------------------------------------------
At(t, label)   == pc[t] = label
Goto(t, label) == pc' = [pc EXCEPT ![t] = label] /\ UNCHANGED <<req, bounds>>

Abandon(t) == /\ pc'   = [pc EXCEPT ![t] = "idle"]
              /\ req'  = [req EXCEPT ![t] = NoRequest]
              /\ work' = [work EXCEPT ![t] = <<>>]
Reply(t)   == Abandon(t) /\ UNCHANGED bounds

Begin(t) ==
  /\ At(t, "idle") /\ issued < MaxRequests
  /\ \/ \E p \in Plans : /\ req' = [req EXCEPT ![t] = [op |-> "init", plan |-> p]]
                         /\ pc' = [pc EXCEPT ![t] = "parent"]
     \/ \E id \in DOMAIN sessions, i \in Indexes, piece \in Pieces :
          /\ req' = [req EXCEPT ![t] = [op |-> "chunk", id |-> id, index |-> i, piece |-> piece]]
          /\ pc' = [pc EXCEPT ![t] = "session"]
     \/ \E id \in DOMAIN sessions :
          /\ req' = [req EXCEPT ![t] = [op |-> "complete", id |-> id]]
          /\ pc' = [pc EXCEPT ![t] = "session"]
  /\ issued' = issued + 1
  /\ UNCHANGED <<tables, disk, work, misled, others, faults>>

\* The plan a handler works for: the request's, or that of the row it loaded
\* (nothing changes those columns later).
PlanOf(t) == IF req[t].op = "init" THEN req[t].plan ELSE sessions[req[t].id].plan

----------------------------------------------------------------------------
\* POST /api/uploads/init

CheckParent(t) ==
  /\ At(t, "parent")
  /\ IF ParentExists(PlanOf(t).parent) THEN Goto(t, "name") /\ UNCHANGED work ELSE Reply(t)
  /\ UNCHANGED <<tables, disk>>

\* Faulty: no check.
SkipName(t) == /\ At(t, "name")
               /\ Goto(t, IF req[t].op = "init" THEN "object" ELSE "create")
               /\ UNCHANGED <<tables, disk, work>>

\* The same check, in init and in complete.
CheckName(t) ==
  /\ At(t, "name")
  /\ IF NameTaken(PlanOf(t).parent, PlanOf(t).name)
     THEN Reply(t)
     ELSE Goto(t, IF req[t].op = "init" THEN "object" ELSE "create") /\ UNCHANGED work
  /\ UNCHANGED <<tables, disk>>

\* "instant_available": the content is there, no session is needed.
CheckObject(t) ==
  /\ At(t, "object")
  /\ IF ObjectWith(PlanOf(t).sha) THEN Reply(t) ELSE Goto(t, "find") /\ UNCHANGED work
  /\ UNCHANGED <<tables, disk>>

\* Faulty: a new session each time.
SkipFind(t) == At(t, "find") /\ Goto(t, "insert") /\ UNCHANGED <<tables, disk, work>>

\* An unfinished upload of the same plan is resumed.
FindSession(t) ==
  /\ At(t, "find")
  /\ IF Resumable(PlanOf(t)) # {} THEN Reply(t) ELSE Goto(t, "insert") /\ UNCHANGED work
  /\ UNCHANGED <<tables, disk>>

InsertSession(t) ==
  /\ At(t, "insert")
  /\ sessions' = Append(sessions, [plan |-> PlanOf(t), status |-> "uploading", expired |-> FALSE])
  /\ Reply(t)
  /\ UNCHANGED <<folder, rows, nextRow, chunkRows, disk>>

----------------------------------------------------------------------------
\* POST /api/uploads/chunk and /api/uploads/complete begin with the session.

IndexInRange(t) == req[t].op = "chunk" => req[t].index < PlanOf(t).total

LoadSession(t) ==
  /\ At(t, "session")
  /\ IF sessions[req[t].id].status = "uploading" /\ IndexInRange(t)
     THEN Goto(t, IF req[t].op = "chunk" THEN "mkdir" ELSE "count") /\ UNCHANGED work
     ELSE Reply(t)
  /\ UNCHANGED <<tables, disk>>

\* uploadTempDir creates the directory for whoever asks.
MakeDir(t) ==
  /\ At(t, "mkdir")
  /\ dirs' = dirs \cup {req[t].id}
  /\ Goto(t, IF req[t].op = "chunk" THEN "write" ELSE "merge")
  /\ UNCHANGED <<tables, temp, work>>

ChunkOf(t) == <<req[t].id, req[t].index>>
Put(key, piece) == [k \in DOMAIN temp \cup {key} |-> IF k = key THEN piece ELSE temp[k]]

\* open() truncates the file of the chunk; it fails without the directory.
OpenChunk(t) ==
  /\ At(t, "write")
  /\ IF req[t].id \in dirs
     THEN temp' = Put(ChunkOf(t), Torn) /\ Goto(t, "fill") /\ UNCHANGED work
     ELSE Reply(t) /\ UNCHANGED temp
  /\ UNCHANGED <<tables, dirs>>

\* A write cut short goes unnoticed, and so does one mixed with another handler's: both
\* count as faults.  A file that was removed since it was opened takes no notice.
FillChunk(t) ==
  /\ At(t, "fill")
  /\ IF ChunkOf(t) \in DOMAIN temp
     THEN \/ temp' = Put(ChunkOf(t), req[t].piece) /\ UNCHANGED faults
          \/ temp' = Put(ChunkOf(t), Torn) /\ faults < MaxFaults /\ faults' = faults + 1
     ELSE UNCHANGED <<temp, faults>>
  /\ pc' = [pc EXCEPT ![t] = "record"]
  /\ UNCHANGED <<tables, dirs, req, work, misled, issued, others>>

\* ON DUPLICATE KEY UPDATE: sending a chunk again is fine.
RecordChunk(t) ==
  /\ At(t, "record")
  /\ chunkRows' = chunkRows \cup {ChunkOf(t)}
  /\ Reply(t)
  /\ UNCHANGED <<folder, rows, nextRow, sessions, disk>>

----------------------------------------------------------------------------
\* The rest of POST /api/uploads/complete.

\* Faulty: only too many chunks are refused.
CountNoMore(t) ==
  /\ At(t, "count")
  /\ IF Cardinality(ChunkRowsOf(req[t].id)) <= PlanOf(t).total
     THEN Goto(t, "mkdir") /\ UNCHANGED work
     ELSE Reply(t)
  /\ UNCHANGED <<tables, disk>>

CountChunks(t) ==
  /\ At(t, "count")
  /\ IF Cardinality(ChunkRowsOf(req[t].id)) = PlanOf(t).total
     THEN Goto(t, "mkdir") /\ UNCHANGED work
     ELSE Reply(t)
  /\ UNCHANGED <<tables, disk>>

\* mergeChunks opens 0, 1, ... in turn and throws when one is missing.
MergeNext(t) ==
  /\ At(t, "merge")
  /\ LET next == <<req[t].id, Len(work[t])>> IN
     IF next \in DOMAIN temp
     THEN /\ work' = [work EXCEPT ![t] = Append(@, temp[next])]
          /\ Goto(t, IF Len(work[t]) + 1 = PlanOf(t).total THEN "check" ELSE "merge")
     ELSE Reply(t)
  /\ UNCHANGED <<tables, disk>>

CheckContent(t) ==
  /\ At(t, "check")
  /\ IF work[t] = PlanOf(t).sha /\ Len(work[t]) = PlanOf(t).size
     THEN Goto(t, "name") /\ UNCHANGED work
     ELSE Reply(t)
  /\ UNCHANGED <<tables, disk>>

AddRow(row) == /\ rows' = [i \in DOMAIN rows \cup {nextRow} |-> IF i = nextRow THEN row ELSE rows[i]]
               /\ nextRow' = nextRow + 1

\* Faulty: the session is closed without a file.
SkipCreate(t) == At(t, "create") /\ Goto(t, "mark") /\ UNCHANGED <<tables, disk, work>>

\* createFileFromContent, whose statements FileStore has (UploadReq).
CreateFile(t) ==
  /\ At(t, "create")
  /\ AddRow([parent |-> PlanOf(t).parent, name |-> PlanOf(t).name, content |-> work[t],
             deleted |-> FALSE, from |-> req[t].id])
  /\ Goto(t, "mark")
  /\ UNCHANGED <<folder, sessions, chunkRows, disk, work>>

\* Faulty: the session stays open.
LeaveOpen(t) == At(t, "mark") /\ Goto(t, "rmdir") /\ UNCHANGED <<tables, disk, work>>

MarkCompleted(t) ==
  /\ At(t, "mark")
  /\ sessions' = [sessions EXCEPT ![req[t].id].status = "completed"]
  /\ Goto(t, "rmdir")
  /\ UNCHANGED <<folder, rows, nextRow, chunkRows, disk, work>>

\* Faulty: only the directory entry.
KeepChunks(t) == At(t, "rmdir") /\ Reply(t) /\ UNCHANGED <<tables, disk>>

\* remove_all(dir, ec): an error leaves it behind and is ignored.
RemoveDir(t) ==
  /\ At(t, "rmdir")
  /\ dirs' = dirs \ {req[t].id}
  /\ temp' = [k \in {x \in DOMAIN temp : x[1] # req[t].id} |-> temp[k]]
  /\ Reply(t)
  /\ UNCHANGED tables

----------------------------------------------------------------------------
\* What else happens to the rows: the other handlers, each in one step of a thread
\* that is free.

Elsewhere == /\ \E t \in Threads : At(t, "idle")
             /\ others < MaxOthers /\ others' = others + 1
             /\ UNCHANGED <<sessions, chunkRows, disk, handler, misled, issued, faults>>

\* POST /api/files/upload
OtherUpload ==
  /\ Elsewhere /\ UNCHANGED folder
  /\ \E p \in Plans :
       /\ ParentExists(p.parent) /\ ~NameTaken(p.parent, p.name)
       /\ AddRow([parent |-> p.parent, name |-> p.name, content |-> p.sha, deleted |-> FALSE,
                  from |-> 0])

\* DELETE /api/files of a file, and of the folder with what is active in it.
DeleteFile ==
  /\ Elsewhere /\ UNCHANGED <<folder, nextRow>>
  /\ \E i \in DOMAIN rows : ~rows[i].deleted /\ rows' = [rows EXCEPT ![i].deleted = TRUE]

DeleteFolder ==
  /\ Elsewhere /\ UNCHANGED nextRow
  /\ folder = "active" /\ folder' = "deleted"
  /\ rows' = [i \in DOMAIN rows |-> IF rows[i].parent = Folder
                                    THEN [rows[i] EXCEPT !.deleted = TRUE] ELSE rows[i]]

\* DELETE /api/recycle/permanent of a file, and of the folder with what is deleted in it.
PurgeFile ==
  /\ Elsewhere /\ UNCHANGED <<folder, nextRow>>
  /\ \E i \in DOMAIN rows : rows[i].deleted /\ rows' = [j \in DOMAIN rows \ {i} |-> rows[j]]

PurgeFolder ==
  /\ Elsewhere /\ UNCHANGED nextRow
  /\ folder = "deleted" /\ folder' = "gone"
  /\ rows' = [i \in {j \in DOMAIN rows : ~(rows[j].parent = Folder /\ rows[j].deleted)} |-> rows[i]]

\* A day passes: expires_at is no longer later than NOW().
Expire ==
  /\ others < MaxOthers /\ others' = others + 1
  /\ \E s \in DOMAIN sessions : /\ ~sessions[s].expired
                                /\ sessions' = [sessions EXCEPT ![s].expired = TRUE]
  /\ UNCHANGED <<folder, rows, nextRow, chunkRows, disk, handler, misled, issued, faults>>

----------------------------------------------------------------------------
\* A statement or a disk operation throws, or remove_all stops early.  Filling an open file
\* does not throw.  A SELECT of the parent, the session or the count that is misled (below)
\* has the same effect, or that of Crash.
Fail(t) == /\ pc[t] \notin {"idle", "fill"} /\ faults < MaxFaults
           /\ Abandon(t)
           /\ faults' = faults + 1
           /\ UNCHANGED <<tables, disk, misled, issued, others>>

\* query() returns no rows, and throws nothing, when mysql_store_result has no result
\* (Mislead of Statements): a name looks free, a content new, a session missing.
Mislead(t) ==
  /\ faults < MaxFaults /\ faults' = faults + 1
  /\ \/ /\ At(t, "name") /\ NameTaken(PlanOf(t).parent, PlanOf(t).name)
        /\ pc' = [pc EXCEPT ![t] = IF req[t].op = "init" THEN "object" ELSE "create"]
     \/ /\ At(t, "object") /\ ObjectWith(PlanOf(t).sha)
        /\ pc' = [pc EXCEPT ![t] = "find"]
     \/ /\ At(t, "find") /\ Resumable(PlanOf(t)) # {}
        /\ pc' = [pc EXCEPT ![t] = "insert"]
  /\ misled' = TRUE
  /\ UNCHANGED <<tables, disk, req, work, issued, others>>

\* The server is killed and started again; a chunk it was writing stays cut.
Crash ==
  /\ \E t \in Threads : pc[t] # "idle"
  /\ faults < MaxFaults /\ faults' = faults + 1
  /\ pc'   = [t \in Threads |-> "idle"]
  /\ req'  = [t \in Threads |-> NoRequest]
  /\ work' = [t \in Threads |-> <<>>]
  /\ UNCHANGED <<tables, disk, misled, issued, others>>

Step(t) ==
  \/ CheckParent(t) \/ CheckName(t) \/ CheckObject(t) \/ FindSession(t) \/ InsertSession(t)
  \/ LoadSession(t) \/ MakeDir(t) \/ OpenChunk(t) \/ FillChunk(t) \/ RecordChunk(t)
  \/ CountChunks(t) \/ MergeNext(t) \/ CheckContent(t) \/ CreateFile(t) \/ MarkCompleted(t)
  \/ RemoveDir(t)

Other == OtherUpload \/ DeleteFile \/ DeleteFolder \/ PurgeFile \/ PurgeFolder \/ Expire

\* Every request the model allows has been answered.
Quiet == issued = MaxRequests /\ \A t \in Threads : pc[t] = "idle"

Init == /\ folder = "active" /\ rows = [i \in {} |-> 0] /\ nextRow = 1
        /\ sessions = <<>> /\ chunkRows = {}
        /\ dirs = {} /\ temp = [k \in {} |-> Torn]
        /\ pc = [t \in Threads |-> "idle"]
        /\ req = [t \in Threads |-> NoRequest]
        /\ work = [t \in Threads |-> <<>>]
        /\ misled = FALSE /\ issued = 0 /\ others = 0 /\ faults = 0

Next == \/ \E t \in Threads : Begin(t) \/ Step(t) \/ Fail(t) \/ Mislead(t)
        \/ Other \/ Crash
        \/ Quiet /\ UNCHANGED vars

Spec == Init /\ [][Next]_vars
============================================================================
