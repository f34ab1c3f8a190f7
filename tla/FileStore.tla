----------------------------- MODULE FileStore -----------------------------
(***************************************************************************)
(* The file tree of the cloud disk: the tables files, file_objects, users   *)
(* and shares, the objects/ directory on disk, and the request handlers of  *)
(* FileRoutes.cpp, FileOps.cpp and ShareRoutes.cpp that change them.        *)
(*                                                                          *)
(* The server has no transactions: every SQL statement commits by itself    *)
(* and every handler is a sequence of statements and file operations, run   *)
(* by one of Drogon's threads.  One statement, or one operation on the      *)
(* disk, is one step here, so that the handlers of several threads, an      *)
(* exception and the death of the process interleave at every place where   *)
(* the program lets them.                                                   *)
(***************************************************************************)
EXTENDS Integers, FiniteSets, SequencesExt

CONSTANTS Users,        \* users.id
          Names,        \* file names that isValidName accepts, up to collation
          Contents,     \* file contents, identified with their contentHash
          SizeOf,       \* the size in bytes of each content
          Threads,      \* Drogon's worker threads
          Requests,     \* the requests clients send
          MaxRequests,  \* bound: requests handled in a behaviour
          MaxFaults     \* bound: statements that fail or mislead, and process deaths

\* The bodies and parameters of the requests, once parsed and validated.  A size is
\* one that the columns hold: a larger one makes a statement throw, as in Fail.
FolderReq  == [op : {"folder"}, user : Users, parent : Nat, name : Names]
UploadReq  == [op : {"upload"}, user : Users, parent : Nat, name : Names,
               sha : Contents]
InstantReq == [op : {"instant"}, user : Users, parent : Nat, name : Names,
               sha : Contents, size : Nat]
TreeReq    == [op : {"delete", "restore", "purge"}, user : Users, id : Nat]
ShareReq   == [op : {"share"}, user : Users, id : Nat]
AnyRequest == FolderReq \cup UploadReq \cup InstantReq \cup TreeReq \cup ShareReq
NoRequest  == [op |-> "none"]

ASSUME SizeAssumption     == SizeOf \in [Contents -> Nat]
ASSUME RequestsAssumption == Requests \subseteq AnyRequest
ASSUME BoundsAssumption   == MaxRequests \in Nat /\ MaxFaults \in Nat
ASSUME ThreadsAssumption  == IsFiniteSet(Threads)

VARIABLES files,      \* the rows of files: id -> row
          nextFile,   \* AUTO_INCREMENT of files
          objects,    \* the rows of file_objects: id -> [sha, ref]
          nextObject, \* AUTO_INCREMENT of file_objects
          used,       \* users.storage_used
          shares,     \* the file ids that rows of shares refer to
          disk,       \* the file objects/<sha>: absent, cut short, or whole
          pc,         \* what each thread executes next
          req,        \* the request each thread is handling
          work,       \* the local variables of its handler
          issued,     \* number of requests begun (bounds the model)
          faults      \* number of faults so far (bounds the model)

tables  == <<files, nextFile, objects, nextObject, used, shares>>
handler == <<pc, req, work>>
bounds  == <<issued, faults>>
vars    == <<tables, disk, handler, bounds>>

\* object_id is NULL (0) in the row of a folder, parent_id is 0 at the top.
Row == [user : Users, parent : Nat, obj : Nat, name : Names, size : Nat,
        dir : BOOLEAN, deleted : BOOLEAN]
NoRow == <<>>
EmptyTable == [i \in {} |-> NoRow]

(* The locals of a handler: the object id at hand, the row it read (file,   *)
(* rows[0]), the path it is going to remove, the vectors of collectSubtree, *)
(* and, for the properties only, the id its last INSERT was given and the   *)
(* SELECTs that did not show it the row there was.                          *)
FreshWork == [obj |-> 0, row |-> NoRow, path |-> "none", ids |-> <<>>,
              queue |-> <<>>, made |-> 0, unseen |-> {}]

----------------------------------------------------------------------------
\* What the SELECTs of the handlers return.

ActiveRow(u, id)  == id \in DOMAIN files /\ files[id].user = u /\ ~files[id].deleted
OwnRow(u, id)     == id \in DOMAIN files /\ files[id].user = u \* faulty: without is_deleted
DeletedRow(u, id) == id \in DOMAIN files /\ files[id].user = u /\ files[id].deleted

\* Faulty: without is_dir = TRUE.
ParentAnyRow(u, p) == p = 0 \/ ActiveRow(u, p)

ParentExists(u, p) == p = 0 \/ (ActiveRow(u, p) /\ files[p].dir)

NameTaken(u, p, n) ==
  \E i \in DOMAIN files : ActiveRow(u, i) /\ files[i].parent = p /\ files[i].name = n

ObjectsWith(sha) == {o \in DOMAIN objects : objects[o].sha = sha}

\* Faulty: the flag is inverted.
OtherKids(u, p, deletedOnly) ==
  {i \in DOMAIN files : /\ files[i].user = u
                        /\ files[i].parent = p
                        /\ files[i].deleted # deletedOnly}

Kids(u, p, deletedOnly) ==
  {i \in DOMAIN files : /\ files[i].user = u
                        /\ files[i].parent = p
                        /\ files[i].deleted = deletedOnly}

\* ORDER BY id DESC LIMIT 1: the newest of a set of rows, if there is one.
Oldest(S) == {i \in S : \A j \in S : i <= j} \* faulty: ascending
Newest(S) == {i \in S : \A j \in S : j <= i}

\* The row insertFileRow answers with, and the one the folder handler does.
FetchedFile(u, o, n) ==
  Newest({i \in DOMAIN files : files[i].user = u /\ files[i].obj = o /\ files[i].name = n})
FetchedDir(u, p, n) ==
  Newest({i \in DOMAIN files : ActiveRow(u, i) /\ files[i].parent = p /\ files[i].name = n})

----------------------------------------------------------------------------
\* How a handler moves on, answers, or is cut off.

At(t, label) == pc[t] = label

Goto(t, label) == pc' = [pc EXCEPT ![t] = label] /\ UNCHANGED <<req, bounds>>

Abandon(t) == /\ pc'   = [pc EXCEPT ![t] = "idle"]
              /\ req'  = [req EXCEPT ![t] = NoRequest]
              /\ work' = [work EXCEPT ![t] = FreshWork]

Reply(t) == Abandon(t) /\ UNCHANGED bounds

\* The threads that have the file of a content open for writing.
WritersOf(c) == {t \in Threads : pc[t] \in {"fill", "refill"} /\ req[t].sha = c}

\* The process dies; a file that was being written may be complete by then.
Die == /\ pc'   = [t \in Threads |-> "idle"]
       /\ req'  = [t \in Threads |-> NoRequest]
       /\ work' = [t \in Threads |-> FreshWork]
       /\ \E done \in SUBSET {c \in Contents : WritersOf(c) # {} /\ disk[c] = "partial"} :
            disk' = [c \in Contents |-> IF c \in done THEN "whole" ELSE disk[c]]

\* Reading [0] of an empty result is undefined: an error reply or a dead process.
Undefined(t) == /\ faults' = faults + 1
                /\ (Abandon(t) /\ UNCHANGED disk) \/ Die
                /\ UNCHANGED <<tables, issued>>

FirstLabel(op) == IF op \in {"folder", "upload", "instant"} THEN "parent" ELSE "root"

\* A request is dispatched to a free thread; requireUser has accepted its token.
Begin(t) == /\ At(t, "idle") /\ issued < MaxRequests
            /\ \E r \in Requests : /\ req' = [req EXCEPT ![t] = r]
                                   /\ pc'  = [pc EXCEPT ![t] = FirstLabel(r.op)]
            /\ issued' = issued + 1
            /\ UNCHANGED <<tables, disk, work, faults>>

----------------------------------------------------------------------------
\* POST /api/folders, /api/files/upload and /api/files/instant.

CheckParent(t) ==
  /\ At(t, "parent")
  /\ IF ParentExists(req[t].user, req[t].parent)
     THEN Goto(t, "name") /\ UNCHANGED work
     ELSE Reply(t)
  /\ UNCHANGED <<tables, disk>>

CheckName(t) ==
  /\ At(t, "name")
  /\ IF NameTaken(req[t].user, req[t].parent, req[t].name)
     THEN Reply(t)
     ELSE Goto(t, IF req[t].op = "folder" THEN "insertDir" ELSE "findObj") /\ UNCHANGED work
  /\ UNCHANGED <<tables, disk>>

\* INSERT INTO files: the row gets the next id.
AddRow(t, row) ==
  /\ files' = [i \in DOMAIN files \cup {nextFile} |-> IF i = nextFile THEN row ELSE files[i]]
  /\ nextFile' = nextFile + 1
  /\ work' = [work EXCEPT ![t].made = nextFile]

InsertDir(t) ==
  /\ At(t, "insertDir")
  /\ AddRow(t, [user |-> req[t].user, parent |-> req[t].parent, obj |-> 0,
                name |-> req[t].name, size |-> 0, dir |-> TRUE, deleted |-> FALSE])
  /\ Goto(t, "fetchDir")
  /\ UNCHANGED <<objects, nextObject, used, shares, disk>>

FetchDir(t) ==
  /\ At(t, "fetchDir")
  /\ IF FetchedDir(req[t].user, req[t].parent, req[t].name) = {}
     THEN Undefined(t)
     ELSE Reply(t) /\ UNCHANGED <<tables, disk>>

FindObject(t) ==
  /\ At(t, "findObj")
  /\ LET found == ObjectsWith(req[t].sha) IN
     IF found # {}
     THEN /\ \E o \in found : work' = [work EXCEPT ![t].obj = o]
          /\ Goto(t, IF req[t].op = "upload" THEN "exists" ELSE "addRef")
     ELSE IF req[t].op = "upload" THEN Goto(t, "write") /\ UNCHANGED work
                                  ELSE Reply(t)
  /\ UNCHANGED <<tables, disk>>

\* writeBytes opens and truncates the file, and then fills it.
OpenObject(t) ==
  /\ \/ At(t, "write")   /\ Goto(t, "fill")
     \/ At(t, "rewrite") /\ Goto(t, "refill")
  /\ disk' = [disk EXCEPT ![req[t].sha] = "partial"]
  /\ UNCHANGED <<tables, work>>

\* The stream is not looked at again: a full disk cuts the file short.  It stays
\* incomplete while another thread has truncated it and is writing, and a file that
\* was removed after it was opened has no name to be found by.
Written(t) ==
  \E end \in {"partial", "whole"} :
    /\ disk' = [disk EXCEPT ![req[t].sha] = IF @ = "partial" THEN end ELSE @]
    /\ IF end = "whole" \/ WritersOf(req[t].sha) # {t}
       THEN faults' = faults
       ELSE faults < MaxFaults /\ faults' = faults + 1

WriteObject(t) ==
  /\ At(t, "fill") /\ Written(t)
  /\ pc' = [pc EXCEPT ![t] = "insertObj"]
  /\ UNCHANGED <<tables, req, work, issued>>

\* sha256 is UNIQUE: if another thread was first the INSERT throws.
InsertObject(t) ==
  /\ At(t, "insertObj")
  /\ IF ObjectsWith(req[t].sha) # {}
     THEN Reply(t) /\ UNCHANGED <<objects, nextObject>>
     ELSE /\ objects' = [o \in DOMAIN objects \cup {nextObject} |->
                           IF o = nextObject THEN [sha |-> req[t].sha, ref |-> 1]
                                             ELSE objects[o]]
          /\ nextObject' = nextObject + 1
          /\ work' = [work EXCEPT ![t].made = nextObject]
          /\ Goto(t, "fetchObj")
  /\ UNCHANGED <<files, nextFile, used, shares, disk>>

FetchObject(t) ==
  /\ At(t, "fetchObj")
  /\ IF ObjectsWith(req[t].sha) = {}
     THEN Undefined(t)
     ELSE /\ \E o \in ObjectsWith(req[t].sha) : work' = [work EXCEPT ![t].obj = o]
          /\ Goto(t, "insertRow")
          /\ UNCHANGED <<tables, disk>>

\* Faulty: writes the file again without looking.
AlwaysRewrite(t) == At(t, "exists") /\ Goto(t, "rewrite") /\ UNCHANGED <<tables, disk, work>>

CheckExists(t) ==
  /\ At(t, "exists")
  /\ Goto(t, IF disk[req[t].sha] = "absent" THEN "rewrite" ELSE "addRef")
  /\ UNCHANGED <<tables, disk, work>>

\* The UPDATE of storage_path and size_bytes that follows writes what is there.
RewriteObject(t) ==
  /\ At(t, "refill") /\ Written(t)
  /\ pc' = [pc EXCEPT ![t] = "addRef"]
  /\ UNCHANGED <<tables, req, work, issued>>

\* Faulty: a row more on the object, the same count.
ForgetRef(t) == At(t, "addRef") /\ Goto(t, "insertRow") /\ UNCHANGED <<tables, disk, work>>

AddRef(t) ==
  /\ At(t, "addRef")
  /\ objects' = [o \in DOMAIN objects |->
                   IF o = work[t].obj THEN [objects[o] EXCEPT !.ref = @ + 1] ELSE objects[o]]
  /\ Goto(t, "insertRow")
  /\ UNCHANGED <<files, nextFile, nextObject, used, shares, disk, work>>

\* An instant upload takes the size from the request.
ReqSize(r) == IF r.op = "upload" THEN SizeOf[r.sha] ELSE r.size

\* The foreign key on object_id rejects the row when the object is gone.
InsertRow(t) ==
  /\ At(t, "insertRow")
  /\ IF work[t].obj \in DOMAIN objects
     THEN /\ AddRow(t, [user |-> req[t].user, parent |-> req[t].parent,
                        obj |-> work[t].obj, name |-> req[t].name,
                        size |-> ReqSize(req[t]), dir |-> FALSE, deleted |-> FALSE])
          /\ Goto(t, "addUsed")
     ELSE Reply(t) /\ UNCHANGED <<files, nextFile>>
  /\ UNCHANGED <<objects, nextObject, used, shares, disk>>

AddUsed(t) ==
  /\ At(t, "addUsed")
  /\ used' = [used EXCEPT ![req[t].user] = @ + ReqSize(req[t])]
  /\ Goto(t, "fetchId")
  /\ UNCHANGED <<files, nextFile, objects, nextObject, shares, disk, work>>

FetchId(t) ==
  /\ At(t, "fetchId")
  /\ IF FetchedFile(req[t].user, work[t].obj, req[t].name) = {}
     THEN Undefined(t)
     ELSE Reply(t) /\ UNCHANGED <<tables, disk>>

----------------------------------------------------------------------------
\* DELETE /api/files, the recycle bin, and POST /api/shares.

RootFound(r) == CASE r.op = "delete" -> ActiveRow(r.user, r.id)
                  [] r.op = "share"  -> ActiveRow(r.user, r.id) /\ ~files[r.id].dir
                  [] OTHER           -> DeletedRow(r.user, r.id)

AfterRoot(op) == CASE op = "share"   -> "insertShare"
                   [] op = "restore" -> "restoreName"
                   [] OTHER          -> "collect"

FindRoot(t) ==
  /\ At(t, "root")
  /\ IF RootFound(req[t])
     THEN /\ work' = [work EXCEPT ![t].row = files[req[t].id],
                                  ![t].ids = <<req[t].id>>, ![t].queue = <<req[t].id>>]
          /\ Goto(t, AfterRoot(req[t].op))
     ELSE Reply(t)
  /\ UNCHANGED <<tables, disk>>

InsertShare(t) ==
  /\ At(t, "insertShare")
  /\ shares' = IF req[t].id \in DOMAIN files THEN shares \cup {req[t].id} ELSE shares
  /\ Reply(t)
  /\ UNCHANGED <<files, nextFile, objects, nextObject, used, disk>>

\* Faulty: restores next to a row of the same name.
SkipRestoreName(t) == At(t, "restoreName") /\ Goto(t, "collect") /\ UNCHANGED <<tables, disk, work>>

CheckRestoreName(t) ==
  /\ At(t, "restoreName")
  /\ IF NameTaken(req[t].user, work[t].row.parent, work[t].row.name)
     THEN Reply(t)
     ELSE Goto(t, "collect") /\ UNCHANGED work
  /\ UNCHANGED <<tables, disk>>

AfterCollect(op) == CASE op = "delete"  -> "mark"
                      [] op = "restore" -> "unmark"
                      [] OTHER          -> "pick"

\* Faulty: the new ids are listed before their folder.
CollectKidsFirst(t) ==
  /\ At(t, "collect")
  /\ \E order \in SetToSeqs(Kids(req[t].user, Last(work[t].queue), req[t].op # "delete")) :
       LET rest == Front(work[t].queue) \o order IN
       /\ work' = [work EXCEPT ![t].ids = order \o @, ![t].queue = rest]
       /\ Goto(t, IF rest = <<>> THEN AfterCollect(req[t].op) ELSE "collect")
  /\ UNCHANGED <<tables, disk>>

\* One round of collectSubtree: the children come in any order.
CollectKids(t) ==
  /\ At(t, "collect")
  /\ \E order \in SetToSeqs(Kids(req[t].user, Last(work[t].queue), req[t].op # "delete")) :
       LET rest == Front(work[t].queue) \o order IN
       /\ work' = [work EXCEPT ![t].ids = @ \o order, ![t].queue = rest]
       /\ Goto(t, IF rest = <<>> THEN AfterCollect(req[t].op) ELSE "collect")
  /\ UNCHANGED <<tables, disk>>

\* UPDATE files SET is_deleted of the next id, first to last.
SetDeleted(t, flag) ==
  /\ files' = [i \in DOMAIN files |->
                 IF i = Head(work[t].ids) /\ files[i].user = req[t].user
                 THEN [files[i] EXCEPT !.deleted = flag] ELSE files[i]]
  /\ IF Tail(work[t].ids) = <<>>
     THEN Reply(t)
     ELSE work' = [work EXCEPT ![t].ids = Tail(@)] /\ UNCHANGED <<pc, req, bounds>>
  /\ UNCHANGED <<nextFile, objects, nextObject, used, shares, disk>>

SoftDeleteNext(t) == At(t, "mark") /\ SetDeleted(t, TRUE)
RestoreNext(t)    == At(t, "unmark") /\ SetDeleted(t, FALSE)

----------------------------------------------------------------------------
\* DELETE /api/recycle/permanent: the ids from last to first.

Victim(t) == Last(work[t].ids)

\* Faulty: never moves on.
SameVictim(t) == Goto(t, "pick") /\ UNCHANGED work

NextVictim(t) ==
  IF Front(work[t].ids) = <<>>
  THEN Reply(t)
  ELSE work' = [work EXCEPT ![t].ids = Front(@)] /\ Goto(t, "pick")

PickVictim(t) ==
  /\ At(t, "pick")
  /\ IF DeletedRow(req[t].user, Victim(t))
     THEN work' = [work EXCEPT ![t].row = files[Victim(t)]] /\ Goto(t, "dropShares")
     ELSE NextVictim(t)
  /\ UNCHANGED <<tables, disk>>

DropShares(t) ==
  /\ At(t, "dropShares")
  /\ shares' = shares \ {Victim(t)}
  /\ Goto(t, "dropRow")
  /\ UNCHANGED <<files, nextFile, objects, nextObject, used, disk, work>>

\* A share made since DropShares makes the foreign key reject the DELETE; a row
\* that is gone, or active again, makes no difference to what follows.
DropRow(t) ==
  /\ At(t, "dropRow")
  /\ IF Victim(t) \in shares
     THEN Reply(t) /\ UNCHANGED files
     ELSE /\ files' = [i \in DOMAIN files \ {Victim(t)} |-> files[i]]
          /\ IF work[t].row.dir THEN NextVictim(t) ELSE Goto(t, "subUsed") /\ UNCHANGED work
  /\ UNCHANGED <<nextFile, objects, nextObject, used, shares, disk>>

\* GREATEST(a - b, 0)
Less(a, b) == IF a > b THEN a - b ELSE 0

SubUsed(t) ==
  /\ At(t, "subUsed")
  /\ used' = [used EXCEPT ![req[t].user] = Less(@, work[t].row.size)]
  /\ Goto(t, "unref")
  /\ UNCHANGED <<files, nextFile, objects, nextObject, shares, disk, work>>

Unref(t) ==
  /\ At(t, "unref")
  /\ objects' = [o \in DOMAIN objects |->
                   IF o = work[t].row.obj THEN [objects[o] EXCEPT !.ref = Less(@, 1)]
                                          ELSE objects[o]]
  /\ Goto(t, "readRef")
  /\ UNCHANGED <<files, nextFile, nextObject, used, shares, disk, work>>

ReadRef(t) ==
  /\ At(t, "readRef")
  /\ LET o == work[t].row.obj IN
     IF o \in DOMAIN objects /\ objects[o].ref = 0
     THEN work' = [work EXCEPT ![t].path = objects[o].sha] /\ Goto(t, "unlink")
     ELSE NextVictim(t)
  /\ UNCHANGED <<tables, disk>>

\* remove(path, ec): an error leaves the file behind and is ignored.
Unlink(t) ==
  /\ At(t, "unlink")
  /\ \/ disk' = [disk EXCEPT ![work[t].path] = "absent"] /\ faults' = faults
     \/ faults < MaxFaults /\ faults' = faults + 1 /\ disk' = disk
  /\ pc' = [pc EXCEPT ![t] = "dropObject"]
  /\ UNCHANGED <<tables, req, work, issued>>

DropObject(t) ==
  /\ At(t, "dropObject")
  /\ LET o == work[t].row.obj IN
     IF \E i \in DOMAIN files : files[i].obj = o
     THEN Reply(t) /\ UNCHANGED objects
     ELSE objects' = [x \in DOMAIN objects \ {o} |-> objects[x]] /\ NextVictim(t)
  /\ UNCHANGED <<files, nextFile, nextObject, used, shares, disk>>

----------------------------------------------------------------------------
\* A statement or an open() throws: the route answers with an error.  Filling an
\* open file does not throw.  A SELECT of the parent, the root or the content of an
\* instant upload that is misled (below) has the same effect.
Fail(t) == /\ pc[t] \notin {"idle", "fill", "refill"} /\ faults < MaxFaults
           /\ Abandon(t)
           /\ faults' = faults + 1
           /\ UNCHANGED <<tables, disk, issued>>

\* query() returns no rows, and throws nothing, when mysql_store_result has no result
\* (Mislead of Statements): the handler goes on as if nothing were there.  A name looks
\* free, a content looks new,
Overlook(t) ==
  /\ \/ /\ At(t, "name") /\ NameTaken(req[t].user, req[t].parent, req[t].name)
        /\ pc' = [pc EXCEPT ![t] = IF req[t].op = "folder" THEN "insertDir" ELSE "findObj"]
     \/ /\ At(t, "restoreName") /\ NameTaken(req[t].user, work[t].row.parent, work[t].row.name)
        /\ pc' = [pc EXCEPT ![t] = "collect"]
     \/ /\ At(t, "findObj") /\ req[t].op = "upload" /\ ObjectsWith(req[t].sha) # {}
        /\ pc' = [pc EXCEPT ![t] = "write"]
  /\ work' = [work EXCEPT ![t].unseen = @ \cup {pc[t]}]
  /\ UNCHANGED req

\* a folder looks empty,
OverlookKids(t) ==
  /\ At(t, "collect") /\ Kids(req[t].user, Last(work[t].queue), req[t].op # "delete") # {}
  /\ LET rest == Front(work[t].queue) IN
     /\ work' = [work EXCEPT ![t].queue = rest]
     /\ pc' = [pc EXCEPT ![t] = IF rest = <<>> THEN AfterCollect(req[t].op) ELSE "collect"]
  /\ UNCHANGED req

\* a row to purge, or an object to remove, looks gone.
PassOver(t) ==
  /\ \/ At(t, "pick") /\ DeletedRow(req[t].user, Victim(t))
     \/ At(t, "readRef") /\ work[t].row.obj \in DOMAIN objects
  /\ IF Front(work[t].ids) = <<>>
     THEN Abandon(t)
     ELSE /\ work' = [work EXCEPT ![t].ids = Front(@)]
          /\ pc' = [pc EXCEPT ![t] = "pick"]
          /\ UNCHANGED req

\* A handler that reads back what it inserted indexes [0] without a look.
Mislead(t) ==
  /\ faults < MaxFaults
  /\ \/ pc[t] \in {"fetchDir", "fetchObj", "fetchId"} /\ Undefined(t)
     \/ /\ Overlook(t) \/ OverlookKids(t) \/ PassOver(t)
        /\ faults' = faults + 1 /\ UNCHANGED <<tables, disk, issued>>

\* The server is killed and started again.
Crash == /\ \E t \in Threads : pc[t] # "idle"
         /\ faults < MaxFaults /\ faults' = faults + 1
         /\ Die
         /\ UNCHANGED <<tables, issued>>

Step(t) ==
  \/ CheckParent(t) \/ CheckName(t) \/ InsertDir(t) \/ FetchDir(t)
  \/ FindObject(t) \/ OpenObject(t) \/ WriteObject(t) \/ InsertObject(t) \/ FetchObject(t)
  \/ CheckExists(t) \/ RewriteObject(t) \/ AddRef(t)
  \/ InsertRow(t) \/ AddUsed(t) \/ FetchId(t)
  \/ FindRoot(t) \/ InsertShare(t) \/ CheckRestoreName(t) \/ CollectKids(t)
  \/ SoftDeleteNext(t) \/ RestoreNext(t)
  \/ PickVictim(t) \/ DropShares(t) \/ DropRow(t) \/ SubUsed(t)
  \/ Unref(t) \/ ReadRef(t) \/ Unlink(t) \/ DropObject(t)

\* Every request the model allows has been answered.
Quiet == issued = MaxRequests /\ \A t \in Threads : pc[t] = "idle"

Init == /\ files = EmptyTable /\ nextFile = 1
        /\ objects = EmptyTable /\ nextObject = 1
        /\ used = [u \in Users |-> 0]
        /\ shares = {}
        /\ disk = [c \in Contents |-> "absent"]
        /\ pc = [t \in Threads |-> "idle"]
        /\ req = [t \in Threads |-> NoRequest]
        /\ work = [t \in Threads |-> FreshWork]
        /\ issued = 0 /\ faults = 0

Next == \/ \E t \in Threads : Begin(t) \/ Step(t) \/ Fail(t) \/ Mislead(t)
        \/ Crash
        \/ Quiet /\ UNCHANGED vars

Spec == Init /\ [][Next]_vars

\* A thread never stops in the middle of a handler: no step waits for anything.
FairSpec == Spec /\ \A t \in Threads : WF_vars(Step(t))
============================================================================
