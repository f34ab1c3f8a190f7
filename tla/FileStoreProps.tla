--------------------------- MODULE FileStoreProps ---------------------------
(***************************************************************************)
(* What the file tree promises, stated about FileStore.                     *)
(***************************************************************************)
EXTENDS FileStore

CreateLabels == {"parent", "name", "findObj", "write", "fill", "insertObj", "fetchObj", "exists",
                 "rewrite", "refill", "addRef", "insertRow", "addUsed", "fetchId"}
PurgeLabels  == {"pick", "dropShares", "dropRow", "subUsed", "unref", "readRef", "unlink",
                 "dropObject"}

\* The labels a handler can be at.
LabelsOf(op) ==
  CASE op = "none"    -> {"idle"}
    [] op = "folder"  -> {"parent", "name", "insertDir", "fetchDir"}
    [] op = "upload"  -> CreateLabels
    [] op = "instant" -> {"parent", "name", "findObj", "addRef", "insertRow", "addUsed", "fetchId"}
    [] op = "delete"  -> {"root", "collect", "mark"}
    [] op = "restore" -> {"root", "restoreName", "collect", "unmark"}
    [] op = "share"   -> {"root", "insertShare"}
    [] op = "purge"   -> {"root", "collect"} \cup PurgeLabels

Labels == CreateLabels \cup PurgeLabels \cup
          {"idle", "insertDir", "fetchDir", "root", "collect", "mark", "unmark", "restoreName",
           "insertShare"}

Work == [obj : Nat, row : Row \cup {NoRow}, path : Contents \cup {"none"}, ids : Seq(Nat),
         queue : Seq(Nat), made : Nat, unseen : SUBSET {"name", "restoreName", "findObj"}]

\* What a handler at a label has in its locals.
Fits(label, w) ==
  /\ label \in {"restoreName", "collect"} => w.queue # <<>>
  /\ label \in {"restoreName", "collect", "mark", "unmark"} \cup PurgeLabels => w.ids # <<>>
  /\ label \in {"restoreName", "collect"} \cup PurgeLabels => w.row \in Row
  /\ label = "unlink" => w.path \in Contents

\* Ids come from AUTO_INCREMENT, so no row has one that was not given out, a shared
\* file exists (fk_shares_file), and so does the object of a row (fk_files_object).
TablesOK ==
  /\ nextFile \in Nat \ {0} /\ nextObject \in Nat \ {0}
  /\ DOMAIN files \subseteq 1 .. (nextFile - 1) /\ files \in [DOMAIN files -> Row]
  /\ DOMAIN objects \subseteq 1 .. (nextObject - 1)
  /\ objects \in [DOMAIN objects -> [sha : Contents, ref : Nat]]
  /\ \A i \in DOMAIN files : IF files[i].dir THEN files[i].obj = 0
                                             ELSE files[i].obj \in DOMAIN objects
  /\ shares \subseteq DOMAIN files
  /\ used \in [Users -> Nat]
  /\ disk \in [Contents -> {"absent", "partial", "whole"}]

HandlersOK ==
  /\ pc \in [Threads -> Labels]
  /\ req \in [Threads -> Requests \cup {NoRequest}]
  /\ work \in [Threads -> Work]
  /\ \A t \in Threads : pc[t] \in LabelsOf(req[t].op) /\ Fits(pc[t], work[t])

\* The type invariant, with the foreign keys of the schema.
TypeOK == TablesOK /\ HandlersOK /\ issued \in Nat /\ faults \in Nat

----------------------------------------------------------------------------
\* Reference counts.

RowsOf(o) == {i \in DOMAIN files : files[i].obj = o}

\* The object whose count covers a row that is about to be written, or that was
\* just deleted, by the handler of t; 0 when there is none.
ClaimOf(t) == CASE pc[t] = "fetchObj"            -> work[t].made
                [] pc[t] = "insertRow"           -> work[t].obj
                [] pc[t] \in {"subUsed", "unref"} -> work[t].row.obj
                [] OTHER                         -> 0
ClaimsOf(o) == {t \in Threads : ClaimOf(t) = o}

Held(o) == Cardinality(RowsOf(o)) + Cardinality(ClaimsOf(o))

\* ref_count never falls below the rows of files that refer to the object and
\* the handlers about to add or release one; without faults it is exact.  This is
\* what makes it safe for releaseObject to remove the content at zero
\* (FileOps.cpp 51-62).  It needs NoDoublePurge when there are several threads.
RefCountCovers ==
  \A o \in DOMAIN objects :
    objects[o].ref >= Held(o) /\ (faults = 0 => objects[o].ref = Held(o))

\* No two handlers of permanentDeleteTree are between the SELECT and the DELETE
\* of the same row.
NoDoublePurge ==
  \A s, t \in Threads :
    s # t /\ pc[s] \in {"dropShares", "dropRow"} /\ pc[t] \in {"dropShares", "dropRow"}
      => Victim(s) # Victim(t)

\* What RefCountCovers rests on, step by step.  A handler about to delete a row has
\* read its object; an object whose id is being read back is the one just inserted,
\* and nobody is about to remove it; ids are given once; sha256 is UNIQUE.
VictimRead ==
  \A t \in Threads : pc[t] \in {"dropShares", "dropRow"} =>
    /\ Victim(t) \in DOMAIN files
    /\ work[t].row.obj = files[Victim(t)].obj /\ work[t].row.dir = files[Victim(t)].dir
IdsKnown ==
  \A t \in Threads :
    /\ pc[t] \in {"exists", "rewrite", "refill", "addRef", "insertRow"} => work[t].obj < nextObject
    /\ pc[t] \in PurgeLabels \ {"pick"} => work[t].row.obj < nextObject
FreshObjectSafe ==
  \A t \in Threads : pc[t] = "fetchObj" =>
    /\ work[t].made \in ObjectsWith(req[t].sha)
    /\ \A s \in Threads : pc[s] \in {"unlink", "dropObject"} => work[s].row.obj # work[t].made
ShaUnique ==
  \A o, p \in DOMAIN objects : objects[o].sha = objects[p].sha => o = p

RefInv == /\ TypeOK /\ NoDoublePurge /\ VictimRead /\ IdsKnown /\ FreshObjectSafe /\ ShaUnique
          /\ RefCountCovers

\* The behaviours in which clients do not purge the same row twice at once.
SpecNoOverlap == Init /\ [][Next /\ NoDoublePurge']_vars
FairNoOverlap == SpecNoOverlap /\ \A t \in Threads : WF_vars(Step(t) /\ NoDoublePurge')

----------------------------------------------------------------------------
\* Contents.

Backed(i) == files[i].dir \/ (/\ files[i].obj \in DOMAIN objects
                              /\ disk[objects[files[i].obj].sha] = "whole")

\* An upload that is about to truncate a content which findObjectBySha did not show it
\* (FileOps.cpp 112-116).
Blind(t, sha) == pc[t] = "write" /\ "findObj" \in work[t].unseen /\ req[t].sha = sha

\* A file whose content can be read keeps it as long as its row exists: no upload,
\* purge, exception or crash in the middle of another request takes it away, unless MySQL
\* gave an upload of the same content no result for the object (MySqlDatabase.cpp 45-48),
\* and then only the truncation by that upload does.
ContentKept ==
  [][\A i \in DOMAIN files \cap DOMAIN files' :
       Backed(i) => Backed(i)' \/ \E t \in Threads : Blind(t, objects[files[i].obj].sha)]_vars

\* Without that exception, as a user would have it.
ContentNeverLost ==
  [][\A i \in DOMAIN files \cap DOMAIN files' : Backed(i) => Backed(i)']_vars

\* Of that, releaseObject: a file is not removed while a row refers to it
\* (FileOps.cpp 57-61).
NotRemoved ==
  [][\A i \in DOMAIN files \cap DOMAIN files' :
       Backed(i) /\ ~files'[i].dir => disk'[objects[files[i].obj].sha] # "absent"]_vars

\* Every file row that is added has its whole content, whatever has happened before: the
\* claim of FileOps.h 33 and of the smoke test, that an instant upload gives a file one can
\* download.
InstantHasContent ==
  [][\A i \in DOMAIN files' \ DOMAIN files :
       (\E t \in Threads : req[t].op = "instant") => Backed(i)']_vars

\* What ContentKept rests on with one thread: a file is opened for writing only when no
\* row refers to its content, it is not whole, or the object was not shown, and removed
\* only when no row does.
WriteSafe ==
  \A t \in Threads :
    /\ pc[t] = "write"   => ObjectsWith(req[t].sha) = {} \/ "findObj" \in work[t].unseen
    /\ pc[t] = "rewrite" => disk[req[t].sha] # "whole"
UnlinkSafe ==
  \A t \in Threads : pc[t] = "unlink" =>
    \A i \in DOMAIN files : files[i].dir \/ objects[files[i].obj].sha # work[t].path

KeepInv == RefInv /\ WriteSafe /\ UnlinkSafe

----------------------------------------------------------------------------
\* Quota.

SizeOfRows(u) == MapThenSumSet(LAMBDA i : files[i].size, {i \in DOMAIN files : files[i].user = u})
\* The handlers for u at one label.
Owing(u, label) == {t \in Threads : pc[t] = label /\ req[t].user = u}

\* storage_used is the sum of the sizes of the user's rows, up to the one update
\* that the running handler is about to make (insertFileRow 35-39 and
\* permanentDeleteTree 212-215).
UsedExact ==
  faults = 0 =>
    \A u \in Users :
      used[u] + MapThenSumSet(LAMBDA t : ReqSize(req[t]), Owing(u, "addUsed"))
        = SizeOfRows(u) + MapThenSumSet(LAMBDA t : work[t].row.size, Owing(u, "subUsed"))

\* What it rests on with one thread: a handler that is about to delete a row has read it from
\* the recycle bin of its user, and a folder weighs nothing.
VictimKnown ==
  \A t \in Threads : pc[t] \in {"dropShares", "dropRow"} =>
    /\ DeletedRow(req[t].user, Victim(t))
    /\ work[t].row = files[Victim(t)]
FoldersWeighNothing == \A i \in DOMAIN files : files[i].dir => files[i].size = 0

UsedInv == TypeOK /\ VictimKnown /\ FoldersWeighNothing /\ UsedExact

----------------------------------------------------------------------------
\* The tree and its names.

\* A parent is older than its child, and while it exists it is a folder of the
\* same user; so there is no cycle, and collectSubtree ends.
TreeShape ==
  \A i \in DOMAIN files : LET p == files[i].parent IN
    /\ p < i
    /\ p \in DOMAIN files => files[p].dir /\ files[p].user = files[i].user

\* collectSubtree lists no id twice and each folder before what is in it, so the
\* reverse order of permanentDeleteTree drops a row before the folder it is in.
ChildrenFirst ==
  \A t \in Threads : pc[t] \in {"collect", "pick"} =>
    LET ids == work[t].ids IN
    \A j \in 2 .. Len(ids) :
      /\ ids[j] \notin {ids[k] : k \in 1 .. j - 1}
      /\ ids[j] \in DOMAIN files => files[ids[j]].parent \in {ids[k] : k \in 1 .. j - 1}

\* What it rests on: the vectors of collectSubtree repeat nothing, the root is the oldest,
\* and a row is listed only once its folder has left the queue.
Listed(ids, queue) ==
  /\ \A j \in 1 .. Len(ids) : ids[j] < nextFile /\ (j > 1 => ids[1] < ids[j])
  /\ IsInjective(ids) /\ IsInjective(queue)
  /\ \A l \in 1 .. Len(queue) : \E k \in 1 .. Len(ids) : queue[l] = ids[k]
  /\ \A j \in 2 .. Len(ids) : ids[j] \in DOMAIN files =>
       /\ \E k \in 1 .. j - 1 : files[ids[j]].parent = ids[k]
       /\ \A l \in 1 .. Len(queue) : queue[l] # files[ids[j]].parent

ListedAt(label, w) ==
  /\ label \in {"restoreName", "collect"} => Listed(w.ids, w.queue)
  /\ label \in PurgeLabels => Listed(w.ids, <<>>)

CollectOK == \A t \in Threads : ListedAt(pc[t], work[t])

\* Two active rows of a folder with one name, in a table f.
Twins(f, i, j) ==
  /\ i # j /\ {i, j} \subseteq DOMAIN f /\ ~f[i].deleted /\ ~f[j].deleted
  /\ f[i].user = f[j].user /\ f[i].parent = f[j].parent /\ f[i].name = f[j].name

\* A handler about to make or restore a row whose name MySQL did not show it taken.
NameUnseen == \E t \in Threads : /\ pc[t] \in {"insertDir", "insertRow", "unmark"}
                                 /\ work[t].unseen \cap {"name", "restoreName"} # {}

\* nameTaken (FileOps.h 18): no two active rows of a folder get the same name, whatever
\* fails, unless MySQL gave the handler that makes or restores the second no result for the
\* first (MySqlDatabase.cpp 45-48).
UniqueNames ==
  [][\A i, j \in DOMAIN files' : Twins(files', i, j) => Twins(files, i, j) \/ NameUnseen]_vars

\* The behaviours in which a restore brings back one row at a time: restoring a folder with
\* what is in it looks at the name of the folder only (FileOps.cpp 181-196).
LoneRestores == \A t \in Threads : pc[t] = "unmark" => work[t].ids = <<req[t].id>>
SpecLone == Init /\ [][Next /\ LoneRestores']_vars

\* What UniqueNames rests on with one thread: from an honest nameTaken until the row is
\* there, in a create, and until it is active again, in a restore, its name is free; and a
\* restore has read the row it restores.
Unnamed == {"insertDir", "findObj"} \cup (CreateLabels \ {"parent", "name", "addUsed", "fetchId"})
NameFree ==
  \A t \in Threads : LET r == req[t] row == work[t].row IN
    /\ pc[t] \in Unnamed => "name" \in work[t].unseen \/ ~NameTaken(r.user, r.parent, r.name)
    /\ pc[t] = "restoreName" \/ (pc[t] \in {"collect", "unmark"} /\ r.op = "restore")
         => DeletedRow(r.user, r.id) /\ row.parent = files[r.id].parent /\ row.name = files[r.id].name
    /\ pc[t] \in {"collect", "unmark"} /\ r.op = "restore"
         => "restoreName" \in work[t].unseen \/ ~NameTaken(r.user, row.parent, row.name)

NamesInv == TypeOK /\ NameFree

\* Without folders, or when nothing is put into them, every row is at the top, and so a
\* restore finds nothing below its row.
NothingInside == \A r \in Requests : r.op \in {"folder", "upload", "instant"} => r.parent = 0
AllAtTop ==
  /\ \A i \in DOMAIN files : files[i].parent = 0 /\ (files[i].dir => NothingInside)
  /\ \A t \in Threads :
       /\ pc[t] \in {"name", "insertDir"} \cup (CreateLabels \ {"parent"}) => req[t].parent = 0
       /\ pc[t] = "restoreName" \/ (pc[t] = "collect" /\ req[t].op = "restore")
            => req[t].id > 0 /\ work[t].ids = <<req[t].id>> /\ work[t].queue = <<req[t].id>>

\* Every row is at the top or in a folder that still exists.
NoOrphans == \A i \in DOMAIN files : files[i].parent \in DOMAIN files \cup {0}

\* The rows below a folder.
Below(root) ==
  LET under[i \in DOMAIN files] == LET p == files[i].parent IN
                                   p = root \/ (p \in DOMAIN files /\ under[p])
  IN  {i \in DOMAIN files : under[i]}

\* softDeleteTree (FileOps.h 57): when it returns, the whole tree is deleted.
DeleteTakesTree ==
  [][\A t \in Threads : pc[t] = "mark" /\ pc'[t] = "idle" =>
       \A i \in (Below(req[t].id) \cup {req[t].id}) \cap DOMAIN files' : files'[i].deleted]_vars

\* The behaviours in which nobody restores what is in a folder that is still deleted: a delete
\* of a folder above it would miss what was restored, and a purge leave it behind.
WholeRestores ==
  \A t \in Threads : LET r == req[t] IN
    pc[t] = "root" /\ r.op = "restore" /\ DeletedRow(r.user, r.id) =>
      files[r.id].parent = 0 \/ ActiveRow(r.user, files[r.id].parent)
SpecWhole == Init /\ [][Next /\ WholeRestores']_vars

\* What these two rest on then, with one thread and no faults.  What is in a deleted folder
\* is deleted, besides what the delete at work has still to mark.
Tidy ==
  \A i \in DOMAIN files : LET p == files[i].parent IN
    p \in DOMAIN files /\ files[p].deleted /\ ~files[i].deleted
      => \E t \in Threads : pc[t] = "mark" /\ i \in ToSet(work[t].ids)

\* A list has the rows below its own, those in the queue aside; is below what is active; and
\* nothing in it stands before the folder it is in.
RowsAre(u, S, flags) == \A i \in S : i \in DOMAIN files /\ files[i].user = u /\ files[i].deleted \in flags
Gathered(S, queue, flag) ==
  \A i \in DOMAIN files : files[i].deleted = flag /\ files[i].parent \in S \ queue => i \in S
Rooted(S) ==
  \A i \in S : LET p == files[i].parent IN
    p = 0 \/ p \in S \/ (p \in DOMAIN files /\ ~files[p].deleted)
TopDown(ids) ==
  \A k \in 1 .. Len(ids) : \A j \in k .. Len(ids) :
    ids[k] \in DOMAIN files => files[ids[k]].parent # ids[j]

\* The rows a purge has still to drop.
ToDrop(label, ids) ==
  ToSet(IF label \in {"subUsed", "unref", "readRef", "unlink", "dropObject"} THEN Front(ids) ELSE ids)

\* What a handler that creates, deletes, restores or purges has found.
TreeKnown(label, r, w) ==
  LET listed == ToSet(w.ids) IN
  /\ label \in {"name", "insertDir"} \cup (CreateLabels \ {"parent"}) => ParentExists(r.user, r.parent)
  /\ label \in {"restoreName", "collect"} =>
       /\ r.id \in listed /\ RowsAre(r.user, listed, {r.op # "delete"})
       /\ Gathered(listed, ToSet(w.queue), r.op # "delete")
       /\ r.op = "restore" => Rooted(listed)
  /\ label = "mark" =>
       /\ RowsAre(r.user, listed, BOOLEAN) /\ Gathered(listed, {}, FALSE)
       /\ r.id \in listed \/ (r.id \in DOMAIN files /\ files[r.id].deleted)
  /\ label = "unmark" => RowsAre(r.user, listed, BOOLEAN) /\ Rooted(listed) /\ TopDown(w.ids)
  /\ label \in PurgeLabels =>
       /\ RowsAre(r.user, ToDrop(label, w.ids), {TRUE})
       /\ Gathered(ToDrop(label, w.ids), {}, TRUE)

TidyInv == NoOrphans /\ Tidy /\ \A t \in Threads : TreeKnown(pc[t], req[t], work[t])

----------------------------------------------------------------------------
\* Answers.

\* A handler that reads back the id of what it inserted gets the one it inserted: the
\* SELECT by name, or by hash, has that row to give and no other (FileOps.cpp 40-42, 119,
\* FileRoutes.cpp 92-97).  The [0] is out of range only when MySQL has no result to give
\* (Mislead).
AnswersOwnRow ==
  \A t \in Threads :
    /\ pc[t] = "fetchId"  => FetchedFile(req[t].user, work[t].obj, req[t].name) = {work[t].made}
    /\ pc[t] = "fetchDir" => FetchedDir(req[t].user, req[t].parent, req[t].name) = {work[t].made}
    /\ pc[t] = "fetchObj" => ObjectsWith(req[t].sha) = {work[t].made}

\* What it rests on with one thread: the row inserted last is the one with the highest id.
LastMade ==
  \A t \in Threads : pc[t] \in {"addUsed", "fetchId", "fetchDir"} =>
    LET i == work[t].made IN
    /\ i = nextFile - 1 /\ i \in DOMAIN files
    /\ files[i].user = req[t].user /\ files[i].name = req[t].name
    /\ IF pc[t] = "fetchDir" THEN files[i].parent = req[t].parent /\ ~files[i].deleted
                             ELSE files[i].obj = work[t].obj

AnswerInv == RefInv /\ LastMade

\* Every request is answered, or lost with the process.
Answered == \A t \in Threads : pc[t] # "idle" ~> pc[t] = "idle"
============================================================================
