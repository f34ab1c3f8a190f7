-------------------------- MODULE FileStoreRefines --------------------------
(***************************************************************************)
(* The statements of one handler after the other, without faults, implement *)
(* FileCatalog: a row is an entry, its content is what its object's file on *)
(* disk holds, and the quota is storage_used with the one update that the   *)
(* running handler still owes.                                              *)
(***************************************************************************)
EXTENDS FileStoreProps

QuotaOf(u) == used[u] + MapThenSumSet(LAMBDA t : ReqSize(req[t]), Owing(u, "addUsed"))
                      - MapThenSumSet(LAMBDA t : work[t].row.size, Owing(u, "subUsed"))

ContentOf(row) == IF row.dir THEN "folder"
                  ELSE IF disk[objects[row.obj].sha] = "whole" THEN objects[row.obj].sha
                  ELSE "lost"

SizesGiven == {0} \cup {ReqSize(r) : r \in {x \in Requests : x.op \in {"upload", "instant"}}}

Catalog == INSTANCE FileCatalog WITH
  Sizes     <- SizesGiven,
  entries   <- [i \in DOMAIN files |-> [user    |-> files[i].user,
                                        content |-> ContentOf(files[i]),
                                        size    |-> files[i].size,
                                        deleted |-> files[i].deleted]],
  nextEntry <- nextFile,
  quota     <- [u \in Users |-> QuotaOf(u)]

\* Every step of a handler puts, marks or erases one entry or changes nothing:
\* a file row never changes its content, and storage_used follows the rows
\* (FileOps.h 27-48 and 57-64).
ImplementsCatalog == Catalog!Spec

----------------------------------------------------------------------------
\* What the refinement rests on, with one thread and no faults.
\* The file of every object is whole, but for the one that is being dropped and has no rows;
\* a file that is being written belongs to no object yet.
Dropping(o) == \E t \in Threads : pc[t] = "dropObject" /\ work[t].row.obj = o
ObjectsWhole ==
  /\ \A o \in DOMAIN objects : disk[objects[o].sha] = "whole" \/ Dropping(o)
  /\ \A t \in Threads :
       /\ pc[t] \notin {"rewrite", "refill"}
       /\ pc[t] = "write" => ObjectsWith(req[t].sha) = {}
       /\ pc[t] = "exists" => ObjectsWith(req[t].sha) # {}
       /\ pc[t] = "fill" => ObjectsWith(req[t].sha) = {} /\ disk[req[t].sha] = "partial"
       /\ pc[t] = "insertObj" => disk[req[t].sha] = "whole"
       /\ pc[t] \in {"unlink", "dropObject"} =>
            /\ work[t].row.obj \in DOMAIN objects /\ RowsOf(work[t].row.obj) = {}
            /\ pc[t] = "unlink" => work[t].path = objects[work[t].row.obj].sha

CatalogInv == KeepInv /\ LastMade /\ UsedInv /\ ObjectsWhole /\ faults = 0
============================================================================
