--------------------------- MODULE DownloadsProps ---------------------------
(***************************************************************************)
(* What downloads and shares promise, stated about Downloads.               *)
(***************************************************************************)
EXTENDS Downloads, FileStoreProps

Local == [obj : Nat, token : Nat, path : Contents \cup {"none"}, size : Int, from : Int, to : Int,
          file : {NothingOpen, "named", "partial", "whole"}]
Sent  == [status : {0, 200, 206, 404, 416}, path : Contents \cup {"none"}, size : Int, from : Int,
          to : Int, genuine : BOOLEAN]

CountersOK == /\ nextToken \in Nat \ {0} /\ token \in [shares -> Nat]
              /\ \A i \in shares : token[i] < nextToken
              /\ views \in [shares -> Nat] /\ downloads \in [shares -> Nat] /\ served \in [shares -> Nat]

NeedsPath(label, f, w) == \/ label \in {"open", "read"} \/ w.file # NothingOpen
                          \/ label = "count" /\ f.op # "view"

\* The type invariant.
FetchTypeOK ==
  /\ rpc \in [Readers -> {"idle", "row", "path", "count", "open", "read"}]
  /\ fetch \in [Readers -> Fetches \cup {NoFetch}]
  /\ got \in [Readers -> Local] /\ reply \in [Readers -> Sent]
  /\ seen \in [Readers -> [visible : BOOLEAN, readable : BOOLEAN]]
  /\ CountersOK
  /\ \A r \in Readers :
       /\ rpc[r] # "idle" => fetch[r] \in Fetches
       /\ NeedsPath(rpc[r], fetch[r], got[r]) => got[r].path \in Contents
       /\ rpc[r] = "read" => got[r].file # NothingOpen
       /\ got[r].token < nextToken

\* The behaviours in which nobody uploads a content again between the SELECT of its
\* path and the opening of the file.
NotUploadedAgain == \A r \in Readers : rpc[r] = "open" => WritersOf(got[r].path) = {}
SpecNotAgain == DownloadsInit /\ [][DownloadsNext /\ NotUploadedAgain']_downloadsVars

Succeeded(r) == rpc[r] = "idle" /\ reply[r].status \in {200, 206}

\* A download has the bytes of the content it was asked for, all of them or the range
\* of the header (prod_smoke_test.sh 233-238), whatever is deleted and purged
\* meanwhile.  It needs NotUploadedAgain and a single thread of FileStore, and no fault:
\* a write that ended short is sent as it is.
SentAsStored ==
  faults = 0 => \A r \in Readers : Succeeded(r) /\ reply[r].path # "none" =>
    LET a == reply[r] IN
    /\ a.genuine /\ a.size = SizeOf[a.path] /\ a.from .. a.to \subseteq 0 .. a.size - 1
    /\ a.status = 200 => a.from .. a.to = 0 .. a.size - 1
    /\ a.status = 206 /\ Plain(fetch[r].range) => a.from .. a.to = Asked(fetch[r].range, a.size)

\* What it rests on: without faults a file on disk is cut short only while it is written,
\* and a whole one has its object, or is about to; so a file that was opened whole is not
\* opened for writing again, and a reader that has opened one has its length and the
\* range of the header.
DiskTidy ==
  /\ \A c \in Contents :
       /\ disk[c] = "partial" => WritersOf(c) # {}
       /\ disk[c] = "whole" => ObjectsWith(c) # {} \/ \E t \in Threads : pc[t] = "insertObj" /\ req[t].sha = c
  /\ \A t \in Threads : pc[t] = "dropObject" => disk[objects[work[t].row.obj].sha] = "absent"
OpenAsStored ==
  \A r \in Readers : rpc[r] = "read" =>
    LET w == got[r] IN
    /\ w.size = SizeOf[w.path] /\ w.from .. w.to \subseteq 0 .. w.size - 1
    /\ Plain(fetch[r].range) => w.from .. w.to = Asked(fetch[r].range, w.size)
    /\ Genuine(r) = {TRUE}
TidyWithoutFaults == faults = 0 => DiskTidy /\ OpenAsStored

\* A file that is visible and complete from the request to the answer is not
\* answered with 404, unless the header or a statement makes an exception.
FoundIfThere ==
  \A r \in Readers :
    rpc[r] = "idle" /\ reply[r].status = 404 /\ faults = 0 /\ seen[r].readable =>
      fetch[r].range # WholeFile /\ TooLarge(fetch[r].range)

\* What it rests on: a reader whose file has been there to read all the time has its
\* object, and then the path of its content.
FoundPath ==
  \A r \in Readers : rpc[r] # "idle" /\ seen[r].readable =>
    LET o == files[fetch[r].id].obj IN
    /\ Readable(fetch[r])
    /\ rpc[r] # "row" => got[r].obj = o
    /\ rpc[r] \in {"open", "read"} \/ (rpc[r] = "count" /\ fetch[r].op # "view")
         => got[r].path = objects[o].sha

\* Nobody gets a file, or the page of a share, that was in the recycle bin, not
\* shared, or locked by another access code all the time since the request.
OnlyVisibleSent == \A r \in Readers : Succeeded(r) => seen[r].visible

\* A public download that was answered with content has been counted.
CountedIfSent == \A i \in shares : served[i] <= downloads[i]

\* What these two rest on: a share is of a file and stays so (is_dir never changes, and
\* ids are given once), a handler that has found its row has seen the file visible,
\* and the readers that have counted in a share that is still there, and have not
\* answered yet, are among its downloads.
SharesAreFiles ==
  /\ \A i \in shares : ~files[i].dir
  /\ \A t \in Threads : pc[t] = "insertShare" =>
       req[t].id < nextFile /\ (req[t].id \in DOMAIN files => ~files[req[t].id].dir)
Watched ==
  \A r \in Readers :
    /\ rpc[r] # "idle" => reply[r].status = 0
    /\ rpc[r] \in {"path", "count", "open", "read"} \/ reply[r].status \in {200, 206} => seen[r].visible
Counting(i) == {r \in Readers : /\ rpc[r] \in {"open", "read"} /\ fetch[r].op = "public"
                                /\ fetch[r].id = i /\ got[r].token = token[i]}
Counted == \A i \in shares : served[i] + Cardinality(Counting(i)) <= downloads[i]

DownloadsInv == TypeOK /\ FetchTypeOK /\ SharesAreFiles /\ Watched /\ Counted
============================================================================
