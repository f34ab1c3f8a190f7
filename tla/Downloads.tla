----------------------------- MODULE Downloads -----------------------------
(***************************************************************************)
(* Downloads and public shares, beside the handlers of FileStore: the       *)
(* routes of FileRoutes.cpp and ShareRoutes.cpp that send a file, or the    *)
(* page of a share, with fileDownloadResponse of RouteUtils.cpp.            *)
(*                                                                          *)
(* A reader is a thread that handles such a request, one statement or one   *)
(* operation on the disk a step, while the threads of FileStore change the  *)
(* tables and the disk.  An open file stays readable after it has lost its  *)
(* name.  A request names a share by the id of the shared file, for the     *)
(* token that the share of this file has by then.                           *)
(***************************************************************************)
EXTENDS FileStore, ByteRange

CONSTANTS Readers,    \* Drogon's threads that handle these requests
          Fetches,    \* the requests clients send
          ViewOnly,   \* the files shared with allow_download = FALSE
          MaxFetches  \* bound: such requests handled in a behaviour

WholeFile == [whole |-> TRUE] \* no Range header

Fetch   == [op : {"private", "public", "view"}, user : Users, id : Nat,
            code : BOOLEAN, \* the access code is the right one
            range : Header \cup {WholeFile}]
NoFetch == [op |-> "none"]

ASSUME FetchesAssumption == Fetches \subseteq Fetch /\ MaxFetches \in Nat
ASSUME ReadersAssumption == IsFiniteSet(Readers)

VARIABLES rpc,       \* what each reader executes next
          fetch,     \* the request it is handling, or handled last
          got,       \* the locals of its handler
          reply,     \* its last answer
          token,     \* shares.share_token, of the share of a file
          nextToken, \* what newShareToken makes next
          views,     \* shares.view_count
          downloads, \* shares.download_count
          fetched    \* number of these requests begun (bounds the model)

(* For the properties only: how often each share was downloaded, and whether *)
(* the file a reader was asked for has been visible, and has been there to   *)
(* read, at some time and all the time since its request came.               *)
VARIABLES served, seen

store   == <<tables, disk, handler, bounds>>
reading == <<rpc, fetch, got>>
counts  == <<token, nextToken, views, downloads>>

NoReply == [status |-> 0, path |-> "none", size |-> 0, from |-> 0, to |-> 0, genuine |-> TRUE]
Status(s) == [NoReply EXCEPT !.status = s]

\* What the open file holds: what its name has on disk, or what it had.
NothingOpen == "nothing"
Nothing == [obj |-> 0, token |-> 0, path |-> "none", size |-> 0, from |-> 0, to |-> 0,
            file |-> NothingOpen]

----------------------------------------------------------------------------
\* What the SELECTs return.

\* Faulty: without is_deleted.
SharedEver(f) == f.id \in shares /\ f.code

\* loadActiveShare, with allow_download for a download.
ActiveShare(f) == /\ f.id \in shares /\ ~files[f.id].deleted
                  /\ f.code
                  /\ f.op = "public" => f.id \notin ViewOnly

Visible(f) == IF f.op = "private" THEN ActiveRow(f.user, f.id) /\ ~files[f.id].dir
                                  ELSE ActiveShare(f)

----------------------------------------------------------------------------
\* For the properties, said of the tables and not of the SELECTs: the file is for
\* the client of a request to have, and its whole content is there to read.
Offered(f)  == /\ f.id \in DOMAIN files /\ ~files[f.id].deleted /\ ~files[f.id].dir
               /\ IF f.op = "private" THEN files[f.id].user = f.user
                  ELSE f.id \in shares /\ f.code /\ (f.id \in ViewOnly => f.op = "view")
Readable(f) == /\ Offered(f) /\ files[f.id].obj \in DOMAIN objects
               /\ disk[objects[files[f.id].obj].sha] = "whole"

----------------------------------------------------------------------------
\* How a reader moves on and answers.

ReaderAt(r, label) == rpc[r] = label
ReaderGoto(r, label) == rpc' = [rpc EXCEPT ![r] = label] /\ UNCHANGED <<fetch, reply>>

Answer(r, a) == /\ rpc'   = [rpc EXCEPT ![r] = "idle"]
                /\ got'   = [got EXCEPT ![r] = Nothing]
                /\ reply' = [reply EXCEPT ![r] = a]
                /\ UNCHANGED fetch

BeginFetch(r) ==
  /\ ReaderAt(r, "idle") /\ fetched < MaxFetches
  /\ fetched' = fetched + 1
  /\ \E f \in Fetches : fetch' = [fetch EXCEPT ![r] = f]
  /\ rpc' = [rpc EXCEPT ![r] = "row"]
  /\ reply' = [reply EXCEPT ![r] = NoReply]
  /\ UNCHANGED <<store, got, counts, served>>

\* Faulty: the id of the file, not of its object.
FindById(r) ==
  /\ ReaderAt(r, "row")
  /\ IF Visible(fetch[r])
     THEN /\ got' = [got EXCEPT ![r].obj = fetch[r].id]
          /\ ReaderGoto(r, "path")
     ELSE Answer(r, Status(404))
  /\ UNCHANGED <<store, counts, served, fetched>>

FindFile(r) ==
  /\ ReaderAt(r, "row")
  /\ IF Visible(fetch[r])
     THEN /\ got' = [got EXCEPT ![r].obj = files[fetch[r].id].obj,
                                ![r].token = IF fetch[r].op = "private" THEN 0 ELSE token[fetch[r].id]]
          /\ ReaderGoto(r, IF fetch[r].op = "view" THEN "count" ELSE "path")
     ELSE Answer(r, Status(404))
  /\ UNCHANGED <<store, counts, served, fetched>>

\* objectPath().
FindPath(r) ==
  /\ ReaderAt(r, "path")
  /\ IF got[r].obj \in DOMAIN objects
     THEN /\ got' = [got EXCEPT ![r].path = objects[got[r].obj].sha]
          /\ ReaderGoto(r, IF fetch[r].op = "public" THEN "count" ELSE "open")
     ELSE Answer(r, Status(404))
  /\ UNCHANGED <<store, counts, served, fetched>>

\* UPDATE shares ... WHERE share_token: of a share that was removed it changes no row,
\* although the file may have another one by now.
Increment(count, r) ==
  [i \in DOMAIN count |-> IF i = fetch[r].id /\ token[i] = got[r].token THEN count[i] + 1 ELSE count[i]]

CountFetch(r) ==
  /\ ReaderAt(r, "count")
  /\ IF fetch[r].op = "view"
     THEN /\ views' = Increment(views, r) /\ UNCHANGED downloads
          /\ Answer(r, Status(200))
     ELSE /\ downloads' = Increment(downloads, r) /\ UNCHANGED views
          /\ ReaderGoto(r, "open") /\ UNCHANGED got
  /\ UNCHANGED <<store, token, nextToken, served, fetched>>

\* A public download that is answered with content.
Serves(r, a) == /\ Answer(r, a)
                /\ served' = IF fetch[r].op = "public" THEN Increment(served, r) ELSE served

\* The lengths a file on disk can have.
Lengths(c) == CASE disk[c] = "absent"  -> {}
                [] disk[c] = "partial" -> 0 .. SizeOf[c] - 1
                [] disk[c] = "whole"   -> {SizeOf[c]}

\* What was sent of the file; genuine: the bytes are those of the file.
Content(r, status, size, from, to, genuine) ==
  [status |-> status, path |-> got[r].path, size |-> size, from |-> from, to |-> to,
   genuine |-> genuine]

\* newFileResponse: Drogon opens the file and sends all of it, or answers 404.
SendFile(r) ==
  /\ ReaderAt(r, "open") /\ fetch[r].range = WholeFile
  /\ IF disk[got[r].path] = "absent"
     THEN Answer(r, Status(404)) /\ UNCHANGED served
     ELSE \E n \in Lengths(got[r].path) : Serves(r, Content(r, 200, n, 0, n - 1, TRUE))
  /\ UNCHANGED <<store, counts, fetched>>

\* The range is parsed against the length the file has now; an exception of stoull
\* is answered with the error status of the route.
OpenFile(r) ==
  /\ ReaderAt(r, "open") /\ fetch[r].range # WholeFile
  /\ LET c == got[r].path IN
     IF disk[c] = "absent"
     THEN Answer(r, Status(404))
     ELSE \E n \in Lengths(c) :
            LET range == ParseByteRange(fetch[r].range, n) IN
            CASE range.is = "invalid"   -> Answer(r, Status(416))
              [] range.is = "exception" -> Answer(r, Status(404))
              [] range.is = "range" ->
                   /\ got' = [got EXCEPT ![r] = [@ EXCEPT !.size = n, !.from = range.from,
                                                          !.to = range.to, !.file = "named"]]
                   /\ ReaderGoto(r, "read")
  /\ UNCHANGED <<store, counts, served, fetched>>

\* What the bytes that were read can be: those of the file, or, when it has been
\* truncated since, the zeros the buffer was made with.
Genuine(r) == LET now == IF got[r].file = "named" THEN disk[got[r].path] ELSE got[r].file
              IN  IF now = "whole" THEN {TRUE} ELSE BOOLEAN

ReadRange(r) ==
  /\ ReaderAt(r, "read")
  /\ \E g \in Genuine(r) : Serves(r, Content(r, 206, got[r].size, got[r].from, got[r].to, g))
  /\ UNCHANGED <<store, counts, fetched>>

\* A statement throws; a SELECT that is misled (Mislead of FileStore) finds nothing, which
\* is answered with the same 404.
FailFetch(r) == /\ rpc[r] \in {"row", "path", "count"} /\ faults < MaxFaults
                /\ faults' = faults + 1
                /\ Answer(r, Status(404))
                /\ UNCHANGED <<tables, disk, handler, issued, counts, served, fetched>>

----------------------------------------------------------------------------
\* Beside the readers, FileStore.

\* An open file keeps what it holds when its name is removed.
Keep == got' = [r \in Readers |->
                  IF got[r].file = "named" /\ disk[got[r].path] # "absent"
                       /\ disk'[got[r].path] = "absent"
                  THEN [got[r] EXCEPT !.file = disk[got[r].path]] ELSE got[r]]

\* The process dies with its readers.
Lose == /\ rpc' = [r \in Readers |-> "idle"]
        /\ got' = [r \in Readers |-> Nothing]

\* INSERT INTO shares with a token of its own.
NewToken == /\ token' = [i \in shares' |-> IF i \in shares THEN token[i] ELSE nextToken]
            /\ nextToken' = IF shares' \subseteq shares THEN nextToken ELSE nextToken + 1

\* A new share has counted nothing; a removed one has no counters.
Recount(count) == [i \in shares' |-> IF i \in DOMAIN count THEN count[i] ELSE 0]

\* A handler that takes the process with it is a Crash; otherwise the others go on.
StoreMoves ==
  /\ \/ /\ \E t \in Threads : /\ Begin(t) \/ Step(t) \/ Fail(t) \/ Mislead(t)
                              /\ \A s \in Threads \ {t} : pc'[s] = pc[s]
        /\ Keep /\ UNCHANGED rpc
     \/ Crash /\ Lose
  /\ NewToken
  /\ views' = Recount(views) /\ downloads' = Recount(downloads) /\ served' = Recount(served)
  /\ UNCHANGED <<fetch, reply, fetched>>

ReaderMoves(r) == \/ BeginFetch(r) \/ FindFile(r) \/ FindPath(r) \/ CountFetch(r)
                  \/ SendFile(r) \/ OpenFile(r) \/ ReadRange(r) \/ FailFetch(r)

\* What has been seen of the file of each request: updated at every step.
Unseen == [visible |-> FALSE, readable |-> TRUE]
Watch ==
  seen' = [r \in Readers |->
             LET before == IF rpc[r] = "idle" THEN Unseen ELSE seen[r] IN
             IF rpc'[r] = "idle" THEN seen[r]
             ELSE [visible  |-> before.visible \/ Offered(fetch[r])',
                   readable |-> before.readable /\ Readable(fetch[r])']]

ReadersQuiet == fetched = MaxFetches /\ \A r \in Readers : rpc[r] = "idle"

DownloadsInit == /\ Init
                 /\ rpc = [r \in Readers |-> "idle"] /\ fetch = [r \in Readers |-> NoFetch]
                 /\ got = [r \in Readers |-> Nothing] /\ reply = [r \in Readers |-> NoReply]
                 /\ token = EmptyTable /\ nextToken = 1
                 /\ views = EmptyTable /\ downloads = EmptyTable /\ served = EmptyTable
                 /\ seen = [r \in Readers |-> Unseen]
                 /\ fetched = 0

DownloadsNext == \/ StoreMoves /\ Watch
                 \/ \E r \in Readers : ReaderMoves(r) /\ Watch
                 \/ Quiet /\ ReadersQuiet /\ UNCHANGED <<store, reading, reply, counts, fetched, served, seen>>

downloadsVars == <<store, reading, reply, counts, fetched, served, seen>>
DownloadsSpec == DownloadsInit /\ [][DownloadsNext]_downloadsVars
============================================================================
