# Verification of cloud-disk-cpp

TLA+ models of the cloud disk: a C++ server (Drogon, one MySQL connection,
Redis for sessions, files below a storage directory) and the page of
`web/app.js`. TLC checks small instances, TLAPS proves the main theorems for
every value of the constants. All paths below are relative to the repository.

The server uses no transactions and no locks besides the mutex of its MySQL
connection. Every SQL statement commits by itself, a handler is a sequence of
statements and disk operations, and Drogon runs handlers in
`number_of_threads` threads: one without a config file, four with
`backend/config/drogon.example.json`. So the question in every part is the same: what
holds between two statements of one handler, when another handler, an exception
or the end of the process comes in between.

## 1. Inventory

### File tree, recycle bin, object store (`FileOps.cpp`, `FileRoutes.cpp`, `001_initial_schema.sql`)

- State: tables `files` (rows with a parent, a name, `is_deleted`, an object),
  `file_objects` (`sha256` UNIQUE, `ref_count`), `users.storage_used`, `shares`;
  the files `objects/<sha256>`.
- Operations: create a folder, upload, instant upload, delete (to the bin), restore,
  delete permanently, share; listings.
- Interaction: all handlers share the tables and the disk. An upload takes a
  reference to an object, a permanent delete releases it and removes the file
  at zero.
- Hard: check-then-act on names, parents and objects; a SELECT that looks empty and is not;
  reference counts in three separate statements; a truncation of a file somebody else refers to; rows
  read back by name; whole trees changed row by row; a crash in the middle.
- Correct when: `ref_count` covers the rows, contents outlive other requests,
  names are unique in a folder, trees are deleted whole and purged without
  orphans, the quota is the sum of the sizes, a handler answers its own row,
  every request is answered.

### Chunked uploads (`FileRoutes.cpp` 21-64, 223-373)

- State: tables `upload_sessions`, `upload_chunks`; directories `uploads/<id>/`.
- Operations: init (or resume), chunk, complete, status.
- Interaction: complete makes a file with the code of a direct upload; deletes
  and purges change the folder it goes to.
- Hard: retries (init twice, complete twice), a chunk late or cut short, a
  crash between the file and the close of the session, a session that expires, a
  folder that is gone.
- Correct when: a file has the planned content, a listed chunk is there, a
  session is resumed and not doubled, closed with its file and only then, and
  cleans up after itself.

### Downloads and shares (`RouteUtils.cpp` 222-303, `ShareRoutes.cpp`)

- State: `shares` with `view_count` and `download_count`; open files.
- Operations: download, public download, page of a share, byte ranges.
- Interaction: reads what the file tree changes, between a SELECT and an open
  file.
- Hard: the path is stale when opened, the file is truncated or removed while
  it is read, the numbers of a Range header.
- Correct when: what is sent are the bytes asked for, only visible files are
  sent, a file that is there is found, downloads are counted.

### Web client (`web/app.js`)

- State: token, current folder, breadcrumb stack, what is shown; localStorage.
- Operations: login, logout, reload, navigation, the kinds of upload, delete, restore, purge.
- Interaction: requests to the server, whose answers come in any order, each
  followed by code that reads the state as it is by then.
- Hard: stale state after `await`, answers out of order, double clicks,
  sessions that end.
- Correct when: at rest the page shows the current folder as the server has it,
  uploads go where they were started, the workspace needs a login.

### Accounts and sessions (`AuthRoutes.cpp`, `RedisSessionStore.cpp`, `requireUser` in `RouteUtils.cpp`)

- State: the table `users`; session keys with a time to live in Redis; the static
  generators of tokens; a descriptor for each Redis command.
- Operations: register, login, and `requireUser` before every handler that needs a login.
- Interaction: one SQL statement or one Redis command a step; Redis drops keys by its own clock.
- Hard: GET and EXPIRE are two commands on two connections, a connection is refused,
  dropped or cut at any point, two registrations of a name, two logins that
  draw a token at once, a session that ends while a request is under way.
- Correct when: a request is answered as the user who logged in with the
  password, whatever interleaves; only a login opens a session; a session in use lives on.

### MySQL connection (`MySqlDatabase.cpp`)

- State: one connection, its mutex, the result the server holds ready.
- Operations: `query` (two conversations with the server), `execute`, `quote`.
- Interaction: all threads call it; what the statements mean is the callers' business.
- Hard: no reconnection; exceptions under the mutex; every NULL of `mysql_store_result` is
  taken for an empty result, whether the connection is lost or lives on.
- Correct when: a call takes effect at one moment or throws, and nobody waits for ever. A false
  empty answer the callers cannot tell from a true one; what they make of it is a
  question about them (`Mislead` in FileStore and Uploads), and it can do harm: `FalseEmpty`.

### JSON (`Json.cpp`) and names (`Path.cpp`)

- State: the parser's position, the key and the value it builds, the map it returns.
- Hard: bodies that are cut, without quotes or colons, with escapes the parser does not know.
- Correct when: every text is read to its end without an index past it, what clients
  write is read as it was meant, and a cut body spoils at most its last value.

### The rest

`Hash.cpp` and the other helpers of `Path.cpp` are pure functions on strings; `ProdMain.cpp`,
`AppConfig.cpp`, `StaticRoutes.cpp` set things up and serve three fixed files; the
scripts drive the server. They are not modelled. `web/app.js` also has a showcase mode that
talks to no server; it is left out.

## 2. Modules

| Module | What it is |
|---|---|
| `FileStore` | the file tree, one statement or disk operation a step |
| `FileStoreProps` | its invariants and action and liveness properties |
| `FileCatalog` | abstract specification: entries and quota, one atomic step per request |
| `FileStoreRefines` | the mapping of FileStore to FileCatalog |
| `FileStoreProofs` | TLAPS: types, foreign keys and the forest; reference counts, contents, answers, collected trees; quota, FileCatalog, names, whole trees |
| `Uploads`, `UploadsProps`, `UploadsProofs` | chunked uploads, their properties, proofs |
| `PageUploads`, `PageUploadsProofs` | composition: the upload loop of the page with Uploads, over a connection that may be lost |
| `ByteRange` | `parseByteRange` as operators and a reference for it; its theorems are in `DownloadsProofs` |
| `Downloads`, `DownloadsProps`, `DownloadsProofs` | composition: readers of files and shares with FileStore |
| `Statements` | abstract specification of the database: atomic statements that may throw, or look empty |
| `Connection`, `ConnectionProofs` | the shared MySQL connection, which implements Statements |
| `Sessions`, `SessionsProps`, `SessionsProofs` | accounts and login sessions |
| `FlatJson`, `FlatJsonProps`, `FlatJsonProofs` | the parser of request bodies, and what clients write |
| `WebClient`, `WebClientProps`, `WebClientProofs` | the page, its properties, proofs |
| `MC*` | instances for TLC: requests, plans, sizes, users |

### How a model corresponds to the code

**FileStore.** A thread `t` has a label `pc[t]` (the statement it executes next), its
request `req[t]` and its locals `work[t]`. `Begin` accepts a request that has
passed `requireUser` and parsing; every other action is one statement of a handler (`InsertRow`,
`AddRef`, `DropRow`, ...), ending in `Reply` or `Abandon`. Tables are functions from ids;
AUTO_INCREMENT ids are given once. The foreign keys of the schema reject statements
as MySQL does. `writeBytes` is two steps: opening truncates, then the bytes
are there. A disk file is absent, partial or whole; its stream is never checked, so a
write may end short and be taken for whole (a fault). `Fail` is an
exception out of a statement, caught in `RouteBind.h`; `Crash` and `Die` end the
process: every handler is lost, tables and disk stay. Where the
code indexes an empty result (`rows[0]`) the outcome is undefined: an empty vector has no storage, so the read ends
the process, or the handler where the build checks it (`Undefined`).

`Mislead` is a SELECT whose result MySQL did not give: `query()` returns no rows and throws nothing
(MySqlDatabase.cpp 45-48), and later statements of the same handler may well succeed. It is a fault at every SELECT.
A name looks free, or a content new (`Overlook`), a folder without children (`OverlookKids`), a row to
purge or an object to release gone (`PassOver`), and a row read back missing (`Undefined`); where an
empty answer makes the handler reply with an error the effect is that of `Fail`. The local `unseen` notes, for
the properties only, which of its SELECTs misled a handler.

**Uploads.** The same scheme for sessions and chunks. A content is the sequence
of its pieces and stands for its hash. It has one user and one folder; what direct uploads,
deletes and purges do to rows is one action each, because FileStore has
their statements; so is `createFileFromContent`. `Expire` is the clock of MySQL passing `expires_at`. `writeChunkFile` is two steps: `OpenChunk` truncates,
`FillChunk` writes the bytes, or fewer, if the disk is full or another handler writes the same chunk; between the two a merge may
read, or `RemoveDir` take the file away. `Mislead` is as in FileStore, and `misled` says that it has happened.

**Downloads.** Extends FileStore; a reader is a further thread with a handler of its own that finds
the row or share, finds the path, counts, opens, reads. An open file stays
readable after its name is removed (`Keep`). `served` and `seen` are history
variables for the properties. There is at most one share of a file.

A share that is created again after it was removed has a new token, so an UPDATE by the
old token changes no row.

**WebClient.** A click runs to its first `await`; each call in flight is an
element of a bag; the server serves calls and answers arrive in any order; what
is behind the `await` runs on arrival with the state as it is then. A reload forgets all handlers of
the page (`live`). `Patient` is a user who waits for every answer.

**PageUploads.** Adds to Uploads the tabs that run `uploadChunked`: each waits for one
request at a time, which a free thread takes up (`TakeUp`) and answers with the last
step of its handler (`Serve`, `Failing`). The loop does not look at the answers to chunks,
as in the code. `Misled` and `StatusMisled` are SELECTs without a result, in a handler and in the status request. `Lose` cuts the connection while the handler goes on, `Down` is the
end of the server. A user tries again when it failed. The requests come from the pages, so
`MaxRequests` is 0 there and the state space is finite without it.

**Connection.** Each thread calls `query`, `execute` or `quote`, waits for `mutex_`, and talks to
the server in one step (`Execute`) or two (`Query`, `Fetch`). `LoseQuery` loses the connection
before or after the statement took effect; `LoseResult` is the NULL of
`mysql_store_result`, answered as no rows: the connection is lost with it, or it lives on, when the server
cut the statement short or memory ran out. Nothing opens the connection again but `Restart`.
`Statements` is what callers rely on: each statement is one step, and may throw, or look empty if it is a SELECT. FileStore, Uploads
and Sessions are written against it, with `Fail` for the exception and `Mislead` for the empty answer. In Sessions every caller
answers an empty result with a refusal, so `Fail` covers it; the read-back of a registration is undefined then, and ends the request too.

**Sessions.** `Begin` takes a registration, a login, or a request with a token. A step is a statement
(`InsertUser`, `Lookup`) or a command (`Save`, `Get`, `Touch`). `Fail`, `DropReply` and
`CutReply` are a command refused, carried out without a reply, and cut in the reply. `Tick` is the clock of
Redis; `Delay` bounds how long a handler is held up between two steps. With `SharedDraws`,
calls of `newToken` that overlap disturb its generator, which is static and unlocked: what was drawn meanwhile (`mixed`) may be
drawn again, at once or by a later call, until the server starts again.
`opened` and `seen` are history variables.

**FlatJson.** The loop of `parseFlatJsonObject` with `parseString`, `parsePrimitive` and
`skipSpaces`: `mode` is the place in it, `pos` the index, `out` the string being built. A text
is a sequence of characters, here because the properties are about the conversion.
`FlatJsonProps` has `jsonEscape`, `jsonObject` and what `JSON.stringify` writes, and says what it is for a body to
be what a client wrote of its fields, or the beginning of that (`WrittenWith`).

## 3. Runs

Passing runs (the longest take one to two minutes on two workers):

| Run | Shows | Bounds |
|---|---|---|
| `FileStoreFlat` | counts, names, contents and read-backs stay right with a fault at any step, a SELECT without a result among them, but for what the misled handler does itself | 1 thread, 6 requests, 1 fault, 2 names, 2 contents, a folder that stays empty |
| `FileStoreTree` | whole trees are deleted, no orphans; FileStore implements FileCatalog, which includes that the quota is the sum of the sizes and every file has its content | 1 thread, 7 requests on nested folders, deletes, restores and purges at every level, no faults; nothing is restored that is in a folder still deleted (`SpecWhole`) |
| `FileStorePair` | the inductive invariant `RefInv` (types, foreign keys, reference counts), the forest, children first; every request is answered or lost with the process | 2 threads, 4 requests, 1 fault, fair |
| `UploadsOne` | a session is closed with its file and makes only one, nothing is left in `uploads/`; one session to resume and unique names, unless a SELECT was misled | 1 thread, 6 requests, 1 fault, plans of one and two chunks, an index past the end, 2 steps of other handlers or the clock |
| `UploadsTwo` | the inductive invariant `UploadInv` (types, planned contents, listed chunks, what each handler knows), nothing lost | 2 threads, 5 requests, 1 fault, 1 step of others |
| `DownloadsOne` | the bytes asked for; what is there is found; `DownloadsInv`: what is sent was visible, and no share is downloaded more often than it has counted | 1 thread of the tree, 5 requests, 1 reader, 2 fetches, 1 fault |
| `PagePatient` | the inductive invariant `PatientInv` (types, what is in flight, what each part of the page shows); the page at rest shows the current folder as it is, uploads go where they were started, workspace, sessions; every click comes to an end | 2 users, 6 clicks, 1 fault, fair |
| `PageUploads` | the inductive invariant `PageInv` of pages and handlers; what a page calls complete is filed; all chunks were sent unless one was refused; a user who tries again has the file in the end | 2 tabs, 2 threads, a file of two chunks, 1 fault, fair; requests unbounded |
| `ConnectionShared` | the mutex keeps the halves of a query together; Connection implements Statements, in which a SELECT may look empty on a connection that lives; every call returns | 3 threads, 2 rows, 4 calls, 2 faults, fair |
| `SessionsShared` | the inductive invariant `SessionInv` (types, who owns each key, who was answered as whom), sessions in use live on, only a login opens one | 2 threads, 2 users, 2 passwords, 6 requests, 4 ticks with `Ttl` 2 and `Delay` 1, 1 fault, tokens drawn again |
| `JsonBody` | the parser stays inside the text and reads on with every step; whole bodies are read as meant, cut ones spoil one value | every text of a brace and up to 4 of 8 marks; bodies of one or two fields, strings of up to 2 of 4 letters, whole, spaced or cut anywhere |

`JsonBody` turns the deadlock check off, because the parser stops; the other modules stop in a
state named `Quiet` (or `AllDone`) and nowhere else. Properties that a fault may break say
`faults = 0 =>`, so one run has both the behaviours with a fault and those without. Those that only a SELECT without a result can
break name it: `ContentKept` and `UniqueNames` of FileStore are about steps, and except the one step of the handler that
was misled (`Blind`, `NameUnseen`); `OneToResume` and `UniqueNames` of Uploads say `~misled =>`.

A run checks a composite where it can: `ShownAsItIs` is `ShownIsCurrent`, `ShownIsFresh` and
`BreadcrumbIsPath`; `ReadAsMeant` is `Reads` and `CutKeepsRest`; `SessionInv` contains `AnswersOwner`; `PatientInv` contains
`AppNeedsToken`; `PageInv` contains `PageTypeOK` and `UploadInv`;
`DownloadsInv` implies `OnlyVisibleSent` and `CountedIfSent`; `UploadInv` implies
`ContentAsPlanned`, `ListedChunksThere` and `CountedChunksThere` (section 4).

Why the bounds are enough. Two names and two contents give both a conflict and
a free name, a shared object and a different one. Five or six requests reach the
longest scenarios the hazards need: create, share, delete, restore, purge, create
again. Two threads and one fault suffice for every race found, and the theorems cover any
number. Plans of one and two chunks and an index past the end give a missing, a repeated and a surplus chunk. A file of three bytes with ranges to its end, across it
and past it, a negative number and one beyond the width (`MaxUint = 7`) has the cases of
`parseByteRange`; `DownloadsProofs` has every header and size. Three threads on the
connection are one that holds it, one that waits and one that overtakes. Two users, two passwords and six
requests are two registrations, two logins that draw one token, and a use of each; `Ttl` 2 and `Delay` 1
make a session that is used in time, one that is used too late, and one that ends between GET and EXPIRE.
Two tabs send one file, so each finds what the other left behind. Two letters of an escape, a
quote and a line feed are all that `parseString` tells apart. `SYMMETRY` is used in
`UploadsTwo` and `SessionsShared`, for identical threads, names and passwords, and without liveness.

Restrictions in the specifications of the runs, and the configuration that shows what happens without them:
- `SpecNoOverlap` (FileStorePair, as `FairNoOverlap`): no two purges of one row at once; without: `PurgeRace`.
- one thread where check-then-act would break a property; without: `ReleaseRace`,
  `LateTruncate`, `PurgeRace`, `UploadsRace`.
- `SpecWhole` (FileStoreTree): nobody restores what is in a folder that is still deleted, so that the active rows of a tree
  stay connected; without: `DeleteMisses`.
- `ContentKept` and `UniqueNames` except a handler that was misled; without the exception: `FalseEmpty`.
- `Overnight` (PageUploads): of the sessions that can expire the bound takes those that only expiry ends, which are those with a
  listed chunk that was cut short; an upload whose session has expired for another reason starts anew, as one that was never opened.
- nothing is put into the folder of FileStoreFlat, because a restore of a folder may make twins of a name: `RestoreTwins`. The theorem needs less:
  `SpecLone`, every restore brings back one row.
- `SpecNotAgain` (DownloadsOne): no upload writes a content again while a reader is about to open it
  (after a purge, with the path found before), and one thread; without: `TornDownload`.
- `Patient` in PagePatient; without: `PageHurried`. `DroppedForCause` also needs it: a profile request of `init()`
  that fails late logs out a newer session (`Patient = FALSE` with a fault).
- `KeptAlive` (SessionsShared) is about sessions found with more life left than `Delay`; without: `SessionClaims`.

### Findings

`ReleaseRace` is a run of PROJECT.json, which quotes what the code says. The others are
configurations of the same modules, for `tlc -config <name>.cfg` on `MCFileStore`, `MCUploads`,
`MCDownloads`, `MCWebClient`, `MCSessions` or `MCFlatJson`: TLC ends each with a counterexample. Where one lists
several properties, each of them alone is violated.

| Configuration | What happens |
|---|---|
| `ReleaseRace` | an instant upload takes a reference between the read of the count and the removal |
| `DeleteMisses` | an active file under a folder that is still deleted is missed by a delete above |
| `RestoreTwins` | restoring a folder checks the name of its root only: twins of a name |
| `PurgeRace` | two purges of one file release its object twice; a purge subtracts a size before the upload adds it, and the clamp at zero loses it |
| `LateTruncate` | the second of two first uploads truncates a file that is already referred to |
| `FalseEmpty` | MySQL gives no result for the object of an upload: the content is taken for new and truncated, under the row that has it, before any statement fails |
| `InstantAfterCrash` | after a crash in `releaseObject`, an instant upload gets a row without content |
| `UploadsRace` | two inits open two sessions of one upload; two completes make two files of one name |
| `ResumeTorn` | a chunk cut short is recorded and skipped on resume |
| `CompleteIntoPurged` | a file is completed into a folder that was purged |
| `TornDownload` | a range read from a file that was truncated is padded with zeros |
| `PageHurried` | the listing of a folder that was left replaces that of the current one; a double click puts a folder into the breadcrumb twice; a chunked upload goes to the folder that is open when the file has been read; a login shows the workspace after a logout |
| `SessionClaims` | a session found with little life left ends between GET and EXPIRE though it was used; two logins at once are given one token; a cut reply leaves its descriptor open |
| `NameAsSent` | the browser escapes a carriage return as `\r`, the parser reads the letter `r`: a name that should be refused is accepted as another one |

### Fairness

- `FileStorePair`: weak fairness of `Step(t)`, where `FairNoOverlap` allows it, for every thread. A thread that runs
  a handler has no lock to wait for except the mutex of the connection, and
  `ConnectionShared` shows that every call comes back from it. Nothing is assumed of clients: no request has to come.
- `ConnectionShared`: weak fairness of `Step(t)`: threads run, and the server answers or the
  connection fails (the client library reports either). A request makes finitely many calls, here bounded, so a
  waiting thread finds the mutex free for good unless somebody keeps it.
- `PagePatient`: weak fairness of serving a call and of the arrival of
  its answer, that is a server that answers and an event loop that runs; clicks need not happen.
- `PageUploads`: weak fairness of the threads, strong fairness of `TakeUp` (a queue of an event loop: a request
  that waits is taken up among those that come and go), weak fairness of the tab's own steps, which include that a user tries
  again, and of `Overnight`, that days pass. `FiledInTheEnd` is about such a user, not about every user.

## 4. Proofs

File tree
- `TypeCorrect`: `Spec => []TypeOK` of FileStore, which includes the foreign keys of the
  schema and that a handler at a label has the locals it needs (no empty vector is
  popped, the row it uses was read). By cases over the actions, with a lemma for each.
- `TreeShapeHolds`: every row is below an older row that was a folder of its user; a handler that is about to insert has
  found such a parent (`ParentChecked`), and later deletes and purges do not change rows it found.
- `RefInvHolds`, `RefCountsCover`: for `SpecNoOverlap`. `RefCountCovers` is
  not inductive: a handler that will release an object must still be counted while its row is gone,
  which is `Held` (rows plus claims), and it must have read the right object, which is `VictimRead`.
  The read-back of a new object needs `FreshObjectSafe` and `ShaUnique`, freshness of ids needs
  `IdsKnown`. `RefInv` is their conjunction. The sums
  are cardinalities of disjoint finite sets (FiniteSetTheorems).
- `OneThreadCountsCover`: with one thread the same for `Spec` without restriction.
- `OneThreadKeepsContent` (`ContentKept`): from `RefInv`, with `WriteSafe` and `UnlinkSafe`: a file is
  opened for writing only when no row refers to its content, it is not whole, or the upload was misled about the object, and removed only when no row
  refers to it, because the count it was read at is zero and hashes are unique. So of all SELECTs without a result only that one
  harms a stored content, and only by the truncation. `LateTruncate` shows that it needs the one thread, `FalseEmpty` that it needs the exception.
- `OneThreadAnswers` (`AnswersOwnRow`): from `RefInv` and `LastMade`, the row inserted last has the highest id. When a handler is at its read-back,
  the SELECT selects the row it has inserted and no other. It does not say that `[0]` is never out of range: where MySQL has no result it is (`Mislead`).
- `OneThreadQuota` (`UsedExact`): `storage_used` of a user, with what the running handler is about to add or subtract, is the
  sum of the sizes of the user's rows, until something fails. What a handler owes must be known from its locals
  (`VictimKnown`), and folders weigh nothing. The sum over a changing set of rows is handled by induction over its cardinality.
- `CatalogImplemented` (`ImplementsCatalog`), with one thread and no faults: initial states, and each statement of each handler is one
  step of `FileCatalog` or a stutter under the mapping of `FileStoreRefines`. It rests on `CatalogInv`: the counts, the quota,
  and `ObjectsWhole`, that a content somebody refers to is on disk whole. The charge of an entry is what no later statement
  has taken back, so that INSERT and the UPDATE of the quota are one abstract step.
- `OneThreadNames`, `LoneRestoresKeepNames` (`UniqueNames`), with any faults: `NameFree` says that from an honest SELECT to the INSERT
  (or UPDATE) the name stays free. The property is about steps: no step makes twins that were none, but that of a handler that was misled. With folders and restores it needs `SpecLone`; without
  restores that holds by itself, and where nothing is put into folders because every row is at the top (`AllAtTop`) and a restore finds nothing below its row.
- `NoOrphansHolds`, `DeletesWholeTrees`, with one thread, no faults and `SpecWhole`, at any depth of the tree. `TidyInv` has three parts:
  `NoOrphans`; at rest no active row is in a deleted folder (`Tidy`); and what a handler knows while it walks (`TreeKnown`):
  what is gathered is closed under children but for those in the queue (`Gathered`), what a restore has gathered is below
  something active (`Rooted`), and no row stands before its folder (`TopDown`), so that what is left of the list stays so row by row. `DeleteTakesTree` speaks of everything `Below` the root, a recursive
  function, whose existence is shown with the least closed set; that it is what has been gathered is an induction over ids.
- `ChildrenFirstHolds`, for any threads: `CollectOK` says that an id in the queue has no children in the list yet, so
  those found next are new; that they are younger than the root is `TreeShape`.

Chunked uploads
- `UploadsInvariant`: `Spec => []UploadInv`, that is types, contents, listed chunks and, for every handler,
  what it has checked (`Knows`); with `NothingLost`, what no other handler can undo. From it
  `TypeCorrect`, `PlannedContent`, `ChunksOnDisk`, `CountedOnDisk` and the action property `NoChunkLost`.
  `CountChunks` compares a number of rows: that total rows with indexes below total
  are all of them is a pigeonhole lemma on cardinalities.
- `AloneInvariant`, with one thread: what a handler has checked is still true when it acts on it
  (`Checked`), and what is left of a session on disk and in the rows belongs to the handler at work (`RowsClosed`, `DirsOpen`). From it
  `OneThreadResumes`, `OneThreadOneFile`, `OneThreadNames`, `OneThreadTempGone`, `OneThreadCloses`: the properties of
  `UploadsOne`. `OneThreadResumes` and `OneThreadNames` are about behaviours in which no SELECT was misled; the others hold beside it. `UploadsRace` shows that they need the one thread.

Downloads
- `DownloadsInvHolds`: for any threads, readers, requests and faults. The invariant says what a reader has seen since its
  request, and counts, for each share, the downloads that are done and those about to be; `Visible` must be remembered
  because the row may be gone when the bytes go out. From it `OnlyVisibleSentHolds`, `CountedIfSentHolds`.
- `FoundIfThereHolds`, for any threads, readers and faults: `FoundPath`, that the path a reader holds is the one of the content it was asked for,
  as long as the row it found is there.
- `SentAsStoredHolds`, with one thread, `SpecNotAgain`, and until something fails: `StoredInv` adds to `CatalogInv` that only the content
  a handler is writing is partial on disk (`DiskTidy`) and that an open file reads as it did when it was opened (`OpenAsStored`).
  `TornDownload` shows that it needs the restriction.
- `RangeInside`, `RangeIsAsked`: for every header and size, what `parseByteRange` accepts lies in the
  file and, for plain numbers, is exactly what was asked for.

Connection
- `ConnectionInvHolds`: for any threads and faults; the mutex gives `OneTalker`: the rows a thread is about to fetch are those the database holds.
- `StatementsImplemented`: Connection implements Statements, initial states and every step, with the state of
  Statements as part of its own. It needs `OneTalker`: a `Fetch` is honest only if nothing came between. That a NULL result is harmless is not
  claimed: it is a step of Statements that its callers have to live with.

Sessions
- `SessionInvHolds`, `AnswersOwnerHolds`: for any users, threads, clock and faults, and whether tokens are drawn twice or not. A key of Redis stands for
  a login with the right password (`KeysGiven`), and a handler carries what it has read (`Knows`); passwords never change.
- `KeptAliveHolds`: `InTime`, a handler acts within `Delay` of its last step, so a session found with more life left than that is still there
  when EXPIRE comes.
- `OnlyLoginOpensHolds`; and `TokensApart`: with `SharedDraws = FALSE` a token is given to one user.

Web client
- `WebTypes`, for any user, patient or not.
- `PatientInvHolds`, for a user who waits: everything but the loads is alone in flight (`OneAtATime`), what is in flight was sent by the page as it is
  (`SentAsNow`), and a part of the page is as the server has it or its load is under way (`TableInTime`, `BinInTime`). From it
  `FiledWhereChosenHolds`, `ShownAsItIsHolds` and the action property `DroppedForCauseHolds`. `PageHurried` shows that they need the patience.

Page uploads
- `PageInvHolds`, for any tabs, threads, files and faults: the invariant of Uploads and, with it, what each page knows of its session
  (`PageKnows`): the plan is its own, what it skips is listed, and so is what it has sent if no chunk was refused. A page and the
  handler that serves it hold the same request, and no other handler serves it (`PageTypes`). From it `DoneIsFiledHolds`, `AllSentHolds`.

JSON
- `TypeCorrect`, `AlwaysOnward`: for every text over every alphabet, the index stays within the text, and every step reads on or
  goes to a later part of the loop. A text has finitely many places, so every parse ends.
- `ReadAsMeantHolds`: for any number of fields with different keys, any strings over any alphabet and any spaces between the
  tokens, a whole body gives the map its client meant, and one that was cut anywhere makes up no key and spoils one value at most.
  The invariant (`Reading`) says what is ahead of the parser: in each mode with `i` fields read, the text goes on from `pos` with
  the rest of the string, then the rest of the field, then the fields from the next on (`Place`); or the body was cut and the parser is at its
  end (`AtCut`). What the folds of `Text` write is unfolded field by field and character by character (`TextIs`,
  `FieldsOnFirst`, `EscapeFirst`). These are inductions over the length of a sequence, done with `AllNumbers`, which takes a set and no
  operator, and with the existence of the recursive function in `FlattenSeq` (`FlattensExists`).

Assumptions: those of the constants (finitely many threads in FileStore; requests, plans and folders of the declared
shapes; at least one file to upload in PageUploads; sizes, times and bounds natural numbers), and what the theorem itself says:

| Assumption | Theorems | Configuration without it |
|---|---|---|
| one thread (`\A s, t \in Threads : s = t`), Drogon's default | `OneThread...`, `AloneInvariant`, `CatalogImplemented`, `LoneRestoresKeepNames`, `NoOrphansHolds`, `DeletesWholeTrees`, `SentAsStoredHolds` | `ReleaseRace`, `LateTruncate`, `PurgeRace`, `UploadsRace` |
| `MaxFaults = 0` | `CatalogImplemented`, `NoOrphansHolds`, `DeletesWholeTrees` | `InstantAfterCrash`; a delete that fails half-way leaves active rows in a deleted folder, and a purge of that leaves them behind |
| `SpecNoOverlap` | `RefInvHolds`, `RefCountsCover` | `PurgeRace` |
| `SpecWhole` | `NoOrphansHolds`, `DeletesWholeTrees` | `DeleteMisses` |
| `SpecLone` | `LoneRestoresKeepNames` | `RestoreTwins` |
| no misled handler, in the property | `OneThreadKeepsContent`, `OneThreadNames`, `LoneRestoresKeepNames`, `OneThreadResumes` | `FalseEmpty` |
| `SpecNotAgain` | `SentAsStoredHolds` | `TornDownload` |
| `Patient` | `PatientInvHolds` and what follows from it | `PageHurried` |
| `SharedDraws = FALSE` | `TokensApart` | `SessionClaims` |
| `Written`: a client that escapes as `jsonObject` does wrote the body, each key once | `ReadAsMeantHolds` | `NameAsSent` |

The bounds are arbitrary naturals, so they do not restrict the theorems.

`BodiesAreWritten` in `MCFlatJson` has TLC check that the bodies of `JsonBody` are as `Written` says.

Only model-checked: liveness, that is `Answered` (of FileStore and of Connection), `Settles` and `FiledInTheEnd` (TLAPS does not reason about
ENABLED here). Every other property of a passing run is stated by a theorem.

## 5. What is abstracted

- Strings: names, contents, tokens and texts of a header are values of small sets; a hash is
  its content (no collisions). Names are equal when the case-insensitive collation of the schema takes them for equal. Validation of names and bodies is done before `Begin`.
- Sizes that do not fit BIGINT: a statement that throws (`Fail`).
- The storage limit: the code never compares it.
- Listings, the status of an upload and the health route read only.
- A whole-file download is one step: Drogon streams it outside this code.
- Uploads: one user, one folder. Downloads: one share of a file at a time; a thread of FileStore that dies of undefined
  behaviour leaves the readers alive, which gives more behaviours than the process has.
- WebClient: showcase mode, downloads, sharing, registration and layout; the chunks of an upload are one step, which
  PageUploads has one by one.
- A SELECT without a result is a fault of its own in FileStore, Uploads, PageUploads and Connection. In Downloads it is answered with the 404 of
  `FailFetch`. The three tests of a direct or instant upload beside a chunked one (`OtherUpload`, `Instant`) and the statements in
  `CreateFile` are not misled: they are one step there, and FileStore has them.
- Sessions: nothing in the code deletes a user or a session; a Redis that accepts a connection and never answers is
  left out, because a thread that waits for it takes no further step and nothing else depends on it.
- Connection: the rows are values and the statements inserts, deletes and selects of one; what the server does with a statement
  whose connection is lost is the choice in `LoseQuery`.
- JSON: characters are those that the parser tells apart; a duplicate key is overwritten, as in the map of the code.

Not modelled: `Hash.cpp`, `cleanPath` and the composition of answers (pure functions of strings; hashes and paths
are values in the other modules), `AppConfig.cpp`, `ProdMain.cpp` besides the restart, `StaticRoutes.cpp`
(read once, no state), the scripts and the workflow that drive the server, and the showcase mode of the page, which talks to no
server. FileStore and Uploads are not composed statement by statement: `createFileFromContent` is one step in Uploads and the
statements of FileStore run elsewhere, because the product is beyond TLC with two threads.

## 6. How the project grew, and what is left

FileStore and its catalogue first, then Uploads, WebClient, ByteRange and Downloads, then Sessions, Connection,
FlatJson and PageUploads, each with the theorems above after TLC had agreed.

Left: direct uploads as statements beside Uploads.
