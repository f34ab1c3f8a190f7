-------------------------- MODULE DownloadsProofs --------------------------
(***************************************************************************)
(* Proofs about Downloads, for any number of readers, threads, files and    *)
(* requests, and for any faults; and about parseByteRange, for every header *)
(* and every size of a file.                                                *)
(***************************************************************************)
EXTENDS DownloadsProps, FileStoreProofs

----------------------------------------------------------------------------
\* What the text of a number is read as.
LEMMA TextValues ==
  ASSUME NEW text \in Text
  PROVE  /\ text.is \in {"empty", "noNumber", "number"} /\ text.value \in Int
         /\ ~Throws(text) => Stoull(text) \in 0 .. MaxUint
         /\ text.is = "number" /\ text.value \in 0 .. MaxUint
              => ~Throws(text) /\ Stoull(text) = text.value
  <1>1. text.is \in {"empty", "noNumber", "number"} /\ text.value \in Int
    BY DEF Text
  <1>2. MaxUint \in Nat
    BY WidthAssumption DEF WidthAssumption
  <1> QED BY <1>1, <1>2 DEF Throws, Stoull

\* A range that is accepted is not empty and lies within the file: the length
\* end - start + 1 that fileDownloadResponse allocates and reads (RouteUtils.cpp 286)
\* is at least one, at most the size of the file, and does not wrap around.
THEOREM RangeInside ==
  ASSUME NEW h \in Header, NEW size \in Nat, ParseByteRange(h, size).is = "range"
  PROVE  LET r == ParseByteRange(h, size) IN
         /\ r.from \in Nat /\ r.to \in Nat /\ r.from <= r.to /\ r.to < size
         /\ r.to - r.from + 1 \in 1 .. size
  <1> DEFINE from == Stoull(h.first)
             to   == LastAsked(h, size)
  <1>0. size \in Nat /\ MaxUint \in Nat
    BY WidthAssumption DEF WidthAssumption
  <1>1. h.first \in Text /\ h.last \in Text
    BY DEF Header
  <1>2. /\ ~Malformed(h, size) /\ ~TooLarge(h) /\ ~(from >= size \/ from > to)
        /\ ParseByteRange(h, size) = Bytes(from, Cut(to, size))
    BY DEF ParseByteRange, Invalid, Exception
  <1>3. from \in 0 .. MaxUint
    BY <1>1, <1>2, TextValues DEF TooLarge
  <1>4. to \in Int
    <2>1. h.last.is # "empty" => Stoull(h.last) \in 0 .. MaxUint
      BY <1>1, <1>2, TextValues DEF TooLarge
    <2> QED BY <1>0, <2>1 DEF LastAsked
  <1>5. ParseByteRange(h, size).from = from /\ ParseByteRange(h, size).to = Cut(to, size)
    BY <1>2 DEF Bytes
  <1>6. Cut(to, size) \in Int /\ from <= Cut(to, size) /\ Cut(to, size) < size
    <2> HIDE DEF from, to
    <2> QED BY <1>0, <1>2, <1>3, <1>4 DEF Cut
  <1> HIDE DEF from, to
  <1> QED BY <1>0, <1>3, <1>5, <1>6

\* A header with plain numbers is answered with exactly the bytes of the file it asks
\* for, and refused exactly when there is none.
THEOREM RangeIsAsked ==
  ASSUME NEW h \in Header, NEW size \in Nat, Plain(h)
  PROVE  LET r == ParseByteRange(h, size) IN
         IF Asked(h, size) = {} THEN r = Invalid
                                ELSE r.is = "range" /\ r.from .. r.to = Asked(h, size)
  <1> DEFINE from == h.first.value
             to   == LastAsked(h, size)
             ans  == ParseByteRange(h, size)
  <1>0. size \in Nat /\ MaxUint \in Nat
    BY WidthAssumption DEF WidthAssumption
  <1>1. /\ h.first \in Text /\ h.last \in Text /\ h.bytes /\ h.dash
        /\ h.first.is = "number" /\ from \in 0 .. MaxUint
        /\ h.last.is = "empty" \/ (h.last.is = "number" /\ h.last.value \in 0 .. MaxUint)
    BY DEF Header, Plain
  <1>2. Stoull(h.first) = from /\ ~TooLarge(h)
    BY <1>1, TextValues DEF TooLarge
  <1>3. /\ h.last.is = "empty" => to = size - 1
        /\ h.last.is = "number" => to = h.last.value
        /\ to \in Int
    <2>1. h.last.is = "number" => Stoull(h.last) = h.last.value /\ h.last.value \in Int
      BY <1>1, TextValues
    <2>2. h.last.is = "empty" => to = size - 1
      BY DEF LastAsked
    <2>3. h.last.is = "number" => to = h.last.value
      BY <2>1 DEF LastAsked
    <2> QED BY <1>0, <1>1, <2>1, <2>2, <2>3
  <1>4. ans = IF size = 0 \/ from >= size \/ from > to THEN Invalid ELSE Bytes(from, Cut(to, size))
    BY <1>1, <1>2 DEF ParseByteRange, Malformed
  <1>5. \A i \in 0 .. size - 1 : i \in Asked(h, size) <=> from <= i /\ i <= to
    <2> TAKE i \in 0 .. size - 1
    <2>1. h.last.is = "empty" => i <= to
      BY <1>0, <1>3
    <2> HIDE DEF to
    <2> QED BY <1>1, <1>3, <2>1 DEF Asked
  <1>6. Asked(h, size) \subseteq 0 .. size - 1
    BY DEF Asked
  <1> HIDE DEF to, ans
  <1>7. CASE size = 0 \/ from >= size \/ from > to
    <2>1. Asked(h, size) = {}
      BY <1>0, <1>1, <1>3, <1>5, <1>6, <1>7
    <2>2. ans = Invalid
      BY <1>4, <1>7
    <2> QED BY <2>1, <2>2 DEF ans
  <1>8. CASE ~(size = 0 \/ from >= size \/ from > to)
    <2>1. ans = Bytes(from, Cut(to, size))
      BY <1>4, <1>8
    <2>2. from \in Asked(h, size)
      BY <1>0, <1>1, <1>3, <1>5, <1>8
    <2>3. from .. Cut(to, size) = Asked(h, size)
      <3>1. \A i \in Int : i \in from .. Cut(to, size) <=> i \in 0 .. size - 1 /\ from <= i /\ i <= to
        BY <1>0, <1>1, <1>3, <1>8 DEF Cut
      <3>2. Cut(to, size) \in Int
        BY <1>0, <1>3 DEF Cut
      <3>3. from .. Cut(to, size) \subseteq Int /\ 0 .. size - 1 \subseteq Int
        BY <1>0, <1>1, <3>2
      <3>4. \A i \in Int : i \in from .. Cut(to, size) <=> i \in Asked(h, size)
        BY <1>5, <1>6, <3>1
      <3> HIDE DEF from
      <3> QED BY <1>6, <3>3, <3>4
    <2>4. ans.is = "range" /\ ans.from .. ans.to = Asked(h, size)
      BY <2>1, <2>3 DEF Bytes
    <2> QED BY <2>2, <2>4 DEF ans
  <1> QED BY <1>7, <1>8

----------------------------------------------------------------------------
\* What the handlers of FileStore do to files and shares.

\* A share is added by InsertShare alone, for a row that is there.
LEMMA SharesGrow ==
  ASSUME TypeOK, NEW t \in Threads, Step(t)
  PROVE  \A i \in shares' : i \in shares \/ (pc[t] = "insertShare" /\ i = req[t].id /\ i \in DOMAIN files)
  <1> USE DEF At
  <1>1. CASE InsertShare(t)
    BY <1>1 DEF InsertShare
  <1>2. CASE DropShares(t)
    BY <1>2 DEF DropShares
  <1>3. CASE ~ (InsertShare(t) \/ DropShares(t))
    <2>1. CASE \/ CheckParent(t) \/ CheckName(t) \/ InsertDir(t) \/ FetchDir(t)
               \/ FindObject(t) \/ OpenObject(t) \/ WriteObject(t) \/ InsertObject(t) \/ FetchObject(t)
               \/ CheckExists(t) \/ RewriteObject(t) \/ AddRef(t)
               \/ InsertRow(t) \/ AddUsed(t) \/ FetchId(t)
      BY <2>1 DEF CheckParent, CheckName, InsertDir, FetchDir, FindObject, OpenObject, WriteObject,
                  InsertObject, FetchObject, CheckExists, RewriteObject, AddRef, InsertRow, AddUsed,
                  FetchId, Undefined, tables
    <2>2. CASE \/ FindRoot(t) \/ CheckRestoreName(t) \/ CollectKids(t) \/ SoftDeleteNext(t) \/ RestoreNext(t)
               \/ PickVictim(t) \/ DropRow(t) \/ SubUsed(t)
               \/ Unref(t) \/ ReadRef(t) \/ Unlink(t) \/ DropObject(t)
      BY <2>2 DEF FindRoot, CheckRestoreName, CollectKids, SoftDeleteNext, RestoreNext, SetDeleted,
                  PickVictim, DropRow, SubUsed, Unref, ReadRef, Unlink, DropObject, tables
    <2> QED BY <1>3, <2>1, <2>2 DEF Step
  <1> QED BY <1>1, <1>2, <1>3

\* A handler comes to insertShare from FindRoot, which has found an active file.
LEMMA BeforeInsertShare ==
  ASSUME TypeOK, NEW t \in Threads, Step(t), NEW s \in Threads, pc'[s] = "insertShare"
  PROVE  /\ req'[s] = req[s]
         /\ \/ pc[s] = "insertShare"
            \/ req[s].id \in DOMAIN files /\ ~files[req[s].id].dir /\ UNCHANGED files
  <1> USE DEF At
  <1>0. pc \in [Threads -> Labels] /\ req \in [Threads -> Requests \cup {NoRequest}]
    BY DEF TypeOK, HandlersOK
  <1>r. ASSUME Reply(t) \/ Undefined(t) PROVE pc'[s] = pc[s] /\ req'[s] = req[s]
    BY <1>r, <1>0 DEF Reply, Abandon, Undefined, Die
  <1>g. ASSUME NEW label, label # "insertShare", Goto(t, label) PROVE pc'[s] = pc[s] /\ req'[s] = req[s]
    BY <1>g, <1>0 DEF Goto
  <1>v. ASSUME NextVictim(t) PROVE pc'[s] = pc[s] /\ req'[s] = req[s]
    BY <1>v, <1>r, <1>g DEF NextVictim
  <1>1. CASE FindRoot(t)
    <2>1. CASE RootFound(req[t])
      <3>1. Goto(t, AfterRoot(req[t].op)) /\ UNCHANGED files
        BY <1>1, <2>1 DEF FindRoot, tables
      <3>2. CASE s = t
        <4>1. req[t].op = "share"
          BY <3>1, <3>2, <1>0 DEF Goto, AfterRoot
        <4> QED BY <3>1, <3>2, <4>1, <2>1 DEF RootFound, ActiveRow, Goto
      <3> QED BY <3>1, <3>2, <1>0 DEF Goto
    <2>2. CASE ~RootFound(req[t])
      BY <1>1, <2>2, <1>r DEF FindRoot
    <2> QED BY <2>1, <2>2
  <1>2. CASE \/ CheckParent(t) \/ CheckName(t) \/ InsertDir(t) \/ FetchDir(t)
             \/ FindObject(t) \/ OpenObject(t) \/ InsertObject(t) \/ FetchObject(t)
             \/ CheckExists(t) \/ AddRef(t) \/ InsertRow(t) \/ AddUsed(t) \/ FetchId(t)
    BY <1>2, <1>r, <1>g DEF CheckParent, CheckName, InsertDir, FetchDir, FindObject, OpenObject,
                  InsertObject, FetchObject, CheckExists, AddRef, InsertRow, AddUsed, FetchId
  <1>3. CASE WriteObject(t) \/ RewriteObject(t) \/ Unlink(t)
    BY <1>3, <1>0 DEF WriteObject, RewriteObject, Unlink
  <1>4. CASE InsertShare(t) \/ CheckRestoreName(t) \/ CollectKids(t)
    BY <1>4, <1>r, <1>g DEF InsertShare, CheckRestoreName, CollectKids, AfterCollect
  <1>5. CASE SoftDeleteNext(t) \/ RestoreNext(t)
    BY <1>5, <1>r DEF SoftDeleteNext, RestoreNext, SetDeleted
  <1>6. CASE \/ PickVictim(t) \/ DropShares(t) \/ DropRow(t) \/ SubUsed(t)
             \/ Unref(t) \/ ReadRef(t) \/ DropObject(t)
    BY <1>6, <1>r, <1>g, <1>v DEF PickVictim, DropShares, DropRow, SubUsed, Unref, ReadRef, DropObject
  <1> QED BY <1>1, <1>2, <1>3, <1>4, <1>5, <1>6 DEF Step

\* The moves of FileStore, as DownloadsNext makes them.
StoreStep == (\E t \in Threads : Begin(t) \/ Step(t) \/ Fail(t) \/ Mislead(t)) \/ Crash

LEMMA StoreCases ==
  ASSUME StoreStep
  PROVE  (\E t \in Threads : Begin(t) \/ Step(t) \/ Fail(t) \/ Skipped(t)) \/ Crash
  BY Misled DEF StoreStep

LEMMA SharesStayFiles ==
  ASSUME TypeOK, SharesAreFiles, StoreStep
  PROVE  SharesAreFiles'
  <1>0. /\ pc \in [Threads -> Labels] /\ req \in [Threads -> Requests \cup {NoRequest}]
        /\ shares \subseteq DOMAIN files
    BY DEF TypeOK, HandlersOK, TablesOK
  <1>1. ASSUME NEW t \in Threads, Begin(t) PROVE SharesAreFiles'
    <2>1. UNCHANGED <<files, nextFile, shares>>
      BY <1>1 DEF Begin, tables
    <2>2. ASSUME NEW s \in Threads, pc'[s] = "insertShare"
          PROVE  pc[s] = "insertShare" /\ req'[s] = req[s]
      BY <1>0, <1>1, <2>2 DEF Begin, FirstLabel
    <2> QED BY <2>1, <2>2 DEF SharesAreFiles
  <1>2. ASSUME NEW t \in Threads, Step(t) PROVE SharesAreFiles'
    <2>1. TypeOK'
      BY <1>2, NextTypes DEF Next
    <2>2. ASSUME NEW i \in shares' PROVE ~files'[i].dir
      <3>1. i \in DOMAIN files /\ ~files[i].dir
        BY <1>0, <1>2, <2>2, SharesGrow DEF SharesAreFiles
      <3>2. i \in DOMAIN files'
        BY <2>1 DEF TypeOK, TablesOK
      <3> QED BY <1>2, <3>1, <3>2, RowsKeepKind DEF SameKind
    <2>3. ASSUME NEW s \in Threads, pc'[s] = "insertShare"
          PROVE  /\ req'[s].id < nextFile'
                 /\ req'[s].id \in DOMAIN files' => ~files'[req'[s].id].dir
      <3>1. /\ req'[s] = req[s]
            /\ \/ pc[s] = "insertShare"
               \/ req[s].id \in DOMAIN files /\ ~files[req[s].id].dir /\ UNCHANGED files
        BY <1>2, <2>3, BeforeInsertShare
      <3>2. req[s].id < nextFile /\ (req[s].id \in DOMAIN files => ~files[req[s].id].dir)
        BY <3>1 DEF SharesAreFiles, TypeOK, TablesOK
      <3>3. req[s] \in ShareReq
        <4>1. pc'[s] \in LabelsOf(req'[s].op) /\ req'[s] \in Requests \cup {NoRequest}
          BY <2>1 DEF TypeOK, HandlersOK
        <4>2. req'[s].op = "share"
          BY <2>3, <4>1, RequestKinds, LabelOps
        <4> QED BY <3>1, <4>1, <4>2, RequestKinds
      <3>4. req[s].id \in Nat /\ nextFile \in Nat
        BY <3>3 DEF ShareReq, TypeOK, TablesOK
      <3> QED BY <1>2, <3>1, <3>2, <3>4, RowsKeepKind DEF SameKind
    <2> QED BY <2>2, <2>3 DEF SharesAreFiles
  <1>3. CASE Crash \/ \E t \in Threads : Fail(t)
    <2>1. UNCHANGED <<files, nextFile, shares>>
      BY <1>3 DEF Crash, Fail, tables
    <2>2. ASSUME NEW s \in Threads, pc'[s] = "insertShare"
          PROVE  pc[s] = "insertShare" /\ req'[s] = req[s]
      BY <1>0, <1>3, <2>2 DEF Crash, Fail, Abandon, Die
    <2> QED BY <2>1, <2>2 DEF SharesAreFiles
  <1>4. ASSUME NEW t \in Threads, Skipped(t) PROVE SharesAreFiles'
    <2>1. UNCHANGED <<files, nextFile, shares>> /\ req' = req
      BY <1>4, SkippedMoves DEF Skipped, tables
    <2>2. ASSUME NEW s \in Threads, pc'[s] = "insertShare" PROVE pc[s] = "insertShare"
      BY <1>4, <2>2, SkippedMoves DEF OthersSame
    <2> QED BY <2>1, <2>2 DEF SharesAreFiles
  <1> QED BY <1>1, <1>2, <1>3, <1>4, StoreCases

LEMMA StoreStepTypes ==
  ASSUME TypeOK, StoreStep
  PROVE  TypeOK'
  BY NextTypes DEF StoreStep, Next

----------------------------------------------------------------------------
\* The readers: types.

\* A file on disk is absent, partial or whole.
LEMMA DiskValues ==
  ASSUME TypeOK, NEW c \in Contents
  PROVE  disk[c] \in {"absent", "partial", "whole"}
  BY DEF TypeOK, TablesOK

LEMMA WatchTypes ==
  ASSUME FetchTypeOK, Watch
  PROVE  seen' \in [Readers -> [visible : BOOLEAN, readable : BOOLEAN]]
  <1> DEFINE before(r) == IF rpc[r] = "idle" THEN Unseen ELSE seen[r]
  <1>1. ASSUME NEW r \in Readers
        PROVE  before(r) \in [visible : BOOLEAN, readable : BOOLEAN]
    BY DEF FetchTypeOK, Unseen
  <1>2. ASSUME NEW r \in Readers
        PROVE  /\ (before(r).visible \/ Offered(fetch[r])') \in BOOLEAN
               /\ (before(r).readable /\ Readable(fetch[r])') \in BOOLEAN
    BY <1>1 DEF Offered, Readable
  <1> QED BY <1>1, <1>2 DEF Watch, FetchTypeOK

\* What a FileStore move makes of the readers.
LEMMA StoreMovesTypes ==
  ASSUME TypeOK, FetchTypeOK, StoreMoves, Watch
  PROVE  FetchTypeOK'
  <1>1. rpc' \in [Readers -> {"idle", "row", "path", "count", "open", "read"}]
        /\ \A r \in Readers : rpc'[r] = "idle" \/ (rpc'[r] = rpc[r] /\ Keep)
    BY DEF StoreMoves, Lose, FetchTypeOK
  <1>2. ASSUME Keep, NEW r \in Readers
        PROVE  /\ got'[r] \in Local
               /\ got'[r].path = got[r].path /\ got'[r].token = got[r].token
               /\ got[r].file # NothingOpen => got'[r].file # NothingOpen
    <2>1. got[r] \in Local
      BY DEF FetchTypeOK
    <2>2. CASE got[r].file = "named" /\ disk[got[r].path] # "absent" /\ disk'[got[r].path] = "absent"
      <3>1. got'[r] = [got[r] EXCEPT !.file = disk[got[r].path]]
        BY <1>2, <2>2 DEF Keep
      <3>2. got[r].path \in Contents
        BY <2>2 DEF FetchTypeOK, NothingOpen, NeedsPath
      <3>3. disk[got[r].path] \in {"partial", "whole"}
        BY <2>2, <3>2, DiskValues
      <3> QED BY <2>1, <3>1, <3>3 DEF Local, NothingOpen
    <2>3. CASE ~(got[r].file = "named" /\ disk[got[r].path] # "absent" /\ disk'[got[r].path] = "absent")
      BY <1>2, <2>1, <2>3 DEF Keep
    <2> QED BY <2>2, <2>3
  <1>3. got' \in [Readers -> Local]
        /\ \A r \in Readers :
             IF rpc'[r] = "idle" /\ ~Keep THEN got'[r] = Nothing
             ELSE /\ got'[r].path = got[r].path /\ got'[r].token = got[r].token
                  /\ got[r].file # NothingOpen => got'[r].file # NothingOpen
                  /\ got'[r].file # NothingOpen => got[r].file # NothingOpen
    <2>1. CASE Keep
      <3>1. got' = [r \in Readers |-> got'[r]]
        BY <2>1 DEF Keep
      <3> QED BY <2>1, <3>1, <1>2 DEF Keep, NothingOpen
    <2>2. CASE Lose /\ ~Keep
      <3>1. Nothing \in Local
        BY DEF Nothing, Local, NothingOpen
      <3> QED BY <2>2, <3>1 DEF Lose
    <2> QED BY <2>1, <2>2 DEF StoreMoves
  <1>4. CountersOK'
    <2>1. /\ token' \in [shares' -> Nat] /\ nextToken' \in Nat \ {0} /\ nextToken <= nextToken'
          /\ \A i \in shares' : token'[i] < nextToken'
      BY DEF StoreMoves, NewToken, FetchTypeOK, CountersOK
    <2>2. ASSUME NEW count \in [shares -> Nat] PROVE Recount(count) \in [shares' -> Nat]
      BY DEF Recount
    <2> QED BY <2>1, <2>2 DEF StoreMoves, FetchTypeOK, CountersOK
  <1>5. UNCHANGED <<fetch, reply>> /\ nextToken' \in Nat /\ nextToken <= nextToken' /\ nextToken \in Nat
    BY DEF StoreMoves, NewToken, FetchTypeOK, CountersOK
  <1>6. \A r \in Readers :
          /\ rpc'[r] # "idle" => fetch'[r] \in Fetches
          /\ NeedsPath(rpc'[r], fetch'[r], got'[r]) => got'[r].path \in Contents
          /\ rpc'[r] = "read" => got'[r].file # NothingOpen
          /\ got'[r].token < nextToken'
    <2> TAKE r \in Readers
    <2>1. CASE rpc'[r] = "idle" /\ ~Keep
      <3>1. nextToken' > 0
        BY <1>5, <1>4 DEF CountersOK
      <3> QED BY <2>1, <1>3, <3>1 DEF Nothing, NothingOpen, NeedsPath
    <2>2. CASE ~(rpc'[r] = "idle" /\ ~Keep)
      <3>1. got[r].token \in Nat
        BY DEF FetchTypeOK, Local
      <3> QED BY <2>2, <1>1, <1>3, <1>5, <3>1 DEF FetchTypeOK, NeedsPath
    <2> QED BY <2>1, <2>2
  <1>7. seen' \in [Readers -> [visible : BOOLEAN, readable : BOOLEAN]]
    BY WatchTypes
  <1> QED BY <1>1, <1>3, <1>4, <1>5, <1>6, <1>7 DEF FetchTypeOK

\* The length of a file is a natural number, and a range is made of integers.
LEMMA LengthsAreNat ==
  ASSUME TypeOK, NEW c \in Contents, NEW n \in Lengths(c)
  PROVE  n \in Nat
  BY DiskValues, SizeAssumption DEF Lengths

LEMMA RangeTypes ==
  ASSUME NEW h \in Header, NEW size \in Nat
  PROVE  ParseByteRange(h, size).from \in Int /\ ParseByteRange(h, size).to \in Int
  <1>1. h.first \in Text /\ h.last \in Text /\ MaxUint \in Nat
    BY WidthAssumption DEF Header, WidthAssumption
  <1>2. \A text \in Text : text.value \in Int /\ Stoull(text) \in Int
    <2> TAKE text \in Text
    <2>1. text.value \in Int
      BY DEF Text
    <2> QED BY <1>1, <2>1 DEF Stoull
  <1>3. Stoull(h.first) \in Int /\ LastAsked(h, size) \in Int
    BY <1>1, <1>2 DEF LastAsked
  <1>4. Cut(LastAsked(h, size), size) \in Int
    BY <1>3 DEF Cut
  <1> QED BY <1>3, <1>4 DEF ParseByteRange, Invalid, Exception, Bytes

\* The requests a reader handles.
LEMMA FetchFacts ==
  ASSUME FetchTypeOK, NEW r \in Readers, rpc[r] # "idle"
  PROVE  /\ fetch[r] \in Fetch /\ fetch[r].id \in Nat /\ fetch[r].op \in {"private", "public", "view"}
         /\ fetch[r].range = WholeFile \/ fetch[r].range \in Header
  BY FetchesAssumption DEF FetchTypeOK, Fetch, FetchesAssumption

LEMMA ReaderTypes ==
  ASSUME FetchTypeOK, NEW r \in Readers
  PROVE  /\ got[r] \in Local /\ got[r].token < nextToken /\ got[r].token \in Nat
         /\ got[r].path \in Contents \cup {"none"}
         /\ rpc[r] \in {"open", "read"} => got[r].path \in Contents
  BY DEF FetchTypeOK, Local, NeedsPath

\* A reader that answers.
LEMMA AnswerTypes ==
  ASSUME FetchTypeOK, NEW r \in Readers, NEW a \in Sent, Answer(r, a)
  PROVE  /\ rpc' \in [Readers -> {"idle", "row", "path", "count", "open", "read"}]
         /\ rpc'[r] = "idle" /\ fetch' = fetch /\ got'[r] = Nothing /\ reply'[r] = a
         /\ got' \in [Readers -> Local] /\ reply' \in [Readers -> Sent]
         /\ \A s \in Readers : s # r => rpc'[s] = rpc[s] /\ got'[s] = got[s] /\ reply'[s] = reply[s]
  <1>1. Nothing \in Local
    BY DEF Nothing, Local, NothingOpen
  <1> QED BY <1>1 DEF FetchTypeOK, Answer

\* A reader that goes on.
LEMMA ReaderGotoTypes ==
  ASSUME FetchTypeOK, NEW r \in Readers, NEW label \in {"row", "path", "count", "open", "read"},
         ReaderGoto(r, label)
  PROVE  /\ rpc' \in [Readers -> {"idle", "row", "path", "count", "open", "read"}]
         /\ rpc'[r] = label /\ fetch' = fetch /\ reply' = reply
         /\ \A s \in Readers : s # r => rpc'[s] = rpc[s]
  BY DEF FetchTypeOK, ReaderGoto

\* What the readers answer with.
LEMMA StatusSent ==
  /\ NoReply \in Sent
  /\ \A s \in {200, 404, 416} : Status(s) \in Sent
  <1>1. NoReply \in Sent
    BY DEF NoReply, Sent
  <1>2. ASSUME NEW s \in {200, 404, 416} PROVE Status(s) \in Sent
    BY <1>1 DEF Status, Sent
  <1> QED BY <1>1, <1>2

LEMMA ContentSent ==
  ASSUME FetchTypeOK, NEW r \in Readers, NEW s \in {200, 206}, NEW n \in Int, NEW i \in Int,
         NEW j \in Int, NEW g \in BOOLEAN
  PROVE  Content(r, s, n, i, j, g) \in Sent
  <1>1. got[r].path \in Contents \cup {"none"}
    BY ReaderTypes
  <1> QED BY <1>1 DEF Sent, Content

\* The conjuncts of FetchTypeOK that no reader disturbs but by its own step.
LEMMA ReaderKeepsTypes ==
  ASSUME FetchTypeOK, NEW r \in Readers, Watch,
         rpc' \in [Readers -> {"idle", "row", "path", "count", "open", "read"}],
         fetch' \in [Readers -> Fetches \cup {NoFetch}],
         got' \in [Readers -> Local], reply' \in [Readers -> Sent],
         \A s \in Readers : s # r => rpc'[s] = rpc[s] /\ got'[s] = got[s] /\ fetch'[s] = fetch[s],
         UNCHANGED <<shares, token, nextToken>>, CountersOK',
         rpc'[r] # "idle" => fetch'[r] \in Fetches,
         NeedsPath(rpc'[r], fetch'[r], got'[r]) => got'[r].path \in Contents,
         rpc'[r] = "read" => got'[r].file # NothingOpen,
         got'[r].token < nextToken
  PROVE  FetchTypeOK'
  <1>1. seen' \in [Readers -> [visible : BOOLEAN, readable : BOOLEAN]]
    BY WatchTypes
  <1>2. \A s \in Readers :
          /\ rpc'[s] # "idle" => fetch'[s] \in Fetches
          /\ NeedsPath(rpc'[s], fetch'[s], got'[s]) => got'[s].path \in Contents
          /\ rpc'[s] = "read" => got'[s].file # NothingOpen
          /\ got'[s].token < nextToken'
    BY DEF FetchTypeOK
  <1> QED BY <1>1, <1>2 DEF FetchTypeOK

\* Increment counts in natural numbers.
LEMMA IncrementTypes ==
  ASSUME NEW S, NEW count \in [S -> Nat], NEW r
  PROVE  Increment(count, r) \in [S -> Nat]
  BY DEF Increment

\* The locals of a reader that has opened a file.
Opened(w, n, i, j) == [w EXCEPT !.size = n, !.from = i, !.to = j, !.file = "named"]

LEMMA OpenLocal ==
  ASSUME NEW w \in Local, NEW n \in Int, NEW i \in Int, NEW j \in Int
  PROVE  /\ Opened(w, n, i, j) \in Local
         /\ Opened(w, n, i, j).token = w.token /\ Opened(w, n, i, j).path = w.path
         /\ Opened(w, n, i, j).file = "named"
  BY DEF Local, Opened

LEMMA ReaderMovesTypes ==
  ASSUME TypeOK, FetchTypeOK, NEW r \in Readers, ReaderMoves(r), Watch
  PROVE  FetchTypeOK'
  <1> USE DEF ReaderAt
  <1>0. /\ got[r] \in Local /\ got[r].token \in Nat /\ got[r].token < nextToken
        /\ got[r].path \in Contents \cup {"none"}
        /\ rpc[r] \in {"open", "read"} => got[r].path \in Contents
        /\ fetch \in [Readers -> Fetches \cup {NoFetch}] /\ got \in [Readers -> Local]
        /\ reply \in [Readers -> Sent] /\ CountersOK
        /\ rpc[r] # "idle" => fetch[r] \in Fetches
        /\ got[r].file # NothingOpen => got[r].path \in Contents
        /\ nextToken \in Nat \ {0}
    BY ReaderTypes DEF FetchTypeOK, CountersOK, NeedsPath
  <1>a. ASSUME NEW a \in Sent, Answer(r, a), UNCHANGED <<shares, token, nextToken>>, CountersOK'
        PROVE  FetchTypeOK'
    <2>1. Nothing.file = NothingOpen /\ Nothing.token < nextToken
      BY <1>0 DEF Nothing
    <2>2. ~NeedsPath("idle", fetch[r], Nothing)
      BY <2>1 DEF NeedsPath
    <2> QED BY <1>a, <1>0, <2>1, <2>2, AnswerTypes, ReaderKeepsTypes
  <1>g. ASSUME NEW label \in {"row", "path", "count", "open"}, ReaderGoto(r, label), rpc[r] # "idle",
               NEW w \in Local, got' = [got EXCEPT ![r] = w], w.token < nextToken,
               NeedsPath(label, fetch[r], w) => w.path \in Contents,
               UNCHANGED <<shares, token, nextToken>>, CountersOK'
        PROVE  FetchTypeOK'
    <2>1. got' \in [Readers -> Local] /\ got'[r] = w /\ \A s \in Readers : s # r => got'[s] = got[s]
      BY <1>0, <1>g
    <2> QED BY <1>g, <1>0, <2>1, ReaderGotoTypes, ReaderKeepsTypes
  <1>s. NoReply \in Sent /\ \A s \in {200, 404, 416} : Status(s) \in Sent
    BY StatusSent
  <1>u. ASSUME UNCHANGED <<store, counts, served>> PROVE UNCHANGED <<shares, token, nextToken>> /\ CountersOK'
    BY <1>u, <1>0 DEF store, counts, tables, CountersOK
  <1>1. CASE BeginFetch(r)
    <2>1. PICK f \in Fetches : fetch' = [fetch EXCEPT ![r] = f]
      BY <1>1 DEF BeginFetch
    <2>2. /\ fetch' \in [Readers -> Fetches \cup {NoFetch}] /\ fetch'[r] \in Fetches
          /\ \A s \in Readers : s # r => fetch'[s] = fetch[s]
      BY <1>0, <2>1
    <2>3. reply' \in [Readers -> Sent] /\ got' = got
      BY <1>0, <1>1, <1>s DEF BeginFetch
    <2>4. /\ rpc' \in [Readers -> {"idle", "row", "path", "count", "open", "read"}] /\ rpc'[r] = "row"
          /\ \A s \in Readers : s # r => rpc'[s] = rpc[s]
      BY <1>1 DEF BeginFetch, FetchTypeOK
    <2> QED BY <1>0, <1>1, <1>u, <2>2, <2>3, <2>4, ReaderKeepsTypes DEF BeginFetch, NeedsPath
  <1>2. CASE FindFile(r)
    <2>1. CASE Visible(fetch[r])
      <3> DEFINE label == IF fetch[r].op = "view" THEN "count" ELSE "path"
                 tok == IF fetch[r].op = "private" THEN 0 ELSE token[fetch[r].id]
                 w == [got[r] EXCEPT !.obj = files[fetch[r].id].obj, !.token = tok]
      <3>1. fetch[r].id \in DOMAIN files /\ (fetch[r].op # "private" => fetch[r].id \in shares)
        BY <2>1 DEF Visible, ActiveShare, ActiveRow, TypeOK, TablesOK
      <3>2. tok \in Nat /\ tok < nextToken
        BY <3>1, <1>0 DEF CountersOK
      <3>3. files[fetch[r].id].obj \in Nat
        BY <3>1 DEF TypeOK, TablesOK, Row
      <3>4. w \in Local /\ w.token = tok /\ w.file = got[r].file /\ w.path = got[r].path
        BY <1>0, <3>2, <3>3 DEF Local
      <3>5. got' = [got EXCEPT ![r] = w] /\ ReaderGoto(r, label)
        BY <1>2, <2>1 DEF FindFile
      <3> HIDE DEF w, label
      <3>6. label \in {"count", "path"}
        BY DEF label
      <3>7. UNCHANGED <<shares, token, nextToken>> /\ CountersOK'
        BY <1>2, <1>u DEF FindFile
      <3>8. w.token < nextToken /\ rpc[r] # "idle"
        BY <1>2, <3>2, <3>4 DEF FindFile
      <3>9. NeedsPath(label, fetch[r], w) => w.path \in Contents
        BY <1>0, <3>4 DEF NeedsPath, label
      <3> QED BY <1>g, <3>4, <3>5, <3>6, <3>7, <3>8, <3>9
    <2>2. CASE ~Visible(fetch[r])
      BY <1>2, <2>2, <1>a, <1>s, <1>u DEF FindFile
    <2> QED BY <2>1, <2>2
  <1>3. CASE FindPath(r)
    <2>1. CASE got[r].obj \in DOMAIN objects
      <3> DEFINE w == [got[r] EXCEPT !.path = objects[got[r].obj].sha]
                 label == IF fetch[r].op = "public" THEN "count" ELSE "open"
      <3>1. objects[got[r].obj].sha \in Contents
        BY <2>1 DEF TypeOK, TablesOK
      <3>2. w \in Local /\ w.token = got[r].token /\ w.path \in Contents
        BY <1>0, <3>1 DEF Local
      <3>3. got' = [got EXCEPT ![r] = w] /\ ReaderGoto(r, label)
        BY <1>3, <2>1 DEF FindPath
      <3> HIDE DEF w, label
      <3>4. label \in {"count", "open"}
        BY DEF label
      <3> QED BY <1>0, <1>3, <1>g, <1>u, <3>2, <3>3, <3>4 DEF FindPath
    <2>2. CASE got[r].obj \notin DOMAIN objects
      BY <1>3, <2>2, <1>a, <1>s, <1>u DEF FindPath
    <2> QED BY <2>1, <2>2
  <1>4. CASE CountFetch(r)
    <2>0. UNCHANGED <<shares, token, nextToken>> /\ served' = served
      BY <1>4 DEF CountFetch, store, tables
    <2>1. CASE fetch[r].op = "view"
      <3>1. views' = Increment(views, r) /\ downloads' = downloads /\ Answer(r, Status(200))
        BY <1>4, <2>1 DEF CountFetch
      <3>2. CountersOK'
        BY <1>0, <2>0, <3>1, IncrementTypes DEF CountersOK
      <3> QED BY <2>0, <3>1, <3>2, <1>a, <1>s
    <2>2. CASE fetch[r].op # "view"
      <3>1. downloads' = Increment(downloads, r) /\ views' = views /\ ReaderGoto(r, "open") /\ got' = got
        BY <1>4, <2>2 DEF CountFetch
      <3>2. CountersOK'
        BY <1>0, <2>0, <3>1, IncrementTypes DEF CountersOK
      <3>3. got' = [got EXCEPT ![r] = got[r]]
        BY <1>0, <3>1
      <3>4. got[r].path \in Contents
        BY <1>4, <2>2 DEF FetchTypeOK, CountFetch, NeedsPath
      <3>5. rpc[r] # "idle" /\ got[r] \in Local /\ got[r].token < nextToken
        BY <1>0, <1>4 DEF CountFetch
      <3> QED BY <2>0, <3>1, <3>2, <3>3, <3>4, <3>5, <1>g
    <2> QED BY <2>1, <2>2
  <1>5. ASSUME NEW a \in Sent, Serves(r, a), UNCHANGED <<store, counts>>
        PROVE  FetchTypeOK'
    <2>1. UNCHANGED <<shares, token, nextToken, views, downloads>> /\ Answer(r, a)
      BY <1>5 DEF store, counts, tables, Serves
    <2>2. served' \in [shares -> Nat]
      BY <1>0, <1>5, IncrementTypes DEF Serves, CountersOK
    <2>3. CountersOK'
      BY <1>0, <2>1, <2>2 DEF CountersOK
    <2> QED BY <2>1, <2>3, <1>a
  <1>6. CASE SendFile(r)
    <2>1. got[r].path \in Contents
      BY <1>0, <1>6 DEF SendFile
    <2>2. CASE disk[got[r].path] = "absent"
      BY <1>6, <2>2, <1>a, <1>s, <1>u DEF SendFile
    <2>3. CASE disk[got[r].path] # "absent"
      <3>1. PICK n \in Lengths(got[r].path) : Serves(r, Content(r, 200, n, 0, n - 1, TRUE))
        BY <1>6, <2>3 DEF SendFile
      <3>2. n \in Int /\ n - 1 \in Int
        BY <2>1, LengthsAreNat
      <3>3. Content(r, 200, n, 0, n - 1, TRUE) \in Sent
        BY <2>1, <3>2 DEF Content, Sent
      <3> QED BY <1>6, <3>1, <3>3, <1>5 DEF SendFile
    <2> QED BY <2>2, <2>3
  <1>7. CASE OpenFile(r)
    <2>0. got[r].path \in Contents /\ fetch[r].range \in Header
      BY <1>0, <1>7, FetchFacts DEF OpenFile
    <2>1. CASE disk[got[r].path] = "absent"
      BY <1>7, <2>1, <1>a, <1>s, <1>u DEF OpenFile
    <2>2. CASE disk[got[r].path] # "absent"
      <3> DEFINE range(n) == ParseByteRange(fetch[r].range, n)
                 w(n) == [got[r] EXCEPT !.size = n, !.from = range(n).from, !.to = range(n).to,
                                        !.file = "named"]
      <3>1. PICK n \in Lengths(got[r].path) :
              \/ Answer(r, Status(416)) \/ Answer(r, Status(404))
              \/ got' = [got EXCEPT ![r] = w(n)] /\ ReaderGoto(r, "read")
        BY <1>7, <2>2 DEF OpenFile, ParseByteRange, Invalid, Exception, Bytes
      <3>2. n \in Nat
        BY <2>0, LengthsAreNat
      <3>3. range(n).from \in Int /\ range(n).to \in Int
        BY <2>0, <3>2, RangeTypes
      <3>4. w(n) \in Local /\ w(n).token = got[r].token /\ w(n).path = got[r].path /\ w(n).file = "named"
        <4> DEFINE from == range(n).from
                   to == range(n).to
        <4>1. got[r] \in Local /\ n \in Int /\ from \in Int /\ to \in Int
          BY <1>0, <3>2, <3>3
        <4> HIDE DEF from, to
        <4>2. w(n) = Opened(got[r], n, from, to)
          BY DEF Opened, from, to
        <4> QED BY <4>1, <4>2, OpenLocal
      <3>5. CASE Answer(r, Status(416)) \/ Answer(r, Status(404))
        BY <1>7, <3>5, <1>a, <1>s, <1>u DEF OpenFile
      <3>6. CASE got' = [got EXCEPT ![r] = w(n)] /\ ReaderGoto(r, "read")
        <4> HIDE DEF w
        <4>1. got' \in [Readers -> Local] /\ got'[r] = w(n) /\ \A s \in Readers : s # r => got'[s] = got[s]
          BY <1>0, <3>4, <3>6
        <4>2. UNCHANGED <<shares, token, nextToken>> /\ CountersOK'
          BY <1>7, <1>u DEF OpenFile
        <4>3. rpc[r] # "idle" /\ w(n).token < nextToken /\ w(n).path \in Contents /\ w(n).file # NothingOpen
          BY <1>0, <1>7, <2>0, <3>4 DEF OpenFile, NothingOpen
        <4> QED BY <1>0, <3>6, <4>1, <4>2, <4>3, ReaderGotoTypes, ReaderKeepsTypes
      <3> QED BY <3>1, <3>5, <3>6
    <2> QED BY <2>1, <2>2
  <1>8. CASE ReadRange(r)
    <2>1. PICK g \in Genuine(r) : Serves(r, Content(r, 206, got[r].size, got[r].from, got[r].to, g))
      BY <1>8 DEF ReadRange
    <2>2. g \in BOOLEAN /\ got[r].size \in Int /\ got[r].from \in Int /\ got[r].to \in Int
      BY <1>0 DEF Genuine, Local
    <2>3. Content(r, 206, got[r].size, got[r].from, got[r].to, g) \in Sent
      BY <2>2, ContentSent
    <2> QED BY <1>8, <2>1, <2>3, <1>5 DEF ReadRange
  <1>9. CASE FailFetch(r)
    <2>1. UNCHANGED <<shares, token, nextToken>> /\ CountersOK'
      BY <1>0, <1>9 DEF FailFetch, counts, tables, CountersOK
    <2> QED BY <1>9, <2>1, <1>a, <1>s DEF FailFetch
  <1> QED BY <1>1, <1>2, <1>3, <1>4, <1>6, <1>7, <1>8, <1>9 DEF ReaderMoves

----------------------------------------------------------------------------
\* The readers: what has been seen.

\* What the SELECTs find is offered: the row of a share is a file's.
LEMMA VisibleIsOffered ==
  ASSUME TypeOK, SharesAreFiles, NEW f \in Fetch, Visible(f)
  PROVE  Offered(f)
  <1>1. f.op \in {"private", "public", "view"}
    BY DEF Fetch
  <1>2. f.op # "private" => f.id \in DOMAIN files /\ ~files[f.id].dir
    BY DEF Visible, ActiveShare, SharesAreFiles, TypeOK, TablesOK
  <1> QED BY <1>1, <1>2 DEF Visible, ActiveShare, ActiveRow, Offered

\* Once seen, for the rest of the request.
LEMMA StaysSeen ==
  ASSUME FetchTypeOK, Watch, NEW r \in Readers, seen[r].visible,
         rpc[r] # "idle" \/ rpc'[r] = "idle"
  PROVE  seen'[r].visible
  <1>1. CASE rpc'[r] = "idle"
    BY <1>1 DEF Watch
  <1>2. CASE rpc'[r] # "idle" /\ rpc[r] # "idle"
    <2>1. seen'[r].visible = (seen[r].visible \/ Offered(fetch[r])')
      BY <1>2 DEF Watch
    <2>2. seen[r].visible
      OBVIOUS
    <2> QED BY <2>1, <2>2, Zenon
  <1> QED BY <1>1, <1>2

LEMMA StoreMovesReaders ==
  ASSUME FetchTypeOK, StoreMoves, NEW r \in Readers
  PROVE  \/ rpc'[r] = "idle"
         \/ rpc'[r] = rpc[r] /\ got'[r].token = got[r].token
  <1>1. CASE Lose
    BY <1>1 DEF Lose
  <1>2. CASE Keep /\ UNCHANGED rpc
    <2>1. got[r] \in Local
      BY DEF FetchTypeOK
    <2> QED BY <1>2, <2>1 DEF Keep, Local
  <1> QED BY <1>1, <1>2 DEF StoreMoves

LEMMA StoreMovesWatched ==
  ASSUME FetchTypeOK, Watched, StoreMoves, Watch
  PROVE  Watched'
  <1> SUFFICES ASSUME NEW r \in Readers
               PROVE  /\ rpc'[r] # "idle" => reply'[r].status = 0
                      /\ rpc'[r] \in {"path", "count", "open", "read"} \/ reply'[r].status \in {200, 206}
                           => seen'[r].visible
    BY DEF Watched
  <1>1. reply' = reply /\ (rpc'[r] = "idle" \/ rpc'[r] = rpc[r])
    BY StoreMovesReaders DEF StoreMoves
  <1>2. ASSUME seen[r].visible PROVE seen'[r].visible
    BY <1>1, <1>2, StaysSeen
  <1> QED BY <1>1, <1>2 DEF Watched

\* A reader's step leaves the other readers alone.
LEMMA OthersWait ==
  ASSUME FetchTypeOK, NEW r \in Readers, ReaderMoves(r), NEW s \in Readers, s # r
  PROVE  rpc'[s] = rpc[s] /\ reply'[s] = reply[s] /\ fetch'[s] = fetch[s] /\ got'[s] = got[s]
  <1>1. rpc \in [Readers -> {"idle", "row", "path", "count", "open", "read"}] /\ reply \in [Readers -> Sent]
        /\ got \in [Readers -> Local] /\ fetch \in [Readers -> Fetches \cup {NoFetch}]
    BY DEF FetchTypeOK
  <1>a. ASSUME NEW a, Answer(r, a)
        PROVE  rpc'[s] = rpc[s] /\ reply'[s] = reply[s] /\ fetch'[s] = fetch[s] /\ got'[s] = got[s]
    BY <1>a, <1>1 DEF Answer
  <1>g. ASSUME NEW label, ReaderGoto(r, label)
        PROVE  rpc'[s] = rpc[s] /\ reply'[s] = reply[s] /\ fetch'[s] = fetch[s]
    BY <1>g, <1>1 DEF ReaderGoto
  <1>2. CASE BeginFetch(r)
    BY <1>1, <1>2 DEF BeginFetch
  <1>3. CASE FindFile(r)
    BY <1>1, <1>3, <1>a, <1>g DEF FindFile
  <1>4. CASE FindPath(r)
    BY <1>1, <1>4, <1>a, <1>g DEF FindPath
  <1>5. CASE CountFetch(r)
    BY <1>5, <1>a, <1>g DEF CountFetch
  <1>6. CASE SendFile(r)
    BY <1>6, <1>a DEF SendFile, Serves
  <1>7. CASE OpenFile(r)
    <2>1. \/ \E a : Answer(r, a)
          \/ ReaderGoto(r, "read") /\ \E w : got' = [got EXCEPT ![r] = w]
      BY <1>7 DEF OpenFile, ParseByteRange, Invalid, Exception, Bytes
    <2> QED BY <1>1, <2>1, <1>a, <1>g
  <1>8. CASE ReadRange(r)
    BY <1>8, <1>a DEF ReadRange, Serves
  <1>9. CASE FailFetch(r)
    BY <1>9, <1>a DEF FailFetch
  <1> QED BY <1>2, <1>3, <1>4, <1>5, <1>6, <1>7, <1>8, <1>9 DEF ReaderMoves

LEMMA ReaderMovesWatched ==
  ASSUME TypeOK, FetchTypeOK, SharesAreFiles, Watched, NEW r \in Readers, ReaderMoves(r), Watch
  PROVE  Watched'
  <1> USE DEF ReaderAt
  <1> DEFINE Good(s) == /\ rpc'[s] # "idle" => reply'[s].status = 0
                        /\ rpc'[s] \in {"path", "count", "open", "read"} \/ reply'[s].status \in {200, 206}
                             => seen'[s].visible
  <1>t. rpc \in [Readers -> {"idle", "row", "path", "count", "open", "read"}] /\ reply \in [Readers -> Sent]
        /\ got \in [Readers -> Local] /\ fetch \in [Readers -> Fetches \cup {NoFetch}]
    BY DEF FetchTypeOK
  <1>1. ASSUME NEW s \in Readers, s # r PROVE Good(s)
    <2>1. rpc'[s] = rpc[s] /\ reply'[s] = reply[s]
      BY <1>1, OthersWait
    <2>2. ASSUME seen[s].visible PROVE seen'[s].visible
      BY <2>1, <2>2, StaysSeen
    <2> QED BY <1>1, <2>1, <2>2 DEF Watched
  <1>a. ASSUME NEW a \in Sent, Answer(r, a), seen[r].visible \/ a.status \notin {200, 206}
        PROVE  Good(r)
    <2>1. rpc'[r] = "idle" /\ reply'[r] = a
      BY <1>a, AnswerTypes
    <2>2. ASSUME seen[r].visible PROVE seen'[r].visible
      BY <2>1, <2>2, StaysSeen
    <2> QED BY <1>a, <2>1, <2>2
  <1>g. ASSUME NEW label \in {"path", "count", "open", "read"}, ReaderGoto(r, label), rpc[r] # "idle",
               seen[r].visible
        PROVE  Good(r)
    <2>1. seen'[r].visible
      BY <1>g, StaysSeen
    <2> QED BY <1>g, <1>t, <2>1 DEF ReaderGoto, Watched
  <1>s. /\ \A s \in {200, 404, 416} : Status(s) \in Sent
        /\ Status(404).status = 404 /\ Status(416).status = 416
    BY StatusSent DEF Status, NoReply
  <1>v. rpc[r] \in {"path", "count", "open", "read"} => seen[r].visible
    BY DEF Watched
  <1>2. ASSUME BeginFetch(r) PROVE Good(r)
    BY <1>2, <1>t DEF BeginFetch, NoReply
  <1>3. ASSUME FindFile(r) PROVE Good(r)
    <2>1. CASE Visible(fetch[r])
      <3>1. PICK label \in {"path", "count"} : ReaderGoto(r, label)
        BY <1>3, <2>1 DEF FindFile
      <3>2. fetch[r] \in Fetch /\ Offered(fetch[r])
        BY <1>3, <2>1, FetchFacts, VisibleIsOffered DEF FindFile
      <3>3. Offered(fetch[r])'
        BY <1>3, <3>1, <3>2 DEF FindFile, Offered, store, tables, ReaderGoto
      <3>4. rpc'[r] = label /\ reply' = reply
        BY <1>t, <3>1 DEF ReaderGoto
      <3>5. seen'[r].visible
        BY <1>3, <3>3, <3>4 DEF Watch, FindFile
      <3> QED BY <1>3, <3>4, <3>5 DEF Watched, FindFile
    <2>2. CASE ~Visible(fetch[r])
      BY <1>3, <2>2, <1>a, <1>s DEF FindFile
    <2> QED BY <2>1, <2>2
  <1>4. ASSUME FindPath(r) PROVE Good(r)
    <2>1. seen[r].visible
      BY <1>4, <1>v DEF FindPath
    <2>2. \/ Answer(r, Status(404))
          \/ \E label \in {"count", "open"} : ReaderGoto(r, label)
      BY <1>4 DEF FindPath
    <2> QED BY <1>4, <2>1, <2>2, <1>a, <1>g, <1>s DEF FindPath
  <1>5. ASSUME CountFetch(r) PROVE Good(r)
    <2>1. seen[r].visible
      BY <1>5, <1>v DEF CountFetch
    <2> QED BY <1>5, <2>1, <1>a, <1>g, <1>s DEF CountFetch
  <1>6. ASSUME SendFile(r) PROVE Good(r)
    <2>1. seen[r].visible /\ got[r].path \in Contents
      BY <1>6, <1>v, ReaderTypes DEF SendFile
    <2>2. CASE disk[got[r].path] = "absent"
      BY <1>6, <2>1, <2>2, <1>a, <1>s DEF SendFile
    <2>3. CASE disk[got[r].path] # "absent"
      <3>1. PICK n \in Lengths(got[r].path) : Serves(r, Content(r, 200, n, 0, n - 1, TRUE))
        BY <1>6, <2>3 DEF SendFile
      <3>2. n \in Int /\ n - 1 \in Int
        BY <2>1, LengthsAreNat
      <3>3. Content(r, 200, n, 0, n - 1, TRUE) \in Sent
        BY <2>1, <3>2 DEF Content, Sent
      <3> QED BY <2>1, <3>1, <3>3, <1>a DEF Serves
    <2> QED BY <2>2, <2>3
  <1>7. ASSUME OpenFile(r) PROVE Good(r)
    <2>1. seen[r].visible /\ rpc[r] # "idle"
      BY <1>7, <1>v DEF OpenFile
    <2>2. Answer(r, Status(404)) \/ Answer(r, Status(416)) \/ ReaderGoto(r, "read")
      BY <1>7 DEF OpenFile, ParseByteRange, Invalid, Exception, Bytes
    <2> HIDE DEF Good
    <2>3. CASE Answer(r, Status(404)) \/ Answer(r, Status(416))
      BY <2>1, <2>3, <1>a, <1>s
    <2> QED BY <2>1, <2>2, <2>3, <1>g
  <1>8. ASSUME ReadRange(r) PROVE Good(r)
    <2>1. seen[r].visible /\ got[r] \in Local
      BY <1>8, <1>v, ReaderTypes DEF ReadRange
    <2>2. PICK g \in BOOLEAN : Serves(r, Content(r, 206, got[r].size, got[r].from, got[r].to, g))
      BY <1>8 DEF ReadRange, Genuine
    <2>3. Content(r, 206, got[r].size, got[r].from, got[r].to, g) \in Sent
      BY <2>1 DEF Content, Sent, Local
    <2> QED BY <2>1, <2>2, <2>3, <1>a DEF Serves
  <1>9. ASSUME FailFetch(r) PROVE Good(r)
    BY <1>9, <1>a, <1>s DEF FailFetch
  <1>10. Good(r)
    BY <1>2, <1>3, <1>4, <1>5, <1>6, <1>7, <1>8, <1>9 DEF ReaderMoves
  <1> QED BY <1>1, <1>10 DEF Watched

----------------------------------------------------------------------------
\* The readers: what has been counted.

LEMMA CountingFinite ==
  ASSUME NEW i
  PROVE  IsFiniteSet(Counting(i)) /\ Cardinality(Counting(i)) \in Nat
  <1>1. Counting(i) \in SUBSET Readers
    BY DEF Counting
  <1> QED BY <1>1, ReadersAssumption, FS_Subset, FS_CardinalityType DEF ReadersAssumption

\* Fewer readers that have counted, and the counters no worse.
LEMMA CountingShrinks ==
  ASSUME FetchTypeOK, Counted, CountersOK', NEW i \in shares, i \in shares',
         Counting(i)' \subseteq Counting(i), served'[i] = served[i], downloads'[i] >= downloads[i]
  PROVE  served'[i] + Cardinality(Counting(i)') <= downloads'[i]
  <1>1. IsFiniteSet(Counting(i)) /\ Cardinality(Counting(i)) \in Nat
    BY CountingFinite
  <1>2. Cardinality(Counting(i)') \in Nat /\ Cardinality(Counting(i)') <= Cardinality(Counting(i))
    BY <1>1, FS_Subset, FS_CardinalityType
  <1>3. /\ served[i] \in Nat /\ downloads[i] \in Nat /\ downloads'[i] \in Nat
        /\ served[i] + Cardinality(Counting(i)) <= downloads[i]
    BY DEF Counted, FetchTypeOK, CountersOK
  <1> QED BY <1>1, <1>2, <1>3

LEMMA StoreMovesCounted ==
  ASSUME FetchTypeOK, FetchTypeOK', Counted, StoreMoves
  PROVE  Counted'
  <1>0. CountersOK /\ CountersOK' /\ fetch' = fetch
    BY DEF FetchTypeOK, StoreMoves
  <1>1. ASSUME NEW i \in shares', i \in shares
        PROVE  served'[i] + Cardinality(Counting(i)') <= downloads'[i]
    <2>1. token'[i] = token[i] /\ served'[i] = served[i] /\ downloads'[i] = downloads[i]
      BY <1>0, <1>1 DEF StoreMoves, NewToken, Recount, CountersOK
    <2>2. Counting(i)' \subseteq Counting(i)
      BY <1>0, <2>1, StoreMovesReaders DEF Counting
    <2>3. downloads[i] \in Nat
      BY <1>0, <1>1 DEF CountersOK
    <2> QED BY <1>0, <1>1, <2>1, <2>2, <2>3, CountingShrinks
  <1>2. ASSUME NEW i \in shares', i \notin shares
        PROVE  served'[i] + Cardinality(Counting(i)') <= downloads'[i]
    <2>1. token'[i] = nextToken /\ served'[i] = 0 /\ downloads'[i] = 0
      BY <1>0, <1>2 DEF StoreMoves, NewToken, Recount, CountersOK
    <2>2. \A r \in Readers : rpc'[r] = "idle" \/ got'[r].token # nextToken
      <3> TAKE r \in Readers
      <3>1. got[r].token < nextToken /\ got[r].token \in Nat /\ nextToken \in Nat
        BY <1>0, ReaderTypes DEF CountersOK
      <3> QED BY <3>1, StoreMovesReaders
    <2>3. Counting(i)' = {}
      BY <2>1, <2>2 DEF Counting
    <2> QED BY <2>1, <2>3, FS_EmptySet
  <1> QED BY <1>1, <1>2 DEF Counted

LEMMA ReaderMovesCounted ==
  ASSUME FetchTypeOK, FetchTypeOK', Counted, NEW r \in Readers, ReaderMoves(r)
  PROVE  Counted'
  <1> USE DEF ReaderAt
  <1>0. CountersOK /\ CountersOK' /\ UNCHANGED <<shares, token>>
    <2>1. UNCHANGED <<shares, token>>
      BY DEF ReaderMoves, BeginFetch, FindFile, FindPath, CountFetch, SendFile, OpenFile, ReadRange,
             FailFetch, store, tables, counts
    <2> QED BY <2>1 DEF FetchTypeOK
  <1> SUFFICES ASSUME NEW i \in shares
               PROVE  served'[i] + Cardinality(Counting(i)') <= downloads'[i]
    BY <1>0 DEF Counted
  <1>n. /\ served[i] \in Nat /\ downloads[i] \in Nat /\ served'[i] \in Nat /\ downloads'[i] \in Nat
        /\ served[i] + Cardinality(Counting(i)) <= downloads[i] /\ Cardinality(Counting(i)) \in Nat
        /\ IsFiniteSet(Counting(i))
    BY <1>0, CountingFinite DEF CountersOK, Counted
  <1>o. \A s \in Readers : s # r =>
          rpc'[s] = rpc[s] /\ fetch'[s] = fetch[s] /\ got'[s] = got[s]
    BY OthersWait
  \* Outside the labels that count, or among them all the time.
  <1>s. ASSUME \/ rpc'[r] \notin {"open", "read"}
               \/ fetch'[r].op # "public"
               \/ rpc[r] \in {"open", "read"} /\ got'[r].token = got[r].token /\ fetch'[r] = fetch[r],
               served' = served, downloads'[i] >= downloads[i]
        PROVE  served'[i] + Cardinality(Counting(i)') <= downloads'[i]
    <2>1. Counting(i)' \subseteq Counting(i)
      BY <1>0, <1>o, <1>s DEF Counting
    <2>2. i \in shares' /\ served'[i] = served[i] /\ downloads'[i] >= downloads[i] /\ CountersOK'
      BY <1>0, <1>s
    <2> QED BY <2>1, <2>2, CountingShrinks
  <1>d. ASSUME UNCHANGED counts PROVE downloads'[i] >= downloads[i]
    BY <1>d, <1>n DEF counts
  <1>t. rpc \in [Readers -> {"idle", "row", "path", "count", "open", "read"}] /\ got[r] \in Local
        /\ got \in [Readers -> Local]
    BY DEF FetchTypeOK
  <1>1. CASE BeginFetch(r)
    BY <1>1, <1>s, <1>d, <1>t DEF BeginFetch
  <1>2. CASE FindFile(r)
    <2>1. rpc'[r] \in {"idle", "path", "count"}
      BY <1>2, <1>t DEF FindFile, Answer, ReaderGoto
    <2> QED BY <1>2, <2>1, <1>s, <1>d DEF FindFile
  <1>3. CASE FindPath(r)
    <2>1. rpc'[r] \in {"idle", "count"} \/ fetch'[r].op # "public"
      BY <1>3, <1>t DEF FindPath, Answer, ReaderGoto
    <2> QED BY <1>3, <2>1, <1>s, <1>d DEF FindPath
  <1>4. CASE CountFetch(r)
    <2>0. served' = served /\ rpc[r] = "count"
      BY <1>4 DEF CountFetch
    <2>1. CASE fetch[r].op = "view"
      <3>1. rpc'[r] = "idle" /\ downloads' = downloads
        BY <1>4, <2>1, <1>t DEF CountFetch, Answer
      <3> QED BY <2>0, <3>1, <1>s, <1>n
    <2>2. CASE fetch[r].op # "view"
      <3>1. downloads' = Increment(downloads, r) /\ fetch' = fetch /\ got' = got
        BY <1>4, <2>2 DEF CountFetch, ReaderGoto
      <3>2. downloads'[i] = IF i = fetch[r].id /\ token[i] = got[r].token THEN downloads[i] + 1 ELSE downloads[i]
        BY <1>0, <3>1 DEF Increment, CountersOK
      <3>3. CASE i = fetch[r].id /\ token[i] = got[r].token
        <4>1. Counting(i)' \subseteq Counting(i) \cup {r}
          BY <1>0, <1>o DEF Counting
        <4>2. r \notin Counting(i)
          BY <2>0 DEF Counting
        <4>3. IsFiniteSet(Counting(i) \cup {r}) /\ Cardinality(Counting(i) \cup {r}) = Cardinality(Counting(i)) + 1
          BY <1>n, <4>2, FS_AddElement
        <4>4. Cardinality(Counting(i)') <= Cardinality(Counting(i)) + 1
          BY <4>1, <4>3, FS_Subset
        <4>5. Cardinality(Counting(i)') \in Nat
          BY <4>1, <4>3, FS_Subset, FS_CardinalityType
        <4> QED BY <2>0, <3>2, <3>3, <4>4, <4>5, <1>n
      <3>4. CASE ~(i = fetch[r].id /\ token[i] = got[r].token)
        <4>1. Counting(i)' \subseteq Counting(i)
          BY <1>0, <1>o, <3>1, <3>4 DEF Counting
        <4>2. i \in shares' /\ served'[i] = served[i] /\ downloads'[i] >= downloads[i] /\ CountersOK'
          BY <1>0, <1>n, <2>0, <3>2, <3>4
        <4> QED BY <4>1, <4>2, CountingShrinks
      <3> QED BY <3>3, <3>4
    <2> QED BY <2>1, <2>2
  <1>5. ASSUME NEW a, Serves(r, a), UNCHANGED counts, rpc[r] \in {"open", "read"}
        PROVE  served'[i] + Cardinality(Counting(i)') <= downloads'[i]
    <2>1. rpc'[r] = "idle" /\ fetch' = fetch /\ downloads'[i] = downloads[i]
      BY <1>5, <1>t DEF Serves, Answer, counts
    <2>2. Counting(i)' \subseteq Counting(i) \ {r}
      BY <1>0, <1>o, <2>1 DEF Counting
    <2>3. CASE r \in Counting(i)
      <3>1. served'[i] = served[i] + 1
        BY <1>0, <1>5, <2>3 DEF Serves, Increment, Counting, CountersOK
      <3>2. IsFiniteSet(Counting(i) \ {r}) /\ Cardinality(Counting(i) \ {r}) = Cardinality(Counting(i)) - 1
        BY <1>n, <2>3, FS_RemoveElement
      <3>3. Cardinality(Counting(i)') <= Cardinality(Counting(i)) - 1
        BY <2>2, <3>2, FS_Subset
      <3>4. Cardinality(Counting(i)') \in Nat
        BY <2>2, <3>2, FS_Subset, FS_CardinalityType
      <3> QED BY <1>n, <2>1, <3>1, <3>3, <3>4
    <2>4. CASE r \notin Counting(i)
      <3>1. served'[i] = served[i]
        BY <1>0, <1>5, <2>4 DEF Serves, Increment, Counting, CountersOK
      <3>2. Counting(i)' \subseteq Counting(i) /\ i \in shares' /\ downloads'[i] >= downloads[i] /\ CountersOK'
        BY <1>0, <1>n, <2>1, <2>2
      <3> QED BY <3>1, <3>2, CountingShrinks
    <2> QED BY <2>3, <2>4
  <1>6. ASSUME NEW a, Answer(r, a), served' = served, UNCHANGED counts
        PROVE  served'[i] + Cardinality(Counting(i)') <= downloads'[i]
    <2>1. rpc'[r] = "idle"
      BY <1>6, <1>t DEF Answer
    <2> QED BY <1>6, <2>1, <1>s, <1>d
  <1>7. CASE SendFile(r)
    <2>1. rpc[r] = "open" /\ UNCHANGED counts
          /\ ((\E a : Answer(r, a) /\ served' = served) \/ \E a : Serves(r, a))
      BY <1>7 DEF SendFile
    <2> QED BY <2>1, <1>5, <1>6
  <1>8. CASE OpenFile(r)
    <2> DEFINE range(n) == ParseByteRange(fetch[r].range, n)
               w(n) == [got[r] EXCEPT !.size = n, !.from = range(n).from, !.to = range(n).to,
                                      !.file = "named"]
    <2>1. rpc[r] = "open" /\ UNCHANGED counts /\ served' = served
      BY <1>8 DEF OpenFile
    <2>2. \/ \E a : Answer(r, a)
          \/ \E n : got' = [got EXCEPT ![r] = w(n)] /\ ReaderGoto(r, "read")
      BY <1>8 DEF OpenFile, ParseByteRange, Invalid, Exception, Bytes
    <2>3. ASSUME NEW n PROVE w(n).token = got[r].token
      <3> HIDE DEF range
      <3> QED BY <1>t DEF Local
    <2> HIDE DEF w
    <2>4. CASE \E a : Answer(r, a)
      BY <2>1, <2>4, <1>6
    <2>5. CASE \E n : got' = [got EXCEPT ![r] = w(n)] /\ ReaderGoto(r, "read")
      <3>1. got'[r].token = got[r].token /\ fetch' = fetch
        BY <2>3, <2>5, <1>t DEF ReaderGoto
      <3> QED BY <2>1, <3>1, <1>s, <1>d
    <2> QED BY <2>2, <2>4, <2>5
  <1>9. CASE ReadRange(r)
    <2>1. rpc[r] = "read" /\ UNCHANGED counts /\ \E a : Serves(r, a)
      BY <1>9 DEF ReadRange
    <2> QED BY <2>1, <1>5
  <1>10. CASE FailFetch(r)
    BY <1>10, <1>6 DEF FailFetch
  <1> QED BY <1>1, <1>2, <1>3, <1>4, <1>7, <1>8, <1>9, <1>10 DEF ReaderMoves

----------------------------------------------------------------------------
\* The invariant.

LEMMA DownloadsStart == DownloadsInit => DownloadsInv
  <1> SUFFICES ASSUME DownloadsInit PROVE DownloadsInv
    OBVIOUS
  <1>1. TypeOK /\ shares = {}
    BY InitTypes DEF DownloadsInit, Init
  <1>2. Nothing \in Local /\ Nothing.file = NothingOpen /\ Nothing.token = 0 /\ NoReply \in Sent
        /\ NoReply.status = 0
    BY StatusSent DEF Nothing, Local, NothingOpen, NoReply
  <1>3. CountersOK
    BY <1>1 DEF DownloadsInit, CountersOK, EmptyTable
  <1>4. FetchTypeOK
    <2>1. got \in [Readers -> Local] /\ reply \in [Readers -> Sent]
      BY <1>2 DEF DownloadsInit
    <2>2. seen \in [Readers -> [visible : BOOLEAN, readable : BOOLEAN]]
      BY DEF DownloadsInit, Unseen
    <2>3. \A r \in Readers : rpc[r] = "idle" /\ got[r] = Nothing
      BY DEF DownloadsInit
    <2>4. nextToken = 1
      BY DEF DownloadsInit
    <2>5. \A r \in Readers :
            /\ rpc[r] # "idle" => fetch[r] \in Fetches
            /\ NeedsPath(rpc[r], fetch[r], got[r]) => got[r].path \in Contents
            /\ rpc[r] = "read" => got[r].file # NothingOpen
            /\ got[r].token < nextToken
      BY <1>2, <2>3, <2>4 DEF NeedsPath
    <2>6. rpc \in [Readers -> {"idle", "row", "path", "count", "open", "read"}]
          /\ fetch \in [Readers -> Fetches \cup {NoFetch}]
      BY DEF DownloadsInit
    <2> QED BY <1>3, <2>1, <2>2, <2>5, <2>6 DEF FetchTypeOK
  <1>5. SharesAreFiles
    BY <1>1 DEF SharesAreFiles, DownloadsInit, Init
  <1>6. Watched
    BY <1>2 DEF Watched, DownloadsInit
  <1>7. Counted
    BY <1>1 DEF Counted
  <1> QED BY <1>1, <1>4, <1>5, <1>6, <1>7 DEF DownloadsInv

LEMMA DownloadsStep == DownloadsInv /\ [DownloadsNext]_downloadsVars => DownloadsInv'
  <1> SUFFICES ASSUME DownloadsInv, [DownloadsNext]_downloadsVars PROVE DownloadsInv'
    OBVIOUS
  <1>0. TypeOK /\ FetchTypeOK /\ SharesAreFiles /\ Watched /\ Counted
    BY DEF DownloadsInv
  <1>1. CASE StoreMoves /\ Watch
    <2>1. StoreStep
      BY <1>1 DEF StoreMoves, StoreStep
    <2>2. TypeOK' /\ SharesAreFiles' /\ FetchTypeOK'
      BY <1>0, <1>1, <2>1, StoreStepTypes, SharesStayFiles, StoreMovesTypes
    <2> QED BY <1>0, <1>1, <2>2, StoreMovesWatched, StoreMovesCounted DEF DownloadsInv
  <1>2. ASSUME NEW r \in Readers, ReaderMoves(r), Watch PROVE DownloadsInv'
    <2>1. FetchTypeOK' /\ Watched' /\ Counted'
      BY <1>0, <1>2, ReaderMovesTypes, ReaderMovesWatched, ReaderMovesCounted
    <2>2. UNCHANGED <<tables, disk, handler, issued>> /\ faults' \in Nat
      <3>1. CASE FailFetch(r)
        BY <1>0, <3>1 DEF FailFetch, TypeOK
      <3>2. CASE ~FailFetch(r)
        BY <1>0, <1>2, <3>2 DEF ReaderMoves, BeginFetch, FindFile, FindPath, CountFetch, SendFile,
             OpenFile, ReadRange, store, bounds, TypeOK
      <3> QED BY <3>1, <3>2
    <2>3. TypeOK' /\ SharesAreFiles'
      BY <1>0, <2>2 DEF TypeOK, TablesOK, HandlersOK, SharesAreFiles, tables, handler
    <2> QED BY <2>1, <2>3 DEF DownloadsInv
  <1>3. CASE UNCHANGED downloadsVars
    <2>1. UNCHANGED <<tables, disk, handler, bounds>> /\ UNCHANGED <<rpc, fetch, got, reply, seen, served>>
          /\ UNCHANGED <<token, nextToken, views, downloads>>
      BY <1>3 DEF downloadsVars, store, reading, counts
    <2>2. TypeOK' /\ SharesAreFiles'
      BY <1>0, <2>1 DEF TypeOK, TablesOK, HandlersOK, SharesAreFiles, tables, handler, bounds
    <2>3. FetchTypeOK' /\ Watched' /\ Counted'
      BY <1>0, <2>1 DEF FetchTypeOK, CountersOK, Watched, Counted, Counting, tables
    <2> QED BY <2>2, <2>3 DEF DownloadsInv
  <1>4. CASE Quiet /\ ReadersQuiet /\ UNCHANGED <<store, reading, reply, counts, fetched, served, seen>>
    BY <1>3, <1>4 DEF downloadsVars
  <1> QED BY <1>1, <1>2, <1>3, <1>4 DEF DownloadsNext

\* The invariant that the three below follow from: types, shares of files only, what
\* each reader has seen and counted (FileRoutes.cpp 182-200, ShareRoutes.cpp 13-119).
THEOREM DownloadsInvHolds == DownloadsSpec => []DownloadsInv
  BY DownloadsStart, DownloadsStep, PTL DEF DownloadsSpec

\* Whatever is deleted, purged, restored and shared again while it is handled, a
\* request is answered with a file, or the page of a share, only if the client could
\* have had it at some time since it came (loadActiveShare, FileRoutes.cpp 182-186).
THEOREM OnlyVisibleSentHolds == DownloadsSpec => []OnlyVisibleSent
  <1>1. DownloadsInv => OnlyVisibleSent
    BY DEF DownloadsInv, Watched, OnlyVisibleSent, Succeeded
  <1> QED BY <1>1, DownloadsInvHolds, PTL

\* However many visitors download at once, and whatever throws in between, the
\* download_count of a share covers the downloads it has served (ShareRoutes.cpp 117).
THEOREM CountedIfSentHolds == DownloadsSpec => []CountedIfSent
  <1>1. ASSUME DownloadsInv PROVE CountedIfSent
    <2>1. ASSUME NEW i \in shares PROVE served[i] <= downloads[i]
      <3>1. Cardinality(Counting(i)) \in Nat
        BY CountingFinite
      <3>2. served[i] \in Nat /\ downloads[i] \in Nat
            /\ served[i] + Cardinality(Counting(i)) <= downloads[i]
        BY <1>1 DEF DownloadsInv, FetchTypeOK, CountersOK, Counted
      <3> QED BY <3>1, <3>2
    <2> QED BY <2>1 DEF CountedIfSent
  <1> QED BY <1>1, DownloadsInvHolds, PTL

----------------------------------------------------------------------------
\* A file that is there is found.

\* What has been there all the time is there now.
LEMMA StaysReadable ==
  ASSUME FetchTypeOK, Watch, NEW r \in Readers, rpc'[r] # "idle", seen'[r].readable
  PROVE  Readable(fetch[r])' /\ (rpc[r] # "idle" => seen[r].readable)
  <1>1. seen'[r].readable =
          ((IF rpc[r] = "idle" THEN Unseen ELSE seen[r]).readable /\ Readable(fetch[r])')
    BY DEF Watch
  <1> QED BY <1>1, Zenon

\* The row of a file keeps its object, and the object its content, as long as it is there.
LEMMA StoreKeepsPath ==
  ASSUME TypeOK, TypeOK', StoreStep, NEW i \in DOMAIN files, i \in DOMAIN files', ~files[i].dir
  PROVE  /\ files'[i].obj = files[i].obj
         /\ objects'[files[i].obj].sha = objects[files[i].obj].sha
  <1>1. ASSUME NEW t \in Threads, Begin(t) \/ Fail(t) PROVE UNCHANGED tables
    BY <1>1 DEF Begin, Fail
  <1>2. Crash => UNCHANGED tables
    BY DEF Crash
  <1>3. ASSUME NEW t \in Threads, Skipped(t) PROVE UNCHANGED tables
    BY <1>3 DEF Skipped
  <1> QED BY <1>1, <1>2, <1>3, StoreCases, RowsKeepContent DEF tables

\* What a reader has found does not change under it.
LEMMA StoreMovesGot ==
  ASSUME FetchTypeOK, StoreMoves, NEW r \in Readers
  PROVE  \/ rpc'[r] = "idle"
         \/ rpc'[r] = rpc[r] /\ got'[r].obj = got[r].obj /\ got'[r].path = got[r].path
  <1>1. CASE Lose
    BY <1>1 DEF Lose
  <1>2. CASE Keep /\ UNCHANGED rpc
    <2>1. got[r] \in Local
      BY DEF FetchTypeOK
    <2> QED BY <1>2, <2>1 DEF Keep, Local
  <1> QED BY <1>1, <1>2 DEF StoreMoves

LEMMA StoreMovesFound ==
  ASSUME TypeOK, TypeOK', FetchTypeOK, Watched, FoundPath, FoundIfThere, StoreMoves, StoreStep, Watch
  PROVE  FoundPath' /\ FoundIfThere'
  <1>0. fetch' = fetch /\ reply' = reply
    BY DEF StoreMoves
  <1>1. FoundPath'
    <2>1. SUFFICES ASSUME NEW r \in Readers, rpc'[r] # "idle", seen'[r].readable
                   PROVE  LET o == files'[fetch'[r].id].obj IN
                          /\ Readable(fetch[r])'
                          /\ rpc'[r] # "row" => got'[r].obj = o
                          /\ rpc'[r] \in {"open", "read"} \/ (rpc'[r] = "count" /\ fetch'[r].op # "view")
                               => got'[r].path = objects'[o].sha
      BY DEF FoundPath
    <2>2. rpc'[r] = rpc[r] /\ got'[r].obj = got[r].obj /\ got'[r].path = got[r].path
      BY <2>1, StoreMovesGot
    <2>3. Readable(fetch[r])' /\ seen[r].readable
      BY <2>1, <2>2, StaysReadable
    <2>4. PICK i : i = fetch[r].id
      OBVIOUS
    <2>5. i \in DOMAIN files /\ i \in DOMAIN files' /\ ~files[i].dir
      BY <1>0, <2>1, <2>2, <2>3, <2>4 DEF FoundPath, Readable, Offered
    <2>6. files'[i].obj = files[i].obj /\ objects'[files[i].obj].sha = objects[files[i].obj].sha
      BY <2>5, StoreKeepsPath
    <2> QED BY <1>0, <2>1, <2>2, <2>3, <2>4, <2>6 DEF FoundPath
  <1>2. FoundIfThere'
    <2>1. SUFFICES ASSUME NEW r \in Readers, rpc'[r] = "idle", reply'[r].status = 404, faults' = 0,
                          seen'[r].readable
                   PROVE  fetch'[r].range # WholeFile /\ TooLarge(fetch'[r].range)
      BY DEF FoundIfThere
    <2>2. rpc[r] = "idle"
      BY <1>0, <2>1 DEF Watched
    <2>3. seen'[r] = seen[r]
      BY <2>1 DEF Watch
    <2>4. faults = 0
      <3>1. ASSUME NEW t \in Threads, Step(t) PROVE faults = 0
        <4>1. faults' = faults \/ faults' = faults + 1
          BY <3>1, FaultsGrow
        <4> QED BY <2>1, <4>1 DEF TypeOK
      <3>2. ASSUME NEW t \in Threads, Begin(t) \/ Fail(t) PROVE faults = 0
        BY <2>1, <3>2 DEF Begin, Fail, TypeOK
      <3>3. Crash => faults = 0
        BY <2>1 DEF Crash, TypeOK
      <3>4. ASSUME NEW t \in Threads, Skipped(t) PROVE faults = 0
        BY <2>1, <3>4 DEF Skipped, TypeOK
      <3> QED BY <3>1, <3>2, <3>3, <3>4, StoreCases
    <2> QED BY <1>0, <2>1, <2>2, <2>3, <2>4 DEF FoundIfThere
  <1> QED BY <1>1, <1>2

\* What is there to read can be selected and opened.
LEMMA ReadableIsVisible ==
  ASSUME NEW f \in Fetch, Readable(f)
  PROVE  /\ Visible(f)
         /\ files[f.id].obj \in DOMAIN objects
         /\ disk[objects[files[f.id].obj].sha] = "whole"
  <1>1. f.op \in {"private", "public", "view"}
    BY DEF Fetch
  <1> QED BY <1>1 DEF Readable, Offered, Visible, ActiveShare, ActiveRow

LEMMA ReaderMovesFound ==
  ASSUME TypeOK, FetchTypeOK, FoundPath, FoundIfThere, NEW r \in Readers, ReaderMoves(r), Watch
  PROVE  FoundPath' /\ FoundIfThere'
  <1> USE DEF ReaderAt
  <1> DEFINE Has(s) == rpc'[s] # "idle" /\ seen'[s].readable =>
               LET o == files'[fetch'[s].id].obj IN
               /\ Readable(fetch[s])'
               /\ rpc'[s] # "row" => got'[s].obj = o
               /\ rpc'[s] \in {"open", "read"} \/ (rpc'[s] = "count" /\ fetch'[s].op # "view")
                    => got'[s].path = objects'[o].sha
             Finds(s) == rpc'[s] = "idle" /\ reply'[s].status = 404 /\ faults' = 0 /\ seen'[s].readable =>
                           fetch'[s].range # WholeFile /\ TooLarge(fetch'[s].range)
  <1>t. rpc \in [Readers -> {"idle", "row", "path", "count", "open", "read"}] /\ reply \in [Readers -> Sent]
        /\ got \in [Readers -> Local] /\ fetch \in [Readers -> Fetches \cup {NoFetch}]
    BY DEF FetchTypeOK
  <1>u. UNCHANGED <<tables, disk>> /\ (faults' = 0 => faults = 0)
    <2>1. CASE FailFetch(r)
      BY <2>1 DEF FailFetch, TypeOK
    <2>2. CASE ~FailFetch(r)
      BY <2>2 DEF ReaderMoves, BeginFetch, FindFile, FindPath, CountFetch, SendFile, OpenFile, ReadRange,
                  store, bounds
    <2> QED BY <2>1, <2>2
  <1>w. \A s \in Readers : rpc'[s] # "idle" /\ seen'[s].readable =>
          Readable(fetch[s])' /\ (rpc[s] # "idle" => seen[s].readable)
    BY StaysReadable
  <1>i. \A s \in Readers : rpc'[s] = "idle" => seen'[s] = seen[s]
    BY DEF Watch
  \* The other readers.
  <1>1. ASSUME NEW s \in Readers, s # r PROVE Has(s) /\ Finds(s)
    <2>1. rpc'[s] = rpc[s] /\ reply'[s] = reply[s] /\ fetch'[s] = fetch[s] /\ got'[s] = got[s]
      BY <1>1, OthersWait
    <2>2. Has(s)
      BY <1>u, <1>w, <2>1 DEF FoundPath, tables
    <2>3. Finds(s)
      <3>1. SUFFICES ASSUME rpc'[s] = "idle", reply'[s].status = 404, faults' = 0, seen'[s].readable
                     PROVE  fetch'[s].range # WholeFile /\ TooLarge(fetch'[s].range)
        OBVIOUS
      <3>2. rpc[s] = "idle" /\ reply[s].status = 404 /\ faults = 0 /\ seen[s].readable
        BY <1>u, <1>i, <2>1, <3>1
      <3>3. fetch[s].range # WholeFile /\ TooLarge(fetch[s].range)
        BY <3>2 DEF FoundIfThere
      <3> QED BY <2>1, <3>3
    <2> QED BY <2>2, <2>3
  \* What the reader itself has.
  <1>h. ASSUME rpc[r] # "idle", seen[r].readable
        PROVE  /\ Visible(fetch[r]) /\ fetch[r] \in Fetch
               /\ files[fetch[r].id].obj \in DOMAIN objects
               /\ disk[objects[files[fetch[r].id].obj].sha] = "whole"
               /\ rpc[r] # "row" => got[r].obj = files[fetch[r].id].obj
               /\ rpc[r] \in {"open", "read"} \/ (rpc[r] = "count" /\ fetch[r].op # "view")
                    => got[r].path = objects[files[fetch[r].id].obj].sha
    <2>1. fetch[r] \in Fetch
      BY <1>h, FetchFacts
    <2>2. Readable(fetch[r])
      BY <1>h DEF FoundPath
    <2> QED BY <1>h, <2>1, <2>2, ReadableIsVisible DEF FoundPath
  \* It answers.
  <1>a. ASSUME NEW a \in Sent, Answer(r, a), rpc[r] # "idle",
               a.status = 404 => faults' # 0 \/ ~seen[r].readable
                                 \/ (fetch[r].range # WholeFile /\ TooLarge(fetch[r].range))
        PROVE  Has(r) /\ Finds(r)
    <2>1. rpc'[r] = "idle" /\ reply'[r] = a /\ fetch' = fetch
      BY <1>a, AnswerTypes
    <2> QED BY <1>a, <1>i, <2>1
  \* It goes on.
  <1>g. ASSUME NEW label \in {"path", "count", "open", "read"}, ReaderGoto(r, label), rpc[r] # "idle",
               seen[r].readable =>
                 /\ got'[r].obj = files[fetch[r].id].obj
                 /\ label \in {"open", "read"} \/ (label = "count" /\ fetch[r].op # "view")
                      => got'[r].path = objects[files[fetch[r].id].obj].sha
        PROVE  Has(r) /\ Finds(r)
    <2>1. rpc'[r] = label /\ fetch' = fetch /\ label # "idle"
      BY <1>g, ReaderGotoTypes
    <2> QED BY <1>g, <1>u, <1>w, <2>1 DEF tables
  <1>s. /\ \A s \in {200, 404, 416} : Status(s) \in Sent /\ Status(s).status = s
    BY StatusSent DEF Status, NoReply
  <1>2. ASSUME BeginFetch(r) PROVE Has(r) /\ Finds(r)
    <2>1. rpc'[r] = "row"
      BY <1>2, <1>t DEF BeginFetch
    <2> QED BY <1>w, <2>1
  <1>3. ASSUME FindFile(r) PROVE Has(r) /\ Finds(r)
    <2>0. rpc[r] = "row"
      BY <1>3 DEF FindFile
    <2> HIDE DEF Has, Finds
    <2>1. CASE Visible(fetch[r])
      <3>1. ReaderGoto(r, IF fetch[r].op = "view" THEN "count" ELSE "path")
        BY <1>3, <2>1 DEF FindFile
      <3>2. got'[r].obj = files[fetch[r].id].obj
        <4> DEFINE tok == IF fetch[r].op = "private" THEN 0 ELSE token[fetch[r].id]
                   obj == files[fetch[r].id].obj
        <4>1. got' = [got EXCEPT ![r].obj = obj, ![r].token = tok]
          BY <1>3, <2>1 DEF FindFile
        <4> HIDE DEF tok, obj
        <4>2. got'[r].obj = obj
          BY <4>1, <1>t DEF Local
        <4> QED BY <4>2 DEF obj
      <3> QED BY <2>0, <3>1, <3>2, <1>g
    <2>2. CASE ~Visible(fetch[r])
      <3>1. Answer(r, Status(404)) /\ ~seen[r].readable
        BY <1>3, <1>h, <2>0, <2>2 DEF FindFile
      <3> QED BY <2>0, <3>1, <1>a, <1>s
    <2> QED BY <2>1, <2>2
  <1>4. ASSUME FindPath(r) PROVE Has(r) /\ Finds(r)
    <2>0. rpc[r] = "path"
      BY <1>4 DEF FindPath
    <2> HIDE DEF Has, Finds
    <2>1. CASE got[r].obj \in DOMAIN objects
      <3>1. ReaderGoto(r, IF fetch[r].op = "public" THEN "count" ELSE "open")
        BY <1>4, <2>1 DEF FindPath
      <3>2. got'[r].obj = got[r].obj /\ got'[r].path = objects[got[r].obj].sha
        <4> DEFINE path == objects[got[r].obj].sha
        <4>1. got' = [got EXCEPT ![r].path = path]
          BY <1>4, <2>1 DEF FindPath
        <4> HIDE DEF path
        <4>2. got'[r].path = path /\ got'[r].obj = got[r].obj
          BY <4>1, <1>t DEF Local
        <4> QED BY <4>2 DEF path
      <3>3. seen[r].readable => got[r].obj = files[fetch[r].id].obj
        BY <1>h, <2>0
      <3> QED BY <2>0, <3>1, <3>2, <3>3, <1>g
    <2>2. CASE got[r].obj \notin DOMAIN objects
      <3>1. Answer(r, Status(404)) /\ ~seen[r].readable
        BY <1>4, <1>h, <2>0, <2>2 DEF FindPath
      <3> QED BY <2>0, <3>1, <1>a, <1>s
    <2> QED BY <2>1, <2>2
  <1>5. ASSUME CountFetch(r) PROVE Has(r) /\ Finds(r)
    <2>0. rpc[r] = "count"
      BY <1>5 DEF CountFetch
    <2> HIDE DEF Has, Finds
    <2>1. CASE fetch[r].op = "view"
      BY <1>5, <2>0, <2>1, <1>a, <1>s DEF CountFetch
    <2>2. CASE fetch[r].op # "view"
      <3>1. ReaderGoto(r, "open") /\ got' = got
        BY <1>5, <2>2 DEF CountFetch
      <3> QED BY <2>0, <2>2, <3>1, <1>h, <1>g
    <2> QED BY <2>1, <2>2
  <1>6. ASSUME SendFile(r) PROVE Has(r) /\ Finds(r)
    <2>0. rpc[r] = "open" /\ got[r].path \in Contents
      BY <1>6, ReaderTypes DEF SendFile
    <2> HIDE DEF Has, Finds
    <2>1. CASE disk[got[r].path] = "absent"
      <3>1. Answer(r, Status(404)) /\ ~seen[r].readable
        BY <1>6, <1>h, <2>0, <2>1 DEF SendFile
      <3> QED BY <2>0, <3>1, <1>a, <1>s
    <2>2. CASE disk[got[r].path] # "absent"
      <3>1. PICK n \in Lengths(got[r].path) : Serves(r, Content(r, 200, n, 0, n - 1, TRUE))
        BY <1>6, <2>2 DEF SendFile
      <3>2. n \in Int /\ n - 1 \in Int
        BY <2>0, LengthsAreNat
      <3> DEFINE whole == Content(r, 200, n, 0, n - 1, TRUE)
      <3>3. whole \in Sent /\ whole.status = 200
        BY <2>0, <3>2 DEF Content, Sent
      <3>4. Answer(r, whole)
        BY <3>1 DEF Serves
      <3> HIDE DEF whole
      <3> QED BY <2>0, <3>3, <3>4, <1>a
    <2> QED BY <2>1, <2>2
  <1>7. ASSUME OpenFile(r) PROVE Has(r) /\ Finds(r)
    <2>0. rpc[r] = "open" /\ fetch[r].range # WholeFile
      BY <1>7 DEF OpenFile
    <2> DEFINE range(n) == ParseByteRange(fetch[r].range, n)
               w(n) == [got[r] EXCEPT !.size = n, !.from = range(n).from, !.to = range(n).to,
                                      !.file = "named"]
    <2> HIDE DEF Has, Finds
    <2>1. CASE disk[got[r].path] = "absent"
      <3>1. Answer(r, Status(404)) /\ ~seen[r].readable
        BY <1>7, <1>h, <2>0, <2>1 DEF OpenFile
      <3> QED BY <2>0, <3>1, <1>a, <1>s
    <2>2. CASE disk[got[r].path] # "absent"
      <3>1. PICK n \in Lengths(got[r].path) :
              CASE range(n).is = "invalid"   -> Answer(r, Status(416))
                [] range(n).is = "exception" -> Answer(r, Status(404))
                [] range(n).is = "range"     -> got' = [got EXCEPT ![r] = w(n)] /\ ReaderGoto(r, "read")
        BY <1>7, <2>2 DEF OpenFile
      <3>2. range(n).is = "exception" => TooLarge(fetch[r].range)
        BY DEF ParseByteRange, Invalid, Bytes
      <3>3. range(n).is \in {"invalid", "exception", "range"}
        BY DEF ParseByteRange, Invalid, Exception, Bytes
      <3>4. w(n).obj = got[r].obj /\ w(n).path = got[r].path
        <4> DEFINE from == range(n).from
                   to == range(n).to
        <4> HIDE DEF from, to
        <4>1. w(n) = [got[r] EXCEPT !.size = n, !.from = from, !.to = to, !.file = "named"]
          BY DEF from, to
        <4> HIDE DEF w
        <4> QED BY <1>t, <4>1 DEF Local
      <3> HIDE DEF range, w
      <3>5. CASE Answer(r, Status(416))
        BY <2>0, <3>5, <1>a, <1>s
      <3>6. CASE Answer(r, Status(404)) /\ TooLarge(fetch[r].range)
        BY <2>0, <3>6, <1>a, <1>s
      <3>7. CASE got' = [got EXCEPT ![r] = w(n)] /\ ReaderGoto(r, "read")
        <4>1. got'[r].obj = got[r].obj /\ got'[r].path = got[r].path
          BY <1>t, <3>4, <3>7
        <4> QED BY <2>0, <3>7, <4>1, <1>h, <1>g
      <3> QED BY <3>1, <3>2, <3>3, <3>5, <3>6, <3>7
    <2> QED BY <2>1, <2>2
  <1>8. ASSUME ReadRange(r) PROVE Has(r) /\ Finds(r)
    <2>1. PICK g \in BOOLEAN : Serves(r, Content(r, 206, got[r].size, got[r].from, got[r].to, g))
      BY <1>8 DEF ReadRange, Genuine
    <2>2. Content(r, 206, got[r].size, got[r].from, got[r].to, g) \in Sent
          /\ Content(r, 206, got[r].size, got[r].from, got[r].to, g).status = 206
          /\ rpc[r] = "read"
      <3>1. got[r].path \in Contents \cup {"none"} /\ got[r] \in Local
        BY ReaderTypes
      <3> QED BY <1>8, <3>1 DEF Content, Sent, Local, ReadRange
    <2> HIDE DEF Has, Finds
    <2> QED BY <2>1, <2>2, <1>a DEF Serves
  <1>9. ASSUME FailFetch(r) PROVE Has(r) /\ Finds(r)
    <2>1. Answer(r, Status(404)) /\ faults' # 0 /\ rpc[r] # "idle"
      BY <1>9 DEF FailFetch, TypeOK
    <2> HIDE DEF Has, Finds
    <2> QED BY <2>1, <1>a, <1>s
  <1>10. Has(r) /\ Finds(r)
    <2> HIDE DEF Has, Finds
    <2> QED BY <1>2, <1>3, <1>4, <1>5, <1>6, <1>7, <1>8, <1>9 DEF ReaderMoves
  <1>11. \A s \in Readers : Has(s) /\ Finds(s)
    <2> HIDE DEF Has, Finds
    <2> QED BY <1>1, <1>10
  <1> QED BY <1>11 DEF FoundPath, FoundIfThere

LEMMA FoundStep ==
  ASSUME DownloadsInv, DownloadsInv', FoundPath, FoundIfThere, [DownloadsNext]_downloadsVars
  PROVE  FoundPath' /\ FoundIfThere'
  <1>0. TypeOK /\ TypeOK' /\ FetchTypeOK /\ Watched
    BY DEF DownloadsInv
  <1>1. CASE StoreMoves /\ Watch
    <2>1. StoreStep
      BY <1>1 DEF StoreMoves, StoreStep
    <2> QED BY <1>0, <1>1, <2>1, StoreMovesFound
  <1>2. CASE \E r \in Readers : ReaderMoves(r) /\ Watch
    BY <1>0, <1>2, ReaderMovesFound
  <1>3. CASE UNCHANGED downloadsVars
    <2>1. UNCHANGED <<tables, disk, faults>> /\ UNCHANGED <<rpc, fetch, got, reply, seen>>
      BY <1>3 DEF downloadsVars, store, reading, bounds
    <2> QED BY <2>1 DEF FoundPath, FoundIfThere, Readable, Offered, tables
  <1>4. CASE Quiet /\ ReadersQuiet /\ UNCHANGED <<store, reading, reply, counts, fetched, served, seen>>
    BY <1>3, <1>4 DEF downloadsVars
  <1> QED BY <1>1, <1>2, <1>3, <1>4 DEF DownloadsNext

\* However many handlers of FileStore and other readers are at work, a file that is the
\* client's and whole from the request to the answer is not answered with 404, unless
\* the header makes stoull throw (RouteUtils.cpp 246-301, FileRoutes.cpp 182-200).
THEOREM FoundIfThereHolds == DownloadsSpec => []FoundIfThere
  <1>1. DownloadsInit => FoundPath /\ FoundIfThere
    BY DEF DownloadsInit, FoundPath, FoundIfThere, NoReply
  <1>2. DownloadsInv /\ DownloadsInv' /\ FoundPath /\ FoundIfThere /\ [DownloadsNext]_downloadsVars =>
          FoundPath' /\ FoundIfThere'
    BY FoundStep
  <1> QED BY <1>1, <1>2, DownloadsInvHolds, PTL DEF DownloadsSpec

----------------------------------------------------------------------------
\* What is sent is what is stored, with one thread of FileStore.

\* The only thread, and what the disk has, without faults.
LEMMA DiskTidyStep ==
  ASSUME faults' = 0, CatalogInv, DiskTidy, NEW t \in Threads, Threads = {t}, Step(t)
  PROVE  DiskTidy'
  <1>0. /\ TypeOK /\ ObjectsWhole /\ OthersSame(t)
        /\ disk \in [Contents -> {"absent", "partial", "whole"}]
        /\ objects \in [DOMAIN objects -> [sha : Contents, ref : Nat]]
        /\ pc[t] \notin {"rewrite", "refill"} /\ pc'[t] \notin {"rewrite", "refill"}
        /\ \A s \in Threads : s = t
    BY CatalogFacts, NoFault, HandlerKnows DEF TypeOK, TablesOK, ObjectsWhole
  <1> SUFFICES /\ \A c \in Contents :
                    /\ disk'[c] = "partial" => pc'[t] = "fill" /\ req'[t].sha = c
                    /\ disk'[c] = "whole" =>
                         ObjectsWith(c)' # {} \/ (pc'[t] = "insertObj" /\ req'[t].sha = c)
               /\ pc'[t] = "dropObject" => disk'[objects'[work'[t].row.obj].sha] = "absent"
    BY <1>0 DEF DiskTidy, WritersOf
  \* Before the step.
  <1>b. /\ \A c \in Contents :
             /\ disk[c] = "partial" => pc[t] = "fill" /\ req[t].sha = c
             /\ disk[c] = "whole" => ObjectsWith(c) # {} \/ (pc[t] = "insertObj" /\ req[t].sha = c)
        /\ pc[t] = "dropObject" => disk[objects[work[t].row.obj].sha] = "absent"
    BY <1>0 DEF DiskTidy, WritersOf
  <1>1. CASE OpenObject(t) \/ WriteObject(t) \/ Unlink(t)
    <2>1. /\ req' = req /\ work' = work /\ UNCHANGED tables
          /\ OpenObject(t) => pc[t] = "write" /\ pc'[t] = "fill"
          /\ WriteObject(t) => pc[t] = "fill" /\ pc'[t] = "insertObj"
          /\ Unlink(t) => pc[t] = "unlink" /\ pc'[t] = "dropObject"
      BY <1>0, <1>1, WriteLanding
    <2>2. \A c : ObjectsWith(c)' = ObjectsWith(c)
      BY <2>1 DEF ObjectsWith, tables
    <2>3. CASE OpenObject(t)
      <3>1. disk' = [disk EXCEPT ![req[t].sha] = "partial"]
        BY <2>3 DEF OpenObject
      <3> QED BY <1>0, <1>b, <2>1, <2>2, <2>3, <3>1
    <2>4. CASE WriteObject(t)
      <3>1. disk' = [disk EXCEPT ![req[t].sha] = "whole"]
        BY <2>4, NoFault
      <3> QED BY <1>0, <1>b, <2>1, <2>2, <2>4, <3>1
    <2>5. CASE Unlink(t)
      <3>1. disk' = [disk EXCEPT ![work[t].path] = "absent"]
        BY <2>5, NoFault
      <3>2. work[t].row.obj \in DOMAIN objects /\ work[t].path = objects[work[t].row.obj].sha
        BY <1>0, <2>1, <2>5 DEF ObjectsWhole
      <3>3. work[t].path \in Contents
        BY <1>0, <3>2
      <3>4. disk'[objects'[work'[t].row.obj].sha] = "absent"
        BY <1>0, <2>1, <3>1, <3>2, <3>3 DEF tables
      <3> QED BY <1>0, <1>b, <2>1, <2>2, <2>5, <3>1, <3>3, <3>4
    <2> QED BY <1>1, <2>3, <2>4, <2>5
  <1>2. CASE ~ (OpenObject(t) \/ WriteObject(t) \/ Unlink(t))
    <2>1. disk' = disk
      BY <1>2, DiskSteps
    <2>2. pc[t] # "fill"
      BY <1>2 DEF Step, CheckParent, CheckName, InsertDir, FetchDir, FindObject, OpenObject, WriteObject,
             InsertObject, FetchObject, CheckExists, RewriteObject, AddRef, InsertRow, AddUsed, FetchId, FindRoot,
             InsertShare, CheckRestoreName, CollectKids, SoftDeleteNext, RestoreNext,
             PickVictim, DropShares, DropRow, SubUsed, Unref, ReadRef, Unlink, DropObject, At
    <2>3. pc'[t] # "dropObject"
      BY <1>0, <1>2, Landing
    <2>4. ASSUME NEW c \in Contents, disk[c] = "whole" PROVE ObjectsWith(c)' # {}
      <3>1. CASE pc[t] = "insertObj" /\ req[t].sha = c
        <4>1. InsertObject(t)
          BY <1>2, <3>1 DEF Step, CheckParent, CheckName, InsertDir, FetchDir, FindObject, OpenObject,
             WriteObject, FetchObject, CheckExists, RewriteObject, AddRef, InsertRow, AddUsed, FetchId, FindRoot,
             InsertShare, CheckRestoreName, CollectKids, SoftDeleteNext, RestoreNext,
             PickVictim, DropShares, DropRow, SubUsed, Unref, ReadRef, Unlink, DropObject, At
        <4>2. CASE ObjectsWith(c) # {}
          BY <3>1, <4>1, <4>2 DEF InsertObject, ObjectsWith
        <4>3. CASE ObjectsWith(c) = {}
          <5>1. objects' = [o \in DOMAIN objects \cup {nextObject} |->
                              IF o = nextObject THEN [sha |-> c, ref |-> 1] ELSE objects[o]]
            BY <3>1, <4>1, <4>3 DEF InsertObject
          <5> QED BY <5>1 DEF ObjectsWith
        <4> QED BY <4>2, <4>3
      <3>2. CASE ObjectsWith(c) # {}
        <4>1. PICK o \in DOMAIN objects : objects[o].sha = c
          BY <3>2 DEF ObjectsWith
        <4>2. ~ (DropObject(t) /\ o = work[t].row.obj)
          BY <1>b, <2>4, <4>1 DEF DropObject, At
        <4>3. o \in DOMAIN objects' /\ objects'[o].sha = c
          BY <1>0, <4>1, <4>2, ObjectMoves
        <4> QED BY <4>3 DEF ObjectsWith
      <3> QED BY <1>b, <2>4, <3>1, <3>2
    <2> QED BY <1>b, <2>1, <2>2, <2>3, <2>4
  <1> QED BY <1>1, <1>2

LEMMA TidyNext ==
  ASSUME \A s, u \in Threads : s = u, faults' = 0, CatalogInv, DiskTidy, [Next]_vars
  PROVE  DiskTidy'
  <1>1. ASSUME NEW t \in Threads, Threads = {t}, UNCHANGED <<tables, disk, faults>>,
               pc[t] = "idle", pc'[t] \in {"parent", "root"}
        PROVE  DiskTidy'
    <2>1. \A s \in Threads : s = t
      BY <1>1
    <2> QED BY <1>1, <2>1 DEF DiskTidy, WritersOf, ObjectsWith, tables
  <1>2. ASSUME UNCHANGED vars PROVE DiskTidy'
    BY <1>2 DEF DiskTidy, WritersOf, ObjectsWith, vars, tables, handler
  <1> QED BY <1>1, <1>2, OneThreadSteps, DiskTidyStep

\* A whole file stays whole as long as it has its name.
LEMMA WholeStays ==
  ASSUME \A s, u \in Threads : s = u, faults' = 0, CatalogInv, DiskTidy, [Next]_vars,
         NEW c \in Contents, disk[c] = "whole"
  PROVE  disk'[c] \in {"whole", "absent"}
  <1>0. /\ TypeOK /\ ObjectsWhole
        /\ disk \in [Contents -> {"absent", "partial", "whole"}]
    BY CatalogFacts DEF TypeOK, TablesOK
  <1>1. ASSUME NEW t \in Threads, Threads = {t}, Step(t) PROVE disk'[c] \in {"whole", "absent"}
    <2>1. ASSUME OpenObject(t) PROVE c # req[t].sha
      <3>1. pc[t] = "write" /\ ObjectsWith(req[t].sha) = {}
        BY <1>0, <2>1 DEF OpenObject, ObjectsWhole, At
      <3>2. \A s \in Threads : s = t
        BY <1>1
      <3>3. ObjectsWith(c) # {}
        BY <3>1, <3>2 DEF DiskTidy
      <3> QED BY <3>1, <3>3
    <2> QED BY <1>0, <1>1, <2>1, DiskSteps
  <1> QED BY <1>0, <1>1, OneThreadSteps DEF vars

\* The bytes that are read are those of the file when it is whole, under its name or
\* without one.
Holds(w, d) == (IF w.file = "named" THEN d[w.path] ELSE w.file) = "whole"

LEMMA GenuineIs ==
  ASSUME NEW r \in Readers
  PROVE  Genuine(r) = {TRUE} <=> Holds(got[r], disk)
  BY DEF Genuine, Holds

LEMMA GenuineNext ==
  ASSUME NEW r \in Readers
  PROVE  (Genuine(r) = {TRUE})' <=> Holds(got'[r], disk')
  BY DEF Genuine, Holds

LEMMA StoreMovesOpen ==
  ASSUME \A s, u \in Threads : s = u, faults' = 0, CatalogInv, DiskTidy, FetchTypeOK, OpenAsStored,
         StoreMoves, [Next]_vars
  PROVE  OpenAsStored'
  <1> SUFFICES ASSUME NEW r \in Readers, rpc'[r] = "read"
               PROVE  LET w == got'[r] IN
                      /\ w.size = SizeOf[w.path] /\ w.from .. w.to \subseteq 0 .. w.size - 1
                      /\ Plain(fetch'[r].range) => w.from .. w.to = Asked(fetch'[r].range, w.size)
                      /\ (Genuine(r) = {TRUE})'
    BY DEF OpenAsStored
  <1>1. Keep /\ UNCHANGED <<rpc, fetch>> /\ rpc[r] = "read"
    BY DEF StoreMoves, Lose
  <1>2. got[r] \in Local /\ got[r].path \in Contents
    BY <1>1, ReaderTypes
  <1>3. /\ got'[r].size = got[r].size /\ got'[r].from = got[r].from /\ got'[r].to = got[r].to
        /\ got'[r].path = got[r].path
        /\ got'[r].file = IF got[r].file = "named" /\ disk[got[r].path] # "absent"
                               /\ disk'[got[r].path] = "absent"
                          THEN disk[got[r].path] ELSE got[r].file
    BY <1>1, <1>2 DEF Keep, Local
  <1>4. Holds(got[r], disk)
    BY <1>1, GenuineIs DEF OpenAsStored
  <1>5. Holds(got'[r], disk')
    <2>1. CASE got[r].file = "named"
      <3>1. disk[got[r].path] = "whole"
        BY <1>4, <2>1 DEF Holds
      <3>2. disk'[got[r].path] \in {"whole", "absent"}
        BY <1>2, <3>1, WholeStays
      <3> QED BY <1>3, <2>1, <3>1, <3>2 DEF Holds
    <2>2. CASE got[r].file # "named"
      BY <1>3, <1>4, <2>2 DEF Holds
    <2> QED BY <2>1, <2>2
  <1> QED BY <1>1, <1>3, <1>5, GenuineNext DEF OpenAsStored

\* An answer with content that is as it should be.
AsStored(a, range) ==
  /\ a.genuine /\ a.size = SizeOf[a.path] /\ a.from .. a.to \subseteq 0 .. a.size - 1
  /\ a.status = 200 => a.from .. a.to = 0 .. a.size - 1
  /\ a.status = 206 /\ Plain(range) => a.from .. a.to = Asked(range, a.size)

\* What a reader sends, when nobody has the file open for writing as it opens it.
LEMMA WholeOpened ==
  ASSUME TypeOK, DiskTidy, NotUploadedAgain, NEW r \in Readers, rpc[r] = "open",
         got[r].path \in Contents, disk[got[r].path] # "absent"
  PROVE  disk[got[r].path] = "whole" /\ Lengths(got[r].path) = {SizeOf[got[r].path]}
  <1>1. disk[got[r].path] = "whole"
    BY DiskValues DEF DiskTidy, NotUploadedAgain
  <1> QED BY <1>1 DEF Lengths

LEMMA WholeSent ==
  ASSUME NEW r \in Readers, NEW n \in Nat, n = SizeOf[got[r].path], NEW range
  PROVE  AsStored(Content(r, 200, n, 0, n - 1, TRUE), range)
  BY DEF AsStored, Content

LEMMA RangeSent ==
  ASSUME NEW h \in Header, NEW n \in Nat, ParseByteRange(h, n).is = "range",
         NEW i, i = ParseByteRange(h, n).from, NEW j, j = ParseByteRange(h, n).to
  PROVE  /\ i .. j \subseteq 0 .. n - 1
         /\ Plain(h) => i .. j = Asked(h, n)
  <1>1. i \in Nat /\ j \in Nat /\ j < n
    BY RangeInside
  <1>2. Plain(h) => i .. j = Asked(h, n)
    BY RangeIsAsked DEF Invalid
  <1> QED BY <1>1, <1>2

LEMMA ReaderMovesStored ==
  ASSUME TypeOK, FetchTypeOK, faults' = 0, DiskTidy, NotUploadedAgain, OpenAsStored, SentAsStored,
         NEW r \in Readers, ReaderMoves(r)
  PROVE  OpenAsStored' /\ SentAsStored'
  <1> USE DEF ReaderAt
  <1> DEFINE Opens(s) == rpc'[s] = "read" =>
               LET w == got'[s] IN
               /\ w.size = SizeOf[w.path] /\ w.from .. w.to \subseteq 0 .. w.size - 1
               /\ Plain(fetch'[s].range) => w.from .. w.to = Asked(fetch'[s].range, w.size)
               /\ (Genuine(s) = {TRUE})'
             Sends(s) == rpc'[s] = "idle" /\ reply'[s].status \in {200, 206} /\ reply'[s].path # "none" =>
                           AsStored(reply'[s], fetch'[s].range)
  <1>t. rpc \in [Readers -> {"idle", "row", "path", "count", "open", "read"}] /\ reply \in [Readers -> Sent]
        /\ got \in [Readers -> Local] /\ fetch \in [Readers -> Fetches \cup {NoFetch}]
    BY DEF FetchTypeOK
  <1>u. ~FailFetch(r) /\ UNCHANGED <<tables, disk, faults>>
    <2>1. ~FailFetch(r)
      BY DEF FailFetch, TypeOK
    <2> QED BY <2>1 DEF ReaderMoves, BeginFetch, FindFile, FindPath, CountFetch, SendFile, OpenFile, ReadRange,
                        store, bounds
  <1>c. SizeOf \in [Contents -> Nat]
    BY SizeAssumption
  <1>1. ASSUME NEW s \in Readers, s # r PROVE Opens(s) /\ Sends(s)
    <2>1. rpc'[s] = rpc[s] /\ reply'[s] = reply[s] /\ fetch'[s] = fetch[s] /\ got'[s] = got[s]
      BY <1>1, OthersWait
    <2>2. Opens(s)
      <3>1. SUFFICES ASSUME rpc[s] = "read" PROVE Opens(s)
        BY <2>1
      <3>2. Holds(got'[s], disk')
        BY <1>u, <2>1, <3>1, GenuineIs DEF OpenAsStored
      <3>3. (Genuine(s) = {TRUE})'
        BY <3>2, GenuineNext
      <3> QED BY <2>1, <3>1, <3>3 DEF OpenAsStored
    <2>3. Sends(s)
      <3>1. SUFFICES ASSUME rpc[s] = "idle", reply[s].status \in {200, 206}, reply[s].path # "none"
                     PROVE  AsStored(reply[s], fetch[s].range)
        BY <2>1
      <3> QED BY <1>u, <3>1 DEF SentAsStored, Succeeded, AsStored
    <2> QED BY <2>2, <2>3
  <1>a. ASSUME NEW a \in Sent, Answer(r, a),
               a.status \in {200, 206} /\ a.path # "none" => AsStored(a, fetch[r].range)
        PROVE  Opens(r) /\ Sends(r)
    <2>1. rpc'[r] = "idle" /\ reply'[r] = a /\ fetch' = fetch
      BY <1>a, AnswerTypes
    <2> QED BY <1>a, <2>1
  <1>g. ASSUME rpc'[r] \notin {"idle", "read"} PROVE Opens(r) /\ Sends(r)
    BY <1>g
  <1>s. /\ \A s \in {200, 404, 416} : Status(s) \in Sent
        /\ Status(200).path = "none" /\ Status(404).status = 404 /\ Status(416).status = 416
    BY StatusSent DEF Status, NoReply
  <1>2. ASSUME BeginFetch(r) PROVE Opens(r) /\ Sends(r)
    BY <1>2, <1>t, <1>g DEF BeginFetch
  <1>3. ASSUME FindFile(r) PROVE Opens(r) /\ Sends(r)
    <2>1. Answer(r, Status(404)) \/ \E label \in {"path", "count"} : ReaderGoto(r, label)
      BY <1>3 DEF FindFile
    <2>2. CASE \E label \in {"path", "count"} : ReaderGoto(r, label)
      BY <1>t, <1>g, <2>2 DEF ReaderGoto
    <2> HIDE DEF Opens, Sends
    <2> QED BY <2>1, <2>2, <1>a, <1>s
  <1>4. ASSUME FindPath(r) PROVE Opens(r) /\ Sends(r)
    <2>1. Answer(r, Status(404)) \/ \E label \in {"open", "count"} : ReaderGoto(r, label)
      BY <1>4 DEF FindPath
    <2>2. CASE \E label \in {"open", "count"} : ReaderGoto(r, label)
      BY <1>t, <1>g, <2>2 DEF ReaderGoto
    <2> HIDE DEF Opens, Sends
    <2> QED BY <2>1, <2>2, <1>a, <1>s
  <1>5. ASSUME CountFetch(r) PROVE Opens(r) /\ Sends(r)
    <2>1. Answer(r, Status(200)) \/ ReaderGoto(r, "open")
      BY <1>5 DEF CountFetch
    <2>2. CASE ReaderGoto(r, "open")
      BY <1>t, <1>g, <2>2 DEF ReaderGoto
    <2> HIDE DEF Opens, Sends
    <2> QED BY <2>1, <2>2, <1>a, <1>s
  <1>6. ASSUME SendFile(r) PROVE Opens(r) /\ Sends(r)
    <2>0. rpc[r] = "open" /\ got[r].path \in Contents
      BY <1>6, ReaderTypes DEF SendFile
    <2> HIDE DEF Opens, Sends
    <2>1. CASE disk[got[r].path] = "absent"
      BY <1>6, <2>1, <1>a, <1>s DEF SendFile
    <2>2. CASE disk[got[r].path] # "absent"
      <3>1. PICK n \in Lengths(got[r].path) : Serves(r, Content(r, 200, n, 0, n - 1, TRUE))
        BY <1>6, <2>2 DEF SendFile
      <3>2. n \in Nat /\ n = SizeOf[got[r].path]
        BY <1>c, <2>0, <2>2, WholeOpened
      <3> DEFINE whole == Content(r, 200, n, 0, n - 1, TRUE)
      <3>3. whole \in Sent
        BY <2>0, <3>2 DEF Content, Sent
      <3>4. AsStored(whole, fetch[r].range)
        BY <3>2, WholeSent
      <3>5. Answer(r, whole)
        BY <3>1 DEF Serves
      <3> HIDE DEF whole
      <3> QED BY <3>3, <3>4, <3>5, <1>a
    <2> QED BY <2>1, <2>2
  <1>7. ASSUME OpenFile(r) PROVE Opens(r) /\ Sends(r)
    <2>0. rpc[r] = "open" /\ got[r].path \in Contents /\ fetch[r].range \in Header
      BY <1>7, ReaderTypes, FetchFacts DEF OpenFile
    <2> DEFINE range(n) == ParseByteRange(fetch[r].range, n)
               w(n) == [got[r] EXCEPT !.size = n, !.from = range(n).from, !.to = range(n).to,
                                      !.file = "named"]
    <2> HIDE DEF Opens, Sends
    <2>1. CASE disk[got[r].path] = "absent"
      BY <1>7, <2>1, <1>a, <1>s DEF OpenFile
    <2>2. CASE disk[got[r].path] # "absent"
      <3>1. PICK n \in Lengths(got[r].path) :
              \/ Answer(r, Status(416)) \/ Answer(r, Status(404))
              \/ /\ range(n).is = "range"
                 /\ got' = [got EXCEPT ![r] = w(n)] /\ ReaderGoto(r, "read")
        <4>1. PICK n \in Lengths(got[r].path) :
                CASE range(n).is = "invalid"   -> Answer(r, Status(416))
                  [] range(n).is = "exception" -> Answer(r, Status(404))
                  [] range(n).is = "range"     -> got' = [got EXCEPT ![r] = w(n)] /\ ReaderGoto(r, "read")
          BY <1>7, <2>2 DEF OpenFile
        <4>2. range(n).is \in {"invalid", "exception", "range"}
          BY DEF ParseByteRange, Invalid, Exception, Bytes
        <4> HIDE DEF range, w
        <4> QED BY <4>1, <4>2
      <3>2. n \in Nat /\ n = SizeOf[got[r].path] /\ disk[got[r].path] = "whole"
        BY <1>c, <2>0, <2>2, WholeOpened
      <3>3. CASE Answer(r, Status(416)) \/ Answer(r, Status(404))
        BY <3>3, <1>a, <1>s
      <3>4. CASE /\ range(n).is = "range"
                 /\ got' = [got EXCEPT ![r] = w(n)] /\ ReaderGoto(r, "read")
        <4> DEFINE from == range(n).from
                   to == range(n).to
        <4>1. /\ from .. to \subseteq 0 .. n - 1
              /\ Plain(fetch[r].range) => from .. to = Asked(fetch[r].range, n)
          BY <2>0, <3>2, <3>4, RangeSent
        <4>2. /\ got'[r].size = n /\ got'[r].from = from /\ got'[r].to = to
              /\ got'[r].path = got[r].path /\ got'[r].file = "named"
          <5> HIDE DEF from, to
          <5>1. w(n) = [got[r] EXCEPT !.size = n, !.from = from, !.to = to, !.file = "named"]
            BY DEF from, to
          <5>2. got'[r] = w(n)
            BY <1>t, <3>4
          <5> HIDE DEF w
          <5> QED BY <1>t, <5>1, <5>2 DEF Local
        <4>3. rpc'[r] = "read" /\ fetch' = fetch
          BY <1>t, <3>4 DEF ReaderGoto
        <4>4. Holds(got'[r], disk')
          BY <1>u, <3>2, <4>2 DEF Holds
        <4>5. (Genuine(r) = {TRUE})'
          BY <4>4, GenuineNext
        <4> HIDE DEF from, to
        <4> QED BY <3>2, <4>1, <4>2, <4>3, <4>5 DEF Opens, Sends
      <3> HIDE DEF range, w
      <3> QED BY <3>1, <3>3, <3>4
    <2> QED BY <2>1, <2>2
  <1>8. ASSUME ReadRange(r) PROVE Opens(r) /\ Sends(r)
    <2>0. /\ rpc[r] = "read" /\ got[r] \in Local /\ got[r].path \in Contents
          /\ Genuine(r) = {TRUE}
      BY <1>8, ReaderTypes DEF ReadRange, OpenAsStored
    <2> DEFINE part == Content(r, 206, got[r].size, got[r].from, got[r].to, TRUE)
    <2>1. Answer(r, part)
      BY <1>8, <2>0 DEF ReadRange, Serves
    <2>2. part \in Sent
      BY <2>0 DEF Content, Sent, Local
    <2>3. /\ part.size = got[r].size /\ part.from = got[r].from /\ part.to = got[r].to
          /\ part.path = got[r].path /\ part.genuine /\ part.status = 206
      BY DEF Content
    <2> HIDE DEF part
    <2>4. AsStored(part, fetch[r].range)
      <3>1. /\ got[r].size = SizeOf[got[r].path] /\ got[r].from .. got[r].to \subseteq 0 .. got[r].size - 1
            /\ Plain(fetch[r].range) => got[r].from .. got[r].to = Asked(fetch[r].range, got[r].size)
        BY <2>0 DEF OpenAsStored
      <3>2. part.status # 200
        BY <2>3
      <3>a. /\ part.from .. part.to = got[r].from .. got[r].to
            /\ 0 .. part.size - 1 = 0 .. got[r].size - 1
            /\ Asked(fetch[r].range, part.size) = Asked(fetch[r].range, got[r].size)
            /\ SizeOf[part.path] = SizeOf[got[r].path]
        BY <2>3
      <3>3. part.size = SizeOf[part.path] /\ part.from .. part.to \subseteq 0 .. part.size - 1
        BY <2>3, <3>1, <3>a
      <3>4. Plain(fetch[r].range) => part.from .. part.to = Asked(fetch[r].range, part.size)
        BY <3>1, <3>a
      <3> QED BY <2>3, <3>2, <3>3, <3>4 DEF AsStored
    <2> HIDE DEF Opens, Sends
    <2> QED BY <2>1, <2>2, <2>4, <1>a
  <1>9. Opens(r) /\ Sends(r)
    <2> HIDE DEF Opens, Sends
    <2> QED BY <1>u, <1>2, <1>3, <1>4, <1>5, <1>6, <1>7, <1>8 DEF ReaderMoves
  <1>10. \A s \in Readers : Opens(s) /\ Sends(s)
    <2> HIDE DEF Opens, Sends
    <2> QED BY <1>1, <1>9
  <1> QED BY <1>10 DEF OpenAsStored, SentAsStored, Succeeded, AsStored

\* What was sent before stays so.
LEMMA StoreMovesSent ==
  ASSUME FetchTypeOK, Watched, SentAsStored, StoreMoves, faults = 0
  PROVE  SentAsStored'
  <1> SUFFICES ASSUME NEW r \in Readers, rpc'[r] = "idle", reply'[r].status \in {200, 206},
                      reply'[r].path # "none"
               PROVE  AsStored(reply'[r], fetch'[r].range)
    BY DEF SentAsStored, Succeeded, AsStored
  <1>1. fetch' = fetch /\ reply' = reply
    BY DEF StoreMoves
  <1>2. rpc[r] = "idle"
    BY <1>1 DEF Watched
  <1> QED BY <1>1, <1>2 DEF SentAsStored, Succeeded, AsStored

StoredInv == faults = 0 => CatalogInv /\ DiskTidy /\ OpenAsStored

LEMMA StoredStep ==
  ASSUME \A s, t \in Threads : s = t, DownloadsInv, NotUploadedAgain, StoredInv, SentAsStored,
         [DownloadsNext]_downloadsVars
  PROVE  StoredInv' /\ SentAsStored'
  <1> SUFFICES ASSUME faults' = 0 PROVE StoredInv' /\ SentAsStored'
    BY DEF StoredInv, SentAsStored
  <1>0. TypeOK /\ FetchTypeOK /\ Watched
    BY DEF DownloadsInv
  <1>1. CASE StoreMoves /\ Watch
    <2>1. [Next]_vars
      BY <1>1 DEF StoreMoves, Next
    <2>2. faults = 0
      <3>1. ASSUME NEW t \in Threads, Step(t) PROVE faults = 0
        <4>1. faults' = faults \/ faults' = faults + 1
          BY <3>1, FaultsGrow
        <4> QED BY <1>0, <4>1 DEF TypeOK
      <3>2. ASSUME NEW t \in Threads, Begin(t) \/ Fail(t) PROVE faults = 0
        BY <1>0, <3>2 DEF Begin, Fail, TypeOK
      <3>3. Crash => faults = 0
        BY <1>0 DEF Crash, TypeOK
      <3>4. ASSUME NEW t \in Threads, Mislead(t) PROVE faults = 0
        BY <1>0, <3>4 DEF Mislead, Undefined, TypeOK
      <3> QED BY <1>1, <3>1, <3>2, <3>3, <3>4 DEF StoreMoves
    <2>3. CatalogInv /\ DiskTidy /\ OpenAsStored
      BY <2>2 DEF StoredInv
    <2>4. CatalogInv' /\ DiskTidy' /\ OpenAsStored'
      BY <1>0, <1>1, <2>1, <2>3, CatalogInvStep, TidyNext, StoreMovesOpen
    <2> QED BY <1>0, <1>1, <2>2, <2>4, StoreMovesSent DEF StoredInv
  <1>2. ASSUME NEW r \in Readers, ReaderMoves(r) PROVE StoredInv' /\ SentAsStored'
    <2>1. UNCHANGED vars
      <3>1. ~FailFetch(r)
        BY <1>0 DEF FailFetch, TypeOK
      <3> QED BY <1>2, <3>1 DEF ReaderMoves, BeginFetch, FindFile, FindPath, CountFetch, SendFile, OpenFile,
                                ReadRange, store, vars
    <2>2. CatalogInv /\ DiskTidy /\ OpenAsStored
      BY <2>1 DEF StoredInv, vars, bounds
    <2>3. CatalogInv' /\ DiskTidy'
      BY <2>1, <2>2, CatalogInvStep, TidyNext
    <2>4. OpenAsStored' /\ SentAsStored'
      BY <1>0, <1>2, <2>2, ReaderMovesStored
    <2> QED BY <2>3, <2>4 DEF StoredInv
  <1>3. CASE UNCHANGED downloadsVars
    <2>1. UNCHANGED vars /\ UNCHANGED <<disk, faults>> /\ UNCHANGED <<rpc, fetch, got, reply>>
      BY <1>3 DEF downloadsVars, store, reading, vars, bounds
    <2>2. CatalogInv /\ DiskTidy /\ OpenAsStored
      BY <2>1 DEF StoredInv
    <2>3. CatalogInv' /\ DiskTidy'
      BY <2>1, <2>2, CatalogInvStep, TidyNext
    <2>4. OpenAsStored' /\ SentAsStored'
      BY <2>1, <2>2 DEF OpenAsStored, SentAsStored, Succeeded, Genuine
    <2> QED BY <2>3, <2>4 DEF StoredInv
  <1>4. CASE Quiet /\ ReadersQuiet /\ UNCHANGED <<store, reading, reply, counts, fetched, served, seen>>
    BY <1>3, <1>4 DEF downloadsVars
  <1> QED BY <1>1, <1>2, <1>3, <1>4 DEF DownloadsNext

\* With one thread of FileStore, and nobody uploading the content again as it is opened, a
\* download that is answered has the bytes of the content, all of them or those of the
\* range, whatever is deleted, purged and shared meanwhile (RouteUtils.cpp 246-301).
THEOREM SentAsStoredHolds ==
  ASSUME \A s, t \in Threads : s = t
  PROVE  SpecNotAgain => []SentAsStored
  <1>1. DownloadsInit => DownloadsInv /\ NotUploadedAgain /\ StoredInv /\ SentAsStored
    <2>1. DownloadsInit => DownloadsInv
      BY DownloadsStart
    <2>2. DownloadsInit => CatalogInv
      BY CatalogInvInit DEF DownloadsInit
    <2>3. DownloadsInit => DiskTidy /\ OpenAsStored /\ NotUploadedAgain /\ SentAsStored
      BY DEF DownloadsInit, Init, DiskTidy, OpenAsStored, NotUploadedAgain, SentAsStored, Succeeded, NoReply
    <2> QED BY <2>1, <2>2, <2>3 DEF StoredInv
  <1>2. DownloadsInv /\ NotUploadedAgain /\ StoredInv /\ SentAsStored
          /\ [DownloadsNext /\ NotUploadedAgain']_downloadsVars
          => DownloadsInv' /\ NotUploadedAgain' /\ StoredInv' /\ SentAsStored'
    <2> SUFFICES ASSUME DownloadsInv, NotUploadedAgain, StoredInv, SentAsStored,
                        [DownloadsNext /\ NotUploadedAgain']_downloadsVars
                 PROVE  DownloadsInv' /\ NotUploadedAgain' /\ StoredInv' /\ SentAsStored'
      OBVIOUS
    <2>1. [DownloadsNext]_downloadsVars
      OBVIOUS
    <2>2. UNCHANGED downloadsVars => NotUploadedAgain'
      BY DEF NotUploadedAgain, WritersOf, downloadsVars, store, reading, handler
    <2> QED BY <2>1, <2>2, DownloadsStep, StoredStep
  <1> QED BY <1>1, <1>2, PTL DEF SpecNotAgain
============================================================================
