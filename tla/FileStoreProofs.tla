-------------------------- MODULE FileStoreProofs --------------------------
(***************************************************************************)
(* Proofs about FileStore, for any number of threads, users, contents and   *)
(* requests: types, foreign keys and the forest first, then the reference   *)
(* counts and, with one thread, contents, answers and the quota; that one   *)
(* thread without faults implements FileCatalog; and, again with one        *)
(* thread, that names stay unique and that trees are deleted and purged     *)
(* whole.                                                                   *)
(***************************************************************************)
EXTENDS FileStoreRefines, FiniteSetTheorems, SequenceTheorems, WellFoundedInduction, TLAPS

Ops == {"none", "folder", "upload", "instant", "delete", "restore", "share", "purge"}

\* The request a thread handles, by its operation.
LEMMA RequestKinds ==
  ASSUME NEW r \in Requests \cup {NoRequest}
  PROVE  /\ r.op \in Ops
         /\ r.op = "none" => r = NoRequest
         /\ r.op = "folder" => r \in FolderReq
         /\ r.op = "upload" => r \in UploadReq
         /\ r.op = "instant" => r \in InstantReq
         /\ r.op \in {"delete", "restore", "purge"} => r \in TreeReq
         /\ r.op = "share" => r \in ShareReq
  BY RequestsAssumption
  DEF AnyRequest, FolderReq, UploadReq, InstantReq, TreeReq, ShareReq, NoRequest, Ops

\* The operations whose handler can be at a label.
LEMMA LabelOps ==
  ASSUME NEW op \in Ops, NEW label \in LabelsOf(op)
  PROVE  /\ label = "idle" <=> op = "none"
         /\ label \in {"insertDir", "fetchDir"} => op = "folder"
         /\ label \in {"write", "fill", "insertObj", "fetchObj", "exists", "rewrite", "refill"}
              => op = "upload"
         /\ label \in {"findObj", "addRef", "insertRow", "addUsed", "fetchId"}
              => op \in {"upload", "instant"}
         /\ label \in {"parent", "name"} => op \in {"folder", "upload", "instant"}
         /\ label \in {"root"} => op \in {"delete", "restore", "purge", "share"}
         /\ label \in {"collect"} => op \in {"delete", "restore", "purge"}
         /\ label = "mark" => op = "delete"
         /\ label \in {"unmark", "restoreName"} => op = "restore"
         /\ label \in PurgeLabels => op = "purge"
         /\ label = "insertShare" => op = "share"
  BY DEF Ops, LabelsOf, CreateLabels, PurgeLabels

LEMMA IdleLocals ==
  /\ FreshWork \in Work /\ Fits("idle", FreshWork)
  /\ "idle" \in LabelsOf(NoRequest.op) /\ "idle" \in Labels
  <1>1. <<>> \in Seq(Nat)
    OBVIOUS
  <1>2. FreshWork \in Work
    BY <1>1 DEF FreshWork, Work
  <1>3. Fits("idle", FreshWork)
    BY DEF Fits, PurgeLabels
  <1>4. "idle" \in LabelsOf(NoRequest.op)
    BY DEF LabelsOf, NoRequest
  <1>5. "idle" \in Labels
    BY DEF Labels
  <1> QED BY <1>2, <1>3, <1>4, <1>5

\* A handler that answers or is abandoned leaves its thread idle and clean.
LEMMA AbandonTypes ==
  ASSUME HandlersOK, NEW t \in Threads, Abandon(t)
  PROVE  HandlersOK'
  <1>1. FreshWork \in Work /\ Fits("idle", FreshWork) /\ "idle" \in LabelsOf(NoRequest.op)
    BY IdleLocals
  <1>2. pc' \in [Threads -> Labels] /\ pc'[t] = "idle"
    BY IdleLocals DEF HandlersOK, Abandon
  <1>3. req' \in [Threads -> Requests \cup {NoRequest}] /\ req'[t] = NoRequest
    BY DEF HandlersOK, Abandon
  <1>4. work' \in [Threads -> Work] /\ work'[t] = FreshWork
    BY <1>1 DEF HandlersOK, Abandon
  <1>5. \A s \in Threads : s # t => pc'[s] = pc[s] /\ req'[s] = req[s] /\ work'[s] = work[s]
    BY DEF HandlersOK, Abandon
  <1> QED BY <1>1, <1>2, <1>3, <1>4, <1>5 DEF HandlersOK

LEMMA DieTypes ==
  ASSUME HandlersOK, Die
  PROVE  HandlersOK'
  <1>1. FreshWork \in Work /\ Fits("idle", FreshWork) /\ "idle" \in LabelsOf(NoRequest.op)
    BY IdleLocals
  <1>2. pc' \in [Threads -> Labels] /\ req' \in [Threads -> Requests \cup {NoRequest}]
    BY IdleLocals DEF Die
  <1>4. work' \in [Threads -> Work]
    BY <1>1 DEF Die
  <1>3. \A t \in Threads : pc'[t] = "idle" /\ req'[t] = NoRequest /\ work'[t] = FreshWork
    BY DEF Die
  <1> QED BY <1>1, <1>2, <1>3, <1>4 DEF HandlersOK

\* A handler that goes on to a label of its own.
LEMMA AdvanceTypes ==
  ASSUME HandlersOK, NEW t \in Threads, NEW label \in LabelsOf(req[t].op), NEW w \in Work,
         label \in Labels, Fits(label, w),
         pc' = [pc EXCEPT ![t] = label], req' = req, work' = [work EXCEPT ![t] = w]
  PROVE  HandlersOK'
  BY DEF HandlersOK

\* The labels of each operation.
LEMMA LabelSets ==
  ASSUME NEW op \in Ops
  PROVE  /\ LabelsOf(op) \subseteq Labels
         /\ op = "folder" => {"parent", "name", "insertDir", "fetchDir"} \subseteq LabelsOf(op)
         /\ op = "upload" => CreateLabels \subseteq LabelsOf(op)
         /\ op = "instant" => {"parent", "name", "findObj", "addRef", "insertRow", "addUsed",
                               "fetchId"} \subseteq LabelsOf(op)
         /\ op = "delete" => {"collect", "mark"} \subseteq LabelsOf(op)
         /\ op = "restore" => {"restoreName", "collect", "unmark"} \subseteq LabelsOf(op)
         /\ op = "share" => "insertShare" \in LabelsOf(op)
         /\ op = "purge" => {"collect"} \cup PurgeLabels \subseteq LabelsOf(op)
  BY DEF Ops, LabelsOf, Labels, CreateLabels, PurgeLabels

\* What is known of a handler by its label.
LEMMA HandlerFacts ==
  ASSUME HandlersOK, NEW t \in Threads
  PROVE  /\ req[t] \in Requests \cup {NoRequest} /\ req[t].op \in Ops
         /\ pc[t] \in LabelsOf(req[t].op) /\ Fits(pc[t], work[t]) /\ work[t] \in Work
         /\ LabelsOf(req[t].op) \subseteq Labels
  BY RequestKinds, LabelSets DEF HandlersOK

LEMMA GotoTypes ==
  ASSUME HandlersOK, NEW t \in Threads, NEW label \in LabelsOf(req[t].op),
         Fits(label, work[t]), Goto(t, label), UNCHANGED work
  PROVE  HandlersOK'
  <1>1. work' = [work EXCEPT ![t] = work[t]] /\ work[t] \in Work
    BY DEF HandlersOK
  <1>2. label \in Labels
    BY HandlerFacts
  <1> QED BY <1>1, <1>2, AdvanceTypes DEF Goto

LEMMA GotoWithTypes ==
  ASSUME HandlersOK, NEW t \in Threads, NEW label \in LabelsOf(req[t].op),
         NEW w \in Work, Fits(label, w), Goto(t, label), work' = [work EXCEPT ![t] = w]
  PROVE  HandlersOK'
  BY HandlerFacts, AdvanceTypes DEF Goto

LEMMA ReplyTypes ==
  ASSUME HandlersOK, NEW t \in Threads, Reply(t)
  PROVE  HandlersOK'
  BY AbandonTypes DEF Reply

LEMMA UndefinedTypes ==
  ASSUME HandlersOK, NEW t \in Threads, Undefined(t)
  PROVE  HandlersOK'
  BY AbandonTypes, DieTypes DEF Undefined

\* Labels at which a handler needs nothing of its locals.
LEMMA FreeLabels ==
  ASSUME NEW w, NEW label \in (CreateLabels \cup {"insertDir", "fetchDir", "insertShare"})
  PROVE  Fits(label, w)
  BY DEF Fits, CreateLabels, PurgeLabels

\* The handlers of folders, uploads and instant uploads keep HandlersOK.
LEMMA CreateHandlers ==
  ASSUME TypeOK, NEW t \in Threads,
         \/ CheckParent(t) \/ CheckName(t) \/ InsertDir(t) \/ FetchDir(t)
         \/ FindObject(t) \/ OpenObject(t) \/ WriteObject(t) \/ InsertObject(t) \/ FetchObject(t)
         \/ CheckExists(t) \/ RewriteObject(t) \/ AddRef(t)
         \/ InsertRow(t) \/ AddUsed(t) \/ FetchId(t)
  PROVE  HandlersOK'
  <1> USE DEF At
  <1>0. HandlersOK /\ TablesOK
    BY DEF TypeOK
  <1>h. /\ req[t].op \in Ops /\ pc[t] \in LabelsOf(req[t].op) /\ work[t] \in Work
    BY <1>0, HandlerFacts
  <1>w. \A o \in Nat : /\ [work[t] EXCEPT !.obj = o] \in Work
                       /\ [work[t] EXCEPT !.made = o] \in Work
    BY <1>h DEF Work
  <1>l. /\ req[t].op = "folder" => {"parent", "name", "insertDir", "fetchDir"} \subseteq LabelsOf(req[t].op)
        /\ req[t].op = "upload" => CreateLabels \subseteq LabelsOf(req[t].op)
        /\ req[t].op = "instant" => {"parent", "name", "findObj", "addRef", "insertRow", "addUsed",
                                     "fetchId"} \subseteq LabelsOf(req[t].op)
    BY <1>h, LabelSets
  <1>n. nextFile \in Nat /\ nextObject \in Nat /\ DOMAIN objects \subseteq Nat
    BY <1>0 DEF TablesOK
  <1>f. /\ \A label \in CreateLabels \cup {"insertDir", "fetchDir"} : \A w \in Work : Fits(label, w)
        /\ {"name", "findObj", "write", "fill", "fetchObj", "exists", "rewrite", "refill", "insertObj",
            "addRef", "insertRow", "addUsed", "fetchId"} \subseteq CreateLabels
    BY FreeLabels DEF CreateLabels
  <1>1. CASE CheckParent(t)
    <2>1. req[t].op \in {"folder", "upload", "instant"}
      BY <1>1, <1>h, LabelOps DEF CheckParent
    <2>2. "name" \in LabelsOf(req[t].op) /\ Fits("name", work[t])
      BY <2>1, <1>l, <1>f, <1>h
    <2> QED BY <1>0, <1>1, <2>2, GotoTypes, ReplyTypes DEF CheckParent
  <1>2. CASE CheckName(t)
    <2> DEFINE next == IF req[t].op = "folder" THEN "insertDir" ELSE "findObj"
    <2>1. req[t].op \in {"folder", "upload", "instant"}
      BY <1>2, <1>h, LabelOps DEF CheckName
    <2>2. next \in LabelsOf(req[t].op) /\ Fits(next, work[t])
      BY <2>1, <1>l, <1>f, <1>h
    <2> QED BY <1>0, <1>2, <2>2, GotoTypes, ReplyTypes DEF CheckName
  <1>3. CASE InsertDir(t)
    <2>1. req[t].op = "folder"
      BY <1>3, <1>h, LabelOps DEF InsertDir
    <2>2. "fetchDir" \in LabelsOf(req[t].op)
      BY <2>1, <1>l
    <2> QED BY <1>0, <1>3, <2>2, <1>w, <1>n, <1>f, GotoWithTypes DEF InsertDir, AddRow
  <1>4. CASE FetchDir(t)
    BY <1>0, <1>4, ReplyTypes, UndefinedTypes DEF FetchDir
  <1>5. CASE FindObject(t)
    <2>1. req[t].op \in {"upload", "instant"}
      BY <1>5, <1>h, LabelOps DEF FindObject
    <2>2. req[t].op # "upload" => "addRef" \in LabelsOf(req[t].op)
      BY <2>1, <1>l
    <2>3. req[t].op = "upload" => {"exists", "write"} \subseteq LabelsOf(req[t].op)
      BY <1>l, <1>f
    <2>4. ObjectsWith(req[t].sha) \subseteq Nat
      BY <1>n DEF ObjectsWith
    <2>5. CASE ObjectsWith(req[t].sha) # {}
      <3> DEFINE next == IF req[t].op = "upload" THEN "exists" ELSE "addRef"
      <3>1. PICK o \in Nat : work' = [work EXCEPT ![t].obj = o] /\ Goto(t, next)
        BY <1>5, <2>4, <2>5 DEF FindObject
      <3>2. next \in LabelsOf(req[t].op) /\ next \in CreateLabels
        BY <2>1, <2>2, <2>3, <1>f
      <3> HIDE DEF next
      <3> QED BY <1>0, <3>1, <3>2, <1>w, <1>f, GotoWithTypes
    <2>6. CASE ObjectsWith(req[t].sha) = {}
      BY <1>0, <1>5, <2>3, <2>6, <1>f, <1>h, GotoTypes, ReplyTypes DEF FindObject
    <2> QED BY <2>5, <2>6
  <1>6. CASE WriteObject(t)
    <2>1. "insertObj" \in LabelsOf(req[t].op) /\ Fits("insertObj", work[t])
      BY <1>6, <1>h, <1>l, <1>f, LabelOps DEF WriteObject
    <2>2. work' = [work EXCEPT ![t] = work[t]] /\ "insertObj" \in Labels
      BY <1>0, <1>6, <1>h, <2>1, HandlerFacts DEF WriteObject, HandlersOK
    <2> QED BY <1>0, <1>6, <1>h, <2>1, <2>2, AdvanceTypes DEF WriteObject
  <1>7. CASE InsertObject(t)
    <2>1. "fetchObj" \in LabelsOf(req[t].op)
      BY <1>7, <1>h, <1>l, <1>f, LabelOps DEF InsertObject
    <2> QED BY <1>0, <1>7, <2>1, <1>w, <1>n, <1>f, GotoWithTypes, ReplyTypes DEF InsertObject
  <1>8. CASE FetchObject(t)
    <2>1. "insertRow" \in LabelsOf(req[t].op)
      BY <1>8, <1>h, <1>l, <1>f, LabelOps DEF FetchObject
    <2>2. ObjectsWith(req[t].sha) \subseteq Nat
      BY <1>n DEF ObjectsWith
    <2> QED BY <1>0, <1>8, <2>1, <2>2, <1>w, <1>f, GotoWithTypes, UndefinedTypes DEF FetchObject
  <1>9. CASE CheckExists(t)
    <2> DEFINE next == IF disk[req[t].sha] = "absent" THEN "rewrite" ELSE "addRef"
    <2>1. next \in LabelsOf(req[t].op) /\ next \in CreateLabels
      BY <1>9, <1>h, <1>l, <1>f, LabelOps DEF CheckExists
    <2> QED BY <1>0, <1>9, <2>1, <1>f, <1>h, GotoTypes DEF CheckExists
  <1>10. CASE RewriteObject(t)
    <2>1. "addRef" \in LabelsOf(req[t].op) /\ Fits("addRef", work[t])
      BY <1>10, <1>h, <1>l, <1>f, LabelOps DEF RewriteObject
    <2>2. work' = [work EXCEPT ![t] = work[t]] /\ "addRef" \in Labels
      BY <1>0, <1>10, <1>h, <2>1, HandlerFacts DEF RewriteObject, HandlersOK
    <2> QED BY <1>0, <1>10, <1>h, <2>1, <2>2, AdvanceTypes DEF RewriteObject
  <1>11. CASE AddRef(t)
    <2>1. "insertRow" \in LabelsOf(req[t].op)
      BY <1>11, <1>h, <1>l, <1>f, LabelOps DEF AddRef
    <2> QED BY <1>0, <1>11, <2>1, <1>f, <1>h, GotoTypes DEF AddRef
  <1>12. CASE InsertRow(t)
    <2>1. "addUsed" \in LabelsOf(req[t].op)
      BY <1>12, <1>h, <1>l, <1>f, LabelOps DEF InsertRow
    <2> QED BY <1>0, <1>12, <2>1, <1>w, <1>n, <1>f, GotoWithTypes, ReplyTypes DEF InsertRow, AddRow
  <1>13. CASE AddUsed(t)
    <2>1. "fetchId" \in LabelsOf(req[t].op)
      BY <1>13, <1>h, <1>l, <1>f, LabelOps DEF AddUsed
    <2> QED BY <1>0, <1>13, <2>1, <1>f, <1>h, GotoTypes DEF AddUsed
  <1>14. CASE FetchId(t)
    BY <1>0, <1>14, ReplyTypes, UndefinedTypes DEF FetchId
  <1>15. CASE OpenObject(t)
    <2>1. req[t].op = "upload"
      BY <1>15, <1>h, LabelOps DEF OpenObject
    <2>2. \A label \in {"fill", "refill"} : label \in LabelsOf(req[t].op) /\ Fits(label, work[t])
      BY <2>1, <1>h, <1>l, <1>f
    <2>3. Goto(t, "fill") \/ Goto(t, "refill")
      BY <1>15 DEF OpenObject
    <2>4. UNCHANGED work
      BY <1>15 DEF OpenObject
    <2> QED BY <1>0, <2>2, <2>3, <2>4, GotoTypes
  <1> QED BY <1>1, <1>2, <1>3, <1>4, <1>5, <1>6, <1>7, <1>8, <1>9, <1>10, <1>11, <1>12, <1>13,
             <1>14, <1>15

\* The children of a folder are finitely many, so any order of them is a sequence.
LEMMA KidsOrders ==
  ASSUME TablesOK, NEW u, NEW p, NEW flag, NEW order \in SetToSeqs(Kids(u, p, flag))
  PROVE  order \in Seq(Nat) /\ \A j \in 1 .. Len(order) : order[j] \in Kids(u, p, flag)
  <1> DEFINE S == Kids(u, p, flag)
  <1>1. S \subseteq 1 .. (nextFile - 1) /\ S \subseteq Nat
    BY DEF TablesOK, Kids
  <1>2. IsFiniteSet(S)
    <2>1. IsFiniteSet(1 .. (nextFile - 1))
      <3>1. 1 \in Int /\ nextFile - 1 \in Int
        BY DEF TablesOK
      <3> QED BY <3>1, FS_Interval
    <2>2. S \in SUBSET (1 .. (nextFile - 1))
      BY <1>1
    <2> QED BY <2>1, <2>2, FS_Subset
  <1>3. Cardinality(S) \in Nat
    BY <1>2, FS_CardinalityType
  <1>4. order \in [1 .. Cardinality(S) -> S]
    BY DEF SetToSeqs
  <1>5. order \in [1 .. Cardinality(S) -> Nat]
    BY <1>1, <1>4
  <1>6. order \in Seq(Nat) /\ Len(order) = Cardinality(S)
    BY <1>3, <1>5
  <1> QED BY <1>4, <1>6

LEMMA FrontLast ==
  ASSUME NEW S, NEW s \in Seq(S), s # <<>>
  PROVE  /\ Front(s) \in Seq(S) /\ Last(s) \in S
         /\ Len(Front(s)) = Len(s) - 1
         /\ \A j \in 1 .. Len(s) - 1 : Front(s)[j] = s[j]
         /\ Last(s) = s[Len(s)]
  <1> DEFINE n == Len(s) - 1
  <1>1. n \in Nat /\ n <= Len(s) /\ s[Len(s)] \in S
    BY EmptySeq, LenProperties
  <1>2. SubSeq(s, 1, n) \in Seq(S)
    BY <1>1
  <1>3. Len(SubSeq(s, 1, n)) = n
    <2> HIDE DEF n
    <2> QED BY <1>1
  <1>4. ASSUME NEW j \in 1 .. n
        PROVE  SubSeq(s, 1, n)[j] = s[j]
    <2> HIDE DEF n
    <2> QED BY <1>1
  <1> QED BY <1>1, <1>2, <1>3, <1>4 DEF Front, Last

LEMMA NextVictimTypes ==
  ASSUME HandlersOK, NEW t \in Threads, pc[t] \in PurgeLabels, NextVictim(t)
  PROVE  HandlersOK'
  <1>1. req[t].op = "purge" /\ work[t] \in Work /\ Fits(pc[t], work[t])
    BY HandlerFacts, LabelOps
  <1>2. work[t].ids \in Seq(Nat) /\ work[t].ids # <<>> /\ work[t].row \in Row
    BY <1>1 DEF Work, Fits
  <1>3. CASE Front(work[t].ids) = <<>>
    BY <1>3, ReplyTypes DEF NextVictim
  <1>4. CASE Front(work[t].ids) # <<>>
    <2> DEFINE w == [work[t] EXCEPT !.ids = Front(@)]
    <2>1. w \in Work /\ w.ids # <<>> /\ w.row \in Row
      BY <1>1, <1>2, <1>4, FrontLast DEF Work
    <2>2. Fits("pick", w)
      BY <2>1 DEF Fits
    <2>3. "pick" \in LabelsOf(req[t].op)
      BY <1>1, LabelSets, HandlerFacts DEF PurgeLabels
    <2>4. Goto(t, "pick") /\ work' = [work EXCEPT ![t] = w]
      BY <1>4 DEF NextVictim
    <2> HIDE DEF w
    <2> QED BY <2>1, <2>2, <2>3, <2>4, GotoWithTypes
  <1> QED BY <1>3, <1>4

\* So do those of deletes, restores, purges and shares.
LEMMA TreeHandlers ==
  ASSUME TypeOK, NEW t \in Threads,
         \/ FindRoot(t) \/ InsertShare(t) \/ CheckRestoreName(t) \/ CollectKids(t)
         \/ SoftDeleteNext(t) \/ RestoreNext(t)
         \/ PickVictim(t) \/ DropShares(t) \/ DropRow(t) \/ SubUsed(t)
         \/ Unref(t) \/ ReadRef(t) \/ Unlink(t) \/ DropObject(t)
  PROVE  HandlersOK'
  <1> USE DEF At
  <1>0. HandlersOK /\ TablesOK
    BY DEF TypeOK
  <1>h. /\ req[t].op \in Ops /\ pc[t] \in LabelsOf(req[t].op) /\ work[t] \in Work
        /\ Fits(pc[t], work[t]) /\ req[t] \in Requests \cup {NoRequest}
    BY <1>0, HandlerFacts
  <1>l. /\ req[t].op = "delete" => {"collect", "mark"} \subseteq LabelsOf(req[t].op)
        /\ req[t].op = "restore" => {"restoreName", "collect", "unmark"} \subseteq LabelsOf(req[t].op)
        /\ req[t].op = "share" => "insertShare" \in LabelsOf(req[t].op)
        /\ req[t].op = "purge" => {"collect"} \cup PurgeLabels \subseteq LabelsOf(req[t].op)
    BY <1>h, LabelSets
  <1>p. {"pick", "dropShares", "dropRow", "subUsed", "unref", "readRef", "unlink", "dropObject"}
           \subseteq PurgeLabels
    BY DEF PurgeLabels
  <1>1. CASE FindRoot(t)
    <2>1. req[t].op \in {"delete", "restore", "purge", "share"} /\ req[t].id \in Nat
      BY <1>1, <1>h, LabelOps, RequestKinds DEF FindRoot, TreeReq, ShareReq
    <2>2. CASE RootFound(req[t])
      <3> DEFINE id == req[t].id
                 w == [work[t] EXCEPT !.row = files[id], !.ids = <<id>>, !.queue = <<id>>]
                 next == AfterRoot(req[t].op)
      <3>1. id \in DOMAIN files
        BY <2>1, <2>2 DEF RootFound, ActiveRow, DeletedRow
      <3>2. files[id] \in Row
        BY <1>0, <3>1 DEF TablesOK
      <3>0. <<id>> \in Seq(Nat) /\ <<id>> # <<>>
        BY <2>1
      <3>3. w \in Work /\ w.row \in Row /\ w.ids # <<>> /\ w.queue # <<>>
        BY <1>h, <3>0, <3>2 DEF Work
      <3>4. next \in {"insertShare", "restoreName", "collect"} /\ next \in LabelsOf(req[t].op)
        BY <2>1, <1>l DEF AfterRoot
      <3>5. Fits(next, w)
        BY <3>3, <3>4 DEF Fits
      <3>6. Goto(t, next) /\ work' = [work EXCEPT ![t] = w]
        BY <1>1, <2>2 DEF FindRoot
      <3> HIDE DEF w, next
      <3> QED BY <1>0, <3>3, <3>4, <3>5, <3>6, GotoWithTypes
    <2>3. CASE ~RootFound(req[t])
      BY <1>0, <1>1, <2>3, ReplyTypes DEF FindRoot
    <2> QED BY <2>2, <2>3
  <1>2. CASE InsertShare(t)
    BY <1>0, <1>2, ReplyTypes DEF InsertShare
  <1>3. CASE CheckRestoreName(t)
    <2>1. req[t].op = "restore"
      BY <1>3, <1>h, LabelOps DEF CheckRestoreName
    <2>2. "collect" \in LabelsOf(req[t].op)
      BY <2>1, <1>l
    <2>3. Fits("collect", work[t])
      BY <1>3, <1>h DEF CheckRestoreName, Fits
    <2> QED BY <1>0, <1>3, <2>2, <2>3, GotoTypes, ReplyTypes DEF CheckRestoreName
  <1>4. CASE CollectKids(t)
    <2>1. req[t].op \in {"delete", "restore", "purge"}
      BY <1>4, <1>h, LabelOps DEF CollectKids
    <2>2. /\ work[t].ids \in Seq(Nat) /\ work[t].ids # <<>> /\ work[t].row \in Row
          /\ work[t].queue \in Seq(Nat) /\ work[t].queue # <<>>
      BY <1>4, <1>h DEF CollectKids, Fits, Work
    <2>3. PICK order \in SetToSeqs(Kids(req[t].user, Last(work[t].queue), req[t].op # "delete")) :
            LET rest == Front(work[t].queue) \o order IN
            /\ work' = [work EXCEPT ![t].ids = @ \o order, ![t].queue = rest]
            /\ Goto(t, IF rest = <<>> THEN AfterCollect(req[t].op) ELSE "collect")
      BY <1>4 DEF CollectKids
    <2>4. order \in Seq(Nat)
      BY <1>0, KidsOrders
    <2> DEFINE rest == Front(work[t].queue) \o order
               all == work[t].ids \o order
               w == [work[t] EXCEPT !.ids = all, !.queue = rest]
               next == IF rest = <<>> THEN AfterCollect(req[t].op) ELSE "collect"
    <2>5. rest \in Seq(Nat) /\ all \in Seq(Nat) /\ all # <<>>
      <3>1. Front(work[t].queue) \in Seq(Nat)
        BY <2>2, FrontLast
      <3>2. rest \in Seq(Nat) /\ all \in Seq(Nat)
        BY <2>2, <2>4, <3>1, ConcatProperties
      <3>3. all # <<>>
        BY <2>2, <2>4, ConcatEqualIffEmpty
      <3> QED BY <3>2, <3>3
    <2>6. w \in Work /\ w.row \in Row /\ w.ids # <<>> /\ w.queue = rest
      <3> HIDE DEF rest, all
      <3> QED BY <1>h, <2>2, <2>5 DEF Work
    <2>7. next \in LabelsOf(req[t].op) /\ next # "unlink" /\ next # "restoreName"
      BY <2>1, <1>l, <1>p DEF AfterCollect
    <2>8. next = "collect" => rest # <<>>
      BY <2>1 DEF AfterCollect
    <2>9. Goto(t, next) /\ work' = [work EXCEPT ![t] = w]
      BY <2>3
    <2> HIDE DEF w, next
    <2>10. Fits(next, w)
      BY <2>6, <2>7, <2>8 DEF Fits
    <2> QED BY <1>0, <2>6, <2>7, <2>9, <2>10, GotoWithTypes
  <1>5. ASSUME NEW flag \in BOOLEAN, SetDeleted(t, flag), pc[t] \in {"mark", "unmark"}
        PROVE  HandlersOK'
    <2>1. work[t].ids \in Seq(Nat) /\ work[t].ids # <<>>
      BY <1>5, <1>h DEF Fits, Work
    <2>2. CASE Tail(work[t].ids) = <<>>
      BY <1>0, <1>5, <2>2, ReplyTypes DEF SetDeleted
    <2>3. CASE Tail(work[t].ids) # <<>>
      <3> DEFINE w == [work[t] EXCEPT !.ids = Tail(@)]
      <3>1. w \in Work /\ w.ids # <<>>
        BY <1>h, <2>1, <2>3, HeadTailProperties DEF Work
      <3>2. Fits(pc[t], w)
        BY <1>5, <3>1 DEF Fits, PurgeLabels
      <3>3. pc' = [pc EXCEPT ![t] = pc[t]] /\ req' = req /\ work' = [work EXCEPT ![t] = w]
        BY <1>0, <1>5, <2>3 DEF SetDeleted, HandlersOK
      <3>4. pc[t] \in Labels
        BY <1>0 DEF HandlersOK
      <3> HIDE DEF w
      <3> QED BY <1>0, <1>h, <3>1, <3>2, <3>3, <3>4, AdvanceTypes
    <2> QED BY <2>2, <2>3
  <1>6. CASE SoftDeleteNext(t)
    BY <1>5, <1>6 DEF SoftDeleteNext
  <1>7. CASE RestoreNext(t)
    BY <1>5, <1>7 DEF RestoreNext
  <1>8. ASSUME pc[t] \in PurgeLabels
        PROVE  /\ req[t].op = "purge" /\ work[t].row \in Row /\ work[t].ids # <<>>
               /\ PurgeLabels \subseteq LabelsOf(req[t].op)
               /\ \A label \in PurgeLabels \ {"unlink"} : Fits(label, work[t])
    <2>1. req[t].op = "purge" /\ work[t].row \in Row /\ work[t].ids # <<>>
      BY <1>8, <1>h, LabelOps DEF Fits
    <2> QED BY <2>1, <1>l DEF Fits, PurgeLabels
  <1>9. CASE PickVictim(t)
    <2>1. CASE DeletedRow(req[t].user, Victim(t))
      <3> DEFINE w == [work[t] EXCEPT !.row = files[Victim(t)]]
      <3>1. files[Victim(t)] \in Row
        BY <1>0, <2>1 DEF DeletedRow, TablesOK
      <3>2. w \in Work /\ w.row \in Row /\ w.ids # <<>>
        BY <1>h, <1>8, <1>9, <1>p, <3>1 DEF PickVictim, Work
      <3>3. Fits("dropShares", w) /\ "dropShares" \in LabelsOf(req[t].op)
        BY <3>2, <1>8, <1>9, <1>p DEF PickVictim, Fits
      <3>4. Goto(t, "dropShares") /\ work' = [work EXCEPT ![t] = w]
        BY <1>9, <2>1 DEF PickVictim
      <3> HIDE DEF w
      <3> QED BY <1>0, <3>2, <3>3, <3>4, GotoWithTypes
    <2>2. CASE ~DeletedRow(req[t].user, Victim(t))
      BY <1>0, <1>9, <1>p, <2>2, NextVictimTypes DEF PickVictim
    <2> QED BY <2>1, <2>2
  <1>10. CASE DropShares(t)
    BY <1>0, <1>8, <1>10, <1>p, GotoTypes DEF DropShares
  <1>11. CASE DropRow(t)
    BY <1>0, <1>8, <1>11, <1>p, GotoTypes, ReplyTypes, NextVictimTypes DEF DropRow
  <1>12. CASE SubUsed(t)
    BY <1>0, <1>8, <1>12, <1>p, GotoTypes DEF SubUsed
  <1>13. CASE Unref(t)
    BY <1>0, <1>8, <1>13, <1>p, GotoTypes DEF Unref
  <1>14. CASE ReadRef(t)
    <2> DEFINE o == work[t].row.obj
    <2>1. CASE o \in DOMAIN objects /\ objects[o].ref = 0
      <3> DEFINE w == [work[t] EXCEPT !.path = objects[o].sha]
      <3>1. objects[o].sha \in Contents
        BY <1>0, <2>1 DEF TablesOK
      <3>2. w \in Work /\ w.row \in Row /\ w.ids # <<>> /\ w.path \in Contents
        BY <1>h, <1>8, <1>14, <1>p, <3>1 DEF ReadRef, Work
      <3>3. Fits("unlink", w) /\ "unlink" \in LabelsOf(req[t].op)
        BY <3>2, <1>8, <1>14, <1>p DEF ReadRef, Fits
      <3>4. Goto(t, "unlink") /\ work' = [work EXCEPT ![t] = w]
        BY <1>14, <2>1 DEF ReadRef
      <3> HIDE DEF w
      <3> QED BY <1>0, <3>2, <3>3, <3>4, GotoWithTypes
    <2>2. CASE ~(o \in DOMAIN objects /\ objects[o].ref = 0)
      BY <1>0, <1>14, <1>p, <2>2, NextVictimTypes DEF ReadRef
    <2> QED BY <2>1, <2>2
  <1>15. CASE Unlink(t)
    <2>1. Fits("dropObject", work[t]) /\ "dropObject" \in LabelsOf(req[t].op)
      BY <1>8, <1>15, <1>p DEF Unlink
    <2>2. work' = [work EXCEPT ![t] = work[t]] /\ "dropObject" \in Labels
      BY <1>0, <1>15, <2>1, HandlerFacts DEF Unlink, HandlersOK
    <2> QED BY <1>0, <1>15, <1>h, <2>1, <2>2, AdvanceTypes DEF Unlink
  <1>16. CASE DropObject(t)
    BY <1>0, <1>16, <1>p, ReplyTypes, NextVictimTypes DEF DropObject
  <1> QED BY <1>1, <1>2, <1>3, <1>4, <1>6, <1>7, <1>9, <1>10, <1>11, <1>12, <1>13, <1>14, <1>15,
             <1>16

----------------------------------------------------------------------------
\* A SELECT that is given no result while there is one, and a handler that goes on.
Skipped(t) == /\ Overlook(t) \/ OverlookKids(t) \/ (PassOver(t) /\ Front(work[t].ids) # <<>>)
              /\ faults < MaxFaults /\ faults' = faults + 1
              /\ UNCHANGED <<tables, disk, issued>>

\* Otherwise a misled handler answers as after an exception, or dies with the process.
LEMMA Misled ==
  ASSUME NEW t \in Threads, Mislead(t)
  PROVE  Fail(t) \/ Crash \/ Skipped(t)
  <1>1. CASE pc[t] \in {"fetchDir", "fetchObj", "fetchId"} /\ Undefined(t)
    <2>1. ASSUME Abandon(t), UNCHANGED disk PROVE Fail(t)
      BY <1>1, <2>1 DEF Mislead, Undefined, Fail
    <2>2. ASSUME Die PROVE Crash
      BY <1>1, <2>2 DEF Mislead, Undefined, Crash
    <2> QED BY <1>1, <2>1, <2>2 DEF Undefined
  <1>2. CASE PassOver(t) /\ Front(work[t].ids) = <<>> /\ faults' = faults + 1
             /\ UNCHANGED <<tables, disk, issued>>
    BY <1>2 DEF Mislead, PassOver, Fail, At
  <1> QED BY <1>1, <1>2 DEF Mislead, Skipped

\* Every step of the system.
LEMMA Cases ==
  ASSUME [Next]_vars
  PROVE  \/ \E t \in Threads : Begin(t) \/ Step(t) \/ Fail(t) \/ Skipped(t)
         \/ Crash \/ UNCHANGED vars
  BY Misled DEF Next

\* From where to where a handler goes, and what changes in its locals.
LEMMA SkippedTo ==
  ASSUME TypeOK, NEW t \in Threads, Skipped(t)
  PROVE  LET w == work[t] IN
         \/ /\ pc[t] = "name" /\ NameTaken(req[t].user, req[t].parent, req[t].name)
            /\ pc' = [pc EXCEPT ![t] = IF req[t].op = "folder" THEN "insertDir" ELSE "findObj"]
            /\ work' = [work EXCEPT ![t] = [w EXCEPT !.unseen = @ \cup {"name"}]]
         \/ /\ pc[t] = "restoreName" /\ NameTaken(req[t].user, w.row.parent, w.row.name)
            /\ pc' = [pc EXCEPT ![t] = "collect"]
            /\ work' = [work EXCEPT ![t] = [w EXCEPT !.unseen = @ \cup {"restoreName"}]]
         \/ /\ pc[t] = "findObj" /\ req[t].op = "upload" /\ ObjectsWith(req[t].sha) # {}
            /\ pc' = [pc EXCEPT ![t] = "write"]
            /\ work' = [work EXCEPT ![t] = [w EXCEPT !.unseen = @ \cup {"findObj"}]]
         \/ /\ pc[t] = "collect" /\ Kids(req[t].user, Last(w.queue), req[t].op # "delete") # {}
            /\ pc' = [pc EXCEPT ![t] = IF Front(w.queue) = <<>> THEN AfterCollect(req[t].op)
                                                                ELSE "collect"]
            /\ work' = [work EXCEPT ![t] = [w EXCEPT !.queue = Front(@)]]
         \/ /\ \/ pc[t] = "pick" /\ DeletedRow(req[t].user, Victim(t))
               \/ pc[t] = "readRef"
            /\ Front(w.ids) # <<>>
            /\ pc' = [pc EXCEPT ![t] = "pick"]
            /\ work' = [work EXCEPT ![t] = [w EXCEPT !.ids = Front(@)]]
  <1>0. work \in [Threads -> Work]
    BY DEF TypeOK, HandlersOK
  <1>1. CASE Overlook(t)
    BY <1>0, <1>1 DEF Overlook, At
  <1>2. CASE OverlookKids(t)
    BY <1>0, <1>2 DEF OverlookKids, At
  <1>3. CASE PassOver(t) /\ Front(work[t].ids) # <<>>
    BY <1>0, <1>3 DEF PassOver, At
  <1> QED BY <1>1, <1>2, <1>3 DEF Skipped

LEMMA SkippedTypes ==
  ASSUME TypeOK, NEW t \in Threads, Skipped(t)
  PROVE  HandlersOK' /\ req' = req
  <1>0. HandlersOK /\ req' = req
    BY DEF TypeOK, Skipped, Overlook, OverlookKids, PassOver
  <1>h. /\ req[t].op \in Ops /\ pc[t] \in LabelsOf(req[t].op) /\ work[t] \in Work
        /\ Fits(pc[t], work[t]) /\ LabelsOf(req[t].op) \subseteq Labels
    BY <1>0, HandlerFacts
  <1>1. PICK label, w : /\ pc' = [pc EXCEPT ![t] = label] /\ work' = [work EXCEPT ![t] = w]
                        /\ label = pc'[t] /\ w = work'[t]
    <2>1. /\ pc \in [Threads -> Labels] /\ work \in [Threads -> Work]
      BY <1>0 DEF HandlersOK
    <2> QED BY <2>1, SkippedTo
  <1>2. CASE pc[t] = "name"
    <2>1. label \in {"insertDir", "findObj"} /\ w = [work[t] EXCEPT !.unseen = @ \cup {"name"}]
          /\ (label = "insertDir" <=> req[t].op = "folder")
      BY <1>0, <1>1, <1>2, SkippedTo DEF HandlersOK
    <2>2. w \in Work /\ Fits(label, w)
      BY <1>h, <2>1, FreeLabels DEF Work, CreateLabels
    <2>3. label \in LabelsOf(req[t].op)
      BY <1>h, <1>2, <2>1, LabelOps, LabelSets DEF CreateLabels
    <2> QED BY <1>0, <1>1, <1>h, <2>2, <2>3, AdvanceTypes
  <1>3. CASE pc[t] = "restoreName"
    <2>1. label = "collect" /\ w = [work[t] EXCEPT !.unseen = @ \cup {"restoreName"}]
      BY <1>0, <1>1, <1>3, SkippedTo DEF HandlersOK
    <2>2. w \in Work /\ w.ids = work[t].ids /\ w.queue = work[t].queue /\ w.row = work[t].row
      BY <1>h, <2>1 DEF Work
    <2>3. Fits(label, w)
      BY <1>h, <1>3, <2>1, <2>2 DEF Fits, PurgeLabels
    <2>4. label \in LabelsOf(req[t].op)
      BY <1>h, <1>3, <2>1, LabelOps, LabelSets
    <2> QED BY <1>0, <1>1, <1>h, <2>2, <2>3, <2>4, AdvanceTypes
  <1>4. CASE pc[t] = "findObj"
    <2>1. label = "write" /\ w = [work[t] EXCEPT !.unseen = @ \cup {"findObj"}]
          /\ req[t].op = "upload"
      BY <1>0, <1>1, <1>4, SkippedTo DEF HandlersOK
    <2>2. w \in Work /\ Fits(label, w)
      BY <1>h, <2>1, FreeLabels DEF Work, CreateLabels
    <2>3. label \in LabelsOf(req[t].op)
      BY <1>h, <2>1, LabelSets DEF CreateLabels
    <2> QED BY <1>0, <1>1, <1>h, <2>2, <2>3, AdvanceTypes
  <1>5. CASE pc[t] = "collect"
    <2>1. /\ label = IF Front(work[t].queue) = <<>> THEN AfterCollect(req[t].op) ELSE "collect"
          /\ w = [work[t] EXCEPT !.queue = Front(@)]
      BY <1>0, <1>1, <1>5, SkippedTo DEF HandlersOK
    <2>2. work[t].queue \in Seq(Nat) /\ work[t].queue # <<>>
          /\ work[t].ids # <<>> /\ work[t].row \in Row
      BY <1>h, <1>5 DEF Fits, Work
    <2>3. Front(work[t].queue) \in Seq(Nat)
      BY <2>2, FrontLast
    <2>4. w \in Work /\ w.ids = work[t].ids /\ w.queue = Front(work[t].queue) /\ w.row = work[t].row
      BY <1>h, <2>1, <2>3 DEF Work
    <2>5. /\ label \in {"collect", "mark", "unmark", "pick"} /\ label \in LabelsOf(req[t].op)
          /\ label = "collect" => w.queue # <<>>
      BY <1>h, <1>5, <2>1, <2>4, LabelOps, LabelSets DEF AfterCollect, PurgeLabels
    <2>6. Fits(label, w)
      BY <2>2, <2>4, <2>5 DEF Fits, PurgeLabels
    <2> QED BY <1>0, <1>1, <1>h, <2>4, <2>5, <2>6, AdvanceTypes
  <1>6. CASE pc[t] \in {"pick", "readRef"}
    <2>1. label = "pick" /\ w = [work[t] EXCEPT !.ids = Front(@)] /\ Front(work[t].ids) # <<>>
      BY <1>0, <1>1, <1>6, SkippedTo DEF HandlersOK
    <2>2. work[t].ids \in Seq(Nat) /\ work[t].ids # <<>> /\ work[t].row \in Row
      BY <1>h, <1>6 DEF Fits, Work, PurgeLabels
    <2>3. Front(work[t].ids) \in Seq(Nat)
      BY <2>2, FrontLast
    <2>4. w \in Work /\ w.ids # <<>> /\ w.row \in Row
      BY <1>h, <2>1, <2>2, <2>3 DEF Work
    <2>5. Fits(label, w)
      BY <2>1, <2>4 DEF Fits
    <2>6. label \in LabelsOf(req[t].op)
      BY <1>h, <1>6, <2>1, LabelOps, LabelSets DEF PurgeLabels
    <2> QED BY <1>0, <1>1, <1>h, <2>4, <2>5, <2>6, AdvanceTypes
  <1> QED BY <1>2, <1>3, <1>4, <1>5, <1>6, SkippedTo

\* A row that is inserted has an object, unless it is a folder.
LEMMA AddRowTables ==
  ASSUME TablesOK, NEW t \in Threads, NEW row \in Row, AddRow(t, row),
         IF row.dir THEN row.obj = 0 ELSE row.obj \in DOMAIN objects,
         UNCHANGED <<objects, nextObject, used, shares, disk>>
  PROVE  TablesOK'
  <1>1. DOMAIN files' = DOMAIN files \cup {nextFile} /\ nextFile' = nextFile + 1
    BY DEF AddRow
  <1>2. \A i \in DOMAIN files' : files'[i] = IF i = nextFile THEN row ELSE files[i]
    BY DEF AddRow
  <1>3. nextFile \notin DOMAIN files /\ nextFile \in Nat \ {0}
    BY DEF TablesOK
  <1>4. files' \in [DOMAIN files' -> Row]
    BY <1>1, <1>3 DEF AddRow, TablesOK
  <1>5. DOMAIN files' \subseteq 1 .. (nextFile' - 1)
    BY <1>1, <1>3 DEF TablesOK
  <1>6. shares' \subseteq DOMAIN files'
    BY <1>1 DEF TablesOK
  <1>7. \A i \in DOMAIN files' : IF files'[i].dir THEN files'[i].obj = 0
                                                 ELSE files'[i].obj \in DOMAIN objects'
    BY <1>1, <1>2, <1>3 DEF TablesOK
  <1> QED BY <1>1, <1>3, <1>4, <1>5, <1>6, <1>7 DEF TablesOK

\* The rows of a user are marked and unmarked, never changed otherwise.
LEMMA SetDeletedTables ==
  ASSUME TablesOK, NEW t \in Threads, NEW flag \in BOOLEAN, SetDeleted(t, flag)
  PROVE  TablesOK'
  <1>1. DOMAIN files' = DOMAIN files
    BY DEF SetDeleted
  <1>2. \A i \in DOMAIN files : /\ files'[i] \in Row
                                /\ files'[i].dir = files[i].dir /\ files'[i].obj = files[i].obj
    BY DEF SetDeleted, TablesOK, Row
  <1>3. files' \in [DOMAIN files -> Row]
    BY <1>1, <1>2 DEF SetDeleted
  <1>4. UNCHANGED <<nextFile, objects, nextObject, used, shares, disk>>
    BY DEF SetDeleted
  <1> QED BY <1>1, <1>2, <1>3, <1>4 DEF TablesOK

\* Counts of file_objects change, its ids and contents do not.
LEMMA CountTables ==
  ASSUME TablesOK, DOMAIN objects' = DOMAIN objects,
         objects' \in [DOMAIN objects -> [sha : Contents, ref : Nat]],
         UNCHANGED <<files, nextFile, nextObject, used, shares, disk>>
  PROVE  TablesOK'
  BY DEF TablesOK

LEMMA WrittenTables ==
  ASSUME TablesOK, NEW t \in Threads, Written(t), UNCHANGED tables
  PROVE  TablesOK'
  <1>1. disk' \in [Contents -> {"absent", "partial", "whole"}]
    BY DEF Written, TablesOK
  <1> QED BY <1>1 DEF TablesOK, tables

LEMMA OpenTables ==
  ASSUME TablesOK, NEW t \in Threads, OpenObject(t)
  PROVE  TablesOK'
  <1>1. disk' \in [Contents -> {"absent", "partial", "whole"}]
    BY DEF OpenObject, TablesOK
  <1> QED BY <1>1 DEF TablesOK, tables, OpenObject

LEMMA DieTables ==
  ASSUME TablesOK, Die, UNCHANGED tables
  PROVE  TablesOK'
  <1>1. disk' \in [Contents -> {"absent", "partial", "whole"}]
    BY DEF Die, TablesOK
  <1> QED BY <1>1 DEF TablesOK, tables

LEMMA UnchangedTables ==
  ASSUME TablesOK, UNCHANGED <<tables, disk>>
  PROVE  TablesOK'
  BY DEF TablesOK, tables

\* Every step of a handler keeps the tables well formed.
LEMMA StepTables ==
  ASSUME TypeOK, NEW t \in Threads, Step(t)
  PROVE  TablesOK'
  <1> USE DEF At
  <1>0. HandlersOK /\ TablesOK
    BY DEF TypeOK
  <1>h. /\ req[t].op \in Ops /\ pc[t] \in LabelsOf(req[t].op) /\ work[t] \in Work
        /\ Fits(pc[t], work[t]) /\ req[t] \in Requests \cup {NoRequest}
    BY <1>0, HandlerFacts
  <1>p. pc[t] \in {"subUsed", "unref", "readRef", "unlink", "dropObject"} => work[t].row \in Row
    BY <1>h DEF Fits, PurgeLabels
  <1>s. ASSUME req[t].op \in {"upload", "instant"}
        PROVE  /\ req[t].user \in Users /\ req[t].parent \in Nat /\ req[t].name \in Names
               /\ req[t].sha \in Contents /\ ReqSize(req[t]) \in Nat
    BY <1>s, <1>h, RequestKinds, SizeAssumption DEF UploadReq, InstantReq, ReqSize
  <1>1. CASE \/ CheckParent(t) \/ CheckName(t) \/ FindObject(t) \/ CheckExists(t) \/ FindRoot(t)
             \/ CheckRestoreName(t) \/ CollectKids(t) \/ PickVictim(t) \/ ReadRef(t)
    <2>1. UNCHANGED <<tables, disk>>
      BY <1>1 DEF CheckParent, CheckName, FindObject, CheckExists, FindRoot, CheckRestoreName,
                  CollectKids, PickVictim, ReadRef
    <2> QED BY <2>1, <1>0, UnchangedTables
  <1>2. CASE InsertDir(t)
    <2> DEFINE row == [user |-> req[t].user, parent |-> req[t].parent, obj |-> 0,
                       name |-> req[t].name, size |-> 0, dir |-> TRUE, deleted |-> FALSE]
    <2>1. req[t] \in FolderReq
      BY <1>2, <1>h, LabelOps, RequestKinds DEF InsertDir
    <2>2. row \in Row /\ row.dir /\ row.obj = 0
      BY <2>1 DEF FolderReq, Row
    <2>3. AddRow(t, row) /\ UNCHANGED <<objects, nextObject, used, shares, disk>>
      BY <1>2 DEF InsertDir
    <2> HIDE DEF row
    <2> QED BY <1>0, <2>2, <2>3, AddRowTables
  <1>3. CASE FetchDir(t)
    BY <1>0, <1>3, DieTables, UnchangedTables DEF FetchDir, Undefined, tables
  <1>4. CASE WriteObject(t)
    BY <1>0, <1>4, WrittenTables DEF WriteObject
  <1>5. CASE InsertObject(t)
    <2>1. CASE ObjectsWith(req[t].sha) # {}
      BY <1>0, <1>5, <2>1, UnchangedTables DEF InsertObject, tables
    <2>2. CASE ObjectsWith(req[t].sha) = {}
      <3>1. req[t].op = "upload"
        BY <1>5, <1>h, LabelOps DEF InsertObject
      <3>2. /\ objects' = [o \in DOMAIN objects \cup {nextObject} |->
                            IF o = nextObject THEN [sha |-> req[t].sha, ref |-> 1] ELSE objects[o]]
            /\ nextObject' = nextObject + 1 /\ UNCHANGED <<files, nextFile, used, shares, disk>>
        BY <1>5, <2>2 DEF InsertObject
      <3>3. objects' \in [DOMAIN objects' -> [sha : Contents, ref : Nat]]
        BY <1>0, <1>s, <3>1, <3>2 DEF TablesOK
      <3>4. DOMAIN objects' \subseteq 1 .. (nextObject' - 1) /\ DOMAIN objects \subseteq DOMAIN objects'
        BY <1>0, <3>2 DEF TablesOK
      <3>5. nextObject' \in Nat \ {0}
        BY <1>0, <3>2 DEF TablesOK
      <3>6. \A i \in DOMAIN files' : IF files'[i].dir THEN files'[i].obj = 0
                                                     ELSE files'[i].obj \in DOMAIN objects'
        BY <1>0, <3>2, <3>4 DEF TablesOK
      <3> QED BY <1>0, <3>2, <3>3, <3>4, <3>5, <3>6 DEF TablesOK
    <2> QED BY <2>1, <2>2
  <1>6. CASE FetchObject(t)
    BY <1>0, <1>6, DieTables, UnchangedTables DEF FetchObject, Undefined, tables
  <1>7. CASE RewriteObject(t)
    BY <1>0, <1>7, WrittenTables DEF RewriteObject
  <1>8. CASE AddRef(t)
    <2>1. DOMAIN objects' = DOMAIN objects
          /\ objects' \in [DOMAIN objects -> [sha : Contents, ref : Nat]]
      BY <1>0, <1>8 DEF AddRef, TablesOK
    <2> QED BY <1>0, <1>8, <2>1, CountTables DEF AddRef
  <1>9. CASE InsertRow(t)
    <2>1. CASE work[t].obj \in DOMAIN objects
      <3> DEFINE row == [user |-> req[t].user, parent |-> req[t].parent, obj |-> work[t].obj,
                         name |-> req[t].name, size |-> ReqSize(req[t]), dir |-> FALSE,
                         deleted |-> FALSE]
      <3>1. req[t].op \in {"upload", "instant"}
        BY <1>9, <1>h, LabelOps DEF InsertRow
      <3>2. row \in Row /\ ~row.dir /\ row.obj \in DOMAIN objects
        BY <3>1, <1>s, <1>h, <2>1 DEF Row, Work
      <3>3. AddRow(t, row) /\ UNCHANGED <<objects, nextObject, used, shares, disk>>
        BY <1>9, <2>1 DEF InsertRow
      <3> HIDE DEF row
      <3> QED BY <1>0, <3>2, <3>3, AddRowTables
    <2>2. CASE work[t].obj \notin DOMAIN objects
      BY <1>0, <1>9, <2>2, UnchangedTables DEF InsertRow, tables
    <2> QED BY <2>1, <2>2
  <1>10. CASE AddUsed(t)
    <2>1. req[t].op \in {"upload", "instant"}
      BY <1>10, <1>h, LabelOps DEF AddUsed
    <2>2. used' \in [Users -> Nat]
      BY <1>0, <1>10, <1>s, <2>1 DEF AddUsed, TablesOK
    <2> QED BY <1>0, <1>10, <2>2 DEF AddUsed, TablesOK
  <1>11. CASE FetchId(t)
    BY <1>0, <1>11, DieTables, UnchangedTables DEF FetchId, Undefined, tables
  <1>12. CASE InsertShare(t)
    BY <1>0, <1>12 DEF InsertShare, TablesOK
  <1>13. CASE SoftDeleteNext(t)
    BY <1>0, <1>13, SetDeletedTables DEF SoftDeleteNext
  <1>14. CASE RestoreNext(t)
    BY <1>0, <1>14, SetDeletedTables DEF RestoreNext
  <1>15. CASE DropShares(t)
    BY <1>0, <1>15 DEF DropShares, TablesOK
  <1>16. CASE DropRow(t)
    <2>1. CASE Victim(t) \in shares
      BY <1>0, <1>16, <2>1, UnchangedTables DEF DropRow, tables
    <2>2. CASE Victim(t) \notin shares
      <3>1. files' = [i \in DOMAIN files \ {Victim(t)} |-> files[i]]
            /\ UNCHANGED <<nextFile, objects, nextObject, used, shares, disk>>
        BY <1>16, <2>2 DEF DropRow
      <3>2. files' \in [DOMAIN files' -> Row] /\ DOMAIN files' \subseteq DOMAIN files
            /\ \A i \in DOMAIN files' : files'[i] = files[i]
        BY <1>0, <3>1 DEF TablesOK
      <3>3. shares' \subseteq DOMAIN files'
        BY <1>0, <2>2, <3>1 DEF TablesOK
      <3> QED BY <1>0, <3>1, <3>2, <3>3 DEF TablesOK
    <2> QED BY <2>1, <2>2
  <1>17. CASE SubUsed(t)
    <2>1. work[t].row.size \in Nat
      BY <1>17, <1>p DEF SubUsed, Row
    <2>2. used' \in [Users -> Nat]
      <3>1. \A u \in Users : used[u] \in Nat /\ Less(used[u], work[t].row.size) \in Nat
        BY <1>0, <2>1 DEF TablesOK, Less
      <3>2. used' = [used EXCEPT ![req[t].user] = Less(used[req[t].user], work[t].row.size)]
        BY <1>17 DEF SubUsed
      <3> QED BY <1>0, <3>1, <3>2 DEF TablesOK
    <2> QED BY <1>0, <1>17, <2>2 DEF SubUsed, TablesOK
  <1>18. CASE Unref(t)
    <2>1. DOMAIN objects' = DOMAIN objects
          /\ objects' \in [DOMAIN objects -> [sha : Contents, ref : Nat]]
      BY <1>0, <1>18 DEF Unref, TablesOK, Less
    <2> QED BY <1>0, <1>18, <2>1, CountTables DEF Unref
  <1>19. CASE Unlink(t)
    <2>1. disk' \in [Contents -> {"absent", "partial", "whole"}]
      BY <1>0, <1>19 DEF Unlink, TablesOK
    <2> QED BY <1>0, <1>19, <2>1 DEF Unlink, TablesOK, tables
  <1>20. CASE DropObject(t)
    <2> DEFINE o == work[t].row.obj
    <2>1. CASE \E i \in DOMAIN files : files[i].obj = o
      BY <1>0, <1>20, <2>1, UnchangedTables DEF DropObject, tables
    <2>2. CASE ~ \E i \in DOMAIN files : files[i].obj = o
      <3>1. objects' = [x \in DOMAIN objects \ {o} |-> objects[x]]
            /\ UNCHANGED <<files, nextFile, nextObject, used, shares, disk>>
        BY <1>20, <2>2 DEF DropObject
      <3>2. objects' \in [DOMAIN objects' -> [sha : Contents, ref : Nat]]
            /\ DOMAIN objects' \subseteq 1 .. (nextObject' - 1)
        BY <1>0, <3>1 DEF TablesOK
      <3>3. \A i \in DOMAIN files' : IF files'[i].dir THEN files'[i].obj = 0
                                                     ELSE files'[i].obj \in DOMAIN objects'
        BY <1>0, <2>2, <3>1 DEF TablesOK
      <3> QED BY <1>0, <3>1, <3>2, <3>3 DEF TablesOK
    <2> QED BY <2>1, <2>2
  <1>21. CASE OpenObject(t)
    BY <1>0, <1>21, OpenTables
  <1> QED BY <1>1, <1>2, <1>3, <1>4, <1>5, <1>6, <1>7, <1>8, <1>9, <1>10, <1>11, <1>12, <1>13, <1>14,
             <1>15, <1>16, <1>17, <1>18, <1>19, <1>20, <1>21 DEF Step

LEMMA InitTypes == Init => TypeOK
  <1> SUFFICES ASSUME Init PROVE TypeOK
    OBVIOUS
  <1>1. DOMAIN EmptyTable = {}
    BY DEF EmptyTable
  <1>2. files \in [DOMAIN files -> Row] /\ objects \in [DOMAIN objects -> [sha : Contents, ref : Nat]]
    BY DEF Init, EmptyTable
  <1>3. TablesOK
    BY <1>1, <1>2 DEF Init, TablesOK
  <1>4. HandlersOK
    BY IdleLocals DEF Init, HandlersOK
  <1> QED BY <1>3, <1>4 DEF Init, TypeOK

LEMMA NextTypes == TypeOK /\ [Next]_vars => TypeOK'
  <1> SUFFICES ASSUME TypeOK, [Next]_vars PROVE TypeOK'
    OBVIOUS
  <1>0. TablesOK /\ HandlersOK /\ issued \in Nat /\ faults \in Nat
    BY DEF TypeOK
  <1>1. ASSUME NEW t \in Threads, Begin(t)
        PROVE  TypeOK'
    <2>1. PICK r \in Requests : /\ req' = [req EXCEPT ![t] = r]
                                /\ pc' = [pc EXCEPT ![t] = FirstLabel(r.op)]
      BY <1>1 DEF Begin
    <2>2. r.op \in Ops \ {"none"}
      BY RequestsAssumption DEF AnyRequest, FolderReq, UploadReq, InstantReq, TreeReq, ShareReq, Ops
    <2>3. FirstLabel(r.op) \in LabelsOf(r.op) /\ FirstLabel(r.op) \in Labels
          /\ FirstLabel(r.op) \in {"parent", "root"}
      BY <2>2 DEF FirstLabel, LabelsOf, Labels, Ops, CreateLabels
    <2>4. Fits(FirstLabel(r.op), work[t])
      BY <2>3 DEF Fits, PurgeLabels
    <2>5. /\ pc' \in [Threads -> Labels] /\ pc'[t] = FirstLabel(r.op)
          /\ req' \in [Threads -> Requests \cup {NoRequest}] /\ req'[t] = r
          /\ \A s \in Threads \ {t} : pc'[s] = pc[s] /\ req'[s] = req[s]
      BY <1>0, <2>1, <2>3 DEF HandlersOK
    <2>6. HandlersOK'
      BY <1>0, <1>1, <2>3, <2>4, <2>5 DEF HandlersOK, Begin
    <2> QED BY <1>0, <1>1, <2>6, UnchangedTables DEF TypeOK, Begin
  <1>2. ASSUME NEW t \in Threads, Step(t)
        PROVE  TypeOK'
    <2>1. issued' = issued /\ faults' \in Nat
      <3>1. ASSUME UNCHANGED bounds PROVE issued' = issued /\ faults' \in Nat
        BY <1>0, <3>1 DEF bounds
      <3>2. ASSUME Written(t), UNCHANGED issued PROVE issued' = issued /\ faults' \in Nat
        BY <1>0, <3>2 DEF Written
      <3>3. ASSUME Undefined(t) PROVE issued' = issued /\ faults' \in Nat
        BY <1>0, <3>3 DEF Undefined
      <3>4. CASE WriteObject(t) \/ RewriteObject(t)
        BY <3>2, <3>4 DEF WriteObject, RewriteObject
      <3>5. CASE FetchDir(t) \/ FetchObject(t) \/ FetchId(t)
        BY <3>1, <3>3, <3>5 DEF FetchDir, FetchObject, FetchId, Goto, Reply
      <3>6. CASE Unlink(t)
        BY <1>0, <3>6 DEF Unlink
      <3>7. CASE \/ CheckParent(t) \/ CheckName(t) \/ InsertDir(t) \/ FindObject(t)
                 \/ OpenObject(t) \/ InsertObject(t) \/ CheckExists(t) \/ AddRef(t) \/ InsertRow(t) \/ AddUsed(t)
        BY <3>1, <3>7 DEF CheckParent, CheckName, InsertDir, FindObject, OpenObject, InsertObject, CheckExists,
                          AddRef, InsertRow, AddUsed, Goto, Reply
      <3>8. CASE \/ FindRoot(t) \/ InsertShare(t) \/ CheckRestoreName(t) \/ CollectKids(t)
                 \/ SoftDeleteNext(t) \/ RestoreNext(t)
        BY <3>1, <3>8 DEF FindRoot, InsertShare, CheckRestoreName, CollectKids, SoftDeleteNext,
                          RestoreNext, SetDeleted, Goto, Reply
      <3>9. CASE \/ PickVictim(t) \/ DropShares(t) \/ DropRow(t) \/ SubUsed(t)
                 \/ Unref(t) \/ ReadRef(t) \/ DropObject(t)
        BY <3>1, <3>9 DEF PickVictim, DropShares, DropRow, SubUsed, Unref, ReadRef, DropObject,
                          NextVictim, Goto, Reply
      <3> QED BY <1>2, <3>4, <3>5, <3>6, <3>7, <3>8, <3>9 DEF Step
    <2> QED BY <1>0, <1>2, <2>1, StepTables, CreateHandlers, TreeHandlers DEF TypeOK, Step
  <1>3. ASSUME NEW t \in Threads, Fail(t)
        PROVE  TypeOK'
    BY <1>0, <1>3, AbandonTypes, UnchangedTables DEF TypeOK, Fail
  <1>4. CASE Crash
    BY <1>0, <1>4, DieTypes, DieTables DEF TypeOK, Crash
  <1>5. CASE UNCHANGED vars
    BY <1>0, <1>5 DEF TypeOK, TablesOK, HandlersOK, vars, tables, handler, bounds
  <1>6. ASSUME NEW t \in Threads, Skipped(t)
        PROVE  TypeOK'
    BY <1>0, <1>6, SkippedTypes, UnchangedTables DEF TypeOK, Skipped
  <1> QED BY <1>1, <1>2, <1>3, <1>4, <1>5, <1>6, Cases

\* The tables keep their shape, their ids and their foreign keys, and every
\* handler has what it reads of its locals, however many threads run, whatever
\* fails (the type invariant, for FileOps.cpp and FileRoutes.cpp as a whole).
THEOREM TypeCorrect == Spec => []TypeOK
  BY InitTypes, NextTypes, PTL DEF Spec

----------------------------------------------------------------------------
\* The tree.

\* Ids are given once, and parent_id, user_id and is_dir of a row never change.
SameKind(i) == /\ files'[i].dir = files[i].dir /\ files'[i].user = files[i].user
               /\ files'[i].parent = files[i].parent

LEMMA RowsKeepKind ==
  ASSUME TypeOK, NEW t \in Threads, Step(t)
  PROVE  /\ nextFile' \in Nat /\ nextFile <= nextFile'
         /\ \A i \in DOMAIN files' : IF i \in DOMAIN files THEN SameKind(i)
                                     ELSE i = nextFile /\ (InsertDir(t) \/ InsertRow(t))
  <1> USE DEF At
  <1>0. nextFile \in Nat \ {0} /\ files \in [DOMAIN files -> Row] /\ nextFile \notin DOMAIN files
    BY DEF TypeOK, TablesOK
  <1>1. CASE InsertDir(t) \/ InsertRow(t)
    BY <1>0, <1>1 DEF InsertDir, InsertRow, AddRow, SameKind
  <1>2. CASE SoftDeleteNext(t) \/ RestoreNext(t)
    <2>1. PICK flag \in BOOLEAN : SetDeleted(t, flag)
      BY <1>2 DEF SoftDeleteNext, RestoreNext
    <2>2. DOMAIN files' = DOMAIN files /\ \A i \in DOMAIN files : SameKind(i)
      BY <1>0, <2>1 DEF SetDeleted, Row, SameKind
    <2> QED BY <1>0, <2>1, <2>2 DEF SetDeleted
  <1>3. CASE DropRow(t)
    BY <1>0, <1>3 DEF DropRow, SameKind
  <1>4. CASE ~ (InsertDir(t) \/ InsertRow(t) \/ SoftDeleteNext(t) \/ RestoreNext(t) \/ DropRow(t))
    <2>1. UNCHANGED <<files, nextFile>>
      <3>1. CASE \/ CheckParent(t) \/ CheckName(t) \/ FetchDir(t)
                 \/ FindObject(t) \/ OpenObject(t) \/ WriteObject(t) \/ InsertObject(t) \/ FetchObject(t)
                 \/ CheckExists(t) \/ RewriteObject(t) \/ AddRef(t) \/ AddUsed(t) \/ FetchId(t)
        BY <3>1 DEF CheckParent, CheckName, FetchDir, FindObject, OpenObject, WriteObject, InsertObject,
                    FetchObject, CheckExists, RewriteObject, AddRef, AddUsed, FetchId, Undefined, tables
      <3>2. CASE \/ FindRoot(t) \/ InsertShare(t) \/ CheckRestoreName(t) \/ CollectKids(t)
                 \/ PickVictim(t) \/ DropShares(t) \/ SubUsed(t)
                 \/ Unref(t) \/ ReadRef(t) \/ Unlink(t) \/ DropObject(t)
        BY <3>2 DEF FindRoot, InsertShare, CheckRestoreName, CollectKids, PickVictim, DropShares,
                    SubUsed, Unref, ReadRef, Unlink, DropObject, tables
      <3> QED BY <1>4, <3>1, <3>2 DEF Step
    <2> QED BY <1>0, <2>1 DEF SameKind
  <1> QED BY <1>1, <1>2, <1>3, <1>4

\* A handler that creates has a parent that is a folder of its user, or is gone, or
\* is the top: it has been checked, ids are given once, and rows keep their kind.
AfterParent == {"name", "insertDir"} \cup (CreateLabels \ {"parent"})

FolderOf(u, p) == p < nextFile /\ (p \in DOMAIN files => files[p].dir /\ files[p].user = u)

ParentChecked == \A t \in Threads : pc[t] \in AfterParent => FolderOf(req[t].user, req[t].parent)

LEMMA BeforeCreate ==
  ASSUME TypeOK, NEW t \in Threads, Step(t), NEW s \in Threads, pc'[s] \in AfterParent
  PROVE  /\ req'[s] = req[s]
         /\ pc[s] \in AfterParent \/ ParentExists(req[s].user, req[s].parent)
  <1> USE DEF At
  <1>0. /\ pc \in [Threads -> Labels] /\ req \in [Threads -> Requests \cup {NoRequest}]
        /\ "idle" \notin AfterParent
        /\ {"fill", "refill", "insertObj", "addRef", "write", "rewrite"} \subseteq AfterParent
    BY DEF TypeOK, HandlersOK, AfterParent, CreateLabels
  <1>r. ASSUME Reply(t) \/ Undefined(t) PROVE pc'[s] = pc[s] /\ req'[s] = req[s]
    BY <1>r, <1>0 DEF Reply, Abandon, Undefined, Die
  <1>g. ASSUME NEW label, Goto(t, label), pc[t] \in AfterParent \/ label \notin AfterParent
        PROVE  req'[s] = req[s] /\ pc[s] \in AfterParent
    BY <1>g, <1>0 DEF Goto
  <1>1. CASE CheckParent(t)
    <2>1. CASE ParentExists(req[t].user, req[t].parent)
      BY <1>0, <1>1, <2>1 DEF CheckParent, Goto
    <2>2. CASE ~ParentExists(req[t].user, req[t].parent)
      BY <1>1, <2>2, <1>r DEF CheckParent
    <2> QED BY <2>1, <2>2
  <1>2. CASE \/ CheckName(t) \/ FindObject(t) \/ OpenObject(t) \/ InsertObject(t) \/ FetchObject(t)
             \/ CheckExists(t) \/ AddRef(t) \/ InsertRow(t) \/ AddUsed(t) \/ FetchId(t)
    <2>1. pc[t] \in AfterParent
      BY <1>2 DEF AfterParent, CreateLabels, CheckName, FindObject, OpenObject, InsertObject, FetchObject,
                  CheckExists, AddRef, InsertRow, AddUsed, FetchId
    <2>2. Reply(t) \/ Undefined(t) \/ \E label : Goto(t, label)
      BY <1>2 DEF CheckName, FindObject, OpenObject, InsertObject, FetchObject, CheckExists, AddRef,
                  InsertRow, AddUsed, FetchId
    <2> QED BY <2>1, <2>2, <1>r, <1>g
  <1>3. CASE InsertDir(t) \/ FetchDir(t)
    <2>1. "fetchDir" \notin AfterParent
      BY DEF AfterParent, CreateLabels
    <2> QED BY <1>3, <2>1, <1>r, <1>g DEF InsertDir, FetchDir
  <1>4. CASE WriteObject(t) \/ RewriteObject(t)
    BY <1>4, <1>0 DEF WriteObject, RewriteObject
  <1>5. CASE \/ FindRoot(t) \/ InsertShare(t) \/ CheckRestoreName(t) \/ CollectKids(t)
             \/ SoftDeleteNext(t) \/ RestoreNext(t)
             \/ PickVictim(t) \/ DropShares(t) \/ DropRow(t) \/ SubUsed(t)
             \/ Unref(t) \/ ReadRef(t) \/ Unlink(t) \/ DropObject(t)
    <2>1. {"insertShare", "restoreName", "collect", "mark", "unmark"} \cap AfterParent = {}
          /\ PurgeLabels \cap AfterParent = {}
      BY DEF AfterParent, CreateLabels, PurgeLabels
    <2>2. \/ Reply(t) \/ UNCHANGED <<pc, req>>
          \/ \E label \in {"insertShare", "restoreName", "collect", "mark", "unmark"} \cup PurgeLabels :
               pc' = [pc EXCEPT ![t] = label] /\ req' = req
      BY <1>5 DEF FindRoot, AfterRoot, InsertShare, CheckRestoreName, CollectKids, AfterCollect,
                  SoftDeleteNext, RestoreNext, SetDeleted, PickVictim, DropShares, DropRow, SubUsed, Unref,
                  ReadRef, Unlink, DropObject, NextVictim, Goto, PurgeLabels
    <2> QED BY <2>1, <2>2, <1>r, <1>0
  <1> QED BY <1>1, <1>2, <1>3, <1>4, <1>5 DEF Step

TreeInv == TypeOK /\ TreeShape /\ ParentChecked

LEMMA StepTree ==
  ASSUME TreeInv, NEW t \in Threads, Step(t)
  PROVE  TreeShape' /\ ParentChecked'
  <1> USE DEF At
  <1>0. /\ TypeOK /\ TypeOK' /\ nextFile \in Nat /\ nextFile' \in Nat /\ nextFile <= nextFile'
        /\ DOMAIN files \subseteq 1 .. (nextFile - 1) /\ files \in [DOMAIN files -> Row]
    BY NextTypes, RowsKeepKind DEF TreeInv, Next, TypeOK, TablesOK
  <1>1. ASSUME NEW u, NEW p \in Nat, FolderOf(u, p) PROVE FolderOf(u, p)'
    <2>1. p # nextFile
      BY <1>0, <1>1 DEF FolderOf
    <2> QED BY <1>0, <1>1, <2>1, RowsKeepKind DEF FolderOf, SameKind
  <1>2. ASSUME NEW i \in DOMAIN files'
        PROVE  LET p == files'[i].parent IN
               /\ p < i
               /\ p \in DOMAIN files' => files'[p].dir /\ files'[p].user = files'[i].user
    <2>0. PICK p, u : p = files'[i].parent /\ u = files'[i].user
      OBVIOUS
    <2> SUFFICES p < i /\ (p \in DOMAIN files' => files'[p].dir /\ files'[p].user = u)
      BY <2>0
    <2>1. CASE i \in DOMAIN files
      <3>1. p = files[i].parent /\ u = files[i].user
        BY <1>0, <1>2, <2>0, <2>1, RowsKeepKind DEF SameKind
      <3>2. p \in Nat /\ i < nextFile /\ i \in Nat
        BY <1>0, <2>1, <3>1 DEF Row
      <3>3. p < i /\ FolderOf(u, p)
        BY <1>0, <2>1, <3>1, <3>2 DEF TreeInv, TreeShape, FolderOf
      <3> QED BY <1>1, <3>2, <3>3 DEF FolderOf
    <2>2. CASE i \notin DOMAIN files
      <3>1. i = nextFile /\ (InsertDir(t) \/ InsertRow(t))
        BY <1>0, <1>2, <2>2, RowsKeepKind
      <3>2. p = req[t].parent /\ u = req[t].user /\ pc[t] \in AfterParent
        BY <2>0, <2>2, <3>1 DEF InsertDir, InsertRow, AddRow, AfterParent, CreateLabels
      <3>3. FolderOf(u, p)
        BY <3>2 DEF TreeInv, ParentChecked
      <3>4. p \in Nat
        BY <1>0, <1>2, <2>0 DEF TypeOK, TablesOK, Row
      <3> QED BY <1>1, <3>1, <3>3, <3>4 DEF FolderOf
    <2> QED BY <2>1, <2>2
  <1>3. ASSUME NEW s \in Threads, pc'[s] \in AfterParent
        PROVE  FolderOf(req[s].user, req[s].parent)' 
    <2>1. req'[s] = req[s]
          /\ (pc[s] \in AfterParent \/ ParentExists(req[s].user, req[s].parent))
      BY <1>0, <1>3, BeforeCreate
    <2>2. req[s].parent \in Nat
      <3>1. req'[s] \in Requests \cup {NoRequest} /\ pc'[s] \in LabelsOf(req'[s].op) /\ req'[s].op \in Ops
        BY <1>0, RequestKinds DEF TypeOK, HandlersOK
      <3>2. req'[s].op \in {"folder", "upload", "instant"}
        BY <1>3, <3>1, LabelOps DEF AfterParent, CreateLabels
      <3> QED BY <2>1, <3>1, <3>2, RequestKinds DEF FolderReq, UploadReq, InstantReq
    <2>3. FolderOf(req[s].user, req[s].parent)
      BY <1>0, <2>1, <2>2 DEF TreeInv, ParentChecked, ParentExists, ActiveRow, FolderOf, TypeOK, TablesOK
    <2>4. ASSUME NEW u, u = req[s].user, NEW p, p = req[s].parent PROVE FolderOf(u, p)'
      BY <1>1, <2>2, <2>3, <2>4
    <2> QED BY <2>1, <2>4
  <1> QED BY <1>2, <1>3 DEF TreeShape, ParentChecked

\* The folders make a forest (parentExists and findActiveFile, RouteUtils.cpp 176-206): whatever
\* is created, deleted, restored and purged at once, a row is below an older folder of
\* its own user, so collectSubtree ends.
THEOREM TreeShapeHolds == Spec => []TreeShape
  <1>1. Init => TreeInv
    <2> SUFFICES ASSUME Init PROVE TreeInv
      OBVIOUS
    <2>1. DOMAIN files = {} /\ \A t \in Threads : pc[t] = "idle"
      BY DEF Init, EmptyTable
    <2>2. "idle" \notin AfterParent
      BY DEF AfterParent, CreateLabels
    <2> QED BY <2>1, <2>2, InitTypes DEF TreeInv, TreeShape, ParentChecked
  <1>2. TreeInv /\ [Next]_vars => TreeInv'
    <2> SUFFICES ASSUME TreeInv, [Next]_vars PROVE TreeInv'
      OBVIOUS
    <2>0. TypeOK /\ TypeOK' /\ TreeShape /\ ParentChecked
          /\ pc \in [Threads -> Labels] /\ req \in [Threads -> Requests \cup {NoRequest}]
          /\ "idle" \notin AfterParent /\ "parent" \notin AfterParent /\ "root" \notin AfterParent
      BY NextTypes DEF TreeInv, TypeOK, HandlersOK, AfterParent, CreateLabels
    <2>1. ASSUME NEW t \in Threads, Step(t) PROVE TreeInv'
      BY <2>0, <2>1, StepTree DEF TreeInv
    <2>2. ASSUME UNCHANGED <<files, nextFile>>,
                 \A s \in Threads : pc'[s] \in AfterParent => pc[s] \in AfterParent /\ req'[s] = req[s]
          PROVE  TreeInv'
      BY <2>0, <2>2 DEF TreeInv, TreeShape, ParentChecked, FolderOf
    <2>3. ASSUME NEW t \in Threads, Begin(t) PROVE TreeInv'
      <3>1. \A s \in Threads : pc'[s] \in AfterParent => pc[s] \in AfterParent /\ req'[s] = req[s]
        BY <2>0, <2>3 DEF Begin, FirstLabel
      <3> QED BY <2>2, <2>3, <3>1 DEF Begin, tables
    <2>4. CASE Crash \/ \E t \in Threads : Fail(t)
      <3>1. \A s \in Threads : pc'[s] \in AfterParent => pc[s] \in AfterParent /\ req'[s] = req[s]
        BY <2>0, <2>4 DEF Crash, Fail, Die, Abandon
      <3> QED BY <2>2, <2>4, <3>1 DEF Crash, Fail, tables
    <2>5. CASE UNCHANGED vars
      BY <2>2, <2>5 DEF vars, tables, handler
    <2>6. ASSUME NEW t \in Threads, Skipped(t) PROVE TreeInv'
      <3>1. /\ {"name", "findObj"} \subseteq AfterParent
            /\ {"collect", "mark", "unmark", "pick"} \cap AfterParent = {}
        BY DEF AfterParent, CreateLabels
      <3>2. \/ pc[t] \in {"name", "findObj"}
            \/ pc'[t] \in {"collect", "mark", "unmark", "pick"}
        <4>1. req[t].op \in Ops /\ pc[t] \in LabelsOf(req[t].op)
          BY <2>0, HandlerFacts DEF TypeOK
        <4>2. pc[t] = "collect" => AfterCollect(req[t].op) \in {"mark", "unmark", "pick"}
          BY DEF AfterCollect
        <4> QED BY <2>0, <2>6, <4>2, SkippedTo
      <3>3. \A s \in Threads \ {t} : pc'[s] = pc[s]
        BY <2>0, <2>6, SkippedTo
      <3>4. req' = req
        BY <2>0, <2>6, SkippedTypes
      <3> QED BY <2>2, <2>6, <3>1, <3>2, <3>3, <3>4 DEF Skipped, tables
    <2> QED BY <2>1, <2>3, <2>4, <2>5, <2>6, Cases
  <1>3. TreeInv => TreeShape
    BY DEF TreeInv
  <1> QED BY <1>1, <1>2, <1>3, PTL DEF Spec

----------------------------------------------------------------------------
\* ref_count covers the rows of files: RefInv is inductive as long as no two
\* handlers purge the same row at the same time.  From it, with one thread, what
\* becomes of contents and of answers; and, with any, the order in which a tree
\* is collected.

\* What a step of t leaves alone in the other handlers.
OthersSame(t) == \A s \in Threads \ {t} : pc'[s] = pc[s] /\ req'[s] = req[s] /\ work'[s] = work[s]

\* A step changes the handler of its own thread only, unless the process dies.
LEMMA OneThreadMoves ==
  ASSUME TypeOK, NEW t \in Threads, Step(t)
  PROVE  OthersSame(t) \/ (Die /\ faults' > 0 /\ UNCHANGED tables)
  <1>0. /\ pc \in [Threads -> Labels] /\ req \in [Threads -> Requests \cup {NoRequest}]
        /\ work \in [Threads -> Work] /\ faults \in Nat
    BY DEF TypeOK, HandlersOK
  <1>1. ASSUME Abandon(t) PROVE OthersSame(t)
    BY <1>0, <1>1 DEF Abandon, OthersSame
  <1>2. ASSUME NEW label, Goto(t, label), NEW w, work' = [work EXCEPT ![t] = w] PROVE OthersSame(t)
    BY <1>0, <1>2 DEF Goto, OthersSame
  <1>3. ASSUME NEW label, Goto(t, label), UNCHANGED work PROVE OthersSame(t)
    BY <1>0, <1>3 DEF Goto, OthersSame
  <1>4. ASSUME Undefined(t) PROVE OthersSame(t) \/ (Die /\ faults' > 0 /\ UNCHANGED tables)
    BY <1>0, <1>1, <1>4 DEF Undefined
  <1>5. ASSUME NextVictim(t) PROVE OthersSame(t)
    BY <1>1, <1>2, <1>5 DEF NextVictim, Reply
  <1>6. CASE CheckParent(t) \/ CheckName(t) \/ OpenObject(t) \/ CheckExists(t) \/ AddRef(t) \/ AddUsed(t)
    BY <1>1, <1>3, <1>6 DEF CheckParent, CheckName, OpenObject, CheckExists, AddRef, AddUsed, Reply
  <1>7. CASE WriteObject(t) \/ RewriteObject(t) \/ Unlink(t)
    BY <1>0, <1>7 DEF WriteObject, RewriteObject, Unlink, OthersSame
  <1>8. CASE InsertDir(t) \/ InsertRow(t) \/ InsertObject(t)
    BY <1>1, <1>2, <1>8 DEF InsertDir, InsertRow, InsertObject, AddRow, Reply
  <1>9. CASE FetchDir(t) \/ FetchId(t)
    BY <1>1, <1>4, <1>9 DEF FetchDir, FetchId, Reply
  <1>10. CASE FetchObject(t)
    BY <1>2, <1>4, <1>10 DEF FetchObject
  <1>11. CASE FindObject(t)
    BY <1>1, <1>2, <1>3, <1>11 DEF FindObject, Reply
  <1>12. CASE FindRoot(t) \/ InsertShare(t) \/ CheckRestoreName(t)
    BY <1>1, <1>2, <1>3, <1>12 DEF FindRoot, InsertShare, CheckRestoreName, Reply
  <1>13. CASE CollectKids(t)
    BY <1>2, <1>13 DEF CollectKids
  <1>14. CASE SoftDeleteNext(t) \/ RestoreNext(t)
    BY <1>0, <1>1, <1>14 DEF SoftDeleteNext, RestoreNext, SetDeleted, Reply, OthersSame
  <1>15. CASE PickVictim(t) \/ ReadRef(t)
    BY <1>2, <1>5, <1>15 DEF PickVictim, ReadRef
  <1>16. CASE DropShares(t) \/ SubUsed(t) \/ Unref(t)
    BY <1>3, <1>16 DEF DropShares, SubUsed, Unref
  <1>17. CASE DropRow(t) \/ DropObject(t)
    BY <1>1, <1>3, <1>5, <1>17 DEF DropRow, DropObject, Reply
  <1> QED BY <1>6, <1>7, <1>8, <1>9, <1>10, <1>11, <1>12, <1>13, <1>14, <1>15, <1>16, <1>17 DEF Step

\* So does a SELECT that was given no result.
LEMMA SkippedMoves ==
  ASSUME TypeOK, NEW t \in Threads, Skipped(t)
  PROVE  /\ OthersSame(t) /\ req' = req
         /\ pc'[t] \in {"insertDir", "findObj", "write", "collect", "mark", "unmark", "pick"}
  <1>0. pc \in [Threads -> Labels] /\ work \in [Threads -> Work] /\ req' = req
    BY SkippedTypes DEF TypeOK, HandlersOK
  <1>1. AfterCollect(req[t].op) \in {"mark", "unmark", "pick"}
    BY DEF AfterCollect
  <1>2. OthersSame(t)
    BY <1>0, SkippedTo DEF OthersSame
  <1> QED BY <1>0, <1>1, <1>2, SkippedTo

\* Where a step can lead: for each label that matters, the steps that reach it.
LEMMA Landing ==
  ASSUME TypeOK, NEW t \in Threads, Step(t), OthersSame(t), pc'[t] # "idle"
  PROVE  /\ pc'[t] = "fetchObj" => InsertObject(t)
         /\ pc'[t] = "insertRow" => FetchObject(t) \/ AddRef(t)
         /\ pc'[t] = "addRef" => FindObject(t) \/ CheckExists(t) \/ RewriteObject(t)
         /\ pc'[t] = "write" => FindObject(t)
         /\ pc'[t] = "rewrite" => CheckExists(t)
         /\ pc'[t] = "refill" => OpenObject(t)
         /\ pc'[t] = "exists" => FindObject(t)
         /\ pc'[t] \in {"fetchDir", "addUsed", "fetchId"}
              => InsertDir(t) \/ InsertRow(t) \/ AddUsed(t)
         /\ pc'[t] = "dropShares" => PickVictim(t)
         /\ pc'[t] = "dropRow" => DropShares(t)
         /\ pc'[t] = "subUsed" => DropRow(t)
         /\ pc'[t] = "unref" => SubUsed(t)
         /\ pc'[t] = "readRef" => Unref(t)
         /\ pc'[t] = "unlink" => ReadRef(t)
         /\ pc'[t] = "dropObject" => Unlink(t)
  <1>0. pc \in [Threads -> Labels]
    BY DEF TypeOK, HandlersOK
  <1>1. ASSUME Abandon(t) \/ Die PROVE pc'[t] = "idle"
    BY <1>0, <1>1 DEF Abandon, Die
  <1>2. \A label : Goto(t, label) => pc'[t] = label
    BY <1>0 DEF Goto
  <1>3. /\ CheckParent(t) => pc'[t] = "name"
        /\ CheckName(t) => pc'[t] \in {"insertDir", "findObj"}
        /\ InsertDir(t) => pc'[t] = "fetchDir"
    BY <1>1, <1>2 DEF CheckParent, CheckName, InsertDir, Reply
  <1>4. /\ ~FetchDir(t) /\ ~FetchId(t) /\ ~InsertShare(t)
        /\ FindObject(t) => pc'[t] \in {"exists", "addRef", "write"}
        /\ OpenObject(t) => pc'[t] \in {"fill", "refill"}
        /\ WriteObject(t) => pc'[t] = "insertObj"
        /\ FetchObject(t) => pc'[t] = "insertRow"
    BY <1>0, <1>1, <1>2 DEF FetchDir, FetchId, InsertShare, FindObject, OpenObject, WriteObject, FetchObject,
                       Reply, Undefined
  <1>5. /\ InsertObject(t) => pc'[t] = "fetchObj"
        /\ CheckExists(t) => pc'[t] \in {"rewrite", "addRef"}
        /\ RewriteObject(t) => pc'[t] = "addRef"
        /\ AddRef(t) => pc'[t] = "insertRow"
        /\ InsertRow(t) => pc'[t] = "addUsed"
        /\ AddUsed(t) => pc'[t] = "fetchId"
    BY <1>0, <1>1, <1>2 DEF InsertObject, CheckExists, RewriteObject, AddRef, InsertRow, AddUsed, Reply
  <1>6. FindRoot(t) => pc'[t] \in {"insertShare", "restoreName", "collect"}
    BY <1>1, <1>2 DEF FindRoot, AfterRoot, Reply
  <1>7. /\ CheckRestoreName(t) => pc'[t] = "collect"
        /\ CollectKids(t) => pc'[t] \in {"mark", "unmark", "pick", "collect"}
    BY <1>1, <1>2 DEF CheckRestoreName, CollectKids, AfterCollect, Reply
  <1>8. /\ SoftDeleteNext(t) => pc'[t] = "mark"
        /\ RestoreNext(t) => pc'[t] = "unmark"
    BY <1>0, <1>1 DEF SoftDeleteNext, RestoreNext, SetDeleted, Reply, At
  <1>9. NextVictim(t) => pc'[t] = "pick"
    BY <1>1, <1>2 DEF NextVictim, Reply
  <1>10. /\ PickVictim(t) => pc'[t] \in {"dropShares", "pick"}
         /\ DropShares(t) => pc'[t] = "dropRow"
         /\ DropRow(t) => pc'[t] \in {"pick", "subUsed"}
         /\ SubUsed(t) => pc'[t] = "unref"
    BY <1>1, <1>2, <1>9 DEF PickVictim, DropShares, DropRow, SubUsed, Reply
  <1>11. /\ Unref(t) => pc'[t] = "readRef"
         /\ ReadRef(t) => pc'[t] \in {"unlink", "pick"}
         /\ Unlink(t) => pc'[t] = "dropObject"
         /\ DropObject(t) => pc'[t] = "pick"
    BY <1>0, <1>1, <1>2, <1>9 DEF Unref, ReadRef, Unlink, DropObject, Reply
  <1> QED BY <1>3, <1>4, <1>5, <1>6, <1>7, <1>8, <1>10, <1>11 DEF Step

\* The few steps that touch file_objects, and those that touch files.
LEMMA Touched ==
  ASSUME NEW t \in Threads, Step(t)
  PROVE  /\ \/ InsertObject(t) \/ AddRef(t) \/ Unref(t) \/ DropObject(t)
            \/ UNCHANGED <<objects, nextObject>>
         /\ \/ InsertDir(t) \/ InsertRow(t) \/ SoftDeleteNext(t) \/ RestoreNext(t) \/ DropRow(t)
            \/ UNCHANGED files
  BY DEF Step, CheckParent, CheckName, InsertDir, FetchDir, FindObject, OpenObject, WriteObject,
         InsertObject, FetchObject, CheckExists, RewriteObject, AddRef, InsertRow, AddUsed, FetchId, FindRoot,
         InsertShare, CheckRestoreName, CollectKids, SoftDeleteNext, RestoreNext, SetDeleted,
         PickVictim, DropShares, DropRow, SubUsed, Unref, ReadRef, Unlink, DropObject, Undefined,
         tables

\* What the locals hold where a step leads.
LEMMA Carried ==
  ASSUME TypeOK, NEW t \in Threads
  PROVE  /\ FindObject(t) /\ pc'[t] \in {"exists", "addRef"} => work'[t].obj \in ObjectsWith(req[t].sha)
         /\ FetchObject(t) /\ pc'[t] = "insertRow" => work'[t].obj \in ObjectsWith(req[t].sha)
         /\ InsertObject(t) /\ pc'[t] = "fetchObj"
              => work'[t].made = nextObject /\ ObjectsWith(req[t].sha) = {}
         /\ CheckExists(t) \/ OpenObject(t) \/ RewriteObject(t) \/ AddRef(t) => work' = work
         /\ PickVictim(t) /\ pc'[t] = "dropShares"
              => /\ DeletedRow(req[t].user, Victim(t))
                 /\ work'[t].row = files[Victim(t)] /\ work'[t].ids = work[t].ids
         /\ DropShares(t) \/ SubUsed(t) \/ Unref(t) \/ Unlink(t) => work' = work
         /\ DropRow(t) /\ pc'[t] = "subUsed"
              => work' = work /\ ~work[t].row.dir /\ Victim(t) \notin shares
         /\ ReadRef(t) /\ pc'[t] = "unlink"
              => /\ work'[t].row = work[t].row
                 /\ work[t].row.obj \in DOMAIN objects /\ objects[work[t].row.obj].ref = 0
  <1>0. /\ pc \in [Threads -> Labels] /\ work \in [Threads -> Work]
    BY DEF TypeOK, HandlersOK
  <1>1. ASSUME Reply(t) \/ Undefined(t) PROVE pc'[t] = "idle"
    BY <1>0, <1>1 DEF Reply, Undefined, Abandon, Die
  <1>2. ASSUME NextVictim(t) PROVE pc'[t] \in {"idle", "pick"}
    BY <1>0, <1>1, <1>2 DEF NextVictim, Goto
  <1>w. \A f : work' = [work EXCEPT ![t] = f] => work'[t] = f
    BY <1>0
  <1>e. \A o : /\ [work[t] EXCEPT !.obj = o].obj = o
               /\ [work[t] EXCEPT !.made = o].made = o
               /\ [work[t] EXCEPT !.row = o].row = o
               /\ [work[t] EXCEPT !.row = o].ids = work[t].ids
               /\ [work[t] EXCEPT !.path = o].row = work[t].row
    BY <1>0 DEF Work
  <1>3. FindObject(t) /\ pc'[t] \in {"exists", "addRef"} => work'[t].obj \in ObjectsWith(req[t].sha)
    <2>1. Goto(t, "write") => pc'[t] = "write"
      BY <1>0 DEF Goto
    <2>2. SUFFICES ASSUME FindObject(t), pc'[t] \in {"exists", "addRef"}
                   PROVE  work'[t].obj \in ObjectsWith(req[t].sha)
      OBVIOUS
    <2>3. PICK o \in ObjectsWith(req[t].sha) : work' = [work EXCEPT ![t].obj = o]
      BY <1>1, <2>1, <2>2 DEF FindObject
    <2>4. work'[t] = [work[t] EXCEPT !.obj = o]
      BY <1>0, <2>3
    <2> QED BY <1>e, <2>4
  <1>4. FetchObject(t) /\ pc'[t] = "insertRow" => work'[t].obj \in ObjectsWith(req[t].sha)
    <2>1. SUFFICES ASSUME FetchObject(t), pc'[t] = "insertRow"
                   PROVE  work'[t].obj \in ObjectsWith(req[t].sha)
      OBVIOUS
    <2>2. PICK o \in ObjectsWith(req[t].sha) : work' = [work EXCEPT ![t].obj = o]
      BY <1>1, <2>1 DEF FetchObject
    <2>3. work'[t] = [work[t] EXCEPT !.obj = o]
      BY <1>0, <2>2
    <2> QED BY <1>e, <2>3
  <1>5. InsertObject(t) /\ pc'[t] = "fetchObj"
          => work'[t].made = nextObject /\ ObjectsWith(req[t].sha) = {}
    BY <1>1, <1>w, <1>e DEF InsertObject
  <1>6. CheckExists(t) \/ OpenObject(t) \/ RewriteObject(t) \/ AddRef(t) => work' = work
    BY DEF CheckExists, OpenObject, RewriteObject, AddRef
  <1>7. PickVictim(t) /\ pc'[t] = "dropShares"
          => /\ DeletedRow(req[t].user, Victim(t))
             /\ work'[t].row = files[Victim(t)] /\ work'[t].ids = work[t].ids
    <2>1. SUFFICES ASSUME PickVictim(t), pc'[t] = "dropShares"
                   PROVE  /\ DeletedRow(req[t].user, Victim(t))
                          /\ work'[t].row = files[Victim(t)] /\ work'[t].ids = work[t].ids
      OBVIOUS
    <2>2. DeletedRow(req[t].user, Victim(t)) /\ work' = [work EXCEPT ![t].row = files[Victim(t)]]
      BY <1>2, <2>1 DEF PickVictim
    <2>3. work'[t] = [work[t] EXCEPT !.row = files[Victim(t)]]
      BY <1>0, <2>2
    <2>4. work'[t].row = files[Victim(t)]
      BY <1>e, <2>3
    <2>5. work'[t].ids = work[t].ids
      BY <1>e, <2>3
    <2>6. DeletedRow(req[t].user, Victim(t))
      BY <2>2
    <2> QED BY <2>4, <2>5, <2>6
  <1>8. DropShares(t) \/ SubUsed(t) \/ Unref(t) \/ Unlink(t) => work' = work
    BY DEF DropShares, SubUsed, Unref, Unlink
  <1>9. DropRow(t) /\ pc'[t] = "subUsed"
          => work' = work /\ ~work[t].row.dir /\ Victim(t) \notin shares
    BY <1>1, <1>2 DEF DropRow
  <1>10. ReadRef(t) /\ pc'[t] = "unlink"
           => /\ work'[t].row = work[t].row
              /\ work[t].row.obj \in DOMAIN objects /\ objects[work[t].row.obj].ref = 0
    <2>1. SUFFICES ASSUME ReadRef(t), pc'[t] = "unlink"
                   PROVE  /\ work'[t].row = work[t].row
                          /\ work[t].row.obj \in DOMAIN objects
                          /\ objects[work[t].row.obj].ref = 0
      OBVIOUS
    <2>2. /\ work[t].row.obj \in DOMAIN objects /\ objects[work[t].row.obj].ref = 0
          /\ work' = [work EXCEPT ![t].path = objects[work[t].row.obj].sha]
      BY <1>2, <2>1 DEF ReadRef
    <2>3. work'[t] = [work[t] EXCEPT !.path = objects[work[t].row.obj].sha]
      BY <1>0, <2>2
    <2> QED BY <1>e, <2>2, <2>3
  <1> QED BY <1>3, <1>4, <1>5, <1>6, <1>7, <1>8, <1>9, <1>10

\* What becomes of the rows of file_objects.
LEMMA ObjectMoves ==
  ASSUME TypeOK, NEW t \in Threads, Step(t)
  PROVE  \/ UNCHANGED <<objects, nextObject>>
         \/ /\ InsertObject(t) /\ ObjectsWith(req[t].sha) = {}
            /\ DOMAIN objects' = DOMAIN objects \cup {nextObject} /\ nextObject' = nextObject + 1
            /\ objects'[nextObject] = [sha |-> req[t].sha, ref |-> 1]
            /\ \A o \in DOMAIN objects : objects'[o] = objects[o]
         \/ /\ AddRef(t) /\ DOMAIN objects' = DOMAIN objects /\ nextObject' = nextObject
            /\ \A o \in DOMAIN objects :
                 /\ objects'[o].sha = objects[o].sha
                 /\ objects'[o].ref = IF o = work[t].obj THEN objects[o].ref + 1 ELSE objects[o].ref
         \/ /\ Unref(t) /\ DOMAIN objects' = DOMAIN objects /\ nextObject' = nextObject
            /\ \A o \in DOMAIN objects :
                 /\ objects'[o].sha = objects[o].sha
                 /\ objects'[o].ref = IF o = work[t].row.obj THEN Less(objects[o].ref, 1)
                                                             ELSE objects[o].ref
         \/ /\ DropObject(t) /\ DOMAIN objects' = DOMAIN objects \ {work[t].row.obj}
            /\ nextObject' = nextObject
            /\ \A o \in DOMAIN objects' : objects'[o] = objects[o]
  <1>0. /\ objects \in [DOMAIN objects -> [sha : Contents, ref : Nat]]
        /\ nextObject \notin DOMAIN objects
    BY DEF TypeOK, TablesOK
  <1>1. CASE InsertObject(t)
    <2>1. CASE ObjectsWith(req[t].sha) # {}
      BY <1>1, <2>1 DEF InsertObject
    <2>2. CASE ObjectsWith(req[t].sha) = {}
      <3>1. /\ objects' = [o \in DOMAIN objects \cup {nextObject} |->
                            IF o = nextObject THEN [sha |-> req[t].sha, ref |-> 1] ELSE objects[o]]
            /\ nextObject' = nextObject + 1
        BY <1>1, <2>2 DEF InsertObject
      <3> QED BY <1>0, <1>1, <2>2, <3>1
    <2> QED BY <2>1, <2>2
  <1>2. CASE AddRef(t)
    BY <1>0, <1>2 DEF AddRef
  <1>3. CASE Unref(t)
    BY <1>0, <1>3 DEF Unref
  <1>4. CASE DropObject(t)
    BY <1>4 DEF DropObject
  <1> QED BY <1>1, <1>2, <1>3, <1>4, Touched

\* Where a handler is that begins, has failed, or has gone on without what it asked for.
Loose == {"idle", "parent", "root", "insertDir", "findObj", "write", "collect", "mark", "unmark", "pick"}

\* Every step of the system: a handler moves on, one begins, fails or is misled, or
\* the process dies.
LEMMA Moves ==
  ASSUME TypeOK, [Next]_vars
  PROVE  \/ \E t \in Threads : Step(t) /\ OthersSame(t)
         \/ \E t \in Threads : /\ OthersSame(t) /\ pc'[t] \in Loose
                               /\ pc'[t] \in {"idle", "parent", "root"} \/ Skipped(t)
                               /\ UNCHANGED tables
                               /\ faults' > 0 \/ (pc[t] = "idle" /\ UNCHANGED faults)
         \/ Die /\ UNCHANGED tables /\ faults' > 0
         \/ UNCHANGED vars
  <1>0. /\ pc \in [Threads -> Labels] /\ req \in [Threads -> Requests \cup {NoRequest}]
        /\ work \in [Threads -> Work] /\ faults \in Nat
    BY DEF TypeOK, HandlersOK
  <1> USE DEF Loose
  <1>1. ASSUME NEW t \in Threads, Begin(t)
        PROVE  /\ OthersSame(t) /\ pc'[t] \in {"idle", "parent", "root"}
               /\ UNCHANGED tables /\ pc[t] = "idle" /\ UNCHANGED faults
    BY <1>0, <1>1 DEF Begin, OthersSame, FirstLabel, At
  <1>2. ASSUME NEW t \in Threads, Fail(t)
        PROVE  OthersSame(t) /\ pc'[t] = "idle" /\ UNCHANGED tables /\ faults' > 0
    BY <1>0, <1>2 DEF Fail, Abandon, OthersSame
  <1>3. ASSUME Crash PROVE Die /\ UNCHANGED tables /\ faults' > 0
    BY <1>0, <1>3 DEF Crash
  <1>4. ASSUME NEW t \in Threads, Skipped(t)
        PROVE  OthersSame(t) /\ pc'[t] \in Loose /\ UNCHANGED tables /\ faults' > 0
    BY <1>0, <1>4, SkippedMoves DEF Skipped
  <1> QED BY <1>1, <1>2, <1>3, <1>4, OneThreadMoves, Cases

LEMMA DieIdle ==
  ASSUME Die
  PROVE  \A t \in Threads : pc'[t] = "idle"
  BY DEF Die

\* sha256 stays unique: InsertObject looks before it inserts (the UNIQUE key).
LEMMA ShaUniqueStep ==
  ASSUME TypeOK, ShaUnique, [Next]_vars
  PROVE  ShaUnique'
  <1>1. ASSUME UNCHANGED objects PROVE ShaUnique'
    BY <1>1 DEF ShaUnique
  <1>2. ASSUME NEW t \in Threads, Step(t) PROVE ShaUnique'
    <2>1. nextObject \notin DOMAIN objects
      BY DEF TypeOK, TablesOK
    <2>2. ASSUME DOMAIN objects' \subseteq DOMAIN objects,
                 \A o \in DOMAIN objects' : objects'[o].sha = objects[o].sha
          PROVE  ShaUnique'
      BY <2>2 DEF ShaUnique
    <2>3. ASSUME ObjectsWith(req[t].sha) = {}, DOMAIN objects' = DOMAIN objects \cup {nextObject},
                 objects'[nextObject] = [sha |-> req[t].sha, ref |-> 1],
                 \A o \in DOMAIN objects : objects'[o] = objects[o]
          PROVE  ShaUnique'
      BY <2>1, <2>3 DEF ShaUnique, ObjectsWith
    <2>4. CASE InsertObject(t)
      BY <1>1, <1>2, <2>3, <2>4, ObjectMoves DEF InsertObject, AddRef, Unref, DropObject, At
    <2>5. CASE ~InsertObject(t)
      BY <1>1, <1>2, <2>2, <2>5, ObjectMoves
    <2> QED BY <2>4, <2>5
  <1> QED BY <1>1, <1>2, Moves DEF tables, vars

\* The ids a handler holds were given out.
LEMMA IdsKnownStep ==
  ASSUME TypeOK, IdsKnown, [Next]_vars
  PROVE  IdsKnown'
  <1>0. TypeOK' /\ nextObject \in Nat /\ nextObject' \in Nat
    BY NextTypes DEF TypeOK, TablesOK
  <1>1. ASSUME UNCHANGED <<pc, work>>, nextObject' = nextObject PROVE IdsKnown'
    BY <1>1 DEF IdsKnown
  <1>2. ASSUME NEW t \in Threads, Step(t), OthersSame(t) PROVE IdsKnown'
    <2>1. nextObject <= nextObject'
      <3>1. nextObject' = nextObject \/ nextObject' = nextObject + 1
        BY <1>2, ObjectMoves
      <3> QED BY <1>0, <3>1
    <2>2. /\ \A o \in DOMAIN objects : o \in Nat /\ o < nextObject
          /\ \A i \in DOMAIN files : files[i].obj \in Nat /\ files[i].obj < nextObject
      BY DEF TypeOK, TablesOK
    <2>3. pc'[t] \in {"exists", "rewrite", "refill", "addRef", "insertRow"} => work'[t].obj < nextObject
      <3>1. ASSUME FindObject(t) \/ FetchObject(t), pc'[t] \in {"exists", "addRef", "insertRow"}
            PROVE  work'[t].obj < nextObject
        <4>1. FindObject(t) => pc'[t] # "insertRow"
          BY <1>2, <3>1, Landing DEF FindObject, FetchObject, AddRef, At
        <4>2. FetchObject(t) => pc'[t] = "insertRow"
          BY <1>2, <3>1, Landing DEF FindObject, FetchObject, CheckExists, RewriteObject, At
        <4> QED BY <2>2, <3>1, <4>1, <4>2, Carried DEF ObjectsWith
      <3>2. ASSUME \/ CheckExists(t) \/ RewriteObject(t) \/ AddRef(t)
                   \/ OpenObject(t) /\ pc'[t] = "refill"
            PROVE  work'[t].obj < nextObject
        <4>1. OpenObject(t) /\ pc'[t] = "refill" => pc[t] = "rewrite"
          BY <1>0 DEF OpenObject, Goto, At, TypeOK, HandlersOK
        <4> QED BY <3>2, <4>1, Carried DEF IdsKnown, CheckExists, RewriteObject, AddRef, At
      <3> QED BY <1>2, <3>1, <3>2, Landing
    <2>4. pc'[t] \in PurgeLabels \ {"pick"} => work'[t].row.obj < nextObject
      <3>1. ASSUME PickVictim(t), pc'[t] = "dropShares"
            PROVE  work'[t].row.obj < nextObject
        BY <2>2, <3>1, Carried DEF DeletedRow
      <3>2. ASSUME \/ DropShares(t) \/ SubUsed(t) \/ Unref(t) \/ Unlink(t)
                   \/ DropRow(t) /\ pc'[t] = "subUsed"
                   \/ ReadRef(t) /\ pc'[t] = "unlink"
            PROVE  work'[t].row.obj < nextObject
        <4>1. pc[t] \in PurgeLabels \ {"pick"}
          BY <3>2 DEF DropShares, SubUsed, Unref, Unlink, DropRow, ReadRef, At, PurgeLabels
        <4> QED BY <3>2, <4>1, Carried DEF IdsKnown
      <3> QED BY <1>2, <3>1, <3>2, Landing DEF PurgeLabels
    <2>5. \A s \in Threads : /\ work'[s].obj \in Nat
                             /\ pc'[s] \in PurgeLabels => work'[s].row.obj \in Nat
      BY <1>0 DEF TypeOK, HandlersOK, Work, Fits, Row
    <2> QED BY <1>0, <1>2, <2>1, <2>3, <2>4, <2>5 DEF IdsKnown, OthersSame
  <1>3. ASSUME NEW t \in Threads, OthersSame(t), pc'[t] \in Loose,
               UNCHANGED tables
        PROVE  IdsKnown'
    BY <1>3 DEF Loose, IdsKnown, OthersSame, PurgeLabels, tables
  <1>4. ASSUME Die, UNCHANGED tables PROVE IdsKnown'
    BY <1>4, DieIdle DEF IdsKnown, PurgeLabels
  <1> QED BY <1>1, <1>2, <1>3, <1>4, Moves DEF vars, tables, handler

\* What becomes of the rows of files.
LEMMA FileMoves ==
  ASSUME TypeOK, NEW t \in Threads, Step(t)
  PROVE  \/ UNCHANGED files
         \/ /\ InsertDir(t) \/ (InsertRow(t) /\ work[t].obj \in DOMAIN objects)
            /\ nextFile \notin DOMAIN files /\ DOMAIN files' = DOMAIN files \cup {nextFile}
            /\ files'[nextFile].obj = IF InsertDir(t) THEN 0 ELSE work[t].obj
            /\ \A i \in DOMAIN files : files'[i] = files[i]
         \/ /\ SoftDeleteNext(t) \/ RestoreNext(t)
            /\ DOMAIN files' = DOMAIN files
            /\ \A i \in DOMAIN files : files'[i].obj = files[i].obj /\ files'[i].dir = files[i].dir
         \/ /\ DropRow(t) /\ Victim(t) \notin shares
            /\ DOMAIN files' = DOMAIN files \ {Victim(t)}
            /\ \A i \in DOMAIN files' : files'[i] = files[i]
  <1>0. nextFile \notin DOMAIN files /\ files \in [DOMAIN files -> Row]
    BY DEF TypeOK, TablesOK
  <1>1. CASE InsertDir(t)
    BY <1>0, <1>1 DEF InsertDir, AddRow
  <1>2. CASE InsertRow(t)
    <2>1. ~InsertDir(t)
      BY <1>2 DEF InsertRow, InsertDir, At
    <2> QED BY <1>0, <1>2, <2>1 DEF InsertRow, AddRow
  <1>3. ASSUME NEW flag \in BOOLEAN, SetDeleted(t, flag)
        PROVE  /\ DOMAIN files' = DOMAIN files
               /\ \A i \in DOMAIN files : files'[i].obj = files[i].obj /\ files'[i].dir = files[i].dir
    BY <1>0, <1>3 DEF SetDeleted, Row
  <1>4. CASE SoftDeleteNext(t) \/ RestoreNext(t)
    BY <1>3, <1>4 DEF SoftDeleteNext, RestoreNext
  <1>5. CASE DropRow(t)
    BY <1>5 DEF DropRow
  <1> QED BY <1>1, <1>2, <1>4, <1>5, Touched

\* The row a handler is about to delete is still there: only it may delete it.
LEMMA VictimReadStep ==
  ASSUME TypeOK, NoDoublePurge, VictimRead, [Next]_vars
  PROVE  VictimRead'
  <1>1. ASSUME NEW t \in Threads, Step(t), OthersSame(t) PROVE VictimRead'
    <2>1. ASSUME NEW s \in Threads, pc'[s] \in {"dropShares", "dropRow"},
                 Victim(s)' \in DOMAIN files,
                 work'[s].row.obj = files[Victim(s)'].obj, work'[s].row.dir = files[Victim(s)'].dir,
                 DropRow(t) => Victim(s)' # Victim(t)
          PROVE  /\ Victim(s)' \in DOMAIN files'
                 /\ work'[s].row.obj = files'[Victim(s)'].obj
                 /\ work'[s].row.dir = files'[Victim(s)'].dir
      BY <1>1, <2>1, FileMoves
    <2>2. ASSUME NEW s \in Threads \ {t}, pc'[s] \in {"dropShares", "dropRow"}
          PROVE  /\ Victim(s)' \in DOMAIN files'
                 /\ work'[s].row.obj = files'[Victim(s)'].obj
                 /\ work'[s].row.dir = files'[Victim(s)'].dir
      <3>1. pc[s] = pc'[s] /\ work'[s] = work[s] /\ Victim(s)' = Victim(s)
        BY <1>1, <2>2 DEF OthersSame, Victim
      <3>2. DropRow(t) => Victim(s) # Victim(t)
        BY <2>2, <3>1 DEF NoDoublePurge, DropRow, At
      <3> QED BY <2>1, <2>2, <3>1, <3>2 DEF VictimRead
    <2>3. ASSUME pc'[t] \in {"dropShares", "dropRow"}
          PROVE  /\ Victim(t)' \in DOMAIN files'
                 /\ work'[t].row.obj = files'[Victim(t)'].obj
                 /\ work'[t].row.dir = files'[Victim(t)'].dir
      <3>1. PickVictim(t) \/ DropShares(t)
        BY <1>1, <2>3, Landing
      <3>2. ~DropRow(t)
        BY <3>1 DEF PickVictim, DropShares, DropRow, At
      <3>3. CASE PickVictim(t)
        <4>1. pc'[t] = "dropShares"
          BY <1>1, <2>3, <3>3, Landing DEF PickVictim, DropShares, At
        <4>2. Victim(t)' = Victim(t) /\ DeletedRow(req[t].user, Victim(t))
              /\ work'[t].row = files[Victim(t)]
          BY <3>3, <4>1, Carried DEF Victim
        <4> QED BY <2>1, <2>3, <3>2, <4>2 DEF DeletedRow
      <3>4. CASE DropShares(t)
        <4>1. work' = work /\ pc[t] = "dropShares"
          BY <3>4, Carried DEF DropShares, At
        <4>2. Victim(t)' = Victim(t)
          BY <4>1 DEF Victim
        <4> QED BY <2>1, <2>3, <3>2, <4>1, <4>2 DEF VictimRead
      <3> QED BY <3>1, <3>3, <3>4
    <2> QED BY <2>2, <2>3 DEF VictimRead
  <1>2. ASSUME NEW t \in Threads, OthersSame(t), pc'[t] \in Loose,
               UNCHANGED tables
        PROVE  VictimRead'
    BY <1>2 DEF Loose, VictimRead, OthersSame, Victim, tables
  <1>3. ASSUME Die PROVE VictimRead'
    BY <1>3, DieIdle DEF VictimRead
  <1>4. ASSUME UNCHANGED vars PROVE VictimRead'
    BY <1>4 DEF VictimRead, Victim, vars, tables, handler
  <1> QED BY <1>1, <1>2, <1>3, <1>4, Moves

\* An object that was just inserted has a count of one, held by its handler: no
\* releaseObject is about to remove it.
LEMMA FreshObjectSafeStep ==
  ASSUME TypeOK, IdsKnown, FreshObjectSafe, [Next]_vars,
         \A o \in DOMAIN objects : objects[o].ref = 0 => ClaimsOf(o) = {}
  PROVE  FreshObjectSafe'
  <1>1. ASSUME NEW t \in Threads, Step(t), OthersSame(t) PROVE FreshObjectSafe'
    <2>1. ASSUME NEW s \in Threads, pc'[s] = "fetchObj"
          PROVE  /\ work'[s].made \in (ObjectsWith(req[s].sha))'
                 /\ \A p \in Threads : pc'[p] \in {"unlink", "dropObject"}
                                         => work'[p].row.obj # work'[s].made
      <3>1. CASE s = t
        <4>1. InsertObject(t) /\ work'[t].made = nextObject /\ ObjectsWith(req[t].sha) = {}
          BY <1>1, <2>1, <3>1, Landing, Carried
        <4>2. req' = req
          BY <1>1, <2>1, <3>1, <4>1 DEF InsertObject, Goto, Reply, Abandon, TypeOK, HandlersOK
        <4>3. nextObject \in DOMAIN objects' /\ objects'[nextObject].sha = req[t].sha
          <5>1. objects' = [o \in DOMAIN objects \cup {nextObject} |->
                              IF o = nextObject THEN [sha |-> req[t].sha, ref |-> 1] ELSE objects[o]]
            BY <4>1 DEF InsertObject
          <5> QED BY <5>1
        <4>4. ASSUME NEW p \in Threads, pc'[p] \in {"unlink", "dropObject"}
              PROVE  work'[p].row.obj # nextObject
          <5>1. p # t /\ pc[p] = pc'[p] /\ work'[p] = work[p]
            BY <1>1, <2>1, <3>1, <4>4 DEF OthersSame
          <5>2. work[p].row.obj < nextObject
            BY <4>4, <5>1 DEF IdsKnown, PurgeLabels
          <5> QED BY <5>1, <5>2 DEF TypeOK, TablesOK
        <4> QED BY <3>1, <4>1, <4>2, <4>3, <4>4 DEF ObjectsWith
      <3>2. CASE s # t
        <4>1. pc[s] = "fetchObj" /\ work'[s] = work[s] /\ req'[s] = req[s]
          BY <1>1, <2>1, <3>2 DEF OthersSame
        <4>2. /\ work[s].made \in ObjectsWith(req[s].sha)
              /\ \A p \in Threads : pc[p] \in {"unlink", "dropObject"} => work[p].row.obj # work[s].made
          BY <4>1 DEF FreshObjectSafe
        <4>3. work[s].made \in DOMAIN objects /\ objects[work[s].made].sha = req[s].sha
          BY <4>2 DEF ObjectsWith
        <4>4. DropObject(t) => work[t].row.obj # work[s].made
          BY <4>2 DEF DropObject, At
        <4>5. work[s].made \in DOMAIN objects' /\ objects'[work[s].made].sha = req[s].sha
          <5>1. CASE DropObject(t)
            BY <1>1, <4>3, <4>4, <5>1, ObjectMoves DEF DropObject, InsertObject, AddRef, Unref, At
          <5>2. CASE ~DropObject(t)
            BY <1>1, <4>3, <5>2, ObjectMoves
          <5> QED BY <5>1, <5>2
        <4>6. ASSUME NEW p \in Threads, pc'[p] \in {"unlink", "dropObject"}
              PROVE  work'[p].row.obj # work[s].made
          <5>1. CASE p # t
            BY <1>1, <4>2, <4>6, <5>1 DEF OthersSame
          <5>2. CASE p = t /\ pc'[t] = "unlink"
            <6>1. /\ work'[t].row = work[t].row
                  /\ work[t].row.obj \in DOMAIN objects /\ objects[work[t].row.obj].ref = 0
              BY <1>1, <5>2, Landing, Carried
            <6>2. ClaimOf(s) = work[s].made
              BY <4>1 DEF ClaimOf
            <6>3. ClaimsOf(work[t].row.obj) = {}
              BY <6>1
            <6> QED BY <5>2, <6>1, <6>2, <6>3 DEF ClaimsOf
          <5>3. CASE p = t /\ pc'[t] = "dropObject"
            <6>1. Unlink(t) /\ work' = work
              BY <1>1, <5>3, Landing, Carried
            <6> QED BY <4>2, <5>3, <6>1 DEF Unlink, At
          <5> QED BY <4>6, <5>1, <5>2, <5>3
        <4> QED BY <4>1, <4>5, <4>6 DEF ObjectsWith
      <3> QED BY <3>1, <3>2
    <2> QED BY <2>1 DEF FreshObjectSafe
  <1>2. ASSUME NEW t \in Threads, OthersSame(t), pc'[t] \in Loose,
               UNCHANGED tables
        PROVE  FreshObjectSafe'
    BY <1>2 DEF Loose, FreshObjectSafe, OthersSame, ObjectsWith, tables
  <1>3. ASSUME Die PROVE FreshObjectSafe'
    BY <1>3, DieIdle DEF FreshObjectSafe
  <1>4. ASSUME UNCHANGED vars PROVE FreshObjectSafe'
    BY <1>4 DEF FreshObjectSafe, ObjectsWith, vars, tables, handler
  <1> QED BY <1>1, <1>2, <1>3, <1>4, Moves

\* Counting.  One(b) is the contribution of a row or of a handler.
One(b) == IF b THEN 1 ELSE 0

LEMMA Counts ==
  ASSUME TypeOK, NEW o
  PROVE  /\ IsFiniteSet(RowsOf(o)) /\ Cardinality(RowsOf(o)) \in Nat
         /\ IsFiniteSet(ClaimsOf(o)) /\ Cardinality(ClaimsOf(o)) \in Nat
  <1>1. IsFiniteSet(1 .. (nextFile - 1))
    <2>1. 1 \in Int /\ nextFile - 1 \in Int
      BY DEF TypeOK, TablesOK
    <2> QED BY <2>1, FS_Interval
  <1>2. RowsOf(o) \in SUBSET (1 .. (nextFile - 1))
    BY DEF RowsOf, TypeOK, TablesOK
  <1>3. ClaimsOf(o) \in SUBSET Threads
    BY DEF ClaimsOf
  <1>4. IsFiniteSet(RowsOf(o)) /\ IsFiniteSet(ClaimsOf(o))
    BY <1>1, <1>2, <1>3, ThreadsAssumption, FS_Subset
  <1> QED BY <1>4, FS_CardinalityType

\* A step of t changes the claims by its own claim.
LEMMA ClaimCount ==
  ASSUME TypeOK, NEW t \in Threads, OthersSame(t), NEW o
  PROVE  Cardinality(ClaimsOf(o)')
           = Cardinality(ClaimsOf(o)) + One(ClaimOf(t)' = o) - One(ClaimOf(t) = o)
  <1>1. \A s \in Threads \ {t} : ClaimOf(s)' = ClaimOf(s)
    BY DEF OthersSame, ClaimOf
  <1>2. IsFiniteSet(ClaimsOf(o)) /\ Cardinality(ClaimsOf(o)) \in Nat
    BY Counts
  <1>3. t \in ClaimsOf(o) <=> ClaimOf(t) = o
    BY DEF ClaimsOf
  <1>4. CASE ClaimOf(t)' = o
    <2>1. ClaimsOf(o)' = ClaimsOf(o) \cup {t}
      BY <1>1, <1>4 DEF ClaimsOf
    <2>2. Cardinality(ClaimsOf(o) \cup {t})
            = IF t \in ClaimsOf(o) THEN Cardinality(ClaimsOf(o)) ELSE Cardinality(ClaimsOf(o)) + 1
      BY <1>2, FS_AddElement
    <2> QED BY <1>2, <1>3, <1>4, <2>1, <2>2 DEF One
  <1>5. CASE ClaimOf(t)' # o
    <2>1. ClaimsOf(o)' = ClaimsOf(o) \ {t}
      BY <1>1, <1>5 DEF ClaimsOf
    <2>2. Cardinality(ClaimsOf(o) \ {t})
            = IF t \in ClaimsOf(o) THEN Cardinality(ClaimsOf(o)) - 1 ELSE Cardinality(ClaimsOf(o))
      BY <1>2, FS_RemoveElement
    <2> QED BY <1>2, <1>3, <1>5, <2>1, <2>2 DEF One
  <1> QED BY <1>4, <1>5

\* A step changes the rows of an object only by inserting or deleting one.
LEMMA RowCount ==
  ASSUME TypeOK, VictimRead, NEW t \in Threads, Step(t), NEW o, o # 0
  PROVE  /\ InsertRow(t) => Cardinality(RowsOf(o)')
              = Cardinality(RowsOf(o)) + One(work[t].obj \in DOMAIN objects /\ work[t].obj = o)
         /\ DropRow(t) => Cardinality(RowsOf(o)')
              = Cardinality(RowsOf(o)) - One(Victim(t) \notin shares /\ work[t].row.obj = o)
         /\ ~InsertRow(t) /\ ~DropRow(t) => RowsOf(o)' = RowsOf(o)
  <1>1. IsFiniteSet(RowsOf(o)) /\ Cardinality(RowsOf(o)) \in Nat
    BY Counts
  <1>2. UNCHANGED files => RowsOf(o)' = RowsOf(o)
    BY DEF RowsOf
  <1>3. ASSUME InsertRow(t)
        PROVE  Cardinality(RowsOf(o)')
                 = Cardinality(RowsOf(o)) + One(work[t].obj \in DOMAIN objects /\ work[t].obj = o)
    <2>0. ~InsertDir(t) /\ ~SoftDeleteNext(t) /\ ~RestoreNext(t) /\ ~DropRow(t)
      BY <1>3 DEF InsertRow, InsertDir, SoftDeleteNext, RestoreNext, DropRow, At
    <2>1. CASE work[t].obj \notin DOMAIN objects
      BY <1>1, <1>2, <1>3, <2>1 DEF InsertRow, One
    <2>2. CASE work[t].obj \in DOMAIN objects
      <3>1. nextFile \notin DOMAIN files
        BY DEF TypeOK, TablesOK
      <3>2. files' = [i \in DOMAIN files \cup {nextFile} |->
                        IF i = nextFile
                        THEN [user |-> req[t].user, parent |-> req[t].parent,
                              obj |-> work[t].obj, name |-> req[t].name,
                              size |-> ReqSize(req[t]), dir |-> FALSE, deleted |-> FALSE]
                        ELSE files[i]]
        BY <1>3, <2>2 DEF InsertRow, AddRow
      <3>3. RowsOf(o)' = IF work[t].obj = o THEN RowsOf(o) \cup {nextFile} ELSE RowsOf(o)
        <4>1. /\ DOMAIN files' = DOMAIN files \cup {nextFile}
              /\ files'[nextFile].obj = work[t].obj
              /\ \A i \in DOMAIN files : files'[i].obj = files[i].obj
          BY <3>1, <3>2
        <4> QED BY <3>1, <4>1 DEF RowsOf
      <3>4. nextFile \notin RowsOf(o)
        BY <3>1 DEF RowsOf
      <3>5. Cardinality(RowsOf(o) \cup {nextFile}) = Cardinality(RowsOf(o)) + 1
        BY <1>1, <3>4, FS_AddElement
      <3> QED BY <1>1, <2>2, <3>3, <3>5 DEF One
    <2> QED BY <2>1, <2>2
  <1>4. ASSUME DropRow(t)
        PROVE  Cardinality(RowsOf(o)')
                 = Cardinality(RowsOf(o)) - One(Victim(t) \notin shares /\ work[t].row.obj = o)
    <2>0. pc[t] = "dropRow"
      BY <1>4 DEF DropRow, At
    <2>1. CASE Victim(t) \in shares
      BY <1>1, <1>2, <1>4, <2>1 DEF DropRow, One
    <2>2. CASE Victim(t) \notin shares
      <3>1. Victim(t) \in DOMAIN files /\ work[t].row.obj = files[Victim(t)].obj
        BY <2>0 DEF VictimRead
      <3>2. files' = [i \in DOMAIN files \ {Victim(t)} |-> files[i]]
        BY <1>4, <2>2 DEF DropRow
      <3>3. RowsOf(o)' = RowsOf(o) \ {Victim(t)}
        BY <3>2 DEF RowsOf
      <3>4. Victim(t) \in RowsOf(o) <=> work[t].row.obj = o
        BY <3>1 DEF RowsOf
      <3>5. Cardinality(RowsOf(o) \ {Victim(t)})
              = IF Victim(t) \in RowsOf(o) THEN Cardinality(RowsOf(o)) - 1
                                           ELSE Cardinality(RowsOf(o))
        BY <1>1, FS_RemoveElement
      <3> QED BY <1>1, <2>2, <3>3, <3>4, <3>5 DEF One
    <2> QED BY <2>1, <2>2
  <1>5. ASSUME ~InsertRow(t), ~DropRow(t) PROVE RowsOf(o)' = RowsOf(o)
    <2>1. CASE InsertDir(t)
      <3>1. /\ nextFile \notin DOMAIN files /\ DOMAIN files' = DOMAIN files \cup {nextFile}
            /\ files'[nextFile].obj = 0
            /\ \A i \in DOMAIN files : files'[i] = files[i]
        BY <2>1 DEF InsertDir, AddRow, TypeOK, TablesOK
      <3> QED BY <3>1 DEF RowsOf
    <2>2. CASE ~InsertDir(t)
      <3>1. \/ UNCHANGED files
            \/ /\ DOMAIN files' = DOMAIN files
               /\ \A i \in DOMAIN files : files'[i].obj = files[i].obj
        BY <1>5, <2>2, FileMoves
      <3> QED BY <1>2, <3>1 DEF RowsOf
    <2> QED BY <2>1, <2>2
  <1> QED BY <1>3, <1>4, <1>5

\* What each step does to the claim of its handler.
LEMMA ClaimMoves ==
  ASSUME TypeOK, FreshObjectSafe, ShaUnique, NEW t \in Threads, Step(t), OthersSame(t)
  PROVE  /\ InsertObject(t) => /\ ClaimOf(t) = 0
                               /\ ClaimOf(t)' = IF ObjectsWith(req[t].sha) = {} THEN nextObject ELSE 0
         /\ AddRef(t)    => ClaimOf(t) = 0 /\ ClaimOf(t)' = work[t].obj
         /\ InsertRow(t) => ClaimOf(t) = work[t].obj /\ ClaimOf(t)' = 0
         /\ DropRow(t)   => /\ ClaimOf(t) = 0
                            /\ ClaimOf(t)' = IF Victim(t) \in shares \/ work[t].row.dir
                                             THEN 0 ELSE work[t].row.obj
         /\ Unref(t)     => ClaimOf(t) = work[t].row.obj /\ ClaimOf(t)' = 0
         /\ ~InsertObject(t) /\ ~AddRef(t) /\ ~InsertRow(t) /\ ~DropRow(t) /\ ~Unref(t)
              => ClaimOf(t)' = ClaimOf(t)
  <1>0. /\ pc \in [Threads -> Labels] /\ work \in [Threads -> Work]
    BY DEF TypeOK, HandlersOK
  <1>1. pc'[t] \notin {"fetchObj", "insertRow", "subUsed", "unref"} => ClaimOf(t)' = 0
    BY DEF ClaimOf
  <1>2. pc[t] \notin {"fetchObj", "insertRow", "subUsed", "unref"} => ClaimOf(t) = 0
    BY DEF ClaimOf
  <1>3. \A label : Goto(t, label) => pc'[t] = label
    BY <1>0 DEF Goto
  <1>4. Abandon(t) \/ Die => pc'[t] = "idle"
    BY <1>0 DEF Abandon, Die
  <1>5. ASSUME InsertObject(t)
        PROVE  /\ ClaimOf(t) = 0
               /\ ClaimOf(t)' = IF ObjectsWith(req[t].sha) = {} THEN nextObject ELSE 0
    <2>1. CASE ObjectsWith(req[t].sha) = {}
      <3>1. pc[t] = "insertObj" /\ pc'[t] = "fetchObj"
        BY <1>3, <1>5, <2>1 DEF InsertObject, At
      <3> QED BY <1>2, <1>5, <2>1, <3>1, Carried DEF ClaimOf
    <2>2. CASE ObjectsWith(req[t].sha) # {}
      BY <1>1, <1>2, <1>4, <1>5, <2>2 DEF InsertObject, Reply, At
    <2> QED BY <2>1, <2>2
  <1>6. ASSUME AddRef(t) PROVE ClaimOf(t) = 0 /\ ClaimOf(t)' = work[t].obj
    <2>1. pc[t] = "addRef" /\ pc'[t] = "insertRow" /\ work' = work
      BY <1>3, <1>6 DEF AddRef, At
    <2> QED BY <1>2, <2>1 DEF ClaimOf
  <1>7. ASSUME InsertRow(t) PROVE ClaimOf(t) = work[t].obj /\ ClaimOf(t)' = 0
    <2>1. pc[t] = "insertRow" /\ pc'[t] \in {"addUsed", "idle"}
      BY <1>3, <1>4, <1>7 DEF InsertRow, Reply, At
    <2> QED BY <1>1, <2>1 DEF ClaimOf
  <1>8. NextVictim(t) => pc'[t] \in {"idle", "pick"}
    BY <1>3, <1>4 DEF NextVictim, Reply
  <1>9. ASSUME DropRow(t)
        PROVE  /\ ClaimOf(t) = 0
               /\ ClaimOf(t)' = IF Victim(t) \in shares \/ work[t].row.dir
                                THEN 0 ELSE work[t].row.obj
    <2>1. pc[t] = "dropRow"
      BY <1>9 DEF DropRow, At
    <2>2. CASE Victim(t) \in shares \/ work[t].row.dir
      <3>1. pc'[t] \in {"idle", "pick"}
        BY <1>4, <1>8, <1>9, <2>2 DEF DropRow, Reply
      <3> QED BY <1>1, <1>2, <2>1, <2>2, <3>1
    <2>3. CASE ~(Victim(t) \in shares \/ work[t].row.dir)
      <3>1. pc'[t] = "subUsed" /\ work' = work
        BY <1>3, <1>9, <2>3 DEF DropRow
      <3> QED BY <1>2, <2>1, <2>3, <3>1 DEF ClaimOf
    <2> QED BY <2>2, <2>3
  <1>10. ASSUME Unref(t) PROVE ClaimOf(t) = work[t].row.obj /\ ClaimOf(t)' = 0
    <2>1. pc[t] = "unref" /\ pc'[t] = "readRef"
      BY <1>3, <1>10 DEF Unref, At
    <2> QED BY <1>1, <2>1 DEF ClaimOf
  <1>11. ASSUME ~InsertObject(t), ~AddRef(t), ~InsertRow(t), ~DropRow(t), ~Unref(t)
         PROVE  ClaimOf(t)' = ClaimOf(t)
    <2>1. CASE FetchObject(t)
      <3>1. pc[t] = "fetchObj" /\ work[t].made \in ObjectsWith(req[t].sha)
        BY <2>1 DEF FetchObject, FreshObjectSafe, At
      <3>2. pc'[t] = "insertRow"
        BY <1>3, <2>1, <3>1 DEF FetchObject
      <3>3. work'[t].obj = work[t].made
        BY <2>1, <3>1, <3>2, Carried DEF ShaUnique, ObjectsWith
      <3> QED BY <3>1, <3>2, <3>3 DEF ClaimOf
    <2>2. CASE SubUsed(t)
      <3>1. pc[t] = "subUsed" /\ pc'[t] = "unref" /\ work' = work
        BY <1>3, <2>2 DEF SubUsed, At
      <3> QED BY <3>1 DEF ClaimOf
    <2>3. CASE ~FetchObject(t) /\ ~SubUsed(t)
      <3>1. pc[t] \notin {"fetchObj", "insertRow", "subUsed", "unref"}
        BY <1>11, <2>3 DEF Step, CheckParent, CheckName, InsertDir, FetchDir, FindObject, OpenObject, WriteObject,
             CheckExists, RewriteObject, AddUsed, FetchId, FindRoot, InsertShare,
             CheckRestoreName, CollectKids, SoftDeleteNext, RestoreNext, PickVictim, DropShares,
             ReadRef, Unlink, DropObject, At
      <3>2. pc'[t] \notin {"fetchObj", "insertRow", "subUsed", "unref"}
        BY <1>11, <2>3, Landing
      <3> QED BY <1>1, <1>2, <3>1, <3>2
    <2> QED BY <2>1, <2>2, <2>3
  <1> QED BY <1>5, <1>6, <1>7, <1>9, <1>10, <1>11

\* Faults are only counted up.
LEMMA FaultsGrow ==
  ASSUME NEW t \in Threads, Step(t)
  PROVE  faults' = faults \/ faults' = faults + 1
  <1>1. Undefined(t) => faults' = faults + 1
    BY DEF Undefined
  <1>2. Written(t) => faults' = faults \/ faults' = faults + 1
    BY DEF Written
  <1> QED BY <1>1, <1>2
      DEF Step, CheckParent, CheckName, InsertDir, FetchDir, FindObject, OpenObject, WriteObject, InsertObject,
          FetchObject, CheckExists, RewriteObject, AddRef, InsertRow, AddUsed, FetchId, FindRoot,
          InsertShare, CheckRestoreName, CollectKids, SoftDeleteNext, RestoreNext, SetDeleted,
          PickVictim, DropShares, DropRow, SubUsed, Unref, ReadRef, Unlink, DropObject,
          NextVictim, Goto, Reply, bounds

\* Nothing refers to an id that was not given out.
LEMMA NextObjectUnheld ==
  ASSUME TypeOK, IdsKnown, FreshObjectSafe
  PROVE  RowsOf(nextObject) = {} /\ ClaimsOf(nextObject) = {}
  <1>0. /\ nextObject \in Nat \ {0}
        /\ \A o \in DOMAIN objects : o < nextObject
        /\ \A i \in DOMAIN files : files[i].obj = 0 \/ files[i].obj \in DOMAIN objects
    BY DEF TypeOK, TablesOK
  <1>1. RowsOf(nextObject) = {}
    BY <1>0 DEF RowsOf
  <1>2. ASSUME NEW t \in Threads PROVE ClaimOf(t) # nextObject
    <2>1. CASE pc[t] = "fetchObj"
      BY <1>0, <2>1 DEF ClaimOf, FreshObjectSafe, ObjectsWith
    <2>2. CASE pc[t] = "insertRow"
      BY <1>0, <2>2 DEF ClaimOf, IdsKnown
    <2>3. CASE pc[t] \in {"subUsed", "unref"}
      BY <1>0, <2>3 DEF ClaimOf, IdsKnown, PurgeLabels
    <2>4. CASE pc[t] \notin {"fetchObj", "insertRow", "subUsed", "unref"}
      BY <1>0, <2>4 DEF ClaimOf
    <2> QED BY <2>1, <2>2, <2>3, <2>4
  <1> QED BY <1>1, <1>2 DEF ClaimsOf

\* In a step of a handler the count of an object moves with what it covers.
LEMMA CountFollows ==
  ASSUME TypeOK, VictimRead, IdsKnown, FreshObjectSafe, ShaUnique, RefCountCovers,
         NEW t \in Threads, Step(t), OthersSame(t),
         NEW o \in DOMAIN objects, o \in DOMAIN objects'
  PROVE  objects'[o].ref - objects[o].ref = Held(o)' - Held(o)
  <1>0. /\ o # 0 /\ o # nextObject /\ objects[o].ref \in Nat
        /\ objects \in [DOMAIN objects -> [sha : Contents, ref : Nat]]
    BY DEF TypeOK, TablesOK
  <1>1. /\ Cardinality(RowsOf(o)) \in Nat /\ Cardinality(ClaimsOf(o)) \in Nat
        /\ Cardinality(ClaimsOf(o)')
             = Cardinality(ClaimsOf(o)) + One(ClaimOf(t)' = o) - One(ClaimOf(t) = o)
    BY Counts, ClaimCount
  <1>2. CASE InsertObject(t)
    <2>0. ~InsertRow(t) /\ ~DropRow(t)
      BY <1>2 DEF InsertObject, InsertRow, DropRow, At
    <2>1. RowsOf(o)' = RowsOf(o)
      BY <1>0, <2>0, RowCount
    <2>2. ClaimOf(t) # o /\ ClaimOf(t)' # o
      BY <1>0, <1>2, ClaimMoves
    <2>3. objects'[o] = objects[o]
      BY <1>0, <1>2 DEF InsertObject
    <2> QED BY <1>0, <1>1, <2>1, <2>2, <2>3 DEF Held, One
  <1>3. CASE AddRef(t)
    <2>0. ~InsertRow(t) /\ ~DropRow(t)
      BY <1>3 DEF AddRef, InsertRow, DropRow, At
    <2>1. RowsOf(o)' = RowsOf(o)
      BY <1>0, <2>0, RowCount
    <2>2. ClaimOf(t) # o /\ (ClaimOf(t)' = o <=> work[t].obj = o)
      BY <1>0, <1>3, ClaimMoves
    <2>3. objects'[o].ref = objects[o].ref + One(work[t].obj = o)
      BY <1>0, <1>3 DEF AddRef, One
    <2> QED BY <1>0, <1>1, <2>1, <2>2, <2>3 DEF Held, One
  <1>4. CASE InsertRow(t)
    <2>1. Cardinality(RowsOf(o)') = Cardinality(RowsOf(o)) + One(work[t].obj = o)
      BY <1>0, <1>4, RowCount DEF One
    <2>2. (ClaimOf(t) = o <=> work[t].obj = o) /\ ClaimOf(t)' # o
      BY <1>0, <1>4, ClaimMoves
    <2>3. objects' = objects
      BY <1>4 DEF InsertRow
    <2> QED BY <1>0, <1>1, <2>1, <2>2, <2>3 DEF Held, One
  <1>5. CASE DropRow(t)
    <2>1. Cardinality(RowsOf(o)')
            = Cardinality(RowsOf(o)) - One(Victim(t) \notin shares /\ work[t].row.obj = o)
      BY <1>0, <1>5, RowCount DEF DropRow, InsertRow, At
    <2>2. /\ ClaimOf(t) # o
          /\ ClaimOf(t)' = o <=> Victim(t) \notin shares /\ work[t].row.obj = o
      <3>1. /\ ClaimOf(t) = 0
            /\ ClaimOf(t)' = IF Victim(t) \in shares \/ work[t].row.dir
                             THEN 0 ELSE work[t].row.obj
        BY <1>5, ClaimMoves
      <3>2. work[t].row.dir => work[t].row.obj = 0
        <4>1. /\ Victim(t) \in DOMAIN files
              /\ work[t].row.obj = files[Victim(t)].obj /\ work[t].row.dir = files[Victim(t)].dir
          BY <1>5 DEF VictimRead, DropRow, At
        <4> QED BY <4>1 DEF TypeOK, TablesOK
      <3> QED BY <1>0, <3>1, <3>2
    <2>3. objects' = objects
      BY <1>5 DEF DropRow
    <2> QED BY <1>0, <1>1, <2>1, <2>2, <2>3 DEF Held, One
  <1>6. CASE Unref(t)
    <2>0. ~InsertRow(t) /\ ~DropRow(t)
      BY <1>6 DEF Unref, InsertRow, DropRow, At
    <2>1. RowsOf(o)' = RowsOf(o)
      BY <1>0, <2>0, RowCount
    <2>2. (ClaimOf(t) = o <=> work[t].row.obj = o) /\ ClaimOf(t)' # o
      BY <1>0, <1>6, ClaimMoves
    <2>3. objects'[o].ref = IF work[t].row.obj = o THEN Less(objects[o].ref, 1) ELSE objects[o].ref
      BY <1>0, <1>6 DEF Unref
    <2>4. work[t].row.obj = o => objects[o].ref >= 1
      <3>1. SUFFICES ASSUME work[t].row.obj = o PROVE objects[o].ref >= 1
        OBVIOUS
      <3>2. t \in ClaimsOf(o)
        BY <2>2, <3>1 DEF ClaimsOf
      <3>3. Cardinality(ClaimsOf(o)) # 0
        BY <3>2, Counts, FS_EmptySet
      <3> QED BY <1>0, <1>1, <3>3 DEF RefCountCovers, Held
    <2> QED BY <1>0, <1>1, <2>1, <2>2, <2>3, <2>4 DEF Held, One, Less
  <1>7. CASE ~InsertObject(t) /\ ~AddRef(t) /\ ~InsertRow(t) /\ ~DropRow(t) /\ ~Unref(t)
    <2>1. RowsOf(o)' = RowsOf(o)
      BY <1>0, <1>7, RowCount
    <2>2. ClaimOf(t)' = ClaimOf(t)
      BY <1>7, ClaimMoves
    <2>3. objects'[o] = objects[o]
      <3>1. DropObject(t) \/ UNCHANGED objects
        BY <1>7, Touched
      <3> QED BY <3>1 DEF DropObject
    <2> QED BY <1>0, <1>1, <2>1, <2>2, <2>3 DEF Held, One
  <1> QED BY <1>2, <1>3, <1>4, <1>5, <1>6, <1>7

\* Each step of the system keeps every object covered.
LEMMA RefCountCoversStep ==
  ASSUME TypeOK, VictimRead, IdsKnown, FreshObjectSafe, ShaUnique, RefCountCovers, [Next]_vars
  PROVE  RefCountCovers'
  <1>0. /\ TypeOK' /\ faults \in Nat
        /\ nextObject \notin DOMAIN objects /\ nextObject # 0 /\ 0 \notin DOMAIN objects
        /\ \A o \in DOMAIN objects : objects[o].ref \in Nat
    BY NextTypes DEF TypeOK, TablesOK
  <1>1. ASSUME NEW t \in Threads, Step(t), OthersSame(t) PROVE RefCountCovers'
    <2>1. ASSUME NEW o \in DOMAIN objects'
          PROVE  objects'[o].ref >= Held(o)' /\ (faults' = 0 => objects'[o].ref = Held(o)')
      <3>1. CASE o \in DOMAIN objects
        <4>1. objects'[o].ref - objects[o].ref = Held(o)' - Held(o)
          BY <1>1, <2>1, <3>1, CountFollows
        <4>2. objects[o].ref >= Held(o) /\ (faults = 0 => objects[o].ref = Held(o))
          BY <3>1 DEF RefCountCovers
        <4>3. objects'[o].ref \in Nat
          BY <1>0, <2>1 DEF TypeOK, TablesOK
        <4>4. Held(o) \in Nat
          <5>1. Cardinality(RowsOf(o)) \in Nat /\ Cardinality(ClaimsOf(o)) \in Nat
            BY Counts
          <5> QED BY <5>1 DEF Held
        <4>5. Held(o)' \in Int
          <5>1. /\ Cardinality(ClaimsOf(o)')
                     = Cardinality(ClaimsOf(o)) + One(ClaimOf(t)' = o) - One(ClaimOf(t) = o)
                /\ Cardinality(ClaimsOf(o)) \in Nat /\ Cardinality(RowsOf(o)) \in Nat
            BY <1>1, ClaimCount, Counts
          <5>2. \/ Cardinality(RowsOf(o)') = Cardinality(RowsOf(o))
                \/ \E b : Cardinality(RowsOf(o)') = Cardinality(RowsOf(o)) + One(b)
                \/ \E b : Cardinality(RowsOf(o)') = Cardinality(RowsOf(o)) - One(b)
            BY <1>0, <1>1, <3>1, RowCount
          <5> QED BY <5>1, <5>2 DEF Held, One
        <4>6. faults' = 0 => faults = 0
          BY <1>0, <1>1, FaultsGrow
        <4> QED BY <1>0, <3>1, <4>1, <4>2, <4>3, <4>4, <4>5, <4>6
      <3>2. CASE o \notin DOMAIN objects
        <4>1. InsertObject(t) /\ ObjectsWith(req[t].sha) = {}
          BY <1>1, <2>1, <3>2, Touched DEF InsertObject, AddRef, Unref, DropObject
        <4>2. o = nextObject /\ objects'[o].ref = 1
          BY <2>1, <3>2, <4>1 DEF InsertObject
        <4>3. RowsOf(o)' = RowsOf(o)
          BY <1>0, <1>1, <4>1, <4>2, RowCount DEF InsertObject, InsertRow, DropRow, At
        <4>4. ClaimOf(t) = 0 /\ ClaimOf(t)' = o
          BY <1>1, <4>1, <4>2, ClaimMoves
        <4>5. RowsOf(o) = {} /\ ClaimsOf(o) = {}
          BY <4>2, NextObjectUnheld
        <4>6. Cardinality(ClaimsOf(o)')
                = Cardinality(ClaimsOf(o)) + One(ClaimOf(t)' = o) - One(ClaimOf(t) = o)
          BY <1>1, ClaimCount
        <4> QED BY <1>0, <4>2, <4>3, <4>4, <4>5, <4>6, FS_EmptySet DEF Held, One
      <3> QED BY <3>1, <3>2
    <2> QED BY <2>1 DEF RefCountCovers
  <1>2. ASSUME NEW t \in Threads, OthersSame(t), pc'[t] \in Loose,
               UNCHANGED tables, faults' > 0 \/ (pc[t] = "idle" /\ UNCHANGED faults)
        PROVE  RefCountCovers'
    <2>1. ASSUME NEW o \in DOMAIN objects
          PROVE  objects[o].ref >= Held(o)' /\ (faults' = 0 => objects[o].ref = Held(o)')
      <3>1. RowsOf(o)' = RowsOf(o)
        BY <1>2 DEF RowsOf, tables
      <3>2. ClaimOf(t)' # o /\ (pc[t] = "idle" => ClaimOf(t) # o)
        BY <1>0, <1>2, <2>1 DEF ClaimOf, Loose
      <3>3. /\ Cardinality(ClaimsOf(o)')
                 = Cardinality(ClaimsOf(o)) + One(ClaimOf(t)' = o) - One(ClaimOf(t) = o)
            /\ Cardinality(ClaimsOf(o)) \in Nat /\ Cardinality(RowsOf(o)) \in Nat
        BY <1>2, ClaimCount, Counts
      <3>4. objects[o].ref >= Held(o) /\ (faults = 0 => objects[o].ref = Held(o))
        BY <2>1 DEF RefCountCovers
      <3>5. Held(o)' = Held(o) - One(ClaimOf(t) = o)
        BY <3>1, <3>2, <3>3 DEF Held, One
      <3>6. Held(o) \in Nat
        BY <3>3 DEF Held
      <3> QED BY <1>0, <1>2, <2>1, <3>2, <3>4, <3>5, <3>6 DEF One
    <2> QED BY <1>2, <2>1 DEF RefCountCovers, tables
  <1>3. ASSUME Die, UNCHANGED tables, faults' > 0 PROVE RefCountCovers'
    <2>1. ASSUME NEW o \in DOMAIN objects PROVE objects[o].ref >= Held(o)'
      <3>1. RowsOf(o)' = RowsOf(o)
        BY <1>3 DEF RowsOf, tables
      <3>2. ClaimsOf(o)' = {}
        BY <1>0, <1>3, <2>1, DieIdle DEF ClaimsOf, ClaimOf
      <3>3. Cardinality(ClaimsOf(o)) \in Nat /\ Cardinality(RowsOf(o)) \in Nat
        BY Counts
      <3> QED BY <1>0, <2>1, <3>1, <3>2, <3>3, FS_EmptySet DEF Held, RefCountCovers
    <2> QED BY <1>3, <2>1 DEF RefCountCovers, tables
  <1>4. ASSUME UNCHANGED vars PROVE RefCountCovers'
    BY <1>4 DEF RefCountCovers, Held, RowsOf, ClaimsOf, ClaimOf, vars, tables, handler, bounds
  <1> QED BY <1>1, <1>2, <1>3, <1>4, Moves

----------------------------------------------------------------------------
\* Together: RefInv holds at first and every step keeps it.
LEMMA RefInvInit == Init => RefInv
  <1>1. SUFFICES ASSUME Init PROVE RefInv
    OBVIOUS
  <1>2. TypeOK
    BY <1>1, InitTypes
  <1>3. /\ \A t \in Threads : pc[t] = "idle"
        /\ DOMAIN objects = {}
    BY <1>1 DEF Init, EmptyTable
  <1>4. NoDoublePurge /\ VictimRead /\ IdsKnown /\ FreshObjectSafe
    BY <1>3 DEF NoDoublePurge, VictimRead, IdsKnown, FreshObjectSafe, PurgeLabels
  <1>5. ShaUnique /\ RefCountCovers
    BY <1>3 DEF ShaUnique, RefCountCovers
  <1> QED BY <1>2, <1>4, <1>5 DEF RefInv

LEMMA RefInvStep == RefInv /\ [Next]_vars /\ NoDoublePurge' => RefInv'
  <1>1. SUFFICES ASSUME RefInv, [Next]_vars, NoDoublePurge' PROVE RefInv'
    OBVIOUS
  <1>2. /\ TypeOK /\ NoDoublePurge /\ VictimRead /\ IdsKnown /\ FreshObjectSafe /\ ShaUnique
        /\ RefCountCovers
    BY <1>1 DEF RefInv
  <1>3. \A o \in DOMAIN objects : objects[o].ref = 0 => ClaimsOf(o) = {}
    <2>1. SUFFICES ASSUME NEW o \in DOMAIN objects, objects[o].ref = 0 PROVE ClaimsOf(o) = {}
      OBVIOUS
    <2>2. /\ Cardinality(RowsOf(o)) \in Nat
          /\ IsFiniteSet(ClaimsOf(o)) /\ Cardinality(ClaimsOf(o)) \in Nat
      BY <1>2, Counts
    <2>3. 0 >= Cardinality(RowsOf(o)) + Cardinality(ClaimsOf(o))
      BY <1>2, <2>1 DEF RefCountCovers, Held
    <2>4. Cardinality(ClaimsOf(o)) = 0
      BY <2>2, <2>3
    <2> QED BY <2>2, <2>4, FS_EmptySet
  <1>4. TypeOK'
    BY <1>1, <1>2, NextTypes
  <1>5. VictimRead' /\ IdsKnown' /\ ShaUnique'
    BY <1>1, <1>2, VictimReadStep, IdsKnownStep, ShaUniqueStep
  <1>6. FreshObjectSafe'
    BY <1>1, <1>2, <1>3, FreshObjectSafeStep
  <1>7. RefCountCovers'
    BY <1>1, <1>2, RefCountCoversStep
  <1> QED BY <1>1, <1>4, <1>5, <1>6, <1>7 DEF RefInv

\* The strengthening holds as long as no two handlers of permanentDeleteTree are at
\* the same row: what a purge has read of a row, the read-back of a new object, and
\* the UNIQUE key, with the counts (FileOps.cpp 28-63, 108-130, 195-219).
THEOREM RefInvHolds == SpecNoOverlap => []RefInv
  <1>1. Init => RefInv
    BY RefInvInit
  <1>2. RefInv /\ [Next /\ NoDoublePurge']_vars => RefInv'
    <2>1. ASSUME RefInv, UNCHANGED vars PROVE NoDoublePurge'
      BY <2>1 DEF RefInv, NoDoublePurge, Victim, vars, handler
    <2> QED BY <2>1, RefInvStep
  <1> QED BY <1>1, <1>2, PTL DEF SpecNoOverlap

\* With any number of threads, users, contents and requests, and any faults, as
\* long as no two handlers of permanentDeleteTree are at the same row: ref_count
\* is never below the rows and the handlers that count on the object.
THEOREM RefCountsCover == SpecNoOverlap => []RefCountCovers
  <1>1. RefInv => RefCountCovers
    BY DEF RefInv
  <1> QED BY <1>1, RefInvHolds, PTL

\* With one thread, which is what Drogon starts unless the configuration says
\* otherwise (ProdMain.cpp 17-20), nothing else has to be assumed.
THEOREM OneThreadCountsCover ==
  ASSUME \A s, t \in Threads : s = t
  PROVE  Spec => []RefCountCovers
  <1>1. NoDoublePurge /\ NoDoublePurge'
    BY DEF NoDoublePurge
  <1>2. Init => RefInv
    BY RefInvInit
  <1>3. RefInv /\ [Next]_vars => RefInv'
    BY <1>1, RefInvStep
  <1>4. RefInv => RefCountCovers
    BY DEF RefInv
  <1> QED BY <1>2, <1>3, <1>4, PTL DEF Spec

----------------------------------------------------------------------------
\* Contents, with one thread.

\* What a handler knows where a file is about to be written or removed.
LEMMA Arrivals ==
  ASSUME TypeOK, NEW t \in Threads, Step(t), OthersSame(t)
  PROVE  /\ pc'[t] = "write" => ObjectsWith(req[t].sha) = {} /\ req' = req /\ UNCHANGED tables
         /\ pc'[t] = "rewrite" => disk[req[t].sha] = "absent" /\ req' = req /\ UNCHANGED disk
         /\ pc'[t] = "unlink" => LET o == work[t].row.obj IN
              /\ o \in DOMAIN objects /\ objects[o].ref = 0 /\ work'[t].path = objects[o].sha
              /\ UNCHANGED tables
  <1>0. pc \in [Threads -> Labels] /\ work \in [Threads -> Work]
    BY DEF TypeOK, HandlersOK
  <1>1. ASSUME Abandon(t) PROVE pc'[t] = "idle"
    BY <1>0, <1>1 DEF Abandon
  <1>2. \A label : Goto(t, label) => pc'[t] = label /\ req' = req
    BY <1>0 DEF Goto
  <1>3. ASSUME pc'[t] = "write"
        PROVE  ObjectsWith(req[t].sha) = {} /\ req' = req /\ UNCHANGED tables
    BY <1>1, <1>2, <1>3, Landing DEF FindObject, Reply
  <1>4. ASSUME pc'[t] = "rewrite"
        PROVE  disk[req[t].sha] = "absent" /\ req' = req /\ UNCHANGED disk
    BY <1>2, <1>4, Landing DEF CheckExists
  <1>5. ASSUME pc'[t] = "unlink", NEW o, o = work[t].row.obj
        PROVE  /\ o \in DOMAIN objects /\ objects[o].ref = 0 /\ work'[t].path = objects[o].sha
               /\ UNCHANGED tables
    <2>1. ReadRef(t)
      BY <1>5, Landing
    <2>2. ~NextVictim(t)
      BY <1>1, <1>2, <1>5 DEF NextVictim, Reply
    <2>3. /\ o \in DOMAIN objects /\ objects[o].ref = 0 /\ UNCHANGED tables
          /\ work' = [work EXCEPT ![t].path = objects[o].sha]
      BY <1>5, <2>1, <2>2 DEF ReadRef
    <2>4. work'[t] = [work[t] EXCEPT !.path = objects[o].sha]
      BY <1>0, <2>3
    <2>5. [work[t] EXCEPT !.path = objects[o].sha].path = objects[o].sha
      BY <1>0 DEF Work
    <2> QED BY <2>3, <2>4, <2>5
  <1> QED BY <1>3, <1>4, <1>5

\* A whole file stops being whole only where it is opened again or removed.
LEMMA DiskMoves ==
  ASSUME TypeOK, NEW t \in Threads, Step(t), NEW c \in Contents, disk[c] = "whole"
  PROVE  \/ disk'[c] = "whole"
         \/ OpenObject(t) /\ c = req[t].sha
         \/ Unlink(t) /\ c = work[t].path
  <1>0. disk \in [Contents -> {"absent", "partial", "whole"}]
    BY DEF TypeOK, TablesOK
  <1>1. ASSUME Die PROVE disk'[c] = "whole"
    BY <1>1 DEF Die
  <1>2. ASSUME Written(t) PROVE disk'[c] = "whole"
    BY <1>0, <1>2 DEF Written
  <1>3. CASE WriteObject(t) \/ RewriteObject(t)
    BY <1>2, <1>3 DEF WriteObject, RewriteObject
  <1>4. CASE FetchDir(t) \/ FetchObject(t) \/ FetchId(t)
    BY <1>1, <1>4 DEF FetchDir, FetchObject, FetchId, Undefined
  <1>5. CASE OpenObject(t)
    BY <1>0, <1>5 DEF OpenObject
  <1>6. CASE Unlink(t)
    BY <1>0, <1>6 DEF Unlink
  <1>7. CASE ~ (WriteObject(t) \/ RewriteObject(t) \/ FetchDir(t) \/ FetchObject(t) \/ FetchId(t)
                \/ OpenObject(t) \/ Unlink(t))
    <2>1. UNCHANGED disk
      BY <1>7 DEF Step, CheckParent, CheckName, InsertDir, FindObject, InsertObject, CheckExists, AddRef,
                  InsertRow, AddUsed, FindRoot, InsertShare, CheckRestoreName, CollectKids, SoftDeleteNext,
                  RestoreNext, SetDeleted, PickVictim, DropShares, DropRow, SubUsed, Unref, ReadRef,
                  DropObject
    <2> QED BY <2>1
  <1> QED BY <1>3, <1>4, <1>5, <1>6, <1>7

\* A row keeps its object, and the object its content.
LEMMA RowsKeepContent ==
  ASSUME TypeOK, TypeOK', NEW t \in Threads, Step(t), NEW i \in DOMAIN files, i \in DOMAIN files'
  PROVE  /\ files'[i].dir = files[i].dir
         /\ ~files[i].dir => /\ files'[i].obj = files[i].obj
                             /\ files[i].obj \in DOMAIN objects /\ files[i].obj \in DOMAIN objects'
                             /\ objects'[files[i].obj].sha = objects[files[i].obj].sha
  <1>1. files'[i].dir = files[i].dir /\ files'[i].obj = files[i].obj
    BY FileMoves
  <1>2. ~files[i].dir => files[i].obj \in DOMAIN objects /\ files'[i].obj \in DOMAIN objects'
    BY <1>1 DEF TypeOK, TablesOK
  <1>3. ASSUME NEW o \in DOMAIN objects, o \in DOMAIN objects' PROVE objects'[o].sha = objects[o].sha
    <2>1. nextObject \notin DOMAIN objects
      BY DEF TypeOK, TablesOK
    <2> QED BY <2>1, <1>3, ObjectMoves
  <1> QED BY <1>1, <1>2, <1>3

\* One step of the only thread: what it knows, and what the rows keep.
LEMMA KeepStep ==
  ASSUME \A s, u \in Threads : s = u, KeepInv, RefInv', [Next]_vars
  PROVE  /\ KeepInv'
         /\ \A i \in DOMAIN files \cap DOMAIN files' :
              Backed(i) => Backed(i)' \/ \E t \in Threads : Blind(t, objects[files[i].obj].sha)
  <1>0. /\ TypeOK /\ TypeOK' /\ ShaUnique /\ RefCountCovers /\ WriteSafe /\ UnlinkSafe
        /\ pc \in [Threads -> Labels] /\ pc' \in [Threads -> Labels]
        /\ disk \in [Contents -> {"absent", "partial", "whole"}]
    BY DEF KeepInv, RefInv, TypeOK, HandlersOK, TablesOK
  <1>k. ASSUME NEW i \in DOMAIN files, ~files[i].dir
        PROVE  files[i].obj \in DOMAIN objects /\ objects[files[i].obj].sha \in Contents
    BY <1>0, <1>k DEF TypeOK, TablesOK
  <1>1. ASSUME NEW t \in Threads, Step(t), OthersSame(t)
        PROVE  /\ WriteSafe' /\ UnlinkSafe'
               /\ \A i \in DOMAIN files \cap DOMAIN files' :
                    Backed(i) => Backed(i)' \/ Blind(t, objects[files[i].obj].sha)
    <2>1. \A s \in Threads : s = t
      OBVIOUS
    <2>2. pc'[t] = "write" => ObjectsWith(req[t].sha) = {} /\ req' = req /\ UNCHANGED tables
      BY <1>0, <1>1, Arrivals
    <2>3. pc'[t] = "rewrite" => disk[req[t].sha] = "absent" /\ req' = req /\ UNCHANGED disk
      BY <1>0, <1>1, Arrivals
    <2>4. WriteSafe'
      BY <2>1, <2>2, <2>3 DEF WriteSafe, ObjectsWith, tables
    <2>5. UnlinkSafe'
      <3>1. SUFFICES ASSUME pc'[t] = "unlink", NEW i \in DOMAIN files', ~files'[i].dir
                     PROVE  objects'[files'[i].obj].sha # work'[t].path
        BY <2>1 DEF UnlinkSafe
      <3>2. PICK o : /\ o \in DOMAIN objects /\ objects[o].ref = 0 /\ work'[t].path = objects[o].sha
                     /\ UNCHANGED <<files, objects>>
        BY <1>0, <1>1, <3>1, Arrivals DEF tables
      <3>3. Cardinality(RowsOf(o)) = 0
        <4>1. Cardinality(RowsOf(o)) \in Nat /\ Cardinality(ClaimsOf(o)) \in Nat
          BY <1>0, <3>2, Counts
        <4>2. 0 >= Held(o)
          BY <1>0, <3>2 DEF RefCountCovers
        <4> QED BY <4>1, <4>2 DEF Held
      <3>4. files[i].obj # o
        <4>1. IsFiniteSet(RowsOf(o))
          BY <1>0, <3>2, Counts
        <4> QED BY <3>1, <3>2, <3>3, <4>1, FS_EmptySet DEF RowsOf
      <3> QED BY <1>0, <1>k, <3>1, <3>2, <3>4 DEF ShaUnique
    <2>6. ASSUME NEW i \in DOMAIN files \cap DOMAIN files', Backed(i), ~files[i].dir
          PROVE  Backed(i)' \/ Blind(t, objects[files[i].obj].sha)
      <3> SUFFICES ASSUME ~Blind(t, objects[files[i].obj].sha) PROVE Backed(i)'
        OBVIOUS
      <3>1. /\ files'[i].obj = files[i].obj
            /\ files[i].obj \in DOMAIN objects /\ files[i].obj \in DOMAIN objects'
            /\ objects'[files[i].obj].sha = objects[files[i].obj].sha
        BY <1>0, <1>1, <2>6, RowsKeepContent
      <3>2. PICK c \in Contents : c = objects[files[i].obj].sha
        BY <1>k, <2>6
      <3>3. disk[c] = "whole"
        BY <2>6, <3>2 DEF Backed
      <3>4. ~ (OpenObject(t) /\ c = req[t].sha)
        <4>1. SUFFICES ASSUME OpenObject(t), c = req[t].sha PROVE FALSE
          OBVIOUS
        <4>2. pc[t] = "write" \/ pc[t] = "rewrite"
          BY <4>1 DEF OpenObject, At
        <4> QED BY <1>0, <3>1, <3>2, <3>3, <4>1, <4>2 DEF WriteSafe, ObjectsWith, Blind
      <3>5. ~ (Unlink(t) /\ c = work[t].path)
        BY <1>0, <2>6, <3>2 DEF Unlink, UnlinkSafe, At
      <3>6. disk'[c] = "whole"
        BY <1>0, <1>1, <3>3, <3>4, <3>5, DiskMoves
      <3> QED BY <3>1, <3>2, <3>6 DEF Backed
    <2>7. ASSUME NEW i \in DOMAIN files \cap DOMAIN files', files[i].dir PROVE Backed(i)'
      BY <1>0, <1>1, <2>7, RowsKeepContent DEF Backed
    <2> QED BY <2>4, <2>5, <2>6, <2>7
  <1>2. ASSUME UNCHANGED tables, \A c \in Contents : disk[c] = "whole" => disk'[c] = "whole"
        PROVE  \A i \in DOMAIN files \cap DOMAIN files' : Backed(i) => Backed(i)'
    BY <1>k, <1>2 DEF Backed, tables
  <1>3. ASSUME NEW t \in Threads, pc'[t] \in {"idle", "parent", "root"}
        PROVE  WriteSafe' /\ UnlinkSafe'
    BY <1>3 DEF WriteSafe, UnlinkSafe
  <1>4. ASSUME Die
        PROVE  WriteSafe' /\ UnlinkSafe' /\ \A c \in Contents : disk[c] = "whole" => disk'[c] = "whole"
    BY <1>4 DEF Die, WriteSafe, UnlinkSafe
  <1>5. ASSUME UNCHANGED vars
        PROVE  /\ WriteSafe' /\ UnlinkSafe'
               /\ \A i \in DOMAIN files \cap DOMAIN files' : Backed(i) => Backed(i)'
    BY <1>0, <1>5 DEF vars, tables, handler, WriteSafe, UnlinkSafe, ObjectsWith, Backed
  <1>6. ASSUME NEW t \in Threads, Begin(t) \/ Fail(t)
        PROVE  /\ UNCHANGED <<tables, disk>> /\ pc'[t] \in {"idle", "parent", "root"}
    BY <1>0, <1>6 DEF Begin, Fail, Abandon, FirstLabel
  <1>7. ASSUME NEW t \in Threads, Step(t), ~OthersSame(t) PROVE Die /\ UNCHANGED tables
    BY <1>0, <1>7, OneThreadMoves
  <1>8. ASSUME Crash PROVE Die /\ UNCHANGED tables
    BY <1>8 DEF Crash
  <1>9. ASSUME NEW t \in Threads, Skipped(t)
        PROVE  /\ WriteSafe' /\ UnlinkSafe' /\ UNCHANGED tables
               /\ \A c \in Contents : disk[c] = "whole" => disk'[c] = "whole"
    <2>1. /\ work \in [Threads -> Work] /\ UNCHANGED <<tables, disk>>
          /\ pc'[t] \notin {"rewrite", "unlink"}
      BY <1>0, <1>9, SkippedMoves DEF Skipped, TypeOK, HandlersOK
    <2>2. pc'[t] = "write" => "findObj" \in work'[t].unseen
      <3>1. SUFFICES ASSUME pc'[t] = "write" PROVE "findObj" \in work'[t].unseen
        OBVIOUS
      <3>2. work'[t] = [work[t] EXCEPT !.unseen = @ \cup {"findObj"}]
        BY <1>0, <1>9, <2>1, <3>1, SkippedTo DEF AfterCollect
      <3> QED BY <2>1, <3>2 DEF Work
    <2> QED BY <2>1, <2>2 DEF WriteSafe, UnlinkSafe
  <1> QED BY <1>1, <1>2, <1>3, <1>4, <1>5, <1>6, <1>7, <1>8, <1>9, Cases DEF KeepInv

\* With one thread, a file whose content can be read keeps it: no upload, purge, exception or
\* crash in the middle of a request takes it away from another row (FileOps.h 27-48,
\* FileOps.cpp 51-62 and 108-130), but for an upload that MySQL has not shown the object
\* (MySqlDatabase.cpp 45-48).
THEOREM OneThreadKeepsContent ==
  ASSUME \A s, t \in Threads : s = t
  PROVE  Spec => ContentKept
  <1>1. NoDoublePurge /\ NoDoublePurge'
    BY DEF NoDoublePurge
  <1>2. Init => KeepInv
    <2>1. Init => WriteSafe /\ UnlinkSafe
      BY DEF Init, WriteSafe, UnlinkSafe
    <2> QED BY <2>1, RefInvInit DEF KeepInv
  <1>3. KeepInv /\ [Next]_vars => KeepInv'
    BY <1>1, RefInvStep, KeepStep DEF KeepInv
  <1>4. KeepInv /\ [Next]_vars =>
          [\A i \in DOMAIN files \cap DOMAIN files' :
             Backed(i) => Backed(i)' \/ \E t \in Threads : Blind(t, objects[files[i].obj].sha)]_vars
    BY <1>1, RefInvStep, KeepStep DEF KeepInv
  <1> QED BY <1>2, <1>3, <1>4, PTL DEF Spec, ContentKept

----------------------------------------------------------------------------
\* Answers, with one thread.

\* The row inserted last keeps the highest id until its handler has read it back.
LEMMA LastMadeStep ==
  ASSUME \A s, u \in Threads : s = u, AnswerInv, [Next]_vars
  PROVE  LastMade'
  <1>0. /\ TypeOK /\ LastMade
        /\ pc \in [Threads -> Labels] /\ work \in [Threads -> Work] /\ nextFile \in Nat
    BY DEF AnswerInv, RefInv, TypeOK, HandlersOK, TablesOK
  <1>1. ASSUME NEW t \in Threads, Step(t), OthersSame(t), pc'[t] \in {"fetchDir", "addUsed", "fetchId"}
        PROVE  LastMade'
    <2>1. \A s \in Threads : s = t
      OBVIOUS
    <2>2. ~Reply(t)
      BY <1>0, <1>1 DEF Reply, Abandon
    <2>3. \A label : Goto(t, label) => pc'[t] = label /\ req' = req
      BY <1>0 DEF Goto
    <2>4. ASSUME NEW row, AddRow(t, row)
          PROVE  /\ files'[nextFile] = row /\ nextFile \in DOMAIN files' /\ nextFile' - 1 = nextFile
                 /\ work'[t].made = nextFile /\ work'[t].obj = work[t].obj
      <3>1. work'[t] = [work[t] EXCEPT !.made = nextFile]
        BY <1>0, <2>4 DEF AddRow
      <3>2. work'[t].made = nextFile /\ work'[t].obj = work[t].obj
        BY <1>0, <3>1 DEF Work
      <3> QED BY <1>0, <2>4, <3>2 DEF AddRow
    <2>5. CASE InsertDir(t)
      <3> DEFINE row == [user |-> req[t].user, parent |-> req[t].parent, obj |-> 0,
                         name |-> req[t].name, size |-> 0, dir |-> TRUE, deleted |-> FALSE]
      <3>1. AddRow(t, row) /\ pc'[t] = "fetchDir" /\ req' = req
        BY <2>3, <2>5 DEF InsertDir
      <3> QED BY <2>1, <2>4, <3>1 DEF LastMade
    <2>6. CASE InsertRow(t)
      <3> DEFINE row == [user |-> req[t].user, parent |-> req[t].parent,
                         obj |-> work[t].obj, name |-> req[t].name,
                         size |-> ReqSize(req[t]), dir |-> FALSE, deleted |-> FALSE]
      <3>1. AddRow(t, row) /\ pc'[t] = "addUsed" /\ req' = req
        BY <2>2, <2>3, <2>6 DEF InsertRow
      <3> QED BY <2>1, <2>4, <3>1 DEF LastMade
    <2>7. CASE AddUsed(t)
      <3>1. /\ pc[t] = "addUsed" /\ pc'[t] = "fetchId" /\ req' = req
            /\ UNCHANGED <<files, nextFile, work>>
        BY <2>3, <2>7 DEF AddUsed, At
      <3> QED BY <1>0, <2>1, <3>1 DEF LastMade
    <2> QED BY <1>0, <1>1, <2>5, <2>6, <2>7, Landing
  <1>2. ASSUME NEW t \in Threads, pc'[t] \notin {"fetchDir", "addUsed", "fetchId"} PROVE LastMade'
    BY <1>2 DEF LastMade
  <1>3. ASSUME Die PROVE LastMade'
    BY <1>3 DEF Die, LastMade
  <1>4. ASSUME UNCHANGED vars PROVE LastMade'
    BY <1>0, <1>4 DEF vars, tables, handler, LastMade
  <1>5. Loose \cap {"fetchDir", "addUsed", "fetchId"} = {}
    BY DEF Loose
  <1> QED BY <1>0, <1>1, <1>2, <1>3, <1>4, <1>5, Moves

\* What makes the rows read back the handler's own.
LEMMA NewestIsLast ==
  ASSUME TypeOK, NEW S \in SUBSET DOMAIN files, nextFile - 1 \in S
  PROVE  Newest(S) = {nextFile - 1}
  <1>1. \A i \in S : i \in Int /\ i <= nextFile - 1
    BY DEF TypeOK, TablesOK
  <1>2. nextFile - 1 \in Int
    BY <1>1
  <1> QED BY <1>1, <1>2 DEF Newest

LEMMA AnswersFollow == AnswerInv => AnswersOwnRow
  <1>1. SUFFICES ASSUME AnswerInv, NEW t \in Threads
                 PROVE  /\ pc[t] = "fetchId" =>
                             FetchedFile(req[t].user, work[t].obj, req[t].name) = {work[t].made}
                        /\ pc[t] = "fetchDir" =>
                             FetchedDir(req[t].user, req[t].parent, req[t].name) = {work[t].made}
                        /\ pc[t] = "fetchObj" => ObjectsWith(req[t].sha) = {work[t].made}
    BY DEF AnswersOwnRow
  <1>2. TypeOK /\ LastMade /\ FreshObjectSafe /\ ShaUnique
    BY <1>1 DEF AnswerInv, RefInv
  <1>3. ASSUME pc[t] = "fetchId"
        PROVE  FetchedFile(req[t].user, work[t].obj, req[t].name) = {work[t].made}
    <2> DEFINE S == {i \in DOMAIN files : /\ files[i].user = req[t].user /\ files[i].obj = work[t].obj
                                          /\ files[i].name = req[t].name}
    <2>1. work[t].made = nextFile - 1 /\ nextFile - 1 \in S
      BY <1>2, <1>3 DEF LastMade
    <2>2. Newest(S) = {nextFile - 1}
      BY <1>2, <2>1, NewestIsLast
    <2> QED BY <2>1, <2>2 DEF FetchedFile
  <1>4. ASSUME pc[t] = "fetchDir"
        PROVE  FetchedDir(req[t].user, req[t].parent, req[t].name) = {work[t].made}
    <2> DEFINE S == {i \in DOMAIN files : /\ ActiveRow(req[t].user, i) /\ files[i].parent = req[t].parent
                                          /\ files[i].name = req[t].name}
    <2>1. work[t].made = nextFile - 1 /\ nextFile - 1 \in S
      BY <1>2, <1>4 DEF LastMade, ActiveRow
    <2>2. Newest(S) = {nextFile - 1}
      BY <1>2, <2>1, NewestIsLast
    <2> QED BY <2>1, <2>2 DEF FetchedDir
  <1>5. ASSUME pc[t] = "fetchObj" PROVE ObjectsWith(req[t].sha) = {work[t].made}
    BY <1>2, <1>5 DEF FreshObjectSafe, ShaUnique, ObjectsWith
  <1> QED BY <1>3, <1>4, <1>5

\* With one thread a handler that reads back what it inserted finds that row and no other
\* (FileOps.cpp 40-42 and 119, FileRoutes.cpp 92-97), whatever has failed or misled it
\* before; a read-back that is misled itself indexes an empty result (Mislead).
THEOREM OneThreadAnswers ==
  ASSUME \A s, t \in Threads : s = t
  PROVE  Spec => []AnswersOwnRow
  <1>1. NoDoublePurge /\ NoDoublePurge'
    BY DEF NoDoublePurge
  <1>2. Init => AnswerInv
    <2>1. Init => LastMade
      BY DEF Init, LastMade
    <2> QED BY <2>1, RefInvInit DEF AnswerInv
  <1>3. AnswerInv /\ [Next]_vars => AnswerInv'
    BY <1>1, RefInvStep, LastMadeStep DEF AnswerInv
  <1> QED BY <1>2, <1>3, AnswersFollow, PTL DEF Spec

----------------------------------------------------------------------------
\* The vectors of collectSubtree, with any threads.

\* Steps of any handler keep what is known of a list: ids are new, parents never change.
LEMMA ListedStays ==
  ASSUME TypeOK, NEW t \in Threads, Step(t), NEW ids \in Seq(Nat), NEW queue \in Seq(Nat), Listed(ids, queue)
  PROVE  Listed(ids, queue)'
  <1>1. /\ nextFile \in Nat /\ nextFile' \in Nat /\ nextFile <= nextFile'
        /\ \A i \in DOMAIN files' : (i \in DOMAIN files /\ files'[i].parent = files[i].parent)
                                      \/ i = nextFile
    BY RowsKeepKind DEF TypeOK, TablesOK, SameKind
  <1>2. \A j \in 1 .. Len(ids) : ids[j] \in Nat /\ ids[j] < nextFile /\ ids[j] < nextFile'
    BY <1>1, LenProperties, ElementOfSeq DEF Listed
  <1>3. ASSUME NEW j \in 2 .. Len(ids), ids[j] \in DOMAIN files'
        PROVE  ids[j] \in DOMAIN files /\ files'[ids[j]].parent = files[ids[j]].parent
    <2>1. j \in 1 .. Len(ids)
      <3>1. Len(ids) \in Nat
        BY LenProperties
      <3> QED BY <1>3, <3>1
    <2> QED BY <1>1, <1>2, <1>3, <2>1
  <1> QED BY <1>2, <1>3 DEF Listed

\* The purge goes on with one id fewer.
LEMMA ListedFront ==
  ASSUME NEW ids \in Seq(Nat), ids # <<>>, Listed(ids, <<>>)
  PROVE  Listed(Front(ids), <<>>)
  <1>1. PICK n \in Nat : /\ Len(ids) = n + 1 /\ Len(Front(ids)) = n
                         /\ DOMAIN ids = 1 .. n + 1 /\ DOMAIN Front(ids) = 1 .. n
                         /\ \A j \in 1 .. n : Front(ids)[j] = ids[j]
    <2>1. Len(ids) \in Nat /\ Len(ids) # 0
      BY EmptySeq, LenProperties
    <2>2. /\ Front(ids) \in Seq(Nat) /\ Len(Front(ids)) = Len(ids) - 1
          /\ \A j \in 1 .. Len(ids) - 1 : Front(ids)[j] = ids[j]
      BY FrontLast
    <2>3. DOMAIN ids = 1 .. Len(ids) /\ DOMAIN Front(ids) = 1 .. Len(Front(ids))
      BY <2>2, LenProperties
    <2> HIDE DEF Listed
    <2> QED BY <2>1, <2>2, <2>3
  <1>2. /\ \A j \in 1 .. n + 1 : ids[j] < nextFile /\ (j > 1 => ids[1] < ids[j])
        /\ IsInjective(ids)
        /\ \A j \in 2 .. n + 1 : ids[j] \in DOMAIN files =>
             \E k \in 1 .. j - 1 : files[ids[j]].parent = ids[k]
    BY <1>1 DEF Listed
  <1>3. IsInjective(Front(ids)) /\ IsInjective(<<>>)
    BY <1>1, <1>2 DEF IsInjective
  <1>4. ASSUME NEW j \in 1 .. n
        PROVE  Front(ids)[j] < nextFile /\ (j > 1 => Front(ids)[1] < Front(ids)[j])
    <2>1. 1 \in 1 .. n /\ j \in 1 .. n + 1
      BY <1>4
    <2> QED BY <1>1, <1>2, <2>1
  <1>5. ASSUME NEW j \in 2 .. n, Front(ids)[j] \in DOMAIN files
        PROVE  \E k \in 1 .. j - 1 : files[Front(ids)[j]].parent = Front(ids)[k]
    <2>1. j \in 2 .. n + 1 /\ Front(ids)[j] = ids[j]
      BY <1>1, <1>5
    <2>2. PICK k \in 1 .. j - 1 : files[ids[j]].parent = ids[k]
      BY <1>2, <1>5, <2>1
    <2>3. Front(ids)[k] = ids[k]
      BY <1>1, <1>5
    <2> QED BY <2>1, <2>2, <2>3
  <1>6. Len(<<>>) = 0
    OBVIOUS
  <1> QED BY <1>1, <1>3, <1>4, <1>5, <1>6 DEF Listed

\* A folder that looks empty leaves the queue.
LEMMA ListedPast ==
  ASSUME NEW ids \in Seq(Nat), NEW queue \in Seq(Nat), queue # <<>>, Listed(ids, queue)
  PROVE  Listed(ids, Front(queue))
  <1>1. PICK n \in Nat : /\ Len(queue) = n + 1 /\ Len(Front(queue)) = n
                         /\ DOMAIN queue = 1 .. n + 1 /\ DOMAIN Front(queue) = 1 .. n
                         /\ \A j \in 1 .. n : j \in 1 .. n + 1 /\ Front(queue)[j] = queue[j]
    <2>1. Len(queue) \in Nat /\ Len(queue) # 0
      BY EmptySeq, LenProperties
    <2>2. /\ Front(queue) \in Seq(Nat) /\ Len(Front(queue)) = Len(queue) - 1
          /\ \A j \in 1 .. Len(queue) - 1 : Front(queue)[j] = queue[j]
      BY FrontLast
    <2>3. DOMAIN queue = 1 .. Len(queue) /\ DOMAIN Front(queue) = 1 .. Len(Front(queue))
      BY <2>2, LenProperties
    <2> HIDE DEF Listed
    <2> QED BY <2>1, <2>2, <2>3
  <1>2. IsInjective(Front(queue))
    BY <1>1 DEF Listed, IsInjective
  <1> QED BY <1>1, <1>2 DEF Listed

\* The root alone.
LEMMA ListedRoot ==
  ASSUME TypeOK, NEW i \in DOMAIN files
  PROVE  Listed(<<i>>, <<i>>)
  BY DEF Listed, IsInjective, TypeOK, TablesOK

\* Two sequences one after the other.
Joins(both, s, r, n, m) ==
  /\ both \in Seq(Nat) /\ Len(both) = n + m /\ DOMAIN both = 1 .. n + m
  /\ \A j \in 1 .. n : both[j] = s[j]
  /\ \A j \in n + 1 .. n + m : j - n \in 1 .. m /\ both[j] = r[j - n]

LEMMA Joined ==
  ASSUME NEW s \in Seq(Nat), NEW r \in Seq(Nat)
  PROVE  Joins(s \o r, s, r, Len(s), Len(r))
  <1> DEFINE both == s \o r
  <1>1. /\ both \in Seq(Nat) /\ Len(both) = Len(s) + Len(r)
        /\ \A j \in 1 .. Len(s) + Len(r) : both[j] = IF j <= Len(s) THEN s[j] ELSE r[j - Len(s)]
        /\ Len(s) \in Nat /\ Len(r) \in Nat
    BY ConcatProperties, LenProperties
  <1>2. DOMAIN both = 1 .. Len(s) + Len(r)
    BY <1>1, LenProperties
  <1> HIDE DEF both
  <1>3. ASSUME NEW n \in Nat, NEW m \in Nat, n = Len(s), m = Len(r) PROVE Joins(both, s, r, n, m)
    <2>1. /\ both \in Seq(Nat) /\ Len(both) = n + m /\ DOMAIN both = 1 .. n + m
          /\ \A j \in 1 .. n + m : both[j] = IF j <= n THEN s[j] ELSE r[j - n]
      BY <1>1, <1>2, <1>3
    <2>2. \A j \in 1 .. n : both[j] = s[j]
      BY <2>1, <1>3
    <2>3. \A j \in n + 1 .. n + m : j - n \in 1 .. m /\ both[j] = r[j - n]
      BY <2>1, <1>3
    <2> QED BY <2>1, <2>2, <2>3 DEF Joins
  <1>4. Joins(both, s, r, Len(s), Len(r))
    BY <1>1, <1>3
  <1> QED BY <1>4 DEF both

\* The same position by position: the queue ends in p, and order lists children of p.
Round(n, m, h, p, ids, queue, order, all, rest) ==
  /\ n \in Nat /\ m \in Nat /\ h \in Nat /\ nextFile \in Nat /\ p = queue[h + 1]
  /\ \A j \in 1 .. n : ids[j] \in Nat /\ ids[j] < nextFile /\ (j > 1 => ids[1] < ids[j])
  /\ \A j, k \in 1 .. n : ids[j] = ids[k] => j = k
  /\ \A j, k \in 1 .. h + 1 : queue[j] = queue[k] => j = k
  /\ \A j, k \in 1 .. m : order[j] = order[k] => j = k
  /\ \A l \in 1 .. h + 1 : \E k \in 1 .. n : queue[l] = ids[k]
  /\ \A j \in 2 .. n : ids[j] \in DOMAIN files =>
       /\ \E k \in 1 .. j - 1 : files[ids[j]].parent = ids[k]
       /\ \A l \in 1 .. h + 1 : queue[l] # files[ids[j]].parent
  /\ \A j \in 1 .. m : /\ order[j] \in DOMAIN files /\ files[order[j]].parent = p
                       /\ order[j] \in Nat /\ order[j] < nextFile /\ p < order[j]
  /\ \A j \in 1 .. n : all[j] = ids[j]
  /\ \A j \in n + 1 .. n + m : j - n \in 1 .. m /\ all[j] = order[j - n]
  /\ \A j \in 1 .. h : rest[j] = queue[j]
  /\ \A j \in h + 1 .. h + m : j - h \in 1 .. m /\ rest[j] = order[j - h]

RoundEnd(n, m, h, all, rest) ==
  /\ \A j \in 1 .. n + m : all[j] < nextFile /\ (j > 1 => all[1] < all[j])
  /\ \A j, k \in 1 .. n + m : all[j] = all[k] => j = k
  /\ \A l, k \in 1 .. h + m : rest[l] = rest[k] => l = k
  /\ \A l \in 1 .. h + m : \E k \in 1 .. n + m : rest[l] = all[k]
  /\ \A j \in 2 .. n + m : all[j] \in DOMAIN files =>
       /\ \E k \in 1 .. j - 1 : files[all[j]].parent = all[k]
       /\ \A l \in 1 .. h + m : rest[l] # files[all[j]].parent

LEMMA Grown ==
  ASSUME NEW n, NEW m, NEW h, NEW p, NEW ids, NEW queue, NEW order, NEW all, NEW rest,
         Round(n, m, h, p, ids, queue, order, all, rest)
  PROVE  RoundEnd(n, m, h, all, rest)
  <1> USE DEF Round, RoundEnd
  <1>7. PICK f \in 1 .. n : p = ids[f]
    OBVIOUS
  <1>8. ASSUME NEW j \in 1 .. m
        PROVE  ids[1] < order[j] /\ \A k \in 1 .. n : order[j] # ids[k]
    <2>1. order[j] \in Nat /\ p < order[j] /\ order[j] \in DOMAIN files /\ files[order[j]].parent = p
      OBVIOUS
    <2>2. 1 \in 1 .. n /\ ids[1] \in Nat /\ ids[f] \in Nat
      BY <1>7
    <2>3. ids[1] <= p
      <3>1. CASE f = 1
        BY <1>7, <2>2, <3>1
      <3>2. CASE f > 1
        BY <1>7, <2>2, <3>2
      <3> QED BY <1>7, <3>1, <3>2
    <2>4. ids[1] < order[j]
      BY <1>7, <2>1, <2>2, <2>3
    <2>5. ASSUME NEW k \in 1 .. n, order[j] = ids[k] PROVE FALSE
      <3>1. k \in 2 .. n
        BY <2>1, <2>2, <2>4, <2>5
      <3>2. h + 1 \in 1 .. h + 1
        OBVIOUS
      <3> QED BY <2>1, <2>5, <3>1, <3>2
    <2> QED BY <2>4, <2>5
  <1>9. \A j \in 1 .. n + m : all[j] < nextFile /\ (j > 1 => all[1] < all[j])
    <2>1. 1 \in 1 .. n /\ all[1] = ids[1]
      BY <1>7
    <2>2. \A j \in 1 .. n + m : j \in 1 .. n \/ j \in n + 1 .. n + m
      OBVIOUS
    <2> QED BY <1>8, <2>1, <2>2
  <1>10. \A j, k \in 1 .. n + m : all[j] = all[k] => j = k
    <2>1. SUFFICES ASSUME NEW j \in 1 .. n + m, NEW k \in 1 .. n + m, all[j] = all[k] PROVE j = k
      OBVIOUS
    <2>2. CASE j \in 1 .. n /\ k \in 1 .. n
      BY <2>1, <2>2
    <2>3. CASE j \in n + 1 .. n + m /\ k \in n + 1 .. n + m
      <3>1. j - n = k - n /\ j \in Int /\ k \in Int /\ n \in Int
        BY <2>1, <2>3
      <3> QED BY ONLY <3>1
    <2>4. CASE j \in n + 1 .. n + m /\ k \in 1 .. n
      BY <1>8, <2>1, <2>4
    <2>5. CASE j \in 1 .. n /\ k \in n + 1 .. n + m
      BY <1>8, <2>1, <2>5
    <2> QED BY <2>2, <2>3, <2>4, <2>5
  <1>11. ASSUME NEW l \in 1 .. h + m
         PROVE  \/ l \in 1 .. h /\ rest[l] = queue[l]
                \/ \E j \in 1 .. m : l = h + j /\ rest[l] = order[j]
    <2>1. CASE l \in 1 .. h
      BY <2>1
    <2>2. CASE l \in h + 1 .. h + m
      <3>1. l - h \in 1 .. m /\ rest[l] = order[l - h] /\ l = h + (l - h)
        BY <2>2
      <3> QED BY <3>1
    <2> QED BY <2>1, <2>2
  <1>12. ASSUME NEW l \in 1 .. h PROVE l \in 1 .. h + 1 /\ \E k \in 1 .. n : queue[l] = ids[k]
    <2>1. l \in 1 .. h + 1
      OBVIOUS
    <2> QED BY <2>1
  <1>13. \A l, k \in 1 .. h + m : rest[l] = rest[k] => l = k
    BY <1>8, <1>11, <1>12
  <1>14. ASSUME NEW l \in 1 .. h + m PROVE \E k \in 1 .. n + m : rest[l] = all[k]
    <2>1. CASE l \in 1 .. h /\ rest[l] = queue[l]
      <3>1. PICK k \in 1 .. n : queue[l] = ids[k]
        BY <1>12, <2>1
      <3>2. k \in 1 .. n + m /\ all[k] = ids[k]
        OBVIOUS
      <3> QED BY <2>1, <3>1, <3>2
    <2>2. ASSUME NEW j \in 1 .. m, rest[l] = order[j] PROVE \E k \in 1 .. n + m : rest[l] = all[k]
      <3>1. n + j \in n + 1 .. n + m /\ n + j \in 1 .. n + m /\ (n + j) - n = j
        OBVIOUS
      <3>2. all[n + j] = order[j]
        BY <3>1
      <3> QED BY <2>2, <3>1, <3>2
    <2> QED BY <1>11, <2>1, <2>2
  <1>15. ASSUME NEW j \in 2 .. n + m, all[j] \in DOMAIN files
         PROVE  /\ \E k \in 1 .. j - 1 : files[all[j]].parent = all[k]
                /\ \A l \in 1 .. h + m : rest[l] # files[all[j]].parent
    <2>1. CASE j \in 1 .. n
      <3>1. j \in 2 .. n /\ all[j] = ids[j]
        BY <2>1
      <3>2. PICK k \in 1 .. j - 1 : files[ids[j]].parent = ids[k]
        BY <1>15, <3>1
      <3>3. k \in 1 .. n /\ all[k] = ids[k]
        BY <3>1
      <3>4. \A l \in 1 .. h : queue[l] # files[ids[j]].parent
        BY <1>12, <1>15, <3>1
      <3>5. \A i \in 1 .. m : order[i] # files[ids[j]].parent
        BY <1>8, <3>2, <3>3
      <3> QED BY <1>11, <3>1, <3>2, <3>3, <3>4, <3>5
    <2>2. CASE j \in n + 1 .. n + m
      <3>1. j - n \in 1 .. m /\ all[j] = order[j - n] /\ files[all[j]].parent = p
        BY <1>8, <2>2
      <3>2. f \in 1 .. j - 1 /\ all[f] = p
        BY <1>7, <2>2
      <3>3. \A l \in 1 .. h : queue[l] # p
        OBVIOUS
      <3>4. \A i \in 1 .. m : order[i] # p
        BY <1>7, <1>8
      <3> QED BY <1>11, <3>1, <3>2, <3>3, <3>4
    <2> QED BY <2>1, <2>2
  <1> QED BY <1>9, <1>10, <1>13, <1>14, <1>15

\* One round of collectSubtree: the children of the last of the queue are new, because their
\* folder is still in the queue, and younger than the root, because they are younger than it.
LEMMA ListedGrows ==
  ASSUME TypeOK, TreeShape, NEW ids \in Seq(Nat), NEW queue \in Seq(Nat), queue # <<>>,
         Listed(ids, queue), NEW u, NEW flag, NEW order \in SetToSeqs(Kids(u, Last(queue), flag))
  PROVE  Listed(ids \o order, Front(queue) \o order)
  <1> DEFINE p == Last(queue)
             all == ids \o order
             rest == Front(queue) \o order
  <1>1. /\ order \in Seq(Nat) /\ IsInjective(order)
        /\ \A j \in 1 .. Len(order) : order[j] \in Kids(u, p, flag)
    BY KidsOrders DEF TypeOK, SetToSeqs, IsInjective
  <1>2. PICK n \in Nat, m \in Nat, h \in Nat :
          /\ Len(ids) = n /\ Len(order) = m /\ Len(queue) = h + 1 /\ Len(Front(queue)) = h
          /\ p = queue[h + 1] /\ Front(queue) \in Seq(Nat)
          /\ \A j \in 1 .. h : Front(queue)[j] = queue[j]
    <2>1. Len(queue) \in Nat /\ Len(queue) # 0 /\ Len(ids) \in Nat /\ Len(order) \in Nat
      BY <1>1, EmptySeq, LenProperties
    <2>2. /\ Front(queue) \in Seq(Nat) /\ p = queue[Len(queue)] /\ Len(Front(queue)) = Len(queue) - 1
          /\ \A j \in 1 .. Len(queue) - 1 : Front(queue)[j] = queue[j]
      BY FrontLast
    <2>3. ASSUME NEW k \in Nat, k # 0 PROVE \E h \in Nat : k = h + 1 /\ h = k - 1
      <3>1. k - 1 \in Nat /\ k = (k - 1) + 1
        BY <2>3
      <3> QED BY <3>1
    <2>4. PICK h \in Nat : Len(queue) = h + 1 /\ h = Len(queue) - 1
      BY <2>1, <2>3
    <2> HIDE DEF p
    <2> QED BY <2>1, <2>2, <2>4
  <1>3. /\ Len(all) = n + m /\ DOMAIN all = 1 .. n + m
        /\ \A j \in 1 .. n : all[j] = ids[j]
        /\ \A j \in n + 1 .. n + m : j - n \in 1 .. m /\ all[j] = order[j - n]
    <2>1. Joins(all, ids, order, n, m)
      BY <1>1, <1>2, Joined
    <2> QED BY <2>1 DEF Joins
  <1>4. /\ Len(rest) = h + m /\ DOMAIN rest = 1 .. h + m
        /\ \A j \in 1 .. h : rest[j] = queue[j]
        /\ \A j \in h + 1 .. h + m : j - h \in 1 .. m /\ rest[j] = order[j - h]
    <2>1. Joins(rest, Front(queue), order, h, m)
      BY <1>1, <1>2, Joined
    <2> QED BY <1>2, <2>1 DEF Joins
  <1>5. DOMAIN ids = 1 .. n /\ DOMAIN queue = 1 .. h + 1 /\ DOMAIN order = 1 .. m
    BY <1>1, <1>2, LenProperties
  <1>6. /\ \A j \in 1 .. n : ids[j] \in Nat /\ ids[j] < nextFile /\ (j > 1 => ids[1] < ids[j])
        /\ \A j, k \in 1 .. n : ids[j] = ids[k] => j = k
        /\ \A j, k \in 1 .. h + 1 : queue[j] = queue[k] => j = k
        /\ \A j, k \in 1 .. m : order[j] = order[k] => j = k
        /\ \A l \in 1 .. h + 1 : \E k \in 1 .. n : queue[l] = ids[k]
        /\ \A j \in 2 .. n : ids[j] \in DOMAIN files =>
             /\ \E k \in 1 .. j - 1 : files[ids[j]].parent = ids[k]
             /\ \A l \in 1 .. h + 1 : queue[l] # files[ids[j]].parent
    <2>1. \A j \in 1 .. n : ids[j] \in Nat
      BY <1>2, ElementOfSeq
    <2> QED BY <1>1, <1>2, <1>5, <2>1 DEF Listed, IsInjective
  <1>7. ASSUME NEW j \in 1 .. m
        PROVE  /\ order[j] \in DOMAIN files /\ files[order[j]].parent = p
               /\ order[j] \in Nat /\ order[j] < nextFile /\ p < order[j]
    <2>1. order[j] \in Kids(u, p, flag)
      BY <1>1, <1>2
    <2>2. DOMAIN files \subseteq 1 .. (nextFile - 1) /\ nextFile \in Nat
      BY DEF TypeOK, TablesOK
    <2>3. order[j] \in DOMAIN files /\ files[order[j]].parent = p
      BY <2>1 DEF Kids
    <2>4. p < order[j]
      BY <2>3 DEF TreeShape
    <2> QED BY <2>2, <2>3, <2>4
  <1>8. nextFile \in Nat
    BY DEF TypeOK, TablesOK
  <1> HIDE DEF p, all, rest
  <1>9. RoundEnd(n, m, h, all, rest)
    <2>1. Round(n, m, h, p, ids, queue, order, all, rest)
      BY <1>2, <1>3, <1>4, <1>6, <1>7, <1>8 DEF Round
    <2> QED BY <2>1, Grown
  <1>10. IsInjective(all) /\ IsInjective(rest)
    BY <1>3, <1>4, <1>9 DEF IsInjective, RoundEnd
  <1>11. Listed(all, rest)
    BY <1>3, <1>4, <1>9, <1>10 DEF Listed, RoundEnd
  <1> QED BY <1>11 DEF all, rest

\* Where a step of collectSubtree or of a purge leads, the list is still in order.
LEMMA ListedLands ==
  ASSUME TypeOK, TreeShape, CollectOK, NEW t \in Threads, Step(t), OthersSame(t),
         NEW label, label = pc'[t], NEW w, w = work'[t]
  PROVE  ListedAt(label, w)
  <1> USE DEF At
  <1>0. /\ pc \in [Threads -> Labels] /\ work \in [Threads -> Work] /\ work[t] \in Work
        /\ work[t].ids \in Seq(Nat) /\ work[t].queue \in Seq(Nat)
        /\ Fits(pc[t], work[t]) /\ ListedAt(pc[t], work[t])
    BY DEF TypeOK, HandlersOK, Work, CollectOK
  <1>n. ASSUME label \notin {"restoreName", "collect"} \cup PurgeLabels PROVE ListedAt(label, w)
    BY <1>n DEF ListedAt
  <1>i. ASSUME Reply(t) \/ Undefined(t) PROVE ListedAt(label, w)
    <2>1. label = "idle"
      BY <1>0, <1>i DEF Reply, Undefined, Abandon, Die
    <2> QED BY <1>n, <2>1 DEF PurgeLabels
  <1>g. \A l : Goto(t, l) => label = l
    BY <1>0 DEF Goto
  <1>s. ASSUME w.ids = work[t].ids, pc[t] \in PurgeLabels, label \in PurgeLabels PROVE ListedAt(label, w)
    BY <1>0, <1>s DEF ListedAt, PurgeLabels
  <1>v. ASSUME NextVictim(t), pc[t] \in PurgeLabels PROVE ListedAt(label, w)
    <2>1. CASE Front(work[t].ids) = <<>>
      BY <1>i, <1>v, <2>1 DEF NextVictim
    <2>2. CASE Front(work[t].ids) # <<>>
      <3>1. label = "pick" /\ w = [work[t] EXCEPT !.ids = Front(work[t].ids)]
        BY <1>0, <1>g, <1>v, <2>2 DEF NextVictim
      <3>2. w.ids = Front(work[t].ids)
        BY <1>0, <3>1 DEF Work
      <3>3. work[t].ids # <<>> /\ Listed(work[t].ids, <<>>)
        BY <1>0, <1>v DEF Fits, ListedAt
      <3>4. Listed(w.ids, <<>>)
        BY <1>0, <3>2, <3>3, ListedFront
      <3> QED BY <3>1, <3>4 DEF ListedAt
    <2> QED BY <2>1, <2>2
  <1>1. CASE \/ CheckParent(t) \/ CheckName(t) \/ InsertDir(t) \/ FindObject(t) \/ OpenObject(t)
             \/ InsertObject(t) \/ FetchObject(t) \/ CheckExists(t) \/ AddRef(t) \/ InsertRow(t) \/ AddUsed(t)
    <2>1. \/ Reply(t) \/ Undefined(t)
          \/ \E l \in {"name", "insertDir", "fetchDir", "findObj", "exists", "addRef", "write", "fill", "refill",
                       "fetchObj", "insertRow", "rewrite", "addUsed", "fetchId"} : Goto(t, l)
      BY <1>1 DEF CheckParent, CheckName, InsertDir, FindObject, OpenObject, InsertObject, FetchObject,
                  CheckExists, AddRef, InsertRow, AddUsed
    <2> QED BY <1>n, <1>i, <1>g, <2>1 DEF PurgeLabels
  <1>2. CASE WriteObject(t) \/ RewriteObject(t)
    <2>1. label \in {"insertObj", "addRef"}
      BY <1>0, <1>2 DEF WriteObject, RewriteObject
    <2> QED BY <1>n, <2>1 DEF PurgeLabels
  <1>3. CASE FetchDir(t) \/ FetchId(t) \/ InsertShare(t)
    BY <1>3, <1>i DEF FetchDir, FetchId, InsertShare
  <1>4. CASE FindRoot(t)
    <2>1. CASE Reply(t)
      BY <1>i, <2>1
    <2>2. CASE ~Reply(t)
      <3>1. /\ RootFound(req[t]) /\ label \in {"insertShare", "restoreName", "collect"}
            /\ w = [work[t] EXCEPT !.row = files[req[t].id], !.ids = <<req[t].id>>, !.queue = <<req[t].id>>]
        BY <1>0, <1>4, <1>g, <2>2 DEF FindRoot, AfterRoot
      <3>2. w.ids = <<req[t].id>> /\ w.queue = <<req[t].id>>
        BY <1>0, <3>1 DEF Work
      <3>3. req[t].id \in DOMAIN files
        BY <3>1 DEF RootFound, ActiveRow, DeletedRow
      <3>4. Listed(w.ids, w.queue)
        BY <3>2, <3>3, ListedRoot
      <3> QED BY <3>1, <3>4 DEF ListedAt, PurgeLabels
    <2> QED BY <2>1, <2>2
  <1>5. CASE CheckRestoreName(t)
    <2>1. CASE Reply(t)
      BY <1>i, <2>1
    <2>2. CASE ~Reply(t)
      <3>1. pc[t] = "restoreName" /\ label = "collect" /\ w = work[t]
        BY <1>5, <1>g, <2>2 DEF CheckRestoreName
      <3> QED BY <1>0, <3>1 DEF ListedAt, PurgeLabels
    <2> QED BY <2>1, <2>2
  <1>6. CASE CollectKids(t)
    <2>1. pc[t] = "collect" /\ work[t].queue # <<>> /\ Listed(work[t].ids, work[t].queue)
      BY <1>0, <1>6 DEF CollectKids, Fits, ListedAt
    <2>2. PICK order \in SetToSeqs(Kids(req[t].user, Last(work[t].queue), req[t].op # "delete")) :
            LET rest == Front(work[t].queue) \o order IN
            /\ work' = [work EXCEPT ![t].ids = @ \o order, ![t].queue = rest]
            /\ Goto(t, IF rest = <<>> THEN AfterCollect(req[t].op) ELSE "collect")
      BY <1>6 DEF CollectKids
    <2> DEFINE rest == Front(work[t].queue) \o order
    <2>3. /\ w = [work[t] EXCEPT !.ids = work[t].ids \o order, !.queue = rest]
          /\ label = IF rest = <<>> THEN AfterCollect(req[t].op) ELSE "collect"
      BY <1>0, <1>g, <2>2
    <2>4. w.ids = work[t].ids \o order /\ w.queue = rest
      BY <1>0, <2>3 DEF Work
    <2>5. Listed(w.ids, w.queue)
      BY <1>0, <2>1, <2>4, ListedGrows
    <2>6. label = "collect" \/ (rest = <<>> /\ label \in {"mark", "unmark", "pick"})
      BY <2>3 DEF AfterCollect
    <2> HIDE DEF rest
    <2> QED BY <2>4, <2>5, <2>6 DEF ListedAt, PurgeLabels
  <1>7. CASE SoftDeleteNext(t) \/ RestoreNext(t)
    <2>1. Reply(t) \/ label \in {"mark", "unmark"}
      BY <1>7 DEF SoftDeleteNext, RestoreNext, SetDeleted
    <2> QED BY <1>n, <1>i, <2>1 DEF PurgeLabels
  <1>8. CASE DropShares(t) \/ SubUsed(t) \/ Unref(t) \/ Unlink(t)
    <2>1. w = work[t] /\ pc[t] \in PurgeLabels /\ label \in PurgeLabels
      BY <1>0, <1>8, <1>g DEF DropShares, SubUsed, Unref, Unlink, PurgeLabels
    <2> QED BY <1>s, <2>1
  <1>9. CASE PickVictim(t) \/ ReadRef(t)
    <2>1. pc[t] \in PurgeLabels
      BY <1>9 DEF PickVictim, ReadRef, PurgeLabels
    <2>2. CASE ~NextVictim(t)
      <3>1. /\ label \in PurgeLabels
            /\ \E x : w = [work[t] EXCEPT !.row = x] \/ w = [work[t] EXCEPT !.path = x]
        BY <1>0, <1>9, <1>g, <2>2 DEF PickVictim, ReadRef, PurgeLabels
      <3>2. w.ids = work[t].ids
        BY <1>0, <3>1 DEF Work
      <3> QED BY <1>s, <2>1, <3>1, <3>2
    <2> QED BY <1>v, <2>1, <2>2
  <1>10. CASE DropRow(t) \/ DropObject(t)
    <2>1. pc[t] \in PurgeLabels
      BY <1>10 DEF DropRow, DropObject, PurgeLabels
    <2>2. Reply(t) \/ NextVictim(t) \/ (Goto(t, "subUsed") /\ w = work[t])
      BY <1>10 DEF DropRow, DropObject
    <2>3. "subUsed" \in PurgeLabels
      BY DEF PurgeLabels
    <2> QED BY <1>i, <1>v, <1>s, <1>g, <2>1, <2>2, <2>3
  <1> QED BY <1>1, <1>2, <1>3, <1>4, <1>5, <1>6, <1>7, <1>8, <1>9, <1>10 DEF Step

LEMMA SkippedListed ==
  ASSUME TypeOK, CollectOK, NEW t \in Threads, Skipped(t),
         NEW label, label = pc'[t], NEW w, w = work'[t]
  PROVE  ListedAt(label, w)
  <1>0. /\ pc \in [Threads -> Labels] /\ work \in [Threads -> Work] /\ work[t] \in Work
        /\ work[t].ids \in Seq(Nat) /\ work[t].queue \in Seq(Nat)
        /\ Fits(pc[t], work[t]) /\ ListedAt(pc[t], work[t])
    BY DEF TypeOK, HandlersOK, Work, CollectOK
  <1>1. CASE label \notin {"restoreName", "collect"} \cup PurgeLabels
    BY <1>1 DEF ListedAt
  <1>2. CASE pc[t] = "restoreName"
    <2>1. label = "collect" /\ w = [work[t] EXCEPT !.unseen = @ \cup {"restoreName"}]
      BY <1>0, <1>2, SkippedTo
    <2>2. w.ids = work[t].ids /\ w.queue = work[t].queue
      BY <1>0, <2>1 DEF Work
    <2> QED BY <1>0, <1>2, <2>1, <2>2 DEF ListedAt, PurgeLabels
  <1>3. CASE pc[t] = "collect"
    <2>1. /\ w = [work[t] EXCEPT !.queue = Front(@)]
          /\ label = IF Front(work[t].queue) = <<>> THEN AfterCollect(req[t].op) ELSE "collect"
      BY <1>0, <1>3, SkippedTo
    <2>2. w.ids = work[t].ids /\ w.queue = Front(work[t].queue)
      BY <1>0, <2>1 DEF Work
    <2>3. work[t].queue # <<>> /\ Listed(work[t].ids, work[t].queue)
      BY <1>0, <1>3 DEF Fits, ListedAt
    <2>4. Listed(w.ids, w.queue)
      BY <1>0, <2>2, <2>3, ListedPast
    <2>5. label = "collect" \/ (w.queue = <<>> /\ label \in {"mark", "unmark", "pick"})
      BY <2>1, <2>2 DEF AfterCollect
    <2> QED BY <2>4, <2>5 DEF ListedAt, PurgeLabels
  <1>4. CASE pc[t] \in {"pick", "readRef"}
    <2>1. label = "pick" /\ w = [work[t] EXCEPT !.ids = Front(@)]
      BY <1>0, <1>4, SkippedTo
    <2>2. w.ids = Front(work[t].ids)
      BY <1>0, <2>1 DEF Work
    <2>3. work[t].ids # <<>> /\ Listed(work[t].ids, <<>>)
      BY <1>0, <1>4 DEF Fits, ListedAt, PurgeLabels
    <2>4. Listed(w.ids, <<>>)
      BY <1>0, <2>2, <2>3, ListedFront
    <2> QED BY <2>1, <2>4 DEF ListedAt
  <1>5. pc[t] \in {"name", "findObj"} => label \in {"insertDir", "findObj", "write"}
    BY <1>0, SkippedTo
  <1> QED BY <1>1, <1>2, <1>3, <1>4, <1>5, SkippedTo DEF PurgeLabels

LEMMA CollectStep ==
  ASSUME TypeOK, TypeOK', TreeShape, CollectOK, [Next]_vars
  PROVE  CollectOK'
  <1>e. <<>> \in Seq(Nat)
    OBVIOUS
  <1>1. ASSUME NEW t \in Threads, Step(t), OthersSame(t) PROVE CollectOK'
    <2>1. ASSUME NEW l \in Labels, NEW w \in Work, ListedAt(l, w) PROVE ListedAt(l, w)'
      <3>1. w.ids \in Seq(Nat) /\ w.queue \in Seq(Nat)
        BY DEF Work
      <3>2. Listed(w.ids, w.queue) => Listed(w.ids, w.queue)'
        BY <1>1, <3>1, ListedStays
      <3>3. Listed(w.ids, <<>>) => Listed(w.ids, <<>>)'
        BY <1>1, <1>e, <3>1, ListedStays
      <3> QED BY <2>1, <3>2, <3>3 DEF ListedAt
    <2>2. ASSUME NEW s \in Threads, NEW l, l = pc'[s], NEW w, w = work'[s] PROVE ListedAt(l, w)
      <3>1. CASE s = t
        BY <1>1, <2>2, <3>1, ListedLands
      <3>2. CASE s # t
        BY <1>1, <2>2, <3>2 DEF OthersSame, CollectOK
      <3> QED BY <3>1, <3>2
    <2>3. ASSUME NEW s \in Threads PROVE pc'[s] \in Labels /\ work'[s] \in Work
      BY DEF TypeOK, HandlersOK
    <2>4. ASSUME NEW s \in Threads, NEW l, l = pc'[s], NEW w, w = work'[s] PROVE ListedAt(l, w)'
      BY <2>1, <2>2, <2>3, <2>4
    <2> QED BY <2>4 DEF CollectOK
  <1>2. ASSUME \A s \in Threads : (pc'[s] = pc[s] /\ work'[s] = work[s]) \/ ListedAt(pc'[s], work'[s]),
               UNCHANGED tables
        PROVE  CollectOK'
    <2>1. \A ids, queue : Listed(ids, queue) => Listed(ids, queue)'
      BY <1>2 DEF Listed, tables
    <2> QED BY <1>2, <2>1 DEF CollectOK, ListedAt
  <1>i. ASSUME NEW l \in {"idle", "parent", "root"}, NEW w PROVE ListedAt(l, w)
    BY DEF ListedAt, PurgeLabels
  <1>3. ASSUME NEW t \in Threads, OthersSame(t), pc'[t] \in {"idle", "parent", "root"} \/ Skipped(t),
               UNCHANGED tables
        PROVE  CollectOK'
    BY <1>2, <1>i, <1>3, SkippedListed DEF OthersSame
  <1>4. ASSUME Die, UNCHANGED tables PROVE CollectOK'
    BY <1>2, <1>i, <1>4, DieIdle
  <1>5. ASSUME UNCHANGED vars PROVE CollectOK'
    BY <1>2, <1>5 DEF vars, handler
  <1> QED BY <1>1, <1>3, <1>4, <1>5, Moves

LEMMA CollectedInOrder == CollectOK /\ TypeOK => ChildrenFirst
  <1> SUFFICES ASSUME CollectOK, TypeOK, NEW t \in Threads, pc[t] \in {"collect", "pick"}
               PROVE  \A j \in 2 .. Len(work[t].ids) :
                        /\ work[t].ids[j] \notin {work[t].ids[k] : k \in 1 .. j - 1}
                        /\ work[t].ids[j] \in DOMAIN files
                             => files[work[t].ids[j]].parent \in {work[t].ids[k] : k \in 1 .. j - 1}
    BY DEF ChildrenFirst
  <1> DEFINE ids == work[t].ids
  <1>1. SUFFICES ASSUME NEW j \in 2 .. Len(ids)
                 PROVE  /\ ids[j] \notin {ids[k] : k \in 1 .. j - 1}
                        /\ ids[j] \in DOMAIN files => files[ids[j]].parent \in {ids[k] : k \in 1 .. j - 1}
    OBVIOUS
  <1>2. ids \in Seq(Nat)
    BY <1>1 DEF TypeOK, HandlersOK, Work
  <1>3. Len(ids) \in Nat /\ DOMAIN ids = 1 .. Len(ids)
    BY <1>2, LenProperties
  <1>4. PICK queue : Listed(ids, queue)
    BY <1>1 DEF CollectOK, ListedAt, PurgeLabels
  <1>5. IsInjective(ids) /\ (ids[j] \in DOMAIN files => \E k \in 1 .. j - 1 : files[ids[j]].parent = ids[k])
    BY <1>4 DEF Listed
  <1>6. ASSUME NEW k \in 1 .. j - 1 PROVE ids[j] # ids[k]
    <2>1. j \in DOMAIN ids /\ k \in DOMAIN ids /\ j # k
      BY <1>1, <1>3
    <2> QED BY <1>5, <2>1 DEF IsInjective
  <1> QED BY <1>5, <1>6

\* Whatever is created, deleted, restored and purged meanwhile, and with any faults: the ids
\* that a delete, a restore or a purge has collected are different, and each comes after the
\* folder it is in, so permanentDeleteTree drops it before that (FileOps.cpp 65-85 and 195-219).
THEOREM ChildrenFirstHolds == Spec => []ChildrenFirst
  <1>1. Init => CollectOK
    BY DEF Init, CollectOK, ListedAt, PurgeLabels
  <1>2. TypeOK /\ TypeOK' /\ TreeShape /\ CollectOK /\ [Next]_vars => CollectOK'
    BY CollectStep
  <1> QED BY <1>1, <1>2, TypeCorrect, TreeShapeHolds, CollectedInOrder, PTL DEF Spec

----------------------------------------------------------------------------
\* Sums over finite sets, by induction on the number of elements.

\* Induction, with a set of numbers for the predicate.
LEMMA AllNumbers ==
  ASSUME NEW T, T \subseteq Nat, 0 \in T, \A n \in T : n + 1 \in T
  PROVE  T = Nat
  <1> SUFFICES ASSUME Nat \ T # {} PROVE FALSE
    OBVIOUS
  <1>1. PICK n \in Nat \ T : \A k \in Nat \ T : ~ (<<k, n>> \in OpToRel(<, Nat))
    BY NatLessThanWellFounded, WFMin
  <1>2. n # 0 /\ n - 1 \in Nat
    OBVIOUS
  <1>3. <<n - 1, n>> \in {ss \in Nat \X Nat : ss[1] < ss[2]}
    BY <1>2
  <1>4. n - 1 \in T
    BY <1>1, <1>2, <1>3 DEF OpToRel
  <1> QED BY <1>2, <1>4

\* The sum of f over a set, as MapThenSumSet forms it: g has the sums of the subsets.
Chosen(s) == CHOOSE x \in s : TRUE
Upto(S, n) == {s \in SUBSET S : Cardinality(s) <= n}
Adds(f, D, g) == g = [s \in D |-> IF s = {} THEN 0 ELSE f[Chosen(s)] + g[s \ {Chosen(s)}]]
Sums(f, S, g) == Adds(f, SUBSET S, g)
Alike(e, f, S) == \A x \in S : e[x] = f[x]
Total(f, S) == MapThenSumSet(LAMBDA x : f[x], S)

LEMMA TotalIsChosen ==
  ASSUME NEW f, NEW S
  PROVE  Total(f, S) = (CHOOSE g : Sums(f, S, g))[S]
  BY DEF Sums, Total, MapThenSumSet, MapThenFoldSet, Adds, Chosen

PartsOf(S, s) ==
  /\ IsFiniteSet(s) /\ Cardinality(s) \in Nat /\ Cardinality(s) <= Cardinality(S)
  /\ s = {} <=> Cardinality(s) = 0
  /\ s # {} => /\ Chosen(s) \in s /\ s \ {Chosen(s)} \in SUBSET S
               /\ Cardinality(s \ {Chosen(s)}) = Cardinality(s) - 1

LEMMA Parts ==
  ASSUME NEW S, IsFiniteSet(S)
  PROVE  \A s \in SUBSET S : PartsOf(S, s)
  <1> SUFFICES ASSUME NEW s \in SUBSET S PROVE PartsOf(S, s)
    OBVIOUS
  <1>1. IsFiniteSet(s) /\ Cardinality(s) <= Cardinality(S)
    BY FS_Subset
  <1>2. Cardinality(s) \in Nat /\ (s = {} <=> Cardinality(s) = 0)
    BY <1>1, FS_CardinalityType, FS_EmptySet
  <1>3. ASSUME s # {}
        PROVE  /\ Chosen(s) \in s /\ s \ {Chosen(s)} \in SUBSET S
               /\ Cardinality(s \ {Chosen(s)}) = Cardinality(s) - 1
    <2>1. Chosen(s) \in s
      BY <1>3 DEF Chosen
    <2> QED BY <1>1, <2>1, FS_RemoveElement
  <1> QED BY <1>1, <1>2, <1>3 DEF PartsOf

LEMMA SumsExist ==
  ASSUME NEW S, IsFiniteSet(S), NEW f
  PROVE  \E g : Sums(f, S, g)
  <1> DEFINE T == {n \in Nat : \E g : Adds(f, Upto(S, n), g)}
  <1>p. \A s \in SUBSET S : PartsOf(S, s)
    BY Parts
  <1>1. 0 \in T
    <2> DEFINE g == [s \in Upto(S, 0) |-> 0]
    <2>1. ASSUME NEW s \in Upto(S, 0) PROVE s = {}
      <3>1. PartsOf(S, s) /\ Cardinality(s) <= 0
        BY <1>p DEF Upto
      <3> QED BY <3>1 DEF PartsOf
    <2>2. Adds(f, Upto(S, 0), g)
      BY <2>1 DEF Adds
    <2> QED BY <2>2
  <1>2. ASSUME NEW n \in T PROVE n + 1 \in T
    <2>1. PICK g : Adds(f, Upto(S, n), g)
      OBVIOUS
    <2> DEFINE V(s) == IF s = {} THEN 0 ELSE f[Chosen(s)] + g[s \ {Chosen(s)}]
               h == [s \in Upto(S, n + 1) |-> V(s)]
    <2>a. ASSUME NEW s \in Upto(S, n) PROVE s \in Upto(S, n + 1)
      <3>1. s \in SUBSET S /\ PartsOf(S, s) /\ Cardinality(s) <= n
        BY <1>p DEF Upto
      <3>2. Cardinality(s) <= n + 1
        BY <3>1 DEF PartsOf
      <3> QED BY <3>1, <3>2 DEF Upto
    <2>2. \A s \in Upto(S, n) : s \in Upto(S, n + 1) /\ g[s] = V(s)
      BY <2>1, <2>a DEF Adds
    <2>3. \A s \in Upto(S, n) : h[s] = g[s]
      BY <2>2
    <2>4. \A s \in Upto(S, n + 1) : s # {} => s \ {Chosen(s)} \in Upto(S, n)
      BY <1>p DEF Upto, PartsOf
    <2>5. h = [s \in Upto(S, n + 1) |-> IF s = {} THEN 0 ELSE f[Chosen(s)] + h[s \ {Chosen(s)}]]
      BY <2>3, <2>4
    <2>6. Adds(f, Upto(S, n + 1), h)
      BY <2>5 DEF Adds
    <2> QED BY <2>6
  <1>3. T = Nat
    <2> HIDE DEF T
    <2>1. T \subseteq Nat
      BY DEF T
    <2> QED BY <1>1, <1>2, <2>1, AllNumbers
  <1>4. Cardinality(S) \in Nat
    BY FS_CardinalityType
  <1>5. Upto(S, Cardinality(S)) = SUBSET S
    BY <1>p DEF Upto, PartsOf
  <1>6. Cardinality(S) \in T
    <2> HIDE DEF T
    <2> QED BY <1>3, <1>4
  <1>7. PICK g : Adds(f, Upto(S, Cardinality(S)), g)
    BY <1>6
  <1>8. Sums(f, S, g)
    BY <1>5, <1>7 DEF Sums
  <1> QED BY <1>8

\* There is one such g, whatever larger set it is defined on.
LEMMA SumsAgree ==
  ASSUME NEW S, IsFiniteSet(S), NEW R, R \subseteq S, NEW e, NEW f, Alike(e, f, R),
         NEW g, Sums(e, S, g), NEW h, Sums(f, R, h)
  PROVE  g[R] = h[R]
  <1> DEFINE T == {n \in Nat : \A s \in SUBSET R : Cardinality(s) = n => g[s] = h[s]}
  <1>p. \A s \in SUBSET R :
          /\ Cardinality(s) \in Nat
          /\ s = {} <=> Cardinality(s) = 0
          /\ s # {} => /\ Chosen(s) \in s /\ s \ {Chosen(s)} \in SUBSET R
                       /\ Cardinality(s \ {Chosen(s)}) = Cardinality(s) - 1
    <2>1. IsFiniteSet(R)
      BY FS_Subset
    <2> QED BY <2>1, Parts DEF PartsOf
  <1>q. \A s \in SUBSET R :
          /\ g[s] = IF s = {} THEN 0 ELSE e[Chosen(s)] + g[s \ {Chosen(s)}]
          /\ h[s] = IF s = {} THEN 0 ELSE f[Chosen(s)] + h[s \ {Chosen(s)}]
    BY DEF Sums, Adds
  <1>1. 0 \in T
    BY <1>p, <1>q
  <1>2. ASSUME NEW n \in T PROVE n + 1 \in T
    <2>1. SUFFICES ASSUME NEW s \in SUBSET R, Cardinality(s) = n + 1 PROVE g[s] = h[s]
      OBVIOUS
    <2>2. s # {} /\ Chosen(s) \in R
      BY <1>p, <2>1
    <2>3. g[s \ {Chosen(s)}] = h[s \ {Chosen(s)}]
      <3>1. s \ {Chosen(s)} \in SUBSET R /\ Cardinality(s \ {Chosen(s)}) = n
        BY <1>p, <2>1, <2>2
      <3> QED BY <3>1
    <2> QED BY <1>q, <2>1, <2>2, <2>3 DEF Alike
  <1>3. T = Nat
    <2> HIDE DEF T
    <2>1. T \subseteq Nat
      BY DEF T
    <2> QED BY <1>1, <1>2, <2>1, AllNumbers
  <1> QED BY <1>3, <1>p

LEMMA TotalHas ==
  ASSUME NEW S, IsFiniteSet(S), NEW f
  PROVE  \E g : Sums(f, S, g) /\ Total(f, S) = g[S]
  <1> DEFINE g == CHOOSE x : Sums(f, S, x)
  <1>1. Sums(f, S, g)
    BY SumsExist
  <1>2. Total(f, S) = g[S]
    BY TotalIsChosen
  <1> QED BY <1>1, <1>2

LEMMA TotalSame ==
  ASSUME NEW S, IsFiniteSet(S), NEW e, NEW f, Alike(e, f, S)
  PROVE  Total(e, S) = Total(f, S)
  <1>1. PICK g : Sums(e, S, g) /\ Total(e, S) = g[S]
    BY TotalHas
  <1>2. PICK h : Sums(f, S, h) /\ Total(f, S) = h[S]
    BY TotalHas
  <1>3. S \subseteq S
    OBVIOUS
  <1> QED BY <1>1, <1>2, <1>3, SumsAgree

LEMMA TotalFirst ==
  ASSUME NEW S, IsFiniteSet(S), NEW f
  PROVE  /\ S = {} => Total(f, S) = 0
         /\ S # {} => Total(f, S) = f[Chosen(S)] + Total(f, S \ {Chosen(S)})
  <1>1. PICK g : Sums(f, S, g) /\ Total(f, S) = g[S]
    BY TotalHas
  <1>2. g[S] = IF S = {} THEN 0 ELSE f[Chosen(S)] + g[S \ {Chosen(S)}]
    BY <1>1 DEF Sums, Adds
  <1>3. ASSUME S # {} PROVE g[S \ {Chosen(S)}] = Total(f, S \ {Chosen(S)})
    <2> DEFINE R == S \ {Chosen(S)}
    <2>1. IsFiniteSet(R)
      BY FS_Subset
    <2>2. PICK h : Sums(f, R, h) /\ Total(f, R) = h[R]
      BY <2>1, TotalHas
    <2>3. R \subseteq S /\ Alike(f, f, R)
      BY DEF Alike
    <2> HIDE DEF R
    <2>4. g[R] = h[R]
      BY <1>1, <2>2, <2>3, SumsAgree
    <2> QED BY <2>2, <2>4 DEF R
  <1> QED BY <1>1, <1>2, <1>3

LEMMA TotalNat ==
  ASSUME NEW S, IsFiniteSet(S), NEW f, \A x \in S : f[x] \in Nat
  PROVE  Total(f, S) \in Nat
  <1> DEFINE T == {n \in Nat : \A s \in SUBSET S : Cardinality(s) = n => Total(f, s) \in Nat}
  <1>p. \A s \in SUBSET S : PartsOf(S, s)
    BY Parts
  <1>0. \A s \in SUBSET S : /\ s = {} => Total(f, s) = 0
                            /\ s # {} => Total(f, s) = f[Chosen(s)] + Total(f, s \ {Chosen(s)})
    <2> SUFFICES ASSUME NEW s \in SUBSET S
                 PROVE  /\ s = {} => Total(f, s) = 0
                        /\ s # {} => Total(f, s) = f[Chosen(s)] + Total(f, s \ {Chosen(s)})
      OBVIOUS
    <2>1. IsFiniteSet(s)
      BY <1>p DEF PartsOf
    <2> QED BY <2>1, TotalFirst
  <1>1. 0 \in T
    BY <1>0, <1>p DEF PartsOf
  <1>2. ASSUME NEW n \in T PROVE n + 1 \in T
    <2>1. SUFFICES ASSUME NEW s \in SUBSET S, Cardinality(s) = n + 1 PROVE Total(f, s) \in Nat
      OBVIOUS
    <2>2. /\ s # {} /\ Chosen(s) \in S /\ s \ {Chosen(s)} \in SUBSET S
          /\ Cardinality(s \ {Chosen(s)}) = n
      BY <1>p, <2>1 DEF PartsOf
    <2>3. Total(f, s \ {Chosen(s)}) \in Nat
      BY <2>2
    <2> QED BY <1>0, <2>1, <2>2, <2>3
  <1>3. T = Nat
    <2> HIDE DEF T
    <2>1. T \subseteq Nat
      BY DEF T
    <2> QED BY <1>1, <1>2, <2>1, AllNumbers
  <1>4. Cardinality(S) \in Nat /\ S \in SUBSET S
    BY FS_CardinalityType
  <1>5. Cardinality(S) \in T
    BY <1>3, <1>4
  <1> QED BY <1>4, <1>5

LEMMA TotalPlus ==
  ASSUME NEW S, IsFiniteSet(S), NEW f, \A x \in S : f[x] \in Nat, NEW y \in S
  PROVE  Total(f, S) = Total(f, S \ {y}) + f[y]
  <1> DEFINE T == {n \in Nat : \A s \in SUBSET S : \A z \in s :
                                 Cardinality(s) = n => Total(f, s) = Total(f, s \ {z}) + f[z]}
  <1>p. \A s \in SUBSET S : PartsOf(S, s)
    BY Parts
  <1>0. \A s \in SUBSET S : /\ s # {} => Total(f, s) = f[Chosen(s)] + Total(f, s \ {Chosen(s)})
                            /\ Total(f, s) \in Nat
    <2> SUFFICES ASSUME NEW s \in SUBSET S
                 PROVE  /\ s # {} => Total(f, s) = f[Chosen(s)] + Total(f, s \ {Chosen(s)})
                        /\ Total(f, s) \in Nat
      OBVIOUS
    <2>1. IsFiniteSet(s) /\ \A x \in s : f[x] \in Nat
      BY <1>p DEF PartsOf
    <2> QED BY <2>1, TotalFirst, TotalNat
  <1>1. 0 \in T
    BY <1>p DEF PartsOf
  <1>2. ASSUME NEW n \in T PROVE n + 1 \in T
    <2>1. SUFFICES ASSUME NEW s \in SUBSET S, NEW z \in s, Cardinality(s) = n + 1
                   PROVE  Total(f, s) = Total(f, s \ {z}) + f[z]
      OBVIOUS
    <2> DEFINE c == Chosen(s)
               s1 == s \ {c}
               s2 == s \ {z}
               s3 == s1 \ {z}
    <2>2. /\ c \in s /\ s1 \in SUBSET S /\ Cardinality(s1) = n
          /\ Total(f, s) = f[c] + Total(f, s1)
      BY <1>0, <1>p, <2>1 DEF PartsOf
    <2>t. \A x \in SUBSET S : Total(f, x) \in Nat
      BY <1>0
    <2>u. \A x \in S : f[x] \in Nat
      OBVIOUS
    <2>3. CASE z = c
      <3>1. Total(f, s1) \in Nat /\ f[c] \in Nat
        BY <2>2, <2>t, <2>u
      <3> HIDE DEF c, s1
      <3>2. Total(f, s) = Total(f, s1) + f[c]
        BY <2>2, <3>1
      <3> QED BY <2>3, <3>2 DEF s1
    <2>4. CASE z # c
      <3>1. Cardinality(s2) = n
        <4>1. IsFiniteSet(s)
          BY <1>p DEF PartsOf
        <4>2. Cardinality(s2) = Cardinality(s) - 1
          BY <4>1, FS_RemoveElement
        <4> QED BY <2>1, <4>2
      <3>2. z \in s1 /\ c \in s2 /\ s2 \in SUBSET S /\ s3 = s2 \ {c}
        BY <2>2, <2>4
      <3>3. Total(f, s1) = Total(f, s3) + f[z]
        BY <2>2, <3>2
      <3>4. Total(f, s2) = Total(f, s3) + f[c]
        BY <3>1, <3>2
      <3>5. Total(f, s3) \in Nat /\ f[z] \in Nat /\ f[c] \in Nat
        BY <1>0, <2>2
      <3> QED BY <2>2, <3>3, <3>4, <3>5
    <2> QED BY <2>3, <2>4
  <1>3. T = Nat
    <2> HIDE DEF T
    <2>1. T \subseteq Nat
      BY DEF T
    <2> QED BY <1>1, <1>2, <2>1, AllNumbers
  <1>4. Cardinality(S) \in Nat /\ S \in SUBSET S
    BY FS_CardinalityType
  <1>5. Cardinality(S) \in T
    BY <1>3, <1>4
  <1> QED BY <1>5

----------------------------------------------------------------------------
\* Quota, with one thread: storage_used is what the rows weigh.

\* The sizes of a user's rows, and what handlers owe, for any state of the tables.
OwnedBy(rows, u)  == {i \in DOMAIN rows : rows[i].user = u}
Weights(rows)     == [i \in DOMAIN rows |-> rows[i].size]
Weight(rows, u)   == MapThenSumSet(LAMBDA i : rows[i].size, OwnedBy(rows, u))
Charges(r, S)     == MapThenSumSet(LAMBDA t : ReqSize(r[t]), S)
Returns(w, S)     == MapThenSumSet(LAMBDA t : w[t].row.size, S)

\* UsedExact, of the operators above, now and after a step.
LEMMA UsedReads ==
  UsedExact <=> (faults = 0 =>
    \A u \in Users : used[u] + Charges(req, Owing(u, "addUsed")) = Weight(files, u) + Returns(work, Owing(u, "subUsed")))
  BY DEF UsedExact, Charges, Returns, Weight, OwnedBy, SizeOfRows

LEMMA UsedReadsNext ==
  UsedExact' <=> (faults' = 0 =>
    \A u \in Users : used'[u] + Charges(req', Owing(u, "addUsed")') = Weight(files', u) + Returns(work', Owing(u, "subUsed")'))
  BY DEF UsedExact, Charges, Returns, Weight, OwnedBy, SizeOfRows, MapThenSumSet, MapThenFoldSet

\* Their weight is a sum.
LEMMA WeightTotal ==
  ASSUME NEW rows, IsFiniteSet(DOMAIN rows), NEW u
  PROVE  Weight(rows, u) = Total(Weights(rows), OwnedBy(rows, u))
  <1> DEFINE S == OwnedBy(rows, u)
             f == Weights(rows)
             B(h) == h = [s \in SUBSET S |-> IF s = {} THEN 0 ELSE rows[Chosen(s)].size + h[s \ {Chosen(s)}]]
             k == CHOOSE h : B(h)
  <1>1. IsFiniteSet(S) /\ \A s \in SUBSET S : s # {} => Chosen(s) \in DOMAIN rows
    <2>1. S \subseteq DOMAIN rows
      BY DEF OwnedBy
    <2>2. IsFiniteSet(S)
      BY <2>1, FS_Subset
    <2>3. \A s \in SUBSET S : s # {} => Chosen(s) \in S
      BY DEF Chosen
    <2> QED BY <2>1, <2>2, <2>3
  <1>2. PICK g : Sums(f, S, g) /\ Total(f, S) = g[S]
    BY <1>1, TotalHas
  <1>3. ASSUME NEW h PROVE B(h) <=> Sums(f, S, h)
    <2>1. \A s \in SUBSET S : s # {} => f[Chosen(s)] = rows[Chosen(s)].size
      BY <1>1 DEF Weights
    <2> HIDE DEF S, f
    <2> QED BY <2>1 DEF Sums, Adds
  <1>4. Weight(rows, u) = k[S]
    BY DEF Weight, MapThenSumSet, MapThenFoldSet, Chosen
  <1>5. B(k)
    <2>1. B(g)
      BY <1>2, <1>3
    <2> HIDE DEF B
    <2> QED BY <2>1
  <1>6. Sums(f, S, k)
    BY <1>3, <1>5
  <1>7. S \subseteq S /\ Alike(f, f, S)
    BY DEF Alike
  <1> HIDE DEF S, f, k
  <1>8. k[S] = g[S]
    BY <1>1, <1>2, <1>6, <1>7, SumsAgree
  <1> QED BY <1>2, <1>4, <1>8 DEF S, f

\* A user has finitely many rows.
LEMMA OwnedFinite ==
  ASSUME NEW rows, IsFiniteSet(DOMAIN rows), NEW u
  PROVE  IsFiniteSet(OwnedBy(rows, u)) /\ OwnedBy(rows, u) \subseteq DOMAIN rows
  <1>1. OwnedBy(rows, u) \subseteq DOMAIN rows
    BY DEF OwnedBy
  <1> QED BY <1>1, FS_Subset

\* A row more, a row less, and rows that keep owner and size.
LEMMA WeightPuts ==
  ASSUME NEW rows, IsFiniteSet(DOMAIN rows), \A i \in DOMAIN rows : rows[i].size \in Nat,
         NEW n, n \notin DOMAIN rows, NEW row, row.size \in Nat, NEW u,
         NEW more, DOMAIN more = DOMAIN rows \cup {n}, more[n] = row,
         \A i \in DOMAIN rows : more[i] = rows[i]
  PROVE  /\ Weight(rows, u) \in Nat
         /\ Weight(more, u) = Weight(rows, u) + IF row.user = u THEN row.size ELSE 0
  <1> DEFINE S == OwnedBy(rows, u)
             M == OwnedBy(more, u)
             e == Weights(rows)
             f == Weights(more)
  <1>1. IsFiniteSet(DOMAIN more)
    BY FS_AddElement
  <1>2. Weight(rows, u) = Total(e, S) /\ Weight(more, u) = Total(f, M)
    BY <1>1, WeightTotal
  <1>3. IsFiniteSet(S) /\ IsFiniteSet(M) /\ S \subseteq DOMAIN rows /\ M \subseteq DOMAIN more
    BY <1>1, OwnedFinite
  <1>4. (\A i \in S : e[i] \in Nat) /\ (\A i \in M : f[i] \in Nat) /\ Alike(f, e, S)
    BY <1>3 DEF Weights, Alike
  <1>5. IF row.user = u THEN n \in M /\ S = M \ {n} /\ f[n] = row.size ELSE S = M
    BY DEF OwnedBy, Weights
  <1> HIDE DEF S, M, e, f
  <1>6. Total(e, S) \in Nat
    BY <1>3, <1>4, TotalNat
  <1>7. Total(f, S) = Total(e, S)
    BY <1>3, <1>4, TotalSame
  <1>8. row.user = u => Total(f, M) = Total(f, S) + row.size
    BY <1>3, <1>4, <1>5, TotalPlus
  <1> QED BY <1>2, <1>5, <1>6, <1>7, <1>8

LEMMA WeightStays ==
  ASSUME NEW rows, IsFiniteSet(DOMAIN rows), NEW u, NEW same, DOMAIN same = DOMAIN rows,
         \A i \in DOMAIN rows : same[i].user = rows[i].user /\ same[i].size = rows[i].size
  PROVE  Weight(same, u) = Weight(rows, u)
  <1>1. OwnedBy(same, u) = OwnedBy(rows, u) /\ Alike(Weights(same), Weights(rows), OwnedBy(rows, u))
    BY DEF OwnedBy, Alike, Weights
  <1>2. IsFiniteSet(OwnedBy(rows, u))
    BY OwnedFinite
  <1> QED BY <1>1, <1>2, WeightTotal, TotalSame

\* It is a number.
LEMMA WeightNat ==
  ASSUME NEW rows, IsFiniteSet(DOMAIN rows), \A i \in DOMAIN rows : rows[i].size \in Nat, NEW u
  PROVE  Weight(rows, u) \in Nat
  <1>1. \A i \in OwnedBy(rows, u) : Weights(rows)[i] \in Nat
    BY DEF OwnedBy, Weights
  <1>2. IsFiniteSet(OwnedBy(rows, u))
    BY OwnedFinite
  <1> QED BY <1>1, <1>2, WeightTotal, TotalNat

\* With one thread at most one handler owes something.
LEMMA ChargesOne ==
  ASSUME NEW r, NEW t
  PROVE  Charges(r, {}) = 0 /\ (ReqSize(r[t]) \in Nat => Charges(r, {t}) = ReqSize(r[t]))
  <1> DEFINE V(s, h) == IF s = {} THEN 0 ELSE ReqSize(r[Chosen(s)]) + h[s \ {Chosen(s)}]
  <1>1. Charges(r, {}) = 0
    <2> DEFINE g == [s \in SUBSET {} |-> 0]
               k == CHOOSE h : h = [s \in SUBSET {} |-> V(s, h)]
    <2>1. g = [s \in SUBSET {} |-> V(s, g)]
      OBVIOUS
    <2>2. k = [s \in SUBSET {} |-> V(s, k)]
      <3> HIDE DEF g, V
      <3> QED BY <2>1
    <2>3. k[{}] = 0
      <3> HIDE DEF k
      <3> QED BY <2>2
    <2> QED BY <2>3 DEF Charges, MapThenSumSet, MapThenFoldSet, Chosen
  <1>2. ASSUME ReqSize(r[t]) \in Nat PROVE Charges(r, {t}) = ReqSize(r[t])
    <2> DEFINE g == [s \in SUBSET {t} |-> IF s = {} THEN 0 ELSE ReqSize(r[t])]
               k == CHOOSE h : h = [s \in SUBSET {t} |-> V(s, h)]
    <2>0. \A s \in SUBSET {t} : s # {} => s = {t} /\ Chosen(s) = t /\ s \ {Chosen(s)} = {}
      BY DEF Chosen
    <2>1. g = [s \in SUBSET {t} |-> V(s, g)]
      BY <1>2, <2>0
    <2>2. k = [s \in SUBSET {t} |-> V(s, k)]
      <3> HIDE DEF g, V
      <3> QED BY <2>1
    <2>3. k[{}] = 0 /\ k[{t}] = ReqSize(r[t])
      <3> HIDE DEF k
      <3>1. {} \in SUBSET {t} /\ {t} \in SUBSET {t} /\ {t} # {}
        OBVIOUS
      <3>2. k[{}] = 0
        BY <2>2, <3>1
      <3>3. k[{t}] = ReqSize(r[t]) + k[{}]
        BY <2>0, <2>2, <3>1
      <3> QED BY <1>2, <3>2, <3>3
    <2> QED BY <2>3 DEF Charges, MapThenSumSet, MapThenFoldSet, Chosen
  <1> QED BY <1>1, <1>2

LEMMA ReturnsOne ==
  ASSUME NEW w, NEW t
  PROVE  Returns(w, {}) = 0 /\ (w[t].row.size \in Nat => Returns(w, {t}) = w[t].row.size)
  <1> DEFINE V(s, h) == IF s = {} THEN 0 ELSE w[Chosen(s)].row.size + h[s \ {Chosen(s)}]
  <1>1. Returns(w, {}) = 0
    <2> DEFINE g == [s \in SUBSET {} |-> 0]
               k == CHOOSE h : h = [s \in SUBSET {} |-> V(s, h)]
    <2>1. g = [s \in SUBSET {} |-> V(s, g)]
      OBVIOUS
    <2>2. k = [s \in SUBSET {} |-> V(s, k)]
      <3> HIDE DEF g, V
      <3> QED BY <2>1
    <2>3. k[{}] = 0
      <3> HIDE DEF k
      <3> QED BY <2>2
    <2> QED BY <2>3 DEF Returns, MapThenSumSet, MapThenFoldSet, Chosen
  <1>2. ASSUME w[t].row.size \in Nat PROVE Returns(w, {t}) = w[t].row.size
    <2> DEFINE g == [s \in SUBSET {t} |-> IF s = {} THEN 0 ELSE w[t].row.size]
               k == CHOOSE h : h = [s \in SUBSET {t} |-> V(s, h)]
    <2>0. \A s \in SUBSET {t} : s # {} => s = {t} /\ Chosen(s) = t /\ s \ {Chosen(s)} = {}
      BY DEF Chosen
    <2>1. g = [s \in SUBSET {t} |-> V(s, g)]
      BY <1>2, <2>0
    <2>2. k = [s \in SUBSET {t} |-> V(s, k)]
      <3> HIDE DEF g, V
      <3> QED BY <2>1
    <2>3. k[{}] = 0 /\ k[{t}] = w[t].row.size
      <3> HIDE DEF k
      <3>1. {} \in SUBSET {t} /\ {t} \in SUBSET {t} /\ {t} # {}
        OBVIOUS
      <3>2. k[{}] = 0
        BY <2>2, <3>1
      <3>3. k[{t}] = w[t].row.size + k[{}]
        BY <2>0, <2>2, <3>1
      <3> QED BY <1>2, <3>2, <3>3
    <2> QED BY <2>3 DEF Returns, MapThenSumSet, MapThenFoldSet, Chosen
  <1> QED BY <1>1, <1>2

RowsFinite(rows) == IsFiniteSet(DOMAIN rows) /\ rows \in [DOMAIN rows -> Row]

LEMMA FilesFinite == TypeOK => RowsFinite(files)
  <1> SUFFICES ASSUME TypeOK PROVE RowsFinite(files)
    OBVIOUS
  <1>1. IsFiniteSet(1 .. (nextFile - 1))
    <2>1. 1 \in Int /\ nextFile - 1 \in Int
      BY DEF TypeOK, TablesOK
    <2> QED BY <2>1, FS_Interval
  <1>2. DOMAIN files \subseteq 1 .. (nextFile - 1) /\ files \in [DOMAIN files -> Row]
    BY DEF TypeOK, TablesOK
  <1> QED BY <1>1, <1>2, FS_Subset DEF RowsFinite

\* A handler that creates a file has its size from its request.
LEMMA SizeGiven ==
  ASSUME NEW r \in Requests \cup {NoRequest}, NEW label \in LabelsOf(r.op), label \in {"insertRow", "addUsed"}
  PROVE  /\ r \in Requests /\ r.op \in {"upload", "instant"}
         /\ ReqSize(r) \in Nat /\ r.user \in Users
  <1>1. r.op \in Ops
    BY RequestKinds
  <1>2. r.op \in {"upload", "instant"}
    BY <1>1, LabelOps
  <1>3. r # NoRequest
    BY <1>2 DEF NoRequest
  <1>4. r \in UploadReq \cup InstantReq
    BY <1>1, <1>2, RequestKinds
  <1> QED BY <1>1, <1>2, <1>3, <1>4, SizeAssumption DEF UploadReq, InstantReq, ReqSize

\* storage_used, the rows and what the handler of t still owes.
Charged(label, r, u)     == IF label = "addUsed" /\ r.user = u THEN ReqSize(r) ELSE 0
Returned(label, r, w, u) == IF label = "subUsed" /\ r.user = u THEN w.row.size ELSE 0
Even(us, fs, label, r, w) ==
  \A u \in Users : us[u] + Charged(label, r, u) = Weight(fs, u) + Returned(label, r, w, u)
Who(p, r, u, label) == {t \in Threads : p[t] = label /\ r[t].user = u}

LEMMA OneOwes ==
  ASSUME NEW t, Threads = {t}, NEW p, NEW r, NEW w, NEW u,
         p[t] = "addUsed" => ReqSize(r[t]) \in Nat, p[t] = "subUsed" => w[t].row.size \in Nat
  PROVE  /\ Charges(r, Who(p, r, u, "addUsed")) = Charged(p[t], r[t], u)
         /\ Returns(w, Who(p, r, u, "subUsed")) = Returned(p[t], r[t], w[t], u)
  <1>1. Charges(r, Who(p, r, u, "addUsed")) = Charged(p[t], r[t], u)
    <2>1. IF p[t] = "addUsed" /\ r[t].user = u THEN Who(p, r, u, "addUsed") = {t}
                                               ELSE Who(p, r, u, "addUsed") = {}
      BY DEF Who
    <2> QED BY <2>1, ChargesOne DEF Charged
  <1>2. Returns(w, Who(p, r, u, "subUsed")) = Returned(p[t], r[t], w[t], u)
    <2>1. IF p[t] = "subUsed" /\ r[t].user = u THEN Who(p, r, u, "subUsed") = {t}
                                               ELSE Who(p, r, u, "subUsed") = {}
      BY DEF Who
    <2> QED BY <2>1, ReturnsOne DEF Returned
  <1> QED BY <1>1, <1>2

LEMMA UsedOne ==
  ASSUME TypeOK, NEW t \in Threads, Threads = {t}
  PROVE  UsedExact <=> (faults = 0 => Even(used, files, pc[t], req[t], work[t]))
  <1>1. /\ pc[t] = "addUsed" => ReqSize(req[t]) \in Nat
        /\ pc[t] = "subUsed" => work[t].row.size \in Nat
    BY SizeGiven DEF TypeOK, HandlersOK, Fits, PurgeLabels, Row
  <1>2. \A u : /\ Owing(u, "addUsed") = Who(pc, req, u, "addUsed")
               /\ Owing(u, "subUsed") = Who(pc, req, u, "subUsed")
    BY DEF Owing, Who
  <1>3. \A u : /\ Charges(req, Owing(u, "addUsed")) = Charged(pc[t], req[t], u)
               /\ Returns(work, Owing(u, "subUsed")) = Returned(pc[t], req[t], work[t], u)
    BY <1>1, <1>2, OneOwes
  <1> QED BY <1>3, UsedReads DEF Even

LEMMA UsedOneNext ==
  ASSUME TypeOK', NEW t \in Threads, Threads = {t}
  PROVE  UsedExact' <=> (faults' = 0 => Even(used', files', pc'[t], req'[t], work'[t]))
  <1>1. /\ pc'[t] = "addUsed" => ReqSize(req'[t]) \in Nat
        /\ pc'[t] = "subUsed" => work'[t].row.size \in Nat
    BY SizeGiven DEF TypeOK, HandlersOK, Fits, PurgeLabels, Row
  <1>2. \A u : /\ Owing(u, "addUsed")' = Who(pc', req', u, "addUsed")
               /\ Owing(u, "subUsed")' = Who(pc', req', u, "subUsed")
    BY DEF Owing, Who
  <1>3. \A u : /\ Charges(req', Owing(u, "addUsed")') = Charged(pc'[t], req'[t], u)
               /\ Returns(work', Owing(u, "subUsed")') = Returned(pc'[t], req'[t], work'[t], u)
    BY <1>1, <1>2, OneOwes
  <1> QED BY <1>3, UsedReadsNext DEF Even

\* Where nothing is owed and the rows weigh the same, nothing has to move.
LEMMA EvenStays ==
  ASSUME RowsFinite(files), NEW label, NEW r, NEW w, NEW label2, NEW r2, NEW w2, NEW same,
         Even(used, files, label, r, w), {label, label2} \cap {"addUsed", "subUsed"} = {},
         DOMAIN same = DOMAIN files,
         \A i \in DOMAIN files : same[i].user = files[i].user /\ same[i].size = files[i].size
  PROVE  Even(used, same, label2, r2, w2)
  <1>1. ASSUME NEW u PROVE Weight(same, u) = Weight(files, u)
    BY WeightStays DEF RowsFinite
  <1>2. \A u : /\ Charged(label, r, u) = 0 /\ Charged(label2, r2, u) = 0
               /\ Returned(label, r, w, u) = 0 /\ Returned(label2, r2, w2, u) = 0
    BY DEF Charged, Returned
  <1> QED BY <1>1, <1>2 DEF Even

\* A step of the only thread keeps the account even.
LEMMA EvenStep ==
  ASSUME TypeOK, VictimKnown, FoldersWeighNothing, NEW t \in Threads, Step(t), OthersSame(t),
         Even(used, files, pc[t], req[t], work[t])
  PROVE  Even(used', files', pc'[t], req'[t], work'[t])
  <1>0. /\ pc \in [Threads -> Labels] /\ req \in [Threads -> Requests \cup {NoRequest}]
        /\ work \in [Threads -> Work] /\ used \in [Users -> Nat]
        /\ nextFile \notin DOMAIN files /\ RowsFinite(files)
        /\ pc[t] \in LabelsOf(req[t].op) /\ Fits(pc[t], work[t])
    BY FilesFinite DEF TypeOK, TablesOK, HandlersOK
  <1>r. \A i \in DOMAIN files : files[i].size \in Nat /\ files[i] \in Row
    BY <1>0 DEF RowsFinite, Row
  <1>f. IsFiniteSet(DOMAIN files)
    BY <1>0 DEF RowsFinite
  <1>g. \A label : Goto(t, label) => pc'[t] = label /\ req'[t] = req[t]
    BY <1>0 DEF Goto
  <1>a. Abandon(t) \/ Die => pc'[t] = "idle"
    BY <1>0 DEF Abandon, Die
  <1>n. NextVictim(t) => pc'[t] \in {"idle", "pick"}
    BY <1>a, <1>g DEF NextVictim, Reply
  <1>w. \A u : Weight(files, u) \in Nat
    BY <1>r, <1>f, WeightNat
  <1>1. CASE InsertDir(t)
    <2> DEFINE row == [user |-> req[t].user, parent |-> req[t].parent, obj |-> 0,
                       name |-> req[t].name, size |-> 0, dir |-> TRUE, deleted |-> FALSE]
    <2>1. AddRow(t, row) /\ pc[t] = "insertDir" /\ pc'[t] = "fetchDir" /\ used' = used
      BY <1>1, <1>g DEF InsertDir, At
    <2>2. row.size = 0
      OBVIOUS
    <2>5. row.size \in Nat /\ nextFile \notin DOMAIN files
      BY <1>0
    <2>3. /\ DOMAIN files' = DOMAIN files \cup {nextFile} /\ files'[nextFile] = row
          /\ \A i \in DOMAIN files : files'[i] = files[i]
      BY <1>0, <2>1 DEF AddRow
    <2> HIDE DEF row
    <2>6. \A i \in DOMAIN files : files[i].size \in Nat
      BY <1>r
    <2>4. ASSUME NEW u
          PROVE  Weight(files', u) = Weight(files, u) + IF row.user = u THEN row.size ELSE 0
      BY <1>f, <2>3, <2>5, <2>6, WeightPuts
    <2> QED BY <1>w, <2>1, <2>2, <2>4 DEF Even, Charged, Returned
  <1>2. CASE InsertRow(t) /\ work[t].obj \in DOMAIN objects
    <2> DEFINE row == [user |-> req[t].user, parent |-> req[t].parent,
                       obj |-> work[t].obj, name |-> req[t].name,
                       size |-> ReqSize(req[t]), dir |-> FALSE, deleted |-> FALSE]
    <2>1. AddRow(t, row) /\ pc[t] = "insertRow" /\ pc'[t] = "addUsed" /\ req'[t] = req[t] /\ used' = used
      BY <1>2, <1>g DEF InsertRow, At
    <2>2. row.size = ReqSize(req[t]) /\ row.user = req[t].user /\ ReqSize(req[t]) \in Nat
      BY <1>0, <2>1, SizeGiven
    <2>3. /\ DOMAIN files' = DOMAIN files \cup {nextFile} /\ files'[nextFile] = row
          /\ \A i \in DOMAIN files : files'[i] = files[i]
      BY <1>0, <2>1 DEF AddRow
    <2> HIDE DEF row
    <2>4. \A u : Weight(files', u) = Weight(files, u) + IF row.user = u THEN row.size ELSE 0
      BY <1>0, <1>r, <1>f, <2>2, <2>3, WeightPuts
    <2> QED BY <1>0, <1>w, <2>1, <2>2, <2>4 DEF Even, Charged, Returned
  <1>3. CASE AddUsed(t)
    <2>1. /\ pc[t] = "addUsed" /\ pc'[t] = "fetchId" /\ files' = files
          /\ used' = [used EXCEPT ![req[t].user] = @ + ReqSize(req[t])]
      BY <1>3, <1>g DEF AddUsed, At
    <2>2. ReqSize(req[t]) \in Nat
      BY <1>0, <2>1, SizeGiven
    <2> QED BY <1>0, <2>1, <2>2 DEF Even, Charged, Returned
  <1>4. CASE DropRow(t) /\ Victim(t) \notin shares
    <2>1. /\ pc[t] = "dropRow" /\ used' = used
          /\ Victim(t) \in DOMAIN files /\ files[Victim(t)].user = req[t].user
          /\ work[t].row = files[Victim(t)]
      BY <1>4 DEF DropRow, At, VictimKnown, DeletedRow
    <2>2. files' = [i \in DOMAIN files \ {Victim(t)} |-> files[i]]
      BY <1>4 DEF DropRow
    <2> DEFINE v == Victim(t)
    <2>3. /\ DOMAIN files = DOMAIN files' \cup {v} /\ v \notin DOMAIN files'
          /\ \A i \in DOMAIN files' : files[i] = files'[i] /\ files'[i].size \in Nat
          /\ files[v].size \in Nat
      BY <1>r, <2>1, <2>2
    <2>4. IsFiniteSet(DOMAIN files')
      BY <1>f, <2>3, FS_Subset
    <2> HIDE DEF v
    <2>5. \A u : /\ Weight(files, u) = Weight(files', u) + IF files[v].user = u THEN files[v].size ELSE 0
                 /\ Weight(files', u) \in Nat
      BY <2>3, <2>4, WeightPuts
    <2>6. CASE work[t].row.dir
      <3>1. pc'[t] \in {"idle", "pick"}
        BY <1>4, <1>n, <2>6 DEF DropRow
      <3>2. files[v].size = 0
        BY <2>1, <2>6 DEF FoldersWeighNothing, v
      <3> QED BY <2>1, <2>5, <3>1, <3>2 DEF Even, Charged, Returned
    <2>7. CASE ~work[t].row.dir
      <3>1. pc'[t] = "subUsed" /\ req'[t] = req[t] /\ work' = work
        BY <1>4, <1>g, <2>7 DEF DropRow
      <3>2. work'[t].row.size = files[v].size /\ req'[t].user = files[v].user
        BY <2>1, <3>1 DEF v
      <3> QED BY <2>1, <2>3, <2>5, <3>1, <3>2 DEF Even, Charged, Returned
    <2> QED BY <2>6, <2>7
  <1>5. CASE SubUsed(t)
    <2>1. /\ pc[t] = "subUsed" /\ pc'[t] = "unref" /\ files' = files
          /\ used' = [used EXCEPT ![req[t].user] = Less(@, work[t].row.size)]
      BY <1>5, <1>g DEF SubUsed, At
    <2>2. work[t].row.size \in Nat
      BY <1>0, <2>1 DEF Fits, PurgeLabels, Row
    <2>3. ASSUME NEW u \in Users
          PROVE  used'[u] = Weight(files, u)
      <3>1. used[u] = Weight(files, u) + IF req[t].user = u THEN work[t].row.size ELSE 0
        BY <1>0, <2>1 DEF Even, Charged, Returned
      <3>2. used'[u] = IF req[t].user = u THEN Less(used[u], work[t].row.size) ELSE used[u]
        BY <1>0, <2>1
      <3> QED BY <1>w, <2>2, <3>1, <3>2 DEF Less
    <2> QED BY <1>w, <2>1, <2>3 DEF Even, Charged, Returned
  <1>6. CASE SoftDeleteNext(t) \/ RestoreNext(t)
    <2>1. /\ pc[t] \in {"mark", "unmark"} /\ pc'[t] \in {"idle", "mark", "unmark"} /\ used' = used
          /\ DOMAIN files' = DOMAIN files
          /\ \A i \in DOMAIN files : files'[i].user = files[i].user /\ files'[i].size = files[i].size
      BY <1>6, <1>a, <1>r DEF SoftDeleteNext, RestoreNext, SetDeleted, Reply, At, Row
    <2> QED BY <1>0, <2>1, EvenStays
  <1>7. CASE \/ InsertRow(t) /\ work[t].obj \notin DOMAIN objects
             \/ DropRow(t) /\ Victim(t) \in shares
    <2>1. pc[t] \in {"insertRow", "dropRow"} /\ pc'[t] = "idle" /\ used' = used /\ files' = files
      BY <1>7, <1>a DEF InsertRow, DropRow, Reply, At
    <2> QED BY <1>0, <2>1, EvenStays
  <1>8. CASE ~ (InsertDir(t) \/ InsertRow(t) \/ AddUsed(t) \/ DropRow(t) \/ SubUsed(t)
                \/ SoftDeleteNext(t) \/ RestoreNext(t))
    <2>1. pc[t] \notin {"addUsed", "subUsed"} /\ used' = used
      BY <1>8 DEF Step, CheckParent, CheckName, FetchDir, FindObject, OpenObject, WriteObject,
         InsertObject, FetchObject, CheckExists, RewriteObject, AddRef, FetchId, FindRoot,
         InsertShare, CheckRestoreName, CollectKids,
         PickVictim, DropShares, Unref, ReadRef, Unlink, DropObject, Undefined, tables, At
    <2>2. files' = files
      BY <1>8, Touched
    <2>3. pc'[t] \notin {"addUsed", "subUsed"}
      <3>1. pc'[t] = "addUsed" => InsertDir(t) \/ InsertRow(t) \/ AddUsed(t)
        BY Landing
      <3>2. pc'[t] = "subUsed" => DropRow(t)
        BY Landing
      <3> QED BY <1>8, <3>1, <3>2
    <2> QED BY <1>0, <2>1, <2>2, <2>3, EvenStays
  <1> QED BY <1>1, <1>2, <1>3, <1>4, <1>5, <1>6, <1>7, <1>8

LEMMA VictimKnownStep ==
  ASSUME TypeOK, VictimKnown, NEW t \in Threads, Threads = {t}, Step(t), OthersSame(t)
  PROVE  VictimKnown'
  <1>0. /\ pc \in [Threads -> Labels] /\ req \in [Threads -> Requests \cup {NoRequest}]
    BY DEF TypeOK, HandlersOK
  <1>g. \A label : Goto(t, label) => pc'[t] = label /\ req' = req
    BY <1>0 DEF Goto
  <1>a. Abandon(t) => pc'[t] = "idle"
    BY <1>0 DEF Abandon
  <1>1. CASE pc'[t] = "dropShares"
    <2>1. PickVictim(t)
      BY <1>1, Landing
    <2>2. /\ DeletedRow(req[t].user, Victim(t))
          /\ work'[t].row = files[Victim(t)] /\ work'[t].ids = work[t].ids
      BY <1>1, <2>1, Carried
    <2>3. ~NextVictim(t)
      BY <1>1, <1>a, <1>g DEF NextVictim, Reply
    <2>4. req' = req /\ files' = files
      BY <1>g, <2>1, <2>3 DEF PickVictim, tables
    <2> QED BY <1>1, <2>2, <2>4 DEF VictimKnown, DeletedRow, Victim
  <1>2. CASE pc'[t] = "dropRow"
    <2>1. DropShares(t)
      BY <1>2, Landing
    <2>2. pc[t] = "dropShares" /\ req' = req /\ work' = work /\ files' = files
      BY <1>g, <2>1 DEF DropShares, At
    <2> QED BY <1>2, <2>2 DEF VictimKnown, DeletedRow, Victim
  <1>3. CASE pc'[t] \notin {"dropShares", "dropRow"}
    BY <1>3 DEF VictimKnown
  <1> QED BY <1>1, <1>2, <1>3

LEMMA FoldersWeighNothingStep ==
  ASSUME TypeOK, FoldersWeighNothing, NEW t \in Threads, Step(t)
  PROVE  FoldersWeighNothing'
  <1>0. nextFile \notin DOMAIN files /\ files \in [DOMAIN files -> Row]
    BY DEF TypeOK, TablesOK
  <1>1. CASE InsertDir(t)
    BY <1>0, <1>1 DEF InsertDir, AddRow, FoldersWeighNothing
  <1>2. CASE InsertRow(t)
    BY <1>0, <1>2 DEF InsertRow, AddRow, FoldersWeighNothing
  <1>3. CASE SoftDeleteNext(t) \/ RestoreNext(t)
    <2>1. /\ DOMAIN files' = DOMAIN files
          /\ \A i \in DOMAIN files : files'[i].dir = files[i].dir /\ files'[i].size = files[i].size
      <3>1. ASSUME NEW flag \in BOOLEAN, SetDeleted(t, flag)
            PROVE  /\ DOMAIN files' = DOMAIN files
                   /\ \A i \in DOMAIN files : files'[i].dir = files[i].dir /\ files'[i].size = files[i].size
        BY <1>0, <3>1 DEF SetDeleted, Row
      <3> QED BY <1>3, <3>1 DEF SoftDeleteNext, RestoreNext
    <2> QED BY <2>1 DEF FoldersWeighNothing
  <1>4. CASE DropRow(t)
    BY <1>0, <1>4 DEF DropRow, FoldersWeighNothing
  <1>5. CASE UNCHANGED files
    BY <1>5 DEF FoldersWeighNothing
  <1> QED BY <1>1, <1>2, <1>3, <1>4, <1>5, Touched

LEMMA UsedInit == Init => UsedInv
  <1> SUFFICES ASSUME Init PROVE UsedInv
    OBVIOUS
  <1>1. VictimKnown /\ FoldersWeighNothing
    BY DEF Init, VictimKnown, FoldersWeighNothing, EmptyTable
  <1>2. ASSUME NEW u \in Users PROVE Weight(files, u) = 0
    <2>1. files = EmptyTable /\ DOMAIN files = {} /\ OwnedBy(files, u) = {}
      BY DEF Init, EmptyTable, OwnedBy
    <2>2. IsFiniteSet({})
      BY FS_EmptySet
    <2> QED BY <2>1, <2>2, WeightTotal, TotalFirst
  <1>3. \A u : Owing(u, "addUsed") = {} /\ Owing(u, "subUsed") = {}
    BY DEF Init, Owing
  <1>4. Charges(req, {}) = 0 /\ Returns(work, {}) = 0
    BY ChargesOne, ReturnsOne
  <1>5. UsedExact
    BY <1>2, <1>3, <1>4, UsedReads DEF Init
  <1> QED BY <1>1, <1>5, InitTypes DEF UsedInv

LEMMA UsedStep ==
  ASSUME \A s, t \in Threads : s = t, UsedInv, [Next]_vars
  PROVE  UsedInv'
  <1>0. TypeOK /\ TypeOK' /\ VictimKnown /\ FoldersWeighNothing /\ UsedExact /\ faults \in Nat
    BY NextTypes DEF UsedInv, TypeOK
  <1>1. ASSUME NEW t \in Threads, Step(t), OthersSame(t) PROVE UsedInv'
    <2>1. Threads = {t}
      OBVIOUS
    <2>2. VictimKnown' /\ FoldersWeighNothing'
      BY <1>0, <1>1, <2>1, VictimKnownStep, FoldersWeighNothingStep
    <2>3. faults' = 0 => faults = 0
      BY <1>0, <1>1, FaultsGrow
    <2>4. faults = 0 => Even(used, files, pc[t], req[t], work[t])
      BY <1>0, <2>1, UsedOne
    <2>5. faults' = 0 => Even(used', files', pc'[t], req'[t], work'[t])
      BY <1>0, <1>1, <2>3, <2>4, EvenStep
    <2>6. UsedExact'
      BY <1>0, <2>1, <2>5, UsedOneNext
    <2> QED BY <1>0, <2>2, <2>6 DEF UsedInv
  <1>2. ASSUME NEW t \in Threads, OthersSame(t), pc'[t] \in Loose, UNCHANGED tables,
               faults' > 0 \/ (pc[t] = "idle" /\ UNCHANGED faults)
        PROVE  UsedInv'
    <2>1. Threads = {t}
      OBVIOUS
    <2>2. VictimKnown' /\ FoldersWeighNothing'
      BY <1>0, <1>2, <2>1 DEF VictimKnown, FoldersWeighNothing, Loose, tables
    <2>3. CASE faults' > 0
      BY <1>0, <2>2, <2>3 DEF UsedInv, UsedExact
    <2>4. CASE pc[t] = "idle" /\ UNCHANGED faults
      <3>1. faults = 0 => Even(used, files, pc[t], req[t], work[t])
        BY <1>0, <2>1, UsedOne
      <3>2. RowsFinite(files) /\ files' = files /\ used' = used
        BY <1>0, <1>2, FilesFinite DEF tables
      <3>3. faults' = 0 => Even(used', files', pc'[t], req'[t], work'[t])
        BY <1>2, <2>4, <3>1, <3>2, EvenStays DEF Loose
      <3>4. UsedExact'
        BY <1>0, <2>1, <3>3, UsedOneNext
      <3> QED BY <1>0, <2>2, <3>4 DEF UsedInv
    <2> QED BY <1>2, <2>3, <2>4
  <1>3. ASSUME Die, UNCHANGED tables, faults' > 0 PROVE UsedInv'
    <2>1. VictimKnown' /\ FoldersWeighNothing'
      BY <1>0, <1>3, DieIdle DEF VictimKnown, FoldersWeighNothing, tables
    <2> QED BY <1>0, <1>3, <2>1 DEF UsedInv, UsedExact
  <1>4. ASSUME UNCHANGED vars PROVE UsedInv'
    <2>1. VictimKnown' /\ FoldersWeighNothing'
      BY <1>0, <1>4 DEF VictimKnown, FoldersWeighNothing, vars, tables, handler, DeletedRow, Victim
    <2>2. UsedExact'
      <3>1. \A u, l : Owing(u, l)' = Owing(u, l)
        BY <1>4 DEF vars, handler, Owing
      <3>2. files' = files /\ used' = used /\ req' = req /\ work' = work /\ faults' = faults
        BY <1>4 DEF vars, tables, handler, bounds
      <3> QED BY <1>0, <3>1, <3>2, UsedReads, UsedReadsNext
    <2> QED BY <1>0, <2>1, <2>2 DEF UsedInv
  <1> QED BY <1>0, <1>1, <1>2, <1>3, <1>4, Moves

\* With one thread storage_used is the sum of the sizes of the user's rows, up to the one
\* update that the running handler is about to make: nothing is subtracted that was not
\* charged before, so the clamp at zero never takes effect (FileOps.cpp 35-39 and 212-215).
THEOREM OneThreadQuota ==
  ASSUME \A s, t \in Threads : s = t
  PROVE  Spec => []UsedExact
  <1>1. Init => UsedInv
    BY UsedInit
  <1>2. UsedInv /\ [Next]_vars => UsedInv'
    BY UsedStep
  <1>3. UsedInv => UsedExact
    BY DEF UsedInv
  <1> QED BY <1>1, <1>2, <1>3, PTL DEF Spec

----------------------------------------------------------------------------
\* The catalogue: with one thread and no faults the statements of the handlers
\* implement FileCatalog.  The file of every object is whole then, and every
\* INSERT, UPDATE and DELETE of files is one step of the catalogue.

\* What the whole invariant gives.
LEMMA CatalogFacts ==
  ASSUME CatalogInv
  PROVE  /\ TypeOK /\ ShaUnique /\ RefCountCovers /\ WriteSafe /\ AnswerInv /\ UsedInv /\ ObjectsWhole
         /\ KeepInv /\ faults = 0 /\ AnswersOwnRow
  BY AnswersFollow DEF CatalogInv, KeepInv, AnswerInv, RefInv

\* Where no fault is allowed a step of the only thread is none: what a handler indexes is
\* there, and what it writes it writes to the end.
LEMMA FaultsStay ==
  ASSUME MaxFaults = 0, CatalogInv, NEW t \in Threads, Threads = {t}, Step(t)
  PROVE  faults' = 0
  <1>0. AnswersOwnRow /\ faults = 0 /\ ObjectsWhole
    BY CatalogFacts
  <1>1. FetchDir(t) \/ FetchId(t) \/ FetchObject(t) => faults' = faults
    BY <1>0 DEF FetchDir, FetchId, FetchObject, AnswersOwnRow, At, Reply, Goto, bounds
  <1>2. ~RewriteObject(t)
    BY <1>0 DEF RewriteObject, ObjectsWhole, At
  <1>3. WriteObject(t) => faults' = faults
    <2>1. SUFFICES ASSUME WriteObject(t) PROVE faults' = faults
      OBVIOUS
    <2>2. WritersOf(req[t].sha) = {t}
      BY <2>1 DEF WriteObject, WritersOf, At
    <2> QED BY <1>0, <2>1, <2>2 DEF WriteObject, Written
  <1>4. Unlink(t) => faults' = faults
    BY <1>0 DEF Unlink
  <1>5. ASSUME NEW flag, SetDeleted(t, flag) PROVE faults' = faults
    BY <1>5 DEF SetDeleted, Reply, bounds
  <1>6. NextVictim(t) => faults' = faults
    BY DEF NextVictim, Reply, Goto, bounds
  <1>7. CASE ~ (WriteObject(t) \/ Unlink(t) \/ FetchDir(t) \/ FetchId(t) \/ FetchObject(t))
    BY <1>0, <1>2, <1>5, <1>6, <1>7 DEF Step, CheckParent, CheckName, InsertDir, FindObject, OpenObject,
       InsertObject, CheckExists, AddRef, InsertRow, AddUsed, FindRoot,
       InsertShare, CheckRestoreName, CollectKids, SoftDeleteNext, RestoreNext,
       PickVictim, DropShares, DropRow, SubUsed, Unref, ReadRef, DropObject,
       Goto, Reply, bounds
  <1> QED BY <1>0, <1>1, <1>3, <1>4, <1>7

\* What a step of the only thread does that is not a fault.
LEMMA NoFault ==
  ASSUME faults' = 0, CatalogInv, NEW t \in Threads, Threads = {t}, Step(t)
  PROVE  /\ OthersSame(t)
         /\ FetchDir(t) \/ FetchId(t) => Reply(t) /\ UNCHANGED <<tables, disk>>
         /\ FetchObject(t) => Goto(t, "insertRow") /\ UNCHANGED <<tables, disk>>
         /\ WriteObject(t) => disk' = [disk EXCEPT ![req[t].sha] = "whole"]
         /\ Unlink(t) => disk' = [disk EXCEPT ![work[t].path] = "absent"]
         /\ ~RewriteObject(t)
  <1>0. /\ TypeOK /\ AnswersOwnRow /\ faults = 0 /\ ObjectsWhole
        /\ disk \in [Contents -> {"absent", "partial", "whole"}]
    BY CatalogFacts DEF TypeOK, TablesOK
  <1>1. FetchDir(t) \/ FetchId(t) => Reply(t) /\ UNCHANGED <<tables, disk>>
    BY <1>0 DEF FetchDir, FetchId, AnswersOwnRow, At
  <1>2. FetchObject(t) => Goto(t, "insertRow") /\ UNCHANGED <<tables, disk>>
    BY <1>0 DEF FetchObject, AnswersOwnRow, At
  <1>3. ~RewriteObject(t)
    BY <1>0 DEF RewriteObject, ObjectsWhole, At
  <1>4. WriteObject(t) => disk' = [disk EXCEPT ![req[t].sha] = "whole"]
    <2>1. SUFFICES ASSUME WriteObject(t)
                   PROVE  disk' = [disk EXCEPT ![req[t].sha] = "whole"]
      OBVIOUS
    <2>2. disk[req[t].sha] = "partial" /\ WritersOf(req[t].sha) = {t}
      BY <1>0, <2>1 DEF WriteObject, ObjectsWhole, WritersOf, At
    <2>3. PICK end \in {"partial", "whole"} :
            /\ disk' = [disk EXCEPT ![req[t].sha] = IF @ = "partial" THEN end ELSE @]
            /\ IF end = "whole" \/ WritersOf(req[t].sha) # {t}
               THEN faults' = faults
               ELSE faults < MaxFaults /\ faults' = faults + 1
      BY <2>1 DEF WriteObject, Written
    <2>4. end = "whole"
      BY <1>0, <2>2, <2>3
    <2> QED BY <1>0, <2>2, <2>3, <2>4
  <1>5. Unlink(t) => disk' = [disk EXCEPT ![work[t].path] = "absent"]
    BY <1>0 DEF Unlink
  <1>6. OthersSame(t)
    BY <1>0, OneThreadMoves
  <1> QED BY <1>1, <1>2, <1>3, <1>4, <1>5, <1>6

\* So the disk changes in three ways.
LEMMA DiskSteps ==
  ASSUME faults' = 0, CatalogInv, NEW t \in Threads, Threads = {t}, Step(t)
  PROVE  \/ UNCHANGED disk /\ ~OpenObject(t) /\ ~WriteObject(t) /\ ~Unlink(t)
         \/ OpenObject(t) /\ disk' = [disk EXCEPT ![req[t].sha] = "partial"]
         \/ WriteObject(t) /\ disk' = [disk EXCEPT ![req[t].sha] = "whole"]
         \/ Unlink(t) /\ disk' = [disk EXCEPT ![work[t].path] = "absent"]
  <1>1. CASE ~ (OpenObject(t) \/ WriteObject(t) \/ RewriteObject(t) \/ Unlink(t)
                \/ FetchDir(t) \/ FetchId(t) \/ FetchObject(t))
    BY <1>1 DEF Step, CheckParent, CheckName, InsertDir, FindObject, InsertObject, CheckExists, AddRef,
                InsertRow, AddUsed, FindRoot, InsertShare, CheckRestoreName, CollectKids, SoftDeleteNext,
                RestoreNext, SetDeleted, PickVictim, DropShares, DropRow, SubUsed, Unref, ReadRef,
                DropObject
  <1>2. CASE FetchDir(t) \/ FetchId(t) \/ FetchObject(t)
    <2>1. ~OpenObject(t) /\ ~WriteObject(t) /\ ~Unlink(t)
      BY <1>2 DEF FetchDir, FetchId, FetchObject, OpenObject, WriteObject, Unlink, At
    <2> QED BY <1>2, <2>1, NoFault
  <1>3. CASE OpenObject(t)
    BY <1>3 DEF OpenObject
  <1>4. CASE WriteObject(t) \/ RewriteObject(t) \/ Unlink(t)
    BY <1>4, NoFault
  <1> QED BY <1>1, <1>2, <1>3, <1>4

\* Nothing refers to an object whose count is zero.
LEMMA ZeroUnheld ==
  ASSUME TypeOK, RefCountCovers, NEW o \in DOMAIN objects, objects[o].ref = 0
  PROVE  RowsOf(o) = {}
  <1>1. IsFiniteSet(RowsOf(o)) /\ Cardinality(RowsOf(o)) \in Nat /\ Cardinality(ClaimsOf(o)) \in Nat
    BY Counts
  <1>2. 0 >= Held(o)
    BY DEF RefCountCovers
  <1>3. Cardinality(RowsOf(o)) = 0
    BY <1>1, <1>2 DEF Held
  <1> QED BY <1>1, <1>3, FS_EmptySet

\* Where a file begins and ends to be written.
LEMMA WriteLanding ==
  ASSUME TypeOK, NEW t \in Threads, Step(t), OthersSame(t)
  PROVE  /\ pc'[t] = "fill" => OpenObject(t)
         /\ pc'[t] = "insertObj" => WriteObject(t)
         /\ OpenObject(t) \/ WriteObject(t) \/ Unlink(t) => req' = req /\ work' = work /\ UNCHANGED tables
         /\ OpenObject(t) => IF pc[t] = "write" THEN pc'[t] = "fill" ELSE pc[t] = "rewrite"
         /\ WriteObject(t) => pc[t] = "fill" /\ pc'[t] = "insertObj"
         /\ Unlink(t) => pc[t] = "unlink" /\ pc'[t] = "dropObject"
  <1>0. pc \in [Threads -> Labels]
    BY DEF TypeOK, HandlersOK
  <1>a. Abandon(t) \/ Die => pc'[t] = "idle"
    BY <1>0 DEF Abandon, Die
  <1>g. \A label : Goto(t, label) => pc'[t] = label
    BY <1>0 DEF Goto
  <1>n. NextVictim(t) => pc'[t] \in {"idle", "pick"}
    BY <1>a, <1>g DEF NextVictim, Reply
  <1>s. ASSUME NEW flag, SetDeleted(t, flag) PROVE pc'[t] = "idle" \/ pc'[t] = pc[t]
    BY <1>s, <1>a DEF SetDeleted, Reply
  <1>1. CASE OpenObject(t) \/ WriteObject(t) \/ Unlink(t)
    BY <1>0, <1>1, <1>g DEF OpenObject, WriteObject, Unlink, Goto, At, tables
  <1>2. CASE ~ (OpenObject(t) \/ WriteObject(t) \/ Unlink(t))
    <2>1. CASE SoftDeleteNext(t) \/ RestoreNext(t)
      BY <1>2, <2>1, <1>s DEF SoftDeleteNext, RestoreNext, At
    <2>2. CASE FindRoot(t)
      BY <1>2, <2>2, <1>a, <1>g DEF FindRoot, AfterRoot, Reply
    <2>3. CASE CollectKids(t)
      BY <1>2, <2>3, <1>g DEF CollectKids, AfterCollect
    <2>4. CASE FetchDir(t) \/ FetchId(t) \/ FetchObject(t) \/ RewriteObject(t)
      BY <1>0, <1>2, <2>4, <1>a, <1>g DEF FetchDir, FetchId, FetchObject, RewriteObject, Reply, Undefined
    <2>5. CASE ~ (SoftDeleteNext(t) \/ RestoreNext(t) \/ FindRoot(t) \/ CollectKids(t)
                  \/ FetchDir(t) \/ FetchId(t) \/ FetchObject(t) \/ RewriteObject(t))
      BY <1>2, <2>5, <1>a, <1>g, <1>n DEF Step, CheckParent, CheckName, InsertDir, FindObject,
         InsertObject, CheckExists, AddRef,
         InsertRow, AddUsed, InsertShare, CheckRestoreName,
         PickVictim, DropShares, DropRow, SubUsed, Unref, ReadRef, DropObject, Reply
    <2> QED BY <2>1, <2>2, <2>3, <2>4, <2>5
  <1> QED BY <1>1, <1>2

\* An upload that writes a file writes that of its content.
LEMMA WritesContent ==
  ASSUME TypeOK, NEW t \in Threads, pc[t] \in {"write", "fill"}
  PROVE  req[t].sha \in Contents
  <1>1. HandlersOK
    BY DEF TypeOK
  <1>2. req[t] \in Requests \cup {NoRequest} /\ req[t].op \in Ops /\ pc[t] \in LabelsOf(req[t].op)
    BY <1>1, HandlerFacts
  <1>3. req[t].op = "upload"
    BY <1>2, LabelOps
  <1>4. req[t] \in UploadReq
    BY <1>2, <1>3, RequestKinds
  <1> QED BY <1>4 DEF UploadReq

\* The files of the objects stay whole.
LEMMA FilesStayWhole ==
  ASSUME faults' = 0, CatalogInv, NEW t \in Threads, Threads = {t}, Step(t), TypeOK'
  PROVE  \A o \in DOMAIN objects' : disk'[objects'[o].sha] = "whole" \/ Dropping(o)'
  <1>0. /\ TypeOK /\ ShaUnique /\ ObjectsWhole /\ OthersSame(t)
        /\ disk \in [Contents -> {"absent", "partial", "whole"}]
        /\ objects \in [DOMAIN objects -> [sha : Contents, ref : Nat]]
        /\ nextObject \notin DOMAIN objects
        /\ \A s \in Threads : s = t
    BY CatalogFacts, NoFault DEF TypeOK, TablesOK
  <1>1. SUFFICES ASSUME NEW o \in DOMAIN objects'
                 PROVE  disk'[objects'[o].sha] = "whole" \/ Dropping(o)'
    OBVIOUS
  <1>2. CASE OpenObject(t) \/ WriteObject(t) \/ Unlink(t)
    <2>1. objects' = objects /\ req' = req /\ work' = work
      BY <1>0, <1>2, WriteLanding DEF tables
    <2>2. disk[objects[o].sha] = "whole" /\ objects[o].sha \in Contents
      BY <1>0, <1>1, <1>2, <2>1 DEF ObjectsWhole, Dropping, OpenObject, WriteObject, Unlink, At
    <2>3. CASE OpenObject(t)
      <3>1. pc[t] = "write" /\ ObjectsWith(req[t].sha) = {}
        BY <1>0, <2>3, WriteLanding DEF ObjectsWhole
      <3>2. objects[o].sha # req[t].sha
        BY <1>1, <2>1, <3>1 DEF ObjectsWith
      <3>3. disk' = [disk EXCEPT ![req[t].sha] = "partial"]
        BY <2>3 DEF OpenObject
      <3> QED BY <1>0, <2>1, <2>2, <3>2, <3>3
    <2>4. CASE WriteObject(t)
      <3>1. disk' = [disk EXCEPT ![req[t].sha] = "whole"]
        BY <2>4, NoFault
      <3> QED BY <1>0, <2>1, <2>2, <3>1
    <2>5. CASE Unlink(t)
      <3>1. /\ pc[t] = "unlink" /\ pc'[t] = "dropObject"
            /\ disk' = [disk EXCEPT ![work[t].path] = "absent"]
        BY <1>0, <2>5, WriteLanding, NoFault
      <3>2. work[t].row.obj \in DOMAIN objects /\ work[t].path = objects[work[t].row.obj].sha
        BY <1>0, <3>1 DEF ObjectsWhole
      <3>3. CASE o = work[t].row.obj
        BY <2>1, <3>1, <3>3 DEF Dropping
      <3>4. CASE o # work[t].row.obj
        <4>1. objects[o].sha # work[t].path
          BY <1>0, <1>1, <2>1, <3>2, <3>4 DEF ShaUnique
        <4> QED BY <1>0, <2>1, <2>2, <3>1, <4>1
      <3> QED BY <3>3, <3>4
    <2> QED BY <1>2, <2>3, <2>4, <2>5
  <1>3. CASE ~ (OpenObject(t) \/ WriteObject(t) \/ Unlink(t))
    <2>1. disk' = disk
      BY <1>3, DiskSteps
    <2>2. CASE InsertObject(t) /\ o \notin DOMAIN objects
      <3>1. objects'[o].sha = req[t].sha
        BY <1>0, <1>1, <2>2, ObjectMoves
      <3>2. disk[req[t].sha] = "whole"
        BY <1>0, <2>2 DEF InsertObject, ObjectsWhole, At
      <3> QED BY <2>1, <3>1, <3>2
    <2>3. CASE o \in DOMAIN objects
      <3>1. objects'[o].sha = objects[o].sha
        BY <1>0, <1>1, <2>3, ObjectMoves
      <3>2. ~Dropping(o)
        <4>1. SUFFICES ASSUME Dropping(o) PROVE FALSE
          OBVIOUS
        <4>2. pc[t] = "dropObject" /\ work[t].row.obj = o
          BY <1>0, <4>1 DEF Dropping
        <4>3. RowsOf(o) = {}
          BY <1>0, <4>2 DEF ObjectsWhole
        <4>4. DropObject(t)
          BY <4>2 DEF Step, CheckParent, CheckName, InsertDir, FetchDir, FindObject, OpenObject, WriteObject,
             InsertObject, FetchObject, CheckExists, RewriteObject, AddRef, InsertRow, AddUsed, FetchId, FindRoot,
             InsertShare, CheckRestoreName, CollectKids, SoftDeleteNext, RestoreNext,
             PickVictim, DropShares, DropRow, SubUsed, Unref, ReadRef, Unlink, At
        <4>5. objects' = [x \in DOMAIN objects \ {o} |-> objects[x]]
          BY <4>2, <4>3, <4>4 DEF DropObject, RowsOf
        <4> QED BY <1>1, <4>5
      <3> QED BY <1>0, <2>1, <2>3, <3>1, <3>2 DEF ObjectsWhole
    <2>4. o \in DOMAIN objects \/ InsertObject(t)
      BY <1>0, <1>1, ObjectMoves
    <2> QED BY <2>2, <2>3, <2>4
  <1> QED BY <1>2, <1>3

\* What the only handler knows of the object it works on.
LEMMA HandlerKnows ==
  ASSUME faults' = 0, CatalogInv, NEW t \in Threads, Threads = {t}, Step(t)
  PROVE  /\ pc'[t] \notin {"rewrite", "refill"}
         /\ pc'[t] = "write" => ObjectsWith(req[t].sha)' = {}
         /\ pc'[t] = "exists" => ObjectsWith(req[t].sha)' # {}
         /\ pc'[t] = "fill" => ObjectsWith(req[t].sha)' = {} /\ disk'[req'[t].sha] = "partial"
         /\ pc'[t] = "insertObj" => disk'[req'[t].sha] = "whole"
         /\ pc'[t] \in {"unlink", "dropObject"} =>
              /\ work'[t].row.obj \in DOMAIN objects' /\ RowsOf(work[t].row.obj)' = {}
              /\ pc'[t] = "unlink" => work'[t].path = objects'[work'[t].row.obj].sha
  <1>0. /\ TypeOK /\ ShaUnique /\ ObjectsWhole /\ OthersSame(t) /\ RefCountCovers
        /\ disk \in [Contents -> {"absent", "partial", "whole"}]
        /\ pc \in [Threads -> Labels]
        /\ \A s \in Threads : s = t
    BY CatalogFacts, NoFault DEF TypeOK, TablesOK, HandlersOK
  <1>g. \A label : Goto(t, label) => pc'[t] = label /\ req' = req
    BY <1>0 DEF Goto
  <1>a. Reply(t) => pc'[t] = "idle"
    BY <1>0 DEF Reply, Abandon
  <1>1. pc'[t] # "rewrite"
    <2>1. SUFFICES ASSUME pc'[t] = "rewrite" PROVE FALSE
      OBVIOUS
    <2>2. CheckExists(t) /\ disk[req[t].sha] = "absent"
      BY <1>0, <2>1, Landing, Arrivals
    <2>3. pc[t] = "exists" /\ ObjectsWith(req[t].sha) # {}
      BY <1>0, <2>2 DEF CheckExists, ObjectsWhole, At
    <2> QED BY <1>0, <2>2, <2>3 DEF ObjectsWhole, ObjectsWith, Dropping
  <1>2. pc'[t] # "refill"
    <2>1. SUFFICES ASSUME pc'[t] = "refill" PROVE FALSE
      OBVIOUS
    <2>2. OpenObject(t)
      BY <1>0, <2>1, Landing
    <2> QED BY <1>0, <2>1, <2>2, WriteLanding DEF ObjectsWhole
  <1>3. pc'[t] = "exists" => ObjectsWith(req[t].sha)' # {}
    <2>1. SUFFICES ASSUME pc'[t] = "exists" PROVE ObjectsWith(req[t].sha)' # {}
      OBVIOUS
    <2>2. FindObject(t)
      BY <1>0, <2>1, Landing
    <2>3. ObjectsWith(req[t].sha) # {} /\ req' = req /\ objects' = objects
      BY <1>a, <1>g, <2>1, <2>2 DEF FindObject, tables
    <2> QED BY <2>3 DEF ObjectsWith
  <1>4. pc'[t] = "fill" => ObjectsWith(req[t].sha)' = {} /\ disk'[req'[t].sha] = "partial"
    <2>1. SUFFICES ASSUME pc'[t] = "fill"
                   PROVE  ObjectsWith(req[t].sha)' = {} /\ disk'[req'[t].sha] = "partial"
      OBVIOUS
    <2>2. OpenObject(t) /\ req' = req /\ UNCHANGED tables
      BY <1>0, <2>1, WriteLanding
    <2>3. pc[t] = "write" /\ disk' = [disk EXCEPT ![req[t].sha] = "partial"]
      BY <1>0, <2>2, WriteLanding DEF OpenObject, ObjectsWhole
    <2>4. ObjectsWith(req[t].sha) = {} /\ req[t].sha \in Contents
      BY <1>0, <2>3, WritesContent DEF ObjectsWhole
    <2> QED BY <1>0, <2>2, <2>3, <2>4 DEF ObjectsWith, tables
  <1>5. pc'[t] = "insertObj" => disk'[req'[t].sha] = "whole"
    <2>1. SUFFICES ASSUME pc'[t] = "insertObj" PROVE disk'[req'[t].sha] = "whole"
      OBVIOUS
    <2>2. WriteObject(t) /\ req' = req /\ disk' = [disk EXCEPT ![req[t].sha] = "whole"] /\ pc[t] = "fill"
      BY <1>0, <2>1, WriteLanding, NoFault
    <2>3. req[t].sha \in Contents
      BY <1>0, <2>2, WritesContent
    <2> QED BY <1>0, <2>2, <2>3
  <1>6. pc'[t] \in {"unlink", "dropObject"} =>
              /\ work'[t].row.obj \in DOMAIN objects' /\ RowsOf(work[t].row.obj)' = {}
              /\ pc'[t] = "unlink" => work'[t].path = objects'[work'[t].row.obj].sha
    <2>1. CASE pc'[t] = "unlink"
      <3>1. PICK o : /\ o = work[t].row.obj /\ o \in DOMAIN objects /\ objects[o].ref = 0
                     /\ work'[t].path = objects[o].sha /\ UNCHANGED tables
        BY <1>0, <2>1, Arrivals
      <3>2. work'[t].row = work[t].row
        BY <1>0, <2>1, Landing, Carried
      <3>3. RowsOf(o) = {}
        BY <1>0, <3>1, ZeroUnheld
      <3> QED BY <2>1, <3>1, <3>2, <3>3 DEF RowsOf, tables
    <2>2. CASE pc'[t] = "dropObject"
      <3>1. Unlink(t)
        BY <1>0, <2>2, Landing
      <3>2. pc[t] = "unlink" /\ work' = work /\ UNCHANGED tables
        BY <1>0, <3>1, WriteLanding
      <3> QED BY <1>0, <2>2, <3>2 DEF ObjectsWhole, RowsOf, tables
    <2> QED BY <2>1, <2>2
  <1>7. pc'[t] = "write" => ObjectsWith(req[t].sha)' = {}
    BY <1>0, Arrivals DEF ObjectsWith, tables
  <1> QED BY <1>1, <1>2, <1>3, <1>4, <1>5, <1>6, <1>7

\* The invariant of the catalogue: it holds at first, and each step keeps it.
LEMMA CatalogInvInit == Init => CatalogInv
  <1> SUFFICES ASSUME Init PROVE CatalogInv
    OBVIOUS
  <1>1. RefInv /\ UsedInv /\ faults = 0
    BY RefInvInit, UsedInit DEF Init
  <1>2. WriteSafe /\ UnlinkSafe /\ LastMade
    BY DEF Init, WriteSafe, UnlinkSafe, LastMade
  <1>3. ObjectsWhole
    BY DEF Init, ObjectsWhole, EmptyTable
  <1> QED BY <1>1, <1>2, <1>3 DEF CatalogInv, KeepInv

\* The steps of the only thread: its handler moves on or begins, or there is a fault.
LEMMA OneThreadSteps ==
  ASSUME \A s, u \in Threads : s = u, CatalogInv, [Next]_vars
  PROVE  \/ \E t \in Threads : Threads = {t} /\ Step(t)
         \/ \E t \in Threads : /\ Threads = {t} /\ UNCHANGED <<tables, disk, faults>>
                               /\ pc[t] = "idle" /\ pc'[t] \in {"parent", "root"}
         \/ UNCHANGED vars
         \/ MaxFaults > 0 /\ faults' > 0
  <1>0. faults = 0 /\ pc \in [Threads -> Labels] /\ req \in [Threads -> Requests \cup {NoRequest}]
    BY CatalogFacts DEF TypeOK, HandlersOK
  <1>1. Crash \/ (\E t \in Threads : Fail(t) \/ Skipped(t)) => MaxFaults > 0 /\ faults' > 0
    BY <1>0, BoundsAssumption DEF Crash, Fail, Skipped
  <1>2. ASSUME NEW t \in Threads, Begin(t)
        PROVE  /\ UNCHANGED <<tables, disk, faults>>
               /\ pc[t] = "idle" /\ pc'[t] \in {"parent", "root"}
    BY <1>0, <1>2 DEF Begin, FirstLabel, At
  <1>3. \A t \in Threads : Threads = {t}
    OBVIOUS
  <1> QED BY <1>1, <1>2, <1>3, Cases

LEMMA FaultlessStep ==
  ASSUME \A s, u \in Threads : s = u, MaxFaults = 0, CatalogInv, [Next]_vars
  PROVE  faults' = 0
  <1>1. faults = 0
    BY CatalogFacts
  <1> QED BY <1>1, OneThreadSteps, FaultsStay DEF vars, bounds

LEMMA ObjectsWholeStep ==
  ASSUME \A s, u \in Threads : s = u, faults' = 0, CatalogInv, [Next]_vars
  PROVE  ObjectsWhole'
  <1>0. TypeOK /\ TypeOK' /\ ObjectsWhole
    BY CatalogFacts, NextTypes
  <1>1. ASSUME NEW t \in Threads, Threads = {t}, Step(t) PROVE ObjectsWhole'
    <2>1. \A o \in DOMAIN objects' : disk'[objects'[o].sha] = "whole" \/ Dropping(o)'
      BY <1>0, <1>1, FilesStayWhole
    <2>2. /\ pc'[t] \notin {"rewrite", "refill"}
          /\ pc'[t] = "write" => ObjectsWith(req[t].sha)' = {}
          /\ pc'[t] = "exists" => ObjectsWith(req[t].sha)' # {}
          /\ pc'[t] = "fill" => ObjectsWith(req[t].sha)' = {} /\ disk'[req'[t].sha] = "partial"
          /\ pc'[t] = "insertObj" => disk'[req'[t].sha] = "whole"
          /\ pc'[t] \in {"unlink", "dropObject"} =>
               /\ work'[t].row.obj \in DOMAIN objects' /\ RowsOf(work[t].row.obj)' = {}
               /\ pc'[t] = "unlink" => work'[t].path = objects'[work'[t].row.obj].sha
      BY <1>1, HandlerKnows
    <2>4. \A s \in Threads : s = t
      BY <1>1
    <2> QED BY <2>1, <2>2, <2>4 DEF ObjectsWhole
  <1>2. ASSUME NEW t \in Threads, Threads = {t}, UNCHANGED <<tables, disk, faults>>,
               pc[t] = "idle", pc'[t] \in {"parent", "root"}
        PROVE  ObjectsWhole'
    <2>1. \A o : ~Dropping(o)
      BY <1>2 DEF Dropping
    <2>2. \A s \in Threads : s = t
      BY <1>2
    <2> QED BY <1>0, <1>2, <2>1, <2>2 DEF ObjectsWhole, tables
  <1>3. ASSUME UNCHANGED vars PROVE ObjectsWhole'
    BY <1>0, <1>3 DEF ObjectsWhole, Dropping, ObjectsWith, RowsOf, vars, tables, handler, bounds
  <1> QED BY <1>1, <1>2, <1>3, OneThreadSteps

LEMMA CatalogInvStep ==
  ASSUME \A s, u \in Threads : s = u, faults' = 0, CatalogInv, [Next]_vars
  PROVE  CatalogInv'
  <1>1. NoDoublePurge'
    BY DEF NoDoublePurge
  <1>2. RefInv'
    BY <1>1, RefInvStep DEF CatalogInv, KeepInv
  <1>3. KeepInv'
    BY <1>2, KeepStep DEF CatalogInv
  <1>4. LastMade' /\ UsedInv'
    BY CatalogFacts, LastMadeStep, UsedStep
  <1> QED BY <1>3, <1>4, ObjectsWholeStep DEF CatalogInv

----------------------------------------------------------------------------
\* The entries and quotas of the catalogue.

\* Without faults every row has its whole content.
HasContent ==
  \A i \in DOMAIN files :
    /\ ContentOf(files[i]) = IF files[i].dir THEN "folder" ELSE objects[files[i].obj].sha
    /\ ~files[i].dir => files[i].obj \in DOMAIN objects

LEMMA ContentIs == CatalogInv => HasContent
  <1> SUFFICES ASSUME CatalogInv, NEW i \in DOMAIN files
               PROVE  /\ ContentOf(files[i]) = IF files[i].dir THEN "folder" ELSE objects[files[i].obj].sha
                      /\ ~files[i].dir => files[i].obj \in DOMAIN objects
    BY DEF HasContent
  <1>0. TypeOK /\ ObjectsWhole
    BY CatalogFacts
  <1>1. ~files[i].dir => files[i].obj \in DOMAIN objects
    BY <1>0 DEF TypeOK, TablesOK
  <1>2. ~Dropping(files[i].obj)
    BY <1>0 DEF ObjectsWhole, Dropping, RowsOf
  <1> QED BY <1>0, <1>1, <1>2 DEF ContentOf, ObjectsWhole

LEMMA ContentNext == CatalogInv' => HasContent'
  BY ContentIs, PTL

\* What is charged is what the rows weigh.
QuotaWeighs == \A u \in Users : QuotaOf(u) = Weight(files, u)

LEMMA QuotaIs ==
  ASSUME \A s, t \in Threads : s = t
  PROVE  CatalogInv => QuotaWeighs
  <1> SUFFICES ASSUME CatalogInv, NEW u \in Users PROVE QuotaOf(u) = Weight(files, u)
    BY DEF QuotaWeighs
  <1>0. TypeOK /\ UsedExact /\ faults = 0 /\ used \in [Users -> Nat]
    BY CatalogFacts DEF UsedInv, TypeOK, TablesOK
  <1>1. used[u] + Charges(req, Owing(u, "addUsed")) = Weight(files, u) + Returns(work, Owing(u, "subUsed"))
    BY <1>0, UsedReads
  <1>2. QuotaOf(u) = used[u] + Charges(req, Owing(u, "addUsed")) - Returns(work, Owing(u, "subUsed"))
    BY DEF QuotaOf, Charges, Returns
  <1>w. Weight(files, u) \in Nat
    <2>1. RowsFinite(files)
      BY <1>0, FilesFinite
    <2>2. IsFiniteSet(DOMAIN files) /\ \A i \in DOMAIN files : files[i].size \in Nat
      <3>1. \A i \in DOMAIN files : files[i] \in Row
        BY <2>1 DEF RowsFinite
      <3> QED BY <2>1, <3>1 DEF RowsFinite, Row
    <2> QED BY <2>2, WeightNat
  <1>3. Charges(req, Owing(u, "addUsed")) \in Nat /\ Returns(work, Owing(u, "subUsed")) \in Nat
    <2>1. ASSUME NEW t \in Threads
          PROVE  Charges(req, Owing(u, "addUsed")) \in Nat /\ Returns(work, Owing(u, "subUsed")) \in Nat
      <3>1. Threads = {t}
        OBVIOUS
      <3>2. /\ pc[t] = "addUsed" => ReqSize(req[t]) \in Nat
            /\ pc[t] = "subUsed" => work[t].row.size \in Nat
        BY <1>0, SizeGiven DEF TypeOK, HandlersOK, Fits, PurgeLabels, Row
      <3>3. Owing(u, "addUsed") = Who(pc, req, u, "addUsed") /\ Owing(u, "subUsed") = Who(pc, req, u, "subUsed")
        BY DEF Owing, Who
      <3>4. /\ Charges(req, Who(pc, req, u, "addUsed")) = Charged(pc[t], req[t], u)
            /\ Returns(work, Who(pc, req, u, "subUsed")) = Returned(pc[t], req[t], work[t], u)
        BY <3>1, <3>2, OneOwes
      <3> QED BY <3>2, <3>3, <3>4 DEF Charged, Returned
    <2>2. CASE Threads = {}
      <3>1. Owing(u, "addUsed") = {} /\ Owing(u, "subUsed") = {}
        BY <2>2 DEF Owing
      <3>2. Charges(req, {}) = 0 /\ Returns(work, {}) = 0
        BY ChargesOne, ReturnsOne
      <3> QED BY <3>1, <3>2
    <2> QED BY <2>1, <2>2
  <1> QED BY <1>0, <1>1, <1>2, <1>3, <1>w

LEMMA QuotaNext ==
  ASSUME \A s, t \in Threads : s = t
  PROVE  CatalogInv' => QuotaWeighs'
  <1>1. CatalogInv => QuotaWeighs
    BY QuotaIs
  <1> QED BY <1>1, PTL

EntryOf(i) == [user |-> files[i].user, content |-> ContentOf(files[i]),
               size |-> files[i].size, deleted |-> files[i].deleted]
Entries == [i \in DOMAIN files |-> EntryOf(i)]
Quotas  == [u \in Users |-> QuotaOf(u)]

\* A row that stays keeps its entry, but for the mark.
LEMMA EntryKept ==
  ASSUME TypeOK, TypeOK', HasContent, HasContent', NEW t \in Threads, Step(t),
         NEW i \in DOMAIN files, i \in DOMAIN files', files'[i].user = files[i].user,
         files'[i].size = files[i].size
  PROVE  EntryOf(i)' = [EntryOf(i) EXCEPT !.deleted = files'[i].deleted]
  <1>1. /\ files'[i].dir = files[i].dir
        /\ ~files[i].dir => files'[i].obj = files[i].obj /\ objects'[files[i].obj].sha = objects[files[i].obj].sha
    BY RowsKeepContent
  <1>2. ContentOf(files[i])' = ContentOf(files[i])
    BY <1>1 DEF HasContent
  <1> QED BY <1>2 DEF EntryOf

\* Ids are given by INSERT only.
LEMMA NextFileStays ==
  ASSUME NEW t \in Threads, Step(t), ~InsertDir(t), ~ (InsertRow(t) /\ work[t].obj \in DOMAIN objects)
  PROVE  nextFile' = nextFile
  BY DEF Step, CheckParent, CheckName, FetchDir, FindObject, OpenObject, WriteObject,
         InsertObject, FetchObject, CheckExists, RewriteObject, AddRef, InsertRow, AddUsed, FetchId, FindRoot,
         InsertShare, CheckRestoreName, CollectKids, SoftDeleteNext, RestoreNext, SetDeleted,
         PickVictim, DropShares, DropRow, SubUsed, Unref, ReadRef, Unlink, DropObject, Undefined,
         tables

\* Facts of one step of the only thread that every case needs.
LEMMA StepFacts ==
  ASSUME \A s, u \in Threads : s = u, CatalogInv, CatalogInv'
  PROVE  /\ TypeOK /\ TypeOK' /\ HasContent /\ HasContent' /\ RowsFinite(files)
         /\ IsFiniteSet(DOMAIN files) /\ nextFile \notin DOMAIN files
         /\ \A i \in DOMAIN files : files[i] \in Row /\ files[i].size \in Nat /\ files[i].user \in Users
         /\ Quotas = [u \in Users |-> Weight(files, u)]
         /\ Quotas' = [u \in Users |-> Weight(files', u)]
  <1>1. TypeOK /\ TypeOK' /\ HasContent /\ HasContent'
    <2>1. TypeOK
      BY CatalogFacts
    <2>2. CatalogInv' => TypeOK'
      BY DEF CatalogInv, UsedInv
    <2> QED BY <2>1, <2>2, ContentIs, ContentNext
  <1>2. RowsFinite(files) /\ nextFile \notin DOMAIN files
    BY <1>1, FilesFinite DEF TypeOK, TablesOK
  <1>3. IsFiniteSet(DOMAIN files) /\ \A i \in DOMAIN files : files[i] \in Row
    BY <1>2 DEF RowsFinite
  <1>4. \A i \in DOMAIN files : files[i].size \in Nat /\ files[i].user \in Users
    BY <1>3 DEF Row
  <1>5. QuotaWeighs /\ QuotaWeighs'
    BY QuotaIs, QuotaNext
  <1>6. Quotas = [u \in Users |-> Weight(files, u)]
    BY <1>5 DEF QuotaWeighs, Quotas
  <1>7. Quotas' = [u \in Users |-> Weight(files', u)]
    <2>1. \A u \in Users : QuotaOf(u)' = Weight(files', u)
      BY <1>5 DEF QuotaWeighs
    <2> QED BY <2>1 DEF Quotas
  <1> QED BY <1>1, <1>2, <1>3, <1>4, <1>5, <1>6, <1>7

\* Rows that stay as they are stay the same entries.
LEMMA SameEntries ==
  ASSUME \A s, u \in Threads : s = u, CatalogInv, CatalogInv', NEW t \in Threads, Step(t), files' = files
  PROVE  Entries' = Entries /\ Quotas' = Quotas
  <1>0. /\ TypeOK /\ TypeOK' /\ HasContent /\ HasContent'
        /\ Quotas = [u \in Users |-> Weight(files, u)]
        /\ Quotas' = [u \in Users |-> Weight(files', u)]
    BY StepFacts
  <1>1. ASSUME NEW i \in DOMAIN files PROVE EntryOf(i)' = EntryOf(i)
    <2>1. EntryOf(i)' = [EntryOf(i) EXCEPT !.deleted = files'[i].deleted]
      BY <1>0, EntryKept
    <2> QED BY <2>1 DEF EntryOf
  <1>2. Entries' = Entries
    BY <1>1 DEF Entries
  <1> QED BY <1>0, <1>2

\* The catalogue's actions, of the entries and quotas above.
LEMMA PutMeans ==
  ASSUME NEW e, ~e.deleted, nextFile' = nextFile + 1,
         Entries' = [i \in DOMAIN Entries \cup {nextFile} |-> IF i = nextFile THEN e ELSE Entries[i]],
         Quotas' = [Quotas EXCEPT ![e.user] = @ + e.size]
  PROVE  Catalog!Put(e)
  BY DEF Catalog!Put, Entries, EntryOf, Quotas

LEMMA MarkMeans ==
  ASSUME NEW i, NEW flag, nextFile' = nextFile, Quotas' = Quotas,
         Entries' = [Entries EXCEPT ![i].deleted = flag]
  PROVE  Catalog!Mark(i, flag)
  BY DEF Catalog!Mark, Entries, EntryOf, Quotas

LEMMA EraseMeans ==
  ASSUME NEW i, Entries[i].deleted, nextFile' = nextFile,
         Entries' = [j \in DOMAIN Entries \ {i} |-> Entries[j]],
         Quotas' = [Quotas EXCEPT ![Entries[i].user] = @ - Entries[i].size]
  PROVE  Catalog!Erase(i)
  BY DEF Catalog!Erase, Entries, EntryOf, Quotas

LEMMA StutterMeans ==
  ASSUME Entries' = Entries, Quotas' = Quotas, nextFile' = nextFile
  PROVE  UNCHANGED Catalog!vars
  BY DEF Catalog!vars, Entries, EntryOf, Quotas

\* A row more is an entry more.
LEMMA PutEntry ==
  ASSUME \A s, u \in Threads : s = u, CatalogInv, CatalogInv', NEW t \in Threads, Step(t), NEW row,
         AddRow(t, row), row.size \in SizesGiven, row.size \in Nat, ~row.deleted
  PROVE  \E e \in Catalog!Entry : Catalog!Put(e)
  <1>0. /\ TypeOK /\ TypeOK' /\ HasContent /\ HasContent'
        /\ IsFiniteSet(DOMAIN files) /\ nextFile \notin DOMAIN files
        /\ \A i \in DOMAIN files : files[i] \in Row /\ files[i].size \in Nat /\ files[i].user \in Users
        /\ Quotas = [u \in Users |-> Weight(files, u)]
        /\ Quotas' = [u \in Users |-> Weight(files', u)]
    BY StepFacts
  <1> PICK n : n = nextFile
    OBVIOUS
  <1>1. /\ DOMAIN files' = DOMAIN files \cup {n} /\ files'[n] = row /\ nextFile' = n + 1
        /\ \A i \in DOMAIN files : files'[i] = files[i]
    BY <1>0 DEF AddRow
  <1> PICK e : e = EntryOf(n)'
    OBVIOUS
  <1>2. /\ row \in Row
        /\ ~row.dir => row.obj \in DOMAIN objects' /\ objects'[row.obj].sha \in Contents
    BY <1>0, <1>1 DEF TypeOK, TablesOK
  <1>3. ContentOf(files[n])' \in Contents \cup {"folder"}
    BY <1>0, <1>1, <1>2 DEF HasContent
  <1>4. e = [user |-> row.user, content |-> ContentOf(files[n])', size |-> row.size, deleted |-> row.deleted]
    BY <1>1 DEF EntryOf
  <1>5. e \in Catalog!Entry /\ ~e.deleted /\ e.user = row.user /\ e.size = row.size /\ row.user \in Users
    BY <1>2, <1>3, <1>4 DEF Catalog!Entry, Row
  <1>6. ASSUME NEW i \in DOMAIN files PROVE EntryOf(i)' = EntryOf(i)
    <2>1. EntryOf(i)' = [EntryOf(i) EXCEPT !.deleted = files'[i].deleted]
      BY <1>0, <1>1, EntryKept
    <2> QED BY <1>1, <2>1 DEF EntryOf
  <1>7. Entries' = [i \in DOMAIN Entries \cup {n} |-> IF i = n THEN e ELSE Entries[i]]
    <2>1. Entries' = [i \in DOMAIN files' |-> EntryOf(i)']
      BY DEF Entries
    <2>2. DOMAIN Entries = DOMAIN files /\ \A i \in DOMAIN files : Entries[i] = EntryOf(i)
      BY DEF Entries
    <2>3. EntryOf(n)' = e
      OBVIOUS
    <2> QED BY <1>0, <1>1, <1>6, <2>1, <2>2, <2>3
  <1>8. Quotas' = [Quotas EXCEPT ![e.user] = @ + e.size]
    <2>1. ASSUME NEW u \in Users
          PROVE  Weight(files', u) = Weight(files, u) + IF row.user = u THEN row.size ELSE 0
      <3>1. \A i \in DOMAIN files : files[i].size \in Nat
        BY <1>0
      <3> QED BY <1>0, <1>1, <3>1, WeightPuts
    <2>2. \A u \in Users : Weight(files, u) \in Nat
      BY <1>0, WeightNat
    <2> QED BY <1>0, <1>5, <2>1, <2>2
  <1>9. Catalog!Put(e)
    BY <1>1, <1>5, <1>7, <1>8, PutMeans
  <1> QED BY <1>5, <1>9

\* UPDATE files SET is_deleted is a mark, or touches no row.
LEMMA MarkEntry ==
  ASSUME \A s, u \in Threads : s = u, CatalogInv, CatalogInv', NEW t \in Threads, Step(t),
         NEW flag \in BOOLEAN, SetDeleted(t, flag)
  PROVE  \/ \E i \in DOMAIN Entries : Catalog!Mark(i, flag)
         \/ UNCHANGED Catalog!vars
  <1>0. /\ TypeOK /\ TypeOK' /\ HasContent /\ HasContent'
        /\ IsFiniteSet(DOMAIN files)
        /\ \A i \in DOMAIN files : files[i] \in Row
        /\ Quotas = [u \in Users |-> Weight(files, u)]
        /\ Quotas' = [u \in Users |-> Weight(files', u)]
    BY StepFacts
  <1> PICK h, v : h = Head(work[t].ids) /\ v = req[t].user
    OBVIOUS
  <1>1. /\ files' = [i \in DOMAIN files |-> IF i = h /\ files[i].user = v
                                            THEN [files[i] EXCEPT !.deleted = flag] ELSE files[i]]
        /\ nextFile' = nextFile
    BY DEF SetDeleted
  <1>2. \A i \in DOMAIN files :
          /\ files'[i].user = files[i].user /\ files'[i].size = files[i].size
          /\ files'[i].deleted = IF i = h /\ files[i].user = v THEN flag ELSE files[i].deleted
    BY <1>0, <1>1 DEF Row
  <1>3. Quotas' = Quotas
    <2>1. ASSUME NEW u \in Users PROVE Weight(files', u) = Weight(files, u)
      <3>1. DOMAIN files' = DOMAIN files
        BY <1>1
      <3>2. \A i \in DOMAIN files : files'[i].user = files[i].user /\ files'[i].size = files[i].size
        BY <1>2
      <3> QED BY <1>0, <3>1, <3>2, WeightStays
    <2> QED BY <1>0, <2>1
  <1>4. ASSUME NEW i \in DOMAIN files
        PROVE  EntryOf(i)' = [EntryOf(i) EXCEPT !.deleted = files'[i].deleted]
    BY <1>0, <1>1, <1>2, EntryKept
  <1>5. Entries' = [i \in DOMAIN files |-> EntryOf(i)']
    BY <1>1 DEF Entries
  <1>6. CASE h \in DOMAIN files /\ files[h].user = v
    <2>1. \A i \in DOMAIN files : EntryOf(i)' = IF i = h THEN [EntryOf(i) EXCEPT !.deleted = flag] ELSE EntryOf(i)
      BY <1>2, <1>4, <1>6 DEF EntryOf
    <2>2. Entries' = [Entries EXCEPT ![h].deleted = flag]
      BY <1>5, <1>6, <2>1 DEF Entries
    <2>3. Catalog!Mark(h, flag) /\ h \in DOMAIN Entries
      BY <1>1, <1>3, <1>6, <2>2, MarkMeans DEF Entries
    <2> QED BY <2>3
  <1>7. CASE ~ (h \in DOMAIN files /\ files[h].user = v)
    <2>1. \A i \in DOMAIN files : EntryOf(i)' = EntryOf(i)
      BY <1>2, <1>4, <1>7 DEF EntryOf
    <2>2. Entries' = Entries
      BY <1>5, <2>1 DEF Entries
    <2> QED BY <1>1, <1>3, <2>2, StutterMeans
  <1> QED BY <1>6, <1>7

\* A row less is an entry less, out of the recycle bin.
LEMMA EraseEntry ==
  ASSUME \A s, u \in Threads : s = u, CatalogInv, CatalogInv', NEW t \in Threads, Step(t),
         DropRow(t), Victim(t) \notin shares
  PROVE  \E i \in DOMAIN Entries : Catalog!Erase(i)
  <1>0. /\ TypeOK /\ TypeOK' /\ HasContent /\ HasContent'
        /\ IsFiniteSet(DOMAIN files)
        /\ \A i \in DOMAIN files : files[i] \in Row /\ files[i].size \in Nat /\ files[i].user \in Users
        /\ Quotas = [u \in Users |-> Weight(files, u)]
        /\ Quotas' = [u \in Users |-> Weight(files', u)]
    BY StepFacts
  <1> PICK v : v = Victim(t)
    OBVIOUS
  <1>1. files' = [i \in DOMAIN files \ {v} |-> files[i]] /\ nextFile' = nextFile
    BY DEF DropRow
  <1>2. v \in DOMAIN files /\ files[v].deleted
    BY CatalogFacts DEF UsedInv, VictimKnown, DeletedRow, DropRow, At
  <1>3. /\ DOMAIN files = DOMAIN files' \cup {v} /\ v \notin DOMAIN files'
        /\ \A i \in DOMAIN files' : files[i] = files'[i] /\ files'[i].size \in Nat
        /\ files[v].size \in Nat
    BY <1>0, <1>1, <1>2
  <1>4. IsFiniteSet(DOMAIN files')
    BY <1>0, <1>3, FS_Subset
  <1>5. ASSUME NEW u \in Users
        PROVE  /\ Weight(files, u) = Weight(files', u) + IF files[v].user = u THEN files[v].size ELSE 0
               /\ Weight(files', u) \in Nat
    <2>1. \A i \in DOMAIN files' : files'[i].size \in Nat
      BY <1>3
    <2> QED BY <1>3, <1>4, <2>1, WeightPuts
  <1>6. Quotas' = [Quotas EXCEPT ![files[v].user] = @ - files[v].size]
    BY <1>0, <1>2, <1>3, <1>5
  <1>7. ASSUME NEW i \in DOMAIN files' PROVE EntryOf(i)' = EntryOf(i)
    <2>1. i \in DOMAIN files /\ files'[i] = files[i]
      BY <1>3
    <2>2. EntryOf(i)' = [EntryOf(i) EXCEPT !.deleted = files'[i].deleted]
      BY <1>0, <2>1, EntryKept
    <2> QED BY <2>1, <2>2 DEF EntryOf
  <1>8. Entries' = [j \in DOMAIN Entries \ {v} |-> Entries[j]]
    <2>1. Entries' = [j \in DOMAIN files' |-> EntryOf(j)']
      BY DEF Entries
    <2>2. DOMAIN Entries = DOMAIN files /\ \A i \in DOMAIN files : Entries[i] = EntryOf(i)
      BY DEF Entries
    <2> QED BY <1>3, <1>7, <2>1, <2>2
  <1>9. v \in DOMAIN Entries /\ Entries[v].deleted /\ Entries[v].user = files[v].user /\ Entries[v].size = files[v].size
    BY <1>2 DEF Entries, EntryOf
  <1>10. Catalog!Erase(v)
    BY <1>1, <1>6, <1>8, <1>9, EraseMeans
  <1> QED BY <1>9, <1>10

----------------------------------------------------------------------------
\* Empty tables are an empty catalogue.
LEMMA CatalogInit == Init => Catalog!Init
  <1> SUFFICES ASSUME Init PROVE Catalog!Init
    OBVIOUS
  <1>1. files = [i \in {} |-> NoRow] /\ nextFile = 1
    BY DEF Init, EmptyTable
  <1>2. ASSUME NEW u \in Users PROVE QuotaOf(u) = 0
    <2>1. Owing(u, "addUsed") = {} /\ Owing(u, "subUsed") = {} /\ used[u] = 0
      BY DEF Init, Owing
    <2>2. Charges(req, {}) = 0 /\ Returns(work, {}) = 0
      BY ChargesOne, ReturnsOne
    <2>3. QuotaOf(u) = used[u] + Charges(req, Owing(u, "addUsed")) - Returns(work, Owing(u, "subUsed"))
      BY DEF QuotaOf, Charges, Returns
    <2> QED BY <2>1, <2>2, <2>3
  <1> QED BY <1>1, <1>2 DEF Catalog!Init

\* Every step of the only thread is a step of the catalogue or none.
LEMMA CatalogStep ==
  ASSUME \A s, u \in Threads : s = u, MaxFaults = 0, CatalogInv, CatalogInv', [Next]_vars
  PROVE  [Catalog!Next]_(Catalog!vars)
  <1>0. TypeOK /\ faults = 0
    BY CatalogFacts
  <1>d. DOMAIN Entries = DOMAIN files
    BY DEF Entries
  <1>1. ASSUME NEW t \in Threads, Step(t) PROVE [Catalog!Next]_(Catalog!vars)
    <2>1. ASSUME NEW row, AddRow(t, row), row.size \in SizesGiven, row.size \in Nat, ~row.deleted
          PROVE  Catalog!Next
      BY <1>1, <2>1, PutEntry DEF Catalog!Next
    <2>2. CASE InsertDir(t)
      <3> PICK row : row = [user |-> req[t].user, parent |-> req[t].parent, obj |-> 0,
                            name |-> req[t].name, size |-> 0, dir |-> TRUE, deleted |-> FALSE]
        OBVIOUS
      <3>1. AddRow(t, row)
        BY <2>2 DEF InsertDir
      <3> QED BY <2>1, <3>1 DEF SizesGiven
    <2>3. CASE InsertRow(t) /\ work[t].obj \in DOMAIN objects
      <3> PICK row : row = [user |-> req[t].user, parent |-> req[t].parent,
                            obj |-> work[t].obj, name |-> req[t].name,
                            size |-> ReqSize(req[t]), dir |-> FALSE, deleted |-> FALSE]
        OBVIOUS
      <3>1. AddRow(t, row)
        BY <2>3 DEF InsertRow
      <3>2. /\ req[t] \in Requests /\ req[t].op \in {"upload", "instant"} /\ ReqSize(req[t]) \in Nat
        <4>1. pc[t] = "insertRow"
          BY <2>3 DEF InsertRow, At
        <4> QED BY <1>0, <4>1, SizeGiven DEF TypeOK, HandlersOK
      <3> QED BY <2>1, <3>1, <3>2 DEF SizesGiven
    <2>4. CASE SoftDeleteNext(t) \/ RestoreNext(t)
      <3>1. PICK flag \in BOOLEAN : SetDeleted(t, flag)
        BY <2>4 DEF SoftDeleteNext, RestoreNext
      <3>2. \/ \E i \in DOMAIN Entries : Catalog!Mark(i, flag)
            \/ UNCHANGED Catalog!vars
        BY <1>1, <3>1, MarkEntry
      <3> QED BY <3>2 DEF Catalog!Next, Entries
    <2>5. CASE DropRow(t) /\ Victim(t) \notin shares
      <3>1. \E i \in DOMAIN Entries : Catalog!Erase(i)
        BY <1>1, <2>5, EraseEntry
      <3> QED BY <3>1 DEF Catalog!Next, Entries
    <2>6. CASE \/ InsertRow(t) /\ work[t].obj \notin DOMAIN objects
               \/ DropRow(t) /\ Victim(t) \in shares
               \/ ~ (InsertDir(t) \/ InsertRow(t) \/ SoftDeleteNext(t) \/ RestoreNext(t) \/ DropRow(t))
      <3>1. files' = files
        BY <1>1, <2>6, Touched DEF InsertRow, DropRow
      <3>2. nextFile' = nextFile
        BY <1>1, <2>6, NextFileStays DEF InsertDir, InsertRow, DropRow, At
      <3>3. Entries' = Entries /\ Quotas' = Quotas
        BY <1>1, <3>1, SameEntries
      <3> QED BY <3>2, <3>3, StutterMeans
    <2> QED BY <2>2, <2>3, <2>4, <2>5, <2>6
  <1>2. ASSUME NEW t \in Threads, UNCHANGED <<tables, disk, faults>>,
               pc[t] = "idle", pc'[t] \in {"parent", "root"}
        PROVE  UNCHANGED Catalog!vars
    <2>1. files' = files /\ objects' = objects /\ disk' = disk /\ nextFile' = nextFile
      BY <1>2 DEF tables
    <2>2. Entries' = Entries
      BY <2>1 DEF Entries, EntryOf, ContentOf
    <2>3. \A u \in Users : QuotaOf(u) = Weight(files, u) /\ QuotaOf(u)' = Weight(files', u)
      BY QuotaIs, QuotaNext DEF QuotaWeighs
    <2>4. Quotas' = Quotas
      BY <2>1, <2>3 DEF Quotas
    <2> QED BY <2>1, <2>2, <2>4, StutterMeans
  <1>3. ASSUME UNCHANGED vars PROVE UNCHANGED Catalog!vars
    <2>1. files' = files /\ objects' = objects /\ disk' = disk /\ nextFile' = nextFile
      BY <1>3 DEF vars, tables
    <2>2. Entries' = Entries
      BY <2>1 DEF Entries, EntryOf, ContentOf
    <2>3. \A u \in Users : QuotaOf(u) = Weight(files, u) /\ QuotaOf(u)' = Weight(files', u)
      BY QuotaIs, QuotaNext DEF QuotaWeighs
    <2>4. Quotas' = Quotas
      BY <2>1, <2>3 DEF Quotas
    <2> QED BY <2>1, <2>2, <2>4, StutterMeans
  <1> QED BY <1>1, <1>2, <1>3, OneThreadSteps

\* With one thread and no faults the statements of the handlers implement the catalogue:
\* every INSERT puts an entry with the content it was given, every UPDATE of is_deleted
\* marks one, every DELETE erases one out of the recycle bin, storage_used moves with them,
\* and no other statement changes the content of a row (FileOps.cpp 28-63 and 108-219).
THEOREM CatalogImplemented ==
  ASSUME \A s, t \in Threads : s = t, MaxFaults = 0
  PROVE  Spec => ImplementsCatalog
  <1>1. Init => CatalogInv
    BY CatalogInvInit
  <1>2. CatalogInv /\ [Next]_vars => CatalogInv'
    BY CatalogInvStep, FaultlessStep
  <1>3. Init => Catalog!Init
    BY CatalogInit
  <1>4. CatalogInv /\ CatalogInv' /\ [Next]_vars => [Catalog!Next]_(Catalog!vars)
    BY CatalogStep
  <1> QED BY <1>1, <1>2, <1>3, <1>4, PTL DEF Spec, ImplementsCatalog, Catalog!Spec

----------------------------------------------------------------------------
\* Names, with one thread.

\* Where a create has found its name free, and where it goes on: no step before the INSERT
\* touches files or the request.
LEMMA BeforeNamed ==
  ASSUME TypeOK, NEW t \in Threads, Step(t), OthersSame(t), pc'[t] \in Unnamed
  PROVE  /\ req'[t] = req[t] /\ UNCHANGED files
         /\ \/ pc[t] \in Unnamed /\ work'[t].unseen = work[t].unseen
            \/ ~NameTaken(req[t].user, req[t].parent, req[t].name)
  <1> USE DEF At
  <1>0. /\ pc \in [Threads -> Labels] /\ req \in [Threads -> Requests \cup {NoRequest}]
        /\ work \in [Threads -> Work] /\ "idle" \notin Unnamed
    BY DEF TypeOK, HandlersOK, Unnamed, CreateLabels
  <1>r. ~Abandon(t) /\ ~Reply(t) /\ ~Undefined(t)
    BY <1>0 DEF Reply, Abandon, Undefined, Die
  <1>g. \A label : Goto(t, label) => pc'[t] = label /\ req' = req
    BY <1>0 DEF Goto
  <1>1. CASE CheckName(t)
    BY <1>1, <1>r, <1>g DEF CheckName, tables
  <1>2. CASE FindObject(t) \/ OpenObject(t) \/ InsertObject(t) \/ FetchObject(t) \/ CheckExists(t) \/ AddRef(t)
    <2>1. pc[t] \in Unnamed /\ UNCHANGED files
      BY <1>2, <1>r DEF Unnamed, CreateLabels, FindObject, OpenObject, InsertObject, FetchObject,
                  CheckExists, AddRef, tables
    <2>2. req' = req
      BY <1>2, <1>r DEF FindObject, OpenObject, InsertObject, FetchObject, CheckExists, AddRef, Goto
    <2>3. work'[t].unseen = work[t].unseen
      BY <1>0, <1>2, <1>r DEF FindObject, OpenObject, InsertObject, FetchObject, CheckExists, AddRef, Work
    <2> QED BY <2>1, <2>2, <2>3
  <1>3. CASE WriteObject(t) \/ RewriteObject(t)
    BY <1>3 DEF WriteObject, RewriteObject, Unnamed, CreateLabels, tables
  <1>4. CASE CheckParent(t) \/ InsertDir(t) \/ FetchDir(t) \/ InsertRow(t) \/ AddUsed(t) \/ FetchId(t)
    <2>1. {"name", "fetchDir", "addUsed", "fetchId"} \cap Unnamed = {}
      BY DEF Unnamed, CreateLabels
    <2> QED BY <1>4, <2>1, <1>r, <1>g DEF CheckParent, InsertDir, FetchDir, InsertRow, AddUsed, FetchId
  <1>5. CASE \/ FindRoot(t) \/ InsertShare(t) \/ CheckRestoreName(t) \/ CollectKids(t)
             \/ SoftDeleteNext(t) \/ RestoreNext(t)
             \/ PickVictim(t) \/ DropShares(t) \/ DropRow(t) \/ SubUsed(t)
             \/ Unref(t) \/ ReadRef(t) \/ Unlink(t) \/ DropObject(t)
    <2>1. {"root", "insertShare", "restoreName", "collect", "mark", "unmark"} \cap Unnamed = {}
          /\ PurgeLabels \cap Unnamed = {}
      BY DEF Unnamed, CreateLabels, PurgeLabels
    <2>2. \/ UNCHANGED <<pc, req>> /\ pc[t] \in {"mark", "unmark"}
          \/ \E label \in {"insertShare", "restoreName", "collect", "mark", "unmark"} \cup PurgeLabels :
               pc' = [pc EXCEPT ![t] = label] /\ req' = req
      BY <1>5, <1>r DEF FindRoot, AfterRoot, InsertShare, CheckRestoreName, CollectKids, AfterCollect,
                  SoftDeleteNext, RestoreNext, SetDeleted, PickVictim, DropShares, DropRow, SubUsed, Unref,
                  ReadRef, Unlink, DropObject, NextVictim, Goto, PurgeLabels
    <2> QED BY <2>1, <2>2, <1>0
  <1> QED BY <1>1, <1>2, <1>3, <1>4, <1>5 DEF Step

\* The handler of a restore: the row it has read, and the steps on the way to its UPDATE.
Restoring(label, r) == label = "restoreName" \/ (label \in {"collect", "unmark"} /\ r.op = "restore")

LEMMA BeforeRestored ==
  ASSUME TypeOK, NEW t \in Threads, Step(t), OthersSame(t), Restoring(pc'[t], req'[t])
  PROVE  /\ req' = req
         /\ \/ /\ FindRoot(t) /\ UNCHANGED files /\ pc'[t] = "restoreName"
               /\ DeletedRow(req[t].user, req[t].id) /\ work'[t].row = files[req[t].id]
               /\ work'[t].ids = <<req[t].id>> /\ work'[t].queue = <<req[t].id>>
            \/ /\ CheckRestoreName(t) /\ UNCHANGED <<files, work>> /\ pc[t] = "restoreName"
               /\ ~NameTaken(req[t].user, work[t].row.parent, work[t].row.name)
            \/ /\ CollectKids(t) /\ UNCHANGED files /\ pc[t] = "collect" /\ req[t].op = "restore"
               /\ work'[t].row = work[t].row /\ work'[t].unseen = work[t].unseen
            \/ /\ RestoreNext(t) /\ pc[t] = "unmark" /\ pc'[t] = "unmark"
               /\ Tail(work[t].ids) # <<>>
  <1>0. /\ pc \in [Threads -> Labels] /\ req \in [Threads -> Requests \cup {NoRequest}]
        /\ work \in [Threads -> Work]
    BY DEF TypeOK, HandlersOK
  <1>1. ~Abandon(t) /\ ~Reply(t) /\ ~Undefined(t)
    BY <1>0 DEF Reply, Abandon, Undefined, Die, Restoring
  <1>g. \A label : Goto(t, label) => pc'[t] = label /\ req' = req
    BY <1>0 DEF Goto
  <1>2. CASE FindRoot(t)
    <2>1. /\ RootFound(req[t]) /\ Goto(t, AfterRoot(req[t].op)) /\ UNCHANGED files
          /\ work' = [work EXCEPT ![t] = [[[@ EXCEPT !.row = files[req[t].id]] EXCEPT !.ids = <<req[t].id>>]
                                          EXCEPT !.queue = <<req[t].id>>]]
      BY <1>0, <1>1, <1>2 DEF FindRoot, tables
    <2>2. req' = req /\ pc'[t] = AfterRoot(req[t].op)
      BY <1>g, <2>1
    <2>3. req[t].op = "restore" /\ pc'[t] = "restoreName"
      BY <2>2 DEF AfterRoot, Restoring
    <2>4. DeletedRow(req[t].user, req[t].id)
      BY <2>1, <2>3 DEF RootFound
    <2>5. /\ work'[t].row = files[req[t].id] /\ work'[t].ids = <<req[t].id>>
          /\ work'[t].queue = <<req[t].id>>
      BY <1>0, <2>1 DEF Work
    <2> QED BY <1>2, <2>1, <2>2, <2>3, <2>4, <2>5
  <1>3. CASE CheckRestoreName(t)
    BY <1>1, <1>3, <1>g DEF CheckRestoreName, At, tables
  <1>4. CASE CollectKids(t)
    <2>1. PICK order : LET rest == Front(work[t].queue) \o order IN
                 /\ work' = [work EXCEPT ![t].ids = @ \o order, ![t].queue = rest]
                 /\ Goto(t, IF rest = <<>> THEN AfterCollect(req[t].op) ELSE "collect")
      BY <1>4 DEF CollectKids
    <2>2. req' = req /\ pc'[t] \in {"collect", AfterCollect(req[t].op)}
      BY <1>g, <2>1
    <2>3. req[t].op = "restore"
      BY <2>2 DEF AfterCollect, Restoring
    <2>4. work'[t].row = work[t].row /\ work'[t].unseen = work[t].unseen
      BY <1>0, <2>1 DEF Work
    <2> QED BY <1>4, <2>2, <2>3, <2>4 DEF CollectKids, At, tables
  <1>5. CASE RestoreNext(t)
    BY <1>1, <1>5 DEF RestoreNext, SetDeleted, At
  <1>6. CASE \/ CheckParent(t) \/ CheckName(t) \/ InsertDir(t) \/ FetchDir(t)
             \/ FindObject(t) \/ OpenObject(t) \/ InsertObject(t) \/ FetchObject(t)
             \/ CheckExists(t) \/ AddRef(t) \/ InsertRow(t) \/ AddUsed(t) \/ FetchId(t)
    <2>1. pc'[t] \notin {"restoreName", "collect", "unmark"}
      BY <1>6, <1>1, <1>g DEF CheckParent, CheckName, InsertDir, FetchDir, FindObject, OpenObject,
        InsertObject, FetchObject, CheckExists, AddRef, InsertRow, AddUsed, FetchId
    <2> QED BY <2>1 DEF Restoring
  <1>7. CASE WriteObject(t) \/ RewriteObject(t) \/ Unlink(t)
    BY <1>0, <1>7 DEF WriteObject, RewriteObject, Unlink, Restoring
  <1>8. CASE \/ InsertShare(t) \/ SoftDeleteNext(t) \/ PickVictim(t) \/ DropShares(t) \/ DropRow(t)
             \/ SubUsed(t) \/ Unref(t) \/ ReadRef(t) \/ DropObject(t)
    <2>1. pc'[t] \notin {"restoreName", "collect", "unmark"}
      BY <1>0, <1>8, <1>1, <1>g DEF InsertShare, SoftDeleteNext, SetDeleted, PickVictim, DropShares, DropRow,
        SubUsed, Unref, ReadRef, DropObject, NextVictim, At
    <2> QED BY <2>1 DEF Restoring
  <1> QED BY <1>2, <1>3, <1>4, <1>5, <1>6, <1>7, <1>8 DEF Step

\* What becomes of names: rows come in with a free name, and besides that only a restore
\* makes one active.
SameName(i) == /\ files'[i].user = files[i].user /\ files'[i].parent = files[i].parent
               /\ files'[i].name = files[i].name
AsAsked(row, r) == row.user = r.user /\ row.parent = r.parent /\ row.name = r.name

LEMMA NamesMove ==
  ASSUME TypeOK, NEW t \in Threads, Step(t)
  PROVE  \/ \A i \in DOMAIN files' :
              /\ i \in DOMAIN files /\ (files[i].deleted => files'[i].deleted)
              /\ SameName(i)
         \/ /\ pc[t] \in {"insertDir", "insertRow"} /\ nextFile \notin DOMAIN files
            /\ DOMAIN files' = DOMAIN files \cup {nextFile}
            /\ AsAsked(files'[nextFile], req[t])
            /\ \A i \in DOMAIN files : files'[i] = files[i]
         \/ /\ RestoreNext(t) /\ DOMAIN files' = DOMAIN files
            /\ \A i \in DOMAIN files :
                 /\ SameName(i)
                 /\ i = Head(work[t].ids) \/ files'[i].deleted = files[i].deleted
  <1>0. nextFile \notin DOMAIN files /\ files \in [DOMAIN files -> Row]
    BY DEF TypeOK, TablesOK
  <1>1. CASE InsertDir(t)
    BY <1>0, <1>1 DEF InsertDir, AddRow, AsAsked, At
  <1>2. CASE InsertRow(t)
    <2>2. CASE work[t].obj \in DOMAIN objects
      BY <1>0, <1>2, <2>2 DEF InsertRow, AddRow, AsAsked, At
    <2>3. CASE work[t].obj \notin DOMAIN objects
      BY <1>2, <2>3 DEF InsertRow, SameName
    <2> QED BY <2>2, <2>3
  <1>3. ASSUME NEW flag \in BOOLEAN, SetDeleted(t, flag)
        PROVE  /\ DOMAIN files' = DOMAIN files
               /\ \A i \in DOMAIN files :
                    /\ SameName(i)
                    /\ i = Head(work[t].ids) \/ files'[i].deleted = files[i].deleted
                    /\ flag /\ files[i].deleted => files'[i].deleted
    BY <1>0, <1>3 DEF SetDeleted, Row, SameName
  <1>4. CASE SoftDeleteNext(t) \/ RestoreNext(t)
    BY <1>3, <1>4 DEF SoftDeleteNext, RestoreNext
  <1>5. CASE DropRow(t)
    BY <1>0, <1>5 DEF DropRow, SameName
  <1>6. CASE UNCHANGED files
    BY <1>6 DEF SameName
  <1> QED BY <1>1, <1>2, <1>4, <1>5, <1>6, Touched

LEMMA NameFreeStep ==
  ASSUME TypeOK, NameFree, NEW t \in Threads, Threads = {t}, Step(t), OthersSame(t), LoneRestores
  PROVE  NameFree'
  <1>0. pc \in [Threads -> Labels] /\ req \in [Threads -> Requests \cup {NoRequest}]
        /\ "idle" \notin Unnamed
    BY DEF TypeOK, HandlersOK, Unnamed, CreateLabels
  <1>1. ASSUME pc'[t] \in Unnamed
        PROVE  "name" \in work'[t].unseen \/ ~NameTaken(req[t].user, req[t].parent, req[t].name)'
    <2>1. req'[t] = req[t] /\ UNCHANGED files
      BY <1>1, BeforeNamed
    <2>2. "name" \in work'[t].unseen \/ ~NameTaken(req[t].user, req[t].parent, req[t].name)
      BY <1>1, BeforeNamed DEF NameFree
    <2> QED BY <2>1, <2>2 DEF NameTaken, ActiveRow
  <1>2. ASSUME Restoring(pc'[t], req'[t])
        PROVE  /\ DeletedRow(req[t].user, req[t].id)'
               /\ work'[t].row.parent = files'[req'[t].id].parent
               /\ work'[t].row.name = files'[req'[t].id].name
               /\ pc'[t] \in {"collect", "unmark"}
                    => \/ "restoreName" \in work'[t].unseen
                       \/ ~NameTaken(req[t].user, work[t].row.parent, work[t].row.name)'
    <2>1. req' = req
      BY <1>2, BeforeRestored
    <2>2. pc[t] = "unmark" => Tail(work[t].ids) = <<>>
      <3>1. \A x : Tail(<<x>>) = <<>>
        OBVIOUS
      <3> QED BY <3>1 DEF LoneRestores
    <2>3. CASE FindRoot(t) /\ pc'[t] = "restoreName"
      <3>1. /\ DeletedRow(req[t].user, req[t].id) /\ work'[t].row = files[req[t].id] /\ UNCHANGED files
        BY <1>2, <2>3, BeforeRestored DEF FindRoot, CheckRestoreName, CollectKids, RestoreNext, At
      <3> QED BY <2>1, <2>3, <3>1 DEF DeletedRow
    <2>4. CASE ~FindRoot(t)
      <3>1. /\ UNCHANGED files /\ work'[t].row = work[t].row /\ Restoring(pc[t], req[t])
            /\ \/ pc[t] = "restoreName" /\ ~NameTaken(req[t].user, work[t].row.parent, work[t].row.name)
               \/ pc[t] = "collect" /\ req[t].op = "restore" /\ work'[t].unseen = work[t].unseen
        BY <1>2, <2>2, <2>4, BeforeRestored DEF Restoring
      <3>2. \/ "restoreName" \in work'[t].unseen
            \/ ~NameTaken(req[t].user, work[t].row.parent, work[t].row.name)
        BY <3>1 DEF NameFree
      <3> QED BY <2>1, <3>1, <3>2 DEF NameFree, Restoring, DeletedRow, NameTaken, ActiveRow
    <2>5. FindRoot(t) => pc'[t] = "restoreName"
      BY <1>2, BeforeRestored DEF FindRoot, CheckRestoreName, CollectKids, RestoreNext, At
    <2> QED BY <2>3, <2>4, <2>5
  <1> QED BY <1>1, <1>2 DEF NameFree, Restoring

\* A handler that has looked in vain for a row with the name notes that, and keeps the note.
LEMMA NameFreeSkip ==
  ASSUME TypeOK, NameFree, NEW t \in Threads, Threads = {t}, Skipped(t)
  PROVE  NameFree'
  <1>0. pc \in [Threads -> Labels] /\ work \in [Threads -> Work] /\ req' = req /\ files' = files
    BY SkippedTypes DEF TypeOK, HandlersOK, Skipped, tables
  <1>1. {"name", "restoreName", "collect", "mark", "unmark", "pick"} \cap Unnamed = {}
    BY DEF Unnamed, CreateLabels
  <1>2. work[t].unseen \subseteq work'[t].unseen /\ work'[t].row = work[t].row
    <2>1. PICK w : w = work'[t] /\ work[t] \in Work
      BY <1>0
    <2>2. \/ \E x : w = [work[t] EXCEPT !.unseen = @ \cup x]
          \/ \E q : w = [work[t] EXCEPT !.queue = q]
          \/ \E s : w = [work[t] EXCEPT !.ids = s]
      BY <1>0, <2>1, SkippedTo
    <2> QED BY <2>1, <2>2 DEF Work
  <1>3. pc'[t] \in Unnamed => "name" \in work'[t].unseen \/ pc[t] \in Unnamed
    BY <1>0, <1>1, SkippedTo DEF AfterCollect, Work, Unnamed
  <1>4. Restoring(pc'[t], req'[t]) =>
          /\ Restoring(pc[t], req[t])
          /\ pc[t] = "restoreName" => "restoreName" \in work'[t].unseen
    BY <1>0, SkippedTo DEF AfterCollect, Work, Restoring
  <1>5. pc'[t] \in Unnamed => "name" \in work'[t].unseen
                              \/ ~NameTaken(req[t].user, req[t].parent, req[t].name)
    BY <1>2, <1>3 DEF NameFree
  <1>6. Restoring(pc'[t], req'[t]) =>
          /\ DeletedRow(req[t].user, req[t].id)
          /\ work[t].row.parent = files[req[t].id].parent /\ work[t].row.name = files[req[t].id].name
          /\ "restoreName" \in work'[t].unseen
             \/ ~NameTaken(req[t].user, work[t].row.parent, work[t].row.name)
    BY <1>2, <1>4 DEF NameFree, Restoring
  <1> QED BY <1>0, <1>2, <1>5, <1>6 DEF NameFree, Restoring, NameTaken, DeletedRow, ActiveRow

\* A row comes in, or back, where its name is free.
LEMMA UniqueNamesStep ==
  ASSUME NamesInv, NEW t \in Threads, Step(t), LoneRestores,
         NEW i \in DOMAIN files', NEW j \in DOMAIN files', Twins(files', i, j), ~NameUnseen
  PROVE  Twins(files, i, j)
  <1>0. TypeOK /\ NameFree /\ files \in [DOMAIN files -> Row] /\ HandlersOK
    BY DEF NamesInv, TypeOK, TablesOK
  <1>1. /\ i # j /\ ~files'[i].deleted /\ ~files'[j].deleted
        /\ files'[i].user = files'[j].user /\ files'[i].parent = files'[j].parent
        /\ files'[i].name = files'[j].name
    BY DEF Twins
  <1>2. CASE \A k \in DOMAIN files' :
               /\ k \in DOMAIN files /\ (files[k].deleted => files'[k].deleted)
               /\ SameName(k)
    BY <1>0, <1>1, <1>2 DEF SameName, Twins
  <1>3. CASE /\ pc[t] \in {"insertDir", "insertRow"} /\ nextFile \notin DOMAIN files
             /\ DOMAIN files' = DOMAIN files \cup {nextFile}
             /\ AsAsked(files'[nextFile], req[t])
             /\ \A k \in DOMAIN files : files'[k] = files[k]
    <2>1. ~NameTaken(req[t].user, req[t].parent, req[t].name)
      <3>1. pc[t] \in Unnamed /\ "name" \notin work[t].unseen
        BY <1>3 DEF Unnamed, CreateLabels, NameUnseen
      <3> QED BY <1>0, <3>1 DEF NameFree
    <2>2. CASE i # nextFile /\ j # nextFile
      BY <1>0, <1>1, <1>3, <2>2 DEF Twins
    <2>3. ASSUME NEW k \in DOMAIN files, NEW n, n = nextFile, ~files'[k].deleted,
                 files'[k].user = files'[n].user, files'[k].parent = files'[n].parent,
                 files'[k].name = files'[n].name
          PROVE  FALSE
      <3>1. /\ files'[n].user = req[t].user /\ files'[n].parent = req[t].parent
            /\ files'[n].name = req[t].name
        BY <1>3, <2>3 DEF AsAsked
      <3> QED BY <1>3, <2>1, <2>3, <3>1 DEF NameTaken, ActiveRow
    <2> QED BY <1>1, <1>3, <2>2, <2>3
  <1>4. CASE /\ RestoreNext(t) /\ DOMAIN files' = DOMAIN files
             /\ \A k \in DOMAIN files :
                  /\ SameName(k)
                  /\ k = Head(work[t].ids) \/ files'[k].deleted = files[k].deleted
    <2>1. pc[t] = "unmark" /\ req[t].op = "restore"
      BY <1>0, <1>4, HandlerFacts, LabelOps DEF RestoreNext, At
    <2>2. Head(work[t].ids) = req[t].id
      BY <2>1 DEF LoneRestores
    <2>3. /\ DeletedRow(req[t].user, req[t].id)
          /\ work[t].row.parent = files[req[t].id].parent /\ work[t].row.name = files[req[t].id].name
          /\ ~NameTaken(req[t].user, work[t].row.parent, work[t].row.name)
      <3>1. "restoreName" \notin work[t].unseen
        BY <2>1 DEF NameUnseen
      <3> QED BY <1>0, <2>1, <3>1 DEF NameFree
    <2>4. \A k \in DOMAIN files :
            /\ files'[k].user = files[k].user /\ files'[k].parent = files[k].parent
            /\ files'[k].name = files[k].name
            /\ k = req[t].id \/ files'[k].deleted = files[k].deleted
      BY <1>4, <2>2 DEF SameName
    <2>5. ASSUME NEW k \in DOMAIN files, NEW n, n = req[t].id, k # n, ~files[k].deleted,
                 files[k].user = files[n].user, files[k].parent = files[n].parent,
                 files[k].name = files[n].name
          PROVE  FALSE
      BY <2>3, <2>5 DEF NameTaken, ActiveRow, DeletedRow
    <2>6. CASE i # req[t].id /\ j # req[t].id
      BY <1>0, <1>1, <1>4, <2>4, <2>6 DEF Twins
    <2> QED BY <1>1, <1>4, <2>4, <2>5, <2>6
  <1> QED BY <1>0, <1>2, <1>3, <1>4, NamesMove

\* So does every other step, which leaves the rows alone.
LEMMA TwinsStep ==
  ASSUME NamesInv, LoneRestores, [Next]_vars
  PROVE  \A i, j \in DOMAIN files' : Twins(files', i, j) => Twins(files, i, j) \/ NameUnseen
  <1>0. TypeOK
    BY DEF NamesInv
  <1>1. UNCHANGED files => \A i, j \in DOMAIN files' : Twins(files', i, j) => Twins(files, i, j)
    OBVIOUS
  <1>2. (\E t \in Threads : Step(t)) \/ UNCHANGED files
    BY <1>0, Moves DEF vars, tables
  <1> QED BY <1>1, <1>2, UniqueNamesStep

LEMMA NamesInvStep ==
  ASSUME \A s, u \in Threads : s = u, NamesInv, LoneRestores, [Next]_vars
  PROVE  NamesInv'
  <1>0. TypeOK /\ TypeOK' /\ NameFree /\ {"idle", "parent", "root"} \cap Unnamed = {}
    BY NextTypes DEF NamesInv, Unnamed, CreateLabels
  <1>1. ASSUME NEW t \in Threads, (Step(t) /\ OthersSame(t)) \/ Skipped(t) PROVE NameFree'
    <2>1. Threads = {t}
      OBVIOUS
    <2> QED BY <1>0, <1>1, <2>1, NameFreeStep, NameFreeSkip
  <1>2. ASSUME NEW t \in Threads, pc'[t] \in {"idle", "parent", "root"}
        PROVE  NameFree'
    <2>1. \A s \in Threads : pc'[s] \in {"idle", "parent", "root"}
      BY <1>2
    <2> QED BY <1>0, <2>1 DEF NameFree
  <1>3. ASSUME Die PROVE NameFree'
    BY <1>0, <1>3, DieIdle DEF NameFree
  <1>4. ASSUME UNCHANGED vars PROVE NameFree'
    BY <1>0, <1>4 DEF NameFree, NameTaken, DeletedRow, ActiveRow, vars, tables, handler
  <1>5. NameFree'
    BY <1>0, <1>1, <1>2, <1>3, <1>4, Moves
  <1> QED BY <1>0, <1>5 DEF NamesInv

LEMMA NamesInit == Init => NamesInv /\ LoneRestores
  <1> SUFFICES ASSUME Init PROVE NamesInv /\ LoneRestores
    OBVIOUS
  <1>1. "idle" \notin Unnamed
    BY DEF Unnamed, CreateLabels
  <1> QED BY <1>1, InitTypes DEF Init, NamesInv, NameFree, LoneRestores

\* With one thread, whatever fails, no two active rows of a folder get the same name, but for
\* a handler to which MySQL did not show the first, as long as every restore is of one row
\* (FileOps.cpp 181-196: nameTaken is asked of the root only).
THEOREM LoneRestoresKeepNames ==
  ASSUME \A s, t \in Threads : s = t
  PROVE  SpecLone => UniqueNames
  <1>1. Init => NamesInv /\ LoneRestores
    BY NamesInit
  <1>2. NamesInv /\ LoneRestores /\ [Next /\ LoneRestores']_vars => (NamesInv /\ LoneRestores)'
    <2>1. LoneRestores /\ UNCHANGED vars => LoneRestores'
      BY DEF LoneRestores, vars, handler
    <2> QED BY <2>1, NamesInvStep
  <1>3. NamesInv /\ LoneRestores /\ [Next /\ LoneRestores']_vars =>
          [\A i, j \in DOMAIN files' : Twins(files', i, j) => Twins(files, i, j) \/ NameUnseen]_vars
    BY TwinsStep
  <1> QED BY <1>1, <1>2, <1>3, PTL DEF SpecLone, UniqueNames

\* Without folders nothing is below the row that a restore has read.
LEMMA NothingBelow ==
  ASSUME TypeOK, AllAtTop, NEW t \in Threads, pc[t] = "collect", req[t].op = "restore", CollectKids(t)
  PROVE  /\ work'[t].ids = <<req[t].id>>
         /\ pc'[t] = "unmark"
  <1> DEFINE id == req[t].id
  <1>0. /\ TablesOK /\ pc \in [Threads -> Labels] /\ work \in [Threads -> Work]
        /\ id > 0 /\ work[t].ids = <<id>> /\ work[t].queue = <<id>>
    BY DEF TypeOK, HandlersOK, AllAtTop
  <1>1. req[t] \in TreeReq /\ id \in Nat
    <2>1. req[t] \in Requests \cup {NoRequest}
      BY DEF TypeOK, HandlersOK
    <2>2. req[t] \in TreeReq
      BY <2>1, RequestKinds
    <2> QED BY <2>2 DEF TreeReq
  <1>2. Front(<<id>>) = <<>> /\ Last(<<id>>) = id
    <2> HIDE DEF id
    <2> QED BY DEF Front, Last
  <1>3. PICK order \in SetToSeqs(Kids(req[t].user, id, TRUE)) :
          /\ work' = [work EXCEPT ![t].ids = @ \o order, ![t].queue = <<>> \o order]
          /\ Goto(t, IF <<>> \o order = <<>> THEN AfterCollect("restore") ELSE "collect")
    BY <1>0, <1>2 DEF CollectKids
  <1>4. Kids(req[t].user, id, TRUE) = {}
    BY <1>0, <1>1 DEF Kids, AllAtTop
  <1>5. order = <<>>
    <2>1. order \in Seq(Nat) /\ \A j \in 1 .. Len(order) : order[j] \in {}
      BY <1>0, <1>4, KidsOrders
    <2>2. Len(order) = 0
      BY <2>1
    <2> QED BY <2>1, <2>2
  <1>6. /\ <<>> \o order = <<>> /\ <<id>> \o order = <<id>>
    <2> HIDE DEF id
    <2> QED BY <1>5, <1>1
  <1>7. work'[t].ids = <<id>> \o order
    BY <1>0, <1>3 DEF Work
  <1>8. pc'[t] = AfterCollect("restore")
    BY <1>0, <1>3, <1>6 DEF Goto
  <1> QED BY <1>6, <1>7, <1>8 DEF AfterCollect

\* A look in vain leads a restore on to its one row, too.
LEMMA AllAtTopSkip ==
  ASSUME TypeOK, AllAtTop, LoneRestores, NEW t \in Threads, Threads = {t}, Skipped(t)
  PROVE  AllAtTop' /\ LoneRestores'
  <1>0. /\ TablesOK /\ pc \in [Threads -> Labels] /\ work \in [Threads -> Work]
        /\ req' = req /\ files' = files
    BY SkippedTypes DEF TypeOK, HandlersOK, Skipped, tables
  <1>1. pc[t] = "collect" => req[t].op # "restore"
    <2> SUFFICES ASSUME pc[t] = "collect", req[t].op = "restore" PROVE FALSE
      OBVIOUS
    <2>1. req[t].id > 0 /\ work[t].queue = <<req[t].id>>
      BY DEF AllAtTop
    <2>2. Kids(req[t].user, Last(work[t].queue), TRUE) # {}
      BY SkippedTo
    <2>3. Last(work[t].queue) = req[t].id
      BY <2>1 DEF Last
    <2> QED BY <2>1, <2>2, <2>3 DEF Kids, AllAtTop
  <1>2. /\ pc'[t] # "restoreName"
        /\ pc'[t] = "collect" /\ req[t].op = "restore" =>
             pc[t] = "restoreName" /\ work'[t].ids = work[t].ids /\ work'[t].queue = work[t].queue
        /\ pc'[t] # "unmark"
    BY <1>0, <1>1, SkippedTo DEF AfterCollect, Work
  <1>3. pc'[t] \in AfterParent => pc[t] \in AfterParent
    BY <1>0, SkippedTo DEF AfterCollect, AfterParent, CreateLabels
  <1> QED BY <1>0, <1>2, <1>3 DEF AllAtTop, AfterParent, LoneRestores

LEMMA AllAtTopStep ==
  ASSUME TypeOK, AllAtTop, LoneRestores, (\A r \in Requests : r.op # "folder") \/ NothingInside,
         NEW t \in Threads, Threads = {t}, Step(t), OthersSame(t)
  PROVE  AllAtTop' /\ LoneRestores'
  <1>0. /\ TablesOK /\ HandlersOK /\ files \in [DOMAIN files -> Row] /\ DOMAIN files \subseteq Nat \ {0}
        /\ pc \in [Threads -> Labels] /\ work \in [Threads -> Work]
        /\ req \in [Threads -> Requests \cup {NoRequest}]
    BY DEF TypeOK, TablesOK, HandlersOK
  <1>1. InsertDir(t) => NothingInside
    <2>1. pc[t] = "insertDir" => req[t].op = "folder"
      BY <1>0, HandlerFacts, LabelOps
    <2> QED BY <1>0, <2>1 DEF InsertDir, At, NoRequest
  <1>2. ASSUME NEW i \in DOMAIN files' PROVE files'[i].parent = 0 /\ (files'[i].dir => NothingInside)
    <2>1. CASE i \in DOMAIN files
      BY <1>2, <2>1, RowsKeepKind DEF SameKind, AllAtTop
    <2>2. CASE i \notin DOMAIN files
      <3>1. i = nextFile /\ (InsertRow(t) \/ InsertDir(t))
        BY <1>2, <2>2, RowsKeepKind
      <3>2. /\ files'[i].parent = req[t].parent
            /\ files'[i].dir => InsertDir(t)
        BY <1>2, <2>2, <3>1 DEF InsertRow, InsertDir, AddRow
      <3>3. pc[t] \in {"insertRow", "insertDir"} /\ "insertRow" \in CreateLabels
        BY <3>1 DEF InsertRow, InsertDir, At, CreateLabels
      <3> QED BY <1>1, <3>2, <3>3 DEF AllAtTop
    <2> QED BY <2>1, <2>2
  <1>3. ASSUME pc'[t] \in AfterParent PROVE req'[t].parent = 0
    <2>1. req'[t] = req[t] /\ (pc[t] \in AfterParent \/ ParentExists(req[t].user, req[t].parent))
      BY <1>3, BeforeCreate
    <2>2. CASE pc[t] \in AfterParent
      BY <2>1, <2>2 DEF AllAtTop, AfterParent
    <2>3. CASE req[t].parent # 0 /\ ParentExists(req[t].user, req[t].parent)
      <3>1. NothingInside
        BY <2>3 DEF ParentExists, ActiveRow, AllAtTop
      <3>2. TypeOK'
        BY NextTypes DEF Next
      <3>3. req'[t] \in Requests \cup {NoRequest} /\ pc'[t] \in LabelsOf(req'[t].op)
        BY <3>2 DEF TypeOK, HandlersOK
      <3>4. req'[t].op \in {"folder", "upload", "instant"}
        <4>1. req'[t].op \in Ops
          BY <3>3, RequestKinds
        <4> QED BY <1>3, <3>3, <4>1, LabelOps DEF AfterParent, CreateLabels
      <3> QED BY <3>1, <3>3, <3>4 DEF NothingInside, NoRequest
    <2> QED BY <2>1, <2>2, <2>3
  <1>4. ASSUME Restoring(pc'[t], req'[t])
        PROVE  \/ pc'[t] = "unmark" /\ work'[t].ids = <<req'[t].id>>
               \/ /\ pc'[t] # "unmark" /\ req'[t].id > 0
                  /\ work'[t].ids = <<req'[t].id>> /\ work'[t].queue = <<req'[t].id>>
    <2>1. req' = req
      BY <1>4, BeforeRestored
    <2>2. CASE FindRoot(t)
      <3>1. /\ pc'[t] = "restoreName" /\ DeletedRow(req[t].user, req[t].id)
            /\ work'[t].ids = <<req[t].id>> /\ work'[t].queue = <<req[t].id>>
        BY <1>4, <2>2, BeforeRestored DEF FindRoot, CheckRestoreName, CollectKids, RestoreNext, At
      <3>2. req[t].id > 0
        BY <1>0, <3>1 DEF DeletedRow
      <3> QED BY <2>1, <3>1, <3>2
    <2>3. CASE CheckRestoreName(t)
      <3>1. pc[t] = "restoreName" /\ work' = work
        BY <1>4, <2>3, BeforeRestored DEF FindRoot, CheckRestoreName, CollectKids, RestoreNext, At
      <3>2. pc'[t] \in {"collect", "idle"}
        BY <1>0, <2>3 DEF CheckRestoreName, Goto, Reply, Abandon
      <3> QED BY <1>4, <2>1, <3>1, <3>2 DEF AllAtTop
    <2>4. CASE CollectKids(t)
      <3>1. pc[t] = "collect" /\ req[t].op = "restore"
        BY <1>4, <2>4, BeforeRestored DEF FindRoot, CheckRestoreName, CollectKids, RestoreNext, At
      <3> QED BY <2>1, <2>4, <3>1, NothingBelow
    <2>5. CASE RestoreNext(t)
      <3>1. pc[t] = "unmark" /\ Tail(work[t].ids) # <<>>
        BY <1>4, <2>5, BeforeRestored DEF FindRoot, CheckRestoreName, CollectKids, RestoreNext, At
      <3>2. \A x : Tail(<<x>>) = <<>>
        OBVIOUS
      <3> QED BY <3>1, <3>2 DEF LoneRestores
    <2> QED BY <1>4, <2>2, <2>3, <2>4, <2>5, BeforeRestored
  <1>5. pc'[t] = "unmark" => Restoring(pc'[t], req'[t])
    <2>1. TypeOK'
      BY NextTypes DEF Next
    <2>2. pc'[t] = "unmark" => req'[t].op = "restore"
      <3>1. req'[t] \in Requests \cup {NoRequest} /\ pc'[t] \in LabelsOf(req'[t].op)
        BY <2>1 DEF TypeOK, HandlersOK
      <3>2. req'[t].op \in Ops
        BY <3>1, RequestKinds
      <3> QED BY <3>1, <3>2, LabelOps
    <2> QED BY <2>2 DEF Restoring
  <1>6. LoneRestores'
    BY <1>4, <1>5 DEF LoneRestores
  <1>7. AllAtTop'
    BY <1>2, <1>3, <1>4 DEF AllAtTop, AfterParent, Restoring
  <1> QED BY <1>6, <1>7

\* What a server keeps where nobody makes folders or puts anything into them, or nobody restores.
Flat  == (\A r \in Requests : r.op # "folder") \/ NothingInside
AtTop == Flat => AllAtTop

LEMMA NoTreesRestored ==
  ASSUME \A s, u \in Threads : s = u,
         Flat \/ (\A r \in Requests : r.op # "restore"),
         TypeOK, AtTop, LoneRestores, [Next]_vars
  PROVE  AtTop' /\ LoneRestores'
  <1>0. {"idle", "parent", "root"} \cap (AfterParent \cup {"restoreName", "collect", "unmark"}) = {}
    BY DEF AfterParent, CreateLabels
  <1>1. CASE Flat
    <2>0. AllAtTop
      BY <1>1 DEF AtTop
    <2>1. ASSUME NEW t \in Threads, Step(t), OthersSame(t) PROVE AllAtTop' /\ LoneRestores'
      <3>1. Threads = {t}
        OBVIOUS
      <3> QED BY <1>1, <2>0, <2>1, <3>1, AllAtTopStep DEF Flat
    <2>5. ASSUME NEW t \in Threads, Skipped(t) PROVE AllAtTop' /\ LoneRestores'
      <3>1. Threads = {t}
        OBVIOUS
      <3> QED BY <2>0, <2>5, <3>1, AllAtTopSkip
    <2>2. ASSUME \A s \in Threads : pc'[s] \in {"idle", "parent", "root"}, UNCHANGED tables
          PROVE  AllAtTop' /\ LoneRestores'
      BY <1>0, <2>0, <2>2 DEF AllAtTop, NothingInside, LoneRestores, AfterParent, tables
    <2>3. ASSUME NEW t \in Threads, pc'[t] \in {"idle", "parent", "root"}
          PROVE  \A s \in Threads : pc'[s] \in {"idle", "parent", "root"}
      BY <2>3
    <2>4. ASSUME UNCHANGED vars PROVE AllAtTop' /\ LoneRestores'
      BY <2>0, <2>4 DEF AllAtTop, LoneRestores, vars, tables, handler
    <2> QED BY <2>1, <2>2, <2>3, <2>4, <2>5, Moves, DieIdle DEF AtTop
  <1>2. CASE ~Flat /\ (\A r \in Requests : r.op # "restore")
    <2>1. TypeOK'
      BY NextTypes
    <2>2. ASSUME NEW s \in Threads, pc'[s] = "unmark" PROVE FALSE
      <3>1. req'[s] \in Requests \cup {NoRequest} /\ pc'[s] \in LabelsOf(req'[s].op)
        BY <2>1 DEF TypeOK, HandlersOK
      <3>2. req'[s].op = "restore"
        BY <2>2, <3>1, RequestKinds, LabelOps
      <3> QED BY <1>2, <3>1, <3>2 DEF NoRequest
    <2>3. ~Flat'
      BY <1>2 DEF Flat, NothingInside
    <2> QED BY <2>2, <2>3 DEF AtTop, LoneRestores
  <1> QED BY <1>1, <1>2

\* With one thread, and where nobody makes folders, or nothing is put into them, or nobody
\* restores, no second active row of a folder gets a name whatever fails, but for a handler to
\* which MySQL did not show the first (nameTaken, FileOps.cpp 89-106).
THEOREM OneThreadNames ==
  ASSUME \A s, t \in Threads : s = t,
         \/ \A r \in Requests : r.op # "folder"
         \/ NothingInside
         \/ \A r \in Requests : r.op # "restore"
  PROVE  Spec => UniqueNames
  <1> DEFINE Inv == NamesInv /\ LoneRestores /\ AtTop
  <1>1. Init => Inv
    <2>1. Init => AllAtTop
      <3>1. "idle" \notin AfterParent
        BY DEF AfterParent, CreateLabels
      <3> QED BY <3>1 DEF Init, AllAtTop, EmptyTable, AfterParent
    <2> QED BY <2>1, NamesInit DEF AtTop
  <1>2. Inv /\ [Next]_vars => Inv'
    <2>1. NamesInv => TypeOK
      BY DEF NamesInv
    <2>2. Flat \/ (\A r \in Requests : r.op # "restore")
      BY DEF Flat
    <2> QED BY <2>1, <2>2, NamesInvStep, NoTreesRestored
  <1>3. Inv /\ [Next]_vars =>
          [\A i, j \in DOMAIN files' : Twins(files', i, j) => Twins(files, i, j) \/ NameUnseen]_vars
    BY TwinsStep
  <1> QED BY <1>1, <1>2, <1>3, PTL DEF Spec, UniqueNames
----------------------------------------------------------------------------
\* Whole trees, with one thread and no faults.  The vectors as sets, first.

LEMMA FrontSet ==
  ASSUME NEW s \in Seq(Nat), s # <<>>
  PROVE  /\ ToSet(s) = ToSet(Front(s)) \cup {Last(s)} /\ Front(s) \in Seq(Nat)
         /\ IsInjective(s) => Last(s) \notin ToSet(Front(s))
         /\ \E n \in 1 .. Len(s) : n = Len(s) /\ Last(s) = s[n]
  <1>1. PICK n \in Nat : /\ Len(s) = n + 1 /\ Len(Front(s)) = n
                         /\ DOMAIN s = 1 .. n + 1 /\ DOMAIN Front(s) = 1 .. n
                         /\ \A j \in 1 .. n : Front(s)[j] = s[j]
                         /\ Last(s) = s[n + 1] /\ Front(s) \in Seq(Nat)
    <2>1. Len(s) \in Nat /\ Len(s) # 0
      BY EmptySeq, LenProperties
    <2>2. /\ Front(s) \in Seq(Nat) /\ Len(Front(s)) = Len(s) - 1 /\ Last(s) = s[Len(s)]
          /\ \A j \in 1 .. Len(s) - 1 : Front(s)[j] = s[j]
      BY FrontLast
    <2>3. DOMAIN s = 1 .. Len(s) /\ DOMAIN Front(s) = 1 .. Len(Front(s))
      BY <2>2, LenProperties
    <2>4. Len(s) - 1 \in Nat /\ Len(s) = (Len(s) - 1) + 1
      BY <2>1
    <2> QED BY <2>2, <2>3, <2>4
  <1>2. ToSet(s) = ToSet(Front(s)) \cup {Last(s)}
    <2>1. \A j : j \in 1 .. n + 1 <=> j \in 1 .. n \/ j = n + 1
      OBVIOUS
    <2> QED BY <1>1, <2>1 DEF ToSet
  <1>3. IsInjective(s) => Last(s) \notin ToSet(Front(s))
    <2>1. \A j \in 1 .. n : j \in 1 .. n + 1 /\ j # n + 1
      OBVIOUS
    <2>2. n + 1 \in 1 .. n + 1
      OBVIOUS
    <2> QED BY <1>1, <2>1, <2>2 DEF ToSet, IsInjective
  <1>4. \E k \in 1 .. Len(s) : k = Len(s) /\ Last(s) = s[k]
    BY <1>1
  <1> QED BY <1>1, <1>2, <1>3, <1>4

LEMMA TailSet ==
  ASSUME NEW s \in Seq(Nat), s # <<>>
  PROVE  /\ ToSet(s) = {Head(s)} \cup ToSet(Tail(s)) /\ Tail(s) \in Seq(Nat)
         /\ Head(s) = s[1] /\ 1 \in 1 .. Len(s)
         /\ \A j \in 1 .. Len(Tail(s)) : Tail(s)[j] = s[j + 1] /\ j + 1 \in 1 .. Len(s)
  <1>1. PICK n \in Nat : Len(s) = n + 1 /\ DOMAIN s = 1 .. n + 1
    <2>1. Len(s) \in Nat /\ Len(s) # 0 /\ DOMAIN s = 1 .. Len(s)
      BY EmptySeq, LenProperties
    <2>2. Len(s) - 1 \in Nat /\ Len(s) = (Len(s) - 1) + 1
      BY <2>1
    <2> QED BY <2>1, <2>2
  <1>2. /\ Head(s) = s[1] /\ Tail(s) \in Seq(Nat) /\ Len(Tail(s)) = n
        /\ \A j \in 1 .. n : Tail(s)[j] = s[j + 1]
    BY <1>1, HeadTailProperties
  <1>3. DOMAIN Tail(s) = 1 .. n
    BY <1>2, LenProperties
  <1>4. ToSet(s) = {Head(s)} \cup ToSet(Tail(s))
    <2>1. ASSUME NEW j \in 1 .. n + 1 PROVE s[j] \in {Head(s)} \cup ToSet(Tail(s))
      <3>1. CASE j = 1
        BY <1>2, <3>1
      <3>2. CASE j # 1
        <4>1. PICK k \in 1 .. n : j = k + 1
          <5>1. j - 1 \in 1 .. n /\ j = (j - 1) + 1
            BY <3>2
          <5> QED BY <5>1
        <4>2. s[j] = Tail(s)[k] /\ k \in DOMAIN Tail(s)
          BY <1>2, <1>3, <4>1
        <4> QED BY <4>2 DEF ToSet
      <3> QED BY <3>1, <3>2
    <2>2. ASSUME NEW k \in 1 .. n PROVE Tail(s)[k] \in ToSet(s)
      <3>1. k + 1 \in DOMAIN s /\ Tail(s)[k] = s[k + 1]
        BY <1>1, <1>2
      <3> QED BY <3>1 DEF ToSet
    <2>3. Head(s) \in ToSet(s)
      <3>1. 1 \in DOMAIN s
        BY <1>1
      <3> QED BY <1>2, <3>1 DEF ToSet
    <2>4. ToSet(s) \subseteq {Head(s)} \cup ToSet(Tail(s))
      BY <1>1, <2>1 DEF ToSet
    <2>5. ToSet(Tail(s)) \subseteq ToSet(s)
      BY <1>3, <2>2 DEF ToSet
    <2> QED BY <2>3, <2>4, <2>5
  <1>5. 1 \in 1 .. n + 1 /\ \A j \in 1 .. n : j + 1 \in 1 .. n + 1
    OBVIOUS
  <1> QED BY <1>1, <1>2, <1>4, <1>5

LEMMA JoinSet ==
  ASSUME NEW s \in Seq(Nat), NEW r \in Seq(Nat)
  PROVE  ToSet(s \o r) = ToSet(s) \cup ToSet(r)
  <1>1. PICK n \in Nat, m \in Nat : n = Len(s) /\ m = Len(r)
    BY LenProperties
  <1>2. PICK both : both = s \o r /\ Joins(both, s, r, n, m)
    BY <1>1, Joined
  <1>3. /\ DOMAIN both = 1 .. n + m /\ DOMAIN s = 1 .. n /\ DOMAIN r = 1 .. m
        /\ \A j \in 1 .. n : both[j] = s[j]
        /\ \A j \in n + 1 .. n + m : j - n \in 1 .. m /\ both[j] = r[j - n]
    BY <1>1, <1>2, LenProperties DEF Joins
  <1>4. \A j \in 1 .. n + m : j \in 1 .. n \/ j \in n + 1 .. n + m
    OBVIOUS
  <1>5. \A j \in 1 .. n : j \in 1 .. n + m
    OBVIOUS
  <1>6. ASSUME NEW k \in 1 .. m PROVE k + n \in n + 1 .. n + m /\ both[k + n] = r[k]
    <2>1. k + n \in n + 1 .. n + m /\ (k + n) - n = k
      OBVIOUS
    <2> QED BY <1>3, <2>1
  <1>7. \A k \in 1 .. m : k + n \in 1 .. n + m
    OBVIOUS
  <1>8. ASSUME NEW j \in DOMAIN both PROVE both[j] \in ToSet(s) \cup ToSet(r)
    BY <1>3, <1>4, <1>8 DEF ToSet
  <1>9. ASSUME NEW j \in DOMAIN s PROVE s[j] \in ToSet(both)
    BY <1>3, <1>5, <1>9 DEF ToSet
  <1>10. ASSUME NEW k \in DOMAIN r PROVE r[k] \in ToSet(both)
    <2>1. k + n \in DOMAIN both /\ both[k + n] = r[k]
      BY <1>3, <1>6, <1>7
    <2> QED BY <2>1 DEF ToSet
  <1>11. ToSet(both) = ToSet(s) \cup ToSet(r)
    BY <1>8, <1>9, <1>10 DEF ToSet
  <1> QED BY <1>2, <1>11

LEMMA OrderSet ==
  ASSUME TablesOK, NEW u, NEW p, NEW flag, NEW order \in SetToSeqs(Kids(u, p, flag))
  PROVE  ToSet(order) = Kids(u, p, flag)
  <1> DEFINE S == Kids(u, p, flag)
  <1>1. S \subseteq 1 .. (nextFile - 1) /\ nextFile - 1 \in Int
    BY DEF TablesOK, Kids
  <1>2. IsFiniteSet(S)
    <2>1. IsFiniteSet(1 .. (nextFile - 1))
      <3>1. 1 \in Int
        OBVIOUS
      <3> QED BY <1>1, <3>1, FS_Interval
    <2>2. S \in SUBSET (1 .. (nextFile - 1))
      BY <1>1
    <2> QED BY <2>1, <2>2, FS_Subset
  <1>3. Cardinality(S) \in Nat
    BY <1>2, FS_CardinalityType
  <1>4. order \in Injection(1 .. Cardinality(S), S)
    BY DEF SetToSeqs, Injection, IsInjective
  <1>5. Cardinality(1 .. Cardinality(S)) = Cardinality(S)
    <2>1. Cardinality(1 .. Cardinality(S)) = IF 1 > Cardinality(S) THEN 0 ELSE Cardinality(S) - 1 + 1
      <3>1. 1 \in Int /\ Cardinality(S) \in Int
        BY <1>3
      <3> QED BY <3>1, FS_Interval
    <2> HIDE DEF S
    <2> QED BY <1>3, <2>1
  <1>6. order \in Surjection(1 .. Cardinality(S), S)
    BY <1>2, <1>4, <1>5, FS_Injection
  <1>7. order \in [1 .. Cardinality(S) -> S] /\ \A i \in S : \E j \in 1 .. Cardinality(S) : order[j] = i
    BY <1>6 DEF Surjection
  <1> QED BY <1>7 DEF ToSet

\* In order: nothing stands before the folder it is in.
LEMMA ListedTopDown ==
  ASSUME TypeOK, TreeShape, NEW ids \in Seq(Nat), Listed(ids, <<>>)
  PROVE  TopDown(ids)
  <1> SUFFICES ASSUME NEW k \in 1 .. Len(ids), NEW j \in k .. Len(ids), ids[k] \in DOMAIN files,
                      files[ids[k]].parent = ids[j]
               PROVE  FALSE
    BY DEF TopDown
  <1>1. Len(ids) \in Nat /\ DOMAIN ids = 1 .. Len(ids) /\ j \in 1 .. Len(ids) /\ k \in Nat /\ j \in Nat
    BY LenProperties
  <1>2. ids[j] \in Nat /\ ids[k] \in Nat
    BY <1>1, ElementOfSeq
  <1>3. CASE k = 1
    <2>1. ids[j] < ids[1]
      BY <1>3 DEF TreeShape
    <2>2. j > 1 => ids[1] < ids[j]
      BY <1>1 DEF Listed
    <2>3. j = 1 \/ j > 1
      BY <1>1
    <2> QED BY <1>2, <1>3, <2>1, <2>2, <2>3
  <1>4. CASE k # 1
    <2>1. k \in 2 .. Len(ids)
      BY <1>1, <1>4
    <2>2. PICK l \in 1 .. k - 1 : files[ids[k]].parent = ids[l]
      BY <2>1 DEF Listed
    <2>3. l \in 1 .. Len(ids) /\ l # j
      BY <1>1, <2>2
    <2> QED BY <1>1, <2>2, <2>3 DEF Listed, IsInjective
  <1> QED BY <1>3, <1>4

\* The one handler, and what is known of it.
Alone(t) == /\ TypeOK /\ TypeOK' /\ TreeShape /\ CollectOK /\ TidyInv
            /\ t \in Threads /\ Threads = {t} /\ Step(t) /\ OthersSame(t)

LEMMA AloneFacts ==
  ASSUME NEW t, Alone(t)
  PROVE  /\ TypeOK /\ TablesOK /\ HandlersOK /\ TreeShape /\ CollectOK /\ NoOrphans /\ Tidy /\ Step(t)
         /\ t \in Threads /\ Threads = {t} /\ OthersSame(t)
         /\ files \in [DOMAIN files -> Row] /\ DOMAIN files \subseteq 1 .. (nextFile - 1) /\ nextFile \in Nat
         /\ pc \in [Threads -> Labels] /\ req \in [Threads -> Requests \cup {NoRequest}]
         /\ work \in [Threads -> Work] /\ work[t] \in Work
         /\ work[t].ids \in Seq(Nat) /\ work[t].queue \in Seq(Nat)
         /\ req[t].op \in Ops /\ pc[t] \in LabelsOf(req[t].op) /\ Fits(pc[t], work[t])
         /\ ListedAt(pc[t], work[t]) /\ TreeKnown(pc[t], req[t], work[t])
  <1>1. /\ TypeOK /\ TreeShape /\ CollectOK /\ TidyInv
        /\ t \in Threads /\ Threads = {t} /\ Step(t) /\ OthersSame(t)
    BY DEF Alone
  <1>2. TablesOK /\ HandlersOK
    BY <1>1 DEF TypeOK
  <1>3. /\ files \in [DOMAIN files -> Row] /\ DOMAIN files \subseteq 1 .. (nextFile - 1) /\ nextFile \in Nat
    BY <1>2 DEF TablesOK
  <1>4. /\ pc \in [Threads -> Labels] /\ req \in [Threads -> Requests \cup {NoRequest}]
        /\ work \in [Threads -> Work]
    BY <1>2 DEF HandlersOK
  <1>5. req[t].op \in Ops /\ pc[t] \in LabelsOf(req[t].op) /\ Fits(pc[t], work[t]) /\ work[t] \in Work
    BY <1>1, <1>2, HandlerFacts
  <1>6. work[t].ids \in Seq(Nat) /\ work[t].queue \in Seq(Nat)
    BY <1>5 DEF Work
  <1>7. ListedAt(pc[t], work[t])
    BY <1>1 DEF CollectOK
  <1>8. NoOrphans /\ Tidy /\ TreeKnown(pc[t], req[t], work[t])
    BY <1>1 DEF TidyInv
  <1> QED BY <1>1, <1>2, <1>3, <1>4, <1>5, <1>6, <1>7, <1>8

LEMMA SameTree ==
  ASSUME UNCHANGED files, NEW l, NEW r, NEW w, TreeKnown(l, r, w)
  PROVE  TreeKnown(l, r, w)'
  BY DEF TreeKnown, ParentExists, ActiveRow, RowsAre, Gathered, Rooted, TopDown

\* A step that leaves the rows alone, besides the marks of a delete.
LEMMA TidyLands ==
  ASSUME NEW t, Alone(t), UNCHANGED files, pc[t] # "mark",
         NEW l, l = pc'[t], NEW r, r = req'[t], NEW w, w = work'[t], TreeKnown(l, r, w)
  PROVE  TidyInv'
  <1>1. TreeKnown(l, r, w)'
    BY SameTree
  <1>2. Threads = {t} /\ NoOrphans /\ Tidy
    BY AloneFacts
  <1>3. NoOrphans'
    BY <1>2 DEF NoOrphans
  <1>4. Tidy'
    BY <1>2 DEF Tidy
  <1> QED BY <1>1, <1>2, <1>3, <1>4 DEF TidyInv

\* Labels of which nothing is known of the tree.
LEMMA NothingKnown ==
  ASSUME NEW l, l \notin AfterParent \cup {"restoreName", "collect", "mark", "unmark"} \cup PurgeLabels,
         NEW r, NEW w
  PROVE  TreeKnown(l, r, w)
  BY DEF TreeKnown, AfterParent, PurgeLabels, CreateLabels

LEMMA IdleKnown ==
  ASSUME NEW r, NEW w
  PROVE  TreeKnown("idle", r, w)
  BY DEF TreeKnown, CreateLabels, PurgeLabels

LEMMA TreeOfCreates ==
  ASSUME NEW t, Alone(t),
         \/ CheckParent(t) \/ CheckName(t) \/ FetchDir(t) \/ FindObject(t) \/ OpenObject(t)
         \/ InsertObject(t) \/ FetchObject(t) \/ CheckExists(t) \/ AddRef(t) \/ AddUsed(t) \/ FetchId(t)
         \/ WriteObject(t) \/ RewriteObject(t) \/ InsertShare(t)
  PROVE  TidyInv'
  <1> USE DEF At
  <1>0. /\ TypeOK /\ t \in Threads /\ Step(t) /\ pc \in [Threads -> Labels]
        /\ TreeKnown(pc[t], req[t], work[t])
    BY AloneFacts
  <1>1. pc[t] # "mark" /\ UNCHANGED files
    BY DEF CheckParent, CheckName, FetchDir, FindObject, OpenObject, InsertObject, FetchObject, CheckExists,
           AddRef, AddUsed, FetchId, WriteObject, RewriteObject, InsertShare, Undefined, tables
  <1>2. PICK l, r, w : l = pc'[t] /\ r = req'[t] /\ w = work'[t]
    OBVIOUS
  <1>3. l \notin {"restoreName", "collect", "mark", "unmark"} \cup PurgeLabels
    <2>1. Reply(t) \/ Undefined(t) => l = "idle"
      BY <1>0, <1>2 DEF Reply, Undefined, Abandon, Die
    <2>2. \A x : Goto(t, x) => l = x
      BY <1>0, <1>2 DEF Goto
    <2>3. CASE WriteObject(t) \/ RewriteObject(t)
      BY <1>0, <1>2, <2>3 DEF WriteObject, RewriteObject, PurgeLabels
    <2>4. CASE ~(WriteObject(t) \/ RewriteObject(t))
      <3>1. \/ Reply(t) \/ Undefined(t)
            \/ \E x \in {"name", "insertDir", "findObj", "exists", "addRef", "write", "fill", "refill",
                         "fetchObj", "insertRow", "rewrite", "fetchId"} : Goto(t, x)
        BY <2>4 DEF CheckParent, CheckName, FetchDir, FindObject, OpenObject, InsertObject, FetchObject,
                    CheckExists, AddRef, AddUsed, FetchId, InsertShare
      <3> QED BY <2>1, <2>2, <3>1 DEF PurgeLabels
    <2> QED BY <2>3, <2>4
  <1>4. l \in AfterParent => ParentExists(r.user, r.parent)
    <2>1. SUFFICES ASSUME pc'[t] \in AfterParent PROVE ParentExists(r.user, r.parent)
      BY <1>2
    <2>2. req'[t] = req[t] /\ (pc[t] \in AfterParent \/ ParentExists(req[t].user, req[t].parent))
      BY <1>0, <2>1, BeforeCreate
    <2>3. pc[t] \in AfterParent => ParentExists(req[t].user, req[t].parent)
      BY <1>0 DEF TreeKnown, AfterParent
    <2> QED BY <1>2, <2>2, <2>3
  <1>5. TreeKnown(l, r, w)
    <2>1. CASE l \in AfterParent
      BY <1>3, <1>4, <2>1 DEF TreeKnown
    <2>2. CASE l \notin AfterParent
      BY <1>3, <2>2, NothingKnown
    <2> QED BY <2>1, <2>2
  <1> QED BY <1>1, <1>2, <1>5, TidyLands

\* A row that comes in is in a folder that is active, and nothing is in it yet.
LEMMA TreeOfInserts ==
  ASSUME NEW t, Alone(t), InsertDir(t) \/ InsertRow(t)
  PROVE  TidyInv'
  <1> USE DEF At
  <1>0. /\ TypeOK /\ t \in Threads /\ Threads = {t} /\ Step(t) /\ pc \in [Threads -> Labels]
        /\ TreeKnown(pc[t], req[t], work[t]) /\ NoOrphans /\ Tidy /\ TreeShape
        /\ DOMAIN files \subseteq 1 .. (nextFile - 1) /\ nextFile \in Nat
        /\ files \in [DOMAIN files -> Row]
    BY AloneFacts
  <1>1. pc[t] \in AfterParent /\ pc[t] # "mark"
    BY DEF InsertDir, InsertRow, AfterParent, CreateLabels
  <1>2. ParentExists(req[t].user, req[t].parent)
    BY <1>0, <1>1 DEF TreeKnown, AfterParent
  <1>3. PICK l, r, w : l = pc'[t] /\ r = req'[t] /\ w = work'[t]
    OBVIOUS
  <1>4. CASE UNCHANGED files
    <2>1. l = "idle" \/ InsertDir(t) \/ work[t].obj \in DOMAIN objects
      BY <1>0, <1>3 DEF InsertDir, InsertRow, Reply, Abandon
    <2>2. nextFile \notin DOMAIN files
      BY <1>0
    <2>3. l = "idle"
      BY <1>4, <2>1, <2>2 DEF InsertDir, InsertRow, AddRow
    <2> QED BY <1>1, <1>3, <1>4, <2>3, IdleKnown, TidyLands
  <1>5. CASE ~UNCHANGED files
    <2>1. PICK n : /\ n = nextFile /\ n \notin DOMAIN files /\ DOMAIN files' = DOMAIN files \cup {n}
                   /\ \A i \in DOMAIN files : files'[i] = files[i]
                   /\ files'[n].parent = req[t].parent /\ ~files'[n].deleted
                   /\ req' = req /\ l \in {"fetchDir", "addUsed"}
      <3>1. nextFile \notin DOMAIN files
        BY <1>0
      <3>2. \A x : Goto(t, x) => l = x /\ req' = req
        BY <1>0, <1>3 DEF Goto
      <3>3. CASE InsertDir(t)
        BY <3>1, <3>2, <3>3 DEF InsertDir, AddRow
      <3>4. CASE InsertRow(t) /\ work[t].obj \in DOMAIN objects
        BY <3>1, <3>2, <3>4 DEF InsertRow, AddRow
      <3>5. CASE InsertRow(t) /\ work[t].obj \notin DOMAIN objects
        BY <1>5, <3>5 DEF InsertRow
      <3> QED BY <3>3, <3>4, <3>5
    <2>2. n # 0 /\ \A i \in DOMAIN files : files[i].parent # n
      <3>1. \A i \in DOMAIN files : i \in Nat /\ i < nextFile /\ files[i].parent \in Nat /\ files[i].parent < i
        BY <1>0 DEF TreeShape, Row
      <3>2. nextFile # 0
        BY <1>0 DEF TypeOK, TablesOK
      <3> QED BY <1>0, <2>1, <3>1, <3>2
    <2>3. PICK u, p : u = req[t].user /\ p = req[t].parent
      OBVIOUS
    <2>4. p = 0 \/ (p \in DOMAIN files /\ ~files[p].deleted /\ files[p].user = u /\ files[p].dir)
      BY <1>2, <2>3 DEF ParentExists, ActiveRow
    <2>5. NoOrphans'
      BY <1>0, <2>1, <2>3, <2>4 DEF NoOrphans
    <2>6. 0 \notin DOMAIN files'
      BY <1>0, <2>1, <2>2
    <2>7. Tidy'
      BY <1>0, <1>1, <2>1, <2>2, <2>3, <2>4, <2>6 DEF Tidy
    <2>8. ParentExists(u, p)'
      BY <2>1, <2>4 DEF ParentExists, ActiveRow
    <2>9. l \notin {"restoreName", "collect", "mark", "unmark"} \cup PurgeLabels
      BY <2>1 DEF PurgeLabels
    <2>10. r.user = u /\ r.parent = p
      BY <1>3, <2>1, <2>3
    <2>11. TreeKnown(l, r, w)'
      BY <2>8, <2>9, <2>10 DEF TreeKnown
    <2> QED BY <1>0, <1>3, <2>5, <2>7, <2>11 DEF TidyInv
  <1> QED BY <1>4, <1>5

\* A tree is collected from its root, and each round adds the children of a folder.
LEMMA TreeOfRoot ==
  ASSUME NEW t, Alone(t), WholeRestores, FindRoot(t)
  PROVE  TidyInv'
  <1> USE DEF At
  <1>0. /\ TypeOK /\ t \in Threads /\ pc \in [Threads -> Labels] /\ work \in [Threads -> Work]
        /\ work[t] \in Work /\ req[t].op \in Ops /\ pc[t] \in LabelsOf(req[t].op) /\ pc[t] = "root"
    BY AloneFacts DEF FindRoot
  <1>1. pc[t] # "mark" /\ UNCHANGED files
    BY <1>0 DEF FindRoot, tables
  <1>2. PICK l, r, w : l = pc'[t] /\ r = req'[t] /\ w = work'[t]
    OBVIOUS
  <1>3. CASE Reply(t)
    <2>1. l = "idle"
      BY <1>0, <1>2, <1>3 DEF Reply, Abandon
    <2> QED BY <1>1, <1>2, <2>1, IdleKnown, TidyLands
  <1>4. CASE ~Reply(t)
    <2>1. /\ RootFound(req[t]) /\ Goto(t, AfterRoot(req[t].op))
          /\ work' = [work EXCEPT ![t] = [[[@ EXCEPT !.row = files[req[t].id]] EXCEPT !.ids = <<req[t].id>>]
                                          EXCEPT !.queue = <<req[t].id>>]]
      BY <1>0, <1>4 DEF FindRoot
    <2>2. w.ids = <<req[t].id>> /\ w.queue = <<req[t].id>> /\ r = req[t] /\ l = AfterRoot(r.op)
      BY <1>0, <1>2, <2>1 DEF Work, Goto
    <2>3. PICK i, u : i = r.id /\ u = r.user
      OBVIOUS
    <2>4. \A x : ToSet(<<x>>) = {x}
      BY DEF ToSet
    <2>5. ToSet(w.ids) = {i} /\ ToSet(w.queue) = {i}
      BY <2>2, <2>3, <2>4
    <2>6. CASE r.op = "share"
      <3>1. l = "insertShare"
        BY <2>2, <2>6 DEF AfterRoot
      <3> QED BY <1>1, <1>2, <3>1, NothingKnown, TidyLands DEF AfterParent, CreateLabels, PurgeLabels
    <2>7. CASE r.op # "share"
      <3>1. r.op \in {"delete", "restore", "purge"}
        BY <1>0, <2>2, <2>7, LabelOps
      <3>2. l \in {"restoreName", "collect"}
        BY <2>2, <3>1 DEF AfterRoot
      <3>3. i \in DOMAIN files /\ files[i].user = u /\ files[i].deleted = (r.op # "delete")
        <4>1. r.op = "delete" => ActiveRow(u, i)
          BY <2>1, <2>2, <2>3 DEF RootFound
        <4>2. r.op # "delete" => DeletedRow(u, i)
          BY <2>1, <2>2, <2>3, <3>1 DEF RootFound
        <4>3. i \in DOMAIN files => files[i].deleted \in BOOLEAN
          BY AloneFacts DEF Row
        <4> QED BY <4>1, <4>2, <4>3 DEF ActiveRow, DeletedRow
      <3>4. RowsAre(u, {i}, {r.op # "delete"}) /\ Gathered({i}, {i}, r.op # "delete")
        BY <3>3 DEF RowsAre, Gathered
      <3>5. r.op = "restore" => Rooted({i})
        <4>1. SUFFICES ASSUME r.op = "restore" PROVE Rooted({i})
          OBVIOUS
        <4>2. DeletedRow(u, i)
          BY <3>3, <4>1 DEF DeletedRow
        <4>3. files[i].parent = 0 \/ ActiveRow(u, files[i].parent)
          BY <1>0, <2>2, <2>3, <4>1, <4>2 DEF WholeRestores
        <4> QED BY <4>3 DEF Rooted, ActiveRow
      <3>6. l \notin AfterParent \cup {"mark", "unmark"} \cup PurgeLabels
        BY <3>2 DEF AfterParent, CreateLabels, PurgeLabels
      <3>7. TreeKnown(l, r, w)
        BY <2>3, <2>5, <3>4, <3>5, <3>6 DEF TreeKnown, AfterParent
      <3> QED BY <1>1, <1>2, <3>7, TidyLands
    <2> QED BY <2>6, <2>7
  <1> QED BY <1>3, <1>4

LEMMA TreeOfName ==
  ASSUME NEW t, Alone(t), CheckRestoreName(t)
  PROVE  TidyInv'
  <1>0. /\ t \in Threads /\ pc \in [Threads -> Labels] /\ pc[t] = "restoreName"
        /\ TreeKnown(pc[t], req[t], work[t])
    BY AloneFacts DEF CheckRestoreName, At
  <1>1. pc[t] # "mark" /\ UNCHANGED files
    BY <1>0 DEF CheckRestoreName, tables
  <1>2. PICK l, r, w : l = pc'[t] /\ r = req'[t] /\ w = work'[t]
    OBVIOUS
  <1>3. CASE Reply(t)
    <2>1. l = "idle"
      BY <1>0, <1>2, <1>3 DEF Reply, Abandon
    <2> QED BY <1>1, <1>2, <2>1, IdleKnown, TidyLands
  <1>4. CASE ~Reply(t)
    <2>1. l = "collect" /\ r = req[t] /\ w = work[t]
      BY <1>0, <1>2, <1>4 DEF CheckRestoreName, Goto
    <2>2. TreeKnown(l, r, w)
      BY <1>0, <2>1 DEF TreeKnown, CreateLabels, PurgeLabels
    <2> QED BY <1>1, <1>2, <2>2, TidyLands
  <1> QED BY <1>3, <1>4

\* The sets of a round: p leaves the queue Q, and its children K join both.
LEMMA RoundGathers ==
  ASSUME TreeShape, NEW S, NEW Q, NEW R, NEW p, NEW u, NEW flag \in BOOLEAN,
         Q = R \cup {p}, p \notin R, p \in S,
         RowsAre(u, S, {flag}), Gathered(S, Q, flag)
  PROVE  LET K == Kids(u, p, flag) IN
         /\ RowsAre(u, S \cup K, {flag}) /\ Gathered(S \cup K, R \cup K, flag)
         /\ Rooted(S) => Rooted(S \cup K)
  <1> DEFINE K == Kids(u, p, flag)
  <1>1. \A i \in K : i \in DOMAIN files /\ files[i].user = u /\ files[i].parent = p /\ files[i].deleted = flag
    BY DEF Kids
  <1>2. RowsAre(u, S \cup K, {flag})
    BY <1>1 DEF RowsAre
  <1>3. p \in DOMAIN files /\ files[p].user = u
    BY DEF RowsAre
  <1>4. ASSUME NEW i \in DOMAIN files, files[i].deleted = flag, files[i].parent = p PROVE i \in K
    <2>1. files[i].user = u
      BY <1>3, <1>4 DEF TreeShape
    <2> QED BY <1>4, <2>1 DEF Kids
  <1>5. Gathered(S \cup K, R \cup K, flag)
    <2>1. SUFFICES ASSUME NEW i \in DOMAIN files, files[i].deleted = flag,
                          files[i].parent \in (S \cup K) \ (R \cup K)
                   PROVE  i \in S \cup K
      BY DEF Gathered
    <2>2. CASE files[i].parent = p
      BY <1>4, <2>1, <2>2
    <2>3. CASE files[i].parent # p
      BY <2>1, <2>3 DEF Gathered
    <2> QED BY <2>2, <2>3
  <1>6. Rooted(S) => Rooted(S \cup K)
    BY <1>1 DEF Rooted
  <1> QED BY <1>2, <1>5, <1>6

LEMMA TreeOfRounds ==
  ASSUME NEW t, Alone(t), CollectKids(t)
  PROVE  TidyInv'
  <1> USE DEF At
  <1>0. /\ TypeOK /\ TablesOK /\ TreeShape /\ t \in Threads /\ pc \in [Threads -> Labels]
        /\ work \in [Threads -> Work]
        /\ work[t] \in Work /\ req[t].op \in Ops /\ pc[t] \in LabelsOf(req[t].op) /\ pc[t] = "collect"
        /\ work[t].ids \in Seq(Nat) /\ work[t].queue \in Seq(Nat) /\ work[t].queue # <<>>
        /\ Listed(work[t].ids, work[t].queue) /\ TreeKnown(pc[t], req[t], work[t])
    BY AloneFacts DEF CollectKids, Fits, ListedAt
  <1>1. pc[t] # "mark" /\ UNCHANGED files
    BY <1>0 DEF CollectKids, tables
  <1>2. PICK l, r, w : l = pc'[t] /\ r = req'[t] /\ w = work'[t]
    OBVIOUS
  <1>3. PICK order \in SetToSeqs(Kids(req[t].user, Last(work[t].queue), req[t].op # "delete")) :
          LET rest == Front(work[t].queue) \o order IN
          /\ work' = [work EXCEPT ![t].ids = @ \o order, ![t].queue = rest]
          /\ Goto(t, IF rest = <<>> THEN AfterCollect(req[t].op) ELSE "collect")
    BY DEF CollectKids
  <1>4. PICK ids, queue, rest, u, flag, p :
          /\ ids = work[t].ids /\ queue = work[t].queue /\ rest = Front(queue) \o order
          /\ u = req[t].user /\ flag = (req[t].op # "delete") /\ p = Last(queue)
    OBVIOUS
  <1>5. /\ w = [work[t] EXCEPT !.ids = ids \o order, !.queue = rest] /\ r = req[t]
        /\ l = IF rest = <<>> THEN AfterCollect(r.op) ELSE "collect"
        /\ order \in SetToSeqs(Kids(u, p, flag))
    BY <1>0, <1>2, <1>3, <1>4 DEF Goto
  <1>6. w.ids = ids \o order /\ w.queue = rest /\ r.user = u /\ flag = (r.op # "delete") /\ flag \in BOOLEAN
        /\ ids \in Seq(Nat) /\ queue \in Seq(Nat) /\ queue # <<>> /\ Listed(ids, queue)
    BY <1>0, <1>4, <1>5 DEF Work
  <1>7. order \in Seq(Nat) /\ ToSet(order) = Kids(u, p, flag)
    BY <1>0, <1>5, KidsOrders, OrderSet
  <1>8. PICK S, Q, R, K : S = ToSet(ids) /\ Q = ToSet(queue) /\ R = ToSet(Front(queue)) /\ K = Kids(u, p, flag)
    OBVIOUS
  <1>9. Q = R \cup {p} /\ p \notin R /\ Front(queue) \in Seq(Nat)
    BY <1>4, <1>6, <1>8, FrontSet DEF Listed
  <1>10. p \in S
    <2>1. \E n \in 1 .. Len(queue) : p = queue[n]
      BY <1>4, <1>6, FrontSet
    <2>2. \E k \in 1 .. Len(ids) : p = ids[k]
      BY <1>6, <2>1 DEF Listed
    <2>3. DOMAIN ids = 1 .. Len(ids)
      BY <1>6, LenProperties
    <2> QED BY <1>8, <2>2, <2>3 DEF ToSet
  <1>11. ToSet(w.ids) = S \cup K /\ ToSet(w.queue) = R \cup K
    BY <1>4, <1>6, <1>7, <1>8, <1>9, JoinSet
  <1>12. /\ r.id \in S /\ RowsAre(u, S, {flag}) /\ Gathered(S, Q, flag)
         /\ r.op = "restore" => Rooted(S)
    BY <1>0, <1>4, <1>5, <1>8 DEF TreeKnown
  <1>13. /\ RowsAre(u, S \cup K, {flag}) /\ Gathered(S \cup K, R \cup K, flag)
         /\ Rooted(S) => Rooted(S \cup K)
    BY <1>0, <1>6, <1>8, <1>9, <1>10, <1>12, RoundGathers
  <1>14. CASE rest # <<>>
    <2>1. l = "collect"
      BY <1>5, <1>14
    <2>2. TreeKnown(l, r, w)
      BY <1>6, <1>11, <1>12, <1>13, <2>1 DEF TreeKnown, CreateLabels, PurgeLabels
    <2> QED BY <1>1, <1>2, <2>2, TidyLands
  <1>15. CASE rest = <<>>
    <2>1. R \cup K = {}
      <3>1. ToSet(<<>>) = {}
        BY DEF ToSet
      <3> QED BY <1>6, <1>11, <1>15, <3>1
    <2>2. RowsAre(u, S \cup K, BOOLEAN)
      BY <1>6, <1>13 DEF RowsAre
    <2>3. Listed(w.ids, <<>>)
      <3>1. order \in SetToSeqs(Kids(u, Last(queue), flag))
        BY <1>4, <1>5
      <3>2. TypeOK /\ TreeShape /\ ids \in Seq(Nat) /\ queue \in Seq(Nat) /\ queue # <<>> /\ Listed(ids, queue)
        BY <1>0, <1>6
      <3>3. Listed(ids \o order, Front(queue) \o order)
        BY <3>1, <3>2, ListedGrows
      <3>4. w.ids = ids \o order /\ Front(queue) \o order = <<>>
        BY <1>4, <1>6, <1>15
      <3> QED BY <3>3, <3>4
    <2>4. w.ids \in Seq(Nat)
      BY <1>6, <1>7, ConcatProperties
    <2>5. TopDown(w.ids)
      BY <1>0, <2>3, <2>4, ListedTopDown
    <2>6. l = AfterCollect(r.op) /\ r.op \in {"delete", "restore", "purge"}
      BY <1>0, <1>5, <1>15, LabelOps
    <2>7. CASE r.op = "delete"
      <3>1. l = "mark" /\ flag = FALSE
        BY <1>6, <2>6, <2>7 DEF AfterCollect
      <3>2. TreeKnown(l, r, w)
        BY <1>6, <1>11, <1>12, <1>13, <2>1, <2>2, <3>1 DEF TreeKnown, CreateLabels, PurgeLabels
      <3> QED BY <1>1, <1>2, <3>2, TidyLands
    <2>8. CASE r.op = "restore"
      <3>1. l = "unmark"
        BY <2>6, <2>8 DEF AfterCollect
      <3>2. TreeKnown(l, r, w)
        BY <1>6, <1>11, <1>12, <1>13, <2>2, <2>5, <2>8, <3>1 DEF TreeKnown, CreateLabels, PurgeLabels
      <3> QED BY <1>1, <1>2, <3>2, TidyLands
    <2>9. CASE r.op = "purge"
      <3>1. l = "pick" /\ flag = TRUE
        BY <1>6, <2>6, <2>9 DEF AfterCollect
      <3>2. ToDrop(l, w.ids) = S \cup K
        BY <1>11, <3>1 DEF ToDrop
      <3>3. TreeKnown(l, r, w)
        BY <1>6, <1>13, <2>1, <3>1, <3>2 DEF TreeKnown, CreateLabels
      <3> QED BY <1>1, <1>2, <3>3, TidyLands
    <2> QED BY <2>6, <2>7, <2>8, <2>9
  <1> QED BY <1>14, <1>15

\* Marking and restoring go through the list from its head.
Flagged(t, flag, h, S, T) ==
  /\ DOMAIN files' = DOMAIN files /\ h \in DOMAIN files /\ S = {h} \cup T
  /\ \A i \in DOMAIN files : SameName(i) /\ (i # h => files'[i].deleted = files[i].deleted)
  /\ files'[h].deleted = flag
  /\ \/ pc'[t] = "idle" /\ T = {}
     \/ pc'[t] = pc[t] /\ req'[t] = req[t] /\ work'[t].ids = Tail(work[t].ids)
  /\ Tail(work[t].ids) \in Seq(Nat)

LEMMA FlagMoves ==
  ASSUME NEW t, Alone(t), pc[t] \in {"mark", "unmark"}, NEW flag \in BOOLEAN, SetDeleted(t, flag),
         NEW h, h = Head(work[t].ids), NEW S, S = ToSet(work[t].ids), NEW T, T = ToSet(Tail(work[t].ids))
  PROVE  Flagged(t, flag, h, S, T)
  <1>0. /\ files \in [DOMAIN files -> Row] /\ work \in [Threads -> Work] /\ work[t] \in Work /\ t \in Threads
        /\ work[t].ids \in Seq(Nat) /\ work[t].ids # <<>> /\ TreeKnown(pc[t], req[t], work[t])
        /\ pc \in [Threads -> Labels]
    BY AloneFacts DEF Fits
  <1>1. S = {h} \cup T /\ Tail(work[t].ids) \in Seq(Nat)
    BY <1>0, TailSet
  <1>2. h \in DOMAIN files /\ files[h].user = req[t].user
    <2>1. RowsAre(req[t].user, S, BOOLEAN)
      BY <1>0 DEF TreeKnown
    <2> QED BY <1>1, <2>1 DEF RowsAre
  <1>3. /\ DOMAIN files' = DOMAIN files
        /\ \A i \in DOMAIN files : files'[i] = IF i = h /\ files[i].user = req[t].user
                                               THEN [files[i] EXCEPT !.deleted = flag] ELSE files[i]
    BY DEF SetDeleted
  <1>4. ASSUME NEW i \in DOMAIN files
        PROVE  SameName(i) /\ (i # h => files'[i].deleted = files[i].deleted)
    <2>1. files[i] \in Row
      BY <1>0
    <2> QED BY <1>3, <2>1 DEF SameName, Row
  <1>5. files'[h].deleted = flag
    <2>1. files[h] \in Row
      BY <1>0, <1>2
    <2> QED BY <1>2, <1>3, <2>1 DEF Row
  <1>6. \/ pc'[t] = "idle" /\ T = {}
        \/ pc'[t] = pc[t] /\ req'[t] = req[t] /\ work'[t].ids = Tail(work[t].ids)
    <2>1. CASE Tail(work[t].ids) = <<>>
      <3>1. ToSet(<<>>) = {}
        BY DEF ToSet
      <3> QED BY <1>0, <2>1, <3>1 DEF SetDeleted, Reply, Abandon
    <2>2. CASE Tail(work[t].ids) # <<>>
      BY <1>0, <2>2 DEF SetDeleted, Work
    <2> QED BY <2>1, <2>2
  <1> QED BY <1>1, <1>2, <1>3, <1>4, <1>5, <1>6 DEF Flagged

LEMMA TreeOfDelete ==
  ASSUME NEW t, Alone(t), SoftDeleteNext(t)
  PROVE  TidyInv'
  <1>0. /\ Threads = {t} /\ NoOrphans /\ Tidy /\ pc[t] = "mark" /\ TreeKnown(pc[t], req[t], work[t])
        /\ SetDeleted(t, TRUE)
    BY AloneFacts DEF SoftDeleteNext, At
  <1>1. PICK h, S, T : /\ h = Head(work[t].ids) /\ S = ToSet(work[t].ids)
                       /\ T = ToSet(Tail(work[t].ids))
    OBVIOUS
  <1>2. /\ DOMAIN files' = DOMAIN files /\ h \in DOMAIN files /\ S = {h} \cup T
        /\ \A i \in DOMAIN files : /\ SameName(i)
                                   /\ i # h => files'[i].deleted = files[i].deleted
        /\ files'[h].deleted
        /\ \/ pc'[t] = "idle" /\ T = {}
           \/ pc'[t] = pc[t] /\ req'[t] = req[t] /\ work'[t].ids = Tail(work[t].ids)
    <2>1. Flagged(t, TRUE, h, S, T)
      BY <1>0, <1>1, FlagMoves
    <2> QED BY <2>1 DEF Flagged
  <1>3. \A i \in DOMAIN files : files'[i].parent = files[i].parent /\ files'[i].user = files[i].user
    BY <1>2 DEF SameName
  <1>4. /\ RowsAre(req[t].user, S, BOOLEAN) /\ Gathered(S, {}, FALSE)
        /\ req[t].id \in S \/ (req[t].id \in DOMAIN files /\ files[req[t].id].deleted)
    BY <1>0, <1>1 DEF TreeKnown
  <1>5. NoOrphans'
    BY <1>0, <1>2, <1>3 DEF NoOrphans
  <1>6. ASSUME NEW i \in DOMAIN files, ~files'[i].deleted, files[i].parent \in DOMAIN files,
               files'[files[i].parent].deleted
        PROVE  i \in T
    <2>1. i # h /\ ~files[i].deleted
      BY <1>2, <1>6, AloneFacts DEF Row
    <2>2. files[i].parent = h => i \in S
      BY <1>2, <1>4, <2>1 DEF Gathered
    <2>3. files[i].parent # h => i \in S
      <3>1. SUFFICES ASSUME files[i].parent # h PROVE i \in S
        OBVIOUS
      <3>2. files[files[i].parent].deleted
        BY <1>2, <1>6, <3>1
      <3> QED BY <1>0, <1>1, <1>6, <2>1, <3>2 DEF Tidy
    <2> QED BY <1>2, <2>1, <2>2, <2>3
  <1>7. Tidy'
    <2>1. ASSUME NEW i \in T PROVE pc'[t] = "mark" /\ i \in ToSet(work[t].ids)'
      BY <1>0, <1>1, <1>2, <2>1
    <2> QED BY <1>0, <1>2, <1>3, <1>6, <2>1 DEF Tidy
  <1>8. CASE pc'[t] = "idle"
    <2>1. PICK l, r, w : l = pc'[t] /\ r = req'[t] /\ w = work'[t]
      OBVIOUS
    <2>2. TreeKnown(l, r, w)'
      BY <1>8, <2>1 DEF TreeKnown, CreateLabels, PurgeLabels
    <2> QED BY <1>0, <1>5, <1>7, <2>1, <2>2 DEF TidyInv
  <1>9. CASE pc'[t] # "idle"
    <2>1. PICK l, r, w : l = pc'[t] /\ r = req'[t] /\ w = work'[t]
      OBVIOUS
    <2>2. l = "mark" /\ r = req[t] /\ ToSet(w.ids) = T
      BY <1>0, <1>1, <1>2, <1>9, <2>1
    <2>3. RowsAre(r.user, T, BOOLEAN)'
      BY <1>2, <1>3, <1>4, <2>2 DEF RowsAre
    <2>4. Gathered(T, {}, FALSE)'
      <3>1. SUFFICES ASSUME NEW i \in DOMAIN files, files'[i].deleted = FALSE, files[i].parent \in T
                     PROVE  i \in T
        BY <1>2, <1>3 DEF Gathered
      <3>2. i # h /\ files[i].deleted = FALSE
        BY <1>2, <3>1
      <3> QED BY <1>2, <1>4, <3>1, <3>2 DEF Gathered
    <2>5. r.id \in T \/ (r.id \in DOMAIN files' /\ files'[r.id].deleted)
      BY <1>2, <1>4, <2>2
    <2>6. TreeKnown(l, r, w)'
      BY <2>2, <2>3, <2>4, <2>5 DEF TreeKnown, CreateLabels, PurgeLabels
    <2> QED BY <1>0, <1>5, <1>7, <2>1, <2>6 DEF TidyInv
  <1> QED BY <1>8, <1>9

LEMMA TreeOfRestore ==
  ASSUME NEW t, Alone(t), RestoreNext(t)
  PROVE  TidyInv'
  <1>0. /\ Threads = {t} /\ NoOrphans /\ Tidy /\ pc[t] = "unmark" /\ TreeKnown(pc[t], req[t], work[t])
        /\ SetDeleted(t, FALSE) /\ work[t].ids \in Seq(Nat) /\ work[t].ids # <<>>
        /\ DOMAIN files \subseteq 1 .. (nextFile - 1)
    BY AloneFacts DEF RestoreNext, At, Fits
  <1>1. PICK h, S, T : /\ h = Head(work[t].ids) /\ S = ToSet(work[t].ids)
                       /\ T = ToSet(Tail(work[t].ids))
    OBVIOUS
  <1>2. /\ DOMAIN files' = DOMAIN files /\ h \in DOMAIN files /\ S = {h} \cup T
        /\ \A i \in DOMAIN files : /\ SameName(i)
                                   /\ i # h => files'[i].deleted = files[i].deleted
        /\ files'[h].deleted = FALSE
        /\ \/ pc'[t] = "idle" /\ T = {}
           \/ pc'[t] = pc[t] /\ req'[t] = req[t] /\ work'[t].ids = Tail(work[t].ids)
        /\ Tail(work[t].ids) \in Seq(Nat)
    <2>1. Flagged(t, FALSE, h, S, T)
      BY <1>0, <1>1, FlagMoves
    <2> QED BY <2>1 DEF Flagged
  <1>3. \A i \in DOMAIN files : files'[i].parent = files[i].parent /\ files'[i].user = files[i].user
    BY <1>2 DEF SameName
  <1>4. RowsAre(req[t].user, S, BOOLEAN) /\ Rooted(S) /\ TopDown(work[t].ids)
    BY <1>0, <1>1 DEF TreeKnown
  <1>5. NoOrphans'
    BY <1>0, <1>2, <1>3 DEF NoOrphans
  <1>6. files[h].parent \notin S
    <2>1. /\ h = work[t].ids[1] /\ 1 \in 1 .. Len(work[t].ids) /\ DOMAIN work[t].ids = 1 .. Len(work[t].ids)
      BY <1>0, <1>1, TailSet, LenProperties
    <2> QED BY <1>1, <1>2, <1>4, <2>1 DEF TopDown, ToSet
  <1>7. ASSUME NEW i \in DOMAIN files, ~files'[i].deleted, files[i].parent \in DOMAIN files,
               files'[files[i].parent].deleted
        PROVE  FALSE
    <2>1. files[i].parent # h /\ files[files[i].parent].deleted
      BY <1>2, <1>7
    <2>2. CASE i = h
      <3>1. 0 \notin DOMAIN files
        BY <1>0
      <3> QED BY <1>2, <1>4, <1>6, <1>7, <2>1, <2>2, <3>1 DEF Rooted
    <2>3. CASE i # h
      BY <1>0, <1>2, <1>7, <2>1, <2>3 DEF Tidy
    <2> QED BY <2>2, <2>3
  <1>8. Tidy'
    BY <1>2, <1>3, <1>7 DEF Tidy
  <1>9. CASE pc'[t] = "idle"
    <2>1. PICK l, r, w : l = pc'[t] /\ r = req'[t] /\ w = work'[t]
      OBVIOUS
    <2>2. TreeKnown(l, r, w)'
      BY <1>9, <2>1 DEF TreeKnown, CreateLabels, PurgeLabels
    <2> QED BY <1>0, <1>5, <1>8, <2>1, <2>2 DEF TidyInv
  <1>10. CASE pc'[t] # "idle"
    <2>1. PICK l, r, w : l = pc'[t] /\ r = req'[t] /\ w = work'[t]
      OBVIOUS
    <2>2. l = "unmark" /\ r = req[t] /\ ToSet(w.ids) = T /\ w.ids = Tail(work[t].ids)
      BY <1>0, <1>1, <1>2, <1>10, <2>1
    <2>3. RowsAre(r.user, T, BOOLEAN)'
      <3>1. \A i \in T : i \in DOMAIN files' /\ files'[i].user = req[t].user
        BY <1>2, <1>3, <1>4 DEF RowsAre
      <3>2. \A i \in DOMAIN files : files'[i].deleted \in BOOLEAN
        <4>1. files \in [DOMAIN files -> Row]
          BY AloneFacts
        <4>2. \A i \in DOMAIN files : files[i].deleted \in BOOLEAN
          BY <4>1 DEF Row
        <4> QED BY <1>2, <4>2
      <3> QED BY <1>2, <2>2, <3>1, <3>2 DEF RowsAre
    <2>4. Rooted(T)'
      BY <1>2, <1>3, <1>4 DEF Rooted, RowsAre
    <2>5. TopDown(w.ids)'
      <3>1. PICK ids, s : ids = work[t].ids /\ s = Tail(ids)
        OBVIOUS
      <3>2. \A j \in 1 .. Len(s) : s[j] = ids[j + 1] /\ j + 1 \in 1 .. Len(ids)
        BY <1>0, <3>1, TailSet
      <3>3. Len(s) \in Nat /\ Len(ids) \in Nat
        BY <1>0, <1>2, <3>1, LenProperties
      <3>4. ASSUME NEW k \in 1 .. Len(s), NEW j \in k .. Len(s), s[k] \in DOMAIN files
            PROVE  files[s[k]].parent # s[j]
        <4>1. /\ j \in 1 .. Len(s) /\ k + 1 \in 1 .. Len(ids) /\ j + 1 \in k + 1 .. Len(ids)
          BY <3>2, <3>3, <3>4
        <4>2. s[k] = ids[k + 1] /\ s[j] = ids[j + 1]
          BY <3>2, <3>4, <4>1
        <4> QED BY <1>4, <3>1, <3>4, <4>1, <4>2 DEF TopDown
      <3>5. TopDown(s)
        BY <3>4 DEF TopDown
      <3>6. TopDown(s)'
        BY <1>2, <1>3, <3>5 DEF TopDown
      <3>7. w.ids = s
        BY <2>2, <3>1
      <3> QED BY <3>6, <3>7
    <2>6. TreeKnown(l, r, w)'
      BY <2>2, <2>3, <2>4, <2>5 DEF TreeKnown, CreateLabels, PurgeLabels
    <2> QED BY <1>0, <1>5, <1>8, <2>1, <2>6 DEF TidyInv
  <1> QED BY <1>9, <1>10

\* A purge drops the rows of its list from the end.
LEMMA VictimMoves ==
  ASSUME NEW t, Alone(t), pc[t] \in PurgeLabels, NextVictim(t)
  PROVE  \/ pc'[t] = "idle"
         \/ pc'[t] = "pick" /\ req'[t] = req[t] /\ work'[t].ids = Front(work[t].ids)
  <1>0. /\ t \in Threads /\ pc \in [Threads -> Labels] /\ work \in [Threads -> Work] /\ work[t] \in Work
    BY AloneFacts
  <1>1. CASE Front(work[t].ids) = <<>>
    BY <1>0, <1>1 DEF NextVictim, Reply, Abandon
  <1>2. CASE Front(work[t].ids) # <<>>
    BY <1>0, <1>2 DEF NextVictim, Goto, Work
  <1> QED BY <1>1, <1>2

LEMMA PurgeFacts ==
  ASSUME NEW t, Alone(t), pc[t] \in PurgeLabels, NEW ids, ids = work[t].ids
  PROVE  /\ ids \in Seq(Nat) /\ ids # <<>> /\ TopDown(ids)
         /\ ToSet(ids) = ToSet(Front(ids)) \cup {Last(ids)} /\ Last(ids) \notin ToSet(Front(ids))
         /\ RowsAre(req[t].user, ToDrop(pc[t], ids), {TRUE})
         /\ Gathered(ToDrop(pc[t], ids), {}, TRUE)
  <1>1. /\ TypeOK /\ TreeShape /\ ids \in Seq(Nat) /\ ids # <<>> /\ Listed(ids, <<>>)
        /\ TreeKnown(pc[t], req[t], work[t])
    BY AloneFacts DEF Fits, ListedAt
  <1>2. TopDown(ids)
    BY <1>1, ListedTopDown
  <1>3. IsInjective(ids)
    BY <1>1 DEF Listed
  <1>4. ToSet(ids) = ToSet(Front(ids)) \cup {Last(ids)} /\ Last(ids) \notin ToSet(Front(ids))
    BY <1>1, <1>3, FrontSet
  <1>5. RowsAre(req[t].user, ToDrop(pc[t], ids), {TRUE}) /\ Gathered(ToDrop(pc[t], ids), {}, TRUE)
    BY <1>1 DEF TreeKnown
  <1> QED BY <1>1, <1>2, <1>4, <1>5

\* The steps of a purge besides the DELETE: the rows to drop stay the same.
LEMMA TreeOfPurge ==
  ASSUME NEW t, Alone(t),
         \/ PickVictim(t) \/ DropShares(t) \/ SubUsed(t) \/ Unref(t) \/ ReadRef(t) \/ Unlink(t)
         \/ DropObject(t)
  PROVE  TidyInv'
  <1> USE DEF At
  <1>0. /\ t \in Threads /\ pc \in [Threads -> Labels] /\ work \in [Threads -> Work] /\ work[t] \in Work
        /\ req \in [Threads -> Requests \cup {NoRequest}]
    BY AloneFacts
  <1>1. pc[t] \in PurgeLabels /\ pc[t] # "mark" /\ UNCHANGED files
    BY DEF PickVictim, DropShares, SubUsed, Unref, ReadRef, Unlink, DropObject, tables, PurgeLabels
  <1>2. PICK l, r, w : l = pc'[t] /\ r = req'[t] /\ w = work'[t]
    OBVIOUS
  <1>3. PICK ids : ids = work[t].ids
    OBVIOUS
  <1>4. /\ ToSet(ids) = ToSet(Front(ids)) \cup {Last(ids)}
        /\ RowsAre(req[t].user, ToDrop(pc[t], ids), {TRUE})
        /\ Gathered(ToDrop(pc[t], ids), {}, TRUE)
    BY <1>1, <1>3, PurgeFacts
  <1>5. CASE l = "idle"
    BY <1>1, <1>2, <1>5, IdleKnown, TidyLands
  <1>6. CASE l # "idle"
    <2>2. ASSUME NextVictim(t) PROVE l = "pick" /\ r = req[t] /\ w.ids = Front(ids)
      BY <1>1, <1>2, <1>3, <1>6, <2>2, VictimMoves
    <2>3. r = req[t] /\ l \in PurgeLabels /\ ToDrop(l, w.ids) = ToDrop(pc[t], ids)
      <3>1. CASE PickVictim(t)
        <4>1. pc[t] = "pick" /\ ToDrop(pc[t], ids) = ToSet(ids)
          BY <3>1 DEF PickVictim, ToDrop
        <4>2. DeletedRow(req[t].user, Victim(t))
          BY <1>3, <1>4, <4>1 DEF RowsAre, DeletedRow, Victim
        <4>3. l = "dropShares" /\ r = req[t] /\ w.ids = ids
          BY <1>0, <1>2, <1>3, <3>1, <4>2 DEF PickVictim, Goto, Work
        <4> QED BY <4>1, <4>3 DEF ToDrop, PurgeLabels
      <3>2. CASE DropShares(t)
        BY <1>0, <1>2, <1>3, <3>2 DEF DropShares, Goto, ToDrop, PurgeLabels
      <3>3. CASE SubUsed(t) \/ Unref(t)
        BY <1>0, <1>2, <1>3, <3>3 DEF SubUsed, Unref, Goto, ToDrop, PurgeLabels
      <3>4. CASE Unlink(t)
        BY <1>0, <1>2, <1>3, <3>4 DEF Unlink, ToDrop, PurgeLabels
      <3>5. CASE ReadRef(t) /\ ~NextVictim(t)
        <4>1. pc[t] = "readRef" /\ l = "unlink" /\ r = req[t] /\ w.ids = ids
          BY <1>0, <1>2, <1>3, <3>5 DEF ReadRef, Goto, Work
        <4> QED BY <4>1 DEF ToDrop, PurgeLabels
      <3>6. CASE (ReadRef(t) \/ DropObject(t)) /\ NextVictim(t)
        <4>1. pc[t] \in {"readRef", "dropObject"}
          BY <3>6 DEF ReadRef, DropObject
        <4> QED BY <2>2, <3>6, <4>1 DEF ToDrop, PurgeLabels
      <3>7. CASE DropObject(t) /\ ~NextVictim(t)
        <4>1. Reply(t)
          BY <3>7 DEF DropObject
        <4> QED BY <1>0, <1>2, <1>6, <4>1 DEF Reply, Abandon
      <3> QED BY <3>1, <3>2, <3>3, <3>4, <3>5, <3>6, <3>7
    <2>4. TreeKnown(l, r, w)
      BY <1>4, <2>3 DEF TreeKnown, CreateLabels, PurgeLabels
    <2> QED BY <1>1, <1>2, <2>4, TidyLands
  <1> QED BY <1>5, <1>6

\* Nothing is left in a row that is dropped.
LEMMA TreeOfDrop ==
  ASSUME NEW t, Alone(t), DropRow(t)
  PROVE  TidyInv'
  <1> USE DEF At
  <1>0. /\ t \in Threads /\ Threads = {t} /\ pc \in [Threads -> Labels] /\ work \in [Threads -> Work]
        /\ req \in [Threads -> Requests \cup {NoRequest}] /\ NoOrphans /\ Tidy
        /\ files \in [DOMAIN files -> Row]
    BY AloneFacts
  <1>1. pc[t] = "dropRow" /\ pc[t] \in PurgeLabels
    BY DEF DropRow, PurgeLabels
  <1>2. PICK l, r, w : l = pc'[t] /\ r = req'[t] /\ w = work'[t]
    OBVIOUS
  <1>3. CASE Victim(t) \in shares
    <2>1. l = "idle" /\ UNCHANGED files
      BY <1>0, <1>2, <1>3 DEF DropRow, Reply, Abandon
    <2> QED BY <1>1, <1>2, <2>1, IdleKnown, TidyLands
  <1>4. CASE Victim(t) \notin shares
    <2>1. PICK ids, v, S, T, u : /\ ids = work[t].ids /\ v = Last(ids) /\ S = ToSet(ids)
                                 /\ T = ToSet(Front(ids)) /\ u = req[t].user
      OBVIOUS
    <2>2. /\ ids \in Seq(Nat) /\ ids # <<>> /\ TopDown(ids) /\ S = T \cup {v} /\ v \notin T
          /\ RowsAre(u, S, {TRUE}) /\ Gathered(S, {}, TRUE)
      <3>1. ToDrop(pc[t], ids) = S
        BY <1>1, <2>1 DEF ToDrop
      <3>2. /\ ids \in Seq(Nat) /\ ids # <<>> /\ TopDown(ids)
            /\ ToSet(ids) = ToSet(Front(ids)) \cup {Last(ids)} /\ Last(ids) \notin ToSet(Front(ids))
            /\ RowsAre(req[t].user, ToDrop(pc[t], ids), {TRUE})
            /\ Gathered(ToDrop(pc[t], ids), {}, TRUE)
        BY <1>1, <2>1, PurgeFacts
      <3> QED BY <2>1, <3>1, <3>2
    <2>3. /\ DOMAIN files' = DOMAIN files \ {v}
          /\ \A i \in DOMAIN files' : files'[i] = files[i]
      BY <1>4, <2>1 DEF DropRow, Victim
    <2>4. ASSUME NEW i \in DOMAIN files, files[i].parent = v PROVE FALSE
      <3>1. v \in DOMAIN files /\ files[v].deleted
        BY <2>2 DEF RowsAre
      <3>2. CASE files[i].deleted
        <4>1. i \in S
          <5>1. files[i].deleted = TRUE
            BY <1>0, <3>2 DEF Row
          <5> QED BY <2>2, <2>4, <5>1 DEF Gathered
        <4>2. DOMAIN ids = 1 .. Len(ids) /\ Len(ids) \in Nat
          BY <2>2, LenProperties
        <4>3. PICK k \in 1 .. Len(ids) : ids[k] = i
          BY <2>1, <4>1, <4>2 DEF ToSet
        <4>4. PICK n \in 1 .. Len(ids) : n = Len(ids) /\ v = ids[n]
          BY <2>1, <2>2, FrontSet
        <4>5. n \in k .. Len(ids)
          BY <4>2, <4>3, <4>4
        <4> QED BY <2>2, <2>4, <4>3, <4>4, <4>5 DEF TopDown
      <3>3. CASE ~files[i].deleted
        BY <1>0, <1>1, <2>4, <3>1, <3>3 DEF Tidy
      <3> QED BY <3>2, <3>3
    <2>5. NoOrphans'
      BY <1>0, <2>3, <2>4 DEF NoOrphans
    <2>6. Tidy'
      <3>1. SUFFICES ASSUME NEW i \in DOMAIN files', files'[i].parent \in DOMAIN files',
                            files'[files'[i].parent].deleted, ~files'[i].deleted
                     PROVE  FALSE
        BY DEF Tidy
      <3>2. /\ i \in DOMAIN files /\ files[i].parent \in DOMAIN files /\ files[files[i].parent].deleted
            /\ ~files[i].deleted
        BY <2>3, <3>1
      <3> QED BY <1>0, <1>1, <3>2 DEF Tidy
    <2>7. /\ RowsAre(u, T, {TRUE})'
          /\ Gathered(T, {}, TRUE)'
      <3>1. RowsAre(u, T, {TRUE})'
        BY <2>2, <2>3 DEF RowsAre
      <3>2. Gathered(T, {}, TRUE)'
        <4>1. SUFFICES ASSUME NEW i \in DOMAIN files', files'[i].deleted = TRUE, files'[i].parent \in T
                       PROVE  i \in T
          BY DEF Gathered
        <4>2. i \in DOMAIN files /\ i # v /\ files[i].deleted = TRUE /\ files[i].parent \in S
          BY <2>2, <2>3, <4>1
        <4> QED BY <2>2, <4>2 DEF Gathered
      <3> QED BY <3>1, <3>2
    <2>8. l = "idle" \/ (l \in PurgeLabels /\ r = req[t] /\ ToDrop(l, w.ids) = T)
      <3>1. CASE NextVictim(t)
        <4>1. l = "idle" \/ (l = "pick" /\ r = req[t] /\ w.ids = Front(ids))
          BY <1>1, <1>2, <2>1, <3>1, VictimMoves
        <4> QED BY <2>1, <4>1 DEF ToDrop, PurgeLabels
      <3>2. CASE ~NextVictim(t)
        <4>1. l = "subUsed" /\ r = req[t] /\ w.ids = ids
          BY <1>0, <1>2, <1>4, <2>1, <3>2 DEF DropRow, Goto
        <4> QED BY <2>1, <4>1 DEF ToDrop, PurgeLabels
      <3> QED BY <3>1, <3>2
    <2>9. TreeKnown(l, r, w)'
      <3>1. CASE l = "idle"
        BY <3>1 DEF TreeKnown, CreateLabels, PurgeLabels
      <3>2. CASE l # "idle"
        <4>1. l \in PurgeLabels /\ r.user = u /\ ToDrop(l, w.ids) = T
          BY <2>1, <2>8, <3>2
        <4> QED BY <2>7, <4>1 DEF TreeKnown, CreateLabels, PurgeLabels
      <3> QED BY <3>1, <3>2
    <2> QED BY <1>0, <1>2, <2>5, <2>6, <2>9 DEF TidyInv
  <1> QED BY <1>3, <1>4

LEMMA TidyStep ==
  ASSUME \A s, u \in Threads : s = u, MaxFaults = 0, TypeOK, TypeOK', TreeShape, CollectOK, TidyInv,
         WholeRestores, [Next]_vars
  PROVE  TidyInv'
  <1>0. /\ pc \in [Threads -> Labels] /\ faults \in Nat /\ \A t \in Threads : Threads = {t}
    BY DEF TypeOK, HandlersOK
  <1>1. ASSUME NEW t \in Threads, Step(t) PROVE TidyInv'
    <2>1. Alone(t)
      BY <1>0, <1>1 DEF Alone, OthersSame
    <2> QED BY <1>1, <2>1, TreeOfCreates, TreeOfInserts, TreeOfRoot, TreeOfName, TreeOfRounds, TreeOfDelete,
               TreeOfRestore, TreeOfPurge, TreeOfDrop DEF Step
  <1>2. ASSUME NEW t \in Threads, Begin(t) PROVE TidyInv'
    <2>1. /\ pc[t] = "idle" /\ UNCHANGED files /\ Threads = {t}
      BY <1>0, <1>2 DEF Begin, At, tables
    <2>2. PICK l, r, w : l = pc'[t] /\ r = req'[t] /\ w = work'[t]
      OBVIOUS
    <2>3. l \in {"parent", "root"}
      BY <1>0, <1>2, <2>2 DEF Begin, FirstLabel
    <2>4. TreeKnown(l, r, w)'
      BY <2>3 DEF TreeKnown, CreateLabels, PurgeLabels
    <2>5. NoOrphans' /\ Tidy'
      BY <2>1 DEF TidyInv, NoOrphans, Tidy
    <2> QED BY <2>1, <2>2, <2>4, <2>5 DEF TidyInv
  <1>3. ASSUME UNCHANGED vars PROVE TidyInv'
    <2>1. UNCHANGED <<files, pc, req, work>>
      BY <1>3 DEF vars, tables, handler
    <2>2. NoOrphans' /\ Tidy'
      BY <2>1 DEF TidyInv, NoOrphans, Tidy
    <2>3. ASSUME NEW t \in Threads, NEW l, NEW r, NEW w, l = pc'[t], r = req'[t], w = work'[t]
          PROVE  TreeKnown(l, r, w)'
      <3>1. TreeKnown(l, r, w)
        BY <2>1, <2>3 DEF TidyInv
      <3> QED BY <2>1, <3>1, SameTree
    <2> QED BY <2>2, <2>3 DEF TidyInv
  <1>4. ~Crash /\ \A t \in Threads : ~Fail(t) /\ ~Skipped(t)
    BY <1>0 DEF Crash, Fail, Skipped
  <1> QED BY <1>1, <1>2, <1>3, <1>4, Cases

LEMMA TidyInit == Init => TidyInv /\ WholeRestores
  <1> SUFFICES ASSUME Init PROVE TidyInv /\ WholeRestores
    OBVIOUS
  <1>1. ASSUME NEW t \in Threads PROVE TreeKnown(pc[t], req[t], work[t])
    BY DEF Init, TreeKnown, CreateLabels, PurgeLabels
  <1> QED BY <1>1 DEF Init, TidyInv, NoOrphans, Tidy, WholeRestores, EmptyTable

LEMMA WholeStep ==
  ASSUME \A s, u \in Threads : s = u, MaxFaults = 0
  PROVE  TypeOK /\ TypeOK' /\ TreeShape /\ CollectOK /\ TidyInv /\ WholeRestores /\ [Next /\ WholeRestores']_vars
           => TidyInv' /\ WholeRestores'
  <1>1. WholeRestores /\ UNCHANGED vars => WholeRestores'
    BY DEF WholeRestores, DeletedRow, ActiveRow, vars, tables, handler
  <1>2. SUFFICES ASSUME TypeOK, TypeOK', TreeShape, CollectOK, TidyInv, WholeRestores,
                        [Next /\ WholeRestores']_vars
                 PROVE  TidyInv' /\ WholeRestores'
    OBVIOUS
  <1>3. WholeRestores' /\ [Next]_vars
    BY <1>1, <1>2
  <1>4. TidyInv'
    BY <1>2, <1>3, TidyStep
  <1> QED BY <1>3, <1>4

\* With one thread and no faults, no row is left in a folder that is gone, as long as nobody
\* restores what is in a folder that is still deleted (FileRoutes.cpp 443-463): what a purge
\* has collected is then all there is below its folder.
THEOREM NoOrphansHolds ==
  ASSUME \A s, t \in Threads : s = t, MaxFaults = 0
  PROVE  SpecWhole => []NoOrphans
  <1>1. Init => CollectOK
    BY DEF Init, CollectOK, ListedAt, PurgeLabels
  <1>2. TypeOK /\ TypeOK' /\ TreeShape /\ CollectOK /\ [Next]_vars => CollectOK'
    BY CollectStep
  <1>3. Init => TidyInv /\ WholeRestores
    BY TidyInit
  <1>4. TypeOK /\ TypeOK' /\ TreeShape /\ CollectOK /\ TidyInv /\ WholeRestores /\ [Next /\ WholeRestores']_vars
          => TidyInv' /\ WholeRestores'
    BY WholeStep
  <1>5. TidyInv => NoOrphans
    BY DEF TidyInv
  <1>6. SpecWhole => Spec
    BY PTL DEF SpecWhole, Spec
  <1> QED BY <1>1, <1>2, <1>3, <1>4, <1>5, <1>6, TypeCorrect, TreeShapeHolds, PTL DEF SpecWhole

\* What is below a folder: Below is the function that satisfies its recursion, and there is
\* one, with the smallest set that is closed under it.
Descends(root, f) ==
  f = [i \in DOMAIN files |-> LET p == files[i].parent IN p = root \/ (p \in DOMAIN files /\ f[p])]
ClosedUnder(root, X) ==
  \A i \in DOMAIN files : files[i].parent = root \/ files[i].parent \in X => i \in X
Least(root) == {i \in DOMAIN files : \A X \in SUBSET DOMAIN files : ClosedUnder(root, X) => i \in X}

LEMMA BelowIsChosen ==
  ASSUME NEW root
  PROVE  Below(root) = {i \in DOMAIN files : (CHOOSE f : Descends(root, f))[i]}
  BY DEF Below, Descends

LEMMA LeastDescends ==
  ASSUME NEW root
  PROVE  \A i \in DOMAIN files :
           i \in Least(root) <=> files[i].parent = root \/ files[i].parent \in Least(root)
  <1> DEFINE M == Least(root)
  <1>1. ClosedUnder(root, M)
    <2>1. ASSUME NEW i \in DOMAIN files, files[i].parent = root \/ files[i].parent \in M,
                 NEW X \in SUBSET DOMAIN files, ClosedUnder(root, X)
          PROVE  i \in X
      BY <2>1 DEF ClosedUnder, Least
    <2> QED BY <2>1 DEF ClosedUnder, Least
  <1>2. ASSUME NEW i \in M, files[i].parent # root, files[i].parent \notin M PROVE FALSE
    <2>1. M \ {i} \in SUBSET DOMAIN files
      BY DEF Least
    <2>2. ClosedUnder(root, M \ {i})
      BY <1>1, <1>2 DEF ClosedUnder
    <2> QED BY <2>1, <2>2 DEF Least
  <1> QED BY <1>1, <1>2 DEF ClosedUnder

LEMMA BelowUnfolds ==
  ASSUME NEW root, NEW i \in Below(root)
  PROVE  /\ i \in DOMAIN files
         /\ files[i].parent = root \/ files[i].parent \in Below(root)
  <1>1. \E f : Descends(root, f)
    <2>1. PICK M : M = Least(root)
      OBVIOUS
    <2>2. M \subseteq DOMAIN files
      BY <2>1 DEF Least
    <2>3. \A j \in DOMAIN files : j \in M <=> files[j].parent = root \/ files[j].parent \in M
      BY <2>1, LeastDescends
    <2>4. PICK f : f = [j \in DOMAIN files |-> j \in M]
      OBVIOUS
    <2>5. ASSUME NEW j \in DOMAIN files
          PROVE  (j \in M) = (LET p == files[j].parent IN p = root \/ (p \in DOMAIN files /\ f[p]))
      <3>1. PICK p : p = files[j].parent
        OBVIOUS
      <3>2. (p \in DOMAIN files /\ f[p]) <=> p \in M
        BY <2>2, <2>4
      <3>3. (j \in M) <=> (p = root \/ (p \in DOMAIN files /\ f[p]))
        BY <2>3, <3>1, <3>2
      <3> QED BY <3>1, <3>3
    <2>6. f = [j \in DOMAIN files |-> LET p == files[j].parent IN p = root \/ (p \in DOMAIN files /\ f[p])]
      BY <2>4, <2>5
    <2> QED BY <2>6 DEF Descends
  <1>2. PICK f : f = CHOOSE g : Descends(root, g)
    OBVIOUS
  <1>3. Descends(root, f)
    BY <1>1, <1>2
  <1>4. Below(root) = {j \in DOMAIN files : f[j]}
    BY <1>2, BelowIsChosen
  <1>5. i \in DOMAIN files /\ f[i]
    BY <1>4
  <1>6. LET p == files[i].parent IN p = root \/ (p \in DOMAIN files /\ f[p])
    BY <1>3, <1>5 DEF Descends
  <1> QED BY <1>4, <1>5, <1>6

\* What holds of a folder and passes from a folder to what is in it holds of the whole tree.
LEMMA WholeTree ==
  ASSUME TypeOK, TreeShape, NEW root, NEW X, root \in X,
         \A i \in DOMAIN files : files[i].parent \in X => i \in X
  PROVE  Below(root) \subseteq X
  <1> DEFINE T == {n \in Nat : \A i \in Below(root) : i <= n => i \in X}
  <1>1. ASSUME NEW i \in Below(root) PROVE i \in Nat /\ i # 0
    <2>1. i \in DOMAIN files
      BY BelowUnfolds
    <2>2. DOMAIN files \subseteq 1 .. (nextFile - 1) /\ nextFile - 1 \in Int
      BY DEF TypeOK, TablesOK
    <2> QED BY <2>1, <2>2
  <1>2. 0 \in T
    BY <1>1
  <1>3. ASSUME NEW n \in T PROVE n + 1 \in T
    <2>1. SUFFICES ASSUME NEW i \in Below(root), i <= n + 1 PROVE i \in X
      BY <1>3
    <2>2. i \in DOMAIN files /\ (files[i].parent = root \/ files[i].parent \in Below(root))
      BY BelowUnfolds
    <2>3. CASE files[i].parent = root
      BY <2>2, <2>3
    <2>4. CASE files[i].parent # root
      <3>1. files[i].parent \in Below(root) /\ files[i].parent \in Nat /\ files[i].parent < i
        BY <1>1, <2>2, <2>4 DEF TreeShape
      <3>2. files[i].parent <= n
        BY <1>1, <1>3, <2>1, <3>1
      <3> QED BY <1>3, <2>2, <3>1, <3>2
    <2> QED BY <2>3, <2>4
  <1>4. T = Nat
    <2>1. T \subseteq Nat
      OBVIOUS
    <2> HIDE DEF T
    <2> QED BY <1>2, <1>3, <2>1, AllNumbers
  <1>5. ASSUME NEW i \in Below(root) PROVE i \in X
    <2>1. i \in T /\ i <= i
      BY <1>1, <1>4
    <2> QED BY <2>1
  <1> QED BY <1>5

\* When a delete answers, its folder is deleted, and so is what is in a deleted folder.
LEMMA DeleteEnds ==
  ASSUME \A s, u \in Threads : s = u, MaxFaults = 0, TypeOK, TypeOK', TreeShape, CollectOK, TidyInv,
         TidyInv', [Next]_vars, NEW t \in Threads, pc[t] = "mark", pc'[t] = "idle",
         NEW i \in (Below(req[t].id) \cup {req[t].id}) \cap DOMAIN files'
  PROVE  files'[i].deleted
  <1>0. /\ pc \in [Threads -> Labels] /\ faults \in Nat /\ Threads = {t}
    BY DEF TypeOK, HandlersOK
  <1>1. SoftDeleteNext(t)
    <2>1. ~Crash /\ ~Fail(t) /\ ~Skipped(t) /\ ~Begin(t)
      BY <1>0 DEF Crash, Fail, Skipped, Begin, At
    <2>2. ~UNCHANGED vars
      BY DEF vars, handler
    <2>3. Step(t)
      BY <1>0, <2>1, <2>2, Cases
    <2> QED BY <2>3 DEF Step, At, CheckParent, CheckName, InsertDir, FetchDir, FindObject, OpenObject, WriteObject,
               InsertObject, FetchObject, CheckExists, RewriteObject, AddRef, InsertRow, AddUsed, FetchId,
               FindRoot, InsertShare, CheckRestoreName, CollectKids, RestoreNext, PickVictim, DropShares,
               DropRow, SubUsed, Unref, ReadRef, Unlink, DropObject
  <1>2. Alone(t)
    BY <1>0, <1>1 DEF Alone, OthersSame, Step
  <1>3. PICK h, S, T, root : /\ h = Head(work[t].ids) /\ S = ToSet(work[t].ids)
                             /\ T = ToSet(Tail(work[t].ids)) /\ root = req[t].id
    OBVIOUS
  <1>4. Flagged(t, TRUE, h, S, T)
    <2>1. SetDeleted(t, TRUE)
      BY <1>1 DEF SoftDeleteNext
    <2> QED BY <1>2, <1>3, <2>1, FlagMoves
  <1>5. /\ DOMAIN files' = DOMAIN files /\ S = {h} /\ files'[h].deleted
        /\ \A j \in DOMAIN files : j # h => files'[j].deleted = files[j].deleted
        /\ \A j \in DOMAIN files : files'[j].parent = files[j].parent
    BY <1>4 DEF Flagged, SameName
  <1>6. root \in DOMAIN files /\ files'[root].deleted
    <2>1. RowsAre(req[t].user, S, BOOLEAN) /\ (root \in S \/ (root \in DOMAIN files /\ files[root].deleted))
      BY <1>2, <1>3, AloneFacts DEF TreeKnown
    <2> QED BY <1>5, <2>1 DEF RowsAre
  <1>7. PICK X : X = {j \in DOMAIN files : files'[j].deleted}
    OBVIOUS
  <1>8. ASSUME NEW j \in DOMAIN files, files[j].parent \in X PROVE j \in X
    <2>1. Tidy'
      BY DEF TidyInv
    <2>2. \A s \in Threads : pc'[s] # "mark"
      BY <1>0
    <2> QED BY <1>5, <1>7, <1>8, <2>1, <2>2 DEF Tidy
  <1>9. Below(root) \subseteq X
    <2>1. root \in X
      BY <1>6, <1>7
    <2> QED BY <1>8, <2>1, WholeTree
  <1> QED BY <1>3, <1>5, <1>6, <1>7, <1>9

\* Likewise when a delete is answered everything below its folder is deleted, at any depth
\* (FileOps.h 57): softDeleteTree had collected all of it, and nothing came in meanwhile.
THEOREM DeletesWholeTrees ==
  ASSUME \A s, t \in Threads : s = t, MaxFaults = 0
  PROVE  SpecWhole => DeleteTakesTree
  <1>1. Init => CollectOK
    BY DEF Init, CollectOK, ListedAt, PurgeLabels
  <1>2. TypeOK /\ TypeOK' /\ TreeShape /\ CollectOK /\ [Next]_vars => CollectOK'
    BY CollectStep
  <1>3. Init => TidyInv /\ WholeRestores
    BY TidyInit
  <1>4. TypeOK /\ TypeOK' /\ TreeShape /\ CollectOK /\ TidyInv /\ WholeRestores /\ [Next /\ WholeRestores']_vars
          => TidyInv' /\ WholeRestores'
    BY WholeStep
  <1>5. TypeOK /\ TypeOK' /\ TreeShape /\ CollectOK /\ TidyInv /\ TidyInv' /\ [Next /\ WholeRestores']_vars
          => [\A t \in Threads : pc[t] = "mark" /\ pc'[t] = "idle" =>
               \A i \in (Below(req[t].id) \cup {req[t].id}) \cap DOMAIN files' : files'[i].deleted]_vars
    BY DeleteEnds
  <1>6. SpecWhole => Spec
    BY PTL DEF SpecWhole, Spec
  <1> QED BY <1>1, <1>2, <1>3, <1>4, <1>5, <1>6, TypeCorrect, TreeShapeHolds, PTL DEF SpecWhole, DeleteTakesTree
============================================================================
