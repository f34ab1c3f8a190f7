---------------------------- MODULE PageUploads ----------------------------
(***************************************************************************)
(* uploadChunked of the web client (app.js 387-462) on top of Uploads: the  *)
(* tabs of one user send the same files to the server, lose answers and     *)
(* connections, and are tried again by the user.  A request is on its way   *)
(* until a thread takes it up; an answer is the last step of the handler.   *)
(***************************************************************************)
EXTENDS UploadsProps

CONSTANTS Tabs, None

\* A chunk of a file is one piece of it, and the page sends every one.
ASSUME FilesAssumption == /\ Plans # {}
                          /\ \A p \in Plans : Len(p.sha) = p.total /\ 0 .. p.total - 1 \subseteq Indexes
ASSUME NoneAssumption  == None \notin Threads

\* Each tab: where uploadChunked is, the file, upload_id, the chunks it takes for
\* uploaded, the index of its loop, the thread that serves its request, and whether
\* a chunk of this try was refused.
VARIABLE page

all == <<vars, page>>

Waiting == {"init", "instant", "status", "chunk", "complete"}
Fresh(plan) == [at |-> "init", plan |-> plan, id |-> 0, up |-> {}, next |-> 0, by |-> None,
                refused |-> FALSE]
Moved(p, at) == [p EXCEPT !.at = at, !.by = None]
Rest(b) == page[b].at \notin Waiting

ServedBy(t) == {b \in Tabs : page[b].by = t}

----------------------------------------------------------------------------
\* The user picks a file, or tries the same again.
Start(b) ==
  /\ page[b].at = "rest"
  /\ \E plan \in Plans : page' = [page EXCEPT ![b] = Fresh(plan)]
  /\ UNCHANGED vars
Retry(b) ==
  /\ page[b].at = "failed"
  /\ page' = [page EXCEPT ![b] = Fresh(page[b].plan)]
  /\ UNCHANGED vars

\* The request of p, and where its handler begins.
RequestOf(p) == CASE p.at = "init"  -> [op |-> "init", plan |-> p.plan]
                  [] p.at = "chunk" -> [op |-> "chunk", id |-> p.id, index |-> p.next,
                                        piece |-> p.plan.sha[p.next + 1]]
                  [] OTHER          -> [op |-> "complete", id |-> p.id]

TakeUp(b) ==
  /\ page[b].at \in {"init", "chunk", "complete"} /\ page[b].by = None
  /\ \E t \in Threads :
       /\ At(t, "idle")
       /\ req'  = [req EXCEPT ![t] = RequestOf(page[b])]
       /\ pc'   = [pc EXCEPT ![t] = IF page[b].at = "init" THEN "parent" ELSE "session"]
       /\ page' = [page EXCEPT ![b].by = t]
  /\ UNCHANGED <<tables, disk, work, bounds>>

----------------------------------------------------------------------------
\* Faulty: the loop leaves out every other chunk.
SendEvenFrom(p, i) ==
  LET missing == {j \in i .. p.plan.total - 1 : j \notin p.up /\ j % 2 = 0} IN
  IF missing = {} THEN Moved(p, "complete")
                  ELSE [Moved(p, "chunk") EXCEPT !.next = CHOOSE j \in missing : \A k \in missing : j <= k]

\* The loop goes on at index i: the chunks that are uploaded are skipped.
SendFrom(p, i) ==
  LET missing == {j \in i .. p.plan.total - 1 : j \notin p.up} IN
  IF missing = {} THEN Moved(p, "complete")
                  ELSE [Moved(p, "chunk") EXCEPT !.next = CHOOSE j \in missing : \A k \in missing : j <= k]

\* What init answers with: the session found, the newest; or the one inserted.
Newest(S) == CHOOSE s \in S : \A r \in S : r <= s
SessionGiven(t) == IF At(t, "insert") THEN Len(sessions) + 1 ELSE Newest(Resumable(PlanOf(t)))

\* Faulty: the answer to complete is not looked at, as those to chunks.
AfterAny(p, t, ok) ==
  CASE p.at = "init"     -> IF ok /\ At(t, "object") THEN Moved(p, "instant")
                            ELSE IF ok /\ pc[t] \in {"find", "insert"}
                            THEN [Moved(p, "status") EXCEPT !.id = SessionGiven(t)]
                            ELSE Moved(p, "failed")
    [] p.at = "chunk"    -> SendFrom([p EXCEPT !.refused = @ \/ ~(ok /\ At(t, "record"))], p.next + 1)
    [] p.at = "complete" -> Moved(p, "done")

\* Where p goes with the answer that the step of t is: every answer that does not come
\* from the last statement of a handler, or is a failure's (ok is FALSE), is an error.
\* The answer to a chunk is not looked at.
After(p, t, ok) ==
  CASE p.at = "init"     -> IF ok /\ At(t, "object") THEN Moved(p, "instant")
                            ELSE IF ok /\ pc[t] \in {"find", "insert"}
                            THEN [Moved(p, "status") EXCEPT !.id = SessionGiven(t)]
                            ELSE Moved(p, "failed")
    [] p.at = "chunk"    -> SendFrom([p EXCEPT !.refused = @ \/ ~(ok /\ At(t, "record"))], p.next + 1)
    [] p.at = "complete" -> Moved(p, IF ok /\ At(t, "rmdir") THEN "done" ELSE "failed")

Answer(t, ok) ==
  page' = [b \in Tabs |-> IF b \in ServedBy(t) /\ pc'[t] = "idle" THEN After(page[b], t, ok) ELSE page[b]]

Serve(t)   == Step(t) /\ Answer(t, TRUE)
Failing(t) == Fail(t) /\ Answer(t, FALSE)

Misled(t)  == Mislead(t) /\ UNCHANGED page

\* GET /api/uploads/status: two SELECTs that change nothing.  What init listed is
\* among what status lists, as no row of upload_chunks is ever deleted.
Listed(b, chunks) == page' = [page EXCEPT ![b] = SendFrom([@ EXCEPT !.up = chunks], 0)]
Status(b) ==
  /\ page[b].at = "status"
  /\ Listed(b, {c[2] : c \in ChunkRowsOf(page[b].id)})
  /\ UNCHANGED vars

\* The second SELECT is misled: no chunk is listed.
StatusMisled(b) ==
  /\ page[b].at = "status" /\ ChunkRowsOf(page[b].id) # {}
  /\ Listed(b, {})
  /\ faults < MaxFaults /\ faults' = faults + 1 /\ misled' = TRUE
  /\ UNCHANGED <<tables, disk, handler, issued, others>>

\* POST /api/files/instant, whose statements FileStore has.
Instant(b) ==
  /\ page[b].at = "instant"
  /\ LET p == page[b].plan IN
     IF ParentExists(p.parent) /\ ~NameTaken(p.parent, p.name) /\ ObjectWith(p.sha)
     THEN /\ AddRow([parent |-> p.parent, name |-> p.name, content |-> p.sha, deleted |-> FALSE, from |-> 0])
          /\ page' = [page EXCEPT ![b] = Moved(@, "done")]
     ELSE /\ page' = [page EXCEPT ![b] = Moved(@, "failed")]
          /\ UNCHANGED <<rows, nextRow>>
  /\ UNCHANGED <<folder, sessions, chunkRows, disk, handler, bounds>>

----------------------------------------------------------------------------
\* Faulty: the page goes on waiting for the handler.
LoseAndWait(b) ==
  /\ ~Rest(b) /\ faults < MaxFaults /\ faults' = faults + 1
  /\ page' = [page EXCEPT ![b].at = "failed"]
  /\ UNCHANGED <<tables, disk, handler, misled, issued, others>>

\* The connection is lost: fetch rejects, and the handler, if there is one, goes on.
Lose(b) ==
  /\ ~Rest(b) /\ faults < MaxFaults /\ faults' = faults + 1
  /\ page' = [page EXCEPT ![b] = Moved(@, "failed")]
  /\ UNCHANGED <<tables, disk, handler, misled, issued, others>>

\* The server dies, and with it what it was asked.
Down ==
  /\ Crash
  /\ page' = [b \in Tabs |-> IF page[b].by = None THEN page[b] ELSE Moved(page[b], "failed")]

\* A listed chunk was cut short, and nobody is writing it again.
LeftTorn(k) == /\ temp[k] = Torn /\ k \in chunkRows
               /\ \A t \in Threads : At(t, "fill") => ChunkOf(t) # k

\* A day passes: of the sessions that can expire, the bound takes those that only
\* expiry ends.
Overnight ==
  /\ \E s \in DOMAIN sessions :
       /\ ~sessions[s].expired /\ \E k \in DOMAIN temp : k[1] = s /\ LeftTorn(k)
       /\ sessions' = [sessions EXCEPT ![s].expired = TRUE]
  /\ UNCHANGED <<folder, rows, nextRow, chunkRows, disk, handler, bounds, page>>

AllDone == /\ \A b \in Tabs : page[b].at = "done"
           /\ \A t \in Threads : At(t, "idle")

PageInit == Init /\ page = [b \in Tabs |-> [Fresh(CHOOSE p \in Plans : TRUE) EXCEPT !.at = "rest"]]

PageNext == \/ \E b \in Tabs : Start(b) \/ Retry(b) \/ TakeUp(b) \/ Status(b) \/ StatusMisled(b)
                               \/ Instant(b) \/ Lose(b)
            \/ \E t \in Threads : Serve(t) \/ Failing(t) \/ Misled(t)
            \/ Down \/ Overnight
            \/ AllDone /\ UNCHANGED all

\* Threads run, requests that wait are taken up, days pass, and users try again.
PageSpec == /\ PageInit /\ [][PageNext]_all
            /\ \A t \in Threads : WF_all(Serve(t))
            /\ \A b \in Tabs : /\ SF_all(TakeUp(b))
                               /\ WF_all(Status(b) \/ Instant(b) \/ Start(b) \/ Retry(b))
            /\ WF_all(Overnight)

----------------------------------------------------------------------------
Page == [at : Waiting \cup {"rest", "failed", "done"}, plan : Plans, id : Nat, up : SUBSET Nat,
         next : Nat, by : Threads \cup {None}, refused : BOOLEAN]

\* The types, and that who serves a page serves the request it waits for.
PageTypeOK ==
  /\ TypeOK
  /\ page \in [Tabs -> Page]
  /\ \A b \in Tabs :
       /\ page[b].id <= Len(sessions) /\ page[b].next < page[b].plan.total
       /\ page[b].by # None => /\ page[b].at \in {"init", "chunk", "complete"}
                               /\ req[page[b].by] = RequestOf(page[b])
  /\ \A b, c \in Tabs : page[b].by = page[c].by /\ page[b].by # None => b = c

Filed(p) == \E i \in DOMAIN rows : /\ rows[i].name = p.name /\ rows[i].parent = p.parent
                                   /\ rows[i].content = p.sha /\ ~rows[i].deleted

\* A page that says an upload is complete says so of a file that is there, with the
\* content that was picked, whatever answers, chunks and connections were lost on the
\* way (app.js 446-461).
DoneIsFiled == \A b \in Tabs : page[b].at = "done" => Filed(page[b].plan)

\* A try that no chunk was refused in has all its chunks listed when it asks for
\* completion: those it skipped were sent before, by itself or by another tab.
AllSent ==
  \A b \in Tabs : page[b].at = "complete" /\ ~page[b].refused =>
    \A i \in 0 .. page[b].plan.total - 1 : <<page[b].id, i>> \in chunkRows

\* What a page knows of the session it was given: the plan is its own, what it skips is
\* listed, and what it has sent is, if nothing was refused.
PageKnows(p) ==
  /\ p.at \in {"status", "chunk", "complete"} => p.id \in DOMAIN sessions /\ sessions[p.id].plan = p.plan
  /\ p.at = "chunk" => /\ \A i \in p.up : <<p.id, i>> \in chunkRows
                       /\ p.refused \/ \A i \in 0 .. p.next - 1 : <<p.id, i>> \in chunkRows

\* The inductive invariant: also, a handler that is about to close a session has filed
\* its file, which nobody deletes here.
PageInv ==
  /\ UploadInv /\ PageTypeOK /\ DoneIsFiled /\ AllSent
  /\ \A b \in Tabs : PageKnows(page[b])
  /\ \A t \in Threads : pc[t] \in {"mark", "rmdir"} => Filed(PlanOf(t))

\* A user who keeps trying has the file filed in the end, also if a chunk was cut short:
\* then the session has to expire first.
FiledInTheEnd == \A p \in Plans : <>(\E i \in DOMAIN rows : rows[i].name = p.name /\ rows[i].content = p.sha)
============================================================================
