----------------------------- MODULE WebClient -----------------------------
(***************************************************************************)
(* The page of web/app.js in one browser tab, connected to a server.        *)
(*                                                                          *)
(* A click runs to its first await; what is behind an await runs when its   *)
(* answer arrives, with whatever `state` holds by then.  Each request in    *)
(* flight is a call; the server serves calls, and answers arrive, in any    *)
(* order.  The files, the recycle bin and the sessions of the server are    *)
(* as simple as its answers need; FileStore and Uploads have the rest.  The *)
(* showcase mode, which asks no server, the downloads and the layout are    *)
(* left out.                                                                *)
(***************************************************************************)
EXTENDS Integers, Sequences, Bags

CONSTANTS Users,
          Items,     \* the files and new folders users make, each made once
          Folders,   \* the folders there are from the start; 0 is the top
          Parent,    \* of every folder but the top
          Owner,
          Chunking,  \* "chunk-mode" may be ticked
          Patient,   \* the user waits for every answer before the next click
          MaxClicks, \* bound: clicks and reloads of the page
          MaxFaults  \* bound: failed requests and sessions that expire

Top == 0

ASSUME FoldersAssumption == /\ Top \in Folders
                            /\ Parent \in [Folders \ {Top} -> Folders]
                            /\ Owner \in [Folders \ {Top} -> Users]
ASSUME SwitchesAssumption == {Chunking, Patient} \subseteq BOOLEAN
ASSUME BoundsAssumption   == {MaxClicks, MaxFaults} \subseteq Nat

VARIABLES token, folder, stack, \* state: token, currentFolderId, folderStack
          stored,               \* localStorage: the token
          screen, table, bin, card, \* what the page shows
          calls,                \* the requests in flight: a bag
          files,                \* the server: the items of each user
          valid, logins,        \* the server: its sessions, and how many it made
          clicks, faults        \* bounds

held   == <<token, folder, stack, stored>>
page   == <<screen, table, bin, card>>
server == <<files, valid, logins>>
vars   == <<held, page, calls, server, clicks, faults>>

Nobody  == "nobody"
NoItem  == "no item"
Token   == [user : Users, nr : Nat \ {0}]
NoToken == [user |-> Nobody, nr |-> 0]

\* A listing on the page: whose, of which folder, with which items.
Blank == [user |-> Nobody, folder |-> Top, items |-> {}]

Answer(is, items, tok) == [is |-> is, items |-> items, token |-> tok]
Waiting == Answer("waiting", {}, NoToken)
Failed  == Answer("failed", {}, NoToken)
Done    == Answer("ok", {}, NoToken)

\* live: the page that made the call is still there.
Call(fn, tok, f, item) == [fn |-> fn, token |-> tok, folder |-> f, chosen |-> f, item |-> item,
                           live |-> TRUE, answer |-> Waiting]

\* Faulty: the recycle bin is not loaded again; a listing loads itself again.
FilesOnly(fn) == IF fn \in {"delete", "restore"} THEN {"files", "profile"} ELSE {}
ForEver(fn)   == IF fn = "files" THEN {"files"} ELSE {}

\* What an operation that has succeeded loads again.
Reloads(fn) == CASE fn \in {"upload", "instant", "chunks"} -> {"files", "profile"}
                 [] fn = "create"                          -> {"files"}
                 [] fn \in {"delete", "restore"}           -> {"files", "recycle", "profile"}
                 [] fn = "purge"                           -> {"recycle", "profile"}
                 [] OTHER                                  -> {}

\* The loads by a page with this token and this folder; none without a token.
Loads(fns, tok, f) == IF tok = NoToken THEN EmptyBag
                      ELSE SetToBag({Call(fn, tok, f, NoItem) : fn \in fns})

One(call)     == SetToBag({call})
Without(call) == calls (-) One(call)
InFlight      == BagToSet(calls)

----------------------------------------------------------------------------
\* Clicks.

Click == /\ clicks < MaxClicks /\ clicks' = clicks + 1
         /\ Patient => calls = EmptyBag
         /\ UNCHANGED <<server, faults>>
InApp == Click /\ screen = "app"

Send(fn, item) == calls' = calls (+) One(Call(fn, token, folder, item))

Login ==
  /\ Click /\ screen = "auth"
  /\ \E u \in Users : calls' = calls (+) One(Call("login", [user |-> u, nr |-> 0], Top, NoItem))
  /\ UNCHANGED <<held, page>>

\* Faulty: the screen stays.
KeepScreen == /\ token' = NoToken /\ folder' = Top /\ stack' = <<Top>>
              /\ stored' = NoToken
              /\ UNCHANGED <<screen, table, bin, card>>

\* logout(): what the page showed stays behind the other screen.
ForgetUser == /\ token' = NoToken /\ folder' = Top /\ stack' = <<Top>>
              /\ stored' = NoToken /\ screen' = "auth"
              /\ UNCHANGED <<table, bin, card>>
Logout == InApp /\ ForgetUser /\ UNCHANGED calls

GoTo(f, path) == folder' = f /\ stack' = path

\* openFolder, by a button of the table; backFolder.
OpenFolder ==
  /\ InApp
  /\ \E f \in Folders \ {Top} :
       /\ table.user = Owner[f] /\ table.folder = Parent[f]
       /\ GoTo(f, Append(stack, f))
  /\ calls' = calls (+) Loads({"files"}, token, folder')
  /\ UNCHANGED <<token, stored, page>>
BackFolder ==
  /\ InApp /\ Len(stack) > 1
  /\ LET path == SubSeq(stack, 1, Len(stack) - 1) IN GoTo(path[Len(path)], path)
  /\ calls' = calls (+) Loads({"files"}, token, folder')
  /\ UNCHANGED <<token, stored, page>>

\* The refresh buttons; showing the recycle bin loads it, too.
Refresh == /\ InApp
           /\ \E fn \in {"files", "recycle"} : calls' = calls (+) Loads({fn}, token, folder)
           /\ UNCHANGED <<held, page>>

Fresh(item) == /\ item \notin DOMAIN files
               /\ \A c \in InFlight : c.item # item

\* createFolder, uploadDirect, instantUpload: the parent is the folder of the
\* click.  uploadChunked first reads the file.
Make == /\ InApp
        /\ \E item \in Items :
             /\ Fresh(item)
             /\ \/ \E fn \in {"create", "upload", "instant"} : Send(fn, item)
                \/ Chunking /\ Send("read", item)
        /\ UNCHANGED <<held, page>>

Remove == /\ InApp
          /\ \/ \E item \in table.items : Send("delete", item)
             \/ \E item \in bin.items : \E fn \in {"restore", "purge"} : Send(fn, item)
          /\ UNCHANGED <<held, page>>

Dead(c) == [c EXCEPT !.live = FALSE]

\* The page is loaded again: init().  What the server has been asked it may still do.
Reload ==
  /\ Click
  /\ token' = stored /\ folder' = Top /\ stack' = <<Top>>
  /\ screen' = IF stored = NoToken THEN "auth" ELSE "app"
  /\ table' = Blank /\ bin' = Blank
  /\ card' = stored.user
  /\ calls' = BagOfAll(Dead, calls)
              (+) Loads({"files", "recycle", "restored"}, stored, Top)
  /\ UNCHANGED stored

----------------------------------------------------------------------------
\* The server.

Active(u, f) == {i \in DOMAIN files : files[i] = [user |-> u, folder |-> f, deleted |-> FALSE]}
Deleted(u)   == {i \in DOMAIN files : files[i].user = u /\ files[i].deleted}
Has(u, item, deleted) == /\ item \in DOMAIN files
                         /\ files[item].user = u /\ files[item].deleted = deleted

Answers(c, answer) == calls' = Without(c) (+) One([c EXCEPT !.answer = answer])
NewSession(u) == [user |-> u, nr |-> logins + 1]

ServeLogin(c) ==
  /\ c.fn = "login"
  /\ logins' = logins + 1 /\ valid' = valid \cup {NewSession(c.token.user)}
  /\ Answers(c, Answer("ok", {}, NewSession(c.token.user)))
  /\ UNCHANGED files

ServeRead(c, u) ==
  /\ CASE c.fn = "files"   -> Answers(c, Answer("ok", Active(u, c.folder), NoToken))
       [] c.fn = "recycle" -> Answers(c, Answer("ok", Deleted(u), NoToken))
       [] c.fn \in {"profile", "enter", "restored"} -> Answers(c, Done)
       [] c.fn = "init"    -> \/ Answers(c, Answer("instant", {}, NoToken))
                                     \/ Answers(c, Done)
       [] OTHER -> FALSE
  /\ UNCHANGED server

ServeMake(c, u) ==
  /\ c.fn \in {"create", "upload", "instant", "chunks"}
  /\ files' = [k \in DOMAIN files \cup {c.item} |->
                 IF k = c.item THEN [user |-> u, folder |-> c.folder, deleted |-> FALSE]
                 ELSE files[k]]
  /\ Answers(c, Done)
  /\ UNCHANGED <<valid, logins>>

ServeTree(c, u) ==
  LET item == c.item IN
  /\ \/ /\ c.fn = "delete" /\ Has(u, item, FALSE)
        /\ files' = [files EXCEPT ![item].deleted = TRUE]
     \/ /\ c.fn = "restore" /\ Has(u, item, TRUE)
        /\ files' = [files EXCEPT ![item].deleted = FALSE]
     \/ /\ c.fn = "purge" /\ Has(u, item, TRUE)
        /\ files' = [k \in DOMAIN files \ {item} |-> files[k]]
  /\ Answers(c, Done)
  /\ UNCHANGED <<valid, logins>>

\* Without a session, or without the item.
Refused(c) == \/ c.fn # "login" /\ c.token \notin valid
              \/ c.fn = "delete" /\ ~Has(c.token.user, c.item, FALSE)
              \/ c.fn \in {"restore", "purge"} /\ ~Has(c.token.user, c.item, TRUE)

Serve(c) ==
  /\ c.answer = Waiting /\ c.fn # "read"
  /\ \/ /\ Refused(c) \/ c.fn = "login" \* a wrong password
        /\ Answers(c, Failed) /\ UNCHANGED server
     \/ /\ ~Refused(c)
        /\ \/ ServeLogin(c) \/ ServeRead(c, c.token.user)
           \/ ServeMake(c, c.token.user) \/ ServeTree(c, c.token.user)
  /\ UNCHANGED <<held, page, clicks, faults>>

\* The network or the server fails a request, before or after it is served.
Drop == /\ faults < MaxFaults /\ faults' = faults + 1
        /\ \E c \in InFlight : /\ c.answer.is # "failed" /\ c.fn # "read"
                                   /\ Answers(c, Failed)
        /\ UNCHANGED <<held, page, server, clicks>>

\* A session runs out, or Redis forgets it.
Expire == /\ faults < MaxFaults /\ faults' = faults + 1
          /\ \E tok \in valid : valid' = valid \ {tok}
          /\ UNCHANGED <<held, page, calls, files, logins, clicks>>

----------------------------------------------------------------------------
\* An answer arrives, and its handler goes on to the next await or to its end.

Goes(c, more) == calls' = Without(c) (+) more
Ends(c)       == Goes(c, EmptyBag)

\* The token and the user name are set and stored; loadProfile() is next.
LoggedIn(c) ==
  LET tok == c.answer.token IN
  /\ c.fn = "login"
  /\ token' = tok /\ stored' = tok
  /\ Goes(c, Loads({"enter"}, tok, folder))
  /\ UNCHANGED <<folder, stack, page>>

\* enterWorkspace().
Entered(c) == /\ c.fn = "enter"
              /\ screen' = "app" /\ card' = token.user
              /\ Goes(c, Loads({"files", "recycle"}, token, folder))
              /\ UNCHANGED <<held, table, bin>>

Rendered(c) ==
  LET shown == [user |-> c.token.user, folder |-> c.folder,
                items |-> c.answer.items] IN
  /\ \/ c.fn = "files"   /\ table' = shown /\ UNCHANGED <<bin, card>>
     \/ c.fn = "recycle" /\ bin' = [shown EXCEPT !.folder = Top] /\ UNCHANGED <<table, card>>
     \/ c.fn \in {"profile", "restored"} /\ card' = shown.user /\ UNCHANGED <<table, bin>>
  /\ Goes(c, Loads(Reloads(c.fn), token, folder))
  /\ UNCHANGED <<held, screen>>

\* loadFiles(), loadRecycle() and loadProfile() after an operation; without a
\* token, loadProfile() shows the user name there is.
Operated(c) ==
  /\ c.fn \in {"create", "upload", "instant", "chunks", "delete", "restore", "purge"}
  /\ Goes(c, Loads(Reloads(c.fn), token, folder))
  /\ card' = IF token = NoToken /\ c.fn # "create" THEN Nobody ELSE card
  /\ UNCHANGED <<held, screen, table, bin>>

\* uploadChunked: init for the folder of this moment; then the content is there
\* already, and instant upload asks for the folder of this moment again, or the
\* chunks are sent and completed for the session.
ReadForTop(c) == \* faulty: for the top
  /\ c.fn = "read"
  /\ Goes(c, One([Call("init", token, Top, c.item) EXCEPT !.chosen = c.chosen]))
  /\ UNCHANGED <<held, page>>
FileRead(c) ==
  /\ c.fn = "read"
  /\ Goes(c, One([Call("init", token, folder, c.item) EXCEPT !.chosen = c.chosen]))
  /\ UNCHANGED <<held, page>>
SessionOpened(c) ==
  /\ c.fn = "init"
  /\ LET instant == c.answer.is = "instant"
         next == IF instant THEN "instant" ELSE "chunks"
         dest == IF instant THEN folder ELSE c.folder
     IN Goes(c, One([Call(next, token, dest, c.item) EXCEPT !.chosen = c.chosen]))
  /\ UNCHANGED <<held, page>>

\* Faulty: every error logs out.
ErrsOut(c) == Ends(c) /\ ForgetUser

\* Errors are shown; one of init()'s profile logs out.
Errs(c) == /\ Ends(c)
           /\ IF c.fn = "restored" THEN ForgetUser ELSE UNCHANGED <<held, page>>

Arrive(c) ==
  /\ c.answer # Waiting \/ c.fn = "read"
  /\ \/ ~c.live /\ Ends(c) /\ UNCHANGED <<held, page>>
     \/ /\ c.live
        /\ \/ c.answer = Failed /\ Errs(c)
           \/ /\ c.answer # Failed
              /\ \/ LoggedIn(c) \/ Entered(c) \/ Rendered(c) \/ Operated(c)
                 \/ FileRead(c) \/ SessionOpened(c)
  /\ UNCHANGED <<server, clicks, faults>>

Clicks == Login \/ Logout \/ OpenFolder \/ BackFolder \/ Refresh \/ Make \/ Remove \/ Reload

\* The user is done and has every answer.
Quiet == clicks = MaxClicks /\ calls = EmptyBag

\* The page is opened, with the token of an earlier visit or without one.
Init == /\ stored \in {NoToken} \cup {[user |-> u, nr |-> 1] : u \in Users}
        /\ token = stored /\ folder = Top /\ stack = <<Top>>
        /\ screen = (IF stored = NoToken THEN "auth" ELSE "app")
        /\ table = Blank /\ bin = Blank /\ card = stored.user
        /\ calls = Loads({"files", "recycle", "restored"}, stored, Top)
        /\ files = [i \in {} |-> 0]
        /\ valid = {stored} \ {NoToken} /\ logins = stored.nr
        /\ clicks = 0 /\ faults = 0

Next == \/ Clicks \/ Drop \/ Expire
        \/ \E c \in InFlight : Serve(c) \/ Arrive(c)
        \/ Quiet /\ UNCHANGED vars

Spec == Init /\ [][Next]_vars

\* The server answers (FileStore's Answered), and the browser runs handlers.
FairSpec == Spec /\ WF_vars(\E c \in InFlight : Serve(c)) /\ WF_vars(\E c \in InFlight : Arrive(c))
============================================================================
