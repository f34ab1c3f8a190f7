--------------------------- MODULE WebClientProps ---------------------------
(***************************************************************************)
(* What the page promises its user, stated about WebClient.                 *)
(***************************************************************************)
EXTENDS WebClient

Functions == {"login", "enter", "restored", "profile", "files", "recycle", "create", "upload",
              "read", "init", "instant", "chunks", "delete", "restore", "purge"}
LoadCalls == {"files", "recycle", "profile", "restored"}
MakeCalls == {"create", "upload", "read", "init", "instant", "chunks"}
Listing   == [user : Users \cup {Nobody}, folder : Folders, items : SUBSET Items]
Holding   == Token \cup {NoToken}
Asking    == Holding \cup [user : Users, nr : {0}] \* a login's only has the user

Asked     == [fn : Functions, token : Asking, folder : Folders, chosen : Folders,
              item : Items \cup {NoItem}, live : BOOLEAN,
              answer : [is : {"waiting", "failed", "ok", "instant"}, items : SUBSET Items,
                        token : Holding]]

\* The type invariant.
TypeOK ==
  /\ {token, stored} \subseteq Holding /\ folder \in Folders /\ stack \in Seq(Folders)
  /\ screen \in {"auth", "app"} /\ {table, bin} \subseteq Listing /\ card \in Users \cup {Nobody}
  /\ InFlight \subseteq Asked
  /\ \A c \in InFlight : /\ c.fn \in MakeCalls \cup {"delete", "restore", "purge"} => c.item \in Items
                         /\ c.fn = "login" => c.token.user \in Users
  /\ DOMAIN files \subseteq Items /\ valid \subseteq Token
  /\ files \in [DOMAIN files -> [user : Users, folder : Folders, deleted : BOOLEAN]]
  /\ {logins, clicks, faults} \subseteq Nat

Settled == faults = 0 /\ calls = EmptyBag /\ screen = "app"

\* When no answer is missing and none was an error, the page shows the folder, the bin and the account
\* of its user: under the heading "current folder" (index.html 134) is the
\* listing of currentFolderId.
ShownIsCurrent ==
  Settled => /\ table.user = token.user /\ table.folder = folder
             /\ bin.user = token.user /\ card = token.user

\* And it shows them as they are: every operation loads what it changed.
ShownIsFresh ==
  Settled => table.items = Active(token.user, folder) /\ bin.items = Deleted(token.user)

\* The breadcrumb (index.html 86) is the way from the top to the current folder.
StackEndsAtFolder == Len(stack) > 0 /\ stack[1] = Top /\ stack[Len(stack)] = folder
BreadcrumbIsPath ==
  faults = 0 => /\ StackEndsAtFolder
                /\ \A k \in 2 .. Len(stack) : stack[k] # Top /\ Parent[stack[k]] = stack[k - 1]

\* After any number of answers in any order, what the page shows is current, fresh,
\* and under its own path: no operation leaves a part of the page behind.
ShownAsItIs == ShownIsCurrent /\ ShownIsFresh /\ BreadcrumbIsPath

\* An upload is for the folder that was open at its click (index.html 103), and
\* so is every other operation.
FiledWhereChosen ==
  \A c \in InFlight :
    c.fn \in {"create", "upload", "instant", "chunks"} => c.folder = c.chosen

\* The workspace is shown to a user who is logged in (app.js 206).
AppNeedsToken == screen = "app" => token # NoToken

----------------------------------------------------------------------------
\* The inductive invariant of a page whose user waits for every answer.

\* Everything but the loads is alone in flight, and of each load there is one.
OneAtATime ==
  /\ calls = SetToBag(InFlight)
  /\ \A c, d \in InFlight : c.fn = d.fn \/ ~({c.fn, d.fn} \subseteq LoadCalls) => c = d

\* What is in flight was sent by the page as it is: nothing it was sent for has
\* changed, unless the session was dropped meanwhile.
SentAsNow(c) ==
  /\ c.live
  /\ c.fn # "login" /\ token # NoToken => c.token = token /\ c.folder = folder /\ c.chosen = folder
  /\ c.fn \notin {"login", "files", "recycle", "profile"} => token # NoToken
  /\ c.fn \in {"login", "enter"} => screen = "auth"
  /\ c.fn = "login" => /\ c.answer \in {Waiting, Failed} \/ c.answer.token # NoToken
                       /\ c.answer.token \in valid \cup {NoToken} \/ faults > 0
  /\ c.fn \in {"read", "init"} \/ (c.fn \in MakeCalls /\ c.answer = Waiting) => c.item \notin DOMAIN files

\* A part of the page that is to be loaded: a call is on its way, or an operation that
\* loads it was carried out.  What a load was answered with is still so.
ToLoad(fn) == \E c \in InFlight : c.fn = fn \/ (c.answer \notin {Waiting, Failed} /\ fn \in Reloads(c.fn))
LoadsRight(fn, items) ==
  \A c \in InFlight : c.fn = fn => c.answer = Waiting \/ (c.answer # Failed /\ c.answer.items = items)

TableInTime == /\ LoadsRight("files", Active(token.user, folder))
               /\ \/ ToLoad("files")
                  \/ /\ table.user = token.user /\ table.folder = folder
                     /\ table.items = Active(token.user, folder)
BinInTime   == /\ LoadsRight("recycle", Deleted(token.user))
               /\ \/ ToLoad("recycle")
                  \/ bin.user = token.user /\ bin.items = Deleted(token.user)

PatientInv ==
  /\ TypeOK /\ OneAtATime
  /\ \A c \in InFlight : SentAsNow(c)
  /\ stored = token /\ AppNeedsToken
  /\ faults = 0 /\ token # NoToken => token \in valid
  /\ BreadcrumbIsPath
  /\ faults = 0 /\ screen = "app" => card = token.user /\ TableInTime /\ BinInTime

\* Only a click, or the check of this very session that init makes (app.js 708),
\* drops it: not the failure of another request, and not the check of a session
\* the page held before.
DroppedForCause ==
  [][token # NoToken /\ token' = NoToken
       => \/ clicks' # clicks
          \/ \E c \in InFlight : c.fn = "restored" /\ c.token = token /\ c.answer = Failed]_vars

\* A page at rest has the folder's listing after every click: no handler loads
\* for ever.
Settles == calls # EmptyBag ~> calls = EmptyBag
============================================================================
