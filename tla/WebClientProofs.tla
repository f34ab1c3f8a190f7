-------------------------- MODULE WebClientProofs --------------------------
(***************************************************************************)
(* Proofs about WebClient, for any users, folders, items, clicks and faults. *)
(* For a user who waits, everything but the loads is alone in flight, so    *)
(* what an answer finds is what its click left; PatientInv says the rest.   *)
(***************************************************************************)
EXTENDS WebClientProps, SequenceTheorems, TLAPS

----------------------------------------------------------------------------
\* Bags whose elements are there once.
LEMMA BagDomains ==
  ASSUME NEW A, NEW B
  PROVE  /\ BagToSet(SetToBag(A)) = A
         /\ BagToSet(A (+) B) = BagToSet(A) \cup BagToSet(B)
         /\ BagToSet(A (-) B) \subseteq BagToSet(A)
  BY DEF BagToSet, SetToBag, (+), (-)

LEMMA NoCalls == BagToSet(EmptyBag) = {} /\ EmptyBag = SetToBag({})
  BY DEF BagToSet, SetToBag, EmptyBag

LEMMA TakenOut ==
  ASSUME NEW S, NEW c \in S
  PROVE  SetToBag(S) (-) SetToBag({c}) = SetToBag(S \ {c})
  BY DEF SetToBag, (-)

LEMMA PutTogether ==
  ASSUME NEW A, NEW B, A \cap B = {}
  PROVE  SetToBag(A) (+) SetToBag(B) = SetToBag(A \cup B)
  BY DEF SetToBag, (+)

----------------------------------------------------------------------------
\* Types.
ItemCalls == MakeCalls \cup {"delete", "restore", "purge"}
CallOK(c) == /\ c \in Asked
             /\ c.fn \in ItemCalls => c.item \in Items
             /\ c.fn = "login" => c.token.user \in Users
RestOK == /\ {token, stored} \subseteq Holding /\ folder \in Folders /\ stack \in Seq(Folders)
          /\ screen \in {"auth", "app"} /\ {table, bin} \subseteq Listing /\ card \in Users \cup {Nobody}
          /\ DOMAIN files \subseteq Items /\ valid \subseteq Token
          /\ files \in [DOMAIN files -> [user : Users, folder : Folders, deleted : BOOLEAN]]
          /\ {logins, clicks, faults} \subseteq Nat

LEMMA TypeParts == TypeOK <=> RestOK /\ \A c \in InFlight : CallOK(c)
  BY DEF TypeOK, RestOK, CallOK, ItemCalls

LEMMA TypesNext ==
  ASSUME RestOK', \A c \in InFlight' : CallOK(c)
  PROVE  TypeOK'
  BY DEF TypeOK, RestOK, CallOK, ItemCalls

LEMMA CallTyped ==
  ASSUME NEW fn \in Functions, NEW tok \in Asking, NEW f \in Folders, NEW item \in Items \cup {NoItem},
         fn \in ItemCalls => item \in Items, fn = "login" => tok.user \in Users
  PROVE  LET c == Call(fn, tok, f, item) IN
         /\ CallOK(c)
         /\ c.fn = fn /\ c.token = tok /\ c.folder = f /\ c.chosen = f /\ c.item = item
         /\ c.live /\ c.answer = Waiting
  <1>1. Waiting \in [is : {"waiting", "failed", "ok", "instant"}, items : SUBSET Items, token : Holding]
    BY DEF Waiting, Answer, Holding
  <1>2. Call(fn, tok, f, item) \in Asked
    BY <1>1 DEF Call, Asked
  <1> QED BY <1>2 DEF CallOK, Call

\* What a page with a token loads.
LEMMA LoadsTyped ==
  ASSUME NEW fns \in SUBSET (LoadCalls \cup {"enter"}), NEW tok \in Holding, NEW f \in Folders
  PROVE  \A c \in BagToSet(Loads(fns, tok, f)) :
           /\ CallOK(c) /\ tok # NoToken
           /\ c.fn \in fns /\ c.token = tok /\ c.folder = f /\ c.chosen = f /\ c.live
           /\ c.answer = Waiting /\ c = Call(c.fn, tok, f, NoItem)
  <1> DEFINE B == Loads(fns, tok, f)
  <1>1. B = IF tok = NoToken THEN SetToBag({}) ELSE SetToBag({Call(fn, tok, f, NoItem) : fn \in fns})
    BY NoCalls DEF Loads
  <1>2. ASSUME NEW c \in BagToSet(B)
        PROVE  tok # NoToken /\ \E fn \in fns : c = Call(fn, tok, f, NoItem)
    <2>1. BagToSet(B) = IF tok = NoToken THEN {} ELSE {Call(fn, tok, f, NoItem) : fn \in fns}
      <3>1. CASE tok = NoToken
        BY <1>1, <3>1, BagDomains
      <3>2. CASE tok # NoToken
        BY <1>1, <3>2, BagDomains
      <3> QED BY <3>1, <3>2
    <2> QED BY <1>2, <2>1
  <1>3. ASSUME NEW fn \in fns, NEW c, c = Call(fn, tok, f, NoItem)
        PROVE  /\ CallOK(c) /\ c.fn = fn /\ c.token = tok /\ c.folder = f /\ c.chosen = f
               /\ c.live /\ c.answer = Waiting
    <2>1. fn \in Functions /\ fn \notin ItemCalls /\ fn # "login"
      BY DEF LoadCalls, Functions, ItemCalls, MakeCalls
    <2>2. tok \in Asking
      BY DEF Asking
    <2>3. NoItem \in Items \cup {NoItem}
      OBVIOUS
    <2> QED BY <1>3, <2>1, <2>2, <2>3, CallTyped
  <1> HIDE DEF B
  <1>4. ASSUME NEW c \in BagToSet(B)
        PROVE  /\ CallOK(c) /\ tok # NoToken
               /\ c.fn \in fns /\ c.token = tok /\ c.folder = f /\ c.chosen = f /\ c.live
               /\ c.answer = Waiting /\ c = Call(c.fn, tok, f, NoItem)
    <2>1. PICK fn \in fns : c = Call(fn, tok, f, NoItem)
      BY <1>2, <1>4
    <2>2. /\ CallOK(c) /\ c.fn = fn /\ c.token = tok /\ c.folder = f /\ c.chosen = f
          /\ c.live /\ c.answer = Waiting
      BY <1>3, <2>1
    <2> QED BY <1>2, <1>4, <2>1, <2>2
  <1> QED BY <1>4 DEF B

LEMMA ReloadsAreLoads == \A fn \in Functions : Reloads(fn) \subseteq LoadCalls
  BY DEF Reloads, LoadCalls, Functions

\* An answer that is put into its call.
LEMMA AnswerTyped ==
  ASSUME NEW c, CallOK(c),
         NEW a \in [is : {"waiting", "failed", "ok", "instant"}, items : SUBSET Items, token : Holding]
  PROVE  LET d == [c EXCEPT !.answer = a] IN
         /\ CallOK(d) /\ d.answer = a /\ d.fn = c.fn /\ d.token = c.token /\ d.folder = c.folder
         /\ d.chosen = c.chosen /\ d.item = c.item /\ d.live = c.live
  BY DEF CallOK, Asked

LEMMA InFlightAnswers ==
  ASSUME NEW c \in InFlight, NEW a, Answers(c, a)
  PROVE  InFlight' \subseteq InFlight \cup {[c EXCEPT !.answer = a]}
  BY BagDomains DEF Answers, InFlight, One, Without

LEMMA InFlightGoes ==
  ASSUME NEW c \in InFlight, NEW more, Goes(c, more)
  PROVE  InFlight' \subseteq InFlight \cup BagToSet(more)
  BY BagDomains DEF Goes, InFlight, One, Without

LEMMA InFlightSent ==
  ASSUME NEW more, calls' = calls (+) more
  PROVE  InFlight' = InFlight \cup BagToSet(more)
  BY BagDomains DEF InFlight

----------------------------------------------------------------------------
LEMMA ClickBounds ==
  ASSUME TypeOK, Click
  PROVE  UNCHANGED server /\ UNCHANGED faults /\ clicks' \in Nat /\ clicks' # clicks
  <1>1. clicks \in Nat
    BY DEF TypeOK
  <1>2. clicks' = clicks + 1 /\ UNCHANGED server /\ UNCHANGED faults
    BY DEF Click
  <1> QED BY <1>1, <1>2

\* A click that sends what is of the right type.
LEMMA SentTyped ==
  ASSUME TypeOK, RestOK', NEW more, calls' = calls (+) more,
         \A c \in BagToSet(more) : CallOK(c)
  PROVE  TypeOK'
  <1>1. \A c \in InFlight' : CallOK(c)
    BY TypeParts, InFlightSent
  <1> QED BY <1>1, TypesNext

LEMMA OneTyped ==
  ASSUME NEW c, CallOK(c)
  PROVE  \A d \in BagToSet(One(c)) : d = c /\ CallOK(d)
  <1>1. BagToSet(One(c)) = {c}
    BY BagDomains DEF One
  <1> QED BY <1>1

LEMMA NavigationTyped ==
  ASSUME TypeOK, OpenFolder \/ BackFolder
  PROVE  TypeOK' /\ folder' \in Folders /\ calls' = calls (+) Loads({"files"}, token, folder')
  <1>1. UNCHANGED <<token, stored, page>> /\ UNCHANGED server /\ UNCHANGED faults /\ clicks' \in Nat
    BY ClickBounds DEF OpenFolder, BackFolder, InApp
  <1>2. folder' \in Folders /\ stack' \in Seq(Folders)
    <2>1. CASE OpenFolder
      <3>1. PICK f \in Folders \ {Top} : folder' = f /\ stack' = Append(stack, f)
        BY <2>1 DEF OpenFolder, GoTo
      <3>2. stack \in Seq(Folders)
        BY DEF TypeOK
      <3> QED BY <3>1, <3>2, AppendProperties
    <2>2. CASE BackFolder
      <3> DEFINE path == SubSeq(stack, 1, Len(stack) - 1)
      <3>1. Len(stack) > 1 /\ folder' = path[Len(path)] /\ stack' = path /\ stack \in Seq(Folders)
        BY <2>2 DEF BackFolder, GoTo, TypeOK
      <3>2. path \in Seq(Folders) /\ Len(path) = Len(stack) - 1 /\ Len(path) >= 1
        BY <3>1, LenProperties, SubSeqProperties
      <3> HIDE DEF path
      <3>3. path[Len(path)] \in Folders
        BY <3>2, LenProperties, ElementOfSeq
      <3> QED BY <3>1, <3>2, <3>3
    <2> QED BY <2>1, <2>2
  <1>3. RestOK'
    BY <1>1, <1>2, TypeParts DEF RestOK, page, server
  <1>4. calls' = calls (+) Loads({"files"}, token, folder')
    BY DEF OpenFolder, BackFolder
  <1>5. \A c \in BagToSet(Loads({"files"}, token, folder')) : CallOK(c)
    <2>1. {"files"} \in SUBSET (LoadCalls \cup {"enter"}) /\ token \in Holding
      BY DEF LoadCalls, TypeOK
    <2> QED BY <1>2, <2>1, LoadsTyped
  <1>6. TypeOK'
    BY <1>3, <1>4, <1>5, SentTyped
  <1> QED BY <1>2, <1>4, <1>6

LEMMA ReloadedCalls ==
  ASSUME NEW fns \in SUBSET LoadCalls, TypeOK, Reload,
         fns = {"files", "recycle", "restored"}
  PROVE  InFlight' = {Dead(c) : c \in InFlight} \cup BagToSet(Loads(fns, stored, Top))
  <1>1. BagToSet(BagOfAll(Dead, calls)) = {Dead(c) : c \in InFlight}
    <2>1. DOMAIN BagOfAll(Dead, calls) = {Dead(c) : c \in DOMAIN calls}
      BY DEF BagOfAll, BagToSet
    <2> QED BY <2>1 DEF BagToSet, InFlight
  <1>2. calls' = BagOfAll(Dead, calls) (+) Loads(fns, stored, Top)
    BY DEF Reload
  <1>3. BagToSet(calls') = BagToSet(BagOfAll(Dead, calls)) \cup BagToSet(Loads(fns, stored, Top))
    BY <1>2, BagDomains
  <1> QED BY <1>1, <1>3 DEF InFlight

LEMMA ReloadTyped ==
  ASSUME TypeOK, Reload
  PROVE  TypeOK'
  <1> DEFINE fns == {"files", "recycle", "restored"}
  <1>1. fns \in SUBSET LoadCalls /\ stored \in Holding /\ Top \in Folders
    BY FoldersAssumption DEF LoadCalls, TypeOK
  <1>2. InFlight' = {Dead(c) : c \in InFlight} \cup BagToSet(Loads(fns, stored, Top))
    BY <1>1, ReloadedCalls
  <1>3. \A c \in InFlight : CallOK(Dead(c))
    BY TypeParts DEF CallOK, Asked, Dead
  <1>4. \A c \in BagToSet(Loads(fns, stored, Top)) : CallOK(c)
    <2>1. fns \in SUBSET (LoadCalls \cup {"enter"})
      BY <1>1
    <2> HIDE DEF fns
    <2> QED BY <1>1, <2>1, LoadsTyped
  <1>5. RestOK'
    <2>1. UNCHANGED server /\ UNCHANGED faults /\ clicks' \in Nat
      BY ClickBounds DEF Reload
    <2>2. stored.user \in Users \cup {Nobody}
      BY <1>1 DEF Holding, Token, NoToken
    <2>3. Blank \in Listing
      BY <1>1 DEF Blank, Listing
    <2>4. <<Top>> \in Seq(Folders)
      BY <1>1
    <2> QED BY <1>1, <2>1, <2>2, <2>3, <2>4, TypeParts DEF Reload, RestOK, server
  <1> QED BY <1>2, <1>3, <1>4, <1>5, TypesNext

LEMMA ForgetTyped ==
  ASSUME RestOK, ForgetUser, UNCHANGED <<files, valid, logins>>, {clicks', faults'} \subseteq Nat
  PROVE  RestOK'
  <1>1. <<Top>> \in Seq(Folders) /\ Top \in Folders /\ NoToken \in Holding
    BY FoldersAssumption DEF Holding
  <1> QED BY <1>1 DEF RestOK, ForgetUser

\* The clicks that send one request.
LEMMA AskTyped ==
  ASSUME TypeOK, Login \/ Make \/ Remove
  PROVE  /\ TypeOK' /\ UNCHANGED <<held, page>> /\ UNCHANGED server /\ UNCHANGED faults
         /\ \E c : /\ calls' = calls (+) One(c)
                   /\ c.fn \in Functions \ (LoadCalls \cup {"enter", "init", "chunks"})
                   /\ c.live /\ c.answer = Waiting /\ CallOK(c)
                   /\ c.fn = "login" => screen = "auth"
                   /\ c.fn # "login" => /\ c.token = token /\ c.folder = folder /\ c.chosen = folder
                                        /\ screen = "app"
                   /\ c.fn \in MakeCalls => c.item \notin DOMAIN files
  <1>1. UNCHANGED <<held, page>> /\ UNCHANGED server /\ UNCHANGED faults /\ clicks' \in Nat
    BY ClickBounds DEF Login, Make, Remove, InApp
  <1>2. RestOK'
    BY <1>1, TypeParts DEF RestOK, held, page, server
  <1>3. token \in Asking /\ folder \in Folders /\ Top \in Folders
    BY FoldersAssumption DEF TypeOK, Asking
  <1>4. ASSUME NEW c, calls' = calls (+) One(c), CallOK(c) PROVE TypeOK'
    BY <1>2, <1>4, OneTyped, SentTyped
  <1>5. CASE Login
    <2>1. PICK u \in Users : calls' = calls (+) One(Call("login", [user |-> u, nr |-> 0], Top, NoItem))
      BY <1>5 DEF Login
    <2> DEFINE c == Call("login", [user |-> u, nr |-> 0], Top, NoItem)
    <2>2. [user |-> u, nr |-> 0] \in Asking /\ NoItem \in Items \cup {NoItem}
          /\ "login" \in Functions /\ "login" \notin ItemCalls /\ "login" \notin LoadCalls
          /\ "login" \notin MakeCalls
      BY DEF Asking, Functions, ItemCalls, MakeCalls, LoadCalls
    <2>3. CallOK(c) /\ c.fn = "login" /\ c.live /\ c.answer = Waiting
      BY <1>3, <2>2, CallTyped
    <2>4. calls' = calls (+) One(c) /\ screen = "auth"
      BY <1>5, <2>1 DEF Login
    <2> HIDE DEF c
    <2> QED BY <1>1, <1>4, <2>2, <2>3, <2>4
  <1>6. CASE Make \/ Remove
    <2>1. PICK fn \in {"create", "upload", "instant", "read", "delete", "restore", "purge"}, item \in Items :
            calls' = calls (+) One(Call(fn, token, folder, item)) /\ screen = "app"
            /\ (fn \in MakeCalls => item \notin DOMAIN files)
      <3>1. table.items \subseteq Items /\ bin.items \subseteq Items
        BY DEF TypeOK, Listing
      <3>2. CASE Make
        <4>1. PICK item \in Items : /\ Fresh(item)
                                    /\ \/ \E fn \in {"create", "upload", "instant"} : Send(fn, item)
                                       \/ Send("read", item)
          BY <3>2 DEF Make
        <4>2. PICK fn \in {"create", "upload", "instant", "read"} : Send(fn, item)
          BY <4>1
        <4> QED BY <3>2, <4>1, <4>2 DEF Make, InApp, Send, Fresh
      <3>3. CASE Remove
        <4>1. PICK fn \in {"delete", "restore", "purge"}, item \in Items : Send(fn, item)
          BY <3>1, <3>3 DEF Remove
        <4> QED BY <3>3, <4>1 DEF Remove, InApp, Send, MakeCalls
      <3> QED BY <1>6, <3>2, <3>3
    <2> DEFINE c == Call(fn, token, folder, item)
    <2>2. fn \in Functions \ (LoadCalls \cup {"enter", "init", "chunks"}) /\ fn # "login"
          /\ item \in Items \cup {NoItem}
      BY DEF Functions, LoadCalls
    <2>3. /\ CallOK(c) /\ c.fn = fn /\ c.live /\ c.answer = Waiting /\ c.item = item
          /\ c.token = token /\ c.folder = folder /\ c.chosen = folder
      BY <1>3, <2>2, CallTyped
    <2>4. calls' = calls (+) One(c)
      BY <2>1
    <2> HIDE DEF c
    <2> QED BY <1>1, <1>4, <2>1, <2>2, <2>3, <2>4
  <1> QED BY <1>5, <1>6

LEMMA RefreshTyped ==
  ASSUME TypeOK, Refresh
  PROVE  /\ TypeOK' /\ UNCHANGED <<held, page>> /\ UNCHANGED server /\ UNCHANGED faults
         /\ screen = "app" /\ clicks' # clicks
         /\ \E fn \in {"files", "recycle"} : calls' = calls (+) Loads({fn}, token, folder)
  <1>1. UNCHANGED <<held, page>> /\ UNCHANGED server /\ UNCHANGED faults /\ clicks' \in Nat
        /\ screen = "app" /\ clicks' # clicks
    BY ClickBounds DEF Refresh, InApp
  <1>2. PICK fn \in {"files", "recycle"} : calls' = calls (+) Loads({fn}, token, folder)
    BY DEF Refresh
  <1>3. {fn} \in SUBSET (LoadCalls \cup {"enter"}) /\ token \in Holding /\ folder \in Folders
    BY DEF LoadCalls, TypeOK
  <1>4. RestOK'
    BY <1>1, TypeParts DEF RestOK, held, page, server
  <1>5. TypeOK'
    BY <1>2, <1>3, <1>4, LoadsTyped, SentTyped
  <1> QED BY <1>1, <1>2, <1>5
----------------------------------------------------------------------------
Given == [is : {"waiting", "failed", "ok", "instant"}, items : SUBSET Items, token : Holding]

LEMMA AnswersGiven ==
  /\ {Waiting, Failed, Done, Answer("instant", {}, NoToken)} \subseteq Given
  /\ \A items \in SUBSET Items : Answer("ok", items, NoToken) \in Given
  /\ \A tok \in Token : Answer("ok", {}, tok) \in Given
  /\ Waiting # Failed /\ Done # Waiting /\ Done # Failed
  BY DEF Waiting, Failed, Done, Answer, Given, Holding

LEMMA AnsweredTyped ==
  ASSUME TypeOK, RestOK', NEW c \in InFlight, NEW a \in Given, Answers(c, a)
  PROVE  TypeOK'
  <1>1. CallOK(c) /\ \A d \in InFlight : CallOK(d)
    BY TypeParts
  <1>2. CallOK([c EXCEPT !.answer = a])
    BY <1>1, AnswerTyped DEF Given
  <1>3. \A d \in InFlight' : CallOK(d)
    BY <1>1, <1>2, InFlightAnswers
  <1> QED BY <1>3, TypesNext

LEMMA GoneTyped ==
  ASSUME TypeOK, RestOK', NEW c \in InFlight, NEW more, Goes(c, more),
         \A d \in BagToSet(more) : CallOK(d)
  PROVE  TypeOK'
  <1>1. \A d \in InFlight' : CallOK(d)
    BY TypeParts, InFlightGoes
  <1> QED BY <1>1, TypesNext

\* The server's steps keep the types of what it stores.
LEMMA ServeTypes ==
  ASSUME TypeOK, NEW c \in InFlight, Serve(c)
  PROVE  TypeOK'
  <1>1. CallOK(c) /\ RestOK
    BY TypeParts
  <1>2. UNCHANGED <<held, page, clicks, faults>>
    BY DEF Serve
  <1>3. ASSUME NEW a \in Given, Answers(c, a), {logins'} \subseteq Nat, valid' \subseteq Token,
               DOMAIN files' \subseteq Items,
               files' \in [DOMAIN files' -> [user : Users, folder : Folders, deleted : BOOLEAN]]
        PROVE  TypeOK'
    <2>1. RestOK'
      BY <1>1, <1>2, <1>3 DEF RestOK, held, page
    <2> QED BY <1>3, <2>1, AnsweredTyped
  <1>4. /\ {logins} \subseteq Nat /\ valid \subseteq Token /\ DOMAIN files \subseteq Items
        /\ files \in [DOMAIN files -> [user : Users, folder : Folders, deleted : BOOLEAN]]
    BY <1>1 DEF RestOK
  <1>5. \A u : Active(u, c.folder) \in SUBSET Items /\ Deleted(u) \in SUBSET Items
    BY <1>4 DEF Active, Deleted
  <1>6. CASE Answers(c, Failed) /\ UNCHANGED server
    BY <1>3, <1>4, <1>6, AnswersGiven DEF server
  <1>7. CASE ServeRead(c, c.token.user)
    <2>1. PICK a \in Given : Answers(c, a)
      BY <1>5, <1>7, AnswersGiven DEF ServeRead
    <2> QED BY <1>3, <1>4, <1>7, <2>1 DEF ServeRead, server
  <1>8. CASE ~Refused(c) /\ ServeLogin(c)
    <2>1. NewSession(c.token.user) \in Token /\ logins' \in Nat
      BY <1>1, <1>4, <1>8 DEF ServeLogin, CallOK, NewSession, Token
    <2>2. valid' \subseteq Token /\ UNCHANGED files /\ Answers(c, Answer("ok", {}, NewSession(c.token.user)))
      BY <1>4, <1>8, <2>1 DEF ServeLogin
    <2> QED BY <1>3, <1>4, <2>1, <2>2, AnswersGiven
  <1>9. CASE ~Refused(c) /\ (ServeMake(c, c.token.user) \/ ServeTree(c, c.token.user))
    <2>1. c.fn \in ItemCalls /\ Answers(c, Done) /\ UNCHANGED <<valid, logins>>
      BY <1>9 DEF ServeMake, ServeTree, ItemCalls, MakeCalls
    <2>2. c.item \in Items /\ c.folder \in Folders /\ c.token.user \in Users
      <3>1. c.token \in valid
        BY <1>9, <2>1 DEF Refused, ItemCalls, MakeCalls
      <3> QED BY <1>1, <1>4, <2>1, <3>1 DEF CallOK, Asked, Token
    <2>3. /\ DOMAIN files' \subseteq Items
          /\ files' \in [DOMAIN files' -> [user : Users, folder : Folders, deleted : BOOLEAN]]
      <3>1. CASE ServeMake(c, c.token.user)
        BY <1>4, <2>2, <3>1 DEF ServeMake
      <3>2. CASE ServeTree(c, c.token.user)
        BY <1>4, <2>2, <3>2 DEF ServeTree
      <3> QED BY <1>9, <3>1, <3>2
    <2> QED BY <1>3, <1>4, <2>1, <2>3, AnswersGiven
  <1> QED BY <1>6, <1>7, <1>8, <1>9 DEF Serve

LEMMA FaultTypes ==
  ASSUME TypeOK, Drop \/ Expire
  PROVE  TypeOK'
  <1>1. RestOK'
    BY TypeParts DEF RestOK, Drop, Expire, held, page, server
  <1>2. CASE Drop
    <2>1. PICK c \in InFlight : Answers(c, Failed)
      BY <1>2 DEF Drop
    <2> QED BY <1>1, <2>1, AnswersGiven, AnsweredTyped
  <1>3. CASE Expire
    <2>1. InFlight' = InFlight
      BY <1>3 DEF Expire, InFlight
    <2> QED BY <1>1, <2>1, TypeParts, TypesNext
  <1> QED BY <1>2, <1>3

\* A handler keeps the types of what the page has.
LEMMA ArriveTypes ==
  ASSUME TypeOK, NEW c \in InFlight, Arrive(c)
  PROVE  TypeOK'
  <1>1. CallOK(c) /\ RestOK /\ UNCHANGED <<server, clicks, faults>>
    BY TypeParts DEF Arrive
  <1>2. /\ token \in Holding /\ folder \in Folders /\ card \in Users \cup {Nobody}
        /\ {clicks, faults} \subseteq Nat
    BY <1>1 DEF RestOK
  <1>3. ASSUME UNCHANGED <<held, page>> PROVE RestOK'
    BY <1>1, <1>3 DEF RestOK, held, page, server
  <1>4. BagToSet(EmptyBag) = {}
    BY NoCalls
  <1>5. c.token.user \in Users \cup {Nobody}
    BY <1>1 DEF CallOK, Asked, Asking, Holding, Token, NoToken
  <1>6. c.answer.token \in Holding /\ c.answer.items \in SUBSET Items /\ c.folder \in Folders
        /\ c.chosen \in Folders /\ c.fn \in Functions
    BY <1>1 DEF CallOK, Asked
  <1>7. CASE ~c.live /\ Ends(c) /\ UNCHANGED <<held, page>>
    BY <1>3, <1>4, <1>7, GoneTyped DEF Ends
  <1>8. CASE Errs(c)
    <2>1. RestOK'
      <3>1. CASE ForgetUser
        BY <1>1, <1>2, <3>1, ForgetTyped DEF server
      <3> QED BY <1>3, <1>8, <3>1 DEF Errs
    <2> QED BY <1>4, <1>8, <2>1, GoneTyped DEF Errs, Ends
  <1>9. CASE LoggedIn(c) \/ Entered(c)
    <2>1. PICK fns \in {{"enter"}, {"files", "recycle"}}, tok \in Holding : Goes(c, Loads(fns, tok, folder))
      BY <1>2, <1>6, <1>9 DEF LoggedIn, Entered
    <2>2. \A d \in BagToSet(Loads(fns, tok, folder)) : CallOK(d)
      BY <1>2, LoadsTyped DEF LoadCalls
    <2>3. RestOK'
      <3>1. token.user \in Users \cup {Nobody}
        BY <1>2 DEF Holding, Token, NoToken
      <3> QED BY <1>1, <1>6, <1>9, <3>1 DEF LoggedIn, Entered, RestOK, server, held, page
    <2> QED BY <2>1, <2>2, <2>3, GoneTyped
  <1>10. CASE Rendered(c) \/ Operated(c)
    <2>1. Goes(c, Loads(Reloads(c.fn), token, folder))
      BY <1>10 DEF Rendered, Operated
    <2>2. \A d \in BagToSet(Loads(Reloads(c.fn), token, folder)) : CallOK(d)
      BY <1>2, <1>6, ReloadsAreLoads, LoadsTyped
    <2>3. RestOK'
      <3>1. CASE Rendered(c)
        <4> DEFINE shown == [user |-> c.token.user, folder |-> c.folder, items |-> c.answer.items]
        <4>1. shown \in Listing /\ [shown EXCEPT !.folder = Top] \in Listing
          BY <1>5, <1>6, FoldersAssumption DEF Listing
        <4>2. shown.user = c.token.user
          OBVIOUS
        <4> HIDE DEF shown
        <4>3. UNCHANGED <<held, screen>>
          BY <3>1 DEF Rendered
        <4>4. \/ table' = shown /\ UNCHANGED <<bin, card>>
              \/ bin' = [shown EXCEPT !.folder = Top] /\ UNCHANGED <<table, card>>
              \/ card' = shown.user /\ UNCHANGED <<table, bin>>
          BY <3>1 DEF Rendered, shown
        <4> QED BY <1>1, <1>5, <4>1, <4>2, <4>3, <4>4 DEF RestOK, server, held
      <3>2. CASE Operated(c)
        BY <1>1, <3>2 DEF Operated, RestOK, server, held
      <3> QED BY <1>10, <3>1, <3>2
    <2> QED BY <2>1, <2>2, <2>3, GoneTyped
  <1>11. CASE FileRead(c) \/ SessionOpened(c)
    <2>1. PICK fn \in {"init", "instant", "chunks"}, dest \in Folders :
            Goes(c, One([Call(fn, token, dest, c.item) EXCEPT !.chosen = c.chosen]))
      BY <1>2, <1>6, <1>11 DEF FileRead, SessionOpened
    <2> DEFINE d == [Call(fn, token, dest, c.item) EXCEPT !.chosen = c.chosen]
    <2>2. fn \in Functions /\ fn # "login" /\ token \in Asking /\ c.fn \in ItemCalls
      BY <1>2, <1>11 DEF Functions, FileRead, SessionOpened, ItemCalls, MakeCalls, Asking
    <2>3. CallOK(Call(fn, token, dest, c.item))
      BY <1>1, <2>2, CallTyped DEF CallOK
    <2>4. CallOK(d)
      BY <1>6, <2>3 DEF CallOK, Asked
    <2>5. RestOK' /\ Goes(c, One(d))
      BY <1>3, <1>11, <2>1 DEF FileRead, SessionOpened
    <2> HIDE DEF d
    <2> QED BY <2>4, <2>5, OneTyped, GoneTyped
  <1> QED BY <1>7, <1>8, <1>9, <1>10, <1>11 DEF Arrive

LEMMA ClickTypes ==
  ASSUME TypeOK, Clicks
  PROVE  TypeOK'
  <1>1. CASE Logout
    <2>1. RestOK'
      BY <1>1, TypeParts, ClickBounds, ForgetTyped DEF Logout, InApp, server, RestOK
    <2>2. InFlight' = InFlight
      BY <1>1 DEF Logout, InFlight
    <2> QED BY <2>1, <2>2, TypeParts, TypesNext
  <1> QED BY <1>1, AskTyped, NavigationTyped, RefreshTyped, ReloadTyped DEF Clicks

LEMMA InitTypes ==
  ASSUME Init
  PROVE  TypeOK
  <1> DEFINE fns == {"files", "recycle", "restored"}
  <1>1. stored \in Holding /\ Top \in Folders /\ stored.user \in Users \cup {Nobody} /\ stored.nr \in Nat
    BY FoldersAssumption DEF Init, Holding, Token, NoToken
  <1>2. fns \in SUBSET (LoadCalls \cup {"enter"})
    BY DEF LoadCalls
  <1>3. InFlight = BagToSet(Loads(fns, stored, Top))
    BY DEF Init, InFlight
  <1> HIDE DEF fns
  <1>4. \A c \in InFlight : CallOK(c)
    BY <1>1, <1>2, <1>3, LoadsTyped
  <1>5. RestOK
    <2>1. Blank \in Listing /\ <<Top>> \in Seq(Folders)
      BY <1>1 DEF Blank, Listing
    <2>2. DOMAIN files = {} /\ files \in [DOMAIN files -> [user : Users, folder : Folders, deleted : BOOLEAN]]
      BY DEF Init
    <2> QED BY <1>1, <2>1, <2>2 DEF Init, RestOK, Holding
  <1> QED BY <1>4, <1>5, TypeParts

LEMMA NextTypes ==
  ASSUME TypeOK, [Next]_vars
  PROVE  TypeOK'
  <1>1. CASE UNCHANGED vars
    BY <1>1 DEF vars, held, page, server, TypeOK, InFlight
  <1> QED BY <1>1, ClickTypes, FaultTypes, ServeTypes, ArriveTypes DEF Next

\* The types of the page, of its requests in flight and of the server, whether
\* the user waits or not and whatever fails.
THEOREM WebTypes == Spec => []TypeOK
  <1>1. Init => TypeOK
    BY InitTypes
  <1>2. TypeOK /\ [Next]_vars => TypeOK'
    BY NextTypes
  <1> QED BY <1>1, <1>2, PTL DEF Spec
----------------------------------------------------------------------------
\* What is in flight, for a user who waits.
AloneIn(S) == \A c, d \in S : c.fn = d.fn \/ ~({c.fn, d.fn} \subseteq LoadCalls) => c = d

LEMMA OneParts == OneAtATime <=> calls = SetToBag(InFlight) /\ AloneIn(InFlight)
  BY DEF OneAtATime, AloneIn

LEMMA OneNext ==
  ASSUME calls' = SetToBag(InFlight'), AloneIn(InFlight')
  PROVE  OneAtATime'
  BY DEF OneAtATime, AloneIn

LEMMA AloneThere ==
  ASSUME OneAtATime, NEW c \in InFlight, c.fn \notin LoadCalls
  PROVE  InFlight = {c}
  BY DEF OneAtATime

\* Only what is sent, or put in the place of the one call there was, is in flight.
LEMMA OnlyThese ==
  ASSUME OneAtATime, NEW M, AloneIn(M),
         \/ InFlight = {} /\ calls' = calls (+) SetToBag(M)
         \/ \E c : InFlight = {c} /\ Goes(c, SetToBag(M))
  PROVE  InFlight' = M /\ OneAtATime'
  <1>1. calls' = SetToBag({}) (+) SetToBag(M)
    <2>1. CASE InFlight = {} /\ calls' = calls (+) SetToBag(M)
      BY <2>1, OneParts
    <2>2. CASE \E c : InFlight = {c} /\ Goes(c, SetToBag(M))
      <3>1. PICK c : InFlight = {c} /\ Goes(c, SetToBag(M))
        BY <2>2
      <3>2. calls = SetToBag({c}) /\ c \in {c} /\ {c} \ {c} = {}
        BY <3>1, OneParts
      <3>3. SetToBag({c}) (-) SetToBag({c}) = SetToBag({c} \ {c})
        BY <3>2, TakenOut
      <3> QED BY <3>1, <3>2, <3>3 DEF Goes, Without, One
    <2> QED BY <2>1, <2>2
  <1>2. calls' = SetToBag({} \cup M)
    <2>1. {} \cap M = {}
      OBVIOUS
    <2> QED BY <1>1, <2>1, PutTogether
  <1>3. {} \cup M = M
    OBVIOUS
  <1>4. calls' = SetToBag(M) /\ InFlight' = M
    BY <1>2, <1>3, BagDomains DEF InFlight
  <1> QED BY <1>4, OneNext

\* One call is answered.
LEMMA AnsweredCalls ==
  ASSUME TypeOK, OneAtATime, NEW c \in InFlight, NEW a \in Given, Answers(c, a)
  PROVE  LET d == [c EXCEPT !.answer = a] IN
         /\ InFlight' = (InFlight \ {c}) \cup {d} /\ OneAtATime'
         /\ d.answer = a /\ d.fn = c.fn /\ d.token = c.token /\ d.folder = c.folder
         /\ d.chosen = c.chosen /\ d.item = c.item /\ d.live = c.live
  <1> DEFINE d == [c EXCEPT !.answer = a]
             S == InFlight \ {c}
  <1>1. /\ d.answer = a /\ d.fn = c.fn /\ d.token = c.token /\ d.folder = c.folder
        /\ d.chosen = c.chosen /\ d.item = c.item /\ d.live = c.live
    BY TypeParts, AnswerTyped DEF Given
  <1>2. AloneIn(InFlight) /\ calls = SetToBag(InFlight)
    BY OneParts
  <1>3. calls' = (calls (-) SetToBag({c})) (+) SetToBag({d})
    BY DEF Answers, Without, One
  <1> HIDE DEF d
  <1>4. S \cap {d} = {} /\ AloneIn(S \cup {d})
    BY <1>1, <1>2 DEF AloneIn
  <1>5. calls' = SetToBag(S) (+) SetToBag({d})
    BY <1>2, <1>3, TakenOut
  <1>6. calls' = SetToBag(S \cup {d})
    BY <1>4, <1>5, PutTogether
  <1>7. InFlight' = S \cup {d}
    BY <1>6, BagDomains DEF InFlight
  <1> QED BY <1>1, <1>4, <1>6, <1>7, OneNext DEF d

LEMMA AnsweredCall ==
  ASSUME TypeOK, OneAtATime, NEW c \in InFlight, NEW a \in Given, Answers(c, a)
  PROVE  \E d : /\ InFlight' = (InFlight \ {c}) \cup {d} /\ OneAtATime'
                /\ d.answer = a /\ d.fn = c.fn /\ d.token = c.token /\ d.folder = c.folder
                /\ d.chosen = c.chosen /\ d.item = c.item /\ d.live = c.live
  <1> DEFINE d == [c EXCEPT !.answer = a]
  <1>1. /\ InFlight' = (InFlight \ {c}) \cup {d} /\ OneAtATime'
        /\ d.answer = a /\ d.fn = c.fn /\ d.token = c.token /\ d.folder = c.folder
        /\ d.chosen = c.chosen /\ d.item = c.item /\ d.live = c.live
    BY AnsweredCalls
  <1> HIDE DEF d
  <1> QED BY <1>1

LEMMA EndedCalls ==
  ASSUME OneAtATime, NEW c \in InFlight, Ends(c)
  PROVE  InFlight' = InFlight \ {c} /\ OneAtATime'
  <1> DEFINE S == InFlight \ {c}
  <1>1. AloneIn(InFlight) /\ calls = SetToBag(InFlight)
    BY OneParts
  <1>2. calls' = (calls (-) SetToBag({c})) (+) SetToBag({})
    BY NoCalls DEF Ends, Goes, Without, One
  <1>3. S \cap {} = {} /\ AloneIn(S) /\ S \cup {} = S
    BY <1>1 DEF AloneIn
  <1>4. calls' = SetToBag(S) (+) SetToBag({})
    BY <1>1, <1>2, TakenOut
  <1>5. calls' = SetToBag(S)
    BY <1>3, <1>4, PutTogether
  <1>6. InFlight' = S
    BY <1>5, BagDomains DEF InFlight
  <1> QED BY <1>3, <1>5, <1>6, OneNext

\* What a page sends to load its parts.
LEMMA LoadsAlone ==
  ASSUME NEW fns \in SUBSET (LoadCalls \cup {"enter"}), NEW tok \in Holding, NEW f \in Folders,
         fns \subseteq LoadCalls \/ fns = {"enter"}
  PROVE  LET L == BagToSet(Loads(fns, tok, f)) IN
         /\ Loads(fns, tok, f) = SetToBag(L) /\ AloneIn(L)
         /\ tok # NoToken => \A fn \in fns : \E c \in L : c.fn = fn
  <1> DEFINE L == BagToSet(Loads(fns, tok, f))
             C == {Call(fn, tok, f, NoItem) : fn \in fns}
  <1>1. AloneIn(L)
    <2>1. ASSUME NEW c \in L, NEW d \in L, c.fn = d.fn \/ ~({c.fn, d.fn} \subseteq LoadCalls)
          PROVE  c = d
      <3>1. c.fn \in fns /\ d.fn \in fns
            /\ c = Call(c.fn, tok, f, NoItem) /\ d = Call(d.fn, tok, f, NoItem)
        BY LoadsTyped
      <3> QED BY <2>1, <3>1
    <2> HIDE DEF L
    <2> QED BY <2>1 DEF AloneIn
  <1>2. Loads(fns, tok, f) = SetToBag(L)
    <2>1. Loads(fns, tok, f) = SetToBag({}) \/ Loads(fns, tok, f) = SetToBag(C)
      BY NoCalls DEF Loads
    <2> HIDE DEF C
    <2> QED BY <2>1, BagDomains
  <1>3. ASSUME tok # NoToken, NEW fn \in fns PROVE \E c \in L : c.fn = fn
    <2>1. L = C
      <3>1. Loads(fns, tok, f) = SetToBag(C)
        BY <1>3 DEF Loads
      <3> HIDE DEF C
      <3> QED BY <3>1, BagDomains
    <2>2. Call(fn, tok, f, NoItem) \in L
      BY <2>1
    <2>3. Call(fn, tok, f, NoItem).fn = fn
      BY DEF Call
    <2> QED BY <2>2, <2>3
  <1> QED BY <1>1, <1>2, <1>3

LEMMA LoadsSent ==
  ASSUME NEW fns \in SUBSET (LoadCalls \cup {"enter"}), token' \in Holding, folder' \in Folders,
         "enter" \in fns => screen' = "auth"
  PROVE  \A d \in BagToSet(Loads(fns, token', folder')) :
           SentAsNow(d)' /\ d.fn \in fns /\ d.answer = Waiting
  <1> DEFINE L == BagToSet(Loads(fns, token', folder'))
  <1>1. ASSUME NEW d \in L PROVE SentAsNow(d)' /\ d.fn \in fns /\ d.answer = Waiting
    <2>1. /\ token' # NoToken /\ d.fn \in fns /\ d.token = token' /\ d.folder = folder'
          /\ d.chosen = folder' /\ d.live /\ d.answer = Waiting
      BY LoadsTyped
    <2>2. d.fn \notin MakeCalls \cup {"login"}
      BY <2>1 DEF LoadCalls, MakeCalls
    <2> HIDE DEF L
    <2> QED BY <2>1, <2>2 DEF SentAsNow, MakeCalls
  <1> QED BY <1>1

----------------------------------------------------------------------------
\* What the page shows, against what is in flight and what the server has.
ActiveOf(fs, u, f) == {i \in DOMAIN fs : fs[i] = [user |-> u, folder |-> f, deleted |-> FALSE]}
DeletedOf(fs, u)   == {i \in DOMAIN fs : fs[i].user = u /\ fs[i].deleted}
Coming(S, fn)      == \E c \in S : c.fn = fn \/ (c.answer \notin {Waiting, Failed} /\ fn \in Reloads(c.fn))
Right(S, fn, items) ==
  \A c \in S : c.fn = fn => c.answer = Waiting \/ (c.answer # Failed /\ c.answer.items = items)
Table(S, t, u, f, items) ==
  Right(S, "files", items) /\ (Coming(S, "files") \/ (t.user = u /\ t.folder = f /\ t.items = items))
Bin(S, b, u, items) ==
  Right(S, "recycle", items) /\ (Coming(S, "recycle") \/ (b.user = u /\ b.items = items))
Path(s, f) == /\ Len(s) > 0 /\ s[1] = Top /\ s[Len(s)] = f
              /\ \A k \in 2 .. Len(s) : s[k] # Top /\ Parent[s[k]] = s[k - 1]

LEMMA InTimeParts ==
  /\ TableInTime <=> Table(InFlight, table, token.user, folder, ActiveOf(files, token.user, folder))
  /\ BinInTime <=> Bin(InFlight, bin, token.user, DeletedOf(files, token.user))
  /\ BreadcrumbIsPath <=> (faults = 0 => Path(stack, folder))
  BY DEF TableInTime, BinInTime, Table, Bin, LoadsRight, Right, ToLoad, Coming, Active, ActiveOf,
         Deleted, DeletedOf, BreadcrumbIsPath, StackEndsAtFolder, Path

\* What is left to show of a step.
Held == /\ token' = stored'
        /\ screen' = "app" => token' # NoToken
        /\ faults' = 0 /\ token' # NoToken => token' \in valid'
Shown ==
  faults' = 0 /\ screen' = "app" =>
    /\ card' = token'.user
    /\ Table(InFlight', table', token'.user, folder', ActiveOf(files', token'.user, folder'))
    /\ Bin(InFlight', bin', token'.user, DeletedOf(files', token'.user))

LEMMA PatientNext ==
  ASSUME TypeOK', OneAtATime', \A c \in InFlight' : SentAsNow(c)', Held,
         faults' = 0 => Path(stack', folder'), Shown
  PROVE  PatientInv'
  <1>1. AppNeedsToken' /\ stored' = token'
    BY DEF Held, AppNeedsToken
  <1>2. faults' = 0 /\ token' # NoToken => token' \in valid'
    BY DEF Held
  <1>3. BreadcrumbIsPath'
    BY DEF BreadcrumbIsPath, StackEndsAtFolder, Path
  <1>4. ASSUME faults' = 0, screen' = "app"
        PROVE  card' = token'.user /\ TableInTime' /\ BinInTime'
    BY <1>4 DEF Shown, TableInTime, BinInTime, Table, Bin, LoadsRight, Right, ToLoad, Coming, Active,
                ActiveOf, Deleted, DeletedOf
  <1> QED BY <1>1, <1>2, <1>3, <1>4 DEF PatientInv

LEMMA PatientParts ==
  ASSUME PatientInv
  PROVE  /\ TypeOK /\ OneAtATime /\ \A c \in InFlight : SentAsNow(c)
         /\ stored = token
         /\ screen = "app" => token # NoToken
         /\ faults = 0 /\ token # NoToken => token \in valid
         /\ faults = 0 => Path(stack, folder)
         /\ faults = 0 /\ screen = "app" =>
              /\ card = token.user
              /\ Table(InFlight, table, token.user, folder, ActiveOf(files, token.user, folder))
              /\ Bin(InFlight, bin, token.user, DeletedOf(files, token.user))
  BY InTimeParts DEF PatientInv, AppNeedsToken

LEMMA PathRoot == Path(<<Top>>, Top)
  BY DEF Path
LEMMA LoadsComing ==
  ASSUME NEW fns \in SUBSET LoadCalls, NEW tok \in Holding \ {NoToken}, NEW f \in Folders
  PROVE  LET L == BagToSet(Loads(fns, tok, f)) IN
         \A fn, items : Right(L, fn, items) /\ (fn \in fns => Coming(L, fn))
  <1> DEFINE L == BagToSet(Loads(fns, tok, f))
  <1>1. fns \in SUBSET (LoadCalls \cup {"enter"}) /\ tok \in Holding /\ tok # NoToken
    OBVIOUS
  <1>2. ASSUME NEW c \in L PROVE c.answer = Waiting
    BY <1>1, LoadsTyped
  <1>3. ASSUME NEW fn \in fns PROVE \E c \in L : c.fn = fn
    BY <1>1, LoadsAlone
  <1> HIDE DEF L
  <1>4. \A fn, items : Right(L, fn, items) /\ (fn \in fns => Coming(L, fn))
    BY <1>2, <1>3 DEF Right, Coming
  <1> QED BY <1>4 DEF L

\* A step after which only fresh loads are in flight.
LEMMA LoadedPage ==
  ASSUME TypeOK', OneAtATime, NEW fns \in SUBSET (LoadCalls \cup {"enter"}),
         fns \subseteq LoadCalls \/ fns = {"enter"}, "enter" \in fns => screen' = "auth",
         \/ InFlight = {} /\ calls' = calls (+) Loads(fns, token', folder')
         \/ \E c : InFlight = {c} /\ Goes(c, Loads(fns, token', folder'))
  PROVE  /\ OneAtATime' /\ \A c \in InFlight' : SentAsNow(c)'
         /\ token' # NoToken /\ fns \subseteq LoadCalls
              => \A fn, items : Right(InFlight', fn, items) /\ (fn \in fns => Coming(InFlight', fn))
  <1> DEFINE B == Loads(fns, token', folder')
             M == BagToSet(B)
  <1>1. token' \in Holding /\ folder' \in Folders
    BY DEF TypeOK
  <1>2. B = SetToBag(M) /\ AloneIn(M)
    BY <1>1, LoadsAlone
  <1>3. \A d \in M : SentAsNow(d)'
    BY <1>1, LoadsSent
  <1>4. ASSUME token' # NoToken, fns \subseteq LoadCalls
        PROVE  \A fn, items : Right(M, fn, items) /\ (fn \in fns => Coming(M, fn))
    <2>1. fns \in SUBSET LoadCalls /\ token' \in Holding \ {NoToken}
      BY <1>1, <1>4
    <2> QED BY <1>1, <2>1, LoadsComing
  <1>5. \/ InFlight = {} /\ calls' = calls (+) B
        \/ \E c : InFlight = {c} /\ Goes(c, B)
    OBVIOUS
  <1> HIDE DEF M, B
  <1>6. InFlight' = M /\ OneAtATime'
    BY <1>2, <1>5, OnlyThese
  <1> QED BY <1>3, <1>4, <1>6

LEMMA NothingInFlight ==
  ASSUME Patient, PatientInv, Click
  PROVE  InFlight = {} /\ calls = EmptyBag
  BY NoCalls DEF Click, InFlight

\* Nothing is in flight, and so the page has what there is.
LEMMA RestingPage ==
  ASSUME PatientInv, InFlight = {}, faults = 0, screen = "app"
  PROVE  /\ card = token.user
         /\ table.user = token.user /\ table.folder = folder
         /\ table.items = ActiveOf(files, token.user, folder)
         /\ bin.user = token.user /\ bin.items = DeletedOf(files, token.user)
  BY PatientParts DEF Table, Bin, Coming

LEMMA PatientAsks ==
  ASSUME Patient, PatientInv, Login \/ Make \/ Remove
  PROVE  PatientInv'
  <1>1. TypeOK /\ OneAtATime /\ Click
    BY PatientParts DEF Login, Make, Remove, InApp
  <1>2. InFlight = {}
    BY <1>1, NothingInFlight
  <1>3. TypeOK' /\ UNCHANGED <<held, page>> /\ UNCHANGED server /\ UNCHANGED faults
    BY <1>1, AskTyped
  <1>4. PICK c : /\ calls' = calls (+) One(c)
                 /\ c.fn \in Functions \ (LoadCalls \cup {"enter", "init", "chunks"})
                 /\ c.live /\ c.answer = Waiting /\ CallOK(c)
                 /\ c.fn = "login" => screen = "auth"
                 /\ c.fn # "login" => /\ c.token = token /\ c.folder = folder /\ c.chosen = folder
                                      /\ screen = "app"
                 /\ c.fn \in MakeCalls => c.item \notin DOMAIN files
    BY <1>1, AskTyped
  <1>5. InFlight' = {c} /\ OneAtATime'
    <2>1. AloneIn({c})
      BY DEF AloneIn
    <2> QED BY <1>1, <1>2, <1>4, <2>1, OnlyThese DEF One
  <1>6. SentAsNow(c)'
    <2>1. c.fn # "login" => token # NoToken
      BY <1>4, PatientParts
    <2>2. Waiting.token = NoToken
      BY DEF Waiting, Answer
    <2>3. token' = token /\ folder' = folder /\ screen' = screen /\ files' = files /\ valid' = valid
      BY <1>3 DEF held, page, server
    <2> QED BY <1>4, <2>1, <2>2, <2>3 DEF SentAsNow, MakeCalls
  <1>7. Held /\ (faults' = 0 => Path(stack', folder'))
    BY <1>3, PatientParts DEF Held, held, page, server
  <1>8. Shown
    <2>1. SUFFICES ASSUME faults' = 0, screen' = "app"
                   PROVE  /\ card' = token'.user
                          /\ Table(InFlight', table', token'.user, folder',
                                   ActiveOf(files', token'.user, folder'))
                          /\ Bin(InFlight', bin', token'.user, DeletedOf(files', token'.user))
      BY DEF Shown
    <2>2. /\ token' = token /\ folder' = folder /\ files' = files /\ table' = table /\ bin' = bin
          /\ card' = card /\ faults = 0 /\ screen = "app"
      BY <1>3, <2>1 DEF held, page, server
    <2>3. c.fn # "files" /\ c.fn # "recycle"
      BY <1>4 DEF LoadCalls
    <2> QED BY <1>2, <1>5, <2>2, <2>3, RestingPage DEF Table, Bin, Right
  <1> QED BY <1>3, <1>5, <1>6, <1>7, <1>8, PatientNext

LEMMA PatientLogsOut ==
  ASSUME Patient, PatientInv, Logout
  PROVE  PatientInv'
  <1>1. TypeOK /\ OneAtATime /\ Click /\ TypeOK'
    BY PatientParts, ClickTypes DEF Logout, InApp, Clicks
  <1>2. InFlight = {} /\ InFlight' = {} /\ OneAtATime'
    <2>1. InFlight = {} /\ calls' = calls
      BY <1>1, NothingInFlight DEF Logout
    <2> QED BY <1>1, <2>1, OneParts, OneNext DEF InFlight
  <1>3. Held /\ Shown /\ Path(stack', folder')
    BY PathRoot DEF Logout, ForgetUser, Held, Shown
  <1> QED BY <1>1, <1>2, <1>3, PatientNext

\* The way to a folder that the table lists, and the way back.
LEMMA PathOpens ==
  ASSUME NEW s \in Seq(Folders), NEW f \in Folders \ {Top}, Path(s, Parent[f])
  PROVE  Path(Append(s, f), f)
  <1> DEFINE t == Append(s, f)
  <1>1. /\ Len(s) \in Nat /\ Len(t) = Len(s) + 1 /\ t[Len(s) + 1] = f
        /\ \A k \in 1 .. Len(s) : t[k] = s[k]
    BY AppendProperties, LenProperties
  <1> HIDE DEF t
  <1>2. ASSUME NEW k \in 2 .. Len(t) PROVE t[k] # Top /\ Parent[t[k]] = t[k - 1]
    BY <1>1, <1>2 DEF Path
  <1>3. Path(t, f)
    BY <1>1, <1>2 DEF Path
  <1> QED BY <1>3 DEF t

LEMMA PathGoesBack ==
  ASSUME NEW s \in Seq(Folders), Path(s, s[Len(s)]), Len(s) > 1
  PROVE  LET t == SubSeq(s, 1, Len(s) - 1) IN Path(t, t[Len(t)])
  <1> DEFINE t == SubSeq(s, 1, Len(s) - 1)
  <1>1. Len(s) \in Nat /\ Len(t) = Len(s) - 1 /\ \A k \in 1 .. Len(t) : t[k] = s[k]
    BY LenProperties, SubSeqProperties
  <1> HIDE DEF t
  <1>2. Path(t, t[Len(t)])
    BY <1>1 DEF Path
  <1> QED BY <1>2 DEF t

LEMMA PatientMoves ==
  ASSUME Patient, PatientInv, OpenFolder \/ BackFolder \/ Refresh
  PROVE  PatientInv'
  <1>1. TypeOK /\ OneAtATime /\ Click /\ screen = "app"
    BY PatientParts DEF OpenFolder, BackFolder, Refresh, InApp
  <1>2. InFlight = {} /\ UNCHANGED server /\ UNCHANGED faults
    BY <1>1, NothingInFlight, ClickBounds
  <1>3. /\ token' = token /\ UNCHANGED <<stored, page>> /\ TypeOK'
        /\ \E fn \in {"files", "recycle"} : /\ calls' = calls (+) Loads({fn}, token, folder')
                                            /\ fn = "files" \/ folder' = folder
    <2>1. CASE OpenFolder \/ BackFolder
      BY <1>1, <2>1, NavigationTyped DEF OpenFolder, BackFolder
    <2>2. CASE Refresh
      BY <1>1, <2>2, RefreshTyped DEF held
    <2> QED BY <2>1, <2>2
  <1>4. PICK fn \in {"files", "recycle"} : /\ calls' = calls (+) Loads({fn}, token, folder')
                                           /\ fn = "files" \/ folder' = folder
    BY <1>3
  <1>5. token # NoToken
    BY <1>1, PatientParts
  <1>6. /\ OneAtATime' /\ \A c \in InFlight' : SentAsNow(c)'
        /\ \A g, items : Right(InFlight', g, items) /\ (g \in {fn} => Coming(InFlight', g))
    <2>1. {fn} \in SUBSET (LoadCalls \cup {"enter"}) /\ {fn} \subseteq LoadCalls /\ "enter" \notin {fn}
      BY DEF LoadCalls
    <2>2. calls' = calls (+) Loads({fn}, token', folder')
      BY <1>3, <1>4
    <2> QED BY <1>1, <1>2, <1>3, <1>5, <2>1, <2>2, LoadedPage
  <1>7. Held
    BY <1>2, <1>3, <1>5, PatientParts DEF Held, server
  <1>8. ASSUME faults' = 0 PROVE Path(stack', folder')
    <2>1. faults = 0 /\ Path(stack, folder) /\ stack \in Seq(Folders)
      BY <1>1, <1>2, <1>8, PatientParts DEF TypeOK
    <2>2. CASE OpenFolder
      <3>1. PICK f \in Folders \ {Top} : /\ table.folder = Parent[f]
                                         /\ folder' = f /\ stack' = Append(stack, f)
        BY <2>2 DEF OpenFolder, GoTo
      <3>2. folder = Parent[f]
        BY <1>1, <1>2, <2>1, <3>1, RestingPage
      <3> QED BY <2>1, <3>1, <3>2, PathOpens
    <2>3. CASE BackFolder
      <3> DEFINE path == SubSeq(stack, 1, Len(stack) - 1)
      <3>1. Len(stack) > 1 /\ folder' = path[Len(path)] /\ stack' = path
        BY <2>3 DEF BackFolder, GoTo
      <3>2. Path(stack, stack[Len(stack)])
        BY <2>1 DEF Path
      <3>3. Path(path, path[Len(path)])
        BY <2>1, <3>1, <3>2, PathGoesBack
      <3> QED BY <3>1, <3>3
    <2>4. CASE Refresh
      BY <1>1, <2>1, <2>4, RefreshTyped DEF held
    <2> QED BY <2>2, <2>3, <2>4
  <1>9. Shown
    <2>1. SUFFICES ASSUME faults' = 0, screen' = "app"
                   PROVE  /\ card' = token'.user
                          /\ Table(InFlight', table', token'.user, folder',
                                   ActiveOf(files', token'.user, folder'))
                          /\ Bin(InFlight', bin', token'.user, DeletedOf(files', token'.user))
      BY DEF Shown
    <2>2. token' = token /\ files' = files /\ table' = table /\ bin' = bin /\ card' = card /\ faults = 0
      BY <1>2, <1>3, <2>1 DEF page, server
    <2>3. /\ card = token.user /\ table.user = token.user /\ table.folder = folder
          /\ table.items = ActiveOf(files, token.user, folder)
          /\ bin.user = token.user /\ bin.items = DeletedOf(files, token.user)
      BY <1>1, <1>2, <2>2, RestingPage
    <2>4. Bin(InFlight', bin', token'.user, DeletedOf(files', token'.user))
      BY <1>6, <2>2, <2>3 DEF Bin
    <2>5. Table(InFlight', table', token'.user, folder', ActiveOf(files', token'.user, folder'))
      BY <1>4, <1>6, <2>2, <2>3 DEF Table
    <2> QED BY <2>2, <2>3, <2>4, <2>5
  <1> QED BY <1>3, <1>6, <1>7, <1>8, <1>9, PatientNext

LEMMA PatientReloads ==
  ASSUME Patient, PatientInv, Reload
  PROVE  PatientInv'
  <1> DEFINE fns == {"files", "recycle", "restored"}
  <1>1. TypeOK /\ OneAtATime /\ Click /\ TypeOK'
    BY PatientParts, ReloadTyped DEF Reload
  <1>2. InFlight = {} /\ calls = EmptyBag /\ UNCHANGED server /\ UNCHANGED faults
    BY <1>1, NothingInFlight, ClickBounds
  <1>3. token' = stored /\ stored' = stored /\ folder' = Top /\ stack' = <<Top>>
        /\ (screen' = IF stored = NoToken THEN "auth" ELSE "app")
        /\ stored = token /\ card' = stored.user
    BY PatientParts DEF Reload
  <1>4. calls' = calls (+) Loads(fns, token', folder')
    <2>1. calls' = BagOfAll(Dead, calls) (+) Loads(fns, token', folder')
      BY <1>3 DEF Reload
    <2>2. BagOfAll(Dead, calls) = calls
      <3>1. DOMAIN EmptyBag = {} /\ BagToSet(EmptyBag) = {}
        BY NoCalls DEF BagToSet
      <3> QED BY <1>2, <3>1 DEF BagOfAll, EmptyBag, SetToBag
    <2> HIDE DEF fns
    <2> QED BY <2>1, <2>2
  <1>5. /\ OneAtATime' /\ \A c \in InFlight' : SentAsNow(c)'
        /\ token' # NoToken
             => \A g, items : Right(InFlight', g, items) /\ (g \in fns => Coming(InFlight', g))
    <2>1. fns \in SUBSET (LoadCalls \cup {"enter"}) /\ fns \subseteq LoadCalls /\ "enter" \notin fns
      BY DEF LoadCalls
    <2> HIDE DEF fns
    <2> QED BY <1>1, <1>2, <1>4, <2>1, LoadedPage
  <1>6. Held /\ Path(stack', folder')
    BY <1>2, <1>3, PatientParts, PathRoot DEF Held, server
  <1>7. Shown
    BY <1>3, <1>5 DEF Shown, Table, Bin
  <1> HIDE DEF fns
  <1> QED BY <1>1, <1>5, <1>6, <1>7, PatientNext
----------------------------------------------------------------------------
\* The server's steps and the faults.

\* What was sent as the page is now still was, when the page has not changed.
LEMMA StillAsNow ==
  ASSUME NEW c, SentAsNow(c), UNCHANGED <<token, folder, screen>>, UNCHANGED files,
         faults \in Nat, faults' = faults + 1 \/ (faults' = faults /\ valid \subseteq valid')
  PROVE  SentAsNow(c)'
  <1>1. faults > 0 => faults' > 0
    OBVIOUS
  <1>2. faults' > 0 \/ valid \subseteq valid'
    OBVIOUS
  <1> QED BY <1>1, <1>2 DEF SentAsNow

\* The same call, answered.
LEMMA AnsweredAsNow ==
  ASSUME NEW c, NEW d, SentAsNow(c), d.fn = c.fn, d.token = c.token, d.folder = c.folder,
         d.chosen = c.chosen, d.item = c.item, d.live = c.live, d.answer # Waiting,
         c.fn = "login" => d.answer = Failed,
         c.fn \in {"read", "init"} => files' = files,
         UNCHANGED <<token, folder, screen>>
  PROVE  SentAsNow(d)'
  <1>1. Failed.token = NoToken
    BY DEF Failed, Answer
  <1>2. c.fn \in {"read", "init"} => c.item \notin DOMAIN files'
    BY DEF SentAsNow
  <1> QED BY <1>1, <1>2 DEF SentAsNow

LEMMA StillComing ==
  ASSUME NEW S, NEW c \in S, c.answer = Waiting, NEW d, d.fn = c.fn, NEW fn, NEW items,
         Right(S, fn, items), c.fn = fn => d.answer # Failed /\ d.answer.items = items
  PROVE  /\ Right((S \ {c}) \cup {d}, fn, items)
         /\ Coming(S, fn) => Coming((S \ {c}) \cup {d}, fn)
  BY DEF Right, Coming

\* A call is answered, and the server has not changed.
LEMMA SameServer ==
  ASSUME PatientInv, TypeOK', NEW c \in InFlight, NEW a \in Given, a # Waiting, Answers(c, a),
         UNCHANGED <<held, page>>, UNCHANGED server, faults' \in {faults, faults + 1},
         c.fn = "login" => a = Failed
  PROVE  /\ OneAtATime' /\ \A e \in InFlight' : SentAsNow(e)'
         /\ Held /\ (faults' = 0 => Path(stack', folder'))
  <1>1. TypeOK /\ OneAtATime /\ \A e \in InFlight : SentAsNow(e)
    BY PatientParts
  <1>2. faults \in Nat /\ (faults' = 0 => faults = 0)
    BY <1>1 DEF TypeOK
  <1>3. UNCHANGED <<token, folder, screen>> /\ UNCHANGED <<stored, stack, files, valid>>
    BY DEF held, page, server
  <1> DEFINE d == [c EXCEPT !.answer = a]
  <1>4. /\ InFlight' = (InFlight \ {c}) \cup {d} /\ OneAtATime'
        /\ d.answer = a /\ d.fn = c.fn /\ d.token = c.token /\ d.folder = c.folder
        /\ d.chosen = c.chosen /\ d.item = c.item /\ d.live = c.live
    BY <1>1, AnsweredCalls
  <1> HIDE DEF d
  <1>5. SentAsNow(d)'
    BY <1>1, <1>3, <1>4, AnsweredAsNow
  <1>6. ASSUME NEW e \in InFlight PROVE SentAsNow(e)'
    BY <1>1, <1>2, <1>3, StillAsNow
  <1>7. Held /\ (faults' = 0 => Path(stack', folder'))
    BY <1>2, <1>3, PatientParts DEF Held
  <1> QED BY <1>4, <1>5, <1>6, <1>7

LEMMA PatientDrops ==
  ASSUME PatientInv, Drop
  PROVE  PatientInv'
  <1>1. TypeOK /\ TypeOK'
    BY PatientParts, FaultTypes
  <1>2. PICK c \in InFlight : Answers(c, Failed)
    BY DEF Drop
  <1>3. Failed \in Given /\ Failed # Waiting /\ UNCHANGED <<held, page>> /\ UNCHANGED server
        /\ faults' = faults + 1 /\ faults' # 0
    BY <1>1, AnswersGiven DEF Drop, TypeOK
  <1>4. /\ OneAtATime' /\ \A e \in InFlight' : SentAsNow(e)'
        /\ Held /\ (faults' = 0 => Path(stack', folder'))
    BY <1>1, <1>2, <1>3, SameServer
  <1>5. Shown
    BY <1>3 DEF Shown
  <1> QED BY <1>1, <1>4, <1>5, PatientNext

LEMMA PatientExpires ==
  ASSUME PatientInv, Expire
  PROVE  PatientInv'
  <1>1. TypeOK /\ TypeOK' /\ OneAtATime /\ \A e \in InFlight : SentAsNow(e)
    BY PatientParts, FaultTypes
  <1>2. UNCHANGED <<held, page, calls, files>> /\ faults' = faults + 1 /\ faults \in Nat /\ faults' # 0
    BY <1>1 DEF Expire, TypeOK
  <1>3. InFlight' = InFlight /\ OneAtATime'
    BY <1>1, <1>2 DEF InFlight, OneAtATime
  <1>4. \A e \in InFlight' : SentAsNow(e)'
    BY <1>1, <1>2, <1>3, StillAsNow DEF held, page
  <1>5. Held /\ Shown
    BY <1>2, PatientParts DEF Held, Shown, held, page
  <1> QED BY <1>1, <1>2, <1>3, <1>4, <1>5, PatientNext

\* With no fault so far, only an operation that asks for what is not there is refused.
LEMMA PatientRefused ==
  ASSUME PatientInv, NEW c \in InFlight, c.answer = Waiting, Refused(c) \/ c.fn = "login",
         Answers(c, Failed), UNCHANGED server, UNCHANGED <<held, page, clicks, faults>>, TypeOK'
  PROVE  PatientInv'
  <1>1. TypeOK /\ OneAtATime /\ SentAsNow(c)
    BY PatientParts
  <1>2. Failed \in Given /\ Failed # Waiting /\ UNCHANGED <<held, page>> /\ faults' = faults
    BY AnswersGiven
  <1>3. /\ OneAtATime' /\ \A e \in InFlight' : SentAsNow(e)'
        /\ Held /\ (faults' = 0 => Path(stack', folder'))
    BY <1>2, SameServer
  <1>4. Shown
    <2>1. SUFFICES ASSUME faults' = 0, screen' = "app"
                   PROVE  /\ card' = token'.user
                          /\ Table(InFlight', table', token'.user, folder',
                                   ActiveOf(files', token'.user, folder'))
                          /\ Bin(InFlight', bin', token'.user, DeletedOf(files', token'.user))
      BY DEF Shown
    <2>2. /\ token' = token /\ folder' = folder /\ files' = files /\ table' = table /\ bin' = bin
          /\ card' = card /\ faults = 0 /\ screen = "app"
      BY <1>2, <2>1 DEF held, page, server
    <2>3. token # NoToken /\ token \in valid
      BY <2>2, PatientParts
    <2>4. c.fn \notin LoadCalls /\ c.fn # "login"
      BY <1>1, <2>2, <2>3 DEF SentAsNow, Refused, LoadCalls
    <2>5. InFlight = {c}
      BY <1>1, <2>4, AloneThere
    <2>6. PICK d : InFlight' = (InFlight \ {c}) \cup {d} /\ d.answer = Failed /\ d.fn = c.fn
      BY <1>1, <1>2, AnsweredCall
    <2>7. c.fn # "files" /\ c.fn # "recycle"
      BY <2>4 DEF LoadCalls
    <2>8. /\ card = token.user
          /\ Table(InFlight, table, token.user, folder, ActiveOf(files, token.user, folder))
          /\ Bin(InFlight, bin, token.user, DeletedOf(files, token.user))
      BY <2>2, PatientParts
    <2>9. ~Coming(InFlight, "files") /\ ~Coming(InFlight, "recycle")
      BY <2>5, <2>7 DEF Coming
    <2> QED BY <2>2, <2>5, <2>6, <2>7, <2>8, <2>9 DEF Table, Bin, Right
  <1> QED BY <1>3, <1>4, PatientNext

LEMMA PatientReads ==
  ASSUME PatientInv, NEW c \in InFlight, c.answer = Waiting, ServeRead(c, c.token.user),
         UNCHANGED <<held, page, clicks, faults>>, TypeOK'
  PROVE  PatientInv'
  <1>1. TypeOK /\ OneAtATime /\ SentAsNow(c)
    BY PatientParts
  <1>2. PICK a \in Given : /\ Answers(c, a) /\ a # Waiting /\ a # Failed
                           /\ c.fn = "files" => a.items = Active(c.token.user, c.folder)
                           /\ c.fn = "recycle" => a.items = Deleted(c.token.user)
                           /\ c.fn # "login" /\ UNCHANGED server
    <2>1. Active(c.token.user, c.folder) \in SUBSET Items /\ Deleted(c.token.user) \in SUBSET Items
      BY <1>1 DEF TypeOK, Active, Deleted
    <2>2. ASSUME NEW items \in SUBSET Items
          PROVE  LET a == Answer("ok", items, NoToken) IN
                 a \in Given /\ a # Waiting /\ a # Failed /\ a.items = items
      BY AnswersGiven DEF Answer, Waiting, Failed
    <2>3. LET a == Answer("instant", {}, NoToken) IN a \in Given /\ a # Waiting /\ a # Failed
      BY AnswersGiven DEF Answer, Waiting, Failed
    <2>4. Done \in Given /\ Done # Waiting /\ Done # Failed
      BY AnswersGiven
    <2>5. UNCHANGED server
      BY DEF ServeRead
    <2>6. CASE c.fn = "files"
      <3>1. Answers(c, Answer("ok", Active(c.token.user, c.folder), NoToken))
        BY <2>6 DEF ServeRead
      <3> QED BY <2>1, <2>2, <2>5, <2>6, <3>1
    <2>7. CASE c.fn = "recycle"
      <3>1. Answers(c, Answer("ok", Deleted(c.token.user), NoToken))
        BY <2>7 DEF ServeRead
      <3> QED BY <2>1, <2>2, <2>5, <2>7, <3>1
    <2>8. CASE c.fn \in {"profile", "enter", "restored"}
      <3>1. Answers(c, Done)
        BY <2>8 DEF ServeRead
      <3> QED BY <2>4, <2>5, <2>8, <3>1
    <2>9. CASE c.fn = "init"
      <3>1. Answers(c, Answer("instant", {}, NoToken)) \/ Answers(c, Done)
        BY <2>9 DEF ServeRead
      <3> QED BY <2>3, <2>4, <2>5, <2>9, <3>1
    <2>10. c.fn \in {"files", "recycle", "profile", "enter", "restored", "init"}
      BY DEF ServeRead
    <2> QED BY <2>6, <2>7, <2>8, <2>9, <2>10
  <1>3. UNCHANGED <<held, page>> /\ faults' = faults
    OBVIOUS
  <1>4. /\ OneAtATime' /\ \A e \in InFlight' : SentAsNow(e)'
        /\ Held /\ (faults' = 0 => Path(stack', folder'))
    BY <1>2, <1>3, SameServer
  <1>5. Shown
    <2>1. SUFFICES ASSUME faults' = 0, screen' = "app"
                   PROVE  /\ card' = token'.user
                          /\ Table(InFlight', table', token'.user, folder',
                                   ActiveOf(files', token'.user, folder'))
                          /\ Bin(InFlight', bin', token'.user, DeletedOf(files', token'.user))
      BY DEF Shown
    <2>2. /\ token' = token /\ folder' = folder /\ files' = files /\ table' = table /\ bin' = bin
          /\ card' = card /\ faults = 0 /\ screen = "app"
      BY <1>2, <2>1 DEF held, page, server
    <2>3. token # NoToken
      BY <2>2, PatientParts
    <2> DEFINE act == ActiveOf(files, token.user, folder)
               del == DeletedOf(files, token.user)
    <2>4. c.fn = "files" => a.items = act
      BY <1>1, <1>2, <2>3 DEF SentAsNow, Active, ActiveOf
    <2>5. c.fn = "recycle" => a.items = del
      BY <1>1, <1>2, <2>3 DEF SentAsNow, Deleted, DeletedOf
    <2>6. PICK d : InFlight' = (InFlight \ {c}) \cup {d} /\ d.answer = a /\ d.fn = c.fn
      BY <1>1, <1>2, AnsweredCall
    <2>7. card = token.user /\ Table(InFlight, table, token.user, folder, act)
          /\ Bin(InFlight, bin, token.user, del)
      BY <2>2, PatientParts
    <2> HIDE DEF act, del
    <2>8. Right(InFlight', "files", act) /\ (Coming(InFlight, "files") => Coming(InFlight', "files"))
      <3>1. Right(InFlight, "files", act)
        BY <2>7 DEF Table
      <3>2. c.fn = "files" => d.answer # Failed /\ d.answer.items = act
        BY <1>2, <2>4, <2>6
      <3> QED BY <2>6, <3>1, <3>2, StillComing
    <2>9. Right(InFlight', "recycle", del) /\ (Coming(InFlight, "recycle") => Coming(InFlight', "recycle"))
      <3>1. Right(InFlight, "recycle", del)
        BY <2>7 DEF Bin
      <3>2. c.fn = "recycle" => d.answer # Failed /\ d.answer.items = del
        BY <1>2, <2>5, <2>6
      <3> QED BY <2>6, <3>1, <3>2, StillComing
    <2>10. /\ card' = token'.user /\ Table(InFlight', table, token.user, folder, act)
           /\ Bin(InFlight', bin, token.user, del)
      BY <2>2, <2>7, <2>8, <2>9 DEF Table, Bin
    <2> QED BY <2>2, <2>10 DEF act, del
  <1> QED BY <1>4, <1>5, PatientNext

\* What changes the server is alone in flight, and is loaded again when it is answered.
LEMMA PatientChanges ==
  ASSUME PatientInv, NEW c \in InFlight, c.answer = Waiting, ~Refused(c),
         ServeMake(c, c.token.user) \/ ServeTree(c, c.token.user),
         UNCHANGED <<held, page, clicks, faults>>, TypeOK'
  PROVE  PatientInv'
  <1>1. TypeOK /\ OneAtATime /\ SentAsNow(c)
    BY PatientParts
  <1>2. /\ c.fn \in {"create", "upload", "instant", "chunks", "delete", "restore", "purge"}
        /\ Answers(c, Done) /\ UNCHANGED <<valid, logins>>
    BY DEF ServeMake, ServeTree
  <1>3. InFlight = {c}
    BY <1>1, <1>2, AloneThere DEF LoadCalls
  <1>4. PICK d : /\ InFlight' = {d} /\ OneAtATime'
                 /\ d.answer = Done /\ d.fn = c.fn /\ d.token = c.token /\ d.folder = c.folder
                 /\ d.chosen = c.chosen /\ d.item = c.item /\ d.live = c.live
    <2>1. (InFlight \ {c}) = {} /\ Done \in Given
      BY <1>3, AnswersGiven
    <2>2. \A d : (InFlight \ {c}) \cup {d} = {d}
      BY <2>1
    <2> QED BY <1>1, <1>2, <2>1, <2>2, AnsweredCall
  <1>5. UNCHANGED <<token, folder, screen>> /\ UNCHANGED <<stored, stack, table, bin, card, faults>>
    BY DEF held, page
  <1>6. SentAsNow(d)'
    BY <1>1, <1>2, <1>4, <1>5, AnswersGiven, AnsweredAsNow
  <1>7. Held /\ (faults' = 0 => Path(stack', folder'))
    BY <1>2, <1>5, PatientParts DEF Held
  <1>8. Shown
    <2>1. SUFFICES ASSUME faults' = 0, screen' = "app"
                   PROVE  /\ card' = token'.user
                          /\ Table(InFlight', table', token'.user, folder',
                                   ActiveOf(files', token'.user, folder'))
                          /\ Bin(InFlight', bin', token'.user, DeletedOf(files', token'.user))
      BY DEF Shown
    <2>2. faults = 0 /\ screen = "app"
      BY <1>5, <2>1
    <2>3. /\ card = token.user
          /\ Table(InFlight, table, token.user, folder, ActiveOf(files, token.user, folder))
          /\ Bin(InFlight, bin, token.user, DeletedOf(files, token.user))
      BY <2>2, PatientParts
    <2>4. ~Coming(InFlight, "files") /\ ~Coming(InFlight, "recycle")
      BY <1>2, <1>3 DEF Coming
    <2>5. /\ table.user = token.user /\ table.folder = folder
          /\ table.items = ActiveOf(files, token.user, folder)
          /\ bin.user = token.user /\ bin.items = DeletedOf(files, token.user)
      BY <2>3, <2>4 DEF Table, Bin
    <2>6. \A items : Right({d}, "files", items) /\ Right({d}, "recycle", items)
      BY <1>2, <1>4 DEF Right
    <2>7. \A fn \in Reloads(c.fn) : Coming({d}, fn)
      BY <1>4, AnswersGiven DEF Coming
    <2>8. "files" \in Reloads(c.fn) \/ ActiveOf(files', token.user, folder) = ActiveOf(files, token.user, folder)
      <3>1. CASE c.fn # "purge"
        BY <1>2, <3>1 DEF Reloads
      <3>2. CASE c.fn = "purge"
        <4>1. /\ files[c.item].deleted /\ c.item \in DOMAIN files
              /\ files' = [k \in DOMAIN files \ {c.item} |-> files[k]]
          BY <3>2 DEF ServeMake, ServeTree, Has
        <4>2. ASSUME NEW u, NEW f PROVE files[c.item] # [user |-> u, folder |-> f, deleted |-> FALSE]
          BY <4>1
        <4> QED BY <4>1, <4>2 DEF ActiveOf
      <3> QED BY <3>1, <3>2
    <2>9. "recycle" \in Reloads(c.fn) \/ DeletedOf(files', token.user) = DeletedOf(files, token.user)
      <3>1. CASE c.fn \in {"delete", "restore", "purge"}
        BY <3>1 DEF Reloads
      <3>2. CASE c.fn \in {"create", "upload", "instant", "chunks"}
        <4>1. files' = [k \in DOMAIN files \cup {c.item} |->
                          IF k = c.item
                            THEN [user |-> c.token.user, folder |-> c.folder, deleted |-> FALSE]
                            ELSE files[k]]
          BY <3>2 DEF ServeMake, ServeTree
        <4>2. c.item \notin DOMAIN files
          BY <1>1, <3>2 DEF SentAsNow, MakeCalls
        <4> QED BY <4>1, <4>2 DEF DeletedOf
      <3> QED BY <1>2, <3>1, <3>2
    <2>10. Table({d}, table, token.user, folder, ActiveOf(files', token.user, folder))
      BY <2>5, <2>6, <2>7, <2>8 DEF Table
    <2>11. Bin({d}, bin, token.user, DeletedOf(files', token.user))
      BY <2>5, <2>6, <2>7, <2>9 DEF Bin
    <2> QED BY <1>4, <1>5, <2>3, <2>10, <2>11
  <1> QED BY <1>4, <1>6, <1>7, <1>8, PatientNext

LEMMA PatientServes ==
  ASSUME PatientInv, NEW c \in InFlight, Serve(c)
  PROVE  PatientInv'
  <1>1. TypeOK /\ TypeOK' /\ OneAtATime /\ SentAsNow(c)
    BY PatientParts, ServeTypes
  <1>2. c.answer = Waiting /\ UNCHANGED <<held, page, clicks, faults>>
    BY DEF Serve
  <1>3. CASE (Refused(c) \/ c.fn = "login") /\ Answers(c, Failed) /\ UNCHANGED server
    BY <1>1, <1>2, <1>3, PatientRefused
  <1>4. CASE ~Refused(c) /\ ServeLogin(c)
    <2> DEFINE tok == NewSession(c.token.user)
               a == Answer("ok", {}, tok)
    <2>1. InFlight = {c} /\ screen = "auth" /\ screen' = "auth"
      BY <1>1, <1>2, <1>4, AloneThere DEF ServeLogin, LoadCalls, SentAsNow, page
    <2>2. tok \in Token /\ tok # NoToken
      <3>1. c.token.user \in Users /\ logins \in Nat
        BY <1>1, <1>4 DEF TypeOK, ServeLogin
      <3> QED BY <3>1 DEF NewSession, Token, NoToken
    <2>3. a \in Given /\ a.token = tok
      BY <2>2, AnswersGiven DEF Answer
    <2>4. Answers(c, a) /\ valid' = valid \cup {tok}
      BY <1>4 DEF ServeLogin
    <2> HIDE DEF tok, a
    <2>5. PICK d : /\ InFlight' = (InFlight \ {c}) \cup {d} /\ OneAtATime'
                   /\ d.answer = a /\ d.fn = c.fn /\ d.live = c.live
      BY <1>1, <2>3, <2>4, AnsweredCall
    <2>6. SentAsNow(d)'
      BY <1>1, <1>4, <2>1, <2>2, <2>3, <2>4, <2>5 DEF SentAsNow, ServeLogin, MakeCalls
    <2>7. InFlight' = {d}
      BY <2>1, <2>5
    <2>8. Held /\ Shown /\ (faults' = 0 => Path(stack', folder'))
      BY <1>2, <2>1, <2>4, PatientParts DEF Held, Shown, held
    <2> QED BY <1>1, <2>5, <2>6, <2>7, <2>8, PatientNext
  <1>5. CASE ServeRead(c, c.token.user)
    BY <1>1, <1>2, <1>5, PatientReads
  <1>6. CASE ~Refused(c) /\ (ServeMake(c, c.token.user) \/ ServeTree(c, c.token.user))
    BY <1>1, <1>2, <1>6, PatientChanges
  <1> QED BY <1>3, <1>4, <1>5, <1>6 DEF Serve
----------------------------------------------------------------------------
\* The handlers.
LEMMA PatientFails ==
  ASSUME PatientInv, NEW c \in InFlight, c.answer = Failed, Errs(c),
         UNCHANGED <<server, clicks, faults>>, TypeOK'
  PROVE  PatientInv'
  <1>1. TypeOK /\ OneAtATime /\ \A e \in InFlight : SentAsNow(e)
    BY PatientParts
  <1>2. InFlight' = InFlight \ {c} /\ OneAtATime'
    BY <1>1, EndedCalls DEF Errs
  <1>3. UNCHANGED <<files, valid>> /\ faults' = faults /\ faults \in Nat
    BY <1>1 DEF server, TypeOK
  <1>4. CASE c.fn = "restored"
    <2>1. ForgetUser
      BY <1>4 DEF Errs
    <2>2. ASSUME NEW e \in InFlight \ {c} PROVE SentAsNow(e)'
      <3>1. e.fn \in {"files", "recycle", "profile"}
        BY <1>1, <1>4, <2>2 DEF OneAtATime, LoadCalls
      <3> QED BY <1>1, <2>1, <3>1 DEF ForgetUser, SentAsNow, MakeCalls
    <2>3. Held /\ Shown /\ Path(stack', folder')
      BY <2>1, PathRoot DEF ForgetUser, Held, Shown
    <2> QED BY <1>2, <2>2, <2>3, PatientNext
  <1>5. CASE c.fn # "restored"
    <2>1. UNCHANGED <<token, folder, screen>> /\ UNCHANGED <<stored, stack, table, bin, card>>
      BY <1>5 DEF Errs, held, page
    <2>2. \A e \in InFlight : SentAsNow(e)'
      BY <1>1, <1>3, <2>1, StillAsNow
    <2>3. Held /\ (faults' = 0 => Path(stack', folder'))
      BY <1>3, <2>1, PatientParts DEF Held
    <2>4. Shown
      <3>1. SUFFICES ASSUME faults' = 0, screen' = "app"
                     PROVE  /\ card' = token'.user
                            /\ Table(InFlight', table', token'.user, folder',
                                     ActiveOf(files', token'.user, folder'))
                            /\ Bin(InFlight', bin', token'.user, DeletedOf(files', token'.user))
        BY DEF Shown
      <3>2. /\ card = token.user
            /\ Table(InFlight, table, token.user, folder, ActiveOf(files, token.user, folder))
            /\ Bin(InFlight, bin, token.user, DeletedOf(files, token.user))
        BY <1>3, <2>1, <3>1, PatientParts
      <3>3. c.fn # "files" /\ c.fn # "recycle"
        BY <3>2, AnswersGiven DEF Table, Bin, Right
      <3>4. \A fn \in {"files", "recycle"} : Coming(InFlight, fn) => Coming(InFlight \ {c}, fn)
        BY <3>3 DEF Coming
      <3>5. \A fn, items : Right(InFlight, fn, items) => Right(InFlight \ {c}, fn, items)
        BY DEF Right
      <3>6. Table(InFlight \ {c}, table, token.user, folder, ActiveOf(files, token.user, folder))
        BY <3>2, <3>4, <3>5 DEF Table
      <3>7. Bin(InFlight \ {c}, bin, token.user, DeletedOf(files, token.user))
        BY <3>2, <3>4, <3>5 DEF Bin
      <3> QED BY <1>2, <1>3, <2>1, <3>2, <3>6, <3>7
    <2> QED BY <1>2, <2>2, <2>3, <2>4, PatientNext
  <1> QED BY <1>4, <1>5

LEMMA PatientEnters ==
  ASSUME PatientInv, NEW c \in InFlight, c.answer # Failed, c.answer # Waiting,
         LoggedIn(c) \/ Entered(c), UNCHANGED <<server, clicks, faults>>, TypeOK'
  PROVE  PatientInv'
  <1>1. TypeOK /\ OneAtATime /\ SentAsNow(c)
    BY PatientParts
  <1>2. InFlight = {c} /\ UNCHANGED valid /\ UNCHANGED <<folder, stack>> /\ faults' = faults
    BY <1>1, AloneThere DEF LoggedIn, Entered, LoadCalls, server, held
  <1>3. Path(stack, folder) \/ faults # 0
    BY PatientParts
  <1>4. CASE LoggedIn(c)
    <2> DEFINE fns == {"enter"}
    <2>1. /\ token' = c.answer.token /\ stored' = token' /\ screen' = "auth" /\ screen = "auth"
          /\ Goes(c, Loads(fns, token', folder')) /\ c.fn = "login"
      BY <1>1, <1>2, <1>4 DEF LoggedIn, page, SentAsNow
    <2>2. token' # NoToken /\ (token' \in valid \/ faults > 0)
      BY <1>1, <2>1 DEF SentAsNow
    <2>3. OneAtATime' /\ \A e \in InFlight' : SentAsNow(e)'
      <3>1. fns \in SUBSET (LoadCalls \cup {"enter"}) /\ fns = {"enter"}
        OBVIOUS
      <3> HIDE DEF fns
      <3> QED BY <1>1, <1>2, <2>1, <3>1, LoadedPage
    <2>4. Held /\ Shown
      BY <1>2, <2>1, <2>2 DEF Held, Shown
    <2> QED BY <1>2, <1>3, <2>3, <2>4, PatientNext
  <1>5. CASE Entered(c)
    <2> DEFINE fns == {"files", "recycle"}
    <2>1. /\ token' = token /\ stored' = stored /\ card' = token.user
          /\ Goes(c, Loads(fns, token', folder')) /\ c.fn = "enter"
      BY <1>2, <1>5 DEF Entered, held
    <2>2. token # NoToken
      BY <1>1, <2>1 DEF SentAsNow
    <2>3. /\ OneAtATime' /\ \A e \in InFlight' : SentAsNow(e)'
          /\ \A fn, items : Right(InFlight', fn, items) /\ (fn \in fns => Coming(InFlight', fn))
      <3>1. fns \in SUBSET (LoadCalls \cup {"enter"}) /\ fns \subseteq LoadCalls /\ "enter" \notin fns
        BY DEF LoadCalls
      <3> HIDE DEF fns
      <3> QED BY <1>1, <1>2, <2>1, <2>2, <3>1, LoadedPage
    <2>4. Held
      BY <1>2, <2>1, <2>2, PatientParts DEF Held
    <2>5. Shown
      BY <2>1, <2>3 DEF Shown, Table, Bin
    <2> QED BY <1>2, <1>3, <2>3, <2>4, <2>5, PatientNext
  <1> QED BY <1>4, <1>5

LEMMA LoadsLoadNothing ==
  ASSUME NEW c, c.fn \in LoadCalls, Goes(c, Loads(Reloads(c.fn), token, folder))
  PROVE  Ends(c) /\ Reloads(c.fn) = {}
  <1>1. Reloads(c.fn) = {}
    BY DEF Reloads, LoadCalls
  <1>2. Loads({}, token, folder) = EmptyBag
    <2> DEFINE C == {Call(fn, token, folder, NoItem) : fn \in {}}
    <2>1. C = {}
      OBVIOUS
    <2>2. Loads({}, token, folder) = IF token = NoToken THEN EmptyBag ELSE SetToBag(C)
      BY DEF Loads
    <2> HIDE DEF C
    <2> QED BY <2>1, <2>2, NoCalls
  <1> QED BY <1>1, <1>2 DEF Ends

LEMMA PatientRenders ==
  ASSUME PatientInv, NEW c \in InFlight, c.answer # Failed, c.answer # Waiting,
         Rendered(c), UNCHANGED <<server, clicks, faults>>, TypeOK'
  PROVE  PatientInv'
  <1>1. TypeOK /\ OneAtATime /\ \A e \in InFlight : SentAsNow(e)
    BY PatientParts
  <1>2. c.fn \in LoadCalls /\ UNCHANGED <<token, folder, screen>> /\ UNCHANGED <<stored, stack>>
        /\ Goes(c, Loads(Reloads(c.fn), token, folder))
    BY DEF Rendered, LoadCalls, held
  <1>3. InFlight' = InFlight \ {c} /\ OneAtATime' /\ Reloads(c.fn) = {}
    BY <1>1, <1>2, LoadsLoadNothing, EndedCalls
  <1>4. UNCHANGED <<files, valid>> /\ faults' = faults /\ faults \in Nat
    BY <1>1 DEF server, TypeOK
  <1>5. \A e \in InFlight : SentAsNow(e)'
    BY <1>1, <1>2, <1>4, StillAsNow
  <1>6. Held /\ (faults' = 0 => Path(stack', folder'))
    BY <1>2, <1>4, PatientParts DEF Held
  <1>7. Shown
    <2>1. SUFFICES ASSUME faults' = 0, screen' = "app"
                   PROVE  /\ card' = token'.user
                          /\ Table(InFlight', table', token'.user, folder',
                                   ActiveOf(files', token'.user, folder'))
                          /\ Bin(InFlight', bin', token'.user, DeletedOf(files', token'.user))
      BY DEF Shown
    <2> DEFINE act == ActiveOf(files, token.user, folder)
               del == DeletedOf(files, token.user)
    <2>2. /\ card = token.user /\ token # NoToken
          /\ Table(InFlight, table, token.user, folder, act) /\ Bin(InFlight, bin, token.user, del)
      BY <1>2, <1>4, <2>1, PatientParts
    <2>3. act = ActiveOf(files', token'.user, folder') /\ del = DeletedOf(files', token'.user)
          /\ token' = token /\ folder' = folder
      BY <1>2, <1>4
    <2>4. c.token = token /\ c.folder = folder
      BY <1>1, <1>2, <2>2 DEF SentAsNow, LoadCalls
    <2> HIDE DEF act, del
    <2>5. \A fn, items : Right(InFlight, fn, items) => Right(InFlight \ {c}, fn, items)
      BY DEF Right
    <2>6. \A fn : c.fn # fn /\ Coming(InFlight, fn) => Coming(InFlight \ {c}, fn)
      BY <1>3 DEF Coming
    <2>7. Table(InFlight \ {c}, table', token.user, folder, act)
      <3>1. CASE c.fn = "files"
        <4>1. c.answer.items = act
          BY <2>2, <3>1 DEF Table, Right
        <4>2. table' = [user |-> c.token.user, folder |-> c.folder, items |-> c.answer.items]
          BY <3>1 DEF Rendered
        <4> QED BY <2>2, <2>4, <2>5, <4>1, <4>2 DEF Table
      <3>2. CASE c.fn # "files"
        <4>1. table' = table
          BY <3>2 DEF Rendered
        <4> QED BY <2>2, <2>5, <2>6, <3>2, <4>1 DEF Table
      <3> QED BY <3>1, <3>2
    <2>8. Bin(InFlight \ {c}, bin', token.user, del)
      <3>1. CASE c.fn = "recycle"
        <4>1. c.answer.items = del
          BY <2>2, <3>1 DEF Bin, Right
        <4>2. bin'.user = c.token.user /\ bin'.items = c.answer.items
          BY <3>1 DEF Rendered
        <4> QED BY <2>2, <2>4, <2>5, <4>1, <4>2 DEF Bin
      <3>2. CASE c.fn # "recycle"
        <4>1. bin' = bin
          BY <3>2 DEF Rendered
        <4> QED BY <2>2, <2>5, <2>6, <3>2, <4>1 DEF Bin
      <3> QED BY <3>1, <3>2
    <2>9. card' = token.user
      <3>1. card' = c.token.user \/ card' = card
        BY DEF Rendered
      <3> QED BY <2>2, <2>4, <3>1
    <2> QED BY <1>3, <2>3, <2>7, <2>8, <2>9
  <1> QED BY <1>3, <1>5, <1>6, <1>7, PatientNext

LEMMA PatientOperates ==
  ASSUME PatientInv, NEW c \in InFlight, c.answer # Failed, c.answer # Waiting,
         Operated(c), UNCHANGED <<server, clicks, faults>>, TypeOK'
  PROVE  PatientInv'
  <1>1. TypeOK /\ OneAtATime /\ SentAsNow(c)
    BY PatientParts
  <1>2. /\ c.fn \in {"create", "upload", "instant", "chunks", "delete", "restore", "purge"}
        /\ UNCHANGED <<token, stored, folder, stack>> /\ UNCHANGED <<screen, table, bin>>
        /\ UNCHANGED <<files, valid>> /\ faults' = faults
    BY DEF Operated, held, server
  <1>3. InFlight = {c} /\ token # NoToken
    BY <1>1, <1>2, AloneThere DEF LoadCalls, SentAsNow
  <1>4. card' = card
    BY <1>3 DEF Operated
  <1> DEFINE fns == Reloads(c.fn)
  <1>5. fns \in SUBSET LoadCalls
    BY <1>2, ReloadsAreLoads DEF Functions
  <1>6. Goes(c, Loads(fns, token', folder'))
    BY <1>2 DEF Operated
  <1>7. /\ OneAtATime' /\ \A e \in InFlight' : SentAsNow(e)'
        /\ \A fn, items : Right(InFlight', fn, items) /\ (fn \in fns => Coming(InFlight', fn))
    <2>1. fns \in SUBSET (LoadCalls \cup {"enter"}) /\ fns \subseteq LoadCalls /\ "enter" \notin fns
          /\ token' # NoToken
      BY <1>2, <1>3, <1>5 DEF LoadCalls
    <2> HIDE DEF fns
    <2> QED BY <1>1, <1>3, <1>6, <2>1, LoadedPage
  <1>8. Held /\ (faults' = 0 => Path(stack', folder'))
    BY <1>2, PatientParts DEF Held
  <1>9. Shown
    <2>1. SUFFICES ASSUME faults' = 0, screen' = "app"
                   PROVE  /\ card' = token'.user
                          /\ Table(InFlight', table', token'.user, folder',
                                   ActiveOf(files', token'.user, folder'))
                          /\ Bin(InFlight', bin', token'.user, DeletedOf(files', token'.user))
      BY DEF Shown
    <2> DEFINE act == ActiveOf(files, token.user, folder)
               del == DeletedOf(files, token.user)
    <2>2. /\ card = token.user
          /\ Table(InFlight, table, token.user, folder, act) /\ Bin(InFlight, bin, token.user, del)
      BY <1>2, <2>1, PatientParts
    <2>3. act = ActiveOf(files', token'.user, folder') /\ del = DeletedOf(files', token'.user)
          /\ token' = token /\ folder' = folder
      BY <1>2
    <2> HIDE DEF act, del
    <2>4. \A fn \in {"files", "recycle"} : fn \in fns \/ ~Coming(InFlight, fn)
      BY <1>2, <1>3 DEF Coming
    <2> HIDE DEF fns
    <2>5. Table(InFlight', table, token.user, folder, act)
      BY <1>7, <2>2, <2>4 DEF Table
    <2>6. Bin(InFlight', bin, token.user, del)
      BY <1>7, <2>2, <2>4 DEF Bin
    <2> QED BY <1>2, <1>4, <2>2, <2>3, <2>5, <2>6
  <1> QED BY <1>7, <1>8, <1>9, PatientNext

\* The next request of a chunked upload is for the folder of the click.
LEMMA PatientUploads ==
  ASSUME PatientInv, NEW c \in InFlight, FileRead(c) \/ SessionOpened(c),
         UNCHANGED <<server, clicks, faults>>, TypeOK'
  PROVE  PatientInv'
  <1>1. TypeOK /\ OneAtATime /\ SentAsNow(c)
    BY PatientParts
  <1>2. /\ c.fn \in {"read", "init"} /\ UNCHANGED <<token, stored, folder, stack>>
        /\ UNCHANGED <<screen, table, bin, card>> /\ UNCHANGED <<files, valid>> /\ faults' = faults
    BY DEF FileRead, SessionOpened, held, page, server
  <1>3. InFlight = {c} /\ token # NoToken
    BY <1>1, <1>2, AloneThere DEF LoadCalls, SentAsNow
  <1>4. c.folder = folder /\ c.chosen = folder /\ c.item \notin DOMAIN files
    BY <1>1, <1>2, <1>3 DEF SentAsNow
  <1>5. PICK d : /\ Goes(c, One(d)) /\ d.fn \in {"init", "instant", "chunks"} /\ d.live
                 /\ d.token = token /\ d.folder = folder /\ d.chosen = folder /\ d.item = c.item
    <2>1. PICK fn \in {"init", "instant", "chunks"} :
            Goes(c, One([Call(fn, token, folder, c.item) EXCEPT !.chosen = c.chosen]))
      BY <1>4 DEF FileRead, SessionOpened
    <2> DEFINE d == [Call(fn, token, folder, c.item) EXCEPT !.chosen = c.chosen]
    <2>2. /\ d.fn = fn /\ d.live /\ d.token = token /\ d.folder = folder /\ d.chosen = folder
          /\ d.item = c.item
      BY <1>4 DEF Call
    <2>3. Goes(c, One(d))
      BY <2>1
    <2> HIDE DEF d
    <2> QED BY <2>2, <2>3
  <1>6. InFlight' = {d} /\ OneAtATime'
    <2>1. AloneIn({d})
      BY DEF AloneIn
    <2> QED BY <1>1, <1>3, <1>5, <2>1, OnlyThese DEF One
  <1>7. SentAsNow(d)'
    BY <1>2, <1>3, <1>4, <1>5 DEF SentAsNow
  <1>8. Held /\ (faults' = 0 => Path(stack', folder'))
    BY <1>2, PatientParts DEF Held
  <1>9. Shown
    <2>1. SUFFICES ASSUME faults' = 0, screen' = "app"
                   PROVE  /\ card' = token'.user
                          /\ Table(InFlight', table', token'.user, folder',
                                   ActiveOf(files', token'.user, folder'))
                          /\ Bin(InFlight', bin', token'.user, DeletedOf(files', token'.user))
      BY DEF Shown
    <2>2. /\ card = token.user
          /\ Table(InFlight, table, token.user, folder, ActiveOf(files, token.user, folder))
          /\ Bin(InFlight, bin, token.user, DeletedOf(files, token.user))
      BY <1>2, <2>1, PatientParts
    <2>3. ~Coming(InFlight, "files") /\ ~Coming(InFlight, "recycle")
      BY <1>2, <1>3 DEF Coming, Reloads
    <2> QED BY <1>2, <1>5, <1>6, <2>2, <2>3 DEF Table, Bin, Right
  <1> QED BY <1>6, <1>7, <1>8, <1>9, PatientNext

LEMMA PatientArrives ==
  ASSUME PatientInv, NEW c \in InFlight, Arrive(c)
  PROVE  PatientInv'
  <1>1. TypeOK /\ TypeOK' /\ SentAsNow(c)
    BY PatientParts, ArriveTypes
  <1>2. c.live /\ UNCHANGED <<server, clicks, faults>> /\ (c.answer # Waiting \/ c.fn = "read")
    BY <1>1 DEF Arrive, SentAsNow
  <1>3. CASE c.answer = Failed /\ Errs(c)
    BY <1>1, <1>2, <1>3, PatientFails
  <1>4. CASE c.answer # Failed /\ (LoggedIn(c) \/ Entered(c))
    BY <1>1, <1>2, <1>4, PatientEnters DEF LoggedIn, Entered
  <1>5. CASE c.answer # Failed /\ Rendered(c)
    <2>1. c.fn # "read"
      BY <1>5 DEF Rendered
    <2> QED BY <1>1, <1>2, <1>5, <2>1, PatientRenders
  <1>6. CASE c.answer # Failed /\ Operated(c)
    <2>1. c.fn # "read"
      BY <1>6 DEF Operated
    <2> QED BY <1>1, <1>2, <1>6, <2>1, PatientOperates
  <1>7. CASE c.answer # Failed /\ (FileRead(c) \/ SessionOpened(c))
    BY <1>1, <1>2, <1>7, PatientUploads
  <1> QED BY <1>2, <1>3, <1>4, <1>5, <1>6, <1>7 DEF Arrive

----------------------------------------------------------------------------
LEMMA PatientInit ==
  ASSUME Init
  PROVE  PatientInv
  <1> DEFINE fns == {"files", "recycle", "restored"}
             L == BagToSet(Loads(fns, token, folder))
  <1>1. TypeOK
    BY InitTypes
  <1>2. /\ calls = Loads(fns, token, folder) /\ stored = token /\ folder = Top /\ stack = <<Top>>
        /\ screen = (IF token = NoToken THEN "auth" ELSE "app") /\ card = token.user
        /\ valid = {token} \ {NoToken}
    BY DEF Init
  <1>3. token \in Holding /\ folder \in Folders
    BY <1>1 DEF TypeOK
  <1>4. fns \in SUBSET (LoadCalls \cup {"enter"}) /\ fns \subseteq LoadCalls /\ "enter" \notin fns
        /\ fns \in SUBSET LoadCalls /\ "files" \in fns /\ "recycle" \in fns
    BY DEF LoadCalls
  <1> HIDE DEF fns
  <1>5. InFlight = L /\ calls = SetToBag(L) /\ AloneIn(L)
    BY <1>2, <1>3, <1>4, LoadsAlone DEF InFlight
  <1>6. ASSUME NEW c \in L PROVE SentAsNow(c)
    <2>1. /\ c.fn \in fns /\ c.token = token /\ c.folder = folder
          /\ c.chosen = folder /\ c.live /\ c.answer = Waiting /\ token # NoToken
      BY <1>3, <1>4, <1>6, LoadsTyped
    <2>2. c.fn \notin MakeCalls \cup {"login", "enter"} /\ c.fn \notin {"read", "init"}
      BY <2>1 DEF fns, MakeCalls
    <2> HIDE DEF L
    <2>3. c.fn # "login" /\ c.fn # "enter" /\ c.fn \notin MakeCalls /\ c.fn # "read" /\ c.fn # "init"
      BY <2>2
    <2> QED BY <2>1, <2>3 DEF SentAsNow
  <1>7. ASSUME token # NoToken
        PROVE  \A fn, items : Right(L, fn, items) /\ (fn \in fns => Coming(L, fn))
    <2>1. token \in Holding \ {NoToken}
      BY <1>3, <1>7
    <2> QED BY <1>3, <1>4, <2>1, LoadsComing
  <1> HIDE DEF L
  <1>8. Path(stack, folder)
    BY <1>2, PathRoot
  <1>9. ASSUME screen = "app" PROVE TableInTime /\ BinInTime
    <2>1. token # NoToken
      BY <1>2, <1>9
    <2>2. /\ Table(InFlight, table, token.user, folder, ActiveOf(files, token.user, folder))
          /\ Bin(InFlight, bin, token.user, DeletedOf(files, token.user))
      BY <1>4, <1>5, <1>7, <2>1 DEF Table, Bin
    <2> QED BY <2>2, InTimeParts
  <1>10. OneAtATime /\ BreadcrumbIsPath
    BY <1>5, <1>8, OneParts, InTimeParts
  <1> QED BY <1>1, <1>2, <1>5, <1>6, <1>9, <1>10 DEF PatientInv, AppNeedsToken

LEMMA PatientStep ==
  ASSUME Patient, PatientInv, [Next]_vars
  PROVE  PatientInv'
  <1>1. CASE UNCHANGED vars
    <2>1. TypeOK'
      BY <1>1, PatientParts, NextTypes
    <2>2. UNCHANGED <<token, folder, screen>>
          /\ UNCHANGED <<stored, stack, table, bin, card, calls, files, valid, faults>>
      BY <1>1 DEF vars, held, page, server
    <2>3. InFlight' = InFlight /\ OneAtATime'
      BY <2>2, PatientParts DEF InFlight, OneAtATime
    <2>4. faults \in Nat /\ \A e \in InFlight : SentAsNow(e)
      BY PatientParts DEF TypeOK
    <2>5. \A e \in InFlight : SentAsNow(e)'
      BY <2>2, <2>4, StillAsNow
    <2>6. Held /\ (faults' = 0 => Path(stack', folder')) /\ Shown
      BY <2>2, <2>3, PatientParts DEF Held, Shown
    <2> QED BY <2>1, <2>3, <2>5, <2>6, PatientNext
  <1>2. CASE Clicks
    BY <1>2, PatientAsks, PatientLogsOut, PatientMoves, PatientReloads DEF Clicks
  <1> QED BY <1>1, <1>2, PatientDrops, PatientExpires, PatientServes, PatientArrives DEF Next

\* For a user who waits for every answer (app.js leaves it to the user: no button
\* is off while a request is in flight), what is in flight was sent by the page as it is,
\* and every part of the page that is not to be loaded is as it is on the server.
THEOREM PatientInvHolds ==
  ASSUME Patient
  PROVE  Spec => []PatientInv
  <1>1. Init => PatientInv
    BY PatientInit
  <1>2. PatientInv /\ [Next]_vars => PatientInv'
    BY PatientStep
  <1> QED BY <1>1, <1>2, PTL DEF Spec

\* What such a user makes is filed in the folder that was open at the click (index.html 103).
THEOREM FiledWhereChosenHolds ==
  ASSUME Patient
  PROVE  Spec => []FiledWhereChosen
  <1>1. PatientInv => FiledWhereChosen
    <2>1. SUFFICES ASSUME PatientInv, NEW c \in InFlight,
                          c.fn \in {"create", "upload", "instant", "chunks"}
                   PROVE  c.folder = c.chosen
      BY DEF FiledWhereChosen
    <2>2. SentAsNow(c)
      BY <2>1, PatientParts
    <2> QED BY <2>1, <2>2 DEF SentAsNow
  <1> QED BY <1>1, PatientInvHolds, PTL

\* At rest, with no request failed, the page shows the folder, the bin and the account as they
\* are on the server, under the folder's own path.
THEOREM ShownAsItIsHolds ==
  ASSUME Patient
  PROVE  Spec => []ShownAsItIs
  <1>1. PatientInv => ShownAsItIs
    <2>1. SUFFICES ASSUME PatientInv PROVE ShownAsItIs
      OBVIOUS
    <2>2. ASSUME Settled
          PROVE  /\ card = token.user
                 /\ table.user = token.user /\ table.folder = folder
                 /\ table.items = ActiveOf(files, token.user, folder)
                 /\ bin.user = token.user /\ bin.items = DeletedOf(files, token.user)
      <3>1. InFlight = {}
        BY <2>2, NoCalls DEF Settled, InFlight
      <3> QED BY <2>1, <2>2, <3>1, RestingPage DEF Settled
    <2>3. ShownIsCurrent /\ ShownIsFresh
      BY <2>2 DEF ShownIsCurrent, ShownIsFresh, Active, ActiveOf, Deleted, DeletedOf
    <2> QED BY <2>1, <2>3 DEF ShownAsItIs, PatientInv
  <1> QED BY <1>1, PatientInvHolds, PTL

\* A session is dropped by a click, or by the failed check of that same session.
THEOREM DroppedForCauseHolds ==
  ASSUME Patient
  PROVE  Spec => DroppedForCause
  <1>1. ASSUME PatientInv, [Next]_vars, token # NoToken, token' = NoToken
        PROVE  \/ clicks' # clicks
               \/ \E c \in InFlight : c.fn = "restored" /\ c.token = token /\ c.answer = Failed
    <2>1. TypeOK /\ \A c \in InFlight : SentAsNow(c)
      BY <1>1, PatientParts
    <2>2. CASE Clicks
      <3>1. Click
        BY <2>2 DEF Clicks, Login, Logout, OpenFolder, BackFolder, Refresh, Make, Remove, Reload, InApp
      <3> QED BY <2>1, <3>1, ClickBounds
    <2>3. ASSUME NEW c \in InFlight, Arrive(c) PROVE c.fn = "restored" /\ c.token = token /\ c.answer = Failed
      <3>1. SentAsNow(c)
        BY <2>1
      <3>2. c.live
        BY <3>1 DEF SentAsNow
      <3>3. ASSUME LoggedIn(c), c.answer # Failed PROVE FALSE
        <4>1. c.answer # Waiting
          BY <2>3, <3>3 DEF Arrive, LoggedIn
        <4>2. c.answer.token # NoToken
          BY <3>1, <3>3, <4>1 DEF SentAsNow, LoggedIn
        <4> QED BY <1>1, <3>3, <4>2 DEF LoggedIn
      <3>4. token' # token
        BY <1>1
      <3>5. c.answer = Failed /\ c.fn = "restored"
        BY <2>3, <3>2, <3>3, <3>4 DEF Arrive, Errs, Entered, Rendered, Operated, FileRead,
                                      SessionOpened, held
      <3> QED BY <1>1, <3>1, <3>5 DEF SentAsNow
    <2>4. ASSUME Drop \/ Expire \/ (\E c \in InFlight : Serve(c)) \/ UNCHANGED vars PROVE FALSE
      BY <1>1, <2>4 DEF Drop, Expire, Serve, vars, held
    <2> QED BY <1>1, <2>2, <2>3, <2>4 DEF Next
  <1>2. PatientInv /\ [Next]_vars
          => [token # NoToken /\ token' = NoToken
                => \/ clicks' # clicks
                   \/ \E c \in InFlight : c.fn = "restored" /\ c.token = token /\ c.answer = Failed]_vars
    BY <1>1
  <1> QED BY <1>2, PatientInvHolds, PTL DEF Spec, DroppedForCause
============================================================================
