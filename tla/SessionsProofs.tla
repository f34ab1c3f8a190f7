--------------------------- MODULE SessionsProofs ---------------------------
(***************************************************************************)
(* A request is answered as the user whose password was given for its       *)
(* token, whatever the numbers of threads, users and faults and however     *)
(* long sessions last.                                                      *)
(***************************************************************************)
EXTENDS SessionsProps, TLAPS

USE TimesAssumption, BoundsAssumption, DrawsAssumption

----------------------------------------------------------------------------
\* What stays true of a thread, and of a login, while the rest goes on.

Onward == /\ drawn' \in Nat /\ drawn <= drawn'
          /\ clock' \in Nat /\ clock <= clock'
Kept(t) == pc'[t] = pc[t] /\ req'[t] = req[t]

LEMMA RequestStays ==
  ASSUME TypeOK, Onward, NEW t \in Threads, Kept(t)
  PROVE  RequestOK(t)'
  <1>1. RequestOK(t) /\ drawn \in Nat /\ clock \in Nat
    BY DEF TypeOK, ThreadsOK, CountsOK
  <1>2. 1 .. drawn \subseteq 1 .. drawn' /\ 0 .. clock \subseteq 0 .. clock'
    BY <1>1 DEF Onward
  <1>3. /\ AccountReq \subseteq AccountReq' /\ SaveReq \subseteq SaveReq'
        /\ GetReq \subseteq GetReq' /\ UseReq \subseteq UseReq'
    BY <1>2 DEF AccountReq, SaveReq, GetReq, UseReq
  <1> QED BY <1>1, <1>3 DEF RequestOK, Kept

\* Accounts are not changed, logins not forgotten.
Remembered == /\ DOMAIN users \subseteq DOMAIN users' /\ opened \subseteq opened'
              /\ \A n \in DOMAIN users : users'[n] = users[n]

LEMMA LoginStays ==
  ASSUME Remembered, NEW k, NEW n, LoggedIn(k, n)
  PROVE  LoggedIn(k, n)'
  BY DEF Remembered, LoggedIn, Registered

LEMMA KnowsStays ==
  ASSUME Remembered, NEW t \in Threads, Kept(t), Knows(t)
  PROVE  Knows(t)'
  BY LoginStays DEF Remembered, Kept, Knows, Registered

----------------------------------------------------------------------------
LEMMA InitInv == Init => GivenInv
  BY DEF Init, GivenInv, TypeOK, UsersOK, RedisOK, ThreadsOK, HistoryOK, DrawsOK, CountsOK, RequestOK, AnswersOwner, KeysGiven, Knows, NoRequest

\* A step of a thread leaves the others as they were.
LEMMA GotoFrame ==
  ASSUME TypeOK, NEW t \in Threads, NEW label, NEW r, Goto(t, label, r)
  PROVE  /\ \A u \in Threads \ {t} : Kept(u)
         /\ pc'[t] = label /\ req'[t] = [r EXCEPT !.at = clock]
         /\ DOMAIN pc' = Threads /\ DOMAIN req' = Threads /\ issued' = issued
  BY DEF Goto, TypeOK, ThreadsOK, Kept

LEMMA ReplyFrame ==
  ASSUME TypeOK, NEW t \in Threads, Reply(t)
  PROVE  /\ \A u \in Threads \ {t} : Kept(u)
         /\ pc'[t] = "idle" /\ req'[t] = NoRequest
         /\ DOMAIN pc' = Threads /\ DOMAIN req' = Threads /\ issued' = issued
  BY DEF Reply, TypeOK, ThreadsOK, Kept

\* A step that changes nothing but its own thread.
LEMMA OwnStep ==
  ASSUME GivenInv, NEW t \in Threads,
         UNCHANGED <<users, redis, clock, drawn, mixed, opened, seen>>,
         \A u \in Threads \ {t} : Kept(u),
         DOMAIN pc' = Threads, DOMAIN req' = Threads,
         RequestOK(t)', Knows(t)',
         {leaked', issued', faults'} \subseteq Nat
  PROVE  GivenInv'
  <1>1. Onward /\ Remembered /\ TypeOK
    BY DEF GivenInv, Onward, Remembered, TypeOK, CountsOK
  <1>2. \A u \in Threads : RequestOK(u)'
    BY <1>1, RequestStays
  <1>3. \A u \in Threads : Knows(u)'
    BY <1>1, KnowsStays DEF GivenInv
  <1>4. TypeOK'
    BY <1>1, <1>2 DEF TypeOK, UsersOK, RedisOK, ThreadsOK, HistoryOK, DrawsOK, CountsOK, Key
  <1>5. AnswersOwner'
    BY DEF GivenInv, AnswersOwner, LoggedIn, Registered
  <1>6. KeysGiven'
    BY DEF GivenInv, KeysGiven, LoggedIn, Registered
  <1> QED BY <1>3, <1>4, <1>5, <1>6 DEF GivenInv

\* A reply that changes nothing else.
LEMMA ReplyStep ==
  ASSUME GivenInv, NEW t \in Threads, Reply(t),
         UNCHANGED <<users, redis, clock, drawn, mixed, opened, seen>>,
         {leaked', faults'} \subseteq Nat
  PROVE  GivenInv'
  <1>1. TypeOK
    BY DEF GivenInv
  <1>2. RequestOK(t)' /\ Knows(t)'
    BY <1>1, ReplyFrame DEF RequestOK, Knows
  <1>3. issued' \in Nat
    BY <1>1, ReplyFrame DEF TypeOK, CountsOK
  <1> QED BY <1>1, <1>2, <1>3, ReplyFrame, OwnStep


\* A step that keeps the accounts and the logins known, in general.
LEMMA ForwardStep ==
  ASSUME GivenInv, NEW t \in Threads, Onward, Remembered,
         \A u \in Threads \ {t} : Kept(u),
         RequestOK(t)', Knows(t)', TypeOK', AnswersOwner', KeysGiven'
  PROVE  GivenInv'
  <1>1. \A u \in Threads : Knows(u)'
    BY KnowsStays DEF GivenInv
  <1> QED BY <1>1 DEF GivenInv

\* Types of what the actions leave, given that the other threads stay.
LEMMA ThreadsTyped ==
  ASSUME TypeOK, Onward, NEW t \in Threads, \A u \in Threads \ {t} : Kept(u), RequestOK(t)'
  PROVE  \A u \in Threads : RequestOK(u)'
  BY RequestStays

----------------------------------------------------------------------------
LEMMA BeginInv ==
  ASSUME GivenInv, NEW t \in Threads, Begin(t)
  PROVE  GivenInv'
  <1>1. TypeOK /\ pc[t] = "idle" /\ UNCHANGED <<users, redis, clock, drawn, mixed, opened, seen, leaked, faults>>
    BY DEF GivenInv, Begin, At, history
  <1>2. /\ \A u \in Threads \ {t} : Kept(u)
        /\ DOMAIN pc' = Threads /\ DOMAIN req' = Threads
        /\ {leaked', issued', faults'} \subseteq Nat
    BY <1>1 DEF Begin, Kept, TypeOK, ThreadsOK, CountsOK
  <1>3. RequestOK(t)' /\ Knows(t)'
    <2>1. CASE \E n \in Names, p \in Passwords, op \in {"register", "login"} :
                 /\ req' = [req EXCEPT ![t] = [op |-> op, name |-> n, password |-> p,
                                               at |-> clock]]
                 /\ pc' = [pc EXCEPT ![t] = IF op = "register" THEN "insert" ELSE "lookup"]
      BY <1>1, <2>1 DEF TypeOK, ThreadsOK, CountsOK, RequestOK, AccountReq, Knows
    <2>2. CASE \E k \in 1 .. drawn :
                 /\ req' = [req EXCEPT ![t] = [op |-> "use", token |-> k, at |-> clock]]
                 /\ pc' = [pc EXCEPT ![t] = "get"]
      BY <1>1, <2>2 DEF TypeOK, ThreadsOK, CountsOK, RequestOK, GetReq, Knows
    <2> QED BY <2>1, <2>2 DEF Begin
  <1> QED BY <1>1, <1>2, <1>3, OwnStep

LEMMA InsertInv ==
  ASSUME GivenInv, NEW t \in Threads, InsertUser(t)
  PROVE  GivenInv'
  <1>1. TypeOK /\ pc[t] = "insert" /\ UNCHANGED <<redis, clock, drawn, mixed, leaked, opened, seen, faults>>
    BY DEF GivenInv, InsertUser, At, history
  <1>2. req[t] \in AccountReq
    BY <1>1 DEF TypeOK, ThreadsOK, CountsOK, RequestOK
  <1>3. CASE Registered(req[t].name)
    <2>1. Reply(t) /\ users' = users
      BY <1>3 DEF InsertUser
    <2>2. {leaked', faults'} \subseteq Nat
      BY <1>1 DEF TypeOK, CountsOK
    <2> QED BY <1>1, <2>1, <2>2, ReplyStep
  <1>4. CASE ~Registered(req[t].name)
    <2> DEFINE n == req[t].name
    <2>1. /\ users' = [x \in DOMAIN users \cup {n} |-> IF x = n THEN req[t].password ELSE users[x]]
          /\ Goto(t, "readback", req[t])
      BY <1>4 DEF InsertUser
    <2>2. n \in Names /\ req[t].password \in Passwords /\ n \notin DOMAIN users
      BY <1>2, <1>4 DEF AccountReq, Registered
    <2>3. Onward /\ Remembered
      BY <1>1, <2>1, <2>2 DEF Onward, Remembered, TypeOK, CountsOK
    <2>4. req'[t] = [req[t] EXCEPT !.at = clock] /\ pc'[t] = "readback"
      BY <1>1, <2>1, GotoFrame
    <2>5. RequestOK(t)' /\ Knows(t)'
      <3>1. req'[t] \in AccountReq'
        BY <1>1, <1>2, <2>4 DEF AccountReq, TypeOK, CountsOK
      <3>2. req'[t].name = n /\ req'[t].password = req[t].password
        BY <1>2, <2>4 DEF AccountReq
      <3>3. users'[n] = req[t].password /\ n \in DOMAIN users'
        BY <2>1
      <3> QED BY <2>4, <3>1, <3>2, <3>3 DEF RequestOK, Knows, Registered
    <2>6. TypeOK'
      <3>1. \A u \in Threads : RequestOK(u)'
        BY <1>1, <2>1, <2>3, <2>5, GotoFrame, ThreadsTyped
      <3>2. UsersOK'
        BY <1>1, <2>1, <2>2 DEF TypeOK, UsersOK
      <3>3. RedisOK' /\ HistoryOK' /\ DrawsOK'
        BY <1>1 DEF TypeOK, RedisOK, HistoryOK, DrawsOK, Key
      <3>4. ThreadsOK' /\ CountsOK'
        BY <1>1, <2>1, <3>1, GotoFrame DEF TypeOK, ThreadsOK, CountsOK
      <3> QED BY <3>2, <3>3, <3>4 DEF TypeOK
    <2>7. AnswersOwner' /\ KeysGiven'
      BY <1>1, <2>3, LoginStays DEF GivenInv, AnswersOwner, KeysGiven
    <2> QED BY <1>1, <2>1, <2>3, <2>5, <2>6, <2>7, GotoFrame, ForwardStep
  <1> QED BY <1>3, <1>4

LEMMA LookupInv ==
  ASSUME GivenInv, NEW t \in Threads, Lookup(t)
  PROVE  GivenInv'
  <1>1. TypeOK /\ pc[t] = "lookup"
        /\ UNCHANGED <<users, redis, clock, drawn, mixed, leaked, opened, seen, faults>>
    BY DEF GivenInv, Lookup, At, history
  <1>2. req[t] \in AccountReq /\ {leaked', faults'} \subseteq Nat
    BY <1>1 DEF TypeOK, ThreadsOK, CountsOK, RequestOK
  <1>3. CASE Registered(req[t].name) /\ users[req[t].name] = req[t].password
    <2>1. Goto(t, "draw", req[t])
      BY <1>3 DEF Lookup
    <2>2. req'[t] = [req[t] EXCEPT !.at = clock] /\ pc'[t] = "draw"
      BY <1>1, <2>1, GotoFrame
    <2>3. /\ req'[t] \in AccountReq'
          /\ req'[t].name = req[t].name /\ req'[t].password = req[t].password
      BY <1>1, <1>2, <2>2 DEF AccountReq, TypeOK, CountsOK
    <2>4. RequestOK(t)' /\ Knows(t)'
      BY <1>1, <1>3, <2>2, <2>3 DEF RequestOK, Knows, Registered
    <2>5. issued' \in Nat
      BY <1>1, <2>1, GotoFrame DEF TypeOK, CountsOK
    <2> QED BY <1>1, <1>2, <2>1, <2>4, <2>5, GotoFrame, OwnStep
  <1>4. CASE ~(Registered(req[t].name) /\ users[req[t].name] = req[t].password)
    <2>1. Reply(t)
      BY <1>4 DEF Lookup
    <2> QED BY <1>1, <1>2, <2>1, ReplyStep
  <1> QED BY <1>3, <1>4

\* newToken: the new token is past those drawn; a repeated one is among them.
LEMMA DrawInv ==
  ASSUME GivenInv, NEW t \in Threads, Draw(t)
  PROVE  GivenInv'
  <1>1. TypeOK /\ pc[t] = "draw"
        /\ UNCHANGED <<users, redis, clock, leaked, seen, issued, faults>>
    BY DEF GivenInv, Draw, At
  <1>2. /\ req[t] \in AccountReq /\ mixed \subseteq 1 .. drawn
        /\ drawn \in Nat /\ clock \in Nat
    BY <1>1 DEF TypeOK, ThreadsOK, CountsOK, DrawsOK, RequestOK
  <1> DEFINE n == req[t].name
             p == req[t].password
  <1>3. PICK k \in {drawn + 1} \cup (IF SharedDraws THEN mixed ELSE {}) :
          /\ drawn' = IF k > drawn THEN k ELSE drawn
          /\ mixed' = IF \E u \in Threads \ {t} : At(u, "draw") THEN mixed \cup {k} ELSE mixed
          /\ opened' = opened \cup {[token |-> k, name |-> n, password |-> p]}
          /\ req' = [req EXCEPT ![t] = [op |-> "login", token |-> k, name |-> n, at |-> clock]]
    BY DEF Draw
  <1>4. n \in Names /\ p \in Passwords
    BY <1>2 DEF AccountReq
  <1>5. k \in 1 .. drawn' /\ drawn' \in Nat /\ drawn <= drawn'
    BY <1>2, <1>3
  <1>6. Onward /\ Remembered
    BY <1>1, <1>2, <1>3, <1>5 DEF Onward, Remembered
  <1>7. DOMAIN pc' = Threads /\ pc'[t] = "save" /\ \A u \in Threads \ {t} : pc'[u] = pc[u]
    BY <1>1 DEF Draw, TypeOK, ThreadsOK
  <1>8. /\ DOMAIN req' = Threads /\ \A u \in Threads \ {t} : req'[u] = req[u]
        /\ req'[t] = [op |-> "login", token |-> k, name |-> n, at |-> clock]
    BY <1>1, <1>3 DEF TypeOK, ThreadsOK
  <1>9. ASSUME NEW u \in Threads \ {t} PROVE RequestOK(u)' /\ Knows(u)'
    BY <1>1, <1>6, <1>7, <1>8, RequestStays, KnowsStays DEF GivenInv, Kept
  <1>10. LoggedIn(req[t].token, req[t].name)'
    <2>1. users[n] = p /\ n \in DOMAIN users
      BY <1>1 DEF GivenInv, Knows, Registered
    <2>2. [token |-> k, name |-> n, password |-> p] \in opened'
      BY <1>3
    <2>3. users'[n] = p /\ n \in DOMAIN users'
      BY <1>1, <2>1
    <2>4. req'[t].token = k /\ req'[t].name = n
      BY <1>8
    <2> QED BY <2>2, <2>3, <2>4 DEF LoggedIn, Registered
  <1>11. RequestOK(t)' /\ Knows(t)'
    <2>1. req'[t] \in SaveReq'
      BY <1>1, <1>2, <1>4, <1>5, <1>8 DEF SaveReq
    <2> QED BY <1>7, <1>10, <2>1 DEF RequestOK, Knows
  <1>12. TypeOK'
    <2>1. UsersOK' /\ ThreadsOK'
      BY <1>1, <1>7, <1>8, <1>9, <1>11 DEF TypeOK, UsersOK, ThreadsOK
    <2>2. 1 .. drawn \subseteq 1 .. drawn'
      BY <1>2, <1>5
    <2>3. RedisOK'
      BY <1>1, <2>2 DEF TypeOK, RedisOK, Key
    <2>4. HistoryOK'
      BY <1>1, <1>3, <1>4, <1>5, <2>2 DEF TypeOK, HistoryOK
    <2>5. CountsOK'
      BY <1>1, <1>5 DEF TypeOK, CountsOK
    <2>6. DrawsOK'
      BY <1>2, <1>3, <1>5, <2>2 DEF DrawsOK
    <2> QED BY <2>1, <2>3, <2>4, <2>5, <2>6 DEF TypeOK
  <1>13. AnswersOwner' /\ KeysGiven'
    BY <1>1, <1>6, LoginStays DEF GivenInv, AnswersOwner, KeysGiven
  <1> QED BY <1>9, <1>11, <1>12, <1>13 DEF GivenInv

----------------------------------------------------------------------------
\* SETEX of a token its user logged in for.
LEMMA SetKeyKeeps ==
  ASSUME GivenInv, NEW k \in 1 .. drawn, NEW n \in Names, LoggedIn(k, n), SetKey(k, n),
         UNCHANGED <<users, clock, drawn, mixed, opened>>
  PROVE  RedisOK' /\ KeysGiven'
  <1>1. RedisOK /\ KeysGiven /\ clock \in Nat
    BY DEF GivenInv, TypeOK, CountsOK
  <1>2. /\ DOMAIN redis' = DOMAIN redis \cup {k}
        /\ redis'[k] = [user |-> n, until |-> clock + Ttl]
        /\ \A x \in DOMAIN redis : x # k => redis'[x] = redis[x]
        /\ redis' = [x \in DOMAIN redis' |-> redis'[x]]
    BY DEF SetKey
  <1>3. RedisOK'
    BY <1>1, <1>2 DEF RedisOK, Key
  <1>4. KeysGiven'
    BY <1>1, <1>2 DEF KeysGiven, LoggedIn, Registered
  <1> QED BY <1>3, <1>4

\* EXPIRE changes how long a key lives and nothing else.
LEMMA ExtendedKeeps ==
  ASSUME GivenInv, NEW k, redis' = Extended(k), UNCHANGED <<users, clock, drawn, mixed, opened>>
  PROVE  RedisOK' /\ KeysGiven'
  <1>1. RedisOK /\ KeysGiven /\ clock \in Nat
    BY DEF GivenInv, TypeOK, CountsOK
  <1>2. CASE ~Live(k)
    BY <1>1, <1>2 DEF Extended, RedisOK, KeysGiven, Key, LoggedIn, Registered
  <1>3. CASE Live(k)
    <2>1. redis' = [redis EXCEPT ![k].until = clock + Ttl] /\ k \in DOMAIN redis
      BY <1>3 DEF Extended, Live
    <2>2. /\ DOMAIN redis' = DOMAIN redis /\ redis' = [x \in DOMAIN redis |-> redis'[x]]
          /\ redis'[k] = [user |-> redis[k].user, until |-> clock + Ttl]
          /\ \A x \in DOMAIN redis : x # k => redis'[x] = redis[x]
      BY <1>1, <2>1 DEF RedisOK, Key
    <2>3. RedisOK'
      BY <1>1, <2>1, <2>2 DEF RedisOK, Key
    <2>4. \A x \in DOMAIN redis' : x \in DOMAIN redis /\ redis'[x].user = redis[x].user
      BY <2>2
    <2>5. ASSUME NEW x \in DOMAIN redis' PROVE LoggedIn(x, redis[x].user)'
      <3>1. LoggedIn(x, redis[x].user) /\ redis'[x].user = redis[x].user
        BY <1>1, <2>4 DEF KeysGiven
      <3> QED BY <3>1 DEF LoggedIn, Registered
    <2> QED BY <2>3, <2>5 DEF KeysGiven
  <1> QED BY <1>2, <1>3

\* A step on Redis that keeps what its keys stand for.
LEMMA RedisStep ==
  ASSUME GivenInv, NEW t \in Threads, RedisOK', KeysGiven',
         UNCHANGED <<users, clock, drawn, mixed, leaked, opened, seen>>,
         \A u \in Threads \ {t} : Kept(u),
         DOMAIN pc' = Threads, DOMAIN req' = Threads, RequestOK(t)', Knows(t)',
         {issued', faults'} \subseteq Nat
  PROVE  GivenInv'
  <1>1. Onward /\ Remembered /\ TypeOK
    BY DEF GivenInv, Onward, Remembered, TypeOK, CountsOK
  <1>2. UsersOK' /\ HistoryOK' /\ DrawsOK'
    BY <1>1 DEF TypeOK, UsersOK, HistoryOK, DrawsOK
  <1>3. ThreadsOK' /\ CountsOK'
    BY <1>1, ThreadsTyped DEF TypeOK, ThreadsOK, CountsOK
  <1>4. TypeOK'
    BY <1>2, <1>3 DEF TypeOK
  <1>5. AnswersOwner'
    BY DEF GivenInv, AnswersOwner, LoggedIn, Registered
  <1> QED BY <1>1, <1>4, <1>5, ForwardStep

LEMMA SaveInv ==
  ASSUME GivenInv, NEW t \in Threads, pc[t] = "save", SetKey(req[t].token, req[t].name), Reply(t),
         UNCHANGED <<users, clock, drawn, mixed, leaked, opened, seen>>, faults' \in Nat
  PROVE  GivenInv'
  <1>1. TypeOK /\ req[t] \in SaveReq /\ LoggedIn(req[t].token, req[t].name) /\ issued \in Nat
    BY DEF GivenInv, TypeOK, ThreadsOK, CountsOK, RequestOK, Knows
  <1>2. req[t].token \in 1 .. drawn /\ req[t].name \in Names
    BY <1>1 DEF SaveReq
  <1>3. RedisOK' /\ KeysGiven'
    BY <1>1, <1>2, SetKeyKeeps
  <1>4. RequestOK(t)' /\ Knows(t)'
    BY <1>1, ReplyFrame DEF RequestOK, Knows
  <1> QED BY <1>1, <1>3, <1>4, ReplyFrame, RedisStep

LEMMA TouchInv ==
  ASSUME GivenInv, NEW t \in Threads, Touch(t)
  PROVE  GivenInv'
  <1>1. /\ TypeOK /\ req[t] \in UseReq /\ LoggedIn(req[t].token, req[t].name)
        /\ issued \in Nat /\ faults' \in Nat /\ clock \in Nat
        /\ UNCHANGED <<users, clock, drawn, mixed, leaked, opened, seen>>
    BY DEF GivenInv, Touch, At, history, TypeOK, ThreadsOK, CountsOK, RequestOK, Knows
  <1>2. redis' = Extended(req[t].token) /\ Goto(t, "find", req[t])
    BY DEF Touch
  <1>3. RedisOK' /\ KeysGiven'
    BY <1>1, <1>2, ExtendedKeeps
  <1>4. pc'[t] = "find" /\ req'[t] = [req[t] EXCEPT !.at = clock]
    BY <1>1, <1>2, GotoFrame
  <1>5. req'[t] \in UseReq' /\ req'[t].token = req[t].token /\ req'[t].name = req[t].name
    BY <1>1, <1>4 DEF UseReq
  <1>6. RequestOK(t)' /\ Knows(t)'
    BY <1>1, <1>4, <1>5 DEF RequestOK, Knows, LoggedIn, Registered
  <1> QED BY <1>1, <1>2, <1>3, <1>6, GotoFrame, RedisStep

LEMMA GetInv ==
  ASSUME GivenInv, NEW t \in Threads, Get(t)
  PROVE  GivenInv'
  <1>1. /\ TypeOK /\ req[t] \in GetReq /\ RedisOK /\ KeysGiven
        /\ {leaked', issued, faults', clock} \subseteq Nat
        /\ UNCHANGED <<users, redis, clock, drawn, mixed, leaked, opened, seen>>
    BY DEF GivenInv, Get, At, history, TypeOK, ThreadsOK, CountsOK, RequestOK
  <1>2. CASE ~Live(req[t].token)
    <2>1. Reply(t)
      BY <1>2 DEF Get
    <2> QED BY <1>1, <2>1, ReplyStep
  <1>3. CASE Live(req[t].token)
    <2> DEFINE k == req[t].token
               r == [op |-> "use", token |-> k, at |-> clock, name |-> redis[k].user,
                     left |-> redis[k].until - clock]
    <2>1. Goto(t, "touch", r) /\ k \in DOMAIN redis
      BY <1>3 DEF Get, Live
    <2>2. pc'[t] = "touch" /\ req'[t] = [r EXCEPT !.at = clock]
      BY <1>1, <2>1, GotoFrame
    <2>3. redis[k].user \in Names /\ redis[k].until - clock \in 0 .. Ttl /\ k \in 1 .. drawn
      BY <1>1, <2>1 DEF RedisOK, Key
    <2>4. req'[t] \in UseReq' /\ req'[t].token = k /\ req'[t].name = redis[k].user
      BY <1>1, <2>2, <2>3 DEF UseReq
    <2>5. RequestOK(t)' /\ Knows(t)'
      BY <1>1, <2>1, <2>2, <2>4 DEF RequestOK, Knows, KeysGiven, LoggedIn, Registered
    <2>6. issued' \in Nat
      BY <1>1, <2>1, GotoFrame
    <2> QED BY <1>1, <2>1, <2>5, <2>6, GotoFrame, OwnStep
  <1> QED BY <1>2, <1>3

LEMMA FindUserInv ==
  ASSUME GivenInv, NEW t \in Threads, FindUser(t)
  PROVE  GivenInv'
  <1>1. /\ TypeOK /\ req[t] \in UseReq /\ LoggedIn(req[t].token, req[t].name)
        /\ UNCHANGED <<users, redis, clock, drawn, mixed, leaked, opened, faults>>
        /\ seen' = seen \cup {<<req[t].token, req[t].name>>} /\ Reply(t)
    BY DEF GivenInv, FindUser, At, TypeOK, ThreadsOK, RequestOK, Knows
  <1>2. Onward /\ Remembered
    BY <1>1 DEF Onward, Remembered, TypeOK, CountsOK
  <1>3. RequestOK(t)' /\ Knows(t)'
    BY <1>1, ReplyFrame DEF RequestOK, Knows
  <1>4. TypeOK'
    <2>1. UsersOK' /\ RedisOK' /\ HistoryOK' /\ DrawsOK'
      BY <1>1 DEF TypeOK, UsersOK, RedisOK, HistoryOK, DrawsOK, UseReq, Key
    <2>2. ThreadsOK' /\ CountsOK'
      BY <1>1, <1>2, <1>3, ReplyFrame, ThreadsTyped DEF TypeOK, ThreadsOK, CountsOK
    <2> QED BY <2>1, <2>2 DEF TypeOK
  <1>5. AnswersOwner' /\ KeysGiven'
    BY <1>1 DEF GivenInv, AnswersOwner, KeysGiven, LoggedIn, Registered
  <1> QED BY <1>1, <1>2, <1>3, <1>4, <1>5, ReplyFrame, ForwardStep

----------------------------------------------------------------------------
\* The steps that end a request and change nothing of accounts or sessions.
LEMMA EndInv ==
  ASSUME GivenInv, NEW t \in Threads, ReadBack(t) \/ Fail(t) \/ CutReply(t)
  PROVE  GivenInv'
  <1>1. {leaked, faults} \subseteq Nat
    BY DEF GivenInv, TypeOK, CountsOK
  <1>2. /\ Reply(t) /\ UNCHANGED <<users, redis, clock, drawn, mixed, opened, seen>>
        /\ leaked' \in {leaked, leaked + 1} /\ faults' \in {faults, faults + 1}
    BY DEF ReadBack, Fail, CutReply, history
  <1> QED BY <1>1, <1>2, ReplyStep

LEMMA DropReplyInv ==
  ASSUME GivenInv, NEW t \in Threads, DropReply(t)
  PROVE  GivenInv'
  <1>1. /\ TypeOK /\ issued \in Nat /\ faults' \in Nat /\ Reply(t)
        /\ UNCHANGED <<users, clock, drawn, mixed, leaked, opened, seen>>
    BY DEF GivenInv, TypeOK, CountsOK, DropReply, history
  <1>2. CASE pc[t] = "save"
    BY <1>1, <1>2, SaveInv DEF DropReply, At
  <1>3. CASE pc[t] # "save"
    <2>1. redis' = Extended(req[t].token)
      BY <1>3 DEF DropReply, At
    <2>2. RedisOK' /\ KeysGiven'
      BY <1>1, <2>1, ExtendedKeeps
    <2>3. RequestOK(t)' /\ Knows(t)'
      BY <1>1, ReplyFrame DEF RequestOK, Knows
    <2> QED BY <1>1, <2>2, <2>3, ReplyFrame, RedisStep
  <1> QED BY <1>2, <1>3

LEMMA RestartInv ==
  ASSUME GivenInv, Restart
  PROVE  GivenInv'
  <1>1. /\ TypeOK /\ UNCHANGED <<users, redis, clock, drawn, opened, seen, issued>> /\ mixed' = {}
        /\ leaked' \in Nat /\ faults' \in Nat
        /\ pc' = [t \in Threads |-> "idle"] /\ req' = [t \in Threads |-> NoRequest]
    BY DEF GivenInv, TypeOK, CountsOK, Restart, history
  <1>2. TypeOK'
    BY <1>1 DEF TypeOK, UsersOK, RedisOK, Key, ThreadsOK, RequestOK, HistoryOK, DrawsOK, CountsOK
  <1>3. AnswersOwner' /\ KeysGiven'
    BY <1>1 DEF GivenInv, AnswersOwner, KeysGiven, LoggedIn, Registered
  <1>4. \A t \in Threads : Knows(t)'
    BY <1>1 DEF Knows
  <1> QED BY <1>2, <1>3, <1>4 DEF GivenInv

LEMMA TickInv ==
  ASSUME GivenInv, Tick
  PROVE  GivenInv'
  <1>1. /\ TypeOK /\ UNCHANGED <<users, drawn, mixed, leaked, pc, req, opened, seen, issued, faults>>
        /\ clock \in Nat /\ clock' = clock + 1
        /\ redis' = [k \in {x \in DOMAIN redis : redis[x].until > clock'} |-> redis[k]]
    BY DEF GivenInv, TypeOK, CountsOK, Tick, history
  <1>2. Onward /\ Remembered /\ \A t \in Threads : Kept(t)
    BY <1>1 DEF Onward, Remembered, Kept, TypeOK, CountsOK
  <1>3. RedisOK'
    <2>1. DOMAIN redis' \subseteq DOMAIN redis /\ \A k \in DOMAIN redis' : redis'[k] = redis[k]
      BY <1>1
    <2>2. \A k \in DOMAIN redis : /\ redis[k].until > clock' <=> k \in DOMAIN redis'
                                  /\ redis[k].until <= clock + Ttl /\ redis[k] \in Key
      BY <1>1 DEF TypeOK, RedisOK
    <2>3. \A k \in DOMAIN redis' : clock' < redis'[k].until /\ redis'[k].until <= clock' + Ttl
      BY <1>1, <2>1, <2>2 DEF Key
    <2>4. redis' \in [DOMAIN redis' -> Key]
      BY <1>1, <2>2
    <2>5. DOMAIN redis' \subseteq 1 .. drawn'
      BY <1>1, <2>1 DEF TypeOK, RedisOK
    <2> QED BY <2>3, <2>4, <2>5 DEF RedisOK, Key
  <1>4. TypeOK'
    <2>1. \A t \in Threads : RequestOK(t)'
      BY <1>1, <1>2, RequestStays
    <2>2. UsersOK' /\ HistoryOK' /\ DrawsOK'
      BY <1>1 DEF TypeOK, UsersOK, HistoryOK, DrawsOK
    <2>3. ThreadsOK' /\ CountsOK'
      BY <1>1, <2>1 DEF TypeOK, ThreadsOK, CountsOK
    <2> QED BY <1>3, <2>2, <2>3 DEF TypeOK
  <1>5. AnswersOwner' /\ KeysGiven'
    BY <1>1 DEF GivenInv, AnswersOwner, KeysGiven, LoggedIn, Registered
  <1>6. \A t \in Threads : Knows(t)'
    BY <1>2, KnowsStays DEF GivenInv
  <1> QED BY <1>4, <1>5, <1>6 DEF GivenInv

LEMMA StutterInv ==
  ASSUME GivenInv, UNCHANGED vars
  PROVE  GivenInv'
  <1>1. /\ TypeOK /\ Onward /\ Remembered /\ \A t \in Threads : Kept(t)
        /\ UNCHANGED <<users, redis, clock, drawn, mixed, leaked, pc, req, opened, seen, issued, faults>>
    BY DEF GivenInv, vars, history, Onward, Remembered, Kept, TypeOK, CountsOK
  <1>2. TypeOK'
    BY <1>1, RequestStays
       DEF TypeOK, UsersOK, RedisOK, Key, ThreadsOK, HistoryOK, DrawsOK, CountsOK
  <1>3. AnswersOwner' /\ KeysGiven'
    BY <1>1 DEF GivenInv, AnswersOwner, KeysGiven, LoggedIn, Registered
  <1>4. \A t \in Threads : Knows(t)'
    BY <1>1, KnowsStays DEF GivenInv
  <1> QED BY <1>2, <1>3, <1>4 DEF GivenInv

LEMMA NextInv == GivenInv /\ [Next]_vars => GivenInv'
  <1> SUFFICES ASSUME GivenInv, [Next]_vars PROVE GivenInv'
    OBVIOUS
  <1>1. ASSUME NEW t \in Threads, Step(t) PROVE GivenInv'
    <2>1. CASE Save(t)
      BY <2>1, SaveInv DEF Save, At, history, GivenInv, TypeOK, CountsOK
    <2> QED BY <1>1, <2>1, InsertInv, EndInv, LookupInv, DrawInv, GetInv, TouchInv, FindUserInv
            DEF Step
  <1>2. CASE \E t \in Threads : Begin(t) \/ Step(t) \/ Fail(t) \/ DropReply(t) \/ CutReply(t)
    BY <1>1, <1>2, BeginInv, EndInv, DropReplyInv
  <1> QED BY <1>2, RestartInv, TickInv, StutterInv DEF Next

----------------------------------------------------------------------------
\* Every key of Redis and every request under way stands for a login with the right
\* password, and every request answered was one (AuthRoutes.cpp 8-60).
THEOREM GivenInvHolds == Spec => []GivenInv
  <1> QED BY InitInv, NextInv, PTL DEF Spec

\* A request is answered only as a user whose password its token was given for.
THEOREM AnswersOwnerHolds == Spec => []AnswersOwner
  <1>1. GivenInv => AnswersOwner
    BY DEF GivenInv
  <1> QED BY <1>1, GivenInvHolds, PTL

\* Only a login makes a session key; EXPIRE never brings one back.
THEOREM OnlyLoginOpensHolds == Spec => OnlyLoginOpens
  <1> DEFINE New == \A k \in DOMAIN redis' \ DOMAIN redis :
                      \E t \in Threads : pc[t] = "save" /\ req[t].token = k
  <1>1. ASSUME [Next]_vars PROVE New
    <2>1. CASE UNCHANGED redis
      BY <2>1
    <2>2. CASE Tick
      <3>1. DOMAIN redis' \subseteq DOMAIN redis
        BY <2>2 DEF Tick
      <3> QED BY <3>1
    <2>3. ASSUME NEW k, redis' = Extended(k) PROVE New
      BY <2>3 DEF Extended, Live
    <2>4. ASSUME NEW t \in Threads, pc[t] = "save", SetKey(req[t].token, req[t].name) PROVE New
      BY <2>4 DEF SetKey
    <2>5. ASSUME NEW t \in Threads, ~ UNCHANGED redis, Step(t) \/ DropReply(t) PROVE New
      BY <2>3, <2>4, <2>5
         DEF Step, InsertUser, ReadBack, Lookup, Draw, Save, Get, Touch, FindUser, DropReply, At
    <2>6. CASE Restart \/ (Quiet /\ UNCHANGED vars) \/ UNCHANGED vars
               \/ \E t \in Threads : Begin(t) \/ Fail(t) \/ CutReply(t)
      BY <2>1, <2>6 DEF Restart, vars, Begin, Fail, CutReply
    <2> QED BY <1>1, <2>1, <2>2, <2>5, <2>6 DEF Next
  <1> QED BY <1>1, PTL DEF Spec, OnlyLoginOpens

\* Where calls of newToken do not overlap, each token is given to one user.
THEOREM TokensApart ==
  ASSUME ~ SharedDraws
  PROVE  Spec => []TokenOfOne
  <1> DEFINE I == GivenInv /\ TokenOfOne
  <1>1. Init => I
    BY InitInv DEF Init, TokenOfOne
  <1>2. I /\ [Next]_vars => I'
    <2> SUFFICES ASSUME I, [Next]_vars PROVE TokenOfOne'
      BY NextInv
    <2>1. CASE UNCHANGED opened
      BY <2>1 DEF TokenOfOne
    <2>2. ASSUME NEW t \in Threads, Draw(t) PROVE TokenOfOne'
      <3>1. opened' = opened \cup {[token |-> drawn + 1, name |-> req[t].name,
                                    password |-> req[t].password]}
        BY <2>2 DEF Draw
      <3>2. \A o \in opened : o.token # drawn + 1
        BY DEF GivenInv, TypeOK, HistoryOK, CountsOK
      <3> QED BY <3>1, <3>2 DEF TokenOfOne
    <2>3. ASSUME NEW t \in Threads, Step(t), ~ Draw(t) PROVE UNCHANGED opened
      BY <2>3 DEF Step, InsertUser, ReadBack, Lookup, Save, Get, Touch, FindUser, history
    <2>4. CASE Restart \/ Tick \/ UNCHANGED vars
               \/ \E t \in Threads : Begin(t) \/ Fail(t) \/ DropReply(t) \/ CutReply(t)
      BY <2>1, <2>4 DEF Restart, Tick, vars, Begin, Fail, DropReply, CutReply, history
    <2> QED BY <2>1, <2>2, <2>3, <2>4 DEF Next
  <1> QED BY <1>1, <1>2, PTL DEF Spec

----------------------------------------------------------------------------
\* How long a session lives.

\* LivesTill by this clock and these keys.
Lives(k, time, c, keys) == c < time => k \in DOMAIN keys /\ keys[k].until >= time

\* No key is gone, and none ends sooner.
Longer == \A k \in DOMAIN redis : k \in DOMAIN redis' /\ redis'[k].until >= redis[k].until

LEMMA KeysLonger ==
  ASSUME TypeOK, NEW k, UNCHANGED redis \/ redis' = Extended(k) \/ \E n \in Names : SetKey(k, n)
  PROVE  Longer
  <1>1. /\ redis \in [DOMAIN redis -> Key] /\ clock \in Nat
        /\ \A x \in DOMAIN redis : redis[x].until \in Nat /\ redis[x].until <= clock + Ttl
    BY DEF TypeOK, RedisOK, CountsOK, Key
  <1>2. CASE UNCHANGED redis
    BY <1>1, <1>2 DEF Longer
  <1>3. CASE redis' = Extended(k)
    <2>1. CASE Live(k)
      <3>1. redis' = [redis EXCEPT ![k].until = clock + Ttl]
        BY <1>3, <2>1 DEF Extended
      <3>2. \A x \in DOMAIN redis : redis'[x].until = IF x = k THEN clock + Ttl ELSE redis[x].until
        BY <1>1, <3>1 DEF Key
      <3> QED BY <1>1, <3>1, <3>2 DEF Longer
    <2>2. CASE ~Live(k)
      BY <1>1, <1>3, <2>2 DEF Extended, Longer
    <2> QED BY <2>1, <2>2
  <1>4. ASSUME NEW n \in Names, SetKey(k, n) PROVE Longer
    BY <1>1, <1>4 DEF SetKey, Longer
  <1> QED BY <1>2, <1>3, <1>4

\* A handler that stands still is as late as before.
LEMMA InTimeStays ==
  ASSUME TypeOK, TypeOK', NEW u \in Threads, InTime(u), Longer, clock' = clock,
         pc'[u] = pc[u], req'[u] = req[u] \/ (At(u, "draw") /\ req'[u].at = req[u].at)
  PROVE  InTime(u)'
  <1>1. /\ \A k \in DOMAIN redis : redis[k].until \in Nat
        /\ \A k \in DOMAIN redis' : redis'[k].until \in Nat
    BY DEF TypeOK, RedisOK, Key
  <1>2. CASE At(u, "touch") \/ At(u, "find")
    <2>1. req[u] \in UseReq /\ req'[u] = req[u]
      BY <1>2 DEF TypeOK, ThreadsOK, RequestOK, At
    <2>2. req[u].at \in Nat /\ req[u].left \in Nat /\ clock \in Nat
      BY <2>1 DEF UseReq, TypeOK, CountsOK
    <2>3. ASSUME NEW k, NEW time \in Nat, LivesTill(k, time) PROVE Lives(k, time, clock', redis')
      BY <1>1, <2>3 DEF Lives, LivesTill, Longer, Live
    <2>4. req[u].at + req[u].left \in Nat /\ req[u].at + Ttl \in Nat
      BY <2>2
    <2>5. At(u, "touch") => Lives(req[u].token, req[u].at + req[u].left, clock', redis')
      BY <2>3, <2>4 DEF InTime
    <2>6. At(u, "find") /\ req[u].left > Delay => Lives(req[u].token, req[u].at + Ttl, clock', redis')
      BY <2>3, <2>4 DEF InTime
    <2> QED BY <1>2, <2>1, <2>5, <2>6 DEF InTime, At, Lives, LivesTill, Live
  <1>3. CASE ~At(u, "touch") /\ ~At(u, "find")
    BY <1>3 DEF InTime, At
  <1> QED BY <1>2, <1>3

\* The handler that has just moved.
LEMMA Prompt ==
  ASSUME TypeOK', clock' = clock, NEW t \in Threads,
         pc'[t] = "idle" \/ (pc'[t] \notin {"touch", "find"} /\ req'[t].at = clock)
  PROVE  InTime(t)'
  <1>1. clock' \in Nat
    BY DEF TypeOK, CountsOK
  <1> QED BY <1>1 DEF InTime, At

LEMMA OneMoves ==
  ASSUME SessionInv, GivenInv', NEW t \in Threads, Longer, clock' = clock, InTime(t)',
         \A u \in Threads \ {t} : Kept(u)
  PROVE  SessionInv'
  <1>1. \A u \in Threads \ {t} : InTime(u)'
    BY InTimeStays DEF SessionInv, GivenInv, Kept
  <1> QED BY <1>1 DEF SessionInv

LEMMA ReplyInTime ==
  ASSUME SessionInv, GivenInv', NEW t \in Threads, Longer, clock' = clock, Reply(t)
  PROVE  SessionInv'
  <1>1. TypeOK /\ TypeOK'
    BY DEF SessionInv, GivenInv
  <1> QED BY <1>1, ReplyFrame, Prompt, OneMoves

LEMMA GotoInTime ==
  ASSUME SessionInv, GivenInv', NEW t \in Threads, UNCHANGED redis, clock' = clock,
         NEW label \in {"insert", "readback", "lookup", "draw", "save", "get"},
         Goto(t, label, req[t]), pc[t] \in {"insert", "lookup"}
  PROVE  SessionInv'
  <1>1. TypeOK /\ TypeOK' /\ Longer
    BY KeysLonger DEF SessionInv, GivenInv
  <1>2. req[t] \in AccountReq
    BY <1>1 DEF TypeOK, ThreadsOK, RequestOK
  <1>3. pc'[t] = label /\ req'[t] = [req[t] EXCEPT !.at = clock] /\ \A u \in Threads \ {t} : Kept(u)
    BY <1>1, GotoFrame
  <1>4. req'[t].at = clock
    BY <1>2, <1>3 DEF AccountReq
  <1>5. InTime(t)'
    BY <1>1, <1>3, <1>4, Prompt
  <1> QED BY <1>1, <1>3, <1>5, OneMoves

LEMMA BeginInTime ==
  ASSUME SessionInv, GivenInv', NEW t \in Threads, Begin(t)
  PROVE  SessionInv'
  <1>1. TypeOK /\ TypeOK' /\ Longer /\ clock' = clock
    BY KeysLonger DEF SessionInv, GivenInv, Begin
  <1>2. DOMAIN pc = Threads /\ DOMAIN req = Threads
    BY <1>1 DEF TypeOK, ThreadsOK
  <1>3. pc'[t] \in {"insert", "lookup", "get"} /\ req'[t].at = clock /\ \A u \in Threads \ {t} : Kept(u)
    BY <1>2 DEF Begin, Kept
  <1> QED BY <1>1, <1>3, Prompt, OneMoves

LEMMA DrawInTime ==
  ASSUME SessionInv, GivenInv', NEW t \in Threads, Draw(t)
  PROVE  SessionInv'
  <1>1. TypeOK /\ TypeOK' /\ Longer /\ clock' = clock
    BY KeysLonger DEF SessionInv, GivenInv, Draw
  <1>2. DOMAIN pc = Threads /\ DOMAIN req = Threads /\ pc' = [pc EXCEPT ![t] = "save"]
    BY <1>1 DEF TypeOK, ThreadsOK, Draw
  <1>3. PICK k : req' = [req EXCEPT ![t] = [op |-> "login", token |-> k, name |-> req[t].name,
                                            at |-> clock]]
    BY DEF Draw
  <1>4. req'[t].at = clock /\ pc'[t] = "save"
    BY <1>2, <1>3
  <1>5. InTime(t)'
    BY <1>1, <1>4, Prompt
  <1>6. \A u \in Threads \ {t} : Kept(u)
    BY <1>2, <1>3 DEF Kept
  <1> QED BY <1>1, <1>5, <1>6, OneMoves

LEMMA GetInTime ==
  ASSUME SessionInv, GivenInv', NEW t \in Threads, Get(t)
  PROVE  SessionInv'
  <1>1. TypeOK /\ TypeOK' /\ Longer /\ UNCHANGED <<redis, clock>> /\ clock \in Nat /\ RedisOK
    BY KeysLonger DEF SessionInv, GivenInv, Get, TypeOK, CountsOK
  <1>2. CASE ~Live(req[t].token)
    BY <1>1, <1>2, ReplyInTime DEF Get
  <1>3. CASE Live(req[t].token)
    <2> DEFINE k == req[t].token
               r == [op |-> "use", token |-> k, at |-> clock, name |-> redis[k].user,
                     left |-> redis[k].until - clock]
    <2>1. Goto(t, "touch", r) /\ k \in DOMAIN redis
      BY <1>3 DEF Get, Live
    <2>2. pc'[t] = "touch" /\ req'[t] = [r EXCEPT !.at = clock] /\ \A u \in Threads \ {t} : Kept(u)
      BY <1>1, <2>1, GotoFrame
    <2>3. redis[k].until \in Nat
      BY <1>1, <2>1 DEF RedisOK, Key
    <2>4. req'[t].token = k /\ req'[t].at = clock /\ req'[t].left = redis[k].until - clock
      BY <2>2
    <2> HIDE DEF k, r
    <2>5. InTime(t)'
      BY <1>1, <2>1, <2>2, <2>3, <2>4 DEF InTime, Lives, LivesTill, Live, At
    <2> QED BY <1>1, <2>2, <2>5, OneMoves
  <1> QED BY <1>2, <1>3

\* The EXPIRE comes within Delay of the GET, and so before the key ends if more was left.
LEMMA TouchInTime ==
  ASSUME SessionInv, GivenInv', NEW t \in Threads, Touch(t)
  PROVE  SessionInv'
  <1> DEFINE k == req[t].token
  <1>1. /\ TypeOK /\ TypeOK' /\ clock' = clock /\ clock \in Nat /\ InTime(t) /\ pc[t] = "touch"
        /\ redis' = Extended(k) /\ Goto(t, "find", req[t]) /\ req[t] \in UseReq
    BY DEF SessionInv, GivenInv, Touch, TypeOK, CountsOK, ThreadsOK, RequestOK, At
  <1>2. Longer
    BY <1>1, KeysLonger
  <1>3. pc'[t] = "find" /\ req'[t] = [req[t] EXCEPT !.at = clock] /\ \A u \in Threads \ {t} : Kept(u)
    BY <1>1, GotoFrame
  <1>4. req'[t].token = k /\ req'[t].at = clock /\ req'[t].left = req[t].left
        /\ req[t].left \in Nat /\ req[t].at \in Nat
    BY <1>1, <1>3 DEF UseReq
  <1>5. ASSUME req[t].left > Delay PROVE Lives(k, clock + Ttl, clock', redis')
    <2>1. clock < req[t].at + req[t].left
      BY <1>1, <1>4, <1>5 DEF InTime, At
    <2>2. Live(k)
      BY <1>1, <2>1 DEF InTime, Lives, LivesTill, At
    <2>3. redis' = [redis EXCEPT ![k].until = clock + Ttl] /\ k \in DOMAIN redis
      BY <1>1, <2>2 DEF Extended, Live
    <2>4. redis[k] \in Key
      BY <1>1, <2>3 DEF TypeOK, RedisOK
    <2>5. k \in DOMAIN redis' /\ redis'[k].until = clock + Ttl
      BY <2>3, <2>4 DEF Key
    <2> QED BY <1>1, <2>5 DEF Lives, LivesTill, Live
  <1> HIDE DEF k
  <1>6. InTime(t)'
    BY <1>1, <1>3, <1>4, <1>5 DEF InTime, Lives, LivesTill, Live, At
  <1> QED BY <1>1, <1>2, <1>3, <1>6, OneMoves

\* The clock goes on only while no handler is held up longer than Delay.
LEMMA TickInTime ==
  ASSUME SessionInv, GivenInv', Tick
  PROVE  SessionInv'
  <1>1. /\ TypeOK /\ TypeOK' /\ UNCHANGED <<pc, req>> /\ clock' = clock + 1 /\ clock \in Nat
        /\ redis' = [k \in {x \in DOMAIN redis : redis[x].until > clock'} |-> redis[k]]
        /\ \A t \in Threads : pc[t] # "idle" => clock < req[t].at + Delay
    BY DEF SessionInv, GivenInv, TypeOK, CountsOK, Tick
  <1>2. ASSUME NEW k, NEW time \in Nat, LivesTill(k, time) PROVE Lives(k, time, clock', redis')
    <2>1. \A x \in DOMAIN redis : redis[x].until \in Nat
      BY <1>1 DEF TypeOK, RedisOK, Key
    <2> QED BY <1>1, <1>2, <2>1 DEF Lives, LivesTill, Live
  <1>3. ASSUME NEW t \in Threads PROVE InTime(t)'
    <2>1. CASE At(t, "touch") \/ At(t, "find")
      <3>1. req[t] \in UseReq
        BY <1>1, <2>1 DEF TypeOK, ThreadsOK, RequestOK, At
      <3>2. req[t].at \in Nat /\ req[t].left \in Nat
        BY <1>1, <3>1 DEF UseReq
      <3>3. req[t].at + req[t].left \in Nat /\ req[t].at + Ttl \in Nat /\ req[t].at + Delay \in Nat
        BY <3>2
      <3>4. At(t, "touch") => Lives(req[t].token, req[t].at + req[t].left, clock', redis')
        BY <1>2, <3>3 DEF SessionInv, InTime
      <3>5. At(t, "find") /\ req[t].left > Delay => Lives(req[t].token, req[t].at + Ttl, clock', redis')
        BY <1>2, <3>3 DEF SessionInv, InTime
      <3>6. clock' <= req[t].at + Delay
        BY <1>1, <2>1, <3>3 DEF At
      <3> QED BY <1>1, <3>4, <3>5, <3>6 DEF InTime, At, Lives, LivesTill, Live
    <2>2. CASE ~At(t, "touch") /\ ~At(t, "find")
      <3>1. pc[t] # "idle" => req[t].at \in Nat
        BY <1>1 DEF TypeOK, ThreadsOK, RequestOK, AccountReq, SaveReq, GetReq, UseReq
      <3> QED BY <1>1, <2>2, <3>1 DEF InTime, At
    <2> QED BY <2>1, <2>2
  <1> QED BY <1>3 DEF SessionInv

LEMMA EndsInTime ==
  ASSUME SessionInv, GivenInv', NEW t \in Threads,
         ReadBack(t) \/ Save(t) \/ FindUser(t) \/ Fail(t) \/ DropReply(t) \/ CutReply(t)
  PROVE  SessionInv'
  <1>1. TypeOK /\ Reply(t) /\ clock' = clock
    BY DEF SessionInv, GivenInv, ReadBack, Save, FindUser, Fail, DropReply, CutReply
  <1>2. Longer
    <2>1. CASE UNCHANGED redis \/ redis' = Extended(req[t].token)
      BY <1>1, <2>1, KeysLonger
    <2>2. CASE pc[t] = "save" /\ SetKey(req[t].token, req[t].name)
      <3>1. req[t].name \in Names
        BY <1>1, <2>2 DEF TypeOK, ThreadsOK, RequestOK, SaveReq
      <3> QED BY <1>1, <2>2, <3>1, KeysLonger
    <2> QED BY <2>1, <2>2 DEF ReadBack, Save, FindUser, Fail, DropReply, CutReply, At
  <1> QED BY <1>1, <1>2, ReplyInTime

LEMMA NextInTime == SessionInv /\ [Next]_vars => SessionInv'
  <1> SUFFICES ASSUME SessionInv, [Next]_vars PROVE SessionInv'
    OBVIOUS
  <1>1. GivenInv /\ GivenInv' /\ TypeOK
    BY NextInv DEF SessionInv, GivenInv
  <1>2. ASSUME NEW t \in Threads, InsertUser(t) \/ Lookup(t) PROVE SessionInv'
    <2>1. UNCHANGED redis /\ clock' = clock /\ Longer
      BY <1>1, <1>2, KeysLonger DEF InsertUser, Lookup
    <2>2. CASE Reply(t)
      BY <1>1, <2>1, <2>2, ReplyInTime
    <2>3. CASE ~Reply(t)
      <3>1. PICK label \in {"readback", "draw"} : Goto(t, label, req[t]) /\ pc[t] \in {"insert", "lookup"}
        BY <1>2, <2>3 DEF InsertUser, Lookup, At
      <3> QED BY <1>1, <2>1, <3>1, GotoInTime
    <2> QED BY <2>2, <2>3
  <1>3. CASE Restart
    BY <1>1, <1>3 DEF Restart, SessionInv, InTime, At
  <1>4. CASE UNCHANGED vars
    <2>1. Longer /\ TypeOK' /\ UNCHANGED <<clock, pc, req>>
      BY <1>1, <1>4, KeysLonger DEF vars, GivenInv
    <2> QED BY <1>1, <2>1, InTimeStays DEF SessionInv
  <1>5. ASSUME NEW t \in Threads, Begin(t) \/ Step(t) \/ Fail(t) \/ DropReply(t) \/ CutReply(t)
        PROVE  SessionInv'
    BY <1>1, <1>2, <1>5, BeginInTime, DrawInTime, GetInTime, TouchInTime, EndsInTime DEF Step
  <1> QED BY <1>1, <1>3, <1>4, <1>5, TickInTime DEF Next

\* What is known of sessions and handlers, and of their times.
THEOREM SessionInvHolds == Spec => []SessionInv
  <1>1. Init => SessionInv
    BY InitInv DEF Init, SessionInv, InTime, At
  <1> QED BY <1>1, NextInTime, PTL DEF Spec

\* A session in use is kept: when a request has done its EXPIRE, the session lives on for
\* Ttl if the GET found more life in it than a request can be held up (RedisSessionStore.cpp
\* 23-35), whatever logins, requests and faults there are besides.
THEOREM KeptAliveHolds == Spec => []KeptAlive
  <1>1. SessionInv => KeptAlive
    BY DEF SessionInv, KeptAlive, InTime, Lives, LivesTill
  <1> QED BY <1>1, SessionInvHolds, PTL
============================================================================
