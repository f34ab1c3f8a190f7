--------------------------- MODULE SessionsProps ---------------------------
(***************************************************************************)
(* What accounts and sessions promise, stated about Sessions.               *)
(***************************************************************************)
EXTENDS Sessions

AccountReq == [op : {"register", "login"}, name : Names, password : Passwords, at : 0 .. clock]
SaveReq    == [op : {"login"}, token : 1 .. drawn, name : Names, at : 0 .. clock]
GetReq     == [op : {"use"}, token : 1 .. drawn, at : 0 .. clock]
UseReq     == [op : {"use"}, token : 1 .. drawn, name : Names, left : 0 .. Ttl, at : 0 .. clock]

\* A handler's request fits where it is.
RequestOK(t) ==
  \/ pc[t] = "idle" /\ req[t] = NoRequest
  \/ pc[t] \in {"insert", "readback", "lookup", "draw"} /\ req[t] \in AccountReq
  \/ pc[t] = "save" /\ req[t] \in SaveReq
  \/ pc[t] = "get" /\ req[t] \in GetReq
  \/ pc[t] \in {"touch", "find"} /\ req[t] \in UseReq

UsersOK   == DOMAIN users \subseteq Names /\ users \in [DOMAIN users -> Passwords]
\* A session never lives longer than Ttl from now.
RedisOK   == /\ DOMAIN redis \subseteq 1 .. drawn /\ redis \in [DOMAIN redis -> Key]
             /\ \A k \in DOMAIN redis : clock < redis[k].until /\ redis[k].until <= clock + Ttl
ThreadsOK == /\ DOMAIN pc = Threads /\ DOMAIN req = Threads
             /\ \A t \in Threads : RequestOK(t)
HistoryOK == /\ opened \subseteq [token : 1 .. drawn, name : Names, password : Passwords]
             /\ seen \subseteq (1 .. drawn) \X Names
DrawsOK   == mixed \subseteq 1 .. drawn
CountsOK  == {clock, drawn, leaked, issued, faults} \subseteq Nat

\* The type invariant.
TypeOK == UsersOK /\ RedisOK /\ ThreadsOK /\ HistoryOK /\ DrawsOK /\ CountsOK

----------------------------------------------------------------------------
\* n logged in with the password of its account and was given k.
LoggedIn(k, n) == \E o \in opened : /\ o.token = k /\ o.name = n
                                    /\ Registered(n) /\ users[n] = o.password

\* A request is answered as n only with a token that n's password was given for,
\* however registrations, logins and other requests interleave, and also if two
\* logins were given the same token (AuthRoutes.cpp 35-43, RouteUtils.cpp 160-173).
AnswersOwner == \A a \in seen : LoggedIn(a[1], a[2])

\* What a handler knows from the steps it has done.
Knows(t) ==
  /\ pc[t] \in {"readback", "draw"} => /\ Registered(req[t].name)
                                       /\ users[req[t].name] = req[t].password
  /\ pc[t] \in {"save", "touch", "find"} => LoggedIn(req[t].token, req[t].name)

\* The inductive invariant behind it: what every key of Redis and every handler
\* stands for.
KeysGiven == \A k \in DOMAIN redis : LoggedIn(k, redis[k].user)
GivenInv  == TypeOK /\ AnswersOwner /\ KeysGiven /\ \A t \in Threads : Knows(t)

\* How late a handler can be, and how long the key it works on lives: for what was left
\* at its GET, and from its EXPIRE for Ttl.
LivesTill(k, time) == clock < time => Live(k) /\ redis[k].until >= time
InTime(t) ==
  /\ ~At(t, "idle") => clock <= req[t].at + Delay
  /\ At(t, "touch") => LivesTill(req[t].token, req[t].at + req[t].left)
  /\ At(t, "find") /\ req[t].left > Delay => LivesTill(req[t].token, req[t].at + Ttl)

SessionInv == GivenInv /\ \A t \in Threads : InTime(t)

\* A session that has ended is not revived by a request that was under way: only the
\* SETEX of a login makes a key, EXPIRE does not (RedisSessionStore.cpp 18-35).
OnlyLoginOpens ==
  [][\A k \in DOMAIN redis' \ DOMAIN redis : \E t \in Threads : pc[t] = "save" /\ req[t].token = k]_vars

\* A session in use lives on for Ttl after each use, if the GET found it with more
\* life left than a request can be held up between GET and EXPIRE
\* (RedisSessionStore.cpp 23-35).
KeptAlive ==
  \A t \in Threads : At(t, "find") /\ req[t].left > Delay /\ clock < req[t].at + Ttl
                     => Live(req[t].token)

----------------------------------------------------------------------------
\* "Once found, the TTL is refreshed" (RedisSessionStore.cpp 22): also if little was left.
Slides == \A t \in Threads : At(t, "find") /\ clock < req[t].at + Ttl => Live(req[t].token)

\* A token is given to one user.
TokenOfOne == \A o, p \in opened : o.token = p.token => o.name = p.name

\* "A short connection" for each command (RedisSessionStore.cpp 42): none is left open.
AllClosed == (\A t \in Threads : At(t, "idle")) => leaked = 0
============================================================================
