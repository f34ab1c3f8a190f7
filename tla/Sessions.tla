----------------------------- MODULE Sessions -----------------------------
(***************************************************************************)
(* Accounts and login sessions: AuthRoutes.cpp, RedisSessionStore.cpp, and  *)
(* requireUser, which every route that needs a login begins with.  A step   *)
(* is one statement or one Redis command; each command has a connection of  *)
(* its own, which can be refused, dropped, or cut in the middle of the      *)
(* reply.  Names and passwords are model values, and stand for those that   *)
(* pass validUsername and the length check and for their hashes.            *)
(***************************************************************************)
EXTENDS Integers, FiniteSets

CONSTANTS Names, Passwords, \* what clients register and log in with
          Threads,       \* Drogon's worker threads
          Ttl,           \* CLOUD_DISK_SESSION_TTL
          Delay,         \* the longest a request is held up between two steps
          SharedDraws,   \* whether calls of newToken that overlap disturb the generator
          MaxTime,       \* bound: the clock
          MaxRequests,   \* bound: requests handled in a behaviour
          MaxFaults      \* bound: statements and commands that fail

ASSUME TimesAssumption  == Ttl \in Nat \ {0} /\ Delay \in Nat
ASSUME BoundsAssumption == {MaxTime, MaxRequests, MaxFaults} \subseteq Nat
ASSUME DrawsAssumption  == SharedDraws \in BOOLEAN

VARIABLES users,  \* the rows of users: username -> password
          redis,  \* the session keys: token -> [user, until]
          clock,
          drawn,  \* how many tokens newToken has returned: 1 is the first
          mixed,  \* the tokens drawn while another call of newToken was under way
          leaked, \* descriptors that command() did not close
          pc, req, \* each thread: where it is, its request with its locals
          opened, \* history: [token, name, password] of every login that drew a token
          seen,   \* history: <<token, name>> of every request answered
          issued, faults \* bounds

history == <<opened, seen>>
vars    == <<users, redis, clock, drawn, mixed, leaked, pc, req, opened, seen, issued, faults>>

NoRequest == [op |-> "none"]
Key       == [user : Names, until : Nat]

Live(k)       == k \in DOMAIN redis
Registered(n) == n \in DOMAIN users

----------------------------------------------------------------------------
At(t, label) == pc[t] = label

\* Each step notes the time: the next one comes within Delay.
Goto(t, label, r) == /\ pc'  = [pc EXCEPT ![t] = label]
                     /\ req' = [req EXCEPT ![t] = [r EXCEPT !.at = clock]]
                     /\ UNCHANGED issued
Reply(t)          == /\ pc'  = [pc EXCEPT ![t] = "idle"]
                     /\ req' = [req EXCEPT ![t] = NoRequest]
                     /\ UNCHANGED issued

Begin(t) ==
  /\ At(t, "idle") /\ issued < MaxRequests
  /\ \/ \E n \in Names, p \in Passwords, op \in {"register", "login"} :
          /\ req' = [req EXCEPT ![t] = [op |-> op, name |-> n, password |-> p, at |-> clock]]
          /\ pc' = [pc EXCEPT ![t] = IF op = "register" THEN "insert" ELSE "lookup"]
     \/ \E k \in 1 .. drawn :
          /\ req' = [req EXCEPT ![t] = [op |-> "use", token |-> k, at |-> clock]]
          /\ pc' = [pc EXCEPT ![t] = "get"]
  /\ issued' = issued + 1
  /\ UNCHANGED <<users, redis, clock, drawn, mixed, leaked, history, faults>>

----------------------------------------------------------------------------
\* POST /api/user/register

\* The UNIQUE username decides; the second INSERT throws.
InsertUser(t) ==
  /\ At(t, "insert")
  /\ IF Registered(req[t].name)
     THEN Reply(t) /\ UNCHANGED users
     ELSE /\ users' = [n \in DOMAIN users \cup {req[t].name} |->
                         IF n = req[t].name THEN req[t].password ELSE users[n]]
          /\ Goto(t, "readback", req[t])
  /\ UNCHANGED <<redis, clock, drawn, mixed, leaked, history, faults>>

\* rows[0] is read without a look at rows.empty().  The row is there; what a falsely
\* empty answer of query() makes of it is undefined, and counts as a Fail.
ReadBack(t) ==
  /\ At(t, "readback") /\ Registered(req[t].name)
  /\ Reply(t)
  /\ UNCHANGED <<users, redis, clock, drawn, mixed, leaked, history, faults>>

----------------------------------------------------------------------------
\* POST /api/user/login

\* Faulty: the hash is not compared.
LookupName(t) ==
  /\ At(t, "lookup")
  /\ IF Registered(req[t].name) THEN Goto(t, "draw", req[t]) ELSE Reply(t)
  /\ UNCHANGED <<users, redis, clock, drawn, mixed, leaked, history, faults>>

Lookup(t) ==
  /\ At(t, "lookup")
  /\ IF Registered(req[t].name) /\ users[req[t].name] = req[t].password
     THEN Goto(t, "draw", req[t])
     ELSE Reply(t)
  /\ UNCHANGED <<users, redis, clock, drawn, mixed, leaked, history, faults>>

\* newToken's generator is static and has no lock.  Calls that overlap race for its
\* state; the late write of one sets it back, and then any call may return again what
\* was drawn meanwhile.
Draw(t) ==
  /\ At(t, "draw")
  /\ \E k \in {drawn + 1} \cup (IF SharedDraws THEN mixed ELSE {}) :
       /\ drawn' = IF k > drawn THEN k ELSE drawn
       /\ mixed' = IF \E u \in Threads \ {t} : At(u, "draw") THEN mixed \cup {k} ELSE mixed
       /\ opened' = opened \cup {[token |-> k, name |-> req[t].name, password |-> req[t].password]}
       /\ req' = [req EXCEPT ![t] = [op |-> "login", token |-> k, name |-> req[t].name,
                                     at |-> clock]]
  /\ pc' = [pc EXCEPT ![t] = "save"]
  /\ UNCHANGED <<users, redis, clock, leaked, seen, issued, faults>>

\* SETEX
SetKey(k, n) == redis' = [x \in DOMAIN redis \cup {k} |->
                            IF x = k THEN [user |-> n, until |-> clock + Ttl] ELSE redis[x]]
Save(t) ==
  /\ At(t, "save")
  /\ SetKey(req[t].token, req[t].name)
  /\ Reply(t)
  /\ UNCHANGED <<users, clock, drawn, mixed, leaked, history, faults>>

----------------------------------------------------------------------------
\* requireUser: GET, EXPIRE, then the row of the user.

Get(t) ==
  /\ At(t, "get")
  /\ IF Live(req[t].token)
     THEN Goto(t, "touch", [op |-> "use", token |-> req[t].token, at |-> clock,
                            name |-> redis[req[t].token].user,
                            left |-> redis[req[t].token].until - clock])
     ELSE Reply(t)
  /\ UNCHANGED <<users, redis, clock, drawn, mixed, leaked, history, faults>>

\* Faulty: SETEX once more instead of EXPIRE; no sliding.
TouchSave(t) ==
  /\ At(t, "touch")
  /\ SetKey(req[t].token, req[t].name)
  /\ Goto(t, "find", req[t])
  /\ UNCHANGED <<users, clock, drawn, mixed, leaked, history, faults>>
TouchNot(t) ==
  /\ At(t, "touch")
  /\ Goto(t, "find", req[t])
  /\ UNCHANGED <<users, redis, clock, drawn, mixed, leaked, history, faults>>

\* EXPIRE of a key that is gone does nothing, and its :0 is not looked at.
Extended(k) == IF Live(k) THEN [redis EXCEPT ![k].until = clock + Ttl] ELSE redis
Touch(t) ==
  /\ At(t, "touch")
  /\ redis' = Extended(req[t].token)
  /\ Goto(t, "find", req[t])
  /\ UNCHANGED <<users, clock, drawn, mixed, leaked, history, faults>>

\* findUserById; then the handler runs as that user.
FindUser(t) ==
  /\ At(t, "find")
  /\ seen' = seen \cup {<<req[t].token, req[t].name>>}
  /\ Reply(t)
  /\ UNCHANGED <<users, redis, clock, drawn, mixed, leaked, opened, faults>>

----------------------------------------------------------------------------
Commands == {"save", "get", "touch"}

\* A statement throws, or its result is falsely empty, and Lookup and FindUser refuse as if
\* there were no such user.  Or connect() or the command is refused, with -ERR or an
\* empty reply: the handler throws, and the descriptor is closed.
Fail(t) ==
  /\ pc[t] \notin {"idle", "draw"} /\ faults < MaxFaults /\ faults' = faults + 1
  /\ Reply(t)
  /\ UNCHANGED <<users, redis, clock, drawn, mixed, leaked, history>>

\* The command was carried out, and the connection dropped before its reply.
DropReply(t) ==
  /\ pc[t] \in Commands \ {"get"} /\ faults < MaxFaults /\ faults' = faults + 1
  /\ IF At(t, "save") THEN SetKey(req[t].token, req[t].name)
                      ELSE redis' = Extended(req[t].token)
  /\ Reply(t)
  /\ UNCHANGED <<users, clock, drawn, mixed, leaked, history>>

\* The reply of a GET is cut after its first byte: stoi or readBytes throws past the
\* close(fd).  (A cut "+OK" or ":1" is as good as a whole one.)
CutReply(t) ==
  /\ At(t, "get") /\ faults < MaxFaults /\ faults' = faults + 1
  /\ leaked' = leaked + 1
  /\ Reply(t)
  /\ UNCHANGED <<users, redis, clock, drawn, mixed, history>>

\* The server process ends and is started again, with a new generator; Redis and MySQL go on.
Restart ==
  /\ faults < MaxFaults /\ faults' = faults + 1
  /\ pc'  = [t \in Threads |-> "idle"]
  /\ req' = [t \in Threads |-> NoRequest]
  /\ leaked' = 0 /\ mixed' = {}
  /\ UNCHANGED <<users, redis, clock, drawn, history, issued>>

\* Redis drops the keys whose time has come.
Tick ==
  /\ clock < MaxTime
  /\ \A t \in Threads : pc[t] # "idle" => clock < req[t].at + Delay
  /\ clock' = clock + 1
  /\ redis' = [k \in {x \in DOMAIN redis : redis[x].until > clock'} |-> redis[k]]
  /\ UNCHANGED <<users, drawn, mixed, leaked, pc, req, history, issued, faults>>

Step(t) == \/ InsertUser(t) \/ ReadBack(t) \/ Lookup(t) \/ Draw(t) \/ Save(t)
           \/ Get(t) \/ Touch(t) \/ FindUser(t)

Quiet == issued = MaxRequests /\ \A t \in Threads : At(t, "idle")

Init == /\ users = [n \in {} |-> ""] /\ redis = [k \in {} |-> ""]
        /\ clock = 0 /\ drawn = 0 /\ mixed = {} /\ leaked = 0
        /\ pc = [t \in Threads |-> "idle"] /\ req = [t \in Threads |-> NoRequest]
        /\ opened = {} /\ seen = {}
        /\ issued = 0 /\ faults = 0

Next == \/ \E t \in Threads : Begin(t) \/ Step(t) \/ Fail(t) \/ DropReply(t) \/ CutReply(t)
        \/ Restart \/ Tick
        \/ Quiet /\ UNCHANGED vars

Spec == Init /\ [][Next]_vars
============================================================================
