---------------------------- MODULE Statements ----------------------------
(***************************************************************************)
(* What MySqlDatabase promises its callers (MySqlDatabase.h 13): a call of  *)
(* query() or execute() takes effect at one moment and is answered with     *)
(* what that statement did, or throws.  A call that throws may have taken   *)
(* effect; and a query may look empty although it is not, whether or not    *)
(* the connection is lost with it (MySqlDatabase.cpp 45-48): its caller     *)
(* cannot tell.  What the handlers make of that is Mislead of FileStore.    *)
(***************************************************************************)
CONSTANTS Threads, Rows

VARIABLES table,  \* what the database holds
          up,     \* the connection works
          call,   \* each thread: the call it waits for
          answer  \* each thread: what its last call returned

vars == <<table, up, call, answer>>

NoCall    == [op |-> "none"]
Calls     == [op : {"insert", "delete"}, row : Rows] \cup [op : {"select", "quote"}]
Thrown    == [kind |-> "thrown"]
Ok        == [kind |-> "ok"]
Result(S) == [kind |-> "rows", rows |-> S]
Answers   == {Thrown, Ok} \cup [kind : {"rows"}, rows : SUBSET Rows]

Apply(c, S) == CASE c.op = "insert" -> S \cup {c.row}
                 [] c.op = "delete" -> S \ {c.row}
                 [] OTHER           -> S
Honest(c, S) == IF c.op = "select" THEN Result(S) ELSE Ok

Answer(t, a) == /\ call'   = [call EXCEPT ![t] = NoCall]
                /\ answer' = [answer EXCEPT ![t] = a]

Ask(t) == /\ call[t] = NoCall
          /\ \E c \in Calls : call' = [call EXCEPT ![t] = c]
          /\ UNCHANGED <<table, up, answer>>

Escape(t) == /\ call[t] # NoCall /\ call[t].op = "quote"
             /\ Answer(t, Ok)
             /\ UNCHANGED <<table, up>>

\* Of a SELECT the answer may have come before the connection was lost.
Take(t) == /\ call[t] # NoCall /\ (up \/ call[t].op = "select")
           /\ table' = Apply(call[t], table)
           /\ Answer(t, Honest(call[t], table))
           /\ UNCHANGED up

Throw(t) == /\ call[t] # NoCall
            /\ table' \in {table, IF up THEN Apply(call[t], table) ELSE table}
            /\ up' \in {FALSE, up}
            /\ Answer(t, Thrown)

Mislead(t) == /\ call[t] # NoCall /\ call[t].op = "select"
              /\ Answer(t, Result({}))
              /\ up' \in {FALSE, up}
              /\ UNCHANGED table

Close == up' = FALSE /\ UNCHANGED <<table, call, answer>>

Start == /\ up' = TRUE
         /\ call' = [t \in Threads |-> NoCall]
         /\ answer' = [t \in Threads |-> Ok]
         /\ UNCHANGED table

Init == /\ table = {} /\ up = TRUE
        /\ call = [t \in Threads |-> NoCall]
        /\ answer = [t \in Threads |-> Ok]

Next == \/ \E t \in Threads : Ask(t) \/ Escape(t) \/ Take(t) \/ Throw(t) \/ Mislead(t)
        \/ Close \/ Start

Spec == Init /\ [][Next]_vars
============================================================================
