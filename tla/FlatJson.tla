----------------------------- MODULE FlatJson -----------------------------
(***************************************************************************)
(* parseFlatJsonObject (Json.cpp), which reads the body of every POST: one  *)
(* pass over the text, a step for each token and each character of a        *)
(* string.  A text is a sequence of characters; those that the parser or    *)
(* the check of a name tells apart are named here.  pos is one more than    *)
(* the pos of the code.                                                     *)
(***************************************************************************)
EXTENDS Integers, Sequences

CONSTANTS Characters, \* what texts are made of
          Requests    \* [text, how, fields]: a body, and what its client meant by it

Left      == "{"
Right     == "}"
Comma     == ","
Quote     == "quote"
Backslash == "backslash"
Space     == "space"
LineFeed  == "line feed"
Return    == "carriage return"
Spaces    == {Space, LineFeed, Return} \* isspace

ASSUME CharactersAssumption == LineFeed \in Characters
ASSUME RequestsAssumption   == \A r \in Requests : r.text \in Seq(Characters)

VARIABLES request, pos, mode,
          key,   \* the key that was read last
          out,   \* the string that is being read
          result \* key -> value

body == request.text
vars == <<request, pos, mode, key, out, result>>

----------------------------------------------------------------------------
Past == Len(body) + 1
Here(p, ch) == p < Past /\ body[p] = ch

First(S) == CHOOSE q \in S : \A r \in S : q <= r

\* skipSpaces: the first place from p on that is no space.
AfterSpaces(p) == First({q \in p .. Past : q < Past => body[q] \notin Spaces})

\* What parsePrimitive stops at, and what is left of it without the spaces at its end.
PrimitiveEnd(p) == First({q \in p .. Past : q < Past => body[q] \in {Comma, Right}})
Trimmed(p, end) ==
  SubSeq(body, p, First({l \in p - 1 .. end - 1 : \A i \in l + 1 .. end - 1 : body[i] \in Spaces}))

\* Faulty: as it stands.
Literal(ch) == ch

\* What a backslash and the character after it stand for (a tab is as a line feed).
Unescaped(ch) == IF ch = "n" THEN LineFeed ELSE ch

Goto(m, p) == mode' = m /\ pos' = p

Open ==
  /\ mode = "open"
  /\ LET q == AfterSpaces(pos) IN
     IF Here(q, Left) THEN Goto("item", q + 1) ELSE Goto("done", q)
  /\ UNCHANGED <<request, key, out, result>>

\* The head of the loop, and parseString called for the key: without a quote the key
\* is empty and nothing is read.
Item ==
  /\ mode = "item"
  /\ LET q == AfterSpaces(pos) IN
     CASE pos = Past \/ Here(q, Right) -> Goto("done", q)
       [] pos < Past /\ Here(q, Quote) -> Goto("key", q + 1)
       [] OTHER -> Goto("colon", q)
  /\ out' = <<>>
  /\ UNCHANGED <<request, key, result>>

\* Faulty: the loop goes on.
ContinueLoop ==
  /\ mode = "colon"
  /\ LET q == AfterSpaces(pos)
         v == AfterSpaces(q + 1)
     IN CASE ~Here(q, ":") -> Goto("item", q)
          [] Here(q, ":") /\ Here(v, Quote) -> Goto("text", v + 1)
          [] OTHER -> Goto("primitive", v)
  /\ key' = out /\ out' = <<>>
  /\ UNCHANGED <<request, result>>

\* Without a colon the rest is not read.
Colon ==
  /\ mode = "colon"
  /\ LET q == AfterSpaces(pos)
         v == AfterSpaces(q + 1)
     IN CASE ~Here(q, ":") -> Goto("done", q)
          [] Here(q, ":") /\ Here(v, Quote) -> Goto("text", v + 1)
          [] OTHER -> Goto("primitive", v)
  /\ key' = out /\ out' = <<>>
  /\ UNCHANGED <<request, result>>

\* result[key] = value, and the comma after it if there is one.
Store(value, p) ==
  /\ result' = [k \in DOMAIN result \cup {key} |-> IF k = key THEN value ELSE result[k]]
  /\ LET q == AfterSpaces(p) IN Goto("item", IF Here(q, Comma) THEN q + 1 ELSE q)

\* Faulty: past the end of the text as well.
CloseOver ==
  /\ mode \in {"key", "text"}
  /\ pos = Past \/ Here(pos, Quote)
  /\ IF mode = "key" THEN Goto("colon", pos + 1) /\ UNCHANGED result ELSE Store(out, pos + 1)
  /\ UNCHANGED <<request, key, out>>

\* parseString ends at a quote, or with the text.
Close ==
  /\ mode \in {"key", "text"}
  /\ pos = Past \/ Here(pos, Quote)
  /\ LET p == IF pos = Past THEN pos ELSE pos + 1 IN
     IF mode = "key" THEN Goto("colon", p) /\ UNCHANGED result ELSE Store(out, p)
  /\ UNCHANGED <<request, key, out>>

Put(ch, p) == out' = Append(out, ch) /\ pos' = p /\ UNCHANGED <<request, mode, key, result>>

\* A backslash at the very end is a character like others.
Plain == /\ mode \in {"key", "text"} /\ pos < Past /\ body[pos] # Quote
         /\ body[pos] = Backslash => pos + 1 = Past
         /\ Put(body[pos], pos + 1)
Escape == /\ mode \in {"key", "text"} /\ Here(pos, Backslash) /\ pos + 1 < Past
          /\ Put(Unescaped(body[pos + 1]), pos + 2)

Primitive ==
  /\ mode = "primitive"
  /\ Store(Trimmed(pos, PrimitiveEnd(pos)), PrimitiveEnd(pos))
  /\ UNCHANGED <<request, key, out>>

Parsed == mode = "done"

Init == /\ request \in Requests /\ pos = 1 /\ mode = "open"
        /\ key = <<>> /\ out = <<>> /\ result = [k \in {} |-> <<>>]

Next == Open \/ Item \/ Colon \/ Close \/ Plain \/ Escape \/ Primitive

Spec == Init /\ [][Next]_vars

----------------------------------------------------------------------------
\* The type invariant: no index is past the end of the text.
Texts  == Seq(Characters)
TypeOK == /\ body \in Texts /\ pos \in 1 .. Past
          /\ mode \in {"open", "item", "key", "colon", "text", "primitive", "done"}
          /\ key \in Texts /\ out \in Texts /\ DOMAIN result \subseteq Texts
          /\ \A k \in DOMAIN result : result[k] \in Texts

\* Each step reads on, or goes to a later part of the loop where it stands: no text
\* keeps a worker thread in the loop (Json.cpp 78-97).
Rank(m) == CASE m = "open" -> 5 [] m \in {"text", "primitive"} -> 4 [] m = "item" -> 3
             [] m = "key" -> 2 [] m = "colon" -> 1 [] OTHER -> 0
Progress == [][\/ pos < pos'
               \/ pos = pos' /\ Rank(mode') < Rank(mode)]_vars
============================================================================
