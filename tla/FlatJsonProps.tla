--------------------------- MODULE FlatJsonProps ---------------------------
(***************************************************************************)
(* What the server makes of the bodies that clients send, stated about      *)
(* FlatJson: the texts are those that jsonObject (Json.cpp) and             *)
(* JSON.stringify of the browser write, whole or cut, and any other.        *)
(***************************************************************************)
EXTENDS FlatJson, SequencesExt

\* jsonEscape.
Escaped(ch) == CASE ch \in {Quote, Backslash} -> <<Backslash, ch>>
                 [] ch = LineFeed             -> <<Backslash, "n">>
                 [] OTHER                     -> <<ch>>
jsonEscape(s) == FlattenSeq([i \in DOMAIN s |-> Escaped(s[i])])

\* JSON.stringify also escapes the other control characters.
Stringified(s) == FlattenSeq([i \in DOMAIN s |-> IF s[i] = Return THEN <<Backslash, "r">>
                                                                  ELSE Escaped(s[i])])

\* jsonObject, or the browser, with gaps for clients that write them.
Text(fields, gap, how) ==
  LET In(s) == gap \o <<Quote>> \o (IF how = "browser" THEN Stringified(s) ELSE jsonEscape(s))
                   \o <<Quote>> \o gap
      Field(f) == In(f.key) \o <<":">> \o In(f.value)
      Fields == [i \in DOMAIN fields |-> (IF i = 1 THEN <<>> ELSE <<",">>) \o Field(fields[i])]
  IN gap \o <<"{">> \o FlattenSeq(Fields) \o gap \o <<"}">>

Keys(fields)  == {fields[i].key : i \in DOMAIN fields}
AsMap(fields) == [k \in Keys(fields) |-> (CHOOSE f \in Range(fields) : f.key = k).value]
Meant         == AsMap(request.fields)

\* The client of a request wrote its fields, each key once, with a gap; the body is that, or its beginning.
WrittenWith(r, gap) ==
  LET all == Text(r.fields, gap, r.how) IN
  /\ r.fields \in Seq([key : Texts, value : Texts])
  /\ \A i, j \in DOMAIN r.fields : r.fields[i].key = r.fields[j].key => i = j
  /\ IsPrefix(r.text, all)
  /\ r.how = "whole" => r.text = all

\* isValidName (Path.cpp).
ValidName(name) == /\ name \notin {<<>>, <<".">>, <<".", ".">>} /\ Len(name) <= 255
                   /\ \A i \in DOMAIN name :
                        name[i] \notin {Quote, Backslash, LineFeed, Return, "/", ":", "*", "?", "<", ">", "|"}

----------------------------------------------------------------------------
\* Fields arrive as they were sent, with spaces anywhere between them: what jsonObject
\* writes parseFlatJsonObject reads back (Json.cpp 69-99, 127-140).
Reads == Parsed /\ request.how = "whole" => result = Meant

\* A body that was cut short makes up no key, and spoils one value at most.
CutKeepsRest ==
  Parsed /\ request.how = "cut" =>
    /\ DOMAIN result \subseteq DOMAIN Meant
    /\ \A k, m \in DOMAIN result : k = m \/ result[k] = Meant[k] \/ result[m] = Meant[m]

\* Both at once.
ReadAsMeant == Reads /\ CutKeepsRest

----------------------------------------------------------------------------
\* "Check the name the user gave, against illegal characters" (Path.cpp 20): a name that
\* passes is the name that was typed.
AcceptedAsSent ==
  Parsed /\ request.how = "browser" =>
    \A k \in DOMAIN result : ValidName(result[k]) => result[k] = Meant[k]
============================================================================
