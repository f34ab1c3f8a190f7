---------------------------- MODULE MCFlatJson ----------------------------
(***************************************************************************)
(* The JSON parser for TLC: every short text that begins an object, and     *)
(* what clients write of two short fields, also cut short.                  *)
(***************************************************************************)
EXTENDS FlatJsonProps, FiniteSets

CONSTANTS Letters,  \* what strings are made of
          Marks,    \* what other texts are made of
          MaxString, MaxText \* bounds: lengths of strings and of texts

Strings == BoundedSeq(Letters, MaxString)
Pair(k, v) == [key |-> k, value |-> v]
\* One field, or two with a short first value.
Fields == {<<Pair(k, v)>> : k \in BoundedSeq(Letters, 1), v \in Strings}
          \cup {<<Pair(<<"n">>, v), Pair(<<>>, w)>> : v \in BoundedSeq(Letters, 1), w \in Strings}
Blanks == {<<>>, <<Space>>}

Asked(text, how, fields) == [text |-> text, how |-> how, fields |-> fields]
Cuts(f) == Prefixes(Text(f, <<>>, "cut"))

Bodies == UNION {{Asked(Text(f, g, "whole"), "whole", f) : f \in Fields, g \in Blanks},
                 {Asked(Text(f, <<>>, "browser"), "browser", f) : f \in Fields},
                 UNION {{Asked(t, "cut", f) : t \in Cuts(f)} : f \in Fields},
                 {Asked(<<"{">> \o t, "any", <<>>) : t \in BoundedSeq(Marks, MaxText)}}

\* What ReadAsMeantHolds (FlatJsonProofs) asks of the requests.
ASSUME BodiesAreWritten ==
  \A r \in Requests : r.how \in {"whole", "cut"} => \E gap \in Blanks : WrittenWith(r, gap)
============================================================================
