----------------------------- MODULE ByteRange -----------------------------
(***************************************************************************)
(* parseByteRange of RouteUtils.cpp: what a Range header asks of a file.    *)
(*                                                                          *)
(* A header is what the function tells apart: whether it starts with        *)
(* "bytes=", whether there is a dash, and what stoull makes of the text on  *)
(* either side of the first one.  A text that starts with a number is the   *)
(* number, whatever follows it; only the one behind the dash can have a     *)
(* sign.                                                                    *)
(***************************************************************************)
EXTENDS Integers

CONSTANT MaxUint \* the largest uint64_t, and what stoull accepts

ASSUME WidthAssumption == MaxUint \in Nat

Text   == [is : {"empty", "noNumber"}, value : {0}] \cup [is : {"number"}, value : Int]
Header == [bytes : BOOLEAN, dash : BOOLEAN, first : Text, last : Text]

\* stoull throws when there is no number or it is too large, and takes a negative
\* number modulo 2^64.
Throws(text) == text.is # "number" \/ text.value > MaxUint \/ text.value < -MaxUint
Stoull(text) == IF text.value < 0 THEN text.value + MaxUint + 1 ELSE text.value

Bytes(from, to) == [is |-> "range", from |-> from, to |-> to]
Invalid         == [is |-> "invalid", from |-> 0, to |-> 0]
Exception       == [is |-> "exception", from |-> 0, to |-> 0]

Malformed(h, size) == ~h.bytes \/ size = 0 \/ ~h.dash \/ h.first.is = "empty"
TooLarge(h)        == Throws(h.first) \/ (h.last.is # "empty" /\ Throws(h.last))

LastAsked(h, size) == IF h.last.is = "empty" THEN size - 1 ELSE Stoull(h.last)

Uncut(to, size) == to \* faulty: past the end of the file
Cut(to, size)   == IF to >= size THEN size - 1 ELSE to

\* The range is compared as it was asked, and cut at the end of the file after that.
ParseByteRange(h, size) ==
  LET from == Stoull(h.first)
      to   == LastAsked(h, size)
  IN  IF Malformed(h, size) THEN Invalid
      ELSE IF TooLarge(h) THEN Exception
      ELSE IF from >= size \/ from > to THEN Invalid
      ELSE Bytes(from, Cut(to, size))

----------------------------------------------------------------------------
\* The reference: the bytes of a file that plain numbers ask for.

Plain(h) == /\ h.bytes /\ h.dash /\ h.first.is = "number" /\ h.first.value \in 0 .. MaxUint
            /\ h.last.is = "empty" \/ (h.last.is = "number" /\ h.last.value \in 0 .. MaxUint)

Asked(h, size) ==
  {i \in 0 .. size - 1 : h.first.value <= i /\ (h.last.is = "number" => i <= h.last.value)}
============================================================================
