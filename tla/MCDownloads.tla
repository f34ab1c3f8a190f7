---------------------------- MODULE MCDownloads ----------------------------
(* Small instances of Downloads for TLC. *)
EXTENDS DownloadsProps, TLC

ThreeBytes == [c \in Contents |-> 3]

Upload(n)   == [op |-> "upload", user |-> "u", parent |-> 0, name |-> n, sha |-> "a"]
Tree(op, i) == [op |-> op, user |-> "u", id |-> i]

\* A file and its share, with everything that happens to them, and a second file of
\* the same content.
TwoFiles == {Upload("x"), Upload("y")} \cup {Tree(op, 1) : op \in {"share", "delete", "restore", "purge"}}
Uploads  == {Upload("x"), Upload("y")}

None   == [is |-> "empty", value |-> 0]
Nr(n)  == [is |-> "number", value |-> n]
Bytes0 == [bytes |-> TRUE, dash |-> TRUE, first |-> Nr(0), last |-> None]

\* To the end, across it and past it, wrapped, too large, and one that is not valid.
Ranges == {[Bytes0 EXCEPT !.first = Nr(1), !.last = l] : l \in {None, Nr(5), Nr(-1), Nr(9)}}
          \cup {[Bytes0 EXCEPT !.first = Nr(3)], [Bytes0 EXCEPT !.dash = FALSE]}

Private(range)   == [op |-> "private", user |-> "u", id |-> 1, code |-> TRUE, range |-> range]
Public(code, id) == [op |-> "public", user |-> "u", id |-> id, code |-> code, range |-> WholeFile]
View             == [op |-> "view", user |-> "u", id |-> 1, code |-> TRUE, range |-> WholeFile]

AllFetches ==
  {Private(range) : range \in Ranges}
    \cup {Private(WholeFile), [Private(WholeFile) EXCEPT !.id = 2]}
    \cup {Public(TRUE, 1), Public(FALSE, 1), View}
OneRange     == {Private(Bytes0)}
============================================================================
