--------------------------- MODULE MCPageUploads ---------------------------
(* A small instance of PageUploads for TLC. *)
EXTENDS PageUploads

\* A file of two chunks, to the top.
OneFile == {[parent |-> 0, name |-> "x", sha |-> <<"p", "q">>, size |-> 2, total |-> 2]}
============================================================================
