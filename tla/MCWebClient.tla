---------------------------- MODULE MCWebClient ----------------------------
(* Small instances of WebClient for TLC. *)
EXTENDS WebClientProps, TLC

CONSTANTS ann, bob

OneUser  == {ann}
TwoUsers == {ann, bob}

\* A folder of ann's at the top.
OneFolder == {Top, 1}
TopParent == [f \in {1} |-> Top]
AnnsOwn   == [f \in {1} |-> ann]
============================================================================
