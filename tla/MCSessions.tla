---------------------------- MODULE MCSessions ----------------------------
(***************************************************************************)
(* Accounts and sessions for TLC.                                           *)
(***************************************************************************)
EXTENDS SessionsProps, TLC

Perms == Permutations(Threads) \cup Permutations(Names) \cup Permutations(Passwords)
============================================================================
