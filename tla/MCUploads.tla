----------------------------- MODULE MCUploads -----------------------------
(* Small instances of Uploads for TLC. *)
EXTENDS UploadsProps, TLC

Planned(parent, sha, size, total) ==
  [parent |-> parent, name |-> "x", sha |-> sha, size |-> size, total |-> total]

\* Two chunks to the top or to the folder, and one to the folder beside two to the top.
TopPlan    == {Planned(0, <<"p", "q">>, 2, 2)}
FolderPlan == {Planned(Folder, <<"p", "q">>, 2, 2)}
OnePlans   == TopPlan \cup {Planned(Folder, <<"q">>, 1, 1)}

ThreadSymmetry == Permutations(Threads)
============================================================================
