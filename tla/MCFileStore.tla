---------------------------- MODULE MCFileStore ----------------------------
(* Small instances of FileStore for TLC. *)
EXTENDS FileStoreRefines

\* One user, contents "a" and "b" of different sizes.
MCSizeOf == [c \in Contents |-> IF c = "a" THEN 1 ELSE 2]

Folder(p, n)     == [op |-> "folder", user |-> "u", parent |-> p, name |-> n]
Upload(p, n, c)  == [op |-> "upload", user |-> "u", parent |-> p, name |-> n, sha |-> c]
Instant(p, n, c) == [op |-> "instant", user |-> "u", parent |-> p, name |-> n, sha |-> c,
                     size |-> SizeOf[c]]
Tree(op, i)      == [op |-> op, user |-> "u", id |-> i]

\* Every row is at the top: a folder stays empty.
FlatRequests ==
  {Upload(0, n, c) : n \in Names, c \in Contents} \cup {Instant(0, "x", "a"), Folder(0, "x")}
    \cup {Tree(op, i) : op \in {"delete", "restore", "purge"}, i \in 1 .. 2}
    \cup {Tree("share", 1)}

\* Folders in folders, and every operation on trees.
TreeRequests ==
  {Folder(0, "x"), Folder(1, "x"), Upload(1, "y", "a"), Upload(2, "y", "a"), Upload(0, "y", "b"),
   Instant(0, "x", "b"), Instant(1, "x", "a")}
    \cup {Tree(op, i) : op \in {"delete", "restore", "purge"}, i \in 1 .. 3}

\* A folder, a file at the top and one in the folder, and every operation on trees.
PairRequests ==
  {Folder(0, "x"), Upload(0, "y", "a"), Upload(1, "x", "a"), Instant(0, "x", "a"),
   Tree("delete", 1), Tree("restore", 1), Tree("purge", 1), Tree("share", 1)}

ThreadSymmetry == Permutations(Threads)

\* What the runs that end in a counterexample send.
TwinRequests ==
  {Folder(0, "x"), Upload(1, "y", "a"), Tree("delete", 1), Tree("delete", 2), Tree("restore", 1)}
NestedRequests ==
  {Folder(0, "x"), Folder(1, "x"), Upload(2, "y", "a"),
   Tree("delete", 1), Tree("delete", 2), Tree("restore", 3)}
SharedContentRequests ==
  {Upload(0, "x", "a"), Instant(0, "y", "a"), Tree("delete", 1), Tree("purge", 1)}
TwoUploads == {Upload(0, n, "a") : n \in Names}
============================================================================
