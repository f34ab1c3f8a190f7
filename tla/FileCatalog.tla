---------------------------- MODULE FileCatalog ----------------------------
(***************************************************************************)
(* What the file tree is for, whatever tables and disk are made of: a       *)
(* catalogue of entries, each with the content it was given, and a quota    *)
(* that is charged when an entry is put and given back when it is erased.   *)
(* Erasing is only possible from the recycle bin.                           *)
(***************************************************************************)
EXTENDS Integers

CONSTANTS Users, Contents,
          Sizes      \* the sizes files are given

VARIABLES entries,   \* id -> [user, content, size, deleted]
          nextEntry, \* ids are given once
          quota      \* bytes charged to each user

vars == <<entries, nextEntry, quota>>

Entry == [user : Users, content : Contents \cup {"folder"}, size : Sizes, deleted : BOOLEAN]

Put(e) ==
  /\ ~e.deleted
  /\ entries' = [i \in DOMAIN entries \cup {nextEntry} |->
                   IF i = nextEntry THEN e ELSE entries[i]]
  /\ nextEntry' = nextEntry + 1
  /\ quota' = [quota EXCEPT ![e.user] = @ + e.size]

\* Into the recycle bin and out of it.
Mark(i, flag) ==
  /\ entries' = [entries EXCEPT ![i].deleted = flag]
  /\ UNCHANGED <<nextEntry, quota>>

Erase(i) ==
  /\ entries[i].deleted
  /\ entries' = [j \in DOMAIN entries \ {i} |-> entries[j]]
  /\ quota' = [quota EXCEPT ![entries[i].user] = @ - entries[i].size]
  /\ UNCHANGED nextEntry

Init == /\ entries = [i \in {} |-> 0]
        /\ nextEntry = 1
        /\ quota = [u \in Users |-> 0]

Next == \/ \E e \in Entry : Put(e)
        \/ \E i \in DOMAIN entries : Erase(i) \/ \E flag \in BOOLEAN : Mark(i, flag)

Spec == Init /\ [][Next]_vars
============================================================================
