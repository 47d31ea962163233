----------------------------- MODULE FileStore -----------------------------
(***************************************************************************)
(* What cofeufs promises its callers: a tree of named directories and      *)
(* files, each file holding the last contents written to it.  A call may   *)
(* fail, and a failing call changes nothing, with one exception the code   *)
(* makes on purpose (write_file_abort): a write or an append that runs out *)
(* of blocks leaves the file empty.                                        *)
(***************************************************************************)
EXTENDS Sequences, SequencesExt

CONSTANTS Path,      \* the absolute paths, non-empty sequences of names
          Content,   \* what a call may write
          InitDirs   \* the directories that exist at the start

VARIABLE tree        \* the nodes that exist, by path

Dir == [kind |-> "dir"]
File(c) == [kind |-> "file", bytes |-> c]

IsDir(p) == p = << >> \/ (p \in DOMAIN tree /\ tree[p] = Dir)
IsFile(p) == p \in DOMAIN tree /\ tree[p] # Dir
Absent(p) == p \notin DOMAIN tree /\ IsDir(Front(p))
Put(p, node) == [q \in DOMAIN tree \cup {p} |-> IF q = p THEN node ELSE tree[q]]

Init == tree = [p \in InitDirs |-> Dir]

Create(p) ==
  /\ Absent(p)
  /\ \E node \in {Dir, File(<< >>)} : tree' = Put(p, node)

Write(p, c) ==
  /\ Absent(p) \/ IsFile(p)
  /\ \E kept \in {c, << >>} : tree' = Put(p, File(kept))

Extend(p, c) ==
  /\ IsFile(p)
  /\ \E kept \in {tree[p].bytes \o c, << >>} : tree' = Put(p, File(kept))

\* Removing a directory removes everything below it.
Delete(p) ==
  /\ p \in DOMAIN tree
  /\ tree' = [q \in {q \in DOMAIN tree : ~IsPrefix(p, q)} |-> tree[q]]

Next == \E p \in Path : \/ Create(p)
                        \/ Delete(p)
                        \/ \E c \in Content : Write(p, c) \/ Extend(p, c)

Spec == Init /\ [][Next]_tree
=============================================================================
