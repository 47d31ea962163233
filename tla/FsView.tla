------------------------------- MODULE FsView -------------------------------
(***************************************************************************)
(* The file system as its callers see it: tree records, after every        *)
(* operation, what resolve and read_file return for every absolute path.   *)
(* Seen through tree the file system implements FileStore.                 *)
(***************************************************************************)
EXTENDS Fs

\* The most names a path can lead down: each ".." leads up again.
Depth(p) == Cardinality({i \in DOMAIN p : p[i] # ".."})
ASSUME DepthAssumption == MaxDepth \in Nat \ {0} /\ \A p \in Paths : Depth(p) <= MaxDepth

\* A new disk holds the system directories: a directory takes an inode and a
\* block, and the root may take a block for its entry.
ASSUME RoomAssumption == Len(SysDirs) < NIno /\ 2 * Len(SysDirs) < NBlocks

VARIABLE tree

ViewInit == Init /\ tree = View(fs)
ViewNext == Next /\ tree' = IF fs' = fs THEN tree ELSE View(fs')
ViewSpec == ViewInit /\ [][ViewNext]_<<fs, tree>>

Abs == INSTANCE FileStore WITH
         Path <- AbsPath, Content <- Contents,
         InitDirs <- {<<SysDirs[i]>> : i \in DOMAIN SysDirs}

\* The blocks, inodes and entries implement the abstract store: every call
\* changes at the path it names what it should and nothing at any other path,
\* and what is read back is what was written.
Implements == Abs!Spec
=============================================================================
