--------------------------------- MODULE Fs ---------------------------------
(***************************************************************************)
(* The cofeufs file system (kernel/cofeufs.cpp): the bitmap of data        *)
(* blocks, the inode table, directories as files of entries, and files     *)
(* mapped by direct blocks and indirect tables.                            *)
(*                                                                         *)
(* An operation is one step, run to the end.  Paths start at the root, as  *)
(* they do for the system calls, the boot code and the shell's absolute    *)
(* paths.  A disk sector is one value; the static buffer the sectors pass  *)
(* through holds nothing between two operations.  A sector is a record     *)
(* with one field that says how it was last written: dir (entries), tab    *)
(* (block numbers) or val (file bytes, BlkSize of them).  A freed block    *)
(* keeps its bytes in the code; here it becomes Stale, which has none of   *)
(* these fields, so that TLC stops if an operation ever reads one.         *)
(*                                                                         *)
(* The file system is one record,                                          *)
(*   bm     the bitmap in memory: the blocks marked in use                 *)
(*   dbm    the bitmap on the disk                                         *)
(*   inode  the inode table                                                *)
(*   data   the data blocks,                                               *)
(* so that an operation made of others (mount, write_file, append_file) is *)
(* the composition of their operators, each from a state to a result       *)
(* [ok, fs].                                                               *)
(***************************************************************************)
EXTENDS Integers, Sequences, FiniteSets, SequencesExt, FiniteSetsExt, TLC

CONSTANTS NBlocks,      \* DATA_COUNT
          NIno,         \* INO_COUNT
          MaxDirect,    \* MAX_DIRECT
          MaxIndirect,  \* MAX_INDIRECT
          IndPtrs,      \* IND_PTRS
          DePerBlk,     \* DE_PER_BLK
          BlkSize,      \* bytes in a block
          Names,        \* file names, "." and ".." not among them
          SysDirs,      \* the directories ensure_system_dirs makes, in order
          Paths,        \* the paths callers use, sequences of names and ".."
          MaxDepth,     \* how deep those paths lead
          Contents      \* the byte sequences callers write

ASSUME FsAssumption ==
  /\ {NBlocks, NIno, MaxDirect, IndPtrs, BlkSize} \subseteq Nat \ {0}
  /\ MaxIndirect \in Nat /\ DePerBlk \in Nat /\ DePerBlk >= 2
  /\ {".", "..", ""} \cap Names = {}
  /\ Paths \subseteq Seq(Names \cup {".."}) /\ << >> \notin Paths
  /\ SysDirs \in Seq(Names) /\ Len(SysDirs) + 2 <= MaxDirect * DePerBlk
  /\ Contents \subseteq Seq(Nat)

VARIABLE fs

Block == 0 .. NBlocks - 1
Ino == 0 .. NIno - 1
Root == 0
Nil == -1                                  \* 0xFFFFFFFF
MaxBlocks == MaxDirect + MaxIndirect
MaxFile == (MaxDirect + MaxIndirect * IndPtrs) * BlkSize
Free == 0                                  \* FT_FREE, FT_FILE, FT_DIR
File == 1
Dir == 2

NoBlocks == [i \in 0 .. MaxBlocks - 1 |-> Nil]
\* memset(&z, 0): a free inode's block numbers are 0, not the sentinel.
ZeroInode == [type |-> Free, size |-> 0, blocks |-> [i \in 0 .. MaxBlocks - 1 |-> 0]]

DirEntry(ino, name, type) == [ino |-> ino, name |-> name, type |-> type]
EmptyEntry == DirEntry(0, "", 0)
EmptyDir == [dir |-> [k \in 0 .. DePerBlk - 1 |-> EmptyEntry]]
\* The first block of a new directory: "." and "..".
NewDir(ino, parent) ==
  [dir |-> [k \in 0 .. DePerBlk - 1 |-> CASE k = 0 -> DirEntry(ino, ".", Dir)
                                         [] k = 1 -> DirEntry(parent, "..", Dir)
                                         [] OTHER -> EmptyEntry]]

Ok(s) == [ok |-> TRUE, fs |-> s]
Fail(s) == [ok |-> FALSE, fs |-> s]

------------------------------------------------------------------------------
\* Blocks.

\* A plausible bug: the search runs one bit too far.
AllocPastEnd(s, r) ==
  LET clear == (0 .. NBlocks) \ s.bm
  IN  IF r >= Cardinality(clear) THEN Nil
      ELSE CHOOSE b \in clear : Cardinality({c \in clear : c < b}) = r

\* block_alloc takes the lowest clear bit, so the r-th of a run of allocations
\* (from 0) gets the r-th lowest; Nil when the disk is full before.
Alloc(s, r) ==
  LET clear == Block \ s.bm
  IN  IF r >= Cardinality(clear) THEN Nil
      ELSE CHOOSE b \in clear : Cardinality({c \in clear : c < b}) = r

\* The words of a sector read as an indirect table.  A directory sector shows
\* its inode numbers, its type words and zero padding; its names are not block
\* numbers (a name of three letters or more is beyond the disk).
Words(sector) ==
  IF "tab" \in DOMAIN sector THEN {sector.tab[j] : j \in DOMAIN sector.tab}
  ELSE IF "dir" \in DOMAIN sector
    THEN {0} \cup UNION {{sector.dir[k].ino, sector.dir[k].type} : k \in DOMAIN sector.dir}
    ELSE {}

DirectBlocks(in) == {in.blocks[i] : i \in 0 .. MaxDirect - 1} \cap Block
Tables(in) == {in.blocks[MaxDirect + t] : t \in 0 .. MaxIndirect - 1} \cap Block

\* A plausible bug: the tables are kept and only what they name is freed.
HeldNotTables(s, in) ==
  DirectBlocks(in) \cup ((UNION {Words(s.data[t]) : t \in Tables(in)}) \cap Block)

\* The blocks inode_free_blocks frees for an inode.
Held(s, in) ==
  DirectBlocks(in) \cup Tables(in) \cup ((UNION {Words(s.data[t]) : t \in Tables(in)}) \cap Block)

\* inode_free_blocks.
Stale == [stale |-> TRUE]
FreeBlocks(s, B) ==
  [s EXCEPT !.bm = s.bm \ B, !.data = [b \in Block |-> IF b \in B THEN Stale ELSE s.data[b]]]

\* inode_block_at: the block of logical block i, Nil if it is not mapped.
BlockAt(s, in, i) ==
  IF i < MaxDirect THEN in.blocks[i]
  ELSE LET t == (i - MaxDirect) \div IndPtrs
       IN  IF t >= MaxIndirect \/ in.blocks[MaxDirect + t] \notin Block THEN Nil
           ELSE s.data[in.blocks[MaxDirect + t]].tab[(i - MaxDirect) % IndPtrs]

\* inode_map_next called need times on an inode with no block: logical block i
\* is allocation number MapRank(i), because table t is allocated just before
\* its first entry is.
TableRank(t) == MaxDirect + t * (IndPtrs + 1)
\* A plausible bug: the entries of a table start again from the first block.
MapRankRestarts(i) == IF i < MaxDirect THEN i ELSE (i - MaxDirect) % IndPtrs
MapRank(i) == IF i < MaxDirect THEN i
              ELSE TableRank((i - MaxDirect) \div IndPtrs) + 1 + ((i - MaxDirect) % IndPtrs)
MapBlocks(s, need) ==
  [i \in 0 .. MaxBlocks - 1 |->
     IF i < MaxDirect THEN IF i < need THEN Alloc(s, i) ELSE Nil
     ELSE IF MaxDirect + (i - MaxDirect) * IndPtrs < need
            THEN Alloc(s, TableRank(i - MaxDirect)) ELSE Nil]
MapTable(s, need, t) ==
  [tab |-> [j \in 0 .. IndPtrs - 1 |->
     LET i == MaxDirect + t * IndPtrs + j
     IN  IF i < need THEN Alloc(s, MapRank(i)) ELSE Nil]]
\* The number of blocks those calls take.
MapTotal(need) == IF need = 0 THEN 0 ELSE MapRank(need - 1) + 1

\* A plausible bug: the bits of the tables are not set.
MapBitsNotTables(s, need) == {Alloc(s, MapRank(i)) : i \in 0 .. need - 1} \ {Nil}

\* The bits those calls set; they stop at the first one that finds no block.
MapBits(s, need) == {Alloc(s, r) : r \in 0 .. MapTotal(need) - 1} \ {Nil}

\* The inode's blocks, and the bitmap and the tables on the disk, after them.
Mapped(s, need) ==
  LET in == MapBlocks(s, need)
      named(b) == {t \in 0 .. MaxIndirect - 1 : in[MaxDirect + t] = b}
  IN  [ok |-> MapTotal(need) <= NBlocks - Cardinality(s.bm),
       blocks |-> in,
       fs |-> [s EXCEPT !.bm = s.bm \cup MapBits(s, need),
                        !.data = [b \in Block |->
                          IF named(b) = {} THEN s.data[b]
                          ELSE MapTable(s, need, CHOOSE t \in named(b) : TRUE)]]]

------------------------------------------------------------------------------
\* Directories.

BlockMapped(in, n) == n < MaxBlocks /\ in.blocks[n] # Nil
Entry(s, in, k) == s.data[in.blocks[k \div DePerBlk]].dir[k % DePerBlk]
\* The slots a directory scan visits: the used ones, up to an unmapped block.
Slots(in) == {k \in 0 .. in.size - 1 : \A n \in 0 .. k \div DePerBlk : BlockMapped(in, n)}

\* dir_find: the first slot with that name.  An entry with inode 0 is empty,
\* except that ".." may name the root.
DirFind(s, in, name) ==
  LET hits == {k \in Slots(in) : /\ Entry(s, in, k).name = name
                                 /\ Entry(s, in, k).ino # 0 \/ name = ".."}
  IN  IF hits = {} THEN Nil ELSE Min(hits)

PutEntry(s, in, k, e) ==
  [s EXCEPT !.data[in.blocks[k \div DePerBlk]] = [dir |-> [@.dir EXCEPT ![k % DePerBlk] = e]]]

\* bm_flush.
Flush(s) == [s EXCEPT !.dbm = s.bm]

\* The append path of dir_add: the entry goes into slot number size, in a new
\* block when the last one is full.
DirAppend(s, dirino, e) ==
  LET d == s.inode[dirino]
      k == d.size
      blk == k \div DePerBlk
      new == Alloc(s, 0)
      grown == [s EXCEPT !.bm = @ \cup {new}, !.data[new] = EmptyDir,
                         !.inode[dirino].blocks[blk] = new]
      put(t) == PutEntry([t EXCEPT !.inode[dirino].size = k + 1], t.inode[dirino], k, e)
  IN  IF blk >= MaxBlocks THEN Fail(s)
      ELSE IF d.blocks[blk] # Nil THEN Ok(Flush(put(s)))
      ELSE IF new = Nil THEN Fail(s)
      ELSE Ok(Flush(put(grown)))

\* A plausible bug: an entry with inode 0 is taken for empty, although ".." may
\* name the root.
DirAddOverDotDot(s, dirino, e) ==
  LET d == s.inode[dirino]
      gaps == {k \in Slots(d) : Entry(s, d, k).ino = 0}
  IN  IF d.type # Dir THEN Fail(s)
      ELSE IF gaps # {} THEN Ok(PutEntry(s, d, Min(gaps), e))
      ELSE DirAppend(s, dirino, e)

\* A plausible bug: the slots of removed entries are not used again.
DirAddNoReuse(s, dirino, e) ==
  IF s.inode[dirino].type # Dir THEN Fail(s) ELSE DirAppend(s, dirino, e)

\* dir_add reuses the first empty slot, and then does not flush the bitmap.
DirAdd(s, dirino, e) ==
  LET d == s.inode[dirino]
      gaps == {k \in Slots(d) : Entry(s, d, k).ino = 0 /\ Entry(s, d, k).name = ""}
  IN  IF d.type # Dir THEN Fail(s)
      ELSE IF gaps # {} THEN Ok(PutEntry(s, d, Min(gaps), e))
      ELSE DirAppend(s, dirino, e)

\* dir_remove.
DirRemove(s, dirino, name) ==
  LET d == s.inode[dirino]
      k == DirFind(s, d, name)
  IN  IF d.type # Dir \/ k = Nil THEN s ELSE PutEntry(s, d, k, EmptyEntry)

\* resolve_from: one component after the other; Nil if one is not found or is
\* looked up in something that is no directory.
Step(s, cur, name) ==
  LET k == DirFind(s, s.inode[cur], name)
  IN  IF s.inode[cur].type # Dir \/ k = Nil THEN Nil ELSE Entry(s, s.inode[cur], k).ino
Resolve(s, base, path) ==
  LET at[n \in 0 .. Len(path)] ==
        IF n = 0 THEN base
        ELSE LET cur == at[n - 1] IN IF cur = Nil THEN Nil ELSE Step(s, cur, path[n])
  IN  at[Len(path)]
\* split_last: the directory the last component is in.
Parent(s, base, path) == Resolve(s, base, Front(path))

------------------------------------------------------------------------------
\* The operations.

\* create_inode: the lowest free inode, for a directory a block with "." and
\* "..", then the entry in the parent; if that fails, inode and block go back.
CreateInode(s, base, path, type) ==
  LET parent == Parent(s, base, path)
      frees == {i \in Ino : s.inode[i].type = Free}
      ino == Min(frees)
      new == Alloc(s, 0)
      made == IF type = Dir
              THEN [s EXCEPT !.bm = @ \cup {new}, !.data[new] = NewDir(ino, parent),
                             !.inode[ino] = [type |-> Dir, size |-> 2,
                                             blocks |-> [NoBlocks EXCEPT ![0] = new]]]
              ELSE [s EXCEPT !.inode[ino] = [type |-> File, size |-> 0, blocks |-> NoBlocks]]
      added == DirAdd(made, parent, DirEntry(ino, Last(path), type))
  IN  IF parent = Nil \/ Resolve(s, base, path) # Nil \/ frees = {} THEN Fail(s)
      ELSE IF type = Dir /\ new = Nil THEN Fail(s)
      ELSE IF added.ok THEN added
      ELSE Fail([FreeBlocks(made, Held(made, made.inode[ino])) EXCEPT !.inode[ino] = ZeroInode])

\* The bytes of a file, padded with zeros to whole blocks.
Sector(c, i) ==
  [val |-> [k \in 0 .. BlkSize - 1 |->
     IF i * BlkSize + k < Len(c) THEN c[i * BlkSize + k + 1] ELSE 0]]

\* write_file_abort gives the blocks back and leaves the file empty.
WriteFileAbort(s, ino, in) ==
  Fail(Flush([FreeBlocks(s, Held(s, in)) EXCEPT
                !.inode[ino] = [type |-> File, size |-> 0, blocks |-> NoBlocks]]))

\* write_file once the inode is known: free what it has, map need new blocks,
\* fill them; or abort when there are not enough.
Store(s, ino, c) ==
  LET freed == FreeBlocks(s, Held(s, s.inode[ino]))
      need == (Len(c) + BlkSize - 1) \div BlkSize
      m == Mapped(freed, need)
      in == [type |-> File, size |-> Len(c), blocks |-> m.blocks]
      t == m.fs
      at(b) == {i \in 0 .. need - 1 : BlockAt(t, in, i) = b}
  IN  IF m.ok
      THEN Ok(Flush([t EXCEPT !.inode[ino] = in,
                              !.data = [b \in Block |-> IF at(b) = {} THEN t.data[b]
                                                        ELSE Sector(c, CHOOSE i \in at(b) : TRUE)]]))
      ELSE WriteFileAbort(t, ino, in)

\* write_file creates a missing file before it looks at the length.
WriteFile(s, base, path, c) ==
  LET made == IF Resolve(s, base, path) # Nil THEN Ok(s) ELSE CreateInode(s, base, path, File)
      ino == Resolve(made.fs, base, path)
  IN  IF ~made.ok \/ ino = Nil THEN Fail(made.fs)
      ELSE IF made.fs.inode[ino].type # File \/ Len(c) > MaxFile THEN Fail(made.fs)
      ELSE Store(made.fs, ino, c)

\* A plausible bug: the last block is not cut to the file's length.
ReadWholeBlocks(s, ino) ==
  LET size == s.inode[ino].size
  IN  [k \in 1 .. ((size + BlkSize - 1) \div BlkSize) * BlkSize |->
         s.data[BlockAt(s, s.inode[ino], (k - 1) \div BlkSize)].val[(k - 1) % BlkSize]]

\* read_file of the whole file.
ReadFile(s, ino) ==
  [k \in 1 .. s.inode[ino].size |->
     s.data[BlockAt(s, s.inode[ino], (k - 1) \div BlkSize)].val[(k - 1) % BlkSize]]

\* append_file reads the file and writes it again, longer.
AppendFile(s, base, path, c) ==
  LET ino == Resolve(s, base, path)
  IN  IF ino = Nil THEN WriteFile(s, base, path, c)
      ELSE IF s.inode[ino].type # File \/ s.inode[ino].size + Len(c) > MaxFile THEN Fail(s)
      ELSE WriteFile(s, base, path, ReadFile(s, ino) \o c)

\* The inodes an inode's entries name, "." and ".." left out.
Children(s, ino) ==
  LET d == s.inode[ino]
  IN  IF d.type # Dir THEN {}
      ELSE {Entry(s, d, k).ino : k \in {k \in Slots(d) : /\ Entry(s, d, k).ino # 0
                                                         /\ Entry(s, d, k).name \notin {".", ".."}}}
\* The inodes remove_inode_by_ino visits from ino.
Subtree(s, ino) ==
  LET reach[n \in 0 .. NIno] ==
        IF n = 0 THEN {ino} ELSE reach[n - 1] \cup UNION {Children(s, i) : i \in reach[n - 1]}
  IN  reach[NIno]

\* remove_file: a directory only with recursive; the inodes below it first, the
\* entry last, one flush at the end.
RemoveFile(s, base, path, recursive) ==
  LET parent == Parent(s, base, path)
      d == s.inode[parent]
      k == DirFind(s, d, Last(path))
      e == Entry(s, d, k)
      gone == Subtree(s, e.ino)
      cleared == [FreeBlocks(s, UNION {Held(s, s.inode[i]) : i \in gone}) EXCEPT
                    !.inode = [i \in Ino |-> IF i \in gone THEN ZeroInode ELSE s.inode[i]]]
  IN  IF Last(path) \in {".", ".."} \/ parent = Nil THEN Fail(s)
      ELSE IF d.type # Dir \/ k = Nil THEN Fail(s)
      ELSE IF e.type = Dir /\ ~recursive THEN Fail(s)
      ELSE Ok(Flush(DirRemove(cleared, parent, Last(path))))

\* format: an empty root directory in inode 0 and block 0.
Format(data) ==
  Flush([bm |-> {0}, dbm |-> {},
         inode |-> [i \in Ino |-> IF i = Root
                      THEN [type |-> Dir, size |-> 2, blocks |-> [NoBlocks EXCEPT ![0] = 0]]
                      ELSE ZeroInode],
         data |-> [data EXCEPT ![0] = NewDir(Root, Root)]])

\* ensure_system_dirs stops at the first directory it cannot make.
EnsureSystemDirs(s) ==
  LET at[n \in 0 .. Len(SysDirs)] ==
        IF n = 0 THEN Ok(s)
        ELSE LET r == at[n - 1]
                 p == <<SysDirs[n]>>
             IN  IF ~r.ok \/ Resolve(r.fs, Root, p) # Nil THEN r ELSE CreateInode(r.fs, Root, p, Dir)
  IN  at[Len(SysDirs)].fs

\* mount: the bitmap is read from the disk.
Mount(s) == EnsureSystemDirs([s EXCEPT !.bm = s.dbm])

------------------------------------------------------------------------------
\* The first boot, on a blank disk.
Init == fs = Mount(Format([b \in Block |-> Stale]))

Create(p, type) == fs' = CreateInode(fs, Root, p, type).fs
Write(p, c) == fs' = WriteFile(fs, Root, p, c).fs
Extend(p, c) == fs' = AppendFile(fs, Root, p, c).fs
Unlink(p, recursive) == fs' = RemoveFile(fs, Root, p, recursive).fs

Next == \E p \in Paths :
  \/ \E type \in {File, Dir} : Create(p, type)
  \/ \E c \in Contents : Write(p, c) \/ Extend(p, c)
  \/ \E recursive \in BOOLEAN : Unlink(p, recursive)

Spec == Init /\ [][Next]_fs

------------------------------------------------------------------------------
\* Properties.

Allocated(s) == {i \in Ino : s.inode[i].type # Free}

\* The bitmap, the inodes and the entries keep their ranges.
TypeOK ==
  /\ fs.bm \subseteq Block /\ fs.dbm \subseteq Block
  /\ \A i \in Ino :
       /\ fs.inode[i].type \in {Free, File, Dir}
       /\ fs.inode[i].size \in 0 .. (IF fs.inode[i].type = Dir
                                     THEN MaxBlocks * DePerBlk ELSE MaxFile)
       /\ \A n \in DOMAIN fs.inode[i].blocks : fs.inode[i].blocks[n] \in Block \cup {Nil}

\* A directory stays within its direct blocks: the slots of removed entries are
\* used again, so that it is never larger than the most names it had at once.
SmallDirs ==
  \A i \in Ino : fs.inode[i].type = Dir => fs.inode[i].size <= MaxDirect * DePerBlk

\* The places where an inode names a block, and the block: <<n, -1>> is place n
\* of the inode, <<n, j>> entry j of the table that is named there.
Place == (0 .. MaxBlocks - 1) \X (-1 .. IndPtrs - 1)
At(s, in, p) ==
  IF p[2] = -1 THEN in.blocks[p[1]]
  ELSE IF p[1] < MaxDirect \/ in.type # File \/ in.blocks[p[1]] \notin Block THEN Nil
  ELSE s.data[in.blocks[p[1]]].tab[p[2]]

\* No block has two uses: two files, or two positions of a file or directory,
\* never share one, whatever was freed and allocated before.
BlocksExclusive ==
  \A i, j \in Allocated(fs), p, q \in Place :
    LET b == At(fs, fs.inode[i], p)
    IN  b # Nil /\ b = At(fs, fs.inode[j], q) => i = j /\ p = q

\* block_alloc cannot hand out a block that is in use: every block an inode
\* holds is marked.
InUseIsMarked == \A i \in Allocated(fs) : Held(fs, fs.inode[i]) \subseteq fs.bm

\* No block is lost: every marked block belongs to an inode, also after the
\* roll-backs of create_inode and write_file_abort and after rm -r.
NoLeak == fs.bm \subseteq UNION {Held(fs, fs.inode[i]) : i \in Allocated(fs)}

\* The named entries of directory d, by slot.
Named(s, d) ==
  {k \in Slots(s.inode[d]) : Entry(s, s.inode[d], k).name \notin {"", ".", ".."}}

\* The directories form a tree: every inode in use but the root has exactly one
\* name, of its own type, and a directory's ".." is where that name is; no name
\* leads to a free inode, and no directory has two entries with one name.
Tree ==
  LET D == {i \in Ino : fs.inode[i].type = Dir}
      links == {l \in D \X (0 .. MaxBlocks * DePerBlk - 1) : l[2] \in Named(fs, l[1])}
      E(l) == Entry(fs, fs.inode[l[1]], l[2])
  IN  /\ \A l \in links : E(l).ino \in Allocated(fs) \ {Root} /\ E(l).type = fs.inode[E(l).ino].type
      /\ \A l, m \in links : (E(l).ino = E(m).ino \/ (l[1] = m[1] /\ E(l).name = E(m).name)) => l = m
      /\ \A i \in Allocated(fs) \ {Root} : \E l \in links : E(l).ino = i
      /\ \A l \in links : E(l).type = Dir => Step(fs, E(l).ino, "..") = l[1]

\* What a caller sees: the nodes that exist, by absolute path.
AbsPath == UNION {[1 .. n -> Names] : n \in 1 .. MaxDepth}
Node(s, p) ==
  LET i == Resolve(s, Root, p)
  IN  IF s.inode[i].type = Dir THEN [kind |-> "dir"]
      ELSE [kind |-> "file", bytes |-> ReadFile(s, i)]
View(s) == [p \in {p \in AbsPath : Resolve(s, Root, p) # Nil} |-> Node(s, p)]

\* cofeufs.cpp:14-16: an inode's first blocks are data blocks and the last two
\* are indirect tables, so what those two hold is a table.
LastTwoAreTables ==
  \A i \in Allocated(fs) : \A t \in Tables(fs.inode[i]) : "tab" \in DOMAIN fs.data[t]

=============================================================================
