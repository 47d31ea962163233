------------------------------ MODULE FsProofs ------------------------------
(* The operations of cofeufs keep the ownership of blocks and the shape of   *)
(* the tree, for disks, tables and files of any size, as long as no          *)
(* directory outgrows its direct blocks.                                     *)
EXTENDS FsLemmas, FsView, SequenceTheorems

-----------------------------------------------------------------------------
(* The inductive invariant, and create_inode.                                *)

Blank(s) == \A i \in Ino : i \notin Allocated(s) => s.inode[i].size = 0
FsOK(s) == Shape(s) /\ Sectors(s) /\ Own(s) /\ TreeOK(s) /\ Blank(s)

(* No directory has more than n slots. *)
UpTo(s, n) == \A d \in Dirs(s) : s.inode[d].size \in 0..n

LEMMA CreateIs ==
  ASSUME NEW s, NEW path, NEW type
  PROVE  LET parent == Parent(s, Root, path)
             frees == {i \in Ino : s.inode[i].type = Free}
             m == Made(s, Min(frees), parent, type)
             added == DirAdd(m, parent, DirEntry(Min(frees), Last(path), type))
         IN  CreateInode(s, Root, path, type) =
               IF parent = Nil \/ Resolve(s, Root, path) # Nil \/ frees = {} THEN Fail(s)
               ELSE IF type = Dir /\ Alloc(s, 0) = Nil THEN Fail(s)
               ELSE IF added.ok THEN added ELSE Fail(RolledBack(m, Min(frees)))
BY Zenon DEF CreateInode, Made, Taken, NewDirInode, RolledBack, EmptyFile

Keeps(s, t) ==
  /\ Struct(t) /\ (Small(t) => FsOK(t))
  /\ \A n \in Nat : n >= 2 /\ UpTo(s, n) => UpTo(t, n + 1)

LEMMA KeepsSame == ASSUME NEW s, FsOK(s) PROVE Keeps(s, s)
<1>1. Struct(s)
  BY ShapeStruct DEF FsOK
<1>2. ASSUME NEW n \in Nat, UpTo(s, n) PROVE UpTo(s, n + 1)
  <2>1. \A d \in Dirs(s) : s.inode[d].size \in Nat
    BY DirsAre DEF FsOK
  <2> QED BY <1>2, <2>1 DEF UpTo
<1> QED BY <1>1, <1>2 DEF Keeps

(* A creation that gets past its checks: the new inode i is made, and its     *)
(* entry added to p or the inode rolled back.                                *)
Creation(s, r, type, p, nm, i, u) ==
  /\ p \in Allocated(s) /\ nm \in PathNames /\ i \in Ino /\ i \notin Allocated(s)
  /\ StepOK(s, p, nm, Nil) /\ IsMade(s, u, i, p, type)
  /\ LET a == DirAdd(u, p, DirEntry(i, nm, type)) IN r = IF a.ok THEN a ELSE Fail(RolledBack(u, i))
LEMMA CreateCases ==
  ASSUME NEW s, FsOK(s), NEW path \in Seq(PathNames), path # << >>, NEW type \in {File, Dir}
  PROVE  LET r == CreateInode(s, Root, path, type)
         IN  \/ r = Fail(s)
             \/ /\ Resolve(s, Root, path) = Nil
                /\ \E i, u : Creation(s, r, type, Parent(s, Root, path), Last(path), i, u)
<1> DEFINE parent == Parent(s, Root, path)
           frees == {i \in Ino : s.inode[i].type = Free}
           ino == Min(frees)
           m == Made(s, ino, parent, type)
           name == Last(path)
           added == DirAdd(m, parent, DirEntry(ino, name, type))
           r == CreateInode(s, Root, path, type)
<1>1. r = IF parent = Nil \/ Resolve(s, Root, path) # Nil \/ frees = {} THEN Fail(s)
          ELSE IF type = Dir /\ Alloc(s, 0) = Nil THEN Fail(s)
          ELSE IF added.ok THEN added ELSE Fail(RolledBack(m, ino))
  BY CreateIs, Zenon
<1>2. Shape(s) /\ Sectors(s) /\ Own(s) /\ TreeOK(s)
  BY DEF FsOK
<1>3. ASSUME parent # Nil, Resolve(s, Root, path) = Nil, frees # {}, type = Dir => Alloc(s, 0) # Nil,
             r = IF added.ok THEN added ELSE Fail(RolledBack(m, ino))
      PROVE  Creation(s, r, type, parent, name, ino, m)
  <2>1. PICK p \in Allocated(s) : p = parent
    <3>1. Front(path) \in Seq(PathNames)
      BY ResolveLast
    <3> QED BY <1>2, <1>3, <3>1, ResolveIn DEF Parent
  <2>2. PICK nm \in PathNames : nm = name
    BY ResolveLast
  <2>3. Step(s, p, nm) = Nil
    BY <1>3, <2>1, <2>2, ResolveLast DEF WalkNext
  <2>4. p \in Ino
    BY DEF Allocated
  <2>5. StepOK(s, p, nm, Nil)
    BY <1>2, <2>3, <2>4, StepIs DEF PathNames
  <2>6. PICK i \in Ino : i = ino /\ i \notin Allocated(s)
    <3>1. frees \in SUBSET Nat /\ frees # {}
      BY <1>3, BlockNat
    <3>2. ino \in frees
      BY <3>1, MinIsLeast
    <3> QED BY <3>2 DEF Allocated
  <2>7. IsMade(s, Made(s, i, p, type), i, p, type)
    BY <1>2, <1>3, <2>4, <2>6, MadeIs
  <2>8. IsMade(s, m, ino, parent, type) /\ StepOK(s, parent, name, Nil)
    BY <2>1, <2>2, <2>5, <2>6, <2>7
  <2> HIDE DEF parent, frees, ino, name, r
  <2> QED BY <1>3, <2>1, <2>2, <2>6, <2>8, Zenon DEF Creation
<1> HIDE DEF parent, frees, ino, m, name, added, r
<1>4. r = Fail(s) \/ (Resolve(s, Root, path) = Nil /\ Creation(s, r, type, parent, name, ino, m))
  BY <1>1, <1>3, Zenon
<1> QED BY <1>4 DEF parent, name, r

LEMMA RolledBackInode ==
  ASSUME NEW m, Shape(m), NEW ino \in Ino
  PROVE  LET t == RolledBack(m, ino)
         IN  t.inode[ino].size = 0 /\ \A i \in Ino \ {ino} : t.inode[i] = m.inode[i]
<1>1. PICK u : u = FreeBlocks(m, Held(m, m.inode[ino])) /\ Shape(u) /\ u.inode = m.inode
  BY FreeBlocksIs
<1>2. PICK t : t = RolledBack(m, ino) /\ t = [u EXCEPT !.inode[ino] = ZeroInode]
  BY <1>1 DEF RolledBack
<1>3. t.inode = [u.inode EXCEPT ![ino] = ZeroInode]
  BY <1>1, <1>2, ZeroInodeIs, PutInodeIs
<1>4. t.inode[ino] = ZeroInode /\ \A i \in Ino \ {ino} : t.inode[i] = m.inode[i]
  BY <1>1, <1>3, ShapeParts
<1>5. ZeroInode.size = 0
  BY DEF ZeroInode
<1> QED BY <1>2, <1>4, <1>5

LEMMA CreateKeeps ==
  ASSUME NEW s, FsOK(s), NEW path \in Seq(PathNames), path # << >>, NEW type \in {File, Dir}
  PROVE  Keeps(s, CreateInode(s, Root, path, type).fs)
<1>1. PICK r : r = CreateInode(s, Root, path, type)
  OBVIOUS
<1>2. Shape(s) /\ Sectors(s) /\ Own(s) /\ TreeOK(s) /\ Blank(s) /\ Keeps(s, s)
  BY KeepsSame DEF FsOK
<1>3. CASE r = Fail(s)
  BY <1>1, <1>2, <1>3, OkFail
<1>4. ASSUME NEW p, NEW nm, NEW i, NEW u, Creation(s, r, type, p, nm, i, u)
      PROVE  Keeps(s, r.fs)
  <2>1. p \in Allocated(s) /\ nm \in PathNames /\ i \in Ino /\ i \notin Allocated(s)
    BY <1>4 DEF Creation
  <2>4. p \in Ino
    BY <2>1 DEF Allocated
  <2>5. StepOK(s, p, nm, Nil)
    BY <1>4 DEF Creation
  <2>7. IsMade(s, u, i, p, type)
    BY <1>4 DEF Creation
  <2>8. PICK e \in Entries : e = DirEntry(i, nm, type)
    BY <2>1 DEF DirEntry, Entries, PathNames
  <2>9. PICK a : a = DirAdd(u, p, e) /\ r = IF a.ok THEN a ELSE Fail(RolledBack(u, i))
    BY <1>4, <2>8 DEF Creation
  <2>10. Shape(u) /\ Sectors(u) /\ Own(u) /\ Others(s, u, i) /\ u.inode[i].type = type
    BY <2>7 DEF IsMade
  <2>11. ASSUME a.ok PROVE Keeps(s, a.fs)
    <3>1. p \in Dirs(u) /\ (Small(a.fs) => \E k : Added(u, a.fs, p, k, e))
      BY <2>4, <2>8, <2>9, <2>10, <2>11, DirAddAdds
    <3>2. p # i /\ p \in Dirs(s)
      BY <2>1, <2>10, <3>1 DEF Others, Dirs
    <3>3. nm \in Names /\ \A j : LinkAt(s, p, j) => Ent(s, p, j).name # nm
      BY <2>5, <3>2 DEF StepOK
    <3>4. ASSUME Small(a.fs) PROVE FsOK(a.fs)
      <4>1. PICK k : Added(u, a.fs, p, k, e)
        BY <3>1, <3>4
      <4>2. TreeOK(a.fs)
        BY <1>2, <2>1, <2>7, <2>8, <3>2, <3>3, <4>1, CreatedTree
      <4>3. Others(u, a.fs, p) /\ p \in Allocated(a.fs) /\ i \in Allocated(u)
        <5>1. Others(u, a.fs, p) /\ p \in Dirs(a.fs)
          BY <4>1 DEF Added
        <5>2. type # Free
          BY BlockNat
        <5>3. p \in Allocated(a.fs)
          BY <5>1, BlockNat DEF Dirs, Allocated
        <5> QED BY <2>1, <2>10, <5>1, <5>2, <5>3 DEF Allocated
      <4>4. Blank(a.fs)
        BY <1>2, <2>10, <4>3 DEF Blank, Others, Allocated
      <4> QED BY <4>1, <4>2, <4>4 DEF FsOK, Added
    <3>5. GrowsOne(u, a.fs, p)
      BY <2>4, <2>9, <2>10, DirAddGrows
    <3>6. ASSUME NEW n \in Nat, n >= 2, UpTo(s, n) PROVE UpTo(a.fs, n + 1)
      <4>1. SUFFICES ASSUME NEW d \in Dirs(a.fs) PROVE a.fs.inode[d].size \in 0..n + 1
        BY DEF UpTo
      <4>2. \A j \in Dirs(s) : s.inode[j].size \in Nat /\ s.inode[j].size <= n
        BY <1>2, <3>6, DirsAre DEF UpTo
      <4>3. d \in Ino /\ a.fs.inode[d].type = Dir
        BY DEF Dirs
      <4>4. CASE d = p
        <5>1. u.inode[p].size = s.inode[p].size
          BY <2>4, <2>10, <3>2 DEF Others
        <5> QED BY <3>2, <3>5, <4>2, <4>4, <5>1 DEF GrowsOne
      <4>5. CASE d # p /\ d # i
        <5>1. a.fs.inode[d] = s.inode[d]
          BY <2>10, <3>5, <4>3, <4>5 DEF GrowsOne, Others
        <5> QED BY <4>2, <4>3, <5>1 DEF Dirs
      <4>6. CASE d = i
        <5>1. a.fs.inode[d] = u.inode[i]
          BY <2>10, <3>2, <3>5, <4>3, <4>6 DEF GrowsOne, Others
        <5>2. u.inode[i].size = 2
          BY <2>7, <2>10, <4>3, <5>1 DEF IsMade
        <5> QED BY <3>6, <5>1, <5>2
      <4> QED BY <4>4, <4>5, <4>6
    <3> QED BY <3>4, <3>5, <3>6 DEF Keeps, GrowsOne
  <2>12. ASSUME ~a.ok PROVE Keeps(s, RolledBack(u, i))
    <3>1. PICK t : t = RolledBack(u, i)
      OBVIOUS
    <3>2. Shape(t) /\ Sectors(t) /\ Own(t) /\ TreeOK(t) /\ SameTree(s, t)
      BY <1>2, <2>1, <2>7, <3>1, RolledBackKeeps
    <3>3. ASSUME NEW n \in Nat, UpTo(s, n) PROVE UpTo(t, n + 1)
      <4>1. UpTo(s, n + 1)
        BY <1>2, <3>3, KeepsSame, DirsAre DEF UpTo
      <4> QED BY <3>2, <4>1 DEF UpTo, SameTree, Dirs
    <3>4. Blank(t)
      <4>1. t.inode[i].size = 0 /\ \A j \in Ino \ {i} : t.inode[j] = u.inode[j]
        BY <2>1, <2>10, <3>1, RolledBackInode
      <4> QED BY <1>2, <2>10, <4>1 DEF Blank, Others, Allocated
    <3> QED BY <3>1, <3>2, <3>3, <3>4, ShapeStruct DEF Keeps, FsOK
  <2> QED BY <2>9, <2>11, <2>12, OkFail
<1> QED BY <1>1, <1>3, <1>4, CreateCases

-----------------------------------------------------------------------------
(* write_file and append_file.                                               *)

(* A write leaves the inodes of the others alone, whatever the state. *)
LEMMA StoreInodes ==
  ASSUME NEW s, Struct(s), NEW ino, NEW c
  PROVE  \A i \in Ino \ {ino} : Store(s, ino, c).fs.inode[i] = s.inode[i]
<1>1. ASSUME NEW u, Struct(u), NEW B PROVE Struct(FreeBlocks(u, B)) /\ FreeBlocks(u, B).inode = u.inode
  <2>1. PICK b0, d0, i0, x0 : u = [bm |-> b0, dbm |-> d0, inode |-> i0, data |-> x0] /\ u.inode = i0 /\ DOMAIN i0 = Ino
    BY <1>1 DEF Struct, WholeRecord
  <2>2. PICK y, z : FreeBlocks(u, B) = [u EXCEPT !.bm = y, !.data = z]
    BY DEF FreeBlocks
  <2>3. FreeBlocks(u, B) = [bm |-> y, dbm |-> d0, inode |-> i0, data |-> z]
    BY <2>1, <2>2
  <2> QED BY <2>1, <2>3 DEF Struct, WholeRecord
<1>2. ASSUME NEW u, Struct(u), NEW need PROVE Struct(Mapped(u, need).fs) /\ Mapped(u, need).fs.inode = u.inode
  <2>1. PICK b0, d0, i0, x0 : u = [bm |-> b0, dbm |-> d0, inode |-> i0, data |-> x0] /\ u.inode = i0 /\ DOMAIN i0 = Ino
    BY <1>2 DEF Struct, WholeRecord
  <2>2. PICK y, z : Mapped(u, need).fs = [u EXCEPT !.bm = y, !.data = z]
    BY DEF Mapped
  <2>3. Mapped(u, need).fs = [bm |-> y, dbm |-> d0, inode |-> i0, data |-> z]
    BY <2>1, <2>2
  <2> QED BY <2>1, <2>3 DEF Struct, WholeRecord
<1> DEFINE OnlyIno(u, a) ==
             \E x, z : a = [u EXCEPT !.inode[ino] = x, !.data = z] \/ a = [u EXCEPT !.inode[ino] = x]
<1>3. ASSUME NEW u, Struct(u), NEW a, OnlyIno(u, a)
      PROVE  \A i \in Ino \ {ino} : Flush(a).inode[i] = u.inode[i]
  <2>0. PICK x, z : a = [u EXCEPT !.inode[ino] = x, !.data = z] \/ a = [u EXCEPT !.inode[ino] = x]
    BY <1>3
  <2>1. u = [bm |-> u.bm, dbm |-> u.dbm, inode |-> u.inode, data |-> u.data] /\ DOMAIN u.inode = Ino
    BY <1>3 DEF Struct, WholeRecord
  <2>2. PICK f : f = [u.inode EXCEPT ![ino] = x]
    OBVIOUS
  <2>3. \A i \in Ino \ {ino} : f[i] = u.inode[i]
    BY <2>1, <2>2
  <2>4. PICK y : a = [bm |-> u.bm, dbm |-> u.dbm, inode |-> f, data |-> y]
    BY <2>0, <2>1, <2>2
  <2>5. Flush(a).inode = f
    BY <2>4 DEF Flush
  <2> QED BY <2>3, <2>5
<1> DEFINE u == FreeBlocks(s, Held(s, s.inode[ino]))
           m == Mapped(u, StoreNeed(c))
           in == MapInode(m, Len(c))
           w == Written(m.fs, ino, in, c)
           v == FreeBlocks(m.fs, Held(m.fs, in))
<1>5. Store(s, ino, c) = IF m.ok THEN Ok(Flush(w)) ELSE WriteFileAbort(m.fs, ino, in)
  BY StoreIs, Zenon
<1>6. Struct(m.fs) /\ m.fs.inode = s.inode /\ Struct(v) /\ v.inode = s.inode
  BY <1>1, <1>2
<1>7. \A i \in Ino \ {ino} : Flush(w).inode[i] = s.inode[i]
  <2>1. OnlyIno(m.fs, w)
    BY DEF Written
  <2> HIDE DEF w, in, m, OnlyIno
  <2> QED BY <1>3, <1>6, <2>1
<1>8. WriteFileAbort(m.fs, ino, in) = Fail(Flush([v EXCEPT !.inode[ino] = EmptyFile]))
  BY Zenon DEF WriteFileAbort, EmptyFile
<1> HIDE DEF u, m, in, w, v
<1>9. \A i \in Ino \ {ino} : Flush([v EXCEPT !.inode[ino] = EmptyFile]).inode[i] = s.inode[i]
  <2>1. OnlyIno(v, [v EXCEPT !.inode[ino] = EmptyFile])
    OBVIOUS
  <2> HIDE DEF OnlyIno
  <2> QED BY <1>3, <1>6, <2>1
<1>10. CASE m.ok
  BY <1>5, <1>7, <1>10, OkFail
<1>11. CASE ~m.ok
  BY <1>5, <1>8, <1>9, <1>11, OkFail
<1> QED BY <1>10, <1>11

LEMMA WriteKeeps ==
  ASSUME NEW s, FsOK(s), NEW path \in Seq(PathNames), path # << >>, NEW c, Len(c) \in Nat,
         Small(WriteFile(s, Root, path, c).fs)
  PROVE  FsOK(WriteFile(s, Root, path, c).fs)
<1> DEFINE made == IF Resolve(s, Root, path) # Nil THEN Ok(s) ELSE CreateInode(s, Root, path, File)
           ino == Resolve(made.fs, Root, path)
           r == WriteFile(s, Root, path, c)
<1>1. r = IF ~made.ok \/ ino = Nil THEN Fail(made.fs)
          ELSE IF made.fs.inode[ino].type # File \/ Len(c) > MaxFile THEN Fail(made.fs)
          ELSE Store(made.fs, ino, c)
  BY Zenon DEF WriteFile
<1>2. PICK q : q = made.fs /\ Keeps(s, q)
  BY CreateKeeps, KeepsSame, OkFail
<1>3. CASE r = Fail(made.fs)
  BY <1>2, <1>3, OkFail DEF Keeps
<1>4. CASE r = Store(q, ino, c) /\ ino # Nil /\ q.inode[ino].type = File /\ ~(Len(c) > MaxFile)
  <2>1. PICK i : i = ino /\ i = Resolve(q, Root, path)
    BY <1>2
  <2> HIDE DEF made, ino
  <2>2. PICK t : t = Store(q, i, c).fs /\ t = r.fs
    BY <1>4, <2>1
  <2>3. \A j \in Ino \ {i} : t.inode[j] = q.inode[j]
    <3>1. Struct(q)
      BY <1>2 DEF Keeps
    <3>2. \A j \in Ino \ {i} : Store(q, i, c).fs.inode[j] = q.inode[j]
      BY <3>1, StoreInodes
    <3> QED BY <2>2, <3>2
  <2>4. Small(q)
    <3>1. Small(t)
      BY <2>2
    <3>2. SUFFICES ASSUME NEW d \in Dirs(q) PROVE q.inode[d].size <= MaxDirect * DePerBlk
      BY DEF Small
    <3>3. d \in Ino /\ q.inode[d].type = Dir /\ d # i
      BY <1>4, <2>1 DEF Dirs, File, Dir
    <3>4. t.inode[d] = q.inode[d] /\ d \in Dirs(t)
      BY <2>3, <3>3 DEF Dirs
    <3> QED BY <3>1, <3>4 DEF Small
  <2>5. Shape(q) /\ Sectors(q) /\ Own(q) /\ TreeOK(q) /\ Blank(q)
    BY <1>2, <2>4 DEF Keeps, FsOK
  <2>6. i \in Allocated(q)
    BY <1>4, <2>1, <2>5, ResolveIn
  <2>7. Len(c) <= MaxFile
    <3>1. MaxFile \in Nat
      BY Sizes, Product DEF MaxFile
    <3> QED BY <1>4, <3>1
  <2>8. Shape(t) /\ Sectors(t) /\ Own(t) /\ Others(q, t, i) /\ t.inode[i].type = File
    BY <2>2, <2>5, <2>6, <2>7, StoreKeeps
  <2>9. SameTree(q, t)
    <3>1. i \in Ino /\ q.inode[i].type = File /\ File # Dir
      BY <1>4, <2>1, <2>6 DEF Allocated, File, Dir
    <3> QED BY <2>5, <2>8, <3>1, OthersTree
  <2>10. TreeOK(t)
    BY <2>5, <2>9, SameTreeKeeps
  <2>11. Blank(t)
    BY <2>5, <2>8, BlockNat DEF Blank, Others, Allocated
  <2> QED BY <2>2, <2>8, <2>10, <2>11 DEF FsOK
<1> HIDE DEF made, ino, r
<1> QED BY <1>1, <1>2, <1>3, <1>4, Zenon

LEMMA LongerFile ==
  ASSUME NEW s, FsOK(s), NEW i \in Allocated(s), NEW c \in Seq(Nat)
  PROVE  Len(ReadFile(s, i) \o c) \in Nat /\ \E S : ReadFile(s, i) \o c \in Seq(S)
<1>1. i \in Ino /\ s.inode[i] \in Inodes
  BY ShapeParts DEF FsOK, Allocated
<1>2. PICK n \in Nat : n = s.inode[i].size
  BY <1>1, InodeParts
<1>3. PICK S, f : f = ReadFile(s, i) /\ f \in [1..n -> S] /\ Nat \subseteq S
  <2> DEFINE v(k) == s.data[BlockAt(s, s.inode[i], (k - 1) \div BlkSize)].val[(k - 1) % BlkSize]
  <2>1. ReadFile(s, i) = [k \in 1..n |-> v(k)]
    BY <1>2 DEF ReadFile
  <2> HIDE DEF v
  <2>2. [k \in 1..n |-> v(k)] \in [1..n -> {v(k) : k \in 1..n} \cup Nat]
    OBVIOUS
  <2> QED BY <2>1, <2>2
<1>4. f \in Seq(S) /\ c \in Seq(S)
  BY <1>3
<1>5. f \o c \in Seq(S)
  BY <1>4
<1> QED BY <1>3, <1>5

LEMMA AppendKeeps ==
  ASSUME NEW s, FsOK(s), NEW path \in Seq(PathNames), path # << >>, NEW c \in Seq(Nat),
         Small(AppendFile(s, Root, path, c).fs)
  PROVE  FsOK(AppendFile(s, Root, path, c).fs)
<1> DEFINE ino == Resolve(s, Root, path)
           old == ReadFile(s, ino)
           r == AppendFile(s, Root, path, c)
<1>1. r = IF ino = Nil THEN WriteFile(s, Root, path, c)
          ELSE IF s.inode[ino].type # File \/ s.inode[ino].size + Len(c) > MaxFile THEN Fail(s)
          ELSE WriteFile(s, Root, path, old \o c)
  BY Zenon DEF AppendFile
<1>2. CASE r = Fail(s)
  BY <1>2, OkFail
<1>3. CASE r = WriteFile(s, Root, path, c)
  <2>1. Len(c) \in Nat
    OBVIOUS
  <2> QED BY <1>3, <2>1, WriteKeeps
<1>4. CASE ino # Nil /\ r = WriteFile(s, Root, path, old \o c)
  <2>1. ino \in Allocated(s)
    BY <1>4, ResolveIn DEF FsOK
  <2>5. Len(old \o c) \in Nat
    BY <2>1, LongerFile
  <2> HIDE DEF old, ino, r
  <2> QED BY <1>4, <2>5, WriteKeeps DEF r
<1> HIDE DEF ino, old, r
<1> QED BY <1>1, <1>2, <1>3, <1>4, Zenon

-----------------------------------------------------------------------------
(* remove_file: the inodes below the one removed.                            *)

(* An inode's children are what its links name. *)
LEMMA ChildrenAre ==
  ASSUME NEW s, FsOK(s), NEW i \in Ino
  PROVE  /\ \A j : j \in Children(s, i) <=> \E k : LinkAt(s, i, k) /\ Ent(s, i, k).ino = j
         /\ Children(s, i) \subseteq Allocated(s) \ {Root}
<1> DEFINE in == s.inode[i]
           live == {k \in Slots(in) : Entry(s, in, k).ino # 0 /\ Entry(s, in, k).name \notin {".", ".."}}
<1>1. Shape(s) /\ Sectors(s) /\ Dots(s) /\ Slotted(s) /\ Linked(s)
  BY DEF FsOK, TreeOK
<1>2. Children(s, i) = IF in.type # Dir THEN {} ELSE {Entry(s, in, k).ino : k \in live}
  BY Zenon DEF Children
<1>3. ASSUME in.type = Dir PROVE \A k : k \in live <=> LinkAt(s, i, k)
  <2>1. i \in Dirs(s)
    BY <1>3 DEF Dirs
  <2>2. PICK n \in Nat \ {0, 1} : n = in.size /\ Slots(in) = 0..n-1
    BY <1>1, <2>1, DirsAre
  <2>3. Ent(s, i, 0).name = "." /\ Ent(s, i, 1).name = ".." /\ EmptyEntry.ino = 0 /\ EmptyEntry.name = ""
    BY <1>1, <2>1 DEF Dots, EmptyEntry, DirEntry
  <2>4. ASSUME NEW k, k \in live PROVE LinkAt(s, i, k)
    <3>1. k \in 0..n-1 /\ Ent(s, i, k).ino # 0 /\ Ent(s, i, k).name \notin {".", ".."}
      BY <2>2, <2>4 DEF Ent
    <3>a. k # 0 /\ k # 1
      BY <2>3, <3>1
    <3>2. k \in 2..n-1
      BY <3>1, <3>a
    <3>3. Ent(s, i, k) = EmptyEntry \/ Ent(s, i, k).name \in Names
      BY <1>1, <2>1, <2>2, <3>2 DEF Slotted
    <3>4. Ent(s, i, k).name # ""
      BY <2>3, <3>1, <3>3, NamesAre
    <3> QED BY <2>1, <2>2, <3>2, <3>4 DEF LinkAt
  <2>5. ASSUME NEW k, LinkAt(s, i, k) PROVE k \in live
    <3>1. k \in 2..n-1 /\ Ent(s, i, k).name # ""
      BY <2>2, <2>5 DEF LinkAt
    <3>2. Ent(s, i, k) = EmptyEntry \/ Ent(s, i, k).name \in Names
      BY <1>1, <2>1, <2>2, <3>1 DEF Slotted
    <3>3. Ent(s, i, k).name \notin {".", ".."}
      BY <2>3, <3>1, <3>2, NamesAre
    <3>4. Ent(s, i, k).ino # 0
      BY <1>1, <2>5 DEF Linked, Root
    <3>5. k \in Slots(in)
      <4>1. k \in 2..n-1
        BY <3>1
      <4>2. 2..n-1 \subseteq 0..n-1
        OBVIOUS
      <4>3. k \in 0..n-1
        BY <4>1, <4>2
      <4> QED BY <2>2, <4>3
    <3> QED BY <3>3, <3>4, <3>5 DEF Ent
  <2> QED BY <2>4, <2>5
<1> HIDE DEF live
<1>4. \A j : j \in Children(s, i) <=> \E k : LinkAt(s, i, k) /\ Ent(s, i, k).ino = j
  <2>1. CASE in.type = Dir
    BY <1>2, <1>3, <2>1 DEF Ent
  <2>2. CASE in.type # Dir
    BY <1>2, <2>2 DEF LinkAt, Dirs
  <2> QED BY <2>1, <2>2
<1> QED BY <1>1, <1>4 DEF Linked

Wider(s, X) == X \cup UNION {Children(s, i) : i \in X}
Reach(s, top, n, f) == f = [i \in 0..n |-> IF i = 0 THEN {top} ELSE Wider(s, f[i - 1])]
LEMMA ReachExists ==
  ASSUME NEW s, NEW top, NEW m \in Nat
  PROVE  \E f : Reach(s, top, m, f)
<1> DEFINE Way(f, n) == f = [i \in 0..n |-> IF i = 0 THEN {top} ELSE Wider(s, f[i - 1])]
           short == {n \in Nat : ~\E f : Way(f, n)}
<1>1. short = {}
  <2> SUFFICES ASSUME short # {} PROVE FALSE
    OBVIOUS
  <2>1. PICK n \in short : \A k \in short : n <= k
    <3>1. short \in SUBSET Nat
      OBVIOUS
    <3> QED BY <3>1, LeastNumber
  <2>2. n \in Nat /\ ~\E f : Way(f, n)
    OBVIOUS
  <2>3. n # 0
    <3>1. PICK f : f = [i \in 0..0 |-> {top}]
      OBVIOUS
    <3>2. Way(f, 0)
      BY <3>1
    <3> QED BY <2>2, <3>2
  <2>4. PICK f : Way(f, n - 1)
    <3>1. n - 1 \in Nat /\ n - 1 \notin short
      <4> HIDE DEF short
      <4> QED BY <2>1, <2>2, <2>3
    <3> QED BY <3>1
  <2>5. PICK g : g = [i \in 0..n |-> IF i = n THEN Wider(s, f[n - 1]) ELSE f[i]]
    OBVIOUS
  <2>6. \A i \in 0..n : g[i] = IF i = 0 THEN {top} ELSE Wider(s, g[i - 1])
    <3>1. SUFFICES ASSUME NEW i \in 0..n PROVE g[i] = IF i = 0 THEN {top} ELSE Wider(s, g[i - 1])
      OBVIOUS
    <3>2. CASE i = n
      <4>1. g[i] = Wider(s, f[n - 1]) /\ g[i - 1] = f[n - 1] /\ i # 0
        BY <2>2, <2>3, <2>5, <3>2
      <4> QED BY <3>2, <4>1
    <3>3. CASE i # n
      <4>1. i \in 0..n-1 /\ g[i] = f[i] /\ (i # 0 => i - 1 \in 0..n /\ i - 1 # n /\ g[i - 1] = f[i - 1])
        BY <2>2, <2>5, <3>3
      <4>2. f[i] = IF i = 0 THEN {top} ELSE Wider(s, f[i - 1])
        BY <2>4, <4>1
      <4> QED BY <4>1, <4>2
    <3> QED BY <3>2, <3>3
  <2>7. Way(g, n)
    BY <2>5, <2>6
  <2> QED BY <2>2, <2>7
<1> QED BY <1>1 DEF Reach

(* The inodes visited: the removed one, all of its descendants and only those. *)
Below(s, top, G) ==
  /\ top \in G /\ G \subseteq Allocated(s) \ {Root}
  /\ \A j \in G : j # top => \E i \in G : j \in Children(s, i)
  /\ \A i \in G : Children(s, i) \subseteq G
LEMMA SubtreeIs ==
  ASSUME NEW s, FsOK(s), NEW top \in Allocated(s) \ {Root}
  PROVE  Below(s, top, Subtree(s, top))
<1> DEFINE reach[n \in 0..NIno] ==
             IF n = 0 THEN {top} ELSE reach[n - 1] \cup UNION {Children(s, i) : i \in reach[n - 1]}
<1>1. Subtree(s, top) = reach[NIno]
  BY Zenon DEF Subtree
<1>2. reach = CHOOSE f : Reach(s, top, NIno, f)
  BY Zenon DEF Reach, Wider
<1>3. \E f : Reach(s, top, NIno, f)
  BY ReachExists, Sizes
<1> HIDE DEF reach
<1>4. PICK f : f = reach /\ Reach(s, top, NIno, f)
  BY <1>2, <1>3, Zenon
<1>5. f[0] = {top} /\ \A n \in 1..NIno : f[n] = Wider(s, f[n - 1])
  <2>1. 0 \in 0..NIno /\ \A n \in 1..NIno : n \in 0..NIno /\ n # 0
    BY Sizes
  <2>2. \A n \in 0..NIno : f[n] = IF n = 0 THEN {top} ELSE Wider(s, f[n - 1])
    BY <1>4 DEF Reach
  <2> QED BY <2>1, <2>2
<1> DEFINE Kin(X) == /\ top \in X /\ X \subseteq Allocated(s) \ {Root}
                     /\ \A j \in X : j # top => \E i \in X : j \in Children(s, i)
           Closed(X) == \A i \in X : Children(s, i) \subseteq X
           Good(n) == /\ Kin(f[n]) /\ IsFiniteSet(f[n])
                      /\ Closed(f[n]) \/ Cardinality(f[n]) >= n + 1
           bad == {n \in 0..NIno : ~Good(n)}
<1>6. IsFiniteSet(Ino) /\ Cardinality(Ino) = NIno
  BY Sizes, FiniteDisk
<1>7. ASSUME NEW X, Kin(X) PROVE IsFiniteSet(X) /\ Cardinality(X) \in Nat /\ Cardinality(X) <= NIno
  <2>1. X \in SUBSET Ino
    BY <1>7 DEF Allocated
  <2> HIDE DEF Kin
  <2> QED BY <1>6, <2>1, FS_Subset, FS_CardinalityType
<1>8. ASSUME NEW X, Kin(X)
      PROVE  Kin(Wider(s, X)) /\ X \subseteq Wider(s, X) /\ (Closed(X) => Wider(s, X) = X) /\ (~Closed(X) => X # Wider(s, X))
  <2>1. \A i \in X : Children(s, i) \subseteq Allocated(s) \ {Root}
    BY <1>8, ChildrenAre DEF Allocated
  <2>2. X \subseteq Wider(s, X) /\ \A i \in X : Children(s, i) \subseteq Wider(s, X)
    BY DEF Wider
  <2>3. \A j \in Wider(s, X) : j \in X \/ \E i \in X : j \in Children(s, i)
    BY DEF Wider
  <2>4. Kin(Wider(s, X))
    BY <1>8, <2>1, <2>2, <2>3
  <2>5. Closed(X) => Wider(s, X) = X
    BY <2>2, <2>3
  <2>6. ~Closed(X) => X # Wider(s, X)
    BY <2>2
  <2> QED BY <2>2, <2>4, <2>5, <2>6
<1>9. bad = {}
  <2> SUFFICES ASSUME bad # {} PROVE FALSE
    OBVIOUS
  <2>1. PICK n \in bad : \A j \in bad : n <= j
    <3>1. bad \in SUBSET Nat
      BY Sizes
    <3> QED BY <3>1, LeastNumber
  <2>2. Good(0)
    <3>1. Kin({top})
      OBVIOUS
    <3>2. Cardinality({top}) = 1 /\ IsFiniteSet({top})
      BY FS_Singleton
    <3> QED BY <1>5, <3>1, <3>2
  <2>3. n \in 1..NIno /\ n - 1 \in 0..NIno /\ Good(n - 1)
    BY <2>1, <2>2, Sizes
  <2>4. PICK X, Y : X = f[n - 1] /\ Y = f[n] /\ Y = Wider(s, X) /\ Kin(X) /\ IsFiniteSet(X)
                    /\ (Closed(X) \/ Cardinality(X) >= (n - 1) + 1)
    BY <1>5, <2>3
  <2>5. Kin(Y) /\ X \subseteq Y /\ (Closed(X) => Y = X) /\ (~Closed(X) => X # Y)
    BY <1>8, <2>4
  <2> HIDE DEF Kin, Closed
  <2>6. IsFiniteSet(Y) /\ Cardinality(X) \in Nat /\ Cardinality(Y) \in Nat
    BY <1>7, <2>4, <2>5
  <2>7. ~Closed(X) => Cardinality(Y) > Cardinality(X)
    BY <2>5, <2>6, FS_Subset
  <2>8. Closed(Y) \/ Cardinality(Y) >= n + 1
    BY <2>3, <2>4, <2>5, <2>6, <2>7
  <2> QED BY <2>1, <2>4, <2>5, <2>6, <2>8
<1>10. Good(NIno)
  BY <1>9, Sizes
<1> HIDE DEF Kin
<1>11. Closed(f[NIno])
  <2>1. Kin(f[NIno]) /\ (Closed(f[NIno]) \/ Cardinality(f[NIno]) >= NIno + 1)
    BY <1>10
  <2> HIDE DEF Closed
  <2> QED BY <1>7, <2>1, Sizes
<1> QED BY <1>1, <1>4, <1>10, <1>11 DEF Below, Kin

-----------------------------------------------------------------------------
(* remove_file: what is left is a tree.                                      *)

(* The inodes of G are gone, and the entry in slot k of directory p is. *)
Pruned(s, t, G, p, k) ==
  /\ \A i \in Ino : IF i \in G THEN t.inode[i].type = Free ELSE t.inode[i] = s.inode[i]
  /\ \A d \in Dirs(s) : d \notin G =>
       \A j \in 0..s.inode[d].size-1 : Ent(t, d, j) = IF d = p /\ j = k THEN EmptyEntry ELSE Ent(s, d, j)
LEMMA PrunedTree ==
  ASSUME NEW s, FsOK(s), NEW p, NEW k, LinkAt(s, p, k), NEW G, Below(s, Ent(s, p, k).ino, G),
         NEW t, Pruned(s, t, G, p, k)
  PROVE  TreeOK(t)
<1>1. Shape(s) /\ Sectors(s) /\ Dots(s) /\ Slotted(s) /\ Linked(s) /\ OneLink(s) /\ OneName(s) /\ NoOrphan(s) /\ Parents(s)
  BY DEF FsOK, TreeOK
<1>2. PICK top : top = Ent(s, p, k).ino /\ top \in G /\ G \subseteq Allocated(s) \ {Root}
                 /\ (\A j \in G : j # top => \E i \in G : j \in Children(s, i))
                 /\ (\A i \in G : Children(s, i) \subseteq G)
  BY DEF Below
<1>3. Dirs(t) = Dirs(s) \ G /\ \A d \in Dirs(t) : t.inode[d] = s.inode[d] /\ d \in Dirs(s)
  <2>1. Free # Dir
    BY BlockNat
  <2>2. \A i \in Ino : i \in Dirs(t) <=> i \in Dirs(s) /\ i \notin G
    BY <2>1 DEF Pruned, Dirs
  <2>3. Dirs(t) \subseteq Ino /\ Dirs(s) \subseteq Ino
    BY DEF Dirs
  <2> QED BY <2>2, <2>3 DEF Pruned
<1>4. Allocated(t) = Allocated(s) \ G /\ \A i \in Allocated(t) : t.inode[i] = s.inode[i]
  BY DEF Pruned, Allocated
<1>5. p \in Dirs(s) /\ k # 0 /\ k # 1
  <2>1. p \in Dirs(s) /\ k \in 2..s.inode[p].size-1
    BY DEF LinkAt
  <2> QED BY <2>1
<1>6. \A d \in Dirs(t) : Ent(t, d, 0) = Ent(s, d, 0) /\ Ent(t, d, 1) = Ent(s, d, 1)
  <2> SUFFICES ASSUME NEW d \in Dirs(t) PROVE Ent(t, d, 0) = Ent(s, d, 0) /\ Ent(t, d, 1) = Ent(s, d, 1)
    OBVIOUS
  <2>1. d \in Dirs(s) /\ d \notin G
    BY <1>3
  <2>2. s.inode[d].size \in Nat \ {0, 1}
    BY <1>1, <2>1, DirsAre
  <2>3. 0 \in 0..s.inode[d].size-1 /\ 1 \in 0..s.inode[d].size-1
    BY <2>2
  <2> QED BY <1>5, <2>1, <2>3 DEF Pruned
<1>7. \A d \in Dirs(t) : \A j \in 2..t.inode[d].size-1 :
        j \in 2..s.inode[d].size-1 /\ Ent(t, d, j) = IF d = p /\ j = k THEN EmptyEntry ELSE Ent(s, d, j)
  <2> SUFFICES ASSUME NEW d \in Dirs(t), NEW j \in 2..t.inode[d].size-1
               PROVE  j \in 2..s.inode[d].size-1 /\ Ent(t, d, j) = IF d = p /\ j = k THEN EmptyEntry ELSE Ent(s, d, j)
    OBVIOUS
  <2>1. d \in Dirs(s) /\ d \notin G /\ j \in 2..s.inode[d].size-1
    BY <1>3
  <2>2. s.inode[d].size \in Nat \ {0, 1}
    BY <1>1, <2>1, DirsAre
  <2>3. j \in 0..s.inode[d].size-1
    BY <2>1, <2>2
  <2> QED BY <2>1, <2>3 DEF Pruned
<1>8. EmptyEntry.name = ""
  BY DEF EmptyEntry, DirEntry
<1>9. ASSUME NEW d, NEW j, LinkAt(t, d, j)
      PROVE  LinkAt(s, d, j) /\ Ent(t, d, j) = Ent(s, d, j) /\ ~(d = p /\ j = k) /\ d \notin G
  <2>1. d \in Dirs(t) /\ j \in 2..t.inode[d].size-1 /\ Ent(t, d, j).name # ""
    BY <1>9 DEF LinkAt
  <2>2. j \in 2..s.inode[d].size-1 /\ ~(d = p /\ j = k) /\ Ent(t, d, j) = Ent(s, d, j)
    BY <1>7, <1>8, <2>1
  <2> QED BY <1>3, <2>1, <2>2 DEF LinkAt
<1>10. ASSUME NEW d, NEW j, LinkAt(s, d, j), d \notin G, ~(d = p /\ j = k)
       PROVE  LinkAt(t, d, j)
  <2>1. d \in Dirs(s) /\ j \in 2..s.inode[d].size-1 /\ Ent(s, d, j).name # ""
    BY <1>10 DEF LinkAt
  <2>2. d \in Dirs(t) /\ t.inode[d] = s.inode[d]
    BY <1>3, <1>10, <2>1
  <2>3. j \in 2..t.inode[d].size-1
    BY <2>1, <2>2
  <2>4. Ent(t, d, j) = Ent(s, d, j)
    BY <1>7, <1>10, <2>2, <2>3
  <2> QED BY <2>1, <2>2, <2>3, <2>4 DEF LinkAt
<1>11. ASSUME NEW d, NEW j, LinkAt(t, d, j)
       PROVE  Ent(s, d, j).ino \notin G
  <2>1. LinkAt(s, d, j) /\ ~(d = p /\ j = k) /\ d \notin G
    BY <1>9, <1>11
  <2> SUFFICES ASSUME Ent(s, d, j).ino \in G PROVE FALSE
    OBVIOUS
  <2>2. Ent(s, d, j).ino # top
    BY <1>1, <1>2, <2>1 DEF OneLink
  <2>3. PICK i \in G : Ent(s, d, j).ino \in Children(s, i)
    BY <1>2, <2>2
  <2>4. i \in Ino
    BY <1>2 DEF Allocated
  <2>5. PICK m : LinkAt(s, i, m) /\ Ent(s, i, m).ino = Ent(s, d, j).ino
    BY <2>3, <2>4, ChildrenAre
  <2>6. d = i
    BY <1>1, <2>1, <2>5 DEF OneLink
  <2> QED BY <2>1, <2>6
<1>12. Dots(t)
  <2>1. Root \in Dirs(t)
    BY <1>1, <1>2, <1>3 DEF Dots
  <2>2. \A d \in Dirs(t) : Ent(t, d, 0).name = "." /\ Ent(t, d, 1).name = ".."
    BY <1>1, <1>3, <1>6 DEF Dots
  <2> QED BY <2>1, <2>2 DEF Dots
<1>13. Slotted(t)
  BY <1>1, <1>3, <1>7 DEF Slotted
<1>14. Linked(t)
  <2> SUFFICES ASSUME NEW d, NEW j, LinkAt(t, d, j)
               PROVE  /\ Ent(t, d, j).ino \in Allocated(t) /\ Ent(t, d, j).ino # Root
                      /\ Ent(t, d, j).type = t.inode[Ent(t, d, j).ino].type
    BY DEF Linked
  <2>1. LinkAt(s, d, j) /\ Ent(t, d, j) = Ent(s, d, j) /\ Ent(s, d, j).ino \notin G
    BY <1>9, <1>11
  <2>2. Ent(s, d, j).ino \in Allocated(s) /\ Ent(s, d, j).ino # Root /\ Ent(s, d, j).type = s.inode[Ent(s, d, j).ino].type
    BY <1>1, <2>1 DEF Linked
  <2> QED BY <1>4, <2>1, <2>2
<1>15. OneLink(t)
  BY <1>1, <1>9 DEF OneLink
<1>16. OneName(t)
  BY <1>1, <1>9 DEF OneName
<1>17. NoOrphan(t)
  <2> SUFFICES ASSUME NEW i \in Allocated(t) \ {Root} PROVE \E d, j : LinkAt(t, d, j) /\ Ent(t, d, j).ino = i
    BY DEF NoOrphan
  <2>1. i \in Allocated(s) \ {Root} /\ i \notin G
    BY <1>4
  <2>2. PICK d, j : LinkAt(s, d, j) /\ Ent(s, d, j).ino = i
    BY <1>1, <2>1 DEF NoOrphan
  <2>3. d \notin G
    <3>1. d \in Ino
      BY <2>2 DEF LinkAt, Dirs
    <3>2. i \in Children(s, d)
      BY <2>2, <3>1, ChildrenAre
    <3> QED BY <1>2, <2>1, <3>2
  <2>4. ~(d = p /\ j = k)
    BY <1>2, <2>1, <2>2
  <2>5. LinkAt(t, d, j) /\ Ent(t, d, j) = Ent(s, d, j)
    BY <1>9, <1>10, <2>2, <2>3, <2>4
  <2> QED BY <2>2, <2>5
<1>18. Parents(t)
  <2>1. Ent(t, Root, 1).ino = Root
    BY <1>1, <1>6, <1>12 DEF Parents, Dots
  <2>2. ASSUME NEW d, NEW j, LinkAt(t, d, j), Ent(t, d, j).type = Dir PROVE Ent(t, Ent(t, d, j).ino, 1).ino = d
    <3>1. PICK i : LinkAt(s, d, j) /\ Ent(t, d, j) = Ent(s, d, j) /\ Ent(s, d, j).ino = i /\ i \notin G
      BY <1>9, <1>11, <2>2
    <3>2. i \in Dirs(s)
      BY <1>1, <2>2, <3>1 DEF Linked, Allocated, Dirs
    <3>3. Ent(s, i, 1).ino = d
      BY <1>1, <2>2, <3>1 DEF Parents
    <3>4. Ent(t, i, 1) = Ent(s, i, 1)
      BY <1>3, <1>6, <3>1, <3>2
    <3> QED BY <3>1, <3>3, <3>4
  <2> QED BY <2>1, <2>2 DEF Parents
<1> QED BY <1>12, <1>13, <1>14, <1>15, <1>16, <1>17, <1>18 DEF TreeOK

(* The blocks and the inodes of G are given back. *)
Cleared(s, G) ==
  [FreeBlocks(s, UNION {Held(s, s.inode[i]) : i \in G}) EXCEPT
     !.inode = [i \in Ino |-> IF i \in G THEN ZeroInode ELSE s.inode[i]]]
IsCleared(s, t, G) ==
  /\ Shape(t) /\ Sectors(t) /\ Own(t)
  /\ \A i \in Ino : IF i \in G THEN t.inode[i] = ZeroInode ELSE t.inode[i] = s.inode[i]
  /\ \A i \in Allocated(s) : i \notin G => Untouched(s, t, i)
LEMMA ClearedKeeps ==
  ASSUME NEW s, Shape(s), Sectors(s), Own(s), NEW G, G \subseteq Allocated(s)
  PROVE  IsCleared(s, Cleared(s, G), G)
<1> DEFINE t == Cleared(s, G)
           f == [i \in Ino |-> IF i \in G THEN ZeroInode ELSE s.inode[i]]
<1>1. PICK B : B = UNION {Held(s, s.inode[i]) : i \in G} /\ B = UNION {Blocks(s, i) : i \in G}
  <2>1. \A i \in G : Held(s, s.inode[i]) = Blocks(s, i)
    BY BlocksOf DEF Allocated
  <2>2. UNION {Held(s, s.inode[i]) : i \in G} = UNION {Blocks(s, i) : i \in G}
    BY <2>1
  <2> QED BY <2>2
<1>2. PICK u : u = FreeBlocks(s, B) /\ Shape(u) /\ u.bm = s.bm \ B
  BY FreeBlocksIs
<1>3. \A b \in Block : u.data[b] = IF b \in B THEN Stale ELSE s.data[b]
  BY <1>2, FreeBlocksIs
<1>4. t = [u EXCEPT !.inode = f]
  BY <1>1, <1>2, Zenon DEF Cleared
<1>5. f \in [Ino -> Inodes] /\ \A i \in Ino : f[i] = IF i \in G THEN ZeroInode ELSE s.inode[i]
  BY ZeroInodeIs, ShapeParts
<1> HIDE DEF t, f
<1>6. t = [bm |-> u.bm, dbm |-> u.dbm, inode |-> f, data |-> u.data]
  BY <1>2, <1>4 DEF Shape
<1>7. t.bm = u.bm /\ t.dbm = u.dbm /\ t.inode = f /\ t.data = u.data
  BY <1>6
<1>8. Shape(t)
  BY <1>2, <1>5, <1>6, <1>7 DEF Shape
<1>9. \A i \in Ino : IF i \in G THEN t.inode[i] = ZeroInode ELSE t.inode[i] = s.inode[i]
  BY <1>5, <1>7
<1>10. ASSUME NEW i \in Allocated(s), i \notin G PROVE Untouched(s, t, i)
  <2>1. i \in Ino
    BY DEF Allocated
  <2>2. t.inode[i] = s.inode[i]
    BY <1>9, <1>10, <2>1
  <2>3. ASSUME NEW b \in Blocks(s, i) PROVE t.data[b] = s.data[b]
    <3>1. b \in Block
      BY <2>1, BlocksOf
    <3>2. b \notin B
      BY <1>1, <1>10, <2>1 DEF Own, Allocated
    <3> QED BY <1>3, <1>7, <3>1, <3>2
  <2> QED BY <2>2, <2>3 DEF Untouched
<1>11. \A i \in Ino : IF i \in Allocated(s) \ G THEN Untouched(s, t, i) ELSE i \notin Allocated(t)
  BY <1>9, <1>10, ZeroInodeIs DEF Allocated
<1>12. Own(t)
  <2>1. G \in SUBSET Ino
    BY DEF Allocated
  <2>2. t.bm = s.bm \ UNION {Blocks(s, i) : i \in G}
    BY <1>1, <1>2, <1>7
  <2> QED BY <1>11, <2>1, <2>2, OwnRemoved
<1>13. Sectors(t)
  <2> SUFFICES ASSUME NEW i \in Allocated(t) PROVE FileOK(t, t.inode[i]) \/ DirOK(t, t.inode[i])
    BY DEF Sectors
  <2>1. i \in Allocated(s) /\ Untouched(s, t, i)
    BY <1>11 DEF Allocated
  <2>2. FileOK(s, s.inode[i]) \/ DirOK(s, s.inode[i])
    BY <2>1 DEF Sectors
  <2> QED BY <2>1, <2>2, UntouchedIs
<1> QED BY <1>8, <1>9, <1>10, <1>12, <1>13 DEF IsCleared, t

(* What dir_find finds for a name is a link. *)
LEMMA FoundLink ==
  ASSUME NEW s, FsOK(s), NEW d \in Dirs(s), NEW name \in Names, NEW k \in 0..s.inode[d].size-1, Found(s, d, name, k)
  PROVE  LinkAt(s, d, k)
<1>1. Ent(s, d, k).name = name /\ name # "" /\ name # "." /\ name # ".."
  BY NamesAre DEF Found
<1>2. Ent(s, d, 0).name = "." /\ Ent(s, d, 1).name = ".."
  BY DEF FsOK, TreeOK, Dots
<1>3. k # 0 /\ k # 1
  BY <1>1, <1>2
<1>4. s.inode[d].size \in Nat
  BY DirsAre DEF FsOK
<1>5. k \in 2..s.inode[d].size-1
  BY <1>3, <1>4
<1> QED BY <1>1, <1>5 DEF LinkAt

(* The entry goes last, if its directory is still there. *)
LEMMA UnlinkKeeps ==
  ASSUME NEW s, FsOK(s), NEW p, NEW k, LinkAt(s, p, k), NEW name \in Names, Ent(s, p, k).name = name,
         NEW G, Below(s, Ent(s, p, k).ino, G), NEW c, IsCleared(s, c, G)
  PROVE  LET t == Flush(DirRemove(c, p, name))
         IN  FsOK(t) /\ Pruned(s, t, G, p, k) /\ \A i \in Allocated(s) : i \notin G /\ i # p => Untouched(s, t, i)
<1> DEFINE h == DirFind(c, c.inode[p], name)
           r == DirRemove(c, p, name)
<1>1. Shape(s) /\ Sectors(s) /\ Own(s) /\ TreeOK(s) /\ Blank(s) /\ Shape(c) /\ Sectors(c) /\ Own(c)
  BY DEF FsOK, IsCleared
<1>2. r = IF c.inode[p].type # Dir \/ h = Nil THEN c ELSE PutEntry(c, c.inode[p], h, EmptyEntry)
  BY Zenon DEF DirRemove
<1>3. p \in Dirs(s) /\ p \in Ino /\ k \in 2..s.inode[p].size-1
  BY DEF LinkAt, Dirs
<1>4. ASSUME NEW d \in Dirs(s), d \notin G
      PROVE  c.inode[d] = s.inode[d] /\ d \in Dirs(c) /\ \A j \in 0..s.inode[d].size-1 : Ent(c, d, j) = Ent(s, d, j)
  <2>1. d \in Ino /\ d \in Allocated(s) /\ DirOK(s, s.inode[d])
    BY <1>1, DirsAre
  <2>2. Untouched(s, c, d) /\ c.inode[d] = s.inode[d]
    BY <1>4, <2>1 DEF IsCleared
  <2>3. \A j \in 0..s.inode[d].size-1 : Ent(c, d, j) = Ent(s, d, j)
    BY <1>1, <2>1, <2>2, UntouchedIs DEF Ent
  <2> QED BY <2>2, <2>3 DEF Dirs
<1> HIDE DEF h, r
<1>5. Shape(r) /\ Sectors(r) /\ Own(r) /\ Pruned(s, r, G, p, k) /\ r.inode = c.inode /\ Others(c, r, p)
  <2>1. CASE p \in G
    <3>1. r = c
      BY <1>2, <1>3, <2>1, BlockNat, ZeroInodeIs DEF IsCleared
    <3>2. Pruned(s, c, G, p, k)
      <4>1. \A d \in Dirs(s) : d \notin G =>
              \A j \in 0..s.inode[d].size-1 : Ent(c, d, j) = IF d = p /\ j = k THEN EmptyEntry ELSE Ent(s, d, j)
        BY <1>4, <2>1
      <4> QED BY <4>1, ZeroInodeIs DEF Pruned, IsCleared
    <3>3. Others(c, c, p)
      BY DEF Others, Untouched
    <3> QED BY <1>1, <3>1, <3>2, <3>3
  <2>2. CASE p \notin G
    <3>1. c.inode[p] = s.inode[p] /\ p \in Dirs(c) /\ \A j \in 0..s.inode[p].size-1 : Ent(c, p, j) = Ent(s, p, j)
      BY <1>3, <1>4, <2>2
    <3>2. PICK n \in Nat : n = s.inode[p].size
      BY <1>1, <1>3, DirsAre
    <3>3. k \in 0..n-1
      BY <1>3, <3>2
    <3>4. Found(c, p, name, k)
      <4>1. Ent(s, p, k).ino # Root
        BY <1>1 DEF TreeOK, Linked
      <4>2. Ent(c, p, k) = Ent(s, p, k)
        BY <3>1, <3>2, <3>3
      <4> QED BY <4>1, <4>2 DEF Found, Root
    <3>5. h # Nil /\ h \in 0..n-1 /\ Found(c, p, name, h)
      <4>1. IF h = Nil THEN \A j \in 0..n-1 : ~Found(c, p, name, j) ELSE h \in 0..n-1 /\ Found(c, p, name, h)
        BY <1>1, <3>1, <3>2, DirFindIs DEF h
      <4> QED BY <3>3, <3>4, <4>1
    <3>6. h = k
      <4>1. Ent(c, p, h) = Ent(s, p, h) /\ h \in 0..s.inode[p].size-1
        BY <3>1, <3>2, <3>5
      <4>2. Found(s, p, name, h)
        BY <3>5, <4>1 DEF Found
      <4>3. LinkAt(s, p, h)
        BY <1>3, <4>1, <4>2, FoundLink
      <4>4. Ent(s, p, h).name = Ent(s, p, k).name
        BY <4>2 DEF Found
      <4> QED BY <1>1, <4>3, <4>4 DEF TreeOK, OneName
    <3>7. r = PutEntry(c, c.inode[p], k, EmptyEntry)
      <4>1. c.inode[p].type = Dir
        BY <3>1 DEF Dirs
      <4> QED BY <1>2, <3>5, <3>6, <4>1
    <3>8. HasPut(c, r, p, k, EmptyEntry)
      <4>1. k \in 0..c.inode[p].size-1
        BY <3>1, <3>2, <3>3
      <4> QED BY <1>1, <3>1, <3>7, <4>1, EmptyDirIs, PutEntryKeeps
    <3>9. Shape(r) /\ Sectors(r) /\ Own(r) /\ Others(c, r, p) /\ r.inode = c.inode
      BY <3>8 DEF HasPut
    <3>10. \A j \in 0..n-1 : Ent(r, p, j) = IF j = k THEN EmptyEntry ELSE Ent(s, p, j)
      BY <3>1, <3>2, <3>8 DEF HasPut
    <3>11. ASSUME NEW d \in Dirs(s), d \notin G, d # p, NEW j \in 0..s.inode[d].size-1 PROVE Ent(r, d, j) = Ent(s, d, j)
      <4>1. c.inode[d] = s.inode[d] /\ d \in Dirs(c) /\ Ent(c, d, j) = Ent(s, d, j)
        BY <1>4, <3>11
      <4>2. d \in Ino /\ d \in Allocated(c) /\ DirOK(c, c.inode[d]) /\ j \in 0..c.inode[d].size-1
        BY <1>1, <4>1, DirsAre
      <4>3. Untouched(c, r, d)
        BY <3>9, <3>11, <4>2 DEF Others
      <4>4. Ent(r, d, j) = Ent(c, d, j)
        BY <1>1, <4>2, <4>3, UntouchedIs DEF Ent
      <4> QED BY <4>1, <4>4
    <3>12. \A d \in Dirs(s) : d \notin G =>
             \A j \in 0..s.inode[d].size-1 : Ent(r, d, j) = IF d = p /\ j = k THEN EmptyEntry ELSE Ent(s, d, j)
      BY <3>2, <3>10, <3>11
    <3>13. Pruned(s, r, G, p, k)
      BY <3>9, <3>12, ZeroInodeIs DEF Pruned, IsCleared
    <3> QED BY <3>9, <3>13
  <2> QED BY <2>1, <2>2
<1>6. PICK t : t = Flush(r) /\ Shape(t) /\ Sectors(t) /\ Own(t) /\ t.inode = r.inode
  BY <1>5, FlushKeeps
<1>7. \A d, j : Ent(t, d, j) = Ent(r, d, j)
  BY <1>5, <1>6, FlushKeeps
<1>8. Pruned(s, t, G, p, k)
  BY <1>5, <1>6, <1>7 DEF Pruned
<1>9. TreeOK(t)
  BY <1>8, PrunedTree
<1>10. Blank(t)
  <2>1. \A i \in Ino : t.inode[i] = ZeroInode \/ t.inode[i] = s.inode[i]
    BY <1>5, <1>6 DEF IsCleared
  <2>2. ZeroInode.size = 0
    BY DEF ZeroInode
  <2> QED BY <1>1, <2>1, <2>2 DEF Blank, Allocated
<1>11. ASSUME NEW i \in Allocated(s), i \notin G, i # p PROVE Untouched(s, t, i)
  <2>1. i \in Ino /\ Untouched(s, c, i) /\ c.inode[i] = s.inode[i]
    BY <1>11 DEF Allocated, IsCleared
  <2>2. i \in Allocated(c)
    BY <1>11, <2>1 DEF Allocated
  <2>3. Blocks(c, i) = Blocks(s, i)
    <3>1. FileOK(s, s.inode[i]) \/ DirOK(s, s.inode[i])
      BY <1>1, <1>11 DEF Sectors
    <3> QED BY <1>1, <1>11, <2>1, <3>1, UntouchedIs
  <2>4. Untouched(c, r, i)
    BY <1>5, <1>11, <2>1, <2>2 DEF Others, Untouched
  <2>5. t.inode[i] = s.inode[i]
    BY <1>5, <1>6, <2>1
  <2>6. t.data = r.data
    BY <1>5, <1>6, FlushIs
  <2> QED BY <2>1, <2>3, <2>4, <2>5, <2>6 DEF Untouched
<1> QED BY <1>6, <1>8, <1>9, <1>10, <1>11 DEF FsOK, r

(* A removal that gets past its checks: the inodes of G go, and the entry nm  *)
(* in slot k of p.                                                           *)
Removal(s, r, p, k, nm, G) ==
  /\ nm \in Names /\ LinkAt(s, p, k) /\ Ent(s, p, k).name = nm /\ Below(s, Ent(s, p, k).ino, G)
  /\ IsCleared(s, Cleared(s, G), G) /\ r = Ok(Flush(DirRemove(Cleared(s, G), p, nm)))
LEMMA RemoveCases ==
  ASSUME NEW s, FsOK(s), NEW path \in Seq(PathNames), path # << >>, NEW recursive
  PROVE  LET r == RemoveFile(s, Root, path, recursive)
         IN  r = Fail(s) \/ \E k, G : Removal(s, r, Parent(s, Root, path), k, Last(path), G)
<1> DEFINE parent == Parent(s, Root, path)
           d == s.inode[parent]
           name == Last(path)
           k == DirFind(s, d, name)
           e == Entry(s, d, k)
           G == Subtree(s, e.ino)
           r == RemoveFile(s, Root, path, recursive)
<1>1. r = IF name \in {".", ".."} \/ parent = Nil THEN Fail(s)
          ELSE IF d.type # Dir \/ k = Nil THEN Fail(s)
          ELSE IF e.type = Dir /\ ~recursive THEN Fail(s)
          ELSE Ok(Flush(DirRemove(Cleared(s, G), parent, name)))
  BY Zenon DEF RemoveFile, Cleared
<1>2. Shape(s) /\ Sectors(s) /\ Own(s) /\ TreeOK(s)
  BY DEF FsOK
<1>3. ASSUME name \notin {".", ".."}, parent # Nil, d.type = Dir, k # Nil,
             r = Ok(Flush(DirRemove(Cleared(s, G), parent, name)))
      PROVE  Removal(s, r, parent, k, name, G)
  <2>1. PICK p \in Dirs(s) : p = parent
    <3>1. Front(path) \in Seq(PathNames)
      BY ResolveLast
    <3>2. parent \in Allocated(s)
      BY <1>2, <1>3, <3>1, ResolveIn DEF Parent
    <3> QED BY <1>3, <3>2 DEF Allocated, Dirs
  <2>2. PICK nm \in Names : nm = name
    BY <1>3, ResolveLast DEF PathNames
  <2>3. PICK j \in 0..s.inode[p].size-1 : j = k /\ Found(s, p, nm, j)
    BY <1>2, <1>3, <2>1, <2>2, DirFindIs
  <2>4. LinkAt(s, p, j) /\ Ent(s, p, j).name = nm
    BY <2>3, FoundLink DEF Found
  <2>5. PICK top \in Allocated(s) \ {Root} : top = Ent(s, p, j).ino /\ top = e.ino
    <3>1. e.ino = Ent(s, p, j).ino
      BY <2>1, <2>3 DEF Ent
    <3> QED BY <1>2, <2>4, <3>1 DEF TreeOK, Linked
  <2> HIDE DEF e, k
  <2>6. PICK g : g = G /\ Below(s, top, g)
    BY <2>5, SubtreeIs
  <2> HIDE DEF G
  <2>7. IsCleared(s, Cleared(s, g), g)
    BY <1>2, <2>6, ClearedKeeps DEF Below
  <2> HIDE DEF parent, name, r
  <2> QED BY <1>3, <2>1, <2>2, <2>3, <2>4, <2>5, <2>6, <2>7, Zenon DEF Removal
<1> HIDE DEF parent, d, name, k, e, G, r
<1>4. r = Fail(s) \/ Removal(s, r, parent, k, name, G)
  BY <1>1, <1>3, Zenon
<1> QED BY <1>4 DEF parent, name, r

LEMMA RemoveKeeps ==
  ASSUME NEW s, FsOK(s), NEW path \in Seq(PathNames), path # << >>, NEW recursive
  PROVE  FsOK(RemoveFile(s, Root, path, recursive).fs)
<1>1. PICK r : r = RemoveFile(s, Root, path, recursive)
  OBVIOUS
<1>2. CASE r = Fail(s)
  BY <1>1, <1>2, OkFail
<1>3. ASSUME NEW p, NEW k, NEW nm, NEW G, Removal(s, r, p, k, nm, G) PROVE FsOK(r.fs)
  <2>1. PICK c : c = Cleared(s, G) /\ IsCleared(s, c, G)
    BY <1>3 DEF Removal
  <2>2. FsOK(Flush(DirRemove(c, p, nm)))
    BY <1>3, <2>1, UnlinkKeeps DEF Removal
  <2> QED BY <1>3, <2>1, <2>2, OkFail DEF Removal
<1> QED BY <1>1, <1>2, <1>3, RemoveCases

-----------------------------------------------------------------------------
(* The first boot.                                                           *)

LEMMA FormatOK ==
  LET s == Format([b \in Block |-> Stale])
  IN  /\ FsOK(s) /\ UpTo(s, 2) /\ s.bm = s.dbm
      /\ s.bm = {0} /\ Allocated(s) = {Root} /\ Dirs(s) = {Root} /\ \A d, k : ~LinkAt(s, d, k)
<1> DEFINE f == [i \in Ino |-> IF i = Root THEN NewDirInode(0) ELSE ZeroInode]
           x == [[b \in Block |-> Stale] EXCEPT ![0] = NewDir(Root, Root)]
           s == Format([b \in Block |-> Stale])
           in == NewDirInode(0)
<1>1. s = Flush([bm |-> {0}, dbm |-> {}, inode |-> f, data |-> x])
  BY Zenon DEF Format, NewDirInode
<1>2. f[Root] = in /\ \A i \in Ino \ {Root} : f[i] = ZeroInode
  BY BlockNat
<1>3. x[0] = NewDir(Root, Root) /\ x = [b \in Block |-> x[b]]
  BY BlockNat
<1>4. in \in Inodes /\ in.type = Dir /\ in.size = 2 /\ in.blocks[0] = 0 /\ \A n \in 0..MaxBlocks-1 : n # 0 => in.blocks[n] = Nil
  BY BlockNat, NewDirIs
<1>5. NewDir(Root, Root).dir[0] = DirEntry(Root, ".", Dir) /\ NewDir(Root, Root).dir[1] = DirEntry(Root, "..", Dir)
      /\ \A t : t.data[0] = NewDir(Root, Root) => DirOK(t, in)
  BY BlockNat, NewDirIs
<1>6. f \in [Ino -> Inodes]
  <2>1. \A i \in Ino : f[i] \in Inodes
    BY <1>2, <1>4, ZeroInodeIs
  <2>2. f = [i \in Ino |-> f[i]]
    OBVIOUS
  <2> HIDE DEF f
  <2> QED BY <2>1, <2>2
<1> HIDE DEF f, x, s, in
<1>7. s = [bm |-> {0}, dbm |-> {0}, inode |-> f, data |-> x]
  BY <1>1 DEF Flush
<1>8. s.bm = {0} /\ s.dbm = {0} /\ s.inode = f /\ s.data = x
  BY <1>7
<1>9. Shape(s)
  BY <1>3, <1>6, <1>7, <1>8, BlockNat DEF Shape
<1>10. Allocated(s) = {Root} /\ Dirs(s) = {Root} /\ s.inode[Root] = in
  <2>1. s.inode[Root] = in /\ Root \in Ino
    BY <1>2, <1>8, BlockNat
  <2>2. \A i \in Ino : s.inode[i].type = IF i = Root THEN Dir ELSE Free
    BY <1>2, <1>4, <1>8, ZeroInodeIs
  <2>3. Dir # Free
    BY BlockNat
  <2> QED BY <2>1, <2>2, <2>3 DEF Allocated, Dirs
<1>11. Sectors(s)
  BY <1>3, <1>5, <1>8, <1>10 DEF Sectors
<1>12. 0 \in 0..MaxBlocks-1
  BY Sizes
<1>13. Own(s)
  <2>1. Uses(s, in) = {0}
    <3>1. Uses(s, in) = {in.blocks[n] : n \in 0..MaxBlocks-1} \ {Nil}
      BY <1>4, DirUses
    <3> QED BY <1>4, <1>12, <3>1, BlockNat
  <2>2. Once(s, in)
    <3>1. \A n, m \in 0..MaxBlocks-1 : in.blocks[n] # Nil /\ in.blocks[n] = in.blocks[m] => n = m
      BY <1>4
    <3> QED BY <1>4, <3>1, DirUses
  <2>3. Blocks(s, Root) = {0} /\ \A i \in Ino \ {Root} : Blocks(s, i) = {}
    BY <1>10, <2>1 DEF Blocks
  <2>4. \A i \in Ino : Blocks(s, i) \subseteq s.bm
    BY <1>8, <2>3
  <2>5. \A i, j \in Ino : i # j => Blocks(s, i) \cap Blocks(s, j) = {}
    BY <2>3
  <2>6. \A i \in Allocated(s) : Once(s, s.inode[i])
    BY <1>10, <2>2
  <2>7. \A b \in s.bm : \E i \in Ino : b \in Blocks(s, i)
    BY <1>8, <2>3, BlockNat
  <2> QED BY <2>4, <2>5, <2>6, <2>7 DEF Own
<1>14. Ent(s, Root, 0) = DirEntry(Root, ".", Dir) /\ Ent(s, Root, 1) = DirEntry(Root, "..", Dir)
  <2>1. 0 \div DePerBlk = 0 /\ 0 % DePerBlk = 0 /\ 1 \div DePerBlk = 0 /\ 1 % DePerBlk = 1
    BY Sizes
  <2> QED BY <1>3, <1>4, <1>5, <1>8, <1>10, <2>1 DEF Ent, Entry
<1>15. \A d, k : ~LinkAt(s, d, k)
  <2>1. 2..2-1 = {}
    OBVIOUS
  <2> QED BY <1>4, <1>10, <2>1 DEF LinkAt
<1>16. TreeOK(s)
  <2>1. Dots(s) /\ Ent(s, Root, 1).ino = Root
    BY <1>10, <1>14 DEF Dots, DirEntry
  <2>2. Slotted(s)
    <3>1. 2..2-1 = {}
      OBVIOUS
    <3> QED BY <1>4, <1>10, <3>1 DEF Slotted
  <2>3. NoOrphan(s)
    BY <1>10 DEF NoOrphan
  <2> QED BY <1>15, <2>1, <2>2, <2>3 DEF TreeOK, Linked, OneLink, OneName, Parents
<1>17. Blank(s)
  <2>1. ZeroInode.size = 0
    BY DEF ZeroInode
  <2> QED BY <1>2, <1>8, <1>10, <2>1 DEF Blank
<1>18. UpTo(s, 2)
  BY <1>4, <1>10 DEF UpTo
<1> QED BY <1>8, <1>9, <1>10, <1>11, <1>13, <1>15, <1>16, <1>17, <1>18 DEF FsOK, s

EnsureNext(r, name) ==
  IF ~r.ok \/ Resolve(r.fs, Root, <<name>>) # Nil THEN r ELSE CreateInode(r.fs, Root, <<name>>, Dir)
Boot(s, n, f) == f = [i \in 0..n |-> IF i = 0 THEN Ok(s) ELSE EnsureNext(f[i - 1], SysDirs[i])]
LEMMA BootExists ==
  ASSUME NEW s, NEW m \in Nat
  PROVE  \E f : Boot(s, m, f)
<1> DEFINE Way(f, n) == f = [i \in 0..n |-> IF i = 0 THEN Ok(s) ELSE EnsureNext(f[i - 1], SysDirs[i])]
           short == {n \in Nat : ~\E f : Way(f, n)}
<1>1. short = {}
  <2> SUFFICES ASSUME short # {} PROVE FALSE
    OBVIOUS
  <2>1. PICK n \in short : \A k \in short : n <= k
    <3>1. short \in SUBSET Nat
      OBVIOUS
    <3> QED BY <3>1, LeastNumber
  <2>2. n \in Nat /\ ~\E f : Way(f, n)
    OBVIOUS
  <2>3. n # 0
    <3>1. PICK f : f = [i \in 0..0 |-> Ok(s)]
      OBVIOUS
    <3>2. Way(f, 0)
      BY <3>1
    <3> QED BY <2>2, <3>2
  <2>4. PICK f : Way(f, n - 1)
    <3>1. n - 1 \in Nat /\ n - 1 \notin short
      <4> HIDE DEF short
      <4> QED BY <2>1, <2>2, <2>3
    <3> QED BY <3>1
  <2>5. PICK g : g = [i \in 0..n |-> IF i = n THEN EnsureNext(f[n - 1], SysDirs[n]) ELSE f[i]]
    OBVIOUS
  <2>6. \A i \in 0..n : g[i] = IF i = 0 THEN Ok(s) ELSE EnsureNext(g[i - 1], SysDirs[i])
    <3>1. SUFFICES ASSUME NEW i \in 0..n PROVE g[i] = IF i = 0 THEN Ok(s) ELSE EnsureNext(g[i - 1], SysDirs[i])
      OBVIOUS
    <3>2. CASE i = n
      <4>1. g[i] = EnsureNext(f[n - 1], SysDirs[n]) /\ g[i - 1] = f[n - 1] /\ i # 0
        BY <2>2, <2>3, <2>5, <3>2
      <4> QED BY <3>2, <4>1
    <3>3. CASE i # n
      <4>1. i \in 0..n-1 /\ g[i] = f[i] /\ (i # 0 => i - 1 \in 0..n /\ i - 1 # n /\ g[i - 1] = f[i - 1])
        BY <2>2, <2>5, <3>3
      <4>2. f[i] = IF i = 0 THEN Ok(s) ELSE EnsureNext(f[i - 1], SysDirs[i])
        BY <2>4, <4>1
      <4> QED BY <4>1, <4>2
    <3> QED BY <3>2, <3>3
  <2>7. Way(g, n)
    BY <2>5, <2>6
  <2> QED BY <2>2, <2>7
<1> QED BY <1>1 DEF Boot

LEMMA SysDirsAre ==
  /\ Len(SysDirs) \in Nat /\ DOMAIN SysDirs = 1..Len(SysDirs) /\ \A n \in 1..Len(SysDirs) : SysDirs[n] \in Names
  /\ MaxDirect * DePerBlk \in Nat /\ Len(SysDirs) + 2 <= MaxDirect * DePerBlk
<1>1. SysDirs \in Seq(Names) /\ Len(SysDirs) + 2 <= MaxDirect * DePerBlk
  BY FsAssumption
<1>2. MaxDirect * DePerBlk \in Nat
  BY Sizes, Product
<1> QED BY <1>1, <1>2

(* ensure_system_dirs, one directory after the other. *)
Boots(s, f) == f[0] = Ok(s) /\ \A n \in 1..Len(SysDirs) : f[n] = EnsureNext(f[n - 1], SysDirs[n])
LEMMA EnsureIs ==
  ASSUME NEW s
  PROVE  \E f : Boots(s, f) /\ EnsureSystemDirs(s) = f[Len(SysDirs)].fs
<1>1. PICK L \in Nat : L = Len(SysDirs)
  BY SysDirsAre
<1> DEFINE at[n \in 0..Len(SysDirs)] ==
             IF n = 0 THEN Ok(s)
             ELSE LET r == at[n - 1]
                      p == <<SysDirs[n]>>
                  IN  IF ~r.ok \/ Resolve(r.fs, Root, p) # Nil THEN r ELSE CreateInode(r.fs, Root, p, Dir)
<1>2. EnsureSystemDirs(s) = at[Len(SysDirs)].fs
  BY Zenon DEF EnsureSystemDirs
<1>3. at = CHOOSE f : Boot(s, Len(SysDirs), f)
  BY Zenon DEF Boot, EnsureNext
<1>4. \E f : Boot(s, Len(SysDirs), f)
  BY <1>1, BootExists
<1> HIDE DEF at
<1>5. PICK f : f = at /\ Boot(s, L, f)
  BY <1>1, <1>3, <1>4, Zenon
<1>6. f[0] = Ok(s) /\ \A n \in 1..L : f[n] = EnsureNext(f[n - 1], SysDirs[n])
  <2>1. 0 \in 0..L /\ \A n \in 1..L : n \in 0..L /\ n # 0
    OBVIOUS
  <2>2. \A n \in 0..L : f[n] = IF n = 0 THEN Ok(s) ELSE EnsureNext(f[n - 1], SysDirs[n])
    BY <1>5 DEF Boot
  <2> QED BY <2>1, <2>2
<1> QED BY <1>1, <1>2, <1>5, <1>6 DEF Boots

(* Every system directory adds at most one slot to one directory, so that    *)
(* none outgrows its direct blocks on the way.                               *)
LEMMA EnsureStep ==
  ASSUME NEW n \in 1..Len(SysDirs), NEW r, FsOK(r.fs), UpTo(r.fs, n + 1)
  PROVE  LET t == EnsureNext(r, SysDirs[n]).fs IN FsOK(t) /\ UpTo(t, n + 2)
<1>1. PICK nm \in Names : nm = SysDirs[n]
  BY SysDirsAre
<1>2. PICK q, t : q = r.fs /\ t = EnsureNext(r, nm).fs
  OBVIOUS
<1>3. Keeps(q, t)
  <2>1. CASE EnsureNext(r, nm) = r
    BY <1>2, <2>1, KeepsSame
  <2>2. CASE EnsureNext(r, nm) = CreateInode(q, Root, <<nm>>, Dir)
    <3>1. <<nm>> \in Seq(PathNames) /\ <<nm>> # << >>
      BY DEF PathNames
    <3>2. Keeps(q, CreateInode(q, Root, <<nm>>, Dir).fs)
      BY <1>2, <3>1, CreateKeeps
    <3> QED BY <1>2, <2>2, <3>2
  <2> QED BY <1>2, <2>1, <2>2 DEF EnsureNext
<1>4. n \in Nat /\ n + 1 \in Nat /\ n + 1 >= 2 /\ (n + 1) + 1 = n + 2
  BY SysDirsAre
<1>5. UpTo(t, n + 2)
  <2>1. UpTo(t, (n + 1) + 1)
    BY <1>2, <1>3, <1>4 DEF Keeps
  <2> QED BY <1>4, <2>1
<1>6. Small(t)
  <2>1. n + 2 <= MaxDirect * DePerBlk /\ MaxDirect * DePerBlk \in Nat
    BY SysDirsAre
  <2> QED BY <1>4, <1>5, <2>1 DEF Small, UpTo
<1>7. FsOK(t)
  BY <1>3, <1>6 DEF Keeps
<1> QED BY <1>1, <1>2, <1>5, <1>7

LEMMA EnsureKeeps ==
  ASSUME NEW s, FsOK(s), UpTo(s, 2)
  PROVE  FsOK(EnsureSystemDirs(s))
<1>1. PICK L \in Nat : L = Len(SysDirs)
  BY SysDirsAre
<1>2. PICK f : Boots(s, f) /\ EnsureSystemDirs(s) = f[L].fs
  BY <1>1, EnsureIs
<1>6. f[0] = Ok(s) /\ \A n \in 1..L : f[n] = EnsureNext(f[n - 1], SysDirs[n])
  BY <1>1, <1>2 DEF Boots
<1> DEFINE Good(n) == FsOK(f[n].fs) /\ UpTo(f[n].fs, n + 2)
           bad == {n \in 0..L : ~Good(n)}
<1>7. bad = {}
  <2> SUFFICES ASSUME bad # {} PROVE FALSE
    OBVIOUS
  <2>1. PICK n \in bad : \A j \in bad : n <= j
    <3>1. bad \in SUBSET Nat
      OBVIOUS
    <3> QED BY <3>1, LeastNumber
  <2>2. Good(0)
    BY <1>6, OkFail
  <2>3. n \in 1..L /\ n - 1 \in 0..L
    BY <2>1, <2>2
  <2>4. Good(n - 1)
    BY <2>1, <2>3
  <2>5. FsOK(f[n - 1].fs) /\ UpTo(f[n - 1].fs, n + 1)
    <3>1. (n - 1) + 2 = n + 1
      BY <2>3
    <3> QED BY <2>4, <3>1
  <2>6. f[n] = EnsureNext(f[n - 1], SysDirs[n])
    BY <1>6, <2>3
  <2>7. Good(n)
    <3> HIDE DEF bad
    <3> QED BY <1>1, <2>3, <2>5, <2>6, EnsureStep
  <2> QED BY <2>1, <2>7
<1> QED BY <1>1, <1>2, <1>7

LEMMA InitOK == Init => FsOK(fs)
<1> DEFINE s == Format([b \in Block |-> Stale])
<1>1. FsOK(s) /\ UpTo(s, 2) /\ s.bm = s.dbm
  BY FormatOK
<1>2. Init => fs = EnsureSystemDirs([s EXCEPT !.bm = s.dbm])
  BY Zenon DEF Init, Mount
<1> HIDE DEF s
<1>3. s = [bm |-> s.bm, dbm |-> s.dbm, inode |-> s.inode, data |-> s.data]
  BY <1>1 DEF FsOK, Shape
<1>4. [s EXCEPT !.bm = s.dbm] = s
  BY <1>1, <1>3
<1> QED BY <1>1, <1>2, <1>4, EnsureKeeps

-----------------------------------------------------------------------------
(* When directories stay small: a directory grows only when all of its slots *)
(* are taken, and no name is in it twice.                                    *)

NamesFit == IsFiniteSet(Names) /\ Cardinality(Names) + 2 <= MaxDirect * DePerBlk

LEMMA SmallOf == ASSUME NEW s, FsOK(s) PROVE Small(s)
<1>1. Shape(s) /\ Sectors(s)
  BY DEF FsOK
<1>2. \A d \in Dirs(s) : DirOK(s, s.inode[d])
  BY <1>1, DirsAre
<1> QED BY <1>2 DEF Small, DirOK

(* An empty slot is used before the directory grows. *)
LEMMA DirAddFull ==
  ASSUME NEW s, Shape(s), NEW d \in Ino, NEW e, DirAdd(s, d, e).fs.inode[d].size # s.inode[d].size
  PROVE  \A k \in Slots(s.inode[d]) : ~(Entry(s, s.inode[d], k).ino = 0 /\ Entry(s, s.inode[d], k).name = "")
<1> DEFINE a == DirAdd(s, d, e)
           in == s.inode[d]
           gaps == {k \in Slots(in) : Entry(s, in, k).ino = 0 /\ Entry(s, in, k).name = ""}
<1>1. a = IF in.type # Dir THEN Fail(s) ELSE IF gaps # {} THEN Ok(PutEntry(s, in, Min(gaps), e)) ELSE DirAppend(s, d, e)
  BY Zenon DEF DirAdd
<1>2. a.fs.inode[d].size # in.size
  OBVIOUS
<1>3. gaps = {} => \A k \in Slots(in) : ~(Entry(s, in, k).ino = 0 /\ Entry(s, in, k).name = "")
  OBVIOUS
<1> HIDE DEF a, gaps
<1>4. a # Fail(s)
  BY <1>2, OkFail
<1>5. ASSUME a = Ok(PutEntry(s, in, Min(gaps), e)) PROVE FALSE
  <2>1. PICK z : z = PutEntry(s, in, Min(gaps), e)
    OBVIOUS
  <2>2. z.inode = s.inode
    BY <2>1, ShapeStruct, PutStruct
  <2>3. a.fs = z
    BY <1>5, <2>1, OkFail
  <2> QED BY <1>2, <2>2, <2>3
<1>6. gaps = {}
  BY <1>1, <1>4, <1>5
<1> QED BY <1>3, <1>6

Full(s, d) == \A k \in 0..s.inode[d].size-1 : ~(Ent(s, d, k).ino = 0 /\ Ent(s, d, k).name = "")
(* A directory with no empty slot has as many names as slots, all different. *)
LEMMA FullDir ==
  ASSUME NamesFit, NEW s, FsOK(s), NEW d \in Dirs(s), NEW name \in Names,
         \A k : LinkAt(s, d, k) => Ent(s, d, k).name # name, Full(s, d)
  PROVE  s.inode[d].size + 1 <= MaxDirect * DePerBlk
<1>1. Shape(s) /\ Sectors(s) /\ Slotted(s) /\ OneName(s)
  BY DEF FsOK, TreeOK
<1>2. PICK n \in Nat \ {0, 1} : n = s.inode[d].size
  BY <1>1, DirsAre
<1>3. EmptyEntry.ino = 0 /\ EmptyEntry.name = ""
  BY DEF EmptyEntry, DirEntry
<1>4. ASSUME NEW k \in 2..n-1 PROVE LinkAt(s, d, k) /\ Ent(s, d, k).name \in Names \ {name}
  <2>1. k \in 0..n-1
    OBVIOUS
  <2>2. Ent(s, d, k) # EmptyEntry
    BY <1>2, <1>3, <2>1 DEF Full
  <2>3. Ent(s, d, k).name \in Names
    BY <1>1, <1>2, <2>2 DEF Slotted
  <2>4. LinkAt(s, d, k)
    BY <1>2, <2>3, NamesAre DEF LinkAt
  <2> QED BY <2>3, <2>4
<1>5. PICK c \in Nat : c = Cardinality(Names) /\ IsFiniteSet(Names)
  BY FS_CardinalityType DEF NamesFit
<1>6. IsFiniteSet(Names \ {name}) /\ Cardinality(Names \ {name}) = c - 1
  BY <1>5, FS_RemoveElement
<1>7. IsFiniteSet(2..n-1) /\ Cardinality(2..n-1) = n - 2
  BY FS_Interval
<1>8. PICK f : f = [k \in 2..n-1 |-> Ent(s, d, k).name]
  OBVIOUS
<1>9. f \in [2..n-1 -> Names \ {name}]
  BY <1>4, <1>8
<1>10. \A x, y \in 2..n-1 : f[x] = f[y] => x = y
  BY <1>1, <1>4, <1>8 DEF OneName
<1>11. ~(Cardinality(Names \ {name}) < Cardinality(2..n-1))
  BY <1>6, <1>7, <1>9, <1>10, FS_PigeonHole
<1>12. n + 1 <= c + 2
  BY <1>6, <1>7, <1>11
<1>13. PICK m \in Nat : m = MaxDirect * DePerBlk
  BY Sizes, Product
<1>14. c + 2 <= m
  BY <1>5, <1>13 DEF NamesFit
<1> QED BY <1>2, <1>12, <1>13, <1>14

LEMMA CreateSmall ==
  ASSUME NamesFit, NEW s, FsOK(s), NEW path \in Seq(PathNames), path # << >>, NEW type \in {File, Dir}
  PROVE  Small(CreateInode(s, Root, path, type).fs)
<1>1. PICK r : r = CreateInode(s, Root, path, type)
  OBVIOUS
<1>2. Shape(s) /\ Sectors(s) /\ Own(s) /\ TreeOK(s) /\ Small(s)
  BY SmallOf DEF FsOK
<1>3. CASE r = Fail(s)
  BY <1>1, <1>2, <1>3, OkFail
<1>4. ASSUME NEW p, NEW nm, NEW i, NEW u, Creation(s, r, type, p, nm, i, u)
      PROVE  Small(r.fs)
  <2>1. p \in Allocated(s) /\ nm \in PathNames /\ i \in Ino /\ i \notin Allocated(s)
    BY <1>4 DEF Creation
  <2>4. p \in Ino
    BY <2>1 DEF Allocated
  <2>5. StepOK(s, p, nm, Nil)
    BY <1>4 DEF Creation
  <2>7. IsMade(s, u, i, p, type)
    BY <1>4 DEF Creation
  <2>8. PICK e \in Entries : e = DirEntry(i, nm, type)
    BY <2>1 DEF DirEntry, Entries, PathNames
  <2>9. PICK a : a = DirAdd(u, p, e) /\ r = IF a.ok THEN a ELSE Fail(RolledBack(u, i))
    BY <1>4, <2>8 DEF Creation
  <2>10. Shape(u) /\ Sectors(u) /\ Own(u) /\ Others(s, u, i) /\ u.inode[i].type = type
    BY <2>7 DEF IsMade
  <2>11. PICK max \in Nat : max = MaxDirect * DePerBlk /\ max >= 2
    <3>1. MaxDirect * DePerBlk \in Nat
      BY Sizes, Product
    <3>2. Cardinality(Names) \in Nat
      BY FS_CardinalityType DEF NamesFit
    <3> QED BY <3>1, <3>2 DEF NamesFit
  <2>12. ASSUME a.ok PROVE Small(a.fs)
    <3>1. p \in Dirs(u)
      BY <2>4, <2>8, <2>9, <2>10, <2>12, DirAddAdds
    <3>2. p # i /\ p \in Dirs(s) /\ u.inode[p] = s.inode[p] /\ Untouched(s, u, p)
      BY <2>1, <2>10, <3>1 DEF Others, Dirs
    <3>3. nm \in Names /\ \A j : LinkAt(s, p, j) => Ent(s, p, j).name # nm
      BY <2>5, <3>2 DEF StepOK
    <3>4. GrowsOne(u, a.fs, p)
      BY <2>4, <2>9, <2>10, DirAddGrows
    <3>5. a.fs.inode[p].size <= max
      <4>1. PICK n \in Nat : n = s.inode[p].size /\ n <= max
        BY <1>2, <2>11, <3>2, DirsAre DEF Small
      <4>2. CASE a.fs.inode[p].size = n
        BY <4>1, <4>2
      <4>3. CASE a.fs.inode[p].size = n + 1
        <5>1. a.fs.inode[p].size # u.inode[p].size
          BY <3>2, <4>1, <4>3
        <5>2. \A k \in Slots(u.inode[p]) : ~(Entry(u, u.inode[p], k).ino = 0 /\ Entry(u, u.inode[p], k).name = "")
          BY <2>4, <2>9, <2>10, <5>1, DirAddFull
        <5>3. Slots(u.inode[p]) = 0..s.inode[p].size-1 /\ DirOK(s, s.inode[p])
          BY <1>2, <2>10, <3>1, <3>2, DirsAre
        <5>4. \A k \in 0..s.inode[p].size-1 : Entry(u, u.inode[p], k) = Ent(s, p, k)
          <6>1. Untouched(s, u, p) /\ p \in Allocated(s)
            BY <2>1, <3>2
          <6>2. \A k \in 0..s.inode[p].size-1 : Entry(u, u.inode[p], k) = Entry(s, s.inode[p], k)
            BY <1>2, <5>3, <6>1, UntouchedIs
          <6> QED BY <6>2 DEF Ent
        <5>5. Full(s, p)
          BY <5>2, <5>3, <5>4 DEF Full
        <5>6. s.inode[p].size + 1 <= MaxDirect * DePerBlk
          BY <3>2, <3>3, <5>5, FullDir
        <5> QED BY <2>11, <4>1, <4>3, <5>6
      <4> QED BY <3>2, <3>4, <4>1, <4>2, <4>3 DEF GrowsOne
    <3>6. ASSUME NEW d \in Dirs(a.fs), d # p PROVE a.fs.inode[d].size <= max
      <4>1. d \in Ino /\ a.fs.inode[d].type = Dir /\ a.fs.inode[d] = u.inode[d]
        BY <3>4, <3>6 DEF GrowsOne, Dirs
      <4>2. CASE d = i
        <5>1. u.inode[i].size = 2
          BY <2>7, <2>10, <4>1, <4>2 DEF IsMade
        <5> QED BY <2>11, <4>1, <4>2, <5>1
      <4>3. CASE d # i
        <5>1. u.inode[d] = s.inode[d]
          BY <2>10, <4>1, <4>3 DEF Others
        <5> QED BY <1>2, <2>11, <4>1, <5>1 DEF Small, Dirs
      <4> QED BY <4>2, <4>3
    <3> QED BY <2>11, <3>5, <3>6 DEF Small
  <2>13. ASSUME ~a.ok PROVE Small(RolledBack(u, i))
    <3>1. SameTree(s, RolledBack(u, i))
      BY <1>2, <2>1, <2>7, RolledBackKeeps
    <3> QED BY <1>2, <3>1 DEF SameTree, Small, Dirs
  <2> QED BY <2>9, <2>12, <2>13, OkFail
<1> QED BY <1>1, <1>3, <1>4, CreateCases

-----------------------------------------------------------------------------
(* The theorems.                                                             *)

FsInv == FsOK(fs)

(* Every operation on a path keeps the invariant, if it leaves no directory  *)
(* larger than its direct blocks.                                            *)
LEMMA NextKeeps ==
  ASSUME FsOK(fs), Next, Small(fs')
  PROVE  FsOK(fs')
<1>1. PICK p \in Paths : \/ \E type \in {File, Dir} : Create(p, type)
                         \/ \E c \in Contents : Write(p, c) \/ Extend(p, c)
                         \/ \E recursive \in BOOLEAN : Unlink(p, recursive)
  BY DEF Next
<1>2. p \in Seq(PathNames) /\ p # << >>
  BY FsAssumption DEF PathNames
<1>3. ASSUME NEW type \in {File, Dir}, Create(p, type) PROVE FsOK(fs')
  <2>1. Keeps(fs, fs')
    BY <1>2, <1>3, CreateKeeps DEF Create
  <2> QED BY <2>1 DEF Keeps
<1>4. ASSUME NEW c \in Contents, Write(p, c) PROVE FsOK(fs')
  <2>1. c \in Seq(Nat)
    BY FsAssumption
  <2>2. Len(c) \in Nat
    BY <2>1
  <2> QED BY <1>2, <1>4, <2>2, WriteKeeps DEF Write
<1>5. ASSUME NEW c \in Contents, Extend(p, c) PROVE FsOK(fs')
  <2>1. c \in Seq(Nat)
    BY FsAssumption
  <2> QED BY <1>2, <1>5, <2>1, AppendKeeps DEF Extend
<1>6. ASSUME NEW recursive \in BOOLEAN, Unlink(p, recursive) PROVE FsOK(fs')
  BY <1>2, <1>6, RemoveKeeps DEF Unlink
<1> QED BY <1>1, <1>3, <1>4, <1>5, <1>6

LEMMA FsInvariant == Spec /\ []SmallDirs => []FsInv
<1>1. Init => FsInv
  BY InitOK DEF FsInv
<1>2. FsInv /\ SmallDirs' /\ [Next]_fs => FsInv'
  <2> SUFFICES ASSUME FsInv, SmallDirs', [Next]_fs PROVE FsInv'
    OBVIOUS
  <2>1. Small(fs')
    BY DEF SmallDirs, Small, Dirs
  <2>2. FsOK(fs')
    BY <2>1, NextKeeps DEF FsInv
  <2> QED BY <2>2 DEF FsInv
<1> QED BY <1>1, <1>2, PTL DEF Spec

LEMMA ExclusiveOf == ASSUME FsOK(fs) PROVE BlocksExclusive
<1> SUFFICES ASSUME NEW i \in Allocated(fs), NEW j \in Allocated(fs), NEW p \in Place, NEW q \in Place,
                    At(fs, fs.inode[i], p) # Nil, At(fs, fs.inode[i], p) = At(fs, fs.inode[j], q)
             PROVE  i = j /\ p = q
  BY DEF BlocksExclusive
<1>1. Own(fs) /\ i \in Ino /\ j \in Ino
  BY DEF FsOK, Allocated
<1>2. At(fs, fs.inode[i], p) \in Blocks(fs, i) /\ At(fs, fs.inode[i], p) \in Blocks(fs, j)
  BY DEF Blocks, Uses
<1>3. i = j
  BY <1>1, <1>2 DEF Own
<1> QED BY <1>1, <1>3 DEF Own, Once

LEMMA MarkedOf == ASSUME FsOK(fs) PROVE InUseIsMarked /\ NoLeak
<1>1. Shape(fs) /\ Sectors(fs) /\ Own(fs)
  BY DEF FsOK
<1>2. \A i \in Allocated(fs) : Held(fs, fs.inode[i]) = Blocks(fs, i) /\ i \in Ino
  BY <1>1, BlocksOf DEF Allocated
<1>3. InUseIsMarked
  BY <1>1, <1>2 DEF InUseIsMarked, Own
<1>4. \A i \in Ino : i \notin Allocated(fs) => Blocks(fs, i) = {}
  BY DEF Blocks
<1>5. NoLeak
  BY <1>1, <1>2, <1>4 DEF NoLeak, Own
<1> QED BY <1>3, <1>5

LEMMA TypesOf == ASSUME FsOK(fs) PROVE TypeOK
<1>1. Shape(fs) /\ Sectors(fs) /\ Blank(fs)
  BY DEF FsOK
<1>2. ASSUME NEW i \in Ino
      PROVE  /\ fs.inode[i].type \in {Free, File, Dir}
             /\ fs.inode[i].size \in 0..(IF fs.inode[i].type = Dir THEN MaxBlocks * DePerBlk ELSE MaxFile)
             /\ \A n \in DOMAIN fs.inode[i].blocks : fs.inode[i].blocks[n] \in Block \cup {Nil}
  <2>1. PICK x \in Inodes : x = fs.inode[i]
    BY <1>1, ShapeParts
  <2>2. x.type \in {Free, File, Dir} /\ x.size \in Nat
    BY InodeParts
  <2>3. x.blocks \in [0..MaxBlocks-1 -> Pointers]
    BY DEF Inodes
  <2>4. \A n \in DOMAIN x.blocks : x.blocks[n] \in Block \cup {Nil}
    BY <2>3 DEF Pointers
  <2>5. PICK a \in Nat, b \in Nat, c \in Nat : a = MaxFile /\ b = MaxBlocks * DePerBlk /\ c = MaxDirect * DePerBlk /\ c <= b
    <3>1. MaxFile \in Nat
      BY Sizes, Product DEF MaxFile
    <3>2. MaxDirect * DePerBlk \in Nat /\ MaxIndirect * DePerBlk \in Nat
      BY Sizes, Product
    <3>3. MaxBlocks * DePerBlk = MaxDirect * DePerBlk + MaxIndirect * DePerBlk
      BY Sizes
    <3>4. PICK c \in Nat, e \in Nat : c = MaxDirect * DePerBlk /\ e = MaxIndirect * DePerBlk
      BY <3>2
    <3>5. PICK b \in Nat : b = MaxBlocks * DePerBlk /\ c <= b
      <4>1. MaxBlocks * DePerBlk = c + e
        BY <3>3, <3>4
      <4>2. c + e \in Nat /\ c <= c + e
        OBVIOUS
      <4> QED BY <4>1, <4>2
    <3> QED BY <3>1, <3>4, <3>5
  <2>6. CASE i \notin Allocated(fs)
    <3>1. x.size = 0 /\ x.type # Dir
      BY <1>1, <2>1, <2>6, BlockNat DEF Blank, Allocated
    <3> QED BY <2>1, <2>2, <2>4, <2>5, <3>1
  <2>7. CASE FileOK(fs, x)
    <3>1. x.size <= a /\ x.type # Dir
      BY <2>5, <2>7, BlockNat DEF FileOK
    <3> QED BY <2>1, <2>2, <2>4, <2>5, <3>1
  <2>8. CASE DirOK(fs, x)
    <3>1. x.size <= c /\ x.type = Dir
      BY <2>5, <2>8 DEF DirOK
    <3>2. x.size \in 0..b
      BY <2>2, <2>5, <3>1
    <3> QED BY <2>1, <2>2, <2>4, <2>5, <3>1, <3>2
  <2> QED BY <1>1, <2>1, <2>6, <2>7, <2>8 DEF Sectors
<1>3. fs.bm \subseteq Block /\ fs.dbm \subseteq Block
  BY <1>1, ShapeParts
<1> QED BY <1>2, <1>3 DEF TypeOK

(* The named slots are the links, and every link is a pair of the property. *)
LEMMA NamedAre ==
  ASSUME NEW s, FsOK(s), NEW d \in Dirs(s)
  PROVE  \A k : k \in Named(s, d) <=> LinkAt(s, d, k)
<1>1. Shape(s) /\ Sectors(s) /\ Dots(s) /\ Slotted(s)
  BY DEF FsOK, TreeOK
<1>2. PICK n \in Nat \ {0, 1} : n = s.inode[d].size /\ Slots(s.inode[d]) = 0..n-1
  BY <1>1, DirsAre
<1>3. Ent(s, d, 0).name = "." /\ Ent(s, d, 1).name = ".." /\ EmptyEntry.name = ""
  BY <1>1 DEF Dots, EmptyEntry, DirEntry
<1>4. \A k : k \in Named(s, d) <=> k \in 0..n-1 /\ Ent(s, d, k).name \notin {"", ".", ".."}
  BY <1>2 DEF Named, Ent
<1>5. ASSUME NEW k, k \in Named(s, d) PROVE LinkAt(s, d, k)
  <2>1. k \in 0..n-1 /\ Ent(s, d, k).name \notin {"", ".", ".."}
    BY <1>4, <1>5
  <2>2. k # 0 /\ k # 1
    BY <1>3, <2>1
  <2>3. k \in 2..n-1
    <3>1. k \in 0..n-1
      BY <2>1
    <3> QED BY <2>2, <3>1
  <2> QED BY <1>2, <2>1, <2>3 DEF LinkAt
<1>6. ASSUME NEW k, LinkAt(s, d, k) PROVE k \in Named(s, d)
  <2>1. k \in 2..n-1
    BY <1>2, <1>6 DEF LinkAt
  <2>2. 2..n-1 \subseteq 0..n-1
    OBVIOUS
  <2>3. Ent(s, d, k) = EmptyEntry \/ Ent(s, d, k).name \in Names
    BY <1>1, <1>2, <2>1 DEF Slotted
  <2>4. Ent(s, d, k).name # ""
    BY <1>6 DEF LinkAt
  <2>5. Ent(s, d, k).name \notin {"", ".", ".."}
    BY <1>3, <2>3, <2>4, NamesAre
  <2> QED BY <1>4, <2>1, <2>2, <2>5
<1> QED BY <1>5, <1>6

(* ".." leads to the directory that the name is in. *)
LEMMA DotDot ==
  ASSUME NEW s, FsOK(s), NEW d \in Dirs(s)
  PROVE  Step(s, d, "..") = Ent(s, d, 1).ino
<1>1. Shape(s) /\ Sectors(s) /\ Dots(s) /\ Slotted(s)
  BY DEF FsOK, TreeOK
<1> DEFINE k == DirFind(s, s.inode[d], "..")
<1>2. PICK n \in Nat \ {0, 1} : n = s.inode[d].size
  BY <1>1, DirsAre
<1>3. Found(s, d, "..", 1) /\ 1 \in 0..n-1 /\ Ent(s, d, 0).name = "."
  BY <1>1 DEF Dots, Found
<1>4. k # Nil /\ k \in 0..n-1 /\ Ent(s, d, k).name = ".."
  <2>1. IF k = Nil THEN \A j \in 0..n-1 : ~Found(s, d, "..", j) ELSE k \in 0..n-1 /\ Found(s, d, "..", k)
    BY <1>1, <1>2, DirFindIs
  <2> HIDE DEF k
  <2> QED BY <1>3, <2>1 DEF Found
<1> HIDE DEF k
<1>5. k = 1
  <2>1. k # 0
    BY <1>3, <1>4
  <2>2. k \notin 2..n-1
    <3> SUFFICES ASSUME k \in 2..n-1 PROVE FALSE
      OBVIOUS
    <3>1. Ent(s, d, k) = EmptyEntry \/ Ent(s, d, k).name \in Names
      BY <1>1, <1>2 DEF Slotted
    <3>2. EmptyEntry.name = ""
      BY DEF EmptyEntry, DirEntry
    <3> QED BY <1>4, <3>1, <3>2, NamesAre
  <2>3. k \in 0..n-1
    BY <1>4
  <2> QED BY <2>1, <2>2, <2>3
<1>6. s.inode[d].type = Dir
  BY DEF Dirs
<1>7. Step(s, d, "..") = IF s.inode[d].type # Dir \/ k = Nil THEN Nil ELSE Entry(s, s.inode[d], k).ino
  BY Zenon DEF Step, k
<1> QED BY <1>4, <1>5, <1>6, <1>7 DEF Ent

LEMMA TreeOf == ASSUME FsOK(fs) PROVE Tree
<1> DEFINE D == {i \in Ino : fs.inode[i].type = Dir}
           links == {l \in D \X (0..MaxBlocks * DePerBlk - 1) : l[2] \in Named(fs, l[1])}
           E(l) == Entry(fs, fs.inode[l[1]], l[2])
<1>1. Shape(fs) /\ Sectors(fs) /\ Linked(fs) /\ OneLink(fs) /\ OneName(fs) /\ NoOrphan(fs) /\ Parents(fs)
  BY DEF FsOK, TreeOK
<1>2. D = Dirs(fs)
  BY DEF Dirs
<1>3. ASSUME NEW l \in links PROVE LinkAt(fs, l[1], l[2]) /\ E(l) = Ent(fs, l[1], l[2]) /\ l = <<l[1], l[2]>>
  <2>1. l[1] \in Dirs(fs) /\ l[2] \in Named(fs, l[1]) /\ l = <<l[1], l[2]>>
    BY <1>2
  <2> QED BY <2>1, NamedAre DEF Ent
<1>4. ASSUME NEW d, NEW k, LinkAt(fs, d, k) PROVE <<d, k>> \in links /\ E(<<d, k>>) = Ent(fs, d, k)
  <2>1. d \in Dirs(fs) /\ k \in 2..fs.inode[d].size-1
    BY <1>4 DEF LinkAt
  <2>2. PICK n \in Nat, m \in Nat : n = fs.inode[d].size /\ m = MaxBlocks * DePerBlk /\ n <= m
    <3>1. d \in Ino /\ fs.inode[d].type = Dir
      BY <2>1 DEF Dirs
    <3>2. fs.inode[d].size \in 0..(MaxBlocks * DePerBlk)
      BY <3>1, TypesOf DEF TypeOK
    <3>3. MaxBlocks * DePerBlk \in Nat
      BY Sizes, Product
    <3> QED BY <3>2, <3>3
  <2>3. k \in 0..m-1
    BY <2>1, <2>2
  <2>4. k \in Named(fs, d)
    BY <1>4, <2>1, NamedAre
  <2> QED BY <1>2, <2>1, <2>2, <2>3, <2>4 DEF Ent
<1> HIDE DEF links
<1>5. \A l \in links : E(l).ino \in Allocated(fs) \ {Root} /\ E(l).type = fs.inode[E(l).ino].type
  <2> SUFFICES ASSUME NEW l \in links PROVE E(l).ino \in Allocated(fs) \ {Root} /\ E(l).type = fs.inode[E(l).ino].type
    OBVIOUS
  <2>1. PICK d, k : LinkAt(fs, d, k) /\ E(l) = Ent(fs, d, k)
    BY <1>3
  <2> HIDE DEF E
  <2> QED BY <1>1, <2>1 DEF Linked
<1>6. ASSUME NEW l \in links, NEW m \in links, E(l).ino = E(m).ino \/ (l[1] = m[1] /\ E(l).name = E(m).name)
      PROVE  l = m
  <2>1. PICK d, k : LinkAt(fs, d, k) /\ E(l) = Ent(fs, d, k) /\ l = <<d, k>> /\ d = l[1]
    BY <1>3
  <2>2. PICK e, j : LinkAt(fs, e, j) /\ E(m) = Ent(fs, e, j) /\ m = <<e, j>> /\ e = m[1]
    BY <1>3
  <2> HIDE DEF E
  <2> QED BY <1>1, <1>6, <2>1, <2>2 DEF OneLink, OneName
<1>7. \A i \in Allocated(fs) \ {Root} : \E l \in links : E(l).ino = i
  <2> SUFFICES ASSUME NEW i \in Allocated(fs) \ {Root} PROVE \E l \in links : E(l).ino = i
    OBVIOUS
  <2>1. PICK d, k : LinkAt(fs, d, k) /\ Ent(fs, d, k).ino = i
    BY <1>1 DEF NoOrphan
  <2>2. <<d, k>> \in links /\ E(<<d, k>>).ino = i
    BY <1>4, <2>1
  <2> HIDE DEF E
  <2> QED BY <2>2
<1>8. ASSUME NEW l \in links, E(l).type = Dir PROVE Step(fs, E(l).ino, "..") = l[1]
  <2>1. PICK d, k : LinkAt(fs, d, k) /\ E(l) = Ent(fs, d, k) /\ d = l[1]
    BY <1>3
  <2> HIDE DEF E
  <2>2. PICK i : i = Ent(fs, d, k).ino /\ i \in Dirs(fs)
    BY <1>1, <1>8, <2>1 DEF Linked, Allocated, Dirs
  <2>3. Ent(fs, i, 1).ino = d
    BY <1>1, <1>8, <2>1, <2>2 DEF Parents
  <2>4. Step(fs, i, "..") = Ent(fs, i, 1).ino
    BY <2>2, DotDot
  <2> QED BY <2>1, <2>2, <2>3, <2>4
<1> QED BY <1>5, <1>6, <1>7, <1>8, Zenon DEF Tree, links

(* No block has two uses, whatever create, write, append and remove freed    *)
(* and allocated before, on every disk and with files and tables of every    *)
(* size, while directories stay within their direct blocks.                  *)
THEOREM Exclusive == Spec /\ []SmallDirs => []BlocksExclusive
<1>1. FsInv => BlocksExclusive
  BY ExclusiveOf DEF FsInv
<1> QED BY <1>1, FsInvariant, PTL

(* Under the same condition block_alloc cannot hand out a block that a file  *)
(* or directory holds: all of them are marked in the bitmap.                 *)
THEOREM Marked == Spec /\ []SmallDirs => []InUseIsMarked
<1>1. FsInv => InUseIsMarked
  BY MarkedOf DEF FsInv
<1> QED BY <1>1, FsInvariant, PTL

(* Under the same condition no block is lost: the roll-backs of create_inode *)
(* and write_file_abort and the recursive remove give back all they took.    *)
THEOREM Kept == Spec /\ []SmallDirs => []NoLeak
<1>1. FsInv => NoLeak
  BY MarkedOf DEF FsInv
<1> QED BY <1>1, FsInvariant, PTL

(* Under the same condition the directories form a tree: one name per inode, *)
(* no dangling name, and ".." leads back.                                    *)
THEOREM TreeKept == Spec /\ []SmallDirs => []Tree
<1>1. FsInv => Tree
  BY TreeOf DEF FsInv
<1> QED BY <1>1, FsInvariant, PTL

(* Under the same condition bitmap, inodes and sizes keep their ranges.      *)
THEOREM FsTypes == Spec /\ []SmallDirs => []TypeOK
<1>1. FsInv => TypeOK
  BY TypesOf DEF FsInv
<1> QED BY <1>1, FsInvariant, PTL

(* A write, an append or a removal leaves the directories as they are. *)
LEMMA WriteSmall ==
  ASSUME NamesFit, NEW s, FsOK(s), NEW path \in Seq(PathNames), path # << >>, NEW c, Len(c) \in Nat
  PROVE  Small(WriteFile(s, Root, path, c).fs)
<1> DEFINE made == IF Resolve(s, Root, path) # Nil THEN Ok(s) ELSE CreateInode(s, Root, path, File)
           ino == Resolve(made.fs, Root, path)
           r == WriteFile(s, Root, path, c)
<1>1. r = IF ~made.ok \/ ino = Nil THEN Fail(made.fs)
          ELSE IF made.fs.inode[ino].type # File \/ Len(c) > MaxFile THEN Fail(made.fs)
          ELSE Store(made.fs, ino, c)
  BY Zenon DEF WriteFile
<1>2. PICK q : q = made.fs /\ Keeps(s, q) /\ Small(q)
  <2>1. CASE made = Ok(s)
    BY <2>1, KeepsSame, SmallOf, OkFail
  <2>2. CASE made = CreateInode(s, Root, path, File)
    BY <2>2, CreateKeeps, CreateSmall
  <2> QED BY <2>1, <2>2
<1>3. CASE r = Fail(made.fs)
  BY <1>2, <1>3, OkFail
<1>4. CASE r = Store(q, ino, c) /\ ino # Nil /\ ~(Len(c) > MaxFile)
  <2>1. PICK i : i = ino /\ i = Resolve(q, Root, path)
    BY <1>2
  <2>2. Shape(q) /\ Sectors(q) /\ Own(q) /\ TreeOK(q)
    BY <1>2 DEF Keeps, FsOK
  <2> HIDE DEF made, ino
  <2>3. i \in Allocated(q)
    BY <1>4, <2>1, <2>2, ResolveIn
  <2>4. Len(c) <= MaxFile
    <3>1. MaxFile \in Nat
      BY Sizes, Product DEF MaxFile
    <3> QED BY <1>4, <3>1
  <2>5. PICK t : t = Store(q, i, c).fs /\ t = r.fs
    BY <1>4, <2>1
  <2>6. Shape(t) /\ Sectors(t)
    BY <2>2, <2>3, <2>4, <2>5, StoreKeeps
  <2>7. Small(t)
    <3>1. \A d \in Dirs(t) : DirOK(t, t.inode[d])
      BY <2>6, DirsAre
    <3> QED BY <3>1 DEF Small, DirOK
  <2> QED BY <2>5, <2>7
<1> HIDE DEF made, ino, r
<1> QED BY <1>1, <1>2, <1>3, <1>4, Zenon

LEMMA AppendSmall ==
  ASSUME NamesFit, NEW s, FsOK(s), NEW path \in Seq(PathNames), path # << >>, NEW c \in Seq(Nat)
  PROVE  Small(AppendFile(s, Root, path, c).fs)
<1> DEFINE ino == Resolve(s, Root, path)
           r == AppendFile(s, Root, path, c)
<1>1. r = IF ino = Nil THEN WriteFile(s, Root, path, c)
          ELSE IF s.inode[ino].type # File \/ s.inode[ino].size + Len(c) > MaxFile THEN Fail(s)
          ELSE WriteFile(s, Root, path, ReadFile(s, ino) \o c)
  BY Zenon DEF AppendFile
<1>2. CASE r = Fail(s)
  BY <1>2, SmallOf, OkFail
<1>3. CASE r = WriteFile(s, Root, path, c)
  <2>1. Len(c) \in Nat
    OBVIOUS
  <2> QED BY <1>3, <2>1, WriteSmall
<1>4. CASE ino # Nil /\ r = WriteFile(s, Root, path, ReadFile(s, ino) \o c)
  <2>1. ino \in Allocated(s)
    BY <1>4, ResolveIn DEF FsOK
  <2>2. Len(ReadFile(s, ino) \o c) \in Nat
    BY <2>1, LongerFile
  <2> HIDE DEF ino, r
  <2> QED BY <1>4, <2>2, WriteSmall DEF r
<1> HIDE DEF ino, r
<1> QED BY <1>1, <1>2, <1>3, <1>4, Zenon

LEMMA NextSmall ==
  ASSUME NamesFit, FsOK(fs), Next
  PROVE  Small(fs')
<1>1. PICK p \in Paths : \/ \E type \in {File, Dir} : Create(p, type)
                         \/ \E c \in Contents : Write(p, c) \/ Extend(p, c)
                         \/ \E recursive \in BOOLEAN : Unlink(p, recursive)
  BY DEF Next
<1>2. p \in Seq(PathNames) /\ p # << >>
  BY FsAssumption DEF PathNames
<1>3. ASSUME NEW type \in {File, Dir}, Create(p, type) PROVE Small(fs')
  BY <1>2, <1>3, CreateSmall DEF Create
<1>4. ASSUME NEW c \in Contents, Write(p, c) PROVE Small(fs')
  <2>1. c \in Seq(Nat)
    BY FsAssumption
  <2>2. Len(c) \in Nat
    BY <2>1
  <2> QED BY <1>2, <1>4, <2>2, WriteSmall DEF Write
<1>5. ASSUME NEW c \in Contents, Extend(p, c) PROVE Small(fs')
  <2>1. c \in Seq(Nat)
    BY FsAssumption
  <2> QED BY <1>2, <1>5, <2>1, AppendSmall DEF Extend
<1>6. ASSUME NEW recursive \in BOOLEAN, Unlink(p, recursive) PROVE Small(fs')
  <2>1. FsOK(fs')
    BY <1>2, <1>6, RemoveKeeps DEF Unlink
  <2> QED BY <2>1, SmallOf
<1> QED BY <1>1, <1>3, <1>4, <1>5, <1>6

(* The condition of the theorems above holds while callers use no more names *)
(* than a directory has direct slots (238 on this disk): dir_add fills the   *)
(* slots that dir_remove emptied before it makes a directory longer.         *)
THEOREM FewNames == NamesFit => (Spec => []SmallDirs)
<1> SUFFICES ASSUME NamesFit PROVE Spec => []SmallDirs
  OBVIOUS
<1>1. Init => FsInv
  BY InitOK DEF FsInv
<1>2. FsInv /\ [Next]_fs => FsInv'
  <2> SUFFICES ASSUME FsInv, [Next]_fs PROVE FsInv'
    OBVIOUS
  <2>1. CASE Next
    <3>1. Small(fs')
      BY <2>1, NextSmall DEF FsInv
    <3>2. FsOK(fs')
      BY <2>1, <3>1, NextKeeps DEF FsInv
    <3> QED BY <3>2 DEF FsInv
  <2>2. CASE UNCHANGED fs
    BY <2>2 DEF FsInv
  <2> QED BY <2>1, <2>2
<1>3. FsInv => SmallDirs
  BY SmallOf DEF FsInv, SmallDirs, Small, Dirs
<1> QED BY <1>1, <1>2, <1>3, PTL DEF Spec

-----------------------------------------------------------------------------
(* Paths.                                                                    *)

(* Directory d has name nm for inode i. *)
Leads(s, d, nm, i) == \E k : LinkAt(s, d, k) /\ Ent(s, d, k).name = nm /\ Ent(s, d, k).ino = i

LEMMA StepLeads ==
  ASSUME NEW s, FsOK(s), NEW cur \in Ino, NEW nm \in Names
  PROVE  /\ Step(s, cur, nm) \in Ino \cup {Nil}
         /\ \A i \in Ino : Step(s, cur, nm) = i <=> Leads(s, cur, nm, i)
<1>1. Shape(s) /\ Sectors(s) /\ TreeOK(s) /\ OneName(s)
  BY DEF FsOK, TreeOK
<1>2. PICK j : j = Step(s, cur, nm) /\ StepOK(s, cur, nm, j)
  BY <1>1, StepIs
<1>3. j \in Ino \cup {Nil}
  BY <1>2 DEF StepOK, Allocated
<1>4. ASSUME j \in Ino PROVE Leads(s, cur, nm, j)
  <2>1. j # Nil
    BY <1>4, BlockNat
  <2> QED BY <1>2, <2>1 DEF StepOK, Leads
<1>5. ASSUME NEW i \in Ino, Leads(s, cur, nm, i) PROVE j = i
  <2>1. PICK k : LinkAt(s, cur, k) /\ Ent(s, cur, k).name = nm /\ Ent(s, cur, k).ino = i
    BY <1>5 DEF Leads
  <2>2. j # Nil
    BY <1>2, <2>1 DEF StepOK, LinkAt
  <2>3. PICK m : LinkAt(s, cur, m) /\ Ent(s, cur, m).name = nm /\ Ent(s, cur, m).ino = j
    BY <1>3, <1>4, <2>2 DEF Leads
  <2> QED BY <1>1, <2>1, <2>3 DEF OneName
<1> QED BY <1>2, <1>3, <1>4, <1>5

R(s, p) == Resolve(s, Root, p)

LEMMA WalkEmpty == ASSUME NEW s PROVE R(s, << >>) = Root
<1>1. PICK e : e = << >> /\ Len(e) = 0
  OBVIOUS
<1>2. PICK f : Walk(s, Root, e, 0, f) /\ R(s, e) = f[0]
  BY <1>1, ResolveIs DEF R
<1>3. f[0] = Root
  BY <1>2 DEF Walk
<1> QED BY <1>1, <1>2, <1>3

LEMMA WalkIn ==
  ASSUME NEW s, FsOK(s), NEW r \in Seq(PathNames)
  PROVE  R(s, r) \in Allocated(s) \cup {Nil} /\ R(s, r) \in Ino \cup {Nil}
BY ResolveIn DEF FsOK, R, Allocated

LEMMA NamesSeq == ASSUME NEW r \in Seq(Names) PROVE r \in Seq(PathNames)
BY DEF PathNames

LEMMA WalkLast ==
  ASSUME NEW s, FsOK(s), NEW r \in Seq(Names), r # << >>
  PROVE  /\ Front(r) \in Seq(Names) /\ Last(r) \in Names /\ Len(Front(r)) = Len(r) - 1
         /\ R(s, r) \in Ino \cup {Nil}
         /\ \A i \in Ino : R(s, r) = i <=> Leads(s, R(s, Front(r)), Last(r), i)
<1>a. Resolve(s, Root, r) = WalkNext(s, Parent(s, Root, r), Last(r)) /\ Last(r) \in Names
  BY ResolveLast
<1>1. PICK d, nm : d = R(s, Front(r)) /\ nm = Last(r) /\ nm \in Names /\ R(s, r) = WalkNext(s, d, nm)
  BY <1>a, Zenon DEF R, Parent
<1>2. Front(r) \in Seq(Names) /\ Last(r) \in Names /\ Len(Front(r)) = Len(r) - 1
  BY ResolveLast
<1>3. d \in Ino \cup {Nil} /\ R(s, r) \in Ino \cup {Nil}
  BY <1>1, <1>2, NamesSeq, WalkIn
<1>4. CASE d = Nil
  <2>1. ~LinkAt(s, Nil, 0) /\ \A k : ~LinkAt(s, Nil, k)
    BY BlockNat DEF LinkAt, Dirs
  <2>2. \A i \in Ino : i # Nil
    BY BlockNat
  <2> QED BY <1>1, <1>2, <1>3, <1>4, <2>1, <2>2 DEF WalkNext, Leads
<1>5. CASE d \in Ino
  <2>1. d # Nil
    BY <1>5, BlockNat
  <2>2. \A i \in Ino : Step(s, d, nm) = i <=> Leads(s, d, nm, i)
    BY <1>1, <1>5, StepLeads
  <2> QED BY <1>1, <1>2, <1>3, <2>1, <2>2 DEF WalkNext
<1> QED BY <1>3, <1>4, <1>5

LEMMA FrontLast ==
  ASSUME NEW S, NEW p \in Seq(S), NEW q \in Seq(S), p # << >>, q # << >>, Front(p) = Front(q), Last(p) = Last(q)
  PROVE  p = q
<1>1. PICK n \in Nat, m \in Nat : n = Len(p) /\ m = Len(q) /\ n # 0 /\ m # 0
  OBVIOUS
<1>2. Len(Front(p)) = n - 1 /\ Len(Front(q)) = m - 1 /\ (\A i \in 1..n-1 : Front(p)[i] = p[i])
      /\ (\A i \in 1..m-1 : Front(q)[i] = q[i])
  BY <1>1 DEF Front
<1>3. p[n] = q[m]
  BY <1>1 DEF Last
<1>4. n = m
  BY <1>1, <1>2
<1>5. \A i \in 1..n : p[i] = q[i]
  <2>1. \A i \in 1..n : i = n \/ i \in 1..n-1
    BY <1>1
  <2> QED BY <1>2, <1>3, <1>4, <2>1
<1> QED BY <1>1, <1>4, <1>5, SeqEqual

LEMMA AppendIs ==
  ASSUME NEW S, NEW p \in Seq(S), NEW x \in S
  PROVE  LET q == Append(p, x)
         IN  q \in Seq(S) /\ q # << >> /\ Len(q) = Len(p) + 1 /\ Front(q) = p /\ Last(q) = x
<1>1. PICK n \in Nat : n = Len(p)
  OBVIOUS
<1>2. PICK q : q = Append(p, x) /\ q \in Seq(S) /\ Len(q) = n + 1 /\ q[n + 1] = x /\ (\A i \in 1..n : q[i] = p[i])
  <2>1. PICK q : q = Append(p, x)
    OBVIOUS
  <2>2. q \in Seq(S) /\ Len(q) = n + 1
    BY <1>1, <2>1
  <2>3. q[n + 1] = x
    BY <1>1, <2>1
  <2>4. \A i \in 1..n : q[i] = p[i]
    BY <1>1, <2>1
  <2> QED BY <2>1, <2>2, <2>3, <2>4
<1>3. Last(q) = x /\ q # << >>
  BY <1>1, <1>2 DEF Last
<1>4. Front(q) = p
  <2>1. Front(q) \in Seq(S) /\ Len(Front(q)) = n /\ (\A i \in 1..n : Front(q)[i] = q[i])
    BY <1>1, <1>2 DEF Front
  <2> QED BY <1>1, <1>2, <2>1
<1> QED BY <1>1, <1>2, <1>3, <1>4

(* No two paths lead to one inode. *)
LEMMA OnePath ==
  ASSUME NEW s, FsOK(s), NEW p \in Seq(Names), NEW q \in Seq(Names), R(s, p) = R(s, q), R(s, p) # Nil
  PROVE  p = q
<1> DEFINE Two(a, b) == a \in Seq(Names) /\ b \in Seq(Names) /\ R(s, a) = R(s, b) /\ R(s, a) # Nil /\ a # b
           bad == {n \in Nat : \E a, b : Two(a, b) /\ Len(a) = n}
<1>0. OneLink(s) /\ Linked(s)
  BY DEF FsOK, TreeOK
<1>1. ASSUME NEW a \in Seq(Names), a # << >>, R(s, a) = Root PROVE FALSE
  <2>1. Leads(s, R(s, Front(a)), Last(a), Root)
    BY <1>1, WalkLast, BlockNat
  <2> QED BY <1>0, <2>1 DEF Leads, Linked
<1>2. bad = {}
  <2> SUFFICES ASSUME bad # {} PROVE FALSE
    OBVIOUS
  <2>1. PICK n \in bad : \A k \in bad : n <= k
    <3>1. bad \in SUBSET Nat
      OBVIOUS
    <3> QED BY <3>1, LeastNumber
  <2>2. PICK a, b : Two(a, b) /\ Len(a) = n
    OBVIOUS
  <2>3. a # << >> /\ b # << >>
    BY <1>1, <2>2, WalkEmpty
  <2>4. PICK i \in Ino : R(s, a) = i /\ R(s, b) = i
    <3>1. R(s, a) \in Ino \cup {Nil}
      BY <2>2, <2>3, WalkLast
    <3> QED BY <2>2, <3>1
  <2>5. Leads(s, R(s, Front(a)), Last(a), i) /\ Leads(s, R(s, Front(b)), Last(b), i)
    BY <2>2, <2>3, <2>4, WalkLast
  <2>6. R(s, Front(a)) = R(s, Front(b)) /\ Last(a) = Last(b) /\ R(s, Front(a)) \in Ino
    BY <1>0, <2>5 DEF OneLink, Leads, LinkAt, Dirs
  <2>7. Front(a) \in Seq(Names) /\ Front(b) \in Seq(Names) /\ Len(Front(a)) = n - 1
    BY <2>2, <2>3, WalkLast
  <2>8. Front(a) # Front(b)
    BY <2>2, <2>3, <2>6, FrontLast
  <2>9. Two(Front(a), Front(b))
    BY <2>6, <2>7, <2>8, BlockNat
  <2>10. n \in Nat /\ n # 0
    BY <2>2, <2>3
  <2>11. n - 1 \in bad
    BY <2>7, <2>9, <2>10
  <2> QED BY <2>1, <2>10, <2>11
<1>3. Len(p) \in Nat
  OBVIOUS
<1> QED BY <1>2, <1>3

(* The names of a path that is one component longer. *)
LEMMA DepthLast ==
  ASSUME NEW path \in Seq(PathNames), path # << >>
  PROVE  /\ Depth(path) \in Nat /\ Depth(Front(path)) \in Nat
         /\ Depth(path) = IF Last(path) = ".." THEN Depth(Front(path)) ELSE Depth(Front(path)) + 1
<1>1. PICK n \in Nat : n = Len(path) /\ n # 0
  OBVIOUS
<1>2. PICK fr : fr = Front(path) /\ DOMAIN fr = 1..n-1 /\ (\A i \in 1..n-1 : fr[i] = path[i])
  <2>1. Front(path) \in Seq(PathNames) /\ Len(Front(path)) = n - 1 /\ (\A i \in 1..n-1 : Front(path)[i] = path[i])
    BY <1>1 DEF Front
  <2> QED BY <1>1, <2>1
<1>3. Last(path) = path[n]
  BY <1>1 DEF Last
<1> DEFINE A == {i \in 1..n : path[i] # ".."}
           B == {i \in 1..n-1 : path[i] # ".."}
<1>4. Depth(path) = Cardinality(A) /\ Depth(fr) = Cardinality(B)
  <2>1. DOMAIN path = 1..n
    BY <1>1
  <2>2. B = {i \in DOMAIN fr : fr[i] # ".."}
    BY <1>2
  <2> QED BY <2>1, <2>2 DEF Depth
<1>5. IsFiniteSet(B) /\ Cardinality(B) \in Nat /\ n \notin B
  <2>1. IsFiniteSet(1..n-1)
    BY <1>1, FS_Interval
  <2>2. IsFiniteSet(B) /\ Cardinality(B) \in Nat
    <3>1. B \in SUBSET (1..n-1)
      OBVIOUS
    <3> QED BY <2>1, <3>1, FS_Subset, FS_CardinalityType
  <2> QED BY <1>1, <2>2
<1>6. A = IF path[n] = ".." THEN B ELSE B \cup {n}
  <2>1. \A i : i \in 1..n <=> i = n \/ i \in 1..n-1
    BY <1>1
  <2> QED BY <2>1
<1> HIDE DEF A, B
<1>7. Cardinality(B \cup {n}) = Cardinality(B) + 1
  BY <1>5, FS_AddElement
<1> QED BY <1>2, <1>3, <1>4, <1>5, <1>6, <1>7

(* A path through ".." leads where a path of names leads. *)
LEMMA Straight ==
  ASSUME NEW s, FsOK(s), NEW path \in Seq(PathNames), R(s, path) # Nil
  PROVE  \E q \in Seq(Names) : R(s, q) = R(s, path) /\ Len(q) <= Depth(path)
<1> DEFINE Good(r) == \E q \in Seq(Names) : R(s, q) = R(s, r) /\ Len(q) <= Depth(r)
           bad == {n \in Nat : \E r \in Seq(PathNames) : R(s, r) # Nil /\ ~Good(r) /\ Len(r) = n}
<1>0. Linked(s) /\ Parents(s)
  BY DEF FsOK, TreeOK
<1>1. bad = {}
  <2> SUFFICES ASSUME bad # {} PROVE FALSE
    OBVIOUS
  <2>1. PICK n \in bad : \A k \in bad : n <= k
    <3>1. bad \in SUBSET Nat
      OBVIOUS
    <3> QED BY <3>1, LeastNumber
  <2>2. PICK r \in Seq(PathNames) : R(s, r) # Nil /\ ~Good(r) /\ Len(r) = n
    OBVIOUS
  <2>3. r # << >>
    <3>1. Depth(<< >>) = 0
      <4>1. {i \in DOMAIN << >> : << >>[i] # ".."} = {}
        OBVIOUS
      <4> QED BY <4>1, FS_EmptySet DEF Depth
    <3>2. << >> \in Seq(Names) /\ Len(<< >>) = 0
      OBVIOUS
    <3> QED BY <2>2, <3>1, <3>2
  <2>4. PICK fr, nm : fr = Front(r) /\ nm = Last(r) /\ R(s, r) = WalkNext(s, R(s, fr), nm)
                      /\ fr \in Seq(PathNames) /\ Len(fr) = n - 1 /\ nm \in PathNames
    BY <2>2, <2>3, ResolveLast DEF R, Parent
  <2>5. R(s, fr) # Nil
    BY <2>2, <2>4 DEF WalkNext
  <2>6. PICK q \in Seq(Names) : R(s, q) = R(s, fr) /\ Len(q) <= Depth(fr)
    <3>1. n \in Nat /\ n # 0
      BY <2>2, <2>3
    <3>2. n - 1 \in Nat /\ n - 1 \notin bad
      BY <2>1, <3>1
    <3>3. Good(fr)
      BY <2>4, <2>5, <3>2
    <3> QED BY <3>3
  <2>7. Depth(r) \in Nat /\ Depth(fr) \in Nat /\ Depth(r) = IF nm = ".." THEN Depth(fr) ELSE Depth(fr) + 1
    BY <2>3, <2>4, DepthLast
  <2>8. CASE nm \in Names
    <3>1. PICK a : a = Append(q, nm) /\ a \in Seq(Names) /\ a # << >> /\ Len(a) = Len(q) + 1 /\ Front(a) = q /\ Last(a) = nm
      BY <2>8, AppendIs
    <3>2. R(s, a) = WalkNext(s, R(s, q), nm)
      <4>1. Resolve(s, Root, a) = WalkNext(s, Parent(s, Root, a), Last(a))
        BY <3>1, ResolveLast
      <4> QED BY <3>1, <4>1, Zenon DEF R, Parent
    <3>3. nm # ".."
      BY <2>8, NamesAre
    <3>4. Len(a) <= Depth(r)
      BY <2>6, <2>7, <3>1, <3>3
    <3> QED BY <2>2, <2>4, <2>6, <3>1, <3>2, <3>4
  <2>9. CASE nm = ".."
    <3>1. PICK d \in Ino : d = R(s, fr)
      BY <2>4, <2>5, WalkIn
    <3>2. R(s, r) = Step(s, d, "..")
      BY <2>4, <2>5, <2>9, <3>1 DEF WalkNext
    <3>3. d \in Dirs(s)
      BY <2>2, <3>1, <3>2 DEF Step, Dirs
    <3>4. R(s, r) = Ent(s, d, 1).ino
      BY <3>2, <3>3, DotDot
    <3>5. CASE q = << >>
      <4>1. d = Root
        BY <2>6, <3>1, <3>5, WalkEmpty
      <4>2. R(s, r) = R(s, q)
        BY <1>0, <3>1, <3>4, <3>5, <4>1, WalkEmpty DEF Parents
      <4> QED BY <2>2, <2>6, <2>7, <2>9, <4>2
    <3>6. CASE q # << >>
      <4>1. Leads(s, R(s, Front(q)), Last(q), d) /\ Front(q) \in Seq(Names) /\ Len(Front(q)) = Len(q) - 1
        BY <2>6, <3>1, <3>6, WalkLast
      <4>2. PICK k : LinkAt(s, R(s, Front(q)), k) /\ Ent(s, R(s, Front(q)), k).ino = d
        BY <4>1 DEF Leads
      <4>3. Ent(s, R(s, Front(q)), k).type = Dir
        BY <1>0, <3>3, <4>2 DEF Linked, Dirs
      <4>4. Ent(s, d, 1).ino = R(s, Front(q))
        BY <1>0, <4>2, <4>3 DEF Parents
      <4>5. Len(Front(q)) <= Depth(r)
        BY <2>6, <2>7, <2>9, <4>1
      <4> QED BY <2>2, <3>4, <4>1, <4>4, <4>5
    <3> QED BY <3>5, <3>6
  <2> QED BY <2>4, <2>8, <2>9 DEF PathNames
<1>2. Len(path) \in Nat
  OBVIOUS
<1> QED BY <1>1, <1>2

LEMMA PrefixIs ==
  ASSUME NEW S, NEW q \in Seq(S), NEW r \in Seq(S)
  PROVE  IsPrefix(q, r) <=> Len(q) <= Len(r) /\ \A i \in 1..Len(q) : q[i] = r[i]
<1>1. PICK n \in Nat, m \in Nat : n = Len(q) /\ m = Len(r)
  OBVIOUS
<1>2. SUFFICES ASSUME n <= m PROVE SubSeq(q, 1, n) = SubSeq(r, 1, n) <=> \A i \in 1..n : q[i] = r[i]
  BY <1>1 DEF IsPrefix
<1>3. ASSUME NEW u \in Seq(S), NEW x \in Nat, x = Len(u), n <= x
      PROVE  SubSeq(u, 1, n) \in Seq(S) /\ Len(SubSeq(u, 1, n)) = n /\ \A i \in 1..n : SubSeq(u, 1, n)[i] = u[i]
  BY <1>3
<1>4. PICK a, b : /\ a = SubSeq(q, 1, n) /\ a \in Seq(S) /\ Len(a) = n /\ (\A i \in 1..n : a[i] = q[i])
                  /\ b = SubSeq(r, 1, n) /\ b \in Seq(S) /\ Len(b) = n /\ (\A i \in 1..n : b[i] = r[i])
  <2>1. SubSeq(q, 1, n) \in Seq(S) /\ Len(SubSeq(q, 1, n)) = n /\ \A i \in 1..n : SubSeq(q, 1, n)[i] = q[i]
    BY <1>1, <1>3
  <2>2. SubSeq(r, 1, n) \in Seq(S) /\ Len(SubSeq(r, 1, n)) = n /\ \A i \in 1..n : SubSeq(r, 1, n)[i] = r[i]
    BY <1>1, <1>2, <1>3
  <2> QED BY <2>1, <2>2, Zenon
<1>5. (\A i \in 1..n : q[i] = r[i]) => a = b
  <2> SUFFICES ASSUME \A i \in 1..n : q[i] = r[i] PROVE a = b
    OBVIOUS
  <2>1. \A i \in 1..Len(a) : a[i] = b[i]
    BY <1>4
  <2> QED BY <1>4, <2>1, SeqEqual
<1> QED BY <1>4, <1>5

LEMMA PrefixLast ==
  ASSUME NEW S, NEW q \in Seq(S), NEW r \in Seq(S), r # << >>
  PROVE  IsPrefix(q, r) <=> q = r \/ IsPrefix(q, Front(r))
<1>1. PICK n \in Nat, m \in Nat : n = Len(q) /\ m = Len(r) /\ m # 0
  OBVIOUS
<1>2. Front(r) \in Seq(S) /\ Len(Front(r)) = m - 1 /\ (\A i \in 1..m-1 : Front(r)[i] = r[i])
  BY <1>1 DEF Front
<1>3. PICK fr \in Seq(S) : fr = Front(r) /\ Len(fr) = m - 1 /\ \A i \in 1..m-1 : fr[i] = r[i]
  BY <1>2
<1>4. IsPrefix(q, r) <=> n <= m /\ \A i \in 1..n : q[i] = r[i]
  BY <1>1, PrefixIs
<1>5. IsPrefix(q, fr) <=> n <= m - 1 /\ \A i \in 1..n : q[i] = fr[i]
  BY <1>1, <1>3, PrefixIs
<1>6. CASE n <= m - 1
  <2>1. \A i \in 1..n : i \in 1..m-1
    BY <1>6
  <2>2. q # r
    BY <1>1, <1>6
  <2> QED BY <1>3, <1>4, <1>5, <1>6, <2>1, <2>2
<1>7. CASE n > m - 1
  <2>1. ASSUME n = m, \A i \in 1..n : q[i] = r[i] PROVE q = r
    BY <1>1, <2>1, SeqEqual
  <2> QED BY <1>1, <1>3, <1>4, <1>5, <1>7, <2>1
<1> QED BY <1>6, <1>7

-----------------------------------------------------------------------------
(* What a change of the tree does to the paths.                              *)

SameLeads(s, t) == \A d, nm, i : Leads(t, d, nm, i) <=> Leads(s, d, nm, i)
LEMMA SameTreeLeads ==
  ASSUME NEW s, NEW t, FsOK(s), SameTree(s, t)
  PROVE  SameLeads(s, t)
<1>1. Dirs(t) = Dirs(s)
  BY DEF SameTree, Dirs
<1>2. ASSUME NEW d \in Dirs(s)
      PROVE  t.inode[d].size = s.inode[d].size /\ 2..s.inode[d].size-1 \subseteq 0..s.inode[d].size-1
  <2>1. s.inode[d].size \in Nat \ {0, 1}
    BY DirsAre DEF FsOK
  <2> QED BY <2>1 DEF SameTree
<1>3. ASSUME NEW d, NEW k
      PROVE  (LinkAt(t, d, k) <=> LinkAt(s, d, k)) /\ (LinkAt(s, d, k) => Ent(t, d, k) = Ent(s, d, k))
  BY <1>1, <1>2 DEF LinkAt, SameTree
<1> QED BY <1>3 DEF SameLeads, Leads

LEMMA WalkSameLeads ==
  ASSUME NEW s, NEW t, FsOK(s), FsOK(t), SameLeads(s, t), NEW p \in Seq(Names)
  PROVE  R(t, p) = R(s, p)
<1> DEFINE bad == {n \in Nat : \E r \in Seq(Names) : R(t, r) # R(s, r) /\ Len(r) = n}
<1>1. bad = {}
  <2> SUFFICES ASSUME bad # {} PROVE FALSE
    OBVIOUS
  <2>1. PICK n \in bad : \A k \in bad : n <= k
    <3>1. bad \in SUBSET Nat
      OBVIOUS
    <3> QED BY <3>1, LeastNumber
  <2>2. PICK r \in Seq(Names) : R(t, r) # R(s, r) /\ Len(r) = n
    OBVIOUS
  <2>3. r # << >>
    BY <2>2, WalkEmpty
  <2>4. PICK fr, nm : fr = Front(r) /\ nm = Last(r) /\ fr \in Seq(Names) /\ Len(fr) = n - 1
    BY <2>2, <2>3, WalkLast
  <2>5. R(t, fr) = R(s, fr)
    <3>1. n \in Nat /\ n # 0
      BY <2>2, <2>3
    <3>2. n - 1 \in Nat /\ n - 1 \notin bad
      BY <2>1, <3>1
    <3> QED BY <2>4, <3>2
  <2>6. R(s, r) \in Ino \cup {Nil} /\ \A i \in Ino : R(s, r) = i <=> Leads(s, R(s, fr), nm, i)
    BY <2>3, <2>4, WalkLast
  <2>7. R(t, r) \in Ino \cup {Nil} /\ \A i \in Ino : R(t, r) = i <=> Leads(t, R(t, fr), nm, i)
    BY <2>3, <2>4, WalkLast
  <2>8. \A i \in Ino : R(t, r) = i <=> R(s, r) = i
    BY <2>5, <2>6, <2>7 DEF SameLeads
  <2> QED BY <2>2, <2>6, <2>7, <2>8
<1>2. Len(p) \in Nat
  OBVIOUS
<1> QED BY <1>1, <1>2

(* Directory p, which path w leads to, has the new name nm for the new inode i. *)
NewLeads(s, t, p, nm, i) ==
  /\ \A d, n, j : Leads(t, d, n, j) <=> Leads(s, d, n, j) \/ (d = p /\ n = nm /\ j = i)
  /\ i \in Ino /\ i \notin Allocated(s) /\ \A j : ~Leads(s, p, nm, j)
LEMMA WalkNewLeads ==
  ASSUME NEW s, NEW t, FsOK(s), FsOK(t), NEW w \in Seq(Names), NEW p \in Ino, R(s, w) = p, NEW nm \in Names, NEW i,
         NewLeads(s, t, p, nm, i), NEW path \in Seq(Names)
  PROVE  R(t, path) = IF path = Append(w, nm) THEN i ELSE R(s, path)
<1> DEFINE Good(r) == R(t, r) = IF r = Append(w, nm) THEN i ELSE R(s, r)
           bad == {n \in Nat : \E r \in Seq(Names) : ~Good(r) /\ Len(r) = n}
<1>0. PICK q \in Seq(Names) : q = Append(w, nm) /\ q # << >> /\ Len(q) = Len(w) + 1 /\ Front(q) = w /\ Last(q) = nm
  BY AppendIs
<1>1. ASSUME NEW r \in Seq(Names), r # << >>, r # q => Good(Front(r)), r = q => R(t, w) = p PROVE Good(r)
  <2>1. PICK fr, n : fr = Front(r) /\ n = Last(r) /\ fr \in Seq(Names) /\ Len(fr) = Len(r) - 1
    BY <1>1, WalkLast
  <2>2. R(s, r) \in Ino \cup {Nil} /\ \A j \in Ino : R(s, r) = j <=> Leads(s, R(s, fr), n, j)
    BY <1>1, <2>1, WalkLast
  <2>3. R(t, r) \in Ino \cup {Nil} /\ \A j \in Ino : R(t, r) = j <=> Leads(t, R(t, fr), n, j)
    BY <1>1, <2>1, WalkLast
  <2>4. CASE r = q
    <3>1. Leads(t, R(t, fr), n, i) /\ i \in Ino
      BY <1>0, <1>1, <2>1, <2>4 DEF NewLeads
    <3> QED BY <1>0, <2>3, <2>4, <3>1
  <2>5. CASE r # q /\ fr = q
    <3>1. R(t, fr) = i
      BY <1>0, <1>1, <2>1, <2>5
    <3>2. i # p
      <4>1. p \in Allocated(s)
        BY WalkIn, NamesSeq, BlockNat
      <4> QED BY <4>1 DEF NewLeads
    <3>3. \A j : ~Leads(s, i, n, j)
      <4>1. i \notin Dirs(s)
        BY DirsAre DEF FsOK, NewLeads
      <4> QED BY <4>1 DEF Leads, LinkAt
    <3>4. \A j : ~Leads(t, R(t, fr), n, j)
      BY <3>1, <3>2, <3>3 DEF NewLeads
    <3>5. R(t, r) = Nil
      BY <2>3, <3>4
    <3>6. R(s, fr) = Nil
      <4>1. R(s, q) \in Ino \cup {Nil} /\ \A j \in Ino : R(s, q) = j <=> Leads(s, R(s, Front(q)), Last(q), j)
        BY <1>0, WalkLast
      <4>2. R(s, Front(q)) = p /\ Last(q) = nm
        BY <1>0
      <4>3. \A j \in Ino : R(s, q) # j
        BY <4>1, <4>2 DEF NewLeads
      <4> QED BY <2>5, <4>1, <4>3
    <3>7. R(s, r) = Nil
      <4>1. \A j : ~Leads(s, Nil, n, j)
        BY BlockNat DEF Leads, LinkAt, Dirs
      <4> QED BY <2>2, <3>6, <4>1
    <3> QED BY <1>0, <2>5, <3>5, <3>7
  <2>6. CASE r # q /\ fr # q
    <3>1. R(t, fr) = R(s, fr)
      BY <1>0, <1>1, <2>1, <2>6
    <3>2. ASSUME R(s, fr) = p, n = nm PROVE FALSE
      <4>1. fr = w
        BY <2>1, <3>2, OnePath, BlockNat
      <4>2. r = q
        BY <1>0, <1>1, <2>1, <3>2, <4>1, FrontLast
      <4> QED BY <2>6, <4>2
    <3>3. \A j : Leads(t, R(t, fr), n, j) <=> Leads(s, R(s, fr), n, j)
      BY <3>1, <3>2 DEF NewLeads
    <3>4. R(t, r) = R(s, r)
      BY <2>2, <2>3, <3>3
    <3> QED BY <1>0, <2>6, <3>4
  <2> QED BY <2>4, <2>5, <2>6
<1>2. bad = {}
  <2> SUFFICES ASSUME bad # {} PROVE FALSE
    OBVIOUS
  <2>1. PICK n \in bad : \A k \in bad : n <= k
    <3>1. bad \in SUBSET Nat
      OBVIOUS
    <3> QED BY <3>1, LeastNumber
  <2>2. PICK r \in Seq(Names) : ~Good(r) /\ Len(r) = n
    OBVIOUS
  <2>3. r # << >>
    <3>1. << >> # q
      BY <1>0
    <3>2. R(t, << >>) = R(s, << >>)
      BY WalkEmpty
    <3> QED BY <1>0, <2>2, <3>1, <3>2
  <2>4. Front(r) \in Seq(Names) /\ Len(Front(r)) = n - 1
    BY <2>2, <2>3, WalkLast
  <2>5. n \in Nat /\ n # 0
    BY <2>2, <2>3
  <2>6. n - 1 \in Nat /\ n - 1 \notin bad
    BY <2>1, <2>5
  <2>7. Good(Front(r))
    BY <2>4, <2>6
  <2>8. ASSUME r = q PROVE R(t, w) = p
    <3>1. Front(r) = w /\ w # q
      BY <1>0, <2>8
    <3> HIDE DEF bad
    <3> QED BY <1>0, <2>7, <3>1
  <2> HIDE DEF Good
  <2> QED BY <1>1, <2>2, <2>3, <2>7, <2>8
<1>3. Len(path) \in Nat
  OBVIOUS
<1> QED BY <1>2, <1>3

(* What holds of the empty path, and of a path if of its front, holds of all. *)
LEMMA PathInduction ==
  ASSUME NEW S, NEW X, << >> \in X, \A r \in Seq(S) : r # << >> /\ Front(r) \in X => r \in X
  PROVE  Seq(S) \subseteq X
<1> DEFINE bad == {n \in Nat : \E r \in Seq(S) : r \notin X /\ Len(r) = n}
<1>1. bad = {}
  <2> SUFFICES ASSUME bad # {} PROVE FALSE
    OBVIOUS
  <2>1. PICK n \in bad : \A k \in bad : n <= k
    <3>1. bad \in SUBSET Nat
      OBVIOUS
    <3> QED BY <3>1, LeastNumber
  <2>2. PICK r \in Seq(S) : r \notin X /\ Len(r) = n
    OBVIOUS
  <2>3. r # << >>
    BY <2>2
  <2>5. n \in Nat /\ n # 0
    BY <2>2, <2>3
  <2>4. Front(r) \in Seq(S) /\ Len(Front(r)) = n - 1 /\ Front(r) \notin X
    <3>1. Front(r) \in Seq(S) /\ Len(Front(r)) = n - 1
      BY <2>2, <2>5 DEF Front
    <3> QED BY <2>2, <2>3, <3>1
  <2>6. n - 1 \in Nat /\ n - 1 \notin bad
    BY <2>1, <2>5
  <2> QED BY <2>4, <2>6
<1>2. \A r \in Seq(S) : Len(r) \in Nat
  OBVIOUS
<1> QED BY <1>1, <1>2

(* Name nm of directory p is gone, and so is every directory of G. *)
LostLeads(s, t, p, nm, G) ==
  \A d, n, j : Leads(t, d, n, j) <=> Leads(s, d, n, j) /\ d \notin G /\ ~(d = p /\ n = nm)
LEMMA PrunedLeads ==
  ASSUME NEW s, FsOK(s), NEW p, NEW k, LinkAt(s, p, k), NEW nm \in Names, Ent(s, p, k).name = nm,
         NEW G, NEW t, Pruned(s, t, G, p, k)
  PROVE  LostLeads(s, t, p, nm, G)
<1>1. OneName(s)
  BY DEF FsOK, TreeOK
<1>2. Dirs(t) = Dirs(s) \ G /\ \A d \in Dirs(t) : t.inode[d] = s.inode[d]
  <2>1. \A i \in Ino : i \in Dirs(t) <=> i \in Dirs(s) /\ i \notin G
    BY BlockNat DEF Pruned, Dirs
  <2> QED BY <2>1 DEF Pruned, Dirs
<1>3. ASSUME NEW d \in Dirs(s), d \notin G, NEW j \in 2..s.inode[d].size-1
      PROVE  Ent(t, d, j) = IF d = p /\ j = k THEN EmptyEntry ELSE Ent(s, d, j)
  <2>1. s.inode[d].size \in Nat /\ j \in 0..s.inode[d].size-1
    BY DirsAre DEF FsOK
  <2> QED BY <1>3, <2>1 DEF Pruned
<1>4. EmptyEntry.name = ""
  BY DEF EmptyEntry, DirEntry
<1>5. \A d, j : LinkAt(t, d, j) <=> LinkAt(s, d, j) /\ d \notin G /\ ~(d = p /\ j = k)
  BY <1>2, <1>3, <1>4 DEF LinkAt
<1>6. \A d, j : LinkAt(t, d, j) => Ent(t, d, j) = Ent(s, d, j)
  BY <1>3, <1>5 DEF LinkAt
<1>7. \A j : LinkAt(s, p, j) => (Ent(s, p, j).name = nm <=> j = k)
  BY <1>1 DEF OneName
<1>8. ASSUME NEW d, NEW n, NEW j, Leads(t, d, n, j) PROVE Leads(s, d, n, j) /\ d \notin G /\ ~(d = p /\ n = nm)
  <2>1. PICK m : LinkAt(t, d, m) /\ Ent(t, d, m).name = n /\ Ent(t, d, m).ino = j
    BY <1>8 DEF Leads
  <2>2. LinkAt(s, d, m) /\ d \notin G /\ ~(d = p /\ m = k) /\ Ent(s, d, m).name = n /\ Ent(s, d, m).ino = j
    BY <1>5, <1>6, <2>1
  <2> QED BY <1>7, <2>2 DEF Leads
<1>9. ASSUME NEW d, NEW n, NEW j, Leads(s, d, n, j), d \notin G, ~(d = p /\ n = nm) PROVE Leads(t, d, n, j)
  <2>1. PICK m : LinkAt(s, d, m) /\ Ent(s, d, m).name = n /\ Ent(s, d, m).ino = j
    BY <1>9 DEF Leads
  <2>2. LinkAt(t, d, m)
    BY <1>5, <1>9, <2>1
  <2> QED BY <1>6, <2>1, <2>2 DEF Leads
<1> QED BY <1>8, <1>9 DEF LostLeads

(* The inodes below a name are where the paths through it lead. *)
LEMMA WalkBelow ==
  ASSUME NEW s, FsOK(s), NEW w \in Seq(Names), NEW p \in Ino, R(s, w) = p, NEW nm \in Names,
         NEW top \in Ino, Leads(s, p, nm, top), NEW G, Below(s, top, G), NEW path \in Seq(Names)
  PROVE  R(s, path) \in G <=> IsPrefix(Append(w, nm), path) /\ R(s, path) # Nil
<1>0. PICK q \in Seq(Names) : q = Append(w, nm) /\ q # << >> /\ Front(q) = w /\ Last(q) = nm
  BY AppendIs
<1> DEFINE Good(r) == R(s, r) \in G <=> IsPrefix(q, r) /\ R(s, r) # Nil
           X == {r \in Seq(Names) : Good(r)}
<1>1. OneLink(s) /\ G \subseteq Allocated(s) \ {Root}
  BY DEF FsOK, TreeOK, Below
<1>2. Nil \notin G
  BY <1>1, BlockNat DEF Allocated
<1>3. R(s, q) = top /\ top \in G
  <2>1. R(s, q) = top <=> Leads(s, R(s, Front(q)), Last(q), top)
    BY <1>0, WalkLast
  <2> QED BY <1>0, <2>1 DEF Below
<1>4. << >> \in X
  <2>1. Root \notin G /\ R(s, << >>) = Root
    BY <1>1, WalkEmpty
  <2>2. ~IsPrefix(q, << >>)
    <3>0. << >> \in Seq(Names)
      OBVIOUS
    <3>1. PICK e : e = << >> /\ Len(e) = 0 /\ e \in Seq(Names)
      BY <3>0
    <3>2. Len(q) # 0 /\ Len(q) \in Nat
      BY <1>0
    <3>3. IsPrefix(q, e) => Len(q) <= Len(e)
      BY <3>1, PrefixIs
    <3> QED BY <3>1, <3>2, <3>3
  <2> QED BY <2>1, <2>2
<1>5. ASSUME NEW r \in Seq(Names), r # << >>, Front(r) \in X PROVE r \in X
  <2>1. PICK fr, n : fr = Front(r) /\ n = Last(r) /\ fr \in Seq(Names) /\ Good(fr)
    BY <1>5
  <2>2. R(s, r) \in Ino \cup {Nil} /\ \A j \in Ino : R(s, r) = j <=> Leads(s, R(s, fr), n, j)
    BY <1>5, <2>1, WalkLast
  <2>3. IsPrefix(q, r) <=> q = r \/ IsPrefix(q, fr)
    BY <1>5, <2>1, PrefixLast
  <2>4. CASE r = q \/ R(s, r) = Nil
    BY <1>2, <1>3, <2>3, <2>4, BlockNat
  <2>5. CASE r # q /\ R(s, r) # Nil
    <3>1. PICK i \in Ino : i = R(s, r) /\ Leads(s, R(s, fr), n, i)
      BY <2>2, <2>5
    <3>2. PICK m : LinkAt(s, R(s, fr), m) /\ Ent(s, R(s, fr), m).ino = i
      BY <3>1 DEF Leads
    <3>3. R(s, fr) \in Ino /\ R(s, fr) # Nil
      BY <3>2, BlockNat DEF LinkAt, Dirs
    <3>4. i \in Children(s, R(s, fr))
      BY <3>2, <3>3, ChildrenAre
    <3>5. ASSUME IsPrefix(q, fr) PROVE i \in G
      BY <2>1, <3>3, <3>4, <3>5 DEF Below
    <3>6. ASSUME i \in G PROVE IsPrefix(q, fr)
      <4>1. i # top
        BY <1>3, <2>5, <3>1, OnePath
      <4>2. PICK g \in G : i \in Children(s, g)
        BY <3>6, <4>1 DEF Below
      <4>3. PICK x : LinkAt(s, g, x) /\ Ent(s, g, x).ino = i
        BY <1>1, <4>2, ChildrenAre DEF Allocated
      <4>4. g = R(s, fr)
        BY <1>1, <3>2, <4>3 DEF OneLink
      <4> QED BY <2>1, <4>2, <4>4
    <3> QED BY <2>3, <2>5, <3>1, <3>5, <3>6
  <2> QED BY <2>4, <2>5
<1> HIDE DEF X
<1>6. path \in X
  BY <1>4, <1>5, PathInduction
<1> QED BY <1>0, <1>6 DEF X

LEMMA WalkLostLeads ==
  ASSUME NEW s, NEW t, FsOK(s), FsOK(t), NEW w \in Seq(Names), NEW p \in Ino, R(s, w) = p, NEW nm \in Names,
         NEW top \in Ino, Leads(s, p, nm, top), NEW G, Below(s, top, G), LostLeads(s, t, p, nm, G),
         NEW path \in Seq(Names)
  PROVE  R(t, path) = IF IsPrefix(Append(w, nm), path) THEN Nil ELSE R(s, path)
<1>0. PICK q \in Seq(Names) : q = Append(w, nm) /\ q # << >> /\ Front(q) = w /\ Last(q) = nm
  BY AppendIs
<1> DEFINE Good(r) == R(t, r) = IF IsPrefix(q, r) THEN Nil ELSE R(s, r)
           X == {r \in Seq(Names) : Good(r)}
<1>1. << >> \in X
  <2>1. R(t, << >>) = R(s, << >>)
    BY WalkEmpty
  <2>2. ~IsPrefix(q, << >>)
    <3>0. << >> \in Seq(Names)
      OBVIOUS
    <3>1. PICK e : e = << >> /\ Len(e) = 0 /\ e \in Seq(Names)
      BY <3>0
    <3>2. Len(q) # 0 /\ Len(q) \in Nat
      BY <1>0
    <3>3. IsPrefix(q, e) => Len(q) <= Len(e)
      BY <3>1, PrefixIs
    <3> QED BY <3>1, <3>2, <3>3
  <2> QED BY <2>1, <2>2
<1>2. ASSUME NEW r \in Seq(Names), r # << >>, Front(r) \in X PROVE r \in X
  <2>1. PICK fr, n : fr = Front(r) /\ n = Last(r) /\ fr \in Seq(Names) /\ Good(fr)
    BY <1>2
  <2>2. R(s, r) \in Ino \cup {Nil} /\ \A j \in Ino : R(s, r) = j <=> Leads(s, R(s, fr), n, j)
    BY <1>2, <2>1, WalkLast
  <2>3. R(t, r) \in Ino \cup {Nil} /\ \A j \in Ino : R(t, r) = j <=> Leads(t, R(t, fr), n, j)
    BY <1>2, <2>1, WalkLast
  <2>4. IsPrefix(q, r) <=> q = r \/ IsPrefix(q, fr)
    BY <1>2, <2>1, PrefixLast
  <2>5. CASE IsPrefix(q, fr)
    <3>1. R(t, fr) = Nil
      BY <2>1, <2>5
    <3>2. \A j : ~Leads(t, Nil, n, j)
      BY BlockNat DEF Leads, LinkAt, Dirs
    <3>3. R(t, r) = Nil
      BY <2>3, <3>1, <3>2
    <3> QED BY <2>4, <2>5, <3>3
  <2>6. CASE ~IsPrefix(q, fr) /\ r = q
    <3>1. R(t, fr) = p /\ n = nm
      BY <1>0, <2>1, <2>6
    <3>2. R(t, r) = Nil
      BY <2>3, <3>1 DEF LostLeads
    <3> QED BY <2>4, <2>6, <3>2
  <2>7. CASE ~IsPrefix(q, fr) /\ r # q
    <3>1. R(t, fr) = R(s, fr)
      BY <2>1, <2>7
    <3>2. R(s, fr) \notin G
      BY <1>0, <2>1, <2>7, WalkBelow
    <3>3. ASSUME R(s, fr) = p, n = nm PROVE FALSE
      <4>1. fr = w
        BY <2>1, <3>3, OnePath, BlockNat
      <4>2. r = q
        BY <1>0, <1>2, <2>1, <3>3, <4>1, FrontLast
      <4> QED BY <2>7, <4>2
    <3>4. \A j : Leads(t, R(t, fr), n, j) <=> Leads(s, R(s, fr), n, j)
      BY <3>1, <3>2, <3>3 DEF LostLeads
    <3>5. R(t, r) = R(s, r)
      BY <2>2, <2>3, <3>4
    <3> QED BY <2>4, <2>7, <3>5
  <2> QED BY <2>5, <2>6, <2>7
<1> HIDE DEF X
<1>3. path \in X
  BY <1>1, <1>2, PathInduction
<1> QED BY <1>0, <1>3 DEF X

-----------------------------------------------------------------------------
(* The file system as its callers see it.                                    *)

DirNode == [kind |-> "dir"]
FileNode(c) == [kind |-> "file", bytes |-> c]
NodeOf(s, i) == IF s.inode[i].type = Dir THEN DirNode ELSE FileNode(ReadFile(s, i))

LEMMA AbsPathIs == \A p : p \in AbsPath <=> p \in Seq(Names) /\ p # << >> /\ Len(p) <= MaxDepth
<1>1. MaxDepth \in Nat
  BY DepthAssumption
<1>2. ASSUME NEW p \in AbsPath PROVE p \in Seq(Names) /\ p # << >> /\ Len(p) <= MaxDepth
  <2>1. PICK n \in 1..MaxDepth : p \in [1..n -> Names]
    BY <1>2 DEF AbsPath
  <2>2. n \in Nat /\ n # 0 /\ n <= MaxDepth
    BY <1>1
  <2>3. p \in Seq(Names) /\ Len(p) = n
    BY <2>1, <2>2
  <2> QED BY <2>2, <2>3
<1>3. ASSUME NEW p \in Seq(Names), p # << >>, Len(p) <= MaxDepth PROVE p \in AbsPath
  <2>1. PICK n \in Nat : n = Len(p) /\ n # 0 /\ p \in [1..n -> Names]
    BY <1>3
  <2>2. n \in 1..MaxDepth
    BY <1>1, <1>3, <2>1
  <2> QED BY <2>1, <2>2 DEF AbsPath
<1> QED BY <1>2, <1>3

LEMMA ViewIs ==
  ASSUME NEW s
  PROVE  /\ DOMAIN View(s) = {p \in AbsPath : R(s, p) # Nil}
         /\ \A p \in DOMAIN View(s) : View(s)[p] = NodeOf(s, R(s, p))
         /\ View(s) = [p \in DOMAIN View(s) |-> View(s)[p]]
<1> DEFINE D == {p \in AbsPath : R(s, p) # Nil}
<1>1. View(s) = [p \in D |-> Node(s, p)]
  BY DEF View, R
<1>2. \A p : Node(s, p) = NodeOf(s, R(s, p))
  BY Zenon DEF Node, NodeOf, R, DirNode, FileNode
<1> HIDE DEF D
<1>3. DOMAIN View(s) = D /\ \A p \in D : View(s)[p] = NodeOf(s, R(s, p))
  BY <1>1, <1>2
<1>4. View(s) = [p \in DOMAIN View(s) |-> View(s)[p]]
  BY <1>1
<1> QED BY <1>3, <1>4 DEF D

(* Two views are the same if they have the same nodes. *)
LEMMA SameView ==
  ASSUME NEW s, NEW V, V = [p \in DOMAIN V |-> V[p]], DOMAIN View(s) = DOMAIN V,
         \A p \in DOMAIN V : V[p] = NodeOf(s, R(s, p))
  PROVE  View(s) = V
<1>1. PICK W : W = View(s)
  OBVIOUS
<1>2. DOMAIN W = DOMAIN V
  BY <1>1
<1>3. \A p \in DOMAIN V : W[p] = V[p]
  BY <1>1, <1>2, ViewIs
<1>4. W = [p \in DOMAIN W |-> W[p]]
  BY <1>1, ViewIs
<1>5. W = V
  BY <1>2, <1>3, <1>4
<1> QED BY <1>1, <1>5

LEMMA ViewSame ==
  ASSUME NEW s, NEW t, \A p \in Seq(Names) : R(t, p) = R(s, p),
         \A p \in Seq(Names) : R(s, p) # Nil => NodeOf(t, R(s, p)) = NodeOf(s, R(s, p))
  PROVE  View(t) = View(s)
<1>1. \A p \in AbsPath : R(t, p) = R(s, p) /\ (R(s, p) # Nil => NodeOf(t, R(s, p)) = NodeOf(s, R(s, p)))
  BY AbsPathIs
<1>2. PICK V : V = View(s) /\ DOMAIN V = {p \in AbsPath : R(s, p) # Nil} /\ V = [p \in DOMAIN V |-> V[p]]
               /\ \A p \in DOMAIN V : V[p] = NodeOf(s, R(s, p))
  BY ViewIs
<1>3. DOMAIN View(t) = {p \in AbsPath : R(t, p) # Nil}
  BY ViewIs
<1>4. DOMAIN View(t) = DOMAIN V
  BY <1>1, <1>2, <1>3
<1>5. \A p \in DOMAIN V : V[p] = NodeOf(t, R(t, p))
  BY <1>1, <1>2
<1> QED BY <1>2, <1>4, <1>5, SameView

PutNode(V, q, x) == [p \in DOMAIN V \cup {q} |-> IF p = q THEN x ELSE V[p]]
LEMMA ViewPut ==
  ASSUME NEW s, NEW t, NEW q \in AbsPath, NEW x, R(t, q) # Nil, NodeOf(t, R(t, q)) = x,
         \A p \in Seq(Names) : p # q => R(t, p) = R(s, p) /\ (R(s, p) # Nil => NodeOf(t, R(s, p)) = NodeOf(s, R(s, p)))
  PROVE  View(t) = PutNode(View(s), q, x)
<1> DEFINE V == View(s)
           P == PutNode(V, q, x)
<1>1. \A p \in AbsPath : p # q => R(t, p) = R(s, p) /\ (R(s, p) # Nil => NodeOf(t, R(s, p)) = NodeOf(s, R(s, p)))
  BY AbsPathIs
<1>2. DOMAIN V = {p \in AbsPath : R(s, p) # Nil} /\ \A p \in DOMAIN V : V[p] = NodeOf(s, R(s, p))
  BY ViewIs
<1> HIDE DEF V
<1>3. DOMAIN P = DOMAIN V \cup {q} /\ (\A p \in DOMAIN P : P[p] = IF p = q THEN x ELSE V[p]) /\ P = [p \in DOMAIN P |-> P[p]]
  BY DEF PutNode
<1>4. DOMAIN View(t) = DOMAIN P
  <2>1. \A p \in AbsPath : R(t, p) # Nil <=> p = q \/ R(s, p) # Nil
    BY <1>1
  <2>2. DOMAIN View(t) = {p \in AbsPath : R(t, p) # Nil}
    BY ViewIs
  <2> HIDE DEF P
  <2> QED BY <1>2, <1>3, <2>1, <2>2
<1>5. \A p \in DOMAIN P : P[p] = NodeOf(t, R(t, p))
  BY <1>1, <1>2, <1>3
<1> HIDE DEF P
<1> QED BY <1>3, <1>4, <1>5, SameView DEF P, V

(* From s to t the path q and all below it go. *)
Cut(s, t, q) ==
  /\ \A p \in Seq(Names) : R(t, p) = IF IsPrefix(q, p) THEN Nil ELSE R(s, p)
  /\ \A p \in Seq(Names) : R(s, p) # Nil /\ ~IsPrefix(q, p) => NodeOf(t, R(s, p)) = NodeOf(s, R(s, p))
Without(V, q) == [p \in {p \in DOMAIN V : ~IsPrefix(q, p)} |-> V[p]]
LEMMA ViewCut ==
  ASSUME NEW s, NEW t, NEW q, Cut(s, t, q)
  PROVE  View(t) = Without(View(s), q)
<1> DEFINE V == View(s)
           P == Without(V, q)
<1>1. \A p \in AbsPath : /\ R(t, p) = IF IsPrefix(q, p) THEN Nil ELSE R(s, p)
                         /\ R(s, p) # Nil /\ ~IsPrefix(q, p) => NodeOf(t, R(s, p)) = NodeOf(s, R(s, p))
  BY AbsPathIs DEF Cut
<1>2. DOMAIN V = {p \in AbsPath : R(s, p) # Nil} /\ \A p \in DOMAIN V : V[p] = NodeOf(s, R(s, p))
  BY ViewIs
<1> HIDE DEF V
<1>3. DOMAIN P = {p \in DOMAIN V : ~IsPrefix(q, p)} /\ (\A p \in DOMAIN P : P[p] = V[p]) /\ P = [p \in DOMAIN P |-> P[p]]
  BY DEF Without
<1>4. DOMAIN View(t) = DOMAIN P
  <2>1. \A p \in AbsPath : R(t, p) # Nil <=> R(s, p) # Nil /\ ~IsPrefix(q, p)
    BY <1>1
  <2>2. DOMAIN View(t) = {p \in AbsPath : R(t, p) # Nil}
    BY ViewIs
  <2> HIDE DEF P
  <2> QED BY <1>2, <1>3, <2>1, <2>2
<1>5. \A p \in DOMAIN P : P[p] = NodeOf(t, R(t, p))
  BY <1>1, <1>2, <1>3
<1> HIDE DEF P
<1> QED BY <1>3, <1>4, <1>5, SameView DEF P, V

(* Every byte of every file is on the disk. *)
AllFilled(s) == \A i \in Allocated(s) : s.inode[i].type = File => Filled(s, i)
ViewOK(s) == FsOK(s) /\ AllFilled(s)

LEMMA NodeKept ==
  ASSUME NEW s, ViewOK(s), NEW t, NEW i \in Allocated(s),
         Untouched(s, t, i) \/ (s.inode[i].type = Dir /\ t.inode[i].type = Dir)
  PROVE  NodeOf(t, i) = NodeOf(s, i) /\ (t.inode[i].type = File => Filled(t, i))
<1>1. Shape(s) /\ Sectors(s) /\ Own(s) /\ File # Dir
  BY BlockNat DEF ViewOK, FsOK
<1>2. CASE s.inode[i].type = Dir /\ t.inode[i].type = Dir
  BY <1>1, <1>2 DEF NodeOf
<1>3. CASE Untouched(s, t, i) /\ s.inode[i].type # Dir
  <2>1. s.inode[i].type = File /\ t.inode[i] = s.inode[i]
    <3>1. i \in Ino /\ s.inode[i].type \in {Free, File, Dir} /\ s.inode[i].type # Free
      BY <1>1, ShapeParts, InodeParts DEF Allocated
    <3> QED BY <1>3, <3>1 DEF Untouched
  <2>2. Filled(t, i) /\ ReadFile(t, i) = ReadFile(s, i)
    BY <1>1, <1>3, <2>1, UntouchedReads DEF ViewOK, AllFilled
  <2> QED BY <2>1, <2>2 DEF NodeOf
<1>4. CASE Untouched(s, t, i) /\ s.inode[i].type = Dir
  BY <1>2, <1>4 DEF Untouched
<1> QED BY <1>2, <1>3, <1>4

-----------------------------------------------------------------------------
(* create_inode as its callers see it.                                       *)

LEMMA UntouchedTwice ==
  ASSUME NEW s, NEW u, NEW t, Shape(s), Sectors(s), NEW i \in Allocated(s), Untouched(s, u, i), Untouched(u, t, i)
  PROVE  Untouched(s, t, i)
<1>1. Blocks(u, i) = Blocks(s, i)
  BY UntouchedIs
<1> QED BY <1>1 DEF Untouched

(* What a path leads to before a name is added it leads to after. *)
LEMMA WalkGrafted ==
  ASSUME NEW s, NEW t, FsOK(s), FsOK(t), NEW p, NEW k, NEW i, NEW nm, NEW type, Grafted(s, t, p, k, i, nm, type),
         i \in Ino, i \notin Allocated(s), NEW path \in Seq(PathNames), R(s, path) # Nil
  PROVE  R(t, path) = R(s, path)
<1> DEFINE Good(r) == R(s, r) # Nil => R(t, r) = R(s, r)
           X == {r \in Seq(PathNames) : Good(r)}
<1>1. << >> \in X
  BY WalkEmpty
<1>2. ASSUME NEW r \in Seq(PathNames), r # << >>, Front(r) \in X PROVE r \in X
  <2>a. Front(r) \in Seq(PathNames) /\ Last(r) \in PathNames /\ Good(Front(r))
    BY <1>2, ResolveLast
  <2>b. \A v : Resolve(v, Root, r) = WalkNext(v, Parent(v, Root, r), Last(r))
    BY <1>2, ResolveLast
  <2>1. PICK fr, n : fr = Front(r) /\ n = Last(r) /\ fr \in Seq(PathNames) /\ Good(fr) /\ n \in PathNames
                     /\ R(s, r) = WalkNext(s, R(s, fr), n) /\ R(t, r) = WalkNext(t, R(t, fr), n)
    BY <2>a, <2>b, Zenon DEF R, Parent
  <2>2. SUFFICES ASSUME R(s, r) # Nil PROVE R(t, r) = R(s, r)
    OBVIOUS
  <2>3. PICK d \in Ino : d = R(s, fr) /\ R(t, fr) = d /\ d # Nil
    BY <2>1, <2>2, WalkIn DEF WalkNext
  <2>4. R(s, r) = Step(s, d, n) /\ R(t, r) = Step(t, d, n)
    BY <2>1, <2>3 DEF WalkNext
  <2>5. CASE n \in Names
    <3>1. PICK j \in Ino : j = R(s, r) /\ Leads(s, d, n, j)
      BY <2>2, <2>4, <2>5, StepLeads
    <3>2. Leads(t, d, n, j)
      BY <3>1 DEF Leads, Grafted
    <3> QED BY <2>4, <2>5, <3>1, <3>2, StepLeads
  <2>6. CASE n = ".."
    <3>1. d \in Dirs(s)
      BY <2>2, <2>4, <2>6 DEF Step, Dirs
    <3>2. d \in Dirs(t) /\ Ent(t, d, 1) = Ent(s, d, 1)
      <4>1. d # i
        BY <3>1, DirsAre DEF FsOK
      <4> QED BY <3>1, <4>1 DEF Grafted, Dirs
    <3> QED BY <2>4, <2>6, <3>1, <3>2, DotDot
  <2> QED BY <2>1, <2>5, <2>6 DEF PathNames
<1> HIDE DEF X
<1>3. path \in X
  BY <1>1, <1>2, PathInduction
<1> QED BY <1>3 DEF X

LEMMA GraftedLeads ==
  ASSUME NEW s, NEW t, NEW p, NEW k, NEW i, NEW nm, NEW type, Grafted(s, t, p, k, i, nm, type),
         i \in Ino, i \notin Allocated(s), \A j : LinkAt(s, p, j) => Ent(s, p, j).name # nm
  PROVE  NewLeads(s, t, p, nm, i)
<1>1. \A d, n, j : Leads(t, d, n, j) => Leads(s, d, n, j) \/ (d = p /\ n = nm /\ j = i)
  BY DEF Leads, Grafted
<1>2. \A d, n, j : Leads(s, d, n, j) => Leads(t, d, n, j)
  BY DEF Leads, Grafted
<1>3. Leads(t, p, nm, i)
  BY DEF Leads, Grafted
<1>4. \A j : ~Leads(s, p, nm, j)
  BY DEF Leads
<1> QED BY <1>1, <1>2, <1>3, <1>4 DEF NewLeads

(* A node at a path where there was none, in a directory. *)
Vacant(V, q) == q \in AbsPath /\ q \notin DOMAIN V /\ (Front(q) = << >> \/ (Front(q) \in DOMAIN V /\ V[Front(q)] = DirNode))
Placed(s, t, q, x) == Vacant(View(s), q) /\ View(t) = PutNode(View(s), q, x)

LEMMA GraftedView ==
  ASSUME NEW s, NEW t, ViewOK(s), FsOK(t), NEW p \in Dirs(s), NEW k, NEW i \in Ino, i \notin Allocated(s),
         NEW nm \in Names, NEW type \in {File, Dir}, Grafted(s, t, p, k, i, nm, type),
         \A j : LinkAt(s, p, j) => Ent(s, p, j).name # nm,
         \A j \in Allocated(s) : NodeOf(t, j) = NodeOf(s, j) /\ (t.inode[j].type = File => Filled(t, j)),
         type = File => t.inode[i].size = 0,
         NEW path \in Seq(PathNames), path # << >>, Depth(path) <= MaxDepth, Parent(s, Root, path) = p, Last(path) = nm
  PROVE  /\ ViewOK(t)
         /\ \E q : Placed(s, t, q, IF type = Dir THEN DirNode ELSE FileNode(<< >>)) /\ R(t, q) = R(t, path)
<1>0. FsOK(s) /\ p \in Ino /\ p # Nil /\ File # Dir
  BY BlockNat DEF ViewOK, Dirs
<1>1. PICK x : x = (IF type = Dir THEN DirNode ELSE FileNode(<< >>)) /\ NodeOf(t, i) = x /\ (type = File => Filled(t, i))
  <2>1. t.inode[i].type = type
    BY DEF Grafted
  <2>2. type = File => Filled(t, i) /\ ReadFile(t, i) = << >>
    BY NoBytes
  <2> QED BY <1>0, <2>1, <2>2 DEF NodeOf
<1>2. ViewOK(t)
  <2> SUFFICES ASSUME NEW j \in Allocated(t), t.inode[j].type = File PROVE Filled(t, j)
    BY DEF ViewOK, AllFilled
  <2>1. j = i \/ j \in Allocated(s)
    BY DEF Grafted, Allocated
  <2>2. t.inode[i].type = type
    BY DEF Grafted
  <2> QED BY <1>1, <2>1, <2>2
<1>3. PICK fr : fr = Front(path) /\ fr \in Seq(PathNames) /\ R(s, fr) = p
  BY ResolveLast DEF R, Parent
<1>4. PICK w \in Seq(Names) : R(s, w) = p /\ Len(w) <= Depth(fr)
  BY <1>0, <1>3, Straight
<1>5. PICK q \in Seq(Names) : q = Append(w, nm) /\ q # << >> /\ Len(q) = Len(w) + 1 /\ Front(q) = w /\ Last(q) = nm
  BY AppendIs
<1>6. Len(w) + 1 <= MaxDepth /\ Len(w) \in Nat /\ MaxDepth \in Nat
  <2>1. Depth(path) \in Nat /\ Depth(fr) \in Nat /\ Depth(path) = Depth(fr) + 1
    BY <1>3, DepthLast, NamesAre
  <2>2. MaxDepth \in Nat /\ Len(w) \in Nat
    BY DepthAssumption
  <2> QED BY <1>4, <2>1, <2>2
<1>7. q \in AbsPath
  BY <1>5, <1>6, AbsPathIs
<1>8. NewLeads(s, t, p, nm, i)
  BY GraftedLeads
<1>9. \A r \in Seq(Names) : R(t, r) = IF r = q THEN i ELSE R(s, r)
  BY <1>0, <1>4, <1>5, <1>8, WalkNewLeads
<1>10. R(s, q) = Nil
  <2>1. R(s, q) \in Ino \cup {Nil} /\ \A j \in Ino : R(s, q) = j <=> Leads(s, R(s, Front(q)), Last(q), j)
    BY <1>0, <1>5, WalkLast
  <2>2. R(s, Front(q)) = p /\ Last(q) = nm
    BY <1>4, <1>5
  <2> QED BY <1>8, <2>1, <2>2 DEF NewLeads
<1>11. View(t) = PutNode(View(s), q, x)
  <2>1. R(t, q) = i /\ i # Nil
    BY <1>9, BlockNat
  <2>2. \A r \in Seq(Names) : r # q => R(t, r) = R(s, r) /\ (R(s, r) # Nil => NodeOf(t, R(s, r)) = NodeOf(s, R(s, r)))
    <3>1. \A r \in Seq(Names) : R(s, r) # Nil => R(s, r) \in Allocated(s)
      BY <1>0, NamesSeq, WalkIn
    <3> QED BY <1>9, <3>1
  <2> QED BY <1>1, <1>7, <2>1, <2>2, ViewPut
<1>12. Vacant(View(s), q)
  <2>1. q \notin DOMAIN View(s)
    BY <1>10, ViewIs
  <2>2. ASSUME w # << >> PROVE w \in DOMAIN View(s) /\ View(s)[w] = DirNode
    <3>1. w \in AbsPath
      BY <1>6, <2>2, AbsPathIs
    <3>2. w \in DOMAIN View(s) /\ View(s)[w] = NodeOf(s, p)
      BY <1>0, <1>4, <3>1, ViewIs
    <3> QED BY <3>2 DEF NodeOf, Dirs
  <2> QED BY <1>5, <1>7, <2>1, <2>2 DEF Vacant
<1>13. R(t, path) = i
  <2>1. R(t, fr) = p
    BY <1>0, <1>3, WalkGrafted
  <2>2. R(t, path) = WalkNext(t, R(t, fr), nm)
    BY <1>3, ResolveLast DEF R, Parent
  <2>3. R(t, path) = Step(t, p, nm)
    BY <1>0, <2>1, <2>2 DEF WalkNext
  <2>4. Leads(t, p, nm, i)
    BY <1>8 DEF NewLeads
  <2> QED BY <1>0, <2>3, <2>4, StepLeads
<1>14. R(t, q) = i
  BY <1>9
<1> QED BY <1>1, <1>2, <1>11, <1>12, <1>13, <1>14 DEF Placed

LEMMA CreateViews ==
  ASSUME NEW s, ViewOK(s), NEW path \in Seq(PathNames), path # << >>, Depth(path) <= MaxDepth, NEW type \in {File, Dir},
         Small(CreateInode(s, Root, path, type).fs)
  PROVE  LET r == CreateInode(s, Root, path, type)
         IN  /\ ViewOK(r.fs)
             /\ ~r.ok => View(r.fs) = View(s)
             /\ r.ok => \E q : Placed(s, r.fs, q, IF type = Dir THEN DirNode ELSE FileNode(<< >>)) /\ R(r.fs, q) = R(r.fs, path)
<1>1. PICK r : r = CreateInode(s, Root, path, type)
  OBVIOUS
<1>2. FsOK(s) /\ Shape(s) /\ Sectors(s) /\ Own(s) /\ TreeOK(s)
  BY DEF ViewOK, FsOK
<1>3. FsOK(r.fs)
  BY <1>1, <1>2, CreateKeeps DEF Keeps
<1>4. CASE r = Fail(s)
  <2>1. r.ok = FALSE /\ r.fs = s
    BY <1>4, OkFail
  <2> QED BY <1>1, <2>1
<1>5. ASSUME NEW p, p = Parent(s, Root, path), NEW nm, nm = Last(path), NEW i, NEW u, Creation(s, r, type, p, nm, i, u)
      PROVE  /\ ViewOK(r.fs)
             /\ ~r.ok => View(r.fs) = View(s)
             /\ r.ok => \E q : Placed(s, r.fs, q, IF type = Dir THEN DirNode ELSE FileNode(<< >>)) /\ R(r.fs, q) = R(r.fs, path)
  <2>1. p \in Allocated(s) /\ nm \in PathNames /\ i \in Ino /\ i \notin Allocated(s)
    BY <1>5 DEF Creation
  <2>2. p \in Ino /\ StepOK(s, p, nm, Nil) /\ IsMade(s, u, i, p, type)
    BY <1>5, <2>1 DEF Creation, Allocated
  <2>3. PICK e \in Entries : e = DirEntry(i, nm, type)
    BY <2>1 DEF DirEntry, Entries, PathNames
  <2>4. PICK a : a = DirAdd(u, p, e) /\ r = IF a.ok THEN a ELSE Fail(RolledBack(u, i))
    BY <1>5, <2>3 DEF Creation
  <2>5. Shape(u) /\ Sectors(u) /\ Own(u) /\ Others(s, u, i) /\ u.inode[i].type = type /\ (type = File => u.inode[i].size = 0)
    BY <2>2 DEF IsMade
  <2>6. CASE a.ok
    <3>1. PICK t : t = a.fs /\ t = r.fs /\ FsOK(t)
      BY <1>3, <2>4, <2>6
    <3>2. p \in Dirs(u) /\ \E k : Added(u, t, p, k, e)
      BY <1>1, <2>2, <2>3, <2>4, <2>5, <2>6, <3>1, DirAddAdds
    <3>3. PICK k : Added(u, t, p, k, e)
      BY <3>2
    <3>4. p # i /\ p \in Dirs(s)
      BY <2>1, <2>5, <3>2 DEF Others, Dirs
    <3>5. nm \in Names /\ \A j : LinkAt(s, p, j) => Ent(s, p, j).name # nm
      BY <2>2, <3>4 DEF StepOK
    <3>6. Grafted(s, t, p, k, i, nm, type)
      BY <1>2, <2>1, <2>2, <2>3, <3>3, <3>4, <3>5, CreatedTree
    <3>7. Others(u, t, p) /\ p \in Dirs(t)
      BY <3>3 DEF Added
    <3>8. ASSUME NEW j \in Allocated(s) PROVE NodeOf(t, j) = NodeOf(s, j) /\ (t.inode[j].type = File => Filled(t, j))
      <4>1. CASE j = p
        <5>1. s.inode[j].type = Dir /\ t.inode[j].type = Dir
          BY <3>4, <3>7, <4>1 DEF Dirs
        <5> QED BY <5>1, NodeKept
      <4>2. CASE j # p
        <5>1. j \in Ino \ {i} /\ j \in Ino \ {p}
          BY <2>1, <4>2 DEF Allocated
        <5>2. Untouched(s, u, j) /\ u.inode[j] = s.inode[j]
          BY <2>5, <5>1 DEF Others
        <5>3. j \in Allocated(u)
          BY <5>2 DEF Allocated
        <5>4. Untouched(u, t, j)
          BY <3>7, <5>1, <5>3 DEF Others
        <5>5. Untouched(s, t, j)
          BY <1>2, <5>2, <5>4, UntouchedTwice
        <5> QED BY <5>5, NodeKept
      <4> QED BY <4>1, <4>2
    <3>9. type = File => t.inode[i].size = 0
      BY <2>1, <2>5, <3>4, <3>7 DEF Others
    <3>10. ViewOK(t) /\ \E q : Placed(s, t, q, IF type = Dir THEN DirNode ELSE FileNode(<< >>)) /\ R(t, q) = R(t, path)
      BY <1>5, <2>1, <3>1, <3>4, <3>5, <3>6, <3>8, <3>9, GraftedView
    <3>11. r.ok
      BY <2>4, <2>6
    <3> QED BY <3>1, <3>10, <3>11
  <2>7. CASE ~a.ok
    <3>1. PICK t : t = RolledBack(u, i) /\ t = r.fs /\ r.ok = FALSE
      BY <2>4, <2>7, OkFail
    <3>2. SameTree(s, t) /\ Others(s, t, i)
      BY <1>2, <2>1, <2>2, <3>1, RolledBackKeeps
    <3>3. ASSUME NEW j \in Allocated(s) PROVE NodeOf(t, j) = NodeOf(s, j) /\ (t.inode[j].type = File => Filled(t, j))
      <4>1. Untouched(s, t, j)
        BY <2>1, <3>2 DEF Others, Allocated
      <4> QED BY <4>1, NodeKept
    <3>4. Allocated(t) = Allocated(s)
      BY <3>2 DEF SameTree, Allocated
    <3>5. ViewOK(t)
      BY <1>3, <3>1, <3>3, <3>4 DEF ViewOK, AllFilled
    <3>6. \A r1 \in Seq(Names) : R(t, r1) = R(s, r1)
      BY <1>2, <1>3, <3>1, <3>2, SameTreeLeads, WalkSameLeads
    <3>7. \A r1 \in Seq(Names) : R(s, r1) # Nil => R(s, r1) \in Allocated(s)
      BY <1>2, NamesSeq, WalkIn
    <3>8. View(t) = View(s)
      BY <3>3, <3>6, <3>7, ViewSame
    <3> QED BY <3>1, <3>5, <3>8
  <2> QED BY <2>6, <2>7
<1>6. r = Fail(s) \/ \E i, u : Creation(s, r, type, Parent(s, Root, path), Last(path), i, u)
  BY <1>1, <1>2, CreateCases
<1>7. CASE \E i, u : Creation(s, r, type, Parent(s, Root, path), Last(path), i, u)
  BY <1>1, <1>5, <1>7
<1> QED BY <1>1, <1>4, <1>6, <1>7

-----------------------------------------------------------------------------
(* write_file and append_file as their callers see them.                     *)

LEMMA StoreViews ==
  ASSUME NEW s, ViewOK(s), NEW i \in Allocated(s), s.inode[i].type = File, NEW q \in AbsPath, R(s, q) = i,
         NEW S, NEW c \in Seq(S), Len(c) <= MaxFile
  PROVE  LET r == Store(s, i, c)
         IN  ViewOK(r.fs) /\ View(r.fs) = PutNode(View(s), q, FileNode(IF r.ok THEN c ELSE << >>))
<1>1. PICK r, t : r = Store(s, i, c) /\ t = r.fs
  OBVIOUS
<1>2. FsOK(s) /\ Shape(s) /\ Sectors(s) /\ Own(s) /\ TreeOK(s) /\ Blank(s) /\ i \in Ino /\ File # Dir /\ File # Free
  BY BlockNat DEF ViewOK, FsOK, Allocated
<1>3. PICK L \in Nat : L = Len(c) /\ c = [k \in 1..L |-> c[k]]
  OBVIOUS
<1>4. Shape(t) /\ Sectors(t) /\ Own(t) /\ Others(s, t, i) /\ t.inode[i].type = File
  BY <1>1, <1>2, <1>3, StoreKeeps
<1>5. SameTree(s, t)
  BY <1>2, <1>4, OthersTree
<1>6. FsOK(t)
  <2>1. TreeOK(t)
    BY <1>2, <1>5, SameTreeKeeps
  <2>2. Blank(t)
    BY <1>2, <1>4 DEF Blank, Others, Allocated
  <2> QED BY <1>4, <2>1, <2>2 DEF FsOK
<1>7. Filled(t, i) /\ ReadFile(t, i) = IF r.ok THEN c ELSE << >>
  BY <1>1, <1>2, <1>3, StoreReads
<1>8. ASSUME NEW j \in Allocated(s), j # i PROVE NodeOf(t, j) = NodeOf(s, j) /\ (t.inode[j].type = File => Filled(t, j))
  <2>1. Untouched(s, t, j)
    BY <1>4, <1>8 DEF Others, Allocated
  <2> QED BY <2>1, NodeKept
<1>9. ViewOK(t)
  <2>1. Allocated(t) = Allocated(s)
    BY <1>5 DEF SameTree, Allocated
  <2> QED BY <1>6, <1>7, <1>8, <2>1 DEF ViewOK, AllFilled
<1>10. \A p \in Seq(Names) : R(t, p) = R(s, p)
  BY <1>2, <1>5, <1>6, SameTreeLeads, WalkSameLeads
<1>11. q \in Seq(Names) /\ i # Nil
  BY <1>2, AbsPathIs, BlockNat
<1>12. NodeOf(t, R(t, q)) = FileNode(IF r.ok THEN c ELSE << >>)
  BY <1>2, <1>4, <1>7, <1>10, <1>11 DEF NodeOf
<1>13. ASSUME NEW p \in Seq(Names), p # q, R(s, p) # Nil PROVE NodeOf(t, R(s, p)) = NodeOf(s, R(s, p))
  <2>1. R(s, p) \in Allocated(s)
    BY <1>2, <1>13, NamesSeq, WalkIn
  <2>2. R(s, p) # i
    BY <1>2, <1>11, <1>13, OnePath
  <2> QED BY <1>8, <2>1, <2>2
<1>14. View(t) = PutNode(View(s), q, FileNode(IF r.ok THEN c ELSE << >>))
  <2>1. R(t, q) # Nil
    BY <1>10, <1>11
  <2> QED BY <1>10, <1>12, <1>13, <2>1, ViewPut
<1> QED BY <1>1, <1>9, <1>14

LEMMA StoreSmall ==
  ASSUME NEW s, Struct(s), NEW i, s.inode[i].type = File, NEW c, Small(Store(s, i, c).fs)
  PROVE  Small(s)
<1>1. PICK t : t = Store(s, i, c).fs
  OBVIOUS
<1>2. \A j \in Ino \ {i} : t.inode[j] = s.inode[j]
  BY <1>1, StoreInodes
<1>3. SUFFICES ASSUME NEW d \in Dirs(s) PROVE s.inode[d].size <= MaxDirect * DePerBlk
  BY DEF Small
<1>4. d \in Ino /\ s.inode[d].type = Dir /\ d # i
  BY BlockNat DEF Dirs
<1>5. t.inode[d] = s.inode[d] /\ d \in Dirs(t)
  BY <1>2, <1>4 DEF Dirs
<1> QED BY <1>1, <1>5 DEF Small

(* The file at a path of names that leads where path leads. *)
LEMMA FilePath ==
  ASSUME NEW s, ViewOK(s), NEW path \in Seq(PathNames), Depth(path) <= MaxDepth, NEW i, R(s, path) = i, i # Nil,
         s.inode[i].type = File
  PROVE  /\ i \in Allocated(s)
         /\ \E q \in AbsPath : R(s, q) = i /\ q \in DOMAIN View(s) /\ View(s)[q] = FileNode(ReadFile(s, i))
<1>1. FsOK(s) /\ File # Dir /\ Root \in Dirs(s)
  BY BlockNat DEF ViewOK, FsOK, TreeOK, Dots
<1>2. PICK q \in Seq(Names) : R(s, q) = i /\ Len(q) <= Depth(path)
  BY <1>1, Straight
<1>3. q # << >>
  <2>1. i # Root
    BY <1>1 DEF Dirs
  <2> QED BY <1>2, <2>1, WalkEmpty
<1>4. q \in AbsPath
  <2>1. Len(q) \in Nat /\ Depth(path) \in Nat /\ MaxDepth \in Nat
    <3>1. path # << >>
      BY <1>1, WalkEmpty DEF Dirs
    <3> QED BY <3>1, DepthLast, DepthAssumption
  <2>2. Len(q) <= MaxDepth
    BY <1>2, <2>1
  <2> QED BY <1>3, <2>2, AbsPathIs
<1>5. q \in DOMAIN View(s) /\ View(s)[q] = NodeOf(s, i)
  BY <1>2, <1>4, ViewIs
<1>6. NodeOf(s, i) = FileNode(ReadFile(s, i))
  BY <1>1 DEF NodeOf
<1>7. i \in Allocated(s)
  BY <1>1, WalkIn
<1> QED BY <1>2, <1>4, <1>5, <1>6, <1>7

(* What write_file and append_file do to the view. *)
Keeping(V, W, q, X) == \E c \in X : W = PutNode(V, q, FileNode(c))
LEMMA WriteViews ==
  ASSUME NEW s, ViewOK(s), NEW path \in Seq(PathNames), path # << >>, Depth(path) <= MaxDepth, NEW S, NEW c \in Seq(S),
         Small(WriteFile(s, Root, path, c).fs)
  PROVE  LET t == WriteFile(s, Root, path, c).fs
         IN  /\ ViewOK(t)
             /\ \/ View(t) = View(s)
                \/ \E q \in AbsPath :
                     /\ Keeping(View(s), View(t), q, {c, << >>})
                     /\ IF R(s, path) = Nil THEN Vacant(View(s), q)
                        ELSE q \in DOMAIN View(s) /\ View(s)[q] = FileNode(ReadFile(s, R(s, path)))
<1> DEFINE made == IF Resolve(s, Root, path) # Nil THEN Ok(s) ELSE CreateInode(s, Root, path, File)
           ino == Resolve(made.fs, Root, path)
           Goal(t) == /\ ViewOK(t)
                      /\ \/ View(t) = View(s)
                         \/ \E q \in AbsPath :
                              /\ Keeping(View(s), View(t), q, {c, << >>})
                              /\ IF R(s, path) = Nil THEN Vacant(View(s), q)
                                 ELSE q \in DOMAIN View(s) /\ View(s)[q] = FileNode(ReadFile(s, R(s, path)))
<1>1. PICK r : r = WriteFile(s, Root, path, c)
  OBVIOUS
<1>2. r = IF ~made.ok \/ ino = Nil THEN Fail(made.fs)
          ELSE IF made.fs.inode[ino].type # File \/ Len(c) > MaxFile THEN Fail(made.fs)
          ELSE Store(made.fs, ino, c)
  BY <1>1, Zenon DEF WriteFile
<1>3. PICK m : m = made
  OBVIOUS
<1>4. PICK i : i = R(m.fs, path) /\ i = ino
  BY <1>3 DEF R
<1>5. \/ r = Fail(m.fs)
      \/ m.ok /\ r = Store(m.fs, i, c) /\ i # Nil /\ m.fs.inode[i].type = File /\ ~(Len(c) > MaxFile)
  <2> HIDE DEF made, ino
  <2> QED BY <1>2, <1>3, <1>4, Zenon
<1>6. MaxFile \in Nat /\ Len(c) \in Nat /\ FsOK(s)
  <2>1. MaxFile \in Nat
    BY Sizes, Product DEF MaxFile
  <2> QED BY <2>1 DEF ViewOK
<1>7. Small(m.fs)
  <2>1. CASE r = Fail(m.fs)
    BY <1>1, <2>1, OkFail
  <2>2. CASE r = Store(m.fs, i, c) /\ m.fs.inode[i].type = File
    <3>1. Keeps(s, m.fs)
      BY <1>3, <1>6, CreateKeeps, KeepsSame, OkFail
    <3>2. Struct(m.fs)
      BY <3>1 DEF Keeps
    <3> QED BY <1>1, <2>2, <3>2, StoreSmall
  <2> QED BY <1>5, <2>1, <2>2
<1> HIDE DEF made, ino
<1>a. SUFFICES Goal(r.fs)
  BY <1>1
<1>b. ~(Len(c) > MaxFile) => Len(c) <= MaxFile
  BY <1>6
<1>8. CASE R(s, path) # Nil
  <2>1. m.fs = s /\ m = Ok(s)
    BY <1>3, <1>8, OkFail DEF made, R
  <2>2. CASE r = Fail(m.fs)
    <3>1. r.fs = s
      BY <2>1, <2>2, OkFail
    <3> QED BY <3>1
  <2>3. CASE r = Store(m.fs, i, c) /\ i # Nil /\ m.fs.inode[i].type = File /\ ~(Len(c) > MaxFile)
    <3>1. i = R(s, path) /\ s.inode[i].type = File /\ i # Nil /\ Len(c) <= MaxFile
      BY <1>4, <1>b, <2>1, <2>3
    <3>2. i \in Allocated(s)
      BY <3>1, FilePath
    <3>3. PICK q \in AbsPath : R(s, q) = i /\ q \in DOMAIN View(s) /\ View(s)[q] = FileNode(ReadFile(s, i))
      BY <3>1, FilePath
    <3>4. ViewOK(r.fs) /\ View(r.fs) = PutNode(View(s), q, FileNode(IF r.ok THEN c ELSE << >>))
      BY <2>1, <2>3, <3>1, <3>2, <3>3, StoreViews
    <3>5. Keeping(View(s), View(r.fs), q, {c, << >>})
      <4>1. (IF r.ok THEN c ELSE << >>) \in {c, << >>}
        OBVIOUS
      <4> QED BY <3>4, <4>1, Zenon DEF Keeping
    <3> QED BY <1>8, <3>1, <3>3, <3>4, <3>5
  <2> QED BY <1>5, <2>2, <2>3
<1>9. CASE R(s, path) = Nil
  <2>1. m = CreateInode(s, Root, path, File)
    BY <1>3, <1>9 DEF made, R
  <2>2. /\ ViewOK(m.fs)
        /\ ~m.ok => View(m.fs) = View(s)
        /\ m.ok => \E q : Placed(s, m.fs, q, FileNode(<< >>)) /\ R(m.fs, q) = R(m.fs, path)
    BY <1>7, <2>1, CreateViews, BlockNat
  <2>3. CASE ~m.ok
    <3>1. r.fs = m.fs
      BY <1>5, <2>3, OkFail
    <3> QED BY <2>2, <2>3, <3>1
  <2>4. CASE m.ok
    <3>1. PICK q : Placed(s, m.fs, q, FileNode(<< >>)) /\ R(m.fs, q) = i
      BY <1>4, <2>2, <2>4
    <3>2. Vacant(View(s), q) /\ q \in AbsPath /\ View(m.fs) = PutNode(View(s), q, FileNode(<< >>))
      BY <3>1 DEF Placed, Vacant
    <3>3. CASE r = Fail(m.fs)
      <4>1. r.fs = m.fs
        BY <3>3, OkFail
      <4>2. Keeping(View(s), View(m.fs), q, {c, << >>})
        BY <3>2 DEF Keeping
      <4> QED BY <1>9, <2>2, <3>2, <4>1, <4>2
    <3>4. CASE r = Store(m.fs, i, c) /\ i # Nil /\ m.fs.inode[i].type = File /\ ~(Len(c) > MaxFile)
      <4>1. Len(c) <= MaxFile /\ i \in Allocated(m.fs)
        <5>1. R(m.fs, path) = i /\ i # Nil /\ m.fs.inode[i].type = File
          BY <1>4, <3>4
        <5>2. i \in Allocated(m.fs)
          BY <2>2, <5>1, FilePath
        <5> QED BY <1>b, <3>4, <5>2
      <4>2. ViewOK(r.fs) /\ View(r.fs) = PutNode(View(m.fs), q, FileNode(IF r.ok THEN c ELSE << >>))
        BY <2>2, <3>1, <3>2, <3>4, <4>1, StoreViews
      <4>3. \A V, x, y : PutNode(PutNode(V, q, x), q, y) = PutNode(V, q, y)
        BY DEF PutNode
      <4>4. Keeping(View(s), View(r.fs), q, {c, << >>})
        BY <3>2, <4>2, <4>3 DEF Keeping
      <4> QED BY <1>9, <3>2, <4>2, <4>4
    <3> QED BY <1>5, <3>3, <3>4
  <2> QED BY <2>3, <2>4
<1> QED BY <1>8, <1>9, Zenon

LEMMA AppendViews ==
  ASSUME NEW s, ViewOK(s), NEW path \in Seq(PathNames), path # << >>, Depth(path) <= MaxDepth, NEW c \in Seq(Nat),
         Small(AppendFile(s, Root, path, c).fs)
  PROVE  LET t == AppendFile(s, Root, path, c).fs
         IN  /\ ViewOK(t)
             /\ \/ View(t) = View(s)
                \/ \E q \in AbsPath :
                     \/ Vacant(View(s), q) /\ Keeping(View(s), View(t), q, {c, << >>})
                     \/ /\ q \in DOMAIN View(s) /\ View(s)[q] # DirNode
                        /\ Keeping(View(s), View(t), q, {View(s)[q].bytes \o c, << >>})
<1> DEFINE ino == Resolve(s, Root, path)
           old == ReadFile(s, ino)
<1>1. PICK r : r = AppendFile(s, Root, path, c)
  OBVIOUS
<1>2. r = IF ino = Nil THEN WriteFile(s, Root, path, c)
          ELSE IF s.inode[ino].type # File \/ s.inode[ino].size + Len(c) > MaxFile THEN Fail(s)
          ELSE WriteFile(s, Root, path, old \o c)
  BY <1>1, Zenon DEF AppendFile
<1>3. PICK i : i = ino /\ i = R(s, path)
  BY DEF R
<1>4. PICK o : o = old /\ o = ReadFile(s, i)
  BY <1>3
<1> HIDE DEF ino, old
<1>5. CASE i = Nil /\ r = WriteFile(s, Root, path, c)
  BY <1>1, <1>3, <1>5, WriteViews
<1>6. CASE r = Fail(s)
  BY <1>1, <1>6, OkFail
<1>7. CASE i # Nil /\ s.inode[i].type = File /\ r = WriteFile(s, Root, path, o \o c)
  <2>1. i \in Allocated(s) /\ FsOK(s)
    BY <1>3, <1>7, FilePath DEF ViewOK
  <2>2. PICK S : o \o c \in Seq(S)
    BY <1>4, <2>1, LongerFile
  <2>a. PICK d \in Seq(S) : d = o \o c
    BY <2>2
  <2>b. PICK t : t = r.fs /\ t = WriteFile(s, Root, path, d).fs /\ Small(t)
    BY <1>1, <1>7, <2>a
  <2>c. /\ ViewOK(t)
        /\ \/ View(t) = View(s)
           \/ \E q \in AbsPath :
                /\ Keeping(View(s), View(t), q, {d, << >>})
                /\ IF R(s, path) = Nil THEN Vacant(View(s), q)
                   ELSE q \in DOMAIN View(s) /\ View(s)[q] = FileNode(ReadFile(s, R(s, path)))
    BY <2>b, WriteViews
  <2>d. R(s, path) = i /\ i # Nil /\ o = ReadFile(s, i)
    BY <1>3, <1>4, <1>7
  <2>3. \/ View(r.fs) = View(s)
        \/ \E q \in AbsPath : /\ Keeping(View(s), View(r.fs), q, {o \o c, << >>})
                              /\ q \in DOMAIN View(s) /\ View(s)[q] = FileNode(o)
    <3>1. CASE View(t) = View(s)
      BY <2>b, <3>1
    <3>2. ASSUME NEW q \in AbsPath, Keeping(View(s), View(t), q, {d, << >>}),
                 IF R(s, path) = Nil THEN Vacant(View(s), q)
                 ELSE q \in DOMAIN View(s) /\ View(s)[q] = FileNode(ReadFile(s, R(s, path)))
          PROVE  /\ Keeping(View(s), View(r.fs), q, {o \o c, << >>})
                 /\ q \in DOMAIN View(s) /\ View(s)[q] = FileNode(o)
      <4>1. q \in DOMAIN View(s) /\ View(s)[q] = FileNode(o)
        BY <2>d, <3>2
      <4> QED BY <2>a, <2>b, <3>2, <4>1
    <3> QED BY <2>c, <3>1, <3>2
  <2>4. ViewOK(r.fs)
    BY <2>b, <2>c
  <2>5. FileNode(o) # DirNode /\ FileNode(o).bytes = o
    BY DEF FileNode, DirNode
  <2> QED BY <1>1, <2>3, <2>4, <2>5
<1> QED BY <1>2, <1>3, <1>4, <1>5, <1>6, <1>7, Zenon

-----------------------------------------------------------------------------
(* remove_file as its callers see it, and every operation.                   *)

LEMMA RemoveViews ==
  ASSUME NEW s, ViewOK(s), NEW path \in Seq(PathNames), path # << >>, Depth(path) <= MaxDepth, NEW recursive
  PROVE  LET t == RemoveFile(s, Root, path, recursive).fs
         IN  /\ ViewOK(t)
             /\ \/ View(t) = View(s)
                \/ \E q \in AbsPath : /\ q \in DOMAIN View(s)
                                      /\ View(t) = Without(View(s), q)
<1>1. PICK r : r = RemoveFile(s, Root, path, recursive)
  OBVIOUS
<1>2. FsOK(s) /\ OneLink(s) /\ Linked(s)
  BY DEF ViewOK, FsOK, TreeOK
<1>3. CASE r = Fail(s)
  <2>1. r.fs = s
    BY <1>3, OkFail
  <2> QED BY <1>1, <2>1
<1>4. ASSUME NEW p, p = Parent(s, Root, path), NEW nm, nm = Last(path), NEW k, NEW G, Removal(s, r, p, k, nm, G)
      PROVE  /\ ViewOK(r.fs)
             /\ \E q \in AbsPath : /\ q \in DOMAIN View(s)
                                   /\ View(r.fs) = Without(View(s), q)
  <2>1. PICK top : /\ nm \in Names /\ LinkAt(s, p, k) /\ Ent(s, p, k).name = nm /\ top = Ent(s, p, k).ino
                   /\ Below(s, top, G) /\ IsCleared(s, Cleared(s, G), G)
    BY <1>4 DEF Removal
  <2>2. PICK t : t = Flush(DirRemove(Cleared(s, G), p, nm)) /\ t = r.fs
    BY <1>4, OkFail DEF Removal
  <2>3. FsOK(t) /\ Pruned(s, t, G, p, k) /\ \A i \in Allocated(s) : i \notin G /\ i # p => Untouched(s, t, i)
    BY <1>2, <2>1, <2>2, UnlinkKeeps
  <2>4. p \in Dirs(s) /\ p \in Ino /\ p # Nil
    BY <2>1, BlockNat DEF LinkAt, Dirs
  <2>5. top \in Ino /\ top # Nil /\ Leads(s, p, nm, top)
    BY <1>2, <2>1, BlockNat DEF Linked, Leads, Allocated
  <2>6. PICK fr : fr = Front(path) /\ fr \in Seq(PathNames) /\ R(s, fr) = p
    BY <1>4, ResolveLast DEF R, Parent
  <2>7. PICK w \in Seq(Names) : R(s, w) = p /\ Len(w) <= Depth(fr)
    BY <1>2, <2>4, <2>6, Straight
  <2>8. PICK q \in Seq(Names) : q = Append(w, nm) /\ q # << >> /\ Len(q) = Len(w) + 1 /\ Front(q) = w /\ Last(q) = nm
    BY <2>1, AppendIs
  <2>9. q \in AbsPath
    <3>1. Depth(path) \in Nat /\ Depth(fr) \in Nat /\ Depth(path) = Depth(fr) + 1
      BY <1>4, <2>1, <2>6, DepthLast, NamesAre
    <3>2. MaxDepth \in Nat /\ Len(w) \in Nat
      BY DepthAssumption
    <3>3. Len(q) <= MaxDepth
      BY <2>7, <2>8, <3>1, <3>2
    <3> QED BY <2>8, <3>3, AbsPathIs
  <2>10. q \in DOMAIN View(s)
    <3>1. R(s, q) = top <=> Leads(s, R(s, Front(q)), Last(q), top)
      BY <1>2, <2>5, <2>8, WalkLast
    <3>2. R(s, q) = top
      BY <2>5, <2>7, <2>8, <3>1
    <3> QED BY <2>5, <2>9, <3>2, ViewIs
  <2>11. LostLeads(s, t, p, nm, G)
    BY <1>2, <2>1, <2>3, PrunedLeads
  <2>12. \A x \in Seq(Names) : R(t, x) = IF IsPrefix(q, x) THEN Nil ELSE R(s, x)
    BY <1>2, <2>1, <2>3, <2>4, <2>5, <2>7, <2>8, <2>11, WalkLostLeads
  <2>13. ASSUME NEW i \in Allocated(s), i \notin G PROVE NodeOf(t, i) = NodeOf(s, i) /\ (t.inode[i].type = File => Filled(t, i))
    <3>1. CASE i = p
      <4>1. s.inode[i].type = Dir /\ t.inode[i].type = Dir
        BY <2>3, <2>4, <2>13, <3>1 DEF Pruned, Dirs
      <4> QED BY <4>1, NodeKept
    <3>2. CASE i # p
      BY <2>3, <2>13, <3>2, NodeKept
    <3> QED BY <3>1, <3>2
  <2>14. ASSUME NEW x \in Seq(Names), R(s, x) # Nil, ~IsPrefix(q, x) PROVE NodeOf(t, R(s, x)) = NodeOf(s, R(s, x))
    <3>1. R(s, x) \in Allocated(s)
      BY <1>2, <2>14, NamesSeq, WalkIn
    <3>2. R(s, x) \notin G
      BY <1>2, <2>1, <2>4, <2>5, <2>7, <2>8, <2>14, WalkBelow
    <3> QED BY <2>13, <3>1, <3>2
  <2>15. View(t) = Without(View(s), q)
    <3>1. \A x \in Seq(Names) : R(s, x) # Nil /\ ~IsPrefix(q, x) => NodeOf(t, R(s, x)) = NodeOf(s, R(s, x))
      BY <2>14
    <3>2. Cut(s, t, q)
      BY <2>12, <3>1 DEF Cut
    <3> QED BY <3>2, ViewCut
  <2>16. ViewOK(t)
    <3> SUFFICES ASSUME NEW i \in Allocated(t), t.inode[i].type = File PROVE Filled(t, i)
      BY <2>3 DEF ViewOK, AllFilled
    <3>1. i \in Allocated(s) /\ i \notin G
      BY <2>3 DEF Pruned, Allocated
    <3> QED BY <2>13, <3>1
  <2> QED BY <2>2, <2>9, <2>10, <2>15, <2>16
<1>5. r = Fail(s) \/ \E k, G : Removal(s, r, Parent(s, Root, path), k, Last(path), G)
  BY <1>1, <1>2, RemoveCases
<1>6. CASE \E k, G : Removal(s, r, Parent(s, Root, path), k, Last(path), G)
  BY <1>1, <1>4, <1>6
<1> QED BY <1>3, <1>5, <1>6

(* The abstract store's steps, on the view. *)
Seen(V, W) ==
  \/ W = V
  \/ \E q \in AbsPath :
       \/ Vacant(V, q) /\ \E x \in {DirNode, FileNode(<< >>)} : W = PutNode(V, q, x)
       \/ q \in DOMAIN V /\ W = Without(V, q)
       \/ \E c \in Contents : (Vacant(V, q) \/ (q \in DOMAIN V /\ V[q] # DirNode)) /\ Keeping(V, W, q, {c, << >>})
       \/ \E c \in Contents : q \in DOMAIN V /\ V[q] # DirNode /\ Keeping(V, W, q, {V[q].bytes \o c, << >>})

LEMMA NextViews ==
  ASSUME ViewOK(fs), Next, Small(fs')
  PROVE  ViewOK(fs') /\ Seen(View(fs), View(fs'))
<1>1. PICK p \in Paths : \/ \E type \in {File, Dir} : Create(p, type)
                         \/ \E c \in Contents : Write(p, c) \/ Extend(p, c)
                         \/ \E recursive \in BOOLEAN : Unlink(p, recursive)
  BY DEF Next
<1>2. p \in Seq(PathNames) /\ p # << >> /\ Depth(p) <= MaxDepth
  BY FsAssumption, DepthAssumption DEF PathNames
<1> DEFINE Goal(t) == ViewOK(t) /\ Seen(View(fs), View(t))
<1>3. PICK t : t = fs'
  OBVIOUS
<1>4. SUFFICES Goal(t)
  BY <1>3
<1>5. ASSUME NEW type \in {File, Dir}, Create(p, type) PROVE Goal(t)
  <2>1. PICK r : r = CreateInode(fs, Root, p, type) /\ t = r.fs /\ Small(r.fs)
    BY <1>3, <1>5 DEF Create
  <2>2. /\ ViewOK(t)
        /\ ~r.ok => View(t) = View(fs)
        /\ r.ok => \E q : Placed(fs, t, q, IF type = Dir THEN DirNode ELSE FileNode(<< >>)) /\ R(t, q) = R(t, p)
    BY <1>2, <2>1, CreateViews
  <2> QED BY <2>2 DEF Placed, Vacant, Seen
<1>6. ASSUME NEW c \in Contents, Write(p, c) PROVE Goal(t)
  <2>1. t = WriteFile(fs, Root, p, c).fs /\ Small(t) /\ c \in Seq(Nat)
    BY <1>3, <1>6, FsAssumption DEF Write
  <2>2. /\ ViewOK(t)
        /\ \/ View(t) = View(fs)
           \/ \E q \in AbsPath :
                /\ Keeping(View(fs), View(t), q, {c, << >>})
                /\ IF R(fs, p) = Nil THEN Vacant(View(fs), q)
                   ELSE q \in DOMAIN View(fs) /\ View(fs)[q] = FileNode(ReadFile(fs, R(fs, p)))
    BY <1>2, <2>1, WriteViews
  <2>3. \A x : FileNode(x) # DirNode
    BY DEF FileNode, DirNode
  <2> QED BY <2>2, <2>3 DEF Seen
<1>7. ASSUME NEW c \in Contents, Extend(p, c) PROVE Goal(t)
  <2>1. t = AppendFile(fs, Root, p, c).fs /\ Small(t) /\ c \in Seq(Nat)
    BY <1>3, <1>7, FsAssumption DEF Extend
  <2>2. /\ ViewOK(t)
        /\ \/ View(t) = View(fs)
           \/ \E q \in AbsPath :
                \/ Vacant(View(fs), q) /\ Keeping(View(fs), View(t), q, {c, << >>})
                \/ /\ q \in DOMAIN View(fs) /\ View(fs)[q] # DirNode
                   /\ Keeping(View(fs), View(t), q, {View(fs)[q].bytes \o c, << >>})
    BY <1>2, <2>1, AppendViews
  <2> QED BY <2>2 DEF Seen
<1>8. ASSUME NEW recursive \in BOOLEAN, Unlink(p, recursive) PROVE Goal(t)
  <2>1. t = RemoveFile(fs, Root, p, recursive).fs
    BY <1>3, <1>8 DEF Unlink
  <2>2. /\ ViewOK(t)
        /\ \/ View(t) = View(fs)
           \/ \E q \in AbsPath : /\ q \in DOMAIN View(fs)
                                 /\ View(t) = Without(View(fs), q)
    BY <1>2, <2>1, RemoveViews
  <2> QED BY <2>2 DEF Seen
<1> QED BY <1>1, <1>5, <1>6, <1>7, <1>8

LEMMA SeenSteps ==
  ASSUME Seen(tree, tree')
  PROVE  [Abs!Next]_tree
<1>1. DirNode = Abs!Dir /\ \A c : FileNode(c) = Abs!File(c)
  BY DEF DirNode, FileNode, Abs!Dir, Abs!File
<1>2. \A q, x : Abs!Put(q, x) = PutNode(tree, q, x)
  BY DEF Abs!Put, PutNode
<1>3. \A q : Vacant(tree, q) => Abs!Absent(q)
  BY <1>1 DEF Vacant, Abs!Absent, Abs!IsDir, Abs!Front, Front
<1>4. \A q : Abs!IsFile(q) <=> q \in DOMAIN tree /\ tree[q] # DirNode
  BY <1>1 DEF Abs!IsFile
<1>5. ASSUME NEW q \in AbsPath, Vacant(tree, q), NEW x \in {DirNode, FileNode(<< >>)}, tree' = PutNode(tree, q, x)
      PROVE  Abs!Create(q)
  BY <1>1, <1>2, <1>3, <1>5 DEF Abs!Create
<1>6. ASSUME NEW q \in AbsPath, q \in DOMAIN tree, tree' = Without(tree, q)
      PROVE  Abs!Delete(q)
  BY <1>6 DEF Abs!Delete, Abs!IsPrefix, IsPrefix, Without
<1>7. ASSUME NEW q \in AbsPath, NEW c \in Contents, Vacant(tree, q) \/ (q \in DOMAIN tree /\ tree[q] # DirNode),
             Keeping(tree, tree', q, {c, << >>})
      PROVE  Abs!Write(q, c)
  BY <1>1, <1>2, <1>3, <1>4, <1>7 DEF Abs!Write, Keeping
<1>8. ASSUME NEW q \in AbsPath, NEW c \in Contents, q \in DOMAIN tree /\ tree[q] # DirNode,
             Keeping(tree, tree', q, {tree[q].bytes \o c, << >>})
      PROVE  Abs!Extend(q, c)
  BY <1>1, <1>2, <1>4, <1>8 DEF Abs!Extend, Keeping
<1> QED BY <1>5, <1>6, <1>7, <1>8 DEF Seen, Abs!Next

-----------------------------------------------------------------------------
(* The first boot: there is room for the system directories, and they are    *)
(* all that callers see.                                                     *)

LEMMA DirAddRoom ==
  ASSUME NEW s, Shape(s), Sectors(s), NEW d \in Dirs(s), NEW e, Alloc(s, 0) # Nil,
         s.inode[d].size < MaxDirect * DePerBlk
  PROVE  DirAdd(s, d, e).ok
<1> DEFINE in == s.inode[d]
           gaps == {k \in Slots(in) : Entry(s, in, k).ino = 0 /\ Entry(s, in, k).name = ""}
           n == in.size \div DePerBlk
           u == GrownOf(s, d, n, Alloc(s, 0))
<1>1. DirAdd(s, d, e) = IF in.type # Dir THEN Fail(s) ELSE IF gaps # {} THEN Ok(PutEntry(s, in, Min(gaps), e)) ELSE DirAppend(s, d, e)
  BY Zenon DEF DirAdd
<1>2. DirAppend(s, d, e) =
        IF n >= MaxBlocks THEN Fail(s)
        ELSE IF in.blocks[n] # Nil THEN Ok(Flush(PutEntry([s EXCEPT !.inode[d].size = in.size + 1], in, in.size, e)))
        ELSE IF Alloc(s, 0) = Nil THEN Fail(s)
        ELSE Ok(Flush(PutEntry([u EXCEPT !.inode[d].size = in.size + 1], u.inode[d], in.size, e)))
  BY DirAppendIs, Zenon
<1>3. in.type = Dir /\ in.size \in Nat
  BY DirsAre DEF Dirs
<1>4. n < MaxDirect /\ n \in Nat /\ MaxDirect <= MaxBlocks
  <2>1. DePerBlk \in Nat \ {0} /\ MaxDirect \in Nat
    BY Sizes
  <2>2. n < MaxDirect /\ n \in Nat
    BY <1>3, <2>1, DivMod, DivBelow
  <2> QED BY <2>2, Sizes
<1> HIDE DEF in, gaps, n, u
<1>5. ~(n >= MaxBlocks)
  BY <1>4, Sizes
<1> QED BY <1>1, <1>2, <1>3, <1>5, OkFail

LEMMA SoleName ==
  ASSUME NEW S, NEW x \in S
  PROVE  <<x>> \in Seq(S) /\ <<x>> # << >> /\ Len(<<x>>) = 1 /\ Front(<<x>>) = << >> /\ Last(<<x>>) = x
<1>1. <<x>> \in Seq(S) /\ <<x>> # << >> /\ Len(<<x>>) = 1 /\ <<x>>[1] = x
  OBVIOUS
<1>2. Front(<<x>>) = << >>
  BY <1>1 DEF Front
<1>3. Last(<<x>>) = x
  BY <1>1 DEF Last
<1> QED BY <1>1, <1>2, <1>3

(* From s to t two blocks and one inode at most were taken. *)
Spent(s, t) == \E a, b \in Block, i \in Ino : t.bm \subseteq s.bm \cup {a, b} /\ Allocated(t) \subseteq Allocated(s) \cup {i}
LEMMA CreateRoom ==
  ASSUME NEW s, FsOK(s), Cardinality(s.bm) + 2 <= NBlocks, NEW i0 \in Ino, i0 \notin Allocated(s),
         s.inode[Root].size < MaxDirect * DePerBlk, NEW nm \in Names, R(s, <<nm>>) = Nil
  PROVE  LET r == CreateInode(s, Root, <<nm>>, Dir) IN r.ok /\ Spent(s, r.fs)
<1> DEFINE parent == Parent(s, Root, <<nm>>)
           frees == {i \in Ino : s.inode[i].type = Free}
           m == Made(s, Min(frees), parent, Dir)
           added == DirAdd(m, parent, DirEntry(Min(frees), Last(<<nm>>), Dir))
           r == CreateInode(s, Root, <<nm>>, Dir)
<1>1. r = IF parent = Nil \/ Resolve(s, Root, <<nm>>) # Nil \/ frees = {} THEN Fail(s)
          ELSE IF Dir = Dir /\ Alloc(s, 0) = Nil THEN Fail(s)
          ELSE IF added.ok THEN added ELSE Fail(RolledBack(m, Min(frees)))
  BY CreateIs, Zenon
<1>2. Shape(s) /\ Sectors(s) /\ Own(s) /\ Root \in Dirs(s)
  BY DEF FsOK, TreeOK, Dots
<1>3. parent = Root /\ Root # Nil /\ Resolve(s, Root, <<nm>>) = Nil
  <2>1. Front(<<nm>>) = << >>
    BY SoleName
  <2>2. Resolve(s, Root, << >>) = Root
    BY WalkEmpty DEF R
  <2> QED BY <2>1, <2>2, BlockNat DEF R, Parent
<1>4. PICK i \in Ino : i = Min(frees) /\ i \notin Allocated(s) /\ frees # {}
  <2>1. frees \in SUBSET Nat /\ frees # {}
    BY BlockNat DEF Allocated
  <2>2. Min(frees) \in frees
    BY <2>1, MinIsLeast
  <2> QED BY <2>1, <2>2 DEF Allocated
<1>5. s.bm \subseteq Block /\ Cardinality(s.bm) \in Nat /\ IsFiniteSet(s.bm) /\ NBlocks \in Nat
  <2>1. IsFiniteSet(Block) /\ NBlocks \in Nat
    BY Sizes, FiniteDisk
  <2>2. s.bm \subseteq Block
    BY <1>2, ShapeParts
  <2> QED BY <2>1, <2>2, FS_Subset, FS_CardinalityType
<1>6. PICK new \in Block : new = Alloc(s, 0)
  <2>1. Alloc(s, 0) # Nil
    BY <1>5, AllocSome
  <2> QED BY <2>1, AllocTakes
<1>7. PICK u : u = m /\ IsMade(s, u, i, Root, Dir) /\ u.bm = s.bm \cup {new} /\ u.inode[Root] = s.inode[Root]
  <2>1. PICK in : in = NewDirInode(new) /\ in \in Inodes
    BY <1>2, <1>6, NewDirIs DEF Dirs
  <2>2. m = Taken(s, i, in, new, NewDir(i, Root))
    BY <1>3, <1>4, <1>6, <2>1 DEF Made
  <2>3. m = Made(s, i, Root, Dir)
    BY <1>3, <1>4
  <2> HIDE DEF m
  <2>4. m.bm = s.bm \cup {new} /\ m.inode = [s.inode EXCEPT ![i] = in]
    BY <1>2, <1>6, <2>1, <2>2, TakenIs DEF IsTaken
  <2>5. Alloc(s, 0) # Nil /\ Root \in Ino
    BY <1>6, BlockNat
  <2>6. IsMade(s, m, i, Root, Dir)
    BY <1>2, <1>4, <2>3, <2>5, MadeIs
  <2>7. i # Root
    BY <1>2, <1>4, DirsAre
  <2>8. m.inode[Root] = s.inode[Root]
    BY <2>4, <2>5, <2>7
  <2> QED BY <2>4, <2>6, <2>8
<1>8. PICK e : e = DirEntry(Min(frees), Last(<<nm>>), Dir)
  OBVIOUS
<1>9. added = DirAdd(u, Root, e)
  BY <1>3, <1>7, <1>8
<1>10. Shape(u) /\ Sectors(u) /\ Root \in Dirs(u) /\ Others(s, u, i)
  BY <1>2, <1>7 DEF IsMade, Dirs
<1>11. Alloc(u, 0) # Nil
  <2>1. u.bm \subseteq Block /\ Cardinality(u.bm) <= Cardinality(s.bm) + 1 /\ Cardinality(u.bm) \in Nat
    <3>1. Cardinality(s.bm \cup {new}) <= Cardinality(s.bm) + 1 /\ Cardinality(s.bm \cup {new}) \in Nat
      <4>1. Cardinality(s.bm \cup {new}) = IF new \in s.bm THEN Cardinality(s.bm) ELSE Cardinality(s.bm) + 1
        BY <1>5, FS_AddElement
      <4> QED BY <1>5, <4>1
    <3> QED BY <1>5, <1>7, <3>1
  <2> QED BY <1>5, <2>1, AllocSome
<1>12. added.ok
  BY <1>7, <1>9, <1>10, <1>11, DirAddRoom
<1>13. r = added
  <2> HIDE DEF r, added, parent, frees, m
  <2> QED BY <1>1, <1>3, <1>4, <1>6, <1>12, BlockNat
<1>14. GrowsOne(u, added.fs, Root)
  BY <1>9, <1>10, BlockNat, DirAddGrows
<1>15. Spent(s, added.fs)
  <2>1. PICK v : v = added.fs
    OBVIOUS
  <2>2. PICK b \in Block : v.bm \subseteq u.bm \cup {b}
    BY <1>14, <2>1 DEF GrowsOne
  <2>3. v.bm \subseteq s.bm \cup {new, b}
    BY <1>7, <2>2
  <2>4. ASSUME NEW j \in Allocated(v), j # i PROVE j \in Allocated(s)
    <3>1. j \in Ino /\ v.inode[j].type = u.inode[j].type
      BY <1>14, <2>1, <2>4 DEF GrowsOne, Allocated
    <3>2. u.inode[j].type = s.inode[j].type
      BY <1>10, <2>4, <3>1 DEF Others
    <3> QED BY <2>4, <3>1, <3>2 DEF Allocated
  <2> QED BY <2>1, <2>3, <2>4 DEF Spent
<1> QED BY <1>12, <1>13, <1>15

(* The system directories up to the n-th, and the room they have left. *)
Booted(n) == [p \in {<<SysDirs[i]>> : i \in 1..n} |-> DirNode]
BootOK(r, n) ==
  /\ r.ok /\ ViewOK(r.fs) /\ UpTo(r.fs, n + 2) /\ View(r.fs) = Booted(n)
  /\ Cardinality(r.fs.bm) <= 2 * n + 1 /\ Cardinality(Allocated(r.fs)) <= n + 1

LEMMA SoleAbsPath == \A nm \in Names : <<nm>> \in AbsPath
<1>1. \A nm \in Names : <<nm>> \in Seq(Names) /\ <<nm>> # << >> /\ Len(<<nm>>) = 1
  BY SoleName
<1>2. 1 <= MaxDepth
  BY DepthAssumption
<1> QED BY <1>1, <1>2, AbsPathIs

LEMMA BootedNext ==
  ASSUME NEW n \in Nat \ {0}
  PROVE  /\ <<SysDirs[n]>> \in DOMAIN Booted(n - 1) => Booted(n) = Booted(n - 1)
         /\ PutNode(Booted(n - 1), <<SysDirs[n]>>, DirNode) = Booted(n)
<1> DEFINE D(m) == {<<SysDirs[i]>> : i \in 1..m}
<1>1. 1..n = (1..n-1) \cup {n}
  OBVIOUS
<1>2. D(n) = D(n - 1) \cup {<<SysDirs[n]>>}
  BY <1>1
<1>3. \A m : Booted(m) = [p \in D(m) |-> DirNode]
  BY DEF Booted
<1> HIDE DEF D
<1>4. DOMAIN Booted(n - 1) = D(n - 1) /\ \A p \in D(n - 1) : Booted(n - 1)[p] = DirNode
  BY <1>3
<1>5. ASSUME <<SysDirs[n]>> \in D(n - 1) PROVE Booted(n) = Booted(n - 1)
  <2>1. D(n) = D(n - 1)
    BY <1>2, <1>5
  <2> QED BY <1>3, <2>1
<1>6. PutNode(Booted(n - 1), <<SysDirs[n]>>, DirNode) = [p \in D(n) |-> DirNode]
  BY <1>2, <1>4 DEF PutNode
<1> QED BY <1>3, <1>4, <1>5, <1>6

LEMMA SpentCounts ==
  ASSUME NEW s, NEW t, Shape(s), Spent(s, t)
  PROVE  Cardinality(t.bm) <= Cardinality(s.bm) + 2 /\ Cardinality(Allocated(t)) <= Cardinality(Allocated(s)) + 1
<1>1. PICK a \in Block, b \in Block, i \in Ino : t.bm \subseteq s.bm \cup {a, b} /\ Allocated(t) \subseteq Allocated(s) \cup {i}
  BY DEF Spent
<1>3. ASSUME NEW S, IsFiniteSet(S), NEW T, NEW x, T \subseteq S \cup {x}
      PROVE  Cardinality(T) <= Cardinality(S) + 1 /\ Cardinality(T) \in Nat /\ Cardinality(S) \in Nat
  <2>1. IsFiniteSet(S \cup {x}) /\ Cardinality(S \cup {x}) = IF x \in S THEN Cardinality(S) ELSE Cardinality(S) + 1
    BY <1>3, FS_AddElement
  <2>2. Cardinality(S) \in Nat
    BY <1>3, FS_CardinalityType
  <2>3. IsFiniteSet(T) /\ Cardinality(T) <= Cardinality(S \cup {x}) /\ Cardinality(T) \in Nat
    BY <1>3, <2>1, FS_Subset, FS_CardinalityType
  <2> QED BY <2>1, <2>2, <2>3
<1>2. PICK A : A = s.bm \cup {a}
  OBVIOUS
<1>4. IsFiniteSet(s.bm) /\ IsFiniteSet(Allocated(s)) /\ IsFiniteSet(A)
  <2>1. s.bm \subseteq Block /\ A \subseteq Block
    BY <1>2, ShapeParts
  <2>2. Allocated(s) \subseteq Ino
    BY DEF Allocated
  <2> QED BY <2>1, <2>2, FiniteDisk
<1>5. Cardinality(A) <= Cardinality(s.bm) + 1 /\ Cardinality(A) \in Nat /\ Cardinality(s.bm) \in Nat
  BY <1>2, <1>3, <1>4
<1>6. t.bm \subseteq A \cup {b}
  BY <1>1, <1>2
<1>7. Cardinality(t.bm) <= Cardinality(A) + 1 /\ Cardinality(t.bm) \in Nat
  BY <1>3, <1>4, <1>6
<1>8. Cardinality(Allocated(t)) <= Cardinality(Allocated(s)) + 1
  BY <1>1, <1>3, <1>4
<1> QED BY <1>5, <1>7, <1>8

LEMMA BootStep ==
  ASSUME NEW n \in 1..Len(SysDirs), NEW r, BootOK(r, n - 1)
  PROVE  BootOK(EnsureNext(r, SysDirs[n]), n)
<1>1. PICK nm \in Names : nm = SysDirs[n]
  BY SysDirsAre
<1>2. PICK path : path = <<nm>> /\ path \in AbsPath /\ path \in Seq(Names) /\ path # << >> /\ path \in Seq(PathNames) /\ Len(path) = 1
  BY SoleName, SoleAbsPath, NamesSeq
<1>3. n \in Nat \ {0} /\ n <= Len(SysDirs) /\ Len(SysDirs) \in Nat /\ n - 1 \in Nat /\ (n - 1) + 2 = n + 1 /\ (n - 1) + 1 = n
  BY SysDirsAre
<1>4. PICK s : s = r.fs /\ ViewOK(s) /\ FsOK(s) /\ UpTo(s, n + 1) /\ View(s) = Booted(n - 1)
                /\ Cardinality(s.bm) <= 2 * (n - 1) + 1 /\ Cardinality(Allocated(s)) <= n /\ r.ok
  BY <1>3 DEF BootOK, ViewOK
<1>5. PICK z : z = EnsureNext(r, nm)
  OBVIOUS
<1>6. z = IF R(s, path) # Nil THEN r ELSE CreateInode(s, Root, path, Dir)
  BY <1>2, <1>4, <1>5 DEF EnsureNext, R
<1>7. FsOK(z.fs) /\ UpTo(z.fs, n + 2)
  BY <1>1, <1>4, <1>5, EnsureStep
<1>8. Shape(s) /\ Root \in Dirs(s)
  BY <1>4 DEF FsOK, TreeOK, Dots
<1>9. Cardinality(s.bm) \in Nat /\ Cardinality(Allocated(s)) \in Nat
  <2>1. s.bm \subseteq Block
    BY <1>8, ShapeParts
  <2>2. Allocated(s) \subseteq Ino
    BY DEF Allocated
  <2> QED BY <2>1, <2>2, FiniteDisk
<1>10. CASE R(s, path) # Nil
  <2>1. z = r
    BY <1>6, <1>10
  <2>2. path \in DOMAIN View(s)
    BY <1>2, <1>10, ViewIs
  <2>3. Booted(n) = Booted(n - 1)
    BY <1>1, <1>2, <1>3, <1>4, <2>2, BootedNext
  <2>4. Cardinality(s.bm) <= 2 * n + 1 /\ Cardinality(Allocated(s)) <= n + 1
    BY <1>3, <1>4, <1>9
  <2>5. BootOK(z, n)
    BY <1>4, <1>7, <2>1, <2>3, <2>4 DEF BootOK
  <2> QED BY <1>1, <1>5, <2>5
<1>11. CASE R(s, path) = Nil
  <2>1. z = CreateInode(s, Root, path, Dir)
    BY <1>6, <1>11
  <2>2. Len(SysDirs) < NIno /\ 2 * Len(SysDirs) < NBlocks /\ NIno \in Nat /\ NBlocks \in Nat
    BY RoomAssumption, Sizes
  <2>3. \E i \in Ino : i \notin Allocated(s)
    <3> SUFFICES ASSUME Ino \subseteq Allocated(s) PROVE FALSE
      OBVIOUS
    <3>1. Allocated(s) = Ino
      BY DEF Allocated
    <3>2. Cardinality(Ino) = NIno
      BY Sizes, FiniteDisk
    <3> QED BY <1>3, <1>4, <2>2, <3>1, <3>2
  <2>4. s.inode[Root].size < MaxDirect * DePerBlk
    <3>1. s.inode[Root].size \in 0..n+1
      BY <1>4, <1>8 DEF UpTo
    <3>2. MaxDirect * DePerBlk \in Nat /\ n + 2 <= MaxDirect * DePerBlk
      BY <1>3, SysDirsAre
    <3> QED BY <1>3, <3>1, <3>2
  <2>5. Cardinality(s.bm) + 2 <= NBlocks
    BY <1>3, <1>4, <1>9, <2>2
  <2>6. z.ok /\ Spent(s, z.fs)
    BY <1>2, <1>4, <1>11, <2>1, <2>3, <2>4, <2>5, CreateRoom
  <2>7. Small(z.fs)
    BY <1>7, SmallOf
  <2>8. Depth(path) <= MaxDepth
    <3>1. Front(path) = << >> /\ Last(path) = nm /\ nm # ".."
      BY <1>2, SoleName, NamesAre
    <3>2. Depth(<< >>) = 0
      <4>1. {i \in DOMAIN << >> : << >>[i] # ".."} = {}
        OBVIOUS
      <4> QED BY <4>1, FS_EmptySet DEF Depth
    <3>3. Depth(path) = 1
      <4>1. Depth(path) = IF Last(path) = ".." THEN Depth(Front(path)) ELSE Depth(Front(path)) + 1
        BY <1>2, DepthLast
      <4>2. Depth(path) = Depth(<< >>) + 1
        BY <3>1, <4>1
      <4> QED BY <3>2, <4>2
    <3> QED BY <3>3, DepthAssumption
  <2>9. ViewOK(z.fs) /\ \E q : Placed(s, z.fs, q, DirNode) /\ R(z.fs, q) = R(z.fs, path)
    BY <1>2, <1>4, <2>1, <2>6, <2>7, <2>8, CreateViews
  <2>10. PICK q : Placed(s, z.fs, q, DirNode) /\ R(z.fs, q) = R(z.fs, path)
    BY <2>9
  <2>11. q \in AbsPath /\ View(z.fs) = PutNode(View(s), q, DirNode)
    BY <2>10 DEF Placed, Vacant
  <2>12. q = path
    <3>1. q \in DOMAIN View(z.fs)
      BY <2>11 DEF PutNode
    <3>2. R(z.fs, q) # Nil
      BY <3>1, ViewIs
    <3>3. q \in Seq(Names)
      BY <2>11, AbsPathIs
    <3> QED BY <1>2, <1>7, <2>10, <3>2, <3>3, OnePath
  <2>13. View(z.fs) = Booted(n)
    BY <1>1, <1>2, <1>3, <1>4, <2>11, <2>12, BootedNext
  <2>14. Cardinality(z.fs.bm) <= Cardinality(s.bm) + 2 /\ Cardinality(Allocated(z.fs)) <= Cardinality(Allocated(s)) + 1
    BY <1>8, <2>6, SpentCounts
  <2>15. Cardinality(z.fs.bm) \in Nat /\ Cardinality(Allocated(z.fs)) \in Nat
    <3>1. z.fs.bm \subseteq Block
      BY <1>7, ShapeParts DEF FsOK
    <3>2. Allocated(z.fs) \subseteq Ino
      BY DEF Allocated
    <3> QED BY <3>1, <3>2, FiniteDisk
  <2>16. Cardinality(z.fs.bm) <= 2 * n + 1 /\ Cardinality(Allocated(z.fs)) <= n + 1
    BY <1>3, <1>4, <1>9, <2>14, <2>15
  <2>17. BootOK(z, n)
    BY <1>7, <2>6, <2>9, <2>13, <2>16 DEF BootOK
  <2> QED BY <1>1, <1>5, <2>17
<1> QED BY <1>10, <1>11

LEMMA BootViews ==
  ASSUME NEW s, BootOK(Ok(s), 0)
  PROVE  LET t == EnsureSystemDirs(s) IN ViewOK(t) /\ View(t) = Booted(Len(SysDirs))
<1>1. PICK L \in Nat : L = Len(SysDirs)
  BY SysDirsAre
<1>2. PICK f : Boots(s, f) /\ EnsureSystemDirs(s) = f[L].fs
  BY <1>1, EnsureIs
<1>3. f[0] = Ok(s) /\ \A n \in 1..L : f[n] = EnsureNext(f[n - 1], SysDirs[n])
  BY <1>1, <1>2 DEF Boots
<1> DEFINE bad == {n \in 0..L : ~BootOK(f[n], n)}
<1>4. bad = {}
  <2> SUFFICES ASSUME bad # {} PROVE FALSE
    OBVIOUS
  <2>1. PICK n \in bad : \A j \in bad : n <= j
    <3>1. bad \in SUBSET Nat
      OBVIOUS
    <3> QED BY <3>1, LeastNumber
  <2>2. BootOK(f[0], 0)
    BY <1>3
  <2>3. n \in 1..L /\ n - 1 \in 0..L
    BY <2>1, <2>2
  <2>4. BootOK(f[n - 1], n - 1)
    BY <2>1, <2>3
  <2>5. BootOK(f[n], n)
    <3> HIDE DEF bad
    <3> QED BY <1>1, <1>3, <2>3, <2>4, BootStep
  <2> QED BY <2>1, <2>5
<1>5. BootOK(f[L], L)
  BY <1>4
<1> QED BY <1>1, <1>2, <1>5 DEF BootOK

LEMMA InitViews ==
  ASSUME Init
  PROVE  ViewOK(fs) /\ View(fs) = Booted(Len(SysDirs))
<1> DEFINE s == Format([b \in Block |-> Stale])
<1>1. FsOK(s) /\ UpTo(s, 2) /\ s.bm = s.dbm /\ s.bm = {0} /\ Allocated(s) = {Root} /\ Dirs(s) = {Root}
      /\ \A d, k : ~LinkAt(s, d, k)
  BY FormatOK
<1>2. fs = EnsureSystemDirs([s EXCEPT !.bm = s.dbm])
  BY Zenon DEF Init, Mount
<1> HIDE DEF s
<1>3. [s EXCEPT !.bm = s.dbm] = s
  <2>1. s = [bm |-> s.bm, dbm |-> s.dbm, inode |-> s.inode, data |-> s.data]
    BY <1>1 DEF FsOK, Shape
  <2> QED BY <1>1, <2>1
<1>4. ViewOK(s)
  <2>1. s.inode[Root].type # File
    BY <1>1, BlockNat DEF Dirs
  <2> QED BY <1>1, <2>1 DEF ViewOK, AllFilled
<1>5. View(s) = Booted(0)
  <2>1. ASSUME NEW p \in AbsPath PROVE R(s, p) = Nil
    <3>1. p \in Seq(Names) /\ p # << >>
      BY <2>1, AbsPathIs
    <3>2. R(s, p) \in Ino \cup {Nil} /\ \A i \in Ino : R(s, p) = i <=> Leads(s, R(s, Front(p)), Last(p), i)
      BY <1>1, <3>1, WalkLast
    <3>3. \A d, nm, i : ~Leads(s, d, nm, i)
      BY <1>1 DEF Leads
    <3> QED BY <3>2, <3>3
  <2>2. PICK V : V = View(s)
    OBVIOUS
  <2>3. DOMAIN V = {} /\ V = [p \in DOMAIN V |-> V[p]]
    BY <2>1, <2>2, ViewIs
  <2>4. V = [p \in {} |-> DirNode]
    BY <2>3
  <2>5. {<<SysDirs[i]>> : i \in 1..0} = {}
    OBVIOUS
  <2> QED BY <2>2, <2>4, <2>5 DEF Booted
<1>6. Cardinality(s.bm) = 1 /\ Cardinality(Allocated(s)) = 1
  BY <1>1, FS_Singleton
<1>7. BootOK(Ok(s), 0)
  <2>1. PICK r : r = Ok(s) /\ r.ok = TRUE /\ r.fs = s
    BY OkFail
  <2>2. UpTo(s, 0 + 2) /\ Cardinality(s.bm) <= 2 * 0 + 1 /\ Cardinality(Allocated(s)) <= 0 + 1
    BY <1>1, <1>6
  <2>3. BootOK(r, 0)
    BY <1>4, <1>5, <2>1, <2>2 DEF BootOK
  <2> QED BY <2>1, <2>3
<1> QED BY <1>2, <1>3, <1>7, BootViews

LEMMA InitSeen == ViewInit => ViewOK(fs) /\ tree = View(fs) /\ Abs!Init
<1> SUFFICES ASSUME Init, tree = View(fs) PROVE ViewOK(fs) /\ Abs!Init
  BY DEF ViewInit
<1>1. ViewOK(fs) /\ View(fs) = Booted(Len(SysDirs))
  BY InitViews
<1>2. DOMAIN SysDirs = 1..Len(SysDirs)
  BY SysDirsAre
<1>3. DirNode = Abs!Dir
  BY DEF DirNode, Abs!Dir
<1>4. Abs!Init <=> tree = [p \in {<<SysDirs[i]>> : i \in DOMAIN SysDirs} |-> Abs!Dir]
  BY Zenon DEF Abs!Init
<1> QED BY <1>1, <1>2, <1>3, <1>4 DEF Booted

ViewInv == ViewOK(fs) /\ tree = View(fs)

(* Every step of the file system is a step of the store.                     *)
LEMMA StepSeen ==
  ASSUME ViewInv, SmallDirs', [ViewNext]_<<fs, tree>>
  PROVE  ViewInv' /\ [Abs!Next]_tree
<1>1. CASE UNCHANGED <<fs, tree>>
  BY <1>1 DEF ViewInv
<1>2. CASE ViewNext
  <2>1. Next /\ tree' = IF fs' = fs THEN tree ELSE View(fs')
    BY <1>2 DEF ViewNext
  <2>2. Small(fs')
    BY DEF SmallDirs, Small, Dirs
  <2>3. ViewOK(fs') /\ Seen(View(fs), View(fs'))
    BY <2>1, <2>2, NextViews DEF ViewInv
  <2>4. tree' = View(fs')
    BY <2>1 DEF ViewInv
  <2>5. Seen(tree, tree')
    BY <2>3, <2>4 DEF ViewInv
  <2>6. [Abs!Next]_tree
    BY <2>5, SeenSteps
  <2> QED BY <2>3, <2>4, <2>6 DEF ViewInv
<1> QED BY <1>1, <1>2

(* cofeufs is the store it promises to be: seen through resolve and read_file *)
(* for every absolute path, every call of create_inode, write_file,           *)
(* append_file or remove_file that changes anything changes at one path what  *)
(* the store says it may and nothing at any other path, and what is read back *)
(* is what was written, as long as no directory outgrows its direct blocks.   *)
THEOREM Implemented == ViewSpec /\ []SmallDirs => Implements
<1>1. ViewInit => ViewInv /\ Abs!Init
  BY InitSeen DEF ViewInv
<1>2. ViewInv /\ SmallDirs' /\ [ViewNext]_<<fs, tree>> => ViewInv' /\ [Abs!Next]_tree
  BY StepSeen
<1> QED BY <1>1, <1>2, PTL DEF ViewSpec, Implements, Abs!Spec

(* With few enough names the directories stay small, so that the hypothesis   *)
(* of Implemented holds by itself.                                            *)
THEOREM FewImplemented == NamesFit => (ViewSpec => Implements)
<1>1. ViewInit => Init
  BY DEF ViewInit
<1>2. [ViewNext]_<<fs, tree>> => [Next]_fs
  BY DEF ViewNext
<1>3. ViewSpec => Spec
  BY <1>1, <1>2, PTL DEF ViewSpec, Spec
<1> QED BY <1>3, FewNames, Implemented, PTL
=============================================================================
