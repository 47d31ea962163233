------------------------------ MODULE FsLemmas ------------------------------
(* Lemmas for FsProofs: the parts of its invariant (Shape, Sectors, Own,     *)
(* TreeOK) and what the operators of Fs do to them: block allocation, the    *)
(* mapping of a file, a directory's slots, a path, a new inode.              *)
EXTENDS Fs, LeastNumbers, FiniteSetTheorems

-----------------------------------------------------------------------------
(* Quotients and remainders.                                                 *)
LEMMA DivMod ==
  ASSUME NEW n \in Nat, NEW d \in Nat \ {0}
  PROVE  n \div d \in Nat /\ n % d \in 0..d-1 /\ n = (n \div d) * d + (n % d)
OBVIOUS

LEMMA DivModIs ==
  ASSUME NEW q \in Nat, NEW d \in Nat \ {0}, NEW r \in 0..d-1
  PROVE  q * d + r \in Nat /\ (q * d + r) \div d = q /\ (q * d + r) % d = r
OBVIOUS

LEMMA DivModApart ==
  ASSUME NEW n \in Nat, NEW m \in Nat, NEW d \in Nat \ {0}, n \div d = m \div d, n % d = m % d
  PROVE  n = m
BY DivMod

LEMMA DivMonotone ==
  ASSUME NEW n \in Nat, NEW m \in Nat, NEW d \in Nat \ {0}, n <= m
  PROVE  n \div d <= m \div d
OBVIOUS

LEMMA DivNext ==
  ASSUME NEW n \in Nat, NEW d \in Nat \ {0}
  PROVE  (n + 1) \div d <= (n \div d) + 1
OBVIOUS

LEMMA DivBelow ==
  ASSUME NEW n \in Nat, NEW q \in Nat, NEW d \in Nat \ {0}, n < q * d
  PROVE  n \div d < q
OBVIOUS

LEMMA Sizes ==
  /\ NBlocks \in Nat \ {0} /\ NIno \in Nat \ {0} /\ MaxDirect \in Nat \ {0} /\ IndPtrs \in Nat \ {0}
  /\ BlkSize \in Nat \ {0} /\ MaxIndirect \in Nat /\ DePerBlk \in Nat \ {0, 1}
  /\ MaxBlocks \in Nat \ {0} /\ MaxBlocks = MaxDirect + MaxIndirect
<1>1. {NBlocks, NIno, MaxDirect, IndPtrs, BlkSize} \subseteq Nat \ {0} /\ MaxIndirect \in Nat
      /\ DePerBlk \in Nat /\ DePerBlk >= 2
  BY FsAssumption, Zenon
<1> QED BY <1>1 DEF MaxBlocks

-----------------------------------------------------------------------------
(* The disk and the inode table are finite.                                  *)
LEMMA FiniteDisk ==
  /\ IsFiniteSet(Block) /\ Cardinality(Block) = NBlocks /\ IsFiniteSet(Ino) /\ Cardinality(Ino) = NIno
  /\ \A S : S \subseteq Block \/ S \subseteq Ino => IsFiniteSet(S) /\ Cardinality(S) \in Nat
<1>1. \A n \in Nat \ {0} : IsFiniteSet(0..n-1) /\ Cardinality(0..n-1) = n
  <2> SUFFICES ASSUME NEW n \in Nat \ {0} PROVE IsFiniteSet(0..n-1) /\ Cardinality(0..n-1) = n
    OBVIOUS
  <2>1. 0 \in Int /\ n - 1 \in Int /\ ~(0 > n - 1) /\ (n - 1) - 0 + 1 = n
    OBVIOUS
  <2> QED BY <2>1, FS_Interval
<1>2. IsFiniteSet(Block) /\ Cardinality(Block) = NBlocks
  BY <1>1, Sizes DEF Block
<1>3. IsFiniteSet(Ino) /\ Cardinality(Ino) = NIno
  BY <1>1, Sizes DEF Ino
<1> QED BY <1>2, <1>3, FS_Subset, FS_CardinalityType

-----------------------------------------------------------------------------
(* Allocation: the r-th of a run of allocations gets a free block, and no    *)
(* two get the same one.                                                     *)
Rank(C, b) == Cardinality({c \in C : c < b})
LEMMA RankOf ==
  ASSUME NEW C \in SUBSET Nat, IsFiniteSet(C)
  PROVE  \A b \in Nat : Rank(C, b) \in Nat /\ Rank(C, b) <= Cardinality(C)
BY FS_Subset, FS_CardinalityType DEF Rank

LEMMA RankApart ==
  ASSUME NEW C \in SUBSET Nat, IsFiniteSet(C), NEW a \in C, NEW b \in C, Rank(C, a) = Rank(C, b)
  PROVE  a = b
<1>1. ASSUME NEW x \in C, NEW y \in C, x < y PROVE Rank(C, x) # Rank(C, y)
  <2> DEFINE X == {c \in C : c < x}
             Y == {c \in C : c < y}
  <2>1. X \subseteq Y /\ x \in Y /\ x \notin X
    <3>1. x \in Nat /\ y \in Nat /\ ~(x < x)
      OBVIOUS
    <3>2. ASSUME NEW c \in C, c < x PROVE c < y
      <4>1. c \in Nat
        OBVIOUS
      <4> QED BY <1>1, <3>1, <3>2, <4>1
    <3> QED BY <1>1, <3>1, <3>2
  <2>2. IsFiniteSet(Y)
    <3>1. Y \in SUBSET C
      OBVIOUS
    <3> HIDE DEF Y
    <3> QED BY <3>1, FS_Subset
  <2> HIDE DEF X, Y
  <2>3. Cardinality(X) < Cardinality(Y)
    <3>1. IsFiniteSet(X) /\ Cardinality(X) <= Cardinality(Y) /\ Cardinality(X) # Cardinality(Y)
      BY <2>1, <2>2, FS_Subset
    <3> QED BY <2>2, <3>1, FS_CardinalityType
  <2> USE DEF X, Y
  <2> QED BY <2>2, <2>3, FS_CardinalityType, FS_Subset DEF Rank
<1> QED BY <1>1

LEMMA RankExists ==
  ASSUME NEW C \in SUBSET Nat, IsFiniteSet(C), NEW r \in Nat, r < Cardinality(C)
  PROVE  \E b \in C : Rank(C, b) = r
<1> DEFINE Bad == {k \in Nat : k < Cardinality(C) /\ ~\E b \in C : Rank(C, b) = k}
<1> SUFFICES ASSUME Bad # {} PROVE FALSE
  OBVIOUS
<1>1. Cardinality(C) \in Nat
  BY FS_CardinalityType
<1>2. PICK k \in Bad : \A j \in Bad : k <= j
  <2> HIDE DEF Bad
  <2>1. Bad \in SUBSET Nat
    BY DEF Bad
  <2> QED BY <2>1, LeastNumber
<1>3. CASE k = 0
  <2>1. C # {}
    BY <1>1, <1>2, <1>3, FS_EmptySet
  <2>2. PICK b \in C : \A c \in C : b <= c
    BY <2>1, LeastNumber
  <2>3. {c \in C : c < b} = {}
    <3>1. ASSUME NEW c \in C PROVE ~(c < b)
      <4>1. c \in Nat /\ b \in Nat /\ b <= c
        BY <2>2
      <4> QED BY <4>1
    <3> QED BY <3>1
  <2>4. Rank(C, b) = 0
    BY <2>3, FS_EmptySet DEF Rank
  <2> QED BY <1>3, <2>4
<1>4. CASE k # 0
  <2>1. k - 1 \in Nat /\ k - 1 < Cardinality(C) /\ k - 1 \notin Bad
    BY <1>1, <1>2, <1>4
  <2>2. PICK a \in C : Rank(C, a) = k - 1
    BY <2>1
  <2> DEFINE L == {c \in C : c < a}
             L1 == L \cup {a}
             Above == C \ L1
  <2>3. IsFiniteSet(L) /\ Cardinality(L) = k - 1 /\ a \notin L
    <3>1. IsFiniteSet(L)
      <4>1. L \in SUBSET C
        OBVIOUS
      <4> HIDE DEF L
      <4> QED BY <4>1, FS_Subset
    <3>2. a \notin L
      OBVIOUS
    <3> QED BY <2>2, <3>1, <3>2 DEF Rank
  <2>4. IsFiniteSet(L1) /\ Cardinality(L1) = k
    <3>1. IsFiniteSet(L \cup {a}) /\ Cardinality(L \cup {a}) = (k - 1) + 1
      <4> HIDE DEF L
      <4> QED BY <2>3, FS_AddElement
    <3> QED BY <2>1, <3>1
  <2>5. Above # {}
    <3>1. L1 # C
      BY <1>1, <1>2, <2>4
    <3> QED BY <3>1
  <2>6. PICK b \in Above : \A c \in Above : b <= c
    BY <2>5, LeastNumber
  <2>7. {c \in C : c < b} = L1
    <3>1. b \in Nat /\ a \in Nat /\ b \in C /\ ~(b < a) /\ b # a
      OBVIOUS
    <3>2. ASSUME NEW c \in C PROVE c < b <=> c \in L1
      <4>1. c \in Nat
        OBVIOUS
      <4>2. CASE c \in L1
        <5>1. c < a \/ c = a
          BY <4>2
        <5> QED BY <3>1, <4>1, <4>2, <5>1
      <4>3. CASE c \notin L1
        <5>1. b <= c
          BY <2>6, <4>3
        <5> QED BY <3>1, <4>1, <4>3, <5>1
      <4> QED BY <4>2, <4>3
    <3> QED BY <3>2
  <2> QED BY <1>2, <2>4, <2>6, <2>7 DEF Rank
<1> QED BY <1>3, <1>4

LEMMA AllocTakes ==
  ASSUME NEW s, NEW r \in Nat
  PROVE  /\ Alloc(s, r) \in (Block \ s.bm) \cup {Nil} /\ Alloc(s, r) \in Block \cup {Nil}
         /\ Alloc(s, r) # Nil => Rank(Block \ s.bm, Alloc(s, r)) = r
         /\ \A q \in Nat : q <= r /\ Alloc(s, r) # Nil => Alloc(s, q) # Nil
<1> DEFINE C == Block \ s.bm
<1>1. C \in SUBSET Nat /\ C \in SUBSET Block /\ Nil \notin C
  BY Sizes DEF Block, Nil
<1>2. IsFiniteSet(C) /\ Cardinality(C) \in Nat
  <2>1. IsFiniteSet(Block)
    BY FiniteDisk
  <2> HIDE DEF C
  <2> QED BY <1>1, <2>1, FS_Subset, FS_CardinalityType
<1>3. ASSUME NEW q \in Nat
      PROVE  Alloc(s, q) = IF q >= Cardinality(C) THEN Nil ELSE CHOOSE b \in C : Rank(C, b) = q
  BY DEF Alloc, Rank
<1> HIDE DEF C
<1>4. ASSUME NEW q \in Nat, q < Cardinality(C) PROVE Alloc(s, q) \in C /\ Rank(C, Alloc(s, q)) = q
  <2>1. \E b \in C : Rank(C, b) = q
    BY <1>1, <1>2, <1>4, RankExists
  <2>2. Alloc(s, q) = CHOOSE b \in C : Rank(C, b) = q
    BY <1>2, <1>3, <1>4
  <2> QED BY <2>1, <2>2, Zenon
<1>5. ASSUME NEW q \in Nat, q >= Cardinality(C) PROVE Alloc(s, q) = Nil
  BY <1>3, <1>5
<1>6. Alloc(s, r) \in C \cup {Nil} /\ (Alloc(s, r) # Nil => Rank(C, Alloc(s, r)) = r)
  BY <1>2, <1>4, <1>5
<1>7. \A q \in Nat : q <= r /\ Alloc(s, r) # Nil => Alloc(s, q) # Nil
  BY <1>1, <1>2, <1>4, <1>5
<1> QED BY <1>1, <1>6, <1>7 DEF C

(* The blocks of different allocations are different. *)
LEMMA AllocApart ==
  ASSUME NEW s, NEW q \in Nat, NEW r \in Nat, Alloc(s, q) = Alloc(s, r), Alloc(s, r) # Nil
  PROVE  q = r
BY AllocTakes

-----------------------------------------------------------------------------
(* The order in which inode_map_next allocates the places of an inode.       *)
IsPlace(p) == p[1] >= MaxDirect \/ p[2] = -1
PlaceRank(p) == IF p[1] < MaxDirect THEN p[1] ELSE TableRank(p[1] - MaxDirect) + (p[2] + 1)
(* The first logical block that needs place p, and the places that need blocks need. *)
NeededBy(p) ==
  IF p[1] < MaxDirect THEN p[1]
  ELSE MaxDirect + ((p[1] - MaxDirect) * IndPtrs + (IF p[2] = -1 THEN 0 ELSE p[2]))
Wanted(p, need) == IsPlace(p) /\ NeededBy(p) < need
MaxNeed == MaxDirect + MaxIndirect * IndPtrs

LEMMA PlaceParts ==
  ASSUME NEW p \in Place
  PROVE  p = <<p[1], p[2]>> /\ p[1] \in 0..MaxBlocks-1 /\ p[2] \in -1..IndPtrs-1
BY DEF Place

LEMMA TableRankIs ==
  ASSUME NEW t \in Nat
  PROVE  TableRank(t) \in Nat /\ TableRank(t) = MaxDirect + (t * IndPtrs + t)
<1>1. t * IndPtrs \in Nat /\ t * (IndPtrs + 1) = t * IndPtrs + t
  BY Sizes
<1> QED BY <1>1, Sizes DEF TableRank

LEMMA PlaceRankNat == ASSUME NEW p \in Place PROVE PlaceRank(p) \in Nat
<1>1. p[1] \in 0..MaxBlocks-1 /\ p[2] \in -1..IndPtrs-1
  BY PlaceParts
<1>2. CASE p[1] < MaxDirect
  BY <1>1, <1>2, Sizes DEF PlaceRank
<1>3. CASE ~(p[1] < MaxDirect)
  <2>1. p[1] - MaxDirect \in Nat /\ p[2] + 1 \in Nat
    BY <1>1, <1>3, Sizes
  <2>2. TableRank(p[1] - MaxDirect) \in Nat
    BY <2>1, TableRankIs
  <2> QED BY <1>3, <2>1, <2>2 DEF PlaceRank
<1> QED BY <1>2, <1>3

LEMMA PlaceRankApart ==
  ASSUME NEW p \in Place, NEW q \in Place, IsPlace(p), IsPlace(q), PlaceRank(p) = PlaceRank(q)
  PROVE  p = q
<1>1. /\ p = <<p[1], p[2]>> /\ p[1] \in 0..MaxBlocks-1 /\ p[2] \in -1..IndPtrs-1
      /\ q = <<q[1], q[2]>> /\ q[1] \in 0..MaxBlocks-1 /\ q[2] \in -1..IndPtrs-1
  BY PlaceParts
<1>2. ASSUME NEW x \in Place, ~(x[1] < MaxDirect), x[1] \in 0..MaxBlocks-1, x[2] \in -1..IndPtrs-1
      PROVE  /\ PlaceRank(x) - MaxDirect \in Nat
             /\ (PlaceRank(x) - MaxDirect) \div (IndPtrs + 1) = x[1] - MaxDirect
             /\ (PlaceRank(x) - MaxDirect) % (IndPtrs + 1) = x[2] + 1
  <2>1. PICK t \in Nat, j \in 0..(IndPtrs + 1)-1 : t = x[1] - MaxDirect /\ j = x[2] + 1
    BY <1>2, Sizes
  <2>2. PlaceRank(x) = MaxDirect + t * (IndPtrs + 1) + j
    BY <1>2, <2>1 DEF PlaceRank, TableRank
  <2>3. PICK d \in Nat \ {0} : d = IndPtrs + 1
    BY Sizes
  <2>4. t * d + j \in Nat /\ (t * d + j) \div d = t /\ (t * d + j) % d = j
    BY <2>1, <2>3, DivModIs
  <2>5. PICK y \in Nat : y = t * d
    BY <2>3
  <2>6. PlaceRank(x) - MaxDirect = t * d + j
    BY <2>2, <2>3, <2>5, Sizes
  <2> QED BY <2>1, <2>3, <2>4, <2>6
<1>3. CASE p[1] < MaxDirect /\ q[1] < MaxDirect
  <2>1. p[1] = q[1] /\ p[2] = -1 /\ q[2] = -1
    BY <1>1, <1>3, Sizes DEF PlaceRank, IsPlace
  <2> QED BY <1>1, <2>1
<1>4. CASE ~(p[1] < MaxDirect) /\ ~(q[1] < MaxDirect)
  <2>1. p[1] - MaxDirect = q[1] - MaxDirect /\ p[2] + 1 = q[2] + 1
    BY <1>1, <1>2, <1>4
  <2>2. p[1] = q[1] /\ p[2] = q[2]
    BY <1>1, <2>1, Sizes
  <2> QED BY <1>1, <2>2
<1>5. ASSUME NEW x \in Place, NEW y \in Place, x[1] < MaxDirect, ~(y[1] < MaxDirect), x[1] \in 0..MaxBlocks-1,
             y[1] \in 0..MaxBlocks-1, y[2] \in -1..IndPtrs-1, PlaceRank(x) = PlaceRank(y)
      PROVE  FALSE
  <2>1. PlaceRank(x) = x[1] /\ PlaceRank(y) - MaxDirect \in Nat
    BY <1>2, <1>5 DEF PlaceRank
  <2> QED BY <1>5, <2>1, Sizes
<1> QED BY <1>1, <1>3, <1>4, <1>5

LEMMA MapRankIs ==
  ASSUME NEW x \in Nat
  PROVE  MapRank(MaxDirect + x) = MaxDirect + (x + (x \div IndPtrs) + 1)
<1>1. PICK q \in Nat, m \in Nat : q = x \div IndPtrs /\ m = x % IndPtrs /\ x = q * IndPtrs + m
  <2>1. PICK d \in Nat \ {0} : d = IndPtrs
    BY Sizes
  <2>2. x \div d \in Nat /\ x % d \in Nat /\ x = (x \div d) * d + (x % d)
    BY DivMod
  <2> QED BY <2>1, <2>2
<1>3. MapRank(MaxDirect + x) = TableRank(q) + 1 + m
  <2>1. PICK i : i = MaxDirect + x
    OBVIOUS
  <2>2. ~(i < MaxDirect) /\ i - MaxDirect = x
    BY <2>1, Sizes
  <2>3. MapRank(i) = TableRank(x \div IndPtrs) + 1 + (x % IndPtrs)
    BY <2>2, Zenon DEF MapRank
  <2> QED BY <1>1, <2>1, <2>3, Zenon
<1>4. TableRank(q) = MaxDirect + (q * IndPtrs + q)
  BY TableRankIs
<1>5. PICK y \in Nat : y = q * IndPtrs
  BY Sizes
<1> QED BY <1>1, <1>3, <1>4, <1>5, Sizes

LEMMA DivIndPtrs == ASSUME NEW x \in Nat PROVE x \div IndPtrs \in Nat
<1>1. PICK d \in Nat \ {0} : d = IndPtrs
  BY Sizes
<1> QED BY <1>1, DivMod

LEMMA Product == ASSUME NEW n \in Nat, NEW m \in Nat PROVE n * m \in Nat
OBVIOUS

LEMMA MapRankOfEntry ==
  ASSUME NEW t \in Nat, NEW j \in 0..IndPtrs-1
  PROVE  t * IndPtrs \in Nat /\ MapRank(MaxDirect + t * IndPtrs + j) = TableRank(t) + (j + 1)
<1>1. PICK y \in Nat : y = t * IndPtrs
  <2>1. IndPtrs \in Nat
    BY Sizes
  <2> QED BY <2>1, Product
<1>2. (y + j) \div IndPtrs = t
  <2>1. PICK d \in Nat \ {0} : d = IndPtrs
    BY Sizes
  <2>2. (t * d + j) \div d = t
    BY <2>1, DivModIs
  <2> QED BY <1>1, <2>1, <2>2
<1>3. MapRank(MaxDirect + (y + j)) = MaxDirect + ((y + j) + t + 1)
  <2>1. y + j \in Nat
    BY <1>1, Sizes
  <2> QED BY <1>2, <2>1, MapRankIs
<1>4. MaxDirect + y + j = MaxDirect + (y + j)
  BY Sizes
<1> QED BY <1>1, <1>3, <1>4, TableRankIs, Sizes

(* The places that need blocks need are allocated first and without a gap. *)
LEMMA WantedFirst ==
  ASSUME NEW need \in Nat, NEW p \in Place, Wanted(p, need)
  PROVE  PlaceRank(p) < MapTotal(need)
<1>1. p[1] \in 0..MaxBlocks-1 /\ p[2] \in -1..IndPtrs-1
  BY PlaceParts
<1>2. PICK n \in Nat : n = NeededBy(p) /\ n <= need - 1 /\ need - 1 \in Nat /\ need # 0
  <2>1. CASE p[1] < MaxDirect
    BY <1>1, <2>1 DEF Wanted, NeededBy
  <2>2. CASE ~(p[1] < MaxDirect)
    <3>1. PICK t \in Nat, j \in Nat : t = p[1] - MaxDirect /\ j = IF p[2] = -1 THEN 0 ELSE p[2]
      BY <1>1, <2>2, Sizes
    <3>2. t * IndPtrs \in Nat
      BY Product, Sizes
    <3>3. NeededBy(p) = MaxDirect + (t * IndPtrs + j)
      BY <2>2, <3>1 DEF NeededBy
    <3> QED BY <3>2, <3>3, Sizes DEF Wanted
  <2> QED BY <2>1, <2>2
<1>3. ASSUME NEW i \in Nat
      PROVE  /\ i < MaxDirect => MapRank(i) = i
             /\ ~(i < MaxDirect) => i - MaxDirect \in Nat /\
                  MapRank(i) = MaxDirect + ((i - MaxDirect) + ((i - MaxDirect) \div IndPtrs) + 1)
  <2>1. CASE i < MaxDirect
    BY <2>1 DEF MapRank
  <2>2. CASE ~(i < MaxDirect)
    <3>1. PICK x \in Nat : x = i - MaxDirect /\ i = MaxDirect + x
      BY <2>2, Sizes
    <3> QED BY <2>2, <3>1, MapRankIs
  <2> QED BY <2>1, <2>2
<1>4. MapRank(n) <= MapRank(need - 1) /\ MapRank(need - 1) \in Nat
  <2>1. PICK m \in Nat : m = need - 1 /\ n <= m
    BY <1>2
  <2>2. CASE m < MaxDirect
    BY <1>3, <2>1, <2>2, Sizes
  <2>3. CASE ~(m < MaxDirect)
    <3>1. PICK y \in Nat, v \in Nat : y = m - MaxDirect /\ v = y \div IndPtrs /\ MapRank(m) = MaxDirect + (y + v + 1)
      BY <1>3, <2>3, DivIndPtrs
    <3>2. CASE n < MaxDirect
      BY <1>3, <2>1, <3>1, <3>2, Sizes
    <3>3. CASE ~(n < MaxDirect)
      <4>1. PICK x \in Nat, u \in Nat : x = n - MaxDirect /\ u = x \div IndPtrs /\ MapRank(n) = MaxDirect + (x + u + 1)
        BY <1>3, <3>3, DivIndPtrs
      <4>2. x <= y
        BY <2>1, <3>1, <4>1, Sizes
      <4>3. u <= v
        BY <3>1, <4>1, <4>2, DivMonotone, Sizes
      <4> QED BY <2>1, <3>1, <4>1, <4>2, <4>3, Sizes
    <3> QED BY <3>2, <3>3
  <2> QED BY <2>2, <2>3
<1>5. PlaceRank(p) <= MapRank(n) /\ PlaceRank(p) \in Nat /\ MapRank(n) \in Nat
  <2>1. CASE p[1] < MaxDirect
    BY <1>1, <1>2, <1>3, <2>1 DEF NeededBy, PlaceRank
  <2>2. CASE ~(p[1] < MaxDirect)
    <3>1. PICK t \in Nat, j \in 0..IndPtrs-1 : t = p[1] - MaxDirect /\ j = IF p[2] = -1 THEN 0 ELSE p[2]
      <4>1. (IF p[2] = -1 THEN 0 ELSE p[2]) \in 0..IndPtrs-1
        BY <1>1, Sizes
      <4> QED BY <1>1, <2>2, <4>1, Sizes
    <3>2. t * IndPtrs \in Nat /\ MapRank(MaxDirect + t * IndPtrs + j) = TableRank(t) + (j + 1)
      BY MapRankOfEntry
    <3>3. n = MaxDirect + t * IndPtrs + j
      <4>1. n = MaxDirect + (t * IndPtrs + j)
        BY <1>2, <2>2, <3>1 DEF NeededBy
      <4> QED BY <3>2, <4>1, Sizes
    <3>4. PlaceRank(p) = TableRank(t) + (p[2] + 1)
      BY <2>2, <3>1 DEF PlaceRank
    <3>5. p[2] + 1 \in Nat /\ p[2] + 1 <= j + 1 /\ j + 1 \in Nat
      BY <1>1, <3>1
    <3>6. TableRank(t) \in Nat
      BY TableRankIs
    <3> QED BY <3>2, <3>3, <3>4, <3>5, <3>6
  <2> QED BY <2>1, <2>2
<1>6. MapTotal(need) = MapRank(need - 1) + 1
  BY <1>2 DEF MapTotal
<1> QED BY <1>4, <1>5, <1>6

LEMMA WantedAll ==
  ASSUME NEW need \in Nat, need <= MaxNeed, NEW r \in Nat, r < MapTotal(need)
  PROVE  \E p \in Place : Wanted(p, need) /\ PlaceRank(p) = r
<1>1. PICK n \in Nat : n = need - 1 /\ MapTotal(need) = MapRank(n) + 1
  BY DEF MapTotal
<1>2. MaxIndirect * IndPtrs \in Nat /\ n < MaxDirect + MaxIndirect * IndPtrs
  BY <1>1, Product, Sizes DEF MaxNeed
<1>3. CASE r < MaxDirect
  <2>1. r < need
    <3>1. CASE n < MaxDirect
      BY <1>1, <3>1 DEF MapRank
    <3>2. CASE ~(n < MaxDirect)
      BY <1>1, <1>3, <3>2, Sizes
    <3> QED BY <3>1, <3>2
  <2>2. <<r, -1>> \in Place
    BY <1>3, Sizes DEF Place
  <2> QED BY <1>3, <2>1, <2>2 DEF Wanted, IsPlace, NeededBy, PlaceRank
<1>4. CASE ~(r < MaxDirect)
  <2>1. ~(n < MaxDirect)
    <3>1. n < MaxDirect => MapRank(n) = n
      BY DEF MapRank
    <3> QED BY <1>1, <1>4, <3>1, Sizes
  <2>2. PICK x \in Nat : x = n - MaxDirect /\ n = MaxDirect + x
    BY <1>1, <2>1, Sizes
  <2>3. PICK d \in Nat \ {0}, d1 \in Nat \ {0} : d = IndPtrs /\ d1 = d + 1
    BY Sizes
  <2>4. PICK q \in Nat, m \in 0..d-1 : q = x \div d /\ m = x % d /\ x = q * d + m
    BY DivMod
  <2>5. MapRank(n) = MaxDirect + (x + q + 1)
    BY <2>2, <2>3, <2>4, MapRankIs
  <2>6. PICK y \in Nat : y = r - MaxDirect /\ y <= x + q + 1
    BY <1>1, <1>4, <2>5, Sizes
  <2>7. PICK t \in Nat, e \in 0..d1-1 : t = y \div d1 /\ e = y % d1 /\ y = t * d1 + e
    <3>1. y \div d1 \in Nat /\ y % d1 \in 0..d1-1 /\ y = (y \div d1) * d1 + (y % d1)
      BY DivMod
    <3> QED BY <3>1, Zenon
  <2>8. t * d \in Nat /\ q * d \in Nat /\ t * d1 = t * d + t
    BY <2>3, Product
  <2>9. t <= q /\ (t = q => e <= m + 1) /\ (t < q => t * d + d <= q * d)
    <3>1. q < t => q * d + d <= t * d
      <4>1. ASSUME q < t PROVE q * d + d <= t * d
        <5>1. PICK k \in Nat : t = q + 1 + k
          <6>1. t - q - 1 \in Nat /\ t = q + 1 + (t - q - 1)
            BY <4>1
          <6> QED BY <6>1
        <5>2. k * d \in Nat /\ t * d = q * d + d + k * d
          BY <2>3, <5>1, Product
        <5> QED BY <2>3, <2>8, <5>2
      <4> QED BY <4>1
    <3>2. t < q => t * d + d <= q * d
      <4>1. ASSUME t < q PROVE t * d + d <= q * d
        <5>1. PICK k \in Nat : q = t + 1 + k
          <6>1. q - t - 1 \in Nat /\ q = t + 1 + (q - t - 1)
            BY <4>1
          <6> QED BY <6>1
        <5>2. k * d \in Nat /\ q * d = t * d + d + k * d
          BY <2>3, <5>1, Product
        <5> QED BY <2>3, <2>8, <5>2
      <4> QED BY <4>1
    <3>3. PICK td \in Nat, qd \in Nat : td = t * d /\ qd = q * d
      BY <2>8
    <3>4. /\ (q < t => qd + d <= td) /\ (t < q => td + d <= qd) /\ d1 = d + 1
          /\ td + t + e <= qd + m + q + 1
      BY <2>3, <2>4, <2>6, <2>7, <2>8, <3>1, <3>2, <3>3
    <3>5. t <= q /\ (t = q => e <= m + 1)
      <4>1. ~(q < t)
        BY <2>4, <2>7, <3>4
      <4>2. t = q => td = qd
        BY <3>3
      <4> QED BY <2>4, <2>7, <3>4, <4>1, <4>2
    <3> QED BY <3>2, <3>5
  <2>10. t < MaxIndirect
    <3>1. q < MaxIndirect
      BY <1>2, <2>2, <2>3, <2>4, DivBelow, Sizes
    <3> QED BY <2>9, <3>1, Sizes
  <2> DEFINE p == <<MaxDirect + t, e - 1>>
  <2>11. p \in Place /\ p[1] = MaxDirect + t /\ p[2] = e - 1
    BY <2>3, <2>7, <2>10, Sizes DEF Place
  <2>12. PlaceRank(p) = r
    <3>1. ~(MaxDirect + t < MaxDirect) /\ MaxDirect + t - MaxDirect = t /\ (e - 1) + 1 = e
      BY Sizes
    <3>2. (MaxDirect + t) - MaxDirect = t
      BY Sizes
    <3>3. PlaceRank(p) = TableRank(t) + e
      BY <2>11, <3>1, <3>2 DEF PlaceRank
    <3>4. TableRank(t) = MaxDirect + (t * d + t)
      BY <2>3, TableRankIs
    <3> QED BY <2>6, <2>7, <2>8, <3>3, <3>4, Sizes
  <2>13. NeededBy(p) < need
    <3>1. (MaxDirect + t) - MaxDirect = t /\ ~(MaxDirect + t < MaxDirect)
      BY Sizes
    <3>2. PICK j \in 0..d-1 : j = IF e - 1 = -1 THEN 0 ELSE e - 1
      <4>1. (IF e - 1 = -1 THEN 0 ELSE e - 1) \in 0..d-1
        BY <2>3, <2>7
      <4> QED BY <4>1
    <3>3. NeededBy(p) = MaxDirect + (t * d + j)
      BY <2>3, <2>11, <3>1, <3>2 DEF NeededBy
    <3>4. t * d + j <= x
      <4>1. PICK td \in Nat, qd \in Nat : td = t * d /\ qd = q * d /\ x = qd + m
        BY <2>4, <2>8
      <4>2. CASE t < q
        BY <2>4, <2>9, <3>2, <4>1, <4>2
      <4>3. CASE t = q
        <5>1. j <= m
          BY <2>4, <2>7, <2>9, <3>2, <4>3
        <5> QED BY <3>2, <4>1, <4>3, <5>1
      <4> QED BY <2>9, <4>2, <4>3
    <3> QED BY <1>1, <2>2, <2>8, <3>2, <3>3, <3>4, Sizes
  <2>14. IsPlace(p)
    BY <2>11, Sizes DEF IsPlace
  <2> QED BY <2>11, <2>12, <2>13, <2>14 DEF Wanted
<1> QED BY <1>3, <1>4

-----------------------------------------------------------------------------
(* The invariant.                                                            *)
Pointers == Block \cup {Nil}
Inodes == [type : {Free, File, Dir}, size : Nat, blocks : [0..MaxBlocks-1 -> Pointers]]
Shape(s) ==
  /\ s = [bm |-> s.bm, dbm |-> s.dbm, inode |-> s.inode, data |-> s.data]
  /\ s.bm \subseteq Block /\ s.dbm \subseteq Block
  /\ s.inode \in [Ino -> Inodes]
  /\ s.data = [b \in Block |-> s.data[b]]

(* What the blocks hold that an inode has. *)
Table(x) == x = [tab |-> x.tab] /\ x.tab \in [0..IndPtrs-1 -> Pointers]
Entries == [ino : Ino, name : Names \cup {"", ".", ".."}, type : {Free, File, Dir}]
DirSector(x) == x = [dir |-> x.dir] /\ x.dir \in [0..DePerBlk-1 -> Entries]
FileOK(s, in) ==
  /\ in.type = File /\ in.size <= MaxFile
  /\ \A n \in MaxDirect..MaxBlocks-1 : in.blocks[n] \in Block => Table(s.data[in.blocks[n]])
LastBlk(in) == (in.size - 1) \div DePerBlk
DirOK(s, in) ==
  /\ in.type = Dir /\ in.size >= 2 /\ in.size <= MaxDirect * DePerBlk
  /\ \A n \in 0..MaxBlocks-1 : in.blocks[n] # Nil <=> n <= LastBlk(in)
  /\ \A n \in 0..MaxBlocks-1 : in.blocks[n] \in Block => DirSector(s.data[in.blocks[n]])
Sectors(s) == \A i \in Allocated(s) : FileOK(s, s.inode[i]) \/ DirOK(s, s.inode[i])

(* Who owns the blocks: every marked block is named in one place of one      *)
(* inode, and none that is named is not marked.                              *)
Uses(s, in) == {At(s, in, p) : p \in Place} \ {Nil}
Once(s, in) == \A p, q \in Place : At(s, in, p) # Nil /\ At(s, in, p) = At(s, in, q) => p = q
Blocks(s, i) == IF i \in Allocated(s) THEN Uses(s, s.inode[i]) ELSE {}
Own(s) ==
  /\ \A i \in Ino : Blocks(s, i) \subseteq s.bm
  /\ \A i, j \in Ino : i # j => Blocks(s, i) \cap Blocks(s, j) = {}
  /\ \A i \in Allocated(s) : Once(s, s.inode[i])
  /\ \A b \in s.bm : \E i \in Ino : b \in Blocks(s, i)

LEMMA BlockNat == /\ Block \subseteq Nat /\ Nil \notin Block /\ Nil \notin Nat /\ Nil = -1 /\ Root \in Ino /\ Ino \subseteq Nat /\ 0 \in Block
                  /\ Free = 0 /\ File = 1 /\ Dir = 2
BY Sizes DEF Block, Nil, Ino, Root, Free, File, Dir

LEMMA InodeParts ==
  ASSUME NEW in \in Inodes
  PROVE  /\ in.type \in {Free, File, Dir} /\ in.size \in Nat
         /\ \A n \in 0..MaxBlocks-1 : in.blocks[n] \in Pointers
         /\ in = [type |-> in.type, size |-> in.size, blocks |-> in.blocks]
BY DEF Inodes

(* Directories do not reach the places of the tables. *)
LEMMA DirDirect ==
  ASSUME NEW s, NEW in \in Inodes, DirOK(s, in)
  PROVE  /\ LastBlk(in) \in 0..MaxDirect-1
         /\ \A n \in MaxDirect..MaxBlocks-1 : in.blocks[n] = Nil
<1>1. PICK n \in Nat : n = in.size - 1 /\ n < MaxDirect * DePerBlk
  <2>1. MaxDirect * DePerBlk \in Nat
    BY Product, Sizes
  <2> QED BY <2>1, InodeParts DEF DirOK
<1>2. n \div DePerBlk \in Nat /\ n \div DePerBlk < MaxDirect
  BY <1>1, DivMod, DivBelow, Sizes
<1>3. LastBlk(in) \in 0..MaxDirect-1
  BY <1>1, <1>2, Sizes DEF LastBlk
<1>4. ASSUME NEW k \in MaxDirect..MaxBlocks-1 PROVE in.blocks[k] = Nil
  BY <1>3, Sizes DEF DirOK
<1> QED BY <1>3, <1>4

(* The words of a table are its entries. *)
LEMMA TableWords ==
  ASSUME NEW x, Table(x)
  PROVE  Words(x) = {x.tab[j] : j \in 0..IndPtrs-1}
<1>1. PICK f \in [0..IndPtrs-1 -> Pointers] : x = [tab |-> f] /\ x.tab = f
  BY DEF Table
<1>2. Words([tab |-> f]) = {f[j] : j \in DOMAIN f}
  BY DEF Words
<1> QED BY <1>1, <1>2

LEMMA HeldParts ==
  ASSUME NEW s, NEW in, NEW b
  PROVE  b \in Held(s, in) <=>
           \/ b \in DirectBlocks(in) \/ b \in Tables(in)
           \/ b \in Block /\ \E x \in Tables(in) : b \in Words(s.data[x])
<1>1. Held(s, in) = DirectBlocks(in) \cup Tables(in) \cup ((UNION {Words(s.data[t]) : t \in Tables(in)}) \cap Block)
  BY Zenon DEF Held
<1> QED BY <1>1, Zenon

(* inode_free_blocks frees what an inode uses. *)
LEMMA HeldIs ==
  ASSUME NEW s, NEW in \in Inodes, FileOK(s, in) \/ DirOK(s, in)
  PROVE  Held(s, in) = Uses(s, in) /\ Uses(s, in) \subseteq Block
<1>1. ASSUME NEW p \in Place PROVE At(s, in, p) \in Pointers
  <2>1. p[1] \in 0..MaxBlocks-1 /\ p[2] \in -1..IndPtrs-1
    BY PlaceParts
  <2>2. CASE p[2] = -1
    BY <2>1, <2>2, InodeParts DEF At
  <2>3. CASE p[2] # -1 /\ ~(p[1] < MaxDirect) /\ in.type = File /\ in.blocks[p[1]] \in Block
    <3>1. Table(s.data[in.blocks[p[1]]])
      BY <2>1, <2>3, Sizes, BlockNat DEF FileOK, DirOK
    <3>2. At(s, in, p) = s.data[in.blocks[p[1]]].tab[p[2]] /\ p[2] \in 0..IndPtrs-1
      BY <2>1, <2>3 DEF At
    <3> QED BY <3>1, <3>2 DEF Table
  <2>4. CASE p[2] # -1 /\ ~(~(p[1] < MaxDirect) /\ in.type = File /\ in.blocks[p[1]] \in Block)
    BY <2>4 DEF At, Pointers
  <2> QED BY <2>2, <2>3, <2>4
<1>2. Uses(s, in) \subseteq Block
  BY <1>1 DEF Uses, Pointers
<1>3. ASSUME NEW b \in Block, b \in Uses(s, in) PROVE b \in Held(s, in)
  <2>1. PICK p \in Place : b = At(s, in, p)
    BY <1>3 DEF Uses
  <2>2. p[1] \in 0..MaxBlocks-1 /\ p[2] \in -1..IndPtrs-1
    BY PlaceParts
  <2>3. CASE p[2] = -1
    <3>1. b = in.blocks[p[1]]
      BY <2>1, <2>3 DEF At
    <3>2. CASE p[1] < MaxDirect
      BY <2>2, <3>1, <3>2, Sizes DEF Held, DirectBlocks
    <3>3. CASE ~(p[1] < MaxDirect)
      <4>1. PICK t \in 0..MaxIndirect-1 : p[1] = MaxDirect + t
        <5>1. p[1] - MaxDirect \in 0..MaxIndirect-1 /\ p[1] = MaxDirect + (p[1] - MaxDirect)
          BY <2>2, <3>3, Sizes
        <5> QED BY <5>1
      <4> QED BY <3>1, <4>1 DEF Held, Tables
    <3> QED BY <3>2, <3>3
  <2>4. CASE p[2] # -1
    <3>1. ~(p[1] < MaxDirect) /\ in.type = File /\ in.blocks[p[1]] \in Block /\ b = s.data[in.blocks[p[1]]].tab[p[2]]
      BY <2>1, <2>4, BlockNat DEF At
    <3>2. Table(s.data[in.blocks[p[1]]])
      BY <2>2, <3>1, Sizes, BlockNat DEF FileOK, DirOK
    <3>3. b \in Words(s.data[in.blocks[p[1]]])
      <4>1. p[2] \in 0..IndPtrs-1
        BY <2>2, <2>4, Sizes
      <4> QED BY <3>1, <3>2, <4>1, TableWords
    <3>4. in.blocks[p[1]] \in Tables(in)
      <4>1. PICK t \in 0..MaxIndirect-1 : p[1] = MaxDirect + t
        <5>1. p[1] - MaxDirect \in 0..MaxIndirect-1 /\ p[1] = MaxDirect + (p[1] - MaxDirect)
          BY <2>2, <3>1, Sizes
        <5> QED BY <5>1
      <4> QED BY <3>1, <4>1 DEF Tables
    <3> QED BY <1>3, <3>3, <3>4, HeldParts
  <2> QED BY <2>3, <2>4
<1>4. ASSUME NEW b \in Held(s, in) PROVE b \in Uses(s, in)
  <2>1. b \in Block
    BY HeldParts DEF DirectBlocks, Tables
  <2>2. CASE b \in DirectBlocks(in)
    <3>1. PICK n \in 0..MaxDirect-1 : b = in.blocks[n]
      BY <2>2 DEF DirectBlocks
    <3>2. <<n, -1>> \in Place /\ At(s, in, <<n, -1>>) = b
      BY <3>1, Sizes DEF Place, At
    <3> QED BY <2>1, <3>2, BlockNat DEF Uses
  <2>3. ASSUME NEW x \in Tables(in)
        PROVE  \E n \in MaxDirect..MaxBlocks-1 : x = in.blocks[n] /\ x \in Block
    <3>1. PICK t \in 0..MaxIndirect-1 : x = in.blocks[MaxDirect + t]
      BY DEF Tables
    <3>2. MaxDirect + t \in MaxDirect..MaxBlocks-1
      BY Sizes
    <3> QED BY <3>1, <3>2 DEF Tables
  <2>4. CASE b \in Tables(in)
    <3>1. PICK n \in MaxDirect..MaxBlocks-1 : b = in.blocks[n]
      BY <2>3, <2>4
    <3>2. <<n, -1>> \in Place /\ At(s, in, <<n, -1>>) = b
      BY <3>1, Sizes DEF Place, At
    <3> QED BY <2>1, <3>2, BlockNat DEF Uses
  <2>5. CASE \E x \in Tables(in) : b \in Words(s.data[x])
    <3>1. PICK x \in Tables(in) : b \in Words(s.data[x])
      BY <2>5
    <3>2. PICK n \in MaxDirect..MaxBlocks-1 : x = in.blocks[n] /\ x \in Block
      BY <2>3
    <3>3. FileOK(s, in)
      BY <3>2, DirDirect, BlockNat
    <3>4. Table(s.data[x]) /\ in.type = File
      BY <3>2, <3>3 DEF FileOK
    <3>5. PICK j \in 0..IndPtrs-1 : b = s.data[x].tab[j]
      BY <3>1, <3>4, TableWords
    <3>6. <<n, j>> \in Place /\ <<n, j>>[1] = n /\ <<n, j>>[2] = j /\ j # -1 /\ ~(n < MaxDirect)
      BY <3>2, <3>5, Sizes DEF Place
    <3>7. At(s, in, <<n, j>>) = b
      BY <3>2, <3>4, <3>5, <3>6 DEF At
    <3> QED BY <2>1, <3>6, <3>7, BlockNat DEF Uses
  <2> QED BY <2>2, <2>4, <2>5, HeldParts
<1> QED BY <1>2, <1>3, <1>4

(* The slots of a directory. *)
LEMMA SlotIs ==
  ASSUME NEW s, NEW in \in Inodes, DirOK(s, in), NEW k \in 0..in.size-1
  PROVE  /\ k \div DePerBlk \in 0..LastBlk(in) /\ k \div DePerBlk \in 0..MaxBlocks-1
         /\ in.blocks[k \div DePerBlk] \in Block
         /\ k % DePerBlk \in 0..DePerBlk-1 /\ Entry(s, in, k) \in Entries
<1>1. PICK d \in Nat \ {0} : d = DePerBlk
  BY Sizes
<1>2. PICK n \in Nat : n = in.size - 1 /\ k <= n /\ k \in Nat
  BY InodeParts DEF DirOK
<1>3. k \div d \in Nat /\ k % d \in 0..d-1 /\ n \div d \in Nat /\ k \div d <= n \div d
  BY <1>2, DivMod, DivMonotone
<1>4. LastBlk(in) \in 0..MaxDirect-1
  BY DirDirect
<1>5. k \div DePerBlk \in 0..LastBlk(in) /\ k \div DePerBlk \in 0..MaxBlocks-1
  BY <1>1, <1>2, <1>3, <1>4, Sizes DEF LastBlk
<1>6. in.blocks[k \div DePerBlk] # Nil /\ in.blocks[k \div DePerBlk] \in Block
  <2>1. k \div DePerBlk <= LastBlk(in)
    BY <1>4, <1>5
  <2>2. in.blocks[k \div DePerBlk] # Nil
    BY <1>5, <2>1 DEF DirOK
  <2> QED BY <1>5, <2>2, InodeParts DEF Pointers
<1>7. DirSector(s.data[in.blocks[k \div DePerBlk]])
  BY <1>5, <1>6 DEF DirOK
<1>8. Entry(s, in, k) \in Entries
  BY <1>1, <1>3, <1>7 DEF Entry, DirSector
<1> QED BY <1>1, <1>3, <1>5, <1>6, <1>8

LEMMA SlotsAre ==
  ASSUME NEW s, NEW in \in Inodes, DirOK(s, in)
  PROVE  Slots(in) = 0..in.size-1
<1>1. in.size \in Nat
  BY InodeParts
<1>2. ASSUME NEW k \in 0..in.size-1, NEW n \in 0..k \div DePerBlk PROVE BlockMapped(in, n)
  <2>1. k \div DePerBlk \in 0..LastBlk(in) /\ LastBlk(in) \in 0..MaxDirect-1
    BY SlotIs, DirDirect
  <2>2. n \in 0..MaxBlocks-1 /\ n <= LastBlk(in) /\ n < MaxBlocks
    BY <2>1, Sizes
  <2> QED BY <2>2 DEF BlockMapped, DirOK
<1> QED BY <1>2 DEF Slots

(* An inode whose record is the same, and the data of its blocks, is as it was. *)
Untouched(s, t, i) == t.inode[i] = s.inode[i] /\ \A b \in Blocks(s, i) : t.data[b] = s.data[b]
LEMMA UntouchedIs ==
  ASSUME NEW s, NEW t, Shape(s), Sectors(s), NEW i \in Allocated(s), Untouched(s, t, i)
  PROVE  /\ i \in Allocated(t) /\ Blocks(t, i) = Blocks(s, i)
         /\ Once(s, s.inode[i]) => Once(t, t.inode[i])
         /\ FileOK(s, s.inode[i]) => FileOK(t, t.inode[i])
         /\ DirOK(s, s.inode[i]) =>
              /\ DirOK(t, t.inode[i])
              /\ \A k \in 0..s.inode[i].size-1 : Entry(t, t.inode[i], k) = Entry(s, s.inode[i], k)
<1>1. PICK in \in Inodes : in = s.inode[i] /\ in = t.inode[i] /\ i \in Ino
  BY DEF Shape, Allocated, Untouched
<1>2. FileOK(s, in) \/ DirOK(s, in)
  BY <1>1 DEF Sectors
<1>3. ASSUME NEW n \in 0..MaxBlocks-1, in.blocks[n] \in Block PROVE t.data[in.blocks[n]] = s.data[in.blocks[n]]
  <2>1. <<n, -1>> \in Place /\ <<n, -1>>[1] = n /\ <<n, -1>>[2] = -1
    BY Sizes DEF Place
  <2>2. At(s, in, <<n, -1>>) = in.blocks[n]
    BY <2>1 DEF At
  <2>3. in.blocks[n] \in Blocks(s, i)
    BY <1>1, <1>3, <2>1, <2>2, BlockNat DEF Blocks, Uses
  <2> QED BY <2>3 DEF Untouched
<1>4. ASSUME NEW p \in Place PROVE At(t, in, p) = At(s, in, p)
  <2>1. p[1] \in 0..MaxBlocks-1
    BY PlaceParts
  <2> QED BY <1>3, <2>1 DEF At
<1>5. i \in Allocated(t)
  BY <1>1 DEF Allocated
<1>6. Uses(t, in) = Uses(s, in) /\ (Once(s, in) => Once(t, in))
  BY <1>4 DEF Uses, Once
<1>7. FileOK(s, in) => FileOK(t, in)
  <2>1. ASSUME NEW n \in MaxDirect..MaxBlocks-1 PROVE n \in 0..MaxBlocks-1
    BY Sizes
  <2> QED BY <1>3, <2>1 DEF FileOK
<1>8. DirOK(s, in) => DirOK(t, in)
  BY <1>3 DEF DirOK
<1>9. ASSUME DirOK(s, in), NEW k \in 0..in.size-1 PROVE Entry(t, in, k) = Entry(s, in, k)
  <2>1. k \div DePerBlk \in 0..MaxBlocks-1 /\ in.blocks[k \div DePerBlk] \in Block
    BY <1>9, SlotIs
  <2> QED BY <1>3, <2>1 DEF Entry
<1> QED BY <1>1, <1>5, <1>6, <1>7, <1>8, <1>9 DEF Blocks

LEMMA BlocksOf ==
  ASSUME NEW s, Shape(s), Sectors(s), NEW i \in Ino
  PROVE  Blocks(s, i) \subseteq Block /\ (i \in Allocated(s) => Held(s, s.inode[i]) = Blocks(s, i))
<1>1. CASE i \in Allocated(s)
  BY <1>1, HeldIs DEF Shape, Sectors, Blocks
<1>2. CASE i \notin Allocated(s)
  BY <1>2 DEF Blocks
<1> QED BY <1>1, <1>2

(* One inode changes, or comes, or goes. *)
LEMMA OwnChanged ==
  ASSUME NEW s, NEW t, Shape(s), Sectors(s), Own(s), NEW c \in Ino,
         \A i \in Ino \ {c} : IF i \in Allocated(s) THEN Untouched(s, t, i) ELSE i \notin Allocated(t),
         c \in Allocated(t) => Once(t, t.inode[c]),
         t.bm = (s.bm \ Blocks(s, c)) \cup Blocks(t, c),
         Blocks(t, c) \cap (s.bm \ Blocks(s, c)) = {}
  PROVE  Own(t)
<1>1. ASSUME NEW i \in Ino \ {c} PROVE Blocks(t, i) = Blocks(s, i) /\ (i \in Allocated(t) => Once(t, t.inode[i]))
  <2>1. CASE i \in Allocated(s)
    BY <2>1, UntouchedIs DEF Own
  <2>2. CASE i \notin Allocated(s)
    BY <2>2 DEF Blocks
  <2> QED BY <2>1, <2>2
<1>2. \A i \in Ino \ {c} : Blocks(s, i) \subseteq s.bm \ Blocks(s, c)
  BY DEF Own
<1>3. \A i \in Ino : Blocks(t, i) \subseteq t.bm
  BY <1>1, <1>2
<1>4. \A i, j \in Ino : i # j => Blocks(t, i) \cap Blocks(t, j) = {}
  <2> SUFFICES ASSUME NEW i \in Ino, NEW j \in Ino, i # j PROVE Blocks(t, i) \cap Blocks(t, j) = {}
    OBVIOUS
  <2>1. CASE i # c /\ j # c
    BY <1>1, <2>1 DEF Own
  <2>2. CASE i = c \/ j = c
    BY <1>1, <1>2, <2>2
  <2> QED BY <2>1, <2>2
<1>5. \A i \in Allocated(t) : Once(t, t.inode[i])
  BY <1>1 DEF Allocated
<1>6. \A b \in t.bm : \E i \in Ino : b \in Blocks(t, i)
  BY <1>1 DEF Own
<1> QED BY <1>3, <1>4, <1>5, <1>6 DEF Own

(* Inodes go. *)
LEMMA OwnRemoved ==
  ASSUME NEW s, NEW t, Shape(s), Sectors(s), Own(s), NEW G \in SUBSET Ino,
         \A i \in Ino : IF i \in Allocated(s) \ G THEN Untouched(s, t, i) ELSE i \notin Allocated(t),
         t.bm = s.bm \ UNION {Blocks(s, i) : i \in G}
  PROVE  Own(t)
<1>1. ASSUME NEW i \in Ino
      PROVE  /\ Blocks(t, i) = IF i \in G THEN {} ELSE Blocks(s, i)
             /\ i \in Allocated(t) => Once(t, t.inode[i])
  <2>1. CASE i \in Allocated(s) \ G
    BY <2>1, UntouchedIs DEF Own
  <2>2. CASE i \notin Allocated(s) \ G
    BY <2>2 DEF Blocks
  <2> QED BY <2>1, <2>2
<1>2. \A i \in Ino : Blocks(t, i) \subseteq t.bm
  <2> SUFFICES ASSUME NEW i \in Ino, NEW b \in Blocks(t, i) PROVE b \in t.bm
    OBVIOUS
  <2>1. i \notin G /\ b \in Blocks(s, i) /\ b \in s.bm
    BY <1>1 DEF Own
  <2>2. ASSUME NEW j \in G PROVE b \notin Blocks(s, j)
    BY <2>1 DEF Own
  <2> QED BY <2>1, <2>2
<1>3. \A i, j \in Ino : i # j => Blocks(t, i) \cap Blocks(t, j) = {}
  BY <1>1 DEF Own
<1>4. \A i \in Allocated(t) : Once(t, t.inode[i])
  BY <1>1 DEF Allocated
<1>5. \A b \in t.bm : \E i \in Ino : b \in Blocks(t, i)
  BY <1>1 DEF Own
<1> QED BY <1>2, <1>3, <1>4, <1>5 DEF Own

-----------------------------------------------------------------------------
(* inode_map_next, need times: every place of the inode that is wanted gets  *)
(* the block of its turn, as long as there are blocks.                       *)
MapInode(m, size) == [type |-> File, size |-> size, blocks |-> m.blocks]

LEMMA NeededByNat ==
  ASSUME NEW t \in Nat, NEW j \in -1..IndPtrs-1
  PROVE  LET p == <<MaxDirect + t, j>>
         IN  /\ p[1] = MaxDirect + t /\ p[2] = j /\ ~(p[1] < MaxDirect) /\ IsPlace(p)
             /\ t * IndPtrs \in Nat
             /\ NeededBy(p) = MaxDirect + (t * IndPtrs + (IF j = -1 THEN 0 ELSE j))
             /\ PlaceRank(p) = TableRank(t) + (j + 1)
<1> DEFINE p == <<MaxDirect + t, j>>
<1>1. p[1] = MaxDirect + t /\ p[2] = j /\ ~(p[1] < MaxDirect) /\ p[1] - MaxDirect = t
  BY Sizes
<1>2. IsPlace(p)
  BY <1>1, Sizes DEF IsPlace
<1>3. t * IndPtrs \in Nat
  BY Product, Sizes
<1> HIDE DEF p
<1>4. NeededBy(p) = MaxDirect + (t * IndPtrs + (IF j = -1 THEN 0 ELSE j))
  BY <1>1, Zenon DEF NeededBy
<1>5. PlaceRank(p) = TableRank(t) + (j + 1)
  BY <1>1, Zenon DEF PlaceRank
<1> QED BY <1>1, <1>2, <1>3, <1>4, <1>5 DEF p

LEMMA MapBlocksAre ==
  ASSUME NEW u, NEW need \in Nat, NEW n \in 0..MaxBlocks-1
  PROVE  /\ MapBlocks(u, need)[n] = IF Wanted(<<n, -1>>, need) THEN Alloc(u, PlaceRank(<<n, -1>>)) ELSE Nil
         /\ MapBlocks(u, need)[n] \in Pointers
<1> DEFINE p == <<n, -1>>
<1>1. p \in Place /\ p[1] = n /\ p[2] = -1 /\ IsPlace(p)
  BY Sizes DEF Place, IsPlace
<1> DEFINE Is == MapBlocks(u, need)[n] = IF Wanted(p, need) THEN Alloc(u, PlaceRank(p)) ELSE Nil
<1>2. ASSUME n < MaxDirect PROVE Is
  <2>1. PlaceRank(p) = n /\ (Wanted(p, need) <=> n < need)
    BY <1>1, <1>2 DEF PlaceRank, Wanted, NeededBy
  <2>2. MapBlocks(u, need)[n] = IF n < need THEN Alloc(u, n) ELSE Nil
    BY <1>2 DEF MapBlocks
  <2> QED BY <2>1, <2>2, Zenon
<1>3. ASSUME ~(n < MaxDirect) PROVE Is
  <2>1. PICK t \in Nat : t = n - MaxDirect /\ n = MaxDirect + t
    BY <1>3, Sizes
  <2>2. -1 \in -1..IndPtrs-1
    BY Sizes
  <2>3. t * IndPtrs \in Nat /\ NeededBy(p) = MaxDirect + (t * IndPtrs + 0) /\ PlaceRank(p) = TableRank(t) + (-1 + 1)
    BY <2>1, <2>2, NeededByNat
  <2>4. NeededBy(p) = MaxDirect + t * IndPtrs /\ PlaceRank(p) = TableRank(t)
    BY <2>3, TableRankIs, Sizes
  <2>5. MapBlocks(u, need)[n] = IF MaxDirect + t * IndPtrs < need THEN Alloc(u, TableRank(t)) ELSE Nil
    BY <1>3, <2>1 DEF MapBlocks
  <2> QED BY <1>1, <2>4, <2>5, Zenon DEF Wanted
<1>4. PlaceRank(p) \in Nat
  BY <1>1, PlaceRankNat
<1>5. Is
  BY <1>2, <1>3
<1>6. Alloc(u, PlaceRank(p)) \in Pointers
  BY <1>4, AllocTakes DEF Pointers
<1> QED BY <1>5, <1>6 DEF Pointers

LEMMA MapTableIs ==
  ASSUME NEW u, NEW need \in Nat, NEW t \in Nat, NEW j \in 0..IndPtrs-1
  PROVE  LET p == <<MaxDirect + t, j>>
         IN  /\ MapTable(u, need, t).tab[j] = IF Wanted(p, need) THEN Alloc(u, PlaceRank(p)) ELSE Nil
             /\ MapTable(u, need, t).tab[j] \in Pointers
<1> DEFINE p == <<MaxDirect + t, j>>
<1>1. j \in -1..IndPtrs-1 /\ j # -1
  BY Sizes
<1>2. /\ IsPlace(p) /\ t * IndPtrs \in Nat /\ NeededBy(p) = MaxDirect + (t * IndPtrs + j)
      /\ PlaceRank(p) = TableRank(t) + (j + 1)
  BY <1>1, NeededByNat
<1>3. MapRank(MaxDirect + t * IndPtrs + j) = PlaceRank(p) /\ MaxDirect + t * IndPtrs + j = NeededBy(p)
  <2>1. PICK y \in Nat : y = t * IndPtrs
    BY <1>2
  <2>2. MaxDirect + y + j = MaxDirect + (y + j)
    BY <2>1, Sizes
  <2>3. MapRank(MaxDirect + y + j) = TableRank(t) + (j + 1)
    BY <2>1, MapRankOfEntry
  <2> HIDE DEF p
  <2> QED BY <1>2, <2>1, <2>2, <2>3, Zenon
<1>4. MapTable(u, need, t).tab[j] = IF NeededBy(p) < need THEN Alloc(u, PlaceRank(p)) ELSE Nil
  <2>1. MapTable(u, need, t).tab[j]
          = IF MaxDirect + t * IndPtrs + j < need THEN Alloc(u, MapRank(MaxDirect + t * IndPtrs + j)) ELSE Nil
    BY DEF MapTable
  <2> HIDE DEF p
  <2> QED BY <1>3, <2>1, Zenon
<1>5. PlaceRank(p) \in Nat
  <2>1. TableRank(t) \in Nat
    BY TableRankIs
  <2> QED BY <1>2, <2>1
<1>6. Alloc(u, PlaceRank(p)) \in Pointers
  BY <1>5, AllocTakes DEF Pointers
<1> QED BY <1>2, <1>4, <1>6 DEF Wanted, Pointers

TablesAt(u, need, b) == {t \in 0..MaxIndirect-1 : MapBlocks(u, need)[MaxDirect + t] = b}
MappedData(u, need, b) ==
  IF TablesAt(u, need, b) = {} THEN u.data[b] ELSE MapTable(u, need, CHOOSE t \in TablesAt(u, need, b) : TRUE)
WholeRecord(v) == v = [bm |-> v.bm, dbm |-> v.dbm, inode |-> v.inode, data |-> v.data]
LEMMA MappedParts ==
  ASSUME NEW u, Shape(u), NEW need
  PROVE  LET v == Mapped(u, need).fs
         IN  /\ Mapped(u, need).blocks = MapBlocks(u, need)
             /\ WholeRecord(v)
             /\ v.bm = u.bm \cup MapBits(u, need) /\ v.dbm = u.dbm /\ v.inode = u.inode
             /\ v.data = [b \in Block |-> MappedData(u, need, b)]
<1>1. u = [bm |-> u.bm, dbm |-> u.dbm, inode |-> u.inode, data |-> u.data]
  BY DEF Shape
<1> QED BY <1>1 DEF Mapped, TablesAt, MappedData, WholeRecord

LEMMA MapTotalNat == ASSUME NEW need \in Nat PROVE MapTotal(need) \in Nat
<1>1. CASE need = 0
  BY <1>1 DEF MapTotal
<1>2. CASE need # 0
  <2>1. PICK n \in Nat : n = need - 1 /\ MapTotal(need) = MapRank(n) + 1
    BY <1>2 DEF MapTotal
  <2>2. CASE n < MaxDirect
    BY <2>1, <2>2 DEF MapRank
  <2>3. CASE ~(n < MaxDirect)
    <3>1. PICK x \in Nat : n = MaxDirect + x
      <4>1. n - MaxDirect \in Nat /\ n = MaxDirect + (n - MaxDirect)
        BY <2>3, Sizes
      <4> QED BY <4>1
    <3>2. PICK q \in Nat : q = x \div IndPtrs
      BY DivIndPtrs
    <3>3. MapRank(n) = MaxDirect + (x + q + 1)
      BY <3>1, <3>2, MapRankIs
    <3> QED BY <2>1, <3>3, Sizes
  <2> QED BY <2>2, <2>3
<1> QED BY <1>1, <1>2

(* inode_map_next allocates the places that are wanted, in their order. *)
LEMMA MappedPlaces ==
  ASSUME NEW u, Shape(u), NEW need \in Nat, need <= MaxNeed, NEW size \in Nat, size <= MaxFile
  PROVE  LET v == Mapped(u, need).fs
             in == MapInode(Mapped(u, need), size)
         IN  /\ in \in Inodes /\ FileOK(v, in) /\ Once(v, in)
             /\ Uses(v, in) = MapBits(u, need) /\ MapBits(u, need) \subseteq Block \ u.bm
             /\ \A b \in u.bm : v.data[b] = u.data[b]
             /\ \A p \in Place : At(v, in, p) = IF Wanted(p, need) THEN Alloc(u, PlaceRank(p)) ELSE Nil
<1> DEFINE v == Mapped(u, need).fs
           blocks == MapBlocks(u, need)
           in == MapInode(Mapped(u, need), size)
<1>1. in = [type |-> File, size |-> size, blocks |-> blocks] /\ in.type = File /\ in.size = size /\ in.blocks = blocks
  <2>1. Mapped(u, need).blocks = blocks
    BY MappedParts, Zenon
  <2> HIDE DEF blocks
  <2> QED BY <2>1 DEF MapInode
<1>0. ASSUME NEW b \in Block
      PROVE  v.data[b] = IF TablesAt(u, need, b) = {} THEN u.data[b]
                         ELSE MapTable(u, need, CHOOSE t \in TablesAt(u, need, b) : TRUE)
  <2>1. v.data = [x \in Block |-> MappedData(u, need, x)]
    BY MappedParts, Zenon
  <2> HIDE DEF v
  <2>2. v.data[b] = MappedData(u, need, b)
    BY <2>1
  <2> QED BY <2>2, Zenon DEF MappedData
<1>2. blocks = [n \in 0..MaxBlocks-1 |-> blocks[n]] /\ \A n \in 0..MaxBlocks-1 : blocks[n] \in Pointers
  BY MapBlocksAre DEF MapBlocks
<1>3. in \in Inodes
  <2>1. File \in {Free, File, Dir}
    OBVIOUS
  <2>2. blocks \in [0..MaxBlocks-1 -> Pointers]
    <3> HIDE DEF blocks
    <3> QED BY <1>2
  <2> HIDE DEF in, blocks
  <2> QED BY <1>1, <2>1, <2>2 DEF Inodes
<1>4. ASSUME NEW p \in Place
      PROVE  PlaceRank(p) \in Nat /\ Alloc(u, PlaceRank(p)) \in (Block \ u.bm) \cup {Nil}
  BY PlaceRankNat, AllocTakes
<1> DEFINE Turn(p) == IF Wanted(p, need) THEN Alloc(u, PlaceRank(p)) ELSE Nil
<1>5. ASSUME NEW n \in 0..MaxBlocks-1 PROVE <<n, -1>> \in Place /\ blocks[n] = Turn(<<n, -1>>)
  <2>1. <<n, -1>> \in Place
    BY Sizes DEF Place
  <2> QED BY <2>1, MapBlocksAre
<1>6. ASSUME NEW p \in Place, NEW q \in Place, Turn(p) # Nil, Turn(p) = Turn(q) PROVE p = q
  <2>1. /\ Wanted(p, need) /\ Wanted(q, need) /\ Turn(p) = Alloc(u, PlaceRank(p)) /\ Turn(q) = Alloc(u, PlaceRank(q))
    BY <1>6, Zenon
  <2>2. PlaceRank(p) \in Nat /\ PlaceRank(q) \in Nat /\ IsPlace(p) /\ IsPlace(q)
    BY <1>4, <2>1 DEF Wanted
  <2>3. PlaceRank(p) = PlaceRank(q)
    <3> HIDE DEF Turn
    <3> QED BY <1>6, <2>1, <2>2, AllocApart
  <2> QED BY <2>2, <2>3, PlaceRankApart
(* The table named in place n. *)
<1>7. ASSUME NEW t \in 0..MaxIndirect-1, blocks[MaxDirect + t] \in Block
      PROVE  v.data[blocks[MaxDirect + t]] = MapTable(u, need, t)
  <2>1. PICK b \in Block : b = blocks[MaxDirect + t]
    BY <1>7
  <2>2. ASSUME NEW x \in TablesAt(u, need, b) PROVE x = t
    <3>1. x \in 0..MaxIndirect-1 /\ blocks[MaxDirect + x] = b
      BY DEF TablesAt
    <3>2. MaxDirect + x \in 0..MaxBlocks-1 /\ MaxDirect + t \in 0..MaxBlocks-1
      BY <3>1, Sizes
    <3>3. <<MaxDirect + x, -1>> = <<MaxDirect + t, -1>>
      <4> HIDE DEF Turn, blocks
      <4> QED BY <1>5, <1>6, <2>1, <3>1, <3>2, BlockNat
    <3>4. MaxDirect + x = MaxDirect + t
      BY <3>3
    <3> QED BY <3>1, <3>4, Sizes
  <2>3. t \in TablesAt(u, need, b)
    BY <2>1 DEF TablesAt
  <2>4. (CHOOSE x \in TablesAt(u, need, b) : TRUE) = t
    BY <2>2, <2>3, Zenon
  <2>5. v.data[b] = MapTable(u, need, t)
    <3> HIDE DEF blocks
    <3>1. TablesAt(u, need, b) # {}
      BY <2>3
    <3> QED BY <1>0, <2>4, <3>1, Zenon
  <2> QED BY <2>1, <2>5
<1>8. ASSUME NEW t \in Nat PROVE Table(MapTable(u, need, t))
  <2>1. PICK f : f = MapTable(u, need, t).tab
    OBVIOUS
  <2>2. MapTable(u, need, t) = [tab |-> f] /\ f = [j \in 0..IndPtrs-1 |-> f[j]]
    BY <2>1 DEF MapTable
  <2>3. \A j \in 0..IndPtrs-1 : f[j] \in Pointers
    BY <2>1, MapTableIs
  <2> QED BY <2>1, <2>2, <2>3 DEF Table
<1>9. ASSUME NEW n \in MaxDirect..MaxBlocks-1
      PROVE  n \in 0..MaxBlocks-1 /\ \E t \in 0..MaxIndirect-1 : t \in Nat /\ n = MaxDirect + t
  <2>1. n - MaxDirect \in 0..MaxIndirect-1 /\ n - MaxDirect \in Nat /\ n = MaxDirect + (n - MaxDirect)
    BY Sizes
  <2> QED BY <2>1, Sizes
<1>10. FileOK(v, in)
  <2> HIDE DEF in, v, blocks
  <2> QED BY <1>1, <1>7, <1>8, <1>9 DEF FileOK
<1>11. ASSUME NEW p \in Place PROVE At(v, in, p) = Turn(p)
  <2>1. p = <<p[1], p[2]>> /\ p[1] \in 0..MaxBlocks-1 /\ p[2] \in -1..IndPtrs-1
    BY PlaceParts
  <2>2. CASE p[2] = -1
    <3>1. At(v, in, p) = blocks[p[1]]
      BY <1>1, <2>2 DEF At
    <3> HIDE DEF blocks, Turn
    <3> QED BY <1>5, <2>1, <2>2, <3>1
  <2>3. CASE p[2] # -1 /\ p[1] < MaxDirect
    <3>1. ~IsPlace(p)
      BY <2>1, <2>3, Sizes DEF IsPlace
    <3> QED BY <2>3, <3>1 DEF At, Wanted
  <2>4. CASE p[2] # -1 /\ ~(p[1] < MaxDirect)
    <3>1. PICK t \in 0..MaxIndirect-1 : t \in Nat /\ p[1] = MaxDirect + t
      <4>1. p[1] \in MaxDirect..MaxBlocks-1
        BY <2>1, <2>4, Sizes
      <4> QED BY <1>9, <4>1
    <3>2. PICK j \in 0..IndPtrs-1 : j = p[2]
      BY <2>1, <2>4, Sizes
    <3>3. p = <<MaxDirect + t, j>>
      BY <2>1, <3>1, <3>2
    <3>4. MapTable(u, need, t).tab[j] = Turn(p)
      BY <3>1, <3>3, MapTableIs
    <3>5. CASE blocks[p[1]] \in Block
      <4>1. At(v, in, p) = v.data[blocks[p[1]]].tab[p[2]]
        <5> HIDE DEF in, v, blocks
        <5> QED BY <1>1, <2>4, <3>5 DEF At
      <4> HIDE DEF in, v, blocks, Turn
      <4> QED BY <1>7, <3>1, <3>2, <3>4, <3>5, <4>1
    <3>6. CASE blocks[p[1]] \notin Block
      <4>1. At(v, in, p) = Nil
        <5> HIDE DEF in, v, blocks
        <5> QED BY <1>1, <2>4, <3>6 DEF At
      <4>2. Turn(<<p[1], -1>>) = Nil
        <5> HIDE DEF blocks, Turn
        <5> QED BY <1>2, <1>5, <2>1, <3>6 DEF Pointers
      <4>3. ASSUME Wanted(p, need) PROVE Alloc(u, PlaceRank(p)) = Nil
        <5>1. j \in -1..IndPtrs-1 /\ -1 \in -1..IndPtrs-1 /\ j # -1
          BY Sizes
        <5>2. PICK y \in Nat : y = t * IndPtrs
          BY <3>1, Product, Sizes
        <5>3. /\ NeededBy(p) = MaxDirect + (y + j) /\ PlaceRank(p) = TableRank(t) + (j + 1)
              /\ NeededBy(<<p[1], -1>>) = MaxDirect + (y + 0) /\ PlaceRank(<<p[1], -1>>) = TableRank(t) + (-1 + 1)
              /\ IsPlace(<<p[1], -1>>)
          BY <3>1, <3>3, <5>1, <5>2, NeededByNat
        <5>4. Wanted(<<p[1], -1>>, need)
          BY <4>3, <5>1, <5>2, <5>3, Sizes DEF Wanted
        <5>5. Alloc(u, PlaceRank(<<p[1], -1>>)) = Nil
          BY <4>2, <5>4
        <5>6. TableRank(t) \in Nat
          BY <3>1, TableRankIs
        <5>7. PICK a \in Nat, b \in Nat : a = PlaceRank(<<p[1], -1>>) /\ b = PlaceRank(p) /\ a <= b
          BY <5>3, <5>6
        <5> QED BY <5>5, <5>7, AllocTakes
      <4> QED BY <4>1, <4>3
    <3> QED BY <3>5, <3>6
  <2> QED BY <2>2, <2>3, <2>4
<1>12. Once(v, in)
  <2> HIDE DEF in, v, Turn
  <2> QED BY <1>6, <1>11 DEF Once
<1>13. Uses(v, in) = MapBits(u, need)
  <2>1. ASSUME NEW b \in Uses(v, in) PROVE b \in MapBits(u, need)
    <3>1. PICK p \in Place : b = Turn(p) /\ b # Nil
      <4> HIDE DEF in, v, Turn
      <4> QED BY <1>11 DEF Uses
    <3>2. Wanted(p, need) /\ b = Alloc(u, PlaceRank(p))
      BY <3>1
    <3>3. PlaceRank(p) \in Nat /\ PlaceRank(p) < MapTotal(need)
      BY <1>4, <3>2, WantedFirst
    <3> QED BY <3>1, <3>2, <3>3, MapTotalNat DEF MapBits
  <2>2. ASSUME NEW b \in MapBits(u, need) PROVE b \in Uses(v, in)
    <3>1. PICK r \in 0..MapTotal(need)-1 : b = Alloc(u, r) /\ b # Nil
      BY DEF MapBits
    <3>2. r \in Nat /\ r < MapTotal(need)
      BY MapTotalNat
    <3>3. PICK p \in Place : Wanted(p, need) /\ PlaceRank(p) = r
      BY <3>2, WantedAll
    <3>4. At(v, in, p) = b
      BY <1>11, <3>1, <3>3
    <3> QED BY <3>1, <3>4 DEF Uses
  <2> QED BY <2>1, <2>2
<1>14. MapBits(u, need) \subseteq Block \ u.bm
  <2> SUFFICES ASSUME NEW b \in MapBits(u, need) PROVE b \in Block \ u.bm
    OBVIOUS
  <2>1. PICK r \in 0..MapTotal(need)-1 : b = Alloc(u, r) /\ b # Nil
    BY DEF MapBits
  <2>2. r \in Nat
    BY MapTotalNat
  <2> QED BY <2>1, <2>2, AllocTakes
<1>15. ASSUME NEW b \in u.bm PROVE v.data[b] = u.data[b]
  <2>1. b \in Block
    BY DEF Shape
  <2>2. ASSUME NEW t \in TablesAt(u, need, b) PROVE FALSE
    <3>1. t \in 0..MaxIndirect-1 /\ blocks[MaxDirect + t] = b
      BY DEF TablesAt
    <3>2. MaxDirect + t \in 0..MaxBlocks-1
      BY <3>1, Sizes
    <3>3. b = Turn(<<MaxDirect + t, -1>>) /\ <<MaxDirect + t, -1>> \in Place
      <4> HIDE DEF blocks, Turn
      <4> QED BY <1>5, <3>1, <3>2
    <3> QED BY <1>4, <2>1, <3>3, BlockNat
  <2>3. TablesAt(u, need, b) = {}
    BY <2>2
  <2> HIDE DEF blocks
  <2> QED BY <1>0, <2>1, <2>3, Zenon
<1> QED BY <1>3, <1>10, <1>11, <1>12, <1>13, <1>14, <1>15

LEMMA MappedIs ==
  ASSUME NEW u, Shape(u), NEW need \in Nat, need <= MaxNeed, NEW size \in Nat, size <= MaxFile
  PROVE  LET v == Mapped(u, need).fs
             in == MapInode(Mapped(u, need), size)
         IN  /\ in \in Inodes /\ FileOK(v, in) /\ Once(v, in)
             /\ Uses(v, in) = MapBits(u, need) /\ MapBits(u, need) \subseteq Block \ u.bm
             /\ \A b \in u.bm : v.data[b] = u.data[b]
BY MappedPlaces, Zenon

-----------------------------------------------------------------------------
(* write_file.                                                               *)
LEMMA ShapeParts ==
  ASSUME NEW s, Shape(s)
  PROVE  /\ s = [bm |-> s.bm, dbm |-> s.dbm, inode |-> s.inode, data |-> s.data]
         /\ s.bm \subseteq Block /\ s.dbm \subseteq Block
         /\ s.inode \in [Ino -> Inodes] /\ \A i \in Ino : s.inode[i] \in Inodes
BY DEF Shape

LEMMA FreeBlocksIs ==
  ASSUME NEW s, Shape(s), NEW B
  PROVE  LET u == FreeBlocks(s, B)
         IN  /\ Shape(u) /\ u.bm = s.bm \ B /\ u.dbm = s.dbm /\ u.inode = s.inode
             /\ \A b \in Block : u.data[b] = IF b \in B THEN Stale ELSE s.data[b]
<1> DEFINE data == [b \in Block |-> IF b \in B THEN Stale ELSE s.data[b]]
<1>1. FreeBlocks(s, B) = [bm |-> s.bm \ B, dbm |-> s.dbm, inode |-> s.inode, data |-> data]
  <2>1. s = [bm |-> s.bm, dbm |-> s.dbm, inode |-> s.inode, data |-> s.data]
    BY DEF Shape
  <2>2. FreeBlocks(s, B) = [s EXCEPT !.bm = s.bm \ B, !.data = data]
    BY DEF FreeBlocks
  <2> HIDE DEF data
  <2> QED BY <2>1, <2>2
<1>2. data = [b \in Block |-> data[b]]
  OBVIOUS
<1>3. \A b \in Block : data[b] = IF b \in B THEN Stale ELSE s.data[b]
  OBVIOUS
<1> HIDE DEF data
<1>4. Shape(FreeBlocks(s, B))
  BY <1>1, <1>2, ShapeParts DEF Shape
<1> QED BY <1>1, <1>3, <1>4

LEMMA FlushIs ==
  ASSUME NEW s, Shape(s)
  PROVE  LET u == Flush(s)
         IN  Shape(u) /\ u.bm = s.bm /\ u.dbm = s.bm /\ u.inode = s.inode /\ u.data = s.data
<1>1. Flush(s) = [bm |-> s.bm, dbm |-> s.bm, inode |-> s.inode, data |-> s.data]
  BY ShapeParts DEF Flush
<1> QED BY <1>1 DEF Shape

(* An inode gets other blocks. *)
LEMMA InodeChanged ==
  ASSUME NEW s, NEW t, Shape(s), Sectors(s), Own(s), Shape(t), NEW ino \in Ino, NEW in \in Inodes,
         t.inode = [s.inode EXCEPT ![ino] = in], FileOK(t, in) \/ DirOK(t, in), Once(t, in),
         t.bm = (s.bm \ Blocks(s, ino)) \cup Uses(t, in), Uses(t, in) \cap (s.bm \ Blocks(s, ino)) = {},
         \A b \in s.bm \ Blocks(s, ino) : t.data[b] = s.data[b]
  PROVE  /\ Sectors(t) /\ Own(t)
         /\ \A i \in Ino \ {ino} : t.inode[i] = s.inode[i] /\ (i \in Allocated(s) => Untouched(s, t, i))
<1>1. ino \in Ino /\ t.inode[ino] = in /\ \A i \in Ino \ {ino} : t.inode[i] = s.inode[i]
  BY ShapeParts DEF Allocated
<1>2. in.type # Free
  BY BlockNat DEF FileOK, DirOK
<1>3. ino \in Allocated(t) /\ Blocks(t, ino) = Uses(t, in)
  BY <1>1, <1>2 DEF Allocated, Blocks
<1>4. ASSUME NEW i \in Ino \ {ino}, i \in Allocated(s) PROVE Untouched(s, t, i)
  <2>1. Blocks(s, i) \subseteq s.bm \ Blocks(s, ino)
    BY <1>1 DEF Own
  <2> QED BY <1>1, <2>1 DEF Untouched
<1>5. ASSUME NEW i \in Ino \ {ino}, i \notin Allocated(s) PROVE i \notin Allocated(t)
  BY <1>1, <1>5 DEF Allocated
<1>6. Own(t)
  BY <1>1, <1>3, <1>4, <1>5, OwnChanged
<1>7. ASSUME NEW i \in Allocated(t) PROVE FileOK(t, t.inode[i]) \/ DirOK(t, t.inode[i])
  <2>1. CASE i = ino
    BY <1>1, <2>1
  <2>2. CASE i # ino
    <3>1. i \in Allocated(s) /\ i \in Ino
      BY <1>5, <2>2 DEF Allocated
    <3>2. FileOK(s, s.inode[i]) \/ DirOK(s, s.inode[i])
      BY <3>1 DEF Sectors
    <3> QED BY <1>4, <2>2, <3>1, <3>2, UntouchedIs
  <2> QED BY <2>1, <2>2
<1> QED BY <1>1, <1>4, <1>6, <1>7 DEF Sectors

LEMMA NeedFits ==
  ASSUME NEW n \in Nat, n <= MaxFile
  PROVE  (n + BlkSize - 1) \div BlkSize \in Nat /\ (n + BlkSize - 1) \div BlkSize <= MaxNeed
<1>1. PICK d \in Nat \ {0} : d = BlkSize
  BY Sizes
<1>2. PICK q \in Nat : q = MaxNeed
  BY Product, Sizes DEF MaxNeed
<1>3. n <= q * d /\ q * d \in Nat
  BY <1>1, <1>2, Product DEF MaxFile, MaxNeed
<1>4. PICK m \in Nat : m = n + d - 1
  BY <1>1
<1>5. m < (q + 1) * d
  <2>1. (q + 1) * d = q * d + d
    BY <1>1, <1>2
  <2> QED BY <1>1, <1>3, <1>4, <2>1
<1>6. m \div d \in Nat /\ m \div d < q + 1
  <2>1. q + 1 \in Nat
    BY <1>2
  <2> QED BY <1>5, <2>1, DivMod, DivBelow
<1>7. n + BlkSize - 1 = m
  BY <1>1, <1>4
<1>8. (n + BlkSize - 1) \div BlkSize = m \div d
  BY <1>1, <1>7
<1>9. PICK e \in Nat : e = m \div d
  BY <1>6
<1> QED BY <1>2, <1>6, <1>8, <1>9

(* The blocks of the data are not those of the tables. *)
LEMMA BlockAtIs ==
  ASSUME NEW v, NEW in \in Inodes, in.type = File, NEW i \in Nat, BlockAt(v, in, i) \in Block, i < MaxNeed
  PROVE  \E p \in Place : BlockAt(v, in, i) = At(v, in, p) /\ (p[1] < MaxDirect \/ p[2] # -1)
<1>1. CASE i < MaxDirect
  <2>1. <<i, -1>> \in Place /\ <<i, -1>>[1] = i /\ <<i, -1>>[2] = -1
    BY <1>1, Sizes DEF Place
  <2>2. BlockAt(v, in, i) = in.blocks[i] /\ At(v, in, <<i, -1>>) = in.blocks[i]
    BY <1>1, <2>1 DEF BlockAt, At
  <2> QED BY <1>1, <2>1, <2>2
<1>2. CASE ~(i < MaxDirect)
  <2>1. PICK x \in Nat : x = i - MaxDirect
    BY <1>2, Sizes
  <2>2. PICK d \in Nat \ {0} : d = IndPtrs
    BY Sizes
  <2>3. PICK t \in Nat, j \in 0..IndPtrs-1 : t = x \div IndPtrs /\ j = x % IndPtrs
    BY <2>2, DivMod
  <2>4. ~(t >= MaxIndirect) /\ in.blocks[MaxDirect + t] \in Block /\ BlockAt(v, in, i) = v.data[in.blocks[MaxDirect + t]].tab[j]
    BY <1>2, <2>1, <2>3, BlockNat DEF BlockAt
  <2>5. /\ <<MaxDirect + t, j>> \in Place /\ <<MaxDirect + t, j>>[1] = MaxDirect + t
        /\ <<MaxDirect + t, j>>[2] = j /\ j # -1 /\ ~(MaxDirect + t < MaxDirect)
    BY <2>3, <2>4, Sizes DEF Place
  <2>6. At(v, in, <<MaxDirect + t, j>>) = v.data[in.blocks[MaxDirect + t]].tab[j]
    BY <2>4, <2>5 DEF At
  <2> QED BY <2>4, <2>5, <2>6
<1> QED BY <1>1, <1>2

LEMMA PutInodeIs ==
  ASSUME NEW v, Shape(v), NEW ino \in Ino, NEW in \in Inodes
  PROVE  LET t == [v EXCEPT !.inode[ino] = in]
         IN  Shape(t) /\ t.bm = v.bm /\ t.dbm = v.dbm /\ t.data = v.data /\ t.inode = [v.inode EXCEPT ![ino] = in]
<1> DEFINE t == [v EXCEPT !.inode[ino] = in]
<1>1. v = [bm |-> v.bm, dbm |-> v.dbm, inode |-> v.inode, data |-> v.data]
  BY DEF Shape
<1>2. PICK f : f = [v.inode EXCEPT ![ino] = in]
  OBVIOUS
<1>3. t = [bm |-> v.bm, dbm |-> v.dbm, inode |-> f, data |-> v.data]
  BY <1>1, <1>2
<1>4. f \in [Ino -> Inodes]
  BY <1>2, ShapeParts
<1>5. Shape(t)
  BY <1>3, <1>4 DEF Shape
<1> QED BY <1>2, <1>3, <1>5

EmptyFile == [type |-> File, size |-> 0, blocks |-> NoBlocks]
LEMMA EmptyFileIs ==
  /\ EmptyFile \in Inodes /\ EmptyFile.type = File /\ EmptyFile.size = 0
  /\ \A t : FileOK(t, EmptyFile) /\ Once(t, EmptyFile) /\ Uses(t, EmptyFile) = {}
<1>1. NoBlocks \in [0..MaxBlocks-1 -> Pointers] /\ \A n \in 0..MaxBlocks-1 : NoBlocks[n] = Nil
  BY DEF NoBlocks, Pointers
<1>2. EmptyFile \in Inodes /\ EmptyFile.type = File /\ EmptyFile.size = 0 /\ EmptyFile.blocks = NoBlocks
  BY <1>1 DEF EmptyFile, Inodes
<1>3. ASSUME NEW t, NEW p \in Place PROVE At(t, EmptyFile, p) = Nil
  <2>1. EmptyFile.blocks[p[1]] = Nil
    BY <1>1, <1>2, PlaceParts
  <2> QED BY <2>1, BlockNat DEF At
<1>4. 0 <= MaxFile
  <2>1. MaxIndirect * IndPtrs \in Nat
    BY Product, Sizes
  <2>2. MaxDirect + MaxIndirect * IndPtrs \in Nat
    BY <2>1, Sizes
  <2>3. MaxFile \in Nat
    BY <2>2, Product, Sizes DEF MaxFile
  <2> QED BY <2>3
<1>5. ASSUME NEW t PROVE FileOK(t, EmptyFile)
  <2>1. ASSUME NEW n \in MaxDirect..MaxBlocks-1 PROVE EmptyFile.blocks[n] \notin Block
    <3>1. n \in 0..MaxBlocks-1
      BY Sizes
    <3> QED BY <1>1, <1>2, <3>1, BlockNat
  <2> QED BY <1>2, <1>4, <2>1 DEF FileOK
<1> QED BY <1>2, <1>3, <1>5 DEF Once, Uses

StoreNeed(c) == (Len(c) + BlkSize - 1) \div BlkSize
Homes(t, in, need, b) == {i \in 0..need-1 : BlockAt(t, in, i) = b}
StoreData(t, in, c, b) ==
  IF Homes(t, in, StoreNeed(c), b) = {} THEN t.data[b] ELSE Sector(c, CHOOSE i \in Homes(t, in, StoreNeed(c), b) : TRUE)
Written(t, ino, in, c) == [t EXCEPT !.inode[ino] = in, !.data = [b \in Block |-> StoreData(t, in, c, b)]]
LEMMA StoreIs ==
  ASSUME NEW s, NEW ino, NEW c
  PROVE  LET m == Mapped(FreeBlocks(s, Held(s, s.inode[ino])), StoreNeed(c))
             in == MapInode(m, Len(c))
         IN  Store(s, ino, c) = IF m.ok THEN Ok(Flush(Written(m.fs, ino, in, c))) ELSE WriteFileAbort(m.fs, ino, in)
BY Zenon DEF Store, Written, StoreData, Homes, StoreNeed, MapInode

(* What an operation on inode ino leaves alone. *)
Others(s, t, ino) ==
  \A i \in Ino \ {ino} : t.inode[i] = s.inode[i] /\ (i \in Allocated(s) => Untouched(s, t, i))

LEMMA WrittenIs ==
  ASSUME NEW v, Shape(v), NEW ino \in Ino, NEW in \in Inodes, NEW c
  PROVE  LET t == Flush(Written(v, ino, in, c))
         IN  /\ Shape(t) /\ t.bm = v.bm /\ t.dbm = v.bm /\ t.inode = [v.inode EXCEPT ![ino] = in]
             /\ \A b \in Block : t.data[b] = StoreData(v, in, c, b)
<1> DEFINE data == [b \in Block |-> StoreData(v, in, c, b)]
           w == Written(v, ino, in, c)
<1>1. v = [bm |-> v.bm, dbm |-> v.dbm, inode |-> v.inode, data |-> v.data]
  BY DEF Shape
<1>2. PICK f : f = [v.inode EXCEPT ![ino] = in]
  OBVIOUS
<1>3. data = [b \in Block |-> data[b]] /\ \A b \in Block : data[b] = StoreData(v, in, c, b)
  OBVIOUS
<1>4. w = [v EXCEPT !.inode[ino] = in, !.data = data]
  BY Zenon DEF Written
<1> HIDE DEF data
<1>5. w = [bm |-> v.bm, dbm |-> v.dbm, inode |-> f, data |-> data]
  <2> HIDE DEF w
  <2> QED BY <1>1, <1>2, <1>4
<1>6. f \in [Ino -> Inodes]
  BY <1>2, ShapeParts
<1> HIDE DEF w
<1>7. Shape(w)
  BY <1>3, <1>5, <1>6, ShapeParts DEF Shape
<1> QED BY <1>2, <1>3, <1>5, <1>7, FlushIs DEF w

LEMMA MaxNeedNat == MaxNeed \in Nat
<1>1. MaxIndirect * IndPtrs \in Nat
  BY Product, Sizes
<1> QED BY <1>1, Sizes DEF MaxNeed

(* Filling the blocks leaves the tables, and the blocks of others, alone. *)
LEMMA FilledIs ==
  ASSUME NEW v, NEW in \in Inodes, FileOK(v, in), Once(v, in), NEW need \in Nat, need <= MaxNeed, NEW b \in Block,
         b \notin Uses(v, in) \/ \E n \in MaxDirect..MaxBlocks-1 : b = in.blocks[n]
  PROVE  Homes(v, in, need, b) = {}
<1> SUFFICES ASSUME NEW i \in 0..need-1, BlockAt(v, in, i) = b PROVE FALSE
  BY DEF Homes
<1>1. i \in Nat /\ i < MaxNeed /\ in.type = File
  BY MaxNeedNat DEF FileOK
<1>2. PICK p \in Place : b = At(v, in, p) /\ (p[1] < MaxDirect \/ p[2] # -1)
  BY <1>1, BlockAtIs
<1>3. b \in Uses(v, in)
  BY <1>2, BlockNat DEF Uses
<1>4. PICK n \in MaxDirect..MaxBlocks-1 : b = in.blocks[n]
  BY <1>3
<1>5. <<n, -1>> \in Place /\ <<n, -1>>[1] = n /\ <<n, -1>>[2] = -1 /\ ~(n < MaxDirect)
  BY Sizes DEF Place
<1>6. At(v, in, <<n, -1>>) = b
  BY <1>4, <1>5 DEF At
<1>7. p = <<n, -1>>
  BY <1>2, <1>5, <1>6, BlockNat DEF Once
<1> QED BY <1>2, <1>5, <1>7

(* The inode sees the same tables, so the same blocks. *)
LEMMA SameTables ==
  ASSUME NEW v, NEW t, NEW in \in Inodes, FileOK(v, in), Once(v, in),
         \A n \in MaxDirect..MaxBlocks-1 : in.blocks[n] \in Block => t.data[in.blocks[n]] = v.data[in.blocks[n]]
  PROVE  FileOK(t, in) /\ Once(t, in) /\ Uses(t, in) = Uses(v, in)
<1>1. FileOK(t, in)
  BY DEF FileOK
<1>2. ASSUME NEW p \in Place PROVE At(t, in, p) = At(v, in, p)
  <2>1. CASE p[2] = -1 \/ p[1] < MaxDirect \/ in.blocks[p[1]] \notin Block
    BY <2>1 DEF At
  <2>2. CASE ~(p[2] = -1 \/ p[1] < MaxDirect \/ in.blocks[p[1]] \notin Block)
    <3>1. p[1] \in MaxDirect..MaxBlocks-1
      BY <2>2, PlaceParts, Sizes
    <3> QED BY <2>2, <3>1 DEF At
  <2> QED BY <2>1, <2>2
<1>3. Once(t, in) /\ Uses(t, in) = Uses(v, in)
  BY <1>2 DEF Once, Uses
<1> QED BY <1>1, <1>3

LEMMA StoreKeeps ==
  ASSUME NEW s, Shape(s), Sectors(s), Own(s), NEW ino \in Allocated(s), NEW c, Len(c) \in Nat, Len(c) <= MaxFile
  PROVE  LET t == Store(s, ino, c).fs
         IN  Shape(t) /\ Sectors(t) /\ Own(t) /\ Others(s, t, ino) /\ t.inode[ino].type = File
<1> DEFINE u == FreeBlocks(s, Held(s, s.inode[ino]))
           need == StoreNeed(c)
           m == Mapped(u, need)
           v == m.fs
           in == MapInode(m, Len(c))
           t == Store(s, ino, c).fs
<1>1. ino \in Ino /\ Held(s, s.inode[ino]) = Blocks(s, ino) /\ Blocks(s, ino) \subseteq Block
  BY BlocksOf DEF Allocated
<1>2. Shape(u) /\ u.bm = s.bm \ Blocks(s, ino) /\ u.inode = s.inode
      /\ \A b \in u.bm : u.data[b] = s.data[b]
  BY <1>1, FreeBlocksIs, ShapeParts
<1>3. need \in Nat /\ need <= MaxNeed
  BY NeedFits DEF StoreNeed
<1>4. /\ in \in Inodes /\ FileOK(v, in) /\ Once(v, in)
      /\ Uses(v, in) = MapBits(u, need) /\ MapBits(u, need) \subseteq Block \ u.bm
      /\ \A b \in u.bm : v.data[b] = u.data[b]
  <2> HIDE DEF u, need
  <2> QED BY <1>2, <1>3, MappedIs
<1>5. v.bm = u.bm \cup MapBits(u, need) /\ v.inode = s.inode /\ Shape(v)
  <2> HIDE DEF u, need
  <2>1. /\ v = [bm |-> v.bm, dbm |-> v.dbm, inode |-> v.inode, data |-> v.data]
        /\ v.bm = u.bm \cup MapBits(u, need) /\ v.dbm = u.dbm /\ v.inode = u.inode
        /\ v.data = [b \in Block |-> MappedData(u, need, b)]
    <3>1. Shape(u)
      BY <1>2
    <3>2. WholeRecord(v)
      BY <3>1, MappedParts, Zenon
    <3>3. v.bm = u.bm \cup MapBits(u, need) /\ v.dbm = u.dbm /\ v.inode = u.inode
      BY <3>1, MappedParts, Zenon
    <3>4. v.data = [b \in Block |-> MappedData(u, need, b)]
      BY <3>1, MappedParts, Zenon
    <3> HIDE DEF v
    <3> QED BY <3>2, <3>3, <3>4 DEF WholeRecord
  <2> HIDE DEF v
  <2>2. v.data = [b \in Block |-> v.data[b]]
    BY <2>1
  <2>3. v.bm \subseteq Block /\ v.dbm \subseteq Block /\ v.inode \in [Ino -> Inodes]
    BY <1>2, <1>4, <2>1, ShapeParts
  <2>4. Shape(v)
    BY <2>1, <2>2, <2>3 DEF Shape
  <2> QED BY <1>2, <2>1, <2>4
<1>6. Store(s, ino, c) = IF m.ok THEN Ok(Flush(Written(v, ino, in, c))) ELSE WriteFileAbort(v, ino, in)
  BY StoreIs, Zenon
<1> DEFINE Good == Shape(t) /\ Sectors(t) /\ Own(t) /\ Others(s, t, ino) /\ t.inode[ino].type = File
<1> HIDE DEF u, need, v, in, t
<1>7. ASSUME NEW x \in Inodes, Shape(t), t.inode = [s.inode EXCEPT ![ino] = x], FileOK(t, x), Once(t, x),
             t.bm = u.bm \cup Uses(t, x), Uses(t, x) \cap u.bm = {}, \A b \in u.bm : t.data[b] = s.data[b]
      PROVE  Good
  <2>1. Sectors(t) /\ Own(t) /\ Others(s, t, ino)
    BY <1>1, <1>2, <1>7, InodeChanged DEF Others
  <2>2. t.inode[ino] = x
    BY <1>1, <1>7, ShapeParts
  <2> QED BY <1>7, <2>1, <2>2 DEF FileOK
<1>8. CASE m.ok
  <2>1. t = Flush(Written(v, ino, in, c))
    BY <1>6, <1>8 DEF t, Ok
  <2>2. /\ Shape(t) /\ t.bm = v.bm /\ t.inode = [v.inode EXCEPT ![ino] = in]
        /\ \A b \in Block : t.data[b] = StoreData(v, in, c, b)
    BY <1>1, <1>4, <1>5, <2>1, WrittenIs
  <2>3. ASSUME NEW b \in Block, b \notin Uses(v, in) \/ \E n \in MaxDirect..MaxBlocks-1 : b = in.blocks[n]
        PROVE  t.data[b] = v.data[b]
    <3>1. Homes(v, in, need, b) = {}
      BY <1>3, <1>4, <2>3, FilledIs
    <3> QED BY <2>2, <3>1 DEF StoreData, need
  <2>4. FileOK(t, in) /\ Once(t, in) /\ Uses(t, in) = Uses(v, in)
    <3>1. ASSUME NEW n \in MaxDirect..MaxBlocks-1, in.blocks[n] \in Block
          PROVE  t.data[in.blocks[n]] = v.data[in.blocks[n]]
      BY <2>3, <3>1
    <3>2. in \in Inodes /\ FileOK(v, in) /\ Once(v, in)
      BY <1>4
    <3> QED BY <3>1, <3>2, SameTables, SMTT(30)
  <2>5. ASSUME NEW b \in u.bm PROVE t.data[b] = s.data[b]
    <3>1. b \in Block /\ b \notin Uses(v, in)
      BY <1>2, <1>4, ShapeParts
    <3> QED BY <1>2, <1>4, <2>3, <3>1
  <2>6. t.bm = u.bm \cup Uses(t, in) /\ Uses(t, in) \cap u.bm = {} /\ t.inode = [s.inode EXCEPT ![ino] = in]
    BY <1>4, <1>5, <2>2, <2>4
  <2> HIDE DEF Good
  <2>7. Good
    BY <1>4, <1>7, <2>2, <2>4, <2>5, <2>6
  <2> QED BY <2>7 DEF Good, t
<1>9. CASE ~m.ok
  <2> DEFINE w == FreeBlocks(v, Held(v, in))
             x == [w EXCEPT !.inode[ino] = EmptyFile]
  <2>1. t = Flush(x)
    BY <1>6, <1>9 DEF t, WriteFileAbort, Fail, EmptyFile
  <2>2. Held(v, in) = Uses(v, in)
    BY <1>4, HeldIs
  <2>3. Shape(w) /\ w.bm = v.bm \ Uses(v, in) /\ w.inode = v.inode
        /\ \A b \in Block : w.data[b] = IF b \in Uses(v, in) THEN Stale ELSE v.data[b]
    BY <1>5, <2>2, FreeBlocksIs
  <2> HIDE DEF w
  <2>4. Shape(x) /\ x.bm = w.bm /\ x.data = w.data /\ x.inode = [w.inode EXCEPT ![ino] = EmptyFile]
    BY <1>1, <2>3, EmptyFileIs, PutInodeIs
  <2> HIDE DEF x
  <2>5. Shape(t) /\ t.bm = w.bm /\ t.data = w.data /\ t.inode = [s.inode EXCEPT ![ino] = EmptyFile]
    BY <1>5, <2>1, <2>3, <2>4, FlushIs
  <2>6. EmptyFile \in Inodes /\ FileOK(t, EmptyFile) /\ Once(t, EmptyFile) /\ Uses(t, EmptyFile) = {}
    BY EmptyFileIs
  <2>7. t.bm = u.bm
    BY <1>4, <1>5, <2>3, <2>5
  <2>8. ASSUME NEW b \in u.bm PROVE t.data[b] = s.data[b]
    <3>1. b \in Block /\ b \notin Uses(v, in)
      BY <1>2, <1>4, ShapeParts
    <3> QED BY <1>2, <1>4, <2>3, <2>5, <3>1
  <2> HIDE DEF Good
  <2>9. Good
    BY <1>7, <2>5, <2>6, <2>7, <2>8
  <2> QED BY <2>9 DEF Good, t
<1> QED BY <1>8, <1>9

-----------------------------------------------------------------------------
(* Directories.                                                              *)
Dirs(s) == {i \in Ino : s.inode[i].type = Dir}
Ent(s, d, k) == Entry(s, s.inode[d], k)

LEMMA DirsAre ==
  ASSUME NEW s, Shape(s), Sectors(s), NEW d \in Dirs(s)
  PROVE  /\ d \in Ino /\ d \in Allocated(s) /\ s.inode[d] \in Inodes /\ DirOK(s, s.inode[d])
         /\ s.inode[d].size \in Nat \ {0, 1} /\ Slots(s.inode[d]) = 0..s.inode[d].size-1
         /\ \A k \in 0..s.inode[d].size-1 : Ent(s, d, k) \in Entries
<1>1. d \in Ino /\ d \in Allocated(s) /\ s.inode[d] \in Inodes
  BY BlockNat, ShapeParts DEF Dirs, Allocated
<1>2. DirOK(s, s.inode[d])
  BY <1>1, BlockNat DEF Dirs, Sectors, FileOK
<1>3. s.inode[d].size \in Nat \ {0, 1}
  BY <1>1, <1>2, InodeParts DEF DirOK
<1> QED BY <1>1, <1>2, <1>3, SlotIs, SlotsAre DEF Ent

(* A directory names its blocks in the inode only. *)
LEMMA DirUses ==
  ASSUME NEW s, NEW in \in Inodes, in.type = Dir
  PROVE  /\ \A p \in Place : At(s, in, p) = IF p[2] = -1 THEN in.blocks[p[1]] ELSE Nil
         /\ Uses(s, in) = {in.blocks[n] : n \in 0..MaxBlocks-1} \ {Nil}
         /\ Once(s, in) <=> \A n, m \in 0..MaxBlocks-1 : in.blocks[n] # Nil /\ in.blocks[n] = in.blocks[m] => n = m
<1>1. ASSUME NEW p \in Place PROVE At(s, in, p) = IF p[2] = -1 THEN in.blocks[p[1]] ELSE Nil
  BY BlockNat DEF At
<1>2. ASSUME NEW n \in 0..MaxBlocks-1
      PROVE  <<n, -1>> \in Place /\ <<n, -1>>[1] = n /\ <<n, -1>>[2] = -1 /\ At(s, in, <<n, -1>>) = in.blocks[n]
  <2>1. <<n, -1>> \in Place /\ <<n, -1>>[1] = n /\ <<n, -1>>[2] = -1
    BY Sizes DEF Place
  <2> QED BY <1>1, <2>1
<1>3. ASSUME NEW b PROVE b \in Uses(s, in) <=> b \in {in.blocks[n] : n \in 0..MaxBlocks-1} \ {Nil}
  <2>1. ASSUME b \in Uses(s, in) PROVE b \in {in.blocks[n] : n \in 0..MaxBlocks-1} \ {Nil}
    <3>1. PICK p \in Place : b = At(s, in, p) /\ b # Nil
      BY <2>1 DEF Uses
    <3> QED BY <1>1, <3>1, PlaceParts
  <2>2. ASSUME b \in {in.blocks[n] : n \in 0..MaxBlocks-1} \ {Nil} PROVE b \in Uses(s, in)
    <3>1. PICK n \in 0..MaxBlocks-1 : b = in.blocks[n]
      BY <2>2
    <3>2. PICK p \in Place : At(s, in, p) = b
      BY <1>2, <3>1
    <3> QED BY <2>2, <3>2 DEF Uses
  <2> QED BY <2>1, <2>2
<1>4. ASSUME Once(s, in), NEW n \in 0..MaxBlocks-1, NEW m \in 0..MaxBlocks-1, in.blocks[n] # Nil, in.blocks[n] = in.blocks[m]
      PROVE  n = m
  <2>1. PICK p \in Place, q \in Place : p[1] = n /\ q[1] = m /\ At(s, in, p) = in.blocks[n] /\ At(s, in, q) = in.blocks[m]
    BY <1>2
  <2>2. p = q
    BY <1>4, <2>1 DEF Once
  <2> QED BY <2>1, <2>2
<1>5. ASSUME \A n, m \in 0..MaxBlocks-1 : in.blocks[n] # Nil /\ in.blocks[n] = in.blocks[m] => n = m,
             NEW p \in Place, NEW q \in Place, At(s, in, p) # Nil, At(s, in, p) = At(s, in, q)
      PROVE  p = q
  <2>1. p[2] = -1 /\ q[2] = -1 /\ in.blocks[p[1]] # Nil /\ in.blocks[p[1]] = in.blocks[q[1]]
    <3>1. At(s, in, p) = IF p[2] = -1 THEN in.blocks[p[1]] ELSE Nil
      BY <1>1
    <3>2. At(s, in, q) = IF q[2] = -1 THEN in.blocks[q[1]] ELSE Nil
      BY <1>1
    <3> QED BY <1>5, <3>1, <3>2
  <2>2. p[1] = q[1]
    BY <1>5, <2>1, PlaceParts
  <2> QED BY <2>1, <2>2, PlaceParts
<1> QED BY <1>1, <1>3, <1>4, <1>5 DEF Once

LEMMA DirBlocks ==
  ASSUME NEW s, Shape(s), Sectors(s), Own(s), NEW d \in Dirs(s)
  PROVE  /\ Blocks(s, d) = {s.inode[d].blocks[n] : n \in 0..MaxBlocks-1} \ {Nil}
         /\ \A t : Uses(t, s.inode[d]) = Blocks(s, d) /\ Once(t, s.inode[d])
         /\ \A n, m \in 0..MaxBlocks-1 :
              s.inode[d].blocks[n] # Nil /\ s.inode[d].blocks[n] = s.inode[d].blocks[m] => n = m
         /\ Blocks(s, d) \subseteq s.bm /\ s.bm = (s.bm \ Blocks(s, d)) \cup Blocks(s, d)
<1> DEFINE in == s.inode[d]
<1>1. d \in Ino /\ d \in Allocated(s) /\ in \in Inodes /\ in.type = Dir
  BY DirsAre DEF Dirs
<1>2. Blocks(s, d) = Uses(s, in) /\ Once(s, in) /\ Blocks(s, d) \subseteq s.bm
  BY <1>1 DEF Blocks, Own
<1> HIDE DEF in
<1>3. Uses(s, in) = {in.blocks[n] : n \in 0..MaxBlocks-1} \ {Nil}
  BY <1>1, DirUses
<1>4. \A n, m \in 0..MaxBlocks-1 : in.blocks[n] # Nil /\ in.blocks[n] = in.blocks[m] => n = m
  BY <1>1, <1>2, DirUses
<1>5. ASSUME NEW t PROVE Uses(t, in) = Blocks(s, d) /\ Once(t, in)
  <2>1. Uses(t, in) = {in.blocks[n] : n \in 0..MaxBlocks-1} \ {Nil}
    BY <1>1, DirUses
  <2>2. Once(t, in)
    BY <1>1, <1>4, DirUses
  <2> QED BY <1>2, <1>3, <2>1, <2>2
<1> QED BY <1>2, <1>3, <1>4, <1>5 DEF in

HasPut(s, t, d, k, e) ==
  /\ Shape(t) /\ Sectors(t) /\ Own(t) /\ Others(s, t, d)
  /\ t.bm = s.bm /\ t.dbm = s.dbm /\ t.inode = s.inode
  /\ \A j \in 0..s.inode[d].size-1 : Ent(t, d, j) = IF j = k THEN e ELSE Ent(s, d, j)
LEMMA PutEntryKeeps ==
  ASSUME NEW s, Shape(s), Sectors(s), Own(s), NEW d \in Dirs(s), NEW k \in 0..s.inode[d].size-1, NEW e \in Entries,
         NEW in, in.blocks = s.inode[d].blocks
  PROVE  HasPut(s, PutEntry(s, in, k, e), d, k, e)
<1> DEFINE t == PutEntry(s, in, k, e)
<1>1. /\ d \in Ino /\ d \in Allocated(s) /\ s.inode[d] \in Inodes /\ DirOK(s, s.inode[d])
      /\ s.inode[d].size \in Nat \ {0, 1}
  BY DirsAre
<1>2. PICK n \in 0..MaxBlocks-1, r \in 0..DePerBlk-1, B \in Block :
        n = k \div DePerBlk /\ r = k % DePerBlk /\ B = s.inode[d].blocks[n]
  BY <1>1, SlotIs
<1>3. DirSector(s.data[B])
  BY <1>1, <1>2 DEF DirOK
<1>4. PICK f \in [0..DePerBlk-1 -> Entries] : f = [s.data[B].dir EXCEPT ![r] = e]
  BY <1>3 DEF DirSector
<1>5. PICK g : g = [s.data EXCEPT ![B] = [dir |-> f]]
  OBVIOUS
<1>6. s = [bm |-> s.bm, dbm |-> s.dbm, inode |-> s.inode, data |-> s.data] /\ s.data = [b \in Block |-> s.data[b]]
  BY DEF Shape
<1>7. t = [bm |-> s.bm, dbm |-> s.dbm, inode |-> s.inode, data |-> g]
  <2>1. t = [s EXCEPT !.data[B] = [dir |-> [@.dir EXCEPT ![r] = e]]]
    BY <1>2 DEF PutEntry
  <2> HIDE DEF t
  <2> QED BY <1>4, <1>5, <1>6, <2>1
<1> HIDE DEF t
<1>8. t.bm = s.bm /\ t.dbm = s.dbm /\ t.inode = s.inode /\ t.data = g
  BY <1>7
<1>9. g = [b \in Block |-> g[b]] /\ g[B] = [dir |-> f] /\ \A b \in Block \ {B} : g[b] = s.data[b]
  BY <1>2, <1>5, <1>6
<1>10. Shape(t)
  BY <1>7, <1>8, <1>9, ShapeParts DEF Shape
<1>11. DirSector(g[B]) /\ g[B].dir = f
  BY <1>9 DEF DirSector
<1>12. DirOK(t, s.inode[d])
  <2>1. ASSUME NEW m \in 0..MaxBlocks-1, s.inode[d].blocks[m] \in Block PROVE DirSector(t.data[s.inode[d].blocks[m]])
    <3>1. CASE s.inode[d].blocks[m] = B
      BY <1>8, <1>11, <3>1
    <3>2. CASE s.inode[d].blocks[m] # B
      <4>1. DirSector(s.data[s.inode[d].blocks[m]])
        BY <1>1, <2>1 DEF DirOK
      <4> QED BY <1>8, <1>9, <2>1, <3>2, <4>1
    <3> QED BY <3>1, <3>2
  <2> QED BY <1>1, <2>1 DEF DirOK
<1>13. B \in Blocks(s, d)
  <2>1. B # Nil
    BY BlockNat
  <2> QED BY <1>2, <2>1, DirBlocks
<1>14. Sectors(t) /\ Own(t) /\ Others(s, t, d)
  <2>1. t.inode = [s.inode EXCEPT ![d] = s.inode[d]]
    BY <1>1, <1>8, ShapeParts
  <2>2. Uses(t, s.inode[d]) = Blocks(s, d) /\ Once(t, s.inode[d]) /\ s.bm = (s.bm \ Blocks(s, d)) \cup Blocks(s, d)
    BY DirBlocks
  <2>3. Uses(t, s.inode[d]) \cap (s.bm \ Blocks(s, d)) = {}
    BY <2>2
  <2>4. ASSUME NEW b \in s.bm \ Blocks(s, d) PROVE t.data[b] = s.data[b]
    BY <1>8, <1>9, <1>13, ShapeParts
  <2>5. t.bm = (s.bm \ Blocks(s, d)) \cup Uses(t, s.inode[d])
    BY <1>8, <2>2
  <2> QED BY <1>1, <1>10, <1>12, <2>1, <2>2, <2>3, <2>4, <2>5, InodeChanged DEF Others
<1>15. ASSUME NEW j \in 0..s.inode[d].size-1 PROVE Ent(t, d, j) = IF j = k THEN e ELSE Ent(s, d, j)
  <2>1. PICK m \in 0..MaxBlocks-1, q \in 0..DePerBlk-1 :
          m = j \div DePerBlk /\ q = j % DePerBlk /\ s.inode[d].blocks[m] \in Block
    BY <1>1, SlotIs
  <2>2. Ent(t, d, j) = g[s.inode[d].blocks[m]].dir[q] /\ Ent(s, d, j) = s.data[s.inode[d].blocks[m]].dir[q]
    BY <1>8, <2>1 DEF Ent, Entry
  <2>3. CASE m # n
    <3>1. s.inode[d].blocks[m] # B
      BY <1>2, <2>1, <2>3, BlockNat, DirBlocks
    <3>2. j # k
      BY <1>2, <2>1, <2>3
    <3> QED BY <1>9, <2>1, <2>2, <3>1, <3>2
  <2>4. CASE m = n
    <3>1. Ent(t, d, j) = f[q] /\ Ent(s, d, j) = s.data[B].dir[q]
      BY <1>2, <1>11, <2>2, <2>4
    <3>2. f[q] = IF q = r THEN e ELSE s.data[B].dir[q]
      BY <1>3, <1>4, <2>1 DEF DirSector
    <3>3. q = r <=> j = k
      <4>1. j \in Nat /\ k \in Nat
        BY <1>1
      <4> QED BY <1>2, <2>1, <2>4, <4>1, DivModApart, Sizes
    <3> QED BY <3>1, <3>2, <3>3
  <2> QED BY <2>3, <2>4
<1>16. HasPut(s, t, d, k, e)
  BY <1>8, <1>10, <1>14, <1>15 DEF HasPut
<1> QED BY <1>16 DEF t

HasGrown(s, g, d, k) ==
  /\ Shape(g) /\ Sectors(g) /\ Own(g) /\ Others(s, g, d) /\ d \in Dirs(g)
  /\ g.inode[d].size = k + 1 /\ g.inode[d].blocks = s.inode[d].blocks
  /\ \A j \in 0..k-1 : Ent(g, d, j) = Ent(s, d, j)
LEMMA GrowSlot ==
  ASSUME NEW s, Shape(s), Sectors(s), Own(s), NEW d \in Dirs(s), NEW k, k = s.inode[d].size,
         k \div DePerBlk < MaxBlocks, s.inode[d].blocks[k \div DePerBlk] # Nil, k + 1 <= MaxDirect * DePerBlk
  PROVE  HasGrown(s, [s EXCEPT !.inode[d].size = k + 1], d, k)
<1> DEFINE g == [s EXCEPT !.inode[d].size = k + 1]
<1>1. PICK in \in Inodes : in = s.inode[d] /\ in.type = Dir /\ d \in Ino /\ DirOK(s, in) /\ k \in Nat \ {0, 1} /\ k = in.size
  BY DirsAre DEF Dirs
<1>2. PICK x : x = [type |-> Dir, size |-> k + 1, blocks |-> in.blocks]
  OBVIOUS
<1>3. x \in Inodes /\ x.type = Dir /\ x.size = k + 1 /\ x.blocks = in.blocks
  BY <1>1, <1>2 DEF Inodes
<1>4. g = [s EXCEPT !.inode[d] = x]
  <2>1. in = [type |-> Dir, size |-> in.size, blocks |-> in.blocks]
    BY <1>1, InodeParts
  <2>2. [in EXCEPT !.size = k + 1] = x
    BY <1>2, <2>1
  <2> QED BY <1>1, <2>2
<1> HIDE DEF g
<1>5. Shape(g) /\ g.bm = s.bm /\ g.data = s.data /\ g.inode = [s.inode EXCEPT ![d] = x]
  <2>1. d \in Ino /\ x \in Inodes
    BY <1>1, <1>3
  <2> QED BY <1>4, <2>1, PutInodeIs
<1>6. LastBlk(x) = LastBlk(in)
  <2>1. PICK D \in Nat \ {0} : D = DePerBlk
    BY Sizes
  <2>2. PICK m \in Nat : m = k - 1
    BY <1>1
  <2>3. m \div D \in Nat /\ k \div D \in Nat /\ m \div D <= k \div D
    <3>1. k \in Nat /\ m <= k
      BY <1>1, <2>2
    <3> QED BY <3>1, DivMod, DivMonotone
  <2>4. LastBlk(in) = m \div D /\ LastBlk(x) = k \div D
    <3>1. x.size - 1 = k /\ in.size - 1 = m
      BY <1>1, <1>3, <2>2
    <3> QED BY <2>1, <3>1, Zenon DEF LastBlk
  <2>5. k \div D \in 0..MaxBlocks-1 /\ in.blocks[k \div D] # Nil
    BY <1>1, <2>1, <2>3, Sizes
  <2>6. k \div D <= LastBlk(in)
    BY <1>1, <2>5 DEF DirOK
  <2>7. PICK a \in Nat, b \in Nat : a = m \div D /\ b = k \div D
    BY <2>3
  <2> QED BY <2>3, <2>4, <2>6, <2>7
<1>7. DirOK(g, x)
  BY <1>1, <1>3, <1>5, <1>6 DEF DirOK
<1>8. Uses(g, x) = Blocks(s, d) /\ Once(g, x)
  <2>1. Uses(g, in) = Blocks(s, d) /\ Once(g, in)
    BY <1>1, DirBlocks
  <2>2. Uses(g, in) = Uses(g, x)
    <3>1. Uses(g, in) = {in.blocks[n] : n \in 0..MaxBlocks-1} \ {Nil}
      BY <1>1, DirUses
    <3>2. Uses(g, x) = {x.blocks[n] : n \in 0..MaxBlocks-1} \ {Nil}
      BY <1>3, DirUses
    <3> QED BY <1>3, <3>1, <3>2
  <2>3. Once(g, x)
    <3>1. \A n, m \in 0..MaxBlocks-1 : x.blocks[n] # Nil /\ x.blocks[n] = x.blocks[m] => n = m
      BY <1>1, <1>3, DirBlocks
    <3> QED BY <1>3, <3>1, DirUses
  <2> QED BY <2>1, <2>2, <2>3
<1>9. Sectors(g) /\ Own(g) /\ Others(s, g, d)
  <2>1. Uses(g, x) \cap (s.bm \ Blocks(s, d)) = {} /\ g.bm = (s.bm \ Blocks(s, d)) \cup Uses(g, x)
    BY <1>5, <1>8, DirBlocks
  <2> QED BY <1>1, <1>3, <1>5, <1>7, <1>8, <2>1, InodeChanged DEF Others
<1>10. g.inode[d] = x
  BY <1>1, <1>5, ShapeParts
<1>11. d \in Dirs(g)
  BY <1>1, <1>3, <1>10 DEF Dirs
<1>12. ASSUME NEW j \in 0..k-1 PROVE Ent(g, d, j) = Ent(s, d, j)
  BY <1>1, <1>3, <1>5, <1>10 DEF Ent, Entry
<1>13. HasGrown(s, g, d, k)
  BY <1>1, <1>3, <1>5, <1>9, <1>10, <1>11, <1>12 DEF HasGrown
<1> QED BY <1>13 DEF g

(* A directory takes a new block. *)
Taken(s, i, in, new, x) == [s EXCEPT !.bm = @ \cup {new}, !.data[new] = x, !.inode[i] = in]
IsTaken(t, s, i, in, new, x) ==
  /\ Shape(t) /\ t.bm = s.bm \cup {new} /\ t.dbm = s.dbm /\ t.inode = [s.inode EXCEPT ![i] = in]
  /\ t.inode[i] = in
  /\ t.data[new] = x /\ \A b \in Block \ {new} : t.data[b] = s.data[b]
LEMMA TakenIs ==
  ASSUME NEW s, Shape(s), NEW i \in Ino, NEW in \in Inodes, NEW new \in Block, NEW x
  PROVE  IsTaken(Taken(s, i, in, new, x), s, i, in, new, x)
<1> DEFINE t == Taken(s, i, in, new, x)
<1>1. s = [bm |-> s.bm, dbm |-> s.dbm, inode |-> s.inode, data |-> s.data] /\ s.data = [b \in Block |-> s.data[b]]
  BY DEF Shape
<1>2. PICK f : f = [s.inode EXCEPT ![i] = in]
  OBVIOUS
<1>3. PICK g : g = [s.data EXCEPT ![new] = x]
  OBVIOUS
<1>4. PICK B : B = s.bm \cup {new}
  OBVIOUS
<1>5. t = [bm |-> B, dbm |-> s.dbm, inode |-> f, data |-> g]
  <2>1. PICK b0, d0, i0, x0 : s = [bm |-> b0, dbm |-> d0, inode |-> i0, data |-> x0]
    BY <1>1
  <2>2. s.bm = b0 /\ s.dbm = d0 /\ s.inode = i0 /\ s.data = x0
    BY <2>1
  <2>3. t = [bm |-> b0 \cup {new}, dbm |-> d0, inode |-> [i0 EXCEPT ![i] = in], data |-> [x0 EXCEPT ![new] = x]]
    <3>1. t = [s EXCEPT !.bm = b0 \cup {new}, !.data = [x0 EXCEPT ![new] = x], !.inode = [i0 EXCEPT ![i] = in]]
      BY <2>2 DEF Taken
    <3> HIDE DEF t
    <3> QED BY <2>1, <3>1
  <2> HIDE DEF t
  <2> QED BY <1>2, <1>3, <1>4, <2>2, <2>3, Zenon
<1> HIDE DEF t
<1>6. f \in [Ino -> Inodes] /\ f[i] = in /\ B \subseteq Block
  BY <1>2, <1>4, ShapeParts
<1>7. g = [b \in Block |-> g[b]] /\ g[new] = x /\ \A b \in Block \ {new} : g[b] = s.data[b]
  BY <1>1, <1>3
<1>8. t.bm = B /\ t.dbm = s.dbm /\ t.inode = f /\ t.data = g
  BY <1>5
<1>9. Shape(t)
  BY <1>5, <1>6, <1>7, <1>8, ShapeParts DEF Shape
<1>10. IsTaken(t, s, i, in, new, x)
  BY <1>2, <1>4, <1>6, <1>7, <1>8, <1>9 DEF IsTaken
<1> QED BY <1>10 DEF t

LEMMA TakenKeeps ==
  ASSUME NEW s, Shape(s), Sectors(s), Own(s), NEW i \in Ino, NEW in \in Inodes, NEW new \in Block, new \notin s.bm, NEW x,
         DirOK(Taken(s, i, in, new, x), in),
         {in.blocks[n] : n \in 0..MaxBlocks-1} \ {Nil} = Blocks(s, i) \cup {new},
         \A n, m \in 0..MaxBlocks-1 : in.blocks[n] # Nil /\ in.blocks[n] = in.blocks[m] => n = m
  PROVE  LET t == Taken(s, i, in, new, x) IN Sectors(t) /\ Own(t) /\ Others(s, t, i)
<1> DEFINE t == Taken(s, i, in, new, x)
<1>1. /\ Shape(t) /\ t.bm = s.bm \cup {new} /\ t.inode = [s.inode EXCEPT ![i] = in]
      /\ \A b \in Block \ {new} : t.data[b] = s.data[b]
  BY TakenIs DEF IsTaken
<1> HIDE DEF t
<1>2. in.type = Dir /\ DirOK(t, in)
  BY DEF DirOK, t
<1>3. Uses(t, in) = Blocks(s, i) \cup {new} /\ Once(t, in)
  BY <1>2, DirUses
<1>4. Blocks(s, i) \subseteq s.bm /\ s.bm \subseteq Block
  BY ShapeParts DEF Own
<1>5. t.bm = (s.bm \ Blocks(s, i)) \cup Uses(t, in) /\ Uses(t, in) \cap (s.bm \ Blocks(s, i)) = {}
  BY <1>1, <1>3, <1>4
<1>6. ASSUME NEW b \in s.bm \ Blocks(s, i) PROVE t.data[b] = s.data[b]
  BY <1>1, <1>4
<1> QED BY <1>1, <1>2, <1>3, <1>5, <1>6, InodeChanged DEF Others, t

LEMMA EmptyDirIs == EmptyEntry \in Entries /\ DirSector(EmptyDir)
<1>1. EmptyEntry \in Entries
  BY BlockNat DEF EmptyEntry, DirEntry, Entries, Root
<1> QED BY <1>1 DEF EmptyDir, DirSector

GrownInode(in, n, new) == [type |-> Dir, size |-> in.size + 1, blocks |-> [in.blocks EXCEPT ![n] = new]]
LEMMA GrowBlock ==
  ASSUME NEW s, Shape(s), Sectors(s), Own(s), NEW d \in Dirs(s), NEW k, k = s.inode[d].size, NEW n, n = k \div DePerBlk,
         n < MaxBlocks, s.inode[d].blocks[n] = Nil, k + 1 <= MaxDirect * DePerBlk, NEW new \in Block, new \notin s.bm
  PROVE  LET x == GrownInode(s.inode[d], n, new)
             g == Taken(s, d, x, new, EmptyDir)
         IN  /\ Shape(g) /\ Sectors(g) /\ Own(g) /\ Others(s, g, d) /\ d \in Dirs(g) /\ g.inode[d] = x
             /\ x.size = k + 1
             /\ \A j \in 0..k-1 : Ent(g, d, j) = Ent(s, d, j)
<1>1. PICK in \in Inodes : in = s.inode[d] /\ in.type = Dir /\ d \in Ino /\ DirOK(s, in) /\ k \in Nat \ {0, 1} /\ k = in.size
  BY DirsAre DEF Dirs
<1> DEFINE x == GrownInode(in, n, new)
           g == Taken(s, d, x, new, EmptyDir)
<1>2. n \in 0..MaxBlocks-1 /\ LastBlk(x) = n /\ LastBlk(in) \in Nat /\ n = LastBlk(in) + 1
  <2>1. PICK D \in Nat \ {0} : D = DePerBlk
    BY Sizes
  <2>2. PICK m \in Nat : m = k - 1 /\ k = m + 1 /\ k \in Nat
    <3>1. k \in Nat \ {0, 1}
      BY <1>1
    <3>2. k - 1 \in Nat /\ k = (k - 1) + 1
      BY <3>1
    <3> QED BY <3>1, <3>2
  <2>3. m \div D \in Nat /\ k \div D \in Nat /\ (m + 1) \div D <= (m \div D) + 1
    BY <2>2, DivMod, DivNext
  <2>4. PICK a \in Nat, b \in Nat : a = m \div D /\ b = k \div D /\ b <= a + 1
    BY <2>2, <2>3
  <2>5. LastBlk(in) = a /\ LastBlk(x) = b /\ n = b
    <3>1. x.size = k + 1
      BY <1>1 DEF GrownInode
    <3> HIDE DEF x
    <3>2. x.size - 1 = k /\ in.size - 1 = m
      BY <1>1, <2>2, <3>1
    <3> QED BY <2>1, <2>4, <3>2, Zenon DEF LastBlk
  <2>6. b \in 0..MaxBlocks-1
    BY <2>4, <2>5, Sizes
  <2>7. ~(b <= a)
    BY <1>1, <2>5, <2>6 DEF DirOK
  <2> HIDE DEF x
  <2> QED BY <2>4, <2>5, <2>6, <2>7
<1>3. PICK f \in [0..MaxBlocks-1 -> Pointers] :
        /\ f = [in.blocks EXCEPT ![n] = new] /\ f[n] = new /\ \A m \in 0..MaxBlocks-1 : m # n => f[m] = in.blocks[m]
  <2>1. in.blocks \in [0..MaxBlocks-1 -> Pointers] /\ n \in 0..MaxBlocks-1 /\ new \in Pointers
    BY <1>1, <1>2 DEF Inodes, Pointers
  <2> DEFINE F == [in.blocks EXCEPT ![n] = new]
  <2>2. F \in [0..MaxBlocks-1 -> Pointers] /\ F[n] = new /\ \A m \in 0..MaxBlocks-1 : m # n => F[m] = in.blocks[m]
    BY <2>1
  <2> HIDE DEF F
  <2>3. F = [in.blocks EXCEPT ![n] = new]
    BY DEF F
  <2> QED BY <2>2, <2>3
<1>4. x \in Inodes /\ x.type = Dir /\ x.size = k + 1 /\ x.blocks = f
  BY <1>1, <1>3 DEF Inodes, GrownInode
<1> HIDE DEF x
<1>5. /\ Shape(g) /\ g.inode[d] = x /\ g.data[new] = EmptyDir /\ \A b \in Block \ {new} : g.data[b] = s.data[b]
  <2>1. d \in Ino /\ x \in Inodes
    BY <1>1, <1>4
  <2> HIDE DEF g
  <2>2. g = Taken(s, d, x, new, EmptyDir)
    BY DEF g
  <2>3. IsTaken(g, s, d, x, new, EmptyDir)
    BY <2>1, <2>2, TakenIs, Zenon
  <2> QED BY <2>3 DEF IsTaken
<1> HIDE DEF g
<1>6. ASSUME NEW m \in 0..MaxBlocks-1, in.blocks[m] # Nil PROVE in.blocks[m] \in Block \ {new}
  <2>1. in.blocks[m] \in Blocks(s, d)
    BY <1>1, <1>6, DirBlocks
  <2>2. in.blocks[m] \in s.bm
    BY <2>1, DirBlocks
  <2> QED BY <2>2, ShapeParts
<1>7. DirOK(g, x)
  <2>1. ASSUME NEW m \in 0..MaxBlocks-1 PROVE x.blocks[m] # Nil <=> m <= LastBlk(x)
    <3>1. CASE m = n
      BY <1>2, <1>3, <1>4, <3>1, BlockNat
    <3>2. CASE m # n
      <4>1. in.blocks[m] # Nil <=> m <= LastBlk(in)
        BY <1>1 DEF DirOK
      <4>2. m <= LastBlk(in) <=> m <= LastBlk(x)
        BY <1>2, <3>2
      <4> QED BY <1>3, <1>4, <3>2, <4>1, <4>2
    <3> QED BY <3>1, <3>2
  <2>2. ASSUME NEW m \in 0..MaxBlocks-1, x.blocks[m] \in Block PROVE DirSector(g.data[x.blocks[m]])
    <3>1. CASE m = n
      BY <1>3, <1>4, <1>5, <3>1, EmptyDirIs
    <3>2. CASE m # n
      <4>1. x.blocks[m] = in.blocks[m] /\ in.blocks[m] # Nil /\ in.blocks[m] \in Block
        BY <1>3, <1>4, <2>2, <3>2, BlockNat
      <4>2. DirSector(s.data[in.blocks[m]])
        BY <1>1, <4>1 DEF DirOK
      <4> QED BY <1>5, <1>6, <4>1, <4>2
    <3> QED BY <3>1, <3>2
  <2>3. k + 1 >= 2
    BY <1>1
  <2> QED BY <1>4, <2>1, <2>2, <2>3 DEF DirOK
<1>8. {x.blocks[m] : m \in 0..MaxBlocks-1} \ {Nil} = Blocks(s, d) \cup {new}
  <2>1. Blocks(s, d) = {in.blocks[m] : m \in 0..MaxBlocks-1} \ {Nil}
    BY <1>1, DirBlocks
  <2>2. ASSUME NEW b PROVE b \in {x.blocks[m] : m \in 0..MaxBlocks-1} \ {Nil} <=> b \in Blocks(s, d) \cup {new}
    <3>1. ASSUME b \in {x.blocks[m] : m \in 0..MaxBlocks-1} \ {Nil} PROVE b \in Blocks(s, d) \cup {new}
      <4>1. PICK m \in 0..MaxBlocks-1 : b = x.blocks[m] /\ b # Nil
        BY <3>1
      <4> QED BY <1>3, <1>4, <2>1, <4>1
    <3>2. ASSUME b \in Blocks(s, d) PROVE b \in {x.blocks[m] : m \in 0..MaxBlocks-1} \ {Nil}
      <4>1. PICK m \in 0..MaxBlocks-1 : b = in.blocks[m] /\ b # Nil
        BY <2>1, <3>2
      <4>2. m # n
        BY <1>1, <4>1
      <4> QED BY <1>3, <1>4, <4>1, <4>2
    <3>3. new \in {x.blocks[m] : m \in 0..MaxBlocks-1} \ {Nil}
      BY <1>2, <1>3, <1>4, BlockNat
    <3> QED BY <3>1, <3>2, <3>3
  <2> QED BY <2>2
<1>9. ASSUME NEW m \in 0..MaxBlocks-1, NEW q \in 0..MaxBlocks-1, x.blocks[m] # Nil, x.blocks[m] = x.blocks[q]
      PROVE  m = q
  <2>1. CASE m # n /\ q # n
    <3>1. x.blocks[m] = in.blocks[m] /\ x.blocks[q] = in.blocks[q]
      BY <1>3, <1>4, <2>1
    <3>2. in.blocks[m] # Nil /\ in.blocks[m] = in.blocks[q]
      BY <1>9, <3>1, Zenon
    <3> QED BY <1>1, <3>2, DirBlocks, Zenon
  <2>2. CASE m = n \/ q = n
    BY <1>3, <1>4, <1>6, <1>9, <2>2
  <2> QED BY <2>1, <2>2
<1>10. Sectors(g) /\ Own(g) /\ Others(s, g, d)
  BY <1>1, <1>4, <1>7, <1>8, <1>9, TakenKeeps DEF g
<1>11. d \in Dirs(g)
  BY <1>1, <1>4, <1>5 DEF Dirs
<1>12. ASSUME NEW j \in 0..k-1 PROVE Ent(g, d, j) = Ent(s, d, j)
  <2>1. PICK m \in 0..MaxBlocks-1 : m = j \div DePerBlk /\ in.blocks[m] \in Block
    BY <1>1, SlotIs
  <2>2. m # n /\ in.blocks[m] # Nil
    BY <1>1, <2>1, BlockNat
  <2>3. x.blocks[m] = in.blocks[m] /\ g.data[in.blocks[m]] = s.data[in.blocks[m]]
    BY <1>3, <1>4, <1>5, <1>6, <2>2
  <2> QED BY <1>1, <1>5, <2>1, <2>3 DEF Ent, Entry
<1> QED BY <1>1, <1>4, <1>5, <1>10, <1>11, <1>12 DEF g, x

LEMMA OthersTrans ==
  ASSUME NEW s, NEW g, NEW t, NEW d, Shape(s), Sectors(s), Others(s, g, d), Others(g, t, d)
  PROVE  Others(s, t, d)
<1> SUFFICES ASSUME NEW i \in Ino \ {d}
             PROVE  t.inode[i] = s.inode[i] /\ (i \in Allocated(s) => Untouched(s, t, i))
  BY DEF Others
<1>1. t.inode[i] = s.inode[i]
  BY DEF Others
<1>2. ASSUME i \in Allocated(s) PROVE Untouched(s, t, i)
  <2>1. Untouched(s, g, i)
    BY <1>2 DEF Others
  <2>2. i \in Allocated(g) /\ Blocks(g, i) = Blocks(s, i)
    BY <1>2, <2>1, UntouchedIs
  <2>3. Untouched(g, t, i)
    BY <2>2 DEF Others
  <2> QED BY <1>1, <2>1, <2>2, <2>3 DEF Untouched
<1> QED BY <1>1, <1>2

LEMMA FlushKeeps ==
  ASSUME NEW s, Shape(s), Sectors(s), Own(s)
  PROVE  LET t == Flush(s)
         IN  /\ Shape(t) /\ Sectors(t) /\ Own(t) /\ t.inode = s.inode /\ t.bm = s.bm
             /\ \A d : Others(s, t, d) /\ \A k : Ent(t, d, k) = Ent(s, d, k)
<1> DEFINE t == Flush(s)
<1>1. Shape(t) /\ t.bm = s.bm /\ t.inode = s.inode /\ t.data = s.data
  BY FlushIs
<1> HIDE DEF t
<1>2. \A i : Untouched(s, t, i)
  BY <1>1 DEF Untouched
<1>3. Allocated(t) = Allocated(s)
  BY <1>1 DEF Allocated
<1>4. Own(t)
  <2>1. t.bm = s.bm \ UNION {Blocks(s, i) : i \in {}}
    BY <1>1
  <2>2. {} \in SUBSET Ino /\ \A i \in Ino : IF i \in Allocated(s) \ {} THEN Untouched(s, t, i) ELSE i \notin Allocated(t)
    BY <1>2, <1>3
  <2> QED BY <2>1, <2>2, OwnRemoved
<1>5. Sectors(t)
  BY <1>1, <1>2, <1>3, UntouchedIs DEF Sectors
<1>6. \A d : Others(s, t, d) /\ \A k : Ent(t, d, k) = Ent(s, d, k)
  BY <1>1, <1>2 DEF Others, Ent, Entry
<1> QED BY <1>1, <1>4, <1>5, <1>6 DEF t

Small(s) == \A d \in Dirs(s) : s.inode[d].size <= MaxDirect * DePerBlk

(* An entry is added to a directory, in slot k. *)
Added(s, t, d, k, e) ==
  /\ Shape(t) /\ Sectors(t) /\ Own(t) /\ Others(s, t, d) /\ d \in Dirs(t)
  /\ k \in 0..t.inode[d].size-1
  /\ \/ t.inode[d].size = s.inode[d].size /\ Ent(s, d, k).name = ""
     \/ k = s.inode[d].size /\ t.inode[d].size = k + 1
  /\ Ent(t, d, k) = e
  /\ \A j \in 0..s.inode[d].size-1 : j # k => Ent(t, d, j) = Ent(s, d, j)

(* The new slot is there, and gets the entry. *)
LEMMA GrownPut ==
  ASSUME NEW s, NEW g, NEW d \in Dirs(s), NEW k, k = s.inode[d].size, NEW e \in Entries, NEW in,
         Shape(s), Sectors(s), Shape(g), Sectors(g), Own(g), Others(s, g, d), d \in Dirs(g),
         g.inode[d].size = k + 1, in.blocks = g.inode[d].blocks, \A j \in 0..k-1 : Ent(g, d, j) = Ent(s, d, j)
  PROVE  Added(s, Flush(PutEntry(g, in, k, e)), d, k, e)
<1> DEFINE t == PutEntry(g, in, k, e)
           z == Flush(t)
<1>1. k \in Nat \ {0, 1}
  BY DirsAre
<1>2. k \in 0..g.inode[d].size-1
  BY <1>1
<1>3. /\ Shape(t) /\ Sectors(t) /\ Own(t) /\ Others(g, t, d) /\ t.inode = g.inode
      /\ \A j \in 0..g.inode[d].size-1 : Ent(t, d, j) = IF j = k THEN e ELSE Ent(g, d, j)
  BY <1>2, PutEntryKeeps DEF HasPut
<1> HIDE DEF t
<1>4. /\ Shape(z) /\ Sectors(z) /\ Own(z) /\ Others(t, z, d) /\ z.inode = t.inode
      /\ \A j : Ent(z, d, j) = Ent(t, d, j)
  BY <1>3, FlushKeeps
<1> HIDE DEF z
<1>5. Others(s, z, d)
  BY <1>3, <1>4, OthersTrans
<1>6. d \in Dirs(z)
  BY <1>3, <1>4 DEF Dirs
<1>7. ASSUME NEW j \in 0..k-1, j # k PROVE Ent(z, d, j) = Ent(s, d, j)
  <2>1. j \in 0..g.inode[d].size-1
    BY <1>1
  <2> QED BY <1>3, <1>4, <1>7, <2>1
<1>8. Ent(z, d, k) = e
  BY <1>2, <1>3, <1>4
<1>9. Added(s, z, d, k, e)
  BY <1>2, <1>3, <1>4, <1>5, <1>6, <1>7, <1>8 DEF Added
<1> QED BY <1>9 DEF z, t

GrownOf(s, d, n, new) == [s EXCEPT !.bm = @ \cup {new}, !.data[new] = EmptyDir, !.inode[d].blocks[n] = new]
(* The inode with one more block and slot is what the step leaves. *)
Grows(s, d, n, new) ==
  LET u == GrownOf(s, d, n, new)
      x == GrownInode(s.inode[d], n, new)
  IN  u.inode[d].blocks = x.blocks /\ [u EXCEPT !.inode[d].size = s.inode[d].size + 1] = Taken(s, d, x, new, EmptyDir)
LEMMA GrownIs ==
  ASSUME NEW s, Shape(s), NEW d \in Ino, s.inode[d].type = Dir, NEW n \in 0..MaxBlocks-1, NEW new \in Block
  PROVE  Grows(s, d, n, new)
<1>1. PICK b0, d0, i0, x0 : s = [bm |-> b0, dbm |-> d0, inode |-> i0, data |-> x0] /\ s.inode = i0 /\ s.bm = b0 /\ s.data = x0
  <2>1. s = [bm |-> s.bm, dbm |-> s.dbm, inode |-> s.inode, data |-> s.data]
    BY DEF Shape
  <2> QED BY <2>1
<1>2. PICK z, f : i0[d] = [type |-> Dir, size |-> z, blocks |-> f] /\ i0[d].size = z /\ i0[d].blocks = f /\ i0 \in [Ino -> Inodes]
  <2>1. s.inode[d] \in Inodes /\ i0 \in [Ino -> Inodes]
    BY <1>1, ShapeParts
  <2> QED BY <1>1, <2>1, InodeParts
<1>3. PICK g : g = [f EXCEPT ![n] = new]
  OBVIOUS
<1>4. GrownInode(s.inode[d], n, new) = [type |-> Dir, size |-> z + 1, blocks |-> g]
  BY <1>1, <1>2, <1>3 DEF GrownInode
<1> DEFINE u == GrownOf(s, d, n, new)
           i1 == [i0 EXCEPT ![d] = [type |-> Dir, size |-> z, blocks |-> g]]
           i2 == [i0 EXCEPT ![d] = [type |-> Dir, size |-> z + 1, blocks |-> g]]
<1>5. u = [bm |-> b0 \cup {new}, dbm |-> d0, inode |-> i1, data |-> [x0 EXCEPT ![new] = EmptyDir]]
  <2>1. [i0 EXCEPT ![d].blocks[n] = new] = i1
    <3>1. PICK r1, r2 : r1 = [type |-> Dir, size |-> z, blocks |-> f] /\ r2 = [type |-> Dir, size |-> z, blocks |-> g]
      OBVIOUS
    <3>2. r1.blocks = f
      BY <3>1
    <3>3. [r1 EXCEPT !.blocks = g] = r2
      BY <3>1
    <3>4. [r1 EXCEPT !.blocks[n] = new] = r2
      BY <1>3, <3>2, <3>3
    <3>5. [i0 EXCEPT ![d] = [r1 EXCEPT !.blocks[n] = new]] = i1
      BY <3>1, <3>4, Zenon
    <3>6. i0[d] = r1
      BY <1>2, <3>1
    <3> QED BY <3>5, <3>6
  <2>2. u = [s EXCEPT !.bm = b0 \cup {new}, !.data = [x0 EXCEPT ![new] = EmptyDir], !.inode = [i0 EXCEPT ![d].blocks[n] = new]]
    BY <1>1 DEF GrownOf
  <2> HIDE DEF u, i1
  <2>3. u = [s EXCEPT !.bm = b0 \cup {new}, !.data = [x0 EXCEPT ![new] = EmptyDir], !.inode = i1]
    BY <2>1, <2>2
  <2> QED BY <1>1, <2>3
<1> HIDE DEF u
<1>6. Taken(s, d, GrownInode(s.inode[d], n, new), new, EmptyDir)
        = [bm |-> b0 \cup {new}, dbm |-> d0, inode |-> i2, data |-> [x0 EXCEPT ![new] = EmptyDir]]
  <2>1. PICK x : x = [type |-> Dir, size |-> z + 1, blocks |-> g] /\ x = GrownInode(s.inode[d], n, new)
    BY <1>4
  <2>2. Taken(s, d, x, new, EmptyDir)
          = [s EXCEPT !.bm = b0 \cup {new}, !.data = [x0 EXCEPT ![new] = EmptyDir], !.inode = [i0 EXCEPT ![d] = x]]
    BY <1>1 DEF Taken
  <2>3. i2 = [i0 EXCEPT ![d] = x]
    BY <2>1
  <2> HIDE DEF i2
  <2> QED BY <1>1, <2>1, <2>2, <2>3
<1>7. i1[d] = [type |-> Dir, size |-> z, blocks |-> g] /\ [i1 EXCEPT ![d].size = z + 1] = i2
  <2>1. PICK r1, r2 : r1 = [type |-> Dir, size |-> z, blocks |-> g] /\ r2 = [type |-> Dir, size |-> z + 1, blocks |-> g]
    OBVIOUS
  <2>2. i1 = [i0 EXCEPT ![d] = r1] /\ i2 = [i0 EXCEPT ![d] = r2] /\ d \in DOMAIN i0
    BY <1>2, <2>1
  <2>3. [r1 EXCEPT !.size = z + 1] = r2
    BY <2>1
  <2> HIDE DEF i1, i2
  <2>4. i1[d] = r1
    BY <2>2
  <2>5. [i1 EXCEPT ![d] = r2] = i2
    BY <2>2
  <2> QED BY <2>1, <2>3, <2>4, <2>5
<1>8. u.inode[d].blocks = g
  <2> HIDE DEF i1
  <2> QED BY <1>5, <1>7
<1>9. [u EXCEPT !.inode[d].size = z + 1] = [bm |-> b0 \cup {new}, dbm |-> d0, inode |-> i2, data |-> [x0 EXCEPT ![new] = EmptyDir]]
  <2>1. u.inode = i1
    BY <1>5
  <2> HIDE DEF i1, i2
  <2>2. [u EXCEPT !.inode[d].size = z + 1] = [u EXCEPT !.inode = [i1 EXCEPT ![d].size = z + 1]]
    BY <2>1
  <2>3. [u EXCEPT !.inode[d].size = z + 1] = [u EXCEPT !.inode = i2]
    BY <1>7, <2>2
  <2>4. PICK b1, x1 : b1 = b0 \cup {new} /\ x1 = [x0 EXCEPT ![new] = EmptyDir]
    OBVIOUS
  <2>5. u = [bm |-> b1, dbm |-> d0, inode |-> i1, data |-> x1]
    BY <1>5, <2>4, Zenon
  <2>6. [u EXCEPT !.inode = i2] = [bm |-> b1, dbm |-> d0, inode |-> i2, data |-> x1]
    BY <2>5
  <2> QED BY <2>3, <2>4, <2>6, Zenon
<1>10. s.inode[d].size = z /\ GrownInode(s.inode[d], n, new).blocks = g
  BY <1>1, <1>2, <1>4
<1> QED BY <1>6, <1>8, <1>9, <1>10 DEF u, Grows

LEMMA DirAppendIs ==
  ASSUME NEW s, NEW d, NEW e
  PROVE  LET in == s.inode[d]
             k == in.size
             n == k \div DePerBlk
             u == GrownOf(s, d, n, Alloc(s, 0))
         IN  DirAppend(s, d, e) =
               IF n >= MaxBlocks THEN Fail(s)
               ELSE IF in.blocks[n] # Nil THEN Ok(Flush(PutEntry([s EXCEPT !.inode[d].size = k + 1], in, k, e)))
               ELSE IF Alloc(s, 0) = Nil THEN Fail(s)
               ELSE Ok(Flush(PutEntry([u EXCEPT !.inode[d].size = k + 1], u.inode[d], k, e)))
BY DEF DirAppend, GrownOf

LEMMA OkFail == \A s : Ok(s).ok = TRUE /\ Ok(s).fs = s /\ Fail(s).ok = FALSE /\ Fail(s).fs = s
BY DEF Ok, Fail

LEMMA DirAppendAdds ==
  ASSUME NEW s, Shape(s), Sectors(s), Own(s), NEW d \in Dirs(s), NEW e \in Entries
  PROVE  LET a == DirAppend(s, d, e)
         IN  IF a.ok THEN Small(a.fs) => Added(s, a.fs, d, s.inode[d].size, e) ELSE a.fs = s
<1>1. PICK in \in Inodes : in = s.inode[d] /\ in.type = Dir /\ d \in Ino /\ DirOK(s, in) /\ in.size \in Nat \ {0, 1}
  BY DirsAre DEF Dirs
<1>2. PICK k \in Nat, n \in Nat : k = in.size /\ n = k \div DePerBlk
  <2>1. in.size \in Nat
    BY <1>1
  <2> QED BY <2>1, DivMod, Sizes
<1>3. PICK new : new = Alloc(s, 0) /\ new \in (Block \ s.bm) \cup {Nil}
  BY AllocTakes
<1> DEFINE a == DirAppend(s, d, e)
           g1 == [s EXCEPT !.inode[d].size = k + 1]
           u == GrownOf(s, d, n, new)
           g2 == [u EXCEPT !.inode[d].size = k + 1]
<1>4. a = IF n >= MaxBlocks THEN Fail(s)
          ELSE IF in.blocks[n] # Nil THEN Ok(Flush(PutEntry(g1, in, k, e)))
          ELSE IF new = Nil THEN Fail(s) ELSE Ok(Flush(PutEntry(g2, u.inode[d], k, e)))
  BY <1>1, <1>2, <1>3, DirAppendIs, Zenon
<1> DEFINE Goal == IF a.ok THEN Small(a.fs) => Added(s, a.fs, d, k, e) ELSE a.fs = s
<1> HIDE DEF a, g1, g2, u
<1>5. ASSUME NEW t, Small(t), Added(s, t, d, k, e) \/ (t.inode[d].size = k + 1 /\ d \in Dirs(t))
      PROVE  k + 1 <= MaxDirect * DePerBlk
  <2>1. t.inode[d].size = k + 1 /\ d \in Dirs(t)
    <3>1. CASE Added(s, t, d, k, e)
      <4>1. k \in 0..t.inode[d].size-1 /\ d \in Dirs(t) /\ s.inode[d].size = k
        BY <1>1, <1>2, <3>1 DEF Added
      <4>2. k < t.inode[d].size
        <5>1. t.inode[d] \in Inodes
          BY <3>1, <4>1, DirsAre DEF Added
        <5> QED BY <4>1, <5>1, InodeParts
      <4>3. t.inode[d].size = k \/ t.inode[d].size = k + 1
        BY <1>1, <1>2, <3>1 DEF Added
      <4> QED BY <4>1, <4>2, <4>3
    <3> QED BY <1>5, <3>1
  <2> QED BY <1>5, <2>1 DEF Small
<1>6. ASSUME n < MaxBlocks, in.blocks[n] # Nil PROVE Goal
  <2>1. a = Ok(Flush(PutEntry(g1, in, k, e)))
    BY <1>2, <1>4, <1>6, Sizes
  <2>2. a.ok = TRUE /\ a.fs = Flush(PutEntry(g1, in, k, e))
    BY <2>1, OkFail
  <2>3. k + 1 <= MaxDirect * DePerBlk
    (* The last block has room, so it is a direct one. *)
    <3>1. PICK D \in Nat \ {0} : D = DePerBlk
      BY Sizes
    <3>2. n \in 0..MaxBlocks-1
      BY <1>2, <1>6, Sizes
    <3>3. n <= LastBlk(in) /\ LastBlk(in) \in 0..MaxDirect-1
      BY <1>1, <1>6, <3>2, DirDirect DEF DirOK
    <3>4. k = n * D + (k % D) /\ k % D \in 0..D-1
      BY <1>2, <3>1, DivMod
    <3>5. PICK r \in 0..D-1 : k = n * D + r
      BY <3>4
    <3>6. PICK M \in Nat : M = MaxDirect /\ n + 1 <= M
      BY <3>3, Sizes
    <3>7. (n + 1) * D <= M * D
      BY <3>6
    <3>8. (n + 1) * D = n * D + D
      OBVIOUS
    <3>9. PICK y \in Nat, x \in Nat : y = n * D /\ x = M * D
      BY <3>6, Product
    <3>10. k + 1 <= x
      BY <3>5, <3>7, <3>8, <3>9
    <3> QED BY <3>1, <3>6, <3>9, <3>10
  <2>4. /\ Shape(g1) /\ Sectors(g1) /\ Own(g1) /\ Others(s, g1, d) /\ d \in Dirs(g1)
        /\ g1.inode[d].size = k + 1 /\ g1.inode[d].blocks = s.inode[d].blocks
        /\ \A j \in 0..k-1 : Ent(g1, d, j) = Ent(s, d, j)
    <3>1. k \div DePerBlk < MaxBlocks /\ s.inode[d].blocks[k \div DePerBlk] # Nil /\ k = s.inode[d].size
      BY <1>1, <1>2, <1>6
    <3>2. g1 = [s EXCEPT !.inode[d].size = k + 1]
      BY DEF g1
    <3>3. HasGrown(s, g1, d, k)
      BY <2>3, <3>1, <3>2, GrowSlot
    <3> QED BY <3>3 DEF HasGrown
  <2>5. Added(s, a.fs, d, k, e)
    BY <1>1, <1>2, <2>2, <2>4, GrownPut
  <2> QED BY <2>2, <2>5
<1>7. ASSUME n < MaxBlocks, in.blocks[n] = Nil, new # Nil PROVE Goal
  <2>1. a = Ok(Flush(PutEntry(g2, u.inode[d], k, e)))
    BY <1>2, <1>4, <1>7, Sizes
  <2>2. a.ok = TRUE /\ a.fs = Flush(PutEntry(g2, u.inode[d], k, e))
    BY <2>1, OkFail
  <2> DEFINE x == GrownInode(in, n, new)
  <2>3. n \in 0..MaxBlocks-1 /\ new \in Block /\ new \notin s.bm
    BY <1>2, <1>3, <1>7, Sizes
  <2>4. u.inode[d].blocks = x.blocks /\ g2 = Taken(s, d, x, new, EmptyDir)
    <3>1. s.inode[d].type = Dir /\ d \in Ino /\ s.inode[d].size = k /\ s.inode[d] = in
      BY <1>1, <1>2
    <3>2. Grows(s, d, n, new)
      BY <2>3, <3>1, GrownIs
    <3>3. g2 = [u EXCEPT !.inode[d].size = s.inode[d].size + 1]
      BY <3>1, Zenon DEF g2
    <3> QED BY <3>1, <3>2, <3>3, Zenon DEF Grows, u
  <2>5. x \in Inodes /\ x.size = k + 1 /\ x.type = Dir
    <3>1. in.blocks \in [0..MaxBlocks-1 -> Pointers]
      BY DEF Inodes
    <3>2. [in.blocks EXCEPT ![n] = new] \in [0..MaxBlocks-1 -> Pointers]
      BY <2>3, <3>1 DEF Pointers
    <3> QED BY <1>2, <3>2 DEF Inodes, GrownInode
  <2> HIDE DEF x
  <2>6. IsTaken(g2, s, d, x, new, EmptyDir)
    BY <1>1, <2>3, <2>4, <2>5, TakenIs
  <2>7. g2.inode[d].size = k + 1 /\ d \in Dirs(g2) /\ g2.inode[d] = x
    BY <1>1, <2>5, <2>6 DEF IsTaken, Dirs
  <2>8. ASSUME Small(a.fs) PROVE Added(s, a.fs, d, k, e)
    <3>1. a.fs.inode = g2.inode
      <4>1. g2 = [bm |-> g2.bm, dbm |-> g2.dbm, inode |-> g2.inode, data |-> g2.data]
        BY <2>6 DEF IsTaken, Shape
      <4>2. PICK y : PutEntry(g2, u.inode[d], k, e) = [g2 EXCEPT !.data = y]
        BY DEF PutEntry
      <4>3. a.fs = [bm |-> g2.bm, dbm |-> g2.bm, inode |-> g2.inode, data |-> y]
        <5>1. PutEntry(g2, u.inode[d], k, e) = [bm |-> g2.bm, dbm |-> g2.dbm, inode |-> g2.inode, data |-> y]
          BY <4>1, <4>2
        <5> QED BY <2>2, <5>1 DEF Flush
      <4> QED BY <4>3
    <3>2. k + 1 <= MaxDirect * DePerBlk
      <4>1. a.fs.inode[d].size = k + 1 /\ d \in Dirs(a.fs)
        BY <2>7, <3>1 DEF Dirs
      <4> QED BY <1>5, <2>8, <4>1
    <3>3. /\ Shape(g2) /\ Sectors(g2) /\ Own(g2) /\ Others(s, g2, d)
          /\ \A j \in 0..k-1 : Ent(g2, d, j) = Ent(s, d, j)
      <4>1. k = s.inode[d].size /\ n = k \div DePerBlk /\ s.inode[d].blocks[n] = Nil /\ n < MaxBlocks
        BY <1>1, <1>2, <1>7
      <4>2. g2 = Taken(s, d, GrownInode(s.inode[d], n, new), new, EmptyDir)
        BY <1>1, <2>4 DEF x
      <4> QED BY <2>3, <3>2, <4>1, <4>2, GrowBlock
    <3>4. u.inode[d].blocks = g2.inode[d].blocks
      BY <2>4, <2>7
    <3> QED BY <1>1, <1>2, <2>2, <2>7, <3>3, <3>4, GrownPut
  <2> QED BY <2>2, <2>8
<1>8. ASSUME n >= MaxBlocks \/ (in.blocks[n] = Nil /\ new = Nil) PROVE Goal
  <2>1. a = Fail(s)
    BY <1>4, <1>8
  <2> QED BY <2>1, OkFail
<1>9. Goal
  <2> HIDE DEF Goal
  <2>1. n < MaxBlocks \/ n >= MaxBlocks
    BY <1>2, Sizes
  <2>2. CASE n >= MaxBlocks
    BY <1>8, <2>2
  <2>3. CASE n < MaxBlocks /\ in.blocks[n] # Nil
    BY <1>6, <2>3
  <2>4. CASE n < MaxBlocks /\ in.blocks[n] = Nil /\ new # Nil
    BY <1>7, <2>4
  <2>5. CASE n < MaxBlocks /\ in.blocks[n] = Nil /\ new = Nil
    BY <1>8, <2>5
  <2> QED BY <2>1, <2>2, <2>3, <2>4, <2>5
<1> QED BY <1>1, <1>2, <1>9 DEF a

LEMMA DirAddAdds ==
  ASSUME NEW s, Shape(s), Sectors(s), Own(s), NEW d \in Ino, NEW e \in Entries
  PROVE  LET a == DirAdd(s, d, e)
         IN  IF a.ok THEN d \in Dirs(s) /\ (Small(a.fs) => \E k : Added(s, a.fs, d, k, e)) ELSE a.fs = s
<1> DEFINE a == DirAdd(s, d, e)
           in == s.inode[d]
           gaps == {k \in Slots(in) : Entry(s, in, k).ino = 0 /\ Entry(s, in, k).name = ""}
           Goal == IF a.ok THEN d \in Dirs(s) /\ (Small(a.fs) => \E k : Added(s, a.fs, d, k, e)) ELSE a.fs = s
<1>1. a = IF in.type # Dir THEN Fail(s) ELSE IF gaps # {} THEN Ok(PutEntry(s, in, Min(gaps), e)) ELSE DirAppend(s, d, e)
  BY Zenon DEF DirAdd
<1> HIDE DEF a
<1>2. ASSUME in.type # Dir PROVE Goal
  BY <1>1, <1>2, OkFail
<1>3. ASSUME in.type = Dir, gaps # {} PROVE Goal
  <2>1. d \in Dirs(s) /\ in = s.inode[d]
    BY <1>3 DEF Dirs
  <2>2. gaps \subseteq 0..in.size-1 /\ in.size \in Nat
    BY <2>1, DirsAre
  <2>3. PICK k \in gaps : k = Min(gaps)
    <3> HIDE DEF gaps
    <3>1. gaps \in SUBSET Nat
      BY <2>2
    <3> QED BY <1>3, <3>1, MinIsLeast
  <2>4. k \in 0..s.inode[d].size-1 /\ Ent(s, d, k).name = ""
    BY <2>2, <2>3 DEF Ent
  <2> DEFINE t == PutEntry(s, in, k, e)
  <2> HIDE DEF gaps
  <2>5. a.ok = TRUE /\ a.fs = t
    <3>1. a = Ok(t)
      BY <1>1, <1>3, <2>3, Zenon
    <3> QED BY <3>1, OkFail
  <2>6. /\ Shape(t) /\ Sectors(t) /\ Own(t) /\ Others(s, t, d) /\ t.inode = s.inode
        /\ \A j \in 0..s.inode[d].size-1 : Ent(t, d, j) = IF j = k THEN e ELSE Ent(s, d, j)
    <3>1. PICK x : x = s.inode[d]
      OBVIOUS
    <3>2. x.blocks = s.inode[d].blocks /\ t = PutEntry(s, x, k, e)
      BY <3>1
    <3> HIDE DEF t
    <3>3. HasPut(s, t, d, k, e)
      BY <2>1, <2>4, <3>2, PutEntryKeeps
    <3> QED BY <3>3 DEF HasPut
  <2> HIDE DEF t
  <2>7. d \in Dirs(t)
    BY <2>1, <2>6 DEF Dirs
  <2>8. Added(s, t, d, k, e)
    BY <2>4, <2>6, <2>7 DEF Added
  <2> QED BY <2>1, <2>5, <2>8
<1>4. ASSUME in.type = Dir, gaps = {} PROVE Goal
  <2>1. d \in Dirs(s)
    BY <1>4 DEF Dirs
  <2>2. a = DirAppend(s, d, e)
    BY <1>1, <1>4
  <2>3. IF a.ok THEN Small(a.fs) => Added(s, a.fs, d, s.inode[d].size, e) ELSE a.fs = s
    BY <2>1, <2>2, DirAppendAdds
  <2> QED BY <2>1, <2>3
<1>5. Goal
  <2> HIDE DEF Goal, gaps
  <2> QED BY <1>2, <1>3, <1>4
<1> QED BY <1>5 DEF a

-----------------------------------------------------------------------------
(* The tree.                                                                 *)
LinkAt(s, d, k) == d \in Dirs(s) /\ k \in 2..s.inode[d].size-1 /\ Ent(s, d, k).name # ""
Dots(s) == Root \in Dirs(s) /\ \A d \in Dirs(s) : Ent(s, d, 0).name = "." /\ Ent(s, d, 1).name = ".."
Slotted(s) ==
  \A d \in Dirs(s) : \A k \in 2..s.inode[d].size-1 : Ent(s, d, k) = EmptyEntry \/ Ent(s, d, k).name \in Names
Linked(s) ==
  \A d, k : LinkAt(s, d, k) => /\ Ent(s, d, k).ino \in Allocated(s) /\ Ent(s, d, k).ino # Root
                               /\ Ent(s, d, k).type = s.inode[Ent(s, d, k).ino].type
OneLink(s) ==
  \A d, k, e, j : LinkAt(s, d, k) /\ LinkAt(s, e, j) /\ Ent(s, d, k).ino = Ent(s, e, j).ino => d = e /\ k = j
OneName(s) ==
  \A d, k, j : LinkAt(s, d, k) /\ LinkAt(s, d, j) /\ Ent(s, d, k).name = Ent(s, d, j).name => k = j
NoOrphan(s) == \A i \in Allocated(s) \ {Root} : \E d, k : LinkAt(s, d, k) /\ Ent(s, d, k).ino = i
Parents(s) ==
  /\ Ent(s, Root, 1).ino = Root
  /\ \A d, k : LinkAt(s, d, k) /\ Ent(s, d, k).type = Dir => Ent(s, Ent(s, d, k).ino, 1).ino = d
TreeOK(s) ==
  Dots(s) /\ Slotted(s) /\ Linked(s) /\ OneLink(s) /\ OneName(s) /\ NoOrphan(s) /\ Parents(s)

(* Nothing of the tree changes. *)
SameTree(s, t) ==
  /\ \A i \in Ino : t.inode[i].type = s.inode[i].type
  /\ \A d \in Dirs(s) : /\ t.inode[d].size = s.inode[d].size
                        /\ \A k \in 0..s.inode[d].size-1 : Ent(t, d, k) = Ent(s, d, k)
LEMMA SameTreeKeeps ==
  ASSUME NEW s, NEW t, Shape(s), Sectors(s), TreeOK(s), SameTree(s, t)
  PROVE  TreeOK(t)
<1>1. Dirs(t) = Dirs(s) /\ Allocated(t) = Allocated(s)
  BY DEF SameTree, Dirs, Allocated
<1>2. ASSUME NEW d \in Dirs(s), NEW k \in 0..s.inode[d].size-1 PROVE Ent(t, d, k) = Ent(s, d, k)
  BY DEF SameTree
<1>3. ASSUME NEW d \in Dirs(s)
      PROVE  /\ t.inode[d].size = s.inode[d].size /\ s.inode[d].size \in Nat \ {0, 1}
             /\ 0 \in 0..s.inode[d].size-1 /\ 1 \in 0..s.inode[d].size-1
             /\ 2..s.inode[d].size-1 \subseteq 0..s.inode[d].size-1
             /\ Ent(t, d, 0) = Ent(s, d, 0) /\ Ent(t, d, 1) = Ent(s, d, 1)
  <2>1. t.inode[d].size = s.inode[d].size
    BY DEF SameTree
  <2>2. s.inode[d].size \in Nat \ {0, 1}
    BY DirsAre
  <2>3. 0 \in 0..s.inode[d].size-1 /\ 1 \in 0..s.inode[d].size-1 /\ 2..s.inode[d].size-1 \subseteq 0..s.inode[d].size-1
    BY <2>2
  <2> QED BY <1>2, <2>1, <2>2, <2>3
<1>4. ASSUME NEW d, NEW k
      PROVE  (LinkAt(t, d, k) <=> LinkAt(s, d, k)) /\ (LinkAt(s, d, k) => Ent(t, d, k) = Ent(s, d, k))
  BY <1>1, <1>2, <1>3 DEF LinkAt
<1>5. Dots(t)
  BY <1>1, <1>3 DEF TreeOK, Dots
<1>6. Slotted(t)
  BY <1>1, <1>2, <1>3 DEF TreeOK, Slotted
<1>7. ASSUME NEW i \in Allocated(s) PROVE t.inode[i].type = s.inode[i].type
  BY DEF SameTree, Allocated
<1>8. Linked(t)
  BY <1>1, <1>4, <1>7 DEF TreeOK, Linked
<1>9. OneLink(t)
  BY <1>4 DEF TreeOK, OneLink
<1>10. OneName(t)
  BY <1>4 DEF TreeOK, OneName
<1>11. NoOrphan(t)
  BY <1>1, <1>4 DEF TreeOK, NoOrphan
<1>12. Parents(t)
  <2>1. Ent(t, Root, 1).ino = Root
    BY <1>3 DEF TreeOK, Dots, Parents
  <2>2. ASSUME NEW d, NEW k, LinkAt(t, d, k), Ent(t, d, k).type = Dir PROVE Ent(t, Ent(t, d, k).ino, 1).ino = d
    <3>1. PICK i : i = Ent(s, d, k).ino /\ LinkAt(s, d, k) /\ Ent(s, d, k).type = Dir /\ Ent(t, d, k).ino = i
      BY <1>4, <2>2
    <3>2. i \in Dirs(s)
      BY <3>1 DEF TreeOK, Linked, Dirs, Allocated
    <3>3. Ent(s, i, 1).ino = d
      BY <3>1 DEF TreeOK, Parents
    <3> QED BY <1>3, <3>1, <3>2, <3>3
  <2> QED BY <2>1, <2>2 DEF Parents
<1> QED BY <1>5, <1>6, <1>8, <1>9, <1>10, <1>11, <1>12 DEF TreeOK

(* Only a file, or only free inodes, change. *)
LEMMA OthersTree ==
  ASSUME NEW s, NEW t, NEW ino, Shape(s), Sectors(s), Others(s, t, ino), ino \in Ino,
         s.inode[ino].type # Dir, t.inode[ino].type = s.inode[ino].type
  PROVE  SameTree(s, t)
<1>1. \A i \in Ino : t.inode[i].type = s.inode[i].type
  BY DEF Others
<1>2. ASSUME NEW d \in Dirs(s)
      PROVE  t.inode[d].size = s.inode[d].size /\ \A k \in 0..s.inode[d].size-1 : Ent(t, d, k) = Ent(s, d, k)
  <2>1. d \in Ino \ {ino} /\ d \in Allocated(s) /\ DirOK(s, s.inode[d])
    BY DirsAre DEF Dirs
  <2>2. Untouched(s, t, d) /\ t.inode[d] = s.inode[d]
    BY <2>1 DEF Others
  <2> QED BY <2>1, <2>2, UntouchedIs DEF Ent
<1> QED BY <1>1, <1>2 DEF SameTree

LEMMA NamesAre == "" \notin Names /\ "." \notin Names /\ ".." \notin Names
BY FsAssumption

Found(s, d, name, k) == Ent(s, d, k).name = name /\ (Ent(s, d, k).ino # 0 \/ name = "..")
LEMMA DirFindIs ==
  ASSUME NEW s, Shape(s), Sectors(s), NEW d \in Dirs(s), NEW name
  PROVE  LET k == DirFind(s, s.inode[d], name)
         IN  IF k = Nil THEN \A j \in 0..s.inode[d].size-1 : ~Found(s, d, name, j)
             ELSE k \in 0..s.inode[d].size-1 /\ Found(s, d, name, k)
<1> DEFINE in == s.inode[d]
           hits == {k \in Slots(in) : /\ Entry(s, in, k).name = name
                                      /\ Entry(s, in, k).ino # 0 \/ name = ".."}
           k == DirFind(s, in, name)
<1>1. k = IF hits = {} THEN Nil ELSE Min(hits)
  BY Zenon DEF DirFind
<1>2. Slots(in) = 0..in.size-1 /\ in.size \in Nat
  BY DirsAre
<1>3. hits = {j \in 0..in.size-1 : Found(s, d, name, j)}
  BY <1>2 DEF Found, Ent
<1> HIDE DEF hits, k
<1>4. CASE hits = {}
  BY <1>1, <1>3, <1>4 DEF k
<1>5. CASE hits # {}
  <2>1. hits \in SUBSET Nat
    BY <1>2, <1>3
  <2>2. k \in hits
    BY <1>1, <1>5, <2>1, MinIsLeast
  <2>3. k # Nil /\ k \in 0..in.size-1 /\ Found(s, d, name, k)
    BY <1>3, <2>1, <2>2, BlockNat
  <2> QED BY <2>3 DEF k
<1> QED BY <1>4, <1>5

StepOK(s, cur, name, i) ==
  /\ i \in Allocated(s) \cup {Nil}
  /\ i = Nil /\ cur \in Dirs(s) => name \in Names /\ \A k : LinkAt(s, cur, k) => Ent(s, cur, k).name # name
  /\ i # Nil => cur \in Dirs(s)
  /\ i # Nil /\ name \in Names =>
       LET k == DirFind(s, s.inode[cur], name)
       IN  k # Nil /\ LinkAt(s, cur, k) /\ Ent(s, cur, k).name = name /\ Ent(s, cur, k).ino = i
LEMMA StepIs ==
  ASSUME NEW s, Shape(s), Sectors(s), TreeOK(s), NEW cur \in Ino, NEW name \in Names \cup {".."}
  PROVE  StepOK(s, cur, name, Step(s, cur, name))
<1> DEFINE k == DirFind(s, s.inode[cur], name)
           i == Step(s, cur, name)
<1>1. i = IF s.inode[cur].type # Dir \/ k = Nil THEN Nil ELSE Ent(s, cur, k).ino
  BY Zenon DEF Step, Ent
<1> HIDE DEF i
<1>2. CASE cur \notin Dirs(s)
  <2>1. i = Nil
    BY <1>1, <1>2 DEF Dirs
  <2>2. StepOK(s, cur, name, i)
    BY <1>2, <2>1 DEF StepOK
  <2> QED BY <2>2 DEF i
<1>3. CASE cur \in Dirs(s)
  <2>0. IF k = Nil THEN \A j \in 0..s.inode[cur].size-1 : ~Found(s, cur, name, j)
        ELSE k \in 0..s.inode[cur].size-1 /\ Found(s, cur, name, k)
    BY <1>3, DirFindIs
  <2>1. i = IF k = Nil THEN Nil ELSE Ent(s, cur, k).ino
    BY <1>1, <1>3 DEF Dirs
  <2>2. s.inode[cur].size \in Nat \ {0, 1} /\ \A j \in 0..s.inode[cur].size-1 : Ent(s, cur, j) \in Entries
    BY <1>3, DirsAre
  <2>3. Ent(s, cur, 0).name = "." /\ Ent(s, cur, 1).name = ".."
    BY <1>3 DEF TreeOK, Dots
  <2> HIDE DEF k
  <2>4. \A j : LinkAt(s, cur, j) => Ent(s, cur, j).ino # 0 /\ j \in 0..s.inode[cur].size-1
    <3>1. 2..s.inode[cur].size-1 \subseteq 0..s.inode[cur].size-1
      BY <2>2
    <3> QED BY <3>1 DEF LinkAt, TreeOK, Linked, Root
  <2>5. ASSUME k = Nil PROVE StepOK(s, cur, name, i)
    <3>1. \A j \in 0..s.inode[cur].size-1 : ~Found(s, cur, name, j)
      BY <2>0, <2>5
    <3>2. name # ".."
      <4>1. 1 \in 0..s.inode[cur].size-1
        BY <2>2
      <4> QED BY <2>3, <3>1, <4>1 DEF Found
    <3>3. ASSUME NEW j, LinkAt(s, cur, j) PROVE Ent(s, cur, j).name # name
      BY <2>4, <3>1, <3>3 DEF Found
    <3>4. i = Nil
      BY <2>1, <2>5
    <3> QED BY <3>2, <3>3, <3>4 DEF StepOK
  <2>6. ASSUME k # Nil PROVE StepOK(s, cur, name, i)
    <3>1. k \in 0..s.inode[cur].size-1 /\ Ent(s, cur, k).name = name /\ i = Ent(s, cur, k).ino
      BY <2>0, <2>1, <2>6 DEF Found
    <3>2. ASSUME name \in Names PROVE LinkAt(s, cur, k)
      <4>1. k # 0 /\ k # 1
        BY <2>3, <3>1, <3>2, NamesAre
      <4>2. k \in 2..s.inode[cur].size-1
        BY <2>2, <3>1, <4>1
      <4> QED BY <1>3, <3>1, <3>2, <4>2, NamesAre DEF LinkAt
    <3>3. i \in Allocated(s)
      <4>1. CASE name \in Names
        BY <3>1, <3>2, <4>1 DEF TreeOK, Linked
      <4>2. CASE name = ".."
        <5>1. k = 1
          <6>1. ASSUME k \in 2..s.inode[cur].size-1 PROVE FALSE
            <7>1. Ent(s, cur, k) = EmptyEntry \/ Ent(s, cur, k).name \in Names
              BY <1>3, <6>1 DEF TreeOK, Slotted
            <7>2. EmptyEntry.name = ""
              BY DEF EmptyEntry, DirEntry
            <7> QED BY <3>1, <4>2, <7>1, <7>2, NamesAre
          <6>2. k # 0
            BY <2>3, <3>1, <4>2
          <6> QED BY <2>2, <3>1, <6>1, <6>2
        <5>2. CASE cur = Root
          BY <3>1, <5>1, <5>2, BlockNat DEF TreeOK, Parents, Dots, Dirs, Allocated
        <5>3. CASE cur # Root
          <6>1. PICK d, j : LinkAt(s, d, j) /\ Ent(s, d, j).ino = cur
            <7>1. cur \in Allocated(s) \ {Root}
              BY <1>3, <5>3, DirsAre
            <7> QED BY <7>1 DEF TreeOK, NoOrphan
          <6>2. Ent(s, d, j).type = Dir
            BY <1>3, <6>1 DEF TreeOK, Linked, Dirs
          <6>3. Ent(s, cur, 1).ino = d
            BY <6>1, <6>2 DEF TreeOK, Parents
          <6>4. d \in Allocated(s)
            BY <6>1, DirsAre DEF LinkAt
          <6> QED BY <3>1, <5>1, <6>3, <6>4
        <5> QED BY <5>2, <5>3
      <4> QED BY <4>1, <4>2
    <3>4. i # Nil
      BY <3>3, BlockNat DEF Allocated
    <3> QED BY <1>3, <2>6, <3>1, <3>2, <3>3, <3>4 DEF StepOK, k
  <2>7. StepOK(s, cur, name, i)
    BY <2>5, <2>6
  <2> QED BY <2>7 DEF i
<1> QED BY <1>2, <1>3

(* resolve_from, component by component. *)
WalkNext(s, cur, name) == IF cur = Nil THEN Nil ELSE Step(s, cur, name)
Walk(s, base, path, n, f) == f = [i \in 0..n |-> IF i = 0 THEN base ELSE WalkNext(s, f[i - 1], path[i])]
LEMMA WalkExists ==
  ASSUME NEW s, NEW base, NEW path, NEW m \in Nat
  PROVE  \E f : Walk(s, base, path, m, f)
<1> DEFINE Way(f, n) == f = [i \in 0..n |-> IF i = 0 THEN base ELSE WalkNext(s, f[i - 1], path[i])]
           short == {n \in Nat : ~\E f : Way(f, n)}
<1>1. short = {}
  <2> SUFFICES ASSUME short # {} PROVE FALSE
    OBVIOUS
  <2>1. PICK n \in short : \A k \in short : n <= k
    <3>1. short \in SUBSET Nat
      OBVIOUS
    <3> QED BY <3>1, LeastNumber
  <2>2. n \in Nat /\ ~\E f : Way(f, n)
    OBVIOUS
  <2>3. n # 0
    <3>1. PICK f : f = [i \in 0..0 |-> base]
      OBVIOUS
    <3>2. Way(f, 0)
      BY <3>1
    <3> QED BY <2>2, <3>2
  <2>4. PICK f : Way(f, n - 1)
    <3>1. n - 1 \in Nat /\ n - 1 \notin short
      BY <2>1, <2>2, <2>3
    <3> QED BY <3>1
  <2>5. PICK g : g = [i \in 0..n |-> IF i = n THEN WalkNext(s, f[n - 1], path[n]) ELSE f[i]]
    OBVIOUS
  <2>6. \A i \in 0..n : g[i] = IF i = 0 THEN base ELSE WalkNext(s, g[i - 1], path[i])
    <3>1. SUFFICES ASSUME NEW i \in 0..n PROVE g[i] = IF i = 0 THEN base ELSE WalkNext(s, g[i - 1], path[i])
      OBVIOUS
    <3>2. CASE i = n
      <4>1. g[i] = WalkNext(s, f[n - 1], path[n]) /\ g[i - 1] = f[n - 1] /\ i # 0
        BY <2>2, <2>3, <2>5, <3>2
      <4> QED BY <3>2, <4>1
    <3>3. CASE i # n
      <4>1. i \in 0..n-1 /\ g[i] = f[i] /\ (i # 0 => i - 1 \in 0..n /\ i - 1 # n /\ g[i - 1] = f[i - 1])
        BY <2>2, <2>5, <3>3
      <4>2. f[i] = IF i = 0 THEN base ELSE WalkNext(s, f[i - 1], path[i])
        BY <2>4, <4>1
      <4> QED BY <4>1, <4>2
    <3> QED BY <3>2, <3>3
  <2>7. Way(g, n)
    BY <2>5, <2>6
  <2> QED BY <2>2, <2>7
<1> QED BY <1>1 DEF Walk

LEMMA WalkSteps ==
  ASSUME NEW s, NEW base, NEW path, NEW n \in Nat, NEW f, Walk(s, base, path, n, f)
  PROVE  f[0] = base /\ \A i \in 1..n : f[i] = WalkNext(s, f[i - 1], path[i])
BY DEF Walk

(* Two walks over the same components are one. *)
LEMMA WalkSame ==
  ASSUME NEW s, NEW base, NEW path, NEW way, NEW n \in Nat, NEW m \in Nat, m <= n, NEW f, NEW g,
         Walk(s, base, path, n, f), Walk(s, base, way, m, g), \A i \in 1..m : way[i] = path[i]
  PROVE  g[m] = f[m]
<1> DEFINE off == {i \in 0..m : g[i] # f[i]}
<1>1. off = {}
  <2> SUFFICES ASSUME off # {} PROVE FALSE
    OBVIOUS
  <2>1. PICK i \in off : \A j \in off : i <= j
    <3>1. off \in SUBSET Nat
      OBVIOUS
    <3> QED BY <3>1, LeastNumber
  <2>2. i # 0
    BY WalkSteps
  <2>3. i \in 1..m /\ i \in 1..n /\ i - 1 \in 0..m /\ i - 1 \notin off
    BY <2>1, <2>2
  <2>4. g[i - 1] = f[i - 1] /\ way[i] = path[i]
    BY <2>3
  <2>5. f[i] = WalkNext(s, f[i - 1], path[i]) /\ g[i] = WalkNext(s, g[i - 1], way[i])
    <3>1. f[i] = WalkNext(s, f[i - 1], path[i])
      BY <2>3, WalkSteps
    <3>2. g[i] = WalkNext(s, g[i - 1], way[i])
      BY <2>3, WalkSteps
    <3> QED BY <3>1, <3>2
  <2> QED BY <2>1, <2>4, <2>5
<1> QED BY <1>1

LEMMA ResolveIs ==
  ASSUME NEW s, NEW base, NEW path, Len(path) \in Nat
  PROVE  \E f : Walk(s, base, path, Len(path), f) /\ Resolve(s, base, path) = f[Len(path)]
<1> DEFINE at[n \in 0..Len(path)] ==
             IF n = 0 THEN base ELSE LET cur == at[n - 1] IN IF cur = Nil THEN Nil ELSE Step(s, cur, path[n])
<1>1. Resolve(s, base, path) = at[Len(path)]
  BY Zenon DEF Resolve
<1>2. at = CHOOSE f : Walk(s, base, path, Len(path), f)
  BY Zenon DEF Walk, WalkNext
<1>3. \E f : Walk(s, base, path, Len(path), f)
  BY WalkExists
<1> HIDE DEF at
<1>4. Walk(s, base, path, Len(path), at)
  BY <1>2, <1>3, Zenon
<1> QED BY <1>1, <1>4

(* The last component is looked up where the others lead. *)
LEMMA ResolveLast ==
  ASSUME NEW s, NEW base, NEW S, NEW path \in Seq(S), path # << >>
  PROVE  /\ Resolve(s, base, path) = WalkNext(s, Parent(s, base, path), Last(path))
         /\ Front(path) \in Seq(S) /\ Len(Front(path)) = Len(path) - 1 /\ Last(path) \in S
<1>1. PICK n \in Nat : n = Len(path) /\ n # 0
  OBVIOUS
<1>2. Front(path) \in Seq(S) /\ Len(Front(path)) = n - 1 /\ (\A i \in 1..n-1 : Front(path)[i] = path[i])
  BY <1>1 DEF Front
<1>3. Last(path) = path[n] /\ Last(path) \in S
  BY <1>1 DEF Last
<1>4. PICK f : Walk(s, base, path, n, f) /\ Resolve(s, base, path) = f[n]
  BY <1>1, ResolveIs
<1>5. PICK g : Walk(s, base, Front(path), n - 1, g) /\ Parent(s, base, path) = g[n - 1]
  <2>1. PICK way : way = Front(path)
    OBVIOUS
  <2>2. Len(way) \in Nat /\ Len(way) = n - 1
    BY <1>1, <1>2, <2>1
  <2>3. PICK g : Walk(s, base, way, Len(way), g) /\ Resolve(s, base, way) = g[Len(way)]
    BY <2>2, ResolveIs
  <2> QED BY <2>1, <2>2, <2>3 DEF Parent
<1>6. g[n - 1] = f[n - 1]
  BY <1>1, <1>2, <1>4, <1>5, WalkSame
<1>7. f[n] = WalkNext(s, f[n - 1], path[n])
  BY <1>1, <1>4, WalkSteps
<1> QED BY <1>1, <1>2, <1>3, <1>4, <1>5, <1>6, <1>7

PathNames == Names \cup {".."}
LEMMA ResolveIn ==
  ASSUME NEW s, Shape(s), Sectors(s), TreeOK(s), NEW path \in Seq(PathNames)
  PROVE  Resolve(s, Root, path) \in Allocated(s) \cup {Nil}
<1>1. PICK n \in Nat : n = Len(path)
  OBVIOUS
<1>2. PICK f : Walk(s, Root, path, n, f) /\ Resolve(s, Root, path) = f[n]
  BY <1>1, ResolveIs
<1>3. f[0] = Root /\ \A i \in 1..n : f[i] = WalkNext(s, f[i - 1], path[i])
  BY <1>2, WalkSteps
<1> DEFINE off == {i \in 0..n : f[i] \notin Allocated(s) \cup {Nil}}
<1>4. off = {}
  <2> SUFFICES ASSUME off # {} PROVE FALSE
    OBVIOUS
  <2>1. PICK i \in off : \A j \in off : i <= j
    <3>1. off \in SUBSET Nat
      OBVIOUS
    <3> QED BY <3>1, LeastNumber
  <2>2. i # 0
    BY <1>3, <2>1, DirsAre DEF TreeOK, Dots
  <2>3. i \in 1..n /\ i - 1 \in 0..n /\ i - 1 \notin off
    BY <2>1, <2>2
  <2>4. f[i - 1] \in Allocated(s) \cup {Nil} /\ f[i] = WalkNext(s, f[i - 1], path[i]) /\ path[i] \in PathNames
    BY <1>1, <1>3, <2>3
  <2>5. PICK c, name : c = f[i - 1] /\ name = path[i] /\ name \in PathNames
    BY <2>4
  <2>6. CASE c = Nil
    BY <2>1, <2>4, <2>5, <2>6 DEF WalkNext
  <2>7. CASE c # Nil
    <3>1. c \in Ino
      BY <2>4, <2>5, <2>7 DEF Allocated
    <3>2. StepOK(s, c, name, Step(s, c, name))
      BY <2>5, <3>1, StepIs DEF PathNames
    <3> QED BY <2>1, <2>4, <2>5, <2>7, <3>2 DEF WalkNext, StepOK
  <2> QED BY <2>6, <2>7
<1> QED BY <1>1, <1>2, <1>4

-----------------------------------------------------------------------------
(* create_inode.                                                             *)
NewDirInode(new) == [type |-> Dir, size |-> 2, blocks |-> [NoBlocks EXCEPT ![0] = new]]
Made(s, ino, parent, type) ==
  IF type = Dir THEN Taken(s, ino, NewDirInode(Alloc(s, 0)), Alloc(s, 0), NewDir(ino, parent))
  ELSE [s EXCEPT !.inode[ino] = EmptyFile]
IsMade(s, t, ino, parent, type) ==
  /\ Shape(t) /\ Sectors(t) /\ Own(t) /\ Others(s, t, ino) /\ t.inode[ino].type = type
  /\ t.bm \ Blocks(t, ino) = s.bm /\ Blocks(t, ino) \cap s.bm = {}
  /\ type = File => t.inode[ino].size = 0
  /\ type = Dir => /\ t.inode[ino].size = 2
                   /\ Ent(t, ino, 0) = DirEntry(ino, ".", Dir) /\ Ent(t, ino, 1) = DirEntry(parent, "..", Dir)

LEMMA NewDirIs ==
  ASSUME NEW new \in Block, NEW ino \in Ino, NEW parent \in Ino
  PROVE  LET in == NewDirInode(new)
             x == NewDir(ino, parent)
         IN  /\ in \in Inodes /\ in.type = Dir /\ in.size = 2
             /\ in.blocks[0] = new /\ \A n \in 0..MaxBlocks-1 : n # 0 => in.blocks[n] = Nil
             /\ DirSector(x) /\ x.dir[0] = DirEntry(ino, ".", Dir) /\ x.dir[1] = DirEntry(parent, "..", Dir)
             /\ \A t : t.data[new] = x => DirOK(t, in)
<1> DEFINE in == NewDirInode(new)
           x == NewDir(ino, parent)
           F == [NoBlocks EXCEPT ![0] = new]
<1>1. NoBlocks \in [0..MaxBlocks-1 -> Pointers] /\ (\A n \in 0..MaxBlocks-1 : NoBlocks[n] = Nil)
      /\ 0 \in 0..MaxBlocks-1 /\ new \in Pointers
  BY Sizes DEF NoBlocks, Pointers
<1>2. F \in [0..MaxBlocks-1 -> Pointers] /\ F[0] = new /\ \A n \in 0..MaxBlocks-1 : n # 0 => F[n] = Nil
  BY <1>1
<1>3. in = [type |-> Dir, size |-> 2, blocks |-> F]
  BY DEF NewDirInode
<1> HIDE DEF F, in
<1>4. in \in Inodes /\ in.type = Dir /\ in.size = 2 /\ in.blocks = F
  BY <1>2, <1>3 DEF Inodes
<1>5. DirEntry(ino, ".", Dir) \in Entries /\ DirEntry(parent, "..", Dir) \in Entries
  BY DEF DirEntry, Entries
<1>6. DirSector(x) /\ x.dir[0] = DirEntry(ino, ".", Dir) /\ x.dir[1] = DirEntry(parent, "..", Dir)
  <2> DEFINE G == [k \in 0..DePerBlk-1 |-> CASE k = 0 -> DirEntry(ino, ".", Dir)
                                            [] k = 1 -> DirEntry(parent, "..", Dir)
                                            [] OTHER -> EmptyEntry]
  <2>1. G \in [0..DePerBlk-1 -> Entries]
    BY <1>5, EmptyDirIs
  <2>2. G[0] = DirEntry(ino, ".", Dir) /\ G[1] = DirEntry(parent, "..", Dir)
    BY Sizes
  <2>3. x = [dir |-> G]
    BY DEF NewDir
  <2> HIDE DEF G, x
  <2>4. x.dir = G
    BY <2>3
  <2> QED BY <2>1, <2>2, <2>3, <2>4 DEF DirSector
<1> HIDE DEF x
<1>7. ASSUME NEW t, t.data[new] = x PROVE DirOK(t, in)
  <2>1. LastBlk(in) = 0
    <3>1. PICK D \in Nat \ {0, 1} : D = DePerBlk
      BY Sizes
    <3>2. 1 \div D = 0
      BY <3>1
    <3> QED BY <1>4, <3>1, <3>2 DEF LastBlk
  <2>2. 2 <= MaxDirect * DePerBlk
    <3>1. PICK a \in Nat \ {0}, D \in Nat \ {0, 1} : a = MaxDirect /\ D = DePerBlk
      BY Sizes
    <3>2. D <= a * D
      OBVIOUS
    <3>3. PICK y \in Nat : y = a * D
      BY Product
    <3> QED BY <3>1, <3>2, <3>3
  <2>3. ASSUME NEW n \in 0..MaxBlocks-1
        PROVE  (in.blocks[n] # Nil <=> n <= LastBlk(in)) /\ (in.blocks[n] \in Block => DirSector(t.data[in.blocks[n]]))
    BY <1>2, <1>4, <1>6, <1>7, <2>1, BlockNat
  <2> QED BY <1>4, <2>2, <2>3 DEF DirOK
<1> QED BY <1>2, <1>4, <1>6, <1>7 DEF in, x

LEMMA MadeIs ==
  ASSUME NEW s, Shape(s), Sectors(s), Own(s), NEW ino \in Ino, ino \notin Allocated(s), NEW parent \in Ino,
         NEW type \in {File, Dir}, type = Dir => Alloc(s, 0) # Nil
  PROVE  IsMade(s, Made(s, ino, parent, type), ino, parent, type)
<1> DEFINE t == Made(s, ino, parent, type)
<1>0. Blocks(s, ino) = {} /\ s.bm \ Blocks(s, ino) = s.bm
  BY DEF Blocks
<1>1. CASE type = File
  <2>1. t = [s EXCEPT !.inode[ino] = EmptyFile]
    BY <1>1, BlockNat DEF Made
  <2> HIDE DEF t
  <2>2. Shape(t) /\ t.bm = s.bm /\ t.data = s.data /\ t.inode = [s.inode EXCEPT ![ino] = EmptyFile]
    BY <2>1, EmptyFileIs, PutInodeIs
  <2>3. FileOK(t, EmptyFile) /\ Once(t, EmptyFile) /\ Uses(t, EmptyFile) = {}
    BY EmptyFileIs
  <2>4. t.bm = (s.bm \ Blocks(s, ino)) \cup Uses(t, EmptyFile) /\ Uses(t, EmptyFile) \cap (s.bm \ Blocks(s, ino)) = {}
    BY <1>0, <2>2, <2>3
  <2>5. Sectors(t) /\ Own(t) /\ Others(s, t, ino)
    BY <2>2, <2>3, <2>4, EmptyFileIs, InodeChanged DEF Others
  <2>6. t.inode[ino] = EmptyFile
    BY <2>2, ShapeParts
  <2>7. t.inode[ino].type = type /\ Blocks(t, ino) = {}
    BY <1>1, <2>3, <2>6, EmptyFileIs DEF Blocks
  <2>8. IsMade(s, t, ino, parent, type)
    BY <1>1, <2>2, <2>5, <2>6, <2>7, EmptyFileIs, BlockNat DEF IsMade
  <2> QED BY <2>8 DEF t
<1>2. CASE type = Dir
  <2>1. PICK new : new = Alloc(s, 0) /\ new \in Block /\ new \notin s.bm
    BY <1>2, AllocTakes
  <2>2. PICK in : in = NewDirInode(new)
    OBVIOUS
  <2>3. PICK x : x = NewDir(ino, parent)
    OBVIOUS
  <2>4. /\ in \in Inodes /\ in.type = Dir /\ in.size = 2
        /\ in.blocks[0] = new /\ \A n \in 0..MaxBlocks-1 : n # 0 => in.blocks[n] = Nil
        /\ x.dir[0] = DirEntry(ino, ".", Dir) /\ x.dir[1] = DirEntry(parent, "..", Dir)
        /\ \A u : u.data[new] = x => DirOK(u, in)
    BY <2>1, <2>2, <2>3, NewDirIs
  <2>5. t = Taken(s, ino, in, new, x)
    BY <1>2, <2>1, <2>2, <2>3 DEF Made
  <2> HIDE DEF t
  <2>6. IsTaken(t, s, ino, in, new, x)
    BY <2>1, <2>4, <2>5, TakenIs
  <2>7. DirOK(t, in) /\ t.inode[ino] = in
    BY <2>4, <2>6 DEF IsTaken
  <2>8. 0 \in 0..MaxBlocks-1 /\ new # Nil
    BY <2>1, Sizes, BlockNat
  <2>9. {in.blocks[n] : n \in 0..MaxBlocks-1} \ {Nil} = {new}
    BY <2>4, <2>8
  <2>10. \A n, m \in 0..MaxBlocks-1 : in.blocks[n] # Nil /\ in.blocks[n] = in.blocks[m] => n = m
    BY <2>4
  <2>11. Sectors(t) /\ Own(t) /\ Others(s, t, ino)
    <3>1. {in.blocks[n] : n \in 0..MaxBlocks-1} \ {Nil} = Blocks(s, ino) \cup {new}
      BY <1>0, <2>9
    <3> QED BY <2>1, <2>4, <2>5, <2>7, <2>10, <3>1, TakenKeeps
  <2>12. Blocks(t, ino) = {new}
    <3>1. ino \in Allocated(t)
      BY <2>4, <2>7, BlockNat DEF Allocated
    <3>2. Uses(t, in) = {new}
      BY <2>4, <2>9, DirUses
    <3> QED BY <2>7, <3>1, <3>2 DEF Blocks
  <2>13. Ent(t, ino, 0) = DirEntry(ino, ".", Dir) /\ Ent(t, ino, 1) = DirEntry(parent, "..", Dir)
    <3>1. PICK D \in Nat \ {0, 1} : D = DePerBlk
      BY Sizes
    <3>2. 0 \div D = 0 /\ 1 \div D = 0 /\ 0 % D = 0 /\ 1 % D = 1
      BY <3>1
    <3>3. t.data[new] = x
      BY <2>6 DEF IsTaken
    <3>4. Ent(t, ino, 0) = x.dir[0] /\ Ent(t, ino, 1) = x.dir[1]
      BY <2>4, <2>7, <3>1, <3>2, <3>3 DEF Ent, Entry
    <3> QED BY <2>4, <3>4
  <2>14. t.bm \ Blocks(t, ino) = s.bm /\ Blocks(t, ino) \cap s.bm = {} /\ Shape(t)
    BY <2>1, <2>6, <2>12 DEF IsTaken
  <2>15. IsMade(s, t, ino, parent, type)
    BY <1>2, <2>4, <2>7, <2>11, <2>13, <2>14, BlockNat DEF IsMade
  <2> QED BY <2>15 DEF t
<1> QED BY <1>1, <1>2

LEMMA ZeroInodeIs == ZeroInode \in Inodes /\ ZeroInode.type = Free
BY BlockNat DEF ZeroInode, Inodes, Pointers

(* What create_inode made goes back. *)
RolledBack(m, ino) == [FreeBlocks(m, Held(m, m.inode[ino])) EXCEPT !.inode[ino] = ZeroInode]
LEMMA RolledBackKeeps ==
  ASSUME NEW s, Shape(s), Sectors(s), Own(s), TreeOK(s), NEW ino \in Ino, ino \notin Allocated(s), NEW parent,
         NEW type \in {File, Dir}, NEW m, IsMade(s, m, ino, parent, type)
  PROVE  LET t == RolledBack(m, ino)
         IN  Shape(t) /\ Sectors(t) /\ Own(t) /\ TreeOK(t) /\ SameTree(s, t) /\ Others(s, t, ino)
<1> DEFINE u == FreeBlocks(m, Held(m, m.inode[ino]))
           t == RolledBack(m, ino)
<1>1. Shape(m) /\ Sectors(m) /\ Others(s, m, ino) /\ m.bm \ Blocks(m, ino) = s.bm /\ Blocks(m, ino) \cap s.bm = {}
      /\ m.inode[ino].type = type
  BY DEF IsMade
<1>2. Held(m, m.inode[ino]) = Blocks(m, ino)
  <2>1. ino \in Allocated(m)
    BY <1>1, BlockNat DEF Allocated
  <2> QED BY <1>1, <2>1, BlocksOf
<1>3. Shape(u) /\ u.bm = s.bm /\ u.inode = m.inode /\ \A b \in Block : u.data[b] = IF b \in Blocks(m, ino) THEN Stale ELSE m.data[b]
  <2>1. PICK B : B = Blocks(m, ino) /\ u = FreeBlocks(m, B)
    BY <1>2
  <2> HIDE DEF u
  <2>2. Shape(u) /\ u.bm = m.bm \ B /\ u.inode = m.inode
    BY <1>1, <2>1, FreeBlocksIs
  <2>3. \A b \in Block : u.data[b] = IF b \in B THEN Stale ELSE m.data[b]
    BY <1>1, <2>1, FreeBlocksIs
  <2> QED BY <1>1, <2>1, <2>2, <2>3
<1>4. t = [u EXCEPT !.inode[ino] = ZeroInode]
  BY Zenon DEF RolledBack
<1> HIDE DEF t, u
<1>5. Shape(t) /\ t.bm = u.bm /\ t.data = u.data /\ t.inode = [u.inode EXCEPT ![ino] = ZeroInode]
  BY <1>3, <1>4, ZeroInodeIs, PutInodeIs
<1>6. t.inode[ino] = ZeroInode /\ \A i \in Ino \ {ino} : t.inode[i] = m.inode[i]
  BY <1>3, <1>5, ShapeParts
<1>7. ASSUME NEW i \in Ino \ {ino}
      PROVE  t.inode[i] = s.inode[i] /\ (i \in Allocated(s) => Untouched(s, t, i))
  <2>1. t.inode[i] = s.inode[i]
    BY <1>1, <1>6 DEF Others
  <2>2. ASSUME i \in Allocated(s), NEW b \in Blocks(s, i) PROVE t.data[b] = s.data[b]
    <3>1. b \in s.bm /\ b \in Block
      BY ShapeParts DEF Own
    <3>2. m.data[b] = s.data[b]
      BY <1>1, <2>2 DEF Others, Untouched
    <3>3. b \notin Blocks(m, ino)
      BY <1>1, <3>1
    <3> QED BY <1>3, <1>5, <3>1, <3>2, <3>3
  <2> QED BY <2>1, <2>2 DEF Untouched
<1>8. Others(s, t, ino)
  BY <1>7 DEF Others
<1>9. ino \notin Allocated(t)
  BY <1>6, ZeroInodeIs DEF Allocated
<1>10. \A i \in Ino : IF i \in Allocated(s) THEN Untouched(s, t, i) ELSE i \notin Allocated(t)
  BY <1>7, <1>9 DEF Allocated
<1>11. Own(t)
  <2>1. t.bm = s.bm \ UNION {Blocks(s, i) : i \in {}}
    BY <1>3, <1>5
  <2>2. {} \in SUBSET Ino /\ \A i \in Ino : IF i \in Allocated(s) \ {} THEN Untouched(s, t, i) ELSE i \notin Allocated(t)
    BY <1>10
  <2> QED BY <2>1, <2>2, OwnRemoved
<1>12. Sectors(t)
  <2> SUFFICES ASSUME NEW i \in Allocated(t) PROVE FileOK(t, t.inode[i]) \/ DirOK(t, t.inode[i])
    BY DEF Sectors
  <2>1. i \in Allocated(s) /\ Untouched(s, t, i)
    BY <1>10 DEF Allocated
  <2>2. FileOK(s, s.inode[i]) \/ DirOK(s, s.inode[i])
    BY <2>1 DEF Sectors
  <2> QED BY <2>1, <2>2, UntouchedIs
<1>13. SameTree(s, t)
  <2>1. s.inode[ino].type = Free
    BY DEF Allocated
  <2> QED BY <1>6, <1>8, <2>1, OthersTree, ZeroInodeIs, BlockNat
<1>14. TreeOK(t)
  BY <1>13, SameTreeKeeps
<1> QED BY <1>5, <1>8, <1>11, <1>12, <1>13, <1>14 DEF t

(* A new inode, with its name in directory p. *)
Grafted(s, t, p, k, ino, name, type) ==
  /\ \A i \in Ino \ {ino} : t.inode[i].type = s.inode[i].type
  /\ t.inode[ino].type = type
  /\ \A d \in Dirs(s) : Ent(t, d, 1) = Ent(s, d, 1)
  /\ Ent(t, p, k).ino = ino /\ Ent(t, p, k).name = name
  /\ \A d, j : /\ LinkAt(t, d, j) <=> LinkAt(s, d, j) \/ (d = p /\ j = k)
               /\ LinkAt(s, d, j) => Ent(t, d, j) = Ent(s, d, j) /\ ~(d = p /\ j = k)
LEMMA CreatedTree ==
  ASSUME NEW s, Shape(s), Sectors(s), Own(s), TreeOK(s), NEW ino \in Ino, ino \notin Allocated(s), NEW p \in Dirs(s),
         NEW type \in {File, Dir}, NEW m, IsMade(s, m, ino, p, type), NEW name \in Names,
         \A j : LinkAt(s, p, j) => Ent(s, p, j).name # name,
         NEW t, NEW k, Added(m, t, p, k, DirEntry(ino, name, type))
  PROVE  TreeOK(t) /\ Grafted(s, t, p, k, ino, name, type)
<1> DEFINE e == DirEntry(ino, name, type)
<1>1. p \in Ino /\ p # ino /\ p \in Allocated(s) /\ DirOK(s, s.inode[p]) /\ s.inode[p].size \in Nat \ {0, 1}
  BY DirsAre
<1>2. e.ino = ino /\ e.name = name /\ e.type = type
  BY DEF DirEntry
<1>3. /\ Shape(m) /\ Sectors(m) /\ Others(s, m, ino) /\ m.inode[ino].type = type
      /\ type = Dir => /\ m.inode[ino].size = 2
                       /\ Ent(m, ino, 0) = DirEntry(ino, ".", Dir) /\ Ent(m, ino, 1) = DirEntry(p, "..", Dir)
  BY DEF IsMade
<1> HIDE DEF e
<1>4. /\ Shape(t) /\ Sectors(t) /\ Others(m, t, p) /\ p \in Dirs(t) /\ k \in 0..t.inode[p].size-1
      /\ \/ t.inode[p].size = m.inode[p].size /\ Ent(m, p, k).name = ""
         \/ k = m.inode[p].size /\ t.inode[p].size = k + 1
      /\ Ent(t, p, k) = e
      /\ \A j \in 0..m.inode[p].size-1 : j # k => Ent(t, p, j) = Ent(m, p, j)
  BY DEF Added, e
<1>5. ASSUME NEW d \in Dirs(s)
      PROVE  m.inode[d] = s.inode[d] /\ \A j \in 0..s.inode[d].size-1 : Ent(m, d, j) = Ent(s, d, j)
  <2>1. d \in Ino \ {ino} /\ d \in Allocated(s) /\ DirOK(s, s.inode[d])
    BY DirsAre
  <2>2. Untouched(s, m, d) /\ m.inode[d] = s.inode[d]
    BY <1>3, <2>1 DEF Others
  <2> QED BY <2>1, <2>2, UntouchedIs DEF Ent
<1>6. ASSUME NEW d \in Dirs(m), d # p
      PROVE  t.inode[d] = m.inode[d] /\ \A j \in 0..m.inode[d].size-1 : Ent(t, d, j) = Ent(m, d, j)
  <2>1. d \in Ino \ {p} /\ d \in Allocated(m) /\ DirOK(m, m.inode[d])
    BY <1>3, <1>6, DirsAre
  <2>2. Untouched(m, t, d) /\ t.inode[d] = m.inode[d]
    BY <1>4, <2>1 DEF Others
  <2> QED BY <1>3, <2>1, <2>2, UntouchedIs DEF Ent
<1>7. /\ \A i \in Ino \ {ino} : t.inode[i].type = s.inode[i].type
      /\ t.inode[ino].type = type
      /\ Allocated(t) = Allocated(s) \cup {ino} /\ Dirs(t) = Dirs(s) \cup {d \in {ino} : type = Dir}
      /\ \A d \in Dirs(s) : d \in Dirs(m)
  <2>1. \A i \in Ino \ {ino} : t.inode[i].type = s.inode[i].type
    <3> SUFFICES ASSUME NEW i \in Ino \ {ino} PROVE t.inode[i].type = s.inode[i].type
      OBVIOUS
    <3>1. CASE i = p
      BY <1>4, <3>1 DEF Dirs
    <3>2. CASE i # p
      BY <1>3, <1>4, <3>2 DEF Others
    <3> QED BY <3>1, <3>2
  <2>2. t.inode[ino].type = type
    BY <1>1, <1>3, <1>4 DEF Others
  <2>3. Allocated(t) = Allocated(s) \cup {ino}
    BY <2>1, <2>2, BlockNat DEF Allocated
  <2>4. Dirs(t) = Dirs(s) \cup {d \in {ino} : type = Dir}
    <3>1. ino \notin Dirs(s)
      BY DirsAre
    <3> QED BY <2>1, <2>2, <3>1 DEF Dirs
  <2>5. \A d \in Dirs(s) : d \in Dirs(m)
    BY <1>5 DEF Dirs
  <2> QED BY <2>1, <2>2, <2>3, <2>4, <2>5
<1>8. ASSUME NEW d \in Dirs(s), d # p
      PROVE  t.inode[d] = s.inode[d] /\ \A j \in 0..s.inode[d].size-1 : Ent(t, d, j) = Ent(s, d, j)
  BY <1>5, <1>6, <1>7, <1>8
<1>9. PICK z \in Nat, y \in Nat : z = s.inode[p].size /\ y = t.inode[p].size /\ z >= 2 /\ y >= 2
  <2>1. t.inode[p].size \in Nat \ {0, 1}
    BY <1>4, DirsAre
  <2> QED BY <1>1, <2>1
<1>10. /\ k \in 2..y-1 /\ k \in Nat /\ (y = z \/ (k = z /\ y = z + 1))
       /\ y = z => Ent(s, p, k).name = ""
       /\ \A j \in 0..z-1 : j # k => Ent(t, p, j) = Ent(s, p, j)
  <2>1. m.inode[p] = s.inode[p] /\ \A j \in 0..z-1 : Ent(m, p, j) = Ent(s, p, j)
    BY <1>5, <1>9
  <2>2. (y = z /\ Ent(m, p, k).name = "") \/ (k = z /\ y = z + 1)
    BY <1>4, <1>9, <2>1
  <2>3. k \in 0..y-1
    BY <1>4, <1>9
  <2>4. Ent(s, p, 0).name = "." /\ Ent(s, p, 1).name = ".."
    BY DEF TreeOK, Dots
  <2>7. \A j \in 0..z-1 : j # k => Ent(t, p, j) = Ent(s, p, j)
    BY <1>4, <1>9, <2>1
  <2>5. CASE y = z /\ Ent(m, p, k).name = ""
    <3>1. Ent(s, p, k).name = ""
      BY <2>1, <2>3, <2>5
    <3>2. k # 0 /\ k # 1
      BY <2>4, <3>1
    <3>3. k \in 2..y-1 /\ k \in Nat
      BY <1>9, <2>3, <3>2
    <3> QED BY <2>5, <2>7, <3>1, <3>3
  <2>6. CASE k = z /\ y = z + 1
    <3>1. k \in 2..y-1 /\ k \in Nat /\ y # z
      BY <1>9, <2>3, <2>6
    <3> QED BY <2>6, <2>7, <3>1
  <2> QED BY <2>2, <2>5, <2>6
<1>10a. k \in 2..y-1 /\ k \in Nat /\ (y = z \/ (k = z /\ y = z + 1))
  BY <1>10
<1>11. ASSUME NEW d, NEW j
       PROVE  /\ LinkAt(t, d, j) <=> LinkAt(s, d, j) \/ (d = p /\ j = k)
              /\ LinkAt(s, d, j) => Ent(t, d, j) = Ent(s, d, j) /\ ~(d = p /\ j = k)
  <2>1. CASE d = p
    <3>1. LinkAt(s, p, j) <=> j \in 2..z-1 /\ Ent(s, p, j).name # ""
      BY <1>9 DEF LinkAt
    <3>2. LinkAt(t, p, j) <=> j \in 2..y-1 /\ Ent(t, p, j).name # ""
      BY <1>4, <1>9 DEF LinkAt
    <3>3. LinkAt(t, p, k)
      <4>1. Ent(t, p, k).name # ""
        BY <1>2, <1>4, NamesAre
      <4> QED BY <1>4, <1>9, <1>10, <4>1 DEF LinkAt
    <3>4. ~LinkAt(s, p, k)
      <4>1. LinkAt(s, p, k) => k \in 2..z-1 /\ Ent(s, p, k).name # ""
        BY <1>9 DEF LinkAt
      <4>2. k \notin 2..z-1 \/ y = z
        BY <1>9, <1>10a
      <4> QED BY <1>10, <4>1, <4>2
    <3>5. ASSUME j # k PROVE (LinkAt(t, p, j) <=> LinkAt(s, p, j)) /\ (LinkAt(s, p, j) => Ent(t, p, j) = Ent(s, p, j))
      <4>1. j \in 2..y-1 <=> j \in 2..z-1
        BY <1>9, <1>10a, <3>5
      <4>2. j \in 2..z-1 => j \in 0..z-1
        BY <1>9
      <4>3. j \in 2..z-1 => Ent(t, p, j) = Ent(s, p, j)
        BY <1>10, <3>5, <4>2
      <4> QED BY <3>1, <3>2, <4>1, <4>3
    <3> QED BY <2>1, <3>3, <3>4, <3>5
  <2>2. CASE d # p /\ d \in Dirs(s)
    <3>1. t.inode[d] = s.inode[d] /\ d \in Dirs(t) /\ s.inode[d].size \in Nat
      BY <1>7, <1>8, <2>2, DirsAre
    <3>2. j \in 2..s.inode[d].size-1 => j \in 0..s.inode[d].size-1
      BY <3>1
    <3>3. j \in 2..s.inode[d].size-1 => Ent(t, d, j) = Ent(s, d, j)
      BY <1>8, <2>2, <3>2
    <3> QED BY <2>2, <3>1, <3>3 DEF LinkAt
  <2>3. CASE d # p /\ d \notin Dirs(s)
    <3>1. ASSUME d \in Dirs(t) PROVE t.inode[d].size = 2
      <4>1. d = ino /\ type = Dir
        BY <1>7, <2>3, <3>1
      <4>2. t.inode[ino] = m.inode[ino]
        BY <1>1, <1>4 DEF Others
      <4> QED BY <1>3, <4>1, <4>2
    <3>2. ~LinkAt(t, d, j)
      <4>1. 2..2-1 = {}
        OBVIOUS
      <4> QED BY <3>1, <4>1 DEF LinkAt
    <3> QED BY <2>3, <3>2 DEF LinkAt
  <2> QED BY <2>1, <2>2, <2>3
<1>12. ASSUME NEW d \in Dirs(s) PROVE Ent(t, d, 0) = Ent(s, d, 0) /\ Ent(t, d, 1) = Ent(s, d, 1)
  <2>1. 0 \in 0..s.inode[d].size-1 /\ 1 \in 0..s.inode[d].size-1
    <3>1. s.inode[d].size \in Nat \ {0, 1}
      BY DirsAre
    <3> QED BY <3>1
  <2>2. CASE d # p
    BY <1>8, <2>1, <2>2
  <2>3. CASE d = p
    <3>1. k # 0 /\ k # 1 /\ 0 \in 0..z-1 /\ 1 \in 0..z-1
      BY <1>9, <1>10a
    <3> QED BY <1>10, <2>3, <3>1
  <2> QED BY <2>2, <2>3
<1>13. ASSUME type = Dir PROVE Ent(t, ino, 0).name = "." /\ Ent(t, ino, 1).name = ".." /\ Ent(t, ino, 1).ino = p
  <2>1. ino \in Dirs(m) /\ 0 \in 0..m.inode[ino].size-1 /\ 1 \in 0..m.inode[ino].size-1
    BY <1>3, <1>13 DEF Dirs
  <2>2. Ent(t, ino, 0) = DirEntry(ino, ".", Dir) /\ Ent(t, ino, 1) = DirEntry(p, "..", Dir)
    BY <1>1, <1>3, <1>6, <1>13, <2>1
  <2> QED BY <2>2 DEF DirEntry
<1>14. Dots(t)
  BY <1>7, <1>12, <1>13 DEF TreeOK, Dots
<1>15. Slotted(t)
  <2> SUFFICES ASSUME NEW d \in Dirs(t), NEW j \in 2..t.inode[d].size-1, Ent(t, d, j) # EmptyEntry
               PROVE  Ent(t, d, j).name \in Names
    BY DEF Slotted
  <2>1. CASE LinkAt(s, d, j)
    <3>1. Ent(t, d, j) = Ent(s, d, j)
      BY <1>11, <2>1
    <3> QED BY <2>1, <3>1 DEF LinkAt, TreeOK, Slotted
  <2>2. CASE d = p /\ j = k
    BY <1>2, <1>4, <2>2
  <2>3. CASE ~LinkAt(s, d, j) /\ ~(d = p /\ j = k)
    <3>1. ~LinkAt(t, d, j)
      BY <1>11, <2>3
    <3>2. d \in Dirs(s)
      <4>1. ASSUME d = ino, type = Dir PROVE FALSE
        <5>1. t.inode[ino] = m.inode[ino]
          BY <1>1, <1>4 DEF Others
        <5> QED BY <1>3, <4>1, <5>1
      <4> QED BY <1>7, <4>1
    <3>3. j \in 2..s.inode[d].size-1 /\ Ent(t, d, j) = Ent(s, d, j)
      <4>1. CASE d # p
        <5>1. t.inode[d] = s.inode[d] /\ s.inode[d].size \in Nat
          BY <1>8, <3>2, <4>1, DirsAre
        <5>2. j \in 0..s.inode[d].size-1 /\ j \in 2..s.inode[d].size-1
          BY <5>1
        <5> QED BY <1>8, <3>2, <4>1, <5>2
      <4>2. CASE d = p
        <5>1. j \in 2..y-1 /\ j # k
          BY <1>9, <2>3, <4>2
        <5>2. j \in 2..z-1 /\ j \in 0..z-1
          BY <1>9, <1>10a, <5>1
        <5> QED BY <1>9, <1>10, <4>2, <5>1, <5>2
      <4> QED BY <4>1, <4>2
    <3>4. Ent(s, d, j).name \in Names
      BY <3>2, <3>3 DEF TreeOK, Slotted
    <3>5. LinkAt(s, d, j)
      BY <3>2, <3>3, <3>4, NamesAre DEF LinkAt
    <3> QED BY <2>3, <3>5
  <2> QED BY <2>1, <2>2, <2>3
<1>16. Linked(t)
  <2> SUFFICES ASSUME NEW d, NEW j, LinkAt(t, d, j)
               PROVE  /\ Ent(t, d, j).ino \in Allocated(t) /\ Ent(t, d, j).ino # Root
                      /\ Ent(t, d, j).type = t.inode[Ent(t, d, j).ino].type
    BY DEF Linked
  <2>1. CASE d = p /\ j = k
    <3>1. Root \in Allocated(s)
      BY DirsAre DEF TreeOK, Dots
    <3> QED BY <1>2, <1>4, <1>7, <2>1, <3>1
  <2>2. CASE LinkAt(s, d, j)
    <3>1. PICK i : i = Ent(s, d, j).ino /\ Ent(t, d, j) = Ent(s, d, j)
      BY <1>11, <2>2
    <3>2. i \in Allocated(s) /\ i # Root /\ Ent(s, d, j).type = s.inode[i].type
      BY <2>2, <3>1 DEF TreeOK, Linked
    <3>3. i \in Ino \ {ino}
      BY <3>2 DEF Allocated
    <3> QED BY <1>7, <3>1, <3>2, <3>3
  <2> QED BY <1>11, <2>1, <2>2
<1>17. \A d, j : LinkAt(s, d, j) => Ent(t, d, j).ino # ino
  BY <1>11 DEF TreeOK, Linked
<1>18. OneLink(t)
  <2> SUFFICES ASSUME NEW d, NEW j, NEW f, NEW l, LinkAt(t, d, j), LinkAt(t, f, l), Ent(t, d, j).ino = Ent(t, f, l).ino
               PROVE  d = f /\ j = l
    BY DEF OneLink
  <2>1. CASE LinkAt(s, d, j) /\ LinkAt(s, f, l)
    BY <1>11, <2>1 DEF TreeOK, OneLink
  <2>2. CASE ~(LinkAt(s, d, j) /\ LinkAt(s, f, l))
    <3>1. (d = p /\ j = k) \/ (LinkAt(s, d, j) /\ Ent(t, d, j).ino # ino)
      BY <1>11, <1>17
    <3>2. (f = p /\ l = k) \/ (LinkAt(s, f, l) /\ Ent(t, f, l).ino # ino)
      BY <1>11, <1>17
    <3>3. Ent(t, p, k).ino = ino
      BY <1>2, <1>4
    <3> QED BY <2>2, <3>1, <3>2, <3>3
  <2> QED BY <2>1, <2>2
<1>19. OneName(t)
  <2> SUFFICES ASSUME NEW d, NEW j, NEW l, LinkAt(t, d, j), LinkAt(t, d, l), Ent(t, d, j).name = Ent(t, d, l).name
               PROVE  j = l
    BY DEF OneName
  <2>1. CASE LinkAt(s, d, j) /\ LinkAt(s, d, l)
    BY <1>11, <2>1 DEF TreeOK, OneName
  <2>2. CASE ~(LinkAt(s, d, j) /\ LinkAt(s, d, l))
    <3>1. (d = p /\ j = k) \/ (LinkAt(s, d, j) /\ (d = p => Ent(t, d, j).name # name))
      BY <1>11
    <3>2. (d = p /\ l = k) \/ (LinkAt(s, d, l) /\ (d = p => Ent(t, d, l).name # name))
      BY <1>11
    <3>3. Ent(t, p, k).name = name
      BY <1>2, <1>4
    <3> QED BY <2>2, <3>1, <3>2, <3>3
  <2> QED BY <2>1, <2>2
<1>20. NoOrphan(t)
  <2> SUFFICES ASSUME NEW i \in Allocated(t) \ {Root} PROVE \E d, j : LinkAt(t, d, j) /\ Ent(t, d, j).ino = i
    BY DEF NoOrphan
  <2>1. CASE i = ino
    BY <1>2, <1>4, <1>11, <2>1
  <2>2. CASE i # ino
    <3>1. PICK d, j : LinkAt(s, d, j) /\ Ent(s, d, j).ino = i
      BY <1>7, <2>2 DEF TreeOK, NoOrphan
    <3>2. LinkAt(t, d, j) /\ Ent(t, d, j).ino = i
      BY <1>11, <3>1
    <3> QED BY <3>2
  <2> QED BY <2>1, <2>2
<1>21. Parents(t)
  <2>1. Ent(t, Root, 1).ino = Root
    BY <1>12 DEF TreeOK, Dots, Parents
  <2>2. ASSUME NEW d, NEW j, LinkAt(t, d, j), Ent(t, d, j).type = Dir PROVE Ent(t, Ent(t, d, j).ino, 1).ino = d
    <3>1. CASE d = p /\ j = k
      BY <1>2, <1>4, <1>13, <2>2, <3>1
    <3>2. CASE LinkAt(s, d, j)
      <4>1. PICK i : i = Ent(s, d, j).ino /\ Ent(t, d, j) = Ent(s, d, j)
        BY <1>11, <3>2
      <4>2. i \in Dirs(s) /\ Ent(s, i, 1).ino = d
        BY <2>2, <3>2, <4>1 DEF TreeOK, Linked, Parents, Dirs, Allocated
      <4> QED BY <1>12, <4>1, <4>2
    <3> QED BY <1>11, <2>2, <3>1, <3>2
  <2> QED BY <2>1, <2>2 DEF Parents
<1>22. Grafted(s, t, p, k, ino, name, type)
  BY <1>2, <1>4, <1>7, <1>11, <1>12 DEF Grafted
<1> QED BY <1>14, <1>15, <1>16, <1>18, <1>19, <1>20, <1>21, <1>22 DEF TreeOK

(* The inodes alone, whatever the sizes. *)
Struct(t) == WholeRecord(t) /\ DOMAIN t.inode = Ino
LEMMA ShapeStruct == ASSUME NEW s, Shape(s) PROVE Struct(s)
BY DEF Shape, Struct, WholeRecord

LEMMA FlushStruct ==
  ASSUME NEW s, Struct(s)
  PROVE  Struct(Flush(s)) /\ Flush(s).inode = s.inode /\ Flush(s).bm = s.bm
<1>1. PICK b0, d0, i0, x0 : s = [bm |-> b0, dbm |-> d0, inode |-> i0, data |-> x0] /\ s.inode = i0 /\ s.bm = b0 /\ DOMAIN i0 = Ino
  BY DEF Struct, WholeRecord
<1>2. Flush(s) = [bm |-> b0, dbm |-> b0, inode |-> i0, data |-> x0]
  BY <1>1 DEF Flush
<1> QED BY <1>1, <1>2 DEF Struct, WholeRecord

LEMMA PutStruct ==
  ASSUME NEW s, Struct(s), NEW in, NEW k, NEW e
  PROVE  /\ Struct(PutEntry(s, in, k, e)) /\ PutEntry(s, in, k, e).inode = s.inode
         /\ PutEntry(s, in, k, e).bm = s.bm
<1>1. PICK b0, d0, i0, x0 : s = [bm |-> b0, dbm |-> d0, inode |-> i0, data |-> x0] /\ s.inode = i0 /\ s.bm = b0 /\ DOMAIN i0 = Ino
  BY DEF Struct, WholeRecord
<1>2. PICK y : PutEntry(s, in, k, e) = [s EXCEPT !.data = y]
  BY DEF PutEntry
<1>3. PutEntry(s, in, k, e) = [bm |-> b0, dbm |-> d0, inode |-> i0, data |-> y]
  BY <1>1, <1>2
<1> QED BY <1>1, <1>3 DEF Struct, WholeRecord

GrowsOne(s, t, d) ==
  /\ Struct(t) /\ \A i \in Ino \ {d} : t.inode[i] = s.inode[i]
  /\ t.inode[d].type = s.inode[d].type
  /\ t.inode[d].size = s.inode[d].size \/ t.inode[d].size = s.inode[d].size + 1
  /\ \E b \in Block : t.bm \subseteq s.bm \cup {b}
LEMMA DirAddGrows ==
  ASSUME NEW s, Shape(s), NEW d \in Ino, NEW e
  PROVE  GrowsOne(s, DirAdd(s, d, e).fs, d)
<1> DEFINE a == DirAdd(s, d, e)
           in == s.inode[d]
           gaps == {k \in Slots(in) : Entry(s, in, k).ino = 0 /\ Entry(s, in, k).name = ""}
<1>1. a = IF in.type # Dir THEN Fail(s) ELSE IF gaps # {} THEN Ok(PutEntry(s, in, Min(gaps), e)) ELSE DirAppend(s, d, e)
  BY Zenon DEF DirAdd
<1>2. Struct(s) /\ GrowsOne(s, s, d)
  BY ShapeStruct, BlockNat DEF GrowsOne
<1>3. PICK x \in Inodes : x = in /\ x = s.inode[d]
  BY ShapeParts
<1>4. PICK k \in Nat, n \in Nat : k = x.size /\ n = k \div DePerBlk
  <2>1. x.size \in Nat
    BY InodeParts
  <2> QED BY <2>1, DivMod, Sizes
<1>5. PICK new : new = Alloc(s, 0) /\ new \in Block \cup {Nil}
  BY AllocTakes
<1> DEFINE g1 == [s EXCEPT !.inode[d].size = k + 1]
           u == GrownOf(s, d, n, new)
           g2 == [u EXCEPT !.inode[d].size = k + 1]
<1>6. DirAppend(s, d, e) =
        IF n >= MaxBlocks THEN Fail(s)
        ELSE IF x.blocks[n] # Nil THEN Ok(Flush(PutEntry(g1, x, k, e)))
        ELSE IF new = Nil THEN Fail(s) ELSE Ok(Flush(PutEntry(g2, u.inode[d], k, e)))
  BY <1>3, <1>4, <1>5, DirAppendIs, Zenon
<1> HIDE DEF a, gaps, g1, g2, u
<1>7. ASSUME NEW g, NEW y, Struct(g), GrowsOne(s, g, d) PROVE GrowsOne(s, Flush(PutEntry(g, y, k, e)), d)
  <2>1. PICK z : z = PutEntry(g, y, k, e)
    OBVIOUS
  <2>2. Struct(z) /\ z.inode = g.inode /\ z.bm = g.bm
    BY <1>7, <2>1, PutStruct
  <2>3. Struct(Flush(z)) /\ Flush(z).inode = g.inode /\ Flush(z).bm = g.bm
    BY <2>2, FlushStruct
  <2> QED BY <1>7, <2>1, <2>3 DEF GrowsOne
<1>8. CASE a = Fail(s)
  BY <1>2, <1>8, OkFail DEF a
<1>9. CASE a = Ok(PutEntry(s, in, Min(gaps), e))
  <2>1. PICK z : z = PutEntry(s, in, Min(gaps), e)
    OBVIOUS
  <2>2. Struct(z) /\ z.inode = s.inode /\ z.bm = s.bm
    BY <1>2, <2>1, PutStruct
  <2>3. a.fs = z
    BY <1>9, <2>1, OkFail
  <2> QED BY <2>2, <2>3, BlockNat DEF GrowsOne, a
<1>10. ASSUME x.type = Dir, n < MaxBlocks, x.blocks[n] # Nil PROVE GrowsOne(s, g1, d)
  <2>1. PICK w : w = [type |-> Dir, size |-> k + 1, blocks |-> x.blocks]
    OBVIOUS
  <2>2. w \in Inodes /\ w.type = Dir /\ w.size = k + 1
    BY <2>1 DEF Inodes
  <2>3. g1 = [s EXCEPT !.inode[d] = w]
    <3>1. x = [type |-> Dir, size |-> x.size, blocks |-> x.blocks]
      BY <1>10, InodeParts
    <3>2. [x EXCEPT !.size = k + 1] = w
      BY <2>1, <3>1
    <3> QED BY <1>3, <3>2 DEF g1
  <2>4. Shape(g1) /\ g1.inode = [s.inode EXCEPT ![d] = w] /\ g1.bm = s.bm
    BY <2>2, <2>3, PutInodeIs
  <2>5. g1.inode[d] = w /\ \A i \in Ino \ {d} : g1.inode[i] = s.inode[i]
    BY <2>4, ShapeParts
  <2> QED BY <1>3, <1>4, <1>10, <2>2, <2>4, <2>5, ShapeStruct, BlockNat DEF GrowsOne
<1>11. ASSUME x.type = Dir, n < MaxBlocks, new # Nil PROVE GrowsOne(s, g2, d)
  <2> DEFINE w == GrownInode(x, n, new)
  <2>1. n \in 0..MaxBlocks-1 /\ new \in Block
    BY <1>4, <1>5, <1>11, Sizes
  <2>2. w \in Inodes /\ w.type = Dir /\ w.size = k + 1
    <3>1. x.blocks \in [0..MaxBlocks-1 -> Pointers]
      BY DEF Inodes
    <3>2. [x.blocks EXCEPT ![n] = new] \in [0..MaxBlocks-1 -> Pointers]
      BY <2>1, <3>1 DEF Pointers
    <3> QED BY <1>4, <3>2 DEF Inodes, GrownInode
  <2>3. g2 = Taken(s, d, w, new, EmptyDir)
    <3>1. s.inode[d].type = Dir /\ w = GrownInode(s.inode[d], n, new) /\ s.inode[d].size + 1 = k + 1
      BY <1>3, <1>4, <1>11
    <3>2. [u EXCEPT !.inode[d].size = s.inode[d].size + 1] = Taken(s, d, GrownInode(s.inode[d], n, new), new, EmptyDir)
      <4>1. Grows(s, d, n, new)
        BY <1>3, <2>1, <3>1, GrownIs
      <4> QED BY <4>1, Zenon DEF Grows, u
    <3> QED BY <3>1, <3>2, Zenon DEF g2
  <2> HIDE DEF w
  <2>4. IsTaken(g2, s, d, w, new, EmptyDir)
    BY <2>1, <2>2, <2>3, TakenIs
  <2>5. Shape(g2) /\ g2.inode[d] = w /\ (\A i \in Ino \ {d} : g2.inode[i] = s.inode[i]) /\ g2.bm = s.bm \cup {new}
    BY <2>4, ShapeParts DEF IsTaken
  <2> QED BY <1>3, <1>4, <1>11, <2>1, <2>2, <2>5, ShapeStruct DEF GrowsOne
<1>12. CASE x.type = Dir /\ n < MaxBlocks /\ x.blocks[n] # Nil /\ a = Ok(Flush(PutEntry(g1, x, k, e)))
  <2>1. GrowsOne(s, g1, d) /\ Struct(g1)
    BY <1>10, <1>12 DEF GrowsOne
  <2> QED BY <1>7, <1>12, <2>1, OkFail DEF a
<1>13. CASE x.type = Dir /\ n < MaxBlocks /\ new # Nil /\ a = Ok(Flush(PutEntry(g2, u.inode[d], k, e)))
  <2>1. GrowsOne(s, g2, d) /\ Struct(g2)
    BY <1>11, <1>13 DEF GrowsOne
  <2> QED BY <1>7, <1>13, <2>1, OkFail DEF a
<1>14. n < MaxBlocks \/ n >= MaxBlocks
  BY <1>4, Sizes
<1> QED BY <1>1, <1>3, <1>6, <1>8, <1>9, <1>12, <1>13, <1>14

-----------------------------------------------------------------------------
(* What is read back is what was written.                                    *)

(* There is a block for an allocation that the count of clear bits allows. *)
LEMMA AllocSome ==
  ASSUME NEW s, s.bm \subseteq Block, NEW r \in Nat, r < NBlocks - Cardinality(s.bm)
  PROVE  Alloc(s, r) # Nil
<1> DEFINE C == Block \ s.bm
<1>1. IsFiniteSet(Block) /\ Cardinality(Block) = NBlocks
  BY FiniteDisk
<1>2. IsFiniteSet(s.bm) /\ Cardinality(s.bm) \in Nat
  BY <1>1, FS_Subset, FS_CardinalityType
<1>3. C \in SUBSET Nat /\ Nil \notin C /\ IsFiniteSet(C) /\ Cardinality(C) = NBlocks - Cardinality(s.bm)
  <2>1. C \in SUBSET Nat /\ Nil \notin C
    BY BlockNat
  <2>2. Block \cap s.bm = s.bm
    OBVIOUS
  <2> QED BY <1>1, <2>1, <2>2, FS_Difference
<1>4. Alloc(s, r) = IF r >= Cardinality(C) THEN Nil ELSE CHOOSE b \in C : Rank(C, b) = r
  BY DEF Alloc, Rank
<1> HIDE DEF C
<1>5. \E b \in C : Rank(C, b) = r
  BY <1>3, RankExists
<1>6. Alloc(s, r) \in C
  BY <1>2, <1>3, <1>4, <1>5, Sizes
<1> QED BY <1>3, <1>6

(* The place of logical block i. *)
PlaceOf(i) ==
  IF i < MaxDirect THEN <<i, -1>>
  ELSE <<MaxDirect + (i - MaxDirect) \div IndPtrs, (i - MaxDirect) % IndPtrs>>
LEMMA PlaceOfIs ==
  ASSUME NEW i \in Nat, i < MaxNeed
  PROVE  LET p == PlaceOf(i)
         IN  /\ p \in Place /\ IsPlace(p) /\ NeededBy(p) = i /\ (p[1] < MaxDirect \/ p[2] # -1)
             /\ \A v, in : in.type = File => BlockAt(v, in, i) = At(v, in, p)
<1>1. CASE i < MaxDirect
  <2>1. <<i, -1>> \in Place /\ <<i, -1>>[1] = i /\ <<i, -1>>[2] = -1 /\ PlaceOf(i) = <<i, -1>>
    BY <1>1, Sizes DEF Place, PlaceOf
  <2>2. \A v, in : BlockAt(v, in, i) = in.blocks[i] /\ At(v, in, <<i, -1>>) = in.blocks[i]
    BY <1>1, <2>1 DEF BlockAt, At
  <2> QED BY <1>1, <2>1, <2>2 DEF IsPlace, NeededBy
<1>2. CASE ~(i < MaxDirect)
  <2>1. PICK x \in Nat : x = i - MaxDirect /\ i = MaxDirect + x
    BY <1>2, Sizes
  <2>2. PICK d \in Nat \ {0} : d = IndPtrs
    BY Sizes
  <2>0. x \div d \in Nat /\ x % d \in 0..d-1 /\ x = (x \div d) * d + (x % d)
    BY DivMod
  <2>3. PICK t \in Nat, j \in 0..d-1 : t = x \div d /\ j = x % d /\ x = t * d + j
    BY <2>0, Zenon
  <2>4. t < MaxIndirect
    <3>1. PICK m \in Nat : m = MaxIndirect * d
      BY <2>2, Product, Sizes
    <3>2. x < m
      BY <2>1, <2>2, <3>1, Sizes DEF MaxNeed
    <3> QED BY <2>2, <2>3, <3>1, <3>2, DivBelow, Sizes
  <2>5. PICK p : p = <<MaxDirect + t, j>>
    OBVIOUS
  <2>6. p = PlaceOf(i)
    BY <1>2, <2>1, <2>2, <2>3, <2>5 DEF PlaceOf
  <2>7. p \in Place /\ p[1] = MaxDirect + t /\ p[2] = j /\ j # -1 /\ ~(p[1] < MaxDirect)
    <3>1. MaxDirect + t \in 0..MaxBlocks-1 /\ j \in -1..IndPtrs-1
      BY <2>2, <2>3, <2>4, Sizes
    <3> QED BY <2>3, <2>5, <3>1, Sizes DEF Place
  <2>8. IsPlace(p)
    BY <2>3, <2>7, Sizes DEF IsPlace
  <2>9. NeededBy(p) = i
    <3>1. p[1] - MaxDirect = t
      BY <2>3, <2>7, Sizes
    <3>2. NeededBy(p) = MaxDirect + (t * d + j)
      BY <2>2, <2>7, <3>1 DEF NeededBy
    <3> QED BY <2>1, <2>3, <3>2
  <2>10. ASSUME NEW v, NEW in, in.type = File PROVE BlockAt(v, in, i) = At(v, in, p)
    <3>1. BlockAt(v, in, i) = IF t >= MaxIndirect \/ in.blocks[MaxDirect + t] \notin Block THEN Nil
                              ELSE v.data[in.blocks[MaxDirect + t]].tab[j]
      BY <1>2, <2>1, <2>2, <2>3 DEF BlockAt
    <3>2. ~(t >= MaxIndirect)
      BY <2>3, <2>4, Sizes
    <3>3. At(v, in, p) = IF in.blocks[MaxDirect + t] \notin Block THEN Nil
                         ELSE v.data[in.blocks[MaxDirect + t]].tab[j]
      BY <2>7, <2>10 DEF At
    <3> QED BY <3>1, <3>2, <3>3
  <2> QED BY <2>6, <2>7, <2>8, <2>9, <2>10
<1> QED BY <1>1, <1>2

(* A file has a block for each of its bytes. *)
NeedOf(size) == (size + BlkSize - 1) \div BlkSize
Filled(s, i) == \A k \in 0..NeedOf(s.inode[i].size)-1 : BlockAt(s, s.inode[i], k) \in Block
LEMMA ByteBlock ==
  ASSUME NEW n \in Nat, NEW k \in 1..n
  PROVE  /\ (k - 1) \div BlkSize \in 0..NeedOf(n)-1 /\ (k - 1) % BlkSize \in 0..BlkSize-1
         /\ k = ((k - 1) \div BlkSize) * BlkSize + ((k - 1) % BlkSize) + 1
<1>1. PICK d \in Nat \ {0} : d = BlkSize
  BY Sizes
<1>2. PICK x \in Nat : x = k - 1 /\ k = x + 1 /\ x < n
  OBVIOUS
<1>3. x \div d \in Nat /\ x % d \in 0..d-1 /\ x = (x \div d) * d + (x % d)
  BY DivMod
<1>4. (x + d) \div d = (x \div d) + 1
  <2>1. PICK q \in Nat, r \in 0..d-1 : q = x \div d /\ r = x % d /\ x = q * d + r
    BY <1>3
  <2>2. PICK z \in Nat : z = q + 1
    BY <2>1
  <2>3. (z * d + r) \div d = z
    BY <2>1, <2>2, DivModIs
  <2>4. z * d = q * d + d
    BY <2>1, <2>2
  <2>5. q * d \in Nat
    BY <2>1, Product
  <2>6. z * d + r = x + d
    BY <2>1, <2>4, <2>5
  <2> QED BY <2>1, <2>2, <2>3, <2>6
<1>5. (x + d) \div d <= (n + d - 1) \div d
  <2>1. x + d \in Nat /\ n + d - 1 \in Nat /\ x + d <= n + d - 1
    BY <1>2
  <2> QED BY <2>1, DivMonotone
<1>6. PICK q \in Nat, m \in Nat : q = x \div d /\ m = (n + d - 1) \div d
  <2>1. n + d - 1 \in Nat
    OBVIOUS
  <2> QED BY <1>3, <2>1, DivMod
<1>7. q \in 0..m-1
  BY <1>4, <1>5, <1>6
<1> QED BY <1>1, <1>2, <1>3, <1>6, <1>7 DEF NeedOf

(* The blocks of a file's logical blocks are its own and all different. *)
LEMMA FileBlocks ==
  ASSUME NEW s, NEW in \in Inodes, FileOK(s, in), Once(s, in), NEW i \in Nat, i < MaxNeed, BlockAt(s, in, i) \in Block
  PROVE  /\ BlockAt(s, in, i) \in Uses(s, in)
         /\ \A n \in MaxDirect..MaxBlocks-1 : in.blocks[n] # BlockAt(s, in, i)
         /\ \A j \in Nat : j < MaxNeed /\ BlockAt(s, in, j) = BlockAt(s, in, i) => j = i
<1>1. in.type = File
  BY DEF FileOK
<1>2. PICK p \in Place : p = PlaceOf(i) /\ BlockAt(s, in, i) = At(s, in, p) /\ (p[1] < MaxDirect \/ p[2] # -1)
                         /\ NeededBy(p) = i
  BY <1>1, PlaceOfIs
<1>3. At(s, in, p) # Nil
  BY <1>2, BlockNat
<1>4. ASSUME NEW n \in MaxDirect..MaxBlocks-1, in.blocks[n] = BlockAt(s, in, i) PROVE FALSE
  <2>1. <<n, -1>> \in Place /\ <<n, -1>>[1] = n /\ <<n, -1>>[2] = -1 /\ ~(n < MaxDirect)
    BY Sizes DEF Place
  <2>2. At(s, in, <<n, -1>>) = At(s, in, p)
    BY <1>2, <1>4, <2>1 DEF At
  <2>3. <<n, -1>> = p
    BY <1>3, <2>1, <2>2 DEF Once
  <2> QED BY <1>2, <2>1, <2>3
<1>5. ASSUME NEW j \in Nat, j < MaxNeed, BlockAt(s, in, j) = BlockAt(s, in, i) PROVE j = i
  <2>1. PICK q \in Place : q = PlaceOf(j) /\ BlockAt(s, in, j) = At(s, in, q) /\ NeededBy(q) = j
    BY <1>1, <1>5, PlaceOfIs
  <2>2. q = p
    BY <1>2, <1>3, <1>5, <2>1 DEF Once
  <2> QED BY <1>2, <2>1, <2>2
<1> QED BY <1>2, <1>3, <1>4, <1>5 DEF Uses


(* The tables alone say where a logical block is. *)
LEMMA SameBlockAt ==
  ASSUME NEW v, NEW t, NEW in \in Inodes, in.type = File,
         \A n \in MaxDirect..MaxBlocks-1 : in.blocks[n] \in Block => t.data[in.blocks[n]] = v.data[in.blocks[n]],
         NEW i \in Nat, i < MaxNeed
  PROVE  BlockAt(t, in, i) = BlockAt(v, in, i)
<1>1. PICK p \in Place : BlockAt(t, in, i) = At(t, in, p) /\ BlockAt(v, in, i) = At(v, in, p)
  BY PlaceOfIs
<1>2. CASE p[2] = -1 \/ p[1] < MaxDirect \/ in.blocks[p[1]] \notin Block
  BY <1>1, <1>2 DEF At
<1>3. CASE ~(p[2] = -1 \/ p[1] < MaxDirect \/ in.blocks[p[1]] \notin Block)
  <2>1. p[1] \in MaxDirect..MaxBlocks-1
    BY <1>3, PlaceParts, Sizes
  <2> QED BY <1>1, <1>3, <2>1 DEF At
<1> QED BY <1>2, <1>3

(* Every logical block that was asked for is mapped. *)
LEMMA MappedAll ==
  ASSUME NEW u, Shape(u), NEW need \in Nat, need <= MaxNeed, NEW size \in Nat, size <= MaxFile, Mapped(u, need).ok,
         NEW i \in 0..need-1
  PROVE  BlockAt(Mapped(u, need).fs, MapInode(Mapped(u, need), size), i) \in Block
<1> DEFINE v == Mapped(u, need).fs
           in == MapInode(Mapped(u, need), size)
<1>1. MapTotal(need) <= NBlocks - Cardinality(u.bm)
  BY DEF Mapped
<1>2. in.type = File
  BY DEF MapInode
<1>3. i \in Nat /\ i < need /\ i < MaxNeed
  BY MaxNeedNat
<1> HIDE DEF v, in
<1>4. PICK p \in Place : p = PlaceOf(i) /\ BlockAt(v, in, i) = At(v, in, p) /\ Wanted(p, need)
  BY <1>2, <1>3, PlaceOfIs DEF Wanted
<1>5. At(v, in, p) = Alloc(u, PlaceRank(p))
  <2>1. \A q \in Place : At(v, in, q) = IF Wanted(q, need) THEN Alloc(u, PlaceRank(q)) ELSE Nil
    BY MappedPlaces DEF v, in
  <2> QED BY <1>4, <2>1
<1>6. PICK r \in Nat : r = PlaceRank(p) /\ r < MapTotal(need)
  BY <1>4, PlaceRankNat, WantedFirst
<1>7. r < NBlocks - Cardinality(u.bm)
  <2>1. IsFiniteSet(u.bm) /\ Cardinality(u.bm) \in Nat
    <3>1. IsFiniteSet(Block)
      BY FiniteDisk
    <3> QED BY <3>1, ShapeParts, FS_Subset, FS_CardinalityType
  <2> QED BY <1>1, <1>6, <2>1, MapTotalNat, Sizes
<1>8. Alloc(u, r) # Nil /\ Alloc(u, r) \in Block \cup {Nil}
  BY <1>7, ShapeParts, AllocSome, AllocTakes
<1> QED BY <1>4, <1>5, <1>6, <1>8 DEF v, in

LEMMA NoBytes ==
  ASSUME NEW t, NEW i, t.inode[i].size = 0
  PROVE  Filled(t, i) /\ ReadFile(t, i) = << >>
<1>1. NeedOf(0) = 0
  <2>1. PICK d \in Nat \ {0} : d = BlkSize
    BY Sizes
  <2>2. 0 * d + (d - 1) = 0 + d - 1 /\ (0 * d + (d - 1)) \div d = 0
    BY <2>1, DivModIs
  <2> QED BY <2>1, <2>2 DEF NeedOf
<1>2. Filled(t, i)
  BY <1>1 DEF Filled
<1> QED BY <1>2 DEF ReadFile

LEMMA StoreReads ==
  ASSUME NEW s, Shape(s), Sectors(s), Own(s), NEW ino \in Allocated(s), NEW c, NEW L \in Nat, L = Len(c), L <= MaxFile,
         c = [k \in 1..L |-> c[k]]
  PROVE  LET r == Store(s, ino, c)
         IN  Filled(r.fs, ino) /\ ReadFile(r.fs, ino) = IF r.ok THEN c ELSE << >>
<1> DEFINE u == FreeBlocks(s, Held(s, s.inode[ino]))
           need == StoreNeed(c)
           m == Mapped(u, need)
           v == m.fs
           in == MapInode(m, L)
           r == Store(s, ino, c)
           t == r.fs
<1>1. ino \in Ino /\ Shape(u)
  BY FreeBlocksIs DEF Allocated
<1>2. need \in Nat /\ need <= MaxNeed /\ need = NeedOf(L)
  BY NeedFits DEF StoreNeed, NeedOf
<1>3. /\ in \in Inodes /\ FileOK(v, in) /\ Once(v, in)
      /\ \A i \in 0..need-1 : m.ok => BlockAt(v, in, i) \in Block
  <2> HIDE DEF u, need
  <2> QED BY <1>1, <1>2, MappedIs, MappedAll
<1>4. in.type = File /\ in.size = L
  BY DEF MapInode
<1>5. Shape(v)
  <2>1. v.inode = u.inode /\ WholeRecord(v) /\ v.bm = u.bm \cup MapBits(u, need) /\ v.dbm = u.dbm
        /\ v.data = [b \in Block |-> MappedData(u, need, b)]
    <3> HIDE DEF u, need
    <3> QED BY <1>1, MappedParts DEF v, m
  <2>2. MapBits(u, need) \subseteq Block
    <3> HIDE DEF u, need
    <3> QED BY <1>1, <1>2, MappedIs
  <2> HIDE DEF v, u, need
  <2>3. v.data = [b \in Block |-> v.data[b]]
    BY <2>1
  <2> QED BY <1>1, <2>1, <2>2, <2>3, ShapeParts DEF Shape, WholeRecord
<1>6. r = IF m.ok THEN Ok(Flush(Written(v, ino, in, c))) ELSE WriteFileAbort(v, ino, in)
  BY StoreIs, Zenon
<1> HIDE DEF u, need, m, v, in, r
<1>7. CASE ~m.ok
  <2> DEFINE w == FreeBlocks(v, Held(v, in))
             x == [w EXCEPT !.inode[ino] = EmptyFile]
  <2>1. r = Fail(Flush(x))
    BY <1>6, <1>7 DEF WriteFileAbort, EmptyFile
  <2>2. Shape(w)
    BY <1>5, FreeBlocksIs
  <2> HIDE DEF w
  <2>3. Shape(x) /\ x.inode = [w.inode EXCEPT ![ino] = EmptyFile]
    BY <1>1, <2>2, EmptyFileIs, PutInodeIs
  <2> HIDE DEF x
  <2>4. t.inode = x.inode /\ ~r.ok
    BY <2>1, <2>3, FlushIs, OkFail
  <2>5. t.inode[ino].size = 0
    BY <1>1, <2>2, <2>3, <2>4, ShapeParts, EmptyFileIs
  <2> QED BY <2>4, <2>5, NoBytes DEF r
<1>8. CASE m.ok
  <2>1. t = Flush(Written(v, ino, in, c)) /\ r.ok
    BY <1>6, <1>8, OkFail
  <2>2. /\ Shape(t) /\ t.inode = [v.inode EXCEPT ![ino] = in]
        /\ \A b \in Block : t.data[b] = StoreData(v, in, c, b)
    BY <1>1, <1>3, <1>5, <2>1, WrittenIs
  <2>3. t.inode[ino] = in
    BY <1>1, <1>5, <2>2, ShapeParts
  <2>4. ASSUME NEW n \in MaxDirect..MaxBlocks-1, in.blocks[n] \in Block
        PROVE  t.data[in.blocks[n]] = v.data[in.blocks[n]]
    <3>1. Homes(v, in, need, in.blocks[n]) = {}
      BY <1>2, <1>3, <2>4, FilledIs
    <3> QED BY <2>2, <2>4, <3>1 DEF StoreData, need
  <2>5. ASSUME NEW i \in 0..need-1
        PROVE  /\ BlockAt(t, in, i) \in Block
               /\ t.data[BlockAt(t, in, i)] = Sector(c, i)
    <3>1. i \in Nat /\ i < MaxNeed
      BY <1>2, MaxNeedNat
    <3>2. PICK b \in Block : b = BlockAt(v, in, i) /\ b = BlockAt(t, in, i)
      <4>a. \A n \in MaxDirect..MaxBlocks-1 : in.blocks[n] \in Block => t.data[in.blocks[n]] = v.data[in.blocks[n]]
        BY <2>4
      <4> HIDE DEF t
      <4>1. BlockAt(t, in, i) = BlockAt(v, in, i)
        BY <1>3, <1>4, <3>1, <4>a, SameBlockAt
      <4> QED BY <1>3, <1>8, <4>1
    <3>3. \A j \in 0..need-1 : BlockAt(v, in, j) = b => j = i
      <4>1. \A j \in 0..need-1 : j \in Nat /\ j < MaxNeed
        BY <1>2, MaxNeedNat
      <4>2. \A j \in Nat : j < MaxNeed /\ BlockAt(v, in, j) = BlockAt(v, in, i) => j = i
        BY <1>3, <3>1, <3>2, FileBlocks
      <4> QED BY <3>2, <4>1, <4>2
    <3>4. Homes(v, in, need, b) = {i}
      BY <3>2, <3>3 DEF Homes
    <3>5. StoreData(v, in, c, b) = Sector(c, i)
      BY <3>4 DEF StoreData, need
    <3> QED BY <2>2, <3>2, <3>5
  <2>6. Filled(t, ino)
    BY <1>2, <1>4, <2>3, <2>5 DEF Filled
  <2>7. ReadFile(t, ino) = [k \in 1..L |-> c[k]]
    <3>1. ReadFile(t, ino) = [k \in 1..L |-> t.data[BlockAt(t, in, (k - 1) \div BlkSize)].val[(k - 1) % BlkSize]]
      BY <1>4, <2>3 DEF ReadFile
    <3>2. ASSUME NEW k \in 1..L
          PROVE  t.data[BlockAt(t, in, (k - 1) \div BlkSize)].val[(k - 1) % BlkSize] = c[k]
      <4>1. PICK i, j : i = (k - 1) \div BlkSize /\ j = (k - 1) % BlkSize
        OBVIOUS
      <4>2. i \in 0..need-1 /\ j \in 0..BlkSize-1 /\ k = i * BlkSize + j + 1
        BY <1>2, <4>1, ByteBlock
      <4>c. i \in Nat /\ BlkSize \in Nat
        BY <1>2, <4>2, Sizes
      <4>3. PICK y \in Nat : y = i * BlkSize
        BY <4>c, Product
      <4>4. Sector(c, i).val[j] = IF y + j < Len(c) THEN c[y + j + 1] ELSE 0
        BY <4>2, <4>3 DEF Sector
      <4>a. j \in Nat
        BY <4>2, Sizes
      <4>b. k = y + j + 1
        BY <4>2, <4>3, Zenon
      <4>5. y + j < L /\ y + j + 1 = k
        BY <4>a, <4>b
      <4>6. Sector(c, i).val[j] = c[k]
        BY <4>4, <4>5
      <4> QED BY <2>5, <4>1, <4>2, <4>6
    <3> QED BY <3>1, <3>2
  <2> QED BY <2>1, <2>6, <2>7 DEF r
<1> QED BY <1>7, <1>8

(* A file whose blocks are left alone reads as before. *)
LEMMA UntouchedReads ==
  ASSUME NEW s, NEW t, Shape(s), Sectors(s), Own(s), NEW i \in Allocated(s), Untouched(s, t, i),
         s.inode[i].type = File, Filled(s, i)
  PROVE  Filled(t, i) /\ ReadFile(t, i) = ReadFile(s, i)
<1>1. PICK in \in Inodes : in = s.inode[i] /\ in = t.inode[i] /\ in.type = File
  BY ShapeParts DEF Untouched, Allocated
<1>2. FileOK(s, in) /\ Once(s, in) /\ Blocks(s, i) = Uses(s, in)
  <2>1. FileOK(s, in) \/ DirOK(s, in)
    BY <1>1 DEF Sectors
  <2>2. in.type # Dir
    BY <1>1, BlockNat
  <2> QED BY <1>1, <2>1, <2>2 DEF DirOK, Own, Blocks
<1>3. PICK n \in Nat : n = in.size /\ n <= MaxFile
  BY <1>1, <1>2, InodeParts DEF FileOK
<1>4. NeedOf(n) \in Nat /\ NeedOf(n) <= MaxNeed
  BY <1>3, NeedFits DEF NeedOf
<1>5. ASSUME NEW k \in MaxDirect..MaxBlocks-1, in.blocks[k] \in Block
      PROVE  t.data[in.blocks[k]] = s.data[in.blocks[k]]
  <2>1. <<k, -1>> \in Place /\ <<k, -1>>[1] = k /\ <<k, -1>>[2] = -1
    BY Sizes DEF Place
  <2>2. At(s, in, <<k, -1>>) = in.blocks[k]
    BY <2>1 DEF At
  <2>3. in.blocks[k] \in Uses(s, in)
    BY <1>5, <2>1, <2>2, BlockNat DEF Uses
  <2> QED BY <1>2, <2>3 DEF Untouched
<1>6. ASSUME NEW k \in 0..NeedOf(n)-1
      PROVE  BlockAt(t, in, k) = BlockAt(s, in, k) /\ BlockAt(s, in, k) \in Block
             /\ t.data[BlockAt(s, in, k)] = s.data[BlockAt(s, in, k)]
  <2>1. k \in Nat /\ k < MaxNeed
    BY <1>4, MaxNeedNat
  <2>2. BlockAt(t, in, k) = BlockAt(s, in, k)
    BY <1>1, <1>5, <2>1, SameBlockAt
  <2>3. BlockAt(s, in, k) \in Block
    BY <1>1, <1>3 DEF Filled
  <2>4. BlockAt(s, in, k) \in Uses(s, in)
    BY <1>2, <2>1, <2>3, FileBlocks
  <2> QED BY <1>2, <2>2, <2>3, <2>4 DEF Untouched
<1>7. Filled(t, i)
  BY <1>1, <1>3, <1>6 DEF Filled
<1>8. ReadFile(t, i) = ReadFile(s, i)
  <2>1. ASSUME NEW x, x.inode[i] = in
        PROVE  ReadFile(x, i) = [k \in 1..n |-> x.data[BlockAt(x, in, (k - 1) \div BlkSize)].val[(k - 1) % BlkSize]]
    BY <1>3, <2>1 DEF ReadFile
  <2>a. ReadFile(t, i) = [k \in 1..n |-> t.data[BlockAt(t, in, (k - 1) \div BlkSize)].val[(k - 1) % BlkSize]]
    BY <1>1, <2>1
  <2>b. ReadFile(s, i) = [k \in 1..n |-> s.data[BlockAt(s, in, (k - 1) \div BlkSize)].val[(k - 1) % BlkSize]]
    BY <1>1, <2>1
  <2>2. ASSUME NEW k \in 1..n
        PROVE  t.data[BlockAt(t, in, (k - 1) \div BlkSize)].val[(k - 1) % BlkSize]
                 = s.data[BlockAt(s, in, (k - 1) \div BlkSize)].val[(k - 1) % BlkSize]
    <3>1. PICK j : j = (k - 1) \div BlkSize /\ j \in 0..NeedOf(n)-1
      BY ByteBlock
    <3>2. t.data[BlockAt(t, in, j)] = s.data[BlockAt(s, in, j)]
      BY <1>6, <3>1
    <3> QED BY <3>1, <3>2
  <2> QED BY <2>2, <2>a, <2>b
<1> QED BY <1>7, <1>8
=============================================================================
