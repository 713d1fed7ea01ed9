--------------------------- MODULE NodeInitProofs ---------------------------
(***************************************************************************)
(* A node that is made of and grown by powers of two keeps its descriptors *)
(* in blocks, each once, and its addresses, wherever it begins and however *)
(* often it grows.                                                         *)
(***************************************************************************)
EXTENDS NodeInit, LevelsProofs

Has(b, x) == Start(b) <= x /\ x < End(b)

\* The blocks cover the descriptors from lo to hi, each once.
TilesOf(P, lo, hi) ==
    /\ \A b \in P : Size(b) \in Nat /\ Size(b) >= 1 /\ lo <= Start(b) /\ End(b) <= hi
    /\ \A x \in lo..(hi - 1) : \E b \in P : Has(b, x)
    /\ \A b, c \in P : b # c => End(b) <= Start(c) \/ End(c) <= Start(b)

\* They begin at multiples of their sizes.
InPlace(P) == \A b \in P : \E r \in Nat : Start(b) = r * Size(b)

\* The node begins at a block of each level it has blocks of.
LevelsSuit(P, at) == \A b \in P : at % block_size(b.lvl) = 0

\* No growth is larger than one before it.
Falling == \A i, j \in DOMAIN grown : i < j => grown[i] >= grown[j]

\* Nothing has been made yet.
Unmade == ~made => items = 0 /\ blocks = {} /\ grown = <<>> /\ ~fault /\ offset = 0

\* A node that has been made knows its items and its range.  One that lives has
\* a level, and ends at a multiple of its last growth, so that a smaller one
\* begins at one of itself.
Living ==
    /\ FirstMade => nr_freeitems = items /\ size = items * FIXED_ITEM_SIZE
    /\ ~fault /\ made =>
         /\ phy_group_lvl \in 0..MAX_GROUP_LVLS
         /\ grown # <<>>
         /\ Falling => \E q \in Nat : items = q * grown[Len(grown)]

NodeInv ==
    /\ TypeOK /\ Unmade /\ Living
    /\ TilesOf(blocks, 0, items)
    /\ LevelsSuit(blocks, range_to_idx(offset))
    /\ Falling => InPlace(blocks)

(***************************************************************************)
(* The sum of the sizes of blocks that cover a range is its length.        *)
(***************************************************************************)
\* What the blocks cover below n.
Cover(s, n) == {x \in 0..(n - 1) : \E b \in s : Has(b, x)}

LEMMA CoverFinite ==
    ASSUME NEW s, NEW n \in Nat
    PROVE  IsFiniteSet(Cover(s, n)) /\ Cardinality(Cover(s, n)) \in Nat
<1>1. IsFiniteSet(0..(n - 1)) /\ Cover(s, n) \in SUBSET (0..(n - 1))
  BY FS_Interval DEF Cover
<1> QED  BY <1>1, FS_Subset, FS_CardinalityType

LEMMA CoverOfOne ==
    ASSUME NEW b, NEW n \in Nat, b.item \in Nat, Size(b) \in Nat, End(b) <= n
    PROVE  Cardinality(Cover({b}, n)) = Size(b)
<1>1. Cover({b}, n) = b.item..(b.item + Size(b) - 1)
  BY DEF Cover, Has, Start, End
<1>2. b.item \in Int /\ b.item + Size(b) - 1 \in Int
  OBVIOUS
<1>3. Cardinality(b.item..(b.item + Size(b) - 1))
        = IF b.item > b.item + Size(b) - 1 THEN 0 ELSE (b.item + Size(b) - 1) - b.item + 1
  BY <1>2, FS_Interval
<1> QED  BY <1>1, <1>3

LEMMA CoverWithout ==
    ASSUME NEW n \in Nat, NEW S, NEW s \in SUBSET S, NEW b \in s,
           TilesOf(S, 0, n), \A c \in S : c.item \in Nat
    PROVE  Cardinality(Cover(s, n)) = Size(b) + Cardinality(Cover(s \ {b}, n))
<1> DEFINE one == Cover({b}, n)
           rest == Cover(s \ {b}, n)
<1>1. IsFiniteSet(one) /\ IsFiniteSet(rest) /\ Cardinality(rest) \in Nat
  BY CoverFinite
<1>2. Cover(s, n) = one \cup rest
  BY DEF Cover
<1>3. one \cap rest = {}
  <2> SUFFICES ASSUME NEW c \in s \ {b}, NEW x \in 0..(n - 1), Has(b, x), Has(c, x)
               PROVE  FALSE
    BY DEF Cover
  <2>1. End(b) <= Start(c) \/ End(c) <= Start(b)
    BY DEF TilesOf
  <2>2. /\ Start(b) \in Nat /\ End(b) \in Nat /\ Start(c) \in Nat /\ End(c) \in Nat
    BY DEF TilesOf, Start, End
  <2> QED  BY <2>1, <2>2 DEF Has
<1>4. Cardinality(one) = Size(b)
  BY CoverOfOne DEF TilesOf
<1> HIDE DEF one, rest
<1>5. Cardinality(one \cup rest) = Cardinality(one) + Cardinality(rest) - Cardinality({})
  BY <1>1, <1>3, FS_Union
<1>6. Size(b) \in Nat /\ Cardinality({}) = 0
  BY FS_EmptySet DEF TilesOf
<1> QED  BY <1>1, <1>2, <1>4, <1>5, <1>6 DEF rest

\* The recursion that MapThenSumSet is defined by.
IsSum(g, S) ==
    g = [s \in SUBSET S |->
           IF s = {} THEN 0
           ELSE Size(CHOOSE x \in s : TRUE) + g[s \ {CHOOSE x \in s : TRUE}]]

LEMMA SumIs ==
    ASSUME NEW S
    PROVE  MapThenSumSet(Size, S) = (CHOOSE g : IsSum(g, S))[S]
BY DEF MapThenSumSet, MapThenFoldSet, IsSum

LEMMA BlocksFinite ==
    ASSUME NEW n \in Nat, NEW S, TilesOf(S, 0, n), \A c \in S : c.item \in Nat
    PROVE  IsFiniteSet(S)
<1> DEFINE f == [b \in S |-> b.item]
<1>1. ASSUME NEW b \in S PROVE b.item \in 0..n
  BY DEF TilesOf, Start, End
<1>2. ASSUME NEW b \in S, NEW c \in S, f[b] = f[c] PROVE b = c
  BY <1>2 DEF TilesOf, Start, End
<1>3. f \in Injection(S, 0..n)
  <2>1. f \in [S -> 0..n]
    BY <1>1
  <2>2. IsInjective(f)
    BY <1>2 DEF IsInjective
  <2> QED  BY <2>1, <2>2 DEF Injection
<1>4. IsFiniteSet(0..n)
  BY FS_Interval
<1> QED  BY <1>3, <1>4, FS_Injection

LEMMA SumOfTiles ==
    ASSUME NEW n \in Nat, NEW S, TilesOf(S, 0, n), \A c \in S : c.item \in Nat
    PROVE  MapThenSumSet(Size, S) = n
<1> DEFINE g0 == [s \in SUBSET S |-> Cardinality(Cover(s, n))]
           g1 == CHOOSE g : IsSum(g, S)
           picked(s) == CHOOSE x \in s : TRUE
           N == {k \in Nat : \A s \in SUBSET S : IsFiniteSet(s) /\ Cardinality(s) = k =>
                                 g1[s] = Cardinality(Cover(s, n))}
<1>1. ASSUME NEW s \in SUBSET S, s # {}
      PROVE  /\ picked(s) \in s
             /\ Cardinality(Cover(s, n))
                  = Size(picked(s)) + Cardinality(Cover(s \ {picked(s)}, n))
  <2>1. picked(s) \in s
    BY <1>1
  <2> QED  BY <2>1, CoverWithout
<1>2. Cardinality(Cover({}, n)) = 0
  <2>1. Cover({}, n) = {}
    BY DEF Cover
  <2> QED  BY <2>1, FS_EmptySet
<1>3. IsSum(g0, S)
  <2> DEFINE value(s) == IF s = {} THEN 0 ELSE Size(picked(s)) + g0[s \ {picked(s)}]
  <2>1. ASSUME NEW s \in SUBSET S PROVE g0[s] = value(s)
    <3>1. CASE s = {}
      BY <1>2, <3>1
    <3>2. CASE s # {}
      <4>1. s \ {picked(s)} \in SUBSET S
        OBVIOUS
      <4>2. g0[s] = Cardinality(Cover(s, n))
        OBVIOUS
      <4>3. g0[s \ {picked(s)}] = Cardinality(Cover(s \ {picked(s)}, n))
        BY <4>1
      <4> QED  BY <1>1, <3>2, <4>2, <4>3
    <3> QED  BY <3>1, <3>2
  <2>2. g0 = [s \in SUBSET S |-> value(s)]
    BY <2>1
  <2> QED  BY <2>2 DEF IsSum
<1>4. IsSum(g1, S)
  BY <1>3
<1>5. ASSUME NEW s \in SUBSET S
      PROVE  g1[s] = IF s = {} THEN 0 ELSE Size(picked(s)) + g1[s \ {picked(s)}]
  <2> HIDE DEF g1
  <2> QED  BY <1>4 DEF IsSum
<1> HIDE DEF g0, g1, picked
<1>6. 0 \in N
  BY <1>2, <1>5, FS_EmptySet
<1>7. ASSUME NEW k \in Nat, k \in N PROVE k + 1 \in N
  <2> SUFFICES ASSUME NEW s \in SUBSET S, IsFiniteSet(s), Cardinality(s) = k + 1
               PROVE  g1[s] = Cardinality(Cover(s, n))
    OBVIOUS
  <2>1. s # {}
    BY FS_EmptySet
  <2> DEFINE r == s \ {picked(s)}
  <2>2. r \in SUBSET S /\ IsFiniteSet(r) /\ Cardinality(r) = k
    <3>1. picked(s) \in s
      BY <1>1, <2>1
    <3>2. IsFiniteSet(r) /\ Cardinality(r) = Cardinality(s) - 1
      BY <3>1, FS_RemoveElement
    <3> QED  BY <3>2
  <2>3. g1[r] = Cardinality(Cover(r, n))
    BY <1>7, <2>2
  <2> QED  BY <1>1, <1>5, <2>1, <2>3
<1>8. Nat \subseteq N
  <2> HIDE DEF N
  <2> QED  BY <1>6, <1>7, InductionSet
<1>9. g1[S] = Cardinality(Cover(S, n))
  <2>1. IsFiniteSet(S) /\ Cardinality(S) \in Nat
    BY BlocksFinite, FS_CardinalityType
  <2> QED  BY <1>8, <2>1
<1>10. Cover(S, n) = 0..(n - 1)
  BY DEF Cover, TilesOf
<1>11. Cardinality(0..(n - 1)) = n
  BY FS_Interval
<1>12. MapThenSumSet(Size, S) = g1[S]
  BY SumIs DEF g1
<1> QED  BY <1>9, <1>10, <1>11, <1>12

(***************************************************************************)
(* One growth.                                                             *)
(***************************************************************************)
LEMMA NodeConstants ==
    /\ FIXED_ITEM_SIZE \in Nat /\ FIXED_ITEM_SIZE >= 1
    /\ GROUP_ORDER_NUM_SHIFT \in Nat /\ GROUP_ORDER_NUM_SHIFT = F + 3
    /\ F \in Nat /\ F >= 2
    /\ FIXED_ITEM_SIZE = BIT(GROUP_ORDER_NUM_SHIFT)
<1>1. GROUP_ORDER_NUM_SHIFT \in Nat /\ GROUP_ORDER_NUM_SHIFT = F + 3 /\ F \in Nat /\ F >= 2
  BY LevelsAssumption DEF GROUP_ORDER_NUM_SHIFT
<1> QED  BY <1>1, BitPositive DEF FIXED_ITEM_SIZE

\* The first item of an address.
LEMMA RangeIdx ==
    ASSUME NEW range \in Nat
    PROVE  range_to_idx(range) \in Nat
<1> DEFINE B == FIXED_ITEM_SIZE
<1>1. B \in Nat /\ B >= 1 /\ range_to_idx(range) = range \div B
  BY NodeConstants DEF range_to_idx
<1> HIDE DEF B
<1>2. range \div B \in Nat
  BY <1>1
<1> QED  BY <1>1, <1>2

LEMMA SizeOf ==
    ASSUME PowerSizes, NEW n \in Sizes
    PROVE  \E p \in Nat : /\ n = BIT(p) /\ Descriptors(n) = n
                          /\ n \in Nat /\ n >= 1
<1>1. PICK p \in 0..MaxShift : n = BIT(p)
  BY DEF PowerSizes
<1>2. p \in Nat
  BY DEF MaxShift
<1> QED  BY <1>1, <1>2, BitPositive, DescriptorsOfPower

LEMMA LevelOf ==
    ASSUME NEW n
    PROVE  nitems_to_lvl(n) \in -1..2
<1> DEFINE filled == {l \in 0..(MAX_GROUP_LVLS - 1) : block_size(l) <= n}
<1>1. filled \subseteq 0..2
  BY DEF MAX_GROUP_LVLS
<1>2. CASE filled = {}
  BY <1>2 DEF nitems_to_lvl
<1>3. CASE filled # {}
  <2>1. nitems_to_lvl(n) = Min(filled)
    BY <1>3 DEF nitems_to_lvl
  <2> HIDE DEF filled
  <2>2. \E m \in filled : \A k \in filled : m <= k
    BY <1>1, <1>3, LeastIn
  <2>3. Min(filled) \in filled
    BY <2>2 DEF Min
  <2>4. Min(filled) \in 0..2
    BY <1>1, <2>3
  <2> QED  BY <2>1, <2>4
<1> QED  BY <1>2, <1>3

\* What a piece of n items above lo has become.
IsPiece(P, lo, n, at) ==
    /\ P \subseteq Block
    /\ TilesOf(P, lo, lo + n)
    /\ LevelsSuit(P, at)
    /\ (\E q \in Nat : lo = q * n) => InPlace(P)

LEMMA PieceIs ==
    ASSUME PowerSizes, NEW n \in Sizes, NEW lo \in Nat, NEW l0 \in 0..3,
           NEW ord \in 0..GROUP_ORDER_NUM_SHIFT, NEW at \in Nat,
           NEW s, s = __init_pnode_item(n, lo + Descriptors(n), l0, ord, at)
    PROVE  /\ IsPiece(s.blocks, lo, n, at)
           /\ s.lvl \in 0..MAX_GROUP_LVLS
           /\ s.order \in 0..GROUP_ORDER_NUM_SHIFT
<1>1. PICK p \in Nat : n = BIT(p) /\ Descriptors(n) = n /\ n \in Nat /\ n >= 1
  BY SizeOf
<1> DEFINE hi == lo + n
<1>2. hi \in Nat /\ hi - n = lo
  BY <1>1
<1>3. ord \in Nat /\ F \in Nat /\ F >= 2 /\ GROUP_ORDER_NUM_SHIFT = F + 3
  BY NodeConstants
<1>4. IsCut(s, p, hi, l0, ord, at)
  BY <1>1, <1>2, <1>3, CutOfPower
<1> HIDE DEF hi
<1>0. PICK l \in l0..3, o \in 0..(F - 1) : \E top \in l0..l :
        /\ IsItsOrder(p, l, o)
        /\ at % block_size(l) = 0
        /\ s = HasBeenCut(BIT(p), hi, top, l, o, ord, at)
  BY <1>4 DEF IsCut
<1>5. PICK top \in l0..l :
        /\ IsItsOrder(p, l, o)
        /\ at % block_size(l) = 0
        /\ s = HasBeenCut(BIT(p), hi, top, l, o, ord, at)
  BY <1>0
<1>6. l \in 0..3 /\ top \in 0..3
  BY <1>5
<1>7. s.lvl \in 0..MAX_GROUP_LVLS
  BY <1>5, <1>6 DEF HasBeenCut, MAX_GROUP_LVLS
<1>8. s.order \in 0..GROUP_ORDER_NUM_SHIFT
  BY <1>3, <1>5 DEF HasBeenCut
<1> DEFINE P == s.blocks
           size0 == BlockItems(l, o)
<1>9. P = Pieces(BIT(p), hi, l, o)
  BY <1>5 DEF HasBeenCut
<1> HIDE DEF P, size0
<1>10. size0 = BlockItems(l, o) /\ IsItsOrder(p, l, o)
  BY <1>5 DEF size0
<1>11. /\ size0 \in Nat /\ size0 >= 1
       /\ \A b \in P : /\ b = [item |-> b.item, lvl |-> l, order |-> o]
                       /\ b.item \in Int
                       /\ hi - BIT(p) <= b.item /\ b.item + size0 <= hi
  BY <1>2, <1>6, <1>9, <1>10, PiecesTile
<1>12. \A x \in Int : hi - BIT(p) <= x /\ x < hi => \E b \in P : b.item <= x /\ x < b.item + size0
  BY <1>2, <1>6, <1>9, <1>10, PiecesTile
<1>13. AreApart(P, size0)
  BY <1>2, <1>6, <1>9, <1>10, PiecesTile
<1>14. \A q \in Nat : hi = q * BIT(p) => \A b \in P : \E r \in Int : b.item = r * size0
  BY <1>2, <1>6, <1>9, <1>10, PiecesTile
<1>15. ASSUME NEW b \in P
       PROVE  /\ b \in Block /\ b.lvl = l /\ b.order = o /\ b.item \in Int
              /\ lo <= b.item /\ b.item + size0 <= hi
              /\ Size(b) = size0 /\ Start(b) = b.item /\ End(b) = b.item + size0
  <2>1. b = [item |-> b.item, lvl |-> l, order |-> o] /\ b.item \in Int
    BY <1>11
  <2>2. b.lvl = l /\ b.order = o
    BY <2>1
  <2>3. o \in 0..MAX_ITEM_ORDER /\ l \in 0..MAX_GROUP_LVLS
    BY <1>6 DEF MAX_ITEM_ORDER, MAX_GROUP_LVLS
  <2>4. b \in Block
    BY <2>1, <2>3 DEF Block
  <2>5. lo <= b.item /\ b.item + size0 <= hi
    BY <1>1, <1>2, <1>11
  <2>6. Size(b) = size0 /\ Start(b) = b.item /\ End(b) = b.item + size0
    BY <2>2 DEF Size, Start, End, size0
  <2> QED  BY <2>1, <2>2, <2>4, <2>5, <2>6
<1>16. TilesOf(P, lo, hi)
  <2>1. \A b \in P : Size(b) \in Nat /\ Size(b) >= 1 /\ lo <= Start(b) /\ End(b) <= hi
    BY <1>11, <1>15
  <2>2. ASSUME NEW x \in lo..(hi - 1) PROVE \E b \in P : Has(b, x)
    <3>1. x \in Int /\ hi - BIT(p) <= x /\ x < hi
      BY <1>1, <1>2
    <3>2. PICK b \in P : b.item <= x /\ x < b.item + size0
      BY <1>12, <3>1
    <3> QED  BY <1>15, <3>2 DEF Has
  <2>3. ASSUME NEW b \in P, NEW c \in P, b # c
        PROVE  End(b) <= Start(c) \/ End(c) <= Start(b)
    <3>1. b.item + size0 <= c.item \/ c.item + size0 <= b.item
      BY <1>13, <2>3 DEF AreApart
    <3> QED  BY <1>15, <3>1
  <2> QED  BY <2>1, <2>2, <2>3 DEF TilesOf
<1>17. LevelsSuit(P, at)
  BY <1>5, <1>15 DEF LevelsSuit
<1>18. ASSUME NEW q \in Nat, lo = q * n PROVE InPlace(P)
  <2>1. q + 1 \in Nat /\ hi = (q + 1) * n
    BY <1>1, <1>18 DEF hi
  <2>2. ASSUME NEW b \in P PROVE \E r \in Nat : Start(b) = r * Size(b)
    <3>1. PICK r \in Int : b.item = r * size0
      BY <1>1, <1>14, <2>1
    <3>2. b.item >= 0
      BY <1>15
    <3>3. r \in Nat
      <4>1. r * size0 >= 0 /\ size0 \in Nat /\ size0 >= 1
        BY <1>11, <3>1, <3>2
      <4> HIDE DEF P, size0
      <4>2. ASSUME r < 0 PROVE r * size0 < 0
        BY <4>1, <4>2
      <4> QED  BY <4>1, <4>2
    <3> QED  BY <1>15, <3>1, <3>3
  <2> QED  BY <2>2 DEF InPlace
<1>19. P \subseteq Block
  BY <1>15
<1>20. IsPiece(P, lo, n, at)
  BY <1>16, <1>17, <1>18, <1>19 DEF IsPiece, hi
<1> QED  BY <1>7, <1>8, <1>20 DEF P

\* A piece next to a tiling continues it.
LEMMA TilesGrow ==
    ASSUME NEW P, NEW Q, NEW lo \in Nat, NEW n \in Nat,
           \A b \in P \cup Q : b.item \in Int,
           TilesOf(P, 0, lo), TilesOf(Q, lo, lo + n)
    PROVE  TilesOf(P \cup Q, 0, lo + n)
<1>1. ASSUME NEW b \in P
      PROVE  Size(b) \in Nat /\ Size(b) >= 1 /\ 0 <= Start(b) /\ End(b) <= lo
             /\ Start(b) \in Int /\ End(b) \in Int
  BY DEF TilesOf, Start, End
<1>2. ASSUME NEW b \in Q
      PROVE  Size(b) \in Nat /\ Size(b) >= 1 /\ lo <= Start(b) /\ End(b) <= lo + n
             /\ Start(b) \in Int /\ End(b) \in Int
  BY DEF TilesOf, Start, End
<1>3. \A b \in P \cup Q :
        Size(b) \in Nat /\ Size(b) >= 1 /\ 0 <= Start(b) /\ End(b) <= lo + n
  BY <1>1, <1>2
<1>4. ASSUME NEW x \in 0..(lo + n - 1) PROVE \E b \in P \cup Q : Has(b, x)
  <2>1. CASE x < lo
    <3>1. x \in 0..(lo - 1)
      BY <2>1
    <3> QED  BY <3>1 DEF TilesOf
  <2>2. CASE lo <= x
    <3>1. x \in lo..(lo + n - 1)
      BY <2>2
    <3> QED  BY <3>1 DEF TilesOf
  <2> QED  BY <2>1, <2>2
<1>5. ASSUME NEW b \in P \cup Q, NEW c \in P \cup Q, b # c
      PROVE  End(b) <= Start(c) \/ End(c) <= Start(b)
  <2>1. CASE b \in P /\ c \in P
    BY <1>5, <2>1 DEF TilesOf
  <2>2. CASE b \in Q /\ c \in Q
    BY <1>5, <2>2 DEF TilesOf
  <2>3. CASE b \in P /\ c \in Q
    BY <1>1, <1>2, <2>3
  <2>4. CASE b \in Q /\ c \in P
    BY <1>1, <1>2, <2>4
  <2> QED  BY <2>1, <2>2, <2>3, <2>4
<1> QED  BY <1>3, <1>4, <1>5 DEF TilesOf

\* What one growth adds to a node that lives, or that there is not yet.
LEMMA GrowKeeps ==
    ASSUME PowerSizes, NodeInv, ~fault, NEW n \in Sizes, NEW lvl \in -1..MAX_GROUP_LVLS,
           NEW base \in {0} \cup Offsets, Grow(n, lvl, base),
           made' = TRUE, offset' = base, made => base = offset,
           ~made => Len(grown) = 0,
           nr_freeitems' \in Nat, size' \in Nat,
           IF made /\ Fails(n, lvl, base)
           THEN nr_freeitems' = items /\ size' = items * FIXED_ITEM_SIZE
           ELSE nr_freeitems' = items + n /\ size' = (items + n) * FIXED_ITEM_SIZE
    PROVE  NodeInv'
<1>1. PICK p \in Nat : n = BIT(p) /\ Descriptors(n) = n /\ n \in Nat /\ n >= 1
  BY SizeOf
<1>2. /\ items \in 0..Space /\ blocks \subseteq Block /\ grown \in Seq(Sizes)
      /\ phy_group_order \in 0..GROUP_ORDER_NUM_SHIFT /\ Space \in Nat /\ items \in Nat
  BY NodeInitAssumption DEF NodeInv, TypeOK
<1>3. grown' = Append(grown, n) /\ grown' \in Seq(Sizes) /\ grown' # <<>>
  BY <1>2 DEF Grow
<1>4. base \in Nat /\ range_to_idx(base) \in Nat
  <2>1. base \in Nat
    BY NodeInitAssumption
  <2> QED  BY <2>1, RangeIdx
<1>5. FIXED_ITEM_SIZE \in Nat
  BY NodeConstants
<1>6. nr_freeitems' \in Nat /\ size' \in Nat
  OBVIOUS
<1>7. Unmade'
  BY DEF Unmade
<1>8. Falling' => Falling
  <2> SUFFICES ASSUME Falling', NEW i \in DOMAIN grown, NEW j \in DOMAIN grown, i < j
               PROVE  grown[i] >= grown[j]
    BY DEF Falling
  <2>1. i \in DOMAIN grown' /\ j \in DOMAIN grown'
    BY <1>2, <1>3
  <2>2. grown'[i] = grown[i] /\ grown'[j] = grown[j]
    BY <1>2, <1>3
  <2> QED  BY <2>1, <2>2 DEF Falling
\* The blocks there are stay where they are.
<1>9. LevelsSuit(blocks, range_to_idx(base))
  <2>1. CASE made
    BY <2>1 DEF NodeInv
  <2>2. CASE ~made
    BY <2>2 DEF NodeInv, Unmade, LevelsSuit
  <2> QED  BY <2>1, <2>2
<1>10. range_to_idx(offset)' = range_to_idx(base)
  BY DEF range_to_idx
<1>11. CASE Fails(n, lvl, base)
  <2>1. /\ fault' = TRUE /\ phy_group_lvl' \in -1..MAX_GROUP_LVLS
        /\ items' = items /\ blocks' = blocks /\ phy_group_order' = phy_group_order
    BY <1>11 DEF Grow, NodeInv, TypeOK
  <2>2. TypeOK'
    BY <1>2, <1>3, <1>6, <2>1 DEF TypeOK
  <2>3. Living'
    <3>1. CASE made
      BY <1>11, <2>1, <3>1 DEF Living
    <3>2. CASE ~made
      <4>1. Len(grown') = 1
        BY <1>2, <1>3, <3>2
      <4> QED  BY <2>1, <4>1 DEF Living, FirstMade
    <3> QED  BY <3>1, <3>2
  <2>4. TilesOf(blocks, 0, items)'
    BY <2>1 DEF NodeInv, TilesOf, Has, Start, End
  <2>5. LevelsSuit(blocks, range_to_idx(offset))'
    BY <1>9, <1>10, <2>1 DEF LevelsSuit
  <2>6. (Falling => InPlace(blocks))'
    BY <1>8, <2>1 DEF NodeInv, InPlace
  <2> QED  BY <1>7, <2>2, <2>3, <2>4, <2>5, <2>6 DEF NodeInv
<1>12. CASE ~Fails(n, lvl, base)
  <2> DEFINE l0 == FirstLevel(lvl)
             s == __init_pnode_item(n, items + Descriptors(n), l0, phy_group_order,
                                    range_to_idx(base))
             P == s.blocks
  <2>1. /\ items' = items + n /\ blocks' = blocks \cup P
        /\ phy_group_lvl' = s.lvl /\ phy_group_order' = s.order /\ fault' = FALSE
    BY <1>1, <1>12 DEF Grow
  <2>2. l0 \in 0..3 /\ items + n <= Space
    BY <1>1, <1>2, <1>12 DEF Fails, NoRoom, FirstLevel, MAX_GROUP_LVLS
  <2>3. /\ IsPiece(P, items, n, range_to_idx(base))
        /\ s.lvl \in 0..MAX_GROUP_LVLS /\ s.order \in 0..GROUP_ORDER_NUM_SHIFT
    BY <1>2, <1>4, <2>2, PieceIs
  <2> HIDE DEF l0, s, P
  <2>4. blocks' \subseteq Block
    BY <1>2, <2>1, <2>3 DEF IsPiece
  <2>5. phy_group_lvl' \in -1..MAX_GROUP_LVLS
    BY <2>1, <2>3 DEF MAX_GROUP_LVLS
  <2>6. items' \in 0..Space
    BY <1>1, <1>2, <2>1, <2>2
  <2>7. TypeOK'
    BY <1>3, <1>6, <2>1, <2>3, <2>4, <2>5, <2>6 DEF TypeOK
  <2>8. TilesOf(blocks, 0, items)'
    <3>1. \A b \in blocks \cup P : b.item \in Int
      BY <2>1, <2>4 DEF Block
    <3>2. TilesOf(blocks \cup P, 0, items + n)
      BY <1>1, <1>2, <2>3, <3>1, TilesGrow DEF NodeInv, IsPiece
    <3> QED  BY <2>1, <3>2 DEF TilesOf, Has, Start, End
  <2>9. LevelsSuit(blocks, range_to_idx(offset))'
    BY <1>9, <1>10, <2>1, <2>3 DEF LevelsSuit, IsPiece
  <2>10. ASSUME Falling' PROVE \E q \in Nat : items = q * n
    <3>1. CASE ~made
      <4>1. items = 0 * n
        BY <1>1, <3>1 DEF NodeInv, Unmade
      <4> QED  BY <4>1
    <3>2. CASE made
      <4> DEFINE m == Len(grown)
                 last == grown[m]
      <4>1. grown # <<>> /\ \E q \in Nat : items = q * last
        BY <1>8, <2>10, <3>2 DEF NodeInv, Living
      <4>2. m \in DOMAIN grown /\ last \in Sizes
        BY <1>2, <4>1
      <4>3. m \in Nat /\ m + 1 \in DOMAIN grown' /\ grown'[m + 1] = n /\ m < m + 1
            /\ m \in DOMAIN grown' /\ grown'[m] = last
        BY <1>2, <1>3, <4>2
      <4>4. last >= n
        BY <2>10, <4>3 DEF Falling
      <4>5. PICK a \in Nat : last = BIT(a) /\ last \in Nat
        BY <4>2, SizeOf
      <4>6. p <= a
        <5>1. ASSUME a < p PROVE FALSE
          <6>1. BIT(a) < BIT(p)
            BY <5>1, BitMonotone
          <6> QED  BY <1>1, <4>4, <4>5, <6>1
        <5> QED  BY <5>1
      <4>7. PICK k \in Nat : last = k * n
        BY <1>1, <4>5, <4>6, BitMultiple
      <4> HIDE DEF last
      <4>8. PICK q \in Nat : items = q * last
        BY <4>1
      <4>9. q * k \in Nat /\ items = (q * k) * n
        BY <1>1, <4>7, <4>8
      <4> QED  BY <4>9
    <3> QED  BY <3>1, <3>2
  <2>11. (Falling => InPlace(blocks))'
    <3> SUFFICES ASSUME Falling' PROVE InPlace(blocks)'
      OBVIOUS
    <3>1. InPlace(blocks) /\ InPlace(P)
      BY <1>8, <2>3, <2>10 DEF NodeInv, IsPiece
    <3> QED  BY <2>1, <3>1 DEF InPlace
  <2>12. Living'
    <3>1. (Falling => \E q \in Nat : items = q * grown[Len(grown)])'
      <4> SUFFICES ASSUME Falling' PROVE \E q \in Nat : items' = q * grown'[Len(grown')]
        OBVIOUS
      <4>1. PICK q \in Nat : items = q * n
        BY <2>10
      <4>2. grown'[Len(grown')] = n
        BY <1>2, <1>3
      <4>3. q + 1 \in Nat /\ items' = (q + 1) * n
        BY <1>1, <2>1, <4>1
      <4> QED  BY <4>2, <4>3
    <3>2. phy_group_lvl' \in 0..MAX_GROUP_LVLS
      BY <2>1, <2>3
    <3>3. nr_freeitems' = items' /\ size' = items' * FIXED_ITEM_SIZE
      BY <1>12, <2>1
    <3> QED  BY <1>3, <3>1, <3>2, <3>3 DEF Living
  <2> QED  BY <1>7, <2>7, <2>8, <2>9, <2>11, <2>12 DEF NodeInv
<1> QED  BY <1>11, <1>12

LEMMA InitNode == Init => NodeInv
<1> SUFFICES ASSUME Init PROVE NodeInv
  OBVIOUS
<1>1. TypeOK
  <2>1. <<>> \in Seq(Sizes)
    OBVIOUS
  <2>2. grown = <<>> /\ made = FALSE /\ fault = FALSE
    BY DEF Init
  <2>3. grown \in Seq(Sizes)
    BY <2>1, <2>2
  <2>4. made \in BOOLEAN /\ fault \in BOOLEAN
    BY <2>2
  <2>5. items \in 0..Space /\ blocks \subseteq Block
    BY NodeInitAssumption DEF Init
  <2>6. phy_group_lvl \in -1..MAX_GROUP_LVLS /\ phy_group_order \in 0..GROUP_ORDER_NUM_SHIFT
    BY NodeConstants DEF Init, MAX_GROUP_LVLS
  <2>7. offset \in {0} \cup Offsets /\ size \in Nat /\ nr_freeitems \in Nat
    BY DEF Init
  <2> QED  BY <2>3, <2>5, <2>6, <2>7, <2>4 DEF TypeOK
<1>2. Unmade /\ Living
  BY NodeConstants DEF Init, Unmade, Living, FirstMade
<1>3. TilesOf(blocks, 0, items) /\ LevelsSuit(blocks, range_to_idx(offset)) /\ InPlace(blocks)
  BY DEF Init, TilesOf, LevelsSuit, InPlace
<1> QED  BY <1>1, <1>2, <1>3 DEF NodeInv

LEMMA MadeKeeps ==
    ASSUME PowerSizes, NodeInv, NEW range \in Offsets, NEW n \in Sizes, init_pnode(range, n)
    PROVE  NodeInv'
<1>1. /\ ~made /\ items = 0 /\ ~fault /\ Len(grown) = 0
  BY DEF init_pnode, NodeInv, Unmade
<1>2. n \in Nat
  BY NodeInitAssumption
<1>3. nr_freeitems' = items + n /\ size' = (items + n) * FIXED_ITEM_SIZE
  BY <1>1, <1>2 DEF init_pnode
<1>4. nitems_to_lvl(n) \in -1..MAX_GROUP_LVLS
  BY LevelOf DEF MAX_GROUP_LVLS
<1>5. made' = TRUE /\ offset' = range /\ Grow(n, nitems_to_lvl(n), range)
  BY DEF init_pnode
<1>6. nr_freeitems' \in Nat /\ size' \in Nat
  BY <1>1, <1>2, <1>3, NodeConstants
<1> QED  BY <1>1, <1>3, <1>4, <1>5, <1>6, GrowKeeps

LEMMA UpdatedKeeps ==
    ASSUME PowerSizes, NodeInv, NEW n \in Sizes, update_pnode(n)
    PROVE  NodeInv'
<1>1. /\ made /\ ~fault /\ made' = made /\ offset' = offset
      /\ Grow(n, phy_group_lvl, offset)
  BY DEF update_pnode
<1>2. n \in Nat /\ items \in Nat /\ FIXED_ITEM_SIZE \in Nat
  BY NodeInitAssumption, NodeConstants DEF NodeInv, TypeOK
<1>3. nr_freeitems = items /\ size = items * FIXED_ITEM_SIZE
  BY <1>1 DEF NodeInv, Living, FirstMade
<1> DEFINE fails == Fails(n, phy_group_lvl, offset)
<1>4. IF fails THEN nr_freeitems' = items /\ size' = items * FIXED_ITEM_SIZE
      ELSE nr_freeitems' = items + n /\ size' = (items + n) * FIXED_ITEM_SIZE
  <2>1. CASE fails
    BY <1>3, <2>1 DEF update_pnode
  <2>2. CASE ~fails
    <3>1. nr_freeitems' = items + n /\ size' = size + n * FIXED_ITEM_SIZE
      BY <1>3, <2>2 DEF update_pnode, GrownFree, GrownSize
    <3>2. size + n * FIXED_ITEM_SIZE = (items + n) * FIXED_ITEM_SIZE
      BY <1>2, <1>3
    <3> QED  BY <2>2, <3>1, <3>2
  <2> QED  BY <2>1, <2>2
<1> HIDE DEF fails
<1>5. nr_freeitems' \in Nat /\ size' \in Nat
  BY <1>2, <1>4
<1>6. phy_group_lvl \in -1..MAX_GROUP_LVLS /\ offset \in {0} \cup Offsets
  BY DEF NodeInv, TypeOK
<1> QED  BY <1>1, <1>4, <1>5, <1>6, GrowKeeps DEF fails

LEMMA StaysNode ==
    ASSUME NodeInv, UNCHANGED vars
    PROVE  NodeInv'
BY DEF NodeInv, vars, attr, TypeOK, Unmade, Living, FirstMade, Falling, TilesOf, LevelsSuit,
       InPlace, Has, Start, End, range_to_idx

LEMMA NextNode ==
    ASSUME PowerSizes, NodeInv, [Next]_vars
    PROVE  NodeInv'
<1>1. CASE \E range \in Offsets, n \in Sizes : init_pnode(range, n)
  BY <1>1, MadeKeeps
<1>2. CASE \E n \in Sizes : update_pnode(n)
  BY <1>2, UpdatedKeeps
<1>3. CASE stream_window
  <2>1. made /\ update_pnode(grown[1])
    BY <1>3 DEF stream_window
  <2>2. ~fault
    BY <2>1 DEF update_pnode
  <2>3. grown \in Seq(Sizes) /\ grown # <<>>
    BY <2>1, <2>2 DEF NodeInv, TypeOK, Living
  <2>4. grown[1] \in Sizes
    BY <2>3
  <2> QED  BY <2>1, <2>4, UpdatedKeeps
<1>4. CASE UNCHANGED vars
  BY <1>4, StaysNode
<1> QED  BY <1>1, <1>2, <1>3, <1>4 DEF Next

(***************************************************************************)
(* What the invariant says.                                                *)
(***************************************************************************)
LEMMA BlocksAre ==
    ASSUME NodeInv, NEW b \in blocks
    PROVE  /\ b.item \in Nat /\ b.lvl \in 0..3 /\ b.order \in Nat
           /\ Size(b) \in Nat /\ Size(b) >= 1
           /\ Start(b) = b.item /\ End(b) = b.item + Size(b)
           /\ End(b) <= items
<1>1. b.item \in Int /\ b.lvl \in 0..MAX_GROUP_LVLS /\ b.order \in 0..MAX_ITEM_ORDER
  BY DEF NodeInv, TypeOK, Block
<1>2. Size(b) \in Nat /\ Size(b) >= 1 /\ 0 <= Start(b) /\ End(b) <= items
  BY DEF NodeInv, TilesOf
<1> QED  BY <1>1, <1>2 DEF Start, End, MAX_GROUP_LVLS

LEMMA SumOfNode ==
    ASSUME NodeInv
    PROVE  MapThenSumSet(Size, blocks) = items
<1>1. items \in Nat
  BY NodeInitAssumption DEF NodeInv, TypeOK
<1>2. \A b \in blocks : b.item \in Nat
  BY BlocksAre
<1> QED  BY <1>1, <1>2, SumOfTiles DEF NodeInv

LEMMA SumOfMultiples ==
    ASSUME NEW B \in Nat, B >= 1, NEW x \in Nat, x % B = 0, NEW q \in Nat
    PROVE  (q * B + x) % B = 0
<1> DEFINE d == x \div B
<1>1. d \in Nat /\ x = B * d
  OBVIOUS
<1> HIDE DEF d
<1>2. q + d \in Nat /\ q * B + x = (q + d) * B
  BY <1>1
<1>3. ((q + d) * B) % B = 0
  BY <1>2, DivOfMultiple
<1> QED  BY <1>2, <1>3

LEMMA NodeAligned ==
    ASSUME NodeInv
    PROVE  BlocksAligned
<1> SUFFICES ASSUME Falling, NEW b \in blocks
             PROVE  /\ Start(b) % Size(b) = 0
                    /\ item_to_idx(Start(b)) % block_size(b.lvl) = 0
  BY DEF BlocksAligned, Falling
<1> DEFINE B == block_size(b.lvl)
           at == range_to_idx(offset)
           s == Size(b)
<1>1. /\ b.item \in Nat /\ b.lvl \in 0..3 /\ b.order \in Nat
      /\ s \in Nat /\ s >= 1 /\ Start(b) = b.item
  BY BlocksAre
<1>2. at \in Nat
  <2>1. offset \in Nat
    BY NodeInitAssumption DEF NodeInv, TypeOK
  <2> HIDE DEF B, s
  <2> QED  BY <2>1, RangeIdx
<1>3. at % B = 0
  BY DEF NodeInv, LevelsSuit
<1>4. PICK r \in Nat : Start(b) = r * s
  BY DEF NodeInv, InPlace
<1>5. B \in Nat /\ B >= 1
  BY <1>1, BlockSizeOf
<1>6. \E m \in Nat : s = m * B
  <2>1. FUNCTION_ITEM_LVL(b.lvl) \in Nat /\ B = BIT(FUNCTION_ITEM_LVL(b.lvl))
    BY <1>1, LevelShift DEF block_size
  <2>2. s = BIT(b.order + FUNCTION_ITEM_LVL(b.lvl))
    BY DEF Size, BlockItems
  <2>3. /\ b.order + FUNCTION_ITEM_LVL(b.lvl) \in Nat
        /\ FUNCTION_ITEM_LVL(b.lvl) <= b.order + FUNCTION_ITEM_LVL(b.lvl)
    BY <1>1, <2>1
  <2> QED  BY <2>1, <2>2, <2>3, BitMultiple
<1>7. item_to_idx(Start(b)) = Start(b) + at
  BY DEF item_to_idx, HasNode, Start
<1> HIDE DEF B, at, s
<1>8. Start(b) % s = 0
  BY <1>1, <1>4, DivOfMultiple
<1>9. PICK m \in Nat : s = m * B
  BY <1>6
<1>10. r * m \in Nat /\ Start(b) + at = (r * m) * B + at
  BY <1>2, <1>4, <1>5, <1>9
<1>11. ((r * m) * B + at) % B = 0
  BY <1>2, <1>3, <1>5, <1>10, SumOfMultiples
<1> QED  BY <1>7, <1>8, <1>10, <1>11 DEF B, s

LEMMA QuotientOfSum ==
    ASSUME NEW B \in Nat, B >= 1, NEW x \in Nat, NEW k \in Nat
    PROVE  (x + k * B) \div B = (x \div B) + k
<1> DEFINE d == x \div B
           r == x % B
<1>1. d \in Nat /\ r \in 0..(B - 1) /\ x = d * B + r
  OBVIOUS
<1> HIDE DEF d, r
<1>2. d + k \in Nat /\ x + k * B = (d + k) * B + r
  BY <1>1
<1>3. ((d + k) * B + r) \div B = d + k
  BY <1>1, <1>2, DivMod
<1> QED  BY <1>2, <1>3 DEF d

LEMMA NodeAddresses ==
    ASSUME NodeInv
    PROVE  AddressesLeadBack
<1> SUFFICES ASSUME FirstMade PROVE
      /\ \A b \in blocks : \A k \in 0..(Size(b) - 1) :
            range_to_item(item_to_range(Start(b)) + k * FIXED_ITEM_SIZE) = Start(b) + k
      /\ \A idx \in 0..(Space + range_to_idx(offset)) :
            idx_to_rel_idx(idx) # -1 => idx_to_rel_idx(idx) \in 0..(items - 1)
  BY DEF AddressesLeadBack
<1> DEFINE B == FIXED_ITEM_SIZE
           at == range_to_idx(offset)
<1>1. B \in Nat /\ B >= 1
  BY NodeConstants
<1>2. offset \in Nat /\ items \in Nat
  BY NodeInitAssumption DEF NodeInv, TypeOK
<1>3. at \in Nat
  BY <1>2, RangeIdx
<1>4. /\ \A r : range_to_idx(r) = r \div B
      /\ \A i : idx_to_range(i) = i * B
  BY DEF range_to_idx, idx_to_range, FIXED_ITEM_SIZE
<1>5. size = items * B
  BY DEF NodeInv, Living
<1> HIDE DEF B
<1>6. range_to_idx(offset + size) = at + items
  <2>1. (offset + items * B) \div B = (offset \div B) + items
    BY <1>1, <1>2, QuotientOfSum
  <2> QED  BY <1>4, <1>5, <2>1
<1>7. \A idx : idx_to_rel_idx(idx) = IF at <= idx /\ idx < at + items THEN idx - at ELSE -1
  BY <1>6 DEF idx_to_rel_idx
<1> HIDE DEF at
<1>8. ASSUME NEW b \in blocks, NEW k \in 0..(Size(b) - 1)
      PROVE  range_to_item(item_to_range(Start(b)) + k * B) = Start(b) + k
  <2> DEFINE s == Start(b)
             i == s + k
  <2>1. s \in Nat /\ k \in Nat /\ i \in 0..(items - 1)
    BY <1>2, BlocksAre
  <2>2. item_to_range(s) = (s + at) * B
    BY <1>4 DEF item_to_range, item_to_idx, HasNode, Start, at
  <2> HIDE DEF s
  <2>3. item_to_range(s) + k * B = (i + at) * B
    BY <1>1, <1>3, <2>1, <2>2
  <2>4. range_to_idx((i + at) * B) = i + at
    <3>1. i + at \in Nat
      BY <1>2, <1>3, <2>1
    <3>2. ((i + at) * B) \div B = i + at
      BY <1>1, <3>1, DivOfMultiple
    <3> QED  BY <1>4, <3>2
  <2>5. idx_to_rel_idx(i + at) = i
    BY <1>2, <1>3, <1>7, <2>1
  <2> QED  BY <2>3, <2>4, <2>5 DEF range_to_item, s
<1>10. ASSUME NEW idx \in Nat, idx_to_rel_idx(idx) # -1
       PROVE  idx_to_rel_idx(idx) \in 0..(items - 1)
  BY <1>2, <1>3, <1>7, <1>10
<1>11. 0..(Space + range_to_idx(offset)) \subseteq Nat
  OBVIOUS
<1> QED  BY <1>8, <1>10, <1>11 DEF B

(***************************************************************************)
(* The theorems.                                                           *)
(***************************************************************************)

\* In every state that can be reached the blocks that __init_pnode_item has
\* listed tile the descriptors, begin where their level and, while the growths
\* do not become larger, their size asks, and the node knows its items.
THEOREM NodeInvariant ==
    ASSUME PowerSizes
    PROVE  Spec => []NodeInv
<1>1. Init => NodeInv
  BY InitNode
<1>2. NodeInv /\ [Next]_vars => NodeInv'
  BY NextNode
<1> QED  BY <1>1, <1>2, PTL DEF Spec

\* The state variables keep their types: the descriptors never go beyond the
\* reserved range, and phy_group_lvl not beyond the last level.
THEOREM NodeTypes ==
    ASSUME PowerSizes
    PROVE  Spec => []TypeOK
<1>1. NodeInv => TypeOK
  BY DEF NodeInv
<1> QED  BY <1>1, NodeInvariant, PTL

\* The blocks cover the descriptors of the node, each once, however it grew.
THEOREM NodeTiles ==
    ASSUME PowerSizes
    PROVE  Spec => []BlocksTile
<1>1. NodeInv => BlocksTile
  <2> SUFFICES ASSUME NodeInv PROVE BlocksTile
    OBVIOUS
  <2>1. MapThenSumSet(Size, blocks) = items
    BY SumOfNode
  <2> QED  BY <2>1 DEF BlocksTile, NodeInv, TilesOf
<1> QED  BY <1>1, NodeInvariant, PTL

\* The free items a node announces are those of the blocks it has listed, after
\* every growth and every attempt to grow: only a node whose first descriptors
\* found no room, or no level, announces more.
THEOREM NodeFreeItems ==
    ASSUME PowerSizes
    PROVE  Spec => []FreeItemsListed
<1>1. NodeInv => FreeItemsListed
  BY SumOfNode DEF FreeItemsListed, NodeInv, Living
<1> QED  BY <1>1, NodeInvariant, PTL

\* While no growth is larger than one before it, blocks begin at multiples of
\* their sizes, and of their level's block size among all items.
THEOREM NodeBlocksAligned ==
    ASSUME PowerSizes
    PROVE  Spec => []BlocksAligned
<1>1. NodeInv => BlocksAligned
  BY NodeAligned
<1> QED  BY <1>1, NodeInvariant, PTL

\* The address of a block leads back to its descriptor, though no other item of
\* the block knows its node, every address inside the block to the descriptor as
\* far behind, and every address in the node's range to a descriptor of it.
THEOREM NodeAddressesLeadBack ==
    ASSUME PowerSizes
    PROVE  Spec => []AddressesLeadBack
<1>1. NodeInv => AddressesLeadBack
  BY NodeAddresses
<1> QED  BY <1>1, NodeInvariant, PTL
=============================================================================
