--------------------------- MODULE FreeGroupProofs ---------------------------
(***************************************************************************)
(* The blocks of a node always tile it, whatever F, the sizes it is made   *)
(* of and the order of calls; the lists, counts and descriptors agree on   *)
(* them, and so FreeGroup keeps its promises to the callers.  The second   *)
(* half, from `The node's callers' on, is about NodeGroups: the tiling     *)
(* survives the requests find_group cuts, a call's blocks are exactly      *)
(* those of its request, and attr.nr_freeitems counts what nobody has.     *)
(***************************************************************************)
EXTENDS NodeGroups, LevelsProofs

(***************************************************************************)
(* The inductive invariant.                                                *)
(***************************************************************************)

\* Item x belongs to block b.
Has(b, x) == b.item <= x /\ x < b.item + BlockItems(b.lvl, b.order)

\* The block free_group_migration has in hand.
Moving ==
    IF freeing = NoFree THEN {}
    ELSE {[item |-> freeing.item, lvl |-> freeing.lvl, order |-> freeing.order]}

Whole == Free \cup InUse \cup Moving

\* A multiple of 2^k.
Aligned(i, k) == \E q \in Nat : i = q * BIT(k)

IsBlock(b) ==
    /\ b.lvl \in Lvl /\ b.order \in Order /\ b.item \in Nat
    /\ b = [item |-> b.item, lvl |-> b.lvl, order |-> b.order]
    /\ Aligned(b.item, b.order + FUNCTION_ITEM_LVL(b.lvl))

\* The blocks of S are aligned, and each of the items lo up to hi is in one.
Tiles(S, lo, hi) ==
    /\ \A b \in S : IsBlock(b)
    /\ \A b \in S, x \in Int : Has(b, x) => lo <= x /\ x < hi
    /\ \A x \in Int : lo <= x /\ x < hi => \E b \in S : Has(b, x)
    /\ \A b, c \in S, x \in Int : Has(b, x) /\ Has(c, x) => b = c

Tiled == Tiles(Whole, 0, ItemsAfter[grown])

\* Blocks above the last level are as they have been cut.
Coarse ==
    \A b \in Whole : b.lvl # MAX_GROUP_LVLS =>
        \E n \in 1..Len(Sizes) : \E c \in BlocksOf(n) : c.lvl = b.lvl /\ c.order = b.order

\* Those of the last level are made of what has been cut there.
Fine ==
    \A b \in Whole, x \in Int : b.lvl = MAX_GROUP_LVLS /\ Has(b, x) => x \in LastLevelItems

InjectiveSeq(q) == \A i, j \in DOMAIN q : q[i] = q[j] => i = j

\* The types a block of a level and order may be listed or marked as.
Carries(l, t, o) ==
    \/ t = MIGRATION_MOVABLE
    \/ t = MIGRATION_LRUTYPE /\ l = MAX_GROUP_LVLS /\ o = 0
    \/ t = MIGRATION_UNMOVABLE /\ l = MAX_GROUP_LVLS /\ NeverPromoted
    \/ t = MIGRATION_UNMOVABLE /\ l = TopLvl /\ o = TopOrder - 1 /\ o <= F - 2

IsListType(s) == Carries(s[1], s[2], s[3])

\* The states of a listed block: a split and a merge clear them, which only
\* the lists of UNMOVABLE blocks can tell.
MayState(s, t) ==
    \/ t = s[2]
    \/ t = MIGRATION_MOVABLE /\ s[2] = MIGRATION_UNMOVABLE /\ s[1] = MAX_GROUP_LVLS

\* An item is in one list.
ListedOnce == \A s, t \in Slot, i \in Item : i \in ToSet(cell[s]) /\ i \in ToSet(cell[t]) => s = t

WellListed ==
    /\ \A s \in Slot :
        /\ InjectiveSeq(cell[s])
        /\ count[s] = Len(cell[s])
        /\ cell[s] # <<>> => IsListType(s)
        /\ \A i \in ToSet(cell[s]) : ~present[i] /\ order[i] = s[3] /\ MayState(s, state[i])
    /\ ListedOnce

\* What a block in a caller's or in free_group_migration's hands may be.
IsOut(i, l, o) ==
    /\ present[i]
    /\ l \in Lvl /\ o \in 0..(F - 2)
    /\ Carries(l, state[i], o)

WellHeld ==
    /\ \A b \in held :
         /\ IsOut(b.item, b.lvl, b.order)
         /\ order[b.item] = b.order
         /\ section[b.item] = b.lvl
         /\ node[b.item] = NodeId
    /\ \A b, c \in held : b.item = c.item => b = c

WellFreed ==
    freeing # NoFree =>
        /\ IsOut(freeing.item, freeing.lvl, freeing.order)
        /\ freeing.type = state[freeing.item]
        /\ freeing.type # MIGRATION_MOVABLE
        /\ freeing.index = freeing.order + FUNCTION_ITEM_LVL(freeing.lvl)
        /\ \A b \in held : b.item # freeing.item

Fresh ==
    \A i \in Item : i >= ItemsAfter[grown] =>
        ~present[i] /\ state[i] = MIGRATION_MOVABLE /\ section[i] = 0

OwnersExact ==
    \A i \in Item : owners[i] = IF \E b \in held : Has(b, i) THEN 1 ELSE 0

GroupInv ==
    /\ TypeOK /\ Tiled /\ Coarse /\ Fine /\ WellListed /\ WellHeld /\ WellFreed /\ Fresh
    /\ OwnersExact /\ Coalesced

(***************************************************************************)
(* Tilings.                                                                *)
(***************************************************************************)
LEMMA Constants ==
    /\ F \in Nat /\ F >= 2 /\ MAX_GROUP_LVLS = 3 /\ Lvl \subseteq 0..3
    /\ Order = 0..(F - 1)
BY LevelsAssumption, FreeGroupAssumption DEF MAX_GROUP_LVLS, Order, MAX_ITEM_ORDER

LEMMA BlockBounds ==
    ASSUME NEW b, IsBlock(b)
    PROVE  /\ b.item \in Nat /\ b.lvl \in 0..3 /\ b.order \in Nat
           /\ BlockItems(b.lvl, b.order) \in Nat /\ BlockItems(b.lvl, b.order) >= 1
           /\ Has(b, b.item)
           /\ Has(b, b.item + BlockItems(b.lvl, b.order) - 1)
<1>1. b.item \in Nat /\ b.lvl \in 0..3 /\ b.order \in Nat
  BY Constants DEF IsBlock
<1> DEFINE m == BlockItems(b.lvl, b.order)
<1>2. m \in Nat /\ m >= 1
  BY <1>1, BlockSize
<1>3. \A x : Has(b, x) <=> b.item <= x /\ x < b.item + m
  BY DEF Has
<1> HIDE DEF m
<1>4. Has(b, b.item) /\ Has(b, b.item + m - 1)
  BY <1>1, <1>2, <1>3
<1> QED  BY <1>1, <1>2, <1>4 DEF m

\* Blocks may be exchanged for others of the same items.
LEMMA Retile ==
    ASSUME NEW S, NEW lo, NEW hi, NEW Out, NEW In, NEW T,
           Tiles(S, lo, hi), Out \subseteq S, T = (S \ Out) \cup In,
           \A b \in In : IsBlock(b),
           \A x \in Int : (\E b \in Out : Has(b, x)) <=> (\E b \in In : Has(b, x)),
           \A b, c \in In, x \in Int : Has(b, x) /\ Has(c, x) => b = c
    PROVE  Tiles(T, lo, hi)
<1>1. \A b \in T : IsBlock(b)
  BY DEF Tiles
<1>2. \A b \in T, x \in Int : Has(b, x) => lo <= x /\ x < hi
  BY DEF Tiles
<1>3. \A x \in Int : lo <= x /\ x < hi => \E b \in T : Has(b, x)
  BY DEF Tiles
<1>4. ASSUME NEW b \in T, NEW c \in T, NEW x \in Int, Has(b, x), Has(c, x) PROVE b = c
  <2>1. CASE b \in In /\ c \in In
    BY <1>4, <2>1
  <2>2. CASE b \in In /\ c \in S \ Out
    <3>1. PICK d \in Out : Has(d, x)
      BY <1>4, <2>2
    <3>2. d = c
      BY <1>4, <2>2, <3>1 DEF Tiles
    <3> QED  BY <2>2, <3>1, <3>2
  <2>3. CASE c \in In /\ b \in S \ Out
    <3>1. PICK d \in Out : Has(d, x)
      BY <1>4, <2>3
    <3>2. d = b
      BY <1>4, <2>3, <3>1 DEF Tiles
    <3> QED  BY <2>3, <3>1, <3>2
  <2>4. CASE b \in S /\ c \in S
    BY <1>4, <2>4 DEF Tiles
  <2> QED  BY <2>1, <2>2, <2>3, <2>4
<1> QED  BY <1>1, <1>2, <1>3, <1>4 DEF Tiles

LEMMA Adjoin ==
    ASSUME NEW S, NEW T, NEW lo \in Int, NEW mid \in Int, NEW hi \in Int, lo <= mid, mid <= hi,
           Tiles(S, lo, mid), Tiles(T, mid, hi)
    PROVE  Tiles(S \cup T, lo, hi)
<1>1. \A b \in S \cup T : IsBlock(b)
  BY DEF Tiles
<1>2. \A b \in S \cup T, x \in Int : Has(b, x) => lo <= x /\ x < hi
  BY DEF Tiles
<1>3. \A x \in Int : lo <= x /\ x < hi => \E b \in S \cup T : Has(b, x)
  BY DEF Tiles
<1>4. \A b, c \in S \cup T, x \in Int : Has(b, x) /\ Has(c, x) => b = c
  BY DEF Tiles
<1> QED  BY <1>1, <1>2, <1>3, <1>4 DEF Tiles

\* An item at the head of a block is in no other.
LEMMA HeadsApart ==
    ASSUME NEW S, NEW lo, NEW hi, Tiles(S, lo, hi), NEW b \in S, NEW c \in S, Has(c, b.item)
    PROVE  b = c
<1>1. IsBlock(b)
  BY DEF Tiles
<1>2. b.item \in Int /\ Has(b, b.item)
  BY <1>1, BlockBounds
<1> QED  BY <1>2 DEF Tiles

LEMMA OneBlock ==
    ASSUME NEW S, NEW lo, NEW hi, Tiles(S, lo, hi), NEW b \in S, NEW c \in S, b.item = c.item
    PROVE  b = c
<1>1. IsBlock(c)
  BY DEF Tiles
<1>2. Has(c, b.item)
  BY <1>1, BlockBounds
<1> QED  BY <1>2, HeadsApart

\* A tiling leaves no two blocks overlapping and none that sticks out.
LEMMA TilesApart ==
    ASSUME NEW S, NEW hi \in Int, Tiles(S, 0, hi), NEW b \in S, NEW c \in S
    PROVE  /\ End(b) <= hi
           /\ b # c => End(b) <= c.item \/ End(c) <= b.item
<1>1. IsBlock(b) /\ IsBlock(c)
  BY DEF Tiles
<1> DEFINE m == BlockItems(b.lvl, b.order)
           n == BlockItems(c.lvl, c.order)
<1>2. b.item \in Nat /\ m \in Nat /\ m >= 1 /\ Has(b, b.item + m - 1) /\ Has(b, b.item)
  BY <1>1, BlockBounds
<1>3. c.item \in Nat /\ n \in Nat /\ n >= 1 /\ Has(c, c.item)
  BY <1>1, BlockBounds
<1>4. b.item + m - 1 < hi
  <2> HIDE DEF m
  <2> QED  BY <1>2 DEF Tiles
<1>5. ASSUME b # c PROVE End(b) <= c.item \/ End(c) <= b.item
  <2>1. ~ Has(c, b.item)
    BY <1>5, HeadsApart
  <2>2. ~ Has(b, c.item)
    BY <1>5, HeadsApart
  <2> QED  BY <1>2, <1>3, <2>1, <2>2 DEF Has, End
<1> QED  BY <1>2, <1>4, <1>5 DEF End

(***************************************************************************)
(* Buddies.                                                                *)
(***************************************************************************)
LEMMA QuotientOfQuotient ==
    ASSUME NEW a \in Nat, NEW n \in Nat
    PROVE  a \div BIT(n + 1) = (a \div BIT(n)) \div 2
<1> DEFINE B == BIT(n)
           q == a \div B
           r == a % B
           q2 == q \div 2
           r2 == q % 2
<1>1. B \in Nat /\ B >= 1 /\ BIT(n + 1) = 2 * B
  BY BitPositive, BitDoubles
<1> HIDE DEF B
<1>2. q \in Nat /\ r \in 0..(B - 1) /\ a = B * q + r
  BY <1>1
<1>3. q2 \in Nat /\ r2 \in 0..1 /\ q = 2 * q2 + r2
  <2> HIDE DEF q
  <2> QED  BY <1>2
<1>4. a = q2 * (2 * B) + (r2 * B + r)
  <2> HIDE DEF q, r, q2, r2
  <2>1. B * (2 * q2 + r2) = q2 * (2 * B) + r2 * B
    BY <1>1, <1>3
  <2>2. r2 * B \in Nat
    BY <1>1, <1>3
  <2> QED  BY <1>1, <1>2, <1>3, <2>1, <2>2
<1>5. r2 * B + r \in 0..(2 * B - 1)
  <2> HIDE DEF r, r2
  <2>1. r2 = 0 \/ r2 = 1
    BY <1>3
  <2> QED  BY <1>1, <1>2, <2>1
<1>6. a \div (2 * B) = q2
  <2> HIDE DEF q, r, q2, r2
  <2>1. 2 * B \in Nat /\ 2 * B >= 1
    BY <1>1
  <2> QED  BY <1>3, <1>4, <1>5, <2>1, DivMod
<1> QED  BY <1>1, <1>6 DEF B

\* The buddy of a block of 2^k items is the other half of their parent.
LEMMA BuddyOf ==
    ASSUME NEW a \in Nat, NEW k \in Nat
    PROVE  LET i == a * BIT(k)
               b == next_buddy_idx(i, k)
               parent == (a \div 2) * BIT(k + 1)
           IN  \/ a % 2 = 0 /\ i = parent /\ b = parent + BIT(k)
               \/ a % 2 = 1 /\ i = parent + BIT(k) /\ b = parent
<1> DEFINE i == a * BIT(k)
           b == next_buddy_idx(i, k)
           h == a \div 2
           parent == h * BIT(k + 1)
<1>1. BIT(k) \in Nat /\ BIT(k) >= 1 /\ BIT(k + 1) = 2 * BIT(k)
  BY BitPositive, BitDoubles
<1>2. i \in Nat /\ i \div BIT(k) = a
  BY <1>1, DivOfMultiple
<1>3. h \in Nat /\ a % 2 \in {0, 1} /\ a = 2 * h + (a % 2)
  OBVIOUS
<1>4. b = IF a % 2 = 0 THEN i + BIT(k) ELSE i - BIT(k)
  BY <1>2 DEF next_buddy_idx
<1> HIDE DEF b, h
<1>5. CASE a % 2 = 0
  <2>1. a = 2 * h
    BY <1>3, <1>5
  <2>2. i = parent
    BY <1>1, <1>3, <2>1
  <2> QED  BY <1>4, <1>5, <2>2 DEF b, h
<1>6. CASE a % 2 = 1
  <2>1. a = 2 * h + 1
    BY <1>3, <1>6
  <2>2. i = parent + BIT(k)
    BY <1>1, <1>3, <2>1
  <2>3. b = i - BIT(k)
    BY <1>4, <1>6
  <2>4. parent \in Nat
    BY <1>1, <1>3
  <2> HIDE DEF i, parent
  <2>5. b = parent
    BY <1>1, <2>2, <2>3, <2>4
  <2> QED  BY <1>6, <2>2, <2>5 DEF b, h, i, parent
<1> QED  BY <1>3, <1>5, <1>6 DEF b, h

\* A block that begins at a multiple of 2^x, and its item after n merges.
LEMMA MergedIs ==
    ASSUME NEW f, NEW a \in Nat, NEW x \in Nat, NEW n \in Nat,
           f.index = x, f.item = a * BIT(x)
    PROVE  Merged(f, n) = (a \div BIT(n)) * BIT(x + n)
<1> DEFINE B == BIT(x)
           N == BIT(n)
           q == a \div N
           r == a % N
<1>1. B \in Nat /\ B >= 1 /\ N \in Nat /\ N >= 1 /\ BIT(x + n) = B * N
  BY BitPositive, BitOfSum
<1>2. f.item \div B = a
  BY <1>1, DivOfMultiple
<1>3. Merged(f, n) = a * B - B * r
  BY <1>2 DEF Merged
<1> HIDE DEF B, N
<1>4. q \in Nat /\ r \in Nat /\ a = N * q + r
  BY <1>1
<1> HIDE DEF q, r
<1>5. a * B - B * r = q * (B * N)
  BY <1>1, <1>4
<1> QED  BY <1>1, <1>3, <1>5 DEF B, N, q

AreHalves(i, b, parent, w) ==
    \/ i = parent /\ b = parent + w
    \/ i = parent + w /\ b = parent

\* One merge: the block and its buddy are the halves of the next block.
LEMMA OneMerge ==
    ASSUME NEW f, NEW x \in Nat, NEW n \in Nat,
           f.index = x, Aligned(f.item, x), NEW w, w = BIT(x + n)
    PROVE  /\ w \in Nat /\ w >= 1 /\ BIT(x + (n + 1)) = 2 * w
           /\ Merged(f, n + 1) \in Nat
           /\ AreHalves(Merged(f, n), Buddy(f, n), Merged(f, n + 1), w)
<1>10. PICK a \in Nat : f.item = a * BIT(x)
  BY DEF Aligned
<1> DEFINE k == x + n
           d == a \div BIT(n)
<1>1. k \in Nat /\ n + 1 \in Nat /\ x + (n + 1) = k + 1
  OBVIOUS
<1>2. w \in Nat /\ w >= 1 /\ BIT(k + 1) = 2 * w
  BY <1>1, BitPositive, BitDoubles
<1>3. d \in Nat
  BY BitPositive
<1>4. Merged(f, n) = d * w
  BY <1>10, MergedIs
<1>5. Merged(f, n + 1) = (d \div 2) * BIT(k + 1)
  <2>1. Merged(f, n + 1) = (a \div BIT(n + 1)) * BIT(x + (n + 1))
    BY <1>1, <1>10, MergedIs
  <2> QED  BY <1>1, <2>1, QuotientOfQuotient
<1>6. Buddy(f, n) = next_buddy_idx(d * w, k)
  BY <1>4 DEF Buddy
<1>7. d \div 2 \in Nat
  BY <1>3
<1> HIDE DEF d
<1>8. AreHalves(Merged(f, n), Buddy(f, n), Merged(f, n + 1), w)
  BY <1>1, <1>3, <1>4, <1>5, <1>6, BuddyOf DEF AreHalves
<1>9. (d \div 2) * BIT(k + 1) \in Nat
  BY <1>2, <1>7
<1> QED  BY <1>1, <1>2, <1>5, <1>8, <1>9

\* Some merges: the block and the buddies are the items of the block that results.
LEMMA MergeChain ==
    ASSUME NEW f, NEW x \in Nat, NEW n \in Nat, f.index = x, Aligned(f.item, x)
    PROVE  /\ Merged(f, n) \in Nat
           /\ Aligned(Merged(f, n), x + n)
           /\ Merged(f, 0) = f.item
           /\ Merged(f, n) = f.item \/ \E j \in 0..(n - 1) : Merged(f, n) = Buddy(f, j)
           /\ \A y \in Int :
                (Merged(f, n) <= y /\ y < Merged(f, n) + BIT(x + n))
                  <=> \/ f.item <= y /\ y < f.item + BIT(x)
                      \/ \E j \in 0..(n - 1) : Buddy(f, j) <= y /\ y < Buddy(f, j) + BIT(x + j)
<1>6. PICK a \in Nat : f.item = a * BIT(x)
  BY DEF Aligned
<1> DEFINE In(i, k, y) == i <= y /\ y < i + BIT(k)
           Good(m) ==
             /\ Merged(f, m) = f.item \/ \E j \in 0..(m - 1) : Merged(f, m) = Buddy(f, j)
             /\ \A y \in Int : In(Merged(f, m), x + m, y)
                  <=> In(f.item, x, y) \/ \E j \in 0..(m - 1) : In(Buddy(f, j), x + j, y)
           N == {m \in Nat : Good(m)}
<1>7. Merged(f, 0) = f.item
  <2>1. Merged(f, 0) = (a \div BIT(0)) * BIT(x + 0)
    BY <1>6, MergedIs
  <2>2. BIT(0) = 1 /\ a \div 1 = a /\ x + 0 = x
    BY DEF BIT
  <2> QED  BY <1>6, <2>1, <2>2
<1>1. 0 \in N
  <2>1. x + 0 = x
    OBVIOUS
  <2> QED  BY <1>7, <2>1
<1>2. ASSUME NEW m \in Nat, m \in N PROVE m + 1 \in N
  <2> DEFINE w == BIT(x + m)
             M == Merged(f, m)
             B == Buddy(f, m)
             P == Merged(f, m + 1)
  <2>1. /\ w \in Nat /\ w >= 1 /\ BIT(x + (m + 1)) = 2 * w /\ P \in Nat
        /\ (M = P /\ B = P + w) \/ (M = P + w /\ B = P)
    <3>1. w = BIT(x + m)
      OBVIOUS
    <3> HIDE DEF In, Good, N, w, M, B, P
    <3>2. w \in Nat /\ w >= 1 /\ BIT(x + (m + 1)) = 2 * w
      <4>1. x + m \in Nat /\ x + (m + 1) = (x + m) + 1
        OBVIOUS
      <4> QED  BY <3>1, <4>1, BitPositive, BitDoubles
    <3>3. P \in Nat
      BY OneMerge DEF P
    <3>4. (M = P /\ B = P + w) \/ (M = P + w /\ B = P)
      <4>1. AreHalves(Merged(f, m), Buddy(f, m), Merged(f, m + 1), w)
        BY <3>1, OneMerge
      <4> QED  BY <4>1 DEF M, B, P, AreHalves
    <3> QED  BY <3>2, <3>3, <3>4
  <2>2. \A y \in Int : In(P, x + (m + 1), y) <=> In(M, x + m, y) \/ In(B, x + m, y)
    <3> HIDE DEF M, B, P
    <3> QED  BY <2>1
  <2>3. P = M \/ P = B
    BY <2>1
  <2>4. Good(m)
    BY <1>2
  <2>5. m \in 0..((m + 1) - 1) /\ \A j : j \in 0..((m + 1) - 1) <=> j \in 0..(m - 1) \/ j = m
    OBVIOUS
  <2> HIDE DEF In
  <2>6. Good(m + 1)
    <3>1. P = f.item \/ \E j \in 0..((m + 1) - 1) : P = Buddy(f, j)
      BY <2>3, <2>4, <2>5
    <3>2. \A y \in Int : In(P, x + (m + 1), y)
                  <=> In(f.item, x, y) \/ \E j \in 0..((m + 1) - 1) : In(Buddy(f, j), x + j, y)
      BY <2>2, <2>4, <2>5
    <3> QED  BY <3>1, <3>2
  <2> QED  BY <2>6
<1>3. Nat \subseteq N
  <2> HIDE DEF N
  <2> QED  BY <1>1, <1>2, InductionSet
<1>4. Merged(f, n) = (a \div BIT(n)) * BIT(x + n) /\ a \div BIT(n) \in Nat /\ x + n \in Nat
  <2> HIDE DEF In, Good, N
  <2>1. Merged(f, n) = (a \div BIT(n)) * BIT(x + n)
    BY <1>6, MergedIs
  <2>2. BIT(n) \in Nat /\ BIT(n) >= 1
    BY BitPositive
  <2> QED  BY <2>1, <2>2
<1>5. Merged(f, n) \in Nat
  <2> DEFINE d == a \div BIT(n)
  <2> HIDE DEF d
  <2>1. d \in Nat /\ Merged(f, n) = d * BIT(x + n)
    BY <1>4 DEF d
  <2> QED  BY <1>4, <2>1, BitPositive
<1>8. Aligned(Merged(f, n), x + n)
  BY <1>4 DEF Aligned
<1> QED  BY <1>3, <1>5, <1>7, <1>8

(***************************************************************************)
(* Lists.                                                                  *)
(***************************************************************************)
LEMMA TakeHead ==
    ASSUME NEW S, NEW q \in Seq(S), q # <<>>, InjectiveSeq(q)
    PROVE  /\ Head(q) \in ToSet(q) /\ Head(q) \in S
           /\ Tail(q) \in Seq(S) /\ InjectiveSeq(Tail(q))
           /\ ToSet(Tail(q)) = ToSet(q) \ {Head(q)}
           /\ Len(Tail(q)) = Len(q) - 1
<1>1. Len(q) \in Nat /\ Len(q) >= 1 /\ DOMAIN q = 1..Len(q) /\ Head(q) = q[1]
  OBVIOUS
<1>2. /\ Tail(q) \in Seq(S) /\ Len(Tail(q)) = Len(q) - 1
      /\ DOMAIN Tail(q) = 1..(Len(q) - 1)
      /\ \A i \in 1..(Len(q) - 1) : Tail(q)[i] = q[i + 1]
  BY <1>1
<1>3. InjectiveSeq(Tail(q))
  BY <1>1, <1>2 DEF InjectiveSeq
<1>4. ToSet(Tail(q)) \subseteq ToSet(q) \ {Head(q)}
  BY <1>1, <1>2 DEF ToSet, InjectiveSeq
<1>5. ASSUME NEW x \in ToSet(q), x # Head(q) PROVE x \in ToSet(Tail(q))
  <2>1. PICK i \in 1..Len(q) : x = q[i]
    BY <1>1 DEF ToSet
  <2>2. i - 1 \in 1..(Len(q) - 1) /\ (i - 1) + 1 = i
    BY <1>1, <1>5, <2>1
  <2> QED  BY <1>2, <2>1, <2>2 DEF ToSet
<1>6. Head(q) \in ToSet(q) /\ Head(q) \in S
  BY <1>1 DEF ToSet
<1>7. ToSet(Tail(q)) = ToSet(q) \ {Head(q)}
  BY <1>4, <1>5
<1> QED  BY <1>2, <1>3, <1>6, <1>7

LEMMA Joined ==
    ASSUME NEW S, NEW q \in Seq(S), NEW r \in Seq(S), InjectiveSeq(q), InjectiveSeq(r),
           ToSet(q) \cap ToSet(r) = {}
    PROVE  /\ q \o r \in Seq(S) /\ InjectiveSeq(q \o r)
           /\ ToSet(q \o r) = ToSet(q) \cup ToSet(r)
           /\ Len(q \o r) = Len(q) + Len(r)
<1> DEFINE c == q \o r
           m == Len(q)
           n == Len(r)
<1>1. m \in Nat /\ n \in Nat /\ DOMAIN q = 1..m /\ DOMAIN r = 1..n
  OBVIOUS
<1>2. /\ c \in Seq(S) /\ Len(c) = m + n /\ DOMAIN c = 1..(m + n)
      /\ \A i \in 1..(m + n) : c[i] = IF i <= m THEN q[i] ELSE r[i - m]
  OBVIOUS
<1> HIDE DEF c, m, n
<1>3. ASSUME NEW i \in 1..(m + n)
      PROVE  \/ i <= m /\ i \in DOMAIN q /\ c[i] = q[i] /\ c[i] \in ToSet(q)
             \/ i > m /\ i - m \in DOMAIN r /\ c[i] = r[i - m] /\ c[i] \in ToSet(r)
  <2>1. CASE i <= m
    <3>1. i \in DOMAIN q /\ c[i] = q[i]
      BY <1>1, <1>2, <2>1
    <3> QED  BY <2>1, <3>1 DEF ToSet
  <2>2. CASE i > m
    <3>1. i - m \in DOMAIN r /\ ~ (i <= m)
      BY <1>1, <2>2
    <3>2. c[i] = r[i - m]
      BY <1>2, <3>1
    <3> QED  BY <2>2, <3>1, <3>2 DEF ToSet
  <2> QED  BY <1>1, <2>1, <2>2
<1>4. ASSUME NEW i \in 1..(m + n), NEW j \in 1..(m + n), c[i] = c[j] PROVE i = j
  <2>1. (i <= m /\ j <= m) \/ (i > m /\ j > m)
    BY <1>1, <1>3, <1>4
  <2>2. CASE i <= m /\ j <= m
    BY <1>1, <1>3, <1>4, <2>2 DEF InjectiveSeq
  <2>3. CASE i > m /\ j > m
    <3>1. i - m = j - m
      BY <1>1, <1>3, <1>4, <2>3 DEF InjectiveSeq
    <3> QED  BY <1>1, <3>1
  <2> QED  BY <2>1, <2>2, <2>3
<1>5. InjectiveSeq(c)
  BY <1>2, <1>4 DEF InjectiveSeq
<1>6. ToSet(c) \subseteq ToSet(q) \cup ToSet(r)
  BY <1>2, <1>3 DEF ToSet
<1>7. ASSUME NEW x \in ToSet(q) PROVE x \in ToSet(c)
  <2>1. PICK i \in 1..m : x = q[i]
    BY <1>1 DEF ToSet
  <2>2. i \in 1..(m + n) /\ c[i] = q[i]
    BY <1>1, <1>2
  <2> QED  BY <1>2, <2>1, <2>2 DEF ToSet
<1>8. ASSUME NEW x \in ToSet(r) PROVE x \in ToSet(c)
  <2>1. PICK i \in 1..n : x = r[i]
    BY <1>1 DEF ToSet
  <2>2. i + m \in 1..(m + n) /\ ~ (i + m <= m) /\ (i + m) - m = i
    BY <1>1
  <2>3. c[i + m] = r[i]
    BY <1>2, <2>2
  <2> QED  BY <1>2, <2>1, <2>2, <2>3 DEF ToSet
<1>9. ToSet(c) = ToSet(q) \cup ToSet(r)
  BY <1>6, <1>7, <1>8
<1> QED  BY <1>2, <1>5, <1>9 DEF c, m, n

LEMMA OneElement ==
    ASSUME NEW S, NEW x \in S
    PROVE  /\ <<x>> \in Seq(S) /\ InjectiveSeq(<<x>>) /\ ToSet(<<x>>) = {x} /\ Len(<<x>>) = 1
<1>1. DOMAIN <<x>> = {1} /\ <<x>>[1] = x /\ Len(<<x>>) = 1 /\ <<x>> \in Seq(S)
  OBVIOUS
<1> QED  BY <1>1 DEF InjectiveSeq, ToSet

LEMMA AtHead ==
    ASSUME NEW S, NEW q \in Seq(S), InjectiveSeq(q), NEW x \in S, x \notin ToSet(q)
    PROVE  /\ <<x>> \o q \in Seq(S) /\ InjectiveSeq(<<x>> \o q)
           /\ ToSet(<<x>> \o q) = ToSet(q) \cup {x}
           /\ Len(<<x>> \o q) = Len(q) + 1
<1>1. /\ <<x>> \in Seq(S) /\ InjectiveSeq(<<x>>) /\ ToSet(<<x>>) = {x} /\ Len(<<x>>) = 1
  BY OneElement
<1>2. /\ <<x>> \o q \in Seq(S) /\ InjectiveSeq(<<x>> \o q)
      /\ ToSet(<<x>> \o q) = ToSet(<<x>>) \cup ToSet(q)
      /\ Len(<<x>> \o q) = Len(<<x>>) + Len(q)
  <2>1. ToSet(<<x>>) \cap ToSet(q) = {}
    BY <1>1
  <2> QED  BY <1>1, <2>1, Joined
<1>3. Len(q) \in Nat
  OBVIOUS
<1> QED  BY <1>1, <1>2, <1>3

LEMMA AtTail ==
    ASSUME NEW S, NEW q \in Seq(S), InjectiveSeq(q), NEW x \in S, x \notin ToSet(q)
    PROVE  /\ Append(q, x) \in Seq(S) /\ InjectiveSeq(Append(q, x))
           /\ ToSet(Append(q, x)) = ToSet(q) \cup {x}
           /\ Len(Append(q, x)) = Len(q) + 1
<1>1. /\ <<x>> \in Seq(S) /\ InjectiveSeq(<<x>>) /\ ToSet(<<x>>) = {x} /\ Len(<<x>>) = 1
  BY OneElement
<1>2. /\ q \o <<x>> \in Seq(S) /\ InjectiveSeq(q \o <<x>>)
      /\ ToSet(q \o <<x>>) = ToSet(q) \cup ToSet(<<x>>)
      /\ Len(q \o <<x>>) = Len(q) + Len(<<x>>)
  <2>1. ToSet(q) \cap ToSet(<<x>>) = {}
    BY <1>1
  <2> QED  BY <1>1, <2>1, Joined
<1>3. Append(q, x) = q \o <<x>>
  OBVIOUS
<1> QED  BY <1>1, <1>2, <1>3

LEMMA NoElement ==
    InjectiveSeq(<<>>) /\ ToSet(<<>>) = {}
BY DEF InjectiveSeq, ToSet

\* Without keeps a list's members but for those that have gone; one that is
\* there shortens it by one.
LEMMA WithoutIs ==
    ASSUME NEW S, NEW q \in Seq(S), InjectiveSeq(q), NEW gone
    PROVE  /\ Without(q, gone) \in Seq(S)
           /\ InjectiveSeq(Without(q, gone))
           /\ ToSet(Without(q, gone)) = ToSet(q) \ gone
           /\ ToSet(q) \cap gone = {} => Len(Without(q, gone)) = Len(q)
           /\ \A x : ToSet(q) \cap gone = {x} => Len(Without(q, gone)) = Len(q) - 1
<1> DEFINE n == Len(q)
           h == [u \in Nat \X Seq(S) |->
                   IF u[1] + 1 \in 1..n /\ q[u[1] + 1] \notin gone
                   THEN Append(u[2], q[u[1] + 1]) ELSE u[2]]
           IsKept(g) == g = [i \in 0..n |-> IF i = 0 THEN <<>>
                                            ELSE IF q[i] \in gone THEN g[i - 1]
                                            ELSE Append(g[i - 1], q[i])]
           kept == CHOOSE g : IsKept(g)
<1>1. n \in Nat /\ DOMAIN q = 1..n /\ \A i \in 1..n : q[i] \in S
  OBVIOUS
<1>2. \E g : IsKept(g)
  <2>1. h \in [Nat \X Seq(S) -> Seq(S)]
    <3> SUFFICES ASSUME NEW u \in Nat \X Seq(S)
                 PROVE  (IF u[1] + 1 \in 1..n /\ q[u[1] + 1] \notin gone
                         THEN Append(u[2], q[u[1] + 1]) ELSE u[2]) \in Seq(S)
      OBVIOUS
    <3>1. u[2] \in Seq(S)
      OBVIOUS
    <3> QED  BY <1>1, <3>1
  <2>2. <<>> \in Seq(S)
    OBVIOUS
  <2>3. PICK g \in [Nat -> Seq(S)] : g[0] = <<>> /\ \A i \in Nat : g[i + 1] = h[<<i, g[i]>>]
    <3> HIDE DEF h
    <3>1. IsStep(h, Seq(S))
      BY <2>1 DEF IsStep
    <3>2. \E g : IsRecursion(g, Seq(S), <<>>, h)
      BY <2>2, <3>1, RecursionExists
    <3> QED  BY <3>2 DEF IsRecursion
  <2> DEFINE g0 == [i \in 0..n |-> g[i]]
  <2>4. ASSUME NEW i \in 0..n
        PROVE  g0[i] = IF i = 0 THEN <<>> ELSE IF q[i] \in gone THEN g0[i - 1]
                       ELSE Append(g0[i - 1], q[i])
    <3>1. CASE i = 0
      BY <1>1, <2>3, <3>1
    <3>2. CASE i # 0
      <4>1. i - 1 \in Nat /\ (i - 1) + 1 = i /\ i \in 1..n /\ i - 1 \in 0..n
        BY <1>1, <3>2
      <4>2. g[i] = h[<<i - 1, g[i - 1]>>] /\ g[i - 1] \in Seq(S)
        <5> HIDE DEF h, g0, n
        <5>1. g[(i - 1) + 1] = h[<<i - 1, g[i - 1]>>]
          BY <2>3, <4>1
        <5>2. g[i - 1] \in Seq(S)
          BY <2>3, <4>1
        <5> QED  BY <4>1, <5>1, <5>2
      <4>3. h[<<i - 1, g[i - 1]>>] = IF q[i] \notin gone THEN Append(g[i - 1], q[i]) ELSE g[i - 1]
        BY <4>1, <4>2
      <4> QED  BY <3>2, <4>1, <4>2, <4>3
    <3> QED  BY <3>1, <3>2
  <2>5. IsKept(g0)
    BY <2>4
  <2> QED  BY <2>5
<1>3. IsKept(kept)
  BY <1>2
<1>4. Without(q, gone) = kept[n]
  BY DEF Without
<1> HIDE DEF kept, h
<1>5. kept[0] = <<>>
  BY <1>1, <1>3
<1>6. ASSUME NEW i \in 1..n
      PROVE  kept[i] = IF q[i] \in gone THEN kept[i - 1] ELSE Append(kept[i - 1], q[i])
  <2>1. i \in 0..n /\ i # 0
    BY <1>1
  <2> QED  BY <1>3, <2>1
<1> DEFINE Done(i) ==
             /\ kept[i] \in Seq(S) /\ InjectiveSeq(kept[i])
             /\ \A x : x \in ToSet(kept[i]) <=> x \notin gone /\ \E j \in 1..i : x = q[j]
             /\ \A d \in 0..n : (\A j \in 1..n : q[j] \in gone <=> j = d)
                                   => Len(kept[i]) = IF d # 0 /\ d <= i THEN i - 1 ELSE i
           N == {i \in Nat : i <= n => Done(i)}
<1>7. 0 \in N
  <2>1. Len(<<>>) = 0 /\ <<>> \in Seq(S)
    OBVIOUS
  <2>2. \A d \in 0..n : ~ (d # 0 /\ d <= 0)
    BY <1>1
  <2>3. Done(0)
    BY <1>1, <1>5, <2>1, <2>2, NoElement
  <2> QED  BY <2>3
<1>8. ASSUME NEW i \in Nat, i \in N PROVE i + 1 \in N
  <2> SUFFICES ASSUME i + 1 <= n PROVE Done(i + 1)
    OBVIOUS
  <2>1. Done(i)
    BY <1>1, <1>8
  <2>2. /\ i + 1 \in 1..n /\ (i + 1) - 1 = i /\ q[i + 1] \in S
        /\ \A j : j \in 1..(i + 1) <=> j \in 1..i \/ j = i + 1
    BY <1>1
  <2>3. CASE q[i + 1] \in gone
    <3>1. kept[i + 1] = kept[i]
      BY <1>6, <2>2, <2>3
    <3>2. \A x : x \in ToSet(kept[i + 1]) <=> x \notin gone /\ \E j \in 1..(i + 1) : x = q[j]
      BY <2>1, <2>2, <2>3, <3>1
    <3>3. \A d \in 0..n : (\A j \in 1..n : q[j] \in gone <=> j = d)
                 => Len(kept[i + 1]) = IF d # 0 /\ d <= i + 1 THEN (i + 1) - 1 ELSE i + 1
      <4> SUFFICES ASSUME NEW d \in 0..n, \A j \in 1..n : q[j] \in gone <=> j = d
                   PROVE  Len(kept[i + 1]) = IF d # 0 /\ d <= i + 1 THEN (i + 1) - 1 ELSE i + 1
        OBVIOUS
      <4>1. d = i + 1
        BY <2>2, <2>3
      <4>2. Len(kept[i]) = i
        BY <2>1, <4>1
      <4> QED  BY <3>1, <4>1, <4>2
    <3> QED  BY <2>1, <3>1, <3>2, <3>3
  <2>4. CASE q[i + 1] \notin gone
    <3>1. kept[i + 1] = Append(kept[i], q[i + 1])
      BY <1>6, <2>2, <2>4
    <3>2. q[i + 1] \notin ToSet(kept[i])
      <4>1. \A j \in 1..i : q[i + 1] # q[j]
        BY <1>1, <2>2 DEF InjectiveSeq
      <4> QED  BY <2>1, <4>1
    <3>3. /\ kept[i + 1] \in Seq(S) /\ InjectiveSeq(kept[i + 1])
          /\ ToSet(kept[i + 1]) = ToSet(kept[i]) \cup {q[i + 1]}
          /\ Len(kept[i + 1]) = Len(kept[i]) + 1
      BY <2>1, <2>2, <3>1, <3>2, AtTail
    <3>4. \A x : x \in ToSet(kept[i + 1]) <=> x \notin gone /\ \E j \in 1..(i + 1) : x = q[j]
      BY <2>1, <2>2, <2>4, <3>3
    <3>5. \A d \in 0..n : (\A j \in 1..n : q[j] \in gone <=> j = d)
                 => Len(kept[i + 1]) = IF d # 0 /\ d <= i + 1 THEN (i + 1) - 1 ELSE i + 1
      <4> SUFFICES ASSUME NEW d \in 0..n, \A j \in 1..n : q[j] \in gone <=> j = d
                   PROVE  Len(kept[i + 1]) = IF d # 0 /\ d <= i + 1 THEN (i + 1) - 1 ELSE i + 1
        OBVIOUS
      <4>1. d # i + 1
        BY <2>2, <2>4
      <4>2. Len(kept[i]) = IF d # 0 /\ d <= i THEN i - 1 ELSE i
        BY <2>1
      <4> QED  BY <1>1, <3>3, <4>1, <4>2
    <3> QED  BY <3>3, <3>4, <3>5
  <2> QED  BY <2>3, <2>4
<1>9. Nat \subseteq N
  <2> HIDE DEF N
  <2> QED  BY <1>7, <1>8, InductionSet
<1>10. Done(n)
  <2> HIDE DEF Done
  <2> QED  BY <1>1, <1>9
<1>11. ToSet(kept[n]) = ToSet(q) \ gone
  BY <1>1, <1>10 DEF ToSet
<1>12. ASSUME ToSet(q) \cap gone = {} PROVE Len(kept[n]) = n
  <2>1. 0 \in 0..n /\ \A j \in 1..n : q[j] \in gone <=> j = 0
    BY <1>1, <1>12 DEF ToSet
  <2> QED  BY <1>10, <2>1
<1>13. ASSUME NEW x, ToSet(q) \cap gone = {x} PROVE Len(kept[n]) = n - 1
  <2>1. PICK d \in 1..n : q[d] = x
    BY <1>1, <1>13 DEF ToSet
  <2>2. d \in 0..n /\ \A j \in 1..n : q[j] \in gone <=> j = d
    BY <1>1, <1>13, <2>1 DEF ToSet, InjectiveSeq
  <2>3. Len(kept[n]) = IF d # 0 /\ d <= n THEN n - 1 ELSE n
    BY <1>10, <2>2
  <2>4. d # 0 /\ d <= n
    BY <1>1
  <2> HIDE DEF n, Done, N
  <2> QED  BY <2>3, <2>4
<1> QED  BY <1>4, <1>10, <1>11, <1>12, <1>13

\* The members of a finite set of numbers make a list, each once.
LEMMA AscendingLists ==
    ASSUME NEW S \in SUBSET Nat, IsFiniteSet(S)
    PROVE  /\ Ascending(S) \in Seq(S) /\ InjectiveSeq(Ascending(S))
           /\ ToSet(Ascending(S)) = S
<1> DEFINE c == Cardinality(S)
           q == Ascending(S)
<1>1. /\ c \in Nat /\ q \in [1..c -> S] /\ DOMAIN q = 1..c
      /\ \A i, j \in 1..c : i < j => q[i] < q[j]
      /\ \A x \in S : \E i \in 1..c : q[i] = x
  BY AscendingIs
<1> HIDE DEF c, q
<1>2. q \in Seq(S)
  BY <1>1
<1>3. ASSUME NEW i \in 1..c, NEW j \in 1..c, q[i] = q[j] PROVE i = j
  <2>1. ~ (i < j) /\ ~ (j < i)
    <3>1. q[i] \in Nat /\ q[j] \in Nat
      BY <1>1
    <3> QED  BY <1>1, <1>3, <3>1
  <2> QED  BY <1>1, <2>1
<1>4. InjectiveSeq(q)
  BY <1>1, <1>3 DEF InjectiveSeq
<1>5. ToSet(q) = S
  BY <1>1 DEF ToSet
<1> QED  BY <1>2, <1>4, <1>5 DEF q

(***************************************************************************)
(* What a node is made of and grows by.                                    *)
(***************************************************************************)
LEMMA SizeIsPower ==
    ASSUME AlignedGrowth, NEW n \in 1..Len(Sizes)
    PROVE  \E p \in 0..MaxShift : /\ p \in Nat
                                  /\ Sizes[n] = BIT(p) /\ Descriptors(Sizes[n]) = BIT(p)
                                  /\ BIT(p) \in Nat /\ BIT(p) >= 1
                                  /\ ItemsAfter[n - 1] % BIT(p) = 0
<1>1. PICK p \in 0..MaxShift : Sizes[n] = BIT(p) /\ ItemsAfter[n - 1] % BIT(p) = 0
  BY DEF AlignedGrowth
<1>2. p \in Nat
  BY DEF MaxShift
<1> QED  BY <1>1, <1>2, BitPositive, DescriptorsOfPower

LEMMA Growth ==
    ASSUME AlignedGrowth
    PROVE  /\ Len(Sizes) \in Nat /\ Len(Sizes) >= 1
           /\ ItemsAfter[0] = 0
           /\ \A n \in 0..Len(Sizes) : ItemsAfter[n] \in Nat
           /\ \A n \in 1..Len(Sizes) : ItemsAfter[n] = ItemsAfter[n - 1] + Sizes[n]
<1> DEFINE m == Len(Sizes)
           h == [u \in Nat \X Nat |->
                   IF u[1] + 1 \in 1..m THEN u[2] + Descriptors(Sizes[u[1] + 1]) ELSE u[2]]
           IsCount(g) == g = [n \in 0..m |-> IF n = 0 THEN 0
                                             ELSE g[n - 1] + Descriptors(Sizes[n])]
<1>1. m \in Nat /\ m >= 1
  BY FreeGroupAssumption
<1>2. \A n \in 1..m : Descriptors(Sizes[n]) \in Nat /\ Descriptors(Sizes[n]) = Sizes[n]
  BY SizeIsPower
<1>3. \E g : IsCount(g)
  <2>1. h \in [Nat \X Nat -> Nat]
    <3> SUFFICES ASSUME NEW u \in Nat \X Nat
                 PROVE  (IF u[1] + 1 \in 1..m THEN u[2] + Descriptors(Sizes[u[1] + 1])
                         ELSE u[2]) \in Nat
      OBVIOUS
    <3>1. u[2] \in Nat
      OBVIOUS
    <3>2. u[1] + 1 \in 1..m => Descriptors(Sizes[u[1] + 1]) \in Nat
      BY <1>2
    <3> QED  BY <3>1, <3>2
  <2>2. PICK g \in [Nat -> Nat] : g[0] = 0 /\ \A i \in Nat : g[i + 1] = h[<<i, g[i]>>]
    <3> HIDE DEF h
    <3>1. IsStep(h, Nat)
      BY <2>1 DEF IsStep
    <3>2. \E g : IsRecursion(g, Nat, 0, h)
      BY <3>1, RecursionExists
    <3> QED  BY <3>2 DEF IsRecursion
  <2> DEFINE g0 == [i \in 0..m |-> g[i]]
  <2>3. ASSUME NEW i \in 0..m
        PROVE  g0[i] = IF i = 0 THEN 0 ELSE g0[i - 1] + Descriptors(Sizes[i])
    <3>1. CASE i = 0
      BY <1>1, <2>2, <3>1
    <3>2. CASE i # 0
      <4>1. i - 1 \in Nat /\ (i - 1) + 1 = i /\ i \in 1..m /\ i - 1 \in 0..m
        BY <1>1, <3>2
      <4>2. g[i] = h[<<i - 1, g[i - 1]>>] /\ g[i - 1] \in Nat
        BY <2>2, <4>1
      <4>3. h[<<i - 1, g[i - 1]>>] = g[i - 1] + Descriptors(Sizes[i])
        BY <4>1, <4>2
      <4> QED  BY <3>2, <4>1, <4>2, <4>3
    <3> QED  BY <3>1, <3>2
  <2>4. IsCount(g0)
    BY <2>3
  <2> QED  BY <2>4
<1>4. IsCount(ItemsAfter)
  <2>1. ItemsAfter = CHOOSE g : IsCount(g)
    BY DEF ItemsAfter
  <2> HIDE DEF IsCount
  <2> QED  BY <1>3, <2>1
<1> HIDE DEF h
<1>5. ItemsAfter[0] = 0
  BY <1>1, <1>4
<1>6. ASSUME NEW n \in 1..m PROVE ItemsAfter[n] = ItemsAfter[n - 1] + Sizes[n]
  <2>1. n \in 0..m /\ n # 0
    BY <1>1
  <2>2. ItemsAfter[n] = ItemsAfter[n - 1] + Descriptors(Sizes[n])
    BY <1>4, <2>1
  <2> QED  BY <1>2, <2>2
<1> DEFINE N == {k \in Nat : k <= m => ItemsAfter[k] \in Nat}
<1>7. 0 \in N
  BY <1>5
<1>8. ASSUME NEW k \in Nat, k \in N PROVE k + 1 \in N
  <2> SUFFICES ASSUME k + 1 <= m PROVE ItemsAfter[k + 1] \in Nat
    OBVIOUS
  <2>1. k + 1 \in 1..m /\ (k + 1) - 1 = k /\ ItemsAfter[k] \in Nat
    BY <1>1, <1>8
  <2>2. ItemsAfter[k + 1] = ItemsAfter[k] + Sizes[k + 1] /\ Sizes[k + 1] \in Nat
    BY <1>2, <1>6, <2>1
  <2> QED  BY <2>1, <2>2
<1>9. Nat \subseteq N
  <2> HIDE DEF N
  <2> QED  BY <1>7, <1>8, InductionSet
<1>10. \A n \in 0..m : ItemsAfter[n] \in Nat
  BY <1>1, <1>9
<1> QED  BY <1>1, <1>5, <1>6, <1>10

LEMMA GrowthMonotone ==
    ASSUME AlignedGrowth, NEW a \in 0..Len(Sizes), NEW b \in 0..Len(Sizes), a <= b
    PROVE  ItemsAfter[a] <= ItemsAfter[b]
<1> DEFINE N == {k \in Nat : a <= k /\ k <= Len(Sizes) => ItemsAfter[a] <= ItemsAfter[k]}
<1>1. Len(Sizes) \in Nat /\ \A n \in 0..Len(Sizes) : ItemsAfter[n] \in Nat
  BY Growth
<1>2. 0 \in N
  BY <1>1
<1>3. ASSUME NEW k \in Nat, k \in N PROVE k + 1 \in N
  <2> SUFFICES ASSUME a <= k + 1, k + 1 <= Len(Sizes)
               PROVE  ItemsAfter[a] <= ItemsAfter[k + 1]
    OBVIOUS
  <2>1. CASE a = k + 1
    BY <1>1, <2>1
  <2>2. CASE a <= k
    <3>1. k + 1 \in 1..Len(Sizes) /\ (k + 1) - 1 = k /\ ItemsAfter[a] <= ItemsAfter[k]
      BY <1>1, <1>3, <2>2
    <3>2. ItemsAfter[k + 1] = ItemsAfter[k] + Sizes[k + 1] /\ Sizes[k + 1] \in Nat
      BY <3>1, Growth, SizeIsPower
    <3>3. ItemsAfter[a] \in Nat /\ ItemsAfter[k] \in Nat
      BY <1>1, <3>1
    <3> QED  BY <3>1, <3>2, <3>3
  <2> QED  BY <1>1, <2>1, <2>2
<1>4. Nat \subseteq N
  <2> HIDE DEF N
  <2> QED  BY <1>2, <1>3, InductionSet
<1> QED  BY <1>1, <1>4

LEMMA ItemIs ==
    ASSUME AlignedGrowth
    PROVE  /\ ItemsAfter[Len(Sizes)] \in Nat
           /\ Item = 0..(ItemsAfter[Len(Sizes)] - 1)
           /\ \A n \in 0..Len(Sizes) : ItemsAfter[n] <= ItemsAfter[Len(Sizes)]
<1>1. Len(Sizes) \in Nat /\ Len(Sizes) \in 0..Len(Sizes)
  BY Growth
<1> QED  BY <1>1, Growth, GrowthMonotone DEF Item

\* How a growth is cut: into blocks of one size, those of the top level first.
LEMMA GrowthCut ==
    ASSUME AlignedGrowth, NEW n \in 1..Len(Sizes)
    PROVE  \E p \in Nat, l \in TopLvl..3, o \in 0..(F - 1) :
               /\ Sizes[n] = BIT(p)
               /\ IsItsOrder(p, l, o)
               /\ BlocksOf(n) = Pieces(BIT(p), ItemsAfter[n], l, o)
               /\ n = 1 => l = TopLvl /\ TopOrder = o + 1
<1>1. PICK p \in 0..MaxShift : p \in Nat /\ Sizes[n] = BIT(p) /\ BIT(p) \in Nat
  BY SizeIsPower
<1>2. TopLvl \in 0..2
  BY FreeGroupAssumption DEF MAX_GROUP_LVLS
<1>3. ItemsAfter[n] \in Int
  BY Growth
<1>4. PICK l \in TopLvl..3, o \in 0..(F - 1) :
        /\ IsItsOrder(p, l, o)
        /\ FUNCTION_ITEM_LVL(TopLvl) <= p => l = TopLvl
        /\ __init_pnode_item(BIT(p), ItemsAfter[n], TopLvl, 0, 0)
             = HasBeenCut(BIT(p), ItemsAfter[n], TopLvl, l, o, 0, 0)
  <2>1. TopLvl \in 0..3 /\ 0 \in Nat
    BY <1>2
  <2>2. IsCut(__init_pnode_item(BIT(p), ItemsAfter[n], TopLvl, 0, 0), p, ItemsAfter[n], TopLvl, 0, 0)
    BY <1>1, <1>3, <2>1, CutOfPower
  <2>3. 0 % block_size(TopLvl) = 0
    BY <2>1, NoRemainder
  <2> QED  BY <2>2, <2>3 DEF IsCut
<1>5. Cutting[n] = HasBeenCut(BIT(p), ItemsAfter[n], TopLvl, l, o, 0, 0)
  BY <1>1, <1>4 DEF Cutting
<1>6. BlocksOf(n) = Pieces(BIT(p), ItemsAfter[n], l, o)
  BY <1>5 DEF BlocksOf, HasBeenCut
<1>7. ASSUME n = 1 PROVE l = TopLvl /\ TopOrder = o + 1
  <2> DEFINE filled == {k \in 0..(MAX_GROUP_LVLS - 1) : block_size(k) <= BIT(p)}
  <2>1. TopLvl = IF filled = {} THEN -1 ELSE Min(filled)
    BY <1>1, <1>7 DEF TopLvl, nitems_to_lvl
  <2>2. filled # {} /\ TopLvl = Min(filled)
    <3> HIDE DEF filled
    <3> QED  BY <1>2, <2>1
  <2>3. filled \in SUBSET Nat
    BY DEF MAX_GROUP_LVLS
  <2>4. TopLvl \in filled
    <3>1. \E k \in filled : \A j \in filled : k <= j
      <4> HIDE DEF filled
      <4> QED  BY <2>2, <2>3, LeastIn
    <3> HIDE DEF filled
    <3> QED  BY <2>2, <3>1 DEF Min
  <2>5. BIT(FUNCTION_ITEM_LVL(TopLvl)) <= BIT(p)
    BY <2>4 DEF block_size
  <2>6. FUNCTION_ITEM_LVL(TopLvl) \in Nat
    BY <1>2, LevelShift
  <2>7. FUNCTION_ITEM_LVL(TopLvl) <= p
    <3>1. BIT(FUNCTION_ITEM_LVL(TopLvl)) \in Nat
      BY <2>6, BitPositive
    <3>2. p < FUNCTION_ITEM_LVL(TopLvl) => BIT(p) < BIT(FUNCTION_ITEM_LVL(TopLvl))
      BY <1>1, <2>6, BitMonotone
    <3> QED  BY <1>1, <2>5, <2>6, <3>1, <3>2
  <2>8. l = TopLvl
    BY <1>4, <2>7
  <2>9. Cutting[1].order = o + 1
    BY <1>5, <1>7, <2>8 DEF HasBeenCut
  <2> QED  BY <2>8, <2>9 DEF TopOrder
<1> QED  BY <1>1, <1>4, <1>6, <1>7

LEMMA TopIs ==
    ASSUME AlignedGrowth
    PROVE  TopLvl \in 0..2 /\ TopOrder \in 1..F
<1>1. TopLvl \in 0..2
  BY FreeGroupAssumption DEF MAX_GROUP_LVLS
<1>2. 1 \in 1..Len(Sizes)
  BY Growth
<1>3. \E o \in 0..(F - 1) : TopOrder = o + 1
  BY <1>2, GrowthCut
<1> QED  BY <1>1, <1>3, Constants

\* The blocks of a growth tile its items.
LEMMA GrowthTiles ==
    ASSUME AlignedGrowth, NEW n \in 1..Len(Sizes)
    PROVE  Tiles(BlocksOf(n), ItemsAfter[n - 1], ItemsAfter[n])
<1>1. PICK p \in Nat, l \in TopLvl..3, o \in 0..(F - 1) :
        /\ Sizes[n] = BIT(p) /\ IsItsOrder(p, l, o)
        /\ BlocksOf(n) = Pieces(BIT(p), ItemsAfter[n], l, o)
  BY GrowthCut
<1> DEFINE P == BlocksOf(n)
           size == BlockItems(l, o)
           lo == ItemsAfter[n - 1]
           hi == ItemsAfter[n]
<1>2. n - 1 \in 0..Len(Sizes) /\ n \in 0..Len(Sizes)
  BY Growth
<1>3. lo \in Nat /\ hi \in Nat /\ hi = lo + BIT(p)
  BY <1>1, <1>2, Growth
<1>4. l \in 0..3
  BY <1>1, TopIs
<1>14. P = Pieces(BIT(p), hi, l, o) /\ size = BlockItems(l, o) /\ IsItsOrder(p, l, o)
  BY <1>1
<1> HIDE DEF P, size, lo, hi
<1>5. /\ BIT(p) \in Nat /\ size \in Nat /\ size >= 1
      /\ \A b \in P : /\ b = [item |-> b.item, lvl |-> l, order |-> o]
                      /\ b.item \in Int
                      /\ hi - BIT(p) <= b.item /\ b.item + size <= hi
      /\ \A x \in Int : hi - BIT(p) <= x /\ x < hi =>
             \E b \in P : b.item <= x /\ x < b.item + size
      /\ \A b, c \in P : b # c => b.item + size <= c.item \/ c.item + size <= b.item
      /\ \A q \in Nat : hi = q * BIT(p) => \A b \in P : \E r \in Int : b.item = r * size
  <2>1. hi \in Nat
    BY <1>3
  <2>2. BIT(p) \in Nat /\ size \in Nat /\ size >= 1
    BY <1>4, <1>14, <2>1, PiecesTile
  <2>3. \A b \in P : /\ b = [item |-> b.item, lvl |-> l, order |-> o]
                     /\ b.item \in Int
                     /\ hi - BIT(p) <= b.item /\ b.item + size <= hi
    BY <1>4, <1>14, <2>1, PiecesTile
  <2>4. \A x \in Int : hi - BIT(p) <= x /\ x < hi =>
             \E b \in P : b.item <= x /\ x < b.item + size
    BY <1>4, <1>14, <2>1, PiecesTile
  <2>5. ASSUME NEW b \in P, NEW c \in P, b # c
        PROVE  b.item + size <= c.item \/ c.item + size <= b.item
    <3>1. AreApart(P, size)
      BY <1>4, <1>14, <2>1, PiecesTile
    <3> QED  BY <2>5, <3>1 DEF AreApart
  <2>6. \A q \in Nat : hi = q * BIT(p) => \A b \in P : \E r \in Int : b.item = r * size
    BY <1>4, <1>14, <2>1, PiecesTile
  <2> QED  BY <2>2, <2>3, <2>4, <2>5, <2>6
<1>6. hi - BIT(p) = lo
  BY <1>3, <1>5
<1>7. \E q \in Nat : hi = q * BIT(p)
  <2> DEFINE B == BIT(p)
             d == lo \div B
  <2>1. (lo % B) = 0 /\ B >= 1
    BY <1>1, SizeIsPower DEF lo
  <2>2. B \in Nat /\ hi = lo + B
    BY <1>3, <1>5
  <2> HIDE DEF B
  <2>3. d \in Nat /\ lo = B * d
    BY <1>3, <2>1, <2>2
  <2> HIDE DEF d
  <2>4. d + 1 \in Nat /\ hi = (d + 1) * B
    BY <2>2, <2>3
  <2> QED  BY <2>4 DEF B
<1>8. ASSUME NEW b \in P PROVE b.lvl = l /\ b.order = o
  BY <1>5
<1>9. ASSUME NEW b \in P PROVE IsBlock(b)
  <2>1. b = [item |-> b.item, lvl |-> b.lvl, order |-> b.order]
    BY <1>5, <1>8
  <2>2. b.item \in Nat
    BY <1>3, <1>5, <1>6
  <2>3. PICK r \in Int : b.item = r * size
    BY <1>5, <1>7
  <2>4. r \in Nat
    <3>1. r < 0 => r * size < 0
      BY <1>5
    <3> QED  BY <2>2, <2>3, <3>1
  <2>5. b.lvl \in Lvl
    BY FreeGroupAssumption DEF P
  <2>6. b.order \in Order
    BY <1>8, Constants
  <2>7. Aligned(b.item, b.order + FUNCTION_ITEM_LVL(b.lvl))
    BY <1>8, <2>3, <2>4 DEF Aligned, size, BlockItems
  <2> QED  BY <2>1, <2>2, <2>5, <2>6, <2>7 DEF IsBlock
<1>10. \A b \in P, x \in Int : Has(b, x) <=> b.item <= x /\ x < b.item + size
  BY <1>8 DEF Has, size
<1>11. \A b \in P, x \in Int : Has(b, x) => lo <= x /\ x < hi
  BY <1>3, <1>5, <1>6, <1>10
<1>12. \A x \in Int : lo <= x /\ x < hi => \E b \in P : Has(b, x)
  BY <1>5, <1>6, <1>10
<1>13. \A b, c \in P, x \in Int : Has(b, x) /\ Has(c, x) => b = c
  BY <1>5, <1>10
<1> QED  BY <1>9, <1>11, <1>12, <1>13 DEF Tiles, P, lo, hi

\* And so do those the node has at the start.
LEMMA FirstTiles ==
    ASSUME AlignedGrowth
    PROVE  Tiles(FirstBlocks, 0, ItemsAfter[AtStart])
<1> DEFINE Upto(k) == UNION {BlocksOf(n) : n \in 1..k}
           N == {k \in Nat : k <= Len(Sizes) => Tiles(Upto(k), 0, ItemsAfter[k])}
<1>1. 0 \in N
  <2>1. Upto(0) = {} /\ ItemsAfter[0] = 0
    BY Growth
  <2> HIDE DEF Upto
  <2>2. Tiles(Upto(0), 0, ItemsAfter[0])
    BY <2>1 DEF Tiles
  <2> QED  BY <2>2
<1>2. ASSUME NEW k \in Nat, k \in N PROVE k + 1 \in N
  <2> SUFFICES ASSUME k + 1 <= Len(Sizes) PROVE Tiles(Upto(k + 1), 0, ItemsAfter[k + 1])
    OBVIOUS
  <2>1. Len(Sizes) \in Nat /\ k + 1 \in 1..Len(Sizes) /\ k \in 0..Len(Sizes)
        /\ k + 1 \in 0..Len(Sizes) /\ (k + 1) - 1 = k
    BY Growth
  <2>2. Tiles(Upto(k), 0, ItemsAfter[k])
    BY <1>2, <2>1
  <2>3. Tiles(BlocksOf(k + 1), ItemsAfter[k], ItemsAfter[k + 1])
    BY <2>1, GrowthTiles
  <2>4. Upto(k + 1) = Upto(k) \cup BlocksOf(k + 1)
    <3>1. 1..(k + 1) = (1..k) \cup {k + 1}
      OBVIOUS
    <3> QED  BY <3>1
  <2>5. 0 <= ItemsAfter[k] /\ ItemsAfter[k] <= ItemsAfter[k + 1]
        /\ ItemsAfter[k] \in Int /\ ItemsAfter[k + 1] \in Int
    BY <2>1, Growth, GrowthMonotone
  <2> HIDE DEF Upto
  <2> QED  BY <2>2, <2>3, <2>4, <2>5, Adjoin
<1>3. Nat \subseteq N
  <2> HIDE DEF N
  <2> QED  BY <1>1, <1>2, InductionSet
<1>4. AtStart \in Nat /\ AtStart <= Len(Sizes)
  BY FreeGroupAssumption
<1> QED  BY <1>3, <1>4 DEF FirstBlocks

(***************************************************************************)
(* What the invariant says of lists and blocks.                            *)
(***************************************************************************)

\* The block a list stands for by one of its members.
BlockIn(i, s) == [item |-> i, lvl |-> s[1], order |-> s[3]]

IsListed(c, b) == \E s \in Slot : \E i \in ToSet(c[s]) : b = BlockIn(i, s)

BlockOf(b) == [item |-> b.item, lvl |-> b.lvl, order |-> b.order]

LEMMA FreeIs ==
    /\ \A b : b \in Free <=> IsListed(cell, b)
    /\ \A b : b \in Free' <=> IsListed(cell', b)
BY DEF Free, IsListed, BlockIn

LEMMA SlotIs ==
    /\ \A s \in Slot : /\ s = <<s[1], s[2], s[3]>>
                       /\ s[1] \in Lvl /\ s[2] \in MigrationType /\ s[3] \in Order
    /\ \A l \in Lvl, t \in MigrationType, o \in Order : <<l, t, o>> \in Slot
BY DEF Slot

LEMMA TypesDiffer ==
    /\ MIGRATION_MOVABLE = 0 /\ MIGRATION_SPARSE_MOVABLE = 0
    /\ MIGRATION_UNMOVABLE = 1 /\ MIGRATION_LRUTYPE = 3
    /\ MIGRATION_MOVABLE \in MigrationType
    /\ \A t : IsSparse(t) <=> t = MIGRATION_MOVABLE
BY FreeGroupAssumption
   DEF MIGRATION_MOVABLE, MIGRATION_SPARSE_MOVABLE, MIGRATION_UNMOVABLE, MIGRATION_LRUTYPE,
       IsSparse

LEMMA GrownIs ==
    ASSUME AlignedGrowth, TypeOK
    PROVE  /\ grown \in 0..Len(Sizes) /\ ItemsAfter[grown] \in Nat
           /\ Existing = 0..(ItemsAfter[grown] - 1) /\ Existing \subseteq Item
           /\ \A x \in Int : 0 <= x /\ x < ItemsAfter[grown] => x \in Existing /\ x \in Item
<1>1. grown \in 0..Len(Sizes)
  BY FreeGroupAssumption DEF TypeOK
<1>2. ItemsAfter[grown] \in Nat /\ ItemsAfter[grown] <= ItemsAfter[Len(Sizes)]
  BY <1>1, Growth, ItemIs
<1> QED  BY <1>1, <1>2, ItemIs DEF Existing

LEMMA BlocksOfLists ==
    ASSUME AlignedGrowth, GroupInv, NEW s \in Slot, NEW i \in ToSet(cell[s])
    PROVE  /\ BlockIn(i, s) \in Free /\ BlockIn(i, s) \in Whole
           /\ IsBlock(BlockIn(i, s))
           /\ i \in Item /\ i \in Existing /\ i \in Nat
           /\ ~present[i] /\ order[i] = s[3] /\ MayState(s, state[i])
           /\ IsListType(s)
<1>1. BlockIn(i, s) \in Free /\ BlockIn(i, s) \in Whole
  BY FreeIs DEF IsListed, Whole
<1>2. IsBlock(BlockIn(i, s))
  BY <1>1 DEF GroupInv, Tiled, Tiles
<1>3. i \in Item
  BY DEF GroupInv, TypeOK, ToSet
<1>4. Has(BlockIn(i, s), i) /\ i \in Int
  BY <1>2, BlockBounds DEF BlockIn
<1>5. 0 <= i /\ i < ItemsAfter[grown]
  BY <1>1, <1>4 DEF GroupInv, Tiled, Tiles
<1>6. i \in Existing /\ i \in Nat
  BY <1>4, <1>5, GrownIs DEF GroupInv
<1>7. ~present[i] /\ order[i] = s[3] /\ MayState(s, state[i])
  BY DEF GroupInv, WellListed
<1>8. cell[s] # <<>>
  BY NoElement
<1> QED  BY <1>1, <1>2, <1>3, <1>6, <1>7, <1>8 DEF GroupInv, WellListed

\* The head of a listed block is in no other block.
LEMMA ListedApart ==
    ASSUME AlignedGrowth, GroupInv, NEW s \in Slot, NEW i \in ToSet(cell[s]), NEW c \in Whole, Has(c, i)
    PROVE  c = BlockIn(i, s)
<1>1. BlockIn(i, s) \in Whole /\ BlockIn(i, s).item = i
  BY BlocksOfLists DEF BlockIn
<1> QED  BY <1>1, HeadsApart DEF GroupInv, Tiled

LEMMA OneList ==
    ASSUME AlignedGrowth, GroupInv, NEW s \in Slot, NEW t \in Slot, NEW i \in ToSet(cell[s]),
           i \in ToSet(cell[t])
    PROVE  s = t
<1>1. i \in Item
  BY BlocksOfLists
<1> QED  BY <1>1 DEF GroupInv, WellListed, ListedOnce

LEMMA HeldIs ==
    ASSUME AlignedGrowth, GroupInv, NEW b \in held
    PROVE  /\ BlockOf(b) \in InUse /\ BlockOf(b) \in Whole /\ IsBlock(BlockOf(b))
           /\ b.item \in Item /\ b.lvl \in Lvl /\ b.order \in Order /\ b.type \in MigrationType
           /\ \A x : Has(BlockOf(b), x) <=> Has(b, x)
           /\ Has(b, b.item)
           /\ \A s \in Slot : b.item \notin ToSet(cell[s])
<1>1. BlockOf(b) \in InUse /\ BlockOf(b) \in Whole
  BY DEF InUse, Whole, BlockOf
<1>2. IsBlock(BlockOf(b))
  BY <1>1 DEF GroupInv, Tiled, Tiles
<1>3. b.item \in Item /\ b.lvl \in Lvl /\ b.order \in Order /\ b.type \in MigrationType
  BY DEF GroupInv, TypeOK, Held
<1>4. \A x : Has(BlockOf(b), x) <=> Has(b, x)
  BY DEF Has, BlockOf
<1>5. Has(b, b.item)
  BY <1>2, <1>4, BlockBounds DEF BlockOf
<1>6. present[b.item]
  BY DEF GroupInv, WellHeld, IsOut
<1>7. \A s \in Slot : b.item \notin ToSet(cell[s])
  BY <1>6, BlocksOfLists
<1> QED  BY <1>1, <1>2, <1>3, <1>4, <1>5, <1>7

(***************************************************************************)
(* The invariant implies the properties.                                   *)
(***************************************************************************)
LEMMA InvDisjoint ==
    ASSUME AlignedGrowth, GroupInv
    PROVE  BlocksDisjoint
<1>1. Free \cup InUse \subseteq Whole
  BY DEF Whole
<1>2. Tiles(Whole, 0, ItemsAfter[grown]) /\ ItemsAfter[grown] \in Int
  BY GrownIs DEF GroupInv, Tiled
<1>3. \A b \in Free \cup InUse : End(b) <= ItemsAfter[grown]
  BY <1>1, <1>2, TilesApart
<1>4. \A b, c \in Free \cup InUse : b # c => End(b) <= c.item \/ End(c) <= b.item
  BY <1>1, <1>2, TilesApart
<1>5. ASSUME NEW s \in Slot, NEW t \in Slot, NEW i \in DOMAIN cell[s], NEW j \in DOMAIN cell[t],
             cell[s][i] = cell[t][j]
      PROVE  s = t /\ i = j
  <2>1. cell[s][i] \in ToSet(cell[s]) /\ cell[t][j] \in ToSet(cell[t])
    BY DEF ToSet
  <2>2. s = t
    BY <1>5, <2>1, OneList
  <2> QED  BY <1>5, <2>2 DEF GroupInv, WellListed, InjectiveSeq
<1> QED  BY <1>3, <1>4, <1>5 DEF BlocksDisjoint

LEMMA InvNothingLost ==
    ASSUME AlignedGrowth, GroupInv
    PROVE  NothingLost
<1> SUFFICES ASSUME freeing = NoFree
             PROVE  UNION {SpanOf(b) : b \in Free \cup InUse} = Existing
  BY DEF NothingLost
<1>1. Whole = Free \cup InUse
  BY DEF Whole, Moving
<1>2. ASSUME NEW b \in Whole, NEW x PROVE x \in SpanOf(b) <=> x \in Int /\ Has(b, x)
  <2>1. IsBlock(b)
    BY DEF GroupInv, Tiled, Tiles
  <2>2. b.item \in Int /\ BlockItems(b.lvl, b.order) \in Int
    BY <2>1, BlockBounds
  <2> QED  BY <2>2 DEF SpanOf, Span, Has
<1>3. ASSUME NEW b \in Whole, NEW x \in SpanOf(b) PROVE x \in Existing
  BY <1>2, GrownIs DEF GroupInv, Tiled, Tiles
<1>4. ASSUME NEW x \in Existing PROVE \E b \in Whole : x \in SpanOf(b)
  <2>1. x \in Int /\ 0 <= x /\ x < ItemsAfter[grown]
    BY GrownIs DEF GroupInv
  <2>2. PICK b \in Whole : Has(b, x)
    BY <2>1 DEF GroupInv, Tiled, Tiles
  <2> QED  BY <1>2, <2>1, <2>2
<1> QED  BY <1>1, <1>3, <1>4

LEMMA InvCounts ==
    ASSUME GroupInv
    PROVE  CountsExact
BY DEF GroupInv, WellListed, CountsExact

LEMMA InvCached ==
    ASSUME AlignedGrowth, GroupInv
    PROVE  CachedAreSingle
<1> SUFFICES ASSUME NEW l \in Lvl, NEW o \in Order \ {0}, MIGRATION_LRUTYPE \in MigrationType
             PROVE  cell[<<l, MIGRATION_LRUTYPE, o>>] = <<>>
  BY DEF CachedAreSingle
<1> DEFINE s == <<l, MIGRATION_LRUTYPE, o>>
<1>1. s \in Slot /\ s[2] # MIGRATION_MOVABLE /\ s[3] # 0
  BY SlotIs, TypesDiffer
<1>2. s[2] = MIGRATION_LRUTYPE
  OBVIOUS
<1>3. ~ IsListType(s)
  BY <1>1, <1>2, TypesDiffer DEF IsListType, Carries
<1> QED  BY <1>1, <1>3 DEF GroupInv, WellListed

LEMMA InvHeld ==
    ASSUME AlignedGrowth, GroupInv
    PROVE  HeldIntact
<1> SUFFICES ASSUME NEW b \in held
             PROVE  /\ present[b.item] /\ ~list_in_list(b.item)
                    /\ order[b.item] = b.order
                    /\ section[b.item] = b.lvl
                    /\ node[b.item] = NodeId
  BY DEF HeldIntact
<1>1. ~list_in_list(b.item)
  BY HeldIs DEF list_in_list, Linked
<1> QED  BY <1>1 DEF GroupInv, WellHeld, IsOut

(***************************************************************************)
(* Which UNMOVABLE blocks can be buddies: only those of the last level.    *)
(***************************************************************************)
\* The body of Coalesced, of any cells and states.
IsCoalesced(c, st) ==
    \A l \in Lvl, o \in Order :
        LET blocks == ToSet(c[<<l, MIGRATION_UNMOVABLE, o>>])
            known == {i \in blocks : st[i] = MIGRATION_UNMOVABLE}
        IN  MIGRATION_UNMOVABLE \in MigrationType
              /\ o < MaxOrder(l, MIGRATION_UNMOVABLE) - (IF l = TopLvl THEN 1 ELSE 0)
              => \A i \in known : next_buddy_idx(i, o + FUNCTION_ITEM_LVL(l)) \notin known

LEMMA CoalescedOf ==
    (Coalesced <=> IsCoalesced(cell, state)) /\ (Coalesced' <=> IsCoalesced(cell', state'))
BY DEF Coalesced, IsCoalesced

\* An UNMOVABLE block of the last level may be of any order.
LEMMA LastCarries ==
    ASSUME AlignedGrowth, NEW o, Carries(MAX_GROUP_LVLS, MIGRATION_UNMOVABLE, o)
    PROVE  NeverPromoted /\ \A j : Carries(MAX_GROUP_LVLS, MIGRATION_UNMOVABLE, j)
<1>1. MAX_GROUP_LVLS # TopLvl
  BY Constants, TopIs
<1>2. MIGRATION_UNMOVABLE # MIGRATION_MOVABLE /\ MIGRATION_UNMOVABLE # MIGRATION_LRUTYPE
  BY TypesDiffer
<1>3. NeverPromoted
  <2> HIDE DEF NeverPromoted
  <2> QED  BY <1>1, <1>2 DEF Carries
<1> QED  BY <1>3 DEF Carries

LastSlot(o) == <<MAX_GROUP_LVLS, MIGRATION_UNMOVABLE, o>>

IsKnown(c, st, o, i) == i \in ToSet(c[LastSlot(o)]) /\ st[i] = MIGRATION_UNMOVABLE

\* No two known blocks of the last level are buddies.
LastCoalesced(c, st) ==
    \A o \in 0..(F - 2) : LastSlot(o) \in Slot =>
        \A i : ~ (IsKnown(c, st, o, i) /\ IsKnown(c, st, o, next_buddy_idx(i, o)))

LEMMA CoalescedIs ==
    ASSUME AlignedGrowth, NEW c, NEW st, \A s \in Slot : c[s] # <<>> => IsListType(s)
    PROVE  IsCoalesced(c, st) <=> LastCoalesced(c, st)
<1>1. /\ TopLvl \in 0..2 /\ F \in Nat /\ F >= 2 /\ MAX_GROUP_LVLS = 3
      /\ Order = 0..(F - 1) /\ TopOrder \in Nat
  BY TopIs, Constants
<1>2. ~ IsSparse(MIGRATION_UNMOVABLE)
  BY TypesDiffer
<1>3. FUNCTION_ITEM_LVL(3) = 0 /\ \A o \in Int : o + 0 = o
  BY LevelShift
<1>4. MaxOrder(3, MIGRATION_UNMOVABLE) = F - 1 /\ MaxOrder(TopLvl, MIGRATION_UNMOVABLE) = TopOrder
  BY <1>1, <1>2 DEF MaxOrder
<1>5. ASSUME IsCoalesced(c, st), NEW o \in 0..(F - 2), LastSlot(o) \in Slot, NEW i,
             IsKnown(c, st, o, i)
      PROVE  ~ IsKnown(c, st, o, next_buddy_idx(i, o))
  <2>1. 3 \in Lvl /\ MIGRATION_UNMOVABLE \in MigrationType /\ o \in Order
    BY <1>1, <1>5 DEF LastSlot, Slot
  <2>2. o < F - 1 - 0 /\ 3 # TopLvl
    BY <1>1
  <2> DEFINE known == {j \in ToSet(c[<<3, MIGRATION_UNMOVABLE, o>>]) : st[j] = MIGRATION_UNMOVABLE}
  <2>3. \A j \in known : next_buddy_idx(j, o + FUNCTION_ITEM_LVL(3)) \notin known
    BY <1>4, <1>5, <2>1, <2>2 DEF IsCoalesced
  <2>4. \A j \in known : next_buddy_idx(j, o) \notin known
    <3>1. o + FUNCTION_ITEM_LVL(3) = o
      BY <1>3
    <3> HIDE DEF known
    <3> QED  BY <2>3, <3>1, Zenon
  <2>5. \A j : j \in known <=> IsKnown(c, st, o, j)
    BY <1>1 DEF IsKnown, LastSlot
  <2> HIDE DEF known
  <2> QED  BY <1>5, <2>4, <2>5
<1>6. ASSUME LastCoalesced(c, st), NEW l \in Lvl, NEW o \in Order, MIGRATION_UNMOVABLE \in MigrationType,
             o < MaxOrder(l, MIGRATION_UNMOVABLE) - (IF l = TopLvl THEN 1 ELSE 0),
             NEW i, i \in ToSet(c[<<l, MIGRATION_UNMOVABLE, o>>]), st[i] = MIGRATION_UNMOVABLE,
             next_buddy_idx(i, o + FUNCTION_ITEM_LVL(l)) \in ToSet(c[<<l, MIGRATION_UNMOVABLE, o>>]),
             st[next_buddy_idx(i, o + FUNCTION_ITEM_LVL(l))] = MIGRATION_UNMOVABLE
      PROVE  FALSE
  <2> DEFINE s == <<l, MIGRATION_UNMOVABLE, o>>
  <2>1. s \in Slot
    BY <1>6, SlotIs
  <2>2. IsListType(s)
    BY <1>6, <2>1, NoElement
  <2>3. l = 3 \/ (l = TopLvl /\ o = TopOrder - 1)
    <3>1. s[1] = l /\ s[2] = MIGRATION_UNMOVABLE /\ s[3] = o
      OBVIOUS
    <3> HIDE DEF s
    <3>2. Carries(l, MIGRATION_UNMOVABLE, o)
      BY <2>2, <3>1 DEF IsListType
    <3>3. MIGRATION_UNMOVABLE # MIGRATION_MOVABLE /\ MIGRATION_UNMOVABLE # MIGRATION_LRUTYPE
      BY TypesDiffer
    <3>4. l = MAX_GROUP_LVLS \/ (l = TopLvl /\ o = TopOrder - 1)
      <4> HIDE DEF NeverPromoted, TopOrder, TopLvl, MAX_GROUP_LVLS
      <4> QED  BY <3>2, <3>3, Zenon DEF Carries
    <3> QED  BY <1>1, <3>4
  <2>4. l # TopLvl
    BY <1>1, <1>4, <1>6, <2>3
  <2>5. l = 3 /\ o < F - 1
    BY <1>1, <1>4, <1>6, <2>3, <2>4
  <2>6. o \in 0..(F - 2) /\ s = LastSlot(o)
    BY <1>1, <2>5 DEF LastSlot
  <2>7. IsKnown(c, st, o, i) /\ IsKnown(c, st, o, next_buddy_idx(i, o))
    BY <1>1, <1>3, <1>6, <2>5, <2>6 DEF IsKnown
  <2> QED  BY <1>6, <2>1, <2>6, <2>7 DEF LastCoalesced
<1>7. IsCoalesced(c, st) => LastCoalesced(c, st)
  BY <1>5 DEF LastCoalesced
<1>8. LastCoalesced(c, st) => IsCoalesced(c, st)
  BY <1>6 DEF IsCoalesced
<1> QED  BY <1>7, <1>8

(***************************************************************************)
(* The initial state.                                                      *)
(***************************************************************************)
LEMMA TilesWithin ==
    ASSUME AlignedGrowth, NEW S, NEW lo \in Nat, NEW n \in 0..Len(Sizes),
           Tiles(S, lo, ItemsAfter[n]), NEW b \in S
    PROVE  b.item \in Item /\ b.item \in Nat /\ lo <= b.item /\ b.item < ItemsAfter[n]
<1>1. IsBlock(b)
  BY DEF Tiles
<1>2. b.item \in Nat /\ Has(b, b.item)
  BY <1>1, BlockBounds
<1>3. lo <= b.item /\ b.item < ItemsAfter[n]
  BY <1>2 DEF Tiles
<1>4. ItemsAfter[n] \in Nat /\ ItemsAfter[n] <= ItemsAfter[Len(Sizes)]
      /\ ItemsAfter[Len(Sizes)] \in Nat
  BY Growth, ItemIs
<1> QED  BY <1>2, <1>3, <1>4, ItemIs

\* What is cut of the last level is of LastLevelItems.
LEMMA OfLastLevel ==
    ASSUME AlignedGrowth, NEW n \in 1..Len(Sizes), NEW b \in BlocksOf(n), b.lvl = MAX_GROUP_LVLS,
           NEW x \in Int, Has(b, x)
    PROVE  x \in LastLevelItems
<1>1. IsBlock(b)
  BY GrowthTiles DEF Tiles
<1>2. b.item \in Int /\ BlockItems(b.lvl, b.order) \in Int
  BY <1>1, BlockBounds
<1>3. x \in SpanOf(b)
  BY <1>2 DEF SpanOf, Span, Has
<1> QED  BY <1>3 DEF LastLevelItems

\* A cell is given the blocks of its level and order, each once.
LEMMA ListingIs ==
    ASSUME AlignedGrowth, NEW S, NEW lo \in Nat, NEW n \in 0..Len(Sizes),
           Tiles(S, lo, ItemsAfter[n]), NEW s \in Slot
    PROVE  /\ Listing(S, s) \in Seq(Item) /\ InjectiveSeq(Listing(S, s))
           /\ \A i : i \in ToSet(Listing(S, s))
                       <=> s[2] = MIGRATION_MOVABLE /\ BlockIn(i, s) \in S
<1> DEFINE T == {b.item : b \in {c \in S : <<c.lvl, MIGRATION_MOVABLE, c.order>> = s}}
<1>1. \A b \in S : b.item \in Item /\ b.item \in Nat /\ IsBlock(b)
  BY TilesWithin DEF Tiles
<1>2. T \in SUBSET Nat /\ T \subseteq Item
  BY <1>1
<1>3. IsFiniteSet(T)
  <2> DEFINE last == ItemsAfter[Len(Sizes)] - 1
  <2>2. last \in Int
    BY ItemIs
  <2> HIDE DEF last
  <2>3. IsFiniteSet(0..last)
    BY <2>2, FS_Interval
  <2>1. IsFiniteSet(0..(ItemsAfter[Len(Sizes)] - 1))
    BY <2>3 DEF last
  <2> HIDE DEF T
  <2> QED  BY <1>2, <2>1, ItemIs, FS_Subset
<1>4. Listing(S, s) = Ascending(T)
  BY DEF Listing
<1>5. ASSUME NEW i \in T PROVE s[2] = MIGRATION_MOVABLE /\ BlockIn(i, s) \in S
  <2>1. PICK b \in S : <<b.lvl, MIGRATION_MOVABLE, b.order>> = s /\ b.item = i
    OBVIOUS
  <2>2. b = [item |-> b.item, lvl |-> b.lvl, order |-> b.order]
    BY <1>1 DEF IsBlock
  <2>3. s[1] = b.lvl /\ s[2] = MIGRATION_MOVABLE /\ s[3] = b.order
    BY <2>1
  <2> QED  BY <2>1, <2>2, <2>3 DEF BlockIn
<1>6. ASSUME NEW i, s[2] = MIGRATION_MOVABLE, BlockIn(i, s) \in S PROVE i \in T
  <2>1. /\ BlockIn(i, s).item = i
        /\ <<BlockIn(i, s).lvl, MIGRATION_MOVABLE, BlockIn(i, s).order>> = s
    BY <1>6, SlotIs DEF BlockIn
  <2> QED  BY <1>6, <2>1
<1> HIDE DEF T
<1>7. Ascending(T) \in Seq(T) /\ InjectiveSeq(Ascending(T)) /\ ToSet(Ascending(T)) = T
  BY <1>2, <1>3, AscendingLists
<1>8. Ascending(T) \in Seq(Item)
  <2> DEFINE q == Ascending(T)
  <2> HIDE DEF q
  <2>1. q \in Seq(T)
    BY <1>7 DEF q
  <2>2. Len(q) \in Nat /\ q \in [1..Len(q) -> T]
    BY <2>1
  <2>3. q \in [1..Len(q) -> Item]
    BY <1>2, <2>2
  <2> QED  BY <2>2, <2>3 DEF q
<1> QED  BY <1>4, <1>5, <1>6, <1>7, <1>8

\* The block of a tiling that begins at an item.
LEMMA OneHead ==
    ASSUME NEW S, NEW lo, NEW hi, Tiles(S, lo, hi), NEW b \in S
    PROVE  (CHOOSE c \in S : c.item = b.item) = b
<1> DEFINE d == CHOOSE c \in S : c.item = b.item
<1>1. d \in S /\ d.item = b.item
  OBVIOUS
<1>2. IsBlock(d)
  BY <1>1 DEF Tiles
<1>3. Has(d, d.item)
  BY <1>2, BlockBounds
<1> HIDE DEF d
<1>4. b = d
  BY <1>1, <1>3, HeadsApart
<1> QED  BY <1>4 DEF d

LEMMA InitInv ==
    ASSUME AlignedGrowth, Init
    PROVE  GroupInv
<1>1. Tiles(FirstBlocks, 0, ItemsAfter[AtStart]) /\ AtStart \in 0..Len(Sizes) /\ grown = AtStart
  BY FirstTiles, FreeGroupAssumption DEF Init
<1>2. ASSUME NEW s \in Slot
      PROVE  /\ cell[s] \in Seq(Item) /\ InjectiveSeq(cell[s])
             /\ \A i : i \in ToSet(cell[s]) <=> s[2] = MIGRATION_MOVABLE /\ BlockIn(i, s) \in FirstBlocks
             /\ count[s] = Len(cell[s])
  <2>1. cell[s] = Listing(FirstBlocks, s) /\ count[s] = Len(cell[s])
    BY DEF Init
  <2> QED  BY <1>1, <2>1, ListingIs
<1>3. \A b \in FirstBlocks : IsBlock(b) /\ b.item \in Item /\ b.item < ItemsAfter[AtStart]
  BY <1>1, TilesWithin DEF Tiles
<1>4. \A b \in FirstBlocks : order[b.item] = b.order
  <2> SUFFICES ASSUME NEW b \in FirstBlocks PROVE order[b.item] = b.order
    OBVIOUS
  <2>1. (CHOOSE c \in FirstBlocks : c.item = b.item) = b
    BY <1>1, OneHead
  <2>2. order[b.item] = (CHOOSE c \in FirstBlocks : c.item = b.item).order
    BY <1>3 DEF Init
  <2> QED  BY <2>1, <2>2
<1>5. Free = FirstBlocks
  <2>1. ASSUME NEW b \in Free PROVE b \in FirstBlocks
    BY <1>2, FreeIs DEF IsListed
  <2>2. ASSUME NEW b \in FirstBlocks PROVE b \in Free
    <3> DEFINE s == <<b.lvl, MIGRATION_MOVABLE, b.order>>
    <3>1. s \in Slot /\ s[2] = MIGRATION_MOVABLE /\ BlockIn(b.item, s) = b
      BY <1>3, SlotIs, TypesDiffer DEF IsBlock, BlockIn
    <3>2. b.item \in ToSet(cell[s])
      BY <1>2, <3>1
    <3> QED  BY <3>1, <3>2, FreeIs DEF IsListed
  <2> QED  BY <2>1, <2>2
<1>6. Whole = FirstBlocks
  BY <1>5 DEF Whole, InUse, Moving, Init
<1>7. Tiled
  BY <1>1, <1>6 DEF Tiled
<1>8. Coarse
  <2>1. \A b \in FirstBlocks : \E n \in 1..Len(Sizes) : b \in BlocksOf(n)
    BY FreeGroupAssumption DEF FirstBlocks
  <2> QED  BY <1>6, <2>1 DEF Coarse
<1>9. ASSUME NEW i \in Item
      PROVE  order[i] \in Order /\ node[i] \in {0, NodeId} /\ ~present[i]
             /\ state[i] = MIGRATION_MOVABLE /\ section[i] = 0 /\ owners[i] = 0
  <2>1. CASE \E b \in FirstBlocks : b.item = i
    <3>1. PICK b \in FirstBlocks : b.item = i
      BY <2>1
    <3>2. order[i] \in Order
      BY <1>3, <1>4, <3>1 DEF IsBlock
    <3> QED  BY <3>2 DEF Init
  <2>2. CASE ~ \E b \in FirstBlocks : b.item = i
    BY <2>2, Constants DEF Init
  <2> QED  BY <2>1, <2>2
<1>10. WellListed
  <2>1. ASSUME NEW s \in Slot, NEW i \in ToSet(cell[s])
        PROVE  ~present[i] /\ order[i] = s[3] /\ MayState(s, state[i]) /\ IsListType(s)
    <3>1. s[2] = MIGRATION_MOVABLE /\ BlockIn(i, s) \in FirstBlocks /\ BlockIn(i, s).item = i
          /\ BlockIn(i, s).order = s[3]
      BY <1>2, <2>1 DEF BlockIn
    <3>2. i \in Item /\ order[i] = s[3]
      BY <1>3, <1>4, <3>1
    <3> QED  BY <1>9, <3>1, <3>2 DEF IsListType, Carries, MayState
  <2>2. ASSUME NEW s \in Slot, cell[s] # <<>> PROVE IsListType(s)
    <3>1. Head(cell[s]) \in ToSet(cell[s])
      BY <1>2, <2>2, TakeHead
    <3> QED  BY <2>1, <3>1
  <2>3. ASSUME NEW s \in Slot, NEW t \in Slot, NEW i \in Item, i \in ToSet(cell[s]), i \in ToSet(cell[t])
        PROVE  s = t
    <3>1. /\ s[2] = MIGRATION_MOVABLE /\ BlockIn(i, s) \in FirstBlocks
          /\ t[2] = MIGRATION_MOVABLE /\ BlockIn(i, t) \in FirstBlocks
      BY <1>2, <2>3
    <3>2. BlockIn(i, s).item = i /\ BlockIn(i, t).item = i
      BY DEF BlockIn
    <3>3. BlockIn(i, s) = BlockIn(i, t)
      BY <1>1, <3>1, <3>2, OneBlock
    <3>4. s[1] = t[1] /\ s[3] = t[3]
      BY <3>3 DEF BlockIn
    <3> QED  BY <3>1, <3>4, SlotIs
  <2> QED  BY <1>2, <2>1, <2>2, <2>3 DEF WellListed, ListedOnce
<1>11. held = {} /\ freeing = NoFree /\ fault = FALSE
  BY DEF Init
<1>12. TypeOK
  <2>1. grown \in AtStart..Len(Sizes)
    BY <1>1, FreeGroupAssumption
  <2>2. cell \in [Slot -> Seq(Item)]
    BY <1>2 DEF Init
  <2>3. count \in [Slot -> Int]
    <3>1. \A s \in Slot : count[s] \in Int
      BY <1>2
    <3> QED  BY <3>1 DEF Init
  <2>4. /\ present \in [Item -> BOOLEAN] /\ state \in [Item -> MigrationType]
        /\ section \in [Item -> 0..31] /\ owners \in [Item -> Nat]
    BY TypesDiffer DEF Init
  <2>5. order \in [Item -> Order] /\ node \in [Item -> {0, NodeId}]
    <3>1. DOMAIN order = Item /\ DOMAIN node = Item
      BY DEF Init
    <3>2. order = [i \in Item |-> order[i]] /\ node = [i \in Item |-> node[i]]
      BY DEF Init
    <3> QED  BY <1>9, <3>1, <3>2
  <2> QED  BY <1>11, <2>1, <2>2, <2>3, <2>4, <2>5 DEF TypeOK
<1>13. WellHeld /\ WellFreed
  BY <1>11 DEF WellHeld, WellFreed
<1>14. Fresh /\ OwnersExact
  BY <1>9, <1>11 DEF Fresh, OwnersExact
<1>15. Coalesced
  <2>1. ASSUME NEW o \in 0..(F - 2), LastSlot(o) \in Slot, NEW i PROVE ~ IsKnown(cell, state, o, i)
    <3>1. ToSet(cell[LastSlot(o)]) \subseteq Item
      BY <1>2, <2>1 DEF ToSet
    <3> QED  BY <1>9, <3>1, TypesDiffer DEF IsKnown
  <2>2. LastCoalesced(cell, state)
    BY <2>1 DEF LastCoalesced
  <2>3. \A s \in Slot : cell[s] # <<>> => IsListType(s)
    BY <1>10 DEF WellListed
  <2> QED  BY <2>2, <2>3, CoalescedIs, CoalescedOf
<1>16. Fine
  <2>1. ASSUME NEW b \in FirstBlocks, b.lvl = MAX_GROUP_LVLS, NEW x \in Int, Has(b, x)
        PROVE  x \in LastLevelItems
    <3>1. PICK n \in 1..Len(Sizes) : b \in BlocksOf(n)
      BY FreeGroupAssumption DEF FirstBlocks
    <3> QED  BY <2>1, <3>1, OfLastLevel
  <2> QED  BY <1>6, <2>1 DEF Fine
<1> QED  BY <1>7, <1>8, <1>10, <1>12, <1>13, <1>14, <1>15, <1>16 DEF GroupInv

(***************************************************************************)
(* The steps.                                                              *)
(***************************************************************************)
LEMMA SpanIs ==
    ASSUME NEW b, IsBlock(BlockOf(b)), NEW x
    PROVE  x \in SpanOf(b) <=> x \in Int /\ Has(b, x)
<1>1. b.item \in Int /\ BlockItems(b.lvl, b.order) \in Int
  BY BlockBounds DEF BlockOf
<1> QED  BY <1>1 DEF SpanOf, Span, Has

\* Nobody else holds a part of what a caller holds.
LEMMA HeldApart ==
    ASSUME AlignedGrowth, GroupInv, NEW b \in held, NEW c \in held, NEW x \in Int, Has(b, x), Has(c, x)
    PROVE  b = c
<1>1. BlockOf(b) = BlockOf(c)
  BY HeldIs DEF GroupInv, Tiled, Tiles
<1>2. b.item = c.item
  BY <1>1 DEF BlockOf
<1> QED  BY <1>2 DEF GroupInv, WellHeld

LEMMA InvKept ==
    ASSUME GroupInv, UNCHANGED vars
    PROVE  GroupInv'
<1>1. /\ grown' = grown /\ cell' = cell /\ count' = count /\ present' = present
      /\ order' = order /\ state' = state /\ section' = section /\ node' = node
      /\ held' = held /\ owners' = owners /\ freeing' = freeing /\ fault' = fault
  BY DEF vars, lists, descriptors, holders
<1>2. TypeOK'
  BY <1>1 DEF GroupInv, TypeOK
<1>3. Whole' = Whole
  BY <1>1 DEF Whole, Free, InUse, Moving
<1>4. Tiled' /\ Coarse' /\ Fine'
  BY <1>1, <1>3 DEF GroupInv, Tiled, Coarse, Fine
<1>5. WellListed' /\ WellHeld' /\ WellFreed'
  BY <1>1 DEF GroupInv, WellListed, ListedOnce, WellHeld, WellFreed, IsOut
<1>6. Fresh' /\ OwnersExact' /\ Coalesced'
  BY <1>1 DEF GroupInv, Fresh, OwnersExact, Coalesced
<1> QED  BY <1>2, <1>4, <1>5, <1>6 DEF GroupInv

\* A fault leaves the lists, the descriptors and the callers as they are.
LEMMA FaultKeeps ==
    ASSUME GroupInv, fault' \in BOOLEAN, UNCHANGED <<grown, lists, descriptors, holders, freeing>>
    PROVE  GroupInv'
<1>1. /\ grown' = grown /\ cell' = cell /\ count' = count /\ present' = present
      /\ order' = order /\ state' = state /\ section' = section /\ node' = node
      /\ held' = held /\ owners' = owners /\ freeing' = freeing
  BY DEF lists, descriptors, holders
<1>2. TypeOK'
  BY <1>1 DEF GroupInv, TypeOK
<1>3. Whole' = Whole
  BY <1>1 DEF Whole, Free, InUse, Moving
<1>4. Tiled' /\ Coarse' /\ Fine'
  BY <1>1, <1>3 DEF GroupInv, Tiled, Coarse, Fine
<1>5. WellListed' /\ WellHeld' /\ WellFreed'
  BY <1>1 DEF GroupInv, WellListed, ListedOnce, WellHeld, WellFreed, IsOut
<1>6. Fresh' /\ OwnersExact' /\ Coalesced'
  BY <1>1 DEF GroupInv, Fresh, OwnersExact, Coalesced
<1> QED  BY <1>2, <1>4, <1>5, <1>6 DEF GroupInv

\* The locals of the free_group_migration that dequeue_group_migration calls.
LEMMA DequeuedIs ==
    ASSUME AlignedGrowth, GroupInv, NEW b \in held, dequeue_group_migration(b)
    PROVE  /\ freeing' \in Locals /\ freeing' # NoFree
           /\ freeing' = [item |-> b.item, lvl |-> b.lvl, order |-> b.order,
                          type |-> state[b.item],
                          index |-> b.order + FUNCTION_ITEM_LVL(b.lvl)]
           /\ freeing'.lvl = b.lvl /\ freeing'.order = b.order /\ freeing'.type = state[b.item]
           /\ state[b.item] \in MigrationType
<1> DEFINE i == b.item
           f == freeing'
<1>1. order[i] = b.order /\ section[i] = b.lvl
  BY DEF GroupInv, WellHeld
<1>2. i \in Item /\ b.lvl \in 0..3 /\ b.order \in Nat /\ state[i] \in MigrationType
  <2>1. i \in Item /\ IsBlock(BlockOf(b))
    BY HeldIs
  <2>2. b.lvl \in 0..3 /\ b.order \in Nat
    BY <2>1, BlockBounds DEF BlockOf
  <2>3. state[i] \in MigrationType
    BY <2>1 DEF GroupInv, TypeOK
  <2> QED  BY <2>1, <2>2, <2>3
<1>3. Min({section[i], MAX_GROUP_LVLS}) = b.lvl
  <2>1. section[i] = b.lvl /\ MAX_GROUP_LVLS = 3 /\ b.lvl <= 3 /\ b.lvl \in Nat
    BY <1>1, <1>2, Constants
  <2> QED  BY <2>1 DEF Min
<1>4. f = [item |-> i, lvl |-> b.lvl, order |-> b.order, type |-> state[i],
           index |-> b.order + FUNCTION_ITEM_LVL(b.lvl)]
  BY <1>1, <1>3 DEF dequeue_group_migration
<1>5. f.index \in Nat
  <2>1. FUNCTION_ITEM_LVL(b.lvl) \in Nat
    BY <1>2, LevelShift
  <2> QED  BY <1>2, <1>4, <2>1
<1>6. f \in Locals
  <2> HIDE DEF f
  <2> QED  BY <1>2, <1>4, <1>5 DEF Locals
<1> QED  BY <1>2, <1>4, <1>6, NoFreeAssumption

LEMMA DequeueKeeps ==
    ASSUME AlignedGrowth, GroupInv, NEW b \in held, dequeue_group_migration(b)
    PROVE  GroupInv'
<1> DEFINE i == b.item
           f == freeing'
<1>1. /\ freeing = NoFree /\ held' = held \ {b}
      /\ owners' = [x \in Item |-> owners[x] - IF x \in SpanOf(b) THEN 1 ELSE 0]
      /\ grown' = grown /\ cell' = cell /\ count' = count /\ present' = present
      /\ order' = order /\ state' = state /\ section' = section /\ node' = node /\ fault' = fault
  BY DEF dequeue_group_migration, lists, descriptors
<1>2. /\ IsOut(b.item, b.lvl, b.order) /\ order[i] = b.order /\ section[i] = b.lvl
      /\ \A c \in held : c.item = b.item => c = b
  BY DEF GroupInv, WellHeld
<1>3. /\ i \in Item /\ b.lvl \in Lvl /\ b.lvl \in 0..3 /\ b.order \in Nat /\ state[i] \in MigrationType
      /\ IsBlock(BlockOf(b))
  <2>1. i \in Item /\ b.lvl \in Lvl /\ b.order \in Order /\ IsBlock(BlockOf(b))
    BY HeldIs
  <2>2. b.lvl \in 0..3 /\ b.order \in Nat
    BY <2>1, BlockBounds DEF BlockOf
  <2>3. state[i] \in MigrationType
    BY <2>1 DEF GroupInv, TypeOK
  <2> QED  BY <2>1, <2>2, <2>3
<1>4. state[i] \in MigrationType
  BY DequeuedIs
<1>5. f = [item |-> i, lvl |-> b.lvl, order |-> b.order, type |-> state[i],
           index |-> b.order + FUNCTION_ITEM_LVL(b.lvl)]
  BY DequeuedIs
<1>7. f \in Locals /\ f # NoFree
  BY DequeuedIs
<1> HIDE DEF f
<1>8. TypeOK'
  <2>1. owners' \in [Item -> Nat]
    <3> SUFFICES ASSUME NEW x \in Item
                 PROVE  owners[x] - (IF x \in SpanOf(b) THEN 1 ELSE 0) \in Nat
      BY <1>1
    <3>1. x \in SpanOf(b) => Has(b, x)
      BY <1>3, SpanIs
    <3>2. owners[x] \in Nat /\ (x \in SpanOf(b) => owners[x] = 1)
      BY <3>1 DEF GroupInv, TypeOK, OwnersExact
    <3> QED  BY <3>2
  <2>2. held' \subseteq Held
    BY <1>1 DEF GroupInv, TypeOK
  <2>3. freeing' \in Locals
    BY <1>7 DEF f
  <2> QED  BY <1>1, <2>1, <2>2, <2>3 DEF GroupInv, TypeOK
<1>9. Whole' = Whole
  <2>1. Free' = Free
    BY <1>1 DEF Free
  <2>2. Moving = {} /\ Moving' = {BlockOf(b)}
    BY <1>1, <1>5, <1>7 DEF Moving, BlockOf, f
  <2>3. InUse = InUse' \cup {BlockOf(b)}
    BY <1>1 DEF InUse, BlockOf
  <2> QED  BY <2>1, <2>2, <2>3 DEF Whole
<1>10. Tiled' /\ Coarse' /\ Fine'
  BY <1>1, <1>9 DEF GroupInv, Tiled, Coarse, Fine
<1>11. WellListed'
  BY <1>1 DEF GroupInv, WellListed, ListedOnce
<1>12. WellHeld'
  BY <1>1 DEF GroupInv, WellHeld, IsOut
<1>13. WellFreed'
  <2>1. f.item = i /\ f.lvl = b.lvl /\ f.order = b.order /\ f.type = state[i]
        /\ f.type # MIGRATION_MOVABLE /\ f.index = f.order + FUNCTION_ITEM_LVL(f.lvl)
    BY <1>5, TypesDiffer DEF dequeue_group_migration
  <2>2. \A c \in held' : c.item # f.item
    BY <1>1, <1>2, <2>1
  <2> QED  BY <1>1, <1>2, <2>1, <2>2 DEF WellFreed, IsOut, f
<1>14. Fresh' /\ Coalesced'
  BY <1>1 DEF GroupInv, Fresh, Coalesced
<1>15. OwnersExact'
  <2> SUFFICES ASSUME NEW x \in Item
               PROVE  owners'[x] = IF \E c \in held' : Has(c, x) THEN 1 ELSE 0
    BY DEF OwnersExact
  <2>1. x \in Int /\ owners'[x] = owners[x] - (IF x \in SpanOf(b) THEN 1 ELSE 0)
    BY <1>1, ItemIs
  <2>2. owners[x] = IF \E c \in held : Has(c, x) THEN 1 ELSE 0
    BY DEF GroupInv, OwnersExact
  <2>3. x \in SpanOf(b) <=> Has(b, x)
    BY <1>3, <2>1, SpanIs
  <2>4. CASE Has(b, x)
    <3>1. ~ \E c \in held' : Has(c, x)
      BY <1>1, <2>1, <2>4, HeldApart
    <3> QED  BY <2>1, <2>2, <2>3, <2>4, <3>1
  <2>5. CASE ~ Has(b, x)
    <3>1. (\E c \in held' : Has(c, x)) <=> (\E c \in held : Has(c, x))
      BY <1>1, <2>5
    <3> QED  BY <2>1, <2>2, <2>3, <2>5, <3>1
  <2> QED  BY <2>4, <2>5
<1> QED  BY <1>8, <1>10, <1>11, <1>12, <1>13, <1>14, <1>15 DEF GroupInv

LEMMA UpdateKeeps ==
    ASSUME AlignedGrowth, GroupInv, update_pnode
    PROVE  GroupInv'
<1> DEFINE n == grown + 1
           new == BlocksOf(n)
           lo == ItemsAfter[grown]
           hi == ItemsAfter[n]
<1>1. /\ freeing = NoFree /\ grown < Len(Sizes) /\ grown' = n
      /\ present' = present /\ state' = state /\ section' = section
      /\ held' = held /\ owners' = owners /\ freeing' = freeing /\ fault' = fault
  BY DEF update_pnode, holders
<1>2. /\ cell' = [s \in Slot |-> cell[s] \o Listing(new, s)]
      /\ count' = [s \in Slot |-> count[s] + Len(Listing(new, s))]
      /\ order' = [i \in Item |->
            IF i \in {b.item : b \in new}
            THEN (CHOOSE b \in new : b.item = i).order ELSE order[i]]
      /\ node' = [i \in Item |-> IF i \in {b.item : b \in new} THEN NodeId ELSE node[i]]
  BY DEF update_pnode
<1>3. /\ Len(Sizes) \in Nat /\ n \in 1..Len(Sizes) /\ n \in 0..Len(Sizes) /\ n - 1 = grown
      /\ grown \in AtStart..Len(Sizes) /\ AtStart \in Nat /\ lo \in Nat /\ hi \in Nat /\ lo <= hi
  <2>1. grown \in AtStart..Len(Sizes) /\ AtStart \in Nat /\ AtStart >= 1 /\ Len(Sizes) \in Nat
    BY FreeGroupAssumption DEF GroupInv, TypeOK
  <2>2. n \in 1..Len(Sizes) /\ n \in 0..Len(Sizes) /\ n - 1 = grown /\ grown \in 0..Len(Sizes)
    BY <1>1, <2>1
  <2>3. lo \in Nat /\ hi \in Nat /\ lo <= hi
    BY <2>2, Growth, GrowthMonotone
  <2> QED  BY <2>1, <2>2, <2>3
<1>4. Tiles(new, lo, hi)
  BY <1>3, GrowthTiles
<1> HIDE DEF n, new, lo, hi
<1>5. \A b \in new : /\ IsBlock(b) /\ b.item \in Item /\ b.item \in Nat
                     /\ lo <= b.item /\ b.item < hi
  <2>1. Tiles(new, lo, ItemsAfter[n])
    BY <1>4 DEF hi
  <2> QED  BY <1>3, <1>4, <2>1, TilesWithin DEF Tiles, hi
<1>6. ASSUME NEW s \in Slot
      PROVE  /\ cell'[s] \in Seq(Item) /\ InjectiveSeq(cell'[s])
             /\ count'[s] = Len(cell'[s])
             /\ \A i : i \in ToSet(cell'[s])
                         <=> \/ i \in ToSet(cell[s])
                             \/ s[2] = MIGRATION_MOVABLE /\ BlockIn(i, s) \in new
             /\ cell'[s] # <<>> => IsListType(s)
  <2> DEFINE q == Listing(new, s)
  <2>1. /\ q \in Seq(Item) /\ InjectiveSeq(q)
        /\ \A i : i \in ToSet(q) <=> s[2] = MIGRATION_MOVABLE /\ BlockIn(i, s) \in new
    <3>1. Tiles(new, lo, ItemsAfter[n])
      BY <1>4 DEF hi
    <3> QED  BY <1>3, <3>1, ListingIs
  <2>2. cell[s] \in Seq(Item) /\ InjectiveSeq(cell[s]) /\ count[s] = Len(cell[s])
        /\ (cell[s] # <<>> => IsListType(s))
    BY DEF GroupInv, TypeOK, WellListed
  <2>3. ToSet(cell[s]) \cap ToSet(q) = {}
    <3> SUFFICES ASSUME NEW i \in ToSet(cell[s]), i \in ToSet(q) PROVE FALSE
      OBVIOUS
    <3>1. i \in Nat /\ i < lo
      <4>1. i \in Existing /\ i \in Nat
        BY BlocksOfLists
      <4> QED  BY <1>3, <4>1, GrownIs DEF GroupInv, lo
    <3>2. BlockIn(i, s) \in new /\ BlockIn(i, s).item = i
      BY <2>1 DEF BlockIn
    <3> QED  BY <1>3, <1>5, <3>1, <3>2
  <2>4. cell'[s] = cell[s] \o q /\ count'[s] = count[s] + Len(q)
    BY <1>2
  <2> HIDE DEF q
  <2>5. /\ cell'[s] \in Seq(Item) /\ InjectiveSeq(cell'[s])
        /\ ToSet(cell'[s]) = ToSet(cell[s]) \cup ToSet(q)
        /\ Len(cell'[s]) = Len(cell[s]) + Len(q)
    BY <2>1, <2>2, <2>3, <2>4, Joined
  <2>6. ASSUME cell'[s] # <<>> PROVE IsListType(s)
    <3>1. Head(cell'[s]) \in ToSet(cell'[s])
      BY <2>5, <2>6, TakeHead
    <3>2. CASE Head(cell'[s]) \in ToSet(cell[s])
      BY <3>2, BlocksOfLists
    <3>3. CASE Head(cell'[s]) \in ToSet(q)
      BY <2>1, <3>3 DEF IsListType, Carries
    <3> QED  BY <2>5, <3>1, <3>2, <3>3
  <2> QED  BY <2>1, <2>2, <2>4, <2>5, <2>6
<1>7. ASSUME NEW b \in new
      PROVE  order'[b.item] = b.order /\ node'[b.item] = NodeId /\ b.order \in Order
  <2>1. (CHOOSE c \in new : c.item = b.item) = b
    BY <1>4, OneHead
  <2>2. b.item \in {c.item : c \in new} /\ b.item \in Item /\ b.order \in Order
    BY <1>5 DEF IsBlock
  <2> QED  BY <1>2, <2>1, <2>2
<1>8. ASSUME NEW i \in Existing
      PROVE  i \in Item /\ order'[i] = order[i] /\ node'[i] = node[i]
  <2>1. i \in Item /\ i \in Nat /\ i < lo
    BY GrownIs DEF GroupInv, lo
  <2>2. i \notin {b.item : b \in new}
    BY <1>3, <1>5, <2>1
  <2> QED  BY <1>2, <2>1, <2>2
<1>9. ASSUME NEW i \in Item, i >= lo
      PROVE  ~present[i] /\ state[i] = MIGRATION_MOVABLE /\ section[i] = 0
  BY <1>9 DEF GroupInv, Fresh, lo
<1>10. TypeOK'
  <2>1. grown' \in AtStart..Len(Sizes)
    BY <1>1, <1>3 DEF n
  <2>2. cell' \in [Slot -> Seq(Item)]
    <3>1. cell' = [s \in Slot |-> cell'[s]]
      BY <1>2
    <3> QED  BY <1>6, <3>1
  <2>3. count' \in [Slot -> Int]
    <3>1. \A s \in Slot : count'[s] \in Int
      BY <1>6
    <3>2. count' = [s \in Slot |-> count'[s]]
      BY <1>2
    <3> QED  BY <3>1, <3>2
  <2>4. ASSUME NEW i \in Item PROVE order'[i] \in Order /\ node'[i] \in {0, NodeId}
    <3>1. CASE \E b \in new : b.item = i
      BY <1>7, <3>1
    <3>2. CASE ~ \E b \in new : b.item = i
      <4>1. order'[i] = order[i] /\ node'[i] = node[i]
        BY <1>2, <3>2
      <4> QED  BY <4>1 DEF GroupInv, TypeOK
    <3> QED  BY <3>1, <3>2
  <2>5. order' \in [Item -> Order] /\ node' \in [Item -> {0, NodeId}]
    <3>1. order' = [i \in Item |-> order'[i]] /\ node' = [i \in Item |-> node'[i]]
      BY <1>2
    <3> QED  BY <2>4, <3>1
  <2> QED  BY <1>1, <2>1, <2>2, <2>3, <2>5 DEF GroupInv, TypeOK
<1>11. Whole' = Whole \cup new
  <2>1. ASSUME NEW b PROVE b \in Free' <=> b \in Free \/ b \in new
    <3>1. ASSUME b \in Free' PROVE b \in Free \/ b \in new
      <4>1. PICK s \in Slot : \E i \in ToSet(cell'[s]) : b = BlockIn(i, s)
        BY <3>1, FreeIs DEF IsListed
      <4>2. PICK i \in ToSet(cell'[s]) : b = BlockIn(i, s)
        BY <4>1
      <4>3. i \in ToSet(cell[s]) \/ BlockIn(i, s) \in new
        BY <1>6
      <4> QED  BY <4>2, <4>3, FreeIs DEF IsListed
    <3>2. ASSUME b \in Free PROVE b \in Free'
      BY <1>6, <3>2, FreeIs DEF IsListed
    <3>3. ASSUME b \in new PROVE b \in Free'
      <4> DEFINE s == <<b.lvl, MIGRATION_MOVABLE, b.order>>
      <4>1. s \in Slot /\ s[2] = MIGRATION_MOVABLE /\ BlockIn(b.item, s) = b
        BY <1>5, <3>3, SlotIs, TypesDiffer DEF IsBlock, BlockIn
      <4> HIDE DEF s
      <4>2. b.item \in ToSet(cell'[s])
        BY <1>6, <3>3, <4>1
      <4> QED  BY <4>1, <4>2, FreeIs DEF IsListed
    <3> QED  BY <3>1, <3>2, <3>3
  <2>2. InUse' = InUse /\ Moving' = Moving
    BY <1>1 DEF InUse, Moving
  <2> QED  BY <2>1, <2>2 DEF Whole
<1>12. Tiled'
  <2>1. Tiles(Whole, 0, lo)
    BY DEF GroupInv, Tiled, lo
  <2>2. Tiles(Whole', 0, hi)
    BY <1>3, <1>4, <1>11, <2>1, Adjoin
  <2>3. Tiles(Whole', 0, ItemsAfter[grown'])
    BY <1>1, <2>2 DEF hi
  <2> QED  BY <2>3 DEF Tiled, Tiles
<1>13. Coarse'
  <2>1. \A b \in new : \E k \in 1..Len(Sizes) : \E c \in BlocksOf(k) : c.lvl = b.lvl /\ c.order = b.order
    BY <1>3 DEF new
  <2> QED  BY <1>11, <2>1 DEF GroupInv, Coarse
<1>14. WellListed'
  <2>1. ASSUME NEW s \in Slot, NEW i \in ToSet(cell'[s])
        PROVE  ~present'[i] /\ order'[i] = s[3] /\ MayState(s, state'[i])
    <3>1. CASE i \in ToSet(cell[s])
      <4>1. i \in Existing /\ ~present[i] /\ order[i] = s[3] /\ MayState(s, state[i])
        BY <3>1, BlocksOfLists
      <4> QED  BY <1>1, <1>8, <4>1
    <3>2. CASE s[2] = MIGRATION_MOVABLE /\ BlockIn(i, s) \in new
      <4>1. BlockIn(i, s).item = i /\ BlockIn(i, s).order = s[3]
        BY DEF BlockIn
      <4>2. i \in Item /\ i >= lo /\ order'[i] = s[3]
        BY <1>3, <1>5, <1>7, <3>2, <4>1
      <4> QED  BY <1>1, <1>9, <3>2, <4>2 DEF MayState
    <3> QED  BY <1>6, <3>1, <3>2
  <2>2. ASSUME NEW s \in Slot, NEW t \in Slot, NEW i \in Item, i \in ToSet(cell'[s]), i \in ToSet(cell'[t])
        PROVE  s = t
    <3>1. \A u \in Slot : i \in ToSet(cell[u]) => i < lo /\ i \in Nat
      <4>1. \A u \in Slot : i \in ToSet(cell[u]) => i \in Existing /\ i \in Nat
        BY BlocksOfLists
      <4> QED  BY <1>3, <4>1, GrownIs DEF GroupInv, lo
    <3>2. \A u \in Slot : BlockIn(i, u) \in new => i >= lo /\ BlockIn(i, u).item = i
      <4>1. \A u \in Slot : BlockIn(i, u).item = i
        BY DEF BlockIn
      <4> QED  BY <1>3, <1>5, <4>1
    <3>3. CASE i \in ToSet(cell[s]) /\ i \in ToSet(cell[t])
      BY <3>3, OneList
    <3>4. CASE ~ (i \in ToSet(cell[s]) /\ i \in ToSet(cell[t]))
      <4>1. /\ s[2] = MIGRATION_MOVABLE /\ BlockIn(i, s) \in new
            /\ t[2] = MIGRATION_MOVABLE /\ BlockIn(i, t) \in new
        BY <1>3, <1>6, <2>2, <3>1, <3>2, <3>4
      <4>2. BlockIn(i, s) = BlockIn(i, t)
        BY <1>4, <3>2, <4>1, OneBlock
      <4>3. s[1] = t[1] /\ s[3] = t[3]
        BY <4>2 DEF BlockIn
      <4> QED  BY <4>1, <4>3, SlotIs
    <3> QED  BY <3>3, <3>4
  <2> QED  BY <1>6, <2>1, <2>2 DEF WellListed, ListedOnce
<1>15. \A b \in held : b.item \in Existing
  <2> SUFFICES ASSUME NEW b \in held PROVE b.item \in Existing
    OBVIOUS
  <2>1. BlockOf(b) \in Whole /\ Has(BlockOf(b), b.item) /\ b.item \in Item
    BY HeldIs
  <2>2. b.item \in Int /\ 0 <= b.item /\ b.item < ItemsAfter[grown]
    BY <2>1, ItemIs DEF GroupInv, Tiled, Tiles
  <2> QED  BY <2>2, GrownIs DEF GroupInv
<1>16. WellHeld'
  BY <1>1, <1>8, <1>15 DEF GroupInv, WellHeld, IsOut
<1>17. WellFreed'
  BY <1>1 DEF WellFreed
<1>18. Fresh'
  <2> SUFFICES ASSUME NEW i \in Item, i >= ItemsAfter[grown']
               PROVE  ~present[i] /\ state[i] = MIGRATION_MOVABLE /\ section[i] = 0
    BY <1>1 DEF Fresh
  <2>1. i >= hi /\ i \in Int
    BY <1>1, ItemIs DEF hi
  <2> QED  BY <1>3, <1>9, <2>1
<1>19. OwnersExact'
  BY <1>1 DEF GroupInv, OwnersExact
<1>20. Coalesced'
  <2>1. \A s \in Slot : cell[s] # <<>> => IsListType(s)
    BY DEF GroupInv, WellListed
  <2>2. \A s \in Slot : cell'[s] # <<>> => IsListType(s)
    BY <1>6
  <2>3. ASSUME NEW o \in 0..(F - 2), LastSlot(o) \in Slot, NEW i
        PROVE  IsKnown(cell', state', o, i) <=> IsKnown(cell, state, o, i)
    <3>1. LastSlot(o)[2] # MIGRATION_MOVABLE
      BY TypesDiffer DEF LastSlot
    <3> QED  BY <1>1, <1>6, <2>3, <3>1 DEF IsKnown
  <2>4. LastCoalesced(cell, state)
    BY <2>1, CoalescedIs, CoalescedOf DEF GroupInv
  <2>5. LastCoalesced(cell', state')
    BY <2>3, <2>4 DEF LastCoalesced
  <2> QED  BY <2>2, <2>5, CoalescedIs, CoalescedOf
<1>21. Fine'
  <2>1. \A b \in new, x \in Int : b.lvl = MAX_GROUP_LVLS /\ Has(b, x) => x \in LastLevelItems
    BY <1>3, OfLastLevel DEF new
  <2> QED  BY <1>11, <2>1 DEF GroupInv, Fine
<1> QED  BY <1>10, <1>12, <1>13, <1>14, <1>16, <1>17, <1>18, <1>19, <1>20, <1>21 DEF GroupInv

(***************************************************************************)
(* Splitting.                                                              *)
(***************************************************************************)
LEMMA AlignedDown ==
    ASSUME NEW i, NEW a \in Nat, NEW b \in Nat, a <= b, Aligned(i, b)
    PROVE  Aligned(i, a)
<1>1. PICK q \in Nat : i = q * BIT(b)
  BY DEF Aligned
<1>2. PICK m \in Nat : BIT(b) = m * BIT(a)
  BY BitMultiple
<1>3. BIT(a) \in Nat
  BY BitPositive
<1>4. q * m \in Nat /\ i = (q * m) * BIT(a)
  BY <1>1, <1>2, <1>3
<1> QED  BY <1>4 DEF Aligned

LEMMA AlignedNext ==
    ASSUME NEW i, NEW k \in Nat, Aligned(i, k)
    PROVE  Aligned(i + BIT(k), k)
<1>1. PICK q \in Nat : i = q * BIT(k)
  BY DEF Aligned
<1>2. q + 1 \in Nat /\ i + BIT(k) = (q + 1) * BIT(k)
  BY <1>1, BitPositive
<1> QED  BY <1>2 DEF Aligned

\* The buddy's buddy is the block.
LEMMA BuddyTwice ==
    ASSUME NEW i, NEW k \in Nat, Aligned(i, k)
    PROVE  next_buddy_idx(next_buddy_idx(i, k), k) = i
<1>1. PICK a \in Nat : i = a * BIT(k)
  BY DEF Aligned
<1> DEFINE w == BIT(k)
           h == a \div 2
           parent == h * BIT(k + 1)
           b == next_buddy_idx(i, k)
<1>2. w \in Nat /\ w >= 1 /\ BIT(k + 1) = 2 * w
  BY BitPositive, BitDoubles
<1>3. \/ a % 2 = 0 /\ i = parent /\ b = parent + w
      \/ a % 2 = 1 /\ i = parent + w /\ b = parent
  BY <1>1, BuddyOf
<1>4. h \in Nat /\ a = 2 * h + (a % 2)
  OBVIOUS
<1>5. 2 * h \in Nat /\ (2 * h) \div 2 = h /\ (2 * h) % 2 = 0 /\ (2 * h) * w = parent
  BY <1>2, <1>4
<1>6. 2 * h + 1 \in Nat /\ (2 * h + 1) \div 2 = h /\ (2 * h + 1) % 2 = 1
      /\ (2 * h + 1) * w = parent + w
  BY <1>2, <1>4
<1>7. next_buddy_idx(parent, k) = parent + w
  <2>1. LET x == (2 * h) * BIT(k)
            y == next_buddy_idx(x, k)
            z == ((2 * h) \div 2) * BIT(k + 1)
        IN  \/ (2 * h) % 2 = 0 /\ x = z /\ y = z + BIT(k)
            \/ (2 * h) % 2 = 1 /\ x = z + BIT(k) /\ y = z
    BY <1>5, BuddyOf
  <2> QED  BY <1>5, <2>1
<1>8. next_buddy_idx(parent + w, k) = parent
  <2>1. LET x == (2 * h + 1) * BIT(k)
            y == next_buddy_idx(x, k)
            z == ((2 * h + 1) \div 2) * BIT(k + 1)
        IN  \/ (2 * h + 1) % 2 = 0 /\ x = z /\ y = z + BIT(k)
            \/ (2 * h + 1) % 2 = 1 /\ x = z + BIT(k) /\ y = z
    BY <1>6, BuddyOf
  <2> QED  BY <1>6, <2>1
<1> QED  BY <1>3, <1>7, <1>8

\* The buddy of an upper half is the lower one.
LEMMA HalfBuddy ==
    ASSUME NEW i, NEW k \in Nat, Aligned(i, k + 1)
    PROVE  next_buddy_idx(i, k) = i + BIT(k) /\ next_buddy_idx(i + BIT(k), k) = i
<1>1. PICK q \in Nat : i = q * BIT(k + 1)
  BY DEF Aligned
<1>2. BIT(k) \in Nat /\ BIT(k + 1) = 2 * BIT(k)
  BY BitPositive, BitDoubles
<1>3. 2 * q \in Nat /\ (2 * q) \div 2 = q /\ (2 * q) % 2 = 0 /\ (2 * q) * BIT(k) = i
  BY <1>1, <1>2
<1>4. LET x == (2 * q) * BIT(k)
          y == next_buddy_idx(x, k)
          z == ((2 * q) \div 2) * BIT(k + 1)
      IN  \/ (2 * q) % 2 = 0 /\ x = z /\ y = z + BIT(k)
          \/ (2 * q) % 2 = 1 /\ x = z + BIT(k) /\ y = z
  BY <1>3, BuddyOf
<1>5. next_buddy_idx(i, k) = i + BIT(k)
  BY <1>1, <1>3, <1>4
<1>6. Aligned(i, k)
  BY <1>3 DEF Aligned
<1> QED  BY <1>5, <1>6, BuddyTwice

\* The pieces of a block of the last level that is split down to order o.
HalfBlock(i, j) == [item |-> i + BIT(j), lvl |-> MAX_GROUP_LVLS, order |-> j]

SplitBlocks(i, o, k) ==
    {[item |-> i, lvl |-> MAX_GROUP_LVLS, order |-> o]} \cup {HalfBlock(i, j) : j \in o..(k - 1)}

LEMMA LastLevel ==
    ASSUME NEW b, b.lvl = MAX_GROUP_LVLS, b.order \in Nat
    PROVE  /\ \A x : Has(b, x) <=> b.item <= x /\ x < b.item + BIT(b.order)
           /\ b.order + FUNCTION_ITEM_LVL(b.lvl) = b.order
<1>1. FUNCTION_ITEM_LVL(b.lvl) = 0 /\ b.order + 0 = b.order
  BY Constants, LevelShift
<1> QED  BY <1>1 DEF Has, BlockItems

LEMMA SplitPieces ==
    ASSUME NEW b, IsBlock(b), b.lvl = MAX_GROUP_LVLS, NEW o \in Nat, o <= b.order
    PROVE  /\ \A c \in SplitBlocks(b.item, o, b.order) : IsBlock(c)
           /\ \A x \in Int : Has(b, x) <=> \E c \in SplitBlocks(b.item, o, b.order) : Has(c, x)
           /\ \A c, d \in SplitBlocks(b.item, o, b.order), x \in Int :
                Has(c, x) /\ Has(d, x) => c = d
<1> DEFINE i == b.item
           k == b.order
           first == [item |-> i, lvl |-> MAX_GROUP_LVLS, order |-> o]
           S == SplitBlocks(i, o, k)
<1>1. /\ i \in Nat /\ k \in Nat /\ k \in Order /\ MAX_GROUP_LVLS \in Lvl /\ Order = 0..(F - 1)
      /\ F \in Nat
  BY Constants, BlockBounds DEF IsBlock
<1>2. Aligned(i, k)
  BY <1>1, LastLevel DEF IsBlock
<1>3. \A j \in Nat : BIT(j) \in Nat /\ BIT(j) >= 1
  BY BitPositive
<1>4. \A x : /\ Has(b, x) <=> i <= x /\ x < i + BIT(k)
             /\ Has(first, x) <=> i <= x /\ x < i + BIT(o)
  BY <1>1, LastLevel
<1>5. ASSUME NEW j \in o..(k - 1)
      PROVE  /\ j \in Nat /\ j \in Order /\ HalfBlock(i, j).item = i + BIT(j)
             /\ \A x : Has(HalfBlock(i, j), x) <=> i + BIT(j) <= x /\ x < (i + BIT(j)) + BIT(j)
             /\ IsBlock(HalfBlock(i, j))
  <2>1. j \in Nat /\ j \in Order /\ j <= k
    BY <1>1
  <2>2. /\ HalfBlock(i, j).lvl = MAX_GROUP_LVLS /\ HalfBlock(i, j).order = j
        /\ HalfBlock(i, j).item = i + BIT(j)
    BY DEF HalfBlock
  <2>3. /\ \A x : Has(HalfBlock(i, j), x) <=> i + BIT(j) <= x /\ x < (i + BIT(j)) + BIT(j)
        /\ HalfBlock(i, j).order + FUNCTION_ITEM_LVL(HalfBlock(i, j).lvl) = j
    BY <2>1, <2>2, LastLevel
  <2>4. Aligned(i + BIT(j), j)
    BY <1>1, <1>2, <2>1, AlignedDown, AlignedNext
  <2>5. HalfBlock(i, j) = [item |-> HalfBlock(i, j).item, lvl |-> HalfBlock(i, j).lvl,
                           order |-> HalfBlock(i, j).order]
    BY DEF HalfBlock
  <2>6. i + BIT(j) \in Nat
    <3>1. BIT(j) \in Nat
      BY <1>3, <2>1
    <3> HIDE DEF i
    <3> QED  BY <1>1, <3>1
  <2>7. IsBlock(HalfBlock(i, j))
    BY <1>1, <2>1, <2>2, <2>3, <2>4, <2>5, <2>6 DEF IsBlock
  <2> QED  BY <2>1, <2>2, <2>3, <2>7
<1>6. IsBlock(first)
  <2>1. Aligned(i, o)
    BY <1>1, <1>2, AlignedDown
  <2>2. first.order + FUNCTION_ITEM_LVL(first.lvl) = o
    <3>1. FUNCTION_ITEM_LVL(MAX_GROUP_LVLS) = 0 /\ o + 0 = o
      BY Constants, LevelShift
    <3> QED  BY <3>1
  <2>3. o \in Order
    BY <1>1
  <2> QED  BY <1>1, <2>1, <2>2, <2>3 DEF IsBlock
<1> HIDE DEF first
<1>7. \A c : c \in S <=> c = first \/ \E j \in o..(k - 1) : c = HalfBlock(i, j)
  BY DEF SplitBlocks, first
<1>8. \A c \in S : IsBlock(c)
  BY <1>5, <1>6, <1>7
<1>9. ASSUME NEW x \in Int PROVE Has(b, x) <=> \E c \in S : Has(c, x)
  <2>1. (i <= x /\ x < i + BIT(k))
             <=> \/ i <= x /\ x < i + BIT(o)
                 \/ \E j \in o..(k - 1) : i + BIT(j) <= x /\ x < (i + BIT(j)) + BIT(j)
    BY <1>1, HalvesCover
  <2>2. (\E c \in S : Has(c, x)) <=> Has(first, x) \/ \E j \in o..(k - 1) : Has(HalfBlock(i, j), x)
    BY <1>7
  <2> QED  BY <1>4, <1>5, <2>1, <2>2
<1>10. ASSUME NEW j \in o..(k - 1), NEW x \in Int, Has(first, x), Has(HalfBlock(i, j), x) PROVE FALSE
  <2>1. BIT(o) <= BIT(j) /\ BIT(o) \in Nat /\ BIT(j) \in Nat
    BY <1>3, <1>5, BitMonotone
  <2>2. x < i + BIT(o) /\ i + BIT(j) <= x
    BY <1>4, <1>5, <1>10
  <2> QED  BY <1>1, <2>1, <2>2
<1>11. ASSUME NEW j \in o..(k - 1), NEW m \in o..(k - 1), j < m, NEW x \in Int,
              Has(HalfBlock(i, j), x), Has(HalfBlock(i, m), x)
       PROVE  FALSE
  <2>1. 2 * BIT(j) <= BIT(m) /\ BIT(m) \in Nat /\ BIT(j) \in Nat
    BY <1>3, <1>5, <1>11, BitMonotone
  <2>2. x < (i + BIT(j)) + BIT(j) /\ i + BIT(m) <= x
    BY <1>5, <1>11
  <2> QED  BY <1>1, <2>1, <2>2
<1>12. ASSUME NEW c \in S, NEW d \in S, NEW x \in Int, Has(c, x), Has(d, x) PROVE c = d
  <2>1. CASE c = first \/ d = first
    BY <1>7, <1>10, <1>12, <2>1
  <2>2. CASE c # first /\ d # first
    <3>1. PICK j \in o..(k - 1) : c = HalfBlock(i, j)
      BY <1>7, <2>2
    <3>2. PICK m \in o..(k - 1) : d = HalfBlock(i, m)
      BY <1>7, <2>2
    <3>3. ~ (j < m) /\ ~ (m < j)
      BY <1>11, <1>12, <3>1, <3>2
    <3>4. j = m
      BY <1>1, <3>3
    <3> QED  BY <3>1, <3>2, <3>4
  <2> QED  BY <2>1, <2>2
<1> QED  BY <1>8, <1>9, <1>12

(***************************************************************************)
(* Taking a block.                                                         *)
(***************************************************************************)

\* A block of list <<l, t, k>> is taken for order o.
IsSource(l, t, o, k) ==
    /\ k \in o..(F - 2) /\ k \in Nat /\ k \in Order /\ o \in Nat
    /\ <<l, t, k>> \in Slot /\ cell[<<l, t, k>>] # <<>>
    /\ o < k => l = MAX_GROUP_LVLS /\ t # MIGRATION_LRUTYPE

\* The list a block is taken from: only one of the last level, and of no cached
\* blocks, can be of a larger order than asked.
LEMMA FitIs ==
    ASSUME AlignedGrowth, GroupInv, NEW l \in Lvl, NEW t \in MigrationType, NEW o \in Order,
           CanRemove(l, t, o), Plain(l, t, o),
           NEW k, k = Min(Fits(l, t, o))
    PROVE  IsSource(l, t, o, k)
<1> DEFINE S == Fits(l, t, o)
<1>1. MaxOrder(l, t) \in Nat /\ MaxOrder(l, t) <= F /\ F \in Nat /\ F >= 2 /\ o \in Nat
  BY Constants, TopIs DEF MaxOrder
<1>2. S = {j \in o..(MaxOrder(l, t) - 1) : cell[<<l, t, j>>] # <<>>}
  BY DEF Fits
<1>3. S # {} /\ S \in SUBSET Nat
  <2>1. Fits(l, t, o) # {}
    BY DEF CanRemove
  <2>2. \A j \in o..(MaxOrder(l, t) - 1) : j \in Nat
    BY <1>1
  <2> QED  BY <1>2, <2>1, <2>2
<1> HIDE DEF S
<1>4. \E m \in S : \A n \in S : m <= n
  BY <1>3, LeastIn
<1>5. Min(S) \in S
  BY <1>4 DEF Min
<1>6. k \in S
  BY <1>5 DEF S
<1>7. /\ k \in o..(MaxOrder(l, t) - 1) /\ k \in Nat /\ k \in 0..(F - 1) /\ k \in Order
      /\ cell[<<l, t, k>>] # <<>>
  <2>1. k \in o..(MaxOrder(l, t) - 1) /\ cell[<<l, t, k>>] # <<>>
    BY <1>2, <1>6
  <2>2. k \in Nat /\ k \in 0..(F - 1)
    BY <1>1, <2>1
  <2> QED  BY <2>1, <2>2, Constants
<1> DEFINE s == <<l, t, k>>
<1>8. s \in Slot /\ s[1] = l /\ s[2] = t /\ s[3] = k
  BY <1>7, SlotIs
<1>9. cell[s] \in Seq(Item) /\ InjectiveSeq(cell[s]) /\ Carries(l, t, k)
  BY <1>7, <1>8 DEF GroupInv, TypeOK, WellListed, IsListType
<1>10. k \in o..(F - 2)
  <2>1. CASE t = MIGRATION_UNMOVABLE /\ l # MAX_GROUP_LVLS
    BY <1>1, <1>7, <1>9, <2>1, TypesDiffer DEF Carries
  <2>2. CASE t # MIGRATION_UNMOVABLE \/ l = MAX_GROUP_LVLS
    <3>1. MaxOrder(l, t) = F - 1
      BY <2>2, TypesDiffer, FreeGroupAssumption DEF MaxOrder, Plain, MAX_GROUP_LVLS
    <3> QED  BY <1>1, <1>7, <3>1
  <2> QED  BY <2>1, <2>2
<1>11. ASSUME o < k PROVE l = MAX_GROUP_LVLS /\ t # MIGRATION_LRUTYPE
  <2>1. t # MIGRATION_LRUTYPE
    BY <1>1, <1>7, <1>9, <1>11, TypesDiffer DEF Carries
  <2>2. l # MAX_GROUP_LVLS => t = MIGRATION_MOVABLE
    BY <1>1, <1>7, <1>9, <1>11, <2>1, TypesDiffer DEF Carries, Plain
  <2>3. ASSUME l # MAX_GROUP_LVLS PROVE FALSE
    <3>1. PICK i \in ToSet(cell[s]) : TRUE
      BY <1>7, <1>9, TakeHead
    <3>2. BlockIn(i, s) \in Whole /\ BlockIn(i, s).lvl = l /\ BlockIn(i, s).order = k
      BY <1>8, <3>1, BlocksOfLists DEF BlockIn
    <3>3. \E n \in 1..Len(Sizes) : \E c \in BlocksOf(n) : c.lvl = l /\ c.order = k
      BY <2>3, <3>2 DEF GroupInv, Coarse
    <3>4. \A n \in 1..Len(Sizes) : \A b \in BlocksOf(n) : b.lvl = l => b.order <= o
      BY <2>2, <2>3, TypesDiffer DEF Plain, NeverCut
    <3> QED  BY <1>1, <1>7, <1>11, <3>3, <3>4
  <2> QED  BY <2>1, <2>3
<1> QED  BY <1>1, <1>7, <1>8, <1>10, <1>11 DEF IsSource

\* The block that is taken and the upper halves it leaves.
LEMMA TakenIs ==
    ASSUME AlignedGrowth, GroupInv, NEW l \in Lvl, NEW t \in MigrationType, NEW o, NEW k,
           IsSource(l, t, o, k),
           NEW item, item = Head(cell[<<l, t, k>>]),
           NEW half, half = Halves(item, l, t, o, k)
    PROVE  /\ item \in ToSet(cell[<<l, t, k>>]) /\ item \in Existing /\ item \in Item /\ item \in Nat
           /\ BlockIn(item, <<l, t, k>>) \in Whole
           /\ \A b \in held : b.item # item
           /\ DOMAIN half = o..(k - 1)
           /\ \A j \in o..(k - 1) :
                /\ half[j] = item + BIT(j) /\ half[j] \in Existing /\ half[j] \in Item
                /\ half[j] # item
                /\ Has(BlockIn(item, <<l, t, k>>), half[j])
                /\ \A s \in Slot : half[j] \notin ToSet(cell[s])
                /\ \A b \in held : b.item # half[j]
                /\ \A m \in o..(k - 1) : half[j] = half[m] => j = m
<1> DEFINE s == <<l, t, k>>
           ob == BlockIn(item, s)
<1>9. /\ k \in o..(F - 2) /\ k \in Nat /\ o \in Nat
      /\ o < k => l = MAX_GROUP_LVLS
      /\ s \in Slot /\ cell[s] # <<>>
  BY DEF IsSource
<1>1. cell[s] \in Seq(Item) /\ InjectiveSeq(cell[s]) /\ s \in Slot
  BY <1>9 DEF GroupInv, TypeOK, WellListed
<1>2. item \in ToSet(cell[s])
  BY <1>1, <1>9, TakeHead
<1>3. ob \in Whole /\ IsBlock(ob) /\ item \in Existing /\ item \in Item /\ item \in Nat
  BY <1>1, <1>2, BlocksOfLists
<1>4. ob.item = item /\ ob.lvl = l /\ ob.order = k
  BY DEF BlockIn
<1> HIDE DEF s, ob
<1>5. \A b \in held : b.item # item
  BY <1>1, <1>2, HeldIs
<1>6. DOMAIN half = o..(k - 1)
  BY DEF Halves
<1>7. ASSUME NEW j \in o..(k - 1)
      PROVE  /\ half[j] = item + BIT(j) /\ half[j] \in Existing /\ half[j] \in Item
             /\ half[j] # item /\ half[j] \in Int
             /\ Has(ob, half[j])
             /\ \A r \in Slot : half[j] \notin ToSet(cell[r])
             /\ \A b \in held : b.item # half[j]
  <2>1. k \in Nat /\ j \in Nat /\ o < k /\ j < k
    BY <1>9
  <2>2. l = MAX_GROUP_LVLS
    BY <1>9, <2>1
  <2>3. half[j] = item + BIT(j)
    <3>1. BlockItems(MAX_GROUP_LVLS, j) = BIT(j)
      <4>1. FUNCTION_ITEM_LVL(MAX_GROUP_LVLS) = 0 /\ j + 0 = j
        BY <2>1, Constants, LevelShift
      <4> QED  BY <4>1 DEF BlockItems
    <3> QED  BY <2>2, <3>1 DEF Halves, SplitSize
  <2>4. BIT(j) \in Nat /\ BIT(j) >= 1 /\ BIT(j) < BIT(k) /\ BIT(k) \in Nat
    BY <2>1, BitPositive, BitMonotone
  <2>5. half[j] # item /\ half[j] \in Int /\ item <= half[j] /\ half[j] < item + BIT(k)
    BY <1>3, <2>3, <2>4
  <2>6. Has(ob, half[j])
    BY <1>4, <2>1, <2>2, <2>5, LastLevel
  <2>7. half[j] \in Existing /\ half[j] \in Item
    BY <1>3, <2>5, <2>6, GrownIs DEF GroupInv, Tiled, Tiles
  <2>8. ASSUME NEW r \in Slot, half[j] \in ToSet(cell[r]) PROVE FALSE
    <3>1. ob = BlockIn(half[j], r)
      BY <1>3, <2>6, <2>8, ListedApart
    <3> QED  BY <1>4, <2>5, <3>1 DEF BlockIn
  <2>9. ASSUME NEW b \in held, b.item = half[j] PROVE FALSE
    <3>1. BlockOf(b) \in Whole /\ Has(BlockOf(b), half[j])
      BY <2>9, HeldIs
    <3>2. BlockOf(b) = ob
      BY <1>3, <2>5, <2>6, <3>1 DEF GroupInv, Tiled, Tiles
    <3> QED  BY <1>4, <1>5, <3>2 DEF BlockOf
  <2> QED  BY <2>3, <2>5, <2>6, <2>7, <2>8, <2>9
<1>8. ASSUME NEW j \in o..(k - 1), NEW m \in o..(k - 1), half[j] = half[m] PROVE j = m
  <2>1. j \in Nat /\ m \in Nat
    BY <1>9
  <2>2. BIT(j) \in Nat /\ BIT(m) \in Nat /\ (j < m => BIT(j) < BIT(m)) /\ (m < j => BIT(m) < BIT(j))
    BY <2>1, BitPositive, BitMonotone
  <2>3. half[j] = item + BIT(j) /\ half[m] = item + BIT(m)
    BY <1>7
  <2>4. BIT(j) = BIT(m)
    BY <1>3, <1>8, <2>2, <2>3
  <2> QED  BY <2>1, <2>2, <2>4
<1> QED  BY <1>2, <1>3, <1>5, <1>6, <1>7, <1>8 DEF s, ob

\* The halves may be listed where the block has been, with their state cleared.
LEMMA HalvesListed ==
    ASSUME AlignedGrowth, GroupInv, NEW l \in Lvl, NEW t \in MigrationType, NEW o, NEW k,
           IsSource(l, t, o, k), NEW j \in o..(k - 1)
    PROVE  /\ l = MAX_GROUP_LVLS /\ j \in Nat /\ j \in Order
           /\ <<l, t, j>> \in Slot
           /\ IsListType(<<l, t, j>>) /\ MayState(<<l, t, j>>, MIGRATION_MOVABLE)
<1>1. /\ k \in o..(F - 2) /\ k \in Nat /\ o \in Nat /\ F \in Nat /\ Order = 0..(F - 1)
      /\ <<l, t, k>> \in Slot /\ cell[<<l, t, k>>] # <<>>
      /\ o < k => l = MAX_GROUP_LVLS /\ t # MIGRATION_LRUTYPE
  BY Constants DEF IsSource
<1>2. j \in Nat /\ j \in Order /\ o < k
  BY <1>1
<1>3. l = MAX_GROUP_LVLS /\ t # MIGRATION_LRUTYPE /\ <<l, t, j>> \in Slot
  BY <1>1, <1>2, SlotIs
<1>4. Carries(l, t, k)
  BY <1>1 DEF GroupInv, WellListed, IsListType
<1>5. MAX_GROUP_LVLS # TopLvl
  BY Constants, TopIs
<1>6. t = MIGRATION_MOVABLE \/ t = MIGRATION_UNMOVABLE
  BY <1>3, <1>4 DEF Carries
<1>7. Carries(l, t, j)
  <2>1. CASE t = MIGRATION_MOVABLE
    BY <2>1 DEF Carries
  <2>2. CASE t = MIGRATION_UNMOVABLE
    BY <1>3, <1>4, <2>2, LastCarries
  <2> QED  BY <1>6, <2>1, <2>2
<1>8. IsListType(<<l, t, j>>)
  BY <1>7 DEF IsListType
<1>9. MayState(<<l, t, j>>, MIGRATION_MOVABLE)
  BY <1>3, <1>6 DEF MayState
<1> QED  BY <1>2, <1>3, <1>8, <1>9

\* What the step does to the lists and the descriptors.
LEMMA RemoveIs ==
    ASSUME AlignedGrowth, GroupInv, freeing = NoFree,
           NEW l \in Lvl, NEW t \in MigrationType, NEW o \in Order,
           NEW mark \in MigrationType, NEW asked \in MigrationType,
           CanRemove(l, t, o), Plain(l, t, o),
           remove_group_migration(l, t, o, mark, asked),
           NEW k, k = Min(Fits(l, t, o)),
           NEW item, item = Head(cell[<<l, t, k>>]),
           NEW half, half = Halves(item, l, t, o, k),
           NEW halves, halves = {half[j] : j \in DOMAIN half}
    PROVE  /\ \A s \in Slot :
                /\ cell'[s] \in Seq(Item) /\ InjectiveSeq(cell'[s]) /\ count'[s] = Len(cell'[s])
                /\ cell'[s] # <<>> => IsListType(s)
                /\ \A i : i \in ToSet(cell'[s])
                            <=> \/ i \in ToSet(cell[s]) /\ i # item
                                \/ \E j \in o..(k - 1) : s = <<l, t, j>> /\ i = half[j]
           /\ cell' = [s \in Slot |-> cell'[s]] /\ count' = [s \in Slot |-> count'[s]]
           /\ present' = [i \in Item |-> i = item \/ (present[i] /\ i \notin halves)]
           /\ order' = [i \in Item |->
                  IF i = item THEN o
                  ELSE IF i \in halves THEN HalfOrder(half, i) ELSE order[i]]
           /\ state' = [i \in Item |->
                  IF i = item THEN mark
                  ELSE IF i \in halves THEN MIGRATION_MOVABLE ELSE state[i]]
           /\ section' = [i \in Item |-> IF i \in {item} \cup halves THEN l ELSE section[i]]
           /\ node' = [i \in Item |-> IF i \in {item} \cup halves THEN NodeId ELSE node[i]]
           /\ held' = held \cup {[item |-> item, lvl |-> l, order |-> o, type |-> asked]}
           /\ owners' = [i \in Item |-> owners[i] + IF i \in Span(item, l, o) THEN 1 ELSE 0]
           /\ fault' = fault
<1> DEFINE receives(s) == s[1] = l /\ s[2] = t /\ s[3] \in DOMAIN half
           src == <<l, t, k>>
<1>1. /\ k \in o..(F - 2) /\ k \in Nat /\ k \in Order /\ o \in Nat
      /\ src \in Slot /\ cell[src] # <<>>
      /\ \A j \in o..(k - 1) : IsListType(<<l, t, j>>)
  <2>1. IsSource(l, t, o, k)
    BY FitIs
  <2>2. \A j \in o..(k - 1) : IsListType(<<l, t, j>>)
    BY <2>1, HalvesListed
  <2> QED  BY <2>1, <2>2 DEF IsSource
<1>2. /\ item \in ToSet(cell[src])
      /\ DOMAIN half = o..(k - 1)
      /\ \A j \in o..(k - 1) :
                /\ half[j] \in Existing /\ half[j] \in Item
                /\ half[j] # item
                /\ \A s \in Slot : half[j] \notin ToSet(cell[s])
  <2>1. IsSource(l, t, o, k)
    BY FitIs
  <2> QED  BY <2>1, TakenIs
<1>3. halves \subseteq Existing
  BY <1>2
<1>4. /\ cell' = [s \in Slot |->
                  IF s = src THEN Tail(cell[s])
                  ELSE IF receives(s) THEN <<half[s[3]]>> \o cell[s] ELSE cell[s]]
      /\ count' = [s \in Slot |->
                  IF s = src THEN count[s] - 1
                  ELSE IF receives(s) THEN count[s] + 1 ELSE count[s]]
      /\ present' = [i \in Item |-> i = item \/ (present[i] /\ i \notin halves)]
      /\ order' = [i \in Item |->
                  IF i = item THEN o
                  ELSE IF i \in halves THEN HalfOrder(half, i) ELSE order[i]]
      /\ state' = [i \in Item |->
                  IF i = item THEN mark
                  ELSE IF i \in halves THEN MIGRATION_MOVABLE ELSE state[i]]
      /\ section' = SectionAfterSplit(item, halves, l)
      /\ node' = [i \in Item |-> IF i \in {item} \cup halves THEN NodeId ELSE node[i]]
      /\ held' = held \cup {[item |-> item, lvl |-> l, order |-> o, type |-> asked]}
      /\ owners' = [i \in Item |-> owners[i] + IF i \in Span(item, l, o) THEN 1 ELSE 0]
      /\ fault' = fault
  <2>1. split_group_migration(item, half, halves, l, t, o, k, mark, asked)
    BY DEF remove_group_migration
  <2> QED  BY <1>3, <2>1 DEF split_group_migration
<1> HIDE DEF src
<1>5. ASSUME NEW s \in Slot
      PROVE  /\ cell'[s] \in Seq(Item) /\ InjectiveSeq(cell'[s]) /\ count'[s] = Len(cell'[s])
             /\ cell'[s] # <<>> => IsListType(s)
             /\ \A i : i \in ToSet(cell'[s])
                         <=> \/ i \in ToSet(cell[s]) /\ i # item
                             \/ \E j \in o..(k - 1) : s = <<l, t, j>> /\ i = half[j]
  <2>1. /\ cell[s] \in Seq(Item) /\ InjectiveSeq(cell[s]) /\ count[s] = Len(cell[s])
        /\ cell[s] # <<>> => IsListType(s)
        /\ Len(cell[s]) \in Nat
    BY DEF GroupInv, TypeOK, WellListed
  <2>2. s # src => item \notin ToSet(cell[s])
    BY <1>1, <1>2, OneList
  <2>3. CASE s = src
    <3>1. \A j \in o..(k - 1) : s # <<l, t, j>>
      BY <1>1, <2>3 DEF src
    <3>2. cell'[s] = Tail(cell[s]) /\ count'[s] = count[s] - 1 /\ item = Head(cell[s])
      BY <1>4, <2>3 DEF src
    <3>3. /\ cell'[s] \in Seq(Item) /\ InjectiveSeq(cell'[s])
          /\ ToSet(cell'[s]) = ToSet(cell[s]) \ {item}
          /\ Len(cell'[s]) = Len(cell[s]) - 1
      BY <1>1, <2>1, <2>3, <3>2, TakeHead
    <3>4. IsListType(s)
      BY <1>1, <2>1, <2>3
    <3> QED  BY <2>1, <3>1, <3>2, <3>3, <3>4
  <2>4. CASE s # src /\ receives(s)
    <3>1. s[3] \in o..(k - 1) /\ s = <<l, t, s[3]>>
      BY <1>2, <2>4, SlotIs
    <3>3. cell'[s] = <<half[s[3]]>> \o cell[s] /\ count'[s] = count[s] + 1
      BY <1>4, <2>4
    <3>4. half[s[3]] \in Item /\ half[s[3]] \notin ToSet(cell[s])
      BY <1>2, <3>1
    <3>5. /\ cell'[s] \in Seq(Item) /\ InjectiveSeq(cell'[s])
          /\ ToSet(cell'[s]) = ToSet(cell[s]) \cup {half[s[3]]}
          /\ Len(cell'[s]) = Len(cell[s]) + 1
      BY <2>1, <3>3, <3>4, AtHead
    <3>6. IsListType(s)
      BY <1>1, <3>1
    <3>7. \A j \in o..(k - 1) : s = <<l, t, j>> <=> j = s[3]
      BY <3>1
    <3> QED  BY <2>1, <2>2, <2>4, <3>1, <3>3, <3>5, <3>6, <3>7
  <2>5. CASE s # src /\ ~ receives(s)
    <3>1. cell'[s] = cell[s] /\ count'[s] = count[s]
      BY <1>4, <2>5
    <3>2. ASSUME NEW j \in o..(k - 1), s = <<l, t, j>> PROVE FALSE
      <4>1. s[1] = l /\ s[2] = t /\ s[3] = j
        BY <3>2
      <4> QED  BY <1>2, <2>5, <4>1
    <3> QED  BY <2>1, <2>2, <2>5, <3>1, <3>2
  <2> QED  BY <2>3, <2>4, <2>5
<1>6. cell' = [s \in Slot |-> cell'[s]] /\ count' = [s \in Slot |-> count'[s]]
  BY <1>4
<1>7. section' = [i \in Item |-> IF i \in {item} \cup halves THEN l ELSE section[i]]
  BY <1>4 DEF SectionAfterSplit
<1> QED  BY <1>4, <1>5, <1>6, <1>7

LEMMA RemoveKeeps ==
    ASSUME AlignedGrowth, GroupInv, freeing = NoFree,
           NEW l \in Lvl, NEW t \in MigrationType, NEW o \in Order,
           NEW mark \in MigrationType, NEW asked \in MigrationType,
           CanRemove(l, t, o), Plain(l, t, o),
           mark = MIGRATION_MOVABLE \/ Plain(l, mark, o),
           remove_group_migration(l, t, o, mark, asked),
           UNCHANGED <<grown, freeing>>
    PROVE  GroupInv'
<1> DEFINE k == Min(Fits(l, t, o))
           src == <<l, t, k>>
           item == Head(cell[src])
           half == Halves(item, l, t, o, k)
           halves == {half[j] : j \in DOMAIN half}
           ob == BlockIn(item, src)
           nb == [item |-> item, lvl |-> l, order |-> o]
           hb == [item |-> item, lvl |-> l, order |-> o, type |-> asked]
           Out == {ob}
           In == {nb} \cup {HalfBlock(item, j) : j \in o..(k - 1)}
<1>1. /\ k \in o..(F - 2) /\ k \in Nat /\ k \in Order /\ o \in Nat
      /\ src \in Slot /\ cell[src] # <<>>
      /\ o < k => l = MAX_GROUP_LVLS
      /\ \A j \in o..(k - 1) : /\ <<l, t, j>> \in Slot
                               /\ MayState(<<l, t, j>>, MIGRATION_MOVABLE)
  <2>1. IsSource(l, t, o, k)
    BY FitIs
  <2> HIDE DEF k
  <2>2. \A j \in o..(k - 1) : <<l, t, j>> \in Slot /\ MayState(<<l, t, j>>, MIGRATION_MOVABLE)
    BY <2>1, HalvesListed
  <2> QED  BY <2>1, <2>2 DEF IsSource
<1>2. /\ item \in ToSet(cell[src]) /\ item \in Existing /\ item \in Item /\ item \in Nat
      /\ ob \in Whole
      /\ \A b \in held : b.item # item
      /\ DOMAIN half = o..(k - 1)
      /\ \A j \in o..(k - 1) :
           /\ half[j] = item + BIT(j) /\ half[j] \in Existing /\ half[j] \in Item
           /\ half[j] # item
           /\ Has(ob, half[j])
           /\ \A s \in Slot : half[j] \notin ToSet(cell[s])
           /\ \A b \in held : b.item # half[j]
           /\ \A m \in o..(k - 1) : half[j] = half[m] => j = m
  <2>1. IsSource(l, t, o, k)
    BY FitIs
  <2> HIDE DEF k
  <2> QED  BY <2>1, TakenIs
<1>3. /\ \A s \in Slot :
           /\ cell'[s] \in Seq(Item) /\ InjectiveSeq(cell'[s]) /\ count'[s] = Len(cell'[s])
           /\ cell'[s] # <<>> => IsListType(s)
           /\ \A i : i \in ToSet(cell'[s])
                       <=> \/ i \in ToSet(cell[s]) /\ i # item
                           \/ \E j \in o..(k - 1) : s = <<l, t, j>> /\ i = half[j]
      /\ cell' = [s \in Slot |-> cell'[s]] /\ count' = [s \in Slot |-> count'[s]]
      /\ present' = [i \in Item |-> i = item \/ (present[i] /\ i \notin halves)]
      /\ order' = [i \in Item |->
             IF i = item THEN o
             ELSE IF i \in halves THEN HalfOrder(half, i) ELSE order[i]]
      /\ state' = [i \in Item |->
             IF i = item THEN mark
             ELSE IF i \in halves THEN MIGRATION_MOVABLE ELSE state[i]]
      /\ section' = [i \in Item |-> IF i \in {item} \cup halves THEN l ELSE section[i]]
      /\ node' = [i \in Item |-> IF i \in {item} \cup halves THEN NodeId ELSE node[i]]
      /\ held' = held \cup {hb}
      /\ owners' = [i \in Item |-> owners[i] + IF i \in Span(item, l, o) THEN 1 ELSE 0]
      /\ fault' = fault
  BY RemoveIs
<1>4. src[1] = l /\ src[2] = t /\ src[3] = k
  OBVIOUS
<1>5. /\ ob.item = item /\ ob.lvl = l /\ ob.order = k /\ IsBlock(ob)
      /\ ob = [item |-> item, lvl |-> l, order |-> k]
  BY <1>1, <1>2, <1>4, BlocksOfLists DEF BlockIn
<1> HIDE DEF k, src, item, half, ob
<1>6. /\ \A i : i \in halves <=> \E j \in o..(k - 1) : i = half[j]
      /\ item \notin halves
  BY <1>2
<1> HIDE DEF halves
\* The descriptors.
<1>7. /\ present'[item] /\ order'[item] = o /\ state'[item] = mark
      /\ section'[item] = l /\ node'[item] = NodeId
  BY <1>2, <1>3
<1>8. ASSUME NEW j \in o..(k - 1)
      PROVE  /\ ~present'[half[j]] /\ order'[half[j]] = j /\ state'[half[j]] = MIGRATION_MOVABLE
             /\ half[j] \in halves
  <2>1. half[j] \in Item /\ half[j] \in halves /\ half[j] # item
    BY <1>2, <1>6
  <2>2. HalfOrder(half, half[j]) = j
    BY <1>2 DEF HalfOrder
  <2> QED  BY <1>3, <2>1, <2>2
<1>9. ASSUME NEW i \in Item, i # item, i \notin halves
      PROVE  /\ present'[i] = present[i] /\ order'[i] = order[i] /\ state'[i] = state[i]
             /\ section'[i] = section[i] /\ node'[i] = node[i]
  <2>1. present'[i] = present[i]
    BY <1>3, <1>9 DEF GroupInv, TypeOK
  <2> QED  BY <1>3, <1>9, <2>1
<1>10. ASSUME NEW s \in Slot, NEW i \in ToSet(cell[s]), i # item
       PROVE  /\ present'[i] = present[i] /\ order'[i] = order[i] /\ state'[i] = state[i]
              /\ section'[i] = section[i] /\ i \in Item
  <2>1. i \in Item
    BY BlocksOfLists
  <2>2. i \notin halves
    BY <1>2, <1>6
  <2> QED  BY <1>9, <1>10, <2>1, <2>2
<1>11. hb \in Held /\ hb.item = item /\ hb.lvl = l /\ hb.order = o /\ hb.type = asked
  BY <1>2 DEF Held
<1>12. BlockOf(hb) = nb /\ nb.item = item /\ nb.lvl = l /\ nb.order = o
  BY <1>11 DEF BlockOf
<1> HIDE DEF nb, hb
<1>13. grown' = grown /\ freeing' = NoFree
  OBVIOUS
<1>14. TypeOK'
  <2>1. cell' \in [Slot -> Seq(Item)] /\ count' \in [Slot -> Int]
    <3>1. \A s \in Slot : cell'[s] \in Seq(Item) /\ count'[s] \in Int
      BY <1>3
    <3>2. cell' = [s \in Slot |-> cell'[s]] /\ count' = [s \in Slot |-> count'[s]]
      BY <1>3
    <3> HIDE <1>3
    <3> QED  BY <3>1, <3>2
  <2>2. present' \in [Item -> BOOLEAN]
    BY <1>3
  <2>3. order' \in [Item -> Order]
    <3>1. ASSUME NEW i \in Item PROVE order'[i] \in Order
      <4>1. CASE i = item
        BY <1>1, <1>7, <4>1
      <4>2. CASE i \in halves
        <5>1. PICK j \in o..(k - 1) : i = half[j]
          BY <1>6, <4>2
        <5>2. j \in Order
          BY <1>1, Constants
        <5> QED  BY <1>8, <5>1, <5>2
      <4>3. CASE i # item /\ i \notin halves
        <5>1. order'[i] = order[i]
          BY <1>9, <4>3
        <5> QED  BY <5>1 DEF GroupInv, TypeOK
      <4> QED  BY <4>1, <4>2, <4>3
    <3> QED  BY <1>3, <3>1
  <2>4. state' \in [Item -> MigrationType]
    BY <1>3, TypesDiffer DEF GroupInv, TypeOK
  <2>5. section' \in [Item -> 0..31]
    <3>1. l \in 0..31
      BY Constants
    <3> QED  BY <1>3, <3>1 DEF GroupInv, TypeOK
  <2>6. node' \in [Item -> {0, NodeId}]
    BY <1>3 DEF GroupInv, TypeOK
  <2>7. owners' \in [Item -> Nat]
    BY <1>3 DEF GroupInv, TypeOK
  <2>8. held' \subseteq Held
    BY <1>3, <1>11 DEF GroupInv, TypeOK
  <2> QED  BY <1>3, <1>13, <2>1, <2>2, <2>3, <2>4, <2>5, <2>6, <2>7, <2>8 DEF GroupInv, TypeOK
\* The blocks.
<1>15. \A c : c \in In <=> c = nb \/ \E j \in o..(k - 1) : c = HalfBlock(item, j)
  OBVIOUS
<1>16. \A b : b \in Free' <=> (b \in Free /\ b # ob) \/ \E j \in o..(k - 1) : b = HalfBlock(item, j)
  <2>1. ASSUME NEW b, b \in Free'
        PROVE  (b \in Free /\ b # ob) \/ \E j \in o..(k - 1) : b = HalfBlock(item, j)
    <3>1. PICK s \in Slot : \E i \in ToSet(cell'[s]) : b = BlockIn(i, s)
      BY <2>1, FreeIs DEF IsListed
    <3>2. PICK i \in ToSet(cell'[s]) : b = BlockIn(i, s)
      BY <3>1
    <3>3. b.item = i
      BY <3>2 DEF BlockIn
    <3>4. CASE i \in ToSet(cell[s]) /\ i # item
      <4>1. b \in Free
        BY <3>2, <3>4, FreeIs DEF IsListed
      <4> QED  BY <1>5, <3>3, <3>4, <4>1
    <3>5. CASE \E j \in o..(k - 1) : s = <<l, t, j>> /\ i = half[j]
      <4>1. PICK j \in o..(k - 1) : s = <<l, t, j>> /\ i = half[j]
        BY <3>5
      <4>2. l = MAX_GROUP_LVLS /\ i = item + BIT(j)
        BY <1>1, <1>2, <4>1
      <4>3. b = HalfBlock(item, j)
        BY <3>2, <4>1, <4>2 DEF BlockIn, HalfBlock
      <4> QED  BY <4>3
    <3> QED  BY <1>3, <3>2, <3>4, <3>5
  <2>2. ASSUME NEW b \in Free, b # ob PROVE b \in Free'
    <3>1. PICK s \in Slot : \E i \in ToSet(cell[s]) : b = BlockIn(i, s)
      BY FreeIs DEF IsListed
    <3>2. PICK i \in ToSet(cell[s]) : b = BlockIn(i, s)
      BY <3>1
    <3>3. i # item
      <4> SUFFICES ASSUME i = item PROVE FALSE
        OBVIOUS
      <4>1. s = src
        BY <1>1, <1>2, <3>2, OneList
      <4> QED  BY <2>2, <3>2, <4>1 DEF ob
    <3>4. i \in ToSet(cell'[s])
      BY <1>3, <3>2, <3>3
    <3> QED  BY <3>2, <3>4, FreeIs DEF IsListed
  <2>3. ASSUME NEW j \in o..(k - 1) PROVE HalfBlock(item, j) \in Free'
    <3>1. l = MAX_GROUP_LVLS /\ half[j] = item + BIT(j) /\ j \in Order
      BY <1>1, <1>2, Constants
    <3>2. <<l, t, j>> \in Slot
      BY <3>1, SlotIs
    <3>3. half[j] \in ToSet(cell'[<<l, t, j>>])
      BY <1>3, <3>2
    <3>4. BlockIn(half[j], <<l, t, j>>) = HalfBlock(item, j)
      BY <3>1 DEF BlockIn, HalfBlock
    <3> QED  BY <3>2, <3>3, <3>4, FreeIs DEF IsListed
  <2> QED  BY <2>1, <2>2, <2>3
<1>17. InUse' = InUse \cup {nb} /\ Moving = {} /\ Moving' = {} /\ ob \notin InUse
  <2>1. InUse' = InUse \cup {nb}
    BY <1>3, <1>12 DEF InUse, BlockOf
  <2>2. ob \notin InUse
    <3> SUFFICES ASSUME ob \in InUse PROVE FALSE
      OBVIOUS
    <3>1. PICK b \in held : ob = BlockOf(b)
      BY DEF InUse, BlockOf
    <3>2. b.item = item
      BY <1>5, <3>1 DEF BlockOf
    <3> QED  BY <1>2, <3>2
  <2> QED  BY <1>13, <2>1, <2>2 DEF Moving
<1>18. Whole' = (Whole \ Out) \cup In
  BY <1>15, <1>16, <1>17 DEF Whole
<1>19. /\ \A c \in In : IsBlock(c)
       /\ \A x \in Int : (\E c \in Out : Has(c, x)) <=> (\E c \in In : Has(c, x))
       /\ \A c, d \in In, x \in Int : Has(c, x) /\ Has(d, x) => c = d
  <2>1. CASE o < k
    <3>1. l = MAX_GROUP_LVLS
      BY <1>1, <2>1
    <3>2. In = SplitBlocks(ob.item, o, ob.order)
      BY <1>5, <3>1 DEF SplitBlocks, nb
    <3>3. ob.lvl = MAX_GROUP_LVLS /\ o <= ob.order
      BY <1>1, <1>5, <3>1
    <3>4. \A x : (\E c \in Out : Has(c, x)) <=> Has(ob, x)
      OBVIOUS
    <3> HIDE DEF In, Out
    <3> QED  BY <1>1, <1>5, <3>2, <3>3, <3>4, SplitPieces
  <2>2. CASE o = k
    <3>1. nb = ob
      BY <1>5, <2>2 DEF nb
    <3>2. In = {ob}
      BY <1>1, <2>2, <3>1
    <3> HIDE DEF In
    <3> QED  BY <1>5, <3>2
  <2> QED  BY <1>1, <2>1, <2>2
<1> HIDE DEF In
<1>20. Tiled'
  <2>1. Out \subseteq Whole /\ Tiles(Whole, 0, ItemsAfter[grown])
    BY <1>2 DEF GroupInv, Tiled
  <2> HIDE DEF Out
  <2>2. Tiles(Whole', 0, ItemsAfter[grown])
    BY <1>18, <1>19, <2>1, Retile
  <2>3. Tiles(Whole', 0, ItemsAfter[grown'])
    BY <1>13, <2>2
  <2> QED  BY <2>3 DEF Tiled, Tiles
<1>21. Coarse'
  <2> SUFFICES ASSUME NEW b \in Whole', b.lvl # MAX_GROUP_LVLS
               PROVE  \E n \in 1..Len(Sizes) : \E c \in BlocksOf(n) : c.lvl = b.lvl /\ c.order = b.order
    BY DEF Coarse
  <2>1. CASE b \in Whole
    BY <2>1 DEF GroupInv, Coarse
  <2>2. CASE b = nb
    <3>1. o = k /\ ob.lvl = b.lvl /\ ob.order = b.order
      BY <1>1, <1>5, <1>12, <2>2
    <3> QED  BY <1>2, <3>1 DEF GroupInv, Coarse
  <2>3. CASE \E j \in o..(k - 1) : b = HalfBlock(item, j)
    BY <2>3 DEF HalfBlock
  <2> QED  BY <1>15, <1>18, <2>1, <2>2, <2>3
<1>22. WellListed'
  <2>1. ASSUME NEW s \in Slot, NEW i \in ToSet(cell'[s])
        PROVE  ~present'[i] /\ order'[i] = s[3] /\ MayState(s, state'[i])
    <3>1. CASE i \in ToSet(cell[s]) /\ i # item
      BY <1>10, <3>1, BlocksOfLists
    <3>2. CASE \E j \in o..(k - 1) : s = <<l, t, j>> /\ i = half[j]
      <4>1. PICK j \in o..(k - 1) : s = <<l, t, j>> /\ i = half[j]
        BY <3>2
      <4>2. MayState(s, MIGRATION_MOVABLE) /\ s[3] = j
        BY <1>1, <4>1
      <4> QED  BY <1>8, <4>1, <4>2
    <3> QED  BY <1>3, <3>1, <3>2
  <2>2. ASSUME NEW s \in Slot, NEW r \in Slot, NEW i \in Item, i \in ToSet(cell'[s]), i \in ToSet(cell'[r])
        PROVE  s = r
    <3>1. CASE i \in ToSet(cell[s]) /\ i \in ToSet(cell[r])
      BY <3>1, OneList
    <3>2. CASE \E j \in o..(k - 1) : i = half[j]
      <4>1. \A u \in Slot : i \notin ToSet(cell[u])
        BY <1>2, <3>2
      <4>2. PICK j \in o..(k - 1) : s = <<l, t, j>> /\ i = half[j]
        BY <1>3, <2>2, <4>1
      <4>3. PICK m \in o..(k - 1) : r = <<l, t, m>> /\ i = half[m]
        BY <1>3, <2>2, <4>1
      <4>4. j = m
        BY <1>2, <4>2, <4>3
      <4> QED  BY <4>2, <4>3, <4>4
    <3> QED  BY <1>3, <2>2, <3>1, <3>2
  <2> QED  BY <1>3, <2>1, <2>2 DEF WellListed, ListedOnce
<1>23. ASSUME NEW b \in held
       PROVE  /\ present'[b.item] = present[b.item] /\ order'[b.item] = order[b.item]
              /\ state'[b.item] = state[b.item] /\ section'[b.item] = section[b.item]
              /\ node'[b.item] = node[b.item]
  <2>1. b.item \in Item /\ b.item # item /\ b.item \notin halves
    BY <1>2, <1>6, HeldIs
  <2> QED  BY <1>9, <2>1
<1>24. WellHeld'
  <2>1. ASSUME NEW b \in held'
        PROVE  /\ IsOut(b.item, b.lvl, b.order)'
               /\ order'[b.item] = b.order
               /\ section'[b.item] = b.lvl
               /\ node'[b.item] = NodeId
    <3>1. CASE b \in held
      BY <1>23, <3>1 DEF GroupInv, WellHeld, IsOut
    <3>2. CASE b = hb
      <4>1. o \in 0..(F - 2)
        BY <1>1, Constants
      <4>2. Carries(l, mark, o)
        BY <4>1 DEF Carries, Plain
      <4> QED  BY <1>7, <1>11, <3>2, <4>1, <4>2 DEF IsOut
    <3> QED  BY <1>3, <3>1, <3>2
  <2>2. ASSUME NEW b \in held', NEW c \in held', b.item = c.item PROVE b = c
    <3>1. CASE b \in held /\ c \in held
      BY <2>2, <3>1 DEF GroupInv, WellHeld
    <3>2. CASE b = hb \/ c = hb
      BY <1>2, <1>3, <1>11, <2>2, <3>2
    <3> QED  BY <1>3, <3>1, <3>2
  <2> QED  BY <2>1, <2>2 DEF WellHeld
<1>25. WellFreed'
  BY <1>13 DEF WellFreed
<1>26. Fresh'
  <2> SUFFICES ASSUME NEW i \in Item, i >= ItemsAfter[grown]
               PROVE  ~present'[i] /\ state'[i] = MIGRATION_MOVABLE /\ section'[i] = 0
    BY <1>13 DEF Fresh
  <2>1. i \notin Existing
    BY GrownIs, ItemIs DEF GroupInv
  <2>2. i # item /\ i \notin halves
    BY <1>2, <1>6, <2>1
  <2>3. ~present[i] /\ state[i] = MIGRATION_MOVABLE /\ section[i] = 0
    BY DEF GroupInv, Fresh
  <2> QED  BY <1>9, <2>2, <2>3
<1>27. OwnersExact'
  <2> SUFFICES ASSUME NEW i \in Item
               PROVE  owners'[i] = IF \E c \in held' : Has(c, i) THEN 1 ELSE 0
    BY DEF OwnersExact
  <2>1. owners'[i] = owners[i] + IF i \in Span(item, l, o) THEN 1 ELSE 0
    BY <1>3
  <2>2. owners[i] = IF \E c \in held : Has(c, i) THEN 1 ELSE 0
    BY DEF GroupInv, OwnersExact
  <2>3. i \in Span(item, l, o) <=> Has(hb, i)
    <3>1. IsBlock(BlockOf(hb)) /\ i \in Int
      BY <1>12, <1>15, <1>19, ItemIs
    <3> QED  BY <1>11, <3>1, SpanIs DEF SpanOf
  <2>4. CASE Has(hb, i)
    <3>1. ~ \E c \in held : Has(c, i)
      <4> SUFFICES ASSUME NEW c \in held, Has(c, i) PROVE FALSE
        OBVIOUS
      <4>1. i \in Int
        BY ItemIs
      <4>2. Has(nb, i)
        BY <1>11, <1>12, <2>4 DEF Has
      <4>3. Has(ob, i)
        BY <1>15, <1>19, <4>1, <4>2
      <4>4. BlockOf(c) \in Whole /\ BlockOf(c) \in InUse /\ Has(BlockOf(c), i)
        BY HeldIs
      <4>5. BlockOf(c) = ob
        BY <1>2, <4>1, <4>3, <4>4 DEF GroupInv, Tiled, Tiles
      <4> QED  BY <1>17, <4>4, <4>5
    <3> QED  BY <1>3, <2>1, <2>2, <2>3, <2>4, <3>1
  <2>5. CASE ~ Has(hb, i)
    <3>1. (\E c \in held' : Has(c, i)) <=> (\E c \in held : Has(c, i))
      BY <1>3, <2>5
    <3> QED  BY <2>1, <2>2, <2>3, <2>5, <3>1
  <2> QED  BY <2>4, <2>5
<1>28. Coalesced'
  <2>1. ASSUME NEW j \in 0..(F - 2), LastSlot(j) \in Slot, NEW i, IsKnown(cell', state', j, i)
        PROVE  IsKnown(cell, state, j, i)
    <3>1. state'[i] # MIGRATION_MOVABLE /\ i \in ToSet(cell'[LastSlot(j)])
      BY <2>1, TypesDiffer DEF IsKnown
    <3>2. ~ \E m \in o..(k - 1) : i = half[m]
      BY <1>8, <3>1
    <3>3. i \in ToSet(cell[LastSlot(j)]) /\ i # item
      BY <1>3, <2>1, <3>1, <3>2
    <3> QED  BY <1>10, <2>1, <3>3 DEF IsKnown
  <2>2. \A s \in Slot : (cell[s] # <<>> => IsListType(s)) /\ (cell'[s] # <<>> => IsListType(s))
    BY <1>3 DEF GroupInv, WellListed
  <2>3. LastCoalesced(cell, state)
    BY <2>2, CoalescedIs, CoalescedOf DEF GroupInv
  <2>4. LastCoalesced(cell', state')
    BY <2>1, <2>3 DEF LastCoalesced
  <2> QED  BY <2>2, <2>4, CoalescedIs, CoalescedOf
<1>29. Fine'
  <2> SUFFICES ASSUME NEW b \in Whole', NEW x \in Int, b.lvl = MAX_GROUP_LVLS, Has(b, x)
               PROVE  x \in LastLevelItems
    BY DEF Fine
  <2>1. CASE b \in Whole
    BY <2>1 DEF GroupInv, Fine
  <2>2. CASE b \in In
    <3>1. Has(ob, x)
      BY <1>19, <2>2
    <3>2. ob.lvl = MAX_GROUP_LVLS
      BY <1>1, <1>5, <1>12, <1>15, <2>2
    <3> QED  BY <1>2, <3>1, <3>2 DEF GroupInv, Fine
  <2> QED  BY <1>18, <2>1, <2>2
<1> QED  BY <1>14, <1>20, <1>21, <1>22, <1>24, <1>25, <1>26, <1>27, <1>28, <1>29 DEF GroupInv

\* What may be asked for may be cut from the MOVABLE blocks.
LEMMA PlainIs ==
    ASSUME NEW l, NEW t, NEW o, Plain(l, t, o)
    PROVE  Plain(l, MIGRATION_MOVABLE, o)
BY DEF Plain

\* A caller's request, for a block of level l, type t and order o.
Asks(l, t, o) ==
    dispatch_group(l, t, o) \/ migrate_group(l, t, o) \/ dispatch_crosses_level(l, t, o)

LEMMA AsksKeep ==
    ASSUME AlignedGrowth, GroupInv,
           NEW l \in Lvl, NEW t \in MigrationType, NEW o \in Order, Plain(l, t, o), Asks(l, t, o)
    PROVE  GroupInv'
<1>1. Plain(l, MIGRATION_MOVABLE, o)
  BY PlainIs
<1>2. CASE dispatch_group(l, t, o)
  <2>1. /\ freeing = NoFree /\ CanRemove(l, t, o)
        /\ remove_group_migration(l, t, o, MIGRATION_MOVABLE, t)
        /\ UNCHANGED <<grown, freeing>>
    BY <1>2 DEF dispatch_group
  <2> QED  BY <2>1, TypesDiffer, RemoveKeeps
<1>3. CASE migrate_group(l, t, o)
  <2>1. /\ freeing = NoFree
        /\ CanRemove(l, MIGRATION_MOVABLE, o)
        /\ remove_group_migration(l, MIGRATION_MOVABLE, o, t, t)
        /\ UNCHANGED <<grown, freeing>>
    BY <1>3 DEF migrate_group
  <2> QED  BY <1>1, <2>1, TypesDiffer, RemoveKeeps
<1>4. CASE dispatch_crosses_level(l, t, o)
  <2>1. fault' = TRUE /\ UNCHANGED <<grown, lists, descriptors, holders, freeing>>
    BY <1>4 DEF dispatch_crosses_level
  <2> QED  BY <2>1, FaultKeeps
<1> QED  BY <1>2, <1>3, <1>4 DEF Asks

LEMMA RequestsAsk ==
    ASSUME PlainRequests, NEW r \in Requests
    PROVE  /\ r.lvl \in Lvl /\ r.type \in MigrationType /\ r.order \in Order
           /\ Plain(r.lvl, r.type, r.order)
BY FreeGroupAssumption DEF PlainRequests

(***************************************************************************)
(* Putting a block back.                                                   *)
(***************************************************************************)
MovingBlock == [item |-> freeing.item, lvl |-> freeing.lvl, order |-> freeing.order]

\* The block in free_group_migration's hands.
LEMMA FreedIs ==
    ASSUME AlignedGrowth, GroupInv, freeing # NoFree, NEW f, f = freeing
    PROVE  /\ f \in Locals
           /\ MovingBlock \in Whole /\ IsBlock(MovingBlock) /\ Moving = {MovingBlock}
           /\ MovingBlock \notin Free /\ MovingBlock \notin InUse
           /\ f.item \in Item /\ f.item \in Existing /\ f.item \in Nat
           /\ f.lvl \in Lvl /\ f.lvl \in 0..3 /\ f.order \in 0..(F - 2) /\ f.order \in Nat
           /\ f.type \in MigrationType /\ f.type = state[f.item]
           /\ f.index \in Nat /\ Aligned(f.item, f.index)
           /\ f.type # MIGRATION_MOVABLE
           /\ f.lvl = MAX_GROUP_LVLS => f.index = f.order
           /\ Carries(f.lvl, f.type, f.order)
           /\ present[f.item]
           /\ \A s \in Slot : f.item \notin ToSet(cell[s])
           /\ \A b \in held : b.item # f.item
<1> DEFINE mb == MovingBlock
<1>1. f \in Locals
  BY DEF GroupInv, TypeOK
<1>2. /\ IsOut(f.item, f.lvl, f.order) /\ f.type = state[f.item]
      /\ f.type # MIGRATION_MOVABLE
      /\ f.index = f.order + FUNCTION_ITEM_LVL(f.lvl)
      /\ \A b \in held : b.item # f.item
  BY DEF GroupInv, WellFreed
<1>3. Moving = {mb} /\ mb \in Whole /\ mb.item = f.item /\ mb.lvl = f.lvl /\ mb.order = f.order
  BY DEF Moving, Whole, MovingBlock
<1>4. IsBlock(mb)
  BY <1>3 DEF GroupInv, Tiled, Tiles
<1>5. f.item \in Nat /\ f.lvl \in 0..3 /\ f.order \in Nat /\ Has(mb, f.item)
  BY <1>3, <1>4, BlockBounds
<1>6. f.item \in Item /\ f.item \in Existing
  BY <1>3, <1>5, GrownIs DEF GroupInv, Tiled, Tiles
<1>7. present[f.item] /\ f.lvl \in Lvl /\ f.order \in 0..(F - 2)
  BY <1>2 DEF IsOut
<1>8. \A s \in Slot : f.item \notin ToSet(cell[s])
  BY <1>7, BlocksOfLists
<1>9. f.type \in MigrationType
  BY <1>2, <1>6 DEF GroupInv, TypeOK
<1>10. Carries(f.lvl, f.type, f.order)
  BY <1>2 DEF IsOut
<1>11. f.lvl = MAX_GROUP_LVLS => f.index = f.order
  BY <1>2, <1>5, Constants, LevelShift
<1>12. f.index \in Nat /\ Aligned(f.item, f.index)
  <2>1. Aligned(f.item, f.order + FUNCTION_ITEM_LVL(f.lvl)) /\ FUNCTION_ITEM_LVL(f.lvl) \in Nat
    BY <1>3, <1>4, <1>5, LevelShift DEF IsBlock
  <2> QED  BY <1>2, <1>5, <2>1
<1>13. mb \notin Free
  <2> SUFFICES ASSUME mb \in Free PROVE FALSE
    OBVIOUS
  <2>1. PICK s \in Slot : \E i \in ToSet(cell[s]) : mb = BlockIn(i, s)
    BY FreeIs DEF IsListed
  <2> QED  BY <1>3, <1>8, <2>1 DEF BlockIn
<1>14. mb \notin InUse
  <2> SUFFICES ASSUME mb \in InUse PROVE FALSE
    OBVIOUS
  <2>1. PICK b \in held : mb = BlockOf(b)
    BY DEF InUse, BlockOf
  <2>2. b.item = f.item
    BY <1>3, <2>1 DEF BlockOf
  <2> QED  BY <1>2, <2>2
<1> QED  BY <1>1, <1>2, <1>3, <1>4, <1>5, <1>6, <1>7, <1>8, <1>9, <1>10, <1>11, <1>12, <1>13, <1>14

\* The inner loop ends below the last order; it does not run for a block that is
\* cached or of the node's highest order.
LEMMA LoopIs ==
    ASSUME AlignedGrowth, GroupInv, freeing # NoFree, NEW f, f = freeing, NEW n, n = Merges(f)
    PROVE  /\ n \in Nat /\ ~CanMerge(f, n) /\ \A j \in 0..(n - 1) : CanMerge(f, j)
           /\ f.order + n \in Nat /\ f.order + n <= F - 1 /\ f.order + n \in Order
           /\ InLoop(f, 0)
           /\ n # 0 => f.lvl = MAX_GROUP_LVLS /\ f.type = MIGRATION_UNMOVABLE
           /\ \/ /\ f.lvl = MAX_GROUP_LVLS /\ f.type = MIGRATION_UNMOVABLE
                 /\ \A j \in Nat : InLoop(f, j) <=> f.order + j <= F - 2
                 /\ \A j \in Nat : ~IsDirect(f, j)
              \/ n = 0 /\ IsDirect(f, 0)
<1> DEFINE S == {m \in 0..F : ~CanMerge(f, m)}
           merging == f.lvl = MAX_GROUP_LVLS /\ f.type = MIGRATION_UNMOVABLE
<1>1. /\ f.order \in 0..(F - 2) /\ f.order \in Nat
      /\ Carries(f.lvl, f.type, f.order) /\ f.type # MIGRATION_MOVABLE
  BY FreedIs
<1>2. F \in Nat /\ F >= 2 /\ MAX_GROUP_LVLS = 3 /\ TopLvl \in 0..2 /\ TopOrder \in 1..F
  BY Constants, TopIs
<1>3. ~IsSparse(f.type)
  BY <1>1, TypesDiffer
<1>4. ASSUME f.lvl = MAX_GROUP_LVLS
      PROVE  MaxOrder(f.lvl, f.type) = F - 1 /\ \A j \in Nat : InLoop(f, j) <=> f.order + j <= F - 2
  <2>1. MaxOrder(f.lvl, f.type) = F - 1
    BY <1>2, <1>4 DEF MaxOrder
  <2>2. (F - 1) - 1 = F - 2
    BY <1>2
  <2> QED  BY <2>1, <2>2 DEF InLoop
<1>5. merging => \A j \in Nat : CanMerge(f, j) => f.order + j <= F - 2
  BY <1>4 DEF CanMerge, LooksAtBuddy
<1>6. ASSUME ~merging PROVE InLoop(f, 0) /\ IsDirect(f, 0) /\ 0 \in S
  <2>1. CASE f.type = MIGRATION_LRUTYPE
    <3>1. f.lvl = MAX_GROUP_LVLS
      BY <1>1, <2>1, TypesDiffer DEF Carries
    <3>2. InLoop(f, 0)
      BY <1>1, <1>2, <1>4, <3>1
    <3> QED  BY <1>2, <2>1, <3>2 DEF IsDirect, CanMerge, LooksAtBuddy
  <2>2. CASE f.type = MIGRATION_UNMOVABLE
    <3>1. f.lvl = TopLvl /\ f.order = TopOrder - 1
      BY <1>1, <1>6, <2>2, TypesDiffer DEF Carries
    <3>2. MaxOrder(f.lvl, f.type) = TopOrder
      BY <1>3, <3>1 DEF MaxOrder
    <3>3. f.order + 0 = MaxOrder(f.lvl, f.type) - 1 /\ f.order + 0 <= MaxOrder(f.lvl, f.type) - 1
      BY <1>1, <1>2, <3>1, <3>2
    <3>4. InLoop(f, 0) /\ IsDirect(f, 0)
      BY <3>1, <3>3 DEF InLoop, IsDirect
    <3> QED  BY <1>2, <3>4 DEF CanMerge, LooksAtBuddy
  <2> QED  BY <1>1, <2>1, <2>2 DEF Carries
<1>7. S # {} /\ S \in SUBSET Nat
  <2>1. CASE merging
    <3>1. F \in S
      BY <1>1, <1>2, <1>5, <2>1
    <3> QED  BY <1>2, <3>1
  <2> QED  BY <1>2, <1>6, <2>1
<1>8. n \in S /\ \A m \in S : n <= m
  <2> HIDE DEF S
  <2>1. \E m \in S : \A k \in S : m <= k
    BY <1>7, LeastIn
  <2>2. n = Min(S)
    BY DEF Merges, S
  <2> QED  BY <2>1, <2>2 DEF Min
<1>9. n \in Nat /\ n <= F /\ ~CanMerge(f, n)
  BY <1>2, <1>8
<1>10. ASSUME NEW j \in 0..(n - 1) PROVE CanMerge(f, j)
  <2>1. j \in 0..F /\ ~ (n <= j)
    BY <1>2, <1>9
  <2> QED  BY <1>8, <2>1
<1>11. ASSUME ~merging PROVE n = 0 /\ IsDirect(f, 0)
  BY <1>6, <1>8, <1>9, <1>11
<1>12. f.order + n \in Nat /\ f.order + n <= F - 1
  <2>1. CASE n = 0
    BY <1>1, <1>2, <2>1
  <2>2. CASE n # 0
    <3>1. n - 1 \in 0..(n - 1) /\ n - 1 \in Nat /\ merging
      BY <1>9, <1>11, <2>2
    <3>2. f.order + (n - 1) <= F - 2
      BY <1>5, <1>10, <3>1
    <3> QED  BY <1>1, <1>2, <1>9, <3>2
  <2> QED  BY <2>1, <2>2
<1>13. f.order + n \in Order
  BY <1>2, <1>12, Constants
<1>14. InLoop(f, 0)
  BY <1>1, <1>2, <1>4, <1>6
<1>15. merging => \A j \in Nat : ~IsDirect(f, j)
  BY <1>2, TypesDiffer DEF IsDirect
<1> QED  BY <1>4, <1>9, <1>10, <1>11, <1>12, <1>13, <1>14, <1>15

\* The list a buddy is taken from, and the block it stands for.
BuddyList(f, j) == <<MAX_GROUP_LVLS, MIGRATION_UNMOVABLE, f.order + j>>

BuddyBlock(f, j) == [item |-> Buddy(f, j), lvl |-> MAX_GROUP_LVLS, order |-> f.order + j]

\* The items of a run of 2^k.
Within(i, k, y) == i <= y /\ y < i + BIT(k)

\* An item and its buddy lie in the same blocks of a larger order.
LEMMA BuddyWithin ==
    ASSUME NEW i, NEW k \in Nat, NEW m \in Nat, k < m, Aligned(i, m)
    PROVE  /\ next_buddy_idx(i, k) \in Nat /\ next_buddy_idx(i, k) # i
           /\ Within(i, m, next_buddy_idx(i, k))
<1>1. Aligned(i, k + 1)
  BY AlignedDown
<1>2. next_buddy_idx(i, k) = i + BIT(k)
  BY <1>1, HalfBuddy
<1>3. BIT(k) \in Nat /\ BIT(k) >= 1 /\ BIT(m) \in Nat /\ BIT(k) < BIT(m)
  BY BitPositive, BitMonotone
<1>4. i \in Nat
  BY <1>3 DEF Aligned
<1> QED  BY <1>2, <1>3, <1>4 DEF Within

LEMMA BlockWithin ==
    ASSUME NEW b, IsBlock(b)
    PROVE  \A x : Has(b, x) <=> Within(b.item, b.order + FUNCTION_ITEM_LVL(b.lvl), x)
BY DEF Has, Within, BlockItems

\* What the inner loop sees: a buddy it merges with is a listed block.
LEMMA MergedBuddy ==
    ASSUME AlignedGrowth, GroupInv, NEW f, NEW j \in Nat, f.type # MIGRATION_MOVABLE, CanMerge(f, j)
    PROVE  \E s \in Slot : /\ Buddy(f, j) \in ToSet(cell[s])
                           /\ s[2] = f.type /\ s[3] = f.order + j
<1> DEFINE b == Buddy(f, j)
<1>1. list_in_list(b) /\ order[b] = f.order + j /\ state[b] = f.type
  BY DEF CanMerge, item_is_buddy, buddy_is_valid
<1> HIDE DEF b
<1>2. PICK s \in Slot : b \in ToSet(cell[s])
  BY <1>1 DEF list_in_list, Linked
<1>3. order[b] = s[3] /\ MayState(s, state[b])
  BY <1>2, BlocksOfLists
<1> QED  BY <1>1, <1>2, <1>3 DEF MayState, b

\* The merged item is the first of the block in hand or of a listed one.
LEMMA ChainHead ==
    ASSUME AlignedGrowth, GroupInv, freeing # NoFree, NEW f, f = freeing,
           NEW n \in Nat, \A j \in 0..(n - 1) : CanMerge(f, j)
    PROVE  /\ \E b \in Whole : b.item = Merged(f, n)
           /\ Merged(f, n) \in Nat
           /\ Merged(f, n) = f.item \/ \E j \in 0..(n - 1) : Merged(f, n) = Buddy(f, j)
<1>1. f.index \in Nat /\ Aligned(f.item, f.index) /\ MovingBlock \in Whole /\ f.type # MIGRATION_MOVABLE
  BY FreedIs
<1>2. /\ Merged(f, n) \in Nat
      /\ Merged(f, n) = f.item \/ \E j \in 0..(n - 1) : Merged(f, n) = Buddy(f, j)
  BY <1>1, MergeChain
<1>3. CASE Merged(f, n) = f.item
  BY <1>1, <1>2, <1>3 DEF MovingBlock
<1>4. CASE \E j \in 0..(n - 1) : Merged(f, n) = Buddy(f, j)
  <2>1. PICK j \in 0..(n - 1) : Merged(f, n) = Buddy(f, j)
    BY <1>4
  <2>2. PICK s \in Slot : Buddy(f, j) \in ToSet(cell[s])
    BY <1>1, <2>1, MergedBuddy
  <2>3. BlockIn(Buddy(f, j), s) \in Whole /\ BlockIn(Buddy(f, j), s).item = Buddy(f, j)
    BY <2>2, BlocksOfLists DEF BlockIn
  <2> QED  BY <1>2, <2>1, <2>3
<1> QED  BY <1>2, <1>3, <1>4

\* The buddies are blocks of the last level, each of the order it is looked for at.
LEMMA ChainIs ==
    ASSUME AlignedGrowth, GroupInv, freeing # NoFree, NEW f, f = freeing, NEW n, n = Merges(f)
    PROVE  \A j \in 0..(n - 1) :
                /\ BuddyList(f, j) \in Slot /\ Buddy(f, j) \in ToSet(cell[BuddyList(f, j)])
                /\ BuddyBlock(f, j) = BlockIn(Buddy(f, j), BuddyList(f, j))
                /\ state[Buddy(f, j)] = MIGRATION_UNMOVABLE
<1> SUFFICES ASSUME n # 0
             PROVE  \A j \in 0..(n - 1) :
                         /\ BuddyList(f, j) \in Slot /\ Buddy(f, j) \in ToSet(cell[BuddyList(f, j)])
                         /\ BuddyBlock(f, j) = BlockIn(Buddy(f, j), BuddyList(f, j))
                         /\ state[Buddy(f, j)] = MIGRATION_UNMOVABLE
  <2>1. n = 0 => \A j : j \notin 0..(n - 1)
    OBVIOUS
  <2> QED  BY <2>1
<1>2. /\ n \in Nat /\ \A j \in 0..(n - 1) : CanMerge(f, j)
      /\ f.type = MIGRATION_UNMOVABLE /\ f.lvl = MAX_GROUP_LVLS
  BY LoopIs
<1>1. /\ f.order \in Nat /\ f.index = f.order /\ Aligned(f.item, f.order)
      /\ f.lvl \in 0..3 /\ f.item \in Nat
      /\ MovingBlock \in Whole /\ IsBlock(MovingBlock)
  BY <1>2, FreedIs
<1>3. F \in Nat /\ F >= 2 /\ MAX_GROUP_LVLS = 3
  BY Constants
<1>4. \A l \in 0..2 : FUNCTION_ITEM_LVL(l) \in Nat /\ FUNCTION_ITEM_LVL(l) >= 1
  <2> SUFFICES ASSUME NEW l \in 0..2
               PROVE  FUNCTION_ITEM_LVL(l) \in Nat /\ FUNCTION_ITEM_LVL(l) >= 1
    OBVIOUS
  <2>1. l = 0 \/ l = 1 \/ l = 2
    OBVIOUS
  <2> QED  BY <1>3, <2>1 DEF FUNCTION_ITEM_LVL
<1>5. ASSUME NEW j \in 0..(n - 1)
      PROVE  BuddyList(f, j) \in Slot /\ Buddy(f, j) \in ToSet(cell[BuddyList(f, j)])
  <2> DEFINE a == Merged(f, j)
             b == Buddy(f, j)
             k == f.order + j
  <2>1. j \in Nat /\ k \in Nat /\ k < k + 1 /\ CanMerge(f, j) /\ \A m \in 0..(j - 1) : CanMerge(f, m)
    BY <1>1, <1>2
  <2>2. PICK s \in Slot : b \in ToSet(cell[s]) /\ s[2] = f.type /\ s[3] = k
    BY <1>2, <2>1, TypesDiffer, MergedBuddy
  <2>3. f.type = MIGRATION_UNMOVABLE
    BY <1>2
  <2>4. Aligned(a, k) /\ b = next_buddy_idx(a, k) /\ a = next_buddy_idx(b, k)
    <3>1. Aligned(a, k)
      BY <1>1, <2>1, MergeChain
    <3>2. b = next_buddy_idx(a, k)
      BY <1>1 DEF Buddy
    <3> QED  BY <2>1, <3>1, <3>2, BuddyTwice
  <2>5. PICK c \in Whole : c.item = a
    BY <2>1, ChainHead
  <2>6. BlockIn(b, s) \in Whole /\ IsBlock(BlockIn(b, s)) /\ BlockIn(b, s).item = b
        /\ BlockIn(b, s).lvl = s[1] /\ BlockIn(b, s).order = k /\ s[1] \in 0..3
    <3>1. BlockIn(b, s) \in Whole /\ IsBlock(BlockIn(b, s))
      BY <2>2, BlocksOfLists
    <3>2. BlockIn(b, s).item = b /\ BlockIn(b, s).lvl = s[1] /\ BlockIn(b, s).order = k
      BY <2>2 DEF BlockIn
    <3> QED  BY <3>1, <3>2, BlockBounds
  <2> HIDE DEF a, b, k
  <2>7. s[1] = 3
    <3> SUFFICES ASSUME s[1] # 3 PROVE FALSE
      OBVIOUS
    <3> DEFINE m == k + FUNCTION_ITEM_LVL(s[1])
    <3>1. FUNCTION_ITEM_LVL(s[1]) \in Nat /\ FUNCTION_ITEM_LVL(s[1]) >= 1
      BY <1>4, <2>6
    <3>2. m \in Nat /\ k < m
      BY <2>1, <3>1
    <3>3. Aligned(b, m) /\ \A x : Has(BlockIn(b, s), x) <=> Within(b, m, x)
      BY <2>6, BlockWithin DEF IsBlock
    <3> HIDE DEF m
    <3>4. a \in Nat /\ a # b /\ Has(BlockIn(b, s), a)
      BY <2>1, <2>4, <3>2, <3>3, BuddyWithin
    <3>5. c = BlockIn(b, s)
      BY <2>5, <2>6, <3>4, HeadsApart DEF GroupInv, Tiled
    <3> QED  BY <2>5, <2>6, <3>4, <3>5
  <2>8. s = <<MAX_GROUP_LVLS, MIGRATION_UNMOVABLE, k>>
    BY <1>3, <2>2, <2>3, <2>7, SlotIs
  <2> QED  BY <2>2, <2>8 DEF BuddyList, b, k
<1>6. \A j \in 0..(n - 1) : BuddyBlock(f, j) = BlockIn(Buddy(f, j), BuddyList(f, j))
  BY DEF BuddyBlock, BlockIn, BuddyList
<1>7. \A j \in 0..(n - 1) : state[Buddy(f, j)] = MIGRATION_UNMOVABLE
  BY <1>2 DEF CanMerge, buddy_is_valid
<1> QED  BY <1>5, <1>6, <1>7

\* The items a merge goes through are the block's own and the buddies'.
LEMMA VisitedIs ==
    ASSUME AlignedGrowth, GroupInv, freeing # NoFree, NEW f, f = freeing, NEW n, n = Merges(f)
    PROVE  /\ \A i : i \in Absorbed(f, n) <=> \E j \in 0..(n - 1) : i = Buddy(f, j)
           /\ Visited(f, n) \subseteq {f.item} \cup Absorbed(f, n)
           /\ Merged(f, n) \in {f.item} \cup Absorbed(f, n)
           /\ n # 0 => f.item \in Visited(f, n)
           /\ n = 0 => Visited(f, n) = {} /\ Absorbed(f, n) = {} /\ Merged(f, n) = f.item
           /\ \A i \in Absorbed(f, n) :
                /\ i \in Item /\ i \in Existing /\ ~present[i] /\ i # f.item
                /\ state[i] = MIGRATION_UNMOVABLE
<1>1. n \in Nat /\ \A j \in 0..(n - 1) : CanMerge(f, j)
  BY LoopIs
<1>2. f.index \in Nat /\ Aligned(f.item, f.index) /\ present[f.item]
  BY FreedIs
<1>3. Merged(f, 0) = f.item
  BY <1>1, <1>2, MergeChain
<1>4. \A i : i \in Absorbed(f, n) <=> \E j \in 0..(n - 1) : i = Buddy(f, j)
  BY DEF Absorbed
<1>5. ASSUME NEW m \in 0..n PROVE Merged(f, m) \in {f.item} \cup Absorbed(f, n)
  <2>1. m \in Nat /\ \A j \in 0..(m - 1) : CanMerge(f, j) /\ j \in 0..(n - 1)
    BY <1>1
  <2>2. Merged(f, m) = f.item \/ \E j \in 0..(m - 1) : Merged(f, m) = Buddy(f, j)
    BY <2>1, ChainHead
  <2> QED  BY <1>4, <2>1, <2>2
<1>6. Visited(f, n) \subseteq {f.item} \cup Absorbed(f, n)
  <2>1. \A m \in 0..(n - 1) : m \in 0..n
    BY <1>1
  <2> QED  BY <1>5, <2>1 DEF Visited
<1>7. Merged(f, n) \in {f.item} \cup Absorbed(f, n)
  BY <1>1, <1>5
<1>8. ASSUME n # 0 PROVE f.item \in Visited(f, n)
  <2>1. 0 \in 0..(n - 1)
    BY <1>1, <1>8
  <2> QED  BY <1>3, <2>1 DEF Visited
<1>9. ASSUME n = 0 PROVE Visited(f, n) = {} /\ Absorbed(f, n) = {} /\ Merged(f, n) = f.item
  <2>1. \A m : m \notin 0..(n - 1)
    BY <1>9
  <2> QED  BY <1>3, <1>9, <2>1 DEF Visited, Absorbed
<1>10. ASSUME NEW i \in Absorbed(f, n)
       PROVE  /\ i \in Item /\ i \in Existing /\ ~present[i] /\ i # f.item
              /\ state[i] = MIGRATION_UNMOVABLE
  <2>1. PICK j \in 0..(n - 1) : i = Buddy(f, j)
    BY <1>4
  <2>2. BuddyList(f, j) \in Slot /\ i \in ToSet(cell[BuddyList(f, j)]) /\ state[i] = MIGRATION_UNMOVABLE
    BY <2>1, ChainIs
  <2>3. i \in Item /\ i \in Existing /\ ~present[i]
    BY <2>2, BlocksOfLists
  <2> QED  BY <1>2, <2>2, <2>3
<1> QED  BY <1>4, <1>6, <1>7, <1>8, <1>9, <1>10

\* What a list has of the buddies: the one of its order, or none.
LEMMA GoneIs ==
    ASSUME AlignedGrowth, GroupInv, freeing # NoFree, NEW f, f = freeing, NEW n, n = Merges(f),
           NEW s \in Slot
    PROVE  /\ \A j \in 0..(n - 1) : s = BuddyList(f, j) =>
                  ToSet(cell[s]) \cap Absorbed(f, n) = {Buddy(f, j)}
           /\ (\A j \in 0..(n - 1) : s # BuddyList(f, j)) =>
                  ToSet(cell[s]) \cap Absorbed(f, n) = {}
<1>1. \A j \in 0..(n - 1) : /\ BuddyList(f, j) \in Slot
                            /\ Buddy(f, j) \in ToSet(cell[BuddyList(f, j)])
  BY ChainIs
<1>2. \A i : i \in Absorbed(f, n) <=> \E j \in 0..(n - 1) : i = Buddy(f, j)
  BY VisitedIs
<1>3. ASSUME NEW i \in ToSet(cell[s]), NEW m \in 0..(n - 1), i = Buddy(f, m)
      PROVE  s = BuddyList(f, m)
  BY <1>1, <1>3, OneList
<1>4. f.order \in Nat /\ n \in Nat
  BY FreedIs, LoopIs
<1>5. ASSUME NEW j \in 0..(n - 1), NEW m \in 0..(n - 1), BuddyList(f, j) = BuddyList(f, m)
      PROVE  j = m
  <2>1. f.order + j = f.order + m
    BY <1>5 DEF BuddyList
  <2> QED  BY <1>4, <2>1
<1> QED  BY <1>1, <1>2, <1>3, <1>5

\* The merge of a block of the last level ends before the order that would be
\* promoted: a block of that order would be made of LastLevelItems.
LEMMA NotPromoted ==
    ASSUME AlignedGrowth, GroupInv, freeing # NoFree, NEW f, f = freeing, NEW n, n = Merges(f)
    PROVE  ~IsPromoted(f, n)
<1>1. /\ n \in Nat /\ f.order + n \in Nat /\ f.order + n <= F - 1
      /\ (f.lvl = MAX_GROUP_LVLS /\ f.type = MIGRATION_UNMOVABLE) \/ (n = 0 /\ IsDirect(f, 0))
  BY LoopIs
<1>2. CASE n = 0 /\ IsDirect(f, 0)
  BY <1>2 DEF IsPromoted
<1>3. CASE f.lvl = MAX_GROUP_LVLS /\ f.type = MIGRATION_UNMOVABLE
  <2> SUFFICES ASSUME IsPromoted(f, n) PROVE FALSE
    OBVIOUS
  <2>1. /\ f.index \in Nat /\ f.index = f.order /\ Aligned(f.item, f.index)
        /\ f.order \in Nat /\ f.item \in Nat
        /\ MovingBlock \in Whole /\ IsBlock(MovingBlock)
        /\ Carries(f.lvl, f.type, f.order)
    BY <1>3, FreedIs
  <2>2. F \in Nat /\ F >= 2 /\ f.index + n = F - 1
    BY <1>1, <2>1, Constants DEF IsPromoted
  <2>3. NeverPromoted
    BY <1>3, <2>1, LastCarries
  <2> DEFINE last == Merged(f, n)
             top == BlockItems(MAX_GROUP_LVLS, F - 1)
  <2>4. top = BIT(F - 1) /\ BIT(F - 1) \in Nat /\ BIT(F - 1) >= 1
    <3>1. FUNCTION_ITEM_LVL(MAX_GROUP_LVLS) = 0 /\ (F - 1) + 0 = F - 1 /\ F - 1 \in Nat
      BY <2>2, Constants, LevelShift
    <3> QED  BY <3>1, BitPositive DEF BlockItems
  <2>5. /\ last \in Nat /\ Aligned(last, F - 1)
        /\ \A y \in Int : (last <= y /\ y < last + BIT(F - 1))
              => \/ f.item <= y /\ y < f.item + BIT(f.index)
                 \/ \E j \in 0..(n - 1) : Buddy(f, j) <= y /\ y < Buddy(f, j) + BIT(f.index + j)
    <3>1. \E x \in Nat : x = f.index
      BY <2>1
    <3>2. PICK x \in Nat : x = f.index
      BY <3>1
    <3>3. /\ Merged(f, n) \in Nat
          /\ Aligned(Merged(f, n), x + n)
          /\ \A y \in Int :
                (Merged(f, n) <= y /\ y < Merged(f, n) + BIT(x + n))
                  <=> \/ f.item <= y /\ y < f.item + BIT(x)
                      \/ \E j \in 0..(n - 1) : Buddy(f, j) <= y /\ y < Buddy(f, j) + BIT(x + j)
      <4>1. Aligned(f.item, x) /\ f.index = x /\ n \in Nat
        BY <1>1, <2>1, <3>2
      <4>2. Merged(f, n) \in Nat /\ Aligned(Merged(f, n), x + n)
        BY <4>1, MergeChain
      <4>3. \A y \in Int :
               (Merged(f, n) <= y /\ y < Merged(f, n) + BIT(x + n))
                 <=> \/ f.item <= y /\ y < f.item + BIT(x)
                     \/ \E j \in 0..(n - 1) : Buddy(f, j) <= y /\ y < Buddy(f, j) + BIT(x + j)
        BY <4>1, MergeChain
      <4> QED  BY <4>2, <4>3
    <3>4. x + n = F - 1
      BY <2>2, <3>2
    <3> QED  BY <3>2, <3>3, <3>4
  <2>6. last % BIT(F - 1) = 0
    <3>1. PICK q \in Nat : last = q * BIT(F - 1)
      BY <2>5 DEF Aligned
    <3> HIDE DEF last
    <3> QED  BY <2>4, <3>1, DivOfMultiple
  <2>7. ASSUME NEW y \in Span(last, MAX_GROUP_LVLS, F - 1) PROVE y \in LastLevelItems
    <3>1. y \in Int /\ last <= y /\ y < last + BIT(F - 1)
      BY <2>4, <2>5, <2>7 DEF Span
    <3>2. CASE f.item <= y /\ y < f.item + BIT(f.index)
      <4>1. MovingBlock.lvl = MAX_GROUP_LVLS /\ MovingBlock.order = f.order /\ MovingBlock.item = f.item
        BY <1>3 DEF MovingBlock
      <4>2. Has(MovingBlock, y)
        BY <2>1, <3>2, <4>1, LastLevel
      <4> QED  BY <2>1, <3>1, <4>1, <4>2 DEF GroupInv, Fine
    <3>3. CASE \E j \in 0..(n - 1) : Buddy(f, j) <= y /\ y < Buddy(f, j) + BIT(f.index + j)
      <4>1. PICK j \in 0..(n - 1) : Buddy(f, j) <= y /\ y < Buddy(f, j) + BIT(f.index + j)
        BY <3>3
      <4>2. BuddyBlock(f, j) \in Whole
        <5>1. BuddyList(f, j) \in Slot /\ Buddy(f, j) \in ToSet(cell[BuddyList(f, j)])
              /\ BuddyBlock(f, j) = BlockIn(Buddy(f, j), BuddyList(f, j))
          BY ChainIs
        <5> QED  BY <5>1, BlocksOfLists
      <4>3. /\ BuddyBlock(f, j).item = Buddy(f, j) /\ BuddyBlock(f, j).lvl = MAX_GROUP_LVLS
            /\ BuddyBlock(f, j).order = f.order + j /\ f.order + j \in Nat
        BY <1>1, <2>1 DEF BuddyBlock
      <4>4. Has(BuddyBlock(f, j), y)
        BY <2>1, <4>1, <4>3, LastLevel
      <4> QED  BY <3>1, <4>2, <4>3, <4>4 DEF GroupInv, Fine
    <3> QED  BY <2>5, <3>1, <3>2, <3>3
  <2>8. last \in Item
    <3>1. last = f.item \/ last \in Absorbed(f, n)
      BY VisitedIs
    <3> QED  BY <3>1, FreedIs, VisitedIs
  <2> QED  BY <2>3, <2>6, <2>7, <2>8 DEF NeverPromoted
<1> QED  BY <1>1, <1>2, <1>3

\* What the step does to the lists.
LEMMA FreeLists ==
    ASSUME AlignedGrowth, GroupInv, freeing # NoFree, NEW f, f = freeing, NEW n, n = Merges(f),
           cell' = CellAfterFree(f, n), count' = CountAfterFree(f, n)
    PROVE  /\ <<f.lvl, f.type, f.order + n>> \in Slot
           /\ \A s \in Slot :
                /\ cell'[s] \in Seq(Item) /\ InjectiveSeq(cell'[s]) /\ count'[s] = Len(cell'[s])
                /\ cell'[s] # <<>> => IsListType(s)
                /\ \A i : i \in ToSet(cell'[s])
                            <=> \/ i \in ToSet(cell[s]) /\ i \notin Absorbed(f, n)
                                \/ s = <<f.lvl, f.type, f.order + n>> /\ i = Merged(f, n)
           /\ cell' = [s \in Slot |-> cell'[s]] /\ count' = [s \in Slot |-> count'[s]]
<1> DEFINE dst == <<f.lvl, f.type, f.order + n>>
           last == Merged(f, n)
           gone == Absorbed(f, n)
           rest(s) == Without(cell[s], gone)
<1>1. /\ f.lvl \in Lvl /\ f.type \in MigrationType /\ f.order \in Nat /\ f.item \in Item
      /\ Carries(f.lvl, f.type, f.order)
      /\ \A s \in Slot : f.item \notin ToSet(cell[s])
  BY FreedIs
<1>2. /\ n \in Nat /\ f.order + n \in Order /\ f.order + n \in Nat /\ ~IsPromoted(f, n)
      /\ n # 0 => f.lvl = MAX_GROUP_LVLS /\ f.type = MIGRATION_UNMOVABLE
  BY LoopIs, NotPromoted
<1>3. dst \in Slot /\ IsListType(dst)
  <2>1. dst[1] = f.lvl /\ dst[2] = f.type /\ dst[3] = f.order + n
    OBVIOUS
  <2>2. dst \in Slot
    BY <1>1, <1>2, SlotIs
  <2>3. Carries(f.lvl, f.type, f.order + n)
    <3>1. CASE n = 0
      BY <1>1, <3>1
    <3>2. CASE n # 0
      BY <1>1, <1>2, <3>2, LastCarries
    <3> QED  BY <3>1, <3>2
  <2> HIDE DEF dst
  <2> QED  BY <2>1, <2>2, <2>3 DEF IsListType
<1>4. last \in Item /\ \A s \in Slot : last \notin ToSet(cell[s]) \ gone
  BY <1>1, VisitedIs
<1>5. cell' = [s \in Slot |->
            IF s # dst THEN rest(s)
            ELSE IF GoesToTail(f, n) THEN Append(rest(s), last) ELSE <<last>> \o rest(s)]
  BY <1>2 DEF CellAfterFree
<1>6. count' = [s \in Slot |->
            IF s[1] # f.lvl \/ s[2] # f.type THEN count[s]
            ELSE IF s[3] \in f.order..(f.order + n - 1) THEN count[s] - 1
            ELSE IF s[3] = f.order + n THEN count[s] + 1
                 ELSE count[s]]
  BY <1>2 DEF CountAfterFree
<1> HIDE DEF last, gone, dst
<1>7. ASSUME NEW s \in Slot
      PROVE  /\ rest(s) \in Seq(Item) /\ InjectiveSeq(rest(s))
             /\ ToSet(rest(s)) = ToSet(cell[s]) \ gone
             /\ ToSet(cell[s]) \cap gone = {} => Len(rest(s)) = Len(cell[s])
             /\ \A x : ToSet(cell[s]) \cap gone = {x} => Len(rest(s)) = Len(cell[s]) - 1
             /\ cell[s] \in Seq(Item) /\ count[s] = Len(cell[s]) /\ Len(cell[s]) \in Nat
             /\ cell[s] # <<>> => IsListType(s)
  <2>1. /\ cell[s] \in Seq(Item) /\ InjectiveSeq(cell[s]) /\ count[s] = Len(cell[s])
        /\ cell[s] # <<>> => IsListType(s)
        /\ Len(cell[s]) \in Nat
    BY DEF GroupInv, TypeOK, WellListed
  <2> QED  BY <2>1, WithoutIs
<1> HIDE DEF rest
<1>8. ASSUME NEW s \in Slot
      PROVE  \/ \E j \in 0..(n - 1) : /\ s = BuddyList(f, j) /\ s[1] = f.lvl /\ s[2] = f.type
                                      /\ s[3] = f.order + j /\ s[3] \in f.order..(f.order + n - 1)
             \/ /\ \A j \in 0..(n - 1) : s # BuddyList(f, j)
                /\ s[1] # f.lvl \/ s[2] # f.type \/ s[3] \notin f.order..(f.order + n - 1)
  <2>1. CASE \E j \in 0..(n - 1) : s = BuddyList(f, j)
    <3>1. PICK j \in 0..(n - 1) : s = BuddyList(f, j)
      BY <2>1
    <3>2. n # 0
      BY <1>2
    <3>3. f.lvl = MAX_GROUP_LVLS /\ f.type = MIGRATION_UNMOVABLE
      BY <1>2, <3>2
    <3>4. s[1] = f.lvl /\ s[2] = f.type /\ s[3] = f.order + j
      BY <3>1, <3>3 DEF BuddyList
    <3>5. s[3] \in f.order..(f.order + n - 1)
      BY <1>1, <1>2, <3>4
    <3> QED  BY <3>1, <3>4, <3>5
  <2>2. CASE \A j \in 0..(n - 1) : s # BuddyList(f, j)
    <3> SUFFICES ASSUME s[1] = f.lvl, s[2] = f.type, s[3] \in f.order..(f.order + n - 1)
                 PROVE  FALSE
      BY <2>2
    <3>1. s[3] - f.order \in 0..(n - 1) /\ f.order + (s[3] - f.order) = s[3]
      BY <1>1, <1>2
    <3>2. n # 0
      BY <1>2, <3>1
    <3>3. f.lvl = MAX_GROUP_LVLS /\ f.type = MIGRATION_UNMOVABLE
      BY <1>2, <3>2
    <3>4. s = <<s[1], s[2], s[3]>>
      BY SlotIs
    <3>5. s = BuddyList(f, s[3] - f.order)
      BY <3>1, <3>3, <3>4 DEF BuddyList
    <3> QED  BY <2>2, <3>1, <3>5
  <2> QED  BY <2>1, <2>2
<1>9. ASSUME NEW s \in Slot, s # dst
      PROVE  cell'[s] = rest(s) /\ count'[s] = Len(rest(s))
  <2>1. cell'[s] = rest(s)
    BY <1>5, <1>9
  <2>2. CASE \E j \in 0..(n - 1) : /\ s = BuddyList(f, j) /\ s[1] = f.lvl /\ s[2] = f.type
                                   /\ s[3] \in f.order..(f.order + n - 1)
    <3>1. PICK j \in 0..(n - 1) : s = BuddyList(f, j)
      BY <2>2
    <3>2. ToSet(cell[s]) \cap gone = {Buddy(f, j)}
      BY <3>1, GoneIs DEF gone
    <3>3. count'[s] = count[s] - 1
      BY <1>6, <2>2
    <3> QED  BY <1>7, <2>1, <3>2, <3>3
  <2>3. CASE /\ \A j \in 0..(n - 1) : s # BuddyList(f, j)
             /\ s[1] # f.lvl \/ s[2] # f.type \/ s[3] \notin f.order..(f.order + n - 1)
    <3>1. ToSet(cell[s]) \cap gone = {}
      BY <2>3, GoneIs DEF gone
    <3>2. s[1] # f.lvl \/ s[2] # f.type \/ s[3] # f.order + n
      <4>1. s = <<s[1], s[2], s[3]>>
        BY SlotIs
      <4> QED  BY <1>9, <4>1 DEF dst
    <3>3. count'[s] = count[s]
      BY <1>6, <2>3, <3>2
    <3> QED  BY <1>7, <2>1, <3>1, <3>3
  <2> QED  BY <1>8, <2>2, <2>3
<1>10. cell'[dst] \in {Append(rest(dst), last), <<last>> \o rest(dst)} /\ count'[dst] = Len(rest(dst)) + 1
  <2>1. dst[1] = f.lvl /\ dst[2] = f.type /\ dst[3] = f.order + n
    BY DEF dst
  <2>2. dst[3] \notin f.order..(f.order + n - 1)
    BY <1>1, <1>2, <2>1
  <2>3. \A j \in 0..(n - 1) : dst # BuddyList(f, j)
    BY <1>3, <1>8, <2>2
  <2>4. ToSet(cell[dst]) \cap gone = {}
    BY <1>3, <2>3, GoneIs DEF gone
  <2>5. count'[dst] = count[dst] + 1
    BY <1>3, <1>6, <2>1, <2>2
  <2>6. cell'[dst] \in {Append(rest(dst), last), <<last>> \o rest(dst)}
    BY <1>3, <1>5
  <2> QED  BY <1>3, <1>7, <2>4, <2>5, <2>6
<1>11. /\ cell'[dst] \in Seq(Item) /\ InjectiveSeq(cell'[dst])
       /\ ToSet(cell'[dst]) = ToSet(rest(dst)) \cup {last}
       /\ Len(cell'[dst]) = Len(rest(dst)) + 1
  <2>1. /\ rest(dst) \in Seq(Item) /\ InjectiveSeq(rest(dst)) /\ last \in Item
        /\ last \notin ToSet(rest(dst))
    BY <1>3, <1>4, <1>7
  <2>2. CASE cell'[dst] = Append(rest(dst), last)
    BY <2>1, <2>2, AtTail
  <2>3. CASE cell'[dst] = <<last>> \o rest(dst)
    BY <2>1, <2>3, AtHead
  <2> QED  BY <1>10, <2>2, <2>3
<1>12. ASSUME NEW s \in Slot
       PROVE  /\ cell'[s] \in Seq(Item) /\ InjectiveSeq(cell'[s]) /\ count'[s] = Len(cell'[s])
              /\ cell'[s] # <<>> => IsListType(s)
              /\ \A i : i \in ToSet(cell'[s])
                          <=> \/ i \in ToSet(cell[s]) /\ i \notin gone
                              \/ s = dst /\ i = last
  <2>1. CASE s = dst
    BY <1>3, <1>7, <1>10, <1>11, <2>1
  <2>2. CASE s # dst
    <3>1. cell'[s] = rest(s) /\ count'[s] = Len(rest(s))
      BY <1>9, <2>2
    <3>2. ASSUME rest(s) # <<>> PROVE IsListType(s)
      <4>1. Head(rest(s)) \in ToSet(rest(s))
        BY <1>7, <3>2, TakeHead
      <4>2. Head(rest(s)) \in ToSet(cell[s])
        BY <1>7, <4>1
      <4> QED  BY <4>2, BlocksOfLists
    <3> QED  BY <1>7, <2>2, <3>1, <3>2
  <2> QED  BY <2>1, <2>2
<1>13. cell' = [s \in Slot |-> cell'[s]] /\ count' = [s \in Slot |-> count'[s]]
  BY <1>5, <1>6
<1> QED  BY <1>3, <1>12, <1>13 DEF dst, last, gone

LEMMA FreeKeeps ==
    ASSUME AlignedGrowth, GroupInv, free_group_migration
    PROVE  GroupInv'
<1> DEFINE f == freeing
           n == Merges(f)
           last == Merged(f, n)
           gone == Absorbed(f, n)
           visited == Visited(f, n)
           dst == <<f.lvl, f.type, f.order + n>>
           mb == MovingBlock
           nb == [item |-> last, lvl |-> f.lvl, order |-> f.order + n]
           Out == {mb} \cup {BuddyBlock(f, j) : j \in 0..(n - 1)}
           In == {nb}
<1>1. freeing # NoFree /\ grown' = grown /\ held' = held /\ owners' = owners
  BY DEF free_group_migration, holders
<1>2. CASE OutOfBounds(f, n)
  <2>1. free_group_round(f, n) /\ UNCHANGED <<grown, holders>>
    BY DEF free_group_migration
  <2>2. fault' = TRUE /\ UNCHANGED <<lists, descriptors, freeing>>
    BY <1>2, <2>1 DEF free_group_round
  <2> QED  BY <2>1, <2>2, FaultKeeps
<1>3. CASE ~ OutOfBounds(f, n)
  <2>1. /\ f \in Locals
        /\ mb \in Whole /\ IsBlock(mb) /\ Moving = {mb} /\ mb \notin Free /\ mb \notin InUse
        /\ f.item \in Item /\ f.item \in Existing /\ f.item \in Nat
        /\ f.lvl \in Lvl /\ f.lvl \in 0..3 /\ f.order \in 0..(F - 2) /\ f.order \in Nat
        /\ f.type \in MigrationType /\ f.type = state[f.item]
        /\ f.index \in Nat /\ Aligned(f.item, f.index)
        /\ f.type # MIGRATION_MOVABLE
        /\ f.lvl = MAX_GROUP_LVLS => f.index = f.order
        /\ Carries(f.lvl, f.type, f.order)
        /\ present[f.item]
        /\ \A s \in Slot : f.item \notin ToSet(cell[s])
        /\ \A b \in held : b.item # f.item
    BY <1>1, FreedIs
  <2>2. /\ n \in Nat /\ ~CanMerge(f, n)
        /\ f.order + n \in Nat /\ f.order + n <= F - 1 /\ f.order + n \in Order
        /\ InLoop(f, 0)
        /\ n # 0 => f.lvl = MAX_GROUP_LVLS /\ f.type = MIGRATION_UNMOVABLE
        /\ \/ /\ f.lvl = MAX_GROUP_LVLS /\ f.type = MIGRATION_UNMOVABLE
              /\ \A j \in Nat : InLoop(f, j) <=> f.order + j <= F - 2
              /\ \A j \in Nat : ~IsDirect(f, j)
           \/ n = 0 /\ IsDirect(f, 0)
        /\ ~IsPromoted(f, n)
    BY <1>1, LoopIs, NotPromoted
  <2>3. /\ \A i : i \in gone <=> \E j \in 0..(n - 1) : i = Buddy(f, j)
        /\ visited \subseteq {f.item} \cup gone
        /\ last \in {f.item} \cup gone
        /\ n # 0 => f.item \in visited
        /\ n = 0 => visited = {} /\ gone = {} /\ last = f.item
        /\ \A i \in gone : /\ i \in Item /\ i \in Existing /\ ~present[i] /\ i # f.item
                           /\ state[i] = MIGRATION_UNMOVABLE
    BY <1>1, VisitedIs
  <2>4. InLoop(f, 0)
    BY <2>2
  <2>5. /\ cell' = CellAfterFree(f, n)
        /\ count' = CountAfterFree(f, n)
        /\ present' = [present EXCEPT ![f.item] = FALSE]
        /\ order' = [i \in Item |->
              IF i = last THEN f.order + n
              ELSE IF i \in visited \cup gone THEN 0 ELSE order[i]]
        /\ state' = [i \in Item |-> IF i \in visited THEN MIGRATION_MOVABLE ELSE state[i]]
        /\ section' = [i \in Item |->
              IF i = last THEN f.lvl
              ELSE IF i \in visited THEN CLEARED_SECTION ELSE section[i]]
        /\ node' = [i \in Item |-> IF i \in visited \cup gone THEN 0 ELSE node[i]]
        /\ freeing' = NoFree
        /\ fault' = fault
    <3>1. free_group_round(f, n)
      BY DEF free_group_migration
    <3>2. /\ cell' = CellAfterFree(f, n)
          /\ count' = CountAfterFree(f, n)
          /\ present' = [present EXCEPT ![f.item] = @ /\ ~InLoop(f, 0)]
          /\ order' = [i \in Item |->
                IF i = last THEN IF n = 0 /\ IsPromoted(f, n) THEN order[i] ELSE f.order + n
                ELSE IF i \in visited \cup gone THEN 0 ELSE order[i]]
          /\ state' = [i \in Item |-> IF i \in visited THEN MIGRATION_MOVABLE ELSE state[i]]
          /\ section' = [i \in Item |->
                IF i = last /\ ~IsPromoted(f, n) THEN f.lvl
                ELSE IF i \in visited THEN CLEARED_SECTION ELSE section[i]]
          /\ node' = NodeAfterFree(f, n)
          /\ IsPromoted(f, n) \/ freeing' = NoFree
          /\ fault' = fault
      BY <1>3, <3>1 DEF free_group_round
    <3> HIDE DEF f, n, last, gone, visited
    <3>3. present' = [present EXCEPT ![f.item] = FALSE]
      BY <2>4, <3>2
    <3>4. order' = [i \in Item |->
              IF i = last THEN f.order + n
              ELSE IF i \in visited \cup gone THEN 0 ELSE order[i]]
      BY <2>2, <3>2
    <3>5. section' = [i \in Item |->
              IF i = last THEN f.lvl
              ELSE IF i \in visited THEN CLEARED_SECTION ELSE section[i]]
      BY <2>2, <3>2
    <3>6. node' = [i \in Item |-> IF i \in visited \cup gone THEN 0 ELSE node[i]]
      BY <3>2 DEF NodeAfterFree, visited, gone
    <3> QED  BY <2>2, <3>2, <3>3, <3>4, <3>5, <3>6
  <2>6. /\ dst \in Slot
        /\ \A s \in Slot :
                /\ cell'[s] \in Seq(Item) /\ InjectiveSeq(cell'[s]) /\ count'[s] = Len(cell'[s])
                /\ cell'[s] # <<>> => IsListType(s)
                /\ \A i : i \in ToSet(cell'[s])
                            <=> \/ i \in ToSet(cell[s]) /\ i \notin gone
                                \/ s = dst /\ i = last
        /\ cell' = [s \in Slot |-> cell'[s]] /\ count' = [s \in Slot |-> count'[s]]
    BY <1>1, <2>5, FreeLists
  <2>7. dst[1] = f.lvl /\ dst[2] = f.type /\ dst[3] = f.order + n
    OBVIOUS
  <2>8. /\ n # 0 => f.lvl = MAX_GROUP_LVLS /\ f.type = MIGRATION_UNMOVABLE /\ f.index = f.order
        /\ \A j \in 0..(n - 1) :
             /\ BuddyList(f, j) \in Slot /\ Buddy(f, j) \in ToSet(cell[BuddyList(f, j)])
             /\ BuddyBlock(f, j) = BlockIn(Buddy(f, j), BuddyList(f, j))
    BY <1>1, <2>1, <2>2, ChainIs
  <2>9. /\ nb.item = last /\ nb.lvl = f.lvl /\ nb.order = f.order + n
        /\ mb.item = f.item /\ mb.lvl = f.lvl /\ mb.order = f.order
        /\ mb = [item |-> f.item, lvl |-> f.lvl, order |-> f.order]
    BY DEF MovingBlock
  <2> HIDE DEF n, last, gone, visited, dst, mb, nb
  \* The descriptors.
  <2>10. last \in Item /\ last \in Existing
    BY <2>1, <2>3
  <2>11. /\ ~present'[last] /\ order'[last] = f.order + n /\ section'[last] = f.lvl
         /\ MayState(dst, state'[last])
    <3>1. ~present'[last]
      BY <2>1, <2>3, <2>5, <2>10 DEF GroupInv, TypeOK
    <3>2. MayState(dst, state'[last])
      <4>1. CASE n = 0
        <5>1. state'[last] = f.type
          BY <2>1, <2>3, <2>5, <2>10, <4>1
        <5> QED  BY <2>7, <5>1 DEF MayState
      <4>2. CASE n # 0
        <5>1. last \in visited \/ state[last] = MIGRATION_UNMOVABLE
          BY <2>3, <4>2
        <5>2. state'[last] = MIGRATION_MOVABLE \/ state'[last] = MIGRATION_UNMOVABLE
          BY <2>5, <2>10, <5>1
        <5> QED  BY <2>7, <2>8, <4>2, <5>2 DEF MayState
      <4> QED  BY <4>1, <4>2
    <3> QED  BY <2>5, <2>10, <3>1, <3>2
  <2>12. ASSUME NEW i \in Item, i # f.item, i \notin gone
         PROVE  /\ present'[i] = present[i] /\ order'[i] = order[i] /\ state'[i] = state[i]
                /\ section'[i] = section[i] /\ node'[i] = node[i]
    <3>1. i # last /\ i \notin visited \cup gone
      BY <2>3, <2>12
    <3>2. present'[i] = present[i]
      BY <2>5, <2>12 DEF GroupInv, TypeOK
    <3> QED  BY <2>5, <3>1, <3>2
  <2>13. ASSUME NEW s \in Slot, NEW i \in ToSet(cell[s]), i \notin gone
         PROVE  /\ present'[i] = present[i] /\ order'[i] = order[i] /\ state'[i] = state[i]
                /\ section'[i] = section[i] /\ i \in Item
    <3>1. i \in Item
      BY BlocksOfLists
    <3>2. i # f.item
      BY <2>1
    <3> QED  BY <2>12, <2>13, <3>1, <3>2
  <2>14. TypeOK'
    <3>1. cell' \in [Slot -> Seq(Item)] /\ count' \in [Slot -> Int]
      <4>1. \A s \in Slot : cell'[s] \in Seq(Item) /\ count'[s] \in Int
        BY <2>6
      <4>2. cell' = [s \in Slot |-> cell'[s]] /\ count' = [s \in Slot |-> count'[s]]
        BY <2>6
      <4> HIDE <2>6
      <4> QED  BY <4>1, <4>2
    <3>2. present' \in [Item -> BOOLEAN]
      BY <2>5 DEF GroupInv, TypeOK
    <3>3. order' \in [Item -> Order]
      <4>1. 0 \in Order
        BY Constants
      <4> QED  BY <2>2, <2>5, <4>1 DEF GroupInv, TypeOK
    <3>4. state' \in [Item -> MigrationType]
      BY <2>5, TypesDiffer DEF GroupInv, TypeOK
    <3>5. section' \in [Item -> 0..31]
      <4>1. f.lvl \in 0..31 /\ CLEARED_SECTION \in 0..31
        BY <2>1 DEF CLEARED_SECTION
      <4> QED  BY <2>5, <4>1 DEF GroupInv, TypeOK
    <3>6. node' \in [Item -> {0, NodeId}]
      BY <2>5 DEF GroupInv, TypeOK
    <3> QED  BY <1>1, <2>5, <3>1, <3>2, <3>3, <3>4, <3>5, <3>6 DEF GroupInv, TypeOK
  \* The blocks.
  <2>15. \A b : b \in Free' <=> \/ b \in Free /\ \A j \in 0..(n - 1) : b # BuddyBlock(f, j)
                                \/ b = nb
    <3>1. ASSUME NEW b, b \in Free'
          PROVE  (b \in Free /\ \A j \in 0..(n - 1) : b # BuddyBlock(f, j)) \/ b = nb
      <4>1. PICK s \in Slot : \E i \in ToSet(cell'[s]) : b = BlockIn(i, s)
        BY <3>1, FreeIs DEF IsListed
      <4>2. PICK i \in ToSet(cell'[s]) : b = BlockIn(i, s)
        BY <4>1
      <4>3. CASE i \in ToSet(cell[s]) /\ i \notin gone
        <5>1. b \in Free
          BY <4>2, <4>3, FreeIs DEF IsListed
        <5>2. ASSUME NEW j \in 0..(n - 1), b = BuddyBlock(f, j) PROVE FALSE
          <6>1. i = Buddy(f, j)
            BY <4>2, <5>2 DEF BlockIn, BuddyBlock
          <6> QED  BY <2>3, <4>3, <6>1
        <5> QED  BY <5>1, <5>2
      <4>4. CASE s = dst /\ i = last
        BY <2>7, <4>2, <4>4 DEF BlockIn, nb
      <4> QED  BY <2>6, <4>2, <4>3, <4>4
    <3>2. ASSUME NEW b \in Free, \A j \in 0..(n - 1) : b # BuddyBlock(f, j) PROVE b \in Free'
      <4>1. PICK s \in Slot : \E i \in ToSet(cell[s]) : b = BlockIn(i, s)
        BY FreeIs DEF IsListed
      <4>2. PICK i \in ToSet(cell[s]) : b = BlockIn(i, s)
        BY <4>1
      <4>3. i \notin gone
        <5> SUFFICES ASSUME i \in gone PROVE FALSE
          OBVIOUS
        <5>1. PICK j \in 0..(n - 1) : i = Buddy(f, j)
          BY <2>3
        <5>2. s = BuddyList(f, j)
          BY <2>8, <4>2, <5>1, OneList
        <5> QED  BY <2>8, <3>2, <4>2, <5>1, <5>2
      <4>4. i \in ToSet(cell'[s])
        BY <2>6, <4>2, <4>3
      <4> QED  BY <4>2, <4>4, FreeIs DEF IsListed
    <3>3. nb \in Free'
      <4>1. last \in ToSet(cell'[dst]) /\ BlockIn(last, dst) = nb
        BY <2>6, <2>7 DEF BlockIn, nb
      <4> QED  BY <2>6, <4>1, FreeIs DEF IsListed
    <3> QED  BY <3>1, <3>2, <3>3
  <2>16. InUse' = InUse /\ Moving' = {} /\ \A j \in 0..(n - 1) : BuddyBlock(f, j) \notin InUse
    <3>1. InUse' = InUse /\ Moving' = {}
      BY <1>1, <2>5 DEF InUse, Moving
    <3>2. ASSUME NEW j \in 0..(n - 1), BuddyBlock(f, j) \in InUse PROVE FALSE
      <4>1. PICK b \in held : BuddyBlock(f, j) = BlockOf(b)
        BY <3>2 DEF InUse, BlockOf
      <4>2. b.item = Buddy(f, j)
        BY <4>1 DEF BlockOf, BuddyBlock
      <4> QED  BY <2>8, <4>2, HeldIs
    <3> QED  BY <3>1, <3>2
  <2>17. Whole' = (Whole \ Out) \cup In /\ Out \subseteq Whole
    <3>1. \A b : b \in Out <=> b = mb \/ \E j \in 0..(n - 1) : b = BuddyBlock(f, j)
      OBVIOUS
    <3>2. Whole' = (Whole \ Out) \cup In
      <4> HIDE DEF Out
      <4> QED  BY <2>1, <2>15, <2>16, <3>1 DEF Whole
    <3>3. \A j \in 0..(n - 1) : BuddyBlock(f, j) \in Whole
      BY <2>8, BlocksOfLists
    <3> QED  BY <2>1, <3>1, <3>2, <3>3
  <2>18. IsBlock(nb)
    <3>1. Aligned(last, nb.order + FUNCTION_ITEM_LVL(nb.lvl)) /\ last \in Nat
      <4>1. CASE n = 0
        <5>1. nb = mb
          BY <2>1, <2>3, <2>9, <4>1 DEF nb
        <5> QED  BY <2>1, <2>9, <5>1 DEF IsBlock
      <4>2. CASE n # 0
        <5>1. Aligned(last, f.order + n) /\ last \in Nat
          BY <2>1, <2>2, <2>8, <4>2, MergeChain DEF last
        <5>2. nb.order + FUNCTION_ITEM_LVL(nb.lvl) = f.order + n
          BY <2>2, <2>8, <2>9, <4>2, LastLevel
        <5> QED  BY <5>1, <5>2
      <4> QED  BY <4>1, <4>2
    <3>2. nb = [item |-> nb.item, lvl |-> nb.lvl, order |-> nb.order]
      BY DEF nb
    <3> QED  BY <2>1, <2>2, <2>9, <3>1, <3>2 DEF IsBlock
  <2>19. ASSUME NEW y \in Int PROVE (\E b \in Out : Has(b, y)) <=> Has(nb, y)
    <3>1. (\E b \in Out : Has(b, y)) <=> Has(mb, y) \/ \E j \in 0..(n - 1) : Has(BuddyBlock(f, j), y)
      OBVIOUS
    <3> HIDE DEF Out
    <3>2. CASE n = 0
      <4>1. nb = mb
        BY <2>1, <2>3, <2>9, <3>2 DEF nb
      <4>2. \A j : j \notin 0..(n - 1)
        BY <3>2
      <4> QED  BY <3>1, <4>1, <4>2
    <3>3. CASE n # 0
      <4>1. (last <= y /\ y < last + BIT(f.order + n))
                  <=> \/ f.item <= y /\ y < f.item + BIT(f.order)
                      \/ \E j \in 0..(n - 1) :
                            Buddy(f, j) <= y /\ y < Buddy(f, j) + BIT(f.order + j)
        BY <2>1, <2>2, <2>8, <3>3, MergeChain DEF last
      <4>2. Has(nb, y) <=> last <= y /\ y < last + BIT(f.order + n)
        BY <2>2, <2>8, <2>9, <3>3, LastLevel
      <4>3. Has(mb, y) <=> f.item <= y /\ y < f.item + BIT(f.order)
        BY <2>1, <2>8, <2>9, <3>3, LastLevel
      <4>4. \A j \in 0..(n - 1) :
              Has(BuddyBlock(f, j), y) <=> Buddy(f, j) <= y /\ y < Buddy(f, j) + BIT(f.order + j)
        <5> SUFFICES ASSUME NEW j \in 0..(n - 1)
                     PROVE  Has(BuddyBlock(f, j), y)
                              <=> Buddy(f, j) <= y /\ y < Buddy(f, j) + BIT(f.order + j)
          OBVIOUS
        <5>1. /\ BuddyBlock(f, j).item = Buddy(f, j) /\ BuddyBlock(f, j).lvl = MAX_GROUP_LVLS
              /\ BuddyBlock(f, j).order = f.order + j /\ f.order + j \in Nat
          BY <2>1, <2>2 DEF BuddyBlock
        <5> QED  BY <5>1, LastLevel
      <4> QED  BY <3>1, <4>1, <4>2, <4>3, <4>4
    <3> QED  BY <3>2, <3>3
  <2>20. Tiled'
    <3>1. Tiles(Whole, 0, ItemsAfter[grown])
      BY DEF GroupInv, Tiled
    <3>2. \A b, c \in In, x \in Int : Has(b, x) /\ Has(c, x) => b = c
      OBVIOUS
    <3>3. (\A b \in In : IsBlock(b)) /\ \A y \in Int : (\E b \in Out : Has(b, y)) <=> \E b \in In : Has(b, y)
      <4> HIDE DEF Out
      <4> QED  BY <2>18, <2>19
    <3> HIDE DEF Out, In
    <3>4. Tiles(Whole', 0, ItemsAfter[grown])
      BY <2>17, <3>1, <3>2, <3>3, Retile
    <3>5. Tiles(Whole', 0, ItemsAfter[grown'])
      BY <1>1, <3>4
    <3> QED  BY <3>5 DEF Tiled, Tiles
  <2>21. Coarse'
    <3> SUFFICES ASSUME NEW b \in Whole', b.lvl # MAX_GROUP_LVLS
                 PROVE  \E m \in 1..Len(Sizes) : \E c \in BlocksOf(m) : c.lvl = b.lvl /\ c.order = b.order
      BY DEF Coarse
    <3>1. CASE b \in Whole
      BY <3>1 DEF GroupInv, Coarse
    <3>2. CASE b = nb
      <4>1. n = 0
        BY <2>8, <2>9, <3>2
      <4>2. b = mb
        BY <2>1, <2>3, <2>9, <3>2, <4>1 DEF nb
      <4> QED  BY <2>1, <4>2 DEF GroupInv, Coarse
    <3> QED  BY <2>17, <3>1, <3>2
  <2>22. WellListed'
    <3>1. ASSUME NEW s \in Slot, NEW i \in ToSet(cell'[s])
          PROVE  ~present'[i] /\ order'[i] = s[3] /\ MayState(s, state'[i])
      <4>1. CASE i \in ToSet(cell[s]) /\ i \notin gone
        BY <2>13, <4>1, BlocksOfLists
      <4>2. CASE s = dst /\ i = last
        BY <2>7, <2>11, <4>2
      <4> QED  BY <2>6, <4>1, <4>2
    <3>2. ListedOnce'
      <4> SUFFICES ASSUME NEW s \in Slot, NEW t \in Slot, NEW i \in Item,
                          i \in ToSet(cell'[s]), i \in ToSet(cell'[t])
                   PROVE  s = t
        BY DEF ListedOnce
      <4>1. \A u \in Slot : last \notin ToSet(cell[u]) \/ last \in gone
        BY <2>1, <2>3
      <4>2. CASE i = last
        BY <2>6, <4>1, <4>2
      <4>3. CASE i # last
        <5>1. i \in ToSet(cell[s]) /\ i \in ToSet(cell[t])
          BY <2>6, <4>3
        <5> QED  BY <5>1, OneList
      <4> QED  BY <4>2, <4>3
    <3> QED  BY <2>6, <3>1, <3>2 DEF WellListed
  <2>23. WellHeld'
    <3>1. ASSUME NEW b \in held
          PROVE  /\ present'[b.item] = present[b.item] /\ order'[b.item] = order[b.item]
                 /\ state'[b.item] = state[b.item] /\ section'[b.item] = section[b.item]
                 /\ node'[b.item] = node[b.item]
      <4>1. b.item \in Item /\ present[b.item] /\ b.item # f.item
        BY <2>1, HeldIs DEF GroupInv, WellHeld, IsOut
      <4>2. b.item \notin gone
        BY <2>3, <4>1
      <4> QED  BY <2>12, <4>1, <4>2
    <3> QED  BY <1>1, <3>1 DEF GroupInv, WellHeld, IsOut
  <2>24. WellFreed'
    BY <2>5 DEF WellFreed
  <2>25. Fresh'
    <3> SUFFICES ASSUME NEW i \in Item, i >= ItemsAfter[grown]
                 PROVE  ~present'[i] /\ state'[i] = MIGRATION_MOVABLE /\ section'[i] = 0
      BY <1>1 DEF Fresh
    <3>1. i \notin Existing
      BY GrownIs, ItemIs DEF GroupInv
    <3>2. i # f.item /\ i \notin gone
      BY <2>1, <2>3, <3>1
    <3>3. ~present[i] /\ state[i] = MIGRATION_MOVABLE /\ section[i] = 0
      BY DEF GroupInv, Fresh
    <3> QED  BY <2>12, <3>2, <3>3
  <2>26. OwnersExact'
    BY <1>1 DEF GroupInv, OwnersExact
  <2>27. LastCoalesced(cell', state')
    <3> SUFFICES ASSUME NEW j \in 0..(F - 2), LastSlot(j) \in Slot, NEW i,
                        IsKnown(cell', state', j, i), IsKnown(cell', state', j, next_buddy_idx(i, j))
                 PROVE  FALSE
      BY DEF LastCoalesced
    <3> DEFINE s == LastSlot(j)
               b == next_buddy_idx(i, j)
    <3>1. s \in Slot /\ j \in Nat /\ F \in Nat /\ F >= 2 /\ MAX_GROUP_LVLS = 3 /\ TopLvl \in 0..2
      BY Constants, TopIs
    <3>2. s[1] = MAX_GROUP_LVLS /\ s[2] = MIGRATION_UNMOVABLE /\ s[3] = j
      BY DEF LastSlot
    <3>3. ASSUME NEW k, IsKnown(cell', state', j, k)
          PROVE  IsKnown(cell, state, j, k) \/ (s = dst /\ k = last)
      <4>1. k \in ToSet(cell'[s]) /\ state'[k] = MIGRATION_UNMOVABLE
        BY <3>3 DEF IsKnown
      <4> HIDE DEF s
      <4>2. CASE k \in ToSet(cell[s]) /\ k \notin gone
        <5>1. state'[k] = state[k]
          BY <2>13, <3>1, <4>2
        <5> QED  BY <4>1, <4>2, <5>1 DEF IsKnown, s
      <4> QED  BY <2>6, <3>1, <4>1, <4>2
    <3>4. \A k : ~ (IsKnown(cell, state, j, k) /\ IsKnown(cell, state, j, next_buddy_idx(k, j)))
      <4>1. \A t \in Slot : cell[t] # <<>> => IsListType(t)
        BY DEF GroupInv, WellListed
      <4>2. IsCoalesced(cell, state)
        BY CoalescedOf DEF GroupInv
      <4>3. LastCoalesced(cell, state)
        BY <4>1, <4>2, CoalescedIs
      <4> QED  BY <4>3 DEF LastCoalesced
    <3> HIDE DEF s
    <3>5. ASSUME s = dst
          PROVE  /\ f.lvl = MAX_GROUP_LVLS /\ f.type = MIGRATION_UNMOVABLE /\ f.order + n = j
                 /\ f.index = f.order /\ f.index + n = j /\ LooksAtBuddy(f, n)
                 /\ Buddy(f, n) = next_buddy_idx(last, j)
      <4>1. f.lvl = MAX_GROUP_LVLS /\ f.type = MIGRATION_UNMOVABLE /\ f.order + n = j
        BY <2>7, <3>2, <3>5
      <4>2. f.index = f.order /\ f.index + n = j
        BY <2>1, <4>1
      <4>3. ~IsDirect(f, 0)
        BY <3>1, <4>1, TypesDiffer DEF IsDirect
      <4>4. InLoop(f, n) /\ ~IsDirect(f, n)
        <5>1. /\ \A k \in Nat : InLoop(f, k) <=> f.order + k <= F - 2
              /\ \A k \in Nat : ~IsDirect(f, k)
          BY <2>2, <4>3
        <5>2. f.order + n <= F - 2
          BY <4>1
        <5> QED  BY <2>2, <5>1, <5>2
      <4>5. Buddy(f, n) = next_buddy_idx(last, j)
        BY <4>2 DEF Buddy, last
      <4> QED  BY <4>1, <4>2, <4>4, <4>5 DEF LooksAtBuddy
    <3>6. ASSUME s = dst, NEW c, c = next_buddy_idx(last, j), IsKnown(cell, state, j, c) PROVE FALSE
      <4>1. c \in ToSet(cell[s]) /\ state[c] = MIGRATION_UNMOVABLE
        BY <3>6 DEF IsKnown, s
      <4>2. c \in Existing /\ ~present[c] /\ order[c] = j
        BY <3>1, <3>2, <4>1, BlocksOfLists
      <4>3. list_in_list(c)
        BY <3>1, <4>1 DEF list_in_list, Linked
      <4>4. Buddy(f, n) = c
        BY <3>5, <3>6
      <4> QED  BY <2>2, <3>5, <3>6, <4>1, <4>2, <4>3, <4>4 DEF CanMerge, item_is_buddy, buddy_is_valid
    <3>7. ASSUME s = dst PROVE Aligned(last, j) /\ next_buddy_idx(last, j) # last
      <4>1. PICK x \in Nat : x = f.index
        BY <2>1
      <4>2. Aligned(f.item, x) /\ f.index = x /\ x + n = j /\ f.index + n = j
        BY <2>1, <3>5, <3>7, <4>1
      <4>3. Aligned(last, x + n)
        BY <2>2, <4>1, <4>2, MergeChain DEF last
      <4>4. AreHalves(last, Buddy(f, n), Merged(f, n + 1), BIT(x + n)) /\ Merged(f, n + 1) \in Nat
            /\ BIT(x + n) \in Nat /\ BIT(x + n) >= 1
        BY <2>2, <4>1, <4>2, OneMerge DEF last
      <4>5. Buddy(f, n) = next_buddy_idx(last, j)
        BY <3>5, <3>7
      <4>6. Buddy(f, n) # last
        BY <4>4 DEF AreHalves
      <4> QED  BY <4>2, <4>3, <4>5, <4>6
    <3>8. IsKnown(cell, state, j, i) \/ (s = dst /\ i = last)
      BY <3>3
    <3>9. IsKnown(cell, state, j, b) \/ (s = dst /\ b = last)
      BY <3>3
    <3>10. CASE s = dst /\ i = last
      <4>1. b # last /\ b = next_buddy_idx(last, j)
        BY <3>7, <3>10
      <4>2. IsKnown(cell, state, j, b)
        BY <3>9, <4>1
      <4> HIDE DEF b
      <4> QED  BY <3>6, <3>10, <4>1, <4>2
    <3>11. CASE s = dst /\ b = last /\ IsKnown(cell, state, j, i)
      <4>1. i \in ToSet(cell[s])
        BY <3>11 DEF IsKnown, s
      <4>2. IsBlock(BlockIn(i, s)) /\ BlockIn(i, s).item = i /\ BlockIn(i, s).order = j
            /\ BlockIn(i, s).lvl = MAX_GROUP_LVLS /\ i \in Nat
        BY <3>1, <3>2, <4>1, BlocksOfLists DEF BlockIn
      <4>3. Aligned(i, j + FUNCTION_ITEM_LVL(3)) /\ FUNCTION_ITEM_LVL(3) = 0
        BY <3>1, <4>2, Constants, LevelShift DEF IsBlock
      <4>4. Aligned(i, j)
        BY <3>1, <4>3
      <4>5. next_buddy_idx(last, j) = i
        BY <3>1, <3>11, <4>4, BuddyTwice
      <4> QED  BY <3>6, <3>11, <4>5
    <3> QED  BY <3>4, <3>8, <3>9, <3>10, <3>11
  <2>28. Coalesced'
    <3>1. \A t \in Slot : cell'[t] # <<>> => IsListType(t)
      BY <2>6
    <3>2. IsCoalesced(cell', state')
      BY <2>27, <3>1, CoalescedIs
    <3> QED  BY <3>2, CoalescedOf
  <2>29. Fine'
    <3> SUFFICES ASSUME NEW b \in Whole', NEW x \in Int, b.lvl = MAX_GROUP_LVLS, Has(b, x)
                 PROVE  x \in LastLevelItems
      BY DEF Fine
    <3>1. \A c \in Whole : c.lvl = MAX_GROUP_LVLS /\ Has(c, x) => x \in LastLevelItems
      BY DEF GroupInv, Fine
    <3>2. CASE b = nb
      <4>1. PICK c \in Out : Has(c, x)
        BY <2>19, <3>2
      <4>2. c \in Whole
        BY <2>17, <4>1
      <4>3. c = mb \/ \E j \in 0..(n - 1) : c = BuddyBlock(f, j)
        BY <4>1
      <4>4. c.lvl = MAX_GROUP_LVLS
        BY <2>9, <3>2, <4>3 DEF BuddyBlock
      <4> QED  BY <3>1, <4>1, <4>2, <4>4
    <3> HIDE DEF Out
    <3> QED  BY <2>17, <3>1, <3>2
  <2> QED  BY <2>14, <2>20, <2>21, <2>22, <2>23, <2>24, <2>25, <2>26, <2>28, <2>29 DEF GroupInv
<1> QED  BY <1>2, <1>3

(***************************************************************************)
(* The theorems.                                                           *)
(***************************************************************************)
LEMMA StepKeeps ==
    ASSUME AlignedGrowth, PlainRequests, GroupInv, [Next]_vars
    PROVE  GroupInv'
<1>1. CASE UNCHANGED vars
  BY <1>1, InvKept
<1>2. ASSUME NEW r \in Requests,
             \/ dispatch_group(r.lvl, r.type, r.order)
             \/ migrate_group(r.lvl, r.type, r.order)
             \/ dispatch_crosses_level(r.lvl, r.type, r.order)
      PROVE  GroupInv'
  BY <1>2, RequestsAsk, AsksKeep DEF Asks
<1>3. ASSUME NEW b \in held, dequeue_group_migration(b) PROVE GroupInv'
  BY <1>3, DequeueKeeps
<1>4. CASE free_group_migration
  BY <1>4, FreeKeeps
<1>5. CASE update_pnode
  BY <1>5, UpdateKeeps
<1>6. ASSUME NEW b \in held, dequeue_group_sparse(b) PROVE GroupInv'
  <2>1. fault' = TRUE /\ UNCHANGED <<grown, lists, descriptors, holders, freeing>>
    BY <1>6 DEF dequeue_group_sparse
  <2> QED  BY <2>1, FaultKeeps
<1> QED  BY <1>1, <1>2, <1>3, <1>4, <1>5, <1>6 DEF Next

\* In every state that can be reached the listed blocks, the blocks that are
\* out and the one being freed cover the node's descriptors, each once, and the
\* lists, the counts and the descriptors agree on them.
THEOREM GroupInvariant ==
    ASSUME AlignedGrowth, PlainRequests
    PROVE  Spec => []GroupInv
<1>1. Init => GroupInv
  BY InitInv
<1>2. GroupInv /\ [Next]_vars => GroupInv'
  BY StepKeeps
<1> QED  BY <1>1, <1>2, PTL DEF Spec

\* The state variables keep their types: no list ever holds an item that is not
\* a descriptor, no descriptor an order beyond MAX_ITEM_ORDER, and no owner is
\* counted below zero.
THEOREM GroupTypes ==
    ASSUME AlignedGrowth, PlainRequests
    PROVE  Spec => []TypeOK
<1>1. GroupInv => TypeOK
  BY DEF GroupInv
<1> QED  BY <1>1, GroupInvariant, PTL

\* No descriptor is ever in two blocks, listed or held, and no block reaches
\* beyond the descriptors there are: remove_group_migration and
\* free_group_migration cut and join the same ranges.
THEOREM GroupDisjoint ==
    ASSUME AlignedGrowth, PlainRequests
    PROVE  Spec => []BlocksDisjoint
<1>1. GroupInv => BlocksDisjoint
  BY InvDisjoint
<1> QED  BY <1>1, GroupInvariant, PTL

\* Between calls every item is listed or held: no split or merge forgets one.
THEOREM GroupNothingLost ==
    ASSUME AlignedGrowth, PlainRequests
    PROVE  Spec => []NothingLost
<1>1. GroupInv => NothingLost
  BY InvNothingLost
<1> QED  BY <1>1, GroupInvariant, PTL

\* GROUP_CELLCOUNT is the length of its list whenever no free is running.
THEOREM GroupCounts ==
    ASSUME AlignedGrowth, PlainRequests
    PROVE  Spec => []CountsExact
<1>1. GroupInv => CountsExact
  BY InvCounts
<1> QED  BY <1>1, GroupInvariant, PTL

\* A held block's descriptor says what dequeue_group_migration will read of it.
THEOREM GroupHeldIntact ==
    ASSUME AlignedGrowth, PlainRequests
    PROVE  Spec => []HeldIntact
<1>1. GroupInv => HeldIntact
  BY InvHeld
<1> QED  BY <1>1, GroupInvariant, PTL

\* No list of cached items holds a block that would have to be split.
THEOREM GroupCached ==
    ASSUME AlignedGrowth, PlainRequests
    PROVE  Spec => []CachedAreSingle
<1>1. GroupInv => CachedAreSingle
  BY InvCached
<1> QED  BY <1>1, GroupInvariant, PTL

\* Two UNMOVABLE blocks whose descriptors say so are never both listed as each
\* other's buddies: free_group_migration merges what it can tell, and what a split
\* or a merge lists beside them has its state cleared.
THEOREM GroupCoalesced ==
    ASSUME AlignedGrowth, PlainRequests
    PROVE  Spec => []Coalesced
<1>1. GroupInv => Coalesced
  BY DEF GroupInv
<1> QED  BY <1>1, GroupInvariant, PTL

(***************************************************************************)
(* The promise to the callers, step by step.                               *)
(***************************************************************************)
PoolBlocks ==
    {b \in {Span(i, l, o) : i \in Item, l \in Lvl, o \in Order} : b \subseteq Item}

\* Block hb, of level l and order o, is handed out; no caller had any of it.
HandsOut(hb, l, o) ==
    /\ hb \in Held /\ hb.lvl = l /\ hb.order = o
    /\ hb \notin held /\ held' = held \cup {hb}
    /\ IsBlock(BlockOf(hb)) /\ SpanOf(hb) \subseteq Existing
    /\ \A i \in SpanOf(hb) : owners[i] = 0
    /\ owners' = [i \in Item |-> IF i \in SpanOf(hb) THEN 1 ELSE owners[i]]

LEMMA TakingIs ==
    ASSUME AlignedGrowth, GroupInv, freeing = NoFree,
           NEW l \in Lvl, NEW t \in MigrationType, NEW o \in Order,
           NEW mark \in MigrationType, NEW asked \in MigrationType,
           CanRemove(l, t, o), Plain(l, t, o),
           mark = MIGRATION_MOVABLE \/ Plain(l, mark, o),
           remove_group_migration(l, t, o, mark, asked),
           UNCHANGED <<grown, freeing>>
    PROVE  HandsOut(Taken(l, t, o, asked), l, o) /\ fault' = fault
<1> DEFINE k == Min(Fits(l, t, o))
           item == Head(cell[<<l, t, k>>])
           half == Halves(item, l, t, o, k)
           halves == {half[j] : j \in DOMAIN half}
           hb == [item |-> item, lvl |-> l, order |-> o, type |-> asked]
           b == Span(item, l, o)
<1>1. GroupInv'
  BY RemoveKeeps
<1>2. /\ held' = held \cup {hb}
      /\ owners' = [i \in Item |-> owners[i] + IF i \in b THEN 1 ELSE 0]
      /\ fault' = fault
  <2>1. split_group_migration(item, half, halves, l, t, o, k, mark, asked)
    BY DEF remove_group_migration
  <2>2. IsSource(l, t, o, k)
    BY FitIs
  <2>3. halves \subseteq Existing
    <3> HIDE DEF k
    <3>1. DOMAIN half = o..(k - 1) /\ \A j \in o..(k - 1) : half[j] \in Existing
      BY <2>2, TakenIs
    <3> QED  BY <3>1
  <2> QED  BY <2>1, <2>3 DEF split_group_migration
<1>3. hb \in held' /\ hb.item = item /\ hb.lvl = l /\ hb.order = o /\ SpanOf(hb) = b
  BY <1>2 DEF SpanOf
<1>13. hb \in Held
  BY <1>1, <1>3 DEF GroupInv, TypeOK
<1>14. hb = Taken(l, t, o, asked)
  BY DEF Taken
<1> HIDE DEF hb
<1>4. BlockOf(hb) \in Whole'
  BY <1>3 DEF Whole, InUse, BlockOf
<1>5. IsBlock(BlockOf(hb)) /\ \A x \in Int : Has(BlockOf(hb), x) => 0 <= x /\ x < ItemsAfter[grown]
  BY <1>1, <1>4 DEF GroupInv, Tiled, Tiles
<1>6. \A x : x \in b <=> x \in Int /\ Has(hb, x)
  BY <1>3, <1>5, SpanIs
<1> HIDE DEF b
<1>7. \A x : Has(BlockOf(hb), x) <=> Has(hb, x)
  BY DEF Has, BlockOf
<1>8. b \subseteq Item /\ b \subseteq Existing
  BY <1>5, <1>6, <1>7, GrownIs DEF GroupInv
<1>9. ASSUME NEW i \in b PROVE owners[i] = 0 /\ owners'[i] = 1
  <2>1. i \in Item /\ Has(hb, i)
    BY <1>6, <1>8
  <2>2. owners'[i] = 1
    BY <1>1, <1>3, <2>1 DEF GroupInv, OwnersExact
  <2>3. owners[i] \in Nat
    BY <2>1 DEF GroupInv, TypeOK
  <2>4. owners'[i] = owners[i] + 1
    BY <1>2, <2>1
  <2> QED  BY <2>2, <2>3, <2>4
<1>10. owners' = [i \in Item |-> IF i \in b THEN 1 ELSE owners[i]]
  <2>1. ASSUME NEW i \in Item PROVE owners'[i] = IF i \in b THEN 1 ELSE owners[i]
    <3>1. owners[i] \in Nat
      BY DEF GroupInv, TypeOK
    <3>2. i \notin b => owners'[i] = owners[i] + 0
      BY <1>2
    <3> QED  BY <1>9, <3>1, <3>2
  <2> QED  BY <1>2, <2>1
<1>11. hb \notin held
  <2> SUFFICES ASSUME hb \in held PROVE FALSE
    OBVIOUS
  <2>1. hb.item \in Item /\ Has(hb, hb.item)
    BY HeldIs
  <2>2. owners[hb.item] = 1
    BY <2>1 DEF GroupInv, OwnersExact
  <2>3. hb.item \in b
    BY <1>6, <2>1, ItemIs
  <2> QED  BY <1>9, <2>2, <2>3
<1>12. HandsOut(hb, l, o)
  BY <1>2, <1>3, <1>5, <1>8, <1>9, <1>10, <1>11, <1>13 DEF HandsOut
<1> QED  BY <1>2, <1>12, <1>14

\* The step of a request that is served.
LEMMA ServedIs ==
    ASSUME AlignedGrowth, GroupInv,
           NEW l \in Lvl, NEW t \in MigrationType, NEW o \in Order, Plain(l, t, o),
           dispatch_group(l, t, o) \/ migrate_group(l, t, o)
    PROVE  /\ dispatch_group(l, t, o) => HandsOut(Taken(l, t, o, t), l, o)
           /\ migrate_group(l, t, o) => HandsOut(Taken(l, MIGRATION_MOVABLE, o, t), l, o)
           /\ UNCHANGED <<grown, freeing, fault>>
<1>1. Plain(l, MIGRATION_MOVABLE, o)
  BY PlainIs
<1>2. ASSUME dispatch_group(l, t, o)
      PROVE  HandsOut(Taken(l, t, o, t), l, o) /\ UNCHANGED <<grown, freeing, fault>>
  <2>1. /\ freeing = NoFree /\ CanRemove(l, t, o)
        /\ remove_group_migration(l, t, o, MIGRATION_MOVABLE, t)
        /\ UNCHANGED <<grown, freeing>>
    BY <1>2 DEF dispatch_group
  <2> QED  BY <2>1, TypesDiffer, TakingIs
<1>3. ASSUME migrate_group(l, t, o)
      PROVE  HandsOut(Taken(l, MIGRATION_MOVABLE, o, t), l, o) /\ UNCHANGED <<grown, freeing, fault>>
  <2>1. /\ freeing = NoFree
        /\ CanRemove(l, MIGRATION_MOVABLE, o)
        /\ remove_group_migration(l, MIGRATION_MOVABLE, o, t, t)
        /\ UNCHANGED <<grown, freeing>>
    BY <1>3 DEF migrate_group
  <2> QED  BY <1>1, <2>1, TypesDiffer, TakingIs
<1> QED  BY <1>2, <1>3

LEMMA HandsOutGrants ==
    ASSUME AlignedGrowth, GroupInv, NEW hb, NEW l \in Lvl, NEW o \in Order, HandsOut(hb, l, o)
    PROVE  \E b \in PoolBlocks : Pool!Grant(b)
<1> DEFINE b == SpanOf(hb)
<1>1. /\ hb.item \in Item /\ hb.lvl = l /\ hb.order = o
      /\ b \subseteq Existing
      /\ \A i \in b : owners[i] = 0
      /\ owners' = [i \in Item |-> IF i \in b THEN 1 ELSE owners[i]]
  BY DEF HandsOut, Held
<1>2. b = Span(hb.item, l, o)
  BY <1>1 DEF SpanOf
<1>3. b \subseteq Item
  BY <1>1, GrownIs DEF GroupInv
<1> HIDE DEF b
<1>4. b \in PoolBlocks
  BY <1>1, <1>2, <1>3 DEF PoolBlocks
<1>5. Pool!Grant(b)
  BY <1>1 DEF Pool!Grant
<1> QED  BY <1>4, <1>5

LEMMA AsksGrant ==
    ASSUME AlignedGrowth, GroupInv,
           NEW l \in Lvl, NEW t \in MigrationType, NEW o \in Order, Plain(l, t, o), Asks(l, t, o)
    PROVE  (\E b \in PoolBlocks : Pool!Grant(b)) \/ owners' = owners
<1>1. CASE dispatch_group(l, t, o) \/ migrate_group(l, t, o)
  <2>1. PICK hb : HandsOut(hb, l, o)
    BY <1>1, ServedIs
  <2> QED  BY <2>1, HandsOutGrants
<1>2. CASE dispatch_crosses_level(l, t, o)
  BY <1>2 DEF dispatch_crosses_level, holders
<1> QED  BY <1>1, <1>2 DEF Asks

\* What a caller gives back, nobody has any more.
LEMMA GivenBack ==
    ASSUME AlignedGrowth, GroupInv, NEW b \in held, dequeue_group_migration(b)
    PROVE  /\ SpanOf(b) \subseteq Existing /\ SpanOf(b) \subseteq Item
           /\ \A i \in SpanOf(b) : owners[i] = 1
           /\ owners' = [i \in Item |-> IF i \in SpanOf(b) THEN 0 ELSE owners[i]]
<1> DEFINE run == SpanOf(b)
<1>1. owners' = [i \in Item |-> owners[i] - IF i \in run THEN 1 ELSE 0]
  BY DEF dequeue_group_migration
<1>2. BlockOf(b) \in Whole /\ IsBlock(BlockOf(b)) /\ \A x : Has(BlockOf(b), x) <=> Has(b, x)
  BY HeldIs
<1>3. \A x : x \in run <=> x \in Int /\ Has(b, x)
  BY <1>2, SpanIs
<1> HIDE DEF run
<1>4. run \subseteq Item /\ run \subseteq Existing
  BY <1>2, <1>3, GrownIs DEF GroupInv, Tiled, Tiles
<1>5. ASSUME NEW i \in run PROVE owners[i] = 1
  BY <1>3, <1>4 DEF GroupInv, OwnersExact
<1>6. owners' = [i \in Item |-> IF i \in run THEN 0 ELSE owners[i]]
  <2>1. ASSUME NEW i \in Item PROVE owners'[i] = IF i \in run THEN 0 ELSE owners[i]
    <3>1. owners[i] \in Nat
      BY DEF GroupInv, TypeOK
    <3> QED  BY <1>1, <1>5, <3>1
  <2> QED  BY <1>1, <2>1
<1> QED  BY <1>4, <1>5, <1>6 DEF run

LEMMA DequeueReturns ==
    ASSUME AlignedGrowth, GroupInv, NEW b \in held, dequeue_group_migration(b)
    PROVE  \E run \in PoolBlocks : Pool!Return(run)
<1> DEFINE run == SpanOf(b)
<1>1. /\ run \subseteq Item /\ \A i \in run : owners[i] = 1
      /\ owners' = [i \in Item |-> IF i \in run THEN 0 ELSE owners[i]]
  BY GivenBack
<1>2. run = Span(b.item, b.lvl, b.order) /\ b.item \in Item /\ b.lvl \in Lvl /\ b.order \in Order
  BY HeldIs DEF SpanOf
<1> HIDE DEF run
<1>3. run \in PoolBlocks
  BY <1>1, <1>2 DEF PoolBlocks
<1> QED  BY <1>1, <1>3 DEF Pool!Return

LEMMA StepServesPool ==
    ASSUME AlignedGrowth, PlainRequests, GroupInv, [Next]_vars
    PROVE  [Pool!NextPool]_owners
<1>1. \A b \in PoolBlocks : Pool!Grant(b) \/ Pool!Return(b) => Pool!NextPool
  BY DEF Pool!NextPool, PoolBlocks
<1>2. CASE UNCHANGED vars
  BY <1>2 DEF vars, holders
<1>3. ASSUME NEW r \in Requests,
             \/ dispatch_group(r.lvl, r.type, r.order)
             \/ migrate_group(r.lvl, r.type, r.order)
             \/ dispatch_crosses_level(r.lvl, r.type, r.order)
      PROVE  [Pool!NextPool]_owners
  BY <1>1, <1>3, RequestsAsk, AsksGrant DEF Asks
<1>4. ASSUME NEW b \in held, dequeue_group_migration(b) PROVE [Pool!NextPool]_owners
  BY <1>1, <1>4, DequeueReturns
<1>5. CASE free_group_migration
  BY <1>5 DEF free_group_migration, holders
<1>6. CASE update_pnode
  BY <1>6 DEF update_pnode, holders
<1>7. ASSUME NEW b \in held, dequeue_group_sparse(b) PROVE [Pool!NextPool]_owners
  BY <1>7 DEF dequeue_group_sparse, holders
<1> QED  BY <1>2, <1>3, <1>4, <1>5, <1>6, <1>7 DEF Next

\* The lists implement the pool of items: a block is handed out only when nobody
\* has any of its items, and what is given back is what had been handed out.
THEOREM GroupServesPool ==
    ASSUME AlignedGrowth, PlainRequests
    PROVE  Spec => RefinesPool
<1>1. Init => Pool!InitPool
  BY DEF Init, Pool!InitPool
<1>2. GroupInv /\ [Next]_vars => [Pool!NextPool]_owners
  BY StepServesPool
<1> QED  BY <1>1, <1>2, GroupInvariant, PTL DEF Spec, RefinesPool, Pool!SpecPool

(***************************************************************************)
(* The node's callers.                                                     *)
(***************************************************************************)
CallerFlags == {"RESERVED", "DEBUG", "DCONT", "OBJECT"}

Request(n, flags) ==
    find_group(psize(n, flags), FirstLvl(TypeFor(n, flags)), IsCombined(n, flags))

\* What find_group had asked for when it got the blocks of q.
Placed(q) == [i \in 1..Len(q) |-> [lvl |-> q[i].lvl, order |-> q[i].order]]

\* One block for all, of a power of two.
IsSingle(n, flags) == ~IsCombined(n, flags) => \E p \in 0..MaxShift : psize(n, flags) = BIT(p)

\* Call c is for n items, and its blocks are those of the request.
Serves(c, n, flags) ==
    /\ PlainCall(n, flags) /\ IsSingle(n, flags)
    /\ c.type = TypeFor(n, flags) /\ c.is_combined = IsCombined(n, flags)
    /\ (n - 1) * FIXED_ITEM_SIZE < c.bytes /\ c.bytes <= n * FIXED_ITEM_SIZE
    /\ Placed(c.got) \o c.todo = Request(n, flags)

CallServes ==
    call # NoCall =>
        /\ ToSet(call.got) \subseteq held
        /\ \E n \in 1..BIT(MaxShift), flags \in CallerFlags : Serves(call, n, flags)

\* The items nobody has.
Unowned == {x \in Existing : owners[x] = 0}

\* The items of the block in free_group_migration's hands that will be counted.
InTransit == IF freeing = NoFree THEN 0 ELSE FreedItems(freeing)

Counted == nr_freeitems + drift + InTransit = Cardinality(Unowned)

NodeInv ==
    /\ GroupInv /\ TypeOKNode
    /\ freeing # NoFree => call = NoCall
    /\ CallServes /\ Counted

(***************************************************************************)
(* A caller's request.                                                     *)
(***************************************************************************)
PlacedBlock == [lvl : Lvl, order : Order]

LEMMA NodeConstants ==
    /\ FIXED_ITEM_SIZE \in Nat /\ FIXED_ITEM_SIZE >= 1
    /\ TopLvl \in 0..3
    /\ \A t : FirstLvl(t) \in 0..3
    /\ BIT(MaxShift) \in Nat /\ BIT(MaxShift + 1) = 2 * BIT(MaxShift) /\ BIT(MaxShift) >= 1
<1>1. FIXED_ITEM_SIZE \in Nat /\ FIXED_ITEM_SIZE >= 1
  BY NodeGroupsAssumption
<1>2. TopLvl \in 0..3
  BY FreeGroupAssumption DEF MAX_GROUP_LVLS
<1>3. MaxShift \in Nat
  BY DEF MaxShift
<1>4. BIT(MaxShift) \in Nat /\ BIT(MaxShift + 1) = 2 * BIT(MaxShift) /\ BIT(MaxShift) >= 1
  BY <1>3, BitPositive, BitDoubles
<1>5. \A t : FirstLvl(t) \in 0..3
  BY <1>2 DEF FirstLvl
<1> QED  BY <1>1, <1>2, <1>4, <1>5

\* The size a request is rounded up to.
LEMMA PsizeIs ==
    ASSUME NEW n \in 1..BIT(MaxShift), NEW flags \in CallerFlags, IsSingle(n, flags)
    PROVE  /\ psize(n, flags) \in 1..BIT(MaxShift)
           /\ n <= psize(n, flags) /\ psize(n, flags) < 2 * n
           /\ IsCombined(n, flags) => psize(n, flags) = n
<1>1. n \in Nat /\ n >= 1 /\ n <= BIT(MaxShift) /\ BIT(MaxShift) \in Nat
  BY NodeConstants
<1>2. CASE flags = "OBJECT"
  <2> DEFINE o == item_to_order(n)
  <2>1. o \in 0..MaxShift /\ n <= BIT(o) /\ BIT(o) < 2 * n
    BY OrderIs
  <2> HIDE DEF o
  <2>2. o \in Nat /\ MaxShift \in Nat /\ o <= MaxShift
    BY <2>1 DEF MaxShift
  <2>3. BIT(o) \in Nat /\ BIT(o) <= BIT(MaxShift)
    BY <2>2, BitPositive, BitMonotone
  <2>4. psize(n, flags) = BIT(o) /\ ~IsCombined(n, flags)
    BY <1>2 DEF psize, IsCombined, o
  <2> QED  BY <1>1, <2>1, <2>3, <2>4
<1>3. CASE flags # "OBJECT"
  <2>1. psize(n, flags) = n
    BY <1>3 DEF psize
  <2> QED  BY <1>1, <2>1
<1> QED  BY <1>2, <1>3

\* What a request is made of.
IsRequest(q, n, flags) ==
    /\ q \in Seq(PlacedBlock) /\ Len(q) >= 1
    /\ \A i \in 1..Len(q) : Plain(q[i].lvl, TypeFor(n, flags), q[i].order)
    /\ SumsTo(q, psize(n, flags)) /\ FallsInSize(q)
    /\ ~IsCombined(n, flags) => Len(q) = 1

LEMMA RequestIs ==
    ASSUME NEW n \in 1..BIT(MaxShift), NEW flags \in CallerFlags, IsSingle(n, flags),
           PlainCall(n, flags)
    PROVE  IsRequest(Request(n, flags), n, flags)
<1> DEFINE q == Request(n, flags)
           m == psize(n, flags)
           first == FirstLvl(TypeFor(n, flags))
           X == BlocksFrom(first)
<1>1. m \in 1..BIT(MaxShift) /\ m \in Nat /\ m >= 1 /\ m \in 1..(BIT(MaxShift + 1) - 1)
      /\ first \in 0..3
  <2>1. m \in 1..BIT(MaxShift)
    BY PsizeIs
  <2> HIDE DEF m, first
  <2>2. m \in Nat /\ m >= 1 /\ m \in 1..(BIT(MaxShift + 1) - 1)
    BY <2>1, NodeConstants
  <2> QED  BY <2>1, <2>2, NodeConstants DEF first
<1>2. Cuts(q, X, m, 1) /\ (~IsCombined(n, flags) => Len(q) = 1)
  <2>1. CASE IsCombined(n, flags)
    <3>1. IsCombined(n, flags) = TRUE
      BY <2>1 DEF IsCombined
    <3>2. q = find_group(m, first, TRUE)
      BY <3>1 DEF Request
    <3> HIDE DEF q, m, first
    <3> QED  BY <1>1, <2>1, <3>2, CombinedRequest
  <2>2. CASE ~IsCombined(n, flags)
    <3>1. IsCombined(n, flags) = FALSE
      BY <2>2 DEF IsCombined
    <3>2. q = find_group(m, first, FALSE)
      BY <3>1 DEF Request
    <3>3. PICK p \in 0..MaxShift : m = BIT(p)
      BY <2>2 DEF IsSingle
    <3> HIDE DEF q, m, first
    <3> QED  BY <1>1, <3>2, <3>3, SingleRequest
  <2> QED  BY <2>1, <2>2
<1>3. \A b \in ToSet(q) : /\ b.lvl \in Lvl /\ b.order \in Order
                          /\ Plain(b.lvl, TypeFor(n, flags), b.order)
  BY DEF PlainCall, Request
<1> HIDE DEF q, m, first
<1>4. q \in Seq(X) /\ Len(q) \in Nat
  <2>1. q \in Seq(X)
    BY <1>2 DEF Cuts
  <2> QED  BY <2>1
<1>5. ASSUME NEW i \in 1..Len(q)
      PROVE  q[i] \in PlacedBlock /\ Plain(q[i].lvl, TypeFor(n, flags), q[i].order)
  <2>1. q[i] \in X /\ q[i] \in ToSet(q)
    <3>1. DOMAIN q = 1..Len(q) /\ q[i] \in X
      BY <1>4
    <3> QED  BY <3>1 DEF ToSet
  <2>2. q[i] = [lvl |-> q[i].lvl, order |-> q[i].order]
    BY <2>1 DEF BlocksFrom, LevelBlock
  <2> QED  BY <1>3, <2>1, <2>2 DEF PlacedBlock
<1>6. q \in Seq(PlacedBlock)
  <2>1. q = [i \in 1..Len(q) |-> q[i]]
    BY <1>4
  <2> QED  BY <1>4, <1>5, <2>1
<1>7. SumsTo(q, m) /\ FallsInSize(q)
  BY <1>2 DEF Cuts
<1>8. Len(q) # 0
  <2> SUFFICES ASSUME Len(q) = 0 PROVE FALSE
    OBVIOUS
  <2>1. PICK g : RunsAlong(g, q) /\ g[Len(q)] = m
    BY <1>7 DEF SumsTo
  <2>2. g[0] = 0
    BY <2>1 DEF RunsAlong
  <2> QED  BY <1>1, <2>1, <2>2
<1>9. Len(q) >= 1
  <2>1. \A c \in Nat : c # 0 => c >= 1
    OBVIOUS
  <2> QED  BY <1>4, <1>8, <2>1, Zenon
<1>10. IsRequest(q, n, flags)
  BY <1>2, <1>5, <1>6, <1>7, <1>9 DEF IsRequest, m
<1> QED  BY <1>10 DEF q

(***************************************************************************)
(* The folds.                                                              *)
(***************************************************************************)

\* attr.nr_freeitems of the first growths.
IsStartSum(g, S) ==
    g = [s \in SUBSET S |->
           IF s = {} THEN 0
           ELSE Sizes[CHOOSE x \in s : TRUE] + g[s \ {CHOOSE x \in s : TRUE}]]

LEMMA StartSumIs ==
    MapThenSumSet(LAMBDA k : Sizes[k], 1..AtStart) = (CHOOSE g : IsStartSum(g, 1..AtStart))[1..AtStart]
BY DEF MapThenSumSet, MapThenFoldSet, IsStartSum

LEMMA StartSum ==
    ASSUME AlignedGrowth
    PROVE  MapThenSumSet(LAMBDA k : Sizes[k], 1..AtStart) = ItemsAfter[AtStart]
<1> DEFINE n == AtStart
           S == 1..n
           w == [i \in S |-> Sizes[i]]
           r == [i \in 0..n |-> ItemsAfter[i]]
           g == CHOOSE x : IsStartSum(x, S)
           picked(s) == CHOOSE x \in s : TRUE
<1>1. n \in Nat /\ n \in 1..Len(Sizes) /\ IsFiniteSet(S)
  <2>1. n \in 1..Len(Sizes) /\ Len(Sizes) \in Nat
    BY FreeGroupAssumption, Growth
  <2>2. 1 \in Int /\ n \in Int
    BY <2>1
  <2> QED  BY <2>1, <2>2, FS_Interval
<1>2. RunsOver(r, n, w)
  <2>1. \A i \in 0..n : i \in 0..Len(Sizes) /\ r[i] = ItemsAfter[i] /\ r[i] \in Nat
    BY <1>1, Growth
  <2>2. ASSUME NEW i \in 1..n PROVE w[i] \in Nat /\ r[i] = r[i - 1] + w[i]
    <3>1. i \in 1..Len(Sizes) /\ i \in 0..n /\ i - 1 \in 0..n
      BY <1>1
    <3>2. ItemsAfter[i] = ItemsAfter[i - 1] + Sizes[i]
      BY <3>1, Growth
    <3>3. Sizes[i] \in Nat
      BY <3>1, FreeGroupAssumption
    <3> QED  BY <2>1, <3>1, <3>2, <3>3
  <2>3. r[0] = 0 /\ r \in [0..n -> Nat]
    BY <1>1, <2>1, Growth
  <2> HIDE DEF r, w
  <2> QED  BY <2>2, <2>3 DEF RunsOver
<1>3. \A i \in S : w[i] = Sizes[i]
  OBVIOUS
<1>4. PICK m : IsAdditive(m, S, w) /\ m[S] = r[n]
  <2> HIDE DEF w, r, n
  <2> QED  BY <1>1, <1>2, RunsAdd
<1>5. r[n] = ItemsAfter[AtStart]
  BY <1>1
<1> HIDE DEF w, r
<1>6. ASSUME NEW s \in SUBSET S, s # {} PROVE picked(s) \in s
  BY <1>6
<1>7. IsStartSum(m, S)
  <2> DEFINE value(s) == IF s = {} THEN 0 ELSE Sizes[picked(s)] + m[s \ {picked(s)}]
  <2>1. ASSUME NEW s \in SUBSET S PROVE m[s] = value(s)
    <3>1. CASE s = {}
      BY <1>4, <3>1 DEF IsAdditive
    <3>2. CASE s # {}
      <4>1. picked(s) \in s /\ picked(s) \in S
        BY <1>6, <3>2
      <4> HIDE DEF picked, S
      <4>2. m[s] = w[picked(s)] + m[s \ {picked(s)}]
        BY <1>4, <4>1 DEF IsAdditive
      <4> QED  BY <1>3, <3>2, <4>1, <4>2
    <3> QED  BY <3>1, <3>2
  <2>2. m = [s \in SUBSET S |-> m[s]]
    <3> HIDE DEF S
    <3> QED  BY <1>4 DEF IsAdditive
  <2>3. m = [s \in SUBSET S |-> value(s)]
    <3> HIDE DEF value, S
    <3> QED  BY <2>1, <2>2
  <2> QED  BY <2>3 DEF IsStartSum
<1>8. IsStartSum(g, S)
  BY <1>7
<1> HIDE DEF g
<1>9. IsFold(g, S, w)
  <2>1. g[{}] = 0
    <3>1. {} \in SUBSET S
      OBVIOUS
    <3> QED  BY <1>8, <3>1 DEF IsStartSum
  <2>2. ASSUME NEW s \in SUBSET S, s # {} PROVE \E x \in s : g[s] = w[x] + g[s \ {x}]
    <3>1. picked(s) \in s /\ picked(s) \in S
      BY <1>6, <2>2
    <3>2. g[s] = Sizes[picked(s)] + g[s \ {picked(s)}]
      <4> HIDE DEF S
      <4> QED  BY <1>8, <2>2 DEF IsStartSum
    <3> HIDE DEF picked
    <3> QED  BY <1>3, <3>1, <3>2
  <2> QED  BY <2>1, <2>2 DEF IsFold
<1>10. g[S] = m[S]
  <2> HIDE DEF S
  <2> QED  BY <1>1, <1>4, <1>9, FoldIs
<1> QED  BY <1>4, <1>5, <1>10, StartSumIs DEF g

\* The items of a list of blocks, the last one first.
IsGotSum(g, q) ==
    g = [s \in SUBSET DOMAIN q |->
           IF s = {} THEN 0
           ELSE g[s \ {Max(s)}] + BlockItems(q[Max(s)].lvl, q[Max(s)].order)]

GotItems(q) == FoldLeft(LAMBDA sum, b : sum + BlockItems(b.lvl, b.order), 0, q)

LEMMA GotSumIs ==
    ASSUME NEW q
    PROVE  GotItems(q) = (CHOOSE g : IsGotSum(g, q))[DOMAIN q]
BY DEF GotItems, FoldLeft, MapThenFoldSet, IsGotSum

LEMMA GotSum ==
    ASSUME NEW q, NEW t, Len(q) \in Nat, DOMAIN q = 1..Len(q), SumsTo(q, t),
           \A i \in 1..Len(q) : ItemsOf(q[i]) \in Nat
    PROVE  GotItems(q) = t
<1> DEFINE n == Len(q)
           S == 1..n
           w == [i \in S |-> ItemsOf(q[i])]
           g == CHOOSE x : IsGotSum(x, q)
<1>1. PICK r : RunsAlong(r, q) /\ r[n] = t
  BY DEF SumsTo
<1>2. n \in Nat /\ IsFiniteSet(S)
  <2>1. 1 \in Int /\ n \in Int
    OBVIOUS
  <2> QED  BY <2>1, FS_Interval
<1>3. \A i \in S : w[i] = ItemsOf(q[i]) /\ w[i] \in Nat
  OBVIOUS
<1> HIDE DEF w
<1>4. RunsOver(r, n, w)
  BY <1>1, <1>3 DEF RunsOver, RunsAlong
<1>5. DOMAIN q = S
  OBVIOUS
<1> HIDE DEF n
<1>6. PICK m : IsAdditive(m, S, w) /\ m[S] = r[n]
  BY <1>2, <1>4, RunsAdd
<1>7. ASSUME NEW s \in SUBSET S, s # {} PROVE Max(s) \in s /\ Max(s) \in S
  BY <1>2, <1>7, GreatestIn
<1> HIDE DEF S
<1>8. IsGotSum(m, q)
  <2> DEFINE value(s) == IF s = {} THEN 0
                         ELSE m[s \ {Max(s)}] + BlockItems(q[Max(s)].lvl, q[Max(s)].order)
  <2>1. ASSUME NEW s \in SUBSET S PROVE m[s] = value(s)
    <3>1. CASE s = {}
      BY <1>6, <3>1 DEF IsAdditive
    <3>2. CASE s # {}
      <4>1. Max(s) \in s /\ Max(s) \in S
        BY <1>7, <3>2
      <4> DEFINE x == Max(s)
      <4> HIDE DEF x
      <4>2. x \in s /\ x \in S
        BY <4>1 DEF x
      <4>3. m[s] = w[x] + m[s \ {x}]
        BY <1>6, <4>2 DEF IsAdditive
      <4>4. m[s \ {x}] \in Nat
        <5>1. s \ {x} \in SUBSET S
          OBVIOUS
        <5> QED  BY <1>6, <5>1 DEF IsAdditive
      <4>5. w[x] = BlockItems(q[x].lvl, q[x].order) /\ w[x] \in Nat
        BY <1>3, <4>2 DEF ItemsOf
      <4>6. m[s] = m[s \ {x}] + BlockItems(q[x].lvl, q[x].order)
        BY <4>3, <4>4, <4>5
      <4> QED  BY <3>2, <4>6 DEF x
    <3> QED  BY <3>1, <3>2
  <2>2. m = [s \in SUBSET S |-> m[s]]
    BY <1>6 DEF IsAdditive
  <2>3. m = [s \in SUBSET S |-> value(s)]
    <3> HIDE DEF value
    <3> QED  BY <2>1, <2>2
  <2> QED  BY <1>5, <2>3 DEF IsGotSum
<1>9. IsGotSum(g, q)
  BY <1>8
<1> HIDE DEF g
<1>10. \A s \in SUBSET S :
         g[s] = IF s = {} THEN 0
                ELSE g[s \ {Max(s)}] + BlockItems(q[Max(s)].lvl, q[Max(s)].order)
  BY <1>5, <1>9 DEF IsGotSum
<1> DEFINE N == {k \in Nat : k <= n => g[1..k] = r[k]}
<1>11. 0 \in N
  <2>1. 1..0 = {} /\ {} \in SUBSET S
    OBVIOUS
  <2>2. g[{}] = 0
    BY <1>10, <2>1
  <2> QED  BY <1>1, <2>1, <2>2 DEF RunsAlong
<1>12. ASSUME NEW k \in Nat, k \in N PROVE k + 1 \in N
  <2> SUFFICES ASSUME k + 1 <= n PROVE g[1..(k + 1)] = r[k + 1]
    OBVIOUS
  <2> DEFINE i == k + 1
             s == 1..i
  <2>1. i \in s /\ s \in SUBSET S /\ s \ {i} = 1..k /\ i \in 1..n /\ i - 1 = k /\ s # {}
    <3>1. n \in Nat /\ i \in 1..n /\ i - 1 = k /\ i \in s
      BY <1>2
    <3>2. s \in SUBSET (1..n)
      BY <3>1
    <3>3. s \ {i} = 1..k
      OBVIOUS
    <3> QED  BY <3>1, <3>2, <3>3 DEF S
  <2>2. g[1..k] = r[k]
    BY <1>2, <1>12
  <2>3. Max(s) = i
    <3>1. Max(s) \in s
      BY <1>7, <2>1
    <3>2. i \in s /\ \A y \in s : i >= y
      BY <2>1
    <3>3. \A y \in s : Max(s) >= y
      BY <3>2 DEF Max
    <3>4. \A y \in s : y \in Nat
      OBVIOUS
    <3> HIDE DEF s
    <3> DEFINE x == Max(s)
    <3>5. x >= i /\ i >= x /\ x \in Nat /\ i \in Nat
      BY <3>1, <3>2, <3>3, <3>4
    <3> HIDE DEF x
    <3>6. x = i
      BY <3>5
    <3> QED  BY <3>6 DEF x
  <2>4. g[s] = g[1..k] + BlockItems(q[i].lvl, q[i].order)
    <3> HIDE DEF s, i
    <3>1. g[s] = g[s \ {Max(s)}] + BlockItems(q[Max(s)].lvl, q[Max(s)].order)
      BY <1>10, <2>1
    <3> QED  BY <2>1, <2>3, <3>1
  <2>5. r[i] = r[i - 1] + ItemsOf(q[i])
    <3> HIDE DEF i, s
    <3> QED  BY <1>1, <2>1 DEF RunsAlong, n
  <2> HIDE DEF s, i
  <2>6. g[s] = r[i]
    BY <2>1, <2>2, <2>4, <2>5 DEF ItemsOf
  <2> QED  BY <2>6 DEF s, i
<1>13. Nat \subseteq N
  <2> HIDE DEF N
  <2> QED  BY <1>11, <1>12, InductionSet
<1>14. g[S] = r[n]
  BY <1>2, <1>13 DEF S
<1> QED  BY <1>1, <1>5, <1>14, GotSumIs DEF g

(***************************************************************************)
(* The items of the lists.                                                 *)
(***************************************************************************)
LEMMA SpanCount ==
    ASSUME NEW b, IsBlock(BlockOf(b))
    PROVE  /\ IsFiniteSet(SpanOf(b)) /\ Cardinality(SpanOf(b)) = BlockItems(b.lvl, b.order)
           /\ SpanOf(b) \subseteq Int
           /\ BlockItems(b.lvl, b.order) \in Nat
<1> DEFINE m == BlockItems(b.lvl, b.order)
           i == b.item
           j == b.item + BlockItems(b.lvl, b.order) - 1
<1>1. b.item \in Nat /\ m \in Nat /\ m >= 1
  <2>1. BlockOf(b).item = b.item /\ BlockOf(b).lvl = b.lvl /\ BlockOf(b).order = b.order
    BY DEF BlockOf
  <2> QED  BY <2>1, BlockBounds
<1>2. SpanOf(b) = i..j /\ i \in Int /\ j \in Int /\ ~ (i > j) /\ j - i + 1 = m
  BY <1>1 DEF SpanOf, Span
<1> HIDE DEF m, i, j
<1>3. IsFiniteSet(i..j) /\ Cardinality(i..j) = m
  BY <1>2, FS_Interval
<1> QED  BY <1>1, <1>2, <1>3 DEF m

IsListedSum(g, S) ==
    g = [s \in SUBSET S |->
           IF s = {} THEN 0
           ELSE BlockItems((CHOOSE x \in s : TRUE).lvl, (CHOOSE x \in s : TRUE).order)
                  + g[s \ {CHOOSE x \in s : TRUE}]]

LEMMA ListedSumIs ==
    ListedItems = (CHOOSE g : IsListedSum(g, Free))[Free]
BY DEF ListedItems, MapThenSumSet, MapThenFoldSet, IsListedSum

LEMMA FreeFinite ==
    ASSUME AlignedGrowth, GroupInv
    PROVE  /\ IsFiniteSet(Existing) /\ IsFiniteSet(Free)
           /\ \A b \in Free : IsBlock(b) /\ BlockOf(b) = b /\ SpanOf(b) \subseteq Existing
           /\ \A b, c \in Free : b # c => SpanOf(b) \cap SpanOf(c) = {}
<1>1. Existing = 0..(ItemsAfter[grown] - 1) /\ ItemsAfter[grown] \in Nat
      /\ \A x \in Int : 0 <= x /\ x < ItemsAfter[grown] => x \in Existing
  BY GrownIs DEF GroupInv
<1>2. IsFiniteSet(Existing)
  <2>1. 0 \in Int /\ ItemsAfter[grown] - 1 \in Int
    BY <1>1
  <2> QED  BY <1>1, <2>1, FS_Interval
<1>3. ASSUME NEW b \in Free PROVE IsBlock(b) /\ b \in Whole /\ BlockOf(b) = b
  BY DEF GroupInv, Tiled, Tiles, Whole, BlockOf, IsBlock
<1>4. ASSUME NEW b \in Free
      PROVE  /\ \A x : x \in SpanOf(b) <=> x \in Int /\ Has(b, x)
             /\ SpanOf(b) \subseteq Existing
             /\ b.item \in Existing /\ b.item \in SpanOf(b)
  <2>1. IsBlock(b) /\ IsBlock(BlockOf(b)) /\ b \in Whole
    BY <1>3
  <2>2. \A x : x \in SpanOf(b) <=> x \in Int /\ Has(b, x)
    BY <2>1, SpanIs
  <2>3. SpanOf(b) \subseteq Existing
    BY <1>1, <2>1, <2>2 DEF GroupInv, Tiled, Tiles
  <2>4. Has(b, b.item) /\ b.item \in Int
    BY <2>1, BlockBounds
  <2> QED  BY <2>2, <2>3, <2>4
<1>5. ASSUME NEW b \in Free, NEW c \in Free, NEW x \in SpanOf(b), x \in SpanOf(c) PROVE b = c
  <2>1. b \in Whole /\ c \in Whole /\ x \in Int /\ Has(b, x) /\ Has(c, x)
    BY <1>3, <1>4, <1>5
  <2> QED  BY <2>1 DEF GroupInv, Tiled, Tiles
<1> DEFINE f == [b \in Free |-> b.item]
<1>6. f \in Injection(Free, Existing)
  <2>1. f \in [Free -> Existing]
    BY <1>4
  <2>2. \A b, c \in Free : f[b] = f[c] => b = c
    BY <1>4, <1>5
  <2> QED  BY <2>1, <2>2 DEF Injection, IsInjective
<1>7. IsFiniteSet(Free)
  BY <1>2, <1>6, FS_Injection
<1> QED  BY <1>2, <1>3, <1>4, <1>5, <1>7

LEMMA ListedSum ==
    ASSUME AlignedGrowth, GroupInv
    PROVE  ListedItems = Cardinality({x \in Existing : \E b \in Free : x \in SpanOf(b)})
<1> DEFINE S == Free
           w == [b \in S |-> BlockItems(b.lvl, b.order)]
           area == [b \in S |-> SpanOf(b)]
           m == [s \in SUBSET S |-> Cardinality(AreasOf(s, area))]
           g == CHOOSE x : IsListedSum(x, S)
           picked(s) == CHOOSE x \in s : TRUE
<1>1. IsFiniteSet(S) /\ AreAreas(S, w, area, Existing)
  <2>1. \A b \in S : area[b] \subseteq Existing /\ Cardinality(area[b]) = w[b]
    BY FreeFinite, SpanCount
  <2>2. \A b, c \in S : b # c => area[b] \cap area[c] = {}
    BY FreeFinite
  <2> HIDE DEF area, w
  <2> QED  BY <2>1, <2>2, FreeFinite DEF AreAreas
<1>2. \A b \in S : w[b] = BlockItems(b.lvl, b.order) /\ area[b] = SpanOf(b)
  OBVIOUS
<1> HIDE DEF w, area
<1>3. IsAdditive(m, S, w)
  BY <1>1, AreasAdd
<1>4. m[S] = Cardinality(AreasOf(S, area))
  OBVIOUS
<1> HIDE DEF m
<1>5. AreasOf(S, area) = {x \in Existing : \E b \in Free : x \in SpanOf(b)}
  BY <1>2, FreeFinite DEF AreasOf
<1> HIDE DEF S
<1>6. ASSUME NEW s \in SUBSET S, s # {} PROVE picked(s) \in s
  BY <1>6
<1>7. IsListedSum(m, S)
  <2> DEFINE value(s) == IF s = {} THEN 0
                         ELSE BlockItems(picked(s).lvl, picked(s).order) + m[s \ {picked(s)}]
  <2>1. ASSUME NEW s \in SUBSET S PROVE m[s] = value(s)
    <3>1. CASE s = {}
      BY <1>3, <3>1 DEF IsAdditive
    <3>2. CASE s # {}
      <4>1. picked(s) \in s /\ picked(s) \in S
        BY <1>6, <3>2
      <4> HIDE DEF picked
      <4>2. m[s] = w[picked(s)] + m[s \ {picked(s)}]
        BY <1>3, <4>1 DEF IsAdditive
      <4> QED  BY <1>2, <3>2, <4>1, <4>2
    <3> QED  BY <3>1, <3>2
  <2>2. m = [s \in SUBSET S |-> m[s]]
    BY <1>3 DEF IsAdditive
  <2>3. m = [s \in SUBSET S |-> value(s)]
    <3> HIDE DEF value
    <3> QED  BY <2>1, <2>2
  <2> QED  BY <2>3 DEF IsListedSum
<1>8. IsListedSum(g, S)
  BY <1>7
<1> HIDE DEF g
<1>9. IsFold(g, S, w)
  <2>1. g[{}] = 0
    <3>1. {} \in SUBSET S
      OBVIOUS
    <3> QED  BY <1>8, <3>1 DEF IsListedSum
  <2>2. ASSUME NEW s \in SUBSET S, s # {} PROVE \E x \in s : g[s] = w[x] + g[s \ {x}]
    <3>1. picked(s) \in s /\ picked(s) \in S
      BY <1>6, <2>2
    <3>2. g[s] = BlockItems(picked(s).lvl, picked(s).order) + g[s \ {picked(s)}]
      BY <1>8, <2>2 DEF IsListedSum
    <3> HIDE DEF picked
    <3> QED  BY <1>2, <3>1, <3>2
  <2> QED  BY <2>1, <2>2 DEF IsFold
<1>10. g[S] = m[S]
  BY <1>1, <1>3, <1>9, FoldIs
<1> QED  BY <1>4, <1>5, <1>10, ListedSumIs DEF g, S

(***************************************************************************)
(* The calls.                                                              *)
(***************************************************************************)
Asked == [lvl : Lvl, order : Nat]

LEMMA CountJoined ==
    ASSUME NEW S, NEW T, IsFiniteSet(S), IsFiniteSet(T), S \cap T = {}, NEW R, R = S \cup T
    PROVE  Cardinality(R) = Cardinality(S) + Cardinality(T)
<1>1. Cardinality(S \cup T) = Cardinality(S) + Cardinality(T) - Cardinality(S \cap T)
  BY FS_Union
<1>2. Cardinality(S \cap T) = 0
  BY FS_EmptySet
<1>3. Cardinality(R) = Cardinality(S \cup T)
  OBVIOUS
<1>4. Cardinality(S) \in Nat /\ Cardinality(T) \in Nat
  BY FS_CardinalityType
<1> QED  BY <1>1, <1>2, <1>3, <1>4

LEMMA UnownedFinite ==
    ASSUME AlignedGrowth, TypeOK
    PROVE  IsFiniteSet(Unowned) /\ Cardinality(Unowned) \in Nat
<1>1. Existing = 0..(ItemsAfter[grown] - 1) /\ ItemsAfter[grown] \in Nat
  BY GrownIs
<1>2. 0 \in Int /\ ItemsAfter[grown] - 1 \in Int
  BY <1>1
<1>3. IsFiniteSet(Existing)
  BY <1>1, <1>2, FS_Interval
<1>4. Unowned \in SUBSET Existing
  BY DEF Unowned
<1> QED  BY <1>3, <1>4, FS_Subset, FS_CardinalityType

LEMMA PlacedIs ==
    ASSUME NEW got \in Seq(Held)
    PROVE  /\ Placed(got) \in Seq(Asked) /\ Len(Placed(got)) = Len(got) /\ Len(got) \in Nat
           /\ \A i \in 1..Len(got) :
                Placed(got)[i] = [lvl |-> got[i].lvl, order |-> got[i].order]
<1>1. Len(got) \in Nat /\ \A i \in 1..Len(got) : got[i] \in Held
  OBVIOUS
<1>2. Order \subseteq Nat
  BY Constants
<1>3. \A i \in 1..Len(got) : [lvl |-> got[i].lvl, order |-> got[i].order] \in Asked
  BY <1>1, <1>2 DEF Held, Asked
<1> DEFINE n == Len(got)
           v(i) == [lvl |-> got[i].lvl, order |-> got[i].order]
<1>4. Placed(got) = [i \in 1..n |-> v(i)]
  BY DEF Placed
<1> HIDE DEF n, v
<1>5. n \in Nat /\ \A i \in 1..n : v(i) \in Asked
  BY <1>1, <1>3 DEF n, v
<1>6. /\ Placed(got) \in Seq(Asked) /\ Len(Placed(got)) = n
      /\ \A i \in 1..n : Placed(got)[i] = v(i)
  BY <1>4, <1>5
<1> QED  BY <1>5, <1>6 DEF n, v

LEMMA ConcatIs ==
    ASSUME NEW X, NEW x \in Seq(X), NEW y \in Seq(X)
    PROVE  /\ x \o y \in Seq(X) /\ Len(x \o y) = Len(x) + Len(y)
           /\ \A i \in 1..(Len(x) + Len(y)) :
                (x \o y)[i] = IF i <= Len(x) THEN x[i] ELSE y[i - Len(x)]
OBVIOUS

\* Moving the first block asked for to the blocks got.
LEMMA PlacedStep ==
    ASSUME NEW got \in Seq(Held), NEW todo \in Seq(Asked), todo # <<>>,
           NEW hb \in Held, hb.lvl = Head(todo).lvl, hb.order = Head(todo).order
    PROVE  /\ Append(got, hb) \in Seq(Held) /\ Tail(todo) \in Seq(Asked)
           /\ Placed(Append(got, hb)) \o Tail(todo) = Placed(got) \o todo
<1> DEFINE g == Append(got, hb)
           a == Placed(got)
           b == Placed(g)
           t == Tail(todo)
           m == Len(got)
           n == Len(todo)
<1>1. /\ g \in Seq(Held) /\ Len(g) = m + 1 /\ m \in Nat
      /\ \A i \in 1..m : g[i] = got[i]
      /\ g[m + 1] = hb
  OBVIOUS
<1>2. /\ t \in Seq(Asked) /\ n \in Nat /\ n >= 1 /\ Len(t) = n - 1
      /\ \A i \in 1..(n - 1) : t[i] = todo[i + 1]
      /\ Head(todo) = todo[1] /\ todo[1] \in Asked
  OBVIOUS
<1>3. /\ a \in Seq(Asked) /\ Len(a) = m
      /\ \A i \in 1..m : a[i] = [lvl |-> got[i].lvl, order |-> got[i].order]
  BY PlacedIs
<1>4. /\ b \in Seq(Asked) /\ Len(b) = m + 1
      /\ \A i \in 1..(m + 1) : b[i] = [lvl |-> g[i].lvl, order |-> g[i].order]
  <2> HIDE DEF g
  <2> QED  BY <1>1, PlacedIs
<1>5. b[m + 1] = todo[1]
  <2>1. m + 1 \in 1..(m + 1)
    BY <1>1
  <2>2. b[m + 1] = [lvl |-> hb.lvl, order |-> hb.order]
    <3> HIDE DEF g, b, m
    <3> QED  BY <1>1, <1>4, <2>1
  <2>3. todo[1] = [lvl |-> todo[1].lvl, order |-> todo[1].order]
    BY <1>2 DEF Asked
  <2> QED  BY <1>2, <2>2, <2>3
<1>6. ASSUME NEW i \in 1..m PROVE b[i] = a[i]
  <2> HIDE DEF g, a, b, m
  <2>1. i \in 1..(m + 1)
    BY <1>1
  <2>2. b[i] = [lvl |-> g[i].lvl, order |-> g[i].order] /\ g[i] = got[i]
    BY <1>1, <1>4, <2>1
  <2> QED  BY <1>3, <2>2
<1>7. Len(todo) = n
  OBVIOUS
<1> HIDE DEF g, a, b, t, m, n
<1>8. /\ b \o t \in Seq(Asked) /\ Len(b \o t) = m + n
      /\ \A i \in 1..(m + n) : (b \o t)[i] = IF i <= m + 1 THEN b[i] ELSE t[i - (m + 1)]
  <2>1. Len(b) = m + 1 /\ Len(b) + Len(t) = m + n
    BY <1>1, <1>2, <1>4
  <2>2. /\ b \o t \in Seq(Asked) /\ Len(b \o t) = Len(b) + Len(t)
        /\ \A i \in 1..(Len(b) + Len(t)) :
             (b \o t)[i] = IF i <= Len(b) THEN b[i] ELSE t[i - Len(b)]
    BY <1>2, <1>4, ConcatIs
  <2> QED  BY <2>1, <2>2
<1>9. /\ a \o todo \in Seq(Asked) /\ Len(a \o todo) = m + n
      /\ \A i \in 1..(m + n) : (a \o todo)[i] = IF i <= m THEN a[i] ELSE todo[i - m]
  BY <1>3, <1>7, ConcatIs
<1>10. ASSUME NEW i \in 1..(m + n) PROVE (b \o t)[i] = (a \o todo)[i]
  <2>1. i \in Nat /\ 1 <= i /\ i <= m + n
    BY <1>1, <1>2
  <2>2. CASE i <= m
    <3>1. i \in 1..m /\ i <= m + 1
      BY <1>1, <2>1, <2>2
    <3> QED  BY <1>6, <1>8, <1>9, <2>2, <3>1
  <2>3. CASE i = m + 1
    <3>1. ~ (i <= m) /\ i - m = 1 /\ i <= m + 1
      BY <1>1, <2>3
    <3> QED  BY <1>5, <1>8, <1>9, <2>3, <3>1
  <2>4. CASE i > m + 1
    <3>1. /\ ~ (i <= m + 1) /\ ~ (i <= m) /\ i - (m + 1) \in 1..(n - 1)
          /\ (i - (m + 1)) + 1 = i - m
      BY <1>1, <1>2, <2>1, <2>4
    <3>2. t[i - (m + 1)] = todo[i - m]
      BY <1>2, <3>1
    <3> QED  BY <1>8, <1>9, <3>1, <3>2
  <2>5. i <= m \/ i = m + 1 \/ i > m + 1
    BY <1>1, <2>1
  <2> QED  BY <2>2, <2>3, <2>4, <2>5
<1>11. b \o t = a \o todo
  <2> DEFINE x == b \o t
             y == a \o todo
             k == m + n
  <2>1. x \in Seq(Asked) /\ y \in Seq(Asked) /\ Len(x) = k /\ Len(y) = k /\ \A i \in 1..k : x[i] = y[i]
    BY <1>8, <1>9, <1>10
  <2> HIDE DEF x, y, k
  <2>2. x = y
    BY <2>1
  <2> QED  BY <2>2 DEF x, y
<1> QED  BY <1>1, <1>2, <1>11 DEF g, a, b, t

\* The blocks a call has yet to get are those of its request that follow.
LEMMA NextAsked ==
    ASSUME NEW c \in Call, c.todo # <<>>, NEW n \in 1..BIT(MaxShift), NEW flags \in CallerFlags,
           Serves(c, n, flags), NEW p, p = Head(c.todo)
    PROVE  /\ p.lvl \in Lvl /\ p.order \in Order /\ c.type \in MigrationType
           /\ Plain(p.lvl, c.type, p.order)
<1> DEFINE q == Request(n, flags)
           a == Placed(c.got)
           m == Len(a)
           t == c.todo
<1>1. c.got \in Seq(Held) /\ t \in Seq(Asked) /\ c.type \in MigrationType
  BY DEF Call, Asked
<1>2. a \in Seq(Asked) /\ m \in Nat
  BY <1>1, PlacedIs
<1>3. IsRequest(q, n, flags)
  BY RequestIs DEF Serves
<1>4. q = a \o t /\ c.type = TypeFor(n, flags)
  BY DEF Serves
<1> HIDE DEF q, a, m, t
<1>5. Len(t) \in Nat /\ Len(t) >= 1 /\ t[1] = p
  BY <1>1 DEF t
<1>6. Len(q) = m + Len(t) /\ m + 1 \in 1..Len(q) /\ q[m + 1] = t[1]
  <2>1. Len(q) = m + Len(t) /\ m + 1 \in 1..(m + Len(t))
    BY <1>1, <1>2, <1>4, <1>5 DEF m
  <2>2. ~ (m + 1 <= m) /\ (m + 1) - m = 1
    BY <1>2
  <2>3. q[m + 1] = t[(m + 1) - m]
    BY <1>1, <1>2, <1>4, <2>1, <2>2 DEF m
  <2> QED  BY <2>1, <2>2, <2>3
<1>7. q[m + 1] \in PlacedBlock /\ Plain(q[m + 1].lvl, c.type, q[m + 1].order)
  BY <1>3, <1>4, <1>6 DEF IsRequest
<1>8. p \in PlacedBlock /\ Plain(p.lvl, c.type, p.order)
  BY <1>5, <1>6, <1>7
<1> QED  BY <1>1, <1>8 DEF PlacedBlock

\* Handing out a block.
LEMMA DispatchKeeps ==
    ASSUME AlignedGrowth, NodeInv, dispatch_forward \/ dispatch_migrate
    PROVE  NodeInv'
<1> DEFINE p == Head(call.todo)
           l == p.lvl
           o == p.order
           t == call.type
<1>1. /\ call # NoCall /\ call.todo # <<>>
      /\ \/ dispatch_group(l, t, o) /\ Dispatched(Taken(l, t, o, t))
         \/ migrate_group(l, t, o) /\ Dispatched(Taken(l, MIGRATION_MOVABLE, o, t))
  BY DEF dispatch_forward, dispatch_migrate, Running
<1>2. /\ call \in Call /\ GroupInv /\ TypeOK /\ heads \subseteq held /\ drift \in Nat
      /\ nr_freeitems \in Int
  BY <1>1 DEF NodeInv, TypeOKNode
<1>3. PICK n \in 1..BIT(MaxShift), flags \in CallerFlags : Serves(call, n, flags)
  BY <1>1 DEF NodeInv, CallServes
<1>4. l \in Lvl /\ o \in Order /\ t \in MigrationType /\ Plain(l, t, o)
  BY <1>1, <1>2, <1>3, NextAsked
<1> HIDE DEF l, o, t
<1>5. PICK hb : HandsOut(hb, l, o) /\ Dispatched(hb)
  BY <1>1, <1>2, <1>4, ServedIs
<1>6. UNCHANGED <<grown, freeing, fault>> /\ freeing = NoFree
  <2>1. UNCHANGED <<grown, freeing, fault>>
    BY <1>1, <1>2, <1>4, ServedIs
  <2> QED  BY <1>1, <2>1 DEF dispatch_group, migrate_group
<1>7. GroupInv'
  BY <1>1, <1>2, <1>4, AsksKeep DEF Asks
<1>8. hb \in Held /\ hb.lvl = l /\ hb.order = o /\ hb \notin held /\ held' = held \cup {hb}
  BY <1>5 DEF HandsOut
<1>10. /\ nr_freeitems' = nr_freeitems - BlockItems(l, o)
       /\ call' = [call EXCEPT !.todo = Tail(@), !.got = Append(@, hb)]
       /\ heads' = heads /\ drift' = drift
  BY <1>5, <1>8 DEF Dispatched, DispatchedItems
<1>11. /\ call.got \in Seq(Held) /\ call.todo \in Seq(Asked)
       /\ hb.lvl = p.lvl /\ hb.order = p.order
  BY <1>2, <1>8 DEF Call, Asked, l, o
<1>12. /\ Append(call.got, hb) \in Seq(Held) /\ Tail(call.todo) \in Seq(Asked)
       /\ Placed(Append(call.got, hb)) \o Tail(call.todo) = Placed(call.got) \o call.todo
  BY <1>1, <1>8, <1>11, PlacedStep
<1>13. /\ call' \in Call
       /\ call'.todo = Tail(call.todo) /\ call'.got = Append(call.got, hb)
       /\ call'.type = call.type /\ call'.is_combined = call.is_combined
       /\ call'.bytes = call.bytes
  BY <1>2, <1>10, <1>12 DEF Call, Asked
<1>14. BlockItems(l, o) \in Nat
  <2>1. l \in 0..3 /\ o \in Nat
    BY <1>4, Constants
  <2> QED  BY <2>1, BlockSize
<1>15. TypeOKNode'
  <2>1. TypeOK'
    BY <1>7 DEF GroupInv
  <2>2. nr_freeitems' \in Int /\ drift' \in Nat /\ heads' \subseteq held'
    BY <1>2, <1>8, <1>10, <1>14
  <2> QED  BY <1>13, <2>1, <2>2 DEF TypeOKNode
<1>16. CallServes'
  <2>1. Serves(call', n, flags)
    BY <1>3, <1>12, <1>13 DEF Serves
  <2>2. ToSet(call'.got) \subseteq held'
    <3>1. ToSet(call.got) \subseteq held
      BY <1>1 DEF NodeInv, CallServes
    <3>2. ToSet(Append(call.got, hb)) \subseteq ToSet(call.got) \cup {hb}
      <4>1. ASSUME NEW i \in 1..(Len(call.got) + 1)
            PROVE  Append(call.got, hb)[i] \in ToSet(call.got) \cup {hb}
        <5>1. CASE i <= Len(call.got)
          <6>1. i \in DOMAIN call.got /\ Append(call.got, hb)[i] = call.got[i]
            BY <1>11, <5>1
          <6> QED  BY <6>1 DEF ToSet
        <5>2. CASE i > Len(call.got)
          <6>1. Append(call.got, hb)[i] = hb
            BY <1>11, <5>2
          <6> QED  BY <6>1
        <5> QED  BY <1>11, <5>1, <5>2
      <4>2. DOMAIN Append(call.got, hb) = 1..(Len(call.got) + 1)
        BY <1>11
      <4> QED  BY <4>1, <4>2 DEF ToSet
    <3> QED  BY <1>8, <1>13, <3>1, <3>2
  <2>3. CallServes' = (call' # NoCall =>
                        /\ ToSet(call'.got) \subseteq held'
                        /\ \E k \in 1..BIT(MaxShift), f \in CallerFlags : Serves(call', k, f))
    BY DEF CallServes, Serves, PlainCall, IsSingle, Request, Placed
  <2> QED  BY <2>1, <2>2, <2>3
<1>17. Counted'
  <2> DEFINE s == SpanOf(hb)
  <2>1. /\ s \subseteq Existing /\ \A i \in s : owners[i] = 0
        /\ owners' = [i \in Item |-> IF i \in s THEN 1 ELSE owners[i]]
        /\ IsBlock(BlockOf(hb))
    BY <1>5 DEF HandsOut
  <2>2. Existing' = Existing /\ Existing \subseteq Item
    BY <1>2, <1>6, GrownIs DEF Existing
  <2>3. IsFiniteSet(s) /\ Cardinality(s) = BlockItems(l, o)
    BY <1>8, <2>1, SpanCount
  <2> HIDE DEF s
  <2>4. Unowned' = Unowned \ s /\ Unowned \cap s = s
    BY <2>1, <2>2 DEF Unowned
  <2>5. IsFiniteSet(Unowned) /\ Cardinality(Unowned) \in Nat
    BY <1>2, UnownedFinite
  <2>6. Cardinality(Unowned') = Cardinality(Unowned) - BlockItems(l, o)
    <3>1. Cardinality(Unowned \ s) = Cardinality(Unowned) - Cardinality(Unowned \cap s)
      BY <2>5, FS_Difference
    <3> QED  BY <2>3, <2>4, <3>1
  <2>7. InTransit = 0 /\ InTransit' = 0
    BY <1>6 DEF InTransit
  <2>8. nr_freeitems + drift + InTransit = Cardinality(Unowned)
    BY DEF NodeInv, Counted
  <2>9. nr_freeitems' + drift' + InTransit' = Cardinality(Unowned')
    BY <1>2, <1>10, <1>14, <2>5, <2>6, <2>7, <2>8
  <2> QED  BY <2>9 DEF Counted
<1>18. freeing' # NoFree => call' = NoCall
  BY <1>6
<1> QED  BY <1>7, <1>15, <1>16, <1>17, <1>18 DEF NodeInv

\* What neither the node's size nor its callers have is counted on.
LEMMA CountedKept ==
    ASSUME Counted, UNCHANGED <<grown, owners, freeing, nr_freeitems, drift>>
    PROVE  Counted'
<1>1. Unowned' = Unowned
  BY DEF Unowned, Existing
<1>2. InTransit' = InTransit
  BY DEF InTransit
<1> QED  BY <1>1, <1>2 DEF Counted

LEMMA CallNext ==
    /\ call' = NoCall => CallServes'
    /\ call' = call /\ held' = held /\ CallServes => CallServes'
    /\ \A n \in 1..BIT(MaxShift), flags \in CallerFlags :
         Serves(call', n, flags) /\ ToSet(call'.got) \subseteq held' => CallServes'
<1>1. CallServes' = (call' # NoCall =>
                       /\ ToSet(call'.got) \subseteq held'
                       /\ \E k \in 1..BIT(MaxShift), f \in CallerFlags : Serves(call', k, f))
  BY DEF CallServes, Serves, PlainCall, IsSingle, Request, Placed
<1>2. call' = NoCall => CallServes'
  BY DEF CallServes
<1>3. ASSUME call' = call, held' = held, CallServes, call' # NoCall PROVE CallServes'
  <2>1. PICK k \in 1..BIT(MaxShift), f \in CallerFlags : Serves(call, k, f)
    BY <1>3 DEF CallServes
  <2>2. ToSet(call.got) \subseteq held
    BY <1>3 DEF CallServes
  <2>3. Serves(call', k, f) /\ ToSet(call'.got) \subseteq held'
    BY <1>3, <2>1, <2>2
  <2> QED  BY <1>1, <2>3
<1>4. \A n \in 1..BIT(MaxShift), flags \in CallerFlags :
        Serves(call', n, flags) /\ ToSet(call'.got) \subseteq held' => CallServes'
  BY <1>1
<1> QED  BY <1>2, <1>3, <1>4

LEMMA VarsKept ==
    ASSUME UNCHANGED vars
    PROVE  /\ grown' = grown /\ owners' = owners /\ held' = held /\ freeing' = freeing
           /\ fault' = fault
BY DEF vars, holders

LEMMA StutterKeeps ==
    ASSUME NodeInv, UNCHANGED nodeVars
    PROVE  NodeInv'
<1>1. UNCHANGED vars /\ UNCHANGED <<nr_freeitems, call, heads, drift>>
  BY DEF nodeVars
<1>2. UNCHANGED <<grown, owners, held, freeing>>
  BY <1>1, VarsKept
<1>3. GroupInv'
  BY <1>1, InvKept DEF NodeInv
<1>4. TypeOKNode'
  BY <1>1, <1>2, <1>3 DEF NodeInv, TypeOKNode, GroupInv
<1>5. CallServes' /\ Counted'
  BY <1>1, <1>2, CallNext, CountedKept DEF NodeInv
<1>6. freeing' # NoFree => call' = NoCall
  BY <1>1, <1>2 DEF NodeInv
<1> QED  BY <1>3, <1>4, <1>5, <1>6 DEF NodeInv

\* The call runs into a fault.
LEMMA CallFaultKeeps ==
    ASSUME NodeInv, dispatch_exhausted \/ alloc_loses_range \/ \E b : free_without_group(b)
    PROVE  NodeInv'
<1>1. /\ fault' = TRUE /\ UNCHANGED <<grown, lists, descriptors, holders, freeing>>
      /\ UNCHANGED <<nr_freeitems, call, heads, drift>>
  BY DEF dispatch_exhausted, alloc_loses_range, free_without_group, dequeue_group_sparse
<1>2. UNCHANGED <<grown, owners, held, freeing>>
  BY <1>1 DEF holders
<1>3. GroupInv'
  BY <1>1, FaultKeeps DEF NodeInv
<1>4. TypeOKNode'
  BY <1>1, <1>2, <1>3 DEF NodeInv, TypeOKNode, GroupInv
<1>5. CallServes' /\ Counted'
  BY <1>1, <1>2, CallNext, CountedKept DEF NodeInv
<1>6. freeing' # NoFree => call' = NoCall
  BY <1>1, <1>2 DEF NodeInv
<1> QED  BY <1>3, <1>4, <1>5, <1>6 DEF NodeInv

LEMMA PowerWithin ==
    ASSUME NEW n \in 1..BIT(MaxShift), NEW k \in Nat, BIT(k) <= n
    PROVE  k \in 0..MaxShift
<1>1. MaxShift \in Nat /\ MaxShift + 1 \in Nat
  BY DEF MaxShift
<1>2. n \in Nat /\ n <= BIT(MaxShift) /\ BIT(MaxShift) \in Nat /\ BIT(MaxShift) >= 1
      /\ BIT(MaxShift + 1) = 2 * BIT(MaxShift)
  BY NodeConstants
<1>3. k <= MaxShift
  <2> SUFFICES ASSUME MaxShift + 1 <= k PROVE FALSE
    BY <1>1
  <2>1. BIT(MaxShift + 1) <= BIT(k) /\ BIT(k) \in Nat
    BY <1>1, BitMonotone, BitPositive
  <2> QED  BY <1>2, <2>1
<1> QED  BY <1>1, <1>3

\* A caller that gets one block asks for a power of two of items.
LEMMA SingleIs ==
    ASSUME NEW n \in 1..BIT(MaxShift), NEW flags \in CallerFlags, Accepts(n, flags)
    PROVE  IsSingle(n, flags)
<1> SUFFICES ASSUME ~IsCombined(n, flags) PROVE \E p \in 0..MaxShift : psize(n, flags) = BIT(p)
  BY DEF IsSingle
<1>1. CASE flags = "OBJECT"
  <2>1. psize(n, flags) = BIT(item_to_order(n)) /\ item_to_order(n) \in 0..MaxShift
    BY <1>1, OrderIs DEF psize
  <2> QED  BY <2>1
<1>2. CASE flags = "DCONT"
  <2>1. n = 1 /\ psize(n, flags) = 1 /\ BIT(0) = 1 /\ 0 \in 0..MaxShift
    BY <1>2 DEF IsCombined, psize, BIT, MaxShift
  <2> QED  BY <2>1
<1>3. CASE flags = "DEBUG"
  <2>1. n = BIT(fls(n) - 1) /\ psize(n, flags) = n
    <3>1. IsPower(n) /\ psize(n, flags) = n
      BY <1>3 DEF Accepts, psize
    <3>2. n \in Nat /\ n # 0
      BY NodeConstants
    <3>3. n - BIT(fls(n) - 1) = 0
      BY <3>1, <3>2 DEF IsPower, item_to_orders_Rest
    <3>4. PICK k \in Nat : BIT(k) <= n /\ n < BIT(k + 1)
      BY <3>2, PowerBelow
    <3>5. k \in 0..MaxShift
      BY <3>4, PowerWithin
    <3>6. fls(n) = k + 1
      BY <3>2, <3>4, <3>5, FlsBounds
    <3>7. fls(n) - 1 = k /\ BIT(k) \in Nat
      BY <3>4, <3>6, BitPositive
    <3> QED  BY <3>1, <3>2, <3>3, <3>7
  <2>2. fls(n) - 1 \in 0..MaxShift
    <3>1. n \in Nat /\ n >= 1
      BY NodeConstants
    <3>2. PICK k \in Nat : BIT(k) <= n /\ n < BIT(k + 1)
      BY <3>1, PowerBelow
    <3>3. k \in 0..MaxShift
      BY <3>2, PowerWithin
    <3>4. fls(n) = k + 1
      BY <3>1, <3>2, <3>3, FlsBounds
    <3> QED  BY <3>2, <3>3, <3>4
  <2> QED  BY <2>1, <2>2
<1>4. CASE flags = "RESERVED"
  BY <1>4 DEF IsCombined
<1> QED  BY <1>1, <1>2, <1>3, <1>4 DEF CallerFlags

\* A call begins.
LEMMA AllocKeeps ==
    ASSUME NodeInv, NEW n, NEW flags \in CallerFlags, PlainCall(n, flags),
           NEW bytes \in Nat, NEW wants \in BOOLEAN,
           (n - 1) * FIXED_ITEM_SIZE < bytes, bytes <= n * FIXED_ITEM_SIZE,
           node_struct_alloc(n, flags, bytes, wants)
    PROVE  NodeInv'
<1> DEFINE q == Request(n, flags)
<1>1. n \in 1..BIT(MaxShift) /\ TypeFor(n, flags) \in MigrationType
  BY DEF PlainCall
<1>2. IsSingle(n, flags)
  BY <1>1, SingleIs DEF node_struct_alloc
<1>3. IsRequest(q, n, flags)
  BY <1>1, <1>2, RequestIs
<1>4. call' = [type |-> TypeFor(n, flags), is_combined |-> IsCombined(n, flags),
               wants_range |-> wants, bytes |-> bytes, todo |-> q, got |-> <<>>]
  BY DEF node_struct_alloc, Request
<1>5. q \in Seq(Asked)
  <2>1. PlacedBlock \subseteq Asked
    BY Constants DEF PlacedBlock, Asked
  <2>2. q \in Seq(PlacedBlock)
    BY <1>3 DEF IsRequest
  <2> HIDE DEF q
  <2>3. \A i \in 1..Len(q) : q[i] \in Asked
    BY <2>1, <2>2
  <2> QED  BY <2>2, <2>3
<1>6. IsCombined(n, flags) \in BOOLEAN
  BY DEF IsCombined
<1> HIDE DEF q
<1>7. call' \in Call
  <2>1. <<>> \in Seq(Held)
    OBVIOUS
  <2> QED  BY <1>1, <1>4, <1>5, <1>6, <2>1 DEF Call, Asked
<1>8. /\ call'.type = TypeFor(n, flags) /\ call'.is_combined = IsCombined(n, flags)
      /\ call'.bytes = bytes /\ call'.todo = q /\ call'.got = <<>>
  BY <1>4
<1>9. Placed(call'.got) \o call'.todo = q
  <2>1. Placed(<<>>) = <<>>
    BY DEF Placed
  <2>2. <<>> \o q = q
    BY <1>5
  <2> QED  BY <1>8, <2>1, <2>2
<1>10. Serves(call', n, flags)
  BY <1>2, <1>8, <1>9 DEF Serves, q
<1>11. ToSet(call'.got) \subseteq held'
  <2>1. ToSet(<<>>) = {}
    BY DEF ToSet
  <2> QED  BY <1>8, <2>1
<1>12. UNCHANGED vars /\ UNCHANGED <<nr_freeitems, heads, drift>> /\ freeing = NoFree
  BY DEF node_struct_alloc, Idle
<1>13. UNCHANGED <<grown, owners, held, freeing>>
  BY <1>12, VarsKept
<1>14. GroupInv'
  BY <1>12, InvKept DEF NodeInv
<1>15. TypeOKNode'
  BY <1>7, <1>12, <1>13, <1>14 DEF NodeInv, TypeOKNode, GroupInv
<1>16. CallServes' /\ Counted'
  BY <1>1, <1>10, <1>11, <1>12, <1>13, CallNext, CountedKept DEF NodeInv
<1>17. freeing' # NoFree => call' = NoCall
  BY <1>12, <1>13
<1> QED  BY <1>14, <1>15, <1>16, <1>17 DEF NodeInv

\* The bytes of a caller that asks in items, and of kmalloc.
LEMMA CallerBytes ==
    ASSUME NEW n \in Nat, n >= 1
    PROVE  /\ n * FIXED_ITEM_SIZE \in Nat
           /\ (n - 1) * FIXED_ITEM_SIZE < n * FIXED_ITEM_SIZE
<1> DEFINE d == FIXED_ITEM_SIZE
<1>1. d \in Nat /\ d >= 1
  BY NodeConstants
<1> HIDE DEF d
<1>2. n * d \in Nat /\ (n - 1) * d = n * d - d
  BY <1>1
<1>3. (n - 1) * d < n * d
  BY <1>1, <1>2
<1> QED  BY <1>2, <1>3 DEF d

LEMMA KmallocBytes ==
    ASSUME NEW size \in Nat, size # 0
    PROVE  /\ size_to_item(size) \in Nat
           /\ (size_to_item(size) - 1) * FIXED_ITEM_SIZE < size
           /\ size <= size_to_item(size) * FIXED_ITEM_SIZE
<1> DEFINE d == FIXED_ITEM_SIZE
           k == size \div d
           r == size % d
<1>1. d \in Nat /\ d >= 1
  BY NodeConstants
<1>2. size_to_item(size) = k + IF r = 0 THEN 0 ELSE 1
  BY DEF size_to_item
<1> HIDE DEF d
<1>3. k \in Nat /\ r \in Nat /\ r < d /\ size = d * k + r
  BY <1>1
<1> HIDE DEF k, r
<1>4. d * k = k * d /\ (k + 1) * d = k * d + d /\ (k - 1) * d = k * d - d /\ k * d \in Nat
      /\ (k + 1) - 1 = k
  BY <1>1, <1>3
<1>5. CASE r = 0
  <2>1. size_to_item(size) = k /\ size = k * d
    BY <1>2, <1>3, <1>4, <1>5
  <2>2. (k - 1) * d < size /\ size <= k * d
    BY <1>1, <1>3, <1>4, <2>1
  <2> QED  BY <1>3, <2>1, <2>2 DEF d
<1>6. CASE r # 0
  <2>1. size_to_item(size) = k + 1 /\ size = k * d + r
    BY <1>2, <1>3, <1>4, <1>6
  <2>2. k * d < size /\ size <= (k + 1) * d
    BY <1>1, <1>3, <1>4, <1>6, <2>1
  <2> QED  BY <1>3, <1>4, <2>1, <2>2 DEF d
<1> QED  BY <1>5, <1>6

\* What a call has got when it comes to its end.
LEMMA GotIs ==
    ASSUME NEW c \in Call, c.todo = <<>>, NEW n \in 1..BIT(MaxShift), NEW flags \in CallerFlags,
           Serves(c, n, flags)
    PROVE  /\ Placed(c.got) = Request(n, flags)
           /\ c.got \in Seq(Held) /\ Len(c.got) \in Nat /\ Len(c.got) >= 1
           /\ Len(c.got) = Len(Request(n, flags))
           /\ \A i \in 1..Len(c.got) :
                /\ c.got[i] \in Held
                /\ Request(n, flags)[i] = [lvl |-> c.got[i].lvl, order |-> c.got[i].order]
<1> DEFINE q == Request(n, flags)
<1>1. c.got \in Seq(Held)
  BY DEF Call
<1>2. Placed(c.got) \in Seq(Asked) /\ Len(Placed(c.got)) = Len(c.got) /\ Len(c.got) \in Nat
      /\ \A i \in 1..Len(c.got) : Placed(c.got)[i] = [lvl |-> c.got[i].lvl, order |-> c.got[i].order]
  BY <1>1, PlacedIs
<1>3. Placed(c.got) = q
  <2>1. Placed(c.got) \o <<>> = Placed(c.got)
    BY <1>2
  <2> QED  BY <2>1 DEF Serves
<1>4. Len(q) >= 1
  BY RequestIs DEF Serves, IsRequest
<1>5. \A i \in 1..Len(c.got) : c.got[i] \in Held
  BY <1>1
<1> QED  BY <1>1, <1>2, <1>3, <1>4, <1>5

\* The caller gets the first block.
LEMMA ReturnKeeps ==
    ASSUME NodeInv, alloc_returns
    PROVE  NodeInv'
<1>1. /\ call # NoCall /\ call.todo = <<>> /\ call' = NoCall /\ UNCHANGED vars
      /\ UNCHANGED <<nr_freeitems, drift>> /\ heads' = heads \cup {Head(call.got)}
  BY DEF alloc_returns, Returning
<1>2. UNCHANGED <<grown, owners, held, freeing>>
  BY <1>1, VarsKept
<1>3. call \in Call /\ ToSet(call.got) \subseteq held
  BY <1>1 DEF NodeInv, TypeOKNode, CallServes
<1>4. PICK n \in 1..BIT(MaxShift), flags \in CallerFlags : Serves(call, n, flags)
  BY <1>1 DEF NodeInv, CallServes
<1>5. Head(call.got) \in held
  <2> DEFINE q == call.got
  <2>1. q \in Seq(Held) /\ Len(q) \in Nat /\ Len(q) >= 1
    BY <1>1, <1>3, <1>4, GotIs
  <2>2. Head(q) \in ToSet(q)
    <3> HIDE DEF q
    <3>1. 1 \in DOMAIN q /\ Head(q) = q[1]
      BY <2>1
    <3> QED  BY <3>1 DEF ToSet
  <2> QED  BY <1>3, <2>2
<1>6. GroupInv'
  BY <1>1, InvKept DEF NodeInv
<1>7. TypeOKNode'
  BY <1>1, <1>2, <1>5, <1>6 DEF NodeInv, TypeOKNode, GroupInv
<1>8. CallServes' /\ Counted'
  BY <1>1, <1>2, CallNext, CountedKept DEF NodeInv
<1> QED  BY <1>1, <1>6, <1>7, <1>8 DEF NodeInv

LEMMA GiveBackKeeps ==
    ASSUME AlignedGrowth, NodeInv, NEW b \in heads, node_struct_free(b)
    PROVE  NodeInv'
<1>1. /\ dequeue_group_migration(b) /\ call = NoCall /\ call' = call /\ freeing = NoFree
      /\ heads' = heads \ {b} /\ nr_freeitems' = nr_freeitems
      /\ drift' = drift + IF state[b.item] = MIGRATION_UNMOVABLE THEN BlockItems(b.lvl, b.order) ELSE 0
  BY DEF node_struct_free, Idle, DispatchedItems
<1>2. /\ GroupInv /\ b \in held /\ heads \subseteq held /\ drift \in Nat /\ nr_freeitems \in Int
      /\ call \in Call \cup {NoCall} /\ TypeOK
  BY DEF NodeInv, TypeOKNode
<1>3. held' = held \ {b} /\ grown' = grown
  BY <1>1 DEF dequeue_group_migration
<1>4. GroupInv'
  BY <1>1, <1>2, DequeueKeeps
<1>5. /\ freeing' # NoFree
      /\ freeing'.lvl = b.lvl /\ freeing'.order = b.order /\ freeing'.type = state[b.item]
      /\ state[b.item] \in MigrationType
  BY <1>1, <1>2, DequeuedIs
<1>6. IsBlock(BlockOf(b))
  BY <1>2, HeldIs
<1> DEFINE s == SpanOf(b)
           m == BlockItems(b.lvl, b.order)
<1>7. IsFiniteSet(s) /\ Cardinality(s) = m /\ m \in Nat
  BY <1>6, SpanCount
<1>8. /\ s \subseteq Existing /\ s \subseteq Item
      /\ \A i \in s : owners[i] = 1
      /\ owners' = [i \in Item |-> IF i \in s THEN 0 ELSE owners[i]]
  BY <1>1, <1>2, GivenBack
<1>9. drift' + InTransit' = drift + m /\ drift' \in Nat /\ InTransit = 0
  <2>1. InTransit' = IF state[b.item] = MIGRATION_UNMOVABLE THEN 0 ELSE m
    BY <1>5 DEF InTransit, FreedItems
  <2>2. drift' = drift + IF state[b.item] = MIGRATION_UNMOVABLE THEN m ELSE 0
    BY <1>1
  <2>3. InTransit = 0
    BY <1>1 DEF InTransit
  <2>4. m \in Nat /\ drift \in Nat
    BY <1>2, <1>7
  <2> HIDE DEF m
  <2>5. CASE state[b.item] = MIGRATION_UNMOVABLE
    <3>1. InTransit' = 0 /\ drift' = drift + m
      BY <2>1, <2>2, <2>5
    <3> QED  BY <2>3, <2>4, <3>1
  <2>6. CASE state[b.item] # MIGRATION_UNMOVABLE
    <3>1. InTransit' = m /\ drift' = drift + 0
      BY <2>1, <2>2, <2>6
    <3> QED  BY <2>3, <2>4, <3>1
  <2> QED  BY <2>5, <2>6
<1> HIDE DEF s, m
<1>10. TypeOKNode'
  <2>1. TypeOK'
    BY <1>4 DEF GroupInv
  <2>2. heads' \subseteq held'
    BY <1>1, <1>2, <1>3
  <2>3. nr_freeitems' \in Int /\ call' \in Call \cup {NoCall} /\ drift' \in Nat
    BY <1>1, <1>2, <1>9
  <2> QED  BY <2>1, <2>2, <2>3 DEF TypeOKNode
<1>11. CallServes'
  BY <1>1, CallNext
<1>12. Counted'
  <2>1. Existing' = Existing /\ Existing \subseteq Item
    BY <1>2, <1>3, GrownIs DEF Existing
  <2>2. Unowned' = Unowned \cup s /\ Unowned \cap s = {}
    BY <1>8, <2>1 DEF Unowned
  <2>3. IsFiniteSet(Unowned) /\ Cardinality(Unowned) \in Nat
    BY <1>2, UnownedFinite
  <2>4. Cardinality(Unowned') = Cardinality(Unowned) + Cardinality(s)
    BY <1>7, <2>2, <2>3, CountJoined
  <2>5. nr_freeitems + drift + InTransit = Cardinality(Unowned)
    BY DEF NodeInv, Counted
  <2>6. InTransit' \in Int
    BY <1>5, <1>7 DEF InTransit, FreedItems, m
  <2>7. nr_freeitems' + drift' + InTransit' = Cardinality(Unowned')
    BY <1>1, <1>2, <1>7, <1>9, <2>3, <2>4, <2>5, <2>6
  <2> QED  BY <2>7 DEF Counted
<1> QED  BY <1>1, <1>4, <1>10, <1>11, <1>12 DEF NodeInv

\* A round of free_group_migration counts what it lists.
LEMMA RoundKeeps ==
    ASSUME AlignedGrowth, NodeInv, free_round
    PROVE  NodeInv'
<1> DEFINE f == freeing
           n == Merges(f)
<1>1. /\ free_group_migration /\ UNCHANGED <<call, heads, drift>>
      /\ nr_freeitems' = nr_freeitems + IF fault' THEN 0 ELSE FreedItems(freeing)
  BY DEF free_round
<1>2. /\ ~fault /\ freeing # NoFree /\ UNCHANGED <<grown, owners, held>>
      /\ free_group_round(f, n)
  BY <1>1 DEF free_group_migration, holders
<1>3. call = NoCall /\ GroupInv /\ nr_freeitems \in Int /\ drift \in Nat /\ heads \subseteq held
  BY <1>2 DEF NodeInv, TypeOKNode
<1>4. GroupInv'
  BY <1>1, <1>3, FreeKeeps
<1>5. FreedItems(f) \in Nat
  <2>1. f.lvl \in 0..3 /\ f.order \in Nat
    BY <1>2, <1>3, FreedIs
  <2>2. BlockItems(f.lvl, f.order) \in Nat
    BY <2>1, BlockSize
  <2> QED  BY <2>2 DEF FreedItems
<1>6. nr_freeitems' \in Int /\ nr_freeitems' + InTransit' = nr_freeitems + InTransit /\ InTransit' \in Int
  <2>1. InTransit = FreedItems(f)
    BY <1>2 DEF InTransit
  <2>2. CASE OutOfBounds(f, n)
    <3>1. fault' = TRUE /\ freeing' = f
      BY <1>2, <2>2 DEF free_group_round
    <3>2. InTransit' = FreedItems(f)
      BY <1>2, <3>1 DEF InTransit
    <3> QED  BY <1>1, <1>3, <1>5, <2>1, <3>1, <3>2
  <2>3. CASE ~OutOfBounds(f, n)
    <3>1. ~IsPromoted(f, n)
      BY <1>2, <1>3, NotPromoted
    <3>2. fault' = fault /\ freeing' = NoFree
      BY <1>2, <2>3, <3>1 DEF free_group_round
    <3>3. InTransit' = 0
      BY <3>2 DEF InTransit
    <3> QED  BY <1>1, <1>2, <1>3, <1>5, <2>1, <3>2, <3>3
  <2> QED  BY <2>2, <2>3
<1>7. TypeOKNode'
  BY <1>1, <1>2, <1>3, <1>4, <1>6 DEF NodeInv, TypeOKNode, GroupInv
<1>8. CallServes'
  BY <1>1, <1>3, CallNext
<1>9. Counted'
  <2>1. Unowned' = Unowned
    BY <1>2 DEF Unowned, Existing
  <2>2. nr_freeitems + drift + InTransit = Cardinality(Unowned)
    BY DEF NodeInv, Counted
  <2>3. InTransit \in Int
    BY <1>2, <1>5 DEF InTransit
  <2>4. nr_freeitems' + drift' + InTransit' = Cardinality(Unowned')
    BY <1>1, <1>3, <1>6, <2>1, <2>2, <2>3
  <2> QED  BY <2>4 DEF Counted
<1> QED  BY <1>1, <1>3, <1>4, <1>7, <1>8, <1>9 DEF NodeInv

\* The items of a growth are counted.
LEMMA GrowKeeps ==
    ASSUME AlignedGrowth, NodeInv, node_grows
    PROVE  NodeInv'
<1> DEFINE n == grown + 1
           lo == ItemsAfter[grown]
           hi == ItemsAfter[n]
           size == Sizes[n]
<1>1. /\ update_pnode /\ UNCHANGED <<call, heads, drift>> /\ nr_freeitems' = nr_freeitems + size
      /\ call = NoCall /\ freeing = NoFree
  BY DEF node_grows, Idle
<1>2. /\ GroupInv /\ TypeOK /\ nr_freeitems \in Int /\ drift \in Nat /\ heads \subseteq held
  BY DEF NodeInv, TypeOKNode, GroupInv
<1>3. grown < Len(Sizes) /\ grown' = n /\ UNCHANGED <<held, owners, freeing>>
  BY <1>1 DEF update_pnode, holders
<1>4. GroupInv'
  BY <1>1, <1>2, UpdateKeeps
<1>5. /\ Existing = 0..(lo - 1) /\ Existing' = 0..(hi - 1) /\ lo \in Nat /\ hi \in Nat
      /\ hi = lo + size /\ size \in Nat /\ Existing' \subseteq Item
  <2>1. grown \in 0..Len(Sizes) /\ lo \in Nat /\ Existing = 0..(lo - 1)
    BY <1>2, GrownIs
  <2>2. n \in 1..Len(Sizes) /\ n \in 0..Len(Sizes) /\ n - 1 = grown
    <3>1. Len(Sizes) \in Nat
      BY Growth
    <3> QED  BY <1>3, <2>1, <3>1
  <2>3. hi \in Nat /\ hi = ItemsAfter[n - 1] + size
    BY <2>2, Growth
  <2>4. size \in Nat
    BY <2>2, FreeGroupAssumption
  <2>5. Existing' = 0..(hi - 1)
    BY <1>3 DEF Existing
  <2>6. hi <= ItemsAfter[Len(Sizes)] /\ ItemsAfter[Len(Sizes)] \in Nat
        /\ Item = 0..(ItemsAfter[Len(Sizes)] - 1)
    BY <2>2, ItemIs
  <2> HIDE DEF hi, size, n, lo
  <2>7. Existing' \subseteq Item
    BY <2>3, <2>5, <2>6
  <2>8. hi = lo + size
    BY <2>2, <2>3 DEF lo
  <2> QED  BY <2>1, <2>3, <2>4, <2>5, <2>7, <2>8
<1> HIDE DEF n, lo, hi, size
<1>6. ASSUME NEW i \in lo..(hi - 1) PROVE i \in Item /\ owners[i] = 0
  <2>1. i \in Item /\ i \in Int /\ ~ (i < lo)
    BY <1>5
  <2>2. ASSUME NEW b \in held PROVE ~Has(b, i)
    <3>1. BlockOf(b) \in Whole /\ (Has(BlockOf(b), i) <=> Has(b, i))
      BY <1>2, HeldIs
    <3>2. Has(BlockOf(b), i) => i < lo
      BY <1>2, <2>1, <3>1 DEF GroupInv, Tiled, Tiles, lo
    <3> QED  BY <2>1, <3>1, <3>2
  <2> QED  BY <1>2, <2>1, <2>2 DEF GroupInv, OwnersExact
<1> DEFINE new == lo..(hi - 1)
<1>7. IsFiniteSet(new) /\ Cardinality(new) = size
  <2>1. lo \in Int /\ hi - 1 \in Int
    BY <1>5
  <2>2. IsFiniteSet(lo..(hi - 1))
        /\ Cardinality(lo..(hi - 1)) = IF lo > hi - 1 THEN 0 ELSE (hi - 1) - lo + 1
    BY <2>1, FS_Interval
  <2> QED  BY <1>5, <2>2
<1>8. Unowned' = Unowned \cup new /\ Unowned \cap new = {}
  <2>1. Existing' = Existing \cup new /\ Existing \cap new = {}
    BY <1>5
  <2>2. \A x \in new : owners[x] = 0
    BY <1>6
  <2> HIDE DEF new
  <2> QED  BY <1>3, <2>1, <2>2 DEF Unowned
<1> HIDE DEF new
<1>9. Counted'
  <2>1. IsFiniteSet(Unowned) /\ Cardinality(Unowned) \in Nat
    BY <1>2, UnownedFinite
  <2>2. Cardinality(Unowned') = Cardinality(Unowned) + Cardinality(new)
    BY <1>7, <1>8, <2>1, CountJoined
  <2>3. InTransit = 0 /\ InTransit' = 0
    BY <1>1, <1>3 DEF InTransit
  <2>4. nr_freeitems + drift + InTransit = Cardinality(Unowned)
    BY DEF NodeInv, Counted
  <2>5. nr_freeitems' + drift' + InTransit' = Cardinality(Unowned')
    BY <1>1, <1>2, <1>5, <1>7, <2>1, <2>2, <2>3, <2>4
  <2> QED  BY <2>5 DEF Counted
<1>10. TypeOKNode'
  BY <1>1, <1>2, <1>3, <1>4, <1>5 DEF NodeInv, TypeOKNode, GroupInv
<1>11. CallServes'
  BY <1>1, CallNext
<1>12. freeing' # NoFree => call' = NoCall
  BY <1>1
<1> QED  BY <1>4, <1>9, <1>10, <1>11, <1>12 DEF NodeInv

LEMMA NodeInit ==
    ASSUME AlignedGrowth, InitNode
    PROVE  NodeInv
<1>1. Init /\ call = NoCall /\ heads = {} /\ drift = 0
  BY DEF InitNode
<1>2. GroupInv
  BY <1>1, InitInv
<1>3. grown = AtStart /\ freeing = NoFree /\ \A i \in Item : owners[i] = 0
  BY <1>1 DEF Init
<1>4. nr_freeitems = ItemsAfter[grown]
  <2>1. nr_freeitems = MapThenSumSet(LAMBDA k : Sizes[k], 1..AtStart)
    BY DEF InitNode
  <2> QED  BY <1>3, <2>1, StartSum
<1>5. Existing = 0..(ItemsAfter[grown] - 1) /\ ItemsAfter[grown] \in Nat /\ Existing \subseteq Item
  BY <1>2, GrownIs DEF GroupInv
<1>6. TypeOKNode
  BY <1>1, <1>2, <1>4, <1>5 DEF TypeOKNode, GroupInv
<1>7. CallServes
  BY <1>1 DEF CallServes
<1>8. Counted
  <2> DEFINE n == ItemsAfter[grown]
  <2>1. Unowned = 0..(n - 1)
    BY <1>3, <1>5 DEF Unowned
  <2>2. n \in Nat
    BY <1>5
  <2> HIDE DEF n
  <2>3. 0 \in Int /\ n - 1 \in Int
    BY <2>2
  <2>4. Cardinality(0..(n - 1)) = IF 0 > n - 1 THEN 0 ELSE (n - 1) - 0 + 1
    BY <2>3, FS_Interval
  <2>5. Cardinality(Unowned) = n
    BY <2>1, <2>2, <2>4
  <2>6. InTransit = 0
    BY <1>3 DEF InTransit
  <2> QED  BY <1>1, <1>4, <2>2, <2>5, <2>6 DEF Counted, n
<1> QED  BY <1>1, <1>2, <1>6, <1>7, <1>8 DEF NodeInv

\* The calls of the node's callers are the ones AllocKeeps is about.
LEMMA CallerAllocs ==
    ASSUME PlainCallers, NEW r \in Callers,
           node_struct_alloc(r.nitems, r.flags, r.nitems * FIXED_ITEM_SIZE, FALSE), NodeInv
    PROVE  NodeInv'
<1> DEFINE n == r.nitems
<1>1. n \in Nat /\ n >= 1 /\ r.flags \in CallerFlags /\ PlainCall(n, r.flags)
  <2>1. r \in [nitems : Nat \ {0}, flags : {"RESERVED", "DEBUG", "DCONT", "OBJECT"}]
    BY NodeGroupsAssumption
  <2> QED  BY <2>1 DEF CallerFlags, PlainCallers
<1>2. n * FIXED_ITEM_SIZE \in Nat /\ (n - 1) * FIXED_ITEM_SIZE < n * FIXED_ITEM_SIZE
  BY <1>1, CallerBytes
<1>3. n * FIXED_ITEM_SIZE <= n * FIXED_ITEM_SIZE
  BY <1>2
<1> QED  BY <1>1, <1>2, <1>3, AllocKeeps

LEMMA KmallocAllocs ==
    ASSUME PlainCallers, NEW size \in KmallocSizes, kmalloc(size), NodeInv
    PROVE  NodeInv'
<1>1. size \in Nat /\ size # 0 /\ size \in KmallocSizes \ {0}
      /\ node_struct_alloc(size_to_item(size), "OBJECT", size, TRUE)
  BY NodeGroupsAssumption DEF kmalloc
<1>2. PlainCall(size_to_item(size), "OBJECT") /\ "OBJECT" \in CallerFlags
  BY <1>1 DEF PlainCallers, CallerFlags
<1>3. (size_to_item(size) - 1) * FIXED_ITEM_SIZE < size /\ size <= size_to_item(size) * FIXED_ITEM_SIZE
  BY <1>1, KmallocBytes
<1> QED  BY <1>1, <1>2, <1>3, AllocKeeps

LEMMA NodeStepKeeps ==
    ASSUME AlignedGrowth, PlainCallers, NodeInv, [NextNode]_nodeVars
    PROVE  NodeInv'
<1>1. CASE UNCHANGED nodeVars
  BY <1>1, StutterKeeps
<1>2. ASSUME NEW r \in Callers,
             node_struct_alloc(r.nitems, r.flags, r.nitems * FIXED_ITEM_SIZE, FALSE)
      PROVE  NodeInv'
  BY <1>2, CallerAllocs
<1>3. ASSUME NEW size \in KmallocSizes, kmalloc(size) PROVE NodeInv'
  BY <1>3, KmallocAllocs
<1>4. CASE dispatch_forward \/ dispatch_migrate
  BY <1>4, DispatchKeeps
<1>5. CASE dispatch_exhausted \/ alloc_loses_range
  BY <1>5, CallFaultKeeps
<1>6. CASE alloc_returns
  BY <1>6, ReturnKeeps
<1>7. ASSUME NEW b \in heads, kfree(b) PROVE NodeInv'
  BY <1>7, GiveBackKeeps, CallFaultKeeps DEF kfree
<1>8. CASE free_round
  BY <1>8, RoundKeeps
<1>9. CASE node_grows
  BY <1>9, GrowKeeps
<1> QED  BY <1>1, <1>2, <1>3, <1>4, <1>5, <1>6, <1>7, <1>8, <1>9 DEF NextNode

(***************************************************************************)
(* What follows for the callers.                                           *)
(***************************************************************************)
LEMMA ItemsGotIs ==
    ItemsGot = GotItems(call.got)
<1>1. ItemsGot = (CHOOSE g : IsGotSum(g, call.got))[DOMAIN call.got]
  BY DEF ItemsGot, FoldLeft, MapThenFoldSet, IsGotSum
<1> QED  BY <1>1, GotSumIs

LEMMA InvRequest ==
    ASSUME NodeInv
    PROVE  RequestCovered
<1> SUFFICES ASSUME call # NoCall, call.todo = <<>>
             PROVE  /\ call.bytes <= ItemsGot * FIXED_ITEM_SIZE
                    /\ call.is_combined => (ItemsGot - 1) * FIXED_ITEM_SIZE < call.bytes
                    /\ ~call.is_combined =>
                         /\ Len(call.got) = 1
                         /\ ItemsGot * FIXED_ITEM_SIZE < 2 * (call.bytes + FIXED_ITEM_SIZE)
                    /\ \A i, j \in DOMAIN call.got :
                         i < j => BlockItems(call.got[i].lvl, call.got[i].order)
                                    > BlockItems(call.got[j].lvl, call.got[j].order)
  BY DEF RequestCovered
<1>1. call \in Call
  BY DEF NodeInv, TypeOKNode
<1>2. PICK n \in 1..BIT(MaxShift), flags \in CallerFlags : Serves(call, n, flags)
  BY DEF NodeInv, CallServes
<1> DEFINE q == Request(n, flags)
           got == call.got
           m == psize(n, flags)
           d == FIXED_ITEM_SIZE
<1>3. /\ got \in Seq(Held) /\ Len(got) \in Nat /\ Len(got) = Len(q)
      /\ \A i \in 1..Len(got) :
           got[i] \in Held /\ q[i] = [lvl |-> got[i].lvl, order |-> got[i].order]
  BY <1>1, <1>2, GotIs
<1>4. IsSingle(n, flags) /\ IsRequest(q, n, flags)
  BY <1>2, RequestIs DEF Serves
<1>5. /\ (n - 1) * d < call.bytes /\ call.bytes <= n * d
      /\ call.is_combined = IsCombined(n, flags)
  BY <1>2 DEF Serves
<1>6. call.bytes \in Nat /\ call.is_combined \in BOOLEAN
  BY <1>1 DEF Call
<1>7. m \in Nat /\ n \in Nat /\ n >= 1 /\ n <= m /\ m < 2 * n /\ (IsCombined(n, flags) => m = n)
  <2>1. m \in 1..BIT(MaxShift) /\ n <= m /\ m < 2 * n /\ (IsCombined(n, flags) => m = n)
    BY <1>4, PsizeIs
  <2> HIDE DEF m
  <2> QED  BY <2>1, NodeConstants
<1>8. SumsTo(q, m) /\ FallsInSize(q) /\ (~IsCombined(n, flags) => Len(q) = 1)
  BY <1>4 DEF IsRequest
<1> HIDE DEF q, m
<1>9. ASSUME NEW i \in 1..Len(got)
      PROVE  ItemsOf(q[i]) = ItemsOf(got[i]) /\ ItemsOf(got[i]) \in Nat
  <2>1. got[i] \in Held /\ q[i] = [lvl |-> got[i].lvl, order |-> got[i].order]
    BY <1>3
  <2> DEFINE h == got[i]
  <2>2. h.lvl \in 0..3 /\ h.order \in Nat
    <3>1. h \in Held
      BY <2>1
    <3> HIDE DEF h
    <3>2. h.lvl \in Lvl /\ h.order \in Order
      BY <3>1 DEF Held
    <3>3. Lvl \subseteq 0..3 /\ Order \subseteq Nat
      BY Constants
    <3> QED  BY <3>2, <3>3
  <2>3. ItemsOf(q[i]) = BlockItems(h.lvl, h.order) /\ ItemsOf(h) = BlockItems(h.lvl, h.order)
    BY <2>1 DEF ItemsOf
  <2> HIDE DEF h
  <2>4. BlockItems(h.lvl, h.order) \in Nat
    BY <2>2, BlockSize
  <2> QED  BY <2>3, <2>4 DEF h
<1>10. SumsTo(got, m)
  <2>1. PICK g : RunsAlong(g, q) /\ g[Len(q)] = m
    BY <1>8 DEF SumsTo
  <2>2. RunsAlong(g, got)
    BY <1>3, <1>9, <2>1 DEF RunsAlong
  <2> QED  BY <1>3, <2>1, <2>2 DEF SumsTo
<1>11. DOMAIN got = 1..Len(got)
  BY <1>3
<1>12. ItemsGot = m
  <2>1. ItemsGot = GotItems(got)
    BY ItemsGotIs
  <2> HIDE DEF got
  <2>2. GotItems(got) = m
    BY <1>3, <1>9, <1>10, <1>11, GotSum
  <2> QED  BY <2>1, <2>2
<1>13. \A i, j \in DOMAIN got : i < j => BlockItems(got[i].lvl, got[i].order)
                                           > BlockItems(got[j].lvl, got[j].order)
  BY <1>3, <1>8, <1>9, <1>11 DEF FallsInSize, ItemsOf
<1>14. d \in Nat /\ d >= 1
  BY NodeConstants
<1> HIDE DEF d, got
<1> DEFINE nd == n * d
           md == m * d
<1>15. /\ nd \in Nat /\ md \in Nat /\ (n - 1) * d = nd - d
       /\ nd <= md /\ md < 2 * nd
  <2>1. nd \in Nat /\ md \in Nat /\ (n - 1) * d = nd - d /\ (2 * n) * d = 2 * nd
    BY <1>7, <1>14
  <2>2. m = n + (m - n) /\ m - n \in Nat /\ 2 * n = m + (2 * n - m) /\ 2 * n - m \in Nat /\ 2 * n - m >= 1
    BY <1>7
  <2>3. \A a, b \in Nat : (a + b) * d = a * d + b * d /\ b * d \in Nat /\ (b >= 1 => b * d >= d)
    BY <1>14
  <2>4. md = nd + (m - n) * d /\ (m - n) * d \in Nat
    BY <1>7, <2>2, <2>3
  <2>5. (2 * n) * d = md + (2 * n - m) * d /\ (2 * n - m) * d \in Nat /\ (2 * n - m) * d >= d
    BY <1>7, <2>2, <2>3
  <2> DEFINE x == (m - n) * d
             y == (2 * n - m) * d
             z == (2 * n) * d
  <2>6. md = nd + x /\ x \in Nat /\ z = md + y /\ y \in Nat /\ y >= d /\ z = 2 * nd
    BY <2>1, <2>4, <2>5
  <2>7. nd \in Nat /\ md \in Nat /\ (n - 1) * d = nd - d
    BY <2>1
  <2> HIDE DEF x, y, z, nd, md
  <2>8. nd <= md /\ md < 2 * nd
    BY <1>14, <2>6, <2>7
  <2> QED  BY <2>7, <2>8
<1>16. nd - d < call.bytes /\ call.bytes <= nd
  BY <1>5, <1>15
<1>17. call.is_combined => (m - 1) * d < call.bytes
  BY <1>5, <1>7
<1> HIDE DEF nd, md
<1>18. call.bytes <= md /\ md < 2 * (call.bytes + d)
  BY <1>6, <1>14, <1>15, <1>16
<1> QED  BY <1>3, <1>5, <1>8, <1>12, <1>13, <1>17, <1>18 DEF d, got, md

LEMMA InvWatermark ==
    ASSUME AlignedGrowth, NodeInv
    PROVE  WatermarkExact
<1> SUFFICES ASSUME Idle PROVE nr_freeitems + drift = ListedItems
  BY DEF WatermarkExact
<1>1. freeing = NoFree /\ InTransit = 0 /\ Moving = {}
  BY DEF Idle, InTransit, Moving
<1>2. GroupInv /\ nr_freeitems \in Int /\ drift \in Nat
  BY DEF NodeInv, TypeOKNode
<1>3. nr_freeitems + drift = Cardinality(Unowned)
  BY <1>1, <1>2 DEF NodeInv, Counted
<1> DEFINE listed == {x \in Existing : \E b \in Free : x \in SpanOf(b)}
<1>4. /\ Existing = 0..(ItemsAfter[grown] - 1) /\ ItemsAfter[grown] \in Nat
      /\ Existing \subseteq Item
  BY <1>2, GrownIs DEF GroupInv
<1>5. ASSUME NEW b \in Free, NEW x PROVE x \in SpanOf(b) <=> x \in Int /\ Has(b, x)
  <2>1. IsBlock(BlockOf(b))
    BY <1>2, FreeFinite
  <2> QED  BY <2>1, SpanIs
<1>6. ASSUME NEW x \in Existing
      PROVE  owners[x] = 0 <=> \E b \in Free : x \in SpanOf(b)
  <2>1. x \in Int /\ 0 <= x /\ x < ItemsAfter[grown] /\ x \in Item
    BY <1>4
  <2>2. owners[x] = IF \E b \in held : Has(b, x) THEN 1 ELSE 0
    BY <1>2, <2>1 DEF GroupInv, OwnersExact
  <2>3. ASSUME owners[x] = 0 PROVE \E b \in Free : x \in SpanOf(b)
    <3>1. PICK b \in Whole : Has(b, x)
      BY <1>2, <2>1 DEF GroupInv, Tiled, Tiles
    <3>2. b \notin InUse
      <4> SUFFICES ASSUME b \in InUse PROVE FALSE
        OBVIOUS
      <4>1. PICK c \in held : b = BlockOf(c)
        BY DEF InUse, BlockOf
      <4>2. Has(c, x)
        BY <3>1, <4>1 DEF Has, BlockOf
      <4> QED  BY <2>2, <2>3, <4>2
    <3>3. b \in Free
      BY <1>1, <3>2 DEF Whole
    <3> QED  BY <1>5, <2>1, <3>1, <3>3
  <2>4. ASSUME NEW b \in Free, x \in SpanOf(b) PROVE owners[x] = 0
    <3> SUFFICES ASSUME NEW c \in held, Has(c, x) PROVE FALSE
      BY <2>2
    <3>1. Has(b, x) /\ b \in Whole
      BY <1>5, <2>4 DEF Whole
    <3>2. BlockOf(c) \in Whole /\ Has(BlockOf(c), x) /\ \A s \in Slot : c.item \notin ToSet(cell[s])
      BY <1>2, HeldIs
    <3>3. b = BlockOf(c)
      BY <1>2, <2>1, <3>1, <3>2 DEF GroupInv, Tiled, Tiles
    <3>4. PICK s \in Slot : \E i \in ToSet(cell[s]) : b = BlockIn(i, s)
      BY FreeIs DEF IsListed
    <3> QED  BY <3>2, <3>3, <3>4 DEF BlockIn, BlockOf
  <2> QED  BY <2>3, <2>4
<1>7. Unowned = listed
  BY <1>6 DEF Unowned
<1>8. ListedItems = Cardinality(listed)
  BY <1>2, ListedSum
<1> QED  BY <1>3, <1>7, <1>8

LEMMA NodeStepServesPool ==
    ASSUME AlignedGrowth, PlainCallers, NodeInv, [NextNode]_nodeVars
    PROVE  [Pool!NextPool]_owners
<1>1. \A b \in PoolBlocks : Pool!Grant(b) \/ Pool!Return(b) => Pool!NextPool
  BY DEF Pool!NextPool, PoolBlocks
<1>2. CASE UNCHANGED nodeVars
  BY <1>2, VarsKept DEF nodeVars
<1>3. ASSUME NEW n, NEW flags, NEW bytes, NEW w, node_struct_alloc(n, flags, bytes, w)
      PROVE  owners' = owners
  BY <1>3, VarsKept DEF node_struct_alloc
<1>4. ASSUME NEW r \in Callers,
             node_struct_alloc(r.nitems, r.flags, r.nitems * FIXED_ITEM_SIZE, FALSE)
      PROVE  [Pool!NextPool]_owners
  BY <1>3, <1>4
<1>5. ASSUME NEW size \in KmallocSizes, kmalloc(size) PROVE [Pool!NextPool]_owners
  BY <1>3, <1>5 DEF kmalloc
<1>6. CASE dispatch_forward \/ dispatch_migrate
  <2> DEFINE p == Head(call.todo)
             l == p.lvl
             o == p.order
             t == call.type
  <2>1. call # NoCall /\ call.todo # <<>> /\ (dispatch_group(l, t, o) \/ migrate_group(l, t, o))
    BY <1>6 DEF dispatch_forward, dispatch_migrate, Running
  <2>2. call \in Call /\ GroupInv
    BY <2>1 DEF NodeInv, TypeOKNode
  <2>3. PICK n \in 1..BIT(MaxShift), flags \in CallerFlags : Serves(call, n, flags)
    BY <2>1 DEF NodeInv, CallServes
  <2>4. l \in Lvl /\ o \in Order /\ t \in MigrationType /\ Plain(l, t, o)
    BY <2>1, <2>2, <2>3, NextAsked
  <2> HIDE DEF l, o, t
  <2>5. \E hb : HandsOut(hb, l, o)
    BY <2>1, <2>2, <2>4, ServedIs
  <2> QED  BY <1>1, <2>2, <2>4, <2>5, HandsOutGrants
<1>7. CASE dispatch_exhausted \/ alloc_loses_range
  BY <1>7 DEF dispatch_exhausted, alloc_loses_range, holders
<1>8. CASE alloc_returns
  BY <1>8, VarsKept DEF alloc_returns
<1>9. ASSUME NEW b \in heads, kfree(b) PROVE [Pool!NextPool]_owners
  <2>1. CASE node_struct_free(b)
    <3>1. dequeue_group_migration(b) /\ b \in held /\ GroupInv
      BY <2>1 DEF node_struct_free, NodeInv, TypeOKNode
    <3> QED  BY <1>1, <3>1, DequeueReturns
  <2>2. CASE free_without_group(b)
    BY <2>2 DEF free_without_group, dequeue_group_sparse, holders
  <2> QED  BY <1>9, <2>1, <2>2 DEF kfree
<1>10. CASE free_round
  BY <1>10 DEF free_round, free_group_migration, holders
<1>11. CASE node_grows
  BY <1>11 DEF node_grows, update_pnode, holders
<1> QED  BY <1>2, <1>4, <1>5, <1>6, <1>7, <1>8, <1>9, <1>10, <1>11 DEF NextNode

\* Whatever its callers ask for, in whatever order, a node keeps the tiling of
\* its items and knows how many nobody has, and a call's blocks are those of its
\* request.
THEOREM NodeInvariant ==
    ASSUME AlignedGrowth, PlainCallers
    PROVE  SpecNode => []NodeInv
<1>1. InitNode => NodeInv
  BY NodeInit
<1>2. NodeInv /\ [NextNode]_nodeVars => NodeInv'
  BY NodeStepKeeps
<1> QED  BY <1>1, <1>2, PTL DEF SpecNode

\* The variables of the callers keep their types: a running call's blocks are of
\* the node's levels, and a caller that can give a block back holds it.
THEOREM NodeTypes ==
    ASSUME AlignedGrowth, PlainCallers
    PROVE  SpecNode => []TypeOKNode
<1>1. NodeInv => TypeOKNode
  BY DEF NodeInv
<1> QED  BY <1>1, NodeInvariant, PTL

\* Under the node's callers, too, no item is ever in two blocks.
THEOREM NodeDisjoint ==
    ASSUME AlignedGrowth, PlainCallers
    PROVE  SpecNode => []BlocksDisjoint
<1>1. NodeInv => BlocksDisjoint
  BY InvDisjoint DEF NodeInv
<1> QED  BY <1>1, NodeInvariant, PTL

\* node_struct_alloc and kmalloc give the bytes they are asked for: a combined
\* request is cut into blocks of exactly its items, the largest first, and a
\* request for one block gets one of less than twice its items.
THEOREM NodeRequests ==
    ASSUME AlignedGrowth, PlainCallers
    PROVE  SpecNode => []RequestCovered
<1>1. NodeInv => RequestCovered
  BY InvRequest
<1> QED  BY <1>1, NodeInvariant, PTL

\* The promises FreeGroup makes to any caller hold under these: no item is lost,
\* the counts the budgets add up are the lengths of the lists, a held block's
\* descriptor stays as it is, cached items are single and buddies are joined.
THEOREM NodeKeepsGroups ==
    ASSUME AlignedGrowth, PlainCallers
    PROVE  SpecNode => [](NothingLost /\ CountsExact /\ HeldIntact /\ CachedAreSingle /\ Coalesced)
<1>1. NodeInv => NothingLost /\ CountsExact /\ HeldIntact /\ CachedAreSingle /\ Coalesced
  BY InvNothingLost, InvCounts, InvHeld, InvCached DEF NodeInv, GroupInv
<1> QED  BY <1>1, NodeInvariant, PTL

\* attr.nr_freeitems, which the budget decisions read, is short of the items in
\* the lists by the UNMOVABLE items that were freed and by nothing else.
THEOREM NodeWatermark ==
    ASSUME AlignedGrowth, PlainCallers
    PROVE  SpecNode => []WatermarkExact
<1>1. NodeInv => WatermarkExact
  BY InvWatermark
<1> QED  BY <1>1, NodeInvariant, PTL

\* The node implements the pool of items: whatever its callers do, what it hands
\* out nobody has, and what comes back had been handed out.
THEOREM NodeServesPool ==
    ASSUME AlignedGrowth, PlainCallers
    PROVE  SpecNode => RefinesPool
<1>1. InitNode => Pool!InitPool
  BY DEF InitNode, Init, Pool!InitPool
<1>2. NodeInv /\ [NextNode]_nodeVars => [Pool!NextPool]_owners
  BY NodeStepServesPool
<1> QED  BY <1>1, <1>2, NodeInvariant, PTL DEF SpecNode, RefinesPool, Pool!SpecPool
=============================================================================
