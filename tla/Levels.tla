------------------------------- MODULE Levels -------------------------------
(***************************************************************************)
(* The arithmetic of levels and orders: how many items a block of a level  *)
(* and order stands for, how __init_pnode_item cuts new descriptors into   *)
(* blocks, and how find_group cuts a request into them.  No state.         *)
(***************************************************************************)
EXTENDS Integers, Sequences, SequencesExt, FiniteSetsExt

CONSTANT F     \* FUNCTION_ITEM(GROUP_ORDER_NUM_SHIFT), 9 in the code

ASSUME LevelsAssumption == F \in Nat \ {0, 1}

MAX_GROUP_LVLS == 3
MAX_ITEM_ORDER == F - 1
GROUP_ORDER_NUM_SHIFT == F + 3

BIT(n) == 2 ^ n
FUNCTION_ITEM_LVL(l) == (MAX_GROUP_LVLS - l) * F
block_size(l) == BIT(FUNCTION_ITEM_LVL(l))

\* The items a block stands for.
BlockItems(l, o) == BIT(o + FUNCTION_ITEM_LVL(l))

\* MaxShift bounds the shifts: a size is below 2^31 items.
MaxShift == 30
OneBits(n) == {k \in 0..MaxShift : (n \div BIT(k)) % 2 = 1}

\* The members of a set of numbers, in their order.
Ascending(S) ==
    CHOOSE q \in [1..Cardinality(S) -> S] : \A i, j \in DOMAIN q : i < j => q[i] < q[j]

\* The last bit set, counted from one.
fls(n) == IF n = 0 THEN 0 ELSE Max(OneBits(n)) + 1

(***************************************************************************)
(* Descriptors and first blocks.                                           *)
(***************************************************************************)

\* pn_item: the descriptors of n items, the greatest power of two in n.
Descriptors(n) == BIT(fls(n) - 1)

\* The first level one of whose blocks n items fill; -1 without one, for the
\* last level is not tried.
nitems_to_lvl(n) ==
    LET filled == {l \in 0..(MAX_GROUP_LVLS - 1) : block_size(l) <= n}
    IN  IF filled = {} THEN -1 ELSE Min(filled)

\* Mutant: the blocks are counted from zero, as the growing-down build does.
Cut_FromZero(s, l, o) ==
    LET size == BlockItems(l, o)
        max_block_free == s.rel_pa_offset \div size
    IN  [s EXCEPT !.rel_pa_offset = @ - max_block_free * size,
                  !.item_start = @ - max_block_free * size,
                  !.blocks = @ \cup {[item |-> s.item_start - (i - 1) * size, lvl |-> l, order |-> o] :
                                      i \in 1..max_block_free}]

\* So many blocks are listed.  The last one is the uppermost, and the next
\* smaller blocks are put below it.
CutBlocks(s, l, o, max_block_free) ==
    LET size == BlockItems(l, o)
    IN  [s EXCEPT !.rel_pa_offset = @ - max_block_free * size,
                  !.item_start = @ - size,
                  !.order = IF l = s.lvl /\ @ = 0
                            THEN Min({o + 1, GROUP_ORDER_NUM_SHIFT}) ELSE @,
                  !.blocks = @ \cup
                     {[item |-> s.item_start - i * size, lvl |-> l, order |-> o] :
                         i \in 1..max_block_free}]

\* The blocks of one order of a level.
Cut(s, l, o) ==
    LET max_block_free == s.rel_pa_offset \div BlockItems(l, o)
    IN  IF max_block_free = 0 THEN s ELSE CutBlocks(s, l, o, max_block_free)

\* The orders of a level, from the highest on.
CutOrders(s, l) ==
    LET after[i \in 0..F] == IF i = 0 THEN s ELSE Cut(after[i - 1], l, F - i)
    IN  after[F]

\* Mutant: a node that begins inside a block of the level gets one all the same.
CutLevel_AnyOffset(s, l) ==
    IF block_size(l) > s.rel_pa_offset THEN s ELSE CutOrders(s, l)

\* A level is passed over when its blocks are too large, or when the node does
\* not begin at one; phy_group_lvl then moves on.
CutLevel(s, l) ==
    IF block_size(l) > s.rel_pa_offset THEN s
    ELSE IF s.offset % block_size(l) # 0 THEN [s EXCEPT !.lvl = @ + 1]
         ELSE CutOrders(s, l)

\* The loop over the levels from phy_group_lvl on: the blocks of the n items
\* whose descriptors end at `end', of a node that begins at item `offset'.
__init_pnode_item(n, end, lvl, order, offset) ==
    LET start == [rel_pa_offset |-> n, item_start |-> end, lvl |-> lvl, order |-> order,
                  offset |-> offset, blocks |-> {}]
        after[i \in 0..(MAX_GROUP_LVLS + 1 - lvl)] ==
            IF i = 0 THEN start ELSE CutLevel(after[i - 1], lvl + i - 1)
    IN  after[MAX_GROUP_LVLS + 1 - lvl]

(***************************************************************************)
(* Requests.                                                               *)
(***************************************************************************)

\* Mutant: the order is not rounded up.
item_to_order_Down(n) == IF n = 0 THEN 0 ELSE fls(n) - 1

\* The least order of n items or more.
item_to_order(n) ==
    IF n = 0 THEN 0
    ELSE IF n > BIT(fls(n) - 1) THEN fls(n) ELSE fls(n) - 1

\* What item_to_orders leaves of n: its highest bit is cleared.
item_to_orders_Rest(n) == IF n = 0 THEN 0 ELSE n - BIT(fls(n) - 1)

\* The blocks of level l in a request whose search begins at level `first':
\* the level above has taken its multiples.
lvl_nitem(n, first, l) ==
    (IF l = first THEN n ELSE n % block_size(l - 1)) \div block_size(l)

\* The orders asked of a level: for a combined request the bits of the number
\* of blocks, from the highest on, else one order for all.
LvlOrders(k, is_combined) ==
    IF k = 0 THEN <<>>
    ELSE IF is_combined THEN Reverse(Ascending(OneBits(k)))
         ELSE <<item_to_order(k)>>

\* The blocks find_group asks for, in its order.
find_group(n, first, is_combined) ==
    FlattenSeq([i \in 1..(MAX_GROUP_LVLS + 1 - first) |->
        LET l == first + i - 1
            orders == LvlOrders(lvl_nitem(n, first, l), is_combined)
        IN  [j \in DOMAIN orders |-> [lvl |-> l, order |-> orders[j]]]])
=============================================================================
