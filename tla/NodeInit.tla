------------------------------ MODULE NodeInit ------------------------------
(***************************************************************************)
(* How a physical node gets its descriptors, its first blocks and its      *)
(* range of addresses: init_pnode, update_pnode when its window or its     *)
(* memory grows, and the conversions between addresses and descriptors.    *)
(* The cutting into blocks is in Levels; FreeGroup starts from its result. *)
(*                                                                         *)
(* The node is its dimension's first, the one that get_current_pnode       *)
(* gives.  The dimension's other nodes have been given the same range and  *)
(* are looked at after it.                                                 *)
(***************************************************************************)
EXTENDS Levels

CONSTANTS Sizes,    \* the sizes, in items, a node is made of and grown by
          Offsets,  \* the addresses at which a node may begin
          FirstOffset,  \* attr.offset of node 0, which may be this one
          Space     \* descriptors the reserved range has room for

FIXED_ITEM_SIZE == BIT(GROUP_ORDER_NUM_SHIFT)

ASSUME NodeInitAssumption ==
    /\ Sizes \subseteq Nat \ {0}
    /\ Offsets \subseteq Nat
    /\ FirstOffset \in Nat
    /\ Space \in Nat

\* The sizes are powers of two.  Others get fewer descriptors than items.
PowerSizes == \A n \in Sizes : \E p \in 0..MaxShift : n = BIT(p)

VARIABLES made,             \* init_pnode has run
          items,            \* descriptors from phy_item_struct to its _end
          blocks,           \* what is listed, each [item, lvl, order]
          phy_group_lvl, phy_group_order,
          offset, size,     \* attr.offset and attr.size, in bytes
          nr_freeitems,     \* attr.nr_freeitems
          grown,            \* history: the sizes, the first one by init_pnode
          fault             \* a division by zero, or no room for descriptors

attr == <<offset, size, nr_freeitems>>
vars == <<made, items, blocks, phy_group_lvl, phy_group_order, attr, grown, fault>>

Block == [item : Int, lvl : 0..MAX_GROUP_LVLS, order : 0..MAX_ITEM_ORDER]

TypeOK ==
    /\ made \in BOOLEAN
    /\ items \in 0..Space
    /\ blocks \subseteq Block
    /\ phy_group_lvl \in -1..MAX_GROUP_LVLS
    /\ phy_group_order \in 0..GROUP_ORDER_NUM_SHIFT
    /\ offset \in {0} \cup Offsets
    /\ size \in Nat /\ nr_freeitems \in Nat
    /\ grown \in Seq(Sizes)
    /\ fault \in BOOLEAN

Init ==
    /\ made = FALSE
    /\ items = 0 /\ blocks = {}
    /\ phy_group_lvl = 0 /\ phy_group_order = 0
    /\ offset = 0 /\ size = 0 /\ nr_freeitems = 0
    /\ grown = <<>>
    /\ fault = FALSE

(***************************************************************************)
(* Addresses.                                                              *)
(***************************************************************************)
range_to_idx(range) == range \div BIT(GROUP_ORDER_NUM_SHIFT)
idx_to_range(idx) == idx * BIT(GROUP_ORDER_NUM_SHIFT)

\* __init_pnode_item sets the node of a block's first item.  The field of the
\* others is as init_item leaves it.
HasNode(item) == \E b \in blocks : b.item = item

\* An item counts from the node in its flags: without one, from node 0, whose
\* descriptors begin at the same place.
item_to_idx(item) ==
    item + range_to_idx(IF HasNode(item) THEN offset ELSE FirstOffset)

idx_to_rel_idx(idx) ==
    IF range_to_idx(offset) <= idx /\ idx < range_to_idx(offset + size)
    THEN idx - range_to_idx(offset) ELSE -1

item_to_range(item) == idx_to_range(item_to_idx(item))
range_to_item(range) == idx_to_rel_idx(range_to_idx(range))

(***************************************************************************)
(* Initialisation and growth.                                              *)
(***************************************************************************)

\* Mutant: the count is set, not added to.
GrownFree_Set(n) == n

GrownFree(n) == nr_freeitems + n

\* Mutant: the range does not grow with the node.
GrownSize_Kept(n) == size

GrownSize(n) == size + n * FIXED_ITEM_SIZE

\* Mutant: the room is asked for before the descriptors are counted.
NoRoom_Before(n) == items >= Space

\* __init_linear_space returns NULL, which __init_item_pernode does not ask.
NoRoom(n) == items + Descriptors(n) >= Space

\* The block size of level -1 is zero as an int.  A node that begins at item 0
\* is divided by it.  Another one does not begin at a multiple of it, as the
\* test sees it, and goes on with level 0.
Divides(lvl, base) == lvl = -1 /\ range_to_idx(base) = 0
FirstLevel(lvl) == IF lvl = -1 THEN 0 ELSE lvl

Fails(n, lvl, base) == NoRoom(n) \/ Divides(lvl, base)

\* The descriptors and blocks of n more items, of a node that begins at `base'.
\* Room for descriptors is asked for before the level is set.
Grow(n, lvl, base) ==
    LET end == items + Descriptors(n)
        s == __init_pnode_item(n, end, FirstLevel(lvl), phy_group_order, range_to_idx(base))
    IN  /\ grown' = Append(grown, n)
        /\ IF Fails(n, lvl, base)
           THEN /\ fault' = TRUE
                /\ phy_group_lvl' = IF NoRoom(n) THEN phy_group_lvl ELSE lvl
                /\ UNCHANGED <<items, blocks, phy_group_order>>
           ELSE /\ items' = end
                /\ blocks' = blocks \cup s.blocks
                /\ phy_group_lvl' = s.lvl
                /\ phy_group_order' = s.order
                /\ UNCHANGED fault

init_pnode(range, n) ==
    /\ ~made
    /\ made' = TRUE
    /\ offset' = range
    /\ size' = n * FIXED_ITEM_SIZE
    /\ nr_freeitems' = n
    /\ Grow(n, nitems_to_lvl(n), range)

\* The attributes grow last: a growth that fails has not touched them.
update_pnode(n) ==
    /\ made /\ ~fault
    /\ Grow(n, phy_group_lvl, offset)
    /\ IF Fails(n, phy_group_lvl, offset) THEN UNCHANGED <<nr_freeitems, size>>
       ELSE nr_freeitems' = GrownFree(n) /\ size' = GrownSize(n)
    /\ UNCHANGED <<made, offset>>

\* The next window of a node is as large as the first.
stream_window == made /\ update_pnode(grown[1])

Next ==
    \/ \E range \in Offsets, n \in Sizes : init_pnode(range, n)
    \/ \E n \in Sizes : update_pnode(n)
    \/ stream_window

Spec == Init /\ [][Next]_vars

(***************************************************************************)
(* Properties.                                                             *)
(***************************************************************************)
Size(b) == BlockItems(b.lvl, b.order)
Start(b) == b.item
End(b) == b.item + Size(b)

\* The blocks cover the descriptors of the node, each once: nothing before the
\* array, nothing beyond it, no overlap and no hole, however the node grew.
BlocksTile ==
    /\ \A b \in blocks : 0 <= Start(b) /\ End(b) <= items
    /\ \A b, c \in blocks : b # c => End(b) <= Start(c) \/ End(c) <= Start(b)
    /\ MapThenSumSet(Size, blocks) = items

\* The first growth, which __init_node announces before it is tried, has not
\* failed.
FirstMade == fault => Len(grown) > 1

\* The free items the node announces are the items of its lists, also when it
\* has failed to grow: only a node that could not be made announces more.
FreeItemsListed == FirstMade => nr_freeitems = MapThenSumSet(Size, blocks)

\* As long as no piece is larger than one before it, a block begins at a
\* multiple of its size among the descriptors, which is what makes the index of
\* its buddy its buddy's, and at a multiple of its level's block size among
\* all items, which __init_pnode_item asserts and remove_group_migration asks.
BlocksAligned ==
    (\A i, j \in DOMAIN grown : i < j => grown[i] >= grown[j]) =>
        \A b \in blocks :
            /\ Start(b) % Size(b) = 0
            /\ item_to_idx(Start(b)) % block_size(b.lvl) = 0

\* The address of a block leads back to its descriptor, though other items of
\* it do not know their node, every address inside it to the descriptor as far
\* behind, and every address in the node's range to a descriptor of the node.
AddressesLeadBack ==
    FirstMade =>
        /\ \A b \in blocks : \A k \in 0..(Size(b) - 1) :
              range_to_item(item_to_range(Start(b)) + k * FIXED_ITEM_SIZE) = Start(b) + k
        /\ \A idx \in 0..(Space + range_to_idx(offset)) :
              idx_to_rel_idx(idx) # -1 => idx_to_rel_idx(idx) \in 0..(items - 1)
=============================================================================
