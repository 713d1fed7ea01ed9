----------------------------- MODULE FreeGroup -----------------------------
(***************************************************************************)
(* The layered buddy lists of one physical node: the groups of its levels, *)
(* each with a list per migration type and order, and the descriptors the  *)
(* lists link.  remove_group_migration takes a block and splits it,        *)
(* free_group_migration puts one back and merges it with its buddies.      *)
(*                                                                         *)
(* The node begins at offset 0 (NodeInit has the others), so that an item  *)
(* is its relative index.  A listed block may have lost its node number    *)
(* in a merge; its index is then counted from the descriptors of node 0,   *)
(* which __init_linear_space puts at the same address.  Cells are          *)
(* sequences, head first; DList is where their links are modelled.         *)
(***************************************************************************)
EXTENDS Levels

CONSTANTS NodeId,     \* the node's id
          Sizes,      \* the sizes, in items, the node is made of and grown by
          AtStart,    \* how many of them it has got before the first request
          Requests,   \* the [lvl, order, type] callers ask for
          Lvl,        \* the levels whose groups are modelled
          MigrationType,   \* the migration types whose lists are
          NoFree      \* no free_group_migration is running

MIGRATION_MOVABLE == 0
MIGRATION_SPARSE_MOVABLE == 0     \* the two names are one value
MIGRATION_UNMOVABLE == 1
MIGRATION_LRUTYPE == 3

\* The descriptors after so many growths.
ItemsAfter[n \in 0..Len(Sizes)] == IF n = 0 THEN 0 ELSE ItemsAfter[n - 1] + Descriptors(Sizes[n])
Item == 0..(ItemsAfter[Len(Sizes)] - 1)
Order == 0..MAX_ITEM_ORDER
Slot == Lvl \X MigrationType \X Order

TopLvl == nitems_to_lvl(Sizes[1])     \* phy_group_lvl

\* What each growth cuts.
Cutting == [n \in 1..Len(Sizes) |-> __init_pnode_item(Sizes[n], ItemsAfter[n], TopLvl, 0, 0)]
TopOrder == Cutting[1].order          \* phy_group_order
BlocksOf(n) == Cutting[n].blocks

\* The descriptors a block of a level's list stands for.
Span(item, l, o) == item..(item + BlockItems(l, o) - 1)

ASSUME FreeGroupAssumption ==
    /\ Lvl \subseteq 0..MAX_GROUP_LVLS
    /\ MIGRATION_MOVABLE \in MigrationType
    /\ MigrationType \subseteq {MIGRATION_MOVABLE, MIGRATION_UNMOVABLE, MIGRATION_LRUTYPE}
    /\ Sizes \in Seq(Nat \ {0}) /\ AtStart \in 1..Len(Sizes)
    /\ NodeId \in Nat \ {0}
    /\ TopLvl \in 0..(MAX_GROUP_LVLS - 1)
    /\ \A n \in 1..Len(Sizes) : \A b \in BlocksOf(n) :
         b.lvl \in Lvl /\ Span(b.item, b.lvl, b.order) \subseteq Item
    /\ Requests \subseteq [lvl : Lvl, order : Order, type : MigrationType]

SpanOf(b) == Span(b.item, b.lvl, b.order)

\* A growth is a power of two and begins at a multiple of itself.
AlignedGrowth ==
    \A n \in 1..Len(Sizes) : \E p \in 0..MaxShift :
        Sizes[n] = BIT(p) /\ ItemsAfter[n - 1] % BIT(p) = 0

\* None of the first blocks of a level is of a higher order.
NeverCut(l, o) == \A n \in 1..Len(Sizes) : \A b \in BlocksOf(n) : b.lvl = l => b.order <= o

\* The items whose blocks may be cut and merged.
LastLevelItems == UNION {SpanOf(b) : b \in {c \in UNION {BlocksOf(n) : n \in 1..Len(Sizes)} :
                                        c.lvl = MAX_GROUP_LVLS}}

\* No block of the last level can grow up to the order that is promoted.
NeverPromoted == \A i \in Item : i % BIT(F - 1) = 0 => ~(Span(i, MAX_GROUP_LVLS, F - 1) \subseteq LastLevelItems)

\* A request for MOVABLE blocks cuts none above the last level, one for cached
\* blocks is for a single item (dispatch_group_migration asserts it), and one for
\* UNMOVABLE blocks is of the last level or for the node's highest order, at
\* which free_group_migration lists them as they are.
Plain(l, t, o) ==
    \/ t = MIGRATION_MOVABLE /\ (l = MAX_GROUP_LVLS \/ NeverCut(l, o))
    \/ t = MIGRATION_LRUTYPE /\ l = MAX_GROUP_LVLS /\ o = 0
    \/ t = MIGRATION_UNMOVABLE /\ l = MAX_GROUP_LVLS /\ NeverPromoted
    \/ t = MIGRATION_UNMOVABLE /\ l = TopLvl /\ o = TopOrder - 1 /\ NeverCut(l, o)

PlainRequests == \A r \in Requests : Plain(r.lvl, r.type, r.order)

VARIABLES grown,     \* how many of Sizes the node has got
          cell,      \* GROUP_CELL of a level, migration type and order
          count,     \* GROUP_CELLCOUNT
          present,   \* ITEM_PRESENT of the flags word
          order,     \* ITEM_ORDER
          state,     \* ITEM_STATE, as item_state_to_migration maps it
          section,   \* ITEM_SECTION: the level, all ones when cleared
          node,      \* ITEM_NODE
          held,      \* history: the blocks callers hold
          owners,    \* history: how many callers hold an item
          freeing,   \* the locals of a running free_group_migration
          fault      \* an access has left its array or went through NULL

lists == <<cell, count>>
descriptors == <<present, order, state, section, node>>
holders == <<held, owners>>
vars == <<grown, lists, descriptors, holders, freeing, fault>>

\* Mutant: BIT where MASK is meant.
CLEARED_SECTION_Bit == 32

CLEARED_SECTION == 31     \* clear_item_section writes MASK(OFFSET_ITEM_SECTION)

Held == [item : Item, lvl : Lvl, order : Order, type : MigrationType]
Locals == [item : Item, lvl : Int, order : Nat, index : Nat, type : MigrationType]

ASSUME NoFreeAssumption == NoFree \notin Locals

TypeOK ==
    /\ grown \in AtStart..Len(Sizes)
    /\ cell \in [Slot -> Seq(Item)]
    /\ count \in [Slot -> Int]
    /\ present \in [Item -> BOOLEAN]
    /\ order \in [Item -> Order]
    /\ state \in [Item -> MigrationType]
    /\ section \in [Item -> 0..31]
    /\ node \in [Item -> {0, NodeId}]
    /\ held \subseteq Held
    /\ owners \in [Item -> Nat]
    /\ freeing \in Locals \cup {NoFree}
    /\ fault \in BOOLEAN

\* A cell of blocks in the order in which they have been cut.
Listing(blocks, s) ==
    Ascending({b.item : b \in {c \in blocks : <<c.lvl, MIGRATION_MOVABLE, c.order>> = s}})

\* The blocks the node has at the start.
FirstBlocks == UNION {BlocksOf(n) : n \in 1..AtStart}

\* What the initialisation has listed.  init_item has zeroed the descriptors;
\* only the first one of a block gets its order and node.
Init ==
    /\ grown = AtStart
    /\ cell = [s \in Slot |-> Listing(FirstBlocks, s)]
    /\ count = [s \in Slot |-> Len(cell[s])]
    /\ present = [i \in Item |-> FALSE]
    /\ order = [i \in Item |->
         IF \E b \in FirstBlocks : b.item = i
         THEN (CHOOSE b \in FirstBlocks : b.item = i).order ELSE 0]
    /\ state = [i \in Item |-> MIGRATION_MOVABLE]
    /\ section = [i \in Item |-> 0]
    /\ node = [i \in Item |-> IF \E b \in FirstBlocks : b.item = i THEN NodeId ELSE 0]
    /\ held = {}
    /\ owners = [i \in Item |-> 0]
    /\ freeing = NoFree
    /\ fault = FALSE

\* The descriptors there are now.
Existing == 0..(ItemsAfter[grown] - 1)

Linked == UNION {ToSet(cell[s]) : s \in Slot}
list_in_list(i) == i \in Linked

IsSparse(t) == t = MIGRATION_SPARSE_MOVABLE

\* The bound that remove_group_migration and free_group_migration share.
MaxOrder(l, t) ==
    IF ~IsSparse(t) /\ l = TopLvl THEN TopOrder ELSE F - 1

(***************************************************************************)
(* remove_group_migration with split_group_migration.                      *)
(***************************************************************************)
SplitSize(l, t, k) == IF IsSparse(t) THEN BIT(k) ELSE BlockItems(l, k)

\* The orders whose list could serve; the search stops at the least.
Fits(l, t, o) == {k \in o..(MaxOrder(l, t) - 1) : cell[<<l, t, k>>] # <<>>}

CanRemove(l, t, o) ==
    /\ Fits(l, t, o) # {}
    /\ IsSparse(t) \/ Head(cell[<<l, t, Min(Fits(l, t, o))>>]) % BIT(FUNCTION_ITEM_LVL(l)) = 0

\* Mutant: the split stops one order early.
Halves_OneShort(item, l, t, o, k) == [j \in (o + 1)..(k - 1) |-> item + SplitSize(l, t, j)]

\* The upper halves that splitting from order k down to o leaves, by order.
Halves(item, l, t, o, k) == [j \in o..(k - 1) |-> item + SplitSize(l, t, j)]

\* Mutant: only the halves get their level.
SectionAfterSplit_Halves(item, halves, l) ==
    [i \in Item |-> IF i \in halves THEN l ELSE section[i]]

SectionAfterSplit(item, halves, l) ==
    [i \in Item |-> IF i \in {item} \cup halves THEN l ELSE section[i]]

\* The order of one of the halves.
HalfOrder(half, i) == CHOOSE j \in DOMAIN half : half[j] = i

\* The item is taken from the list of order k and its upper halves are listed,
\* each at the head of the list of its order, with its state cleared.
split_group_migration(item, half, halves, l, t, o, k, mark, asked) ==
    LET receives(s) == s[1] = l /\ s[2] = t /\ s[3] \in DOMAIN half
    IN  IF ~(halves \subseteq Existing)
        THEN fault' = TRUE /\ UNCHANGED <<lists, descriptors, holders>>
        ELSE /\ cell' = [s \in Slot |->
                  IF s = <<l, t, k>> THEN Tail(cell[s])
                  ELSE IF receives(s) THEN <<half[s[3]]>> \o cell[s] ELSE cell[s]]
             /\ count' = [s \in Slot |->
                  IF s = <<l, t, k>> THEN count[s] - 1
                  ELSE IF receives(s) THEN count[s] + 1 ELSE count[s]]
             /\ present' = [i \in Item |-> i = item \/ (present[i] /\ i \notin halves)]
             /\ order' = [i \in Item |->
                  IF i = item THEN o
                  ELSE IF i \in halves THEN HalfOrder(half, i) ELSE order[i]]
             /\ state' = [i \in Item |->
                  IF i = item THEN mark
                  ELSE IF i \in halves THEN MIGRATION_MOVABLE ELSE state[i]]
             /\ section' = SectionAfterSplit(item, halves, l)
             /\ node' = [i \in Item |-> IF i \in {item} \cup halves THEN NodeId ELSE node[i]]
             /\ held' = held \cup {[item |-> item, lvl |-> l, order |-> o, type |-> asked]}
             /\ owners' = [i \in Item |-> owners[i] + IF i \in Span(item, l, o) THEN 1 ELSE 0]
             /\ UNCHANGED fault

\* What a request for type `asked' takes from the lists of type t.
Taken(l, t, o, asked) ==
    [item |-> Head(cell[<<l, t, Min(Fits(l, t, o))>>]), lvl |-> l, order |-> o, type |-> asked]

\* The head of the least order's list that can serve is taken and split.  The
\* caller marks what it got as `mark', having asked for type `asked'.
remove_group_migration(l, t, o, mark, asked) ==
    \E k \in {Min(Fits(l, t, o))} : \E item \in {Head(cell[<<l, t, k>>])} :
    \E half \in {Halves(item, l, t, o, k)} :
        split_group_migration(item, half, {half[j] : j \in DOMAIN half},
                              l, t, o, k, mark, asked)

\* forward_group_budget: the level to take a block from, by its counts.
HasBudget(l, t, o) == \E k \in o..MAX_ITEM_ORDER : count[<<l, t, k>>] # 0

\* The block would come from a lower level, of the larger blocks: for MOVABLE
\* the level is searched as one of sparse tables, whose cell 0 is left out.
CrossesLevel(l, t, o) ==
    \E m \in {n \in Lvl : TopLvl <= n /\ n < l} :
        IF IsSparse(t) THEN ~CanRemove(l, t, o) /\ Fits(m, t, 1) # {}
        ELSE ~HasBudget(l, t, o) /\ HasBudget(m, t, 0)

\* A request is served from the lists of its own type, and set_group_item_state
\* marks the block MOVABLE_NORMAL whatever that type is.
dispatch_group(l, t, o) ==
    /\ ~fault /\ freeing = NoFree
    /\ CanRemove(l, t, o)
    /\ remove_group_migration(l, t, o, MIGRATION_MOVABLE, t)
    /\ UNCHANGED <<grown, freeing>>

\* A block of a lower level cannot be cut: split_item_migration writes to the
\* cell of order GROUP_ORDER_NUM_SHIFT - 1, and a MOVABLE block is taken for a
\* sparse table whose `next' is dereferenced.
dispatch_crosses_level(l, t, o) ==
    /\ ~fault /\ freeing = NoFree
    /\ CrossesLevel(l, t, o)
    /\ fault' = TRUE
    /\ UNCHANGED <<grown, lists, descriptors, holders, freeing>>

\* When they cannot serve it, migrate_group takes a MOVABLE block and marks it.
\* A call that finds no MOVABLE block either goes on to make sparse tables.
migrate_group(l, t, o) ==
    /\ ~fault /\ freeing = NoFree
    /\ t # MIGRATION_MOVABLE
    /\ ~CanRemove(l, t, o) /\ ~CrossesLevel(l, t, o)
    /\ CanRemove(l, MIGRATION_MOVABLE, o)
    /\ remove_group_migration(l, MIGRATION_MOVABLE, o, t, t)
    /\ UNCHANGED <<grown, freeing>>

(***************************************************************************)
(* decompose_group reads the type of a block from its descriptor, and      *)
(* find_group_reversed sends it on.  dequeue_group_migration reads level   *)
(* and order; free_group_migration then runs, one step for each round of   *)
(* its outer loop, and never for a sparse type.                            *)
(***************************************************************************)
\* A MOVABLE block is taken for a sparse one, whose groups are those of the
\* process that runs: there is none.
dequeue_group_sparse(b) ==
    /\ ~fault /\ freeing = NoFree
    /\ b \in held
    /\ IsSparse(state[b.item])
    /\ fault' = TRUE
    /\ UNCHANGED <<grown, lists, descriptors, holders, freeing>>

dequeue_group_migration(b) ==
    /\ ~fault /\ freeing = NoFree
    /\ b \in held
    /\ ~IsSparse(state[b.item])
    /\ LET i == b.item
           l == Min({section[i], MAX_GROUP_LVLS})
       IN  freeing' = [item |-> i, lvl |-> l, order |-> order[i], type |-> state[i],
                       index |-> order[i] + FUNCTION_ITEM_LVL(l)]
    /\ held' = held \ {b}
    /\ owners' = [i \in Item |-> owners[i] - IF i \in SpanOf(b) THEN 1 ELSE 0]
    /\ UNCHANGED <<grown, lists, descriptors, fault>>

next_buddy_idx(i, index) ==
    IF (i \div BIT(index)) % 2 = 0 THEN i + BIT(index) ELSE i - BIT(index)

\* Mutant: the orders are not compared.
item_is_buddy_AnyOrder(i, o) == ~present[i]

item_is_buddy(i, o) == ~present[i] /\ order[i] = o

buddy_is_valid(t, i) == list_in_list(i) /\ state[i] = t

\* The item after n merges: n bits of its index from `index' on are cleared.
Merged(f, n) == f.item - BIT(f.index) * ((f.item \div BIT(f.index)) % BIT(n))
Buddy(f, n) == next_buddy_idx(Merged(f, n), f.index + n)
HigherBuddy(f, n) == next_buddy_idx(Merged(f, n + 1), f.index + n + 1)

InLoop(f, n) == f.order + n <= MaxOrder(f.lvl, f.type) - 1

\* Mutant: cached blocks take part in the merge.
IsDirect_Merging(f, n) ==
    /\ InLoop(f, n)
    /\ f.lvl = TopLvl
    /\ f.order + n = MaxOrder(f.lvl, f.type) - 1

\* A block of a cached type, or of the node's highest order, is listed as it is.
IsDirect(f, n) ==
    /\ InLoop(f, n)
    /\ \/ f.type = MIGRATION_LRUTYPE
       \/ f.lvl = TopLvl /\ f.order + n = MaxOrder(f.lvl, f.type) - 1

LooksAtBuddy(f, n) == InLoop(f, n) /\ ~IsDirect(f, n)

CanMerge(f, n) ==
    /\ LooksAtBuddy(f, n)
    /\ Buddy(f, n) \in Existing
    /\ item_is_buddy(Buddy(f, n), f.order + n)
    /\ buddy_is_valid(f.type, Buddy(f, n))

\* Mutant: the inner loop runs once.
Merges_Once(f) == IF CanMerge(f, 0) THEN 1 ELSE 0

\* How often the inner loop merges.
Merges(f) == Min({n \in 0..F : ~CanMerge(f, n)})

\* The buddy is listed, though not as a block of this order: the parent may
\* soon be whole, and the code looks whether the parent could merge as well.
LooksHigher(f, n) ==
    /\ LooksAtBuddy(f, n)
    /\ f.order + n < MaxOrder(f.lvl, f.type) - 2
    /\ Buddy(f, n) \in Existing
    /\ buddy_is_valid(f.type, Buddy(f, n))

GoesToTail(f, n) ==
    /\ LooksHigher(f, n)
    /\ HigherBuddy(f, n) \in Existing
    /\ item_is_buddy(HigherBuddy(f, n), f.order + n + 1)

\* The code does not ask whether the descriptors it looks at exist.
OutOfBounds(f, n) ==
    \/ f.lvl \notin Lvl
    \/ LooksAtBuddy(f, n) /\ Buddy(f, n) \notin Existing
    \/ LooksHigher(f, n) /\ HigherBuddy(f, n) \notin Existing

\* A block of a level's last order continues as order 0 of the level above.
IsPromoted(f, n) ==
    /\ ~IsDirect(f, n) /\ ~GoesToTail(f, n)
    /\ f.order + n >= F - 1

Visited(f, n) == {Merged(f, m) : m \in 0..(n - 1)}
Absorbed(f, n) == {Buddy(f, m) : m \in 0..(n - 1)}

\* Mutant: the merges do not count.
CountAfterFree_NoMerge(f, n) ==
    [s \in Slot |-> IF s = <<f.lvl, f.type, f.order + n>> /\ ~IsPromoted(f, n)
                    THEN count[s] + 1 ELSE count[s]]

\* Every merge takes the buddy out of the count of its order; the block that
\* results is counted where it is listed.
CountAfterFree(f, n) ==
    [s \in Slot |->
        IF s[1] # f.lvl \/ s[2] # f.type THEN count[s]
        ELSE IF s[3] \in f.order..(f.order + n - 1) THEN count[s] - 1
        ELSE IF s[3] = f.order + n /\ ~IsPromoted(f, n) THEN count[s] + 1
             ELSE count[s]]

\* Mutant: the buddies a block is merged with stay listed.
CellAfterFree_KeepsBuddies(f, n) ==
    [s \in Slot |->
        IF s = <<f.lvl, f.type, f.order + n>> /\ ~IsPromoted(f, n)
        THEN <<Merged(f, n)>> \o cell[s] ELSE cell[s]]

\* A list after the list_del of some of its members.
Without(seq, gone) ==
    LET kept[i \in 0..Len(seq)] ==
            IF i = 0 THEN <<>>
            ELSE IF seq[i] \in gone THEN kept[i - 1] ELSE Append(kept[i - 1], seq[i])
    IN  kept[Len(seq)]

CellAfterFree(f, n) ==
    LET rest(s) == Without(cell[s], Absorbed(f, n))
        last == Merged(f, n)
    IN  [s \in Slot |->
            IF s # <<f.lvl, f.type, f.order + n>> \/ IsPromoted(f, n) THEN rest(s)
            ELSE IF GoesToTail(f, n) THEN Append(rest(s), last)
                 ELSE <<last>> \o rest(s)]

\* A merge clears the node of both blocks, and nothing writes it again until the
\* merged block is taken.
NodeAfterFree(f, n) ==
    LET merged == Visited(f, n) \cup Absorbed(f, n)
    IN  [i \in Item |-> IF i \in merged THEN 0 ELSE node[i]]

\* A round of the outer loop, in which the inner one merges n times.
free_group_round(f, n) ==
    LET last == Merged(f, n)
        visited == Visited(f, n)
        merged == visited \cup Absorbed(f, n)
    IN  IF OutOfBounds(f, n)
        THEN fault' = TRUE /\ UNCHANGED <<lists, descriptors, freeing>>
        ELSE /\ cell' = CellAfterFree(f, n)
             /\ count' = CountAfterFree(f, n)
             /\ present' = [present EXCEPT ![f.item] = @ /\ ~InLoop(f, 0)]
             /\ order' = [i \in Item |->
                  IF i = last THEN IF n = 0 /\ IsPromoted(f, n) THEN order[i] ELSE f.order + n
                  ELSE IF i \in merged THEN 0 ELSE order[i]]
             /\ state' = [i \in Item |->
                  IF i \in visited THEN MIGRATION_MOVABLE ELSE state[i]]
             /\ section' = [i \in Item |->
                  IF i = last /\ ~IsPromoted(f, n) THEN f.lvl
                  ELSE IF i \in visited THEN CLEARED_SECTION ELSE section[i]]
             /\ node' = NodeAfterFree(f, n)
             /\ freeing' = IF IsPromoted(f, n)
                           THEN [f EXCEPT !.item = last, !.lvl = @ - 1,
                                          !.order = 0, !.index = @ + n]
                           ELSE NoFree
             /\ UNCHANGED fault

free_group_migration ==
    /\ ~fault /\ freeing # NoFree
    /\ \E f \in {freeing} : \E n \in {Merges(f)} : free_group_round(f, n)
    /\ UNCHANGED <<grown, holders>>

(***************************************************************************)
(* update_pnode: the blocks of the next growth go to the ends of the lists *)
(***************************************************************************)
update_pnode ==
    /\ ~fault /\ freeing = NoFree
    /\ grown < Len(Sizes)
    /\ grown' = grown + 1
    /\ LET new == BlocksOf(grown + 1)
           heads == {b.item : b \in new}
       IN  /\ cell' = [s \in Slot |-> cell[s] \o Listing(new, s)]
           /\ count' = [s \in Slot |-> count[s] + Len(Listing(new, s))]
           /\ order' = [i \in Item |->
                IF i \in heads THEN (CHOOSE b \in new : b.item = i).order ELSE order[i]]
           /\ node' = [i \in Item |-> IF i \in heads THEN NodeId ELSE node[i]]
    /\ UNCHANGED <<present, state, section, holders, freeing, fault>>

Next ==
    \/ \E r \in Requests :
         \/ dispatch_group(r.lvl, r.type, r.order)
         \/ migrate_group(r.lvl, r.type, r.order)
         \/ dispatch_crosses_level(r.lvl, r.type, r.order)
    \/ \E b \in held : dequeue_group_migration(b) \/ dequeue_group_sparse(b)
    \/ free_group_migration
    \/ update_pnode

Spec == Init /\ [][Next]_vars

(***************************************************************************)
(* Properties.                                                             *)
(***************************************************************************)
Free == UNION {{[item |-> i, lvl |-> s[1], order |-> s[3]] : i \in ToSet(cell[s])} : s \in Slot}
InUse == {[item |-> b.item, lvl |-> b.lvl, order |-> b.order] : b \in held}
End(b) == b.item + BlockItems(b.lvl, b.order)

\* No descriptor belongs to two blocks, listed or held, and no block reaches
\* beyond the node: splitting and merging cut and join the same ranges, and
\* list what they leave once.
BlocksDisjoint ==
    /\ \A b \in Free \cup InUse : End(b) <= ItemsAfter[grown]
    /\ \A b, c \in Free \cup InUse : b # c => End(b) <= c.item \/ End(c) <= b.item
    /\ \A s, t \in Slot : \A i \in DOMAIN cell[s], j \in DOMAIN cell[t] :
         cell[s][i] = cell[t][j] => s = t /\ i = j

\* Between calls every item is in a list or with a caller: no split or merge
\* forgets a part of the node.
NothingLost ==
    freeing = NoFree =>
        UNION {SpanOf(b) : b \in Free \cup InUse} = Existing

\* The counts the budgets are computed from are the lengths of the lists.
CountsExact ==
    freeing = NoFree => \A s \in Slot : count[s] = Len(cell[s])

\* While a caller holds a block, whatever happens around it, the descriptor
\* says what dequeue_group_migration will ask it: that the block is out, its
\* order and level, and the node whose lists it goes back to.
HeldIntact ==
    \A b \in held :
        /\ present[b.item] /\ ~list_in_list(b.item)
        /\ order[b.item] = b.order
        /\ section[b.item] = b.lvl
        /\ node[b.item] = NodeId

\* Two listed UNMOVABLE blocks are never each other's buddies below the order
\* the merge stops at, unless the state of one is not UNMOVABLE: a merge clears
\* the state of the block that is freed, which may be the first of the merged
\* one, and a split that of the halves, and the code no longer knows their type.
Coalesced ==
    \A l \in Lvl, o \in Order :
        LET blocks == ToSet(cell[<<l, MIGRATION_UNMOVABLE, o>>])
            known == {i \in blocks : state[i] = MIGRATION_UNMOVABLE}
        IN  MIGRATION_UNMOVABLE \in MigrationType
              /\ o < MaxOrder(l, MIGRATION_UNMOVABLE) - (IF l = TopLvl THEN 1 ELSE 0)
              => \A i \in known : next_buddy_idx(i, o + FUNCTION_ITEM_LVL(l)) \notin known

\* Cached items are listed one by one: the request for one (order 0, the
\* assertion in dispatch_group_migration) never has to split.
CachedAreSingle ==
    \A l \in Lvl, o \in Order \ {0} :
        MIGRATION_LRUTYPE \in MigrationType => cell[<<l, MIGRATION_LRUTYPE, o>>] = <<>>

\* Every allocation hands out items nobody holds.
Pool == INSTANCE ItemPool WITH
            Block <- {b \in {Span(i, l, o) : i \in Item, l \in Lvl, o \in Order} : b \subseteq Item}
RefinesPool == Pool!SpecPool
=============================================================================
