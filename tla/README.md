# Verification of the AIOS item allocator

TLA+ models, TLC runs and TLAPS proofs for the allocator of this repository: the
"tensor node" allocator of `src/source/`, with the list and bit operators of
`src/include/` it is built from. Everything is translated from the C source.

## The program as it is read

The repository is a prototype. Some of it does not compile (a parenthesis is missing
at tensor.c:478, `level` and `STATE_ITEM_SPARSE_STREAM` are not declared, several
sparse functions are called with argument lists that do not fit their definitions),
and what compiles would stop at the first insertion into a list, whose heads are
cleared instead of initialised. Modelling it needs a reading:

- the list module is modelled exactly, and a run shows the crash of a head that was
  only cleared (`DListBoot`);
- the modules above it model the program with the list usage repaired: heads that are
  initialised, `list_add_...(list, item)` with its arguments in that order
  (tensor_init.c:276-319 and tensor.c:521-537, 1605 have them swapped). A list is then
  a sequence, or a set where its order does not matter;
- locks and `assert` are empty macros (tensor_ops.h). The program is sequential; a call
  is taken to run alone, which the node's lock is there for;
- where the code's control is wrong it is modelled wrong. An access out of its array or
  through a null pointer is a step to a state in which `fault` (or `crash`) is set and
  nothing else happens;
- a line that does not compile is read in the way that its neighbours suppose: the missing
  parenthesis is there, and `set_bit(idx, &slice->ref)` (tensor.c:2276), whose field does not
  exist, is in Slice a choice between the two bitmaps it can mean.

## Inventory

| Component | State | Operations | Used by | Hard behaviour | What makes it correct |
|---|---|---|---|---|---|
| Intrusive list, `include/list.h` | two pointers per node | initialise, add, remove, observers, six kinds of traversal macro | everything | unchecked writes through neighbours; loops whose body unlinks their node | links inverse, rings closed, a list is a sequence, a loop visits each node once and ends |
| Bit operators, `include/types.h` | words | `__ffs`, `__fls`, `ffz`, bitmap scanners, `for_each_...bit` | slices, sizes, levels | word boundaries, bits beyond the size, a map changed inside the loop | the least bit in the range, or the size |
| Descriptor flags, `tensor_struct.h:128`, `tensor_ops.h:152` | one 64-bit word per item | set, get, clear of nine fields | all of tensor.c | widths and bases written by hand | the fields are independent |
| Layered buddy lists, tensor.c:120-600 | a list and a count per level, type and order; descriptors | `remove_group_migration`, `split...`, `free_group_migration` | node allocation | split and merge trust descriptors that may be stale; four levels of orders | blocks partition the node; counts match; held blocks keep their descriptor; free buddies are joined |
| Node allocation, tensor.c:604-2160 | group lists, LRU cache, chains, `nr_freeitems` | `node_struct_alloc`, `node_struct_free` | kmalloc, kfree, slices | type decides the path twice, at the allocation and much later at the free; cache limit; chains | a block is in one place; nothing is granted twice; a request gets its items; the watermark follows the lists |
| Slices, tensor.c:2232-2349 | three lists, three counts, a bitmap per page | `heap_alloc`, `heap_free` | sparse tables | a page moves between lists by wrapped counts | one caller per slot, one list per page |
| Initialisation and growth, tensor_init.c | descriptor array, first blocks | `init_pnode`, `update_pnode` | main, windows | sizes, levels, room | blocks tile the descriptors and are aligned |
| Sparse tables and streams, tensor.c:958-1560 | a tree of item arrays with free-index counts | `forward_remove_group_sparse`, `subscribe_group_sparse`, `sequence_*`, `dequeue_group_sparse` | virtual nodes | counts on the path to the root | count = free entries below |
| Index conversions, tensor_ops.h:288-680 | none | `range_to_idx`, `item_to_idx`, `idx_to_rel_idx`, `item_to_order`, ... | all | shifts by level; a range that grows | addresses and descriptors lead back to each other; a request gets what it asks for |
| Entity lists, tensor.c:1518-1580 | priority lists | `forward_remove_group_prior`, `dequeue_group_prior` | entity nodes | uninitialised pointer | nothing can be said |
| Scheduling parameters | copies | `node_struct_paras_update`, `paras_gen`, `sched` | nobody | none | not modelled |
| kmalloc, kfree, test | none | wrappers | - | rounding from bytes to items to blocks | the block has the bytes |

Components call each other; nothing is sent or queued. What they share are the
descriptors: a field written by the one that hands a block out is all that the one that
takes it back knows about it. That is where most hazards lie: `PROJECT.json` lists each
with its line and the properties about it.

## Modules

    ListSeq      what callers rely on: lists as sequences
    DList        list.h, by its pointers
    DListRefine  DList implements ListSeq; walks
    ListTraverse the traversal macros as loops over DList
    DListProofs  theorems about DList, the walks and the traversal macros

    Bits         the bit searches and bitmap scanners, words as sets of bit numbers
    BitmapLoop   a bitmap, changed outside and inside the for_each loops
    BitmapLoopProofs   theorems about the searches, the scanners and the loops

    ItemFlags, ItemFlagsProofs     the flags word and its theorem

    Levels       blocks of levels and orders: how a node and a request are cut into them
    LevelsProofs powers of two, what __init_pnode_item makes of a piece of 2^p items, and
                 what find_group makes of a request
    NodeInit     init_pnode, update_pnode, stream_window, and the addresses of a node
    NodeInitProofs                 theorems about NodeInit

    ItemPool     what a node promises: a block handed out is nobody else's
    FreeGroup    the buddy lists of one node, from NodeInit's first blocks on
    NodeGroups   node_struct_alloc, node_struct_free and kmalloc over FreeGroup, in items;
                 implements ItemPool
    FreeGroupProofs                theorems about FreeGroup and about NodeGroups
    NodeAlloc    node_struct_alloc and node_struct_free with the cache and the chains,
                 blocks as units; implements ItemPool
    NodeAllocProofs                theorems about NodeAlloc
    MCFreeGroup, MCPromoted, MCNodeGroups, MCNodeAlloc, MCNodeInit
                 the nodes and callers of the runs; MCFreeGroup, MCNodeGroups and MCNodeInit
                 assert of theirs what the theorems about these modules suppose

    Slice, SliceProofs             heap_alloc and heap_free, and their theorems

`Levels` is shared by NodeInit, which cuts the descriptors of a node of any size, and by
FreeGroup, whose node begins with that result. NodeGroups EXTENDS FreeGroup: each of its
dispatch steps is a step of FreeGroup with the caller's accounts beside it. NodeAlloc and
NodeGroups are two models of the same calls, each with what the other abstracts: NodeAlloc
has the cache and the links of a chain, NodeGroups has sizes, levels, splits and growth.

### How state and actions correspond to the code

**DList.** `next` and `prev` are the two fields of `list_node_t`, `ring[n]` is a history
variable that names the list a node was linked into, `fault` is a null dereference. Each
operator is an action; the guard is the caller's part (an item to be added is not
linked, a list that is read is in use), since the code looks at nothing. `HeadInit`
chooses how heads begin: as the library makes them (`init_list_node`, both links NULL)
or given to `list_initialize` first.

**ListTraverse.** `pc` is the place in the macro's expansion. `Begin` evaluates the first
clause of the `for`, `Test` the second, `Step` the third. The body of a `_safe` loop may
unlink the node it was given and link it in another list, as the comments at list.h:218
and 231 offer.

**Bits.** `__ffs` and `__fls` test the halves 32, 16, ..., 1 one after another, as the code
does. Words are sets of bit numbers, so a shift is an addition to each.

**FreeGroup.** `cell` and `count` are `GROUP_CELL` and `GROUP_CELLCOUNT`; `present`,
`order`, `state`, `section` and `node` the fields of the descriptors that this code reads.
A block is marked MOVABLE when its type's own lists serve it, and with its type when it
migrates (`set_group_item_state`, `migrate_group`). `dequeue_group_sparse` is where a block
marked MOVABLE ends: its value is SPARSE_MOVABLE's, find_group_reversed sends it to the
sparse tables (tensor.c:1619-1622), and the group is looked for in a process that is NULL.
So MOVABLE blocks are split and never merged; merges are of UNMOVABLE blocks that migrated.
`dispatch_group`, `migrate_group` and `dispatch_crosses_level` are the three ways an
allocation ends up in `remove_group_migration`; one action is the search, the split and
the marking of the block. A free is `dequeue_group_migration`, which reads the
descriptor, and then one step of `free_group_migration` for each round of its outer
loop, over the locals in `freeing`. The merges of the inner loop are counted by
`Merges`, and `free_group_round` with `CellAfterFree`, `CountAfterFree` and the others is
what that many rounds do. `split_group_migration` is the split a search ends in. `update_pnode` adds the descriptors and first blocks of the next of
`Sizes`, so that a search, a merge or a split may meet a node that has just grown. `held`
and `owners` are history variables. A merge clears the node number of a block that it
leaves in a list; `item_to_idx` then counts from the descriptors of node 0, which the model
has too. Where a node begins is NodeInit's; FreeGroup's begins at an aligned address.

**NodeGroups.** A call is prepared (`TypeFor`, `IsCombined`, `Accepts`, `psize` are
`prepare_...` and `preprocess_node_struct_alloc`), asks the watermark, and is cut by
`find_group` into the list `todo` of levels and orders. Each of them is a step
(`dispatch_forward` or `dispatch_migrate`) that takes a block by FreeGroup's action and
counts it off `nr_freeitems`; `alloc_returns` gives the caller the first one. `kmalloc`
asks in bytes and wants an address back, which for a MOVABLE block is the null dereference
`alloc_loses_range`. A free begins with the item the caller knows, and each of its rounds
is `free_round`; that of a MOVABLE block is `free_without_group`. `node_grows` is an
`update_pnode` between two calls. History: `heads`, the
blocks that callers know, and `drift`, the items of UNMOVABLE blocks that were freed.

**NodeAlloc.** Blocks are units. A running call is in `call`, and each dispatched block
is a step, so that the chain of a combined request is built as `compound_append` builds
it. Sizes are left out, and with them whether a listed block is large enough: a type may lack
a block that fits while others of it are listed (`MayLack`), migrate for one block of a
request and serve the next one itself. Only single items are always there to be cut.
`dispatch_exhausted` is the recursion of `forward_remove_group_sparse` that has no end,
`node_struct_free_movable` the missing process in `dequeue_group_sparse`, and
`alloc_loses_range` the one in `item_to_range_sparse`, for requests that want an address.
`preprocess` bounds a reserved request by the listed blocks: sent for all of them, it is cut
into the fewest powers of two, and there are no more of those. History: `held`, `owners`,
and `left_behind`, the blocks after the head of a freed chain: those of a reserved request
whose head migrated and was marked UNMOVABLE, for the free of any other head crashes.

**Slice.** The lists and counts of the three states, and per page the state, bitmap and
slice pointer. `MarkedBitmap` is the bitmap that a slot is marked in: "item", the page's,
which the search and `heap_free` read, or "slice", a field of the slice that nothing reads.
The page's bitmap begins with any contents, since `init_item` clears the two words before it.
A page with no clear bit gives out the slot beyond it (`Size`), which no caller gives back
here. A page comes from the node in one step, though the code asks for FIXED_ITEM_SIZE
MOVABLE *items* with their address, the request that loses its range in NodeAlloc.
`outstanding` is the history of who was given what. Counts wrap at
`WordSize`, as the unsigned counts of the code do: the first page decrements a count
that is zero. `Without` is `list_del` on a list as a sequence.

**NodeInit.** The node begins at one of `Offsets`. `__init_pnode_item` (Levels) is a
recursive function over the levels, each step of it one over the orders (`CutOrders`); the
node's offset decides which levels it may have blocks of. `items` is the length of the descriptor array, `offset` and `size` the range
that `idx_to_rel_idx` looks an address up in, and `Space` the room of the reserved range.
A size of less than a block of level 2 has level -1: the node is divided by zero if it begins
at zero (`Divides`), and otherwise cut from level 0 on (`FirstLevel`). Only the first item of
a block has its node (`HasNode`); `item_to_idx` counts the others from node 0, which begins at
`FirstOffset`, so that an address inside a block is right when it is reckoned from the
block's and not when an inner item is asked for it. A growth that fails has not yet touched
the attributes.
`stream_window` grows a node by the size it was made of.

## Runs

| Run | Question | Bounds and why they are enough |
|---|---|---|
| `DList` | Do the list operators keep rings, do the observers agree, is every operator one of `ListSeq`, does every loop visit each node once and end? | two heads, three items: with two lists a node can be moved from one to the other inside a loop; with three items a list has a first, a middle and a last. No symmetry, since a liveness property is checked |
| `DListBoot` (violation) | Do the heads the library makes work? | the same |
| `BitmapLoop` | Are the scanners exact, and the loops monotone while the map changes? | two 64-bit words; bits at 0, 32, 63, 64, 127; sizes 0, 1, 63, 65, 128: at, before and after each boundary. Loop bodies run at most `MaxSteps` = 2 times |
| `ItemFlags` | Do the fields disturb each other? | one value with bits 0 and 4, the lowest bit of every field and one above the narrow ones; the theorem covers all values |
| `FreeGroup` | Do splits and merges keep the blocks a partition, the counts exact, held descriptors intact and free buddies joined, while cached items come and go and the node grows? | F = 4 instead of 9 orders; sizes 32 (an order-1 block of level 2, the highest order of the node), 2 and, once it has grown, 2 and 1; requests for UNMOVABLE blocks of one and two items and of the highest order, which migrate, for cached single items and for MOVABLE blocks of two: splits, merges of several rounds, a block at the end of the node whose buddy is beyond the array or comes with the growth. A MOVABLE block's free ends the run |
| `NodeGroups` | Does a call get what it asked for, is no item granted twice, and does the watermark follow the lists? | F = 4; 16 items (a block of level 2), 2 and, once it has grown, one more, at which the last merge looks; requests of 3 and 13 items as one block, of 19 as a chain of three over both levels, debug blocks of 1, 2 and 16 and a reserved one of 16; `kmalloc` of 3 and 5 bytes with items of 4: one rounded up to one item, one to two. All four flags that are prepared differently, migration, merges of what migrated, rounding to a larger block, exhaustion |
| `FreeGroupPromoted` (violation) | Is a block that merges past the last order of its level still itself? | the node and callers of `MCPromoted`: F = 4, UNMOVABLE requests, since a MOVABLE block is never promoted |
| `NodeAlloc` | Is every block in one place, the chain the request, the cache bounded, the count not overstated, and nothing forgotten but tails? | six blocks, three of them reserved, a cache of three: chains of three, reserved chains of two, either block of which may come from the reserve or by migration, so that heads are freed and tails forgotten; eviction from a full cache |
| `NodeAllocFree` (violation) | Can what kmalloc gave be given back? | `kmalloc` of single items only, a cache of two |

| `Slice` | Is a slot one caller's, and a page in one list? | two pages of five slots, any first contents of their bitmaps, and a threshold of one. The second page is there to be asked for, and never is: the first one leaves the count of free pages at 2 and that of empty pages at -1, so the slice always believes it has a page with room, and fails on an empty list when it has not |
| `SliceAssert` (violation) | Does the page of a slot that is out name its slice? | two slots |

| `NodeInit` | Do the first blocks tile the descriptors and are they aligned, does the free count say so, and does a block's address lead back to its descriptor? | F = 3; sizes 4 (less than a block of level 2), 8 and 64 (a block of level 1), every sequence of them up to the 74 descriptors there is room for, so that a 64 still fits after an 8, and two of 4 after a 64; the node at address 0, 256 and 512, of which only some are aligned to level 1 or 2, and node 0 at 256, once this node itself |

`CHECK_DEADLOCK FALSE` is set where the program can stop: FreeGroup, NodeGroups and
NodeAlloc after a fault, Slice after a failed assertion, NodeInit when the room is used up.

Named bounds: `MaxSteps` (BitmapLoop), `MaxShift` (Levels: sizes below 2^31 items),
`WordSize` (Slice, the width of the counts; assumed larger than `threshold_freeitems` + 2,
as 2^64 is), `Len(Sizes)` (how often the node of FreeGroup grows), `Space` (NodeInit). The
layered modules have F as a parameter where the code fixes 9 orders, so that the runs are
small nodes of the same shape.

Readings that the models of the node share, beside the repairs above:

- `NODE_RESERVED_RANGE_BASE`, which the header sets to 0 and calls a placeholder, is an
  address that is not zero; with 0 the first descriptor array is at NULL, `not set` by the
  test of tensor_init.c:137;
- in NodeGroups `LRU_CACHE_MAX_ITEMS` is one, so that a freed single item passes through
  the cache at once; NodeAlloc has the cache at its limit, FreeGroup the blocks of one item;
- FUNC_PHYSICAL_OBJECT stands for CONT and MMU, which are prepared alike, and callers other
  than kmalloc ask for no address.

In `FreeGroup`, level 2 is the top level of the node and keeps one block that is not
cut: a request that would have to cut it goes to `dispatch_crosses_level` and stops.

**Fairness.** Only `SpecTraverse` has any: weak fairness of the steps of a running loop.
The program is sequential and the thread that has begun a loop runs nothing else until
it ends. Everything else is safety.

**Refinement.** `RefinesListSeq` maps a head to the sequence its `next` pointers lead
through. `RefinesPool` maps the descriptors of NodeGroups, and the blocks of NodeAlloc,
to how many callers have them; splitting, merging, caching, dispatching of later blocks,
freeing in several rounds and growing are stutters.

## What the violation runs show

1. `DListBoot`: `init_list_node` leaves NULL in the heads (tensor_init.c:84), and the
   first `list_add_tail` writes through it.
2. `FreeGroupPromoted`: a block that merged to order F-1, half a block of the next level,
   continues as order 0 of that level, twice its size (tensor.c:530): two blocks cover the
   same items.
3. `SliceAssert`: `!find_first_bit(...)` asks whether slot 0 is used, not whether none is
   (tensor.c:2329): a page with slots out is declared empty and loses its slice.
4. `NodeAllocFree`: MIGRATION_MOVABLE and MIGRATION_SPARSE_MOVABLE have one value
   (tensor_struct.h:379-387), and `set_group_item_state` marks what a type's own lists give
   as MOVABLE. Two single items are freed into the cache, the full cache puts the colder one
   into the lists of its type, the next requests take the cached one and then that one, and
   its `kfree` goes to `dequeue_group_sparse` (tensor.c:1619), which looks for the group in a
   process that is NULL. Nothing but `kmalloc` and `kfree` of single items is needed.


Deviations that were met and are in the models, without a run of their own:

- order F-1 of a level is listed and never searched (tensor.c:251); a node that has
  nothing left recurses without end;
- the split of a MOVABLE block of level 2 uses single items (tensor.c:165), and the cut
  of a block of a lower level writes to order 11 of 9 (tensor.c:585);
- the halves of a split UNMOVABLE block have no state, so they do not merge, and the block
  itself is marked MOVABLE; `nr_freeitems` drifts downwards with every UNMOVABLE free;
- the free of a chain lists its head only (`left_behind`);
- `heap_alloc` searches `item->slice_ref` and sets a bit of `slice->ref` (tensor.c:2276), which
  `slice_struct` does not have, while no statement sets one of `slice_ref`, which the header
  calls the slice bitmap array (tensor_struct.h:260): taken as it stands, with the field added,
  the second allocation gets the slot of the first (`NoSlotTwice` with `MarkedBitmap` =
  "slice");
- `init_item` leaves `slice_ref` as the memory was, and a page whose bitmap is full, or that
  has no slots, gives out the slot beyond it;
- by the value that MOVABLE shares with SPARSE_MOVABLE, an allocation that is to give the
  address of a MOVABLE block computes it from the root of a process that is NULL
  (tensor.c:2115, `alloc_loses_range`); the test program's `kmalloc(size)` (main.c:27 and 40)
  is such a request;
- of a block only the first item knows its node (tensor_init.c:266), and `item_to_idx` counts
  the others from node 0;
- the counts of a slice begin with a decrement of zero;
- a size that is no power of two gets fewer descriptors than items (tensor_init.c:263),
  so its blocks begin before the array; a small piece followed by a larger one gives blocks
  that are not aligned, against the assertion of tensor_init.c:268, and
  `remove_group_migration` refuses them; less than a block of level 2 at address zero divides
  by zero;
- with the repository's constants a node of 1 GB has no room for its descriptors in 1 MB of
  reserved range (tensor_init.c:21); all nodes' descriptor spaces begin at the same address
  (tensor_init.c:17), and all nodes of a dimension have one range, so that an address is
  always looked up in the first;
- the cell of order 8 is initialised in no group (tensor_init.c:83 stops before it);
- the third principle for a reserved block (tensor.c:2006) leaves its own loop and has no
  effect;

- `set_item_node` keeps 5 bits of the ids that `init_node` makes;
- an object freed twice is cached twice.

## What is proved

TLAPS checks these for every value of the constants.

- **`DListInvariant`** (DListProofs): `Spec => []DListInv`, for any heads and items and both
  ways of making heads. `DListInv` is the type invariant with three parts that need each
  other: `LinkedBothWays` (a node is linked on both sides or on neither, `next` and `prev`
  are inverse, and neighbours are in the node's list) makes every write through a neighbour
  harmless, and is itself only kept because a removed node's neighbours are in its ring;
  `HeadsHome` (a head is in its own ring or in none) and `RingInUse` (only lists in use have
  members) let an insertion beside any member name the right list. It is inductive as it
  stands. One lemma for each of the three link operators shows what it does to the invariant,
  and the theorem has a step per action.
- **`InitialisedListsDoNotFault`**: with `HeadInit = "list_initialize"`, no operator ever
  dereferences NULL. A linked node has two neighbours by `LinkedBothWays`; the assumption
  that rules out cleared heads is the one `DListBoot` shows to be needed.
- **`ObserversAnswerForList`**: `ObserversAgree` does not follow from `DListInv`, which would
  allow a second ring, beside the head's, of items that claim to be in the list.
  `HeadInRing` excludes it without speaking of walks: every set of linked nodes that `next`
  does not lead out of has a head in it. An insertion or removal turns a set that is closed
  after it into one that was closed before, by leaving the item out or putting it in.
- **The walks** (DListProofs), for any finite sets of heads and items and both ways of making
  heads: `WalksMeetTheRing` is `WalkIsRing` and `PointersImplementLists` is the refinement
  `RefinesListSeq`, from the inductive `HasWalks` (`ListsAreWalked`): what `Walk` computes
  from a head in use is a sequence of distinct items, those of its ring, in which each links
  to the next one and the last to the head. An operation is then one lemma about such
  sequences (`ListInsert`, `ListRemove`) wherever it puts the item, and every other list is
  `Untouched`. That `Walk`, which follows a recursive function until the head returns, is
  that sequence is `WalkIs`: a function that satisfies the equation exists (`StepsExist`),
  and any one that does agrees with the sequence up to the first return. The inverted walk
  reads the same links from the other end (`WalkBack`).
- **The traversal macros** (DListProofs): `LoopsVisitEachOnce` is `VisitsEachOnce` and
  `TraverseTypes` is `TypeOKTraverse`, from the invariant `LoopInv` (`LoopsKeepTheirWay`):
  from the loop's next node on, the order it began with is linked as it was, and a `_safe`
  loop has saved the node after the one it runs on. A body can break neither: an unlink
  changes the links of the item and its neighbours, of which the later one keeps the link
  the loop goes along, and a relink those of another ring. `LoopsUseLists` says that
  SpecTraverse implies DList's Spec, so that the theorems about DList hold of a program that
  traverses its lists; `LoopsEnd` stays with TLC.
- **`FfsIsLowestBit`, `FlsIsHighestBit`, `FfzIsLowestZero`** (BitmapLoopProofs): `__ffs` and `__fls` of
  any word that is not zero are its lowest and highest bit, `ffz` its lowest zero. The lemma
  is about one halving: the window of bits that remains holds the one looked for, and
  nothing beyond the window is set. One instance for each half the code tests is chained to
  the next; their number is fixed, so no induction is needed.
- **`FindFirstIsFirst`, `FindNextIsFirst`**: the scanners, for a bitmap of any number of words,
  any size within it and any offset. `FirstHitIsLowest` is the common part: among the bits of
  the words a scan looks at, those of the first word that is not empty come first, and
  clipping to the size loses none below it; the mask of the first word and the rounding down
  of the start make these the bits from the offset on.
- **The loops** (BitmapLoopProofs): `ScansExact` and `WordScansExact` are these theorems in
  every state, `LoopTypes` the type invariant; `LoopsRise` is `LoopsAreMonotone`, for any size, range and number of rounds, from the
  inductive `LoopInv`: the bits visited are below the next one, and a bit that is looked for
  and was left alone has been visited or is still set and not below the next one.
- **`FieldsAreIndependent`** (ItemFlagsProofs): `Spec => []ItemFlagsInv` for any values
  callers write, also too wide ones. The masks of the nine fields are disjoint, from their
  table of bases and widths, and a write touches its mask only.
- **NodeAlloc** (NodeAllocProofs), for any finite set of blocks, any requests and any size of
  the cache: `AllocTypes`, `BlocksInOnePlace`, `TailsAloneForgotten`, `CacheStaysBounded`, `WatermarkSafe`
  and the refinement `AllocRefinesPool`. The inductive invariant `AllocInv` is all of these
  properties together, which need each other (a block freed into the cache is in one place
  only because it was held by one caller), and three facts about what is between the places:
  `CallInv`, that the blocks of the running call are no caller's and its head is one of
  them; `HeadsHeld`, that the block a caller knows is one of its blocks, so that a free
  finds what it looks up; `OwnersInv`, that the history `owners` counts what `held` says,
  from which the refinement follows: a call that returns raises counts of zero. The cache is
  a sequence, and three lemmas say what taking its head, pushing an item and evicting the
  last do to its members and its length.
  `ChainsAreRequests` is about the links of the descriptors, from a second invariant on top
  of it, `LinksInv` (`LinksInvariant`): a block that may be given is in no chain and heads
  none; a block marked as a head is not of the cached type, so a chain never goes through
  the cache, which does not look at links; and what is given together is a chain from its
  head, a sequence `q` of its blocks in which each leads to the next one and the last to
  none. `compound_append` extends the running call's chain at its end, which it finds by
  following the links (`ChainEnd`): a recursive function, shown to be the last of `q`.
- **FreeGroup** (FreeGroupProofs), for any F >= 2, any number of growths of any size and any
  levels: `GroupTypes`, `GroupDisjoint`, `GroupNothingLost`, `GroupCounts`,
  `GroupHeldIntact`, `GroupCached`, `GroupCoalesced` are the seven invariants of the run
  `FreeGroup`, and `GroupServesPool` is the refinement of ItemPool by the lists themselves
  (the run `NodeGroups` checks the same with its callers). They suppose two things, which
  MCFreeGroup asserts of the run's instance:

  `AlignedGrowth`: a growth is a power of two and begins at a multiple of itself. Without it
  the blocks overlap or are not aligned as soon as they are made (the deviations above).

  `PlainRequests`: callers ask for MOVABLE blocks of the last level, or of a level none of
  whose first blocks would have to be cut, for cached blocks of one item, and for UNMOVABLE
  blocks of the last level, on a node whose blocks of that level cannot merge up to the order
  that is promoted (`NeverPromoted`), or of the highest order of the node's level, if it is
  one that comes back as it was. What it leaves out is what the code gets wrong: an UNMOVABLE
  block that may merge up to the last order is promoted (`FreeGroupPromoted`), a MOVABLE block
  of an upper level is cut into
  halves of single items (tensor.c:165), and a cached block of more than one item is what
  `dispatch_group_migration` asserts never to be asked for.

  The inductive invariant is `GroupInv`. Its heart is `Tiled`: the blocks that are listed,
  the blocks that are out and the block that `free_group_migration` has in its hand tile the
  descriptors, each an aligned power of two of items. That is one statement from which
  `BlocksDisjoint` and `NothingLost` both follow, and it is what lets a step be local: a split
  replaces a block by its lower part and its upper halves, a merge a block and its buddy by
  their parent, and what replaces covers what is replaced (`Retile`). The other parts say why
  the code, which only looks at descriptors, does that: in `WellListed` a listed block's
  descriptor is its list's (so that a buddy with the right order, not present and of the
  same type really is a block of this size: between an aligned block and its buddy
  there is no room for another one), the lists hold each block once, and the counts are
  their lengths; in `WellHeld` and `WellFreed` the descriptor of a block that is out is what
  the free will read; `Coarse` says that blocks above the last level are never cut; `Fresh`
  that descriptors beyond the node are as they were initialised, for a merge at the end of the
  node must not find one. `Coalesced` is a part of the invariant, not a consequence: the
  merge goes on until it finds no buddy (`Merges` is the least such round, and
  `MergeChain` follows the tiling along the rounds), and a split leaves halves of different
  orders. It is about the UNMOVABLE blocks whose descriptors still say so, since a merge and
  a split clear the state of blocks that they list.
- **NodeGroups** (FreeGroupProofs, from `The node's callers` on): `NodeTypes`, `NodeDisjoint`,
  `NodeRequests`, `NodeWatermark` and the refinement `NodeServesPool` are the properties of the
  run `NodeGroups`, and `NodeKeepsGroups` says that the other promises of FreeGroup are kept
  under its callers. They suppose `AlignedGrowth` and `PlainCallers`, which MCNodeGroups
  asserts of the run: every block that `find_group` asks for on a caller's behalf is one of
  those in `PlainRequests`, and a request has at most 2^30 items, the size that rounding up to
  one block keeps within the shifts. All four kinds of flags are among them.

  FreeGroup's lemmas about an operation are stated for any block, not for a member of
  `Requests`, so that a dispatch of NodeGroups, whose blocks come from `todo`, is one of them.
  The inductive invariant `NodeInv` adds to `GroupInv` what the callers' accounts need. In
  `CallServes`, the blocks a running call has got, followed by those it has yet to get, are
  what `find_group` made of its request: at its end the former are the whole of it, whatever
  was split or migrated for it meanwhile, and what `CombinedRequest` and `SingleRequest` say
  of `find_group` becomes `RequestCovered`. In `Counted`, `nr_freeitems` with the drift and
  the items of the block that a free has in its hand is the number of items nobody has. That
  is a count of items and not a sum over lists, so a split, a merge or a migration, which
  change the lists only, have nothing to show; between calls the listed blocks tile the
  items nobody has, and the sum of their sizes, a fold over a set, is that number
  (`WatermarkExact`). A free excludes a running call, and a call is cut and served while the
  node does not grow, by the guards of the actions.
- **Levels** (LevelsProofs): `CombinedRequest` is what `find_group` makes of a combined
  request of any number of items below 2^31, from any level on: blocks falling in size that
  are exactly the items. Each level takes the multiples of its unit that remain, and the set
  bits of that number are its orders; sorted and joined, the levels in turn, they add up.
  `FlattenSeq`, of which the library states no theorem, is met by its definition, and
  `Ascending` by the sorted sequence it chooses, which exists by induction on the number of
  members. `SingleRequest` is the case of one block. `CutOfPower` is what `__init_pnode_item` returns for a piece of
  2^p items, for any level and order it starts with and any item the node begins at: blocks
  of one size, of the first level that the offset allows and that fits, which `PiecesTile`
  shows to cover the piece, each item once. The loops are recursive functions, which TLA+
  defines by CHOOSE; a lemma first exhibits the function the loop computes, so that there is
  something to choose, and then shows by induction on a set of numbers (`InductionSet`) that
  any other that satisfies the equation is equal to it.
- **NodeInit** (NodeInitProofs), for any F >= 2, any addresses, any room and any sizes that are
  powers of two: `NodeTypes`, `NodeTiles`, `NodeFreeItems`, `NodeBlocksAligned` and
  `NodeAddressesLeadBack` are the five invariants of the run. `PowerSizes` is supposed because
  another size gets fewer descriptors than items (a deviation above), and MCNodeInit asserts
  it of the run. The inductive invariant `NodeInv` has the tiling (`TilesOf`), which a growth
  continues with the piece that `CutOfPower` describes; `LevelsSuit`, that the node begins at
  a block of every level it has blocks of; `Living`, which ties the range and the
  free count to the items (also after a growth that failed, when the first one had not,
  `FirstMade`) and says that the node ends at a multiple of its last growth, so
  that a smaller one begins at a multiple of itself; and `InPlace`, the alignment that
  follows while the growths fall. The sum of the sizes in `BlocksTile` is a fold over a set,
  which `SumOfTiles` shows to be the number of the items covered, by induction on the number
  of blocks.
- **Slice** (SliceProofs), for any number of pages and slots, any contents of the bitmaps, any
  threshold and any width of the counts above it: `SlotsAreExclusive`, which supposes that the
  bit that is set is the page's (otherwise a second allocation breaks it), `PagesListedByStat`
  and `SliceTypes`, which hold for both readings. As they
  stand neither is inductive, for the code chooses lists by counts that are wrong. The
  strengthening `SliceInvariant` says why that is harmless: the first page leaves the count
  of free pages one too high and that of empty ones one too low, for ever, so the slice never
  asks for a second page, and the lists and counts are functions of the state of the one it
  has (`ListsOf`, `CountsOf`). It follows that every request fails once that page is full.

Only model-checked:

- FreeGroup and NodeGroups beyond `AlignedGrowth`, `PlainRequests` and `PlainCallers`, where
  the blocks overlap (`FreeGroupPromoted` and the deviations above);
- `LoopsEnd` of the traversal macros: liveness under fairness is out of the prover's reach.

Every other property of the passing runs is stated by a theorem.

## Not modelled

- **Sparse tables and streams.** No request of the program is ever served from a table:
  `new_group_root` lists a new one at order `MAX_ITEM_RANGE`, the search stops below that
  order, and `forward_remove_group_sparse` calls itself again with the same result (and with
  its arguments in the wrong places). The streams begin with `get_current_process_group()`,
  which is NULL. A model of the tables would be a model of a program that does not exist;
  what a physical node meets of them is in NodeAlloc, NodeGroups and FreeGroup
  (`dispatch_exhausted`, `node_struct_free_movable`, `dequeue_group_sparse`,
  `alloc_loses_range`).
- **Entity lists**: `forward_remove_group_prior` writes through a pointer that was never
  assigned. **Scheduling parameters**: copies of fields, with no state to relate.
- Virtual nodes, their windows, and the dimensions of `init_node`, for which
  `__get_pnode_of` sets no range but in two cases; the other nodes of a dimension, which
  have the first one's range and only add to the sum in `budget_sufficient`.
- Lending between nodes (`lend_group`): only MOVABLE's unreachable branch calls it.
- The backward search of groups and the split that goes with it
  (`sequence_split_group_migration`): no path sets GROUP_BACKWARD.
- The split of a MOVABLE block of level 2 is in FreeGroup (`SplitSize`), but the instances
  do not ask for one, since its halves overlap at once.
- Locks, printing, error codes.

## Plan

Done, in this order: the list and its loops, bits, flags, buddy lists, node allocation,
slices, initialisation; then growth between calls, requests in items over the buddy lists,
kmalloc, and the addresses; theorems about the lists and their walks, the bit searches, scanners and loops,
the flags, node allocation, slices, the cutting into levels and of requests, the buddy lists
with their callers, and initialisation.

What is left:

1. The three accounts of one node in one model: NodeInit's offsets in NodeGroups, so that a
   freed address goes through `range_to_item` in the run that allocates it.
2. When the sparse tables compile and their first request ends: **SparseTable**, the tree of
   item arrays with `nr_freeidx`, against an abstract set of free indices.
