----------------------------- MODULE NodeGroups -----------------------------
(***************************************************************************)
(* A node's callers over its groups: node_struct_alloc prepares a request, *)
(* find_group cuts it into blocks of the levels, FreeGroup's dispatch of   *)
(* each takes it from the lists, and node_struct_free gives the first one  *)
(* back; attr.nr_freeitems is kept along the way, and the node grows       *)
(* between the calls.  kmalloc is the caller that asks in bytes.           *)
(*                                                                         *)
(* LRU_CACHE_MAX_ITEMS is one, so that the cache keeps no item between     *)
(* calls; NodeAlloc has the cache.  Of the flags that are prepared alike,  *)
(* OBJECT stands for CONT and MMU.                                         *)
(***************************************************************************)
EXTENDS FreeGroup

CONSTANTS Callers,           \* the [nitems, flags] they ask for
          KmallocSizes,      \* the bytes kmalloc is asked for
          FIXED_ITEM_SIZE,   \* in bytes
          UNMOV_MAX_ITEMS,
          NoCall

ASSUME NodeGroupsAssumption ==
    /\ Callers \subseteq [nitems : Nat \ {0}, flags : {"RESERVED", "DEBUG", "DCONT", "OBJECT"}]
    /\ KmallocSizes \subseteq Nat
    /\ FIXED_ITEM_SIZE \in Nat \ {0} /\ UNMOV_MAX_ITEMS \in Nat

VARIABLES nr_freeitems,   \* attr.nr_freeitems
          call,           \* the running node_struct_alloc
          heads,          \* history: the held blocks their callers know
          drift           \* history: the UNMOVABLE items that were freed

nodeVars == <<vars, nr_freeitems, call, heads, drift>>

Call == [type : MigrationType, is_combined : BOOLEAN, wants_range : BOOLEAN, bytes : Nat,
         todo : Seq([lvl : Lvl, order : Nat]), got : Seq(Held)]

TypeOKNode ==
    /\ TypeOK
    /\ nr_freeitems \in Int
    /\ call \in Call \cup {NoCall}
    /\ heads \subseteq held
    /\ drift \in Nat

InitNode ==
    /\ Init
    /\ nr_freeitems = MapThenSumSet(LAMBDA k : Sizes[k], 1..AtStart)
    /\ call = NoCall
    /\ heads = {}
    /\ drift = 0

Idle == ~fault /\ freeing = NoFree /\ call = NoCall

(***************************************************************************)
(* prepare_node_struct_alloc and preprocess_node_struct_alloc.             *)
(***************************************************************************)
TypeFor(n, flags) ==
    IF flags \in {"DEBUG", "RESERVED"} THEN MIGRATION_UNMOVABLE
    ELSE IF n = 1 THEN MIGRATION_LRUTYPE ELSE MIGRATION_MOVABLE

IsCombined(n, flags) == flags = "RESERVED" \/ (flags = "DCONT" /\ n # 1)

\* What group_budget counts; the last level is left out of node_budget.
node_budget_lvl(type, l) == MapThenSumSet(LAMBDA o : count[<<l, type, o>>] * BlockItems(l, o), Order)
node_budget(type) == MapThenSumSet(LAMBDA l : node_budget_lvl(type, l), TopLvl..(MAX_GROUP_LVLS - 1))

IsPower(n) == item_to_orders_Rest(n) = 0

\* The `break' that follows a matching level budget leaves its own loop only.
Accepts(n, flags) ==
    CASE flags = "RESERVED" -> n = node_budget(MIGRATION_UNMOVABLE) \/ IsPower(n)
      [] flags = "DEBUG" -> /\ node_budget(MIGRATION_UNMOVABLE) <= UNMOV_MAX_ITEMS
                            /\ n <= UNMOV_MAX_ITEMS
                            /\ IsPower(n)
      [] OTHER -> TRUE

\* A request of one block is rounded up to a block.
psize(n, flags) == IF flags = "OBJECT" THEN BIT(item_to_order(n)) ELSE n

\* budget_sufficient, of the only node; the cache is empty.  MOVABLE is not asked.
budget_sufficient(n, type) ==
    \/ type = MIGRATION_MOVABLE
    \/ n < nr_freeitems
    \/ n - nr_freeitems <= IF type = MIGRATION_UNMOVABLE THEN node_budget(type) ELSE 0

(***************************************************************************)
(* node_struct_alloc.                                                      *)
(***************************************************************************)

\* compound_group: MOVABLE is searched for from level 0 on, as sparse tables are.
FirstLvl(type) == IF type = MIGRATION_MOVABLE THEN 0 ELSE TopLvl

\* A request whose blocks are of the modelled levels and orders, each of them
\* plain, and whose sizes stay within the shifts.
PlainCall(n, flags) ==
    LET type == TypeFor(n, flags)
    IN  /\ n \in 1..BIT(MaxShift) /\ type \in MigrationType
        /\ \A p \in ToSet(find_group(psize(n, flags), FirstLvl(type), IsCombined(n, flags))) :
             p.lvl \in Lvl /\ p.order \in Order /\ Plain(p.lvl, type, p.order)

node_struct_alloc(n, flags, bytes, wants_range) ==
    /\ Idle
    /\ Accepts(n, flags)
    /\ budget_sufficient(psize(n, flags), TypeFor(n, flags))
    /\ LET type == TypeFor(n, flags)
           combined == IsCombined(n, flags)
       IN  call' = [type |-> type, is_combined |-> combined,
                    wants_range |-> wants_range, bytes |-> bytes,
                    todo |-> find_group(psize(n, flags), FirstLvl(type), combined),
                    got |-> <<>>]
    /\ UNCHANGED <<vars, nr_freeitems, heads, drift>>

size_to_item(size) ==
    (size \div FIXED_ITEM_SIZE) + IF size % FIXED_ITEM_SIZE = 0 THEN 0 ELSE 1

kmalloc(size) == size # 0 /\ node_struct_alloc(size_to_item(size), "OBJECT", size, TRUE)

PlainCallers ==
    /\ \A r \in Callers : PlainCall(r.nitems, r.flags)
    /\ \A size \in KmallocSizes \ {0} : PlainCall(size_to_item(size), "OBJECT")

Running == ~fault /\ call # NoCall /\ call.todo # <<>>

\* Mutant: the block's order is counted, and its level is not.
DispatchedItems_Order(b) == BIT(b.order)

DispatchedItems(b) == BlockItems(b.lvl, b.order)

\* What dispatch_group does with block b when it has it.  A block that migrated
\* is counted once, by the dispatch that took it.
Dispatched(b) ==
    /\ nr_freeitems' = nr_freeitems - DispatchedItems(b)
    /\ call' = [call EXCEPT !.todo = Tail(@), !.got = Append(@, b)]
    /\ UNCHANGED <<heads, drift>>

dispatch_forward ==
    /\ Running
    /\ LET p == Head(call.todo)
       IN  /\ dispatch_group(p.lvl, call.type, p.order)
           /\ Dispatched(Taken(p.lvl, call.type, p.order, call.type))

dispatch_migrate ==
    /\ Running
    /\ LET p == Head(call.todo)
       IN  /\ migrate_group(p.lvl, call.type, p.order)
           /\ Dispatched(Taken(p.lvl, MIGRATION_MOVABLE, p.order, call.type))

\* Neither the type's lists nor MOVABLE's have the block: a lower level is cut,
\* or forward_remove_group_sparse calls itself for ever.
dispatch_exhausted ==
    /\ Running
    /\ LET p == Head(call.todo)
       IN  \/ CrossesLevel(p.lvl, call.type, p.order)
           \/ /\ ~CanRemove(p.lvl, call.type, p.order)
              /\ ~CanRemove(p.lvl, MIGRATION_MOVABLE, p.order)
    /\ fault' = TRUE
    /\ UNCHANGED <<grown, lists, descriptors, holders, freeing, nr_freeitems, call, heads, drift>>

Returning == ~fault /\ call # NoCall /\ call.todo = <<>>

\* find_group returns the first block.
alloc_returns ==
    /\ Returning
    /\ ~(call.wants_range /\ call.type = MIGRATION_MOVABLE)
    /\ heads' = heads \cup {Head(call.got)}
    /\ call' = NoCall
    /\ UNCHANGED <<vars, nr_freeitems, drift>>

\* item_to_range_sparse looks for the group of the item's dimension in the
\* process that runs, and there is no process.
alloc_loses_range ==
    /\ Returning
    /\ call.wants_range /\ call.type = MIGRATION_MOVABLE
    /\ fault' = TRUE
    /\ UNCHANGED <<grown, lists, descriptors, holders, freeing, nr_freeitems, call, heads, drift>>

(***************************************************************************)
(* node_struct_free: the first block goes back, those after it are left.   *)
(***************************************************************************)
node_struct_free(b) ==
    /\ Idle
    /\ b \in heads
    /\ dequeue_group_migration(b)
    /\ heads' = heads \ {b}
    /\ drift' = drift + IF state[b.item] = MIGRATION_UNMOVABLE THEN DispatchedItems(b) ELSE 0
    /\ UNCHANGED <<nr_freeitems, call>>

\* The first block is MOVABLE, and its groups would be those of a process.
free_without_group(b) ==
    /\ Idle
    /\ b \in heads
    /\ dequeue_group_sparse(b)
    /\ UNCHANGED <<nr_freeitems, call, heads, drift>>

\* kfree finds the item of an address and asks for its range, which is the one
\* the allocation gave (AddressesLeadBack of NodeInit); a caller that has the item
\* calls node_struct_free itself.
kfree(b) == node_struct_free(b) \/ free_without_group(b)

\* Mutant: the UNMOVABLE block is counted when it comes back.
FreedItems_All(f) == BlockItems(f.lvl, f.order)

\* An UNMOVABLE block is the only one to be listed in several rounds.
FreedItems(f) == IF f.type = MIGRATION_UNMOVABLE THEN 0 ELSE BlockItems(f.lvl, f.order)

free_round ==
    /\ free_group_migration
    /\ nr_freeitems' = nr_freeitems + IF fault' THEN 0 ELSE FreedItems(freeing)
    /\ UNCHANGED <<call, heads, drift>>

node_grows ==
    /\ Idle
    /\ update_pnode
    /\ nr_freeitems' = nr_freeitems + Sizes[grown + 1]
    /\ UNCHANGED <<call, heads, drift>>

NextNode ==
    \/ \E r \in Callers :
         node_struct_alloc(r.nitems, r.flags, r.nitems * FIXED_ITEM_SIZE, FALSE)
    \/ \E size \in KmallocSizes : kmalloc(size)
    \/ dispatch_forward \/ dispatch_migrate \/ dispatch_exhausted
    \/ alloc_returns \/ alloc_loses_range
    \/ \E b \in heads : kfree(b)
    \/ free_round
    \/ node_grows

SpecNode == InitNode /\ [][NextNode]_nodeVars

(***************************************************************************)
(* Properties.                                                             *)
(***************************************************************************)
ItemsGot ==
    FoldLeft(LAMBDA sum, b : sum + BlockItems(b.lvl, b.order), 0, call.got)

\* A call that comes to its end has the bytes it was asked for: in one block
\* when the caller counts on one, of less than twice what it needs; else with
\* no item too many, the blocks falling in size, so that the first one, which
\* the address names, is the largest.
RequestCovered ==
    call # NoCall /\ call.todo = <<>> =>
        /\ call.bytes <= ItemsGot * FIXED_ITEM_SIZE
        /\ call.is_combined => (ItemsGot - 1) * FIXED_ITEM_SIZE < call.bytes
        /\ ~call.is_combined =>
             Len(call.got) = 1 /\ ItemsGot * FIXED_ITEM_SIZE < 2 * (call.bytes + FIXED_ITEM_SIZE)
        /\ \A i, j \in DOMAIN call.got :
             i < j => BlockItems(call.got[i].lvl, call.got[i].order)
                        > BlockItems(call.got[j].lvl, call.got[j].order)

ListedItems == MapThenSumSet(LAMBDA b : BlockItems(b.lvl, b.order), Free)

\* The watermark against the lists: through splits, migrations, merges and
\* growth, nr_freeitems is short of the listed items by the UNMOVABLE items
\* that came back, and by nothing else.
WatermarkExact == Idle => nr_freeitems + drift = ListedItems
=============================================================================
