----------------------------- MODULE NodeAlloc -----------------------------
(***************************************************************************)
(* node_struct_alloc and node_struct_free of one physical node: the        *)
(* watermark, the search for a type's blocks with its migration from       *)
(* MOVABLE, the cache of single items, and requests of several blocks.     *)
(*                                                                         *)
(* Blocks are units here, whatever their size, and a group's lists are     *)
(* sets: splitting and merging are FreeGroup's.  As sizes are left out,    *)
(* whether a listed block fits is free, but for single items, which any    *)
(* block makes.  A call runs under the node's lock; it is a step for each  *)
(* block it dispatches.  attr.status is                                    *)
(* left out: no call finds it other than IDLE or FORWARD, as migrate_group *)
(* sets ONLY_FORWARD for the length of one dispatch and the branch that    *)
(* sets BACKWARD is MOVABLE's, which is turned away before it.             *)
(***************************************************************************)
EXTENDS Integers, Sequences, SequencesExt, FiniteSets

CONSTANTS Block,                \* the node's blocks
          Reserved,             \* those initialised into the UNMOVABLE lists
          LRU_CACHE_MAX_ITEMS,
          Requests,             \* the requests callers make
          NoBlock, NoCall

MigrationType == {"MOVABLE", "UNMOVABLE", "LRUTYPE"}
Request == [type : MigrationType, nblocks : Nat \ {0}, is_combined : BOOLEAN,
            wants_range : BOOLEAN]
Call == [type : MigrationType, left : Nat, head : Block \cup {NoBlock}, got : SUBSET Block,
         is_combined : BOOLEAN, wants_range : BOOLEAN]

\* What prepare_node_struct_alloc makes of the flags: a request of several
\* blocks is combined, one for a cached item is not.
ASSUME NodeAllocAssumption ==
    /\ IsFiniteSet(Block) /\ Reserved \subseteq Block /\ NoBlock \notin Block
    /\ NoCall \notin Call
    /\ LRU_CACHE_MAX_ITEMS \in Nat \ {0}
    /\ Requests \subseteq Request
    /\ \A r \in Requests : (r.nblocks > 1 => r.is_combined) /\ (r.is_combined => r.type # "LRUTYPE")

VARIABLES free,            \* the group lists, by migration type
          lru_cache,       \* LRU_CACHE_CELL, head first
          state,           \* ITEM_STATE of a block, by its migration type
          compound_head, compound_node,   \* the chain of a combined request
          nr_freeitems,    \* attr.nr_freeitems
          call,            \* the running node_struct_alloc
          held,            \* history: what callers hold: head and blocks
          owners,          \* history: how many callers hold a block
          left_behind,     \* history: the blocks after the head of a freed chain
          crash            \* "no_group", "no_address": a free, an allocation has
                           \* dereferenced NULL; "endless": it calls itself for ever

holders == <<held, owners, left_behind>>
chains == <<compound_head, compound_node>>
node == <<free, lru_cache, state, chains, nr_freeitems>>
vars == <<node, call, holders, crash>>

Held == [head : Block, blocks : SUBSET Block]

TypeOK ==
    /\ free \in [MigrationType -> SUBSET Block]
    /\ lru_cache \in Seq(Block)
    /\ state \in [Block -> MigrationType]
    /\ compound_head \in [Block -> BOOLEAN]
    /\ compound_node \in [Block -> Block \cup {NoBlock}]
    /\ nr_freeitems \in Int
    /\ call \in Call \cup {NoCall}
    /\ held \subseteq Held
    /\ owners \in [Block -> Int]
    /\ left_behind \subseteq Block
    /\ crash \in {"no", "no_group", "no_address", "endless"}

Init ==
    /\ free = [t \in MigrationType |->
                 IF t = "MOVABLE" THEN Block \ Reserved
                 ELSE IF t = "UNMOVABLE" THEN Reserved ELSE {}]
    /\ lru_cache = <<>>
    /\ state = [b \in Block |-> "MOVABLE"]
    /\ compound_head = [b \in Block |-> FALSE]
    /\ compound_node = [b \in Block |-> NoBlock]
    /\ nr_freeitems = Cardinality(Block)
    /\ call = NoCall
    /\ held = {}
    /\ owners = [b \in Block |-> 0]
    /\ left_behind = {}
    /\ crash = "no"

Idle == crash = "no" /\ call = NoCall

(***************************************************************************)
(* Allocation.                                                             *)
(***************************************************************************)

\* node_budget, for blocks of a level that it sums.
node_budget(type) == Cardinality(free[type])

\* preprocess_node_struct_alloc: reserved items are taken as one block or all.
\* find_group cuts all of them into the fewest powers of two, no more than the
\* lists have blocks: of three blocks of two items it asks for one of four,
\* which is not listed, and for one of two.
preprocess(r) == r.type = "UNMOVABLE" /\ r.nblocks > 1 => r.nblocks <= node_budget(r.type)

Remaining(type) ==
    CASE type = "LRUTYPE" -> Len(lru_cache)
      [] type = "UNMOVABLE" -> node_budget(type)
      [] OTHER -> 0

\* budget_sufficient: the node's free items exceed the request, or the rest can
\* be made up.  MOVABLE is never asked, its value being SPARSE_MOVABLE's.
budget_sufficient(n, type) ==
    n - nr_freeitems < 0 \/ Remaining(type) >= n - nr_freeitems

node_struct_alloc(r) ==
    /\ Idle
    /\ preprocess(r)
    /\ r.type # "MOVABLE" => budget_sufficient(r.nblocks, r.type)
    /\ call' = [type |-> r.type, left |-> r.nblocks, head |-> NoBlock, got |-> {},
                is_combined |-> r.is_combined, wants_range |-> r.wants_range]
    /\ UNCHANGED <<node, holders, crash>>

\* The last block of a chain: the loop over compound_node.
ChainEnd(b) ==
    LET at[n \in 0..Cardinality(Block)] ==
            IF n = 0 THEN b
            ELSE IF compound_node[at[n - 1]] = NoBlock THEN at[n - 1]
                 ELSE compound_node[at[n - 1]]
    IN  at[Cardinality(Block)]

\* Mutant: the block is linked to the head, not to the end of the chain.
compound_append_AtHead(b, head) ==
    IF ~compound_head[head]
    THEN /\ compound_head' = [compound_head EXCEPT ![head] = TRUE]
         /\ UNCHANGED compound_node
    ELSE /\ compound_node' = [compound_node EXCEPT ![head] = b]
         /\ UNCHANGED compound_head

\* compound_append: the first call only marks the head.
compound_append(b, head) ==
    IF ~compound_head[head]
    THEN /\ compound_head' = [compound_head EXCEPT ![head] = TRUE]
         /\ UNCHANGED compound_node
    ELSE /\ compound_node' = [compound_node EXCEPT ![ChainEnd(head)] = b]
         /\ UNCHANGED compound_head

\* find_group goes on with a block that was dispatched.
Dispatched(b) ==
    LET head == IF call.head = NoBlock THEN b ELSE call.head
    IN  /\ call' = [call EXCEPT !.left = @ - 1, !.head = head, !.got = @ \cup {b}]
        /\ IF call.is_combined THEN compound_append(b, head) ELSE UNCHANGED chains
        /\ UNCHANGED <<holders, crash>>

Running == crash = "no" /\ call # NoCall /\ call.left > 0

CacheServes == call.type = "LRUTYPE" /\ lru_cache # <<>>

\* Mutant: the cached item is looked at, not removed.
AfterHit_Peek == lru_cache

AfterHit == Tail(lru_cache)

\* dispatch_group takes the hottest cached item: no accounting, no new state.
dispatch_cached ==
    /\ Running /\ CacheServes
    /\ lru_cache' = AfterHit
    /\ Dispatched(Head(lru_cache))
    /\ UNCHANGED <<free, state, nr_freeitems>>

\* Mutant: the block that is taken stays in the count.
FreeItemsBefore_Kept == nr_freeitems

FreeItemsBefore == nr_freeitems - 1

\* A block leaves the lists of type t and is marked as m.
TakeFrom(t, b, m) ==
    /\ b \in free[t]
    /\ free' = [free EXCEPT ![t] = @ \ {b}]
    /\ state' = [state EXCEPT ![b] = m]
    /\ nr_freeitems' = FreeItemsBefore
    /\ Dispatched(b)
    /\ UNCHANGED lru_cache

\* Mutant: item_state_to_migration has no case for the state that is set.
ForwardState_Unmapped == "none"

\* set_group_item_state: STATE_ITEM_MOVABLE_NORMAL or _COMP, or SPARSE_TYPES.
ForwardState == "MOVABLE"

\* The lists of the type itself serve.
dispatch_forward ==
    /\ Running /\ ~CacheServes
    /\ \E b \in Block : TakeFrom(call.type, b, ForwardState)

\* No block of the type's own lists fits.  Any block makes the single item
\* that a cached request is for.
MayLack == call.type = "LRUTYPE" => free["LRUTYPE"] = {}

\* dispatch_group_migration and migrate_group, for the types that migrate.
dispatch_migrate ==
    /\ Running /\ ~CacheServes
    /\ call.type # "MOVABLE" /\ MayLack
    /\ \E b \in Block : TakeFrom("MOVABLE", b, call.type)

\* No MOVABLE block fits either: forward_remove_group_sparse lists a new
\* itemarray at an order its search never reaches and calls itself; out of
\* itemarrays, heap_alloc asks this node for items.
dispatch_exhausted ==
    /\ Running /\ ~CacheServes
    /\ MayLack
    /\ crash' = "endless"
    /\ UNCHANGED <<node, call, holders>>

Served == crash = "no" /\ call # NoCall /\ call.left = 0

\* item_to_range_sparse: the address of a MOVABLE item is looked for from the
\* root of a process's group, and no process has one.
LosesRange == call.wants_range /\ call.type = "MOVABLE"

alloc_loses_range ==
    /\ Served /\ LosesRange
    /\ crash' = "no_address"
    /\ UNCHANGED <<node, call, holders>>

alloc_returns ==
    /\ Served /\ ~LosesRange
    /\ held' = held \cup {[head |-> call.head, blocks |-> call.got]}
    /\ owners' = [b \in Block |-> owners[b] + IF b \in call.got THEN 1 ELSE 0]
    /\ call' = NoCall
    /\ UNCHANGED <<node, left_behind, crash>>

(***************************************************************************)
(* node_struct_free, decompose_group and find_group_reversed: the state of *)
(* the descriptor decides where the block goes.                            *)
(***************************************************************************)

FreeItemsAfter(t) == IF t = "UNMOVABLE" THEN nr_freeitems ELSE nr_freeitems + 1

\* dequeue_group_migration: the chain is cut before it is followed, so that
\* the head alone goes back.
dequeue_group_migration(b, t) ==
    /\ free' = [free EXCEPT ![t] = @ \cup {b}]
    /\ compound_head' = [compound_head EXCEPT ![b] = FALSE]
    /\ compound_node' = [compound_node EXCEPT ![b] =
                           IF compound_head[b] THEN NoBlock ELSE @]
    /\ nr_freeitems' = FreeItemsAfter(t)

free_unmovable(h) ==
    /\ state[h.head] = "UNMOVABLE"
    /\ dequeue_group_migration(h.head, "UNMOVABLE")
    /\ UNCHANGED lru_cache

\* Mutant: the count is compared before the item is added.
CacheIsFull_Late == Len(lru_cache) >= LRU_CACHE_MAX_ITEMS

CacheIsFull == Len(lru_cache) + 1 >= LRU_CACHE_MAX_ITEMS

\* Mutant: the cold end is dropped, and the freed item goes to the lists.
Evicted_Freed(cells) == Head(cells)

Evicted(cells) == Last(cells)

\* The freed item is the hot end; a full cache gives up its cold end.
free_cached(h) ==
    /\ state[h.head] = "LRUTYPE"
    /\ LET cells == <<h.head>> \o lru_cache
       IN  IF CacheIsFull
           THEN /\ lru_cache' = Front(cells)
                /\ dequeue_group_migration(Evicted(cells), "LRUTYPE")
           ELSE /\ lru_cache' = cells
                /\ UNCHANGED <<free, chains, nr_freeitems>>

node_struct_free(h) ==
    /\ Idle
    /\ h \in held
    /\ free_unmovable(h) \/ free_cached(h)
    /\ held' = held \ {h}
    /\ owners' = [b \in Block |-> owners[b] - IF b \in h.blocks THEN 1 ELSE 0]
    /\ left_behind' = left_behind \cup (h.blocks \ {h.head})
    /\ UNCHANGED <<state, call, crash>>

\* A MOVABLE block goes to dequeue_group_sparse, which looks for its group in
\* the process's, and no process has one.
node_struct_free_movable(h) ==
    /\ Idle
    /\ h \in held
    /\ state[h.head] = "MOVABLE"
    /\ crash' = "no_group"
    /\ UNCHANGED <<node, call, holders>>

Next ==
    \/ \E r \in Requests : node_struct_alloc(r)
    \/ dispatch_cached \/ dispatch_forward \/ dispatch_migrate \/ dispatch_exhausted
    \/ alloc_returns \/ alloc_loses_range
    \/ \E h \in held : node_struct_free(h) \/ node_struct_free_movable(h)

Spec == Init /\ [][Next]_vars

(***************************************************************************)
(* Properties.                                                             *)
(***************************************************************************)
Listed == UNION {free[t] : t \in MigrationType}
Got == IF call = NoCall THEN {} ELSE call.got
Out == Got \cup UNION {h.blocks : h \in held}

\* A block is in one place: one list, or the cache once, or with one caller.
OnePlace ==
    /\ \A s, t \in MigrationType : s # t => free[s] \cap free[t] = {}
    /\ IsInjective(lru_cache)
    /\ Listed \cap ToSet(lru_cache) = {}
    /\ (Listed \cup ToSet(lru_cache)) \cap Out = {}
    /\ \A h, k \in held : h # k => h.blocks \cap k.blocks = {}

\* Nothing is forgotten but what a free leaves behind: a block that is not
\* listed, cached or held came after the head of a chain that was freed.
OnlyTailsForgotten == Block \ (Listed \cup ToSet(lru_cache) \cup Out) = left_behind

\* The chain of a combined request, followed from the block its caller has,
\* is all the blocks it was given.
ChainIsRequest ==
    \A h \in held :
        LET after == {c \in h.blocks : \E b \in h.blocks : compound_node[b] = c}
        IN  /\ {compound_node[b] : b \in h.blocks} \subseteq h.blocks \cup {NoBlock}
            /\ after = h.blocks \ {h.head}

\* Between calls the cache keeps less than its maximum.
CacheBounded == Len(lru_cache) < LRU_CACHE_MAX_ITEMS

\* nr_freeitems never promises more than the lists have: budget_sufficient
\* and lend_group rely on it, and it only drifts the other way, by the
\* UNMOVABLE blocks that were freed.
FreeItemsNotOverstated == nr_freeitems <= Cardinality(Listed)

\* Giving a block back does not dereference a null pointer.
FreeWorks == crash # "no_group"

\* Every allocation grants blocks nobody holds.
Pool == INSTANCE ItemPool WITH Item <- Block, Block <- (SUBSET Block) \ {{}}
RefinesPool == Pool!SpecPool
=============================================================================
