------------------------------- MODULE Slice -------------------------------
(***************************************************************************)
(* The slice allocator: pages from the node, cut into slots, kept in three *)
(* lists by how many of their slots are used.  heap_alloc and heap_free    *)
(* are one action for each page they can pick.  `outstanding' counts, for  *)
(* every slot, the callers it has been given to.                           *)
(*                                                                         *)
(* heap_alloc marks a slot by set_bit(idx, &slice->ref), and slice_struct  *)
(* has no such field.  MarkedBitmap names the two readings: the bitmap of  *)
(* the page, which the search and heap_free read, or one of the slice,     *)
(* which nothing reads.                                                    *)
(***************************************************************************)
EXTENDS Integers, Sequences, SequencesExt, FiniteSetsExt

CONSTANTS Pages,                \* the pages the node can hand out
          Size,                 \* slots in a page: FIXED_ITEM_SIZE / bsize
          threshold_freeitems,  \* empty pages a slice keeps
          WordSize,             \* item_count is counted modulo this
          MarkedBitmap          \* "item" or "slice"

ASSUME SliceAssumption ==
    /\ MarkedBitmap \in {"item", "slice"}
    /\ Size \in Nat /\ threshold_freeitems \in Nat
    /\ WordSize \in Nat /\ WordSize > threshold_freeitems + 2

Stat == {"SLICE_EMPTY", "SLICE_FREE", "SLICE_FULL"}
Bits == 0..(Size - 1)
\* Size is the slot beyond the page, given out of a page with no clear bit.
Slots == 0..Size

VARIABLES list,         \* the item_list of each state, head first
          item_count,   \* and its length as the code keeps it
          owned,        \* pages the slice has from the node
          slice_stat, slice_ref, slice_head,   \* of the page's descriptor
          outstanding,  \* history: how many callers a slot was given to
          fault         \* a null page was used, or an assertion failed

page == <<slice_stat, slice_ref, slice_head>>
vars == <<list, item_count, owned, page, outstanding, fault>>

TypeOK ==
    /\ list \in [Stat -> Seq(Pages)]
    /\ item_count \in [Stat -> 0..(WordSize - 1)]
    /\ owned \subseteq Pages
    /\ slice_stat \in [Pages -> Stat]
    /\ slice_ref \in [Pages -> SUBSET Bits]
    /\ slice_head \in [Pages -> BOOLEAN]
    /\ outstanding \in [Pages -> [Slots -> Nat]]
    /\ fault \in BOOLEAN

\* __init_slice.  The bitmap of a descriptor is what the memory had: it lies
\* behind the two words of word1, which init_item clears.
Init ==
    /\ list = [s \in Stat |-> <<>>]
    /\ item_count = [s \in Stat |-> 0]
    /\ owned = {}
    /\ slice_stat = [p \in Pages |-> "SLICE_EMPTY"]
    /\ slice_ref \in [Pages -> SUBSET Bits]
    /\ slice_head = [p \in Pages |-> FALSE]
    /\ outstanding = [p \in Pages |-> [i \in Slots |-> 0]]
    /\ fault = FALSE

Fail == fault' = TRUE /\ UNCHANGED <<list, item_count, owned, page, outstanding>>

\* list_del: the page leaves the list it is in.
Without(l, p) ==
    IF p \in ToSet(l) THEN RemoveAt(l, CHOOSE i \in DOMAIN l : l[i] = p) ELSE l

\* Mutant: the page is linked anew and not unlinked.
Moved_Linked(lists, p, s) == [lists EXCEPT ![s] = Append(@, p)]

\* list_del and list_add_tail, and the count a page leaves and the one it joins.
Moved(lists, p, s) ==
    [r \in Stat |-> IF r = s THEN Append(Without(lists[r], p), p) ELSE Without(lists[r], p)]

\* Mutant: the counts do not wrap.
Plus_Unbounded(counts, s, n) == [counts EXCEPT ![s] = @ + n]

Plus(counts, s, n) == [counts EXCEPT ![s] = (@ + n) % WordSize]
Recount(counts, from, to) == Plus(Plus(counts, from, -1), to, 1)

\* Mutant: the loop that looks for a clear bit does not run.
FirstClear_Zero(ref) == 0

\* The slot the for_each_clear_bit loop breaks off at, or Size, where it ends.
FirstClear(ref) == Min({i \in Slots : i \notin ref \/ i = Size})

\* The page's bitmap after set_bit.
Marked(ref, slot) ==
    IF MarkedBitmap = "item" /\ slot < Size THEN ref \cup {slot} ELSE ref

\* Cut a slot from p.  The page was in the list of its state s, with the lists
\* and counts as they are after it was found or made.
Cut(p, s, lists, counts) ==
    LET slot == FirstClear(slice_ref[p])
        used == Marked(slice_ref[p], slot)
        lists1 == IF s = "SLICE_EMPTY" THEN Moved(lists, p, "SLICE_FREE") ELSE lists
        counts1 == IF s = "SLICE_EMPTY" THEN Recount(counts, "SLICE_EMPTY", "SLICE_FREE")
                   ELSE counts
        full == s \in {"SLICE_EMPTY", "SLICE_FREE"} /\ Bits \subseteq used
    IN  /\ slice_ref' = [slice_ref EXCEPT ![p] = used]
        /\ slice_stat' = [slice_stat EXCEPT ![p] = IF full THEN "SLICE_FULL" ELSE "SLICE_FREE"]
        /\ list' = IF full THEN Moved(lists1, p, "SLICE_FULL") ELSE lists1
        /\ item_count' = IF full THEN Recount(counts1, "SLICE_FREE", "SLICE_FULL") ELSE counts1
        /\ outstanding' = [outstanding EXCEPT ![p][slot] = @ + 1]
        /\ UNCHANGED fault

\* A list is asked for a page when its count is not zero.
heap_alloc_from(s) ==
    /\ ~fault
    /\ item_count[s] # 0
    /\ s = "SLICE_EMPTY" => item_count["SLICE_FREE"] = 0
    /\ IF list[s] = <<>> THEN Fail
       ELSE /\ Cut(Head(list[s]), slice_stat[Head(list[s])], list, item_count)
            /\ UNCHANGED <<owned, slice_head>>

\* A new page begins as EMPTY, and is linked in the free list.
heap_alloc_new(p) ==
    /\ ~fault
    /\ item_count["SLICE_FREE"] = 0 /\ item_count["SLICE_EMPTY"] = 0
    /\ p \notin owned
    /\ owned' = owned \cup {p}
    /\ slice_head' = [slice_head EXCEPT ![p] = TRUE]
    /\ Cut(p, "SLICE_EMPTY",
           [list EXCEPT !["SLICE_FREE"] = Append(@, p)], Plus(item_count, "SLICE_FREE", 1))

\* A caller gives a slot of the page back.
heap_free(p, slot) ==
    /\ ~fault
    /\ outstanding[p][slot] > 0
    /\ IF ~slice_head[p] THEN Fail
       ELSE /\ slot \in slice_ref[p]
            /\ outstanding' = [outstanding EXCEPT ![p][slot] = @ - 1]
            /\ slice_ref' = [slice_ref EXCEPT ![p] = @ \ {slot}]
            /\ LET ref == slice_ref[p] \ {slot}
                   wasFull == slice_stat[p] = "SLICE_FULL"
                   lists1 == IF wasFull THEN Moved(list, p, "SLICE_FREE") ELSE list
                   counts1 == IF wasFull THEN Recount(item_count, "SLICE_FULL", "SLICE_FREE")
                              ELSE item_count
                   isFree == wasFull \/ slice_stat[p] = "SLICE_FREE"
                   \* !find_first_bit: the first used slot is slot 0
                   empty == isFree /\ 0 \in ref
                   counts2 == Recount(counts1, "SLICE_FREE", "SLICE_EMPTY")
                   goes == empty /\ counts2["SLICE_EMPTY"] > threshold_freeitems
               IN  /\ slice_stat' = [slice_stat EXCEPT ![p] =
                         IF empty THEN "SLICE_EMPTY" ELSE IF isFree THEN "SLICE_FREE" ELSE @]
                   /\ slice_head' = [slice_head EXCEPT ![p] = @ /\ ~empty]
                   /\ item_count' = IF goes THEN Plus(counts2, "SLICE_EMPTY", -1)
                                    ELSE IF empty THEN counts2 ELSE counts1
                   /\ list' = IF goes THEN [s \in Stat |-> Without(lists1[s], p)]
                              ELSE IF empty THEN Moved(lists1, p, "SLICE_EMPTY") ELSE lists1
                   /\ owned' = IF goes THEN owned \ {p} ELSE owned
            /\ UNCHANGED fault

Next ==
    \/ \E s \in {"SLICE_FREE", "SLICE_EMPTY"} : heap_alloc_from(s)
    \/ \E p \in Pages : heap_alloc_new(p)
    \/ \E p \in Pages, slot \in Bits : heap_free(p, slot)

Spec == Init /\ [][Next]_vars

\* No slot of a page is given to two callers at a time: what a caller writes
\* into its slot is nobody else's.
NoSlotTwice == \A p \in Pages, i \in Bits : outstanding[p][i] <= 1

\* Nor will be: whatever the bitmap had before, it has the slots that are out,
\* from the cut to the free and through every change of the page's state.
SlotsExclusive ==
    /\ NoSlotTwice
    /\ \A p \in Pages, i \in Bits : outstanding[p][i] > 0 => i \in slice_ref[p]

\* A page the slice has is in the list of its state, once, and in no other.
ListedByStat ==
    \A p \in owned, s \in Stat :
        Cardinality({i \in DOMAIN list[s] : list[s][i] = p}) = IF slice_stat[p] = s THEN 1 ELSE 0

\* The page of a slot that is out names its slice: the assertion of heap_free.
HeapFreeAssertion ==
    \A p \in Pages, i \in Bits : outstanding[p][i] > 0 => slice_head[p]
=============================================================================
