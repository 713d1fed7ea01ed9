---------------------------- MODULE SliceProofs ----------------------------
(***************************************************************************)
(* Theorems about Slice, for any pages, slot size, threshold and width of  *)
(* the counts, either reading of the bitmap that heap_alloc marks and any  *)
(* content the bitmaps had before; that slots are exclusive supposes the   *)
(* reading in which it is the page's.  A new page leaves the count of the  *)
(* free list one too high and that of the empty list one too low for ever: *)
(* the slice never asks for a second page, and all it can do is a walk of  *)
(* one page through the three states.  The inductive invariant says so.    *)
(***************************************************************************)
EXTENDS Slice, FiniteSetTheorems, WellFoundedInduction, TLAPS

\* The lists with p in that of state st, and with no page.
ListsOf(p, st) == [s \in Stat |-> IF s = st THEN <<p>> ELSE <<>>]
NoLists == [s \in Stat |-> <<>>]

\* The counts of a slice with one page, which is in state st.
CountsOf(st) ==
    [s \in Stat |-> IF s = "SLICE_FREE" THEN IF st = s THEN 2 ELSE 1
                    ELSE IF s = "SLICE_EMPTY" THEN IF st = s THEN 0 ELSE WordSize - 1
                         ELSE IF st = s THEN 1 ELSE 0]

\* No slot of p is out.
Untouched(p) == \A i \in Slots : outstanding[p][i] = 0

NoPageYet ==
    /\ owned = {}
    /\ list = NoLists
    /\ item_count = [s \in Stat |-> 0]
    /\ \A p \in Pages : Untouched(p)

OnePage(p) ==
    /\ owned = {p}
    /\ list = ListsOf(p, slice_stat[p])
    /\ item_count = CountsOf(slice_stat[p])
    /\ \A q \in Pages \ {p} : Untouched(q)

SliceInv ==
    /\ TypeOK
    /\ MarkedBitmap = "item" => SlotsExclusive
    /\ NoPageYet \/ \E p \in Pages : OnePage(p)

LEMMA WithoutPage ==
    ASSUME NEW p
    PROVE  Without(<<p>>, p) = <<>> /\ Without(<<>>, p) = <<>> /\ Append(<<>>, p) = <<p>>
<1>1. ToSet(<<p>>) = {p} /\ ToSet(<<>>) = {}
  BY DEF ToSet
<1>2. (CHOOSE i \in DOMAIN <<p>> : <<p>>[i] = p) = 1
  OBVIOUS
<1>3. RemoveAt(<<p>>, 1) = <<>>
  BY DEF RemoveAt
<1> QED  BY <1>1, <1>2, <1>3 DEF Without

\* Moving the only page.
LEMMA MovedPage ==
    ASSUME NEW p, NEW from \in Stat, NEW to \in Stat
    PROVE  Moved(ListsOf(p, from), p, to) = ListsOf(p, to)
BY WithoutPage DEF Moved, ListsOf

\* The sums of the counts that occur, at their width.
LEMMA Wraps ==
    /\ WordSize \in Nat /\ WordSize > 2
    /\ (0 + 1) % WordSize = 1 /\ (1 + 1) % WordSize = 2
    /\ (1 - 1) % WordSize = 0 /\ (2 - 1) % WordSize = 1
    /\ (0 - 1) % WordSize = WordSize - 1
    /\ (WordSize - 1 + 1) % WordSize = 0
BY SliceAssumption, SMTT(30)

\* The counts follow the page.
LEMMA Recounted ==
    /\ Recount(CountsOf("SLICE_FREE"), "SLICE_FREE", "SLICE_FULL") = CountsOf("SLICE_FULL")
    /\ Recount(CountsOf("SLICE_FULL"), "SLICE_FULL", "SLICE_FREE") = CountsOf("SLICE_FREE")
    /\ Recount(CountsOf("SLICE_FREE"), "SLICE_FREE", "SLICE_EMPTY") = CountsOf("SLICE_EMPTY")
    /\ Recount(Plus([s \in Stat |-> 0], "SLICE_FREE", 1), "SLICE_EMPTY", "SLICE_FREE")
         = CountsOf("SLICE_FREE")
BY Wraps, SMTT(30) DEF Recount, Plus, CountsOf, Stat

LEMMA InitEstablishes == Init => SliceInv
<1> SUFFICES ASSUME Init PROVE SliceInv
  OBVIOUS
<1>1. TypeOK
  <2>1. \A s \in Stat : list[s] \in Seq(Pages)
    BY DEF Init
  <2>2. list \in [Stat -> Seq(Pages)]
    BY <2>1 DEF Init
  <2>3. item_count \in [Stat -> 0..(WordSize - 1)]
    BY SliceAssumption DEF Init
  <2>4. slice_stat \in [Pages -> Stat] /\ slice_head \in [Pages -> BOOLEAN]
    BY DEF Init, Stat
  <2>5. slice_ref \in [Pages -> SUBSET Bits] /\ outstanding \in [Pages -> [Slots -> Nat]]
    BY DEF Init
  <2> QED  BY <2>2, <2>3, <2>4, <2>5 DEF Init, TypeOK
<1>2. SlotsExclusive
  BY SliceAssumption DEF Init, SlotsExclusive, NoSlotTwice, Slots, Bits
<1>3. NoPageYet
  BY DEF Init, NoPageYet, NoLists, Untouched
<1> QED  BY <1>1, <1>2, <1>3 DEF SliceInv

\* A set of numbers that is not empty has a least one.
LEMMA LeastOf ==
    ASSUME NEW S \in SUBSET Nat, NEW n \in S
    PROVE  \E m \in S : \A i \in S : m <= i
<1> DEFINE less == {ss \in Nat \X Nat : ss[1] < ss[2]}
<1>1. IsWellFoundedOn(less, Nat)
  BY NatLessThanWellFounded, Zenon DEF OpToRel
<1>2. PICK m \in S : \A i \in S : <<i, m>> \notin less
  BY <1>1, WFMin
<1>3. ASSUME NEW i \in S PROVE m <= i
  <2>1. ~(i < m)
    <3>1. i \in Nat /\ m \in Nat
      OBVIOUS
    <3>2. i < m => <<i, m>> \in less
      BY <3>1
    <3> QED  BY <1>2, <3>2
  <2> QED  BY <2>1
<1> QED  BY <1>3

\* The slot that is cut: the least that is clear, or Size.
LEMMA FirstClearIs ==
    ASSUME NEW ref, ref \subseteq Bits
    PROVE  /\ FirstClear(ref) \in Slots
           /\ FirstClear(ref) \notin ref
<1> DEFINE clear == {i \in Slots : i \notin ref \/ i = Size}
<1>1. clear \subseteq Nat /\ Size \in clear
  BY SliceAssumption DEF Slots
<1>2. PICK m \in clear : \A i \in clear : m <= i
  BY <1>1, LeastOf
<1>3. FirstClear(ref) \in clear /\ \A i \in clear : FirstClear(ref) <= i
  BY <1>2 DEF FirstClear, Min
<1> QED  BY <1>3, SliceAssumption DEF Slots, Bits

\* A page that is cut stays the only one: it was free, or new and in the free
\* list.
LEMMA CutKeeps ==
    ASSUME SliceInv, NEW p \in Pages, NEW s \in Stat, NEW lists, NEW counts,
           lists = ListsOf(p, "SLICE_FREE"),
           \/ s = "SLICE_FREE" /\ counts = CountsOf("SLICE_FREE")
           \/ /\ s = "SLICE_EMPTY"
              /\ counts = Plus([t \in Stat |-> 0], "SLICE_FREE", 1),
           owned' = {p}, slice_head' \in [Pages -> BOOLEAN],
           \A q \in Pages \ {p} : Untouched(q),
           Cut(p, s, lists, counts)
    PROVE  SliceInv'
<1> DEFINE ref == slice_ref[p]
           slot == FirstClear(ref)
           used == Marked(ref, slot)
           full == s \in {"SLICE_EMPTY", "SLICE_FREE"} /\ Bits \subseteq used
           lists1 == IF s = "SLICE_EMPTY" THEN Moved(lists, p, "SLICE_FREE") ELSE lists
           counts1 == IF s = "SLICE_EMPTY" THEN Recount(counts, "SLICE_EMPTY", "SLICE_FREE")
                      ELSE counts
           stat == IF full THEN "SLICE_FULL" ELSE "SLICE_FREE"
<1> USE DEF SliceInv, TypeOK
<1>1. slot \in Slots /\ slot \notin ref /\ (slot < Size \/ slot = Size)
  <2>0. ref \subseteq Bits
    OBVIOUS
  <2>1. slot \in Slots /\ slot \notin ref
    BY <2>0, FirstClearIs
  <2>2. slot < Size \/ slot = Size
    BY <2>1, SliceAssumption DEF Slots
  <2> QED  BY <2>1, <2>2
<1>2. used \in SUBSET Bits
  BY <1>1, SliceAssumption DEF Slots, Bits, Marked
<1>3. lists1 = ListsOf(p, "SLICE_FREE") /\ counts1 = CountsOf("SLICE_FREE")
  BY MovedPage, Recounted DEF Stat
<1>4. /\ slice_ref' = [slice_ref EXCEPT ![p] = used]
      /\ slice_stat' = [slice_stat EXCEPT ![p] = stat]
      /\ list' = IF full THEN Moved(lists1, p, "SLICE_FULL") ELSE lists1
      /\ item_count' = IF full THEN Recount(counts1, "SLICE_FREE", "SLICE_FULL") ELSE counts1
      /\ outstanding' = [outstanding EXCEPT ![p][slot] = @ + 1]
      /\ fault' = fault
  BY DEF Cut
<1>5. slice_stat'[p] = stat /\ stat \in Stat
  BY <1>4 DEF Stat
<1>6. list' = ListsOf(p, stat) /\ item_count' = CountsOf(stat)
  BY <1>3, <1>4, MovedPage, Recounted DEF Stat
<1>7. \A q \in Pages \ {p} : Untouched(q)'
  BY <1>4 DEF Untouched
<1>8. OnePage(p)'
  BY <1>5, <1>6, <1>7 DEF OnePage
<1>9. TypeOK'
  <2>1. list' \in [Stat -> Seq(Pages)]
    BY <1>6, <1>5 DEF ListsOf
  <2>2. item_count' \in [Stat -> 0..(WordSize - 1)]
    BY <1>6, <1>5, SliceAssumption DEF CountsOf, Stat
  <2>3. slice_stat' \in [Pages -> Stat]
    BY <1>4, <1>5
  <2>4. slice_ref' \in [Pages -> SUBSET Bits]
    BY <1>2, <1>4
  <2>5. outstanding' \in [Pages -> [Slots -> Nat]]
    <3> HIDE DEF slot
    <3>0. outstanding[p] \in [Slots -> Nat]
      OBVIOUS
    <3>1. outstanding[p][slot] + 1 \in Nat
      BY <1>1, <3>0
    <3>2. [outstanding[p] EXCEPT ![slot] = @ + 1] \in [Slots -> Nat]
      BY <1>1, <3>0, <3>1
    <3>3. outstanding' = [outstanding EXCEPT ![p] = [outstanding[p] EXCEPT ![slot] = @ + 1]]
      BY <1>4
    <3> QED  BY <3>2, <3>3
  <2> QED  BY <1>4, <2>1, <2>2, <2>3, <2>4, <2>5
<1>10. ASSUME MarkedBitmap = "item" PROVE SlotsExclusive'
  <2> SUFFICES ASSUME NEW q \in Pages, NEW i \in Bits
               PROVE  /\ outstanding'[q][i] <= 1
                      /\ outstanding'[q][i] > 0 => i \in slice_ref'[q]
    BY DEF SlotsExclusive, NoSlotTwice
  <2>1. /\ i \in Slots /\ outstanding[q][i] \in Nat /\ outstanding[q][i] <= 1
        /\ outstanding[q][i] > 0 => i \in slice_ref[q]
    BY <1>10, SliceAssumption DEF SlotsExclusive, NoSlotTwice, Slots, Bits
  <2>2. ref \subseteq used
    BY DEF Marked
  <2>3. CASE q # p
    BY <1>4, <2>1, <2>3
  <2>4. CASE q = p /\ i # slot
    BY <1>1, <1>4, <2>1, <2>2, <2>4
  <2>5. CASE q = p /\ i = slot
    <3>1. slot < Size
      BY <2>5, SliceAssumption DEF Bits
    <3>2. slot \in used
      BY <1>10, <3>1 DEF Marked
    <3>3. outstanding[p][slot] = 0
      BY <1>1, <2>1, <2>5
    <3> QED  BY <1>1, <1>4, <2>5, <3>2, <3>3
  <2> QED  BY <2>3, <2>4, <2>5
<1> QED  BY <1>8, <1>9, <1>10

\* The invariant says nothing of fault but that it is TRUE or FALSE.
LEMMA SameKeeps ==
    ASSUME SliceInv, fault' \in BOOLEAN,
           UNCHANGED <<list, item_count, owned, page, outstanding>>
    PROVE  SliceInv'
<1> USE DEF SliceInv, page
<1>1. TypeOK'
  BY DEF TypeOK
<1>2. (MarkedBitmap = "item" => SlotsExclusive)'
  BY DEF SlotsExclusive, NoSlotTwice
<1>3. \A p \in Pages : Untouched(p) => Untouched(p)'
  BY DEF Untouched
<1>4. NoPageYet => NoPageYet'
  BY <1>3 DEF NoPageYet
<1>5. \A p \in Pages : OnePage(p) => OnePage(p)'
  BY <1>3 DEF OnePage
<1> QED  BY <1>1, <1>2, <1>4, <1>5

LEMMA FailKeeps == SliceInv /\ Fail => SliceInv'
BY SameKeeps DEF Fail

LEMMA AllocFromKeeps ==
    ASSUME SliceInv, NEW s \in {"SLICE_FREE", "SLICE_EMPTY"}, heap_alloc_from(s)
    PROVE  SliceInv'
<1>1. item_count[s] # 0 /\ (s = "SLICE_EMPTY" => item_count["SLICE_FREE"] = 0)
  BY DEF heap_alloc_from
<1>2. PICK p \in Pages : OnePage(p)
  BY <1>1 DEF SliceInv, NoPageYet, Stat
<1>3. slice_stat[p] \in Stat
  BY DEF SliceInv, TypeOK
<1>4. s = "SLICE_FREE"
  BY <1>1, <1>2, <1>3 DEF OnePage, CountsOf, Stat
<1>5. CASE slice_stat[p] = "SLICE_FREE"
  <2>1. list[s] = <<p>> /\ list[s] # <<>> /\ Head(list[s]) = p
    BY <1>2, <1>4, <1>5 DEF OnePage, ListsOf, Stat
  <2>2. Cut(p, "SLICE_FREE", list, item_count) /\ UNCHANGED <<owned, slice_head>>
    BY <1>5, <2>1 DEF heap_alloc_from
  <2>3. /\ slice_head' \in [Pages -> BOOLEAN]
        /\ list = ListsOf(p, "SLICE_FREE") /\ item_count = CountsOf("SLICE_FREE")
        /\ owned' = {p} /\ "SLICE_FREE" \in Stat
        /\ \A q \in Pages \ {p} : Untouched(q)
    BY <1>2, <1>5, <2>2 DEF SliceInv, TypeOK, OnePage, Stat
  <2> QED  BY <2>2, <2>3, CutKeeps
<1>6. CASE slice_stat[p] # "SLICE_FREE"
  <2>1. list[s] = <<>>
    BY <1>2, <1>4, <1>6 DEF OnePage, ListsOf, Stat
  <2>2. Fail
    BY <2>1 DEF heap_alloc_from
  <2> QED  BY <2>2, FailKeeps
<1> QED  BY <1>5, <1>6

LEMMA AllocNewKeeps ==
    ASSUME SliceInv, NEW p \in Pages, heap_alloc_new(p)
    PROVE  SliceInv'
<1>1. NoPageYet
  <2>1. item_count["SLICE_FREE"] = 0
    BY DEF heap_alloc_new
  <2>2. ASSUME NEW q \in Pages, OnePage(q) PROVE FALSE
    BY <2>1, <2>2 DEF OnePage, CountsOf, Stat
  <2> QED  BY <2>2 DEF SliceInv
<1> DEFINE lists == [list EXCEPT !["SLICE_FREE"] = Append(@, p)]
           counts == Plus(item_count, "SLICE_FREE", 1)
<1>2. /\ owned' = owned \cup {p} /\ slice_head' = [slice_head EXCEPT ![p] = TRUE]
      /\ Cut(p, "SLICE_EMPTY", lists, counts)
  BY DEF heap_alloc_new
<1>3. lists = ListsOf(p, "SLICE_FREE")
  BY <1>1, WithoutPage DEF NoPageYet, NoLists, ListsOf, Stat
<1>4. counts = Plus([t \in Stat |-> 0], "SLICE_FREE", 1)
  BY <1>1 DEF NoPageYet
<1>5. /\ owned' = {p} /\ slice_head' \in [Pages -> BOOLEAN]
      /\ \A q \in Pages \ {p} : Untouched(q)
  BY <1>1, <1>2 DEF SliceInv, TypeOK, NoPageYet, Untouched
<1> HIDE DEF lists, counts
<1>6. "SLICE_EMPTY" \in Stat
  BY DEF Stat
<1> QED  BY <1>2, <1>3, <1>4, <1>5, <1>6, CutKeeps

LEMMA FreeKeeps ==
    ASSUME SliceInv, NEW p \in Pages, NEW slot \in Bits, heap_free(p, slot)
    PROVE  SliceInv'
<1>0. slot \in Slots
  BY SliceAssumption DEF Slots, Bits
<1>1. CASE ~slice_head[p]
  BY <1>1, FailKeeps DEF heap_free
<1>2. CASE slice_head[p]
  <2> DEFINE ref == slice_ref[p] \ {slot}
             wasFull == slice_stat[p] = "SLICE_FULL"
             lists1 == IF wasFull THEN Moved(list, p, "SLICE_FREE") ELSE list
             counts1 == IF wasFull THEN Recount(item_count, "SLICE_FULL", "SLICE_FREE")
                        ELSE item_count
             isFree == wasFull \/ slice_stat[p] = "SLICE_FREE"
             empty == isFree /\ 0 \in ref
             counts2 == Recount(counts1, "SLICE_FREE", "SLICE_EMPTY")
             goes == empty /\ counts2["SLICE_EMPTY"] > threshold_freeitems
             stat == IF empty THEN "SLICE_EMPTY" ELSE IF isFree THEN "SLICE_FREE"
                     ELSE slice_stat[p]
  <2>1. /\ outstanding[p][slot] > 0 /\ slot \in slice_ref[p]
        /\ outstanding' = [outstanding EXCEPT ![p][slot] = @ - 1]
        /\ slice_ref' = [slice_ref EXCEPT ![p] = @ \ {slot}]
        /\ slice_stat' = [slice_stat EXCEPT ![p] =
              IF empty THEN "SLICE_EMPTY" ELSE IF isFree THEN "SLICE_FREE" ELSE @]
        /\ slice_head' = [slice_head EXCEPT ![p] = @ /\ ~empty]
        /\ item_count' = IF goes THEN Plus(counts2, "SLICE_EMPTY", -1)
                         ELSE IF empty THEN counts2 ELSE counts1
        /\ list' = IF goes THEN [s \in Stat |-> Without(lists1[s], p)]
                   ELSE IF empty THEN Moved(lists1, p, "SLICE_EMPTY") ELSE lists1
        /\ owned' = IF goes THEN owned \ {p} ELSE owned
        /\ fault' = fault
    BY <1>2 DEF heap_free
  <2>2. OnePage(p)
    BY <1>0, <2>1 DEF SliceInv, NoPageYet, OnePage, Untouched
  <2>3. slice_stat[p] \in Stat /\ (~isFree => slice_stat[p] = "SLICE_EMPTY")
    BY DEF SliceInv, TypeOK, Stat
  <2>4. isFree => lists1 = ListsOf(p, "SLICE_FREE") /\ counts1 = CountsOf("SLICE_FREE")
    BY <2>2, MovedPage, Recounted DEF OnePage, Stat
  <2>5. ~isFree => lists1 = ListsOf(p, "SLICE_EMPTY") /\ counts1 = CountsOf("SLICE_EMPTY")
    BY <2>2, <2>3 DEF OnePage
  <2>6. ~goes
    <3>1. isFree => counts2["SLICE_EMPTY"] = 0
      BY <2>4, Recounted DEF CountsOf, Stat
    <3> QED  BY <3>1, SliceAssumption
  <2>7. list' = ListsOf(p, stat) /\ item_count' = CountsOf(stat)
    BY <2>1, <2>3, <2>4, <2>5, <2>6, MovedPage, Recounted DEF Stat
  <2>8. stat \in Stat /\ slice_stat' = [slice_stat EXCEPT ![p] = stat] /\ slice_stat'[p] = stat
    BY <2>1, <2>3 DEF SliceInv, TypeOK, Stat
  <2>9. owned' = {p}
    BY <2>1, <2>2, <2>6 DEF OnePage
  <2> HIDE DEF stat, goes, empty
  <2>10. \A q \in Pages \ {p} : Untouched(q)'
    BY <2>1, <2>2 DEF OnePage, Untouched
  <2>11. OnePage(p)'
    BY <2>7, <2>8, <2>9, <2>10 DEF OnePage
  <2>12. ASSUME MarkedBitmap = "item" PROVE SlotsExclusive'
    <3> SUFFICES ASSUME NEW q \in Pages, NEW i \in Bits
                 PROVE  /\ outstanding'[q][i] <= 1
                        /\ outstanding'[q][i] > 0 => i \in slice_ref'[q]
      BY DEF SlotsExclusive, NoSlotTwice
    <3>1. /\ i \in Slots /\ outstanding[q][i] \in Nat /\ outstanding[q][i] <= 1
          /\ outstanding[q][i] > 0 => i \in slice_ref[q]
      BY <2>12, SliceAssumption DEF SliceInv, TypeOK, SlotsExclusive, NoSlotTwice, Slots, Bits
    <3>2. CASE q # p
      BY <2>1, <3>1, <3>2 DEF SliceInv, TypeOK
    <3>3. CASE q = p /\ i # slot
      BY <2>1, <3>1, <3>3 DEF SliceInv, TypeOK
    <3>4. CASE q = p /\ i = slot
      BY <2>1, <3>1, <3>4 DEF SliceInv, TypeOK
    <3> QED  BY <3>2, <3>3, <3>4
  <2>13. TypeOK'
    <3>1. list' \in [Stat -> Seq(Pages)] /\ item_count' \in [Stat -> 0..(WordSize - 1)]
      BY <2>7, <2>8, SliceAssumption DEF ListsOf, CountsOf, Stat
    <3>2. slice_stat' \in [Pages -> Stat] /\ slice_head' \in [Pages -> BOOLEAN]
      BY <2>1, <2>8 DEF SliceInv, TypeOK
    <3>3. slice_ref' \in [Pages -> SUBSET Bits]
      BY <2>1 DEF SliceInv, TypeOK
    <3>4. outstanding' \in [Pages -> [Slots -> Nat]]
      <4>1. outstanding[p] \in [Slots -> Nat] /\ outstanding \in [Pages -> [Slots -> Nat]]
        BY DEF SliceInv, TypeOK
      <4>2. outstanding[p][slot] - 1 \in Nat
        BY <1>0, <2>1, <4>1
      <4>3. [outstanding[p] EXCEPT ![slot] = @ - 1] \in [Slots -> Nat]
        BY <1>0, <4>1, <4>2
      <4>4. outstanding' = [outstanding EXCEPT ![p] = [outstanding[p] EXCEPT ![slot] = @ - 1]]
        BY <2>1
      <4> QED  BY <4>1, <4>3, <4>4
    <3> QED  BY <2>1, <2>9, <3>1, <3>2, <3>3, <3>4 DEF SliceInv, TypeOK
  <2> QED  BY <2>11, <2>12, <2>13 DEF SliceInv
<1> QED  BY <1>1, <1>2

LEMMA StepKeeps == SliceInv /\ [Next]_vars => SliceInv'
<1> SUFFICES ASSUME SliceInv, [Next]_vars PROVE SliceInv'
  OBVIOUS
<1>1. CASE UNCHANGED vars
  <2>1. fault' \in BOOLEAN /\ UNCHANGED <<list, item_count, owned, page, outstanding>>
    BY <1>1 DEF vars, SliceInv, TypeOK
  <2> QED  BY <2>1, SameKeeps
<1>2. CASE \E s \in {"SLICE_FREE", "SLICE_EMPTY"} : heap_alloc_from(s)
  BY <1>2, AllocFromKeeps
<1>3. CASE \E p \in Pages : heap_alloc_new(p)
  BY <1>3, AllocNewKeeps
<1>4. CASE \E p \in Pages, slot \in Bits : heap_free(p, slot)
  BY <1>4, FreeKeeps
<1> QED  BY <1>1, <1>2, <1>3, <1>4 DEF Next

\* Whatever is allocated and freed, a slice has had no page or has one, in the
\* list of its state, with the counts one off that the first page has left.
THEOREM SliceInvariant == Spec => []SliceInv
<1>1. Init => SliceInv
  BY InitEstablishes
<1>2. SliceInv /\ [Next]_vars => SliceInv'
  BY StepKeeps
<1> QED  BY <1>1, <1>2, PTL DEF Spec

\* The lists, counts and descriptors keep their types: no count leaves its width.
THEOREM SliceTypes == Spec => []TypeOK
<1>1. SliceInv => TypeOK
  BY DEF SliceInv
<1> QED  BY <1>1, SliceInvariant, PTL

\* Where heap_alloc marks the page's bitmap, it never gives out a slot that is
\* out, for any size of the slots and whatever the bitmap had before.
THEOREM SlotsAreExclusive ==
    ASSUME MarkedBitmap = "item"
    PROVE  Spec => []SlotsExclusive
<1>1. SliceInv => SlotsExclusive
  BY DEF SliceInv
<1> QED  BY <1>1, SliceInvariant, PTL

\* A page of the slice is in the list of its state, once, and in no other.
THEOREM PagesListedByStat == Spec => []ListedByStat
<1>1. ASSUME SliceInv, NEW p \in owned, NEW s \in Stat
      PROVE  Cardinality({i \in DOMAIN list[s] : list[s][i] = p}) =
               IF slice_stat[p] = s THEN 1 ELSE 0
  <2>1. OnePage(p)
    <3>1. ~NoPageYet
      BY <1>1 DEF NoPageYet
    <3>2. PICK q \in Pages : OnePage(q)
      BY <1>1, <3>1 DEF SliceInv
    <3>3. p = q
      BY <1>1, <3>2 DEF OnePage
    <3> QED  BY <3>2, <3>3
  <2>2. CASE slice_stat[p] = s
    <3>1. {i \in DOMAIN list[s] : list[s][i] = p} = {1}
      BY <2>1, <2>2 DEF OnePage, ListsOf
    <3> QED  BY <2>2, <3>1, FS_Singleton
  <2>3. CASE slice_stat[p] # s
    <3>1. {i \in DOMAIN list[s] : list[s][i] = p} = {}
      BY <2>1, <2>3 DEF OnePage, ListsOf
    <3> QED  BY <2>3, <3>1, FS_EmptySet
  <2> QED  BY <2>2, <2>3
<1>2. SliceInv => ListedByStat
  BY <1>1 DEF ListedByStat
<1> QED  BY <1>2, SliceInvariant, PTL
=============================================================================
