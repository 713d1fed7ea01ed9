-------------------------- MODULE NodeAllocProofs --------------------------
(***************************************************************************)
(* AllocInv is an inductive invariant of NodeAlloc for every set of blocks *)
(* and requests and every size of the cache.  From it follow that a block  *)
(* is in one place, that only the tails of freed chains are forgotten,     *)
(* that the cache is bounded, and that the node implements ItemPool.       *)
(* LinksInv, proved on top of it, says how the links of the descriptors    *)
(* stand: what is given for a request is one chain from its head.          *)
(***************************************************************************)
EXTENDS NodeAlloc, FiniteSetTheorems, WellFoundedInduction, TLAPS

(***************************************************************************)
(* The three things the code does to the cache.                            *)
(***************************************************************************)
LEMMA CacheTail ==
    ASSUME NEW S, NEW s \in Seq(S), s # <<>>, IsInjective(s)
    PROVE  /\ Head(s) \in S /\ Head(s) \in ToSet(s)
           /\ Tail(s) \in Seq(S) /\ Len(Tail(s)) = Len(s) - 1
           /\ IsInjective(Tail(s))
           /\ ToSet(Tail(s)) = ToSet(s) \ {Head(s)}
<1>1. /\ Len(s) \in Nat /\ Len(s) > 0 /\ DOMAIN s = 1..Len(s)
      /\ Head(s) = s[1] /\ Tail(s) \in Seq(S) /\ Len(Tail(s)) = Len(s) - 1
      /\ DOMAIN Tail(s) = 1..(Len(s) - 1)
      /\ \A i \in 1..(Len(s) - 1) : Tail(s)[i] = s[i + 1]
  OBVIOUS
<1>2. Head(s) \in S /\ Head(s) \in ToSet(s)
  BY <1>1 DEF ToSet
<1>3. IsInjective(Tail(s))
  BY <1>1 DEF IsInjective
<1>4. ToSet(Tail(s)) \subseteq ToSet(s) \ {Head(s)}
  BY <1>1 DEF IsInjective, ToSet
<1>5. ASSUME NEW x \in ToSet(s), x # Head(s) PROVE x \in ToSet(Tail(s))
  <2>1. PICK i \in 1..Len(s) : s[i] = x
    BY <1>1 DEF ToSet
  <2>2. i - 1 \in 1..(Len(s) - 1) /\ Tail(s)[i - 1] = x
    BY <1>1, <1>5, <2>1
  <2>3. QED
    BY <1>1, <2>2 DEF ToSet
<1>6. QED
  BY <1>1, <1>2, <1>3, <1>4, <1>5

LEMMA CachePush ==
    ASSUME NEW S, NEW s \in Seq(S), IsInjective(s), NEW b \in S, b \notin ToSet(s)
    PROVE  /\ <<b>> \o s \in Seq(S) /\ Len(<<b>> \o s) = Len(s) + 1
           /\ IsInjective(<<b>> \o s)
           /\ ToSet(<<b>> \o s) = {b} \cup ToSet(s)
<1> DEFINE t == <<b>> \o s
<1>1. /\ Len(s) \in Nat /\ DOMAIN s = 1..Len(s)
      /\ t \in Seq(S) /\ Len(t) = Len(s) + 1 /\ DOMAIN t = 1..(Len(s) + 1)
      /\ t[1] = b /\ \A i \in 2..(Len(s) + 1) : t[i] = s[i - 1]
  OBVIOUS
<1>2. \A i \in 2..(Len(s) + 1) : t[i] \in ToSet(s)
  BY <1>1 DEF ToSet
<1>3. IsInjective(t)
  <2>1. SUFFICES ASSUME NEW i \in 1..(Len(s) + 1), NEW j \in 1..(Len(s) + 1), t[i] = t[j]
                 PROVE  i = j
    BY <1>1 DEF IsInjective
  <2>2. CASE i = 1 \/ j = 1
    BY <1>1, <1>2, <2>1, <2>2
  <2>3. CASE i # 1 /\ j # 1
    BY <1>1, <2>1, <2>3 DEF IsInjective
  <2>4. QED
    BY <2>2, <2>3
<1>4. ToSet(t) \subseteq {b} \cup ToSet(s)
  BY <1>1, <1>2 DEF ToSet
<1>5. ASSUME NEW x \in ToSet(s) PROVE x \in ToSet(t)
  <2>1. PICK i \in 1..Len(s) : s[i] = x
    BY <1>1 DEF ToSet
  <2>2. i + 1 \in DOMAIN t /\ t[i + 1] = x
    BY <1>1, <2>1
  <2>3. QED
    BY <2>2 DEF ToSet
<1>6. b \in ToSet(t)
  BY <1>1 DEF ToSet
<1>7. QED
  BY <1>1, <1>3, <1>4, <1>5, <1>6

LEMMA CacheFront ==
    ASSUME NEW S, NEW s \in Seq(S), s # <<>>, IsInjective(s)
    PROVE  /\ Last(s) \in S /\ Last(s) \in ToSet(s)
           /\ Front(s) \in Seq(S) /\ Len(Front(s)) = Len(s) - 1
           /\ IsInjective(Front(s))
           /\ ToSet(Front(s)) = ToSet(s) \ {Last(s)}
<1>1. /\ Len(s) \in Nat /\ Len(s) > 0 /\ DOMAIN s = 1..Len(s)
      /\ Front(s) \in Seq(S) /\ Len(Front(s)) = Len(s) - 1
      /\ DOMAIN Front(s) = 1..(Len(s) - 1)
      /\ \A i \in 1..(Len(s) - 1) : Front(s)[i] = s[i]
  BY DEF Front
<1>2. Last(s) \in S /\ Last(s) \in ToSet(s)
  BY <1>1 DEF Last, ToSet
<1>3. IsInjective(Front(s))
  BY <1>1 DEF IsInjective
<1>4. ToSet(Front(s)) \subseteq ToSet(s) \ {Last(s)}
  BY <1>1 DEF IsInjective, ToSet, Last
<1>5. ASSUME NEW x \in ToSet(s), x # Last(s) PROVE x \in ToSet(Front(s))
  <2>1. PICK i \in 1..Len(s) : s[i] = x
    BY <1>1 DEF ToSet
  <2>2. i \in 1..(Len(s) - 1) /\ Front(s)[i] = x
    BY <1>1, <1>5, <2>1 DEF Last
  <2>3. QED
    BY <1>1, <2>2 DEF ToSet
<1>6. QED
  BY <1>1, <1>2, <1>3, <1>4, <1>5

(***************************************************************************)
(* The invariant: what the running call has is nobody else's, the block a  *)
(* caller knows is one of its blocks, and owners is what held says.        *)
(***************************************************************************)
Cached == ToSet(lru_cache)
HeldBlocks == UNION {h.blocks : h \in held}

CallInv ==
    call # NoCall =>
        /\ \A h \in held : call.got \cap h.blocks = {}
        /\ call.got = {} => call.left > 0 /\ call.head = NoBlock
        /\ call.got # {} => call.head \in call.got

HeadsHeld == \A h \in held : h.head \in h.blocks

OwnersInv == owners = [b \in Block |-> IF b \in HeldBlocks THEN 1 ELSE 0]

AllocInv ==
    /\ TypeOK /\ OnePlace /\ OnlyTailsForgotten /\ CacheBounded /\ FreeItemsNotOverstated
    /\ CallInv /\ HeadsHeld /\ OwnersInv

USE DEF MigrationType

LEMMA InitEstablishes == Init => AllocInv
<1> SUFFICES ASSUME Init PROVE AllocInv
  OBVIOUS
<1>1. ToSet(lru_cache) = {} /\ IsInjective(lru_cache) /\ lru_cache \in Seq(Block) /\ Len(lru_cache) = 0
  BY DEF Init, ToSet, IsInjective
<1>2. Cardinality(Block) \in Int
  BY FS_CardinalityType, NodeAllocAssumption
<1>3. TypeOK
  BY <1>1, <1>2, NodeAllocAssumption DEF Init, TypeOK
<1>4. OnePlace
  BY <1>1 DEF Init, OnePlace, Listed, Out, Got
<1>5. Listed = Block
  BY NodeAllocAssumption DEF Init, Listed
<1>6. OnlyTailsForgotten /\ FreeItemsNotOverstated
  BY <1>2, <1>5 DEF Init, OnlyTailsForgotten, FreeItemsNotOverstated
<1>7. CacheBounded
  BY <1>1, NodeAllocAssumption DEF CacheBounded
<1>8. CallInv /\ HeadsHeld /\ OwnersInv
  BY DEF Init, CallInv, HeadsHeld, OwnersInv, HeldBlocks
<1>9. QED
  BY <1>3, <1>4, <1>6, <1>7, <1>8 DEF AllocInv

\* The lists hold finitely many blocks; taking one from them leaves one less,
\* and listing one that is in none makes one more.
LEMMA ListedFinite == TypeOK => IsFiniteSet(Listed) /\ Listed \subseteq Block
<1> SUFFICES ASSUME TypeOK PROVE IsFiniteSet(Listed) /\ Listed \subseteq Block
  OBVIOUS
<1>1. Listed \subseteq Block
  BY DEF TypeOK, Listed
<1>2. QED
  BY <1>1, FS_Subset, NodeAllocAssumption

LEMMA ListedTaken ==
    ASSUME TypeOK, OnePlace, NEW t \in MigrationType, NEW b \in free[t],
           free' = [free EXCEPT ![t] = @ \ {b}]
    PROVE  /\ b \in Listed /\ Listed' = Listed \ {b}
           /\ Cardinality(Listed') = Cardinality(Listed) - 1
<1>1. b \in Listed /\ Listed' = Listed \ {b}
  BY DEF TypeOK, OnePlace, Listed
<1>2. QED
  BY <1>1, ListedFinite, FS_RemoveElement

LEMMA ListedPut ==
    ASSUME TypeOK, NEW t \in MigrationType, NEW b \in Block, b \notin Listed,
           free' = [free EXCEPT ![t] = @ \cup {b}]
    PROVE  /\ Listed' = Listed \cup {b}
           /\ Cardinality(Listed') = Cardinality(Listed) + 1
<1>1. Listed' = Listed \cup {b}
  BY DEF TypeOK, Listed
<1>2. QED
  BY <1>1, ListedFinite, FS_AddElement

(***************************************************************************)
(* Allocation.                                                             *)
(***************************************************************************)
LEMMA DispatchedInv ==
    ASSUME AllocInv, Running, NEW b \in Block, b \in Listed \cup Cached, Dispatched(b)
    PROVE  /\ b \notin Out /\ Out' = Out \cup {b}
           /\ call' \in Call
           /\ compound_head' \in [Block -> BOOLEAN]
           /\ compound_node' \in [Block -> Block \cup {NoBlock}]
           /\ CallInv' /\ HeadsHeld' /\ OwnersInv'
<1> USE DEF AllocInv, Running
<1>1. call \in Call /\ call # NoCall /\ call.left \in Nat \ {0}
  BY DEF TypeOK, Call
<1>2. b \notin Out
  BY DEF OnePlace, Cached
<1> DEFINE head == IF call.head = NoBlock THEN b ELSE call.head
<1>3. /\ call' = [call EXCEPT !.left = @ - 1, !.head = head, !.got = @ \cup {b}]
      /\ UNCHANGED <<held, owners, left_behind, crash>>
  BY DEF Dispatched, holders
<1>4. call' \in Call /\ call'.got = call.got \cup {b} /\ call'.head = head
  <2>1. head \in Block \cup {NoBlock}
    BY <1>1 DEF Call
  <2> HIDE DEF head
  <2>2. call' = [type |-> call.type, left |-> call.left - 1, head |-> head,
                 got |-> call.got \cup {b}, is_combined |-> call.is_combined,
                 wants_range |-> call.wants_range]
    BY <1>1, <1>3 DEF Call
  <2>3. /\ call.type \in MigrationType /\ call.left - 1 \in Nat
        /\ call.got \cup {b} \in SUBSET Block
        /\ call.is_combined \in BOOLEAN /\ call.wants_range \in BOOLEAN
    BY <1>1 DEF Call
  <2>4. QED
    BY <2>1, <2>2, <2>3 DEF Call
<1>5. compound_head' \in [Block -> BOOLEAN] /\ compound_node' \in [Block -> Block \cup {NoBlock}]
  BY DEF Dispatched, compound_append, chains, TypeOK
<1>6. head \in call'.got
  BY <1>1, <1>4, NodeAllocAssumption DEF CallInv, Call
<1>7. CallInv'
  BY <1>1, <1>2, <1>3, <1>4, <1>6 DEF CallInv, Out
<1>8. Out' = Out \cup {b}
  BY <1>1, <1>3, <1>4, NodeAllocAssumption DEF Out, Got
<1>9. HeadsHeld' /\ OwnersInv'
  BY <1>3 DEF HeadsHeld, OwnersInv, HeldBlocks
<1>10. QED
  BY <1>2, <1>4, <1>5, <1>7, <1>8, <1>9

\* A block of a list goes to the running call.
LEMMA TakeFromInv ==
    ASSUME AllocInv, Running, NEW t \in MigrationType, NEW m \in MigrationType,
           NEW b \in Block, TakeFrom(t, b, m)
    PROVE  AllocInv'
<1> USE DEF AllocInv
<1>1. /\ b \in free[t] /\ free' = [free EXCEPT ![t] = @ \ {b}]
      /\ state' = [state EXCEPT ![b] = m]
      /\ nr_freeitems' = nr_freeitems - 1
      /\ Dispatched(b) /\ UNCHANGED lru_cache
      /\ UNCHANGED <<held, owners, left_behind, crash>>
  BY DEF TakeFrom, FreeItemsBefore, Dispatched, holders
<1>2. b \in Listed /\ Listed' = Listed \ {b} /\ Cardinality(Listed') = Cardinality(Listed) - 1
  BY <1>1, ListedTaken
<1>3. /\ b \notin Out /\ Out' = Out \cup {b}
      /\ call' \in Call
      /\ compound_head' \in [Block -> BOOLEAN]
      /\ compound_node' \in [Block -> Block \cup {NoBlock}]
      /\ CallInv' /\ HeadsHeld' /\ OwnersInv'
  BY <1>1, <1>2, DispatchedInv
<1>4. TypeOK'
  <2>1. free' \in [MigrationType -> SUBSET Block] /\ state' \in [Block -> MigrationType]
    BY <1>1 DEF TypeOK
  <2>2. nr_freeitems' \in Int
    BY <1>1 DEF TypeOK
  <2>3. QED
    BY <1>1, <1>3, <2>1, <2>2 DEF TypeOK
<1>5. OnePlace'
  BY <1>1, <1>2, <1>3 DEF OnePlace, TypeOK
<1>6. OnlyTailsForgotten'
  BY <1>1, <1>2, <1>3 DEF OnlyTailsForgotten
<1>7. CacheBounded'
  BY <1>1 DEF CacheBounded
<1>8. FreeItemsNotOverstated'
  BY <1>1, <1>2, ListedFinite, FS_CardinalityType DEF FreeItemsNotOverstated, TypeOK
<1>9. QED
  BY <1>3, <1>4, <1>5, <1>6, <1>7, <1>8

\* The hottest item of the cache goes to the running call.
LEMMA CachedInv == AllocInv /\ dispatch_cached => AllocInv'
<1> SUFFICES ASSUME AllocInv, dispatch_cached PROVE AllocInv'
  OBVIOUS
<1> USE DEF AllocInv
<1> DEFINE b == Head(lru_cache)
<1>1. /\ Running /\ lru_cache # <<>> /\ lru_cache' = Tail(lru_cache)
      /\ Dispatched(b) /\ UNCHANGED <<free, state, nr_freeitems>>
      /\ UNCHANGED <<held, owners, left_behind, crash>>
  BY DEF dispatch_cached, CacheServes, AfterHit, Dispatched, holders
<1>2. lru_cache \in Seq(Block) /\ IsInjective(lru_cache)
  BY DEF TypeOK, OnePlace
<1>3. /\ b \in Block /\ b \in Cached
      /\ lru_cache' \in Seq(Block) /\ Len(lru_cache') = Len(lru_cache) - 1
      /\ IsInjective(lru_cache') /\ Cached' = Cached \ {b}
  BY <1>1, <1>2, CacheTail DEF Cached
<1>4. /\ b \notin Out /\ Out' = Out \cup {b}
      /\ call' \in Call
      /\ compound_head' \in [Block -> BOOLEAN]
      /\ compound_node' \in [Block -> Block \cup {NoBlock}]
      /\ CallInv' /\ HeadsHeld' /\ OwnersInv'
  BY <1>1, <1>3, DispatchedInv
<1>5. Listed' = Listed
  BY <1>1 DEF Listed
<1>6. TypeOK'
  BY <1>1, <1>3, <1>4 DEF TypeOK
<1>7. OnePlace'
  BY <1>1, <1>3, <1>4, <1>5 DEF OnePlace, Cached
<1>8. OnlyTailsForgotten'
  BY <1>1, <1>3, <1>4, <1>5 DEF OnlyTailsForgotten, OnePlace, Cached
<1>9. CacheBounded' /\ FreeItemsNotOverstated'
  BY <1>1, <1>2, <1>3, <1>5, NodeAllocAssumption DEF CacheBounded, FreeItemsNotOverstated
<1>10. QED
  BY <1>4, <1>6, <1>7, <1>8, <1>9

LEMMA AllocBegins == ASSUME AllocInv, NEW r \in Requests, node_struct_alloc(r) PROVE AllocInv'
<1> USE DEF AllocInv
<1>1. /\ r \in Request
      /\ call = NoCall
      /\ call' = [type |-> r.type, left |-> r.nblocks, head |-> NoBlock, got |-> {},
                  is_combined |-> r.is_combined, wants_range |-> r.wants_range]
      /\ UNCHANGED <<free, lru_cache, state, compound_head, compound_node, nr_freeitems>>
      /\ UNCHANGED <<held, owners, left_behind, crash>>
  BY NodeAllocAssumption DEF node_struct_alloc, Idle, node, chains, holders
<1>2. call' \in Call /\ call' # NoCall
  BY <1>1, NodeAllocAssumption DEF Request, Call
<1>3. Out' = Out /\ Listed' = Listed
  BY <1>1, <1>2 DEF Out, Got, Listed
<1>4. TypeOK'
  BY <1>1, <1>2 DEF TypeOK
<1>5. OnePlace' /\ OnlyTailsForgotten' /\ CacheBounded' /\ FreeItemsNotOverstated'
  BY <1>1, <1>3 DEF OnePlace, OnlyTailsForgotten, CacheBounded, FreeItemsNotOverstated
<1>6. CallInv' /\ HeadsHeld' /\ OwnersInv'
  BY <1>1 DEF CallInv, HeadsHeld, OwnersInv, HeldBlocks, Request
<1>7. QED
  BY <1>4, <1>5, <1>6

\* The blocks a call has got become a caller's, together.
LEMMA AllocReturns == AllocInv /\ alloc_returns => AllocInv'
<1> SUFFICES ASSUME AllocInv, alloc_returns PROVE AllocInv'
  OBVIOUS
<1> USE DEF AllocInv
<1> DEFINE h == [head |-> call.head, blocks |-> call.got]
<1>1. /\ call # NoCall /\ call.left = 0 /\ call' = NoCall
      /\ held' = held \cup {h}
      /\ owners' = [b \in Block |-> owners[b] + IF b \in call.got THEN 1 ELSE 0]
      /\ UNCHANGED <<free, lru_cache, state, compound_head, compound_node, nr_freeitems>>
      /\ UNCHANGED <<left_behind, crash>>
  BY DEF alloc_returns, Served, node, chains
<1>2. call \in Call /\ call.got \subseteq Block /\ call.head \in call.got
  BY <1>1 DEF TypeOK, Call, CallInv
<1>3. h \in Held /\ h.head = call.head /\ h.blocks = call.got
  BY <1>2 DEF Held
<1>4. HeldBlocks' = HeldBlocks \cup call.got /\ HeldBlocks \cap call.got = {}
  BY <1>1, <1>3 DEF HeldBlocks, CallInv
<1>5. Out' = Out /\ Listed' = Listed
  BY <1>1, <1>4 DEF Out, Got, Listed, HeldBlocks
<1>6. OwnersInv'
  BY <1>1, <1>4 DEF OwnersInv
<1>7. TypeOK'
  BY <1>1, <1>3, <1>6 DEF TypeOK, OwnersInv
<1>8. OnePlace' /\ OnlyTailsForgotten' /\ CacheBounded' /\ FreeItemsNotOverstated'
  BY <1>1, <1>3, <1>5
     DEF OnePlace, OnlyTailsForgotten, CacheBounded, FreeItemsNotOverstated, CallInv
<1>9. CallInv' /\ HeadsHeld'
  BY <1>1, <1>2, <1>3 DEF CallInv, HeadsHeld
<1>10. QED
  BY <1>6, <1>7, <1>8, <1>9

(***************************************************************************)
(* Free.                                                                   *)
(***************************************************************************)
LEMMA HolderLeaves ==
    ASSUME AllocInv, Idle, NEW h \in held, UNCHANGED call,
           held' = held \ {h},
           owners' = [b \in Block |-> owners[b] - IF b \in h.blocks THEN 1 ELSE 0]
    PROVE  /\ h.head \in Block /\ h.head \in h.blocks /\ h.blocks \subseteq Out
           /\ h.head \notin Listed \cup Cached
           /\ Out' = Out \ h.blocks
           /\ held' \subseteq Held /\ owners' \in [Block -> Int]
           /\ CallInv' /\ HeadsHeld' /\ OwnersInv'
<1> USE DEF AllocInv, Idle
<1>1. h \in Held /\ h.head \in h.blocks /\ h.head \in Block /\ held' \subseteq Held
  BY DEF TypeOK, Held, HeadsHeld
<1>2. HeldBlocks' = HeldBlocks \ h.blocks /\ h.blocks \subseteq HeldBlocks
  BY DEF HeldBlocks, OnePlace
<1>3. Out' = Out \ h.blocks /\ h.blocks \subseteq Out
  BY <1>2 DEF Out, Got, HeldBlocks
<1>4. h.head \notin Listed \cup Cached
  BY <1>1, <1>3 DEF OnePlace, Cached
<1>5. OwnersInv'
  BY <1>2 DEF OwnersInv
<1>6. CallInv' /\ HeadsHeld'
  BY DEF CallInv, HeadsHeld
<1>7. owners' \in [Block -> Int]
  BY <1>5 DEF OwnersInv
<1>8. QED
  BY <1>1, <1>3, <1>4, <1>5, <1>6, <1>7

\* What the three ways back have in common: the head, and no other block of
\* the chain, is in the lists or the cache afterwards.
LEMMA HeadGoesBack ==
    ASSUME AllocInv, Idle, NEW h \in held, UNCHANGED <<state, call, crash>>,
           held' = held \ {h},
           owners' = [b \in Block |-> owners[b] - IF b \in h.blocks THEN 1 ELSE 0],
           left_behind' = left_behind \cup (h.blocks \ {h.head}),
           free' \in [MigrationType -> SUBSET Block],
           lru_cache' \in Seq(Block), IsInjective(lru_cache'),
           compound_head' \in [Block -> BOOLEAN],
           compound_node' \in [Block -> Block \cup {NoBlock}],
           nr_freeitems' \in Int,
           \A s, t \in MigrationType : s # t => free'[s] \cap free'[t] = {},
           Listed' \cap Cached' = {},
           Listed' \cup Cached' = Listed \cup Cached \cup {h.head}
    PROVE  TypeOK' /\ OnePlace' /\ OnlyTailsForgotten' /\ CallInv' /\ HeadsHeld' /\ OwnersInv'
<1> USE DEF AllocInv
<1>1. /\ h.head \in Block /\ h.head \in h.blocks /\ h.blocks \subseteq Out
      /\ h.head \notin Listed \cup Cached
      /\ Out' = Out \ h.blocks
      /\ held' \subseteq Held /\ owners' \in [Block -> Int]
      /\ CallInv' /\ HeadsHeld' /\ OwnersInv'
  BY HolderLeaves
<1>2. h.blocks \subseteq Block
  BY DEF TypeOK, Held
<1>3. TypeOK'
  BY <1>1, <1>2 DEF TypeOK
<1>4. OnePlace'
  BY <1>1 DEF OnePlace, Cached
<1>5. OnlyTailsForgotten'
  BY <1>1, <1>2 DEF OnlyTailsForgotten, OnePlace, Cached
<1>6. QED
  BY <1>1, <1>3, <1>4, <1>5

LEMMA DequeueKeepsTypes ==
    ASSUME TypeOK, NEW b \in Block, NEW t \in MigrationType, dequeue_group_migration(b, t)
    PROVE  /\ free' = [free EXCEPT ![t] = @ \cup {b}]
           /\ free' \in [MigrationType -> SUBSET Block]
           /\ compound_head' \in [Block -> BOOLEAN]
           /\ compound_node' \in [Block -> Block \cup {NoBlock}]
           /\ nr_freeitems' = nr_freeitems + (IF t = "UNMOVABLE" THEN 0 ELSE 1)
  BY DEF TypeOK, dequeue_group_migration, FreeItemsAfter

LEMMA FreeInv == ASSUME AllocInv, NEW h \in held, node_struct_free(h) PROVE AllocInv'
<1> USE DEF AllocInv
<1>1. /\ Idle /\ UNCHANGED <<state, call, crash>>
      /\ held' = held \ {h}
      /\ owners' = [b \in Block |-> owners[b] - IF b \in h.blocks THEN 1 ELSE 0]
      /\ left_behind' = left_behind \cup (h.blocks \ {h.head})
  BY DEF node_struct_free
<1>2. h.head \in Block /\ h.head \notin Listed \cup Cached
  BY <1>1, HolderLeaves
<1>3. lru_cache \in Seq(Block) /\ IsInjective(lru_cache) /\ Len(lru_cache) \in Nat
  BY DEF TypeOK, OnePlace
<1>4. nr_freeitems \in Int /\ Cardinality(Listed) \in Nat
  BY ListedFinite, FS_CardinalityType DEF TypeOK
<1>5. CASE free_unmovable(h)
  <2>1. dequeue_group_migration(h.head, "UNMOVABLE") /\ UNCHANGED lru_cache
    BY <1>5 DEF free_unmovable
  <2>2. /\ free' = [free EXCEPT !["UNMOVABLE"] = @ \cup {h.head}]
        /\ free' \in [MigrationType -> SUBSET Block]
        /\ compound_head' \in [Block -> BOOLEAN]
        /\ compound_node' \in [Block -> Block \cup {NoBlock}]
        /\ nr_freeitems' = nr_freeitems
    BY <1>2, <1>4, <2>1, DequeueKeepsTypes
  <2>3. Listed' = Listed \cup {h.head} /\ Cardinality(Listed') = Cardinality(Listed) + 1
    BY <1>2, <2>2, ListedPut
  <2>4. \A s, t \in MigrationType : s # t => free'[s] \cap free'[t] = {}
    BY <1>2, <2>2 DEF OnePlace, TypeOK, Listed
  <2>5. Cached' = Cached /\ Listed' \cap Cached' = {}
    BY <1>2, <2>1, <2>3 DEF OnePlace, Cached
  <2>6. TypeOK' /\ OnePlace' /\ OnlyTailsForgotten' /\ CallInv' /\ HeadsHeld' /\ OwnersInv'
    BY <1>1, <1>3, <1>4, <2>1, <2>2, <2>3, <2>4, <2>5, HeadGoesBack
  <2>7. CacheBounded' /\ FreeItemsNotOverstated'
    BY <1>4, <2>1, <2>2, <2>3 DEF CacheBounded, FreeItemsNotOverstated
  <2>8. QED
    BY <2>6, <2>7
<1>6. CASE free_cached(h)
  <2> DEFINE cells == <<h.head>> \o lru_cache
  <2>1. /\ cells \in Seq(Block) /\ Len(cells) = Len(lru_cache) + 1 /\ IsInjective(cells)
        /\ ToSet(cells) = {h.head} \cup Cached
    BY <1>2, <1>3, CachePush DEF Cached
  <2>2. CASE CacheIsFull
    <3>1. lru_cache' = Front(cells) /\ dequeue_group_migration(Last(cells), "LRUTYPE")
      BY <1>6, <2>2 DEF free_cached, Evicted
    <3>2. cells # <<>>
      BY <1>3, <2>1
    <3>3. /\ Last(cells) \in Block /\ Last(cells) \in {h.head} \cup Cached
          /\ lru_cache' \in Seq(Block) /\ Len(lru_cache') = Len(lru_cache)
          /\ IsInjective(lru_cache')
          /\ Cached' = ({h.head} \cup Cached) \ {Last(cells)}
      <4> HIDE DEF cells
      <4>1. /\ Last(cells) \in Block /\ Last(cells) \in ToSet(cells)
            /\ Front(cells) \in Seq(Block) /\ Len(Front(cells)) = Len(cells) - 1
            /\ IsInjective(Front(cells))
            /\ ToSet(Front(cells)) = ToSet(cells) \ {Last(cells)}
        BY <2>1, <3>2, CacheFront
      <4>2. QED
        BY <1>3, <2>1, <3>1, <4>1 DEF Cached
    <3>4. Last(cells) \notin Listed
      BY <1>2, <3>3 DEF OnePlace, Cached
    <3>5. /\ free' = [free EXCEPT !["LRUTYPE"] = @ \cup {Last(cells)}]
          /\ free' \in [MigrationType -> SUBSET Block]
          /\ compound_head' \in [Block -> BOOLEAN]
          /\ compound_node' \in [Block -> Block \cup {NoBlock}]
          /\ nr_freeitems' = nr_freeitems + 1
      BY <3>1, <3>3, DequeueKeepsTypes
    <3>6. Listed' = Listed \cup {Last(cells)} /\ Cardinality(Listed') = Cardinality(Listed) + 1
      BY <3>3, <3>4, <3>5, ListedPut
    <3>7. \A s, t \in MigrationType : s # t => free'[s] \cap free'[t] = {}
      BY <3>4, <3>5 DEF OnePlace, TypeOK, Listed
    <3>8. /\ Listed' \cap Cached' = {}
          /\ Listed' \cup Cached' = Listed \cup Cached \cup {h.head}
      BY <1>2, <3>3, <3>6 DEF OnePlace, Cached
    <3>9. TypeOK' /\ OnePlace' /\ OnlyTailsForgotten' /\ CallInv' /\ HeadsHeld' /\ OwnersInv'
      <4> HIDE DEF cells
      <4>1. nr_freeitems' \in Int /\ lru_cache' \in Seq(Block) /\ IsInjective(lru_cache')
        BY <1>4, <3>3, <3>5
      <4>2. free' \in [MigrationType -> SUBSET Block]
            /\ compound_head' \in [Block -> BOOLEAN]
            /\ compound_node' \in [Block -> Block \cup {NoBlock}]
        BY <3>5
      <4>3. QED
        BY <1>1, <3>7, <3>8, <4>1, <4>2, HeadGoesBack
    <3>10. CacheBounded' /\ FreeItemsNotOverstated'
      <4> HIDE DEF cells
      <4>1. CacheBounded'
        BY <3>3 DEF CacheBounded
      <4>2. FreeItemsNotOverstated'
        BY <1>4, <3>5, <3>6 DEF FreeItemsNotOverstated
      <4>3. QED
        BY <4>1, <4>2
    <3>11. QED
      BY <3>9, <3>10
  <2>3. CASE ~CacheIsFull
    <3>1. lru_cache' = cells
          /\ UNCHANGED <<free, compound_head, compound_node, nr_freeitems>>
      BY <1>6, <2>3 DEF free_cached, chains
    <3>2. Cached' = {h.head} \cup Cached /\ Listed' = Listed
      BY <2>1, <3>1 DEF Cached, Listed
    <3>3. Listed' \cap Cached' = {}
      BY <1>2, <3>2 DEF OnePlace, Cached
    <3>4. TypeOK' /\ OnePlace' /\ OnlyTailsForgotten' /\ CallInv' /\ HeadsHeld' /\ OwnersInv'
      <4>1. /\ free' \in [MigrationType -> SUBSET Block] /\ nr_freeitems' \in Int
            /\ lru_cache' \in Seq(Block) /\ IsInjective(lru_cache')
            /\ compound_head' \in [Block -> BOOLEAN]
            /\ compound_node' \in [Block -> Block \cup {NoBlock}]
            /\ \A s, t \in MigrationType : s # t => free'[s] \cap free'[t] = {}
            /\ Listed' \cup Cached' = Listed \cup Cached \cup {h.head}
        BY <2>1, <3>1, <3>2 DEF TypeOK, OnePlace
      <4>2. QED
        BY <1>1, <3>3, <4>1, HeadGoesBack
    <3>5. CacheBounded' /\ FreeItemsNotOverstated'
      BY <1>3, <2>1, <2>3, <3>1, <3>2, NodeAllocAssumption
         DEF CacheBounded, FreeItemsNotOverstated, CacheIsFull
    <3>6. QED
      BY <3>4, <3>5
  <2>4. QED
    BY <2>2, <2>3
<1>7. QED
  BY <1>5, <1>6 DEF node_struct_free

\* A call that does not end, or reads through a null pointer, leaves the node
\* as it is.
LEMMA CrashInv ==
    ASSUME AllocInv, crash' \in {"no_group", "no_address", "endless"}, UNCHANGED <<node, call, holders>>
    PROVE  AllocInv'
<1>1. /\ UNCHANGED <<free, lru_cache, state, compound_head, compound_node, nr_freeitems>>
      /\ UNCHANGED <<call, held, owners, left_behind>>
  BY DEF node, chains, holders
<1>2. TypeOK'
  BY <1>1 DEF AllocInv, TypeOK
<1>3. OnePlace' /\ OnlyTailsForgotten' /\ CacheBounded' /\ FreeItemsNotOverstated'
  BY <1>1 DEF AllocInv, OnePlace, OnlyTailsForgotten, CacheBounded, FreeItemsNotOverstated,
              Listed, Out, Got
<1>4. CallInv' /\ HeadsHeld' /\ OwnersInv'
  BY <1>1 DEF AllocInv, CallInv, HeadsHeld, OwnersInv, HeldBlocks
<1>5. QED
  BY <1>2, <1>3, <1>4 DEF AllocInv

LEMMA StepKeeps == AllocInv /\ [Next]_vars => AllocInv'
<1> SUFFICES ASSUME AllocInv, [Next]_vars PROVE AllocInv'
  OBVIOUS
<1>1. ASSUME NEW r \in Requests, node_struct_alloc(r) PROVE AllocInv'
  BY <1>1, AllocBegins
<1>2. CASE dispatch_cached
  BY <1>2, CachedInv
<1>3. CASE dispatch_forward
  <2>1. call.type \in MigrationType
    BY <1>3 DEF dispatch_forward, Running, AllocInv, TypeOK, Call
  <2>2. QED
    BY <1>3, <2>1, TakeFromInv DEF dispatch_forward, ForwardState
<1>4. CASE dispatch_migrate
  <2>1. call.type \in MigrationType
    BY <1>4 DEF dispatch_migrate, Running, AllocInv, TypeOK, Call
  <2>2. QED
    BY <1>4, <2>1, TakeFromInv DEF dispatch_migrate
<1>5. CASE dispatch_exhausted
  BY <1>5, CrashInv DEF dispatch_exhausted
<1>6. CASE alloc_returns
  BY <1>6, AllocReturns
<1>7. ASSUME NEW h \in held, node_struct_free(h) PROVE AllocInv'
  BY <1>7, FreeInv
<1>8. ASSUME NEW h \in held, node_struct_free_movable(h) PROVE AllocInv'
  BY <1>8, CrashInv DEF node_struct_free_movable
<1>9. CASE alloc_loses_range
  BY <1>9, CrashInv DEF alloc_loses_range
<1>10. CASE UNCHANGED vars
  BY <1>10 DEF AllocInv, TypeOK, OnePlace, OnlyTailsForgotten, CacheBounded,
              FreeItemsNotOverstated, CallInv, HeadsHeld, OwnersInv, HeldBlocks,
              Listed, Out, Got, vars, node, chains, holders
<1>11. QED
  BY <1>1, <1>2, <1>3, <1>4, <1>5, <1>6, <1>7, <1>8, <1>9, <1>10 DEF Next

\* The invariant, of every behaviour of node_struct_alloc and node_struct_free.
THEOREM AllocInvariant == Spec => []AllocInv
<1>1. QED
  BY InitEstablishes, StepKeeps, PTL DEF Spec

\* The lists, the cache, the running call and the descriptors keep their types:
\* every block that dispatch_group takes has a state the free can map back.
THEOREM AllocTypes == Spec => []TypeOK
<1>1. AllocInv => TypeOK
  BY DEF AllocInv
<1>2. QED
  BY <1>1, AllocInvariant, PTL

\* Whatever is asked and given back, a block is in one list, or in the cache
\* once, or with one caller.
THEOREM BlocksInOnePlace == Spec => []OnePlace
<1>1. AllocInv => OnePlace
  BY DEF AllocInv
<1>2. QED
  BY <1>1, AllocInvariant, PTL

\* Freeing a chain loses the blocks after its head, and nothing else in the
\* node loses a block: neither the cache's evictions, nor migration.
THEOREM TailsAloneForgotten == Spec => []OnlyTailsForgotten
<1>1. AllocInv => OnlyTailsForgotten
  BY DEF AllocInv
<1>2. QED
  BY <1>1, AllocInvariant, PTL

\* The cache never keeps LRU_CACHE_MAX_ITEMS items.
THEOREM CacheStaysBounded == Spec => []CacheBounded
<1>1. AllocInv => CacheBounded
  BY DEF AllocInv
<1>2. QED
  BY <1>1, AllocInvariant, PTL

\* attr.nr_freeitems never counts an item the lists have not.
THEOREM WatermarkSafe == Spec => []FreeItemsNotOverstated
<1>1. AllocInv => FreeItemsNotOverstated
  BY DEF AllocInv
<1>2. QED
  BY <1>1, AllocInvariant, PTL

(***************************************************************************)
(* node_struct_alloc grants blocks nobody holds, node_struct_free returns  *)
(* what its caller holds, and no other step changes who holds what.        *)
(***************************************************************************)
LEMMA AllocGrants ==
    ASSUME AllocInv, alloc_returns
    PROVE  \E c \in (SUBSET Block) \ {{}} : Pool!Grant(c)
<1>1. /\ call # NoCall /\ call.left = 0
      /\ owners' = [b \in Block |-> owners[b] + IF b \in call.got THEN 1 ELSE 0]
  BY DEF alloc_returns, Served
<1>2. call.got \subseteq Block /\ call.got # {} /\ HeldBlocks \cap call.got = {}
  BY <1>1 DEF AllocInv, TypeOK, Call, CallInv, HeldBlocks
<1>3. \A b \in call.got : owners[b] = 0
  BY <1>2 DEF AllocInv, OwnersInv
<1>4. owners' = [b \in Block |-> IF b \in call.got THEN 1 ELSE owners[b]]
  BY <1>1, <1>2, <1>3 DEF AllocInv, TypeOK
<1>5. QED
  BY <1>2, <1>3, <1>4 DEF Pool!Grant

LEMMA FreeReturns ==
    ASSUME AllocInv, NEW h \in held, node_struct_free(h)
    PROVE  \E c \in (SUBSET Block) \ {{}} : Pool!Return(c)
<1>1. owners' = [b \in Block |-> owners[b] - IF b \in h.blocks THEN 1 ELSE 0]
  BY DEF node_struct_free
<1>2. h.blocks \subseteq Block /\ h.blocks # {} /\ h.blocks \subseteq HeldBlocks
  BY DEF AllocInv, TypeOK, Held, HeadsHeld, HeldBlocks
<1>3. \A b \in h.blocks : owners[b] = 1
  BY <1>2 DEF AllocInv, OwnersInv
<1>4. owners' = [b \in Block |-> IF b \in h.blocks THEN 0 ELSE owners[b]]
  BY <1>1, <1>2, <1>3 DEF AllocInv, TypeOK
<1>5. QED
  BY <1>2, <1>3, <1>4 DEF Pool!Return

LEMMA StepRefines == AllocInv /\ [Next]_vars => [Pool!NextPool]_owners
<1> SUFFICES ASSUME AllocInv, [Next]_vars PROVE [Pool!NextPool]_owners
  OBVIOUS
<1>1. CASE alloc_returns
  BY <1>1, AllocGrants DEF Pool!NextPool
<1>2. ASSUME NEW h \in held, node_struct_free(h) PROVE [Pool!NextPool]_owners
  BY <1>2, FreeReturns DEF Pool!NextPool
<1>3. CASE \E r \in Requests : node_struct_alloc(r)
  BY <1>3 DEF node_struct_alloc, holders
<1>4. CASE \/ dispatch_cached \/ dispatch_forward \/ dispatch_migrate \/ dispatch_exhausted
           \/ alloc_loses_range
  BY <1>4 DEF dispatch_cached, dispatch_forward, dispatch_migrate, dispatch_exhausted,
              alloc_loses_range, TakeFrom, Dispatched, holders
<1>5. CASE \E h \in held : node_struct_free_movable(h)
  BY <1>5 DEF node_struct_free_movable, holders
<1>6. CASE UNCHANGED vars
  BY <1>6 DEF vars, holders
<1>7. QED
  BY <1>1, <1>2, <1>3, <1>4, <1>5, <1>6 DEF Next

\* The node implements ItemPool: no block is granted while somebody holds it,
\* whichever of the lists and the cache it comes from.
THEOREM AllocRefinesPool == Spec => RefinesPool
<1>1. Init => Pool!InitPool
  BY DEF Init, Pool!InitPool
<1>2. AllocInv /\ [Next]_vars => [Pool!NextPool]_owners
  BY StepRefines
<1>3. QED
  BY <1>1, <1>2, AllocInvariant, PTL DEF Spec, RefinesPool, Pool!SpecPool

(***************************************************************************)
(* Chains.  compound_append links each further block of a combined request *)
(* to the end of the chain, so that the chain from the block its caller    *)
(* gets is all the blocks of the request, in the order they were given.    *)
(***************************************************************************)
LEMMA LeastNatural ==
    ASSUME NEW S \in SUBSET Nat, S # {}
    PROVE  \E m \in S : \A n \in S : m <= n
<1> DEFINE R == {ss \in Nat \X Nat : ss[1] < ss[2]}
<1>1. IsWellFoundedOn(R, Nat)
  BY NatLessThanWellFounded DEF OpToRel
<1>2. PICK m \in S : \A n \in S : ~ (<<n, m>> \in R)
  BY <1>1, WFMin
<1>3. \A n \in S : ~ (n < m)
  BY <1>2
<1>4. QED
  BY <1>3

\* The links make the sequence q a chain of the blocks S, from head on.
IsChain(q, link, head, S) ==
    /\ q \in Seq(S) /\ q # <<>>
    /\ IsInjective(q)
    /\ q[1] = head
    /\ \A b \in S : \E i \in 1..Len(q) : q[i] = b
    /\ \A i \in 1..Len(q) : link[q[i]] = IF i < Len(q) THEN q[i + 1] ELSE NoBlock

LEMMA ChainBounded ==
    ASSUME NEW S \in SUBSET Block, NEW q \in Seq(S), IsInjective(q)
    PROVE  Len(q) <= Cardinality(Block) /\ Cardinality(Block) \in Nat
<1>1. Len(q) \in Nat /\ DOMAIN q = 1..Len(q) /\ q \in [1..Len(q) -> Block]
  OBVIOUS
<1>2. q \in Injection(1..Len(q), Block)
  BY <1>1 DEF Injection
<1>3. IsFiniteSet(Block) /\ Cardinality(Block) \in Nat
  BY NodeAllocAssumption, FS_CardinalityType
<1>4. Cardinality(1..Len(q)) <= Cardinality(Block)
  BY <1>2, <1>3, FS_Injection
<1>5. Cardinality(1..Len(q)) = Len(q)
  <2>1. 1 \in Int /\ Len(q) \in Int /\ Len(q) >= 0
    BY <1>1
  <2>2. Cardinality(1..Len(q)) = IF 1 > Len(q) THEN 0 ELSE Len(q) - 1 + 1
    BY <2>1, FS_Interval
  <2>3. QED
    BY <2>1, <2>2
<1>6. QED
  BY <1>3, <1>4, <1>5

\* The loop of compound_append ends on the last block.
LEMMA ChainEndIs ==
    ASSUME NEW S \in SUBSET Block, NEW head, NEW q, IsChain(q, compound_node, head, S)
    PROVE  ChainEnd(head) = q[Len(q)]
<1> DEFINE n == Cardinality(Block)
           m == Len(q)
           next(b) == IF compound_node[b] = NoBlock THEN b ELSE compound_node[b]
           IsWalk(g) == g = [i \in 0..n |-> IF i = 0 THEN head
                                ELSE IF compound_node[g[i - 1]] = NoBlock THEN g[i - 1]
                                     ELSE compound_node[g[i - 1]]]
           place(i) == IF i + 1 <= m THEN i + 1 ELSE m
           g0 == [i \in 0..n |-> q[place(i)]]
           g1 == CHOOSE g : IsWalk(g)
<1>1. /\ q \in Seq(S) /\ q # <<>> /\ IsInjective(q) /\ q[1] = head
      /\ \A i \in 1..m : compound_node[q[i]] = IF i < m THEN q[i + 1] ELSE NoBlock
  BY DEF IsChain
<1>2. m \in Nat /\ m >= 1 /\ \A i \in 1..m : q[i] \in Block /\ q[i] # NoBlock
  BY <1>1, NodeAllocAssumption
<1>3. m <= n /\ n \in Nat
  BY <1>1, ChainBounded
<1> HIDE DEF n, m
<1>4. ASSUME NEW i \in 0..n, i # 0
      PROVE  q[place(i)] = next(q[place(i - 1)])
  <2>1. i - 1 \in 0..n /\ i \in Nat
    BY <1>3, <1>4
  <2>2. CASE i < m
    <3>1. place(i - 1) = i /\ place(i) = i + 1 /\ i \in 1..m
      BY <1>2, <1>4, <2>1, <2>2
    <3>2. compound_node[q[i]] = q[i + 1] /\ q[i + 1] # NoBlock
      BY <1>1, <1>2, <2>2, <3>1
    <3>3. QED
      BY <3>1, <3>2
  <2>3. CASE i >= m
    <3>1. place(i - 1) = m /\ place(i) = m /\ m \in 1..m
      BY <1>2, <1>4, <2>1, <2>3
    <3>2. compound_node[q[m]] = NoBlock
      BY <1>1, <1>2, <3>1
    <3>3. QED
      BY <3>1, <3>2
  <2>4. QED
    BY <1>2, <2>1, <2>2, <2>3
<1>5. place(0) = 1
  BY <1>2
<1>6. IsWalk(g0)
  <2> DEFINE value(i) == IF i = 0 THEN head ELSE next(g0[i - 1])
  <2>1. ASSUME NEW i \in 0..n PROVE g0[i] = value(i)
    <3>1. CASE i = 0
      BY <1>1, <1>5, <3>1
    <3>2. CASE i # 0
      <4>1. i - 1 \in 0..n
        BY <1>3, <3>2
      <4>2. g0[i] = q[place(i)] /\ g0[i - 1] = q[place(i - 1)]
        BY <4>1
      <4> HIDE DEF g0, place
      <4>3. QED
        BY <1>4, <3>2, <4>2
    <3>3. QED
      BY <3>1, <3>2
  <2>2. g0 = [i \in 0..n |-> value(i)]
    BY <2>1
  <2>3. QED
    BY <2>2
<1>7. IsWalk(g1)
  <2>1. \E g : IsWalk(g)
    BY <1>6
  <2> HIDE DEF IsWalk
  <2>2. QED
    BY <2>1
<1>8. /\ g1[0] = head
      /\ \A i \in 0..n : i # 0 => g1[i] = next(g1[i - 1])
  <2> HIDE DEF g1
  <2>1. QED
    BY <1>3, <1>7
<1>9. g0[0] = head /\ \A i \in 0..n : g0[i] = q[place(i)]
  BY <1>1, <1>3, <1>5
<1> HIDE DEF g0, g1, place, next
\* The first place at which the two differ would follow one at which they agree.
<1>10. ASSUME NEW i \in 0..n PROVE g1[i] = g0[i]
  <2> DEFINE differ == {j \in 0..n : g1[j] # g0[j]}
  <2>1. SUFFICES ASSUME differ # {} PROVE FALSE
    OBVIOUS
  <2>2. differ \subseteq Nat
    OBVIOUS
  <2>3. PICK j \in differ : \A k \in differ : j <= k
    BY <2>1, <2>2, LeastNatural
  <2>4. j # 0
    BY <1>8, <1>9, <2>3
  <2>5. j \in 0..n /\ j - 1 \in 0..n /\ j - 1 \notin differ
    BY <1>3, <2>3, <2>4
  <2>6. g1[j - 1] = g0[j - 1]
    BY <2>5
  <2>7. g1[j] = next(g1[j - 1])
    BY <1>8, <2>4, <2>5
  <2>8. g0[j] = next(g0[j - 1])
    BY <1>4, <1>9, <2>4, <2>5
  <2>9. QED
    BY <2>3, <2>6, <2>7, <2>8
<1>11. ChainEnd(head) = g1[n]
  BY DEF ChainEnd, g1, n
<1>12. place(n) = m /\ n \in 0..n
  BY <1>2, <1>3 DEF place
<1>13. QED
  BY <1>9, <1>10, <1>11, <1>12 DEF m

LEMMA ChainOfOne ==
    ASSUME NEW b, NEW link, link[b] = NoBlock
    PROVE  \E q : IsChain(q, link, b, {b})
<1> DEFINE q == <<b>>
<1>1. q \in Seq({b}) /\ q # <<>> /\ Len(q) = 1 /\ q[1] = b /\ DOMAIN q = 1..1
  OBVIOUS
<1>2. IsInjective(q)
  BY <1>1 DEF IsInjective
<1> HIDE DEF q
<1>3. IsChain(q, link, b, {b})
  BY <1>1, <1>2 DEF IsChain
<1>4. QED
  BY <1>3

\* A block that is not linked continues the chain when the last one's link is
\* set to it.
LEMMA ChainGrows ==
    ASSUME NEW S \in SUBSET Block, NEW head, NEW q, NEW link \in [Block -> Block \cup {NoBlock}],
           IsChain(q, link, head, S), NEW b \in Block \ S, link[b] = NoBlock
    PROVE  \E r : IsChain(r, [link EXCEPT ![q[Len(q)]] = b], head, S \cup {b})
<1> DEFINE m == Len(q)
           r == Append(q, b)
           T == S \cup {b}
           new == [link EXCEPT ![q[m]] = b]
<1>1. /\ q \in Seq(S) /\ q # <<>> /\ IsInjective(q) /\ q[1] = head
      /\ \A c \in S : \E i \in 1..m : q[i] = c
      /\ \A i \in 1..m : link[q[i]] = IF i < m THEN q[i + 1] ELSE NoBlock
  BY DEF IsChain
<1>2. m \in Nat /\ m >= 1 /\ DOMAIN q = 1..m /\ \A i \in 1..m : q[i] \in S /\ q[i] # b
  <2>1. q \in Seq(S) /\ q # <<>> /\ b \notin S
    BY <1>1
  <2>2. QED
    BY <2>1
<1>3. /\ r \in Seq(T) /\ r # <<>> /\ Len(r) = m + 1 /\ DOMAIN r = 1..(m + 1)
      /\ \A i \in 1..m : r[i] = q[i]
      /\ r[m + 1] = b
  BY <1>1, <1>2
<1>4. \A i \in 1..m, j \in 1..m : q[i] = q[j] => i = j
  BY <1>1, <1>2 DEF IsInjective
<1>5. q[m] \in Block /\ q[m] # b
  BY <1>2
<1> HIDE DEF m, r
<1>6. new[q[m]] = b /\ \A c \in Block : c # q[m] => new[c] = link[c]
  BY <1>5
<1> HIDE DEF new
<1>7. IsInjective(r)
  <2>1. SUFFICES ASSUME NEW i \in 1..(m + 1), NEW j \in 1..(m + 1), r[i] = r[j]
                 PROVE  i = j
    BY <1>3 DEF IsInjective
  <2>2. CASE i = m + 1 \/ j = m + 1
    BY <1>2, <1>3, <2>1, <2>2
  <2>3. CASE i # m + 1 /\ j # m + 1
    <3>1. i \in 1..m /\ j \in 1..m
      BY <1>2, <2>3
    <3>2. QED
      BY <1>3, <1>4, <2>1, <3>1
  <2>4. QED
    BY <2>2, <2>3
<1>8. ASSUME NEW i \in 1..(m + 1)
      PROVE  new[r[i]] = IF i < m + 1 THEN r[i + 1] ELSE NoBlock
  <2>1. CASE i = m + 1
    <3>1. r[i] = b /\ new[b] = NoBlock
      BY <1>3, <1>5, <1>6, <2>1
    <3>2. QED
      BY <1>2, <2>1, <3>1
  <2>2. CASE i = m
    <3>1. r[i] = q[m] /\ r[i + 1] = b /\ i < m + 1
      BY <1>2, <1>3, <2>2
    <3>2. QED
      BY <1>6, <3>1
  <2>3. CASE i \in 1..m /\ i < m
    <3>1. i + 1 \in 1..m /\ m \in 1..m
      BY <1>2, <2>3
    <3>2. r[i] = q[i] /\ r[i + 1] = q[i + 1] /\ q[i] \in Block
      BY <1>2, <1>3, <2>3, <3>1
    <3>3. q[i] # q[m]
      BY <1>2, <1>4, <2>3, <3>1
    <3>4. new[q[i]] = q[i + 1]
      BY <1>1, <1>6, <2>3, <3>2, <3>3
    <3>5. QED
      BY <1>2, <2>3, <3>2, <3>4
  <2>4. QED
    BY <1>2, <2>1, <2>2, <2>3
<1>9. ASSUME NEW c \in T PROVE \E i \in 1..(m + 1) : r[i] = c
  <2>1. CASE c = b
    BY <1>2, <1>3, <2>1
  <2>2. CASE c # b
    <3>1. PICK i \in 1..m : q[i] = c
      BY <1>1, <2>2
    <3>2. i \in 1..(m + 1) /\ r[i] = c
      BY <1>2, <1>3, <3>1
    <3>3. QED
      BY <3>2
  <2>3. QED
    BY <2>1, <2>2
<1>10. r[1] = head
  BY <1>1, <1>2, <1>3
<1>11. IsChain(r, new, head, T)
  BY <1>3, <1>7, <1>8, <1>9, <1>10 DEF IsChain
<1>12. QED
  BY <1>11 DEF m, new

\* A chain is what its links say of its own blocks.
LEMMA ChainStays ==
    ASSUME NEW S, NEW head, NEW q, NEW link, IsChain(q, link, head, S),
           NEW new, \A b \in S : new[b] = link[b]
    PROVE  IsChain(q, new, head, S)
<1>1. q \in Seq(S) /\ \A i \in 1..Len(q) : q[i] \in S
  BY DEF IsChain
<1>2. QED
  BY <1>1 DEF IsChain

LEMMA ChainOfUnmarked ==
    ASSUME NEW q, NEW link, NEW b, IsChain(q, link, b, {b})
    PROVE  link[b] = NoBlock
<1>1. /\ q \in Seq({b}) /\ q # <<>> /\ IsInjective(q) /\ q[1] = b
      /\ \A i \in 1..Len(q) : link[q[i]] = IF i < Len(q) THEN q[i + 1] ELSE NoBlock
  BY DEF IsChain
<1>2. Len(q) \in Nat /\ Len(q) >= 1 /\ DOMAIN q = 1..Len(q) /\ q[Len(q)] = b
  BY <1>1
<1>3. Len(q) = 1
  BY <1>1, <1>2 DEF IsInjective
<1>4. QED
  BY <1>1, <1>2, <1>3

\* Blocks that were given together: the chain from the head is all of them, and
\* a head that is not marked stands alone.
Together(head, S) ==
    /\ \E q : IsChain(q, compound_node, head, S)
    /\ compound_head[head] \/ S = {head}

\* A block that may be taken next is in no chain; one that is marked as a head
\* does not go through the cache, which does not look at chains; and what a
\* caller or the running call has is together.
LinksInv ==
    /\ \A b \in Listed \cup Cached : ~compound_head[b] /\ compound_node[b] = NoBlock
    /\ \A b \in Block : compound_head[b] => state[b] # "LRUTYPE"
    /\ \A h \in held : Together(h.head, h.blocks)
    /\ call # NoCall =>
         /\ call.is_combined => call.type # "LRUTYPE"
         /\ ~call.is_combined => call.left = 0 \/ (call.left = 1 /\ call.got = {})
         /\ call.got # {} => /\ Together(call.head, call.got)
                             /\ call.is_combined => compound_head[call.head]

LEMMA InitLinks == Init => LinksInv
<1> SUFFICES ASSUME Init PROVE LinksInv
  OBVIOUS
<1>1. Listed \cup Cached \subseteq Block
  <2>1. ToSet(lru_cache) = {}
    BY DEF Init, ToSet
  <2>2. Listed \subseteq Block
    BY NodeAllocAssumption DEF Init, Listed
  <2>3. QED
    BY <2>1, <2>2 DEF Cached
<1>2. QED
  BY <1>1 DEF Init, LinksInv

\* What is together stays so while its links and its head's mark do.
LEMMA StaysTogether ==
    ASSUME NEW head, NEW S, head \in S, Together(head, S),
           \A b \in S : compound_node'[b] = compound_node[b] /\ compound_head'[b] = compound_head[b]
    PROVE  Together(head, S)'
<1>1. PICK q : IsChain(q, compound_node, head, S)
  BY DEF Together
<1>2. IsChain(q, compound_node', head, S)
  BY <1>1, ChainStays
<1>3. QED
  BY <1>2 DEF Together

LEMMA PlacesAre ==
    ASSUME AllocInv
    PROVE  /\ Listed \cup Cached \subseteq Block
           /\ (Listed \cup Cached) \cap Out = {}
           /\ \A h \in held : h.head \in h.blocks /\ h.blocks \subseteq Block /\ h.blocks \subseteq Out
           /\ compound_node \in [Block -> Block \cup {NoBlock}]
           /\ compound_head \in [Block -> BOOLEAN]
           /\ call # NoCall => call \in Call /\ call.got \subseteq Block /\ call.got \subseteq Out
<1>1. Listed \subseteq Block /\ lru_cache \in Seq(Block)
  BY ListedFinite DEF AllocInv, TypeOK
<1>2. Cached \subseteq Block
  BY <1>1 DEF Cached, ToSet
<1>3. (Listed \cup Cached) \cap Out = {}
  BY DEF AllocInv, OnePlace, Cached
<1>4. \A h \in held : h.head \in h.blocks /\ h.blocks \subseteq Block /\ h.blocks \subseteq Out
  BY DEF AllocInv, TypeOK, Held, HeadsHeld, Out
<1>5. call # NoCall => call \in Call /\ call.got \subseteq Block /\ call.got \subseteq Out
  BY DEF AllocInv, TypeOK, Call, Out, Got
<1>6. QED
  BY <1>1, <1>2, <1>3, <1>4, <1>5 DEF AllocInv, TypeOK

\* What one dispatch does to the links: only blocks of the running call change.
LEMMA DispatchLinks ==
    ASSUME AllocInv, LinksInv, Running, NEW b \in Listed \cup Cached, Dispatched(b)
    PROVE  /\ call' # NoCall => call'.got # {} /\ Together(call.head, call.got)'
           /\ call'.is_combined = call.is_combined /\ call'.type = call.type
           /\ call'.left = call.left - 1 /\ call'.got = call.got \cup {b}
           /\ call.is_combined => compound_head'[call'.head]
           /\ ~call.is_combined => call.left = 1
           /\ \A c \in Block : c \notin call'.got => /\ compound_node'[c] = compound_node[c]
                                                     /\ compound_head'[c] = compound_head[c]
           /\ \A c \in Block : compound_head'[c] => compound_head[c] \/ (c = b /\ call.is_combined)
<1>1. /\ call # NoCall /\ call.left \in Nat \ {0} /\ call \in Call /\ call.got \subseteq Block
      /\ b \in Block /\ b \notin call.got
      /\ compound_node \in [Block -> Block \cup {NoBlock}] /\ compound_head \in [Block -> BOOLEAN]
  BY PlacesAre DEF Running, Call
<1>2. ~compound_head[b] /\ compound_node[b] = NoBlock
  BY DEF LinksInv
<1> DEFINE head == IF call.head = NoBlock THEN b ELSE call.head
<1>3. /\ call' = [call EXCEPT !.left = @ - 1, !.head = head, !.got = @ \cup {b}]
      /\ IF call.is_combined THEN compound_append(b, head)
         ELSE compound_head' = compound_head /\ compound_node' = compound_node
  BY DEF Dispatched, chains
<1>4. /\ call'.got = call.got \cup {b} /\ call'.head = head /\ call'.left = call.left - 1
      /\ call'.is_combined = call.is_combined /\ call'.type = call.type
  <2> HIDE DEF head
  <2>1. QED
    BY <1>1, <1>3 DEF Call
<1>5. call.is_combined \in BOOLEAN
  BY <1>1 DEF Call
<1>6. CASE call.got = {}
  <2>1. head = b /\ call'.got = {b}
    BY <1>1, <1>4, <1>6 DEF AllocInv, CallInv
  <2>2. compound_node' = compound_node
    BY <1>2, <1>3, <2>1 DEF compound_append
  <2>3. call.is_combined => compound_head' = [compound_head EXCEPT ![b] = TRUE]
    BY <1>2, <1>3, <2>1 DEF compound_append
  <2>4. ~call.is_combined => compound_head' = compound_head /\ call.left = 1
    BY <1>1, <1>3 DEF LinksInv
  <2>5. Together(b, {b})'
    <3>1. \E q : IsChain(q, compound_node', b, {b})
      BY <1>2, <2>2, ChainOfOne
    <3>2. QED
      BY <3>1 DEF Together
  <2>6. /\ call.is_combined => compound_head'[b]
        /\ \A c \in Block : c # b => compound_head'[c] = compound_head[c]
    BY <1>1, <1>5, <2>3, <2>4
  <2>7. Together(call.head, call.got)'
    BY <1>4, <2>1, <2>5 DEF Together
  <2>8. QED
    BY <1>1, <1>2, <1>4, <1>5, <2>1, <2>2, <2>4, <2>6, <2>7
<1>7. CASE call.got # {}
  <2>1. /\ call.is_combined /\ compound_head[call.head]
        /\ \E q : IsChain(q, compound_node, call.head, call.got)
    BY <1>1, <1>7 DEF LinksInv, Together
  <2>2. call.head \in call.got /\ head = call.head
    BY <1>1, <1>7, NodeAllocAssumption DEF AllocInv, CallInv
  <2>3. /\ compound_head' = compound_head
        /\ compound_node' = [compound_node EXCEPT ![ChainEnd(head)] = b]
    BY <1>3, <2>1, <2>2 DEF compound_append
  <2>4. PICK q : IsChain(q, compound_node, head, call.got)
    BY <2>1, <2>2
  <2>5. ChainEnd(head) = q[Len(q)] /\ q[Len(q)] \in call.got
    <3>1. q \in Seq(call.got) /\ q # <<>>
      BY <2>4 DEF IsChain
    <3>2. q[Len(q)] \in call.got
      BY <3>1
    <3>3. QED
      BY <1>1, <2>4, <3>2, ChainEndIs
  <2>6. \E r : IsChain(r, compound_node', head, call.got \cup {b})
    BY <1>1, <1>2, <2>3, <2>4, <2>5, ChainGrows
  <2>7. Together(call.head, call.got)'
    BY <1>4, <2>1, <2>2, <2>3, <2>6 DEF Together
  <2>8. \A c \in Block : c \notin call'.got => compound_node'[c] = compound_node[c]
    BY <1>1, <1>4, <2>3, <2>5
  <2>9. QED
    BY <1>4, <2>1, <2>2, <2>3, <2>7, <2>8
<1>8. QED
  BY <1>6, <1>7

\* A dispatch keeps the chains, whichever list the block comes from.
LEMMA DispatchKeepsLinks ==
    ASSUME AllocInv, AllocInv', LinksInv, Running, NEW b \in Listed \cup Cached, Dispatched(b),
           Listed' \cup Cached' \subseteq Listed \cup Cached,
           \A c \in Block : c # b => state'[c] = state[c],
           call.is_combined => state'[b] # "LRUTYPE"
    PROVE  LinksInv'
<1>1. /\ call' # NoCall => call'.got # {} /\ Together(call.head, call.got)'
      /\ call'.is_combined = call.is_combined /\ call'.type = call.type
      /\ call'.left = call.left - 1 /\ call'.got = call.got \cup {b}
      /\ call.is_combined => compound_head'[call'.head]
      /\ ~call.is_combined => call.left = 1
      /\ \A c \in Block : c \notin call'.got => /\ compound_node'[c] = compound_node[c]
                                                /\ compound_head'[c] = compound_head[c]
      /\ \A c \in Block : compound_head'[c] => compound_head[c] \/ (c = b /\ call.is_combined)
  BY DispatchLinks
<1>2. /\ call # NoCall /\ call.left \in Nat \ {0} /\ b \in Block
      /\ held' = held
  BY PlacesAre DEF Running, Call, Dispatched, holders
<1>3. /\ Listed' \cup Cached' \subseteq Block
      /\ (Listed' \cup Cached') \cap Out' = {}
      /\ \A h \in held' : h.head \in h.blocks /\ h.blocks \subseteq Block
      /\ call' # NoCall => call'.got \subseteq Out'
  <2>1. Listed' \cup Cached' \subseteq Block
    BY PlacesAre
  <2>2. (Listed' \cup Cached') \cap Out' = {}
    BY DEF AllocInv, OnePlace, Cached
  <2>3. \A h \in held' : h.head \in h.blocks /\ h.blocks \subseteq Block
    BY <1>2, PlacesAre
  <2>4. call' # NoCall => call'.got \subseteq Out'
    BY DEF Out, Got
  <2>5. QED
    BY <2>1, <2>2, <2>3, <2>4
<1>4. call' # NoCall
  BY <1>2, DispatchedInv, NodeAllocAssumption
<1>5. \A c \in (Listed \cup Cached)' : ~compound_head'[c] /\ compound_node'[c] = NoBlock
  BY <1>1, <1>3, <1>4 DEF LinksInv
<1>6. \A c \in Block : compound_head'[c] => state'[c] # "LRUTYPE"
  <2>1. SUFFICES ASSUME NEW c \in Block, compound_head'[c] PROVE state'[c] # "LRUTYPE"
    OBVIOUS
  <2>2. ~compound_head[b]
    BY DEF LinksInv
  <2>3. CASE c = b
    BY <1>1, <2>1, <2>2, <2>3
  <2>4. CASE c # b
    BY <1>1, <2>1, <2>4 DEF LinksInv
  <2>5. QED
    BY <2>3, <2>4
<1>7. ASSUME NEW h \in held' PROVE Together(h.head, h.blocks)'
  <2>1. h \in held /\ Together(h.head, h.blocks)
    BY <1>2 DEF LinksInv
  <2>2. call'.got \cap h.blocks = {}
    BY <1>4 DEF AllocInv, CallInv
  <2>3. h.head \in h.blocks /\ h.blocks \subseteq Block
    BY <1>3
  <2>4. QED
    BY <1>1, <2>1, <2>2, <2>3, StaysTogether
<1>8. /\ call'.is_combined => call'.type # "LRUTYPE"
      /\ ~call'.is_combined => call'.left = 0
  BY <1>1, <1>2 DEF LinksInv
<1>9. QED
  BY <1>1, <1>4, <1>5, <1>6, <1>7, <1>8 DEF LinksInv

\* A free lists or caches the head, and no other block that was not there.
LEMMA FreeReaches ==
    ASSUME AllocInv, AllocInv', NEW h \in held, node_struct_free(h)
    PROVE  /\ Listed' \cup Cached' \subseteq Listed \cup Cached \cup {h.head}
           /\ h.head \in h.blocks /\ h.blocks \subseteq Block
           /\ h.head \notin Listed \cup Cached
<1>1. /\ Idle /\ UNCHANGED <<state, call, crash>>
      /\ held' = held \ {h}
      /\ owners' = [b \in Block |-> owners[b] - IF b \in h.blocks THEN 1 ELSE 0]
      /\ left_behind' = left_behind \cup (h.blocks \ {h.head})
  BY DEF node_struct_free
<1>2. /\ h.head \in h.blocks /\ h.blocks \subseteq Out /\ h.head \notin Listed \cup Cached
      /\ Out' = Out \ h.blocks
  BY <1>1, HolderLeaves
<1>3. h.blocks \subseteq Block
  BY PlacesAre
<1>4. /\ (Listed' \cup Cached') \cap Out' = {}
      /\ left_behind' = Block \ (Listed' \cup Cached' \cup Out')
      /\ left_behind = Block \ (Listed \cup Cached \cup Out)
  BY DEF AllocInv, OnePlace, OnlyTailsForgotten, Cached
<1>5. Listed' \cup Cached' \subseteq Block
  <2>1. Listed' \subseteq Block /\ lru_cache' \in Seq(Block)
    BY DEF AllocInv, TypeOK, Listed
  <2>2. Cached' \subseteq Block
    BY <2>1 DEF Cached, ToSet
  <2>3. QED
    BY <2>1, <2>2
<1>6. ASSUME NEW b \in Listed' \cup Cached', b # h.head PROVE b \in Listed \cup Cached
  <2>1. b \in Block /\ b \notin Out' /\ b \notin left_behind'
    BY <1>4, <1>5
  <2>2. b \notin h.blocks /\ b \notin left_behind
    BY <1>1, <1>6, <2>1
  <2>3. b \notin Out
    BY <1>2, <2>1, <2>2
  <2>4. QED
    BY <1>4, <2>1, <2>2, <2>3
<1>7. QED
  BY <1>2, <1>3, <1>6

\* The head that goes back is taken out of its chain.
LEMMA FreeUnlinks ==
    ASSUME AllocInv, LinksInv, NEW h \in held, node_struct_free(h)
    PROVE  /\ ~compound_head'[h.head] /\ compound_node'[h.head] = NoBlock
           /\ \A b \in Block : b # h.head => /\ compound_head'[b] = compound_head[b]
                                             /\ compound_node'[b] = compound_node[b]
<1> DEFINE a == h.head
<1>1. /\ a \in h.blocks /\ a \in Block
      /\ compound_node \in [Block -> Block \cup {NoBlock}] /\ compound_head \in [Block -> BOOLEAN]
  BY PlacesAre
<1>2. (\E q : IsChain(q, compound_node, a, h.blocks)) /\ (compound_head[a] \/ h.blocks = {a})
  BY DEF LinksInv, Together
<1>3. ~compound_head[a] => compound_node[a] = NoBlock
  BY <1>2, ChainOfUnmarked
<1>4. CASE free_unmovable(h)
  <2>1. /\ compound_head' = [compound_head EXCEPT ![a] = FALSE]
        /\ compound_node' = [compound_node EXCEPT ![a] = IF compound_head[a] THEN NoBlock ELSE @]
    BY <1>4 DEF free_unmovable, dequeue_group_migration
  <2>2. QED
    BY <1>1, <1>3, <2>1
<1>5. CASE free_cached(h)
  <2>1. ~compound_head[a] /\ compound_node[a] = NoBlock
    BY <1>1, <1>3, <1>5 DEF free_cached, LinksInv
  <2>2. CASE CacheIsFull
    <3> DEFINE cells == <<a>> \o lru_cache
               e == Last(cells)
    <3>1. /\ compound_head' = [compound_head EXCEPT ![e] = FALSE]
          /\ compound_node' = [compound_node EXCEPT ![e] = IF compound_head[e] THEN NoBlock ELSE @]
      BY <1>5, <2>2 DEF free_cached, dequeue_group_migration, Evicted
    <3>2. e \in {a} \cup Cached
      <4>1. lru_cache \in Seq(Block) /\ IsInjective(lru_cache)
        BY DEF AllocInv, TypeOK, OnePlace
      <4>2. a \notin ToSet(lru_cache)
        BY <1>1, PlacesAre DEF Cached
      <4>3. /\ cells \in Seq(Block) /\ IsInjective(cells) /\ Len(cells) = Len(lru_cache) + 1
            /\ ToSet(cells) = {a} \cup ToSet(lru_cache)
        BY <1>1, <4>1, <4>2, CachePush
      <4>4. cells # <<>>
        BY <4>1, <4>3
      <4> HIDE DEF cells
      <4>5. Last(cells) \in ToSet(cells)
        BY <4>3, <4>4, CacheFront
      <4>6. QED
        BY <4>3, <4>5 DEF Cached
    <3>3. e \in Block /\ ~compound_head[e] /\ compound_node[e] = NoBlock
      BY <1>1, <2>1, <3>2, PlacesAre DEF LinksInv
    <3> HIDE DEF e
    <3>4. QED
      BY <1>1, <2>1, <3>1, <3>3
  <2>3. CASE ~CacheIsFull
    <3>1. compound_head' = compound_head /\ compound_node' = compound_node
      BY <1>5, <2>3 DEF free_cached, chains
    <3>2. QED
      BY <2>1, <3>1
  <2>4. QED
    BY <2>2, <2>3
<1>6. QED
  BY <1>4, <1>5 DEF node_struct_free

LEMMA FreeKeepsLinks ==
    ASSUME AllocInv, AllocInv', LinksInv, NEW h \in held, node_struct_free(h)
    PROVE  LinksInv'
<1>1. /\ call = NoCall /\ call' = call /\ state' = state /\ held' = held \ {h}
  BY DEF node_struct_free, Idle
<1>2. /\ Listed' \cup Cached' \subseteq Listed \cup Cached \cup {h.head}
      /\ h.head \in h.blocks /\ h.blocks \subseteq Block
  BY FreeReaches
<1>3. /\ ~compound_head'[h.head] /\ compound_node'[h.head] = NoBlock
      /\ \A b \in Block : b # h.head => /\ compound_head'[b] = compound_head[b]
                                        /\ compound_node'[b] = compound_node[b]
  BY FreeUnlinks
<1>4. \A b \in (Listed \cup Cached)' : ~compound_head'[b] /\ compound_node'[b] = NoBlock
  <2>1. SUFFICES ASSUME NEW b \in Listed \cup Cached, b # h.head
                 PROVE  ~compound_head'[b] /\ compound_node'[b] = NoBlock
    BY <1>2, <1>3
  <2>2. b \in Block /\ ~compound_head[b] /\ compound_node[b] = NoBlock
    BY PlacesAre DEF LinksInv
  <2>3. QED
    BY <1>3, <2>1, <2>2
<1>5. \A b \in Block : compound_head'[b] => state'[b] # "LRUTYPE"
  BY <1>1, <1>3 DEF LinksInv
<1>6. ASSUME NEW k \in held' PROVE Together(k.head, k.blocks)'
  <2>1. k \in held /\ k # h /\ Together(k.head, k.blocks)
    BY <1>1 DEF LinksInv
  <2>2. k.blocks \cap h.blocks = {}
    BY <2>1 DEF AllocInv, OnePlace
  <2>3. k.head \in k.blocks /\ k.blocks \subseteq Block
    BY <2>1, PlacesAre
  <2>4. \A b \in k.blocks : /\ compound_node'[b] = compound_node[b]
                            /\ compound_head'[b] = compound_head[b]
    BY <1>2, <1>3, <2>2, <2>3
  <2>5. QED
    BY <2>1, <2>3, <2>4, StaysTogether
<1>7. QED
  BY <1>1, <1>4, <1>5, <1>6 DEF LinksInv

LEMMA LinksStay ==
    ASSUME LinksInv, UNCHANGED <<free, lru_cache, state, compound_head, compound_node, held, call>>
    PROVE  LinksInv'
BY DEF LinksInv, Listed, Cached, Together

LEMMA StepKeepsLinks == AllocInv /\ AllocInv' /\ LinksInv /\ [Next]_vars => LinksInv'
<1> SUFFICES ASSUME AllocInv, AllocInv', LinksInv, [Next]_vars PROVE LinksInv'
  OBVIOUS
<1>1. ASSUME NEW r \in Requests, node_struct_alloc(r) PROVE LinksInv'
  <2>1. /\ call' = [type |-> r.type, left |-> r.nblocks, head |-> NoBlock, got |-> {},
                    is_combined |-> r.is_combined, wants_range |-> r.wants_range]
        /\ UNCHANGED <<free, lru_cache, state, compound_head, compound_node, held>>
    BY <1>1 DEF node_struct_alloc, node, chains, holders
  <2>2. /\ r.is_combined => r.type # "LRUTYPE"
        /\ ~r.is_combined => r.nblocks = 1
    BY NodeAllocAssumption DEF Request
  <2>3. QED
    BY <2>1, <2>2 DEF LinksInv, Listed, Cached, Together
<1>2. CASE dispatch_cached
  <2> DEFINE b == Head(lru_cache)
  <2>1. /\ Running /\ call.type = "LRUTYPE" /\ lru_cache # <<>> /\ lru_cache' = Tail(lru_cache)
        /\ Dispatched(b) /\ free' = free /\ state' = state
    BY <1>2 DEF dispatch_cached, CacheServes, AfterHit
  <2>2. lru_cache \in Seq(Block) /\ IsInjective(lru_cache)
    BY DEF AllocInv, TypeOK, OnePlace
  <2>3. b \in Cached /\ Cached' \subseteq Cached
    BY <2>1, <2>2, CacheTail DEF Cached
  <2>4. Listed' = Listed
    BY <2>1 DEF Listed
  <2>5. ~call.is_combined
    BY <2>1 DEF LinksInv, Running
  <2> HIDE DEF b
  <2>6. QED
    BY <2>1, <2>3, <2>4, <2>5, DispatchKeepsLinks
<1>3. ASSUME NEW t \in MigrationType, NEW m \in MigrationType, NEW b \in Block,
             Running, TakeFrom(t, b, m), m = "LRUTYPE" => call.type = "LRUTYPE"
      PROVE  LinksInv'
  <2>1. /\ b \in free[t] /\ free' = [free EXCEPT ![t] = @ \ {b}]
        /\ state' = [state EXCEPT ![b] = m] /\ Dispatched(b) /\ lru_cache' = lru_cache
    BY <1>3 DEF TakeFrom
  <2>2. b \in Listed /\ Listed' = Listed \ {b} /\ Cached' = Cached
    BY <2>1, ListedTaken DEF AllocInv, Cached
  <2>3. /\ state' \in [Block -> MigrationType] /\ state'[b] = m
        /\ \A c \in Block : c # b => state'[c] = state[c]
    BY <2>1 DEF AllocInv, TypeOK
  <2>4. call.is_combined => m # "LRUTYPE"
    BY <1>3 DEF LinksInv, Running
  <2>5. QED
    BY <1>3, <2>1, <2>2, <2>3, <2>4, DispatchKeepsLinks
<1>4. CASE dispatch_forward
  <2>1. call.type \in MigrationType /\ Running
    BY <1>4 DEF dispatch_forward, Running, AllocInv, TypeOK, Call
  <2>2. PICK b \in Block : TakeFrom(call.type, b, "MOVABLE")
    BY <1>4 DEF dispatch_forward, ForwardState
  <2>3. QED
    BY <1>3, <2>1, <2>2
<1>5. CASE dispatch_migrate
  <2>1. call.type \in MigrationType /\ Running
    BY <1>5 DEF dispatch_migrate, Running, AllocInv, TypeOK, Call
  <2>2. PICK b \in Block : TakeFrom("MOVABLE", b, call.type)
    BY <1>5 DEF dispatch_migrate
  <2>3. QED
    BY <1>3, <2>1, <2>2
<1>6. CASE dispatch_exhausted
  BY <1>6, LinksStay DEF dispatch_exhausted, node, chains, holders
<1>7. CASE alloc_returns
  <2>1. /\ call # NoCall /\ call.left = 0 /\ call' = NoCall
        /\ held' = held \cup {[head |-> call.head, blocks |-> call.got]}
        /\ UNCHANGED <<free, lru_cache, state, compound_head, compound_node>>
    BY <1>7 DEF alloc_returns, Served, node, chains
  <2>2. Together(call.head, call.got)
    BY <2>1 DEF LinksInv, AllocInv, CallInv
  <2>3. \A h \in held' : Together(h.head, h.blocks)'
    BY <2>1, <2>2 DEF LinksInv, Together
  <2>4. QED
    BY <2>1, <2>3 DEF LinksInv, Listed, Cached
<1>8. ASSUME NEW h \in held, node_struct_free(h) PROVE LinksInv'
  BY <1>8, FreeKeepsLinks
<1>9. ASSUME NEW h \in held, node_struct_free_movable(h) PROVE LinksInv'
  BY <1>9, LinksStay DEF node_struct_free_movable, node, chains, holders
<1>10. CASE alloc_loses_range
  BY <1>10, LinksStay DEF alloc_loses_range, node, chains, holders
<1>11. CASE UNCHANGED vars
  BY <1>11, LinksStay DEF vars, node, chains, holders
<1>12. QED
  BY <1>1, <1>2, <1>4, <1>5, <1>6, <1>7, <1>8, <1>9, <1>10, <1>11 DEF Next

\* In every state that can be reached, what was given together is one chain
\* from its head, and a block that may be given next is in none.
THEOREM LinksInvariant == Spec => []LinksInv
<1>1. Init => LinksInv
  BY InitLinks
<1>2. AllocInv /\ AllocInv' /\ LinksInv /\ [Next]_vars => LinksInv'
  BY StepKeepsLinks
<1>3. QED
  BY <1>1, <1>2, AllocInvariant, PTL DEF Spec

\* The chain of a combined request, followed from the block its caller has, is
\* all the blocks it was given.
THEOREM ChainsAreRequests == Spec => []ChainIsRequest
<1>1. AllocInv /\ LinksInv => ChainIsRequest
  <2>1. SUFFICES ASSUME AllocInv, LinksInv, NEW h \in held
                 PROVE  /\ {compound_node[b] : b \in h.blocks} \subseteq h.blocks \cup {NoBlock}
                        /\ {c \in h.blocks : \E b \in h.blocks : compound_node[b] = c}
                             = h.blocks \ {h.head}
    BY DEF ChainIsRequest
  <2> DEFINE S == h.blocks
  <2>2. PICK q : IsChain(q, compound_node, h.head, S)
    BY <2>1 DEF LinksInv, Together
  <2>3. S \subseteq Block /\ NoBlock \notin S /\ h.head \in S
    BY <2>1, PlacesAre, NodeAllocAssumption
  <2> HIDE DEF S
  <2>4. /\ q \in Seq(S) /\ q # <<>> /\ IsInjective(q) /\ q[1] = h.head
        /\ \A b \in S : \E i \in 1..Len(q) : q[i] = b
        /\ \A i \in 1..Len(q) : compound_node[q[i]] = IF i < Len(q) THEN q[i + 1] ELSE NoBlock
    BY <2>2 DEF IsChain
  <2>5. /\ Len(q) \in Nat /\ Len(q) >= 1 /\ DOMAIN q = 1..Len(q)
        /\ \A i \in 1..Len(q) : q[i] \in S
    BY <2>4
  <2>6. \A i \in 1..Len(q), j \in 1..Len(q) : q[i] = q[j] => i = j
    BY <2>4, <2>5 DEF IsInjective
  <2>7. ASSUME NEW b \in S PROVE compound_node[b] \in S \cup {NoBlock} /\ compound_node[b] # h.head
    <3>1. PICK i \in 1..Len(q) : q[i] = b
      BY <2>4
    <3>2. CASE i < Len(q)
      <4>1. i + 1 \in 1..Len(q) /\ i + 1 # 1 /\ 1 \in 1..Len(q)
        BY <2>5, <3>2
      <4>2. compound_node[b] = q[i + 1] /\ q[i + 1] # q[1]
        BY <2>4, <2>6, <3>1, <3>2, <4>1
      <4>3. QED
        BY <2>4, <2>5, <4>1, <4>2
    <3>3. CASE ~(i < Len(q))
      BY <2>3, <2>4, <3>1, <3>3
    <3>4. QED
      BY <3>2, <3>3
  <2>8. ASSUME NEW c \in S, c # h.head PROVE \E b \in S : compound_node[b] = c
    <3>1. PICK i \in 1..Len(q) : q[i] = c
      BY <2>4
    <3>2. i # 1
      BY <2>4, <2>8, <3>1
    <3>3. i - 1 \in 1..Len(q) /\ i - 1 < Len(q) /\ (i - 1) + 1 = i
      BY <2>5, <3>2
    <3>4. compound_node[q[i - 1]] = c /\ q[i - 1] \in S
      BY <2>4, <2>5, <3>1, <3>3
    <3>5. QED
      BY <3>4
  <2>9. QED
    BY <2>7, <2>8 DEF S
<1>2. QED
  BY <1>1, AllocInvariant, LinksInvariant, PTL
=============================================================================
