---------------------------- MODULE MCNodeAlloc ----------------------------
(* Callers for model checking NodeAlloc. *)
EXTENDS NodeAlloc

\* One block, and a request that is cut into several: FUNC_PHYSICAL_OBJECT of
\* one item and of a larger block; FUNC_PHYSICAL_DEBUG, _RESERVED and _DCONT.
Single(t, range) == [type |-> t, nblocks |-> 1, is_combined |-> FALSE, wants_range |-> range]
Several(t, n, range) == [type |-> t, nblocks |-> n, is_combined |-> TRUE, wants_range |-> range]

AllRequests == {Single("LRUTYPE", TRUE), Single("UNMOVABLE", TRUE), Several("UNMOVABLE", 1, TRUE),
                Several("UNMOVABLE", 2, TRUE), Single("MOVABLE", TRUE), Several("MOVABLE", 3, FALSE)}

\* kmalloc of one item.
Kmalloc == {Single("LRUTYPE", TRUE)}
=============================================================================
