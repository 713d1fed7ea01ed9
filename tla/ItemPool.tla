------------------------------ MODULE ItemPool ------------------------------
(***************************************************************************)
(* What a node promises the callers of node_struct_alloc and               *)
(* node_struct_free: a block it hands out is a run of items nobody has,    *)
(* and a block given back may be handed out again.                         *)
(***************************************************************************)
EXTENDS Naturals

CONSTANTS Item,    \* the items of the node
          Block    \* the sets of items that are handed out together

VARIABLE owners    \* how many callers have an item

InitPool == owners = [i \in Item |-> 0]

Grant(b) ==
    /\ \A i \in b : owners[i] = 0
    /\ owners' = [i \in Item |-> IF i \in b THEN 1 ELSE owners[i]]

Return(b) ==
    /\ \A i \in b : owners[i] = 1
    /\ owners' = [i \in Item |-> IF i \in b THEN 0 ELSE owners[i]]

NextPool == \E b \in Block : Grant(b) \/ Return(b)

SpecPool == InitPool /\ [][NextPool]_owners
=============================================================================
