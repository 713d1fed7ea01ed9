----------------------------- MODULE MCNodeInit -----------------------------
(* A node for model checking NodeInit, whose sizes are as the theorems of *)
(* NodeInitProofs suppose them. *)
EXTENDS NodeInit

ASSUME MCNodeInitAssumption == PowerSizes
=============================================================================
