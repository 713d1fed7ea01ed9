----------------------------- MODULE MCPromoted -----------------------------
(* A node and callers of UNMOVABLE blocks for model checking FreeGroup. *)
EXTENDS FreeGroup

\* For F = 4: a block of level 2 and four, four and eight items.
GrownNode == <<16, 4, 4, 8>>

MovableAndUnmovable ==
    [lvl : {3}, order : {2}, type : {MIGRATION_MOVABLE, MIGRATION_UNMOVABLE}]
=============================================================================
