----------------------------- MODULE ItemFlags -----------------------------
(***************************************************************************)
(* The flags word of an item descriptor: nine fields in 64 bits, written   *)
(* and read by the accessors of tensor_ops.h through the field macros of   *)
(* tensor_struct.h.  A word, and a value written into it, is the set of    *)
(* its one bits.                                                           *)
(***************************************************************************)
EXTENDS Integers

CONSTANT Values    \* what callers write

ASSUME ValuesAssumption == Values \subseteq SUBSET Nat

Field == {"present", "order", "state", "table", "node", "section", "dim", "func", "freeidx"}

\* Mutant: the table number gets a sixth bit and nothing behind it moves.
OFFSET_ITEM_WideTable(f) ==
    CASE f = "present" -> 1  [] f = "order" -> 4    [] f = "state" -> 4
      [] f = "table" -> 6    [] f = "node" -> 5     [] f = "section" -> 5
      [] f = "dim" -> 5      [] f = "func" -> 3     [] f = "freeidx" -> 32

\* enum item_flags: where a field begins, and how many bits it has.
BASE_ITEM(f) ==
    CASE f = "present" -> 0  [] f = "order" -> 1    [] f = "state" -> 5
      [] f = "table" -> 9    [] f = "node" -> 14    [] f = "section" -> 19
      [] f = "dim" -> 24     [] f = "func" -> 29    [] f = "freeidx" -> 32

OFFSET_ITEM(f) ==
    CASE f = "present" -> 1  [] f = "order" -> 4    [] f = "state" -> 4
      [] f = "table" -> 5    [] f = "node" -> 5     [] f = "section" -> 5
      [] f = "dim" -> 5      [] f = "func" -> 3     [] f = "freeidx" -> 32

MASK(f) == 0..(OFFSET_ITEM(f) - 1)
AM(f) == BASE_ITEM(f)..(BASE_ITEM(f) + OFFSET_ITEM(f) - 1)

\* BM: a value cut to the field and moved to its place; MR: the field replaced;
\* ZR: the field zeroed; CR: the bits of a value cleared; GR: the field read.
BM(f, v) == {b \in AM(f) : b - BASE_ITEM(f) \in v}

\* Mutant: the old value is left under the new one.
MR_Or(w, f, v) == w \cup BM(f, v)

MR(w, f, v) == (w \ AM(f)) \cup BM(f, v)
ZR(w, f) == w \ AM(f)
CR(w, f, v) == w \ BM(f, v)
GR(w, f) == {b \in MASK(f) : b + BASE_ITEM(f) \in w}

VARIABLES flags,     \* the word
          written    \* history: what the last write to a field meant to store

vars == <<flags, written>>

TypeOK ==
    /\ flags \subseteq 0..63
    /\ written \in [Field -> SUBSET Nat]

\* init_item.
Init == flags = {} /\ written = [f \in Field |-> {}]

set_item(f, v) ==
    /\ flags' = MR(flags, f, v)
    /\ written' = [written EXCEPT ![f] = v]

clear_item(f) ==
    /\ f \notin {"section", "dim"}
    /\ flags' = ZR(flags, f)
    /\ written' = [written EXCEPT ![f] = {}]

\* A cleared section is all ones, so that no level has its number.
clear_item_section ==
    /\ flags' = MR(flags, "section", MASK("section"))
    /\ written' = [written EXCEPT !["section"] = MASK("section")]

\* clear_item_dim clears the bits of the value it is given, not the field.
clear_item_dim(v) ==
    /\ flags' = CR(flags, "dim", v)
    /\ written' = [written EXCEPT !["dim"] = @ \ v]

\* SB and CB, which set_item_present and clear_item_present use, write the one
\* bit of their field.
Next ==
    \/ \E f \in Field \ {"present"}, v \in Values : set_item(f, v)
    \/ set_item("present", {0})
    \/ \E f \in Field : clear_item(f)
    \/ clear_item_section
    \/ \E v \in Values : clear_item_dim(v)

Spec == Init /\ [][Next]_vars

\* Every field reads as the last value written to it, cut to its width,
\* whatever was written to the other eight since: the order a block had when
\* it was handed out is still there when it comes back, although its state,
\* dimension and free index were set in between.
FieldsIndependent == \A f \in Field : GR(flags, f) = written[f] \cap MASK(f)

ItemFlagsInv == TypeOK /\ FieldsIndependent
=============================================================================
