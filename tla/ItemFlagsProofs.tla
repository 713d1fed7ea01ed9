-------------------------- MODULE ItemFlagsProofs --------------------------
(***************************************************************************)
(* The fields of a flags word never disturb each other, whatever is        *)
(* written to them.                                                        *)
(***************************************************************************)
EXTENDS ItemFlags, TLAPS

\* The layout, field by field.
LEMMA FieldTable ==
    ASSUME NEW f \in Field
    PROVE  \/ f = "present" /\ BASE_ITEM(f) = 0 /\ OFFSET_ITEM(f) = 1
           \/ f = "order" /\ BASE_ITEM(f) = 1 /\ OFFSET_ITEM(f) = 4
           \/ f = "state" /\ BASE_ITEM(f) = 5 /\ OFFSET_ITEM(f) = 4
           \/ f = "table" /\ BASE_ITEM(f) = 9 /\ OFFSET_ITEM(f) = 5
           \/ f = "node" /\ BASE_ITEM(f) = 14 /\ OFFSET_ITEM(f) = 5
           \/ f = "section" /\ BASE_ITEM(f) = 19 /\ OFFSET_ITEM(f) = 5
           \/ f = "dim" /\ BASE_ITEM(f) = 24 /\ OFFSET_ITEM(f) = 5
           \/ f = "func" /\ BASE_ITEM(f) = 29 /\ OFFSET_ITEM(f) = 3
           \/ f = "freeidx" /\ BASE_ITEM(f) = 32 /\ OFFSET_ITEM(f) = 32
<1>1. CASE f = "present"
    <2>1. BASE_ITEM(f) = 0
        BY <1>1 DEF BASE_ITEM
    <2>2. OFFSET_ITEM(f) = 1
        BY <1>1 DEF OFFSET_ITEM
    <2> QED
        BY <1>1, <2>1, <2>2
<1>2. CASE f = "order"
    <2>1. BASE_ITEM(f) = 1
        BY <1>2 DEF BASE_ITEM
    <2>2. OFFSET_ITEM(f) = 4
        BY <1>2 DEF OFFSET_ITEM
    <2> QED
        BY <1>2, <2>1, <2>2
<1>3. CASE f = "state"
    <2>1. BASE_ITEM(f) = 5
        BY <1>3 DEF BASE_ITEM
    <2>2. OFFSET_ITEM(f) = 4
        BY <1>3 DEF OFFSET_ITEM
    <2> QED
        BY <1>3, <2>1, <2>2
<1>4. CASE f = "table"
    <2>1. BASE_ITEM(f) = 9
        BY <1>4 DEF BASE_ITEM
    <2>2. OFFSET_ITEM(f) = 5
        BY <1>4 DEF OFFSET_ITEM
    <2> QED
        BY <1>4, <2>1, <2>2
<1>5. CASE f = "node"
    <2>1. BASE_ITEM(f) = 14
        BY <1>5 DEF BASE_ITEM
    <2>2. OFFSET_ITEM(f) = 5
        BY <1>5 DEF OFFSET_ITEM
    <2> QED
        BY <1>5, <2>1, <2>2
<1>6. CASE f = "section"
    <2>1. BASE_ITEM(f) = 19
        BY <1>6 DEF BASE_ITEM
    <2>2. OFFSET_ITEM(f) = 5
        BY <1>6 DEF OFFSET_ITEM
    <2> QED
        BY <1>6, <2>1, <2>2
<1>7. CASE f = "dim"
    <2>1. BASE_ITEM(f) = 24
        BY <1>7 DEF BASE_ITEM
    <2>2. OFFSET_ITEM(f) = 5
        BY <1>7 DEF OFFSET_ITEM
    <2> QED
        BY <1>7, <2>1, <2>2
<1>8. CASE f = "func"
    <2>1. BASE_ITEM(f) = 29
        BY <1>8 DEF BASE_ITEM
    <2>2. OFFSET_ITEM(f) = 3
        BY <1>8 DEF OFFSET_ITEM
    <2> QED
        BY <1>8, <2>1, <2>2
<1>9. CASE f = "freeidx"
    <2>1. BASE_ITEM(f) = 32
        BY <1>9 DEF BASE_ITEM
    <2>2. OFFSET_ITEM(f) = 32
        BY <1>9 DEF OFFSET_ITEM
    <2> QED
        BY <1>9, <2>1, <2>2
<1> QED
    BY <1>1, <1>2, <1>3, <1>4, <1>5, <1>6, <1>7, <1>8, <1>9 DEF Field

\* Where the fields are.
LEMMA FieldRange ==
    ASSUME NEW f \in Field
    PROVE  /\ BASE_ITEM(f) \in Nat
           /\ OFFSET_ITEM(f) \in Nat
           /\ BASE_ITEM(f) + OFFSET_ITEM(f) <= 64
    BY FieldTable

\* Two fields share no bit.
LEMMA FieldsDisjoint ==
    ASSUME NEW f \in Field, NEW g \in Field, f # g
    PROVE  \/ BASE_ITEM(f) + OFFSET_ITEM(f) <= BASE_ITEM(g)
           \/ BASE_ITEM(g) + OFFSET_ITEM(g) <= BASE_ITEM(f)
    BY FieldTable

\* A field's mask, and what a written value occupies of it, in the word.
LEMMA MaskInWord ==
    ASSUME NEW f \in Field
    PROVE  /\ AM(f) \subseteq 0..63
           /\ \A v : BM(f, v) \subseteq AM(f)
    BY FieldRange, SMT DEF AM, BM

LEMMA MasksDisjoint ==
    ASSUME NEW f \in Field, NEW g \in Field, f # g
    PROVE  AM(f) \cap AM(g) = {}
    BY FieldRange, FieldsDisjoint, SMT DEF AM

\* A bit of a field's value is a bit of its mask in the word.
LEMMA MaskBit ==
    ASSUME NEW f \in Field, NEW b \in MASK(f)
    PROVE  b + BASE_ITEM(f) \in AM(f) /\ (b + BASE_ITEM(f)) - BASE_ITEM(f) = b
    BY FieldRange, SMT DEF AM, MASK

\* A word that changes only in one field reads the same in the others.
LEMMA OthersUnchanged ==
    ASSUME NEW f \in Field, NEW g \in Field, f # g,
           NEW w, NEW x,
           \A b : b \notin AM(f) => (b \in x <=> b \in w)
    PROVE  GR(x, g) = GR(w, g)
<1>1. \A b \in MASK(g) : b + BASE_ITEM(g) \notin AM(f)
    BY MaskBit, MasksDisjoint
<1> QED
    BY <1>1 DEF GR

\* What the three writers leave in the field they write.
LEMMA WriteField ==
    ASSUME NEW f \in Field, NEW w, NEW v
    PROVE  /\ GR(MR(w, f, v), f) = v \cap MASK(f)
           /\ GR(ZR(w, f), f) = {}
           /\ GR(CR(w, f, v), f) = GR(w, f) \ v
<1>1. ASSUME NEW b \in MASK(f)
      PROVE  b + BASE_ITEM(f) \in BM(f, v) <=> b \in v
    BY MaskBit DEF BM
<1>2. GR(MR(w, f, v), f) = v \cap MASK(f)
    BY <1>1, MaskBit DEF GR, MR
<1>3. GR(ZR(w, f), f) = {}
    BY MaskBit DEF GR, ZR
<1>4. GR(CR(w, f, v), f) = GR(w, f) \ v
    BY <1>1 DEF GR, CR
<1> QED
    BY <1>2, <1>3, <1>4

\* Outside the field, a write leaves the word alone.
LEMMA WriteOutside ==
    ASSUME NEW f \in Field, NEW w, NEW v, NEW b, b \notin AM(f)
    PROVE  /\ b \in MR(w, f, v) <=> b \in w
           /\ b \in ZR(w, f) <=> b \in w
           /\ b \in CR(w, f, v) <=> b \in w
    BY DEF MR, ZR, CR, BM

\* One write, of any of the three kinds, keeps the invariant.
LEMMA WriteKeepsInv ==
    ASSUME ItemFlagsInv, NEW f \in Field, NEW x \in SUBSET (0..63), NEW u \in SUBSET Nat,
           flags' = x,
           written' = [written EXCEPT ![f] = u],
           \A b : b \notin AM(f) => (b \in x <=> b \in flags),
           GR(x, f) = u \cap MASK(f)
    PROVE  ItemFlagsInv'
<1>1. TypeOK'
    BY DEF ItemFlagsInv, TypeOK
<1>2. ASSUME NEW g \in Field
      PROVE  GR(flags', g) = written'[g] \cap MASK(g)
    <2>1. CASE g = f
        BY <2>1 DEF ItemFlagsInv, TypeOK
    <2>2. CASE g # f
        <3>1. GR(x, g) = GR(flags, g)
            BY <2>2, OthersUnchanged
        <3> QED
            BY <2>2, <3>1 DEF ItemFlagsInv, TypeOK, FieldsIndependent
    <2> QED
        BY <2>1, <2>2
<1> QED
    BY <1>1, <1>2 DEF ItemFlagsInv, FieldsIndependent

LEMMA InitInv == Init => ItemFlagsInv
    BY DEF Init, ItemFlagsInv, TypeOK, FieldsIndependent, GR, Field

\* Every step keeps it.
LEMMA NextInv == ItemFlagsInv /\ [Next]_vars => ItemFlagsInv'
<1> SUFFICES ASSUME ItemFlagsInv, [Next]_vars
             PROVE  ItemFlagsInv'
    OBVIOUS
<1>0. \A f \in Field : AM(f) \subseteq 0..63 /\ \A v : BM(f, v) \subseteq AM(f)
    BY MaskInWord
<1>1. ASSUME NEW f \in Field, NEW v \in SUBSET Nat, set_item(f, v)
      PROVE  ItemFlagsInv'
    <2>1. MR(flags, f, v) \in SUBSET (0..63)
        BY <1>0 DEF MR, ItemFlagsInv, TypeOK
    <2>2. GR(MR(flags, f, v), f) = v \cap MASK(f)
        BY WriteField
    <2>3. \A b : b \notin AM(f) => (b \in MR(flags, f, v) <=> b \in flags)
        BY WriteOutside
    <2> QED
        BY <1>1, <2>1, <2>2, <2>3, WriteKeepsInv DEF set_item
<1>2. ASSUME NEW f \in Field, clear_item(f)
      PROVE  ItemFlagsInv'
    <2>1. ZR(flags, f) \in SUBSET (0..63)
        BY DEF ZR, ItemFlagsInv, TypeOK
    <2>2. GR(ZR(flags, f), f) = {} \cap MASK(f)
        BY WriteField
    <2>3. \A b : b \notin AM(f) => (b \in ZR(flags, f) <=> b \in flags)
        BY DEF ZR
    <2> QED
        BY <1>2, <2>1, <2>2, <2>3, WriteKeepsInv DEF clear_item
<1>3. CASE clear_item_section
    <2>1. "section" \in Field /\ MASK("section") \in SUBSET Nat
        BY SMT DEF Field, MASK, OFFSET_ITEM
    <2> QED
        BY <1>3, <2>1, <1>1 DEF clear_item_section, set_item
<1>4. ASSUME NEW v \in SUBSET Nat, clear_item_dim(v)
      PROVE  ItemFlagsInv'
    <2>1. "dim" \in Field
        BY DEF Field
    <2>2. CR(flags, "dim", v) \in SUBSET (0..63)
        BY DEF CR, ItemFlagsInv, TypeOK
    <2>3. GR(CR(flags, "dim", v), "dim") = (written["dim"] \ v) \cap MASK("dim")
        BY <2>1, WriteField DEF ItemFlagsInv, FieldsIndependent
    <2>4. \A b : b \notin AM("dim") => (b \in CR(flags, "dim", v) <=> b \in flags)
        BY <2>1, WriteOutside
    <2>5. written["dim"] \ v \in SUBSET Nat
        BY <2>1 DEF ItemFlagsInv, TypeOK
    <2> QED
        BY <1>4, <2>1, <2>2, <2>3, <2>4, <2>5, WriteKeepsInv DEF clear_item_dim
<1>5. CASE UNCHANGED vars
    BY <1>5 DEF vars, ItemFlagsInv, TypeOK, FieldsIndependent, GR
<1> QED
    <2>1. "present" \in Field /\ {0} \in SUBSET Nat
        BY DEF Field
    <2> QED
        BY <1>1, <1>2, <1>3, <1>4, <1>5, <2>1, ValuesAssumption DEF Next

\* Every field of every reachable flags word reads as the last value written
\* to it, cut to its width, for every set of values callers may write.
THEOREM FieldsAreIndependent == Spec => []ItemFlagsInv
    BY InitInv, NextInv, PTL DEF Spec
=============================================================================
