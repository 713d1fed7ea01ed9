----------------------------- MODULE BitmapLoop -----------------------------
(***************************************************************************)
(* A bitmap and one of the four for_each_... loops of include/types.h over *)
(* it, whose body sets and clears bits: the shape of the slot search in    *)
(* heap_alloc (tensor.c:2275).  The loop variable is re-read from the      *)
(* bitmap at every step, so what is visited depends on what the body did.  *)
(***************************************************************************)
EXTENDS Bits, Sequences, SequencesExt

CONSTANTS NWords,   \* words in the bitmap
          Used,     \* the bit numbers the program sets and clears
          Sizes,    \* the sizes the loops are given
          MaxSteps  \* bound on the body executions of one loop

ASSUME BitmapAssumption ==
    /\ NWords \in Nat \ {0}
    /\ Used \subseteq 0..(NWords * BITS_PER_LONG - 1)
    /\ Sizes \subseteq 0..(NWords * BITS_PER_LONG)
    /\ MaxSteps \in Nat

VARIABLES addr,     \* the bitmap
          loop,     \* the running macro, or "none"
          size,     \* its size argument
          from,     \* history: the bit it starts from
          bit,      \* its loop variable
          seen,     \* history: the bits its body was run on
          kept      \* history: bits the loop looks for, not touched since it began

vars == <<addr, loop, size, from, bit, seen, kept>>

Loops == {"for_each_set_bit", "for_each_set_bit_from",
          "for_each_clear_bit", "for_each_clear_bit_from"}
LooksForSet(l) == l \in {"for_each_set_bit", "for_each_set_bit_from"}

TypeOK ==
    /\ addr \in [0..(NWords - 1) -> Word]
    /\ loop \in Loops \cup {"none"}
    /\ size \in Sizes \cup {0}
    /\ from \in Nat /\ bit \in Nat
    /\ seen \in Seq(Nat)
    /\ kept \subseteq Nat

Init ==
    /\ addr \in {[i \in 0..(NWords - 1) |-> {}], [i \in 0..(NWords - 1) |-> WordBits]}
    /\ loop = "none" /\ size = 0 /\ from = 0 /\ bit = 0
    /\ seen = <<>> /\ kept = {}

Flip(nr) ==
    addr' = IF is_set_bit(nr, addr) THEN clear_bit(nr, addr) ELSE set_bit(nr, addr)

Outside ==
    /\ loop = "none"
    /\ \E nr \in Used : Flip(nr)
    /\ UNCHANGED <<loop, size, from, bit, seen, kept>>

Start(l, n, b) ==
    /\ loop = "none"
    /\ loop' = l
    /\ size' = n
    /\ from' = IF l \in {"for_each_set_bit", "for_each_clear_bit"} THEN 0 ELSE b
    /\ bit' = CASE l = "for_each_set_bit"        -> find_first_bit(addr, n)
                [] l = "for_each_set_bit_from"   -> find_next_bit(addr, n, b)
                [] l = "for_each_clear_bit"      -> find_first_zero_bit(addr, n)
                [] l = "for_each_clear_bit_from" -> find_next_zero_bit(addr, n, b)
    /\ kept' = {nr \in from'..(n - 1) : is_set_bit(nr, addr) = LooksForSet(l)}
    /\ seen' = <<>>
    /\ UNCHANGED addr

\* One round: the body may change one bit, then the loop moves on.
Round ==
    /\ loop # "none"
    /\ bit < size
    /\ Len(seen) < MaxSteps
    /\ seen' = Append(seen, bit)
    /\ \/ UNCHANGED <<addr, kept>>
       \/ \E nr \in Used : Flip(nr) /\ kept' = kept \ ({nr} \ {bit})
    /\ bit' = IF LooksForSet(loop) THEN find_next_bit(addr', size, bit + 1)
              ELSE find_next_zero_bit(addr', size, bit + 1)
    /\ UNCHANGED <<loop, size, from>>

\* The loop ends, or its body breaks out of it.
Stop ==
    /\ loop # "none"
    /\ loop' = "none" /\ size' = 0 /\ from' = 0 /\ bit' = 0
    /\ seen' = <<>> /\ kept' = {}
    /\ UNCHANGED addr

Next ==
    \/ Outside
    \/ \E l \in Loops, n \in Sizes, b \in Used : Start(l, n, b)
    \/ Round
    \/ Stop

Spec == Init /\ [][Next]_vars

\* The scanners return the least bit of the wanted value in their range, or
\* the size, also when the range ends inside a word, starts inside one or is
\* empty, and the bit found in the last word lies beyond the size.
ScansAreExact ==
    \A n \in Sizes :
        /\ IsFirst(find_first_bit(addr, n), addr, 0, n, TRUE)
        /\ IsFirst(find_first_zero_bit(addr, n), addr, 0, n, FALSE)
        /\ \A b \in Used :
              /\ IsFirst(find_next_bit(addr, n, b), addr, b, n, TRUE)
              /\ IsFirst(find_next_zero_bit(addr, n, b), addr, b, n, FALSE)

\* __ffs and __fls of every word that is not zero are its lowest and highest
\* bit, and ffz its lowest zero.
WordScansAreExact ==
    \A i \in DOMAIN addr :
        /\ addr[i] # {} => /\ IsLowest(__ffs(addr[i]), addr[i])
                           /\ IsHighest(__fls(addr[i]), addr[i])
                           /\ fls64(addr[i]) = __fls(addr[i]) + 1
        /\ addr[i] # WordBits => IsLowest(ffz(addr[i]), WordBits \ addr[i])

\* A loop whose body changes the bitmap visits bits in increasing order and
\* inside the size, and visits every bit it looks for that the body left
\* alone: a change behind or ahead of the loop never makes it miss another.
LoopsAreMonotone ==
    loop # "none" =>
        /\ \A i \in 1..Len(seen) :
              /\ seen[i] \in from..(size - 1)
              /\ i > 1 => seen[i - 1] < seen[i]
        /\ \A nr \in kept : nr < bit => nr \in ToSet(seen)
=============================================================================
