-------------------------------- MODULE Bits --------------------------------
(***************************************************************************)
(* The word and bitmap operators of include/types.h.  An unsigned long is  *)
(* the set of the numbers of its one bits, 0..63; `& mask' is an           *)
(* intersection with the bits of the mask, a shift moves the numbers and   *)
(* drops those that leave the word, `~' and `^ ~0UL' are the complement.   *)
(* A bitmap is a function from word indices to words.                      *)
(***************************************************************************)
EXTENDS Integers

BITS_PER_LONG == 64
WordBits == 0..(BITS_PER_LONG - 1)
Word == SUBSET WordBits

ShiftRight(w, k) == {b - k : b \in {c \in w : c >= k}}
ShiftLeft(w, k) == {b + k : b \in {c \in w : c + k < BITS_PER_LONG}}

\* Mutant: the greater one.
MIN_Max(a, b) == IF a < b THEN b ELSE a

MIN(a, b) == IF a < b THEN a ELSE b

(***************************************************************************)
(* __ffs and __fls halve a window: `s' is the pair of locals num and word. *)
(***************************************************************************)
\* Mutant: the mask has one bit too many.
FfsStep_Wide(s, k) ==
    IF s.word \cap 0..k = {}
    THEN [num |-> s.num + k, word |-> ShiftRight(s.word, k)]
    ELSE s

FfsStep(s, k) ==
    IF s.word \cap 0..(k - 1) = {}
    THEN [num |-> s.num + k, word |-> ShiftRight(s.word, k)]
    ELSE s

__ffs(word) ==
    LET s32 == FfsStep([num |-> 0, word |-> word], 32)
        s16 == FfsStep(s32, 16)
        s8  == FfsStep(s16, 8)
        s4  == FfsStep(s8, 4)
        s2  == FfsStep(s4, 2)
    IN  IF 0 \notin s2.word THEN s2.num + 1 ELSE s2.num

FlsStep(s, k) ==
    IF s.word \cap (BITS_PER_LONG - k)..(BITS_PER_LONG - 1) = {}
    THEN [num |-> s.num - k, word |-> ShiftLeft(s.word, k)]
    ELSE s

__fls(word) ==
    LET s32 == FlsStep([num |-> BITS_PER_LONG - 1, word |-> word], 32)
        s16 == FlsStep(s32, 16)
        s8  == FlsStep(s16, 8)
        s4  == FlsStep(s8, 4)
        s2  == FlsStep(s4, 2)
    IN  IF (BITS_PER_LONG - 1) \notin s2.word THEN s2.num - 1 ELSE s2.num

fls64(x) == IF x = {} THEN 0 ELSE __fls(x) + 1
ffz(x) == __ffs(WordBits \ x)

(***************************************************************************)
(* Bitmaps.                                                                *)
(***************************************************************************)

\* Mutant: the bit number is not reduced to the word.
set_bit_Wide(nr, addr) == [addr EXCEPT ![nr \div BITS_PER_LONG] = @ \cup {nr}]

set_bit(nr, addr) ==
    [addr EXCEPT ![nr \div BITS_PER_LONG] = @ \cup {nr % BITS_PER_LONG}]
clear_bit(nr, addr) ==
    [addr EXCEPT ![nr \div BITS_PER_LONG] = @ \ {nr % BITS_PER_LONG}]
is_set_bit(nr, addr) ==
    nr % BITS_PER_LONG \in addr[nr \div BITS_PER_LONG]

\* The words a scan of `size' bits from bit `start' looks at.
WordsOf(start, size) == (start \div BITS_PER_LONG)..((size - 1) \div BITS_PER_LONG)

\* The scanning loops stop at the first word that is not empty, if any.
FirstHit(start, size, word) ==
    LET hits == {idx \in WordsOf(start, size) : word[idx] # {}}
        idx  == CHOOSE i \in hits : \A j \in hits : i <= j
    IN  IF hits = {} THEN size
        ELSE MIN(idx * BITS_PER_LONG + __ffs(word[idx]), size)

find_first_bit(addr, size) == FirstHit(0, size, addr)

find_first_zero_bit(addr, size) ==
    FirstHit(0, size, [idx \in DOMAIN addr |-> WordBits \ addr[idx]])

\* Mutant: the mask keeps the whole first word.
BITMAP_FIRST_WORD_MASK_All(start) == WordBits

BITMAP_FIRST_WORD_MASK(start) == (start % BITS_PER_LONG)..(BITS_PER_LONG - 1)

\* The first word is masked from the start bit on; `start' is then rounded
\* down so that the loop advances by whole words.
_find_next_bit(addr, nbits, start, invert) ==
    LET bits(idx) == IF invert THEN WordBits \ addr[idx] ELSE addr[idx]
        word == [idx \in DOMAIN addr |->
                   IF idx = start \div BITS_PER_LONG
                   THEN bits(idx) \cap BITMAP_FIRST_WORD_MASK(start)
                   ELSE bits(idx)]
    IN  IF nbits = 0 \/ start >= nbits THEN nbits
        ELSE FirstHit(start, nbits, word)

find_next_bit(addr, size, offset) == _find_next_bit(addr, size, offset, FALSE)
find_next_zero_bit(addr, size, offset) == _find_next_bit(addr, size, offset, TRUE)

(***************************************************************************)
(* What the operators are for.                                             *)
(***************************************************************************)
IsLowest(b, S) == b \in S /\ \A c \in S : b <= c
IsHighest(b, S) == b \in S /\ \A c \in S : c <= b

\* b is the least bit number in start..(size-1) whose value is `value', or
\* size if there is none.
IsFirst(b, addr, start, size, value) ==
    LET found == {nr \in start..(size - 1) : is_set_bit(nr, addr) = value}
    IN  IF found = {} THEN b = size ELSE IsLowest(b, found)
=============================================================================
