-------------------------- MODULE BitmapLoopProofs --------------------------
(***************************************************************************)
(* The word scans of include/types.h are right for every word, the bitmap  *)
(* scans for every bitmap, size and starting bit, and so are the           *)
(* for_each_... loops over a bitmap of any number of words whose body      *)
(* changes bits between the rounds: what is proved of one scan carries     *)
(* each round.                                                             *)
(***************************************************************************)
EXTENDS BitmapLoop, TLAPS, WellFoundedInduction

\* A set of numbers has a least element.
LEMMA LeastNatural ==
    ASSUME NEW S \in SUBSET Nat, S # {}
    PROVE  \E m \in S : \A n \in S : m <= n
<1> DEFINE R == {ss \in Nat \X Nat : ss[1] < ss[2]}
<1>1. IsWellFoundedOn(R, Nat)
  BY NatLessThanWellFounded DEF OpToRel
<1>2. PICK m \in S : \A n \in S : ~ (<<n, m>> \in R)
  BY <1>1, WFMin
<1>3. \A n \in S : ~ (n < m)
  BY <1>2
<1>4. QED
  BY <1>3

\* What the locals of __ffs say of the argument w before the step that looks
\* at the lower k bits: the word is w shifted by num places, no bit of w has
\* been shifted out, and a bit is left in the lower 2k places.
FfsAt(s, w, k) ==
    /\ s = [num |-> s.num, word |-> s.word]
    /\ s.num \in Nat
    /\ \A c \in w : c >= s.num
    /\ s.word \subseteq Nat
    /\ \A x \in Nat : x \in s.word <=> x + s.num \in w
    /\ \E c \in w : c - s.num < 2 * k

LEMMA FfsStepLemma ==
    ASSUME NEW k \in Nat, NEW w, w \subseteq Nat, NEW s, FfsAt(s, w, k),
           NEW h \in Nat, k = 2 * h
    PROVE  FfsAt(FfsStep(s, k), w, h)
<1>1. CASE s.word \cap 0..(k - 1) = {}
  <2> DEFINE t == [num |-> s.num + k, word |-> ShiftRight(s.word, k)]
  <2>1. FfsStep(s, k) = t
    BY <1>1 DEF FfsStep
  <2>2. \A c \in w : c - s.num \in s.word /\ c - s.num >= 0
    BY DEF FfsAt
  <2>3. \A c \in w : c - s.num >= k
    BY <1>1, <2>2 DEF FfsAt
  <2>4. t.num \in Nat /\ \A c \in w : c >= t.num
    BY <2>3 DEF FfsAt
  <2>5. t.word \subseteq Nat /\ \A x \in Nat : x \in t.word <=> x + t.num \in w
    <3>1. s.num \in Nat /\ \A x \in Nat : x \in s.word <=> x + s.num \in w
      BY DEF FfsAt
    <3>2. \A x \in t.word : \E c \in s.word : c >= k /\ x = c - k
      BY DEF ShiftRight
    <3>3. ASSUME NEW x \in Nat, x + t.num \in w PROVE x \in t.word
      <4>1. (x + k) + s.num \in w /\ x + k \in Nat
        BY <3>1, <3>3
      <4>2. x + k \in s.word /\ x = (x + k) - k /\ x + k >= k
        BY <3>1, <4>1
      <4>3. QED
        BY <4>2 DEF ShiftRight
    <3>4. ASSUME NEW x \in t.word PROVE x \in Nat /\ x + t.num \in w
      <4>1. PICK c \in s.word : c >= k /\ x = c - k
        BY <3>2
      <4>2. c \in Nat /\ c + s.num \in w
        BY <3>1 DEF FfsAt
      <4>3. x \in Nat /\ x + (s.num + k) = c + s.num
        BY <3>1, <4>1, <4>2
      <4>4. QED
        BY <4>2, <4>3
    <3>5. QED
      BY <3>3, <3>4
  <2>6. \E c \in w : c - t.num < 2 * h
    BY DEF FfsAt
  <2>7. QED
    BY <2>1, <2>4, <2>5, <2>6 DEF FfsAt
<1>2. CASE s.word \cap 0..(k - 1) # {}
  <2>1. FfsStep(s, k) = s
    BY <1>2 DEF FfsStep
  <2>2. \E c \in w : c - s.num < 2 * h
    BY <1>2 DEF FfsAt
  <2>3. QED
    BY <2>1, <2>2 DEF FfsAt
<1>3. QED
  BY <1>1, <1>2

\* __ffs returns the number of the lowest one bit of every word but zero, for
\* which its comment calls it undefined (types.h:31-65).
THEOREM FfsIsLowestBit ==
    ASSUME NEW w \in Word, w # {}
    PROVE  IsLowest(__ffs(w), w)
<1> DEFINE s64 == [num |-> 0, word |-> w]
           s32 == FfsStep(s64, 32)
           s16 == FfsStep(s32, 16)
           s8  == FfsStep(s16, 8)
           s4  == FfsStep(s8, 4)
           s2  == FfsStep(s4, 2)
<1>0. __ffs(w) = IF 0 \notin s2.word THEN s2.num + 1 ELSE s2.num
  BY DEF __ffs
<1> HIDE DEF s64, s32, s16, s8, s4, s2
<1>1. w \subseteq Nat /\ \A c \in w : c < 64
  BY DEF Word, WordBits, BITS_PER_LONG
<1> (* the five halvings *)
    /\ 32 = 2 * 16 /\ 16 = 2 * 8 /\ 8 = 2 * 4 /\ 4 = 2 * 2 /\ 2 = 2 * 1
    /\ 32 \in Nat /\ 16 \in Nat /\ 8 \in Nat /\ 4 \in Nat /\ 2 \in Nat /\ 1 \in Nat
  OBVIOUS
<1>2. FfsAt(s64, w, 32)
  <2>1. s64 = [num |-> 0, word |-> w] /\ s64.num = 0 /\ s64.word = w
    BY DEF s64
  <2>2. \A x \in w : x + 0 = x /\ x - 0 = x /\ x >= 0 /\ x - 0 < 2 * 32
    BY <1>1
  <2>3. \A x \in Nat : x + 0 = x
    OBVIOUS
  <2>4. QED
    BY <1>1, <2>1, <2>2, <2>3 DEF FfsAt
<1>3. FfsAt(s32, w, 16)
  BY <1>1, <1>2, FfsStepLemma DEF s32
<1>4. FfsAt(s16, w, 8)
  BY <1>1, <1>3, FfsStepLemma DEF s16
<1>5. FfsAt(s8, w, 4)
  BY <1>1, <1>4, FfsStepLemma DEF s8
<1>6. FfsAt(s4, w, 2)
  BY <1>1, <1>5, FfsStepLemma DEF s4
<1>7. FfsAt(s2, w, 1)
  BY <1>1, <1>6, FfsStepLemma DEF s2
<1>8. CASE 0 \notin s2.word
  <2>1. ASSUME NEW c \in w PROVE c - s2.num # 0 /\ c >= s2.num
    <3>1. c >= s2.num /\ s2.num \in Nat /\ c \in Nat
      BY <1>1, <1>7 DEF FfsAt
    <3>2. c # 0 + s2.num
      BY <1>7, <1>8 DEF FfsAt
    <3>3. QED
      BY <3>1, <3>2
  <2>2. PICK c \in w : c - s2.num < 2
    BY <1>7 DEF FfsAt
  <2>3. c = s2.num + 1 /\ \A d \in w : s2.num + 1 <= d
    BY <1>1, <1>7, <2>1, <2>2 DEF FfsAt
  <2>4. QED
    BY <1>0, <1>8, <2>3 DEF IsLowest
<1>9. CASE 0 \in s2.word
  <2>1. PICK c \in w : c - s2.num = 0
    BY <1>7, <1>9 DEF FfsAt
  <2>2. c = s2.num
    BY <1>1, <1>7, <2>1 DEF FfsAt
  <2>3. QED
    BY <1>1, <1>7, <1>0, <1>9, <2>2 DEF FfsAt, IsLowest
<1>10. QED
  BY <1>8, <1>9

(***************************************************************************)
(* __fls, from the other end.                                              *)
(***************************************************************************)

\* What the locals of __fls say of the argument w before the step that looks
\* at the upper k bits: the word is w shifted up by 63 - num places, no bit of
\* w has been shifted out, and a bit is left in the upper 2k places.
FlsAt(s, w, k) ==
    /\ s = [num |-> s.num, word |-> s.word]
    /\ s.num \in 0..63
    /\ \A c \in w : c <= s.num
    /\ s.word \subseteq 0..63
    /\ \A x \in 0..63 : x \in s.word <=> x - (63 - s.num) \in w
    /\ \E c \in w : s.num - c < 2 * k

LEMMA FlsStepLemma ==
    ASSUME NEW k \in 1..32, NEW w, w \subseteq 0..63, NEW s, FlsAt(s, w, k),
           NEW h \in Nat, k = 2 * h
    PROVE  FlsAt(FlsStep(s, k), w, h)
<1>1. CASE s.word \cap (64 - k)..63 = {}
  <2> DEFINE t == [num |-> s.num - k, word |-> ShiftLeft(s.word, k)]
  <2>1. FlsStep(s, k) = t
    BY <1>1 DEF FlsStep, BITS_PER_LONG
  <2>2. ASSUME NEW c \in w PROVE c <= s.num - k
    <3>1. c + (63 - s.num) \in 0..63 /\ (c + (63 - s.num)) - (63 - s.num) = c
      BY DEF FlsAt
    <3>2. c + (63 - s.num) \in s.word
      BY <3>1 DEF FlsAt
    <3>3. c + (63 - s.num) < 64 - k
      BY <1>1, <3>1, <3>2
    <3>4. QED
      BY <3>3 DEF FlsAt
  <2>3. s.num \in 0..63 /\ t.num = s.num - k /\ t.num \in 0..63
    <3>1. PICK c \in w : TRUE
      BY DEF FlsAt
    <3>2. c \in 0..63 /\ c <= s.num - k /\ s.num \in 0..63
      BY <2>2 DEF FlsAt
    <3>3. QED
      BY <3>2
  <2>4. ASSUME NEW x \in t.word PROVE x \in 0..63 /\ x - (63 - t.num) \in w
    <3>1. PICK b \in s.word : b + k < 64 /\ x = b + k
      BY DEF ShiftLeft, BITS_PER_LONG
    <3>2. b \in 0..63 /\ b - (63 - s.num) \in w
      BY DEF FlsAt
    <3>3. x \in 0..63 /\ x - (63 - (s.num - k)) = b - (63 - s.num)
      BY <3>1, <3>2 DEF FlsAt
    <3>4. QED
      BY <3>2, <3>3
  <2>5. ASSUME NEW x \in 0..63, x - (63 - t.num) \in w PROVE x \in t.word
    <3>1. x - (63 - t.num) = (x - k) - (63 - s.num) /\ x - (63 - t.num) >= 0
      BY <2>3, <2>5
    <3>2. x - k \in 0..63
      BY <2>3, <2>5, <3>1
    <3>3. x - k \in s.word /\ (x - k) + k < 64 /\ x = (x - k) + k
      BY <2>5, <3>1, <3>2 DEF FlsAt
    <3>4. QED
      BY <3>3 DEF ShiftLeft, BITS_PER_LONG
  <2>6. \E c \in w : t.num - c < 2 * h
    BY DEF FlsAt
  <2>7. QED
    BY <2>1, <2>2, <2>3, <2>4, <2>5, <2>6 DEF FlsAt
<1>2. CASE s.word \cap (64 - k)..63 # {}
  <2>1. FlsStep(s, k) = s
    BY <1>2 DEF FlsStep, BITS_PER_LONG
  <2>2. PICK x \in s.word : x >= 64 - k
    BY <1>2
  <2>3. x \in 0..63 /\ x - (63 - s.num) \in w
    BY DEF FlsAt
  <2>4. s.num - (x - (63 - s.num)) < 2 * h
    BY <2>2, <2>3 DEF FlsAt
  <2>5. QED
    BY <2>1, <2>3, <2>4 DEF FlsAt
<1>3. QED
  BY <1>1, <1>2

\* __fls returns the number of the highest one bit of every word but zero, and
\* fls64 one more (types.h:67-111): sizes and levels are computed from it.
THEOREM FlsIsHighestBit ==
    ASSUME NEW w \in Word, w # {}
    PROVE  IsHighest(__fls(w), w) /\ fls64(w) = __fls(w) + 1
<1> DEFINE s64 == [num |-> 63, word |-> w]
           s32 == FlsStep(s64, 32)
           s16 == FlsStep(s32, 16)
           s8  == FlsStep(s16, 8)
           s4  == FlsStep(s8, 4)
           s2  == FlsStep(s4, 2)
<1>0. __fls(w) = IF 63 \notin s2.word THEN s2.num - 1 ELSE s2.num
  BY DEF __fls, BITS_PER_LONG
<1> HIDE DEF s64, s32, s16, s8, s4, s2
<1>1. w \subseteq 0..63
  BY DEF Word, WordBits, BITS_PER_LONG
<1> (* the five halvings *)
    /\ 32 = 2 * 16 /\ 16 = 2 * 8 /\ 8 = 2 * 4 /\ 4 = 2 * 2 /\ 2 = 2 * 1
    /\ 32 \in 1..32 /\ 16 \in 1..32 /\ 8 \in 1..32 /\ 4 \in 1..32 /\ 2 \in 1..32
    /\ 16 \in Nat /\ 8 \in Nat /\ 4 \in Nat /\ 2 \in Nat /\ 1 \in Nat
  OBVIOUS
<1>2. FlsAt(s64, w, 32)
  <2>1. s64 = [num |-> 63, word |-> w] /\ s64.num = 63 /\ s64.word = w
    BY DEF s64
  <2>2. /\ \A x \in 0..63 : x - (63 - 63) = x /\ x <= 63 /\ 63 - x < 2 * 32
        /\ 63 \in 0..63
    OBVIOUS
  <2>3. QED
    BY <1>1, <2>1, <2>2 DEF FlsAt
<1>3. FlsAt(s32, w, 16)
  BY <1>1, <1>2, FlsStepLemma DEF s32
<1>4. FlsAt(s16, w, 8)
  BY <1>1, <1>3, FlsStepLemma DEF s16
<1>5. FlsAt(s8, w, 4)
  BY <1>1, <1>4, FlsStepLemma DEF s8
<1>6. FlsAt(s4, w, 2)
  BY <1>1, <1>5, FlsStepLemma DEF s4
<1>7. FlsAt(s2, w, 1)
  BY <1>1, <1>6, FlsStepLemma DEF s2
<1>8. s2.num \in w <=> 63 \in s2.word
  <2>1. s2.num \in 0..63 /\ 63 - (63 - s2.num) = s2.num
    BY <1>7 DEF FlsAt
  <2>2. QED
    BY <1>7, <2>1 DEF FlsAt
<1>9. PICK c \in w : s2.num - c < 2 /\ c <= s2.num
  BY <1>7 DEF FlsAt
<1>10. (\A d \in w : d <= s2.num) /\ s2.num \in 0..63
  BY <1>7 DEF FlsAt
<1>11. IsHighest(__fls(w), w)
  <2>1. CASE s2.num \in w
    BY <1>0, <1>8, <1>10, <2>1 DEF IsHighest
  <2>2. CASE s2.num \notin w
    <3>1. c = s2.num - 1 /\ \A d \in w : d <= s2.num - 1
      BY <1>1, <1>9, <1>10, <2>2
    <3>2. QED
      BY <1>0, <1>8, <2>2, <3>1 DEF IsHighest
  <2>3. QED
    BY <2>1, <2>2
<1>12. QED
  BY <1>11 DEF fls64

\* ffz returns the number of the lowest zero bit of every word that has one.
THEOREM FfzIsLowestZero ==
    ASSUME NEW w \in Word, w # WordBits
    PROVE  IsLowest(ffz(w), WordBits \ w)
<1>1. WordBits \ w \in Word /\ WordBits \ w # {}
  BY DEF Word
<1>2. QED
  BY <1>1, FfsIsLowestBit DEF ffz

(***************************************************************************)
(* The bitmap scans.                                                       *)
(***************************************************************************)

\* A bit number is the number of its word and a place in it.
LEMMA Places ==
    /\ \A nr \in Nat : /\ nr \div 64 \in Nat /\ nr % 64 \in 0..63
                       /\ nr = (nr \div 64) * 64 + (nr % 64)
    /\ \A i \in Nat : \A r \in 0..63 : (i * 64 + r) \div 64 = i /\ (i * 64 + r) % 64 = r
<1>1. \A nr \in Nat : /\ nr \div 64 \in Nat /\ nr % 64 \in 0..63
                     /\ nr = (nr \div 64) * 64 + (nr % 64)
  OBVIOUS
<1>2. ASSUME NEW i \in Nat, NEW r \in 0..63
      PROVE  (i * 64 + r) \div 64 = i /\ (i * 64 + r) % 64 = r
  OBVIOUS
<1>3. QED
  BY <1>1, <1>2

\* The bits of the words a scan looks at, below its nbits.
BitsOf(start, nbits, word) ==
    {nr \in 0..(nbits - 1) : start \div 64 <= nr \div 64 /\ nr % 64 \in word[nr \div 64]}

LEMMA FirstHitIsLowest ==
    ASSUME NEW n \in Nat, NEW word \in [0..(n - 1) -> Word],
           NEW nbits \in 0..(n * 64), NEW start \in Nat
    PROVE  IF BitsOf(start, nbits, word) = {} THEN FirstHit(start, nbits, word) = nbits
           ELSE IsLowest(FirstHit(start, nbits, word), BitsOf(start, nbits, word))
<1> DEFINE hits == {idx \in WordsOf(start, nbits) : word[idx] # {}}
           idx == CHOOSE i \in hits : \A j \in hits : i <= j
           v == idx * 64 + __ffs(word[idx])
<1>1. FirstHit(start, nbits, word) = IF hits = {} THEN nbits ELSE MIN(v, nbits)
  BY DEF FirstHit, BITS_PER_LONG
<1>2. \A i : i \in WordsOf(start, nbits) <=>
              i \in Int /\ start \div 64 <= i /\ i <= (nbits - 1) \div 64
  BY DEF WordsOf, BITS_PER_LONG
<1>3. start \div 64 \in Nat /\ (nbits - 1) \div 64 \in Int /\ (nbits - 1) \div 64 <= n - 1
  OBVIOUS
<1>4. hits \subseteq 0..(n - 1)
  BY <1>2, <1>3
<1>5. ASSUME NEW nr \in BitsOf(start, nbits, word) PROVE nr \div 64 \in hits
  <2>1. nr \in 0..(nbits - 1) /\ start \div 64 <= nr \div 64 /\ nr % 64 \in word[nr \div 64]
    BY DEF BitsOf
  <2>2. nr \div 64 \in Int /\ nr \div 64 <= (nbits - 1) \div 64
    BY <2>1
  <2>3. QED
    BY <1>2, <2>1, <2>2
<1> HIDE DEF hits
<1>6. CASE hits = {}
  BY <1>1, <1>5, <1>6
<1>7. CASE hits # {}
  <2>1. \E i \in hits : \A j \in hits : i <= j
    BY <1>4, <1>7, LeastNatural
  <2>2. idx \in hits /\ \A j \in hits : idx <= j
    BY <2>1
  <2>3. idx \in 0..(n - 1) /\ word[idx] \in Word /\ word[idx] # {}
    BY <1>4, <2>2 DEF hits
  <2> HIDE DEF idx
  <2> DEFINE r == __ffs(word[idx])
  <2>4. r \in word[idx] /\ (\A c \in word[idx] : r <= c) /\ r \in 0..63
    <3>1. IsLowest(__ffs(word[idx]), word[idx])
      BY <2>3, FfsIsLowestBit
    <3>2. word[idx] \subseteq 0..63
      BY <2>3 DEF Word, WordBits, BITS_PER_LONG
    <3>3. QED
      BY <3>1, <3>2 DEF IsLowest
  <2> HIDE DEF r
  <2>5. v = idx * 64 + r
    BY DEF r
  <2> HIDE DEF v
  <2>6. v \in Nat /\ v \div 64 = idx /\ v % 64 = r
    <3>1. idx \in Nat /\ r \in 0..63
      BY <2>3, <2>4
    <3>2. (idx * 64 + r) \div 64 = idx /\ (idx * 64 + r) % 64 = r
      BY ONLY <3>1, Zenon, Places
    <3>3. QED
      BY <2>5, <3>1, <3>2
  <2>7. ASSUME NEW nr \in BitsOf(start, nbits, word) PROVE nr >= v /\ nr < nbits
    <3>1. nr \in 0..(nbits - 1) /\ nr % 64 \in word[nr \div 64] /\ idx <= nr \div 64
      BY <1>5, <2>2 DEF BitsOf
    <3>2. nr = (nr \div 64) * 64 + (nr % 64) /\ nr \div 64 \in Nat /\ nr % 64 \in 0..63
      BY <3>1, Places
    <3>3. nr \div 64 = idx => nr % 64 >= r
      BY <2>4, <3>1
    <3>4. QED
      BY <2>3, <2>4, <2>5, <3>1, <3>2, <3>3
  <2>8. CASE v < nbits
    <3>1. v \in BitsOf(start, nbits, word)
      <4>1. start \div 64 <= idx
        BY <1>2, <2>2 DEF hits
      <4>2. v \in 0..(nbits - 1) /\ v % 64 \in word[v \div 64]
        BY <2>4, <2>6, <2>8
      <4>3. QED
        BY <2>6, <4>1, <4>2 DEF BitsOf
    <3>2. FirstHit(start, nbits, word) = v
      BY <1>1, <1>7, <2>8 DEF MIN
    <3>3. IsLowest(v, BitsOf(start, nbits, word))
      BY <2>6, <2>7, <3>1 DEF IsLowest, BitsOf
    <3>4. QED
      BY <3>1, <3>2, <3>3
  <2>9. CASE ~(v < nbits)
    <3>1. BitsOf(start, nbits, word) = {}
      BY <2>6, <2>7, <2>9 DEF BitsOf
    <3>2. FirstHit(start, nbits, word) = nbits
      BY <1>1, <1>7, <2>9 DEF MIN
    <3>3. QED
      BY <3>1, <3>2
  <2>10. QED
    BY <2>8, <2>9
<1>8. QED
  BY <1>6, <1>7

\* What a bit number asks of its word.
LEMMA BitInWord ==
    ASSUME NEW n \in Nat, NEW bmap \in [0..(n - 1) -> Word], NEW nbits \in 0..(n * 64),
           NEW nr \in 0..(nbits - 1)
    PROVE  /\ nr \div 64 \in 0..(n - 1) /\ nr % 64 \in WordBits
           /\ is_set_bit(nr, bmap) = TRUE <=> nr % 64 \in bmap[nr \div 64]
           /\ is_set_bit(nr, bmap) = FALSE <=> nr % 64 \in WordBits \ bmap[nr \div 64]
<1>1. nr \div 64 \in 0..(n - 1) /\ nr % 64 \in 0..63
  OBVIOUS
<1>2. nr % 64 \in WordBits
  BY <1>1 DEF WordBits, BITS_PER_LONG
<1>3. CASE nr % 64 \in bmap[nr \div 64]
  <2>1. is_set_bit(nr, bmap) = TRUE
    BY <1>3 DEF is_set_bit, BITS_PER_LONG
  <2>2. QED
    BY <1>1, <1>2, <1>3, <2>1
<1>4. CASE nr % 64 \notin bmap[nr \div 64]
  <2>1. is_set_bit(nr, bmap) = FALSE
    BY <1>4 DEF is_set_bit, BITS_PER_LONG
  <2>2. QED
    BY <1>1, <1>2, <1>4, <2>1
<1>5. QED
  BY <1>3, <1>4

LEMMA ScanIsFirst ==
    ASSUME NEW n \in Nat, NEW bmap \in [0..(n - 1) -> Word],
           NEW nbits \in 0..(n * 64), NEW start \in Nat, NEW invert \in BOOLEAN
    PROVE  IsFirst(_find_next_bit(bmap, nbits, start, invert), bmap, start, nbits, ~invert)
<1> DEFINE bits(idx) == IF invert THEN WordBits \ bmap[idx] ELSE bmap[idx]
           word == [idx \in DOMAIN bmap |->
                      IF idx = start \div 64
                      THEN bits(idx) \cap (start % 64)..63
                      ELSE bits(idx)]
           found == {nr \in start..(nbits - 1) : is_set_bit(nr, bmap) = ~invert}
           b == _find_next_bit(bmap, nbits, start, invert)
<1>1. b = IF nbits = 0 \/ start >= nbits THEN nbits ELSE FirstHit(start, nbits, word)
  BY DEF _find_next_bit, BITMAP_FIRST_WORD_MASK, BITS_PER_LONG
<1>2. word \in [0..(n - 1) -> Word]
  <2>1. \A idx \in 0..(n - 1) : bits(idx) \in Word
    BY DEF Word
  <2>2. \A idx \in 0..(n - 1) : bits(idx) \cap (start % 64)..63 \in Word
    BY <2>1 DEF Word
  <2> HIDE DEF bits
  <2>3. QED
    BY <2>1, <2>2
<1>3. ASSUME NEW nr \in 0..(nbits - 1)
      PROVE  (start \div 64 <= nr \div 64 /\ nr % 64 \in word[nr \div 64])
               <=> (nr >= start /\ is_set_bit(nr, bmap) = ~invert)
  <2>1. nr \div 64 \in 0..(n - 1) /\ nr % 64 \in 0..63
    OBVIOUS
  <2>2. nr % 64 \in bits(nr \div 64) <=> is_set_bit(nr, bmap) = ~invert
    <3>1. CASE invert
      BY <3>1, BitInWord
    <3>2. CASE ~invert
      BY <3>2, BitInWord
    <3>3. QED
      BY <3>1, <3>2
  <2>3. word[nr \div 64] = IF nr \div 64 = start \div 64
                           THEN bits(nr \div 64) \cap (start % 64)..63 ELSE bits(nr \div 64)
    BY <2>1
  <2> HIDE DEF bits, word
  <2>4. /\ nr = (nr \div 64) * 64 + (nr % 64) /\ nr \div 64 \in Nat
        /\ start = (start \div 64) * 64 + (start % 64) /\ start \div 64 \in Nat
        /\ start % 64 \in 0..63
    OBVIOUS
  <2>5. CASE nr \div 64 < start \div 64
    BY <2>1, <2>4, <2>5
  <2>6. CASE nr \div 64 > start \div 64
    <3>1. nr >= start
      BY <2>1, <2>4, <2>6
    <3>2. QED
      BY <2>2, <2>3, <2>4, <2>6, <3>1
  <2>7. CASE nr \div 64 = start \div 64
    <3>1. nr >= start <=> nr % 64 \in (start % 64)..63
      BY <2>1, <2>4, <2>7
    <3>2. QED
      BY <2>2, <2>3, <2>4, <2>7, <3>1
  <2>8. QED
    BY <2>4, <2>5, <2>6, <2>7
<1>4. found = BitsOf(start, nbits, word)
  <2> HIDE DEF word
  <2>1. ASSUME NEW nr \in found PROVE nr \in BitsOf(start, nbits, word)
    <3>1. nr \in 0..(nbits - 1) /\ nr >= start /\ is_set_bit(nr, bmap) = ~invert
      OBVIOUS
    <3>2. QED
      BY <1>3, <3>1 DEF BitsOf
  <2>2. ASSUME NEW nr \in BitsOf(start, nbits, word) PROVE nr \in found
    <3>1. nr \in 0..(nbits - 1) /\ nr >= start /\ is_set_bit(nr, bmap) = ~invert
      BY <1>3 DEF BitsOf
    <3>2. QED
      BY <3>1
  <2>3. QED
    BY <2>1, <2>2
<1>5. CASE start >= nbits
  <2>1. found = {} /\ b = nbits
    BY <1>1, <1>5
  <2>2. QED
    BY <2>1 DEF IsFirst
<1>6. CASE start < nbits
  <2>1. b = FirstHit(start, nbits, word)
    BY <1>1, <1>6
  <2> HIDE DEF word, found, b
  <2>2. IF found = {} THEN b = nbits ELSE IsLowest(b, found)
    BY <1>2, <1>4, <2>1, FirstHitIsLowest
  <2>3. QED
    BY <2>2 DEF IsFirst, found, b
<1>7. QED
  BY <1>5, <1>6

\* find_next_bit and find_next_zero_bit return the first bit of their value at
\* or after the offset, or the nbits (types.h:150-196), for bitmaps of any number
\* of words, any nbits within them and any offset, beyond the nbits too.
THEOREM FindNextIsFirst ==
    ASSUME NEW n \in Nat, NEW bmap \in [0..(n - 1) -> Word],
           NEW nbits \in 0..(n * 64), NEW offset \in Nat
    PROVE  /\ IsFirst(find_next_bit(bmap, nbits, offset), bmap, offset, nbits, TRUE)
           /\ IsFirst(find_next_zero_bit(bmap, nbits, offset), bmap, offset, nbits, FALSE)
<1>1. ~FALSE = TRUE /\ ~TRUE = FALSE
  OBVIOUS
<1>2. QED
  BY <1>1, ScanIsFirst DEF find_next_bit, find_next_zero_bit

\* find_first_bit and find_first_zero_bit return the first bit of their value,
\* or the nbits (types.h:139-148, 174-184).
THEOREM FindFirstIsFirst ==
    ASSUME NEW n \in Nat, NEW bmap \in [0..(n - 1) -> Word], NEW nbits \in 0..(n * 64)
    PROVE  /\ IsFirst(find_first_bit(bmap, nbits), bmap, 0, nbits, TRUE)
           /\ IsFirst(find_first_zero_bit(bmap, nbits), bmap, 0, nbits, FALSE)
<1> DEFINE flipped == [idx \in DOMAIN bmap |-> WordBits \ bmap[idx]]
           ones == {nr \in 0..(nbits - 1) : is_set_bit(nr, bmap) = TRUE}
           zeros == {nr \in 0..(nbits - 1) : is_set_bit(nr, bmap) = FALSE}
<1>1. flipped \in [0..(n - 1) -> Word]
  BY DEF Word
<1>2. \A nr \in 0..(nbits - 1) : /\ 0 \div 64 <= nr \div 64
                               /\ nr \div 64 \in 0..(n - 1)
  OBVIOUS
<1>3. ones = BitsOf(0, nbits, bmap)
  BY <1>2, BitInWord DEF BitsOf
<1>4. zeros = BitsOf(0, nbits, flipped)
  <2>1. \A nr \in 0..(nbits - 1) : flipped[nr \div 64] = WordBits \ bmap[nr \div 64]
    BY <1>2
  <2> HIDE DEF flipped
  <2>2. ASSUME NEW nr \in 0..(nbits - 1)
        PROVE  is_set_bit(nr, bmap) = FALSE <=> nr % 64 \in flipped[nr \div 64]
    BY <2>1, BitInWord
  <2>3. QED
    BY <1>2, <2>2 DEF BitsOf
<1>5. find_first_zero_bit(bmap, nbits) = FirstHit(0, nbits, flipped)
  BY DEF find_first_zero_bit
<1> HIDE DEF flipped, ones, zeros
<1>6. IF ones = {} THEN find_first_bit(bmap, nbits) = nbits
      ELSE IsLowest(find_first_bit(bmap, nbits), ones)
  BY <1>3, FirstHitIsLowest DEF find_first_bit
<1>7. IF zeros = {} THEN find_first_zero_bit(bmap, nbits) = nbits
      ELSE IsLowest(find_first_zero_bit(bmap, nbits), zeros)
  BY <1>1, <1>4, <1>5, FirstHitIsLowest
<1>8. QED
  BY <1>6, <1>7 DEF IsFirst, ones, zeros

-----------------------------------------------------------------------------
(* The loops. *)

\* While a loop runs: the bits it has visited lie in its range, rise, and are
\* below the next one; and a bit it looks for that was left alone has been
\* visited, or is still set to be found, not below the next one.
Running ==
    /\ bit <= size
    /\ bit < size => from <= bit
    /\ \A i \in 1..Len(seen) : seen[i] \in from..(size - 1) /\ seen[i] < bit
    /\ \A i \in 1..Len(seen) : i > 1 => seen[i - 1] < seen[i]
    /\ \A nr \in kept : \/ nr \in ToSet(seen)
                        \/ /\ nr \in from..(size - 1) /\ bit <= nr
                           /\ is_set_bit(nr, addr) = LooksForSet(loop)

LoopInv == TypeOK /\ (loop # "none" => Running)

\* What IsFirst is used for.
LEMMA FirstFacts ==
    ASSUME NEW a, NEW b, NEW start \in Nat, NEW n \in Nat, NEW value,
           IsFirst(b, a, start, n, value)
    PROVE  /\ b \in Nat /\ b <= n
           /\ b < n => start <= b
           /\ \A nr \in start..(n - 1) : is_set_bit(nr, a) = value => b <= nr
<1> DEFINE found == {nr \in start..(n - 1) : is_set_bit(nr, a) = value}
<1>1. IF found = {} THEN b = n ELSE IsLowest(b, found)
  BY DEF IsFirst
<1>2. found \subseteq start..(n - 1)
  OBVIOUS
<1>3. \A nr \in start..(n - 1) : is_set_bit(nr, a) = value => nr \in found
  OBVIOUS
<1> HIDE DEF found
<1>4. CASE found = {}
  BY <1>1, <1>3, <1>4
<1>5. CASE found # {}
  <2>1. b \in found /\ \A c \in found : b <= c
    BY <1>1, <1>5 DEF IsLowest
  <2>2. b \in start..(n - 1)
    BY <1>2, <2>1
  <2>3. QED
    BY <1>3, <2>1, <2>2
<1>6. QED
  BY <1>4, <1>5

\* A change of one bit leaves a bitmap, and the others as they were.
LEMMA FlipChangesOne ==
    ASSUME TypeOK, NEW nr \in Used, Flip(nr)
    PROVE  /\ addr' \in [0..(NWords - 1) -> Word]
           /\ \A m \in 0..(NWords * 64 - 1) :
                m # nr => is_set_bit(m, addr') = is_set_bit(m, addr)
<1> DEFINE w == nr \div 64
           r == nr % 64
<1>1. nr \in 0..(NWords * 64 - 1)
  BY BitmapAssumption DEF BITS_PER_LONG
<1>2. w \in 0..(NWords - 1) /\ r \in 0..63 /\ nr = w * 64 + r
  BY <1>1, BitmapAssumption
<1>3. addr \in [0..(NWords - 1) -> Word] /\ r \in WordBits
  BY <1>2 DEF TypeOK, WordBits, BITS_PER_LONG
<1>4. \/ addr' = [addr EXCEPT ![w] = @ \cup {r}]
      \/ addr' = [addr EXCEPT ![w] = @ \ {r}]
  BY DEF Flip, set_bit, clear_bit, BITS_PER_LONG
<1> HIDE DEF w, r
<1>5. addr' \in [0..(NWords - 1) -> Word]
  <2>1. addr[w] \cup {r} \in Word /\ addr[w] \ {r} \in Word
    BY <1>2, <1>3 DEF Word
  <2>2. QED
    BY <1>3, <1>4, <2>1
<1>6. ASSUME NEW m \in 0..(NWords * 64 - 1), m # nr
      PROVE  is_set_bit(m, addr') = is_set_bit(m, addr)
  <2>1. /\ m \div 64 \in 0..(NWords - 1) /\ m % 64 \in 0..63
        /\ m = (m \div 64) * 64 + (m % 64)
    BY BitmapAssumption
  <2>2. m \div 64 # w \/ m % 64 # r
    BY <1>2, <1>6, <2>1
  <2>3. m % 64 \in addr'[m \div 64] <=> m % 64 \in addr[m \div 64]
    BY <1>3, <1>4, <2>1, <2>2
  <2>4. QED
    BY <2>3 DEF is_set_bit, BITS_PER_LONG
<1>7. QED
  BY <1>5, <1>6

LEMMA Shapes ==
    ASSUME TypeOK
    PROVE  /\ NWords \in Nat /\ addr \in [0..(NWords - 1) -> Word]
           /\ size \in 0..(NWords * 64) /\ Sizes \subseteq 0..(NWords * 64)
           /\ Used \subseteq Nat
           /\ from \in Nat /\ bit \in Nat /\ seen \in Seq(Nat)
BY BitmapAssumption DEF TypeOK, BITS_PER_LONG

LEMMA InitEstablishes == Init => LoopInv
<1> SUFFICES ASSUME Init PROVE LoopInv
  OBVIOUS
<1>1. addr \in [0..(NWords - 1) -> Word]
  BY DEF Init, Word
<1>2. QED
  BY <1>1 DEF Init, LoopInv, TypeOK

\* The loop's first bit is the first one of its range.
LEMMA StartKeeps ==
    ASSUME LoopInv, NEW l \in Loops, NEW n \in Sizes, NEW b \in Used, Start(l, n, b)
    PROVE  LoopInv'
<1>1. /\ NWords \in Nat /\ addr \in [0..(NWords - 1) -> Word]
      /\ n \in 0..(NWords * 64) /\ b \in Nat
  BY Shapes DEF LoopInv
<1>2. /\ loop' = l /\ size' = n /\ addr' = addr /\ seen' = <<>>
      /\ from' = IF l \in {"for_each_set_bit", "for_each_clear_bit"} THEN 0 ELSE b
      /\ kept' = {nr \in from'..(n - 1) : is_set_bit(nr, addr) = LooksForSet(l)}
  BY DEF Start
<1>3. from' \in Nat
  BY <1>1, <1>2
<1>4. IsFirst(bit', addr, from', n, LooksForSet(l))
  <2>1. CASE l = "for_each_set_bit"
    <3>1. bit' = find_first_bit(addr, n) /\ from' = 0 /\ LooksForSet(l) = TRUE
      BY <1>2, <2>1 DEF Start, LooksForSet
    <3>2. QED
      BY <1>1, <3>1, FindFirstIsFirst
  <2>2. CASE l = "for_each_set_bit_from"
    <3>1. bit' = find_next_bit(addr, n, b) /\ from' = b /\ LooksForSet(l) = TRUE
      BY <1>2, <2>2 DEF Start, LooksForSet
    <3>2. QED
      BY <1>1, <3>1, FindNextIsFirst
  <2>3. CASE l = "for_each_clear_bit"
    <3>1. bit' = find_first_zero_bit(addr, n) /\ from' = 0 /\ LooksForSet(l) = FALSE
      BY <1>2, <2>3 DEF Start, LooksForSet
    <3>2. QED
      BY <1>1, <3>1, FindFirstIsFirst
  <2>4. CASE l = "for_each_clear_bit_from"
    <3>1. bit' = find_next_zero_bit(addr, n, b) /\ from' = b /\ LooksForSet(l) = FALSE
      BY <1>2, <2>4 DEF Start, LooksForSet
    <3>2. QED
      BY <1>1, <3>1, FindNextIsFirst
  <2>5. QED
    BY <2>1, <2>2, <2>3, <2>4 DEF Loops
<1>5. /\ bit' \in Nat /\ bit' <= n /\ (bit' < n => from' <= bit')
      /\ \A nr \in from'..(n - 1) : is_set_bit(nr, addr) = LooksForSet(l) => bit' <= nr
  BY <1>1, <1>3, <1>4, FirstFacts
<1>6. seen' \in Seq(Nat) /\ Len(seen') = 0
  BY <1>2
<1>7. TypeOK'
  BY <1>1, <1>2, <1>3, <1>5, <1>6 DEF TypeOK
<1>8. Running'
  BY <1>2, <1>3, <1>5, <1>6 DEF Running
<1>9. QED
  BY <1>7, <1>8 DEF LoopInv

\* The next bit is the first one behind the last, of the bitmap the body left.
LEMMA RoundKeeps ==
    ASSUME LoopInv, Round
    PROVE  LoopInv'
<1>1. /\ NWords \in Nat /\ addr \in [0..(NWords - 1) -> Word]
      /\ size \in 0..(NWords * 64) /\ from \in Nat /\ bit \in Nat /\ seen \in Seq(Nat)
  BY Shapes DEF LoopInv
<1>2. /\ loop # "none" /\ bit < size /\ seen' = Append(seen, bit)
      /\ loop' = loop /\ size' = size /\ from' = from
      /\ bit' = IF LooksForSet(loop) THEN find_next_bit(addr', size, bit + 1)
                ELSE find_next_zero_bit(addr', size, bit + 1)
  BY DEF Round
<1>3. Running /\ from <= bit
  BY <1>2 DEF LoopInv, Running
<1>4. /\ addr' \in [0..(NWords - 1) -> Word]
      /\ kept' \subseteq kept
      /\ \A nr \in kept' : nr \in 0..(NWords * 64 - 1) /\ nr # bit =>
            is_set_bit(nr, addr') = is_set_bit(nr, addr)
  <2>1. CASE UNCHANGED <<addr, kept>>
    BY <1>1, <2>1
  <2>2. ASSUME NEW f \in Used, Flip(f), kept' = kept \ ({f} \ {bit})
        PROVE  <1>4
    <3>1. /\ addr' \in [0..(NWords - 1) -> Word]
          /\ \A m \in 0..(NWords * 64 - 1) :
               m # f => is_set_bit(m, addr') = is_set_bit(m, addr)
      BY <2>2, FlipChangesOne DEF LoopInv
    <3>2. \A nr \in kept' : nr # bit => nr # f
      BY <2>2
    <3>3. QED
      BY <2>2, <3>1, <3>2
  <2>3. QED
    BY <2>1, <2>2 DEF Round
<1>5. IsFirst(bit', addr', bit + 1, size, LooksForSet(loop))
  <2>1. CASE LooksForSet(loop)
    <3>1. bit' = find_next_bit(addr', size, bit + 1) /\ LooksForSet(loop) = TRUE /\ bit + 1 \in Nat
      BY <1>1, <1>2, <2>1 DEF LooksForSet
    <3>2. QED
      BY <1>1, <1>4, <3>1, FindNextIsFirst
  <2>2. CASE ~LooksForSet(loop)
    <3>1. bit' = find_next_zero_bit(addr', size, bit + 1) /\ LooksForSet(loop) = FALSE
          /\ bit + 1 \in Nat
      BY <1>1, <1>2, <2>2 DEF LooksForSet
    <3>2. QED
      BY <1>1, <1>4, <3>1, FindNextIsFirst
  <2>3. QED
    BY <2>1, <2>2
<1>6. /\ bit' \in Nat /\ bit' <= size /\ (bit' < size => bit + 1 <= bit')
      /\ \A nr \in (bit + 1)..(size - 1) :
           is_set_bit(nr, addr') = LooksForSet(loop) => bit' <= nr
  <2>1. bit + 1 \in Nat /\ size \in Nat
    BY <1>1
  <2>2. QED
    BY <1>5, <2>1, FirstFacts
<1>7. bit < bit'
  BY <1>1, <1>2, <1>6
<1>8. /\ seen' \in Seq(Nat) /\ Len(seen') = Len(seen) + 1 /\ Len(seen) \in Nat
      /\ seen'[Len(seen) + 1] = bit
      /\ \A i \in 1..Len(seen) : seen'[i] = seen[i] /\ seen[i] \in Nat
  BY <1>1, <1>2
<1>9. TypeOK'
  BY <1>2, <1>4, <1>6, <1>8 DEF LoopInv, TypeOK
<1>10. \A i \in 1..Len(seen') : seen'[i] \in from..(size - 1) /\ seen'[i] < bit'
  BY <1>1, <1>2, <1>3, <1>6, <1>7, <1>8 DEF Running
<1>11. \A i \in 1..Len(seen') : i > 1 => seen'[i - 1] < seen'[i]
  <2>1. ASSUME NEW i \in 1..(Len(seen) + 1), i > 1 PROVE seen'[i - 1] < seen'[i]
    <3>1. i - 1 \in 1..Len(seen) /\ seen'[i - 1] = seen[i - 1] /\ seen[i - 1] < bit
      BY <1>3, <1>8, <2>1 DEF Running
    <3>2. CASE i = Len(seen) + 1
      BY <1>8, <3>1, <3>2
    <3>3. CASE i # Len(seen) + 1
      <4>1. i \in 1..Len(seen) /\ seen'[i] = seen[i] /\ seen[i - 1] < seen[i]
        BY <1>3, <1>8, <2>1, <3>3 DEF Running
      <4>2. QED
        BY <3>1, <4>1
    <3>4. QED
      BY <3>2, <3>3
  <2>2. QED
    BY <1>8, <2>1
<1>12. bit \in ToSet(seen') /\ ToSet(seen) \subseteq ToSet(seen')
  <2>1. /\ DOMAIN seen = 1..Len(seen) /\ DOMAIN seen' = 1..(Len(seen) + 1)
        /\ Len(seen) + 1 \in 1..(Len(seen) + 1)
        /\ \A i \in 1..Len(seen) : i \in 1..(Len(seen) + 1) /\ seen'[i] = seen[i]
    BY <1>1, <1>8
  <2>2. bit \in ToSet(seen')
    BY <1>8, <2>1 DEF ToSet
  <2>3. ToSet(seen) \subseteq ToSet(seen')
    BY <2>1 DEF ToSet
  <2>4. QED
    BY <2>2, <2>3
<1>13. ASSUME NEW nr \in kept'
       PROVE  \/ nr \in ToSet(seen')
              \/ /\ nr \in from..(size - 1) /\ bit' <= nr
                 /\ is_set_bit(nr, addr') = LooksForSet(loop)
  <2>1. CASE nr \in ToSet(seen) \/ nr = bit
    BY <1>12, <2>1
  <2>2. CASE nr \notin ToSet(seen) /\ nr # bit
    <3>1. nr \in from..(size - 1) /\ bit <= nr /\ is_set_bit(nr, addr) = LooksForSet(loop)
      BY <1>3, <1>4, <2>2 DEF Running
    <3>2. nr \in 0..(NWords * 64 - 1) /\ nr \in (bit + 1)..(size - 1)
      BY <1>1, <2>2, <3>1
    <3>3. is_set_bit(nr, addr') = LooksForSet(loop)
      BY <1>4, <2>2, <3>1, <3>2
    <3>4. QED
      BY <1>6, <3>1, <3>2, <3>3
  <2>3. QED
    BY <2>1, <2>2
<1>14. Running'
  BY <1>1, <1>2, <1>3, <1>6, <1>7, <1>10, <1>11, <1>13 DEF Running
<1>15. QED
  BY <1>9, <1>14 DEF LoopInv

LEMMA StepKeeps == LoopInv /\ [Next]_vars => LoopInv'
<1> SUFFICES ASSUME LoopInv, [Next]_vars PROVE LoopInv'
  OBVIOUS
<1>1. CASE Outside
  <2>1. PICK nr \in Used : Flip(nr)
    BY <1>1 DEF Outside
  <2>2. addr' \in [0..(NWords - 1) -> Word]
    BY <2>1, FlipChangesOne DEF LoopInv
  <2>3. QED
    BY <1>1, <2>2 DEF Outside, LoopInv, TypeOK
<1>2. ASSUME NEW l \in Loops, NEW n \in Sizes, NEW b \in Used, Start(l, n, b) PROVE LoopInv'
  BY <1>2, StartKeeps
<1>3. CASE Round
  BY <1>3, RoundKeeps
<1>4. CASE Stop
  BY <1>4 DEF Stop, LoopInv, TypeOK
<1>5. CASE UNCHANGED vars
  BY <1>5 DEF vars, LoopInv, TypeOK, Running
<1>6. QED
  BY <1>1, <1>2, <1>3, <1>4, <1>5 DEF Next

\* LoopInv is an invariant of the loops, whatever their body does to the bitmap.
THEOREM LoopInvariant == Spec => []LoopInv
<1>1. QED
  BY InitEstablishes, StepKeeps, PTL DEF Spec

\* The bitmap stays one, and the loop variable a bit number (types.h:198-214).
THEOREM LoopTypes == Spec => []TypeOK
<1>1. LoopInv => TypeOK
  BY DEF LoopInv
<1>2. QED
  BY <1>1, LoopInvariant, PTL

\* A loop visits rising bits of its range, and every bit it looks for that its
\* body left alone (types.h:198-214, as heap_alloc uses it at tensor.c:2275).
THEOREM LoopsRise == Spec => []LoopsAreMonotone
<1>1. LoopInv => LoopsAreMonotone
  <2> SUFFICES ASSUME LoopInv, loop # "none"
               PROVE  /\ \A i \in 1..Len(seen) :
                            /\ seen[i] \in from..(size - 1)
                            /\ i > 1 => seen[i - 1] < seen[i]
                      /\ \A nr \in kept : nr < bit => nr \in ToSet(seen)
    BY DEF LoopsAreMonotone
  <2>1. Running /\ from \in Nat /\ size \in Nat /\ bit \in Nat
    BY Shapes DEF LoopInv
  <2>2. QED
    BY <2>1 DEF Running
<1>2. QED
  BY <1>1, LoopInvariant, PTL

\* In every bitmap the program can have, the scans are exact (types.h:139-196).
THEOREM ScansExact == Spec => []ScansAreExact
<1>1. TypeOK => ScansAreExact
  <2> SUFFICES ASSUME TypeOK, NEW n \in Sizes
               PROVE  /\ IsFirst(find_first_bit(addr, n), addr, 0, n, TRUE)
                      /\ IsFirst(find_first_zero_bit(addr, n), addr, 0, n, FALSE)
                      /\ \A b \in Used :
                            /\ IsFirst(find_next_bit(addr, n, b), addr, b, n, TRUE)
                            /\ IsFirst(find_next_zero_bit(addr, n, b), addr, b, n, FALSE)
    BY DEF ScansAreExact
  <2>1. /\ NWords \in Nat /\ addr \in [0..(NWords - 1) -> Word]
        /\ n \in 0..(NWords * 64) /\ Used \subseteq Nat
    BY Shapes
  <2>2. QED
    BY <2>1, FindFirstIsFirst, FindNextIsFirst
<1>2. QED
  BY <1>1, LoopTypes, PTL

\* In every word the program can have, so are the searches (types.h:31-116).
THEOREM WordScansExact == Spec => []WordScansAreExact
<1>1. TypeOK => WordScansAreExact
  <2> SUFFICES ASSUME TypeOK, NEW i \in DOMAIN addr
               PROVE  /\ addr[i] # {} => /\ IsLowest(__ffs(addr[i]), addr[i])
                                         /\ IsHighest(__fls(addr[i]), addr[i])
                                         /\ fls64(addr[i]) = __fls(addr[i]) + 1
                      /\ addr[i] # WordBits => IsLowest(ffz(addr[i]), WordBits \ addr[i])
    BY DEF WordScansAreExact
  <2>1. addr[i] \in Word
    BY DEF TypeOK
  <2>2. QED
    BY <2>1, FfsIsLowestBit, FlsIsHighestBit, FfzIsLowestZero
<1>2. QED
  BY <1>1, LoopTypes, PTL
=============================================================================
