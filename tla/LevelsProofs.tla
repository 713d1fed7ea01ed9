---------------------------- MODULE LevelsProofs ----------------------------
(***************************************************************************)
(* The arithmetic of blocks, for every F: powers of two, aligned ranges,   *)
(* their halves and buddies, and the cutting of a piece of the node.       *)
(***************************************************************************)
EXTENDS Levels, FiniteSetTheorems, WellFoundedInduction, TLAPS

(***************************************************************************)
(* Natural numbers.  Induction over them is stated for a set: the provers  *)
(* cannot instantiate the library's theorems, which are about operators.   *)
(***************************************************************************)
LEMMA LeastIn ==
    ASSUME NEW S \in SUBSET Nat, S # {}
    PROVE  \E m \in S : \A n \in S : m <= n
<1> DEFINE R == {ss \in Nat \X Nat : ss[1] < ss[2]}
<1>1. IsWellFoundedOn(R, Nat)
  BY NatLessThanWellFounded DEF OpToRel
<1>2. PICK m \in S : \A n \in S : ~ (<<n, m>> \in R)
  BY <1>1, WFMin
<1>3. \A n \in S : ~ (n < m)
  BY <1>2
<1> QED  BY <1>3

LEMMA InductionSet ==
    ASSUME NEW S, 0 \in S, \A n \in Nat : n \in S => n + 1 \in S
    PROVE  Nat \subseteq S
<1> DEFINE rest == Nat \ S
<1> SUFFICES ASSUME rest # {} PROVE FALSE
  OBVIOUS
<1>1. PICK m \in rest : \A n \in rest : m <= n
  BY LeastIn
<1>2. m # 0 /\ m - 1 \in Nat /\ m - 1 \notin rest
  BY <1>1
<1>3. (m - 1) + 1 \in S
  BY <1>2
<1> QED  BY <1>1, <1>3

(***************************************************************************)
(* Powers of two, from the library's count of the subsets of a set.        *)
(***************************************************************************)
LEMMA BitIsCount ==
    ASSUME NEW n \in Nat
    PROVE  /\ IsFiniteSet(SUBSET (1..n))
           /\ BIT(n) = Cardinality(SUBSET (1..n))
           /\ BIT(n) \in Nat
<1>1. IsFiniteSet(1..n) /\ Cardinality(1..n) = n
  BY FS_Interval
<1>2. IsFiniteSet(SUBSET (1..n)) /\ Cardinality(SUBSET (1..n)) = 2 ^ n
  BY <1>1, FS_SUBSET
<1> QED  BY <1>2, FS_CardinalityType DEF BIT

LEMMA BitDoubles ==
    ASSUME NEW n \in Nat
    PROVE  BIT(n + 1) = 2 * BIT(n)
<1> DEFINE old == SUBSET (1..n)
           new == {s \cup {n + 1} : s \in old}
           add == [s \in old |-> s \cup {n + 1}]
<1>1. n + 1 \notin 1..n /\ 1..(n + 1) = (1..n) \cup {n + 1}
  OBVIOUS
<1>2. SUBSET (1..(n + 1)) = old \cup new
  <2>1. ASSUME NEW s \in SUBSET (1..(n + 1)), s \notin old PROVE s \in new
    <3>1. s \ {n + 1} \in old /\ n + 1 \in s
      BY <1>1, <2>1
    <3>2. s = (s \ {n + 1}) \cup {n + 1}
      BY <3>1
    <3> QED  BY <3>1, <3>2
  <2>2. old \subseteq SUBSET (1..(n + 1)) /\ new \subseteq SUBSET (1..(n + 1))
    BY <1>1
  <2> QED  BY <2>1, <2>2
<1>3. old \cap new = {}
  BY <1>1
<1>4. ExistsBijection(old, new)
  <2>1. add \in [old -> new]
    OBVIOUS
  <2>2. \A s, t \in old : add[s] = add[t] => s = t
    <3> SUFFICES ASSUME NEW s \in old, NEW t \in old, s \cup {n + 1} = t \cup {n + 1}
                 PROVE  s = t
      OBVIOUS
    <3>1. n + 1 \notin s /\ n + 1 \notin t
      BY <1>1
    <3> QED  BY <3>1
  <2>3. \A t \in new : \E s \in old : add[s] = t
    OBVIOUS
  <2> HIDE DEF add, old, new
  <2> QED  BY <2>1, <2>2, <2>3
        DEF ExistsBijection, Bijection, Injection, Surjection, IsInjective
<1>5. IsFiniteSet(old) /\ BIT(n) = Cardinality(old) /\ BIT(n) \in Nat
  BY BitIsCount
<1>6. BIT(n + 1) = Cardinality(old \cup new)
  <2>1. n + 1 \in Nat
    OBVIOUS
  <2>2. BIT(n + 1) = Cardinality(SUBSET (1..(n + 1)))
    BY <2>1, BitIsCount
  <2> HIDE DEF old, new
  <2> QED  BY <1>2, <2>2
<1> HIDE DEF old, new
<1>7. IsFiniteSet(new) /\ Cardinality(new) = Cardinality(old)
  BY <1>4, <1>5, FS_Bijection
<1>8. Cardinality(old \cup new) = Cardinality(old) + Cardinality(new) - Cardinality(old \cap new)
  BY <1>5, <1>7, FS_Union
<1>9. Cardinality(old \cap new) = 0
  BY <1>3, FS_EmptySet
<1> QED  BY <1>5, <1>6, <1>7, <1>8, <1>9

LEMMA BitPositive ==
    ASSUME NEW n \in Nat
    PROVE  BIT(n) \in Nat /\ BIT(n) >= 1
<1> DEFINE S == {k \in Nat : BIT(k) >= 1}
<1>1. 0 \in S
  <2>1. BIT(0) = 1
    BY DEF BIT
  <2> QED  BY <2>1
<1>2. ASSUME NEW k \in Nat, k \in S PROVE k + 1 \in S
  <2>1. BIT(k + 1) = 2 * BIT(k) /\ BIT(k) >= 1 /\ BIT(k) \in Nat
    BY <1>2, BitDoubles, BitIsCount
  <2> QED  BY <2>1
<1>3. Nat \subseteq S
  <2> HIDE DEF S
  <2> QED  BY <1>1, <1>2, InductionSet
<1> QED  BY <1>3, BitIsCount

LEMMA BitOfSum ==
    ASSUME NEW a \in Nat, NEW b \in Nat
    PROVE  BIT(a + b) = BIT(a) * BIT(b)
<1> DEFINE S == {k \in Nat : BIT(a + k) = BIT(a) * BIT(k)}
<1>1. 0 \in S
  <2>1. BIT(0) = 1 /\ a + 0 = a /\ BIT(a) * 1 = BIT(a)
    BY BitPositive DEF BIT
  <2> QED  BY <2>1
<1>2. ASSUME NEW k \in Nat, k \in S PROVE k + 1 \in S
  <2>1. BIT(a + (k + 1)) = 2 * BIT(a + k)
    <3>1. a + (k + 1) = (a + k) + 1 /\ a + k \in Nat
      OBVIOUS
    <3> QED  BY <3>1, BitDoubles
  <2>2. BIT(k + 1) = 2 * BIT(k)
    BY BitDoubles
  <2>3. 2 * (BIT(a) * BIT(k)) = BIT(a) * (2 * BIT(k))
    BY BitPositive
  <2> QED  BY <1>2, <2>1, <2>2, <2>3
<1>3. Nat \subseteq S
  <2> HIDE DEF S
  <2> QED  BY <1>1, <1>2, InductionSet
<1> QED  BY <1>3

\* A larger power of two is a multiple of a smaller one, and at least twice it.
LEMMA BitMultiple ==
    ASSUME NEW a \in Nat, NEW b \in Nat, a <= b
    PROVE  \E m \in Nat : /\ m >= 1 /\ BIT(b) = m * BIT(a)
                          /\ a < b => m >= 2
<1>1. b - a \in Nat /\ a + (b - a) = b
  OBVIOUS
<1>2. BIT(b) = BIT(b - a) * BIT(a)
  <2>1. BIT(b) = BIT(a) * BIT(b - a)
    BY <1>1, BitOfSum
  <2> QED  BY <1>1, <2>1, BitPositive
<1>3. a < b => BIT(b - a) >= 2
  <2> SUFFICES ASSUME a < b PROVE BIT(b - a) >= 2
    OBVIOUS
  <2>1. b - a - 1 \in Nat /\ (b - a - 1) + 1 = b - a
    OBVIOUS
  <2>2. BIT(b - a) = 2 * BIT(b - a - 1)
    BY <2>1, BitDoubles
  <2> QED  BY <2>1, <2>2, BitPositive
<1> QED  BY <1>1, <1>2, <1>3, BitPositive

LEMMA BitMonotone ==
    ASSUME NEW a \in Nat, NEW b \in Nat
    PROVE  /\ a <= b => BIT(a) <= BIT(b)
           /\ a < b => 2 * BIT(a) <= BIT(b) /\ BIT(a) < BIT(b)
<1>1. ASSUME a <= b PROVE /\ BIT(a) <= BIT(b)
                          /\ a < b => 2 * BIT(a) <= BIT(b) /\ BIT(a) < BIT(b)
  <2>1. PICK m \in Nat : m >= 1 /\ BIT(b) = m * BIT(a) /\ (a < b => m >= 2)
    BY <1>1, BitMultiple
  <2>2. BIT(a) \in Nat /\ BIT(a) >= 1
    BY BitPositive
  <2>3. \A k \in Nat : k >= 1 => k * BIT(a) >= BIT(a)
    BY <2>2
  <2>4. \A k \in Nat : k >= 2 => k * BIT(a) >= 2 * BIT(a)
    BY <2>2
  <2> QED  BY <2>1, <2>2, <2>3, <2>4
<1> QED  BY <1>1

LEMMA BitExceeds ==
    ASSUME NEW n \in Nat
    PROVE  n < BIT(n)
<1> DEFINE S == {k \in Nat : k < BIT(k)}
<1>1. 0 \in S
  BY DEF BIT
<1>2. ASSUME NEW k \in Nat, k \in S PROVE k + 1 \in S
  BY <1>2, BitDoubles, BitPositive
<1>3. Nat \subseteq S
  <2> HIDE DEF S
  <2> QED  BY <1>1, <1>2, InductionSet
<1> QED  BY <1>3

(***************************************************************************)
(* A function defined by recursion over the natural numbers exists.        *)
(***************************************************************************)
IsPrefixOfRecursion(g, n, S, a, h) ==
    /\ g \in [0..n -> S]
    /\ g[0] = a
    /\ \A i \in 0..(n - 1) : g[i + 1] = h[<<i, g[i]>>]

LEMMA PrefixExists ==
    ASSUME NEW S, NEW a \in S, NEW h \in [Nat \X S -> S], NEW n \in Nat
    PROVE  \E g : IsPrefixOfRecursion(g, n, S, a, h)
<1> DEFINE N == {k \in Nat : \E g : IsPrefixOfRecursion(g, k, S, a, h)}
<1>1. 0 \in N
  <2> DEFINE g == [i \in 0..0 |-> a]
  <2>1. IsPrefixOfRecursion(g, 0, S, a, h)
    BY DEF IsPrefixOfRecursion
  <2> QED  BY <2>1
<1>2. ASSUME NEW k \in Nat, k \in N PROVE k + 1 \in N
  <2>1. PICK g : IsPrefixOfRecursion(g, k, S, a, h)
    BY <1>2
  <2> DEFINE g1 == [i \in 0..(k + 1) |-> IF i <= k THEN g[i] ELSE h[<<k, g[k]>>]]
  <2>2. g \in [0..k -> S] /\ g[0] = a /\ \A i \in 0..(k - 1) : g[i + 1] = h[<<i, g[i]>>]
    BY <2>1 DEF IsPrefixOfRecursion
  <2>3. h[<<k, g[k]>>] \in S
    BY <2>2
  <2>4. g1 \in [0..(k + 1) -> S]
    BY <2>2, <2>3
  <2>5. ASSUME NEW i \in 0..k PROVE g1[i + 1] = h[<<i, g1[i]>>]
    <3>1. CASE i = k
      BY <3>1
    <3>2. CASE i # k
      <4>1. i \in 0..(k - 1) /\ i + 1 <= k /\ i + 1 \in 0..(k + 1) /\ i \in 0..(k + 1)
        BY <3>2
      <4> QED  BY <2>2, <4>1
    <3> QED  BY <3>1, <3>2
  <2>6. g1[0] = a
    BY <2>2
  <2>7. (k + 1) - 1 = k
    OBVIOUS
  <2> HIDE DEF g1
  <2>8. IsPrefixOfRecursion(g1, k + 1, S, a, h)
    BY <2>4, <2>5, <2>6, <2>7 DEF IsPrefixOfRecursion
  <2> QED  BY <2>8
<1>3. Nat \subseteq N
  <2> HIDE DEF N
  <2> QED  BY <1>1, <1>2, InductionSet
<1> QED  BY <1>3

LEMMA PrefixesAgree ==
    ASSUME NEW S, NEW a \in S, NEW h \in [Nat \X S -> S],
           NEW m \in Nat, NEW n \in Nat, m <= n, NEW f, NEW g,
           IsPrefixOfRecursion(f, m, S, a, h), IsPrefixOfRecursion(g, n, S, a, h)
    PROVE  \A i \in 0..m : f[i] = g[i]
<1> DEFINE N == {k \in Nat : k <= m => f[k] = g[k]}
<1>1. 0 \in N
  BY DEF IsPrefixOfRecursion
<1>2. ASSUME NEW k \in Nat, k \in N PROVE k + 1 \in N
  <2> SUFFICES ASSUME k + 1 <= m PROVE f[k + 1] = g[k + 1]
    OBVIOUS
  <2>1. k \in 0..(m - 1) /\ k \in 0..(n - 1) /\ f[k] = g[k]
    BY <1>2
  <2> QED  BY <2>1 DEF IsPrefixOfRecursion
<1>3. Nat \subseteq N
  <2> HIDE DEF N
  <2> QED  BY <1>1, <1>2, InductionSet
<1> QED  BY <1>3

IsRecursion(f, S, a, h) ==
    f \in [Nat -> S] /\ f[0] = a /\ \A n \in Nat : f[n + 1] = h[<<n, f[n]>>]

IsStep(h, S) == h \in [Nat \X S -> S]

LEMMA RecursionExists ==
    ASSUME NEW S, NEW a \in S, NEW h, IsStep(h, S)
    PROVE  \E f : IsRecursion(f, S, a, h)
<1> DEFINE pre(n) == CHOOSE g : IsPrefixOfRecursion(g, n, S, a, h)
           f == [n \in Nat |-> pre(n)[n]]
<1>1. \A n \in Nat : IsPrefixOfRecursion(pre(n), n, S, a, h)
  BY PrefixExists DEF IsStep
<1> HIDE DEF pre
<1>2. \A n \in Nat : pre(n) \in [0..n -> S] /\ pre(n)[0] = a
  BY <1>1 DEF IsPrefixOfRecursion
<1>3. f \in [Nat -> S]
  BY <1>2
<1>4. f[0] = a
  BY <1>2
<1>5. ASSUME NEW n \in Nat PROVE f[n + 1] = h[<<n, f[n]>>]
  <2>1. n + 1 \in Nat /\ n <= n + 1 /\ n \in 0..n /\ n \in 0..((n + 1) - 1)
    OBVIOUS
  <2>2. pre(n)[n] = pre(n + 1)[n]
    <3>1. IsPrefixOfRecursion(pre(n), n, S, a, h) /\ IsPrefixOfRecursion(pre(n + 1), n + 1, S, a, h)
      BY <1>1, <2>1
    <3>2. \A i \in 0..n : pre(n)[i] = pre(n + 1)[i]
      BY <2>1, <3>1, PrefixesAgree DEF IsStep
    <3> QED  BY <2>1, <3>2
  <2>3. pre(n + 1)[n + 1] = h[<<n, pre(n + 1)[n]>>]
    <3>1. IsPrefixOfRecursion(pre(n + 1), n + 1, S, a, h)
      BY <1>1, <2>1
    <3> QED  BY <2>1, <3>1 DEF IsPrefixOfRecursion
  <2> QED  BY <2>1, <2>2, <2>3
<1> HIDE DEF f
<1> QED  BY <1>3, <1>4, <1>5 DEF IsRecursion

(***************************************************************************)
(* A finite set of numbers in order.                                       *)
(***************************************************************************)
\* The members of a finite set of numbers, in their order.
LEMMA AscendingIs ==
    ASSUME NEW S \in SUBSET Nat, IsFiniteSet(S)
    PROVE  /\ Cardinality(S) \in Nat
           /\ Ascending(S) \in [1..Cardinality(S) -> S]
           /\ \A i, j \in 1..Cardinality(S) : i < j => Ascending(S)[i] < Ascending(S)[j]
           /\ \A x \in S : \E i \in 1..Cardinality(S) : Ascending(S)[i] = x
<1> DEFINE IsAscending(q, T) ==
             q \in [1..Cardinality(T) -> T] /\ \A i, j \in DOMAIN q : i < j => q[i] < q[j]
           N == {n \in Nat : \A T \in SUBSET Nat : IsFiniteSet(T) /\ Cardinality(T) = n
                                => \E q : IsAscending(q, T)}
<1>1. 0 \in N
  <2> SUFFICES ASSUME NEW T \in SUBSET Nat, IsFiniteSet(T), Cardinality(T) = 0
               PROVE  \E q : IsAscending(q, T)
    OBVIOUS
  <2> DEFINE q == [i \in 1..0 |-> 0]
  <2>1. DOMAIN q = {} /\ q \in [1..Cardinality(T) -> T]
    OBVIOUS
  <2>2. IsAscending(q, T)
    BY <2>1
  <2> QED  BY <2>2
<1>2. ASSUME NEW n \in Nat, n \in N PROVE n + 1 \in N
  <2> SUFFICES ASSUME NEW T \in SUBSET Nat, IsFiniteSet(T), Cardinality(T) = n + 1
               PROVE  \E q : IsAscending(q, T)
    OBVIOUS
  <2>1. T # {}
    BY FS_EmptySet
  <2>2. PICK m \in T : \A x \in T : m <= x
    BY <2>1, LeastIn
  <2> DEFINE R == T \ {m}
  <2>3. R \in SUBSET Nat /\ IsFiniteSet(R) /\ Cardinality(R) = n
    <3>1. IsFiniteSet(R) /\ Cardinality(R) = Cardinality(T) - 1
      BY <2>2, FS_RemoveElement
    <3> QED  BY <3>1
  <2>4. PICK r : IsAscending(r, R)
    BY <1>2, <2>3
  <2>5. r \in [1..n -> R] /\ \A i, j \in 1..n : i < j => r[i] < r[j]
    BY <2>3, <2>4
  <2> DEFINE q == [i \in 1..(n + 1) |-> IF i = 1 THEN m ELSE r[i - 1]]
  <2>6. ASSUME NEW i \in 1..(n + 1)
        PROVE  IF i = 1 THEN q[i] = m ELSE i - 1 \in 1..n /\ q[i] = r[i - 1] /\ q[i] \in R
    <3>1. i # 1 => i - 1 \in 1..n
      OBVIOUS
    <3> QED  BY <2>5, <3>1
  <2>7. q \in [1..(n + 1) -> T]
    <3>1. \A i \in 1..(n + 1) : q[i] \in T
      BY <2>2, <2>6
    <3> QED  BY <3>1
  <2>8. ASSUME NEW i \in 1..(n + 1), NEW j \in 1..(n + 1), i < j PROVE q[i] < q[j]
    <3>1. j # 1 /\ j - 1 \in 1..n /\ q[j] = r[j - 1] /\ q[j] \in R
      BY <2>6, <2>8
    <3>2. CASE i = 1
      <4>1. q[i] = m /\ m <= q[j] /\ m # q[j] /\ m \in Nat /\ q[j] \in Nat
        BY <2>2, <2>6, <3>1, <3>2
      <4> HIDE DEF q
      <4> QED  BY <4>1
    <3>3. CASE i # 1
      <4>1. i - 1 \in 1..n /\ q[i] = r[i - 1] /\ i - 1 < j - 1
        BY <2>6, <2>8, <3>3
      <4> QED  BY <2>5, <3>1, <4>1
    <3> QED  BY <3>2, <3>3
  <2>9. IsAscending(q, T)
    <3>1. DOMAIN q = 1..(n + 1)
      OBVIOUS
    <3> HIDE DEF q
    <3> QED  BY <2>7, <2>8, <3>1
  <2> QED  BY <2>9
<1>3. Nat \subseteq N
  <2> HIDE DEF N
  <2> QED  BY <1>1, <1>2, InductionSet
<1> DEFINE c == Cardinality(S)
           q == Ascending(S)
<1>4. c \in Nat
  BY FS_CardinalityType
<1>5. IsAscending(q, S)
  <2>1. \E r : IsAscending(r, S)
    BY <1>3, <1>4
  <2>2. PICK r : IsAscending(r, S)
    BY <2>1
  <2>3. \E r2 \in [1..Cardinality(S) -> S] : \A i, j \in DOMAIN r2 : i < j => r2[i] < r2[j]
    BY <2>2
  <2> QED  BY <2>3 DEF Ascending
<1> HIDE DEF q
<1>6. q \in [1..c -> S] /\ DOMAIN q = 1..c /\ \A i, j \in 1..c : i < j => q[i] < q[j]
  BY <1>5
<1>7. ASSUME NEW i \in 1..c, NEW j \in 1..c, q[i] = q[j] PROVE i = j
  <2>1. ~ (i < j) /\ ~ (j < i)
    <3>1. q[i] \in Nat /\ q[j] \in Nat
      BY <1>6
    <3> QED  BY <1>6, <1>7, <3>1
  <2> QED  BY <1>4, <2>1
<1>8. q \in Injection(1..c, S)
  BY <1>6, <1>7 DEF Injection, IsInjective
<1>9. Cardinality(1..c) = c
  <2>1. Cardinality(1..c) = IF 1 > c THEN 0 ELSE c - 1 + 1
    BY <1>4, FS_Interval
  <2> HIDE DEF c
  <2> QED  BY <1>4, <2>1
<1>10. q \in Surjection(1..c, S)
  BY <1>8, <1>9, FS_Injection
<1>11. \A x \in S : \E i \in 1..c : q[i] = x
  BY <1>6, <1>10 DEF Surjection
<1> QED  BY <1>4, <1>6, <1>11 DEF q

(***************************************************************************)
(* Quotients.                                                              *)
(***************************************************************************)
LEMMA DivMod ==
    ASSUME NEW B \in Nat, B >= 1, NEW q \in Nat, NEW r \in 0..(B - 1)
    PROVE  (q * B + r) \div B = q /\ (q * B + r) % B = r
<1> DEFINE x == q * B + r
           d == x \div B
<1>1. x \in Nat /\ d \in Nat /\ x % B \in 0..(B - 1) /\ x = B * d + (x % B)
  OBVIOUS
<1>2. ~ (d >= q + 1)
  <2>1. d >= q + 1 => B * d >= B * (q + 1)
    BY <1>1
  <2>2. B * (q + 1) = q * B + B
    OBVIOUS
  <2> QED  BY <1>1, <2>1, <2>2
<1>3. ~ (d + 1 <= q)
  <2>1. d + 1 <= q => B * (d + 1) <= B * q
    BY <1>1
  <2>2. B * (d + 1) = B * d + B
    BY <1>1
  <2> QED  BY <1>1, <2>1, <2>2
<1>4. d = q
  BY <1>1, <1>2, <1>3
<1>5. x % B = r
  BY <1>1, <1>4
<1> QED  BY <1>4, <1>5

LEMMA DivOfMultiple ==
    ASSUME NEW B \in Nat, B >= 1, NEW q \in Nat
    PROVE  (q * B) \div B = q /\ (q * B) % B = 0
<1>1. 0 \in 0..(B - 1) /\ q * B + 0 = q * B
  OBVIOUS
<1> QED  BY <1>1, DivMod

\* The last bit of a number that is not zero, found by where it lies.
LEMMA PowerBelow ==
    ASSUME NEW n \in Nat, n >= 1
    PROVE  \E k \in Nat : BIT(k) <= n /\ n < BIT(k + 1)
<1> DEFINE above == {k \in Nat : n < BIT(k)}
<1>1. n \in above
  BY BitExceeds
<1>2. PICK m \in above : \A k \in above : m <= k
  BY <1>1, LeastIn
<1>3. BIT(0) = 1
  BY DEF BIT
<1>4. m # 0 /\ m - 1 \in Nat /\ (m - 1) + 1 = m
  BY <1>2, <1>3
<1>5. ~ (n < BIT(m - 1)) /\ BIT(m - 1) \in Nat
  BY <1>2, <1>4, BitPositive
<1> QED  BY <1>2, <1>4, <1>5

\* fls of a size is one more than the number of its highest bit.
LEMMA FlsBounds ==
    ASSUME NEW n \in Nat, NEW k \in 0..MaxShift, BIT(k) <= n, n < BIT(k + 1)
    PROVE  fls(n) = k + 1
<1>1. k \in Nat /\ k + 1 \in Nat /\ BIT(k) \in Nat /\ BIT(k) >= 1 /\ BIT(k + 1) = 2 * BIT(k)
  BY BitPositive, BitDoubles
<1>2. n \div BIT(k) = 1
  <2>1. n - BIT(k) \in 0..(BIT(k) - 1) /\ 1 * BIT(k) + (n - BIT(k)) = n
    BY <1>1
  <2> QED  BY <1>1, <2>1, DivMod
<1>3. ASSUME NEW j \in 0..MaxShift, j > k PROVE n \div BIT(j) = 0
  <2>1. j \in Nat /\ k + 1 <= j
    BY <1>3
  <2>2. BIT(j) \in Nat /\ n < BIT(j)
    BY <1>1, <2>1, BitMonotone, BitPositive
  <2>3. n \in 0..(BIT(j) - 1) /\ 0 * BIT(j) + n = n
    BY <2>2
  <2>4. BIT(j) >= 1
    BY <2>2
  <2> QED  BY <2>2, <2>3, <2>4, DivMod
<1>4. k \in OneBits(n)
  BY <1>2 DEF OneBits
<1>5. \A j \in OneBits(n) : j <= k
  BY <1>3 DEF OneBits, MaxShift
<1>6. Max(OneBits(n)) = k
  <2>1. \A j \in OneBits(n) : j \in Nat
    BY DEF OneBits
  <2>2. \A j \in OneBits(n) : (\A i \in OneBits(n) : j >= i) => j = k
    BY <1>4, <1>5, <2>1
  <2> QED  BY <1>4, <1>5, <2>1, <2>2 DEF Max
<1> QED  BY <1>1, <1>6 DEF fls

\* A size that is a power of two gets as many descriptors.
LEMMA DescriptorsOfPower ==
    ASSUME NEW p \in 0..MaxShift
    PROVE  Descriptors(BIT(p)) = BIT(p)
<1>1. p \in Nat /\ BIT(p) \in Nat /\ BIT(p) < BIT(p + 1)
  BY BitPositive, BitMonotone DEF MaxShift
<1>2. fls(BIT(p)) = p + 1
  BY <1>1, FlsBounds
<1> QED  BY <1>2 DEF Descriptors

(***************************************************************************)
(* Cutting a piece whose size is a power of two: it becomes blocks of one  *)
(* size, those of the first level and order it fills.                      *)
(***************************************************************************)
LEMMA StepwiseEqual ==
    ASSUME NEW n \in Nat, NEW f, NEW g, f[0] = g[0],
           \A i \in 1..n : f[i - 1] = g[i - 1] => f[i] = g[i]
    PROVE  \A i \in 0..n : f[i] = g[i]
<1> DEFINE N == {k \in Nat : k <= n => f[k] = g[k]}
<1>1. 0 \in N
  OBVIOUS
<1>2. ASSUME NEW k \in Nat, k \in N PROVE k + 1 \in N
  <2> SUFFICES ASSUME k + 1 <= n PROVE f[k + 1] = g[k + 1]
    OBVIOUS
  <2>1. k + 1 \in 1..n /\ (k + 1) - 1 = k /\ f[k] = g[k]
    BY <1>2
  <2> QED  BY <2>1
<1>3. Nat \subseteq N
  <2> HIDE DEF N
  <2> QED  BY <1>1, <1>2, InductionSet
<1> QED  BY <1>3

\* The cutting of n items below `end' for a node of top level l0 and order ord
\* that begins at item `at': before it, and when it has been cut into blocks of
\* level l and order o.
Uncut(n, end, l0, ord, at) ==
    [rel_pa_offset |-> n, item_start |-> end, lvl |-> l0, order |-> ord,
     offset |-> at, blocks |-> {}]

Pieces(n, end, l, o) ==
    {[item |-> end - i * BlockItems(l, o), lvl |-> l, order |-> o] :
        i \in 1..(n \div BlockItems(l, o))}

HasBeenCut(n, end, l0, l, o, ord, at) ==
    [rel_pa_offset |-> 0, item_start |-> end - BlockItems(l, o), lvl |-> l0,
     order |-> IF l = l0 /\ ord = 0 THEN o + 1 ELSE ord, offset |-> at,
     blocks |-> Pieces(n, end, l, o)]

LEMMA LevelShift ==
    ASSUME NEW l \in 0..3
    PROVE  FUNCTION_ITEM_LVL(l) \in Nat /\ FUNCTION_ITEM_LVL(3) = 0
BY LevelsAssumption DEF FUNCTION_ITEM_LVL, MAX_GROUP_LVLS

LEMMA CutNothing ==
    ASSUME NEW s, NEW l \in 0..3, NEW o \in 0..(F - 1), s.rel_pa_offset \in Nat,
           s.rel_pa_offset < BlockItems(l, o)
    PROVE  Cut(s, l, o) = s
<1>1. o + FUNCTION_ITEM_LVL(l) \in Nat
  BY LevelShift, LevelsAssumption
<1>2. BlockItems(l, o) \in Nat /\ BlockItems(l, o) >= 1
  BY <1>1, BitPositive DEF BlockItems
<1>3. s.rel_pa_offset \div BlockItems(l, o) = 0
  <2>1. s.rel_pa_offset \in 0..(BlockItems(l, o) - 1)
        /\ 0 * BlockItems(l, o) + s.rel_pa_offset = s.rel_pa_offset
    BY <1>2
  <2> QED  BY <1>2, <2>1, DivMod
<1> QED  BY <1>3 DEF Cut

LEMMA CutAll ==
    ASSUME NEW p \in Nat, NEW end \in Int, NEW l0 \in 0..3, NEW l \in 0..3, NEW o \in 0..(F - 1),
           NEW ord, NEW at, o + FUNCTION_ITEM_LVL(l) <= p
    PROVE  Cut(Uncut(BIT(p), end, l0, ord, at), l, o)
             = HasBeenCut(BIT(p), end, l0, l, o, ord, at)
<1> DEFINE size == BlockItems(l, o)
           s == Uncut(BIT(p), end, l0, ord, at)
<1>1. o \in Nat /\ o + FUNCTION_ITEM_LVL(l) \in Nat /\ o + 1 <= F
  BY LevelShift, LevelsAssumption
<1>2. size \in Nat /\ size >= 1
  BY <1>1, BitPositive DEF BlockItems
<1>3. PICK m \in Nat : m >= 1 /\ BIT(p) = m * size
  BY <1>1, BitMultiple DEF BlockItems
<1> HIDE DEF size
<1>4. BIT(p) \div size = m /\ BIT(p) - m * size = 0
  <2>1. BIT(p) \in Nat
    BY BitPositive
  <2> QED  BY <1>2, <1>3, <2>1, DivOfMultiple
<1>5. Min({o + 1, GROUP_ORDER_NUM_SHIFT}) = o + 1
  <2>1. o + 1 <= GROUP_ORDER_NUM_SHIFT /\ GROUP_ORDER_NUM_SHIFT \in Nat
    BY <1>1, LevelsAssumption DEF GROUP_ORDER_NUM_SHIFT
  <2> QED  BY <1>1, <2>1 DEF Min
<1>6. Cut(s, l, o) = CutBlocks(s, l, o, m)
  <2>1. s.rel_pa_offset \div size = m
    BY <1>4 DEF Uncut
  <2> HIDE DEF s
  <2> QED  BY <1>3, <2>1 DEF Cut, size
<1>7. Pieces(BIT(p), end, l, o) = {[item |-> end - i * size, lvl |-> l, order |-> o] : i \in 1..m}
  BY <1>4 DEF Pieces, size
<1>8. CutBlocks(s, l, o, m) =
        [s EXCEPT !.rel_pa_offset = 0,
                  !.item_start = end - size,
                  !.order = IF l = l0 /\ ord = 0 THEN o + 1 ELSE ord,
                  !.blocks = Pieces(BIT(p), end, l, o)]
  <2>1. /\ s.rel_pa_offset - m * size = 0
        /\ s.item_start = end /\ s.lvl = l0 /\ s.order = ord /\ s.blocks = {}
    BY <1>4 DEF Uncut
  <2> HIDE DEF s
  <2>2. s.blocks \cup {[item |-> s.item_start - i * size, lvl |-> l, order |-> o] : i \in 1..m}
          = Pieces(BIT(p), end, l, o)
    BY <1>7, <2>1
  <2>3. (IF l = s.lvl /\ s.order = 0 THEN Min({o + 1, GROUP_ORDER_NUM_SHIFT}) ELSE s.order)
          = IF l = l0 /\ ord = 0 THEN o + 1 ELSE ord
    BY <1>5, <2>1
  <2>4. CutBlocks(s, l, o, m) =
          [s EXCEPT !.rel_pa_offset = s.rel_pa_offset - m * size,
                    !.item_start = s.item_start - size,
                    !.order = IF l = s.lvl /\ s.order = 0
                              THEN Min({o + 1, GROUP_ORDER_NUM_SHIFT}) ELSE s.order,
                    !.blocks = s.blocks \cup
                       {[item |-> s.item_start - i * size, lvl |-> l, order |-> o] :
                           i \in 1..m}]
    BY DEF CutBlocks, size
  <2> QED  BY <2>1, <2>2, <2>3, <2>4
<1> QED  BY <1>6, <1>8 DEF Uncut, HasBeenCut, size

\* The order a piece of 2^p items is cut into on level l.
IsItsOrder(p, l, o) ==
    /\ o \in 0..(F - 1)
    /\ o + FUNCTION_ITEM_LVL(l) <= p
    /\ o + FUNCTION_ITEM_LVL(l) = p \/ o = F - 1

LEMMA CutOrdersOfPower ==
    ASSUME NEW p \in Nat, NEW end \in Int, NEW l0 \in 0..3, NEW l \in 0..3, NEW o,
           NEW ord, NEW at, IsItsOrder(p, l, o)
    PROVE  CutOrders(Uncut(BIT(p), end, l0, ord, at), l)
             = HasBeenCut(BIT(p), end, l0, l, o, ord, at)
<1> DEFINE s == Uncut(BIT(p), end, l0, ord, at)
           t == HasBeenCut(BIT(p), end, l0, l, o, ord, at)
           IsCutting(g) == g = [i \in 0..F |-> IF i = 0 THEN s ELSE Cut(g[i - 1], l, F - i)]
           g0 == [i \in 0..F |-> IF i <= F - 1 - o THEN s ELSE t]
<1>1. F \in Nat /\ F >= 2 /\ o \in 0..(F - 1) /\ FUNCTION_ITEM_LVL(l) \in Nat
  BY LevelsAssumption, LevelShift DEF IsItsOrder
<1>2. Cut(s, l, o) = t
  <2>1. o \in 0..(F - 1) /\ o + FUNCTION_ITEM_LVL(l) <= p
    BY DEF IsItsOrder
  <2>2. Cut(Uncut(BIT(p), end, l0, ord, at), l, o) = HasBeenCut(BIT(p), end, l0, l, o, ord, at)
    BY <2>1, CutAll
  <2> QED  BY <2>2
<1>3. ASSUME NEW k \in 0..(F - 1), k > o PROVE Cut(s, l, k) = s
  <2>1. o + FUNCTION_ITEM_LVL(l) = p /\ p < k + FUNCTION_ITEM_LVL(l)
        /\ k + FUNCTION_ITEM_LVL(l) \in Nat
    BY <1>1, <1>3 DEF IsItsOrder
  <2>2. s.rel_pa_offset = BIT(p) /\ BIT(p) \in Nat
    BY BitPositive DEF Uncut
  <2>3. BIT(p) < BlockItems(l, k)
    BY <2>1, BitMonotone DEF BlockItems
  <2> HIDE DEF s
  <2> QED  BY <2>2, <2>3, CutNothing
<1>4. ASSUME NEW k \in 0..(F - 1) PROVE Cut(t, l, k) = t
  <2>1. t.rel_pa_offset = 0
    BY DEF HasBeenCut
  <2>2. BlockItems(l, k) \in Nat /\ 0 < BlockItems(l, k)
    <3>1. k + FUNCTION_ITEM_LVL(l) \in Nat
      BY <1>1
    <3> QED  BY <3>1, BitPositive DEF BlockItems
  <2> HIDE DEF t
  <2> QED  BY <2>1, <2>2, CutNothing
<1> HIDE DEF s, t
<1>5. IsCutting(g0)
  <2> SUFFICES ASSUME NEW i \in 0..F
               PROVE  g0[i] = IF i = 0 THEN s ELSE Cut(g0[i - 1], l, F - i)
    OBVIOUS
  <2>1. CASE i = 0
    BY <1>1, <2>1
  <2>2. CASE i # 0 /\ i <= F - 1 - o
    <3>1. g0[i - 1] = s /\ g0[i] = s /\ F - i \in 0..(F - 1) /\ F - i > o
      BY <1>1, <2>2
    <3> QED  BY <1>3, <2>2, <3>1
  <2>3. CASE i = F - o
    <3>1. i # 0 /\ g0[i - 1] = s /\ g0[i] = t /\ F - i = o
      BY <1>1, <2>3
    <3> QED  BY <1>2, <3>1
  <2>4. CASE i > F - o
    <3>1. i # 0 /\ g0[i - 1] = t /\ g0[i] = t /\ F - i \in 0..(F - 1)
      BY <1>1, <2>4
    <3> QED  BY <1>4, <3>1
  <2> QED  BY <1>1, <2>1, <2>2, <2>3, <2>4
<1>6. IsCutting(CHOOSE g : IsCutting(g))
  BY <1>5
<1> DEFINE g1 == CHOOSE g : IsCutting(g)
<1>7. g1[0] = g0[0] /\ \A i \in 1..F : g1[i - 1] = g0[i - 1] => g1[i] = g0[i]
  <2> HIDE DEF g1, g0
  <2>1. \A i \in 0..F : g1[i] = IF i = 0 THEN s ELSE Cut(g1[i - 1], l, F - i)
    BY <1>6 DEF g1
  <2>2. \A i \in 0..F : g0[i] = IF i = 0 THEN s ELSE Cut(g0[i - 1], l, F - i)
    BY <1>5
  <2>3. 0 \in 0..F /\ \A i \in 1..F : i \in 0..F /\ i # 0
    BY <1>1
  <2> HIDE DEF IsCutting
  <2> QED  BY <2>1, <2>2, <2>3
<1>8. g1[F] = g0[F]
  <2> HIDE DEF g1, g0, IsCutting
  <2>1. \A i \in 0..F : g1[i] = g0[i]
    BY <1>1, <1>7, StepwiseEqual
  <2> QED  BY <1>1, <2>1
<1>9. g0[F] = t
  BY <1>1
<1>10. CutOrders(s, l) = g1[F]
  BY DEF CutOrders
<1> HIDE DEF g1, g0
<1> QED  BY <1>8, <1>9, <1>10 DEF s, t

\* A piece of 2^p items that has been cut, by the level the node's blocks begin at.
IsCut(s, p, end, l0, ord, at) ==
    \E l \in l0..3, o \in 0..(F - 1) : \E top \in l0..l :
        /\ IsItsOrder(p, l, o)
        /\ at % block_size(l) = 0
        /\ FUNCTION_ITEM_LVL(l0) <= p /\ at % block_size(l0) = 0 => l = l0
        /\ at = 0 => top = l0
        /\ s = HasBeenCut(BIT(p), end, top, l, o, ord, at)

\* One that no level before k has suited.
IsWaiting(s, k, p, end, l0, ord, at) ==
    \E top \in l0..k :
        /\ \A j \in l0..(k - 1) : FUNCTION_ITEM_LVL(j) > p \/ at % block_size(j) # 0
        /\ at = 0 => top = l0
        /\ s = Uncut(BIT(p), end, top, ord, at)

LEMMA BlockSizeOf ==
    ASSUME NEW l \in 0..3
    PROVE  /\ FUNCTION_ITEM_LVL(l) \in Nat /\ FUNCTION_ITEM_LVL(3) = 0
           /\ block_size(l) \in Nat /\ block_size(l) >= 1
           /\ block_size(3) = 1
<1>1. FUNCTION_ITEM_LVL(l) \in Nat /\ FUNCTION_ITEM_LVL(3) = 0
  BY LevelShift
<1>2. block_size(l) \in Nat /\ block_size(l) >= 1
  BY <1>1, BitPositive DEF block_size
<1>3. block_size(3) = 1
  <2>1. BIT(0) = 1
    BY DEF BIT
  <2> QED  BY <1>1, <2>1 DEF block_size
<1> QED  BY <1>1, <1>2, <1>3

\* Every node begins at a block of the last level.
LEMMA LastLevelFits ==
    ASSUME NEW x \in Nat
    PROVE  x % block_size(3) = 0
<1>1. x % 1 = 0
  OBVIOUS
<1>2. block_size(3) = 1
  <2>1. 3 \in 0..3
    OBVIOUS
  <2> QED  BY <2>1, BlockSizeOf
<1> QED  BY <1>1, <1>2

LEMMA NoRemainder ==
    ASSUME NEW l \in 0..3
    PROVE  0 % block_size(l) = 0
<1>1. block_size(l) \in Nat /\ block_size(l) >= 1
  BY BlockSizeOf
<1>2. 0 * block_size(l) = 0
  BY <1>1
<1> QED  BY <1>1, <1>2, DivOfMultiple

LEMMA OneLevel ==
    ASSUME NEW s, NEW p \in Nat, NEW end \in Int, NEW l0 \in 0..3, NEW k \in l0..3,
           NEW ord \in Nat, NEW at \in Nat, IsWaiting(s, k, p, end, l0, ord, at)
    PROVE  \/ k < 3 /\ IsWaiting(CutLevel(s, k), k + 1, p, end, l0, ord, at)
           \/ IsCut(CutLevel(s, k), p, end, l0, ord, at)
<1>1. PICK top \in l0..k :
        /\ \A j \in l0..(k - 1) : FUNCTION_ITEM_LVL(j) > p \/ at % block_size(j) # 0
        /\ at = 0 => top = l0
        /\ s = Uncut(BIT(p), end, top, ord, at)
  BY DEF IsWaiting
<1>2. /\ FUNCTION_ITEM_LVL(k) \in Nat /\ FUNCTION_ITEM_LVL(3) = 0
      /\ block_size(k) \in Nat /\ block_size(k) >= 1
      /\ 0 % block_size(k) = 0 /\ at % block_size(3) = 0
  <2>1. k \in 0..3
    OBVIOUS
  <2> QED  BY <2>1, BlockSizeOf, NoRemainder, LastLevelFits
<1>3. BIT(p) \in Nat /\ (FUNCTION_ITEM_LVL(k) > p <=> block_size(k) > BIT(p))
  BY <1>2, BitMonotone, BitPositive DEF block_size
<1>4. s.rel_pa_offset = BIT(p) /\ s.offset = at /\ s.lvl = top
  BY <1>1 DEF Uncut
<1>5. CASE FUNCTION_ITEM_LVL(k) > p
  <2>1. CutLevel(s, k) = s
    BY <1>3, <1>4, <1>5 DEF CutLevel
  <2>2. k < 3
    BY <1>2, <1>5
  <2>3. IsWaiting(s, k + 1, p, end, l0, ord, at)
    <3>1. \A j \in l0..((k + 1) - 1) : FUNCTION_ITEM_LVL(j) > p \/ at % block_size(j) # 0
      BY <1>1, <1>5
    <3> QED  BY <1>1, <3>1 DEF IsWaiting
  <2> QED  BY <2>1, <2>2, <2>3
<1>6. CASE ~ (FUNCTION_ITEM_LVL(k) > p) /\ at % block_size(k) # 0
  <2>1. CutLevel(s, k) = [s EXCEPT !.lvl = top + 1]
    BY <1>3, <1>4, <1>6 DEF CutLevel
  <2>2. [s EXCEPT !.lvl = top + 1] = Uncut(BIT(p), end, top + 1, ord, at)
    <3>1. s = Uncut(BIT(p), end, top, ord, at)
      BY <1>1
    <3>2. [Uncut(BIT(p), end, top, ord, at) EXCEPT !.lvl = top + 1]
             = Uncut(BIT(p), end, top + 1, ord, at)
      BY DEF Uncut
    <3> QED  BY <3>1, <3>2
  <2>3. k < 3
    BY <1>2, <1>6
  <2>4. IsWaiting(Uncut(BIT(p), end, top + 1, ord, at), k + 1, p, end, l0, ord, at)
    <3>1. \A j \in l0..((k + 1) - 1) : FUNCTION_ITEM_LVL(j) > p \/ at % block_size(j) # 0
      BY <1>1, <1>6
    <3>2. at # 0
      BY <1>2, <1>6
    <3>3. top + 1 \in l0..(k + 1)
      OBVIOUS
    <3> QED  BY <3>1, <3>2, <3>3 DEF IsWaiting
  <2> QED  BY <2>1, <2>2, <2>3, <2>4
<1>7. CASE ~ (FUNCTION_ITEM_LVL(k) > p) /\ at % block_size(k) = 0
  <2> DEFINE rest == p - FUNCTION_ITEM_LVL(k)
             o == IF rest <= F - 1 THEN rest ELSE F - 1
  <2>1. o \in 0..(F - 1) /\ IsItsOrder(p, k, o)
    BY <1>2, <1>7, LevelsAssumption DEF IsItsOrder
  <2> HIDE DEF o
  <2>2. CutLevel(s, k) = CutOrders(s, k)
    BY <1>3, <1>4, <1>7 DEF CutLevel
  <2>3. CutOrders(s, k) = HasBeenCut(BIT(p), end, top, k, o, ord, at)
    BY <1>1, <2>1, CutOrdersOfPower
  <2>4. FUNCTION_ITEM_LVL(l0) <= p /\ at % block_size(l0) = 0 => k = l0
    <3> SUFFICES ASSUME FUNCTION_ITEM_LVL(l0) <= p, at % block_size(l0) = 0, k # l0 PROVE FALSE
      OBVIOUS
    <3>1. l0 \in l0..(k - 1)
      OBVIOUS
    <3>2. FUNCTION_ITEM_LVL(l0) \in Nat
      BY LevelShift
    <3> QED  BY <1>1, <3>1, <3>2
  <2>5. IsCut(CutLevel(s, k), p, end, l0, ord, at)
    BY <1>1, <1>7, <2>1, <2>2, <2>3, <2>4 DEF IsCut
  <2> QED  BY <2>5
<1> QED  BY <1>5, <1>6, <1>7

LEMMA CutStays ==
    ASSUME NEW s, NEW p \in Nat, NEW end \in Int, NEW l0 \in 0..3, NEW k \in l0..3,
           NEW ord \in Nat, NEW at \in Nat, IsCut(s, p, end, l0, ord, at)
    PROVE  CutLevel(s, k) = s
<1>1. s.rel_pa_offset = 0
  BY DEF IsCut, HasBeenCut
<1>2. block_size(k) \in Nat /\ block_size(k) >= 1
  <2>1. k \in 0..3
    OBVIOUS
  <2> QED  BY <2>1, BlockSizeOf
<1> QED  BY <1>1, <1>2 DEF CutLevel

\* __init_pnode_item makes blocks of one size of a piece of 2^p items, of the
\* node's top level if they fill one of its blocks and the node begins at one
\* (tensor_init.c:235-330).
LEMMA CutOfPower ==
    ASSUME NEW p \in Nat, NEW end \in Int, NEW l0 \in 0..3, NEW ord \in Nat, NEW at \in Nat
    PROVE  IsCut(__init_pnode_item(BIT(p), end, l0, ord, at), p, end, l0, ord, at)
<1> DEFINE s == Uncut(BIT(p), end, l0, ord, at)
           c1 == CutLevel(s, l0)
           c2 == CutLevel(c1, l0 + 1)
           c3 == CutLevel(c2, l0 + 2)
           c4 == CutLevel(c3, l0 + 3)
           g0 == [i \in 0..(4 - l0) |-> IF i = 0 THEN s ELSE IF i = 1 THEN c1
                                        ELSE IF i = 2 THEN c2 ELSE IF i = 3 THEN c3 ELSE c4]
           IsDescent(g) == g = [i \in 0..(MAX_GROUP_LVLS + 1 - l0) |->
                                   IF i = 0 THEN s ELSE CutLevel(g[i - 1], l0 + i - 1)]
           g == CHOOSE h : IsDescent(h)
           Waits(i) == l0 + i <= 3 /\ IsWaiting(g[i], l0 + i, p, end, l0, ord, at)
           Ends(i) == IsCut(g[i], p, end, l0, ord, at)
           S == {i \in Nat : i <= 4 - l0 => Waits(i) \/ Ends(i)}
<1>1. MAX_GROUP_LVLS + 1 - l0 = 4 - l0 /\ 4 - l0 \in Nat /\ 4 - l0 >= 1
  BY DEF MAX_GROUP_LVLS
<1>2. __init_pnode_item(BIT(p), end, l0, ord, at) = g[4 - l0]
  BY <1>1 DEF __init_pnode_item, Uncut
<1>3. IsWaiting(s, l0, p, end, l0, ord, at)
  BY DEF IsWaiting
<1> HIDE DEF s
<1>4. IsDescent(g0)
  <2> HIDE DEF c1, c2, c3, c4
  <2> SUFFICES ASSUME NEW i \in 0..(4 - l0)
               PROVE  g0[i] = IF i = 0 THEN s ELSE CutLevel(g0[i - 1], l0 + i - 1)
    BY <1>1
  <2>1. CASE i = 0
    BY <2>1
  <2>2. CASE i = 1
    <3>1. g0[1] = c1 /\ g0[0] = s /\ l0 + 1 - 1 = l0
      BY <2>2
    <3> QED  BY <2>2, <3>1 DEF c1
  <2>3. CASE i = 2
    <3>1. g0[2] = c2 /\ g0[1] = c1 /\ l0 + 2 - 1 = l0 + 1
      BY <2>3
    <3> QED  BY <2>3, <3>1 DEF c2
  <2>4. CASE i = 3
    <3>1. g0[3] = c3 /\ g0[2] = c2 /\ l0 + 3 - 1 = l0 + 2
      BY <2>4
    <3> QED  BY <2>4, <3>1 DEF c3
  <2>5. CASE i = 4
    <3>1. g0[4] = c4 /\ g0[3] = c3 /\ l0 + 4 - 1 = l0 + 3
      BY <2>5
    <3> QED  BY <2>5, <3>1 DEF c4
  <2> QED  BY <2>1, <2>2, <2>3, <2>4, <2>5
<1>5. IsDescent(g)
  <2> HIDE DEF g0, IsDescent
  <2> QED  BY <1>4
<1> HIDE DEF g0, g
<1>6. g[0] = s /\ \A i \in 0..(3 - l0) : g[i + 1] = CutLevel(g[i], l0 + i)
  <2>1. \A i \in 0..(4 - l0) : g[i] = IF i = 0 THEN s ELSE CutLevel(g[i - 1], l0 + i - 1)
    BY <1>1, <1>5
  <2>2. ASSUME NEW i \in 0..(3 - l0) PROVE g[i + 1] = CutLevel(g[i], l0 + i)
    <3>1. i + 1 \in 0..(4 - l0) /\ i + 1 # 0 /\ (i + 1) - 1 = i /\ l0 + (i + 1) - 1 = l0 + i
      OBVIOUS
    <3>2. g[i + 1] = CutLevel(g[(i + 1) - 1], l0 + (i + 1) - 1)
      BY <2>1, <3>1
    <3> QED  BY <3>1, <3>2
  <2> HIDE DEF IsDescent
  <2> QED  BY <1>1, <2>1, <2>2
<1> HIDE DEF IsDescent
<1>7. 0 \in S
  <2>1. Waits(0)
    BY <1>3, <1>6
  <2> QED  BY <2>1
<1>8. ASSUME NEW i \in Nat, i \in S PROVE i + 1 \in S
  <2> SUFFICES ASSUME i + 1 <= 4 - l0 PROVE Waits(i + 1) \/ Ends(i + 1)
    OBVIOUS
  <2>1. i \in 0..(3 - l0) /\ l0 + i \in l0..3 /\ g[i + 1] = CutLevel(g[i], l0 + i)
        /\ l0 + (i + 1) = (l0 + i) + 1
    BY <1>6
  <2> DEFINE k == l0 + i
  <2>2. CASE Waits(i)
    <3>1. k \in l0..3 /\ IsWaiting(g[i], k, p, end, l0, ord, at)
      BY <2>1, <2>2
    <3> HIDE DEF k
    <3>2. \/ k < 3 /\ IsWaiting(CutLevel(g[i], k), k + 1, p, end, l0, ord, at)
          \/ IsCut(CutLevel(g[i], k), p, end, l0, ord, at)
      BY <3>1, OneLevel
    <3> QED  BY <2>1, <3>1, <3>2 DEF k
  <2>3. CASE Ends(i)
    <3>1. k \in l0..3 /\ IsCut(g[i], p, end, l0, ord, at)
      BY <2>1, <2>3
    <3> HIDE DEF k
    <3>2. CutLevel(g[i], k) = g[i]
      BY <3>1, CutStays
    <3> QED  BY <2>1, <3>1, <3>2 DEF k
  <2>4. Waits(i) \/ Ends(i)
    BY <1>8, <2>1
  <2> QED  BY <2>2, <2>3, <2>4
<1>9. Nat \subseteq S
  <2> HIDE DEF S
  <2> QED  BY <1>7, <1>8, InductionSet
<1>10. ~ Waits(4 - l0)
  OBVIOUS
<1>11. Ends(4 - l0)
  <2> HIDE DEF Waits, Ends
  <2> QED  BY <1>1, <1>9, <1>10
<1> QED  BY <1>2, <1>11

LEMMA BlockSize ==
    ASSUME NEW l \in 0..3, NEW o \in Nat
    PROVE  /\ o + FUNCTION_ITEM_LVL(l) \in Nat
           /\ BlockItems(l, o) \in Nat /\ BlockItems(l, o) >= 1
           /\ BlockItems(3, o) = BIT(o)
<1>1. o + FUNCTION_ITEM_LVL(l) \in Nat /\ FUNCTION_ITEM_LVL(3) = 0
  BY LevelShift
<1>2. BlockItems(l, o) = BIT(o + FUNCTION_ITEM_LVL(l)) /\ BlockItems(3, o) = BIT(o)
  BY <1>1 DEF BlockItems
<1> QED  BY <1>1, <1>2, BitPositive

AreApart(P, size) ==
    \A b, c \in P : b # c => b.item + size <= c.item \/ c.item + size <= b.item

\* The blocks a piece is cut into cover it, each item once, and are aligned if
\* it is.
LEMMA PiecesTile ==
    ASSUME NEW p \in Nat, NEW end \in Nat, NEW l \in 0..3, NEW o, IsItsOrder(p, l, o),
           NEW P, P = Pieces(BIT(p), end, l, o), NEW size, size = BlockItems(l, o)
    PROVE  /\ BIT(p) \in Nat /\ size \in Nat /\ size >= 1
           /\ \A b \in P : /\ b = [item |-> b.item, lvl |-> l, order |-> o]
                           /\ b.item \in Int
                           /\ end - BIT(p) <= b.item /\ b.item + size <= end
           /\ \A x \in Int : end - BIT(p) <= x /\ x < end =>
                  \E b \in P : b.item <= x /\ x < b.item + size
           /\ AreApart(P, size)
           /\ \A q \in Nat : end = q * BIT(p) => \A b \in P : \E r \in Int : b.item = r * size
<1> DEFINE sh == o + FUNCTION_ITEM_LVL(l)
<1>1. sh \in Nat /\ sh <= p /\ size = BIT(sh)
  BY LevelShift, LevelsAssumption DEF IsItsOrder, BlockItems
<1>2. size \in Nat /\ size >= 1
  BY <1>1, BitPositive
<1>3. PICK m \in Nat : m >= 1 /\ BIT(p) = m * size
  BY <1>1, BitMultiple
<1>4. BIT(p) \div size = m /\ BIT(p) \in Nat
  BY <1>2, <1>3, DivOfMultiple, BitPositive
<1>5. P = {[item |-> end - i * size, lvl |-> l, order |-> o] : i \in 1..m}
  BY <1>4 DEF Pieces
<1>6. \A i \in 1..m : i * size \in Nat /\ i * size <= BIT(p) /\ i * size >= size
  <2> SUFFICES ASSUME NEW i \in 1..m
               PROVE  i * size \in Nat /\ i * size <= m * size /\ i * size >= size
    BY <1>3
  <2> QED  BY <1>2
<1>7. \A b \in P : \E i \in 1..m : /\ b = [item |-> end - i * size, lvl |-> l, order |-> o]
                                   /\ b.item = end - i * size
  BY <1>5
<1>8. ASSUME NEW b \in P
      PROVE  /\ b = [item |-> b.item, lvl |-> l, order |-> o]
             /\ b.item \in Int
             /\ end - BIT(p) <= b.item /\ b.item + size <= end
  <2>1. PICK i \in 1..m : /\ b = [item |-> end - i * size, lvl |-> l, order |-> o]
                          /\ b.item = end - i * size
    BY <1>7
  <2>2. i * size \in Nat /\ i * size <= BIT(p) /\ i * size >= size
    BY <1>6
  <2> QED  BY <1>2, <1>4, <2>1, <2>2
<1>9. ASSUME NEW x \in Int, end - BIT(p) <= x, x < end
      PROVE  \E b \in P : b.item <= x /\ x < b.item + size
  <2> DEFINE y == end - 1 - x
             d == y \div size
             r == y % size
             b == [item |-> end - (d + 1) * size, lvl |-> l, order |-> o]
  <2>1. y \in Nat /\ y < BIT(p)
    BY <1>4, <1>9
  <2>2. d \in Nat /\ r \in 0..(size - 1) /\ y = size * d + r
    <3> HIDE DEF y
    <3> QED  BY <1>2, <2>1
  <2>3. d + 1 <= m
    <3>1. size * d < m * size
      BY <1>2, <1>3, <2>1, <2>2
    <3>2. d >= m => size * d >= m * size
      BY <1>2, <2>2
    <3> QED  BY <1>2, <2>2, <3>1, <3>2
  <2>4. (d + 1) * size = size * d + size
    BY <1>2, <2>2
  <2>5. b \in P
    BY <1>5, <2>2, <2>3
  <2>6. b.item = end - (size * d + size)
    BY <2>4
  <2> HIDE DEF b, d, r
  <2>7. size * d \in Nat
    BY <1>2, <2>2
  <2>8. b.item <= x /\ x < b.item + size
    BY <1>2, <2>2, <2>6, <2>7
  <2> QED  BY <2>5, <2>8
<1>10. ASSUME NEW b \in P, NEW c \in P, b # c
       PROVE  b.item + size <= c.item \/ c.item + size <= b.item
  <2>1. PICK i \in 1..m : /\ b = [item |-> end - i * size, lvl |-> l, order |-> o]
                          /\ b.item = end - i * size
    BY <1>7
  <2>2. PICK j \in 1..m : /\ c = [item |-> end - j * size, lvl |-> l, order |-> o]
                          /\ c.item = end - j * size
    BY <1>7
  <2>3. i # j
    BY <1>10, <2>1, <2>2
  <2>4. i * size \in Nat /\ j * size \in Nat
    BY <1>6
  <2>5. i < j => i * size + size <= j * size
    <3>1. i < j => (i + 1) * size <= j * size
      BY <1>2
    <3> QED  BY <1>2, <3>1
  <2>6. j < i => j * size + size <= i * size
    <3>1. j < i => (j + 1) * size <= i * size
      BY <1>2
    <3> QED  BY <1>2, <3>1
  <2> QED  BY <1>2, <2>1, <2>2, <2>3, <2>4, <2>5, <2>6
<1>11. ASSUME NEW q \in Nat, end = q * BIT(p), NEW b \in P
       PROVE  \E r \in Int : b.item = r * size
  <2>1. PICK i \in 1..m : b.item = end - i * size
    BY <1>7
  <2>2. end = (q * m) * size
    BY <1>2, <1>3, <1>11
  <2>3. q * m - i \in Int /\ b.item = (q * m - i) * size
    BY <1>2, <2>1, <2>2
  <2> QED  BY <2>3
<1>12. AreApart(P, size)
  BY <1>10 DEF AreApart
<1> QED  BY <1>2, <1>4, <1>8, <1>9, <1>11, <1>12

(***************************************************************************)
(* Splitting: a run of 2^k items is a run of 2^o and one of 2^j for each j *)
(* from o below k, which begin 2^j after it.                               *)
(***************************************************************************)
LEMMA HalvesCover ==
    ASSUME NEW i \in Int, NEW o \in Nat, NEW k \in Nat, o <= k, NEW x \in Int
    PROVE  (i <= x /\ x < i + BIT(k))
             <=> \/ i <= x /\ x < i + BIT(o)
                 \/ \E j \in o..(k - 1) : i + BIT(j) <= x /\ x < (i + BIT(j)) + BIT(j)
<1>1. \A j \in Nat : BIT(j) \in Nat /\ BIT(j) >= 1
  BY BitPositive
<1>2. ASSUME i <= x, x < i + BIT(k), ~ (x < i + BIT(o))
      PROVE  \E j \in o..(k - 1) : i + BIT(j) <= x /\ x < (i + BIT(j)) + BIT(j)
  <2> DEFINE above == {j \in Nat : x < i + BIT(j)}
  <2>1. k \in above
    BY <1>2
  <2>2. PICK m \in above : \A j \in above : m <= j
    BY <2>1, LeastIn
  <2>3. o < m
    <3>1. m <= o => BIT(m) <= BIT(o)
      BY <2>2, BitMonotone
    <3> QED  BY <1>1, <1>2, <2>2, <3>1
  <2>4. m - 1 \in Nat /\ m - 1 \in o..(k - 1) /\ (m - 1) + 1 = m /\ m - 1 \notin above
    BY <2>1, <2>2, <2>3
  <2>5. BIT(m) = 2 * BIT(m - 1)
    BY <2>4, BitDoubles
  <2>6. i + BIT(m - 1) <= x /\ x < (i + BIT(m - 1)) + BIT(m - 1)
    BY <1>1, <2>2, <2>4, <2>5
  <2> QED  BY <2>4, <2>6
<1>3. ASSUME NEW j \in o..(k - 1), i + BIT(j) <= x, x < (i + BIT(j)) + BIT(j)
      PROVE  i <= x /\ x < i + BIT(k)
  <2>1. j \in Nat /\ 2 * BIT(j) <= BIT(k)
    BY BitMonotone
  <2> QED  BY <1>1, <1>3, <2>1
<1>4. BIT(o) <= BIT(k)
  BY BitMonotone
<1> QED  BY <1>1, <1>2, <1>3, <1>4

(***************************************************************************)
(* A number and its bits.                                                  *)
(***************************************************************************)
LEMMA ModOfMod ==
    ASSUME NEW n \in Nat, NEW b \in Nat, b >= 1, NEW m \in Nat, m >= 1
    PROVE  (n % (m * b)) % b = n % b
<1> DEFINE B == m * b
           d == n \div B
           r == n % B
           e == r \div b
           t == r % b
<1>1. B \in Nat /\ B >= 1
  <2>1. m * b >= 1 /\ m * b \in Nat
    OBVIOUS
  <2> QED  BY <2>1
<1>2. d \in Nat /\ r \in Nat /\ n = B * d + r
  <2> HIDE DEF B
  <2> QED  BY <1>1
<1> HIDE DEF d, r
<1>3. e \in Nat /\ t \in 0..(b - 1) /\ r = b * e + t
  BY <1>2
<1> HIDE DEF e, t
<1>4. m * d + e \in Nat /\ B * d + (b * e + t) = (m * d + e) * b + t
  BY <1>2, <1>3
<1>5. n = (m * d + e) * b + t
  <2> HIDE DEF B
  <2> QED  BY <1>2, <1>3, <1>4
<1>6. n % b = t
  BY <1>3, <1>4, <1>5, DivMod
<1> QED  BY <1>6 DEF t, r, B

\* The next bit.
LEMMA BitStep ==
    ASSUME NEW n \in Nat, NEW b \in Nat
    PROVE  n % BIT(b + 1) = BIT(b) * ((n \div BIT(b)) % 2) + (n % BIT(b))
<1> DEFINE B == BIT(b)
           d == n \div B
           r == n % B
           e == d \div 2
           t == d % 2
<1>1. B \in Nat /\ B >= 1 /\ BIT(b + 1) = 2 * B
  BY BitPositive, BitDoubles
<1> HIDE DEF B
<1>2. d \in Nat /\ r \in 0..(B - 1) /\ n = B * d + r
  BY <1>1
<1> HIDE DEF d, r
<1>3. e \in Nat /\ t \in 0..1 /\ d = 2 * e + t
  BY <1>2
<1> HIDE DEF e, t
<1>4. B * t + r \in 0..(2 * B - 1)
  <2>1. t = 0 \/ t = 1
    BY <1>3
  <2> QED  BY <1>1, <1>2, <2>1
<1>5. n = e * (2 * B) + (B * t + r)
  <2>1. B * (2 * e + t) = e * (2 * B) + B * t
    BY <1>1, <1>3
  <2>2. B * d = e * (2 * B) + B * t
    BY <1>3, <2>1
  <2>3. B * d \in Nat /\ e * (2 * B) \in Nat /\ B * t \in Nat
    BY <1>1, <1>2, <1>3
  <2> QED  BY <1>2, <2>2, <2>3
<1>6. 2 * B \in Nat /\ 2 * B >= 1
  BY <1>1
<1>7. (e * (2 * B) + (B * t + r)) % (2 * B) = B * t + r
  BY <1>3, <1>4, <1>6, DivMod
<1> QED  BY <1>1, <1>5, <1>7 DEF B, d, r, t

\* The bits from a on up to b, of which none is set.
LEMMA NoBitsBetween ==
    ASSUME NEW n \in Nat, NEW a \in Nat, NEW b \in Nat, a <= b,
           \A j \in a..(b - 1) : (n \div BIT(j)) % 2 = 0
    PROVE  n % BIT(b) = n % BIT(a)
<1> DEFINE N == {k \in Nat : a + k <= b => n % BIT(a + k) = n % BIT(a)}
<1>1. 0 \in N
  OBVIOUS
<1>2. ASSUME NEW k \in Nat, k \in N PROVE k + 1 \in N
  <2> SUFFICES ASSUME a + (k + 1) <= b PROVE n % BIT(a + (k + 1)) = n % BIT(a)
    OBVIOUS
  <2> DEFINE j == a + k
  <2>1. j \in a..(b - 1) /\ j \in Nat /\ a + (k + 1) = j + 1 /\ a + k <= b
    OBVIOUS
  <2>2. n % BIT(j) = n % BIT(a)
    BY <1>2, <2>1
  <2>3. (n \div BIT(j)) % 2 = 0
    BY <2>1
  <2> HIDE DEF j
  <2>4. n % BIT(j + 1) = BIT(j) * ((n \div BIT(j)) % 2) + (n % BIT(j))
    BY <2>1, BitStep
  <2>5. BIT(j) \in Nat /\ BIT(j) >= 1 /\ (n % BIT(j)) \in Nat
    <3>1. BIT(j) \in Nat /\ BIT(j) >= 1
      BY <2>1, BitPositive
    <3> QED  BY <3>1
  <2>6. BIT(j) * 0 = 0
    BY <2>5
  <2>7. n % BIT(j + 1) = n % BIT(j)
    BY <2>3, <2>4, <2>5, <2>6
  <2> QED  BY <2>1, <2>2, <2>7
<1>3. Nat \subseteq N
  <2> HIDE DEF N
  <2> QED  BY <1>1, <1>2, InductionSet
<1>4. b - a \in N /\ a + (b - a) = b
  BY <1>3
<1> QED  BY <1>4

(***************************************************************************)
(* The blocks of a request.                                                *)
(***************************************************************************)
ItemsOf(b) == BlockItems(b.lvl, b.order)

LevelBlock == [lvl : 0..3, order : Nat]

\* The sums along a list of blocks.
RunsAlong(g, q) ==
    /\ g \in [0..Len(q) -> Nat] /\ g[0] = 0
    /\ \A i \in 1..Len(q) : g[i] = g[i - 1] + ItemsOf(q[i])

SumsTo(q, s) == \E g : RunsAlong(g, q) /\ g[Len(q)] = s

FallsInSize(q) == \A i, j \in 1..Len(q) : i < j => ItemsOf(q[i]) > ItemsOf(q[j])

\* A list of blocks of X, of lo items or more and falling in size, that are s items.
Cuts(q, X, s, lo) ==
    /\ q \in Seq(X) /\ SumsTo(q, s) /\ FallsInSize(q)
    /\ \A i \in 1..Len(q) : ItemsOf(q[i]) >= lo

LEMMA ItemsOfBlock ==
    ASSUME NEW b \in LevelBlock
    PROVE  /\ ItemsOf(b) \in Nat /\ ItemsOf(b) >= 1
           /\ ItemsOf(b) = BIT(b.order) * block_size(b.lvl)
<1>1. b.lvl \in 0..3 /\ b.order \in Nat
  BY DEF LevelBlock
<1>2. FUNCTION_ITEM_LVL(b.lvl) \in Nat
  BY <1>1, LevelShift
<1>3. BIT(b.order + FUNCTION_ITEM_LVL(b.lvl)) = BIT(b.order) * BIT(FUNCTION_ITEM_LVL(b.lvl))
  BY <1>1, <1>2, BitOfSum
<1> QED  BY <1>1, <1>3, BlockSize DEF ItemsOf, BlockItems, block_size

LEMMA CutsNothing ==
    ASSUME NEW X, NEW lo
    PROVE  Cuts(<<>>, X, 0, lo)
<1> DEFINE g == [i \in 0..0 |-> 0]
<1>1. <<>> \in Seq(X) /\ Len(<<>>) = 0
  OBVIOUS
<1>2. RunsAlong(g, <<>>) /\ g[Len(<<>>)] = 0
  BY <1>1 DEF RunsAlong
<1> QED  BY <1>1, <1>2 DEF Cuts, SumsTo, FallsInSize

\* Smaller blocks may follow.
LEMMA CutsJoin ==
    ASSUME NEW X \in SUBSET LevelBlock, NEW p, NEW q, NEW s \in Nat, NEW t \in Nat,
           NEW lo \in Nat, NEW low \in Nat, low <= lo,
           Cuts(p, X, s, lo), Cuts(q, X, t, low), \A i \in 1..Len(q) : ItemsOf(q[i]) < lo
    PROVE  Cuts(p \o q, X, s + t, low)
<1> DEFINE m == Len(p)
           n == Len(q)
           r == p \o q
<1>1. /\ p \in Seq(X) /\ q \in Seq(X) /\ m \in Nat /\ n \in Nat
      /\ r \in Seq(X) /\ Len(r) = m + n
      /\ \A i \in 1..m : r[i] = p[i]
      /\ \A i \in (m + 1)..(m + n) : r[i] = q[i - m] /\ i - m \in 1..n
  BY DEF Cuts
<1>2. PICK g : RunsAlong(g, p) /\ g[m] = s
  BY DEF Cuts, SumsTo
<1>3. PICK h : RunsAlong(h, q) /\ h[n] = t
  BY DEF Cuts, SumsTo
<1>4. /\ \A i \in 1..m : ItemsOf(p[i]) \in Nat /\ ItemsOf(p[i]) >= lo
      /\ \A i \in 1..n : ItemsOf(q[i]) \in Nat /\ ItemsOf(q[i]) >= low /\ ItemsOf(q[i]) < lo
  <2>1. (\A i \in 1..m : p[i] \in LevelBlock) /\ \A i \in 1..n : q[i] \in LevelBlock
    BY <1>1
  <2> QED  BY <2>1, ItemsOfBlock DEF Cuts
<1> DEFINE k == [i \in 0..(m + n) |-> IF i <= m THEN g[i] ELSE s + h[i - m]]
<1>5. RunsAlong(k, r) /\ k[Len(r)] = s + t
  <2>1. g \in [0..m -> Nat] /\ g[0] = 0 /\ \A i \in 1..m : g[i] = g[i - 1] + ItemsOf(p[i])
    BY <1>2 DEF RunsAlong
  <2>2. h \in [0..n -> Nat] /\ h[0] = 0 /\ \A i \in 1..n : h[i] = h[i - 1] + ItemsOf(q[i])
    BY <1>3 DEF RunsAlong
  <2> HIDE DEF m, n, r
  <2>3. k \in [0..(m + n) -> Nat]
    <3>1. ASSUME NEW i \in 0..(m + n) PROVE (IF i <= m THEN g[i] ELSE s + h[i - m]) \in Nat
      <4>1. CASE i <= m
        BY <1>1, <2>1, <4>1
      <4>2. CASE ~ (i <= m)
        <5>1. i - m \in 0..n
          BY <1>1, <4>2
        <5> QED  BY <2>2, <4>2, <5>1
      <4> QED  BY <4>1, <4>2
    <3> QED  BY <3>1
  <2>4. k[0] = 0
    BY <1>1, <2>1
  <2>5. ASSUME NEW i \in 1..(m + n) PROVE k[i] = k[i - 1] + ItemsOf(r[i])
    <3>1. i - 1 \in 0..(m + n) /\ i \in 0..(m + n)
      BY <1>1
    <3>2. CASE i <= m
      <4>1. k[i] = g[i] /\ k[i - 1] = g[i - 1] /\ r[i] = p[i] /\ i \in 1..m
        BY <1>1, <3>1, <3>2
      <4> QED  BY <2>1, <4>1
    <3>3. CASE i = m + 1
      <4>1. i - m = 1 /\ i - 1 = m /\ i \in (m + 1)..(m + n) /\ ~ (i <= m)
        BY <1>1, <3>3
      <4>2. k[i] = s + h[i - m] /\ k[i - 1] = g[i - 1] /\ r[i] = q[i - m] /\ i - m \in 1..n
        BY <1>1, <3>1, <4>1
      <4>3. k[i] = s + h[1] /\ k[i - 1] = s /\ r[i] = q[1] /\ 1 \in 1..n
        BY <1>2, <4>1, <4>2
      <4> HIDE DEF k
      <4>4. h[1] = h[1 - 1] + ItemsOf(q[1]) /\ h[1 - 1] = 0 /\ ItemsOf(q[1]) \in Nat
        BY <1>4, <2>2, <4>3
      <4> QED  BY <4>3, <4>4
    <3>4. CASE i > m + 1
      <4>1. /\ i - m \in 1..n /\ (i - m) - 1 \in 0..n /\ (i - 1) - m = (i - m) - 1
            /\ k[i] = s + h[i - m] /\ k[i - 1] = s + h[(i - m) - 1] /\ r[i] = q[i - m]
        <5>1. /\ i - m \in 1..n /\ (i - m) - 1 \in 0..n /\ (i - 1) - m = (i - m) - 1
              /\ i \in (m + 1)..(m + n) /\ ~ (i <= m) /\ ~ (i - 1 <= m)
          BY <1>1, <3>4
        <5>2. k[i] = s + h[i - m] /\ k[i - 1] = s + h[(i - 1) - m]
          BY <3>1, <5>1
        <5> QED  BY <1>1, <5>1, <5>2
      <4>2. h[i - m] = h[(i - m) - 1] + ItemsOf(q[i - m]) /\ h[(i - m) - 1] \in Nat
            /\ ItemsOf(q[i - m]) \in Nat
        BY <1>4, <2>2, <4>1
      <4> QED  BY <4>1, <4>2
    <3> QED  BY <1>1, <3>2, <3>3, <3>4
  <2>6. k[m + n] = s + t
    <3>1. CASE n = 0
      <4>1. k[m + n] = g[m] /\ t = 0
        BY <1>1, <1>3, <2>2, <3>1
      <4> QED  BY <1>2, <4>1
    <3>2. CASE n # 0
      <4>1. k[m + n] = s + h[(m + n) - m] /\ (m + n) - m = n
        BY <1>1, <3>2
      <4> QED  BY <1>3, <4>1
    <3> QED  BY <3>1, <3>2
  <2> HIDE DEF k
  <2> QED  BY <1>1, <2>3, <2>4, <2>5, <2>6 DEF RunsAlong
<1> HIDE DEF k
<1>6. SumsTo(r, s + t)
  BY <1>5 DEF SumsTo
<1>7. ASSUME NEW i \in 1..(m + n), NEW j \in 1..(m + n), i < j
      PROVE  ItemsOf(r[i]) > ItemsOf(r[j])
  <2> HIDE DEF m, n, r
  <2>1. CASE j <= m
    <3>1. i \in 1..m /\ j \in 1..m /\ r[i] = p[i] /\ r[j] = p[j]
      BY <1>1, <1>7, <2>1
    <3> QED  BY <1>7, <3>1 DEF Cuts, FallsInSize, m
  <2>2. CASE i <= m /\ j > m
    <3>1. r[i] = p[i] /\ r[j] = q[j - m] /\ i \in 1..m /\ j - m \in 1..n
      BY <1>1, <2>2
    <3> QED  BY <1>4, <3>1
  <2>3. CASE i > m
    <3>1. i \in (m + 1)..(m + n) /\ j \in (m + 1)..(m + n) /\ i - m < j - m
      BY <1>1, <1>7, <2>3
    <3>2. r[i] = q[i - m] /\ r[j] = q[j - m] /\ i - m \in 1..n /\ j - m \in 1..n
      BY <1>1, <3>1
    <3> QED  BY <3>1, <3>2 DEF Cuts, FallsInSize, n
  <2> QED  BY <1>1, <2>1, <2>2, <2>3
<1>8. ASSUME NEW i \in 1..(m + n) PROVE ItemsOf(r[i]) >= low
  <2> HIDE DEF m, n, r
  <2>1. CASE i <= m
    BY <1>1, <1>4, <2>1
  <2>2. CASE i > m
    BY <1>1, <1>4, <2>2
  <2> QED  BY <1>1, <2>1, <2>2
<1> QED  BY <1>1, <1>6, <1>7, <1>8 DEF Cuts, FallsInSize

\* The bits of a number from the highest on.
IsDescending(r, S) ==
    /\ r \in Seq(S)
    /\ \A i, j \in 1..Len(r) : i < j => r[i] > r[j]
    /\ \A b \in S : \E i \in 1..Len(r) : r[i] = b

LEMMA FallingBits ==
    ASSUME NEW k \in Nat
    PROVE  IsDescending(Reverse(Ascending(OneBits(k))), OneBits(k))
<1> DEFINE r == Reverse(Ascending(OneBits(k)))
           S == OneBits(k)
           c == Cardinality(S)
           q == Ascending(S)
<1>1. S \in SUBSET (0..MaxShift) /\ S \in SUBSET Nat
  BY DEF OneBits, MaxShift
<1>2. IsFiniteSet(S)
  <2>1. 0 \in Int /\ MaxShift \in Int
    BY DEF MaxShift
  <2>2. IsFiniteSet(0..MaxShift)
    BY <2>1, FS_Interval
  <2> QED  BY <1>1, <2>2, FS_Subset
<1>3. /\ c \in Nat /\ q \in [1..c -> S]
      /\ \A i, j \in 1..c : i < j => q[i] < q[j]
      /\ \A x \in S : \E i \in 1..c : q[i] = x
  BY <1>1, <1>2, AscendingIs
<1> HIDE DEF c, q, S
<1>4. q \in Seq(S) /\ Len(q) = c
  BY <1>3
<1>5. r = [i \in 1..c |-> q[(c - i) + 1]]
  BY <1>4 DEF Reverse, q, S
<1> HIDE DEF r
<1>6. \A i \in 1..c : (c - i) + 1 \in 1..c /\ r[i] = q[(c - i) + 1] /\ r[i] \in S
  BY <1>3, <1>5
<1>7. r \in Seq(S) /\ Len(r) = c
  BY <1>3, <1>5, <1>6
<1>8. ASSUME NEW i \in 1..c, NEW j \in 1..c, i < j PROVE r[i] > r[j]
  <2>1. (c - j) + 1 < (c - i) + 1
    BY <1>3, <1>8
  <2>2. q[(c - j) + 1] < q[(c - i) + 1]
    BY <1>3, <1>6, <2>1
  <2>3. r[j] < r[i] /\ r[i] \in Nat /\ r[j] \in Nat
    BY <1>1, <1>6, <2>2
  <2> QED  BY <2>3
<1>9. ASSUME NEW b \in S PROVE \E i \in 1..c : r[i] = b
  <2>1. PICK i \in 1..c : q[i] = b
    BY <1>3
  <2>2. (c - i) + 1 \in 1..c /\ (c - ((c - i) + 1)) + 1 = i
    BY <1>3
  <2> QED  BY <1>6, <2>1, <2>2
<1>10. IsDescending(r, S)
  BY <1>7, <1>8, <1>9 DEF IsDescending
<1> QED  BY <1>10 DEF r, S

\* The bits above place i of the list, or all that there may be, are its head.
Place(r, i) == IF i = 0 THEN MaxShift + 1 ELSE r[i]

LEMMA BitsAreSummed ==
    ASSUME NEW k \in Nat, k < BIT(MaxShift + 1), NEW r, r = Reverse(Ascending(OneBits(k)))
    PROVE  /\ \A i \in 0..Len(r) : Place(r, i) \in Nat /\ (k % BIT(Place(r, i))) \in 0..k
           /\ (k % BIT(Place(r, 0))) = k /\ (k % BIT(Place(r, Len(r)))) = 0
           /\ \A i \in 1..Len(r) :
                (k % BIT(Place(r, i - 1))) = BIT(r[i]) + (k % BIT(Place(r, i)))
<1> DEFINE c == Len(r)
<1>1. /\ r \in Seq(OneBits(k)) /\ c \in Nat
      /\ \A i, j \in 1..c : i < j => r[i] > r[j]
      /\ \A b \in OneBits(k) : \E i \in 1..c : r[i] = b
  <2>1. IsDescending(r, OneBits(k))
    BY FallingBits
  <2>2. r \in Seq(OneBits(k))
    BY <2>1 DEF IsDescending
  <2>3. c \in Nat
    BY <2>2
  <2> QED  BY <2>1, <2>3 DEF IsDescending
<1>3. MaxShift \in Nat /\ MaxShift + 1 \in Nat
  BY DEF MaxShift
<1>2. \A i \in 1..c : /\ r[i] \in OneBits(k) /\ r[i] \in Nat /\ r[i] <= MaxShift
                      /\ (k \div BIT(r[i])) % 2 = 1
  <2>1. \A b \in OneBits(k) : b \in Nat /\ b <= MaxShift /\ (k \div BIT(b)) % 2 = 1
    BY <1>3 DEF OneBits
  <2>2. \A i \in 1..c : r[i] \in OneBits(k)
    BY <1>1
  <2> QED  BY <2>1, <2>2
<1>4. \A b \in Nat : BIT(b) \in Nat /\ BIT(b) >= 1
  BY BitPositive
<1> HIDE DEF c
<1>5. ASSUME NEW i \in 0..c PROVE Place(r, i) \in Nat /\ (k % BIT(Place(r, i))) \in 0..k
  <2>1. Place(r, i) \in Nat
    BY <1>1, <1>2, <1>3 DEF Place
  <2>2. BIT(Place(r, i)) \in Nat /\ BIT(Place(r, i)) >= 1
    BY <1>4, <2>1
  <2> DEFINE B == BIT(Place(r, i))
  <2> HIDE DEF B
  <2>3. ASSUME B \in Nat, B >= 1 PROVE (k % B) \in 0..k
    <3>1. (k \div B) \in Nat /\ (k % B) \in Nat /\ k = B * (k \div B) + (k % B)
      BY <2>3
    <3>2. B * (k \div B) \in Nat
      BY <2>3, <3>1
    <3> QED  BY <3>1, <3>2
  <2> QED  BY <2>1, <2>2, <2>3 DEF B
<1>6. (k % BIT(Place(r, 0))) = k
  <2>1. k \in 0..(BIT(MaxShift + 1) - 1) /\ 0 * BIT(MaxShift + 1) + k = k
    BY <1>3, <1>4
  <2>2. k % BIT(MaxShift + 1) = k
    BY <1>3, <1>4, <2>1, DivMod
  <2> QED  BY <2>2 DEF Place
<1>7. (k % BIT(Place(r, c))) = 0
  <2> DEFINE b == Place(r, c)
  <2>1. b \in Nat /\ b <= MaxShift + 1 /\ 0 \in Nat /\ 0 <= b
    BY <1>1, <1>2, <1>3 DEF Place
  <2>2. ASSUME NEW j \in 0..(b - 1) PROVE (k \div BIT(j)) % 2 = 0
    <3> SUFFICES ASSUME (k \div BIT(j)) % 2 # 0 PROVE FALSE
      OBVIOUS
    <3>1. j \in 0..MaxShift /\ j \in Nat /\ j < b
      BY <1>3, <2>1
    <3>2. (k \div BIT(j)) \in Nat
      BY <1>4, <3>1
    <3>3. (k \div BIT(j)) % 2 = 1
      BY <3>2
    <3>4. j \in OneBits(k)
      BY <3>1, <3>3 DEF OneBits
    <3>5. PICK x \in 1..c : r[x] = j
      BY <1>1, <3>4
    <3>6. c # 0 /\ b = r[c] /\ c \in 1..c
      BY <1>1, <3>5 DEF Place
    <3>7. x = c \/ x < c
      BY <1>1, <3>5
    <3>8. r[x] >= r[c]
      BY <1>1, <1>2, <3>6, <3>7
    <3> HIDE DEF b
    <3> QED  BY <2>1, <3>1, <3>5, <3>6, <3>8
  <2> HIDE DEF b
  <2>3. k % BIT(b) = k % BIT(0)
    BY <2>1, <2>2, NoBitsBetween
  <2>4. BIT(0) = 1 /\ k % 1 = 0
    BY DEF BIT
  <2> QED  BY <2>3, <2>4 DEF b
<1>8. ASSUME NEW i \in 1..c
      PROVE  (k % BIT(Place(r, i - 1))) = BIT(r[i]) + (k % BIT(Place(r, i)))
  <2> DEFINE a == Place(r, i - 1)
             b == r[i]
  <2>1. i - 1 \in 0..c /\ b \in Nat /\ b <= MaxShift /\ Place(r, i) = b /\ (k \div BIT(b)) % 2 = 1
    BY <1>1, <1>2 DEF Place
  <2>2. a \in Nat /\ a <= MaxShift + 1 /\ b + 1 <= a /\ b + 1 \in Nat
    <3>1. CASE i = 1
      BY <1>3, <2>1, <3>1 DEF Place
    <3>2. CASE i # 1
      <4>1. i - 1 \in 1..c /\ i - 1 < i
        BY <1>1, <3>2
      <4>2. a = r[i - 1]
        BY <4>1 DEF Place
      <4>3. r[i - 1] > r[i]
        BY <1>1, <4>1
      <4> QED  BY <1>2, <1>3, <2>1, <4>1, <4>2, <4>3
    <3> QED  BY <3>1, <3>2
  <2>3. ASSUME NEW j \in (b + 1)..(a - 1) PROVE (k \div BIT(j)) % 2 = 0
    <3> SUFFICES ASSUME (k \div BIT(j)) % 2 # 0 PROVE FALSE
      OBVIOUS
    <3>1. j \in 0..MaxShift /\ j \in Nat /\ j < a /\ b < j
      BY <1>3, <2>1, <2>2
    <3>2. (k \div BIT(j)) \in Nat
      BY <1>4, <3>1
    <3>3. (k \div BIT(j)) % 2 = 1
      BY <3>2
    <3>4. j \in OneBits(k)
      BY <3>1, <3>3 DEF OneBits
    <3>5. PICK x \in 1..c : r[x] = j
      BY <1>1, <3>4
    <3>6. x < i
      <4>1. ASSUME i < x PROVE FALSE
        BY <1>1, <1>2, <3>1, <3>5, <4>1
      <4> QED  BY <3>1, <3>5, <4>1
    <3>7. i # 1 /\ i - 1 \in 1..c /\ a = r[i - 1] /\ (x = i - 1 \/ x < i - 1)
      BY <1>1, <3>6 DEF Place
    <3>8. r[x] >= r[i - 1]
      BY <1>1, <1>2, <3>7
    <3> HIDE DEF a
    <3> QED  BY <2>2, <3>1, <3>5, <3>7, <3>8
  <2> HIDE DEF a, b
  <2>4. k % BIT(a) = k % BIT(b + 1)
    BY <2>2, <2>3, NoBitsBetween
  <2>5. k % BIT(b + 1) = BIT(b) * ((k \div BIT(b)) % 2) + (k % BIT(b))
    BY <2>1, BitStep
  <2>6. BIT(b) * 1 = BIT(b)
    BY <1>4, <2>1
  <2> QED  BY <2>1, <2>4, <2>5, <2>6 DEF a, b
<1> QED  BY <1>5, <1>6, <1>7, <1>8 DEF c

(***************************************************************************)
(* The part of a request that one level has.                               *)
(***************************************************************************)
BlocksOfOrders(l, orders) == [j \in DOMAIN orders |-> [lvl |-> l, order |-> orders[j]]]

\* A level's part: k blocks of order 0, none of them larger than all of it.
PartFits(q, X, l, k) ==
    /\ Cuts(q, X, k * block_size(l), block_size(l))
    /\ \A i \in 1..Len(q) : ItemsOf(q[i]) <= k * block_size(l)

LEMMA NoPart ==
    ASSUME NEW X, NEW l \in 0..3, NEW comb
    PROVE  PartFits(BlocksOfOrders(l, LvlOrders(0, comb)), X, l, 0)
<1> DEFINE q == BlocksOfOrders(l, LvlOrders(0, comb))
<1>1. q = <<>>
  <2>1. LvlOrders(0, comb) = <<>>
    BY DEF LvlOrders
  <2> QED  BY <2>1 DEF BlocksOfOrders
<1>2. block_size(l) \in Nat /\ 0 * block_size(l) = 0
  <2>1. block_size(l) \in Nat
    BY BlockSizeOf
  <2> QED  BY <2>1
<1>3. Cuts(<<>>, X, 0, block_size(l)) /\ Len(<<>>) = 0
  BY CutsNothing
<1> HIDE DEF q
<1>4. PartFits(q, X, l, 0)
  BY <1>1, <1>2, <1>3 DEF PartFits
<1> QED  BY <1>4 DEF q

\* A combined request: a block for every bit.
LEMMA CombinedPart ==
    ASSUME NEW l \in 0..3, NEW k \in Nat, k < BIT(MaxShift + 1)
    PROVE  PartFits(BlocksOfOrders(l, LvlOrders(k, TRUE)), {b \in LevelBlock : b.lvl = l}, l, k)
<1>1. CASE k = 0
  BY <1>1, NoPart
<1>2. CASE k # 0
  <2> DEFINE r == Reverse(Ascending(OneBits(k)))
             c == Len(r)
             q == BlocksOfOrders(l, r)
             X == {b \in LevelBlock : b.lvl = l}
             s == block_size(l)
             rem(i) == k % BIT(Place(r, i))
  <2>1. LvlOrders(k, TRUE) = r
    BY <1>2 DEF LvlOrders
  <2>2. /\ r \in Seq(OneBits(k)) /\ c \in Nat
        /\ \A i, j \in 1..c : i < j => r[i] > r[j]
    <3>1. IsDescending(r, OneBits(k))
      BY FallingBits
    <3> HIDE DEF r
    <3>2. r \in Seq(OneBits(k))
      BY <3>1 DEF IsDescending
    <3>3. c \in Nat
      BY <3>2
    <3> QED  BY <3>1, <3>3 DEF IsDescending
  <2>3. /\ \A i \in 0..c : rem(i) \in 0..k
        /\ rem(0) = k /\ rem(c) = 0
        /\ \A i \in 1..c : rem(i - 1) = BIT(r[i]) + rem(i)
    BY BitsAreSummed
  <2> HIDE DEF r, rem
  <2>4. s \in Nat /\ s >= 1
    BY BlockSizeOf
  <2> HIDE DEF s
  <2>5. \A i \in 1..c : r[i] \in Nat /\ BIT(r[i]) \in Nat /\ BIT(r[i]) >= 1
    <3>1. \A b \in OneBits(k) : b \in Nat
      BY DEF OneBits, MaxShift
    <3>2. \A i \in 1..c : r[i] \in OneBits(k)
      BY <2>2
    <3> QED  BY <3>1, <3>2, BitPositive
  <2>6. /\ q \in Seq(X) /\ Len(q) = c
        /\ \A i \in 1..c : q[i] = [lvl |-> l, order |-> r[i]] /\ ItemsOf(q[i]) = BIT(r[i]) * s
    <3>1. DOMAIN r = 1..c
      BY <2>2
    <3>2. q = [j \in 1..c |-> [lvl |-> l, order |-> r[j]]]
      BY <3>1 DEF BlocksOfOrders
    <3>3. \A i \in 1..c : [lvl |-> l, order |-> r[i]] \in X
      BY <2>5 DEF LevelBlock
    <3> HIDE DEF c, X
    <3>4. q \in Seq(X) /\ Len(q) = c /\ \A i \in 1..c : q[i] = [lvl |-> l, order |-> r[i]]
      <4> HIDE DEF q
      <4> QED  BY <2>2, <3>2, <3>3
    <3> HIDE DEF q
    <3>5. ASSUME NEW i \in 1..c PROVE ItemsOf(q[i]) = BIT(r[i]) * s
      <4>1. q[i] \in LevelBlock /\ q[i].lvl = l /\ q[i].order = r[i]
        BY <3>3, <3>4 DEF X
      <4> QED  BY <4>1, ItemsOfBlock DEF s
    <3> QED  BY <3>4, <3>5
  <2> HIDE DEF q, c, X
  <2> DEFINE g == [i \in 0..c |-> (k - rem(i)) * s]
  <2>7. g \in [0..c -> Nat] /\ g[0] = 0 /\ g[c] = k * s
    <3>1. \A i \in 0..c : (k - rem(i)) * s \in Nat
      BY <2>3, <2>4
    <3>2. (k - k) * s = 0 /\ (k - 0) * s = k * s
      BY <2>4
    <3>3. 0 \in 0..c /\ c \in 0..c
      BY <2>2
    <3>4. g[0] = (k - rem(0)) * s /\ g[c] = (k - rem(c)) * s
      BY <3>3
    <3> QED  BY <2>3, <3>1, <3>2, <3>4
  <2>8. ASSUME NEW i \in 1..c PROVE g[i] = g[i - 1] + ItemsOf(q[i])
    <3>1. i \in 0..c /\ i - 1 \in 0..c
      BY <2>2
    <3>2. g[i] = (k - rem(i)) * s /\ g[i - 1] = (k - rem(i - 1)) * s
      BY <3>1
    <3>3. k - rem(i) = (k - rem(i - 1)) + BIT(r[i]) /\ k - rem(i - 1) \in Nat
      BY <2>3, <2>5, <3>1
    <3>4. \A x, y \in Nat : (x + y) * s = x * s + y * s
      BY <2>4
    <3> HIDE DEF g
    <3> QED  BY <2>5, <2>6, <3>2, <3>3, <3>4
  <2> HIDE DEF g
  <2>9. SumsTo(q, k * s)
    BY <2>6, <2>7, <2>8 DEF SumsTo, RunsAlong
  <2>10. FallsInSize(q)
    <3> SUFFICES ASSUME NEW i \in 1..c, NEW j \in 1..c, i < j PROVE BIT(r[i]) * s > BIT(r[j]) * s
      BY <2>6 DEF FallsInSize
    <3>1. r[j] < r[i] /\ r[i] \in Nat /\ r[j] \in Nat
      BY <2>2, <2>5
    <3>2. BIT(r[j]) < BIT(r[i]) /\ BIT(r[j]) \in Nat /\ BIT(r[i]) \in Nat
      BY <2>5, <3>1, BitMonotone
    <3>3. \A x, y \in Nat : x < y => x * s < y * s
      BY <2>4
    <3>4. BIT(r[j]) * s \in Nat /\ BIT(r[i]) * s \in Nat
      BY <2>4, <3>2
    <3> QED  BY <3>2, <3>3, <3>4
  <2>11. ASSUME NEW i \in 1..c PROVE ItemsOf(q[i]) >= s /\ ItemsOf(q[i]) <= k * s
    <3>1. i \in 0..c /\ i - 1 \in 0..c
      BY <2>2
    <3>2. BIT(r[i]) <= k /\ BIT(r[i]) >= 1 /\ BIT(r[i]) \in Nat
      BY <2>3, <2>5, <3>1
    <3>3. \A x, y \in Nat : x <= y => x * s <= y * s
      BY <2>4
    <3>4. 1 * s <= BIT(r[i]) * s /\ BIT(r[i]) * s <= k * s /\ 1 * s = s
      BY <2>4, <3>2, <3>3
    <3>5. BIT(r[i]) * s \in Nat /\ k * s \in Nat
      BY <2>4, <3>2
    <3> QED  BY <2>4, <2>6, <3>4, <3>5
  <2>12. PartFits(q, X, l, k)
    BY <2>6, <2>9, <2>10, <2>11 DEF PartFits, Cuts, s
  <2> QED  BY <2>1, <2>12 DEF q, X
<1> QED  BY <1>1, <1>2

\* The order of a power of two.
LEMMA OrderOfPower ==
    ASSUME NEW p \in 0..MaxShift
    PROVE  item_to_order(BIT(p)) = p
<1>1. p \in Nat /\ BIT(p) \in Nat /\ BIT(p) >= 1 /\ BIT(p + 1) = 2 * BIT(p)
  <2>1. p \in Nat
    BY DEF MaxShift
  <2> QED  BY <2>1, BitPositive, BitDoubles
<1>2. fls(BIT(p)) = p + 1
  <2>1. BIT(p) <= BIT(p) /\ BIT(p) < BIT(p + 1)
    BY <1>1
  <2> QED  BY <1>1, <2>1, FlsBounds
<1>3. (p + 1) - 1 = p /\ BIT(p) # 0
  BY <1>1
<1> DEFINE f == fls(BIT(p))
<1>4. item_to_order(BIT(p)) = (IF BIT(p) > BIT(f - 1) THEN f ELSE f - 1)
  BY <1>3 DEF item_to_order
<1> HIDE DEF f
<1>5. f - 1 = p
  BY <1>2, <1>3 DEF f
<1> QED  BY <1>1, <1>4, <1>5

\* A request that is not combined: one block, exact for a power of two.
LEMMA SinglePart ==
    ASSUME NEW l \in 0..3, NEW p \in 0..MaxShift
    PROVE  PartFits(BlocksOfOrders(l, LvlOrders(BIT(p), FALSE)),
                    {b \in LevelBlock : b.lvl = l /\ ItemsOf(b) = BIT(p) * block_size(l)}, l, BIT(p))
<1> DEFINE s == block_size(l)
           b == [lvl |-> l, order |-> p]
           q == BlocksOfOrders(l, LvlOrders(BIT(p), FALSE))
           X == {x \in LevelBlock : x.lvl = l /\ ItemsOf(x) = BIT(p) * s}
<1>1. p \in Nat /\ BIT(p) \in Nat /\ BIT(p) >= 1 /\ s \in Nat /\ s >= 1
  <2>1. p \in Nat
    BY DEF MaxShift
  <2> QED  BY <2>1, BitPositive, BlockSizeOf
<1>2. LvlOrders(BIT(p), FALSE) = <<p>>
  BY <1>1, OrderOfPower DEF LvlOrders
<1>3. q = <<b>>
  <2> DEFINE o == <<p>>
  <2>1. DOMAIN o = 1..1 /\ \A j \in 1..1 : j = 1 /\ o[j] = p
    OBVIOUS
  <2> HIDE DEF o
  <2>2. q = [j \in 1..1 |-> [lvl |-> l, order |-> o[j]]]
    BY <1>2, <2>1 DEF BlocksOfOrders, o
  <2>3. q = [j \in 1..1 |-> b]
    BY <2>1, <2>2
  <2> HIDE DEF q, b
  <2>4. <<b>> = [j \in 1..1 |-> b]
    OBVIOUS
  <2> QED  BY <2>3, <2>4
<1>4. b \in LevelBlock /\ b.lvl = l /\ b.order = p
  BY <1>1 DEF LevelBlock
<1>5. ItemsOf(b) = BIT(p) * s /\ ItemsOf(b) \in Nat /\ ItemsOf(b) >= s
  <2>1. ItemsOf(b) = BIT(p) * s
    BY <1>4, ItemsOfBlock
  <2>2. \A x \in Nat : x >= 1 => x * s >= s /\ x * s \in Nat
    BY <1>1
  <2> HIDE DEF s, b
  <2> QED  BY <1>1, <2>1, <2>2
<1>6. b \in X
  BY <1>4, <1>5
<1> HIDE DEF b, s, q, X
<1>7. Len(q) = 1 /\ q[1] = b /\ q \in Seq(X)
  BY <1>3, <1>6
<1> DEFINE g == [i \in 0..1 |-> IF i = 0 THEN 0 ELSE BIT(p) * s]
<1>8. RunsAlong(g, q) /\ g[1] = BIT(p) * s
  <2>1. g \in [0..1 -> Nat] /\ g[0] = 0 /\ g[1] = BIT(p) * s
    BY <1>1
  <2> HIDE DEF g
  <2>2. g[1] = g[1 - 1] + ItemsOf(q[1])
    BY <1>1, <1>5, <1>7, <2>1
  <2>3. \A i \in 1..1 : i = 1
    OBVIOUS
  <2> QED  BY <1>7, <2>1, <2>2, <2>3 DEF RunsAlong
<1> HIDE DEF g
<1>9. SumsTo(q, BIT(p) * s)
  BY <1>7, <1>8 DEF SumsTo
<1>10. \A i \in 1..Len(q) : i = 1 /\ ItemsOf(q[i]) >= s /\ ItemsOf(q[i]) <= BIT(p) * s
  BY <1>5, <1>7
<1>11. FallsInSize(q)
  BY <1>10 DEF FallsInSize
<1>12. PartFits(q, X, l, BIT(p))
  BY <1>7, <1>9, <1>10, <1>11 DEF PartFits, Cuts, s
<1> QED  BY <1>12 DEF q, X, s

\* FlattenSeq, part after part.
IsFlattening(f, X, m, q) ==
    /\ f \in [1..m -> Seq(X)] /\ f[1] = q[1]
    /\ \A i \in 2..m : f[i] = f[i - 1] \o q[i]
    /\ FlattenSeq(q) = f[m]

LEMMA FlattenIs ==
    ASSUME NEW X, NEW m \in Nat \ {0}, NEW q, q \in [1..m -> Seq(X)]
    PROVE  \E f : IsFlattening(f, X, m, q)
<1> DEFINE S == Seq(X)
           h == [x \in Nat \X S |-> IF x[1] + 1 \in 1..m THEN x[2] \o q[x[1] + 1] ELSE x[2]]
           IsFlat(f) == f = [i \in 1..m |-> IF i = 1 THEN q[i] ELSE f[i - 1] \o q[i]]
<1>1. <<>> \in S
  OBVIOUS
<1>2. IsStep(h, S)
  <2>1. ASSUME NEW x \in Nat \X S
        PROVE  (IF x[1] + 1 \in 1..m THEN x[2] \o q[x[1] + 1] ELSE x[2]) \in S
    <3>1. x[2] \in S
      OBVIOUS
    <3>2. \A a, b \in S : a \o b \in S
      OBVIOUS
    <3>3. x[1] + 1 \in 1..m => q[x[1] + 1] \in S
      OBVIOUS
    <3> HIDE DEF S
    <3> QED  BY <3>1, <3>2, <3>3
  <2> HIDE DEF S
  <2>2. h \in [Nat \X S -> S]
    BY <2>1
  <2> QED  BY <2>2 DEF IsStep
<1>3. PICK g : IsRecursion(g, S, <<>>, h)
  <2> HIDE DEF S, h
  <2> QED  BY <1>1, <1>2, RecursionExists
<1>4. /\ g \in [Nat -> S] /\ g[0] = <<>>
      /\ \A i \in 1..m : g[i] = g[i - 1] \o q[i]
  <2>1. g \in [Nat -> S] /\ g[0] = <<>> /\ \A i \in Nat : g[i + 1] = h[<<i, g[i]>>]
    <3> HIDE DEF S, h
    <3> QED  BY <1>3 DEF IsRecursion
  <2> HIDE DEF S
  <2>2. ASSUME NEW i \in 1..m PROVE g[i] = g[i - 1] \o q[i]
    <3> DEFINE j == i - 1
    <3>1. j \in Nat /\ j + 1 = i /\ j + 1 \in 1..m
      OBVIOUS
    <3> HIDE DEF j
    <3>2. g[j] \in S
      BY <2>1, <3>1
    <3>3. <<j, g[j]>> \in Nat \X S
      BY <3>1, <3>2
    <3>4. h[<<j, g[j]>>] = g[j] \o q[j + 1]
      BY <3>1, <3>3
    <3>5. g[j + 1] = g[j] \o q[j + 1]
      <4> HIDE DEF h
      <4> QED  BY <2>1, <3>1, <3>4
    <3> QED  BY <3>1, <3>5 DEF j
  <2> HIDE DEF h
  <2> QED  BY <2>1, <2>2
<1> DEFINE k == [i \in 1..m |-> g[i]]
<1>12. g[1] = q[1] /\ 1 \in 1..m
  <2>1. 1 \in 1..m /\ 1 - 1 = 0
    OBVIOUS
  <2>2. g[1] = g[1 - 1] \o q[1]
    BY <1>4, <2>1
  <2>3. q[1] \in Seq(X)
    BY <2>1
  <2>4. \A z \in Seq(X) : <<>> \o z = z
    OBVIOUS
  <2> QED  BY <1>4, <2>1, <2>2, <2>3, <2>4
<1>5. IsFlat(k)
  <2>1. ASSUME NEW i \in 1..m PROVE k[i] = IF i = 1 THEN q[i] ELSE k[i - 1] \o q[i]
    <3>1. CASE i = 1
      BY <1>12, <3>1
    <3>2. CASE i # 1
      <4>1. i - 1 \in 1..m
        BY <3>2
      <4> QED  BY <1>4, <3>2, <4>1
    <3> QED  BY <3>1, <3>2
  <2> QED  BY <2>1
<1> DEFINE f == CHOOSE x : IsFlat(x)
<1>6. IsFlat(f)
  <2> HIDE DEF IsFlat, k
  <2> QED  BY <1>5
<1>7. FlattenSeq(q) = f[m]
  <2>1. Len(q) = m /\ Len(q) # 0
    OBVIOUS
  <2> QED  BY <2>1 DEF FlattenSeq
<1>8. \A i \in 1..m : f[i] = g[i]
  <2> HIDE DEF f
  <2> DEFINE N == {i \in Nat : i + 1 <= m => f[i + 1] = g[i + 1]}
  <2>1. 0 \in N
    <3>1. 1 \in 1..m /\ 0 + 1 = 1
      OBVIOUS
    <3>2. f[1] = q[1]
      BY <1>6, <3>1
    <3> QED  BY <1>12, <3>1, <3>2
  <2>2. ASSUME NEW i \in Nat, i \in N PROVE i + 1 \in N
    <3> SUFFICES ASSUME (i + 1) + 1 <= m PROVE f[(i + 1) + 1] = g[(i + 1) + 1]
      OBVIOUS
    <3>1. f[i + 1] = g[i + 1]
      BY <2>2
    <3> DEFINE j == (i + 1) + 1
    <3>2. j \in 1..m /\ j # 1 /\ j - 1 = i + 1
      OBVIOUS
    <3> HIDE DEF j
    <3>3. f[j] = f[j - 1] \o q[j]
      BY <1>6, <3>2
    <3>4. g[j] = g[j - 1] \o q[j]
      BY <1>4, <3>2
    <3>5. f[j] = g[j]
      BY <3>1, <3>2, <3>3, <3>4
    <3> QED  BY <3>5 DEF j
  <2>3. Nat \subseteq N
    <3> HIDE DEF N
    <3> QED  BY <2>1, <2>2, InductionSet
  <2>4. ASSUME NEW i \in 1..m PROVE f[i] = g[i]
    <3>1. i - 1 \in Nat /\ (i - 1) + 1 = i /\ (i - 1) + 1 <= m
      OBVIOUS
    <3>2. i - 1 \in N
      BY <2>3, <3>1
    <3> QED  BY <3>1, <3>2
  <2> QED  BY <2>4
<1>9. f = [i \in 1..m |-> f[i]]
  <2> HIDE DEF f
  <2> QED  BY <1>6
<1> HIDE DEF f
<1>10. f \in [1..m -> Seq(X)]
  BY <1>4, <1>8, <1>9
<1>11. f[1] = q[1] /\ \A i \in 2..m : f[i] = f[i - 1] \o q[i]
  <2>1. 1 \in 1..m /\ \A i \in 2..m : i \in 1..m /\ i # 1
    OBVIOUS
  <2> QED  BY <1>6, <2>1
<1> QED  BY <1>7, <1>10, <1>11 DEF IsFlattening

(***************************************************************************)
(* All the levels.                                                         *)
(***************************************************************************)
LevelPart(n, first, l, comb) ==
    BlocksOfOrders(l, LvlOrders(lvl_nitem(n, first, l), comb))

PartsFit(n, first, comb, X) ==
    \A l \in first..3 : PartFits(LevelPart(n, first, l, comb), X, l, lvl_nitem(n, first, l))

LEMMA PartWidens ==
    ASSUME NEW X, NEW Y, X \subseteq Y, NEW q, NEW l, NEW k, PartFits(q, X, l, k)
    PROVE  PartFits(q, Y, l, k)
<1>1. q \in Seq(X)
  BY DEF PartFits, Cuts
<1>2. q \in Seq(Y)
  BY <1>1
<1> QED  BY <1>2 DEF PartFits, Cuts

\* What a level has to cut and what it leaves.
LEMMA LevelCuts ==
    ASSUME NEW n \in Nat, NEW first \in 0..3, NEW l \in first..3
    PROVE  /\ lvl_nitem(n, first, l) \in 0..n
           /\ (n % block_size(l)) \in 0..n
           /\ l = first => lvl_nitem(n, first, l) * block_size(l) = n - (n % block_size(l))
           /\ l # first =>
                /\ (n % block_size(l - 1)) \in 0..(block_size(l - 1) - 1)
                /\ block_size(l) <= block_size(l - 1)
                /\ lvl_nitem(n, first, l) * block_size(l) <= n % block_size(l - 1)
                /\ lvl_nitem(n, first, l) * block_size(l)
                     = (n % block_size(l - 1)) - (n % block_size(l))
<1> DEFINE s == block_size(l)
           b == block_size(l - 1)
           k == lvl_nitem(n, first, l)
<1>1. l \in 0..3 /\ s \in Nat /\ s >= 1
  BY BlockSizeOf
<1>2. ASSUME NEW x \in Nat, NEW d \in Nat, d >= 1
      PROVE  /\ x \div d \in 0..x /\ (x % d) \in 0..x /\ (x % d) \in 0..(d - 1)
             /\ (x \div d) * d = x - (x % d)
  <2>1. x \div d \in Nat /\ (x % d) \in Nat /\ (x % d) <= d - 1 /\ x = d * (x \div d) + (x % d)
    BY <1>2
  <2> DEFINE y == x \div d
             z == x % d
  <2> HIDE DEF y, z
  <2>2. ASSUME y \in Nat, z \in Nat, x = d * y + z
        PROVE  y <= x /\ z <= x /\ y * d = x - z
    <3>1. d * y \in Nat /\ d * y = y * d /\ d * y >= y
      BY <1>2, <2>2
    <3> QED  BY <2>2, <3>1
  <2> QED  BY <2>1, <2>2 DEF y, z
<1>3. CASE l = first
  <2>1. k = n \div s
    BY <1>3 DEF lvl_nitem
  <2> HIDE DEF k, s
  <2> QED  BY <1>1, <1>2, <1>3, <2>1 DEF k, s
<1>4. CASE l # first
  <2> DEFINE x == n % b
  <2>1. l - 1 \in 0..3 /\ b \in Nat /\ b >= 1
    <3>1. l - 1 \in 0..3
      BY <1>4
    <3> QED  BY <3>1, BlockSizeOf
  <2>2. k = x \div s
    BY <1>4 DEF lvl_nitem
  <2>3. PICK m \in Nat : m >= 1 /\ b = m * s
    <3>1. FUNCTION_ITEM_LVL(l) \in Nat /\ FUNCTION_ITEM_LVL(l - 1) \in Nat
      BY <1>1, <2>1, LevelShift
    <3>2. FUNCTION_ITEM_LVL(l - 1) = FUNCTION_ITEM_LVL(l) + F
      <4>1. F \in Nat
        BY LevelsAssumption
      <4> QED  BY <1>1, <4>1 DEF FUNCTION_ITEM_LVL, MAX_GROUP_LVLS
    <3>3. FUNCTION_ITEM_LVL(l) <= FUNCTION_ITEM_LVL(l - 1)
      BY <3>1, <3>2, LevelsAssumption
    <3> QED  BY <3>1, <3>3, BitMultiple DEF block_size
  <2>4. x % s = n % s
    BY <1>1, <2>3, ModOfMod
  <2>5. s <= b
    <3>1. m * s >= s
      BY <1>1, <2>3
    <3> HIDE DEF s, b
    <3> QED  BY <2>3, <3>1
  <2> HIDE DEF k, s, b
  <2>6. x \in 0..n /\ x \in 0..(b - 1) /\ x \in Nat /\ (n % s) \in 0..n
    BY <1>1, <1>2, <2>1
  <2> HIDE DEF x
  <2>7. k \in 0..x /\ k * s = x - (n % s)
    BY <1>1, <1>2, <2>2, <2>4, <2>6
  <2>8. k \in 0..n /\ k * s <= x
    BY <2>6, <2>7
  <2> QED  BY <1>4, <2>5, <2>6, <2>7, <2>8 DEF k, s, b, x
<1> QED  BY <1>3, <1>4

LEMMA PartsSum ==
    ASSUME NEW X \in SUBSET LevelBlock, NEW n \in Nat, NEW first \in 0..3, NEW comb,
           PartsFit(n, first, comb, X)
    PROVE  Cuts(find_group(n, first, comb), X, n, 1)
<1> DEFINE m == 4 - first
           lv(i) == first + i - 1
           q == [i \in 1..m |-> LevelPart(n, first, lv(i), comb)]
           k(i) == lvl_nitem(n, first, lv(i))
           s(i) == block_size(lv(i))
<1>1. m \in Nat \ {0} /\ \A i \in 1..m : lv(i) \in first..3 /\ lv(i) \in 0..3
  OBVIOUS
<1>2. find_group(n, first, comb) = FlattenSeq(q)
  BY DEF find_group, LevelPart, BlocksOfOrders, MAX_GROUP_LVLS
<1>3. \A i \in 1..m : PartFits(q[i], X, lv(i), k(i))
  BY <1>1 DEF PartsFit
<1>4. q \in [1..m -> Seq(X)]
  <2>1. \A i \in 1..m : q[i] \in Seq(X)
    BY <1>3 DEF PartFits, Cuts
  <2> QED  BY <2>1
<1> HIDE DEF q
<1>5. PICK f : /\ f \in [1..m -> Seq(X)] /\ f[1] = q[1]
               /\ \A i \in 2..m : f[i] = f[i - 1] \o q[i]
               /\ FlattenSeq(q) = f[m]
  <2> HIDE DEF m
  <2>1. m \in Nat \ {0}
    BY <1>1
  <2>2. \E f : IsFlattening(f, X, m, q)
    BY <1>4, <2>1, FlattenIs
  <2> QED  BY <2>2 DEF IsFlattening
<1> DEFINE N == {j \in Nat : j + 1 <= m => Cuts(f[j + 1], X, n - (n % s(j + 1)), s(j + 1))}
<1>6. 0 \in N
  <2>1. 1 \in 1..m /\ 0 + 1 = 1 /\ lv(1) = first
    OBVIOUS
  <2>2. k(1) * s(1) = n - (n % s(1))
    <3>1. first \in first..3
      OBVIOUS
    <3>2. lvl_nitem(n, first, first) * block_size(first) = n - (n % block_size(first))
      BY <3>1, LevelCuts
    <3> QED  BY <2>1, <3>2
  <2>3. Cuts(q[1], X, k(1) * s(1), s(1))
    BY <1>3, <2>1 DEF PartFits
  <2> HIDE DEF lv, m
  <2>4. Cuts(f[1], X, n - (n % s(1)), s(1))
    BY <1>5, <2>2, <2>3
  <2> QED  BY <2>1, <2>4
<1>7. ASSUME NEW j \in Nat, j \in N PROVE j + 1 \in N
  <2> SUFFICES ASSUME (j + 1) + 1 <= m
               PROVE  Cuts(f[(j + 1) + 1], X, n - (n % s((j + 1) + 1)), s((j + 1) + 1))
    OBVIOUS
  <2> DEFINE i == (j + 1) + 1
             l == lv(i)
  <2>1. i \in 2..m /\ i \in 1..m /\ i - 1 = j + 1 /\ j + 1 <= m /\ l \in first..3 /\ l # first
        /\ l \in 0..3 /\ l - 1 \in 0..3 /\ lv(j + 1) = l - 1
    OBVIOUS
  <2>2. Cuts(f[j + 1], X, n - (n % block_size(l - 1)), block_size(l - 1))
    <3>1. Cuts(f[j + 1], X, n - (n % s(j + 1)), s(j + 1))
      BY <1>7, <2>1
    <3> QED  BY <2>1, <3>1
  <2>3. f[i] = f[j + 1] \o q[i]
    BY <1>5, <2>1
  <2>4. PartFits(q[i], X, l, lvl_nitem(n, first, l))
    BY <1>3, <2>1
  <2> HIDE DEF i, l, lv, m
  <2> DEFINE t == lvl_nitem(n, first, l) * block_size(l)
             x == n % block_size(l - 1)
             y == n % block_size(l)
  <2>5. /\ y \in 0..n /\ x \in 0..(block_size(l - 1) - 1) /\ block_size(l) <= block_size(l - 1)
        /\ t <= x /\ t = x - y
    BY <2>1, LevelCuts
  <2>6. /\ block_size(l) \in Nat /\ block_size(l - 1) \in Nat /\ block_size(l - 1) >= 1
        /\ lvl_nitem(n, first, l) \in Nat
    <3>1. lvl_nitem(n, first, l) \in 0..n
      BY <2>1, LevelCuts
    <3> QED  BY <2>1, <3>1, BlockSizeOf
  <2>7. Cuts(q[i], X, t, block_size(l)) /\ \A h \in 1..Len(q[i]) : ItemsOf(q[i][h]) <= t
    BY <2>4 DEF PartFits
  <2>8. t \in Nat /\ x \in 0..n
    <3>1. t \in Nat
      BY <2>6
    <3>2. x \in 0..n
      <4>1. l - 1 \in first..3
        BY <2>1
      <4> QED  BY <4>1, LevelCuts
    <3> QED  BY <3>1, <3>2
  <2>9. q[i] \in Seq(X)
    BY <1>4, <2>1
  <2>10. \A h \in 1..Len(q[i]) : ItemsOf(q[i][h]) < block_size(l - 1)
    <3>1. \A h \in 1..Len(q[i]) : q[i][h] \in LevelBlock
      BY <2>9
    <3>2. \A h \in 1..Len(q[i]) : ItemsOf(q[i][h]) \in Nat
      BY <3>1, ItemsOfBlock
    <3> HIDE DEF t, x
    <3> QED  BY <2>5, <2>6, <2>7, <2>8, <3>2
  <2> HIDE DEF t, x, y
  <2>11. n - x \in Nat /\ (n - x) + t = n - y
    BY <2>5, <2>8
  <2>12. Cuts(f[j + 1] \o q[i], X, (n - x) + t, block_size(l))
    BY <2>2, <2>5, <2>6, <2>7, <2>8, <2>10, <2>11, CutsJoin DEF x
  <2>13. Cuts(f[i], X, n - y, block_size(l))
    BY <2>3, <2>11, <2>12
  <2> QED  BY <2>13 DEF i, l, y
<1>8. Nat \subseteq N
  <2> HIDE DEF N
  <2> QED  BY <1>6, <1>7, InductionSet
<1>9. m - 1 \in N /\ (m - 1) + 1 = m /\ lv(m) = 3
  BY <1>1, <1>8
<1>10. Cuts(f[m], X, n - (n % block_size(3)), block_size(3))
  <2>1. Cuts(f[m], X, n - (n % s(m)), s(m))
    BY <1>9
  <2> QED  BY <1>9, <2>1
<1>11. block_size(3) = 1 /\ n - (n % 1) = n
  <2>1. 3 \in 0..3
    OBVIOUS
  <2>2. block_size(3) = 1
    BY <2>1, BlockSizeOf
  <2>3. n % 1 = 0
    OBVIOUS
  <2> QED  BY <2>2, <2>3
<1> QED  BY <1>2, <1>5, <1>10, <1>11

(***************************************************************************)
(* What find_group asks for.                                               *)
(***************************************************************************)

\* The blocks from a level on.
BlocksFrom(first) == {b \in LevelBlock : b.lvl \in first..3}

\* A combined request is of blocks that fall in size, from the level where the
\* search begins on, and they are exactly the items asked for.
THEOREM CombinedRequest ==
    ASSUME NEW n \in 1..(BIT(MaxShift + 1) - 1), NEW first \in 0..3
    PROVE  Cuts(find_group(n, first, TRUE), BlocksFrom(first), n, 1)
<1>1. n \in Nat /\ n < BIT(MaxShift + 1) /\ BIT(MaxShift + 1) \in Nat
  <2>1. MaxShift + 1 \in Nat
    BY DEF MaxShift
  <2>2. BIT(MaxShift + 1) \in Nat
    BY <2>1, BitPositive
  <2> QED  BY <2>2
<1>2. ASSUME NEW l \in first..3
      PROVE  PartFits(LevelPart(n, first, l, TRUE), BlocksFrom(first), l, lvl_nitem(n, first, l))
  <2> DEFINE k == lvl_nitem(n, first, l)
  <2>1. k \in 0..n
    BY <1>1, LevelCuts
  <2> HIDE DEF k
  <2>2. l \in 0..3 /\ k \in Nat /\ k < BIT(MaxShift + 1)
    BY <1>1, <2>1
  <2>3. PartFits(BlocksOfOrders(l, LvlOrders(k, TRUE)), {b \in LevelBlock : b.lvl = l}, l, k)
    BY <2>2, CombinedPart
  <2>4. {b \in LevelBlock : b.lvl = l} \subseteq BlocksFrom(first)
    BY DEF BlocksFrom
  <2>5. PartFits(BlocksOfOrders(l, LvlOrders(k, TRUE)), BlocksFrom(first), l, k)
    BY <2>3, <2>4, PartWidens
  <2> QED  BY <2>5 DEF LevelPart, k
<1>3. BlocksFrom(first) \in SUBSET LevelBlock
  BY DEF BlocksFrom
<1>4. PartsFit(n, first, TRUE, BlocksFrom(first))
  BY <1>2 DEF PartsFit
<1> QED  BY <1>1, <1>3, <1>4, PartsSum

\* What a level has of a power of two: all of it or nothing.
LEMMA PowerPart ==
    ASSUME NEW p \in 0..MaxShift, NEW first \in 0..3, NEW l \in first..3
    PROVE  \/ lvl_nitem(BIT(p), first, l) = 0
           \/ \E e \in 0..MaxShift : /\ lvl_nitem(BIT(p), first, l) = BIT(e)
                                     /\ BIT(e) * block_size(l) = BIT(p)
<1> DEFINE z == FUNCTION_ITEM_LVL(l)
<1>1. p \in Nat /\ BIT(p) \in Nat /\ BIT(p) >= 1 /\ p <= MaxShift /\ MaxShift \in Nat
  <2>1. p \in Nat /\ p <= MaxShift /\ MaxShift \in Nat
    BY DEF MaxShift
  <2> QED  BY <2>1, BitPositive
<1>2. l \in 0..3 /\ z \in Nat /\ BIT(z) \in Nat /\ BIT(z) >= 1 /\ block_size(l) = BIT(z)
  <2>1. l \in 0..3
    OBVIOUS
  <2>2. z \in Nat
    BY <2>1, LevelShift
  <2> QED  BY <2>1, <2>2, BitPositive DEF block_size
<1> HIDE DEF z
<1>3. \/ BIT(p) \div BIT(z) = 0
      \/ \E e \in 0..MaxShift : BIT(p) \div BIT(z) = BIT(e) /\ BIT(e) * BIT(z) = BIT(p)
  <2>1. CASE p < z
    <3>1. BIT(p) < BIT(z)
      BY <1>1, <1>2, <2>1, BitMonotone
    <3>2. BIT(p) \in 0..(BIT(z) - 1) /\ 0 * BIT(z) + BIT(p) = BIT(p) /\ 0 \in Nat
      BY <1>1, <1>2, <3>1
    <3>3. (0 * BIT(z) + BIT(p)) \div BIT(z) = 0
      BY <1>2, <3>2, DivMod
    <3> QED  BY <3>2, <3>3
  <2>2. CASE z <= p
    <3> DEFINE e == p - z
    <3>1. e \in Nat /\ e \in 0..MaxShift /\ e + z = p
      BY <1>1, <1>2, <2>2
    <3> HIDE DEF e
    <3>2. BIT(p) = BIT(e) * BIT(z) /\ BIT(e) \in Nat
      BY <1>2, <3>1, BitOfSum, BitPositive
    <3>3. (BIT(e) * BIT(z)) \div BIT(z) = BIT(e)
      BY <1>2, <3>2, DivOfMultiple
    <3> QED  BY <3>1, <3>2, <3>3
  <2> QED  BY <1>1, <1>2, <2>1, <2>2
<1>4. CASE l = first
  <2>1. lvl_nitem(BIT(p), first, l) = BIT(p) \div BIT(z)
    BY <1>2, <1>4 DEF lvl_nitem
  <2> QED  BY <1>2, <1>3, <2>1
<1>5. CASE l # first
  <2> DEFINE y == FUNCTION_ITEM_LVL(l - 1)
  <2>1. y \in Nat /\ BIT(y) \in Nat /\ BIT(y) >= 1 /\ block_size(l - 1) = BIT(y)
    <3>1. l - 1 \in 0..3
      BY <1>5
    <3>2. y \in Nat
      BY <3>1, LevelShift
    <3> QED  BY <3>2, BitPositive DEF block_size
  <2> HIDE DEF y
  <2>2. lvl_nitem(BIT(p), first, l) = (BIT(p) % BIT(y)) \div BIT(z)
    BY <1>2, <1>5, <2>1 DEF lvl_nitem
  <2>3. CASE p < y
    <3>1. BIT(p) < BIT(y)
      BY <1>1, <2>1, <2>3, BitMonotone
    <3>2. BIT(p) \in 0..(BIT(y) - 1) /\ 0 * BIT(y) + BIT(p) = BIT(p) /\ 0 \in Nat
      BY <1>1, <2>1, <3>1
    <3>3. (0 * BIT(y) + BIT(p)) % BIT(y) = BIT(p)
      BY <2>1, <3>2, DivMod
    <3>4. lvl_nitem(BIT(p), first, l) = BIT(p) \div BIT(z)
      BY <2>2, <3>2, <3>3
    <3> QED  BY <1>2, <1>3, <3>4
  <2>4. CASE y <= p
    <3>1. p - y \in Nat /\ (p - y) + y = p
      BY <1>1, <2>1, <2>4
    <3>2. BIT(p) = BIT(p - y) * BIT(y) /\ BIT(p - y) \in Nat
      <4>1. BIT((p - y) + y) = BIT(p - y) * BIT(y)
        BY <2>1, <3>1, BitOfSum
      <4> QED  BY <3>1, <4>1, BitPositive
    <3>3. (BIT(p - y) * BIT(y)) % BIT(y) = 0
      BY <2>1, <3>2, DivOfMultiple
    <3>4. 0 \div BIT(z) = 0
      <4>1. 0 * BIT(z) = 0 /\ 0 \in Nat
        BY <1>2
      <4>2. (0 * BIT(z)) \div BIT(z) = 0
        BY <1>2, <4>1, DivOfMultiple
      <4> QED  BY <4>1, <4>2
    <3>5. lvl_nitem(BIT(p), first, l) = 0
      BY <2>2, <3>2, <3>3, <3>4
    <3> QED  BY <3>5
  <2> QED  BY <1>1, <2>1, <2>3, <2>4
<1> QED  BY <1>4, <1>5

\* A request of a power of two that is not combined is of one block, of that size.
THEOREM SingleRequest ==
    ASSUME NEW p \in 0..MaxShift, NEW first \in 0..3
    PROVE  /\ Cuts(find_group(BIT(p), first, FALSE), BlocksFrom(first), BIT(p), 1)
           /\ Len(find_group(BIT(p), first, FALSE)) = 1
<1> DEFINE n == BIT(p)
           q == find_group(n, first, FALSE)
           X == {b \in BlocksFrom(first) : ItemsOf(b) = n}
<1>1. n \in Nat /\ n >= 1
  <2>1. p \in Nat
    BY DEF MaxShift
  <2> QED  BY <2>1, BitPositive
<1> HIDE DEF n
<1>2. ASSUME NEW l \in first..3
      PROVE  PartFits(LevelPart(n, first, l, FALSE), X, l, lvl_nitem(n, first, l))
  <2> DEFINE k == lvl_nitem(n, first, l)
  <2>1. l \in 0..3
    OBVIOUS
  <2>2. k = 0 \/ \E e \in 0..MaxShift : k = BIT(e) /\ BIT(e) * block_size(l) = n
    BY PowerPart DEF n
  <2>3. CASE k = 0
    <3>1. PartFits(BlocksOfOrders(l, LvlOrders(0, FALSE)), X, l, 0)
      BY <2>1, NoPart
    <3> QED  BY <2>3, <3>1 DEF LevelPart
  <2>4. CASE k # 0
    <3>1. PICK e \in 0..MaxShift : k = BIT(e) /\ BIT(e) * block_size(l) = n
      BY <2>2, <2>4
    <3> DEFINE Y == {b \in LevelBlock : b.lvl = l /\ ItemsOf(b) = BIT(e) * block_size(l)}
    <3>2. PartFits(BlocksOfOrders(l, LvlOrders(BIT(e), FALSE)), Y, l, BIT(e))
      BY <2>1, SinglePart
    <3>3. Y \subseteq X
      BY <3>1 DEF BlocksFrom
    <3> HIDE DEF X, Y
    <3>4. PartFits(BlocksOfOrders(l, LvlOrders(BIT(e), FALSE)), X, l, BIT(e))
      BY <3>2, <3>3, PartWidens
    <3> QED  BY <3>1, <3>4 DEF LevelPart
  <2> QED  BY <2>3, <2>4
<1>3. X \in SUBSET LevelBlock /\ X \subseteq BlocksFrom(first) /\ \A b \in X : ItemsOf(b) = n
  BY DEF BlocksFrom
<1> HIDE DEF X
<1>4. Cuts(q, X, n, 1)
  <2>1. PartsFit(n, first, FALSE, X)
    BY <1>2 DEF PartsFit
  <2> QED  BY <1>1, <1>3, <2>1, PartsSum
<1> HIDE DEF q
<1>5. q \in Seq(X) /\ q \in Seq(BlocksFrom(first)) /\ Len(q) \in Nat
  <2>1. q \in Seq(X)
    BY <1>4 DEF Cuts
  <2> QED  BY <1>3, <2>1
<1>6. Cuts(q, BlocksFrom(first), n, 1)
  BY <1>4, <1>5 DEF Cuts
<1>7. Len(q) # 0
  <2> SUFFICES ASSUME Len(q) = 0 PROVE FALSE
    OBVIOUS
  <2>1. PICK g : RunsAlong(g, q) /\ g[Len(q)] = n
    BY <1>4 DEF Cuts, SumsTo
  <2>2. g[0] = 0
    BY <2>1 DEF RunsAlong
  <2> QED  BY <1>1, <2>1, <2>2
<1>8. ~ (Len(q) >= 2)
  <2> SUFFICES ASSUME Len(q) >= 2 PROVE FALSE
    OBVIOUS
  <2>1. 1 \in 1..Len(q) /\ 2 \in 1..Len(q) /\ 1 < 2
    BY <1>5
  <2>2. ItemsOf(q[1]) > ItemsOf(q[2])
    BY <1>4, <2>1 DEF Cuts, FallsInSize
  <2>3. ItemsOf(q[1]) = n /\ ItemsOf(q[2]) = n
    BY <1>3, <1>5, <2>1
  <2> QED  BY <1>1, <2>2, <2>3
<1>9. Len(q) = 1
  <2>1. \A c \in Nat : c # 0 /\ ~ (c >= 2) => c = 1
    OBVIOUS
  <2> QED  BY <1>5, <1>7, <1>8, <2>1, Zenon
<1> QED  BY <1>6, <1>9 DEF q, n

\* The order of a number: the power of two that it is rounded up to.
LEMMA OrderIs ==
    ASSUME NEW n \in 1..BIT(MaxShift)
    PROVE  /\ item_to_order(n) \in 0..MaxShift
           /\ n <= BIT(item_to_order(n)) /\ BIT(item_to_order(n)) < 2 * n
<1>1. MaxShift \in Nat /\ BIT(MaxShift) \in Nat /\ n \in Nat /\ n >= 1 /\ n <= BIT(MaxShift)
  <2>1. MaxShift \in Nat
    BY DEF MaxShift
  <2>2. BIT(MaxShift) \in Nat
    BY <2>1, BitPositive
  <2> QED  BY <2>1, <2>2
<1>2. PICK k \in Nat : BIT(k) <= n /\ n < BIT(k + 1)
  BY <1>1, PowerBelow
<1>3. BIT(k) \in Nat /\ BIT(k) >= 1 /\ BIT(k + 1) = 2 * BIT(k)
  BY BitPositive, BitDoubles
<1>4. k <= MaxShift
  <2> SUFFICES ASSUME MaxShift < k PROVE FALSE
    BY <1>1
  <2>1. BIT(MaxShift) < BIT(k)
    BY <1>1, BitMonotone
  <2> QED  BY <1>1, <1>2, <1>3, <2>1
<1>5. fls(n) = k + 1
  <2>1. k \in 0..MaxShift
    BY <1>1, <1>4
  <2> QED  BY <1>1, <1>2, <2>1, FlsBounds
<1>6. item_to_order(n) = IF n > BIT(k) THEN k + 1 ELSE k
  <2> DEFINE f == fls(n)
  <2>1. item_to_order(n) = (IF n > BIT(f - 1) THEN f ELSE f - 1)
    BY <1>1 DEF item_to_order
  <2> HIDE DEF f
  <2>2. f = k + 1 /\ f - 1 = k
    BY <1>5 DEF f
  <2> QED  BY <2>1, <2>2
<1>7. CASE n > BIT(k)
  <2>1. item_to_order(n) = k + 1
    BY <1>6, <1>7
  <2>2. k # MaxShift
    BY <1>1, <1>3, <1>7
  <2>3. k + 1 \in 0..MaxShift
    BY <1>1, <1>4, <2>2
  <2> QED  BY <1>1, <1>2, <1>3, <1>7, <2>1, <2>3
<1>8. CASE ~ (n > BIT(k))
  <2>1. item_to_order(n) = k
    BY <1>6, <1>8
  <2>2. k \in 0..MaxShift
    BY <1>1, <1>4
  <2> QED  BY <1>1, <1>2, <1>3, <1>8, <2>1, <2>2
<1> QED  BY <1>7, <1>8

(***************************************************************************)
(* Sums over a finite set: they count what its members stand for, and so   *)
(* the order in which a fold takes them makes no difference.               *)
(***************************************************************************)
AreasOf(s, area) == UNION {area[x] : x \in s}

\* The members of S stand for w[x] points of U each, and for none together.
AreAreas(S, w, area, U) ==
    /\ IsFiniteSet(U)
    /\ \A x \in S : area[x] \subseteq U /\ Cardinality(area[x]) = w[x]
    /\ \A x, y \in S : x # y => area[x] \cap area[y] = {}

\* A function on the subsets of S that takes away w[x] with x.
IsAdditive(m, S, w) ==
    /\ m \in [SUBSET S -> Nat] /\ m[{}] = 0
    /\ \A s \in SUBSET S : \A x \in s : m[s] = w[x] + m[s \ {x}]

\* What a fold that takes one member after the other is.
IsFold(g, S, w) ==
    /\ g[{}] = 0
    /\ \A s \in SUBSET S : s # {} => \E x \in s : g[s] = w[x] + g[s \ {x}]

LEMMA AreasAdd ==
    ASSUME NEW S, NEW w, NEW area, NEW U, AreAreas(S, w, area, U)
    PROVE  IsAdditive([s \in SUBSET S |-> Cardinality(AreasOf(s, area))], S, w)
<1> DEFINE m == [s \in SUBSET S |-> Cardinality(AreasOf(s, area))]
<1>1. ASSUME NEW s \in SUBSET S
      PROVE  IsFiniteSet(AreasOf(s, area)) /\ Cardinality(AreasOf(s, area)) \in Nat
  <2>1. AreasOf(s, area) \in SUBSET U
    BY DEF AreasOf, AreAreas
  <2> QED  BY <2>1, FS_Subset, FS_CardinalityType DEF AreAreas
<1>2. m \in [SUBSET S -> Nat] /\ \A s \in SUBSET S : m[s] = Cardinality(AreasOf(s, area))
  BY <1>1
<1>3. m[{}] = 0
  <2>1. AreasOf({}, area) = {} /\ {} \in SUBSET S
    BY DEF AreasOf
  <2> QED  BY <1>2, <2>1, FS_EmptySet
<1>4. ASSUME NEW s \in SUBSET S, NEW x \in s PROVE m[s] = w[x] + m[s \ {x}]
  <2> DEFINE r == s \ {x}
             A == AreasOf(r, area)
  <2>1. x \in S /\ r \in SUBSET S
    OBVIOUS
  <2>2. AreasOf(s, area) = area[x] \cup A
    BY DEF AreasOf
  <2>3. area[x] \cap A = {}
    <3> SUFFICES ASSUME NEW z \in area[x], z \in A PROVE FALSE
      OBVIOUS
    <3>1. PICK y \in r : z \in area[y]
      BY DEF AreasOf
    <3>2. y \in S /\ x # y
      BY <3>1
    <3>3. area[x] \cap area[y] = {}
      BY <2>1, <3>2 DEF AreAreas
    <3> QED  BY <3>1, <3>3
  <2>4. IsFiniteSet(A) /\ Cardinality(A) \in Nat /\ m[r] = Cardinality(A)
    BY <1>1, <1>2, <2>1
  <2>5. IsFiniteSet(area[x]) /\ Cardinality(area[x]) = w[x] /\ Cardinality(area[x]) \in Nat
    <3>1. area[x] \in SUBSET U /\ IsFiniteSet(U) /\ Cardinality(area[x]) = w[x]
      BY <2>1 DEF AreAreas
    <3> QED  BY <3>1, FS_Subset, FS_CardinalityType
  <2> HIDE DEF A, r
  <2>6. Cardinality(area[x] \cup A)
          = Cardinality(area[x]) + Cardinality(A) - Cardinality(area[x] \cap A)
    BY <2>4, <2>5, FS_Union
  <2>7. Cardinality(area[x] \cap A) = 0
    BY <2>3, FS_EmptySet
  <2>8. m[s] = Cardinality(area[x] \cup A)
    BY <1>2, <2>2
  <2> HIDE DEF m
  <2>9. m[s] = w[x] + m[r]
    BY <2>4, <2>5, <2>6, <2>7, <2>8
  <2> QED  BY <2>9 DEF r
<1> HIDE DEF m
<1>5. IsAdditive(m, S, w)
  BY <1>2, <1>3, <1>4 DEF IsAdditive
<1> QED  BY <1>5 DEF m

LEMMA FoldIs ==
    ASSUME NEW S, IsFiniteSet(S), NEW w, NEW m, IsAdditive(m, S, w), NEW g, IsFold(g, S, w)
    PROVE  g[S] = m[S]
<1> DEFINE N == {k \in Nat : \A s \in SUBSET S : IsFiniteSet(s) /\ Cardinality(s) = k =>
                                 g[s] = m[s]}
<1>1. 0 \in N
  <2> SUFFICES ASSUME NEW s \in SUBSET S, IsFiniteSet(s), Cardinality(s) = 0
               PROVE  g[s] = m[s]
    OBVIOUS
  <2>1. s = {}
    BY FS_EmptySet
  <2> QED  BY <2>1 DEF IsAdditive, IsFold
<1>2. ASSUME NEW k \in Nat, k \in N PROVE k + 1 \in N
  <2> SUFFICES ASSUME NEW s \in SUBSET S, IsFiniteSet(s), Cardinality(s) = k + 1
               PROVE  g[s] = m[s]
    OBVIOUS
  <2>1. s # {}
    BY FS_EmptySet
  <2>2. PICK x \in s : g[s] = w[x] + g[s \ {x}]
    BY <2>1 DEF IsFold
  <2> DEFINE r == s \ {x}
  <2>3. r \in SUBSET S /\ IsFiniteSet(r) /\ Cardinality(r) = k
    <3>1. IsFiniteSet(r) /\ Cardinality(r) = Cardinality(s) - 1
      BY FS_RemoveElement
    <3> QED  BY <3>1
  <2>4. g[r] = m[r]
    BY <1>2, <2>3
  <2>5. m[s] = w[x] + m[r]
    BY DEF IsAdditive
  <2> QED  BY <2>2, <2>4, <2>5
<1>3. Nat \subseteq N
  <2> HIDE DEF N
  <2> QED  BY <1>1, <1>2, InductionSet
<1>4. Cardinality(S) \in Nat
  BY FS_CardinalityType
<1> QED  BY <1>3, <1>4

\* The numbers 1 up to n, of which i stands for w[i] points; r are the sums.
RunsOver(r, n, w) ==
    /\ r \in [0..n -> Nat] /\ r[0] = 0
    /\ \A i \in 1..n : w[i] \in Nat /\ r[i] = r[i - 1] + w[i]

LEMMA RunsGrow ==
    ASSUME NEW n \in Nat, NEW r, NEW w, RunsOver(r, n, w), NEW i \in 0..n, NEW j \in 0..n, i <= j
    PROVE  r[i] <= r[j]
<1> DEFINE N == {k \in Nat : i + k <= n => r[i] <= r[i + k]}
<1>1. 0 \in N
  BY DEF RunsOver
<1>2. ASSUME NEW k \in Nat, k \in N PROVE k + 1 \in N
  <2> SUFFICES ASSUME i + (k + 1) <= n PROVE r[i] <= r[i + (k + 1)]
    OBVIOUS
  <2>1. i + (k + 1) \in 1..n /\ (i + (k + 1)) - 1 = i + k /\ i + k \in 0..n
    OBVIOUS
  <2>2. r[i] <= r[i + k]
    BY <1>2, <2>1
  <2> DEFINE b == i + (k + 1)
             a == i + k
  <2>3. b \in 1..n /\ b \in 0..n /\ b - 1 = a /\ a \in 0..n /\ r[i] <= r[a]
    BY <2>1, <2>2
  <2> HIDE DEF a, b
  <2>4. r[b] = r[b - 1] + w[b] /\ w[b] \in Nat /\ r[a] \in Nat /\ r[i] \in Nat
    BY <2>3 DEF RunsOver
  <2>5. r[i] <= r[b]
    BY <2>3, <2>4
  <2> QED  BY <2>5 DEF b
<1>3. Nat \subseteq N
  <2> HIDE DEF N
  <2> QED  BY <1>1, <1>2, InductionSet
<1>4. j - i \in N /\ i + (j - i) = j
  BY <1>3
<1> QED  BY <1>4

LEMMA RunsAdd ==
    ASSUME NEW n \in Nat, NEW r, NEW w, RunsOver(r, n, w)
    PROVE  \E m : IsAdditive(m, 1..n, w) /\ m[1..n] = r[n]
<1> DEFINE area == [i \in 1..n |-> r[i - 1]..(r[i] - 1)]
           U == 0..(r[n] - 1)
           S == 1..n
<1>1. ASSUME NEW i \in 1..n
      PROVE  /\ i \in 0..n /\ i - 1 \in 0..n
             /\ r[i] \in Nat /\ r[i - 1] \in Nat /\ r[i] = r[i - 1] + w[i] /\ w[i] \in Nat
             /\ r[i] <= r[n] /\ r[n] \in Nat
  <2>1. i \in 0..n /\ i - 1 \in 0..n /\ n \in 0..n /\ i <= n
    OBVIOUS
  <2>2. r[i] <= r[n]
    BY <2>1, RunsGrow
  <2> QED  BY <2>1, <2>2 DEF RunsOver
<1>2. r[n] \in Nat /\ IsFiniteSet(U)
  <2>1. n \in 0..n
    OBVIOUS
  <2>2. r[n] \in Nat
    BY <2>1 DEF RunsOver
  <2>3. 0 \in Int /\ r[n] - 1 \in Int
    BY <2>2
  <2> QED  BY <2>2, <2>3, FS_Interval
<1>3. ASSUME NEW i \in S PROVE area[i] \subseteq U /\ Cardinality(area[i]) = w[i]
  <2> DEFINE a == r[i - 1]
             b == r[i] - 1
  <2>1. a \in Int /\ b \in Int /\ area[i] = a..b
    BY <1>1
  <2>2. Cardinality(a..b) = IF a > b THEN 0 ELSE (b - a) + 1
    <3> HIDE DEF a, b
    <3>1. Cardinality(a..b) = IF a > b THEN 0 ELSE b - a + 1
      BY <2>1, FS_Interval
    <3> QED  BY <3>1
  <2>3. (IF a > b THEN 0 ELSE (b - a) + 1) = w[i]
    BY <1>1
  <2> QED  BY <1>1, <2>1, <2>2, <2>3
<1>4. ASSUME NEW i \in S, NEW j \in S, i < j PROVE area[i] \cap area[j] = {}
  <2>1. i \in 0..n /\ j - 1 \in 0..n /\ i <= j - 1
    BY <1>4
  <2>2. r[i] <= r[j - 1]
    BY <2>1, RunsGrow
  <2> QED  BY <1>1, <2>1, <2>2
<1>5. ASSUME NEW i \in S, NEW j \in S, i # j PROVE area[i] \cap area[j] = {}
  <2>1. i < j \/ j < i
    BY <1>5
  <2> HIDE DEF area
  <2> QED  BY <1>4, <2>1
<1>6. AreAreas(S, w, area, U)
  <2> HIDE DEF area, S, U
  <2> QED  BY <1>2, <1>3, <1>5 DEF AreAreas
<1> DEFINE m == [s \in SUBSET S |-> Cardinality(AreasOf(s, area))]
<1>7. IsAdditive(m, S, w)
  <2> HIDE DEF area, S, U
  <2> QED  BY <1>6, AreasAdd
<1> HIDE DEF m, area, U
<1> DEFINE N == {k \in Nat : k <= n => m[1..k] = r[k]}
<1>8. 0 \in N
  <2>1. 1..0 = {}
    OBVIOUS
  <2> QED  BY <1>7, <2>1 DEF IsAdditive, RunsOver
<1>9. ASSUME NEW k \in Nat, k \in N PROVE k + 1 \in N
  <2> SUFFICES ASSUME k + 1 <= n PROVE m[1..(k + 1)] = r[k + 1]
    OBVIOUS
  <2> DEFINE i == k + 1
             s == 1..i
  <2>1. i \in s /\ s \in SUBSET S /\ s \ {i} = 1..k /\ i \in 1..n /\ i - 1 = k
    OBVIOUS
  <2>2. m[1..k] = r[k]
    BY <1>9
  <2>3. m[s] = w[i] + m[s \ {i}]
    <3> HIDE DEF S, s, i
    <3> QED  BY <1>7, <2>1 DEF IsAdditive
  <2>4. r[i] = r[k] + w[i] /\ r[k] \in Nat /\ w[i] \in Nat
    <3> HIDE DEF i
    <3> QED  BY <1>1, <2>1
  <2>6. m[s \ {i}] = r[k]
    BY <2>1, <2>2
  <2> HIDE DEF s, i
  <2>5. m[s] = r[i]
    BY <2>3, <2>4, <2>6
  <2> QED  BY <2>5 DEF s, i
<1>10. Nat \subseteq N
  <2> HIDE DEF N
  <2> QED  BY <1>8, <1>9, InductionSet
<1>11. m[1..n] = r[n]
  BY <1>10
<1> QED  BY <1>7, <1>11

\* The greatest of some of the numbers 1 up to n.
LEMMA GreatestIn ==
    ASSUME NEW n \in Nat, NEW s \in SUBSET (1..n), s # {}
    PROVE  Max(s) \in s
<1> DEFINE T == {n - x : x \in s}
<1>1. T \in SUBSET Nat /\ T # {}
  <2>1. \A x \in s : n - x \in Nat
    OBVIOUS
  <2>2. PICK x \in s : TRUE
    OBVIOUS
  <2>3. n - x \in T
    BY <2>2
  <2> QED  BY <2>1, <2>3
<1>2. PICK t \in T : \A z \in T : t <= z
  BY <1>1, LeastIn
<1>3. PICK x \in s : t = n - x
  BY <1>2
<1>4. ASSUME NEW y \in s PROVE x >= y
  <2>1. n - x <= n - y
    BY <1>2, <1>3
  <2> QED  BY <2>1
<1>5. \E z \in s : \A y \in s : z >= y
  BY <1>4
<1> QED  BY <1>5 DEF Max
=============================================================================
