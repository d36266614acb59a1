---------------------------- MODULE ModArithmetic ----------------------------
(***************************************************************************)
(* Facts about % that the counters of the driver rest on: rounding to a    *)
(* multiple (memory.rs), a u64 that wraps (memory.rs), a ring index        *)
(* (fifo.rs).  At the end: induction on a set of numbers and recursion     *)
(* along an interval, for the loops of the driver that a recursive         *)
(* function models (tensor.rs, fifo.rs).                                   *)
(***************************************************************************)
EXTENDS Integers, WellFoundedInduction, TLAPS

(* A positive number of words is at least one word.                        *)
LEMMA WordMultiple ==
  ASSUME NEW w \in Nat \ {0}, NEW d \in Nat \ {0}
  PROVE  w * d >= w
  OBVIOUS

(* Multiplication distributes over differences and sums.                   *)
LEMMA Distributes ==
  ASSUME NEW w \in Int, NEW a \in Int, NEW b \in Int
  PROVE  w * (a - b) = w * a - w * b /\ w * (a + b) = w * a + w * b
  OBVIOUS

(* What % returns, and that rounding down leaves a multiple.               *)
LEMMA ModFacts ==
  ASSUME NEW x \in Nat, NEW p \in Nat \ {0}
  PROVE  x % p \in 0 .. p - 1 /\ x % p <= x /\ (x - (x % p)) % p = 0
<1>1. x % p \in 0 .. p - 1
  OBVIOUS
<1>2. x % p <= x
  OBVIOUS
<1>3. (x - (x % p)) % p = 0
  <2>1. x - (x % p) = p * (x \div p) /\ x \div p \in Nat
    OBVIOUS
  <2>2. \A q \in Nat : (p * q) % p = 0
    OBVIOUS
  <2> QED BY <2>1, <2>2
<1> QED BY <1>1, <1>2, <1>3

(* A remainder is unique.                                                  *)
LEMMA RemainderUnique ==
  ASSUME NEW w \in Nat \ {0}, NEW a \in Int, NEW b \in Int,
         NEW u \in 0 .. w - 1, NEW v \in 0 .. w - 1, w * a + u = w * b + v
  PROVE  u = v
<1>1. w * (a - b) = v - u /\ w * (b - a) = u - v
  BY Distributes
<1>2. ~ (a > b)
  <2> SUFFICES ASSUME a > b PROVE FALSE
    OBVIOUS
  <2>1. a - b \in Nat \ {0}
    OBVIOUS
  <2>2. w * (a - b) >= w
    BY <2>1, WordMultiple
  <2> QED BY <1>1, <2>2
<1>3. ~ (b > a)
  <2> SUFFICES ASSUME b > a PROVE FALSE
    OBVIOUS
  <2>1. b - a \in Nat \ {0}
    OBVIOUS
  <2>2. w * (b - a) >= w
    BY <2>1, WordMultiple
  <2> QED BY <1>1, <2>2
<1> QED BY <1>2, <1>3

(* The remainder of a number written as a multiple and a rest.             *)
LEMMA ModUnique ==
  ASSUME NEW w \in Nat \ {0}, NEW x \in Nat, NEW q \in Int,
         NEW u \in 0 .. w - 1, x = w * q + u
  PROVE  x % w = u
<1>1. x = w * (x \div w) + (x % w) /\ x \div w \in Int /\ x % w \in 0 .. w - 1
  OBVIOUS
<1> QED BY <1>1, RemainderUnique

(* Whole words do not change a remainder.                                  *)
LEMMA ModWhole ==
  ASSUME NEW w \in Nat \ {0}, NEW q \in Nat, NEW r \in Nat
  PROVE  (w * q + r) % w = r % w
<1>1. r = w * (r \div w) + (r % w) /\ r \div w \in Nat /\ r % w \in 0 .. w - 1
  OBVIOUS
<1>2. ASSUME NEW k \in Nat, NEW u \in 0 .. w - 1, r = w * k + u
      PROVE  (w * q + r) % w = u
  <2> DEFINE y == w * q + r
  <2>1. w * (q + k) = w * q + w * k
    BY Distributes
  <2>2. w * q \in Nat /\ w * k \in Nat
    OBVIOUS
  <2>3. y \in Nat /\ y = w * (q + k) + u /\ q + k \in Int
    BY <1>2, <2>1, <2>2
  <2> HIDE DEF y
  <2>4. y % w = u
    BY <2>3, ModUnique
  <2> QED BY <2>4 DEF y
<1> QED BY <1>1, <1>2

(* Reducing a sum in two steps, as a counter that wraps does.              *)
LEMMA ModSum ==
  ASSUME NEW a \in Nat, NEW n \in Nat, NEW w \in Nat \ {0}
  PROVE  ((a % w) + n) % w = (a + n) % w
<1>1. a = w * (a \div w) + (a % w) /\ a \div w \in Nat /\ a % w \in Nat
  OBVIOUS
<1>2. ASSUME NEW q \in Nat, NEW r \in Nat, a = w * q + r
      PROVE  (r + n) % w = (a + n) % w
  <2> DEFINE m == w * q
  <2>1. m \in Nat /\ a = m + r
    BY <1>2
  <2> HIDE DEF m
  <2>2. a + n = m + (r + n)
    BY <2>1
  <2>3. ASSUME NEW k \in Nat PROVE (m + k) % w = k % w
    BY ModWhole DEF m
  <2>4. (m + (r + n)) % w = (r + n) % w
    BY <2>3
  <2> QED BY <2>2, <2>4
<1> QED BY <1>1, <1>2

(* Reducing a factor, and a difference, before the rest.                   *)
LEMMA ModProduct ==
  ASSUME NEW w \in Nat \ {0}, NEW a \in Nat, NEW b \in Nat
  PROVE  (a * (b % w)) % w = (a * b) % w
<1>1. b = w * (b \div w) + (b % w) /\ b \div w \in Nat /\ b % w \in Nat
  OBVIOUS
<1>2. ASSUME NEW q \in Nat, NEW r \in Nat, b = w * q + r
      PROVE  (a * r) % w = (a * b) % w
  <2> DEFINE c == a * q
             d == a * r
  <2>1. c \in Nat /\ d \in Nat
    OBVIOUS
  <2>2. a * b = w * c + d
    BY <1>2
  <2> HIDE DEF c, d
  <2>3. (w * c + d) % w = d % w
    BY <2>1, ModWhole
  <2>4. d % w = (a * b) % w
    BY <2>2, <2>3
  <2> QED BY <2>4 DEF d
<1> QED BY <1>1, <1>2

LEMMA ModDifference ==
  ASSUME NEW a \in Nat, NEW n \in Nat, n <= a, NEW w \in Nat \ {0}
  PROVE  ((a % w) - n) % w = (a - n) % w
<1> DEFINE x == (a % w) - n
           y == a - n
<1>1. a = w * (a \div w) + (a % w) /\ a \div w \in Int /\ a % w \in Nat
  OBVIOUS
<1>2. x \in Int /\ y \in Int /\ y = w * (a \div w) + x
  BY <1>1
<1> HIDE DEF x, y
<1>3. x = w * (x \div w) + (x % w) /\ x \div w \in Int /\ x % w \in 0 .. w - 1
  BY <1>2
<1>4. y = w * (y \div w) + (y % w) /\ y \div w \in Int /\ y % w \in 0 .. w - 1
  BY <1>2
<1>5. ASSUME NEW p \in Int, NEW q \in Int, NEW r \in Int, NEW u \in 0 .. w - 1,
             NEW v \in 0 .. w - 1, x = w * q + u, y = w * r + v, y = w * p + x
      PROVE  u = v
  <2>1. w * (p + q) = w * p + w * q
    BY Distributes
  <2>2. w * (p + q) + u = w * r + v
    <3>1. w * p \in Int /\ w * q \in Int
      OBVIOUS
    <3> QED BY <1>5, <2>1, <3>1
  <2>3. p + q \in Int
    OBVIOUS
  <2> QED BY <2>2, <2>3, RemainderUnique
<1>6. x % w = y % w
  BY <1>1, <1>2, <1>3, <1>4, <1>5
<1> QED BY <1>6 DEF x, y

(* Quotient and remainder.                                                 *)
LEMMA DivFacts ==
  ASSUME NEW x \in Nat, NEW p \in Nat \ {0}
  PROVE  x \div p \in Nat /\ x = p * (x \div p) + (x % p) /\ p * (x \div p) = x - (x % p)
OBVIOUS

(* What leaves no remainder is a multiple.                                 *)
LEMMA IsMultiple ==
  ASSUME NEW x \in Nat, NEW p \in Nat \ {0}, x % p = 0
  PROVE  \E q \in Nat : x = p * q
<1>1. x \div p \in Nat /\ x = p * (x \div p)
  BY DivFacts
<1> QED BY <1>1

(* A multiple, and its quotient.                                           *)
LEMMA MultipleFacts ==
  ASSUME NEW s \in Nat \ {0}, NEW q \in Nat
  PROVE  s * q \in Nat /\ (s * q) % s = 0 /\ (s * q) \div s = q
OBVIOUS

(* What divides a positive number is no larger.                            *)
LEMMA DivisorAtMost ==
  ASSUME NEW w \in Nat \ {0}, NEW s \in Nat \ {0}, w % s = 0
  PROVE  s <= w
OBVIOUS

(* Products of ordered factors are ordered.                                *)
LEMMA ProductAtMost ==
  ASSUME NEW g \in Nat, NEW a \in Nat, NEW b \in Nat, a <= b
  PROVE  g * a <= g * b
<1>1. g * (b - a) = g * b - g * a
  BY Distributes
<1>2. g * (b - a) \in Nat
  <2>1. \A n \in Nat : g * n \in Nat
    OBVIOUS
  <2> QED BY <2>1
<1>3. g * b \in Nat /\ g * a \in Nat
  OBVIOUS
<1> QED BY <1>1, <1>2, <1>3

(* Below a multiple of g there is room for g above a number rounded down.  *)
LEMMA RoundDownBelow ==
  ASSUME NEW w \in Nat, NEW g \in Nat \ {0}, w % g = 0, NEW v \in Nat, v < w
  PROVE  (v - (v % g)) + g <= w
<1> DEFINE c == w \div g
           d == v \div g
<1>0. c \in Nat /\ w = g * c
  BY DivFacts
<1>r. d \in Nat /\ v = g * d + (v % g) /\ g * d = v - (v % g)
  BY DivFacts
<1>m. v % g \in 0 .. g - 1
  BY ModFacts
<1>1. /\ c \in Nat /\ w = g * c /\ d \in Nat
      /\ v = g * d + (v % g) /\ g * d = v - (v % g) /\ v % g \in 0 .. g - 1
  BY <1>0, <1>r, <1>m
<1> HIDE DEF c, d
<1>2. d < c
  <2> SUFFICES ASSUME c <= d PROVE FALSE
    BY <1>1
  <2>1. g * c <= g * d
    BY <1>1, ProductAtMost
  <2> QED BY <1>1, <2>1
<1>3. g * (d + 1) <= g * c
  BY <1>1, <1>2, ProductAtMost
<1>4. g * (d + 1) = g * d + g
  BY <1>1, Distributes
<1> QED BY <1>1, <1>3, <1>4

(* A multiple of a multiple of s is one of s; so is a difference.          *)
LEMMA MultipleOfMultiple ==
  ASSUME NEW s \in Nat \ {0}, NEW w \in Nat, NEW x \in Nat, w % s = 0, x % s = 0,
         NEW q \in Nat, w * q <= x
  PROVE  (x - w * q) % s = 0
<1> DEFINE c == w \div s
           d == x \div s
<1>1. c \in Nat /\ w = s * c /\ d \in Nat /\ x = s * d
  BY DivFacts
<1> HIDE DEF c, d
<1>2. w * q = s * (c * q)
  BY <1>1
<1>3. x - w * q = s * (d - c * q)
  BY <1>1, <1>2, Distributes
<1>4. d - c * q \in Nat
  <2>1. d - c * q \in Int
    BY <1>1
  <2>2. ASSUME d - c * q < 0 PROVE FALSE
    <3>1. c * q - d \in Nat \ {0}
      BY <1>1, <2>2
    <3>2. s * (c * q - d) >= s
      BY <3>1, WordMultiple
    <3>3. s * (c * q - d) = s * (c * q) - s * d
      BY <1>1, Distributes
    <3> QED BY <1>1, <1>2, <3>2, <3>3
  <2> QED BY <2>1, <2>2
<1> QED BY <1>3, <1>4, MultipleFacts

(* Quotients are ordered as the numbers are.                               *)
LEMMA QuotientAtMost ==
  ASSUME NEW p \in Nat \ {0}, NEW a \in Nat, NEW b \in Nat, a <= b
  PROVE  a \div p <= b \div p
<1> DEFINE c == a \div p
           d == b \div p
<1>1. c \in Nat /\ a = p * c + (a % p)
  BY DivFacts
<1>2. d \in Nat /\ b = p * d + (b % p)
  BY DivFacts
<1>3. a % p \in 0 .. p - 1 /\ b % p \in 0 .. p - 1
  BY ModFacts
<1> HIDE DEF c, d
<1>4. c <= d
  <2> SUFFICES ASSUME d + 1 <= c PROVE FALSE
    BY <1>1, <1>2
  <2>1. p * (d + 1) <= p * c
    BY <1>1, <1>2, ProductAtMost
  <2>2. p * (d + 1) = p * d + p
    BY <1>2, Distributes
  <2> QED BY <1>1, <1>2, <1>3, <2>1, <2>2
<1> QED BY <1>4 DEF c, d
(* Rounding up to a multiple of p in a word that the sum still fits.       *)
LEMMA RoundUpFacts ==
  ASSUME NEW s \in Nat, NEW p \in Nat \ {0}, NEW w \in Nat, s + p <= w,
         NEW x \in Nat, x = (s + p - 1) % w
  PROVE  /\ x - (x % p) \in Nat /\ (x - (x % p)) % p = 0
         /\ s <= x - (x % p) /\ x - (x % p) < s + p
<1> DEFINE y == s + p - 1
<1>1. y \in Nat /\ y < w
  OBVIOUS
<1>2. x = y
  BY <1>1
<1>3. x % p \in 0 .. p - 1 /\ x % p <= x /\ (x - (x % p)) % p = 0
  BY ModFacts
<1> DEFINE r == x % p
<1>4. r \in 0 .. p - 1 /\ r <= x
  BY <1>3
<1> HIDE DEF r
<1>5. x - r \in Nat /\ s <= x - r /\ x - r < s + p
  BY <1>1, <1>2, <1>4
<1> QED BY <1>3, <1>5 DEF r

-----------------------------------------------------------------------------
(* A set of numbers with 0 and each successor of a member has them all.    *)
LEMMA NatSetInduction ==
  ASSUME NEW S \in SUBSET Nat, 0 \in S, \A n \in S : n + 1 \in S
  PROVE  S = Nat
<1> DEFINE Less == {ss \in Nat \X Nat : ss[1] < ss[2]}
           T == Nat \ S
<1>1. IsWellFoundedOn(Less, Nat)
  BY NatLessThanWellFounded DEF OpToRel
<1>2. \A x \in Nat, y \in Nat : x < y => <<x, y>> \in Less
  OBVIOUS
<1> HIDE DEF Less
<1> SUFFICES ASSUME T # {} PROVE FALSE
  OBVIOUS
<1>3. \E x \in T : \A y \in T : ~ (<<y, x>> \in Less)
  <2> T \subseteq Nat
    OBVIOUS
  <2> HIDE DEF T
  <2> QED BY <1>1, WFMin
<1>4. PICK x \in T : \A y \in T : ~ (<<y, x>> \in Less)
  BY <1>3
<1>5. x # 0 /\ x - 1 \in Nat /\ x - 1 < x /\ x - 1 + 1 = x
  OBVIOUS
<1>6. x - 1 \in S
  BY <1>2, <1>4, <1>5
<1> QED BY <1>5, <1>6

(* The same up to n, and down from n + 1.                                  *)
LEMMA UpwardInduction ==
  ASSUME NEW n \in Nat, NEW S, 0 \in S, \A k \in 1 .. n : k - 1 \in S => k \in S
  PROVE  0 .. n \subseteq S
<1> DEFINE T == {k \in Nat : k <= n => k \in S}
<1>1. 0 \in T
  OBVIOUS
<1>2. ASSUME NEW k \in T PROVE k + 1 \in T
  <2> SUFFICES ASSUME k + 1 <= n PROVE k + 1 \in S
    OBVIOUS
  <2>1. k + 1 \in 1 .. n /\ (k + 1) - 1 = k /\ k \in S
    OBVIOUS
  <2> QED BY <2>1
<1>3. T \in SUBSET Nat
  OBVIOUS
<1> HIDE DEF T
<1>4. T = Nat
  BY <1>1, <1>2, <1>3, NatSetInduction
<1> QED BY <1>4 DEF T

LEMMA DownwardInduction ==
  ASSUME NEW n \in Nat, NEW S, n + 1 \in S, \A i \in 1 .. n : i + 1 \in S => i \in S
  PROVE  1 .. n + 1 \subseteq S
<1> DEFINE T == {k \in Nat : k <= n => n + 1 - k \in S}
<1>1. 0 \in T
  OBVIOUS
<1>2. \A k \in 1 .. n : k - 1 \in T => k \in T
  <2> SUFFICES ASSUME NEW k \in 1 .. n, n + 1 - (k - 1) \in S PROVE n + 1 - k \in S
    OBVIOUS
  <2>1. n + 1 - k \in 1 .. n /\ (n + 1 - k) + 1 = n + 1 - (k - 1)
    OBVIOUS
  <2> QED BY <2>1
<1> HIDE DEF T
<1>3. 0 .. n \subseteq T
  BY <1>1, <1>2, UpwardInduction
<1>4. ASSUME NEW i \in 1 .. n + 1 PROVE i \in S
  <2>1. n + 1 - i \in 0 .. n /\ n + 1 - (n + 1 - i) = i
    OBVIOUS
  <2>2. n + 1 - i \in T
    BY <1>3, <2>1
  <2> QED BY <2>1, <2>2 DEF T
<1> QED BY <1>4

(* A function is defined by its first value and a step from each value to  *)
(* the next, upward or downward.                                           *)
Steps(n, V) == [1 .. n -> [V -> V]]

Ascents(n, V, v, step) ==
  {f \in [0 .. n -> V] : f[0] = v /\ \A k \in 1 .. n : f[k] = step[k][f[k - 1]]}

Descents(n, V, v, step) ==
  {f \in [1 .. n + 1 -> V] : f[n + 1] = v /\ \A i \in 1 .. n : f[i] = step[i][f[i + 1]]}

LEMMA UpwardRecursion ==
  ASSUME NEW n \in Nat, NEW V, NEW v \in V, NEW step \in Steps(n, V)
  PROVE  Ascents(n, V, v, step) # {}
<1> USE DEF Steps
<1> DEFINE Upto(m, f) == f[0] = v /\ \A k \in 1 .. m : f[k] = step[k][f[k - 1]]
           S == {m \in 0 .. n : \E f \in [0 .. n -> V] : Upto(m, f)}
<1>1. 0 \in S
  <2>1. [k \in 0 .. n |-> v] \in [0 .. n -> V] /\ Upto(0, [k \in 0 .. n |-> v])
    OBVIOUS
  <2> HIDE DEF Upto
  <2> QED BY <2>1
<1>2. \A m \in 1 .. n : m - 1 \in S => m \in S
  <2> SUFFICES ASSUME NEW m \in 1 .. n, NEW f \in [0 .. n -> V], Upto(m - 1, f) PROVE m \in S
    OBVIOUS
  <2>0. m \in Nat /\ m - 1 \in 0 .. n
    OBVIOUS
  <2>1. f[m - 1] \in V /\ step[m][f[m - 1]] \in V
    BY <2>0
  <2> DEFINE w == step[m][f[m - 1]]
             g == [f EXCEPT ![m] = w]
  <2>2. g \in [0 .. n -> V] /\ \A k \in 0 .. n : g[k] = IF k = m THEN w ELSE f[k]
    <3>1. w \in V
      BY <2>1
    <3> HIDE DEF w
    <3> QED BY <3>1
  <2> HIDE DEF g
  <2>3. g[0] = v
    BY <2>2
  <2>4. ASSUME NEW k \in 1 .. m PROVE g[k] = step[k][g[k - 1]]
    <3>1. k \in 0 .. n /\ k - 1 \in 0 .. n /\ k - 1 # m
      BY <2>0
    <3>2. g[k - 1] = f[k - 1]
      BY <2>2, <3>1
    <3>3. CASE k = m
      BY <2>2, <3>1, <3>2, <3>3
    <3>4. CASE k # m
      <4>1. k \in 1 .. m - 1
        BY <2>0, <3>4
      <4>2. f[k] = step[k][f[k - 1]]
        BY <4>1
      <4> QED BY <2>2, <3>1, <3>2, <3>4, <4>2
    <3> QED BY <3>3, <3>4
  <2>5. Upto(m, g) /\ m \in 0 .. n
    BY <2>0, <2>3, <2>4
  <2> HIDE DEF Upto
  <2> QED BY <2>2, <2>5
<1> HIDE DEF S
<1>3. n \in S
  <2>1. 0 .. n \subseteq S
    BY <1>1, <1>2, UpwardInduction
  <2> QED BY <2>1
<1> QED BY <1>3 DEF S, Ascents

LEMMA DownwardRecursion ==
  ASSUME NEW n \in Nat, NEW V, NEW v \in V, NEW step \in Steps(n, V)
  PROVE  Descents(n, V, v, step) # {}
<1> DEFINE back == [k \in 1 .. n |-> step[n + 1 - k]]
<1>1. \A k \in 1 .. n : n + 1 - k \in 1 .. n
  OBVIOUS
<1>2. back \in Steps(n, V) /\ \A k \in 1 .. n : back[k] = step[n + 1 - k]
  BY <1>1 DEF Steps
<1> HIDE DEF back
<1>3. PICK g \in [0 .. n -> V] : g[0] = v /\ \A k \in 1 .. n : g[k] = back[k][g[k - 1]]
  <2>1. Ascents(n, V, v, back) # {}
    BY <1>2, UpwardRecursion
  <2> QED BY <2>1 DEF Ascents
<1> DEFINE f == [i \in 1 .. n + 1 |-> g[n + 1 - i]]
<1>4. f \in [1 .. n + 1 -> V] /\ f[n + 1] = v
  <2>1. \A i \in 1 .. n + 1 : n + 1 - i \in 0 .. n
    OBVIOUS
  <2>2. n + 1 - (n + 1) = 0 /\ n + 1 \in 1 .. n + 1
    OBVIOUS
  <2> QED BY <1>3, <2>1, <2>2
<1>5. ASSUME NEW i \in 1 .. n PROVE f[i] = step[i][f[i + 1]]
  <2>1. n + 1 - i \in 1 .. n /\ (n + 1 - i) - 1 = n + 1 - (i + 1) /\ n + 1 - (n + 1 - i) = i
    OBVIOUS
  <2>2. f[i] = g[n + 1 - i] /\ f[i + 1] = g[n + 1 - (i + 1)]
    OBVIOUS
  <2> HIDE DEF f
  <2>3. g[n + 1 - i] = back[n + 1 - i][g[n + 1 - (i + 1)]]
    BY <1>3, <2>1
  <2>4. back[n + 1 - i] = step[i]
    BY <1>2, <2>1
  <2> QED BY <2>2, <2>3, <2>4
<1> HIDE DEF f
<1> QED BY <1>4, <1>5 DEF Descents
=============================================================================
