-------------------------- MODULE VramClientsProofs --------------------------
(***************************************************************************)
(* Proofs about VramClients for shapes of any number of dimensions, any    *)
(* sequence of calls and any amount of VRAM: where the elements of a       *)
(* tensor lie, who owns which bytes, what a transfer shows, what the       *)
(* counters say, and what the GPU has of the runlist.                      *)
(***************************************************************************)
EXTENDS VramClients, ModArithmetic, FiniteSetTheorems

LEMMA ClientConstants ==
  /\ PageSize \in Nat \ {0} /\ Word \in Nat \ {0} /\ 1 < Word
  /\ Reserved \in Nat /\ VaBase \in 0 .. Word - 1
  /\ Bar1Base \in Nat /\ Bar1Size \in Nat /\ EntryBytes \in Nat \ {0} /\ MaxChannels \in Nat
BY WidthAssumption, TensorAssumption, RunlistAssumption

(* A request of any size is rounded to some size; one that does not wrap   *)
(* is covered.                                                             *)
LEMMA AlignedSize ==
  ASSUME NEW s \in Nat
  PROVE  AlignUp(s) \in Nat /\ (s + PageSize <= Word => s <= AlignUp(s))
<1> DEFINE x == (s + PageSize - 1) % Word
<1>1. x \in Nat
  BY ClientConstants
<1>2. AlignUp(s) = x - (x % PageSize)
  BY DEF AlignUp
<1>3. x % PageSize \in Nat /\ x % PageSize <= x
  BY <1>1, ClientConstants, ModFacts
<1>4. ASSUME s + PageSize <= Word PROVE s <= AlignUp(s)
  <2>1. PageSize \in Nat \ {0} /\ Word \in Nat
    BY ClientConstants
  <2>2. s <= x - (x % PageSize)
    BY <1>1, <1>4, <2>1, RoundUpFacts
  <2> QED BY <1>2, <2>2
<1> HIDE DEF x
<1> QED BY <1>1, <1>2, <1>3, <1>4

-----------------------------------------------------------------------------
(* The loop of compute_strides and its product without the wrap.           *)
LEMMA ProductsFacts ==
  ASSUME NEW shape \in Seq(Nat)
  PROVE  LET n == Len(shape)
             P == Products(shape)
         IN /\ P \in [1 .. n + 1 -> 0 .. Word - 1] /\ P[n + 1] = 1
            /\ \A i \in 1 .. n : P[i] = (shape[i] * P[i + 1]) % Word
<1> DEFINE n == Len(shape)
           V == 0 .. Word - 1
           Eq(h) == h = [i \in 1 .. n + 1 |->
                           IF i = n + 1 THEN 1 ELSE (shape[i] * h[i + 1]) % Word]
           step == [i \in 1 .. n |-> [x \in V |-> (shape[i] * x) % Word]]
<1>1. n \in Nat /\ 1 \in V /\ \A i \in 1 .. n : shape[i] \in Nat
  BY ClientConstants
<1>2. ASSUME NEW i \in 1 .. n, NEW x \in V PROVE (shape[i] * x) % Word \in V
  <2>1. shape[i] \in Nat /\ x \in Nat /\ Word \in Nat \ {0}
    BY <1>1, ClientConstants
  <2>2. shape[i] * x \in Nat
    BY <2>1
  <2> QED BY <2>1, <2>2, ModFacts
<1>3. step \in [1 .. n -> [V -> V]]
  BY <1>2
<1>4. \A i \in 1 .. n : \A x \in V : step[i][x] = (shape[i] * x) % Word
  OBVIOUS
<1>5. Products(shape) = CHOOSE h : Eq(h)
  BY DEF Products
<1> HIDE DEF n, V, step
<1>6. PICK f \in [1 .. n + 1 -> V] : f[n + 1] = 1 /\ \A i \in 1 .. n : f[i] = step[i][f[i + 1]]
  <2>1. Descents(n, V, 1, step) # {}
    BY <1>1, <1>3, DownwardRecursion DEF Steps
  <2> QED BY <2>1 DEF Descents
<1>7. \A i \in 1 .. n : i + 1 \in 1 .. n + 1 /\ i \in 1 .. n + 1 /\ i # n + 1
  BY <1>1
<1>8. \A i \in 1 .. n + 1 : i # n + 1 => i \in 1 .. n
  BY <1>1
<1>9. \A i \in 1 .. n : f[i] = (shape[i] * f[i + 1]) % Word
  BY <1>4, <1>6, <1>7
<1>10. Eq(f)
  <2>1. \A i \in 1 .. n + 1 : f[i] = IF i = n + 1 THEN 1 ELSE (shape[i] * f[i + 1]) % Word
    BY <1>6, <1>8, <1>9
  <2> QED BY <2>1
<1>11. Eq(Products(shape))
  <2> HIDE DEF Eq
  <2> QED BY <1>5, <1>10
<1> DEFINE P == Products(shape)
<1>12. P = [i \in 1 .. n + 1 |-> IF i = n + 1 THEN 1 ELSE (shape[i] * P[i + 1]) % Word]
  BY <1>11
<1> HIDE DEF P
<1>13. n + 1 \in 1 .. n + 1
  BY <1>1
<1>14. P[n + 1] = 1 /\ \A i \in 1 .. n : P[i] = (shape[i] * P[i + 1]) % Word
  BY <1>7, <1>12, <1>13
<1>15. 1 .. n + 1 \subseteq {i \in 1 .. n + 1 : P[i] \in V}
  <2> DEFINE S == {i \in 1 .. n + 1 : P[i] \in V}
  <2>1. n + 1 \in S
    BY <1>1, <1>13, <1>14
  <2>2. \A i \in 1 .. n : i + 1 \in S => i \in S
    BY <1>2, <1>7, <1>14
  <2> HIDE DEF S
  <2>3. 1 .. n + 1 \subseteq S
    BY <1>1, <2>1, <2>2, DownwardInduction
  <2> QED BY <2>3 DEF S
<1>16. P \in [1 .. n + 1 -> V]
  BY <1>12, <1>15
<1> QED BY <1>14, <1>16 DEF P, n, V

LEMMA TrueProductsFacts ==
  ASSUME NEW shape \in Seq(Nat)
  PROVE  LET n == Len(shape)
             P == TrueProducts(shape)
         IN /\ P \in [1 .. n + 1 -> Nat] /\ P[n + 1] = 1
            /\ \A i \in 1 .. n : P[i] = shape[i] * P[i + 1]
<1> DEFINE n == Len(shape)
           Eq(h) == h = [i \in 1 .. n + 1 |-> IF i = n + 1 THEN 1 ELSE shape[i] * h[i + 1]]
           step == [i \in 1 .. n |-> [x \in Nat |-> shape[i] * x]]
<1>1. n \in Nat /\ \A i \in 1 .. n : shape[i] \in Nat
  OBVIOUS
<1>2. ASSUME NEW i \in 1 .. n, NEW x \in Nat PROVE shape[i] * x \in Nat
  BY <1>1
<1>3. step \in [1 .. n -> [Nat -> Nat]]
  BY <1>2
<1>4. \A i \in 1 .. n : \A x \in Nat : step[i][x] = shape[i] * x
  OBVIOUS
<1>5. TrueProducts(shape) = CHOOSE h : Eq(h)
  BY DEF TrueProducts
<1> HIDE DEF n, step
<1>6. PICK f \in [1 .. n + 1 -> Nat] : f[n + 1] = 1 /\ \A i \in 1 .. n : f[i] = step[i][f[i + 1]]
  <2>1. Descents(n, Nat, 1, step) # {}
    BY <1>1, <1>3, DownwardRecursion DEF Steps
  <2> QED BY <2>1 DEF Descents
<1>7. \A i \in 1 .. n : i + 1 \in 1 .. n + 1 /\ i \in 1 .. n + 1 /\ i # n + 1
  BY <1>1
<1>8. \A i \in 1 .. n + 1 : i # n + 1 => i \in 1 .. n
  BY <1>1
<1>9. \A i \in 1 .. n : f[i] = shape[i] * f[i + 1]
  BY <1>4, <1>6, <1>7
<1>10. Eq(f)
  <2>1. \A i \in 1 .. n + 1 : f[i] = IF i = n + 1 THEN 1 ELSE shape[i] * f[i + 1]
    BY <1>6, <1>8, <1>9
  <2> QED BY <2>1
<1>11. Eq(TrueProducts(shape))
  <2> HIDE DEF Eq
  <2> QED BY <1>5, <1>10
<1> DEFINE P == TrueProducts(shape)
<1>12. P = [i \in 1 .. n + 1 |-> IF i = n + 1 THEN 1 ELSE shape[i] * P[i + 1]]
  BY <1>11
<1> HIDE DEF P
<1>13. n + 1 \in 1 .. n + 1
  BY <1>1
<1>14. P[n + 1] = 1 /\ \A i \in 1 .. n : P[i] = shape[i] * P[i + 1]
  BY <1>7, <1>12, <1>13
<1> DEFINE S == {i \in 1 .. n + 1 : P[i] \in Nat}
<1>15. n + 1 \in S
  BY <1>13, <1>14
<1>16. \A i \in 1 .. n : i + 1 \in S => i \in S
  BY <1>2, <1>7, <1>14
<1> HIDE DEF S
<1>17. 1 .. n + 1 \subseteq S
  BY <1>1, <1>15, <1>16, DownwardInduction
<1>18. P \in [1 .. n + 1 -> Nat]
  BY <1>12, <1>17 DEF S
<1> QED BY <1>14, <1>18 DEF P, n

(* The products wrap to the remainders of the true ones.                   *)
LEMMA ProductsWrap ==
  ASSUME NEW shape \in Seq(Nat)
  PROVE  \A i \in 1 .. Len(shape) + 1 : Products(shape)[i] = TrueProducts(shape)[i] % Word
<1> DEFINE n == Len(shape)
           P == Products(shape)
           T == TrueProducts(shape)
           S == {i \in 1 .. n + 1 : P[i] = T[i] % Word}
<1>1. P[n + 1] = 1 /\ \A i \in 1 .. n : P[i] = (shape[i] * P[i + 1]) % Word
  BY ProductsFacts
<1>2. T \in [1 .. n + 1 -> Nat] /\ T[n + 1] = 1 /\ \A i \in 1 .. n : T[i] = shape[i] * T[i + 1]
  BY TrueProductsFacts
<1>3. n \in Nat /\ \A i \in 1 .. n : shape[i] \in Nat
  OBVIOUS
<1> HIDE DEF n, P, T
<1>4. n + 1 \in S
  <2>1. n + 1 \in 1 .. n + 1 /\ 1 = 1 % Word
    BY <1>3, ClientConstants
  <2> QED BY <1>1, <1>2, <2>1
<1>5. ASSUME NEW i \in 1 .. n, i + 1 \in S PROVE i \in S
  <2>1. i + 1 \in 1 .. n + 1 /\ i \in 1 .. n + 1 /\ shape[i] \in Nat /\ T[i + 1] \in Nat
    BY <1>2, <1>3
  <2>2. P[i] = (shape[i] * (T[i + 1] % Word)) % Word
    BY <1>1, <1>5
  <2>3. Word \in Nat \ {0}
    BY ClientConstants
  <2>4. P[i] = (shape[i] * T[i + 1]) % Word
    BY <2>1, <2>2, <2>3, ModProduct
  <2> QED BY <1>2, <2>1, <2>4
<1> HIDE DEF S
<1>6. 1 .. n + 1 \subseteq S
  BY <1>3, <1>4, <1>5, DownwardInduction
<1> QED BY <1>6 DEF S, n, P, T

(* With no empty dimension, and no wrap of the whole, no product wraps.    *)
LEMMA ProductsTrue ==
  ASSUME NEW shape \in Seq(Nat), \A k \in 1 .. Len(shape) : shape[k] # 0,
         TrueProducts(shape)[1] < Word
  PROVE  \A i \in 1 .. Len(shape) + 1 :
           Products(shape)[i] = TrueProducts(shape)[i] /\ TrueProducts(shape)[i] \in Nat \ {0}
<1> DEFINE n == Len(shape)
           T == TrueProducts(shape)
           S == {i \in 0 .. n : T[i + 1] \in Nat /\ T[i + 1] < Word}
           U == {i \in 1 .. n + 1 : T[i] # 0}
<1>1. T \in [1 .. n + 1 -> Nat] /\ T[n + 1] = 1 /\ \A i \in 1 .. n : T[i] = shape[i] * T[i + 1]
  BY TrueProductsFacts
<1>2. n \in Nat /\ \A i \in 1 .. n : shape[i] \in Nat \ {0}
  OBVIOUS
<1> HIDE DEF n, T
<1>3. 0 \in S
  BY <1>1, <1>2 DEF T
<1>4. ASSUME NEW i \in 1 .. n, i - 1 \in S PROVE i \in S
  <2>1. i + 1 \in 1 .. n + 1 /\ T[i + 1] \in Nat /\ (i - 1) + 1 = i /\ i \in 0 .. n
    BY <1>1, <1>2
  <2>2. T[i] \in Nat /\ T[i] < Word /\ T[i] = shape[i] * T[i + 1]
    BY <1>1, <1>4, <2>1
  <2>3. \A s \in Nat \ {0}, t \in Nat : t <= s * t
    OBVIOUS
  <2>4. T[i + 1] <= T[i]
    BY <1>2, <2>1, <2>2, <2>3
  <2> QED BY <2>1, <2>2, <2>4, ClientConstants
<1>5. n + 1 \in U
  BY <1>1, <1>2
<1>6. ASSUME NEW i \in 1 .. n, i + 1 \in U PROVE i \in U
  <2>1. i + 1 \in 1 .. n + 1 /\ i \in 1 .. n + 1 /\ T[i + 1] \in Nat \ {0}
    BY <1>1, <1>2, <1>6
  <2>2. \A s \in Nat \ {0}, t \in Nat \ {0} : s * t # 0
    OBVIOUS
  <2> QED BY <1>1, <1>2, <2>1, <2>2
<1> HIDE DEF S, U
<1>7. 0 .. n \subseteq S
  BY <1>2, <1>3, <1>4, UpwardInduction
<1>8. 1 .. n + 1 \subseteq U
  BY <1>2, <1>5, <1>6, DownwardInduction
<1>9. ASSUME NEW i \in 1 .. n + 1
      PROVE  Products(shape)[i] = T[i] /\ T[i] \in Nat \ {0}
  <2>1. i - 1 \in 0 .. n /\ (i - 1) + 1 = i
    BY <1>2
  <2>2. T[i] \in Nat /\ T[i] < Word
    BY <1>7, <2>1 DEF S
  <2>3. Products(shape)[i] = T[i] % Word
    BY ProductsWrap DEF n, T
  <2>4. T[i] # 0
    BY <1>8 DEF U
  <2> QED BY <2>2, <2>3, <2>4, ClientConstants, SMTT(30)
<1> QED BY <1>9 DEF n, T

-----------------------------------------------------------------------------
(* Where elements lie: x has the strides that allocate_tensor gives it.    *)
RowMajor(x) == x.shape \in Seq(Nat) /\ x.strides = compute_strides(x.shape)

LEMMA IndexBounds ==
  ASSUME NEW x, RowMajor(x), NEW f \in Indices(x)
  PROVE  \A k \in 1 .. Len(x.shape) : f[k] \in Nat /\ x.shape[k] \in Nat /\ f[k] < x.shape[k]
<1> DEFINE m == Max({0} \cup Range(x.shape))
<1>1. f \in [DOMAIN x.shape -> 0 .. m] /\ \A k \in DOMAIN x.shape : f[k] < x.shape[k]
  BY DEF Indices
<1>2. DOMAIN x.shape = 1 .. Len(x.shape) /\ \A k \in 1 .. Len(x.shape) : x.shape[k] \in Nat
  BY DEF RowMajor
<1> HIDE DEF m
<1>3. \A j \in 0 .. m : j \in Nat
  OBVIOUS
<1> QED BY <1>1, <1>2, <1>3

LEMMA StridesFacts ==
  ASSUME NEW x, RowMajor(x)
  PROVE  \A i \in 1 .. Len(x.shape) : x.strides[i] = Products(x.shape)[i + 1] /\ x.strides[i] \in Nat
<1>1. DOMAIN x.shape = 1 .. Len(x.shape) /\ Len(x.shape) \in Nat
  BY DEF RowMajor
<1>2. \A i \in 1 .. Len(x.shape) : x.strides[i] = Products(x.shape)[i + 1]
  BY <1>1 DEF RowMajor, compute_strides
<1>3. \A i \in 1 .. Len(x.shape) + 1 : Products(x.shape)[i] \in 0 .. Word - 1
  BY ProductsFacts DEF RowMajor
<1>4. \A i \in 1 .. Len(x.shape) : i + 1 \in 1 .. Len(x.shape) + 1
  BY <1>1
<1>5. \A v \in 0 .. Word - 1 : v \in Nat
  BY ClientConstants
<1> QED BY <1>2, <1>3, <1>4, <1>5

LEMMA OffsetsFacts ==
  ASSUME NEW x, RowMajor(x), NEW f \in Indices(x)
  PROVE  LET n == Len(x.shape)
             F == Offsets(x, f)
         IN /\ F \in [1 .. n + 1 -> Nat] /\ F[n + 1] = 0
            /\ \A i \in 1 .. n : F[i] = (f[i] * x.strides[i]) + F[i + 1]
<1> DEFINE n == Len(x.shape)
           Eq(h) == h = [i \in 1 .. n + 1 |->
                           IF i = n + 1 THEN 0 ELSE (f[i] * x.strides[i]) + h[i + 1]]
           step == [i \in 1 .. n |-> [y \in Nat |-> (f[i] * x.strides[i]) + y]]
<1>1. n \in Nat /\ \A i \in 1 .. n : f[i] \in Nat /\ x.strides[i] \in Nat
  BY IndexBounds, StridesFacts DEF RowMajor
<1>2. ASSUME NEW i \in 1 .. n, NEW y \in Nat PROVE (f[i] * x.strides[i]) + y \in Nat
  <2>1. f[i] * x.strides[i] \in Nat
    BY <1>1
  <2> QED BY <2>1
<1>3. step \in [1 .. n -> [Nat -> Nat]]
  BY <1>2
<1>4. \A i \in 1 .. n : \A y \in Nat : step[i][y] = (f[i] * x.strides[i]) + y
  OBVIOUS
<1>5. Offsets(x, f) = CHOOSE h : Eq(h)
  BY DEF Offsets
<1> HIDE DEF n, step
<1>6. PICK g \in [1 .. n + 1 -> Nat] : g[n + 1] = 0 /\ \A i \in 1 .. n : g[i] = step[i][g[i + 1]]
  <2>1. Descents(n, Nat, 0, step) # {}
    BY <1>1, <1>3, DownwardRecursion DEF Steps
  <2> QED BY <2>1 DEF Descents
<1>7. \A i \in 1 .. n : i + 1 \in 1 .. n + 1 /\ i \in 1 .. n + 1 /\ i # n + 1
  BY <1>1
<1>8. \A i \in 1 .. n + 1 : i # n + 1 => i \in 1 .. n
  BY <1>1
<1>9. \A i \in 1 .. n : g[i] = (f[i] * x.strides[i]) + g[i + 1]
  BY <1>4, <1>6, <1>7
<1>10. Eq(g)
  <2>1. \A i \in 1 .. n + 1 : g[i] = IF i = n + 1 THEN 0 ELSE (f[i] * x.strides[i]) + g[i + 1]
    BY <1>6, <1>8, <1>9
  <2> QED BY <2>1
<1>11. Eq(Offsets(x, f))
  <2> HIDE DEF Eq
  <2> QED BY <1>5, <1>10
<1> DEFINE F == Offsets(x, f)
<1>12. F = [i \in 1 .. n + 1 |-> IF i = n + 1 THEN 0 ELSE (f[i] * x.strides[i]) + F[i + 1]]
  BY <1>11
<1> HIDE DEF F
<1>13. n + 1 \in 1 .. n + 1
  BY <1>1
<1>14. F[n + 1] = 0 /\ \A i \in 1 .. n : F[i] = (f[i] * x.strides[i]) + F[i + 1]
  BY <1>7, <1>12, <1>13
<1> DEFINE S == {i \in 1 .. n + 1 : F[i] \in Nat}
<1>15. n + 1 \in S
  BY <1>13, <1>14
<1>16. \A i \in 1 .. n : i + 1 \in S => i \in S
  BY <1>2, <1>7, <1>14
<1> HIDE DEF S
<1>17. 1 .. n + 1 \subseteq S
  BY <1>1, <1>15, <1>16, DownwardInduction
<1>18. F \in [1 .. n + 1 -> Nat]
  BY <1>12, <1>17 DEF S
<1> QED BY <1>14, <1>18 DEF F, n

(* The offset within the dimensions from i on is below their product.      *)
LEMMA OffsetsBelow ==
  ASSUME NEW x, RowMajor(x), TrueElements(x) < Word, NEW f \in Indices(x)
  PROVE  LET T == TrueProducts(x.shape)
         IN \A i \in 1 .. Len(x.shape) + 1 :
              Offsets(x, f)[i] \in Nat /\ T[i] \in Nat /\ Offsets(x, f)[i] < T[i]
<1> DEFINE n == Len(x.shape)
           T == TrueProducts(x.shape)
           F == Offsets(x, f)
           S == {i \in 1 .. n + 1 : F[i] < T[i]}
<1>1. n \in Nat /\ x.shape \in Seq(Nat)
  BY DEF RowMajor
<1>2. \A k \in 1 .. n : f[k] \in Nat /\ x.shape[k] \in Nat /\ f[k] < x.shape[k]
  BY IndexBounds
<1>3. T \in [1 .. n + 1 -> Nat] /\ T[n + 1] = 1 /\ \A i \in 1 .. n : T[i] = x.shape[i] * T[i + 1]
  BY <1>1, TrueProductsFacts
<1>4. /\ F \in [1 .. n + 1 -> Nat] /\ F[n + 1] = 0
      /\ \A i \in 1 .. n : F[i] = (f[i] * x.strides[i]) + F[i + 1]
  BY OffsetsFacts
<1>5. \A i \in 1 .. n + 1 : Products(x.shape)[i] = T[i]
  <2>1. \A k \in 1 .. n : x.shape[k] # 0
    BY <1>2
  <2> QED BY <1>1, <2>1, ProductsTrue DEF TrueElements
<1>6. \A i \in 1 .. n : x.strides[i] = T[i + 1]
  <2>1. \A i \in 1 .. n : i + 1 \in 1 .. n + 1
    BY <1>1
  <2> QED BY <1>5, <2>1, StridesFacts
<1> HIDE DEF n, T, F
<1>7. n + 1 \in S
  BY <1>1, <1>3, <1>4
<1>8. ASSUME NEW i \in 1 .. n, i + 1 \in S PROVE i \in S
  <2>1. /\ i + 1 \in 1 .. n + 1 /\ i \in 1 .. n + 1
        /\ T[i + 1] \in Nat /\ F[i + 1] \in Nat /\ F[i + 1] < T[i + 1]
    BY <1>1, <1>3, <1>4, <1>8
  <2>2. F[i] = (f[i] * T[i + 1]) + F[i + 1] /\ T[i] = x.shape[i] * T[i + 1]
    BY <1>3, <1>4, <1>6
  <2>3. ASSUME NEW a \in Nat, NEW b \in Nat, a < b, NEW t \in Nat, NEW o \in Nat, o < t
        PROVE  (a * t) + o < b * t
    <3>1. t * (a + 1) <= t * b
      BY <2>3, ProductAtMost
    <3>2. t * (a + 1) = t * a + t
      BY Distributes
    <3>3. t * a = a * t /\ t * b = b * t /\ a * t \in Nat /\ b * t \in Nat
      OBVIOUS
    <3> QED BY <2>3, <3>1, <3>2, <3>3
  <2> QED BY <1>2, <2>1, <2>2, <2>3
<1> HIDE DEF S
<1>9. 1 .. n + 1 \subseteq S
  BY <1>1, <1>7, <1>8, DownwardInduction
<1>10. \A i \in 1 .. n + 1 : F[i] \in Nat /\ T[i] \in Nat /\ F[i] < T[i]
  BY <1>3, <1>4, <1>9 DEF S
<1> QED BY <1>10 DEF n, T, F

(* Offsets that agree come from indices that agree.                        *)
LEMMA OffsetsApart ==
  ASSUME NEW x, RowMajor(x), TrueElements(x) < Word, NEW f \in Indices(x), NEW g \in Indices(x),
         Offset(x, f) = Offset(x, g)
  PROVE  f = g
<1> DEFINE n == Len(x.shape)
           T == TrueProducts(x.shape)
           F == Offsets(x, f)
           G == Offsets(x, g)
           S == {i \in 0 .. n : F[i + 1] = G[i + 1] /\ \A k \in 1 .. i : f[k] = g[k]}
<1>1. n \in Nat /\ x.shape \in Seq(Nat) /\ DOMAIN x.shape = 1 .. n
  BY DEF RowMajor
<1>2. \A k \in 1 .. n : f[k] \in Nat /\ g[k] \in Nat /\ x.shape[k] # 0
  BY IndexBounds
<1>3. \A i \in 1 .. n + 1 :
        F[i] \in Nat /\ G[i] \in Nat /\ T[i] \in Nat /\ F[i] < T[i] /\ G[i] < T[i]
  BY OffsetsBelow
<1>4. \A i \in 1 .. n :
        F[i] = (f[i] * x.strides[i]) + F[i + 1] /\ G[i] = (g[i] * x.strides[i]) + G[i + 1]
  BY OffsetsFacts
<1>5. \A i \in 1 .. n + 1 : Products(x.shape)[i] = T[i]
  BY <1>1, <1>2, ProductsTrue DEF TrueElements
<1>6. \A i \in 1 .. n : x.strides[i] = T[i + 1] /\ i + 1 \in 1 .. n + 1
  BY <1>1, <1>5, StridesFacts
<1>7. F[1] = G[1]
  BY DEF Offset
<1> HIDE DEF n, T, F, G
<1>8. 0 \in S
  BY <1>1, <1>7
<1>9. ASSUME NEW i \in 1 .. n, i - 1 \in S PROVE i \in S
  <2>1. F[i] = G[i] /\ \A k \in 1 .. i - 1 : f[k] = g[k]
    <3>1. (i - 1) + 1 = i
      OBVIOUS
    <3> QED BY <1>9, <3>1
  <2>2. /\ f[i] \in Nat /\ g[i] \in Nat /\ T[i + 1] \in Nat
        /\ F[i + 1] \in Nat /\ G[i + 1] \in Nat /\ F[i + 1] < T[i + 1] /\ G[i + 1] < T[i + 1]
        /\ (f[i] * T[i + 1]) + F[i + 1] = (g[i] * T[i + 1]) + G[i + 1]
    BY <1>2, <1>3, <1>4, <1>6, <2>1
  <2>3. ASSUME NEW a \in Nat, NEW b \in Nat, NEW t \in Nat, NEW u \in Nat, NEW v \in Nat,
               u < t, v < t, (a * t) + u = (b * t) + v
        PROVE  a = b /\ u = v
    <3>1. a * t = t * a /\ b * t = t * b /\ t \in Nat \ {0} /\ u \in 0 .. t - 1 /\ v \in 0 .. t - 1
      BY <2>3
    <3>2. t * a + u = t * b + v
      BY <2>3, <3>1
    <3>3. u = v
      BY <3>1, <3>2, RemainderUnique
    <3>4. t * a = t * b
      <4>1. t * a \in Nat /\ t * b \in Nat
        OBVIOUS
      <4> QED BY <3>2, <3>3, <4>1
    <3>5. (t * a) \div t = a /\ (t * b) \div t = b
      BY <3>1, MultipleFacts
    <3> QED BY <3>3, <3>4, <3>5
  <2>4. f[i] = g[i] /\ F[i + 1] = G[i + 1]
    <3> DEFINE a == f[i]
               b == g[i]
               t == T[i + 1]
               u == F[i + 1]
               v == G[i + 1]
    <3>1. /\ a \in Nat /\ b \in Nat /\ t \in Nat /\ u \in Nat /\ v \in Nat
          /\ u < t /\ v < t /\ (a * t) + u = (b * t) + v
      BY <2>2
    <3> HIDE DEF a, b, t, u, v
    <3>2. a = b /\ u = v
      BY <2>3, <3>1
    <3> QED BY <3>2 DEF a, b, u, v
  <2>5. \A k \in 1 .. i : k \in 1 .. i - 1 \/ k = i
    OBVIOUS
  <2>6. i \in 0 .. n
    BY <1>1
  <2> QED BY <2>1, <2>4, <2>5, <2>6
<1> HIDE DEF S
<1>10. 0 .. n \subseteq S
  BY <1>1, <1>8, <1>9, UpwardInduction
<1>11. n \in S
  BY <1>1, <1>10
<1>12. \A k \in 1 .. n : f[k] = g[k]
  BY <1>11 DEF S
<1>13. DOMAIN f = 1 .. n /\ DOMAIN g = 1 .. n /\ f = [k \in 1 .. n |-> f[k]] /\ g = [k \in 1 .. n |-> g[k]]
  BY <1>1 DEF Indices
<1> QED BY <1>12, <1>13

-----------------------------------------------------------------------------
(* The bytes of a tensor whose caller's sizes can be represented.          *)
LEMMA BytesHold ==
  ASSUME NEW n \in Nat, NEW t \in Nat, n = t % Word, NEW dtype \in DTypes, t + 1 < Word,
         t * (IF dtype = "Int4" THEN 4 ELSE 8 * element_size(dtype)) <= 8 * (Word - PageSize)
  PROVE  /\ n = t
         /\ t * (IF dtype = "Int4" THEN 4 ELSE 8 * element_size(dtype)) <= 8 * SizeBytes(n, dtype)
         /\ SizeBytes(n, dtype) + PageSize <= Word
<1> DEFINE e == element_size(dtype)
<1>1. Word \in Nat \ {0} /\ PageSize \in Nat \ {0}
  BY ClientConstants
<1>2. n = t
  BY <1>1
<1>3. CASE dtype = "Int4"
  <2>1. (n + 1) % Word = n + 1
    BY <1>1, <1>2
  <2>2. SizeBytes(n, dtype) = (n + 1) \div 2
    BY <1>3, <2>1 DEF SizeBytes
  <2>3. t * 4 <= 8 * (Word - PageSize)
    BY <1>3
  <2> DEFINE h == (n + 1) \div 2
  <2>4. h \in Nat /\ n <= 2 * h /\ 2 * h <= n + 1
    OBVIOUS
  <2>5. SizeBytes(n, dtype) = h
    BY <2>2
  <2> HIDE DEF h
  <2>6. t * 4 <= 8 * h /\ h + PageSize <= Word
    BY <1>1, <1>2, <2>3, <2>4
  <2> QED BY <1>2, <1>3, <2>5, <2>6
<1>4. CASE dtype # "Int4"
  <2>1. e \in {1, 2, 4} /\ t * (8 * e) <= 8 * (Word - PageSize)
    BY <1>4 DEF element_size, DTypes
  <2>2. SizeBytes(n, dtype) = (n * e) % Word
    BY <1>4 DEF SizeBytes
  <2> HIDE DEF e
  <2>3. n * e \in Nat /\ n * e + PageSize <= Word
    BY <1>1, <1>2, <2>1
  <2>4. (n * e) % Word = n * e
    BY <1>1, <2>3
  <2>5. t * (8 * e) = 8 * (n * e)
    BY <1>2, <2>1
  <2> QED BY <1>2, <1>4, <2>2, <2>3, <2>4, <2>5 DEF e
<1> QED BY <1>3, <1>4

(* The sizes of any tensor are usizes and u64s.                            *)
LEMMA SizesInRange ==
  ASSUME NEW shape \in Seq(Nat), NEW dtype \in DTypes
  PROVE  /\ total_elements(shape) \in 0 .. Word - 1
         /\ SizeBytes(total_elements(shape), dtype) \in 0 .. Word - 1
<1> DEFINE n == total_elements(shape)
<1>1. Word \in Nat \ {0}
  BY ClientConstants
<1>2. n \in 0 .. Word - 1
  <2>1. 1 \in 1 .. Len(shape) + 1
    OBVIOUS
  <2> QED BY <2>1, ProductsFacts DEF total_elements
<1> HIDE DEF n
<1>3. ASSUME dtype = "Int4" PROVE SizeBytes(n, dtype) \in 0 .. Word - 1
  <2> DEFINE m == (n + 1) % Word
  <2>1. m \in 0 .. Word - 1
    BY <1>1, <1>2, ModFacts
  <2> HIDE DEF m
  <2>2. m \div 2 \in 0 .. Word - 1
    BY <1>1, <2>1
  <2> QED BY <1>3, <2>2 DEF SizeBytes, m
<1>4. ASSUME dtype # "Int4" PROVE SizeBytes(n, dtype) \in 0 .. Word - 1
  <2> DEFINE m == n * element_size(dtype)
  <2>1. element_size(dtype) \in {1, 2, 4}
    BY <1>4 DEF element_size, DTypes
  <2>2. m \in Nat
    BY <1>2, <2>1
  <2> HIDE DEF m
  <2>3. m % Word \in 0 .. Word - 1
    BY <1>1, <2>2, ModFacts
  <2> QED BY <1>4, <2>3 DEF SizeBytes, m
<1>5. SizeBytes(n, dtype) \in 0 .. Word - 1
  BY <1>3, <1>4
<1> QED BY <1>2, <1>5 DEF n

(* What is invariant of a tensor from its allocation on.                   *)
Made(x) ==
  /\ RowMajor(x) /\ x.dtype \in DTypes
  /\ x.num_elements = total_elements(x.shape)
  /\ x.size_bytes = SizeBytes(x.num_elements, x.dtype)
  /\ x.allocation \in Blocks /\ x.allocation.size = AlignUp(x.size_bytes)

LEMMA MadeFacts ==
  ASSUME NEW x, Made(x)
  PROVE  /\ x.num_elements \in 0 .. Word - 1 /\ x.size_bytes \in 0 .. Word - 1
         /\ x.size_bytes \in Nat /\ x.allocation.size \in Nat /\ x.allocation.phys_addr \in Nat
BY SizesInRange, ClientConstants DEF Made, RowMajor, Blocks

LEMMA MadeHolds ==
  ASSUME NEW x, Made(x), Representable(x)
  PROVE  /\ x.num_elements = TrueElements(x) /\ x.size_bytes <= x.allocation.size
         /\ TrueElements(x) \in Nat /\ TrueElements(x) < Word
         /\ TrueElements(x) * Bits(x) <= 8 * x.size_bytes
<1> DEFINE n == x.num_elements
           t == TrueElements(x)
<1>1. x.shape \in Seq(Nat) /\ x.dtype \in DTypes /\ 1 \in 1 .. Len(x.shape) + 1
  BY DEF Made, RowMajor
<1>2. t \in Nat
  BY <1>1, TrueProductsFacts DEF TrueElements
<1>3. n = t % Word
  BY <1>1, ProductsWrap DEF Made, total_elements, TrueElements
<1>4. /\ t + 1 < Word
      /\ t * (IF x.dtype = "Int4" THEN 4 ELSE 8 * element_size(x.dtype)) <= 8 * (Word - PageSize)
  BY DEF Representable, Bits
<1>5. n \in Nat
  BY <1>1, SizesInRange, ClientConstants DEF Made
<1> HIDE DEF n, t
<1>6. /\ n = t
      /\ t * (IF x.dtype = "Int4" THEN 4 ELSE 8 * element_size(x.dtype)) <= 8 * SizeBytes(n, x.dtype)
      /\ SizeBytes(n, x.dtype) + PageSize <= Word
  BY <1>1, <1>2, <1>3, <1>4, <1>5, BytesHold
<1>7. x.size_bytes = SizeBytes(n, x.dtype)
  BY DEF Made, n
<1>8. x.size_bytes <= x.allocation.size
  BY <1>6, <1>7, MadeFacts, AlignedSize DEF Made
<1>9. t < Word
  BY <1>2, <1>4, ClientConstants
<1> QED BY <1>2, <1>6, <1>7, <1>8, <1>9 DEF n, t, Bits

(* A tensor as it is made has its elements placed.                         *)
LEMMA MadePlaced ==
  ASSUME NEW x, Made(x), Representable(x)
  PROVE  /\ \A f \in Indices(x) : (Offset(x, f) + 1) * Bits(x) <= 8 * x.size_bytes
         /\ \A f, g \in Indices(x) : Offset(x, f) = Offset(x, g) => f = g
<1>1. RowMajor(x) /\ x.dtype \in DTypes /\ 1 \in 1 .. Len(x.shape) + 1
  BY DEF Made, RowMajor
<1>2. TrueElements(x) \in Nat /\ TrueElements(x) < Word /\ TrueElements(x) * Bits(x) <= 8 * x.size_bytes
  BY MadeHolds
<1>3. Bits(x) \in {4, 8, 16, 32}
  BY <1>1 DEF Bits, element_size, DTypes
<1>4. ASSUME NEW f \in Indices(x) PROVE (Offset(x, f) + 1) * Bits(x) <= 8 * x.size_bytes
  <2> DEFINE o == Offset(x, f)
             t == TrueElements(x)
  <2>1. o \in Nat /\ o < t
    BY <1>1, <1>2, OffsetsBelow DEF Offset, TrueElements
  <2>2. t \in Nat /\ t * Bits(x) <= 8 * x.size_bytes
    BY <1>2
  <2> HIDE DEF o, t
  <2>3. x.size_bytes \in Nat
    BY MadeFacts
  <2>4. (o + 1) * Bits(x) <= t * Bits(x)
    BY <1>3, <2>1, <2>2
  <2>5. (o + 1) * Bits(x) \in Nat /\ t * Bits(x) \in Nat
    BY <1>3, <2>1, <2>2
  <2>6. (o + 1) * Bits(x) <= 8 * x.size_bytes
    BY <2>2, <2>3, <2>4, <2>5
  <2> QED BY <2>6 DEF o
<1>5. \A f, g \in Indices(x) : Offset(x, f) = Offset(x, g) => f = g
  BY <1>1, <1>2, OffsetsApart
<1> QED BY <1>4, <1>5

-----------------------------------------------------------------------------
(* The sum of the sizes in a list: what is appended, replaced or removed.  *)
Sums(list) ==
  LET sum[k \in 0 .. Len(list)] == IF k = 0 THEN 0 ELSE sum[k - 1] + list[k].size_bytes
  IN sum

Sized(list) == Len(list) \in Nat /\ \A k \in 1 .. Len(list) : list[k].size_bytes \in Nat

LEMMA SumsFacts ==
  ASSUME NEW list, Sized(list)
  PROVE  /\ Sums(list) \in [0 .. Len(list) -> Nat] /\ Sums(list)[0] = 0
         /\ \A k \in 1 .. Len(list) : Sums(list)[k] = Sums(list)[k - 1] + list[k].size_bytes
         /\ TotalBytes(list) = Sums(list)[Len(list)] /\ TotalBytes(list) \in Nat
<1> DEFINE n == Len(list)
           Eq(h) == h = [k \in 0 .. n |-> IF k = 0 THEN 0 ELSE h[k - 1] + list[k].size_bytes]
           step == [k \in 1 .. n |-> [y \in Nat |-> y + list[k].size_bytes]]
<1>1. n \in Nat /\ \A k \in 1 .. n : list[k].size_bytes \in Nat
  BY DEF Sized
<1>2. step \in [1 .. n -> [Nat -> Nat]]
  BY <1>1
<1>3. \A k \in 1 .. n : \A y \in Nat : step[k][y] = y + list[k].size_bytes
  OBVIOUS
<1>4. Sums(list) = CHOOSE h : Eq(h)
  BY DEF Sums
<1>5. TotalBytes(list) = Sums(list)[n]
  BY DEF TotalBytes, Sums
<1> HIDE DEF n, step
<1>6. PICK g \in [0 .. n -> Nat] : g[0] = 0 /\ \A k \in 1 .. n : g[k] = step[k][g[k - 1]]
  <2>1. Ascents(n, Nat, 0, step) # {}
    BY <1>1, <1>2, UpwardRecursion DEF Steps
  <2> QED BY <2>1 DEF Ascents
<1>7. \A k \in 1 .. n : k - 1 \in 0 .. n /\ k \in 0 .. n /\ k # 0
  BY <1>1
<1>8. \A k \in 0 .. n : k # 0 => k \in 1 .. n
  BY <1>1
<1>9. \A k \in 1 .. n : g[k] = g[k - 1] + list[k].size_bytes
  BY <1>3, <1>6, <1>7
<1>10. Eq(g)
  <2>1. \A k \in 0 .. n : g[k] = IF k = 0 THEN 0 ELSE g[k - 1] + list[k].size_bytes
    BY <1>6, <1>8, <1>9
  <2> QED BY <2>1
<1>11. Eq(Sums(list))
  <2> HIDE DEF Eq
  <2> QED BY <1>4, <1>10
<1> DEFINE F == Sums(list)
<1>12. F = [k \in 0 .. n |-> IF k = 0 THEN 0 ELSE F[k - 1] + list[k].size_bytes]
  BY <1>11
<1> HIDE DEF F
<1>13. F[0] = 0 /\ \A k \in 1 .. n : F[k] = F[k - 1] + list[k].size_bytes
  <2>1. 0 \in 0 .. n
    BY <1>1
  <2> QED BY <1>7, <1>12, <2>1
<1> DEFINE S == {k \in 0 .. n : F[k] \in Nat}
<1>14. 0 \in S
  BY <1>1, <1>13
<1>15. ASSUME NEW k \in 1 .. n, k - 1 \in S PROVE k \in S
  <2>1. F[k - 1] \in Nat /\ list[k].size_bytes \in Nat /\ k \in 0 .. n
    BY <1>1, <1>7, <1>15
  <2>2. F[k] = F[k - 1] + list[k].size_bytes
    BY <1>13
  <2>3. F[k] \in Nat
    BY <2>1, <2>2
  <2> QED BY <2>1, <2>3
<1> HIDE DEF S
<1>16. 0 .. n \subseteq S
  BY <1>1, <1>14, <1>15, UpwardInduction
<1>17. F \in [0 .. n -> Nat] /\ n \in 0 .. n
  BY <1>1, <1>12, <1>16 DEF S
<1> QED BY <1>5, <1>13, <1>17 DEF F, n

(* Lists with the same sizes have the same sums.                           *)
LEMMA SumsAgree ==
  ASSUME NEW a, NEW b, Sized(a), Sized(b), NEW n \in Nat, n <= Len(a), n <= Len(b),
         \A k \in 1 .. n : a[k].size_bytes = b[k].size_bytes
  PROVE  \A k \in 0 .. n : Sums(a)[k] = Sums(b)[k]
<1> DEFINE A == Sums(a)
           B == Sums(b)
           S == {k \in 0 .. n : A[k] = B[k]}
<1>1. A[0] = 0 /\ \A k \in 1 .. Len(a) : A[k] = A[k - 1] + a[k].size_bytes
  BY SumsFacts
<1>2. B[0] = 0 /\ \A k \in 1 .. Len(b) : B[k] = B[k - 1] + b[k].size_bytes
  BY SumsFacts
<1>3. \A k \in 1 .. n : k \in 1 .. Len(a) /\ k \in 1 .. Len(b) /\ k \in 0 .. n
  BY DEF Sized
<1> HIDE DEF A, B
<1>4. 0 \in S
  BY <1>1, <1>2
<1>5. \A k \in 1 .. n : k - 1 \in S => k \in S
  BY <1>1, <1>2, <1>3
<1> HIDE DEF S
<1>6. 0 .. n \subseteq S
  BY <1>4, <1>5, UpwardInduction
<1> QED BY <1>6 DEF S, A, B

LEMMA TotalOfSame ==
  ASSUME NEW a, NEW b, Sized(a), Len(b) = Len(a),
         \A k \in 1 .. Len(a) : b[k].size_bytes = a[k].size_bytes
  PROVE  TotalBytes(b) = TotalBytes(a)
<1>1. Sized(b) /\ Len(a) \in Nat
  BY DEF Sized
<1>2. Sums(b)[Len(a)] = Sums(a)[Len(a)]
  <2>1. \A k \in 0 .. Len(a) : Sums(b)[k] = Sums(a)[k]
    BY <1>1, SumsAgree
  <2> QED BY <1>1, <2>1
<1> QED BY <1>1, <1>2, SumsFacts

LEMMA TotalOfAppend ==
  ASSUME NEW a, NEW b, Sized(a), Sized(b), Len(b) = Len(a) + 1,
         \A k \in 1 .. Len(a) : b[k] = a[k]
  PROVE  TotalBytes(b) = TotalBytes(a) + b[Len(b)].size_bytes
<1>1. Len(a) \in Nat /\ Len(a) \in 0 .. Len(a) /\ Len(b) \in 1 .. Len(b) /\ Len(b) - 1 = Len(a)
  BY DEF Sized
<1>2. Sums(b)[Len(a)] = Sums(a)[Len(a)]
  <2>1. \A k \in 0 .. Len(a) : Sums(b)[k] = Sums(a)[k]
    BY <1>1, SumsAgree
  <2> QED BY <1>1, <2>1
<1>3. Sums(b)[Len(b)] = Sums(b)[Len(b) - 1] + b[Len(b)].size_bytes
  BY <1>1, SumsFacts
<1> QED BY <1>1, <1>2, <1>3, SumsFacts

LEMMA TotalOfRemoval ==
  ASSUME NEW a, NEW b, Sized(a), Sized(b), NEW i \in 1 .. Len(a), Len(b) = Len(a) - 1,
         \A k \in 1 .. Len(b) : b[k] = IF k < i THEN a[k] ELSE a[k + 1]
  PROVE  TotalBytes(a) = TotalBytes(b) + a[i].size_bytes
<1> DEFINE A == Sums(a)
           B == Sums(b)
           n == Len(b)
           S == {k \in 0 .. n : IF k < i THEN B[k] = A[k] ELSE B[k] + a[i].size_bytes = A[k + 1]}
<1>1. /\ A \in [0 .. n + 1 -> Nat] /\ A[0] = 0
      /\ \A k \in 1 .. n + 1 : A[k] = A[k - 1] + a[k].size_bytes
  <2>1. Len(a) = n + 1
    BY DEF Sized
  <2> QED BY <2>1, SumsFacts
<1>2. B \in [0 .. n -> Nat] /\ B[0] = 0 /\ \A k \in 1 .. n : B[k] = B[k - 1] + b[k].size_bytes
  BY SumsFacts
<1>3. n \in Nat /\ i \in 1 .. n + 1 /\ \A k \in 1 .. n + 1 : a[k].size_bytes \in Nat
  BY DEF Sized
<1>4. TotalBytes(a) = A[n + 1] /\ TotalBytes(b) = B[n]
  <2>1. Len(a) = n + 1
    BY DEF Sized
  <2> QED BY <2>1, SumsFacts
<1>5. \A k \in 1 .. n : b[k] = IF k < i THEN a[k] ELSE a[k + 1]
  OBVIOUS
<1> HIDE DEF A, B, n
<1>6. 0 \in S
  BY <1>1, <1>2, <1>3
<1>7. ASSUME NEW k \in 1 .. n, k - 1 \in S PROVE k \in S
  <2>1. /\ k \in 0 .. n /\ k - 1 \in 0 .. n /\ k \in 1 .. n + 1 /\ k + 1 \in 1 .. n + 1
        /\ (k + 1) - 1 = k /\ (k - 1) + 1 = k
    BY <1>3
  <2>2. /\ B[k] = B[k - 1] + b[k].size_bytes /\ A[k] = A[k - 1] + a[k].size_bytes
        /\ A[k + 1] = A[k] + a[k + 1].size_bytes
    BY <1>1, <1>2, <2>1
  <2>3. /\ B[k - 1] \in Nat /\ A[k - 1] \in Nat
        /\ a[k].size_bytes \in Nat /\ a[k + 1].size_bytes \in Nat /\ a[i].size_bytes \in Nat
    <3>1. k - 1 \in 0 .. n + 1
      BY <1>3
    <3>2. B[k - 1] \in Nat /\ A[k - 1] \in Nat
      BY <1>1, <1>2, <2>1, <3>1
    <3> QED BY <1>3, <2>1, <3>2
  <2>4. CASE k < i
    <3>1. k - 1 < i
      BY <1>3, <2>4
    <3> QED BY <1>5, <1>7, <2>1, <2>2, <2>4, <3>1
  <2>5. CASE k = i
    <3>1. k - 1 < i /\ ~ (k < i)
      BY <1>3, <2>5
    <3>2. B[k - 1] = A[k - 1]
      BY <1>7, <3>1
    <3>3. B[k] + a[i].size_bytes = A[k + 1]
      BY <1>5, <2>2, <2>3, <2>5, <3>1, <3>2
    <3> QED BY <2>1, <3>1, <3>3
  <2>6. CASE k > i
    <3>1. ~ (k - 1 < i) /\ ~ (k < i)
      BY <1>3, <2>6
    <3>2. B[k - 1] + a[i].size_bytes = A[k]
      BY <1>7, <2>1, <3>1
    <3>3. B[k] = B[k - 1] + a[k + 1].size_bytes
      BY <1>5, <2>2, <3>1
    <3>4. B[k] + a[i].size_bytes = A[k + 1]
      BY <2>2, <2>3, <3>2, <3>3, SMTT(30)
    <3> QED BY <2>1, <3>1, <3>4
  <2> QED BY <1>3, <2>4, <2>5, <2>6
<1> HIDE DEF S
<1>8. n \in S
  <2>1. 0 .. n \subseteq S
    BY <1>3, <1>6, <1>7, UpwardInduction
  <2> QED BY <1>3, <2>1
<1>9. A[n + 1] = B[n] + a[i].size_bytes
  <2>1. CASE n < i
    <3>1. i = n + 1 /\ B[n] = A[n]
      BY <1>3, <1>8, <2>1 DEF S
    <3>2. n + 1 \in 1 .. n + 1 /\ (n + 1) - 1 = n
      BY <1>3
    <3> QED BY <1>1, <3>1, <3>2
  <2>2. CASE ~ (n < i)
    BY <1>8, <2>2 DEF S
  <2> QED BY <2>1, <2>2
<1> QED BY <1>4, <1>9

LEMMA RemoveAtFacts ==
  ASSUME NEW S, NEW s \in Seq(S), NEW i \in 1 .. Len(s)
  PROVE  /\ RemoveAt(s, i) \in Seq(S) /\ Len(RemoveAt(s, i)) = Len(s) - 1
         /\ \A k \in 1 .. Len(s) - 1 : RemoveAt(s, i)[k] = IF k < i THEN s[k] ELSE s[k + 1]
<1> DEFINE u == SubSeq(s, 1, i - 1)
           v == SubSeq(s, i + 1, Len(s))
<1>1. u \in Seq(S) /\ Len(u) = i - 1 /\ \A k \in 1 .. i - 1 : u[k] = s[k]
  OBVIOUS
<1>2. v \in Seq(S) /\ Len(v) = Len(s) - i /\ \A k \in 1 .. Len(s) - i : v[k] = s[k + i]
  OBVIOUS
<1>3. RemoveAt(s, i) = u \o v /\ Len(s) \in Nat
  BY DEF RemoveAt
<1> HIDE DEF u, v
<1>4. u \o v \in Seq(S) /\ Len(u \o v) = Len(s) - 1
  BY <1>1, <1>2, <1>3
<1>5. ASSUME NEW k \in 1 .. Len(s) - 1 PROVE (u \o v)[k] = IF k < i THEN s[k] ELSE s[k + 1]
  <2>1. CASE k < i
    BY <1>1, <1>2, <2>1
  <2>2. CASE ~ (k < i)
    <3>1. k - (i - 1) \in 1 .. Len(s) - i /\ (k - (i - 1)) + i = k + 1
      BY <1>3, <2>2
    <3>2. (u \o v)[k] = v[k - (i - 1)]
      BY <1>1, <1>2, <2>2, <3>1
    <3> QED BY <1>2, <2>2, <3>1, <3>2
  <2> QED BY <2>1, <2>2
<1> QED BY <1>3, <1>4, <1>5

-----------------------------------------------------------------------------
(* remove_channel: what is left is a list of channels, no longer.          *)
LEMMA WithoutFacts ==
  ASSUME NEW list \in Seq(ChannelIds), NEW c
  PROVE  Without(list, c) \in Seq(ChannelIds) /\ Len(Without(list, c)) <= Len(list)
<1> DEFINE n == Len(list)
           V == Seq(ChannelIds)
           Kept(l, k) == IF list[k] = c THEN l ELSE Append(l, list[k])
           Eq(h) == h = [k \in 0 .. n |-> IF k = 0 THEN << >> ELSE Kept(h[k - 1], k)]
           step == [k \in 1 .. n |-> [l \in V |-> Kept(l, k)]]
           F == CHOOSE h : Eq(h)
<1>1. n \in Nat /\ << >> \in V
  OBVIOUS
<1>2. ASSUME NEW k \in 1 .. n, NEW l \in V PROVE Kept(l, k) \in V /\ Len(Kept(l, k)) <= Len(l) + 1
  OBVIOUS
<1>3. Without(list, c) = F[n]
  BY DEF Without
<1> HIDE DEF Kept
<1>4. step \in [1 .. n -> [V -> V]] /\ \A k \in 1 .. n : \A l \in V : step[k][l] = Kept(l, k)
  BY <1>2
<1>5. \A l \in V : Len(l) \in Nat
  OBVIOUS
<1>6. Len(<< >>) = 0
  OBVIOUS
<1> HIDE DEF n, V, step
<1>7. PICK g \in [0 .. n -> V] : g[0] = << >> /\ \A k \in 1 .. n : g[k] = step[k][g[k - 1]]
  <2>1. Ascents(n, V, << >>, step) # {}
    BY <1>1, <1>4, UpwardRecursion DEF Steps
  <2> QED BY <2>1 DEF Ascents
<1>8. \A k \in 1 .. n : k - 1 \in 0 .. n /\ k \in 0 .. n /\ k # 0
  BY <1>1
<1>9. \A k \in 0 .. n : k # 0 => k \in 1 .. n
  BY <1>1
<1>10. Eq(g)
  <2>1. \A k \in 0 .. n : g[k] = IF k = 0 THEN << >> ELSE Kept(g[k - 1], k)
    BY <1>4, <1>7, <1>8, <1>9
  <2> QED BY <2>1
<1>11. Eq(F)
  <2> HIDE DEF Eq
  <2> QED BY <1>10
<1>12. F = [k \in 0 .. n |-> IF k = 0 THEN << >> ELSE Kept(F[k - 1], k)]
  BY <1>11
<1> HIDE DEF F
<1> DEFINE S == {k \in 0 .. n : F[k] \in V /\ Len(F[k]) <= k}
<1>13. 0 \in S
  <2>1. 0 \in 0 .. n
    BY <1>1
  <2> QED BY <1>1, <1>6, <1>12, <2>1
<1>14. ASSUME NEW k \in 1 .. n, k - 1 \in S PROVE k \in S
  <2>1. F[k] = Kept(F[k - 1], k) /\ F[k - 1] \in V /\ Len(F[k - 1]) <= k - 1
    BY <1>8, <1>12, <1>14
  <2>2. F[k] \in V /\ Len(F[k]) <= Len(F[k - 1]) + 1
    BY <1>2, <2>1
  <2>3. Len(F[k]) \in Nat /\ Len(F[k - 1]) \in Nat
    BY <1>5, <2>1, <2>2
  <2> QED BY <1>8, <2>1, <2>2, <2>3
<1> HIDE DEF S
<1>15. n \in S
  <2>1. 0 .. n \subseteq S
    BY <1>1, <1>13, <1>14, UpwardInduction
  <2> QED BY <1>1, <2>1
<1> QED BY <1>3, <1>15 DEF S, V, n

-----------------------------------------------------------------------------
(* The invariant, in parts: of the allocator's region, of a list of        *)
(* tensors whose blocks lie below a place in VRAM, of the runlist's block. *)
Descriptors ==
  [shape : Seq(Nat), strides : Seq(Nat), dtype : DTypes, allocation : Blocks,
   num_elements : 0 .. Word - 1, size_bytes : 0 .. Word - 1]

HeapInv ==
  /\ capacity \in Nat /\ nextVa \in 0 .. Word - 1
  /\ freeRegion \in [start : Nat, size : Nat]
  /\ freeRegion.start + freeRegion.size = Reserved + capacity
  /\ freeRegion.size <= capacity

ShownAt(b) ==
  b.cpu_mapped => b.cpu_va = Bar1Base + b.phys_addr /\ b.phys_addr + b.size <= Bar1Size

ListInv(list) ==
  /\ list \in Seq(Descriptors)
  /\ \A i \in 1 .. Len(list) : Made(list[i]) /\ ShownAt(list[i].allocation)

Below(b, top) == Reserved <= b.phys_addr /\ b.phys_addr + b.size <= top

(* Blocks stand in the order in which their tensors were allocated.        *)
Ordered(list, top) ==
  /\ \A i \in 1 .. Len(list) : Below(list[i].allocation, top)
  /\ \A i, j \in 1 .. Len(list) :
       i < j => list[i].allocation.phys_addr + list[i].allocation.size
                  <= list[j].allocation.phys_addr

Apart(b, list) == \A i \in 1 .. Len(list) : DisjointVram(list[i].allocation, b)

CounterInv ==
  /\ Len(tensors) <= MaxTensors /\ tensor_count = Len(tensors)
  /\ total_allocated = TotalBytes(tensors) % Word

TransferInv ==
  /\ transfer \in [bytes : Nat, tensor : Nat, ok : BOOLEAN]
  /\ transfer.ok =>
       /\ transfer.tensor \in 1 .. Len(tensors)
       /\ transfer.bytes = tensors[transfer.tensor].size_bytes
       /\ tensors[transfer.tensor].allocation.cpu_mapped

RunlistBlockInv ==
  /\ allocation \subseteq Blocks
  /\ \A b, d \in allocation : b = d
  /\ \A b \in allocation : Below(b, freeRegion.start) /\ Apart(b, tensors)

RunlistInv ==
  /\ channels \in Seq(ChannelIds) /\ committed \in Seq(ChannelIds)
  /\ Len(channels) <= MaxChannels

ClientsInv ==
  /\ HeapInv /\ ListInv(tensors) /\ Ordered(tensors, freeRegion.start)
  /\ CounterInv /\ TransferInv
  /\ RunlistBlockInv /\ RunlistInv /\ RunlistHeld

-----------------------------------------------------------------------------
(* A list whose blocks are some of those of another, in its order, as      *)
(* mapping and freeing leave them.                                         *)
Picks(b, a, m) ==
  /\ m \in [1 .. Len(b) -> 1 .. Len(a)]
  /\ \A i, j \in 1 .. Len(b) : i < j => m[i] < m[j]
  /\ \A k \in 1 .. Len(b) :
       /\ b[k].allocation.phys_addr = a[m[k]].allocation.phys_addr
       /\ b[k].allocation.size = a[m[k]].allocation.size

LEMMA PicksKeep ==
  ASSUME NEW a, NEW b, NEW m, Picks(b, a, m), NEW top, NEW d
  PROVE  /\ Ordered(a, top) => Ordered(b, top)
         /\ Apart(d, a) => Apart(d, b)
BY DEF Picks, Ordered, Below, Apart, DisjointVram

LEMMA ListIsSized ==
  ASSUME NEW list, ListInv(list)
  PROVE  Sized(list)
BY MadeFacts DEF ListInv, Sized

(* A request of any size: what allocate cuts off the region.               *)
LEMMA AllocateFacts ==
  ASSUME NEW s \in Nat, HeapInv, Allocate(s), capacity' = capacity
  PROVE  /\ HeapInv'
         /\ NewBlock(s) \in Blocks /\ ~ NewBlock(s).cpu_mapped
         /\ NewBlock(s).phys_addr = freeRegion.start /\ NewBlock(s).size = AlignUp(s)
         /\ NewBlock(s).phys_addr + NewBlock(s).size = freeRegion'.start
         /\ freeRegion.start <= freeRegion'.start /\ freeRegion'.size <= freeRegion.size
<1> DEFINE n == AlignUp(s)
<1>1. n \in Nat
  BY AlignedSize
<1>2. freeRegion.size >= n
  BY DEF Allocate, HasRoom, Fits
<1>3. freeRegion' = [start |-> freeRegion.start + n, size |-> freeRegion.size - n]
  BY DEF Allocate, Cut
<1>4. nextVa' = (nextVa + n) % Word
  BY DEF Allocate
<1>5. /\ NewBlock(s) = [kind |-> "vram", gpu_va |-> nextVa, phys_addr |-> freeRegion.start,
                         size |-> n, cpu_mapped |-> FALSE, cpu_va |-> 0]
  BY DEF NewBlock, Block
<1> HIDE DEF n
<1>6. nextVa' \in 0 .. Word - 1
  <2>1. nextVa + n \in Nat /\ Word \in Nat \ {0}
    BY <1>1, ClientConstants DEF HeapInv
  <2> QED BY <1>4, <2>1, ModFacts
<1>7. HeapInv'
  BY <1>1, <1>2, <1>3, <1>6, ClientConstants DEF HeapInv
<1>8. NewBlock(s) \in Blocks
  BY <1>1, <1>5 DEF Blocks, HeapInv
<1>9. /\ ~ NewBlock(s).cpu_mapped
      /\ NewBlock(s).phys_addr = freeRegion.start /\ NewBlock(s).size = n
  BY <1>5
<1>10. /\ freeRegion'.start = freeRegion.start + n /\ freeRegion'.size = freeRegion.size - n
       /\ freeRegion.start \in Nat /\ freeRegion.size \in Nat
  BY <1>3 DEF HeapInv
<1> QED BY <1>1, <1>7, <1>8, <1>9, <1>10 DEF n

(* What lies below the region stays below it, and apart from a new block.  *)
LEMMA BelowGrows ==
  ASSUME NEW b \in Blocks, NEW top \in Nat, NEW d \in Nat, top <= d, Below(b, top)
  PROVE  Below(b, d)
BY ClientConstants DEF Blocks, Below

LEMMA OrderedGrows ==
  ASSUME NEW list, ListInv(list), NEW top \in Nat, NEW d \in Nat, top <= d, Ordered(list, top)
  PROVE  Ordered(list, d)
<1>1. \A i \in 1 .. Len(list) : list[i].allocation \in Blocks
  BY DEF ListInv, Made
<1> QED BY <1>1, BelowGrows DEF Ordered

(* Made from what a caller asks for.                                       *)
LEMMA TensorIsMade ==
  ASSUME HeapInv, NEW r \in Requests, Allocate(Tensor(r).size_bytes), capacity' = capacity
  PROVE  /\ Tensor(r) \in Descriptors /\ Made(Tensor(r)) /\ ~ Tensor(r).allocation.cpu_mapped
         /\ Tensor(r).size_bytes \in Nat
         /\ Tensor(r).allocation = NewBlock(Tensor(r).size_bytes)
<1> DEFINE n == total_elements(r.shape)
           s == SizeBytes(n, r.dtype)
<1>1. r.shape \in Seq(Nat) /\ r.dtype \in DTypes
  BY TensorAssumption
<1>2. n \in 0 .. Word - 1 /\ s \in 0 .. Word - 1
  BY <1>1, SizesInRange
<1>3. Tensor(r) = [shape |-> r.shape, strides |-> compute_strides(r.shape), dtype |-> r.dtype,
                   allocation |-> NewBlock(s), num_elements |-> n, size_bytes |-> s]
  BY DEF Tensor
<1> HIDE DEF s
<1>4. Tensor(r).size_bytes = s /\ s \in Nat
  BY <1>2, <1>3, ClientConstants
<1>5. NewBlock(s) \in Blocks /\ ~ NewBlock(s).cpu_mapped /\ NewBlock(s).size = AlignUp(s)
  BY <1>4, AllocateFacts
<1>6. compute_strides(r.shape) \in Seq(Nat)
  <2>1. DOMAIN r.shape = 1 .. Len(r.shape) /\ Len(r.shape) \in Nat
    BY <1>1
  <2>2. \A i \in 1 .. Len(r.shape) + 1 : Products(r.shape)[i] \in 0 .. Word - 1
    BY <1>1, ProductsFacts
  <2>3. \A i \in 1 .. Len(r.shape) : i + 1 \in 1 .. Len(r.shape) + 1
    BY <2>1
  <2>4. \A v \in 0 .. Word - 1 : v \in Nat
    BY ClientConstants
  <2>5. compute_strides(r.shape) \in [1 .. Len(r.shape) -> Nat]
    BY <2>1, <2>2, <2>3, <2>4 DEF compute_strides
  <2> QED BY <2>1, <2>5
<1>7. Tensor(r) \in Descriptors
  BY <1>1, <1>2, <1>3, <1>5, <1>6 DEF Descriptors
<1>8. Made(Tensor(r))
  BY <1>1, <1>3, <1>5 DEF Made, RowMajor, s
<1> QED BY <1>3, <1>4, <1>5, <1>7, <1>8

-----------------------------------------------------------------------------
(* What the tensors do leaves the runlist as it is.                        *)
LEMMA RunlistAlone ==
  ASSUME RunlistInv, RunlistHeld, UNCHANGED runlistVars
  PROVE  RunlistInv' /\ RunlistHeld'
<1>1. UNCHANGED <<channels, allocation, committed>>
  BY DEF runlistVars
<1> QED BY <1>1 DEF RunlistInv, RunlistHeld, ListBytes

LEMMA AllocateTensorKeeps ==
  ASSUME ClientsInv, NEW r \in Requests, AllocateTensor(r), UNCHANGED <<runlistVars, capacity>>
  PROVE  ClientsInv'
<1> DEFINE t == Tensor(r)
           s == t.size_bytes
<1>1. /\ Len(tensors) < MaxTensors /\ Allocate(s)
      /\ tensors' = Append(tensors, t)
      /\ total_allocated' = (total_allocated + s) % Word
      /\ tensor_count' = tensor_count + 1 /\ transfer' = NoTransfer
      /\ capacity' = capacity /\ allocation' = allocation
  BY DEF AllocateTensor, runlistVars
<1>2. /\ HeapInv /\ ListInv(tensors) /\ Ordered(tensors, freeRegion.start) /\ CounterInv
      /\ RunlistBlockInv /\ RunlistInv /\ RunlistHeld
  BY DEF ClientsInv
<1>3. /\ t \in Descriptors /\ Made(t) /\ ~ t.allocation.cpu_mapped /\ s \in Nat
      /\ t.allocation = NewBlock(s)
  BY <1>1, <1>2, TensorIsMade
<1>4. /\ HeapInv' /\ t.allocation \in Blocks /\ t.allocation.phys_addr = freeRegion.start
      /\ t.allocation.phys_addr + t.allocation.size = freeRegion'.start
      /\ freeRegion.start <= freeRegion'.start /\ freeRegion'.size <= freeRegion.size
  BY <1>1, <1>2, <1>3, AllocateFacts
<1>5. freeRegion.start \in Nat /\ freeRegion'.start \in Nat /\ Reserved <= freeRegion.start
  BY <1>2, <1>4, ClientConstants DEF HeapInv
<1> HIDE DEF t, s
<1>6. /\ tensors \in Seq(Descriptors) /\ Len(tensors) \in Nat
      /\ \A k \in 1 .. Len(tensors) : tensors[k].allocation \in Blocks
  BY <1>2 DEF ListInv, Made
<1>7. /\ tensors' \in Seq(Descriptors) /\ Len(tensors') = Len(tensors) + 1
      /\ tensors'[Len(tensors')] = t /\ \A k \in 1 .. Len(tensors) : tensors'[k] = tensors[k]
  BY <1>1, <1>3, <1>6
<1>8. \A k \in 1 .. Len(tensors') : k \in 1 .. Len(tensors) \/ k = Len(tensors')
  BY <1>6, <1>7
<1>9. ListInv(tensors')
  BY <1>2, <1>3, <1>7, <1>8 DEF ListInv, ShownAt
<1>10. Ordered(tensors', freeRegion'.start)
  <2>1. Ordered(tensors, freeRegion'.start)
    BY <1>2, <1>4, <1>5, OrderedGrows
  <2>2. Below(t.allocation, freeRegion'.start)
    BY <1>4, <1>5 DEF Below
  <2>3. \A k \in 1 .. Len(tensors') : Below(tensors'[k].allocation, freeRegion'.start)
    BY <1>7, <1>8, <2>1, <2>2 DEF Ordered
  <2>4. ASSUME NEW i \in 1 .. Len(tensors'), NEW j \in 1 .. Len(tensors'), i < j
        PROVE  tensors'[i].allocation.phys_addr + tensors'[i].allocation.size
                 <= tensors'[j].allocation.phys_addr
    <3>1. i \in 1 .. Len(tensors)
      BY <1>6, <1>7, <2>4
    <3>2. CASE j \in 1 .. Len(tensors)
      BY <1>2, <1>7, <2>4, <3>1, <3>2 DEF Ordered
    <3>3. CASE j = Len(tensors')
      BY <1>2, <1>4, <1>7, <3>1, <3>3 DEF Ordered, Below
    <3> QED BY <1>8, <3>2, <3>3
  <2> QED BY <2>3, <2>4 DEF Ordered
<1>11. CounterInv'
  <2>1. TotalBytes(tensors') = TotalBytes(tensors) + s
    <3>1. Sized(tensors) /\ Sized(tensors')
      BY <1>2, <1>9, ListIsSized
    <3> QED BY <1>7, <3>1, TotalOfAppend DEF s
  <2>2. TotalBytes(tensors) \in Nat
    BY <1>2, ListIsSized, SumsFacts
  <2>3. Word \in Nat \ {0}
    BY ClientConstants
  <2>4. total_allocated' = TotalBytes(tensors') % Word
    <3>1. total_allocated = TotalBytes(tensors) % Word
      BY <1>2 DEF CounterInv
    <3> DEFINE n == TotalBytes(tensors)
    <3>2. s \in Nat /\ n \in Nat /\ total_allocated' = (total_allocated + s) % Word
      BY <1>1, <1>2, <1>3, <2>2 DEF s
    <3>3. ((n % Word) + s) % Word = (n + s) % Word
      BY <2>3, <3>2, ModSum, Zenon
    <3> QED BY <2>1, <3>1, <3>2, <3>3, Zenon
  <2>5. Len(tensors') <= MaxTensors /\ tensor_count' = Len(tensors')
    BY <1>1, <1>2, <1>6, <1>7, TensorAssumption DEF CounterInv
  <2> QED BY <2>4, <2>5 DEF CounterInv
<1>12. TransferInv'
  BY <1>1 DEF TransferInv, NoTransfer
<1>13. RunlistBlockInv'
  <2>1. ASSUME NEW b \in allocation PROVE Below(b, freeRegion'.start) /\ Apart(b, tensors')
    <3>1. b \in Blocks /\ Below(b, freeRegion.start) /\ Apart(b, tensors)
      BY <1>2 DEF RunlistBlockInv
    <3>2. Below(b, freeRegion'.start)
      BY <1>4, <1>5, <3>1, BelowGrows
    <3>3. DisjointVram(t.allocation, b)
      BY <1>4, <3>1 DEF Below, DisjointVram
    <3> QED BY <1>7, <1>8, <3>1, <3>2, <3>3 DEF Apart
  <2> QED BY <1>1, <1>2, <2>1 DEF RunlistBlockInv
<1>14. RunlistInv' /\ RunlistHeld'
  BY <1>2, RunlistAlone
<1> QED BY <1>4, <1>9, <1>10, <1>11, <1>12, <1>13, <1>14 DEF ClientsInv

(* Steps that leave the region and the runlist alone.                      *)
LEMMA TensorsOnly ==
  ASSUME ClientsInv, UNCHANGED heap, UNCHANGED <<runlistVars, capacity>>
  PROVE  /\ HeapInv' /\ freeRegion' = freeRegion /\ allocation' = allocation
         /\ RunlistInv' /\ RunlistHeld'
<1>1. HeapInv' /\ freeRegion' = freeRegion
  BY DEF ClientsInv, HeapInv, heap
<1>2. RunlistInv' /\ RunlistHeld'
  BY RunlistAlone DEF ClientsInv
<1> QED BY <1>1, <1>2 DEF runlistVars

LEMMA RefuseTensorKeeps ==
  ASSUME ClientsInv, NEW r \in Requests, RefuseTensor(r), UNCHANGED <<runlistVars, capacity>>
  PROVE  ClientsInv'
<1>1. UNCHANGED <<heap, tensors, total_allocated, tensor_count>> /\ transfer' = NoTransfer
  BY DEF RefuseTensor
<1>2. /\ HeapInv' /\ freeRegion' = freeRegion /\ allocation' = allocation
      /\ RunlistInv' /\ RunlistHeld'
  BY <1>1, TensorsOnly
<1>3. TransferInv'
  BY <1>1 DEF TransferInv, NoTransfer
<1>4. CounterInv'
  BY <1>1 DEF ClientsInv, CounterInv
<1>5. RunlistBlockInv'
  BY <1>1, <1>2 DEF ClientsInv, RunlistBlockInv
<1> QED BY <1>1, <1>2, <1>3, <1>4, <1>5 DEF ClientsInv

(* A transfer maps its tensor or changes nothing.                          *)
LEMMA TransferKeeps ==
  ASSUME ClientsInv, NEW i \in DOMAIN tensors, NEW n \in Lengths(tensors[i]), Transfer(i, n),
         UNCHANGED <<runlistVars, capacity>>
  PROVE  ClientsInv'
<1> DEFINE b == tensors[i].allocation
           ok == n = tensors[i].size_bytes /\ Mappable(b)
           u == IF ok THEN [tensors EXCEPT ![i].allocation = Mapped(@)] ELSE tensors
<1>1. /\ UNCHANGED <<heap, total_allocated, tensor_count>>
      /\ tensors' = u /\ transfer' = [bytes |-> n, tensor |-> i, ok |-> ok]
  BY DEF Transfer
<1>2. /\ HeapInv' /\ freeRegion' = freeRegion /\ allocation' = allocation
      /\ RunlistInv' /\ RunlistHeld'
  BY <1>1, TensorsOnly
<1>3. /\ ListInv(tensors) /\ Ordered(tensors, freeRegion.start) /\ CounterInv
      /\ RunlistBlockInv
  BY DEF ClientsInv
<1>4. /\ tensors \in Seq(Descriptors) /\ Len(tensors) \in Nat /\ DOMAIN tensors = 1 .. Len(tensors)
      /\ i \in 1 .. Len(tensors)
      /\ \A k \in 1 .. Len(tensors) : tensors[k] \in Descriptors /\ Made(tensors[k])
      /\ \A k \in 1 .. Len(tensors) : ShownAt(tensors[k].allocation)
  BY <1>3 DEF ListInv
<1>5. b \in Blocks /\ b.phys_addr \in Nat
  BY <1>4 DEF Made, Blocks
<1>6. ok => /\ Mapped(b) \in Blocks /\ Mapped(b).size = b.size
            /\ Mapped(b).phys_addr = b.phys_addr
            /\ Mapped(b).cpu_mapped /\ ShownAt(Mapped(b))
  <2>1. ShownAt(b)
    BY <1>4
  <2>2. CASE b.cpu_mapped
    BY <1>5, <2>1, <2>2 DEF Mapped
  <2>3. CASE ~ b.cpu_mapped
    <3>1. Mapped(b) = [b EXCEPT !.cpu_mapped = TRUE, !.cpu_va = Bar1Base + b.phys_addr]
      BY <2>3 DEF Mapped
    <3>2. Bar1Base + b.phys_addr \in Nat
      BY <1>5, ClientConstants
    <3>3. /\ Mapped(b) \in Blocks /\ Mapped(b).size = b.size /\ Mapped(b).phys_addr = b.phys_addr
          /\ Mapped(b).cpu_mapped /\ Mapped(b).cpu_va = Bar1Base + b.phys_addr
      BY <1>5, <3>1, <3>2 DEF Blocks
    <3>4. ok => b.phys_addr + b.size <= Bar1Size
      BY <2>3 DEF Mappable, InWindow
    <3> QED BY <3>3, <3>4 DEF ShownAt
  <2> QED BY <2>2, <2>3
<1>7. /\ u \in Seq(Descriptors) /\ Len(u) = Len(tensors)
      /\ \A k \in 1 .. Len(tensors) : k # i => u[k] = tensors[k]
      /\ u[i] = IF ok THEN [tensors[i] EXCEPT !.allocation = Mapped(b)] ELSE tensors[i]
  <2>1. CASE ok
    <3> DEFINE x == [tensors[i] EXCEPT !.allocation = Mapped(b)]
    <3>1. u = [tensors EXCEPT ![i] = x]
      BY <2>1
    <3>2. x \in Descriptors
      BY <1>4, <1>6, <2>1 DEF Descriptors
    <3> HIDE DEF x, u
    <3>3. u \in Seq(Descriptors) /\ Len(u) = Len(tensors) /\ u[i] = x
          /\ \A k \in 1 .. Len(tensors) : k # i => u[k] = tensors[k]
      BY <1>4, <3>1, <3>2
    <3> QED BY <2>1, <3>3 DEF x
  <2>2. CASE ~ ok
    BY <1>4, <2>2
  <2> QED BY <2>1, <2>2
<1>8. /\ u[i].shape = tensors[i].shape /\ u[i].strides = tensors[i].strides
      /\ u[i].dtype = tensors[i].dtype /\ u[i].num_elements = tensors[i].num_elements
      /\ u[i].size_bytes = tensors[i].size_bytes
      /\ u[i].allocation = IF ok THEN Mapped(b) ELSE b
  BY <1>4, <1>7 DEF Descriptors
<1> HIDE DEF u, b, ok
<1>9. /\ u[i].allocation \in Blocks /\ u[i].allocation.phys_addr = b.phys_addr
      /\ u[i].allocation.size = b.size /\ ShownAt(u[i].allocation)
      /\ ok => u[i].allocation.cpu_mapped
  BY <1>4, <1>5, <1>6, <1>8 DEF b
<1>10. Made(u[i])
  BY <1>4, <1>8, <1>9 DEF Made, RowMajor, b
<1>11. ListInv(u)
  BY <1>4, <1>7, <1>9, <1>10 DEF ListInv
<1>12. Picks(u, tensors, [k \in 1 .. Len(u) |-> k])
  <2>1. \A k \in 1 .. Len(u) : /\ u[k].allocation.phys_addr = tensors[k].allocation.phys_addr
                               /\ u[k].allocation.size = tensors[k].allocation.size
    BY <1>4, <1>7, <1>9 DEF b
  <2> QED BY <1>7, <2>1 DEF Picks
<1>13. Ordered(u, freeRegion.start) /\ \A d \in allocation : Apart(d, u)
  BY <1>3, <1>12, PicksKeep DEF RunlistBlockInv
<1>14. TotalBytes(u) = TotalBytes(tensors)
  <2>1. \A k \in 1 .. Len(tensors) : u[k].size_bytes = tensors[k].size_bytes
    BY <1>7, <1>8
  <2> QED BY <1>3, <1>7, <2>1, ListIsSized, TotalOfSame
<1>15. CounterInv'
  BY <1>1, <1>3, <1>7, <1>14 DEF CounterInv
<1>16. TransferInv'
  <2>1. tensors[i].size_bytes \in Nat /\ n \in Nat /\ ok \in BOOLEAN /\ i \in Nat
    <3>1. tensors[i].size_bytes \in Nat
      BY <1>4, MadeFacts
    <3> QED BY <1>4, <3>1 DEF Lengths, ok
  <2>2. ok => n = u[i].size_bytes
    BY <1>8 DEF ok
  <2> QED BY <1>1, <1>4, <1>7, <1>9, <2>1, <2>2 DEF TransferInv
<1>17. RunlistBlockInv'
  BY <1>1, <1>2, <1>3, <1>13 DEF RunlistBlockInv
<1> QED BY <1>1, <1>2, <1>11, <1>13, <1>15, <1>16, <1>17 DEF ClientsInv

LEMMA FreeTensorKeeps ==
  ASSUME ClientsInv, NEW i \in DOMAIN tensors, FreeTensor(i), UNCHANGED <<runlistVars, capacity>>
  PROVE  ClientsInv'
<1> DEFINE u == RemoveAt(tensors, i)
           m == [k \in 1 .. Len(u) |-> IF k < i THEN k ELSE k + 1]
<1>1. /\ UNCHANGED heap /\ tensors' = u /\ transfer' = NoTransfer
      /\ total_allocated' = (total_allocated - tensors[i].size_bytes) % Word
      /\ tensor_count' = tensor_count - 1
  BY DEF FreeTensor
<1>2. /\ HeapInv' /\ freeRegion' = freeRegion /\ allocation' = allocation
      /\ RunlistInv' /\ RunlistHeld'
  BY <1>1, TensorsOnly
<1>3. /\ ListInv(tensors) /\ Ordered(tensors, freeRegion.start) /\ CounterInv
      /\ RunlistBlockInv
  BY DEF ClientsInv
<1>4. tensors \in Seq(Descriptors) /\ Len(tensors) \in Nat /\ i \in 1 .. Len(tensors)
  BY <1>3 DEF ListInv
<1>5. /\ u \in Seq(Descriptors) /\ Len(u) = Len(tensors) - 1
      /\ \A k \in 1 .. Len(tensors) - 1 : u[k] = IF k < i THEN tensors[k] ELSE tensors[k + 1]
  BY <1>4, RemoveAtFacts
<1> HIDE DEF u
<1>6. /\ m \in [1 .. Len(u) -> 1 .. Len(tensors)]
      /\ \A k \in 1 .. Len(u) : u[k] = tensors[m[k]]
      /\ \A k, l \in 1 .. Len(u) : k < l => m[k] < m[l]
  BY <1>4, <1>5
<1> HIDE DEF m
<1>7. ListInv(u)
  BY <1>3, <1>5, <1>6 DEF ListInv
<1>8. Ordered(u, freeRegion.start) /\ \A d \in allocation : Apart(d, u)
  <2>1. Picks(u, tensors, m)
    BY <1>6 DEF Picks
  <2> QED BY <1>3, <2>1, PicksKeep DEF RunlistBlockInv
<1>9. CounterInv'
  <2> DEFINE s == tensors[i].size_bytes
             T == TotalBytes(tensors)
  <2>1. Sized(tensors) /\ Sized(u)
    BY <1>3, <1>7, ListIsSized
  <2>2. T = TotalBytes(u) + s
    BY <1>4, <1>5, <2>1, TotalOfRemoval
  <2>3. T \in Nat /\ TotalBytes(u) \in Nat /\ s \in Nat /\ Word \in Nat \ {0}
    BY <1>4, <2>1, ClientConstants, SumsFacts DEF Sized
  <2>4. total_allocated' = ((T % Word) - s) % Word
    BY <1>1, <1>3 DEF CounterInv
  <2> HIDE DEF T, s
  <2>5. s <= T /\ T - s = TotalBytes(u)
    BY <2>2, <2>3
  <2>6. total_allocated' = (T - s) % Word
    BY <2>3, <2>4, <2>5, ModDifference
  <2>7. Len(u) <= MaxTensors /\ tensor_count' = Len(u)
    BY <1>1, <1>3, <1>4, <1>5, TensorAssumption DEF CounterInv
  <2> QED BY <1>1, <2>5, <2>6, <2>7 DEF CounterInv
<1>10. TransferInv'
  BY <1>1 DEF TransferInv, NoTransfer
<1>11. RunlistBlockInv'
  BY <1>1, <1>2, <1>3, <1>8 DEF RunlistBlockInv
<1> QED BY <1>1, <1>2, <1>7, <1>8, <1>9, <1>10, <1>11 DEF ClientsInv

(* Steps of the runlist that leave the region alone, and its block.        *)
LEMMA ListOnly ==
  ASSUME ClientsInv, UNCHANGED <<heap, allocation, tensorVars, capacity>>
  PROVE  /\ HeapInv' /\ ListInv(tensors') /\ Ordered(tensors', freeRegion'.start)
         /\ CounterInv' /\ TransferInv' /\ RunlistBlockInv'
<1>1. /\ UNCHANGED <<freeRegion, nextVa, capacity, allocation>>
      /\ UNCHANGED <<tensors, total_allocated, tensor_count, transfer>>
  BY DEF heap, tensorVars
<1>2. HeapInv' /\ RunlistBlockInv'
  BY <1>1 DEF ClientsInv, HeapInv, RunlistBlockInv
<1>3. CounterInv' /\ TransferInv'
  BY <1>1 DEF ClientsInv, CounterInv, TransferInv
<1> QED BY <1>1, <1>2, <1>3 DEF ClientsInv

LEMMA AddChannelKeeps ==
  ASSUME ClientsInv, NEW c \in ChannelIds, AddChannel(c), UNCHANGED <<tensorVars, capacity>>
  PROVE  ClientsInv'
<1>1. /\ channels \in Seq(ChannelIds) /\ committed \in Seq(ChannelIds)
      /\ Len(channels) < MaxChannels /\ Len(channels) \in Nat
      /\ UNCHANGED <<heap, allocation, committed>>
      /\ channels' = Append(channels, c)
  BY DEF ClientsInv, RunlistInv, AddChannel
<1>2. RunlistInv'
  BY <1>1, ClientConstants DEF RunlistInv
<1>3. RunlistHeld'
  BY <1>1 DEF ClientsInv, RunlistHeld, ListBytes
<1> QED BY <1>1, <1>2, <1>3, ListOnly DEF ClientsInv

LEMMA RemoveChannelKeeps ==
  ASSUME ClientsInv, NEW c \in ChannelIds, RemoveChannel(c), UNCHANGED <<tensorVars, capacity>>
  PROVE  ClientsInv'
<1>1. /\ channels \in Seq(ChannelIds) /\ committed \in Seq(ChannelIds)
      /\ Len(channels) <= MaxChannels
      /\ UNCHANGED <<heap, allocation, committed>>
      /\ channels' = Without(channels, c)
  BY DEF ClientsInv, RunlistInv, RemoveChannel
<1>2. channels' \in Seq(ChannelIds) /\ Len(channels') <= Len(channels)
  BY <1>1, WithoutFacts
<1>3. Len(channels') \in Nat /\ Len(channels) \in Nat
  BY <1>1, <1>2
<1>4. RunlistInv'
  BY <1>1, <1>2, <1>3, ClientConstants DEF RunlistInv
<1>5. RunlistHeld'
  BY <1>1 DEF ClientsInv, RunlistHeld, ListBytes
<1> QED BY <1>1, <1>4, <1>5, ListOnly DEF ClientsInv

LEMMA CommitNothingKeeps ==
  ASSUME ClientsInv, CommitNothing, UNCHANGED <<tensorVars, capacity>>
  PROVE  ClientsInv'
<1>1. /\ UNCHANGED <<heap, channels, allocation, committed>>
  BY DEF CommitNothing
<1>2. RunlistInv'
  BY <1>1 DEF ClientsInv, RunlistInv
<1>3. RunlistHeld'
  BY <1>1 DEF ClientsInv, RunlistHeld, ListBytes
<1> QED BY <1>1, <1>2, <1>3, ListOnly DEF ClientsInv

(* Every list that the host has room for is rounded up, not wrapped.       *)
LEMMA ListFits ==
  ASSUME RunlistInv
  PROVE  ListBytes(channels) \in Nat /\ ListBytes(channels) <= AlignUp(ListBytes(channels))
<1> DEFINE n == Len(channels)
           s == n * EntryBytes
<1>1. n \in Nat /\ n <= MaxChannels
  BY DEF RunlistInv
<1>2. s <= MaxChannels * EntryBytes /\ s \in Nat /\ MaxChannels * EntryBytes \in Nat
  <2>1. EntryBytes * n <= EntryBytes * MaxChannels
    BY <1>1, ClientConstants, ProductAtMost
  <2>2. EntryBytes * n = n * EntryBytes /\ EntryBytes * MaxChannels = MaxChannels * EntryBytes
    BY <1>1, ClientConstants
  <2>3. s \in Nat /\ MaxChannels * EntryBytes \in Nat
    BY <1>1, ClientConstants
  <2> QED BY <2>1, <2>2, <2>3
<1>3. MaxChannels * EntryBytes + PageSize <= Word
  BY RunlistAssumption
<1> DEFINE t == MaxChannels * EntryBytes
<1>4. s \in Nat /\ t \in Nat /\ s <= t /\ t + PageSize <= Word
  BY <1>2, <1>3
<1>5. ListBytes(channels) = s
  BY DEF ListBytes
<1> HIDE DEF s, t
<1>6. s + PageSize <= Word
  BY <1>4, ClientConstants
<1>7. s <= AlignUp(s)
  BY <1>4, <1>6, AlignedSize
<1> QED BY <1>4, <1>5, <1>7

LEMMA CommitKeeps ==
  ASSUME ClientsInv, Commit, UNCHANGED <<tensorVars, capacity>>
  PROVE  ClientsInv'
<1> DEFINE s == ListBytes(channels)
           b == NewBlock(s)
<1>1. /\ Allocate(s) /\ allocation' = {b} /\ committed' = channels
      /\ UNCHANGED <<channels, capacity>>
      /\ UNCHANGED <<tensors, total_allocated, tensor_count, transfer>>
  BY DEF Commit, tensorVars
<1>2. /\ HeapInv /\ ListInv(tensors) /\ Ordered(tensors, freeRegion.start)
      /\ CounterInv /\ TransferInv /\ RunlistInv
  BY DEF ClientsInv
<1>3. s \in Nat /\ s <= AlignUp(s)
  BY <1>2, ListFits
<1>4. /\ HeapInv' /\ b \in Blocks /\ b.phys_addr = freeRegion.start /\ b.size = AlignUp(s)
      /\ b.phys_addr + b.size = freeRegion'.start
      /\ freeRegion.start <= freeRegion'.start
  BY <1>1, <1>2, <1>3, AllocateFacts
<1>5. freeRegion.start \in Nat /\ freeRegion'.start \in Nat /\ Reserved <= freeRegion.start
  BY <1>2, <1>4, ClientConstants DEF HeapInv
<1> HIDE DEF b, s
<1>6. Ordered(tensors, freeRegion'.start)
  BY <1>2, <1>4, <1>5, OrderedGrows
<1>7. CounterInv' /\ TransferInv'
  BY <1>1, <1>2 DEF CounterInv, TransferInv
<1>8. RunlistBlockInv'
  <2>1. Below(b, freeRegion'.start)
    BY <1>4, <1>5 DEF Below
  <2>2. Apart(b, tensors)
    BY <1>2, <1>4 DEF Ordered, Below, Apart, DisjointVram
  <2> QED BY <1>1, <1>4, <2>1, <2>2 DEF RunlistBlockInv
<1>9. RunlistInv'
  BY <1>1, <1>2 DEF RunlistInv
<1>10. RunlistHeld'
  BY <1>1, <1>3, <1>4 DEF RunlistHeld, ListBytes, s
<1> QED BY <1>1, <1>2, <1>4, <1>6, <1>7, <1>8, <1>9, <1>10 DEF ClientsInv

-----------------------------------------------------------------------------
LEMMA ClientsInductive ==
  ASSUME ClientsInv, [Next]_vars
  PROVE  ClientsInv'
<1>1. CASE UNCHANGED vars
  <2>1. UNCHANGED <<heap, allocation, tensorVars, capacity>> /\ UNCHANGED runlistVars
    BY <1>1 DEF vars, runlistVars
  <2>2. RunlistInv' /\ RunlistHeld'
    BY <2>1, TensorsOnly
  <2> QED BY <2>1, <2>2, ListOnly DEF ClientsInv
<1>2. CASE TensorsNext /\ UNCHANGED <<runlistVars, capacity>>
  <2>1. CASE \E r \in Requests : AllocateTensor(r) \/ RefuseTensor(r)
    BY <1>2, <2>1, AllocateTensorKeeps, RefuseTensorKeeps
  <2>2. CASE \E i \in DOMAIN tensors : \E n \in Lengths(tensors[i]) : Upload(i, n) \/ Download(i, n)
    BY <1>2, <2>2, TransferKeeps DEF Upload, Download
  <2>3. CASE \E i \in DOMAIN tensors : FreeTensor(i)
    BY <1>2, <2>3, FreeTensorKeeps
  <2> QED BY <1>2, <2>1, <2>2, <2>3 DEF TensorsNext
<1>3. CASE RunlistNext /\ UNCHANGED <<tensorVars, capacity>>
  <2>1. CASE \E c \in ChannelIds : AddChannel(c) \/ RemoveChannel(c)
    BY <1>3, <2>1, AddChannelKeeps, RemoveChannelKeeps
  <2>2. CASE Commit \/ CommitNothing
    BY <1>3, <2>2, CommitKeeps, CommitNothingKeeps
  <2> QED BY <1>3, <2>1, <2>2 DEF RunlistNext
<1> QED BY <1>1, <1>2, <1>3 DEF Next

LEMMA ClientsInitial == Init => ClientsInv
<1> SUFFICES ASSUME Init PROVE ClientsInv
  OBVIOUS
<1>1. PICK reg \in VramSizeRegs : capacity = CapacityOf(DecodeVramSize(reg))
  BY DEF Init
<1>2. capacity \in Nat
  <2>1. reg \in Nat /\ reg * MiB \in Nat /\ DefaultVram \in Nat
    BY WidthAssumption
  <2>2. DecodeVramSize(reg) \in Nat
    BY <2>1 DEF DecodeVramSize
  <2> QED BY <1>1, <2>2, ClientConstants DEF CapacityOf
<1>3. HeapInv
  BY <1>2, ClientConstants DEF Init, HeapInv
<1>4. tensors = << >> /\ total_allocated = 0 /\ tensor_count = 0 /\ transfer = NoTransfer
  BY DEF Init, TensorsInit
<1>5. << >> \in Seq(Descriptors) /\ Len(<< >>) = 0 /\ \A k \in 1 .. 0 : FALSE
  OBVIOUS
<1>6. ListInv(tensors) /\ Ordered(tensors, freeRegion.start)
  BY <1>4, <1>5 DEF ListInv, Ordered
<1>7. TotalBytes(tensors) = 0
  <2>1. Sized(tensors)
    BY <1>6, ListIsSized
  <2> QED BY <1>4, <1>5, <2>1, SumsFacts
<1>8. CounterInv
  <2>1. 0 % Word = 0
    BY ClientConstants
  <2> QED BY <1>4, <1>5, <1>7, <2>1, TensorAssumption DEF CounterInv
<1>9. TransferInv
  BY <1>4 DEF TransferInv, NoTransfer
<1>10. RunlistBlockInv /\ RunlistInv /\ RunlistHeld
  <2>1. channels = << >> /\ allocation = {} /\ committed = << >>
    BY DEF Init, RunlistInit
  <2>2. << >> \in Seq(ChannelIds)
    OBVIOUS
  <2>3. RunlistInv
    <3>1. Len(channels) = 0
      BY <1>5, <2>1
    <3>2. Len(channels) <= MaxChannels
      BY <3>1, ClientConstants
    <3>3. channels \in Seq(ChannelIds) /\ committed \in Seq(ChannelIds)
      BY <2>1, <2>2
    <3> QED BY <2>1, <3>2, <3>3 DEF RunlistInv
  <2> QED BY <2>1, <2>3 DEF RunlistBlockInv, RunlistHeld
<1> QED BY <1>3, <1>6, <1>8, <1>9, <1>10 DEF ClientsInv

LEMMA ClientsAlways == Spec => []ClientsInv
BY ClientsInitial, ClientsInductive, PTL DEF Spec

-----------------------------------------------------------------------------
(* Owned as its invariants use it: the tensors' blocks, then the runlist's.*)
LEMMA OneBlockSeq ==
  ASSUME NEW S, \A b, d \in S : b = d
  PROVE  \/ (S = {} /\ SetToSeq(S) = << >>)
         \/ \E b \in S : SetToSeq(S) = << b >>
<1>1. CASE S = {}
  <2>1. Cardinality(S) = 0
    BY <1>1, FS_EmptySet
  <2>2. << >> \in [1 .. 0 -> S] /\ IsInjective(<< >>) /\ \A f \in [1 .. 0 -> S] : f = << >>
    BY DEF IsInjective
  <2> QED BY <1>1, <2>1, <2>2 DEF SetToSeq
<1>2. CASE S # {}
  <2>1. PICK b \in S : S = {b}
    BY <1>2
  <2>2. Cardinality(S) = 1
    BY <2>1, FS_Singleton
  <2>3. << b >> \in [1 .. 1 -> S] /\ IsInjective(<< b >>) /\ \A f \in [1 .. 1 -> S] : f = << b >>
    BY <2>1 DEF IsInjective
  <2>4. SetToSeq(S) = << b >>
    BY <2>2, <2>3 DEF SetToSeq
  <2> QED BY <2>1, <2>4
<1> QED BY <1>1, <1>2

LEMMA OwnedFacts ==
  ASSUME ClientsInv
  PROVE  /\ DOMAIN Owned \subseteq 1 .. Len(tensors) + 1
         /\ \A i \in DOMAIN Owned :
              \/ i \in 1 .. Len(tensors) /\ Owned[i] = tensors[i].allocation
              \/ i = Len(tensors) + 1 /\ Owned[i] \in allocation
         /\ 1 .. Len(tensors) \subseteq DOMAIN Owned
<1> DEFINE n == Len(tensors)
           a == [i \in DOMAIN tensors |-> tensors[i].allocation]
           s == SetToSeq(allocation)
<1>1. /\ n \in Nat /\ DOMAIN tensors = 1 .. n
      /\ \A i \in 1 .. n : tensors[i].allocation \in Blocks
  BY DEF ClientsInv, ListInv, Made
<1>2. a \in Seq(Blocks) /\ Len(a) = n /\ \A i \in 1 .. n : a[i] = tensors[i].allocation
  BY <1>1
<1>3. allocation \subseteq Blocks /\ \A b, d \in allocation : b = d
  BY DEF ClientsInv, RunlistBlockInv
<1>4. s \in Seq(Blocks) /\ (Len(s) = 0 \/ (Len(s) = 1 /\ s[1] \in allocation))
  <2>1. CASE s = << >>
    BY <2>1
  <2>2. ASSUME NEW b \in allocation, s = << b >> PROVE s \in Seq(Blocks) /\ Len(s) = 1 /\ s[1] = b
    BY <1>3, <2>2
  <2> QED BY <1>3, <2>1, <2>2, OneBlockSeq
<1>5. Owned = a \o s
  BY DEF Owned
<1> HIDE DEF a, s, n
<1>6. /\ DOMAIN Owned = 1 .. n + Len(s)
      /\ \A i \in 1 .. n + Len(s) : Owned[i] = IF i <= n THEN a[i] ELSE s[i - n]
  BY <1>1, <1>2, <1>4, <1>5
<1>7. CASE Len(s) = 0
  BY <1>1, <1>2, <1>6, <1>7 DEF n
<1>8. CASE Len(s) = 1 /\ s[1] \in allocation
  <2>1. \A i \in 1 .. n + 1 : i \in 1 .. n \/ (i = n + 1 /\ ~ (i <= n) /\ i - n = 1)
    BY <1>1
  <2>2. \A i \in 1 .. n + 1 : i \in 1 .. n => i <= n
    BY <1>1
  <2>3. 1 .. n \subseteq 1 .. n + 1
    BY <1>1
  <2>4. \A i \in DOMAIN Owned : \/ i \in 1 .. n /\ Owned[i] = tensors[i].allocation
                                \/ i = n + 1 /\ Owned[i] \in allocation
    BY <1>2, <1>6, <1>8, <2>1, <2>2
  <2> QED BY <1>6, <1>8, <2>3, <2>4 DEF n
<1> QED BY <1>4, <1>7, <1>8

(* Disjointness is symmetric, and any two blocks that have an owner are    *)
(* disjoint.                                                               *)
LEMMA OwnersApart ==
  ASSUME ClientsInv, NEW i \in DOMAIN Owned, NEW j \in DOMAIN Owned, i # j
  PROVE  DisjointVram(Owned[i], Owned[j])
<1>1. Len(tensors) \in Nat
  BY DEF ClientsInv, ListInv
<1>2. \A k, l \in 1 .. Len(tensors) :
        k # l => DisjointVram(tensors[k].allocation, tensors[l].allocation)
  BY DEF ClientsInv, Ordered, DisjointVram
<1>3. \A k \in 1 .. Len(tensors) : \A b \in allocation :
        DisjointVram(tensors[k].allocation, b) /\ DisjointVram(b, tensors[k].allocation)
  BY DEF ClientsInv, RunlistBlockInv, Apart, DisjointVram
<1> QED BY <1>1, <1>2, <1>3, OwnedFacts

-----------------------------------------------------------------------------
(* Every variable keeps its type through any sequence of calls.            *)
THEOREM TypeCorrect == Spec => []TypeOK
<1>1. ASSUME ClientsInv PROVE TypeOK
  <2>1. /\ HeapInv /\ ListInv(tensors) /\ CounterInv /\ TransferInv
        /\ RunlistBlockInv /\ RunlistInv
    BY <1>1 DEF ClientsInv
  <2>2. DOMAIN tensors = 1 .. Len(tensors) /\ Len(tensors) \in Nat
    BY <2>1 DEF ListInv
  <2>3. \A i \in DOMAIN tensors :
          /\ tensors[i].allocation \in Blocks
          /\ tensors[i].num_elements \in 0 .. Word - 1
          /\ tensors[i].size_bytes \in 0 .. Word - 1
    BY <2>1, <2>2, MadeFacts DEF ListInv, Made
  <2>4. total_allocated \in 0 .. Word - 1
    <3>1. TotalBytes(tensors) \in Nat /\ Word \in Nat \ {0}
      BY <2>1, ListIsSized, SumsFacts, ClientConstants
    <3> QED BY <2>1, <3>1, ModFacts DEF CounterInv
  <2>5. tensor_count \in Nat /\ Len(tensors) <= MaxTensors
    BY <2>1, <2>2 DEF CounterInv
  <2>6. transfer \in [bytes : Nat, tensor : Nat, ok : BOOLEAN]
    BY <2>1 DEF TransferInv
  <2>7. channels \in Seq(ChannelIds) /\ committed \in Seq(ChannelIds)
    BY <2>1 DEF RunlistInv
  <2>8. allocation \subseteq Blocks
    BY <2>1 DEF RunlistBlockInv
  <2>9. capacity \in Nat /\ freeRegion \in [start : Nat, size : Nat] /\ nextVa \in 0 .. Word - 1
    BY <2>1 DEF HeapInv
  <2> QED BY <2>3, <2>4, <2>5, <2>6, <2>7, <2>8, <2>9 DEF TypeOK
<1> QED BY <1>1, ClientsAlways, PTL

(* allocate: whatever tensors and runlists ask for, in any order, no two   *)
(* of the blocks they own have a byte in common, and all lie in the memory *)
(* that was handed out.                                                    *)
THEOREM BlocksHaveOneOwner == Spec => []BlocksOwned
<1>1. ASSUME ClientsInv PROVE BlocksOwned
  <2>1. freeRegion.start = Reserved + Used /\ freeRegion.start \in Nat
    BY <1>1, ClientConstants DEF ClientsInv, HeapInv, Used
  <2>2. \A i \in DOMAIN Owned : Below(Owned[i], freeRegion.start)
    BY <1>1, OwnedFacts DEF ClientsInv, Ordered, RunlistBlockInv
  <2>3. ASSUME NEW i \in DOMAIN Owned, NEW j \in 1 .. i - 1 PROVE DisjointVram(Owned[i], Owned[j])
    <3>1. j \in DOMAIN Owned /\ i # j
      <4>1. i \in 1 .. Len(tensors) + 1 /\ Len(tensors) \in Nat
        BY <1>1, OwnedFacts DEF ClientsInv, ListInv
      <4>2. j \in 1 .. Len(tensors) /\ i # j
        BY <4>1
      <4> QED BY <1>1, <4>2, OwnedFacts
    <3> QED BY <1>1, <3>1, OwnersApart
  <2> QED BY <2>1, <2>2, <2>3 DEF BlocksOwned, Below
<1> QED BY <1>1, ClientsAlways, PTL

(* allocate_tensor and compute_strides, for shapes of any number of        *)
(* dimensions: while the caller's sizes can be represented, every element  *)
(* has a place of its own in the bytes that are allocated for it.          *)
THEOREM ElementsHavePlaces == Spec => []ElementsPlaced
<1>1. ASSUME ClientsInv PROVE ElementsPlaced
  <2>1. \A i \in DOMAIN tensors : Made(tensors[i])
    BY <1>1 DEF ClientsInv, ListInv
  <2> QED BY <2>1, MadeHolds, MadePlaced DEF ElementsPlaced
<1> QED BY <1>1, ClientsAlways, PTL

(* upload and download: a transfer that returns true has a window in the   *)
(* aperture with room for every element of its tensor, and no other client *)
(* owns a byte of it.                                                      *)
THEOREM TransfersHaveWindows == Spec => []TransferWindow
<1>1. ASSUME ClientsInv, transfer.ok, Representable(tensors[transfer.tensor])
      PROVE  LET x == tensors[transfer.tensor]
                 from == x.allocation.cpu_va - Bar1Base
                 window == [phys_addr |-> from, size |-> transfer.bytes]
             IN /\ x.allocation.cpu_mapped /\ from + transfer.bytes <= Bar1Size
                /\ TrueElements(x) * Bits(x) <= 8 * transfer.bytes
                /\ \A i \in DOMAIN Owned \ {transfer.tensor} : DisjointVram(window, Owned[i])
  <2> DEFINE t == transfer.tensor
             x == tensors[t]
             b == x.allocation
             from == b.cpu_va - Bar1Base
             window == [phys_addr |-> from, size |-> transfer.bytes]
  <2>1. t \in 1 .. Len(tensors) /\ transfer.bytes = x.size_bytes /\ b.cpu_mapped
    BY <1>1 DEF ClientsInv, TransferInv
  <2>2. Made(x) /\ ShownAt(b)
    BY <1>1, <2>1 DEF ClientsInv, ListInv
  <2>3. /\ x.size_bytes <= b.size /\ TrueElements(x) * Bits(x) <= 8 * x.size_bytes
        /\ x.size_bytes \in Nat /\ b.size \in Nat /\ b.phys_addr \in Nat
    BY <1>1, <2>2, MadeHolds, MadeFacts
  <2>4. b.cpu_va = Bar1Base + b.phys_addr /\ b.phys_addr + b.size <= Bar1Size
    BY <2>1, <2>2 DEF ShownAt
  <2>5. t \in DOMAIN Owned /\ Owned[t] = b
    BY <1>1, <2>1, OwnedFacts DEF ClientsInv, ListInv
  <2>6. \A i \in DOMAIN Owned : i # t => DisjointVram(b, Owned[i])
    BY <1>1, <2>5, OwnersApart
  <2>7. \A i \in DOMAIN Owned : Owned[i].phys_addr \in Nat /\ Owned[i].size \in Nat
    <3>1. \A i \in 1 .. Len(tensors) : tensors[i].allocation \in Blocks
      BY <1>1 DEF ClientsInv, ListInv, Made
    <3>2. allocation \subseteq Blocks
      BY <1>1 DEF ClientsInv, RunlistBlockInv
    <3> QED BY <1>1, <3>1, <3>2, OwnedFacts DEF Blocks
  <2> HIDE DEF t, x, b
  <2>8. from = b.phys_addr
    BY <2>3, <2>4, ClientConstants
  <2> HIDE DEF from
  <2>9. from + transfer.bytes <= Bar1Size
    BY <2>1, <2>3, <2>4, <2>8, ClientConstants
  <2>10. ASSUME NEW i \in DOMAIN Owned, i # t PROVE DisjointVram(window, Owned[i])
    <3>1. DisjointVram(b, Owned[i]) /\ Owned[i].phys_addr \in Nat /\ Owned[i].size \in Nat
      BY <2>6, <2>7, <2>10
    <3>2. window.phys_addr = b.phys_addr /\ window.size = x.size_bytes
      BY <2>1, <2>8
    <3> QED BY <2>3, <3>1, <3>2 DEF DisjointVram
  <2> QED BY <2>1, <2>3, <2>9, <2>10 DEF t, x, b, from
<1>2. ASSUME ClientsInv PROVE TransferWindow
  BY <1>1, <1>2 DEF TransferWindow
<1> QED BY <1>2, ClientsAlways, PTL

(* The bytes of the tensors up to one end where its block does, at most.   *)
LEMMA TotalAtMost ==
  ASSUME ClientsInv, \A i \in DOMAIN tensors : Representable(tensors[i])
  PROVE  TotalBytes(tensors) <= Used
<1> DEFINE n == Len(tensors)
           T == Sums(tensors)
           end(k) == IF k = 0 THEN Reserved
                     ELSE tensors[k].allocation.phys_addr + tensors[k].allocation.size
           S == {k \in 0 .. n : T[k] + Reserved <= end(k)}
<1>1. ListInv(tensors) /\ Ordered(tensors, freeRegion.start) /\ HeapInv
  BY DEF ClientsInv
<1>2. /\ n \in Nat /\ DOMAIN tensors = 1 .. n
      /\ \A k \in 1 .. n : Made(tensors[k]) /\ Representable(tensors[k])
  BY <1>1 DEF ListInv
<1>3. \A k \in 1 .. n :
        /\ tensors[k].size_bytes \in Nat /\ tensors[k].size_bytes <= tensors[k].allocation.size
        /\ tensors[k].allocation.phys_addr \in Nat /\ tensors[k].allocation.size \in Nat
  BY <1>2, MadeHolds, MadeFacts
<1>4. /\ T \in [0 .. n -> Nat] /\ T[0] = 0 /\ TotalBytes(tensors) = T[n]
      /\ \A k \in 1 .. n : T[k] = T[k - 1] + tensors[k].size_bytes
  BY <1>1, ListIsSized, SumsFacts
<1>5. \A k \in 1 .. n : end(k - 1) <= tensors[k].allocation.phys_addr
  <2>1. ASSUME NEW k \in 1 .. n PROVE end(k - 1) <= tensors[k].allocation.phys_addr
    <3>1. CASE k = 1
      BY <1>1, <3>1 DEF Ordered, Below
    <3>2. CASE k # 1
      <4>1. k - 1 \in 1 .. n /\ k - 1 < k /\ k - 1 # 0
        BY <1>2, <3>2
      <4> QED BY <1>1, <4>1 DEF Ordered
    <3> QED BY <3>1, <3>2
  <2> QED BY <2>1
<1>6. \A k \in 0 .. n : end(k) \in Nat
  <2>1. \A k \in 0 .. n : k = 0 \/ k \in 1 .. n
    BY <1>2
  <2> QED BY <1>3, <2>1, ClientConstants
<1>7. \A k \in 1 .. n : end(k) = tensors[k].allocation.phys_addr + tensors[k].allocation.size
  OBVIOUS
<1>8. end(0) = Reserved /\ Reserved \in Nat
  BY ClientConstants
<1>9. end(n) <= freeRegion.start
  <2>1. CASE n = 0
    BY <1>1, <2>1, ClientConstants DEF HeapInv
  <2>2. CASE n # 0
    <3>1. n \in 1 .. n
      BY <1>2, <2>2
    <3> QED BY <1>1, <2>2, <3>1 DEF Ordered, Below
  <2> QED BY <2>1, <2>2
<1> HIDE DEF n, T, end
<1>10. 0 \in S
  BY <1>2, <1>4, <1>8
<1>11. ASSUME NEW k \in 1 .. n, k - 1 \in S PROVE k \in S
  <2>1. k - 1 \in 0 .. n /\ k \in 0 .. n
    BY <1>2
  <2>2. T[k - 1] \in Nat /\ T[k - 1] + Reserved <= end(k - 1) /\ end(k - 1) \in Nat
    BY <1>4, <1>6, <1>11, <2>1
  <2>3. T[k] = T[k - 1] + tensors[k].size_bytes
    BY <1>4
  <2>4. end(k - 1) <= tensors[k].allocation.phys_addr
    BY <1>5
  <2>5. end(k) = tensors[k].allocation.phys_addr + tensors[k].allocation.size
    BY <1>7
  <2>6. T[k] + Reserved <= end(k)
    BY <1>3, <1>8, <2>2, <2>3, <2>4, <2>5
  <2> QED BY <2>1, <2>6
<1> HIDE DEF S
<1>12. n \in S
  <2>1. 0 .. n \subseteq S
    BY <1>2, <1>10, <1>11, UpwardInduction
  <2> QED BY <1>2, <2>1
<1>13. T[n] + Reserved <= end(n) /\ T[n] \in Nat /\ end(n) \in Nat
  <2>1. n \in 0 .. n
    BY <1>2
  <2> QED BY <1>4, <1>6, <1>12, <2>1 DEF S
<1>14. freeRegion.start = Reserved + Used /\ freeRegion.start \in Nat /\ Used \in Int
  BY <1>1, ClientConstants DEF HeapInv, Used
<1> QED BY <1>4, <1>8, <1>9, <1>13, <1>14

(* total_allocated and tensor_count: the bytes and the number of the live  *)
(* tensors after any calls, and no more bytes than VRAM gave away unless a *)
(* size wraps.                                                             *)
THEOREM CountersAreHonest == Spec => []CountersHonest
<1>1. ASSUME ClientsInv PROVE CountersHonest
  <2>1. tensor_count = Len(tensors) /\ total_allocated = TotalBytes(tensors) % Word
    BY <1>1 DEF ClientsInv, CounterInv
  <2>2. TotalBytes(tensors) \in Nat /\ Word \in Nat \ {0}
    BY <1>1, ListIsSized, SumsFacts, ClientConstants DEF ClientsInv
  <2>3. total_allocated <= TotalBytes(tensors) /\ total_allocated \in Nat
    <3>1. TotalBytes(tensors) % Word \in 0 .. Word - 1 /\ TotalBytes(tensors) % Word <= TotalBytes(tensors)
      BY <2>2, ModFacts
    <3> QED BY <2>1, <2>2, <3>1
  <2>4. Used \in Int
    BY <1>1 DEF ClientsInv, HeapInv, Used
  <2>5. (\A i \in DOMAIN tensors : Representable(tensors[i])) => total_allocated <= Used
    BY <1>1, <2>2, <2>3, <2>4, TotalAtMost
  <2> QED BY <2>1, <2>5 DEF CountersHonest
<1> QED BY <1>1, ClientsAlways, PTL

(* Runlist::commit: whatever was added, removed and committed since, the   *)
(* list that the GPU has lies in a block that the runlist still owns and   *)
(* that has room for all of it.                                            *)
THEOREM RunlistIsHeld == Spec => []RunlistHeld
BY ClientsAlways, PTL DEF ClientsInv
=============================================================================
