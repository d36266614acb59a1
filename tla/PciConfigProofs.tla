--------------------------- MODULE PciConfigProofs ---------------------------
(***************************************************************************)
(* Proofs about the scan of the bus, for any bus whose regions are legal:  *)
(* what base address registers keep of what is written to them, what       *)
(* decode_bar64 and probe_bar_size make of them, and an invariant of the   *)
(* scan, which DeviceProofs uses.                                          *)
(***************************************************************************)
EXTENDS PciConfig, ModArithmetic, TLAPS

AllLegal(f) == \A k \in DOMAIN f.regions : Legal(f.regions, k)

LEMMA WordFacts == Word32 \in Nat \ {0} /\ Word32 >= 16 /\ Word32 % 16 = 0 /\ Word32 % Word32 = 0
BY PciAssumption, DivisorAtMost

(* A region is at least 16 bytes, and divides the word or is a multiple of *)
(* it.                                                                     *)
LEMMA RegionSize ==
  ASSUME NEW f, AllLegal(f), NEW k \in DOMAIN f.regions
  PROVE  LET s == f.regions[k].size
         IN /\ s \in Nat \ {0} /\ 16 <= s /\ s % 16 = 0
            /\ \/ Word32 % s = 0 /\ s <= Word32
               \/ /\ f.regions[k].is64 /\ s % Word32 = 0 /\ Word32 <= s
                  /\ s \div Word32 \in Nat \ {0} /\ Word32 % (s \div Word32) = 0
                  /\ s = Word32 * (s \div Word32)
<1> DEFINE s == f.regions[k].size
<1>1. /\ s \in Nat \ {0} /\ s % 16 = 0
      /\ \/ Word32 % s = 0
         \/ f.regions[k].is64 /\ s % Word32 = 0 /\ Word32 % (s \div Word32) = 0
  BY DEF AllLegal, Legal
<1> HIDE DEF s
<1>2. 16 <= s
  BY <1>1, DivisorAtMost
<1>3. Word32 % s = 0 => s <= Word32
  BY <1>1, WordFacts, DivisorAtMost
<1>4. ASSUME s % Word32 = 0 PROVE Word32 <= s
  BY <1>1, <1>4, WordFacts, DivisorAtMost
<1>5. ASSUME s % Word32 = 0 PROVE s \div Word32 \in Nat \ {0} /\ s = Word32 * (s \div Word32)
  <2>1. s \div Word32 \in Nat /\ s = Word32 * (s \div Word32)
    BY <1>1, <1>5, WordFacts, DivFacts
  <2>2. s \div Word32 # 0
    BY <1>1, <2>1, WordFacts
  <2> QED BY <2>1, <2>2
<1> QED BY <1>1, <1>2, <1>3, <1>4, <1>5 DEF s

LEMMA MinMaxOfTwo ==
  ASSUME NEW a \in Nat, NEW b \in Nat
  PROVE  /\ Min({a, b}) = IF a <= b THEN a ELSE b
         /\ Max({a, b}) = IF a >= b THEN a ELSE b
<1>1. Min({a, b}) = IF a <= b THEN a ELSE b
  BY DEF Min
<1>2. Max({a, b}) = IF a >= b THEN a ELSE b
  BY DEF Max
<1> QED BY <1>1, <1>2

(* The bits a register keeps: a divisor of the word, above the flags.      *)
LEMMA GranuleFacts ==
  ASSUME NEW f, AllLegal(f), NEW k \in 0 .. 5
  PROVE  /\ Granule(f, k) \in Nat \ {0} /\ Granule(f, k) <= Word32
         /\ Word32 % Granule(f, k) = 0
         /\ Flags(f, k) \in Nat /\ Flags(f, k) < Granule(f, k) /\ Flags(f, k) \in {0, 1, 4, 8, 12}
<1>1. CASE IsLow(f, k)
  <2> DEFINE s == f.regions[k].size
  <2>1. k \in DOMAIN f.regions
    BY <1>1 DEF IsLow
  <2>2. /\ s \in Nat \ {0} /\ 16 <= s
        /\ (Word32 % s = 0 /\ s <= Word32) \/ Word32 <= s
    BY <2>1, RegionSize
  <2>3. Granule(f, k) = Min({s, Word32}) /\ Flags(f, k) = f.regions[k].flags
    BY <1>1 DEF Granule, Flags
  <2>4. Flags(f, k) \in {0, 1, 4, 8, 12}
    BY <2>1, <2>3 DEF AllLegal, Legal
  <2> HIDE DEF s
  <2>5. Min({s, Word32}) = IF s <= Word32 THEN s ELSE Word32
    BY <2>2, WordFacts, MinMaxOfTwo
  <2>6. CASE Word32 % s = 0 /\ s <= Word32
    BY <2>2, <2>3, <2>4, <2>5, <2>6, WordFacts
  <2>7. CASE Word32 <= s
    <3>1. Granule(f, k) = Word32
      BY <2>2, <2>3, <2>5, <2>7, WordFacts
    <3> QED BY <2>4, <3>1, WordFacts
  <2> QED BY <2>2, <2>6, <2>7
<1>2. CASE ~ IsLow(f, k) /\ IsHigh(f, k)
  <2> DEFINE s == f.regions[k - 1].size
             q == s \div Word32
  <2>1. k - 1 \in DOMAIN f.regions
    BY <1>2 DEF IsHigh
  <2>2. /\ s \in Nat \ {0}
        /\ \/ s <= Word32
           \/ s = Word32 * q /\ q \in Nat \ {0} /\ Word32 % q = 0
    BY <2>1, RegionSize
  <2>3. Granule(f, k) = Max({q, 1}) /\ Flags(f, k) = 0
    BY <1>2 DEF Granule, Flags
  <2>a. s \in Nat /\ Word32 \in Nat \ {0}
    BY <2>2, WordFacts
  <2>b. q \in Nat /\ s = Word32 * q + (s % Word32)
    BY <2>a, DivFacts
  <2>c. s % Word32 \in Nat
    <3> HIDE DEF s
    <3> QED BY <2>a
  <2>4. q \in Nat /\ s = Word32 * q + (s % Word32) /\ s % Word32 \in Nat
    BY <2>b, <2>c
  <2> HIDE DEF s, q
  <2>5. Max({q, 1}) = IF q >= 1 THEN q ELSE 1
    BY <2>4, MinMaxOfTwo
  <2>6. CASE s <= Word32
    <3>1. q <= 1
      <4> SUFFICES ASSUME 2 <= q PROVE FALSE
        BY <2>4
      <4>1. Word32 * 2 <= Word32 * q
        BY <2>4, WordFacts, ProductAtMost
      <4> QED BY <2>2, <2>4, <2>6, <4>1, WordFacts
    <3>2. Granule(f, k) = 1
      BY <2>3, <2>4, <2>5, <3>1
    <3> QED BY <2>3, <3>2, WordFacts
  <2>7. CASE s = Word32 * q /\ q \in Nat \ {0} /\ Word32 % q = 0
    <3>1. Granule(f, k) = q /\ q <= Word32
      BY <2>3, <2>5, <2>7, WordFacts, DivisorAtMost
    <3> QED BY <2>3, <2>7, <3>1
  <2> QED BY <2>2, <2>6, <2>7
<1>3. CASE ~ IsLow(f, k) /\ ~ IsHigh(f, k)
  <2>1. Granule(f, k) = Word32 /\ Flags(f, k) = 0
    BY <1>3 DEF Granule, Flags
  <2> QED BY <2>1, WordFacts
<1> QED BY <1>1, <1>2, <1>3

(* A register holds 32 bits whatever was written to it.                    *)
LEMMA KeepInRange ==
  ASSUME NEW f, AllLegal(f), NEW k \in 0 .. 5, NEW v \in 0 .. Word32 - 1
  PROVE  Keep(f, k, v) \in 0 .. Word32 - 1
<1> DEFINE g == Granule(f, k)
<1>1. g \in Nat \ {0} /\ Word32 % g = 0 /\ Flags(f, k) \in Nat /\ Flags(f, k) < g
  BY GranuleFacts
<1>2. v \in Nat /\ v < Word32 /\ Word32 \in Nat
  BY WordFacts
<1> HIDE DEF g
<1>r. (v - (v % g)) + g <= Word32
  BY <1>1, <1>2, RoundDownBelow
<1>m. v % g \in 0 .. g - 1 /\ v % g <= v
  BY <1>1, <1>2, ModFacts
<1>3. (v - (v % g)) + g <= Word32 /\ v - (v % g) \in Nat
  BY <1>1, <1>2, <1>r, <1>m
<1>4. Keep(f, k, v) = (v - (v % g)) + Flags(f, k)
  BY DEF Keep, g
<1> QED BY <1>1, <1>2, <1>3, <1>4

(* Writing back what was read changes nothing.                             *)
LEMMA KeepKept ==
  ASSUME NEW f, AllLegal(f), NEW k \in 0 .. 5, NEW v \in Nat
  PROVE  Keep(f, k, Keep(f, k, v)) = Keep(f, k, v)
<1> DEFINE g == Granule(f, k)
           b == Flags(f, k)
           q == v \div g
<1>1. g \in Nat \ {0} /\ b \in 0 .. g - 1
  BY GranuleFacts
<1>2. q \in Nat /\ v - (v % g) = g * q
  BY <1>1, DivFacts
<1>3. \A x : Keep(f, k, x) = (x - (x % g)) + b
  BY DEF Keep
<1> HIDE DEF g, b, q
<1>4. g * q \in Nat
  BY <1>1, <1>2
<1> DEFINE x == g * q + b
<1>5. x \in Nat /\ q \in Int
  BY <1>1, <1>2, <1>4
<1>6. x % g = b
  BY <1>1, <1>5, ModUnique
<1>7. Keep(f, k, v) = x
  BY <1>2, <1>3
<1>8. Keep(f, k, x) = (x - b) + b
  BY <1>3, <1>6
<1> QED BY <1>1, <1>4, <1>5, <1>7, <1>8

-----------------------------------------------------------------------------
(* Flags below an address at a multiple of 16: & !0xF gives the address,   *)
(* and the type bits are those of the flags.                               *)
LEMMA FieldOfSum ==
  ASSUME NEW x \in Nat, x % 16 = 0, NEW b \in {0, 1, 4, 8, 12}
  PROVE  Field(x + b) = x /\ (Is64(x + b) <=> b \in {4, 12})
<1>1. PICK y \in Nat : x = 16 * y
  BY DivFacts
<1>2. (x + b) % 16 = b
  BY <1>1
<1>3. ((x + b) \div 2) % 4 = 2 <=> b \in {4, 12}
  BY <1>1
<1> QED BY <1>2, <1>3 DEF Field, Is64

(* The register of a region holds its address, or the low half of it, and  *)
(* the flags.                                                              *)
LEMMA LowRegister ==
  ASSUME NEW f, AllLegal(f), NEW k \in DOMAIN f.regions
  PROVE  LET x == f.regions[k].base % Word32
         IN /\ x \in Nat /\ x < Word32 /\ x % 16 = 0
            /\ Programmed(f, k) = x + f.regions[k].flags
            /\ f.regions[k].flags \in {0, 1, 4, 8, 12}
<1> DEFINE r == f.regions[k]
           x == r.base % Word32
           s == r.size
<1>1. /\ k \in 0 .. 5 /\ r.flags \in {0, 1, 4, 8, 12}
      /\ r.base \in Nat /\ r.base % s = 0
  BY DEF AllLegal, Legal
<1>2. /\ s \in Nat \ {0} /\ 16 <= s /\ s % 16 = 0
      /\ (Word32 % s = 0 /\ s <= Word32) \/ (s % Word32 = 0 /\ Word32 <= s)
  BY RegionSize
<1>3. Granule(f, k) = Min({s, Word32}) /\ Flags(f, k) = r.flags
  BY DEF Granule, Flags, IsLow
<1>4. Programmed(f, k) = (x - (x % Granule(f, k))) + r.flags
  BY <1>3 DEF Programmed, Keep, IsLow
<1> HIDE DEF r, s
<1>5. Min({s, Word32}) = IF s <= Word32 THEN s ELSE Word32
  BY <1>2, WordFacts, MinMaxOfTwo
<1> DEFINE q == r.base \div Word32
<1>6. q \in Nat /\ r.base = Word32 * q + x
  BY <1>1, WordFacts, DivFacts
<1>7. x \in Nat /\ x < Word32
  BY <1>1, WordFacts
<1> HIDE DEF x, q
<1>8. \A p \in Nat \ {0} : Word32 % p = 0 /\ r.base % p = 0 => x % p = 0
  <2> SUFFICES ASSUME NEW p \in Nat \ {0}, Word32 % p = 0, r.base % p = 0 PROVE x % p = 0
    OBVIOUS
  <2>1. Word32 * q \in Nat /\ Word32 * q <= r.base /\ x = r.base - Word32 * q
    BY <1>6, <1>7, WordFacts
  <2>2. (r.base - Word32 * q) % p = 0
    <3>1. Word32 \in Nat /\ r.base \in Nat /\ q \in Nat
      BY <1>1, <1>6, WordFacts
    <3> QED BY <2>1, <3>1, MultipleOfMultiple, Zenon
  <2> QED BY <2>1, <2>2
<1>9. \A p \in Nat \ {0} : s % p = 0 => r.base % p = 0
  <2> SUFFICES ASSUME NEW p \in Nat \ {0}, s % p = 0 PROVE r.base % p = 0
    OBVIOUS
  <2>a. PICK a \in Nat : r.base = s * a
    BY <1>1, <1>2, IsMultiple
  <2>b. PICK b \in Nat : s = p * b
    BY <1>2, IsMultiple
  <2>2. r.base = p * (b * a) /\ b * a \in Nat
    BY <2>a, <2>b
  <2> QED BY <2>2, MultipleFacts
<1>10. x % 16 = 0
  BY <1>2, <1>8, <1>9, WordFacts
<1>11. x % Granule(f, k) = 0
  <2>1. CASE Word32 % s = 0 /\ s <= Word32
    BY <1>1, <1>2, <1>3, <1>5, <1>8, <2>1
  <2>2. CASE s % Word32 = 0 /\ Word32 <= s
    <3>1. Granule(f, k) = Word32
      BY <1>2, <1>3, <1>5, <2>2, WordFacts
    <3>2. r.base % Word32 = 0
      BY <1>9, <2>2, WordFacts
    <3> QED BY <1>8, <3>1, <3>2, WordFacts
  <2> QED BY <1>2, <2>1, <2>2
<1> QED BY <1>1, <1>4, <1>7, <1>10, <1>11 DEF x, r

(* The second register of a 64-bit region holds the high half.             *)
LEMMA HighRegister ==
  ASSUME NEW f, AllLegal(f), NEW k \in DOMAIN f.regions, f.regions[k].is64
  PROVE  Programmed(f, k + 1) = f.regions[k].base \div Word32
<1> DEFINE r == f.regions[k]
           s == r.size
           v == r.base \div Word32
           q == s \div Word32
<1>1. /\ k \in 0 .. 5 /\ k < 5 /\ k + 1 \notin DOMAIN f.regions
      /\ r.base \in Nat /\ r.base % s = 0
  BY DEF AllLegal, Legal
<1>2. /\ s \in Nat \ {0}
      /\ (Word32 % s = 0 /\ s <= Word32) \/ (s = Word32 * q /\ q \in Nat \ {0})
  BY RegionSize
<1>3. (k + 1) - 1 = k
  BY <1>1
<1>4. ~ IsLow(f, k + 1) /\ IsHigh(f, k + 1)
  BY <1>1, <1>3 DEF IsLow, IsHigh
<1>5. Granule(f, k + 1) = Max({q, 1}) /\ Flags(f, k + 1) = 0
  BY <1>3, <1>4 DEF Granule, Flags
<1>6. Programmed(f, k + 1) = (v - (v % Granule(f, k + 1))) + 0
  BY <1>3, <1>4, <1>5 DEF Programmed, Keep
<1>7. v \in Nat /\ q \in Nat
  BY <1>1, <1>2, WordFacts, DivFacts
<1>8. Max({q, 1}) = IF q >= 1 THEN q ELSE 1
  BY <1>7, MinMaxOfTwo
<1>9. v % Granule(f, k + 1) = 0
  <2>1. CASE s = Word32 * q /\ q \in Nat \ {0}
    <3>1. Granule(f, k + 1) = q
      BY <1>5, <1>8, <2>1
    <3>2. PICK a \in Nat : r.base = s * a
      <4> HIDE DEF r, s, q
      <4> QED BY <1>1, <1>2, IsMultiple
    <3>3. r.base = Word32 * (q * a) /\ q * a \in Nat
      <4> HIDE DEF r, q, s
      <4> QED BY <2>1, <3>2, WordFacts
    <3>4. v = q * a
      BY <3>3, WordFacts, MultipleFacts
    <3> QED BY <2>1, <3>1, <3>4, MultipleFacts
  <2>2. CASE Word32 % s = 0 /\ s <= Word32 /\ ~ (s = Word32 * q /\ q \in Nat \ {0})
    <3>1. q = 0
      <4>1. s = Word32 * q + (s % Word32)
        BY <1>2, WordFacts, DivFacts
      <4>2. s % Word32 \in Nat
        <5> HIDE DEF s
        <5> QED BY <1>2, WordFacts
      <4> HIDE DEF s, q
      <4>3. ~ (2 <= q)
        <5> SUFFICES ASSUME 2 <= q PROVE FALSE
          OBVIOUS
        <5>1. Word32 * 2 <= Word32 * q
          BY <1>7, WordFacts, ProductAtMost
        <5> QED BY <1>2, <1>7, <2>2, <4>1, <4>2, <5>1, WordFacts
      <4>4. q # 1
        BY <1>2, <2>2, <4>1, <4>2, WordFacts
      <4> QED BY <1>7, <4>3, <4>4
    <3>2. Granule(f, k + 1) = 1
      BY <1>5, <1>7, <1>8, <3>1
    <3> HIDE DEF v
    <3> QED BY <1>7, <3>2
  <2> QED BY <1>2, <2>1, <2>2
<1> HIDE DEF v
<1>10. Programmed(f, k + 1) = v
  BY <1>6, <1>7, <1>9
<1> QED BY <1>10 DEF v, r

(* decode_bar64 gives the address of a region from its registers, above    *)
(* 4 GiB too.                                                              *)
LEMMA DecodesAddress ==
  ASSUME NEW f, AllLegal(f), NEW k \in DOMAIN f.regions
  PROVE  /\ decode_bar64(Programmed(f, k), Programmed(f, k + 1)) = f.regions[k].base
         /\ Is64(Programmed(f, k)) <=> f.regions[k].is64
<1> DEFINE r == f.regions[k]
           x == r.base % Word32
<1>1. /\ r.is64 = (r.flags \in {4, 12}) /\ r.base \in Nat
      /\ ~ r.is64 => r.base \div Word32 = 0
  BY DEF AllLegal, Legal
<1>2. /\ x \in Nat /\ x % 16 = 0 /\ r.flags \in {0, 1, 4, 8, 12}
      /\ Programmed(f, k) = x + r.flags
  BY LowRegister
<1>3. r.base = Word32 * (r.base \div Word32) + x /\ r.base \div Word32 \in Nat
  BY <1>1, WordFacts, DivFacts
<1>4. r.is64 => Programmed(f, k + 1) = r.base \div Word32
  BY HighRegister
<1> HIDE DEF r, x
<1>5. /\ Field(Programmed(f, k)) = x
      /\ Is64(Programmed(f, k)) <=> r.flags \in {4, 12}
  BY <1>2, FieldOfSum
<1>6. CASE r.is64
  <2>1. decode_bar64(Programmed(f, k), Programmed(f, k + 1)) = ((r.base \div Word32) * Word32) + x
    BY <1>1, <1>4, <1>5, <1>6 DEF decode_bar64
  <2>2. \A q \in Nat : q * Word32 = Word32 * q
    BY WordFacts
  <2>3. decode_bar64(Programmed(f, k), Programmed(f, k + 1)) = r.base
    BY <1>3, <2>1, <2>2
  <2>4. Is64(Programmed(f, k)) <=> r.is64
    BY <1>1, <1>5
  <2> QED BY <2>3, <2>4 DEF r
<1>7. CASE ~ r.is64
  <2>0. r.base \div Word32 = 0 /\ Word32 * 0 = 0
    BY <1>1, <1>7, WordFacts
  <2>1. r.base = x
    BY <1>2, <1>3, <2>0
  <2>2. decode_bar64(Programmed(f, k), Programmed(f, k + 1)) = r.base
    BY <1>1, <1>5, <1>7, <2>1 DEF decode_bar64
  <2>3. Is64(Programmed(f, k)) <=> r.is64
    BY <1>1, <1>5
  <2> QED BY <2>2, <2>3 DEF r
<1> QED BY <1>6, <1>7

(* A register without a region reads zero, whatever was written.           *)
LEMMA AbsentRegister ==
  ASSUME NEW f, NEW k, ~ IsLow(f, k), ~ IsHigh(f, k)
  PROVE  /\ Programmed(f, k) = 0 /\ Keep(f, k, Word32 - 1) = 0
         /\ \A hi : decode_bar64(0, hi) = 0
<1>1. Granule(f, k) = Word32 /\ Flags(f, k) = 0
  BY DEF Granule, Flags
<1>2. Programmed(f, k) = Keep(f, k, 0)
  BY DEF Programmed
<1>3. 0 % Word32 = 0 /\ (Word32 - 1) % Word32 = Word32 - 1
  BY WordFacts
<1>4. Keep(f, k, 0) = 0 /\ Keep(f, k, Word32 - 1) = 0
  BY <1>1, <1>3, WordFacts DEF Keep
<1>5. Field(0) = 0 /\ ~ Is64(0)
  BY DEF Field, Is64
<1> QED BY <1>2, <1>4, <1>5 DEF decode_bar64

(* probe_bar_size gives the size of a region of less than 4 GiB, and zero  *)
(* for a larger one and for none.                                          *)
LEMMA ProbesSize ==
  ASSUME NEW f, AllLegal(f), NEW k \in 0 .. 5
  PROVE  /\ IsLow(f, k) =>
              ProbedSize(Keep(f, k, Word32 - 1)) =
                IF f.regions[k].size < Word32 THEN f.regions[k].size ELSE 0
         /\ ~ IsLow(f, k) /\ ~ IsHigh(f, k) => ProbedSize(Keep(f, k, Word32 - 1)) = 0
<1>1. ASSUME ~ IsLow(f, k), ~ IsHigh(f, k) PROVE ProbedSize(Keep(f, k, Word32 - 1)) = 0
  BY <1>1, AbsentRegister DEF ProbedSize
<1>2. ASSUME IsLow(f, k)
      PROVE  ProbedSize(Keep(f, k, Word32 - 1)) =
               IF f.regions[k].size < Word32 THEN f.regions[k].size ELSE 0
  <2> DEFINE s == f.regions[k].size
             g == Granule(f, k)
             b == Flags(f, k)
             m == Keep(f, k, Word32 - 1)
  <2>1. k \in DOMAIN f.regions
    BY <1>2 DEF IsLow
  <2>2. /\ s \in Nat \ {0} /\ 16 <= s /\ s % 16 = 0
        /\ s <= Word32 \/ Word32 <= s
    BY <2>1, RegionSize
  <2>3. /\ g \in Nat \ {0} /\ g <= Word32 /\ Word32 % g = 0
        /\ b \in {0, 1, 4, 8, 12}
    BY GranuleFacts
  <2>4. g = Min({s, Word32})
    BY <1>2 DEF Granule
  <2>5. m = ((Word32 - 1) - ((Word32 - 1) % g)) + b
    BY DEF Keep
  <2> HIDE DEF s, g, b, m
  <2>6. g = IF s <= Word32 THEN s ELSE Word32
    BY <2>2, <2>4, WordFacts, MinMaxOfTwo
  <2>7. (Word32 - 1) % g = g - 1
    <3>1. PICK c \in Nat : Word32 = g * c
      BY <2>3, WordFacts, IsMultiple
    <3>2. c # 0
      BY <2>3, <3>1, WordFacts
    <3>3. g * (c - 1) = g * c - g * 1 /\ g * 1 = g
      BY <2>3, Distributes
    <3> DEFINE x == Word32 - 1
    <3>4. x = g * (c - 1) + (g - 1)
      BY <2>3, <3>1, <3>3, WordFacts
    <3>5. x \in Nat /\ c - 1 \in Int /\ g - 1 \in 0 .. g - 1
      BY <2>3, <3>2, WordFacts
    <3> HIDE DEF x
    <3>6. x % g = g - 1
      BY <2>3, <3>4, <3>5, ModUnique
    <3> QED BY <3>6 DEF x
  <2>8. m = (Word32 - g) + b
    BY <2>3, <2>5, <2>7, WordFacts
  <2>9. Word32 - g \in Nat /\ (Word32 - g) % 16 = 0
    <3>1. g % 16 = 0
      BY <2>2, <2>6, WordFacts
    <3>2. PICK a \in Nat : Word32 = 16 * a
      BY WordFacts, IsMultiple
    <3>3. PICK c \in Nat : g = 16 * c
      BY <2>3, <3>1, IsMultiple
    <3> QED BY <2>3, <3>2, <3>3, WordFacts
  <2>10. Field(m) = Word32 - g
    BY <2>3, <2>8, <2>9, FieldOfSum
  <2>11. CASE s < Word32
    <3>1. g = s /\ m # 0 /\ m # Word32 - 1
      BY <2>2, <2>3, <2>6, <2>8, <2>11, WordFacts
    <3>2. Field(m) # 0 /\ Word32 - Field(m) = s
      BY <2>2, <2>10, <2>11, <3>1, WordFacts
    <3> QED BY <2>11, <3>1, <3>2 DEF ProbedSize, m, s
  <2>12. CASE ~ (s < Word32)
    <3>1. Field(m) = 0
      BY <2>2, <2>6, <2>10, <2>12, WordFacts
    <3> QED BY <2>12, <3>1 DEF ProbedSize, m, s
  <2> QED BY <2>11, <2>12
<1> QED BY <1>1, <1>2

-----------------------------------------------------------------------------
(* The invariant of the scan.                                              *)
CommandBits == {"io", "memory", "master"}

Bars == [0 .. 5 -> 0 .. Word32 - 1]

Registers == [bars : Bars, command : SUBSET CommandBits, status : SUBSET StatusBits]

ScanTypes ==
  /\ bus \in Buses /\ slot \in 1 .. Len(bus) + 1
  /\ config \in [DOMAIN bus -> Registers]
  /\ seen \in [command : SUBSET CommandBits, status : SUBSET StatusBits]

NoGpuYet == {"scan", "none"}

(* The slot is the one of the first GPU. *)
FirstGpu ==
  /\ \A j \in 1 .. slot - 1 : ~ IsGpu(bus[j])
  /\ pc \notin NoGpuYet => slot \in DOMAIN bus /\ IsGpu(bus[slot])

(* The BAR being probed, 6 when that is over.                              *)
NextProbe == IF pc \in {"ones", "restore"} THEN Head(probes) ELSE 6

BarsKept ==
  /\ \A i \in DOMAIN bus : \A k \in 0 .. 5 :
       \/ config[i].bars[k] = Programmed(bus[i], k)
       \/ pc = "restore" /\ i = slot /\ k = Head(probes)
  /\ pc = "restore" =>
       /\ original = Programmed(bus[slot], Head(probes))
       /\ config[slot].bars[Head(probes)] = Keep(bus[slot], Head(probes), Word32 - 1)

CommandKept ==
  /\ \A i \in DOMAIN bus :
       config[i].command = bus[i].command \/ (i = slot /\ pc \notin Scanning \cup {"none"})
  /\ pc \notin Scanning \cup {"none"} => {"memory", "master"} \subseteq config[slot].command

ProbeOrder ==
  pc \in {"ones", "restore"} =>
    IF Is64(Programmed(bus[slot], 0)) THEN probes \in {<<0, 2, 4>>, <<2, 4>>, <<4>>}
    ELSE probes \in {<<0, 2>>, <<2>>}

SizeAt(f, k) == ProbedSize(Keep(f, k, Word32 - 1))

(* The device as it is known while BAR n is the next to be probed.         *)
Found(f, n) ==
  [slot |-> slot, device_id |-> f.device_id, family |-> device_id_to_family(f.device_id),
   base |-> <<decode_bar64(Programmed(f, 0), Programmed(f, 1)),
              decode_bar64(Programmed(f, 2), Programmed(f, 3)),
              IF Is64(Programmed(f, 0))
              THEN decode_bar64(Programmed(f, 4), Programmed(f, 5)) ELSE 0>>,
   size |-> <<IF 0 < n THEN SizeAt(f, 0) ELSE 0,
              IF 2 < n THEN SizeAt(f, 2) ELSE 0,
              IF 4 < n /\ Is64(Programmed(f, 0)) THEN SizeAt(f, 4) ELSE 0>>]

DeviceKnown == pci = IF pc \in NoGpuYet THEN {} ELSE {Found(bus[slot], NextProbe)}

ScanInv == ScanTypes /\ FirstGpu /\ BarsKept /\ CommandKept /\ ProbeOrder /\ DeviceKnown

LEMMA LegalBus ==
  ASSUME bus \in Buses, NEW i \in DOMAIN bus
  PROVE  /\ AllLegal(bus[i]) /\ bus[i].command \subseteq CommandBits
         /\ Len(bus) \in Nat /\ DOMAIN bus = 1 .. Len(bus)
         /\ IsGpu(bus[i]) => 0 \in DOMAIN bus[i].regions
BY PciAssumption DEF AllLegal, CommandBits, IsGpu

(* A register holds what was programmed in range, also as it was found.    *)
LEMMA ProgrammedFacts ==
  ASSUME NEW f, AllLegal(f), NEW k \in 0 .. 5
  PROVE  /\ Programmed(f, k) \in 0 .. Word32 - 1
         /\ Keep(f, k, Programmed(f, k)) = Programmed(f, k)
<1> DEFINE v == IF IsLow(f, k) THEN f.regions[k].base % Word32
                ELSE IF IsHigh(f, k) THEN f.regions[k - 1].base \div Word32 ELSE 0
<1>1. v \in 0 .. Word32 - 1
  <2>1. CASE IsLow(f, k)
    <3>1. k \in DOMAIN f.regions
      BY <2>1 DEF IsLow
    <3>2. f.regions[k].base % Word32 \in 0 .. Word32 - 1
      BY <3>1, LowRegister, WordFacts
    <3> QED BY <2>1, <3>2
  <2>2. CASE ~ IsLow(f, k) /\ IsHigh(f, k)
    <3>1. k - 1 \in DOMAIN f.regions /\ f.regions[k - 1].is64
      BY <2>2 DEF IsHigh
    <3>2. f.regions[k - 1].base \div Word32 \in 0 .. Word32 - 1
      BY <3>1 DEF AllLegal, Legal
    <3> QED BY <2>2, <3>2
  <2>3. CASE ~ IsLow(f, k) /\ ~ IsHigh(f, k)
    BY <2>3, WordFacts
  <2> QED BY <2>1, <2>2, <2>3
<1>2. Programmed(f, k) = Keep(f, k, v)
  BY DEF Programmed
<1> HIDE DEF v
<1>3. v \in Nat
  BY <1>1, WordFacts
<1> QED BY <1>1, <1>2, <1>3, KeepInRange, KeepKept

LEMMA ScanInvInit == ScanInit => ScanInv
<1> SUFFICES ASSUME ScanInit PROVE ScanInv
  OBVIOUS
<1> USE DEF ScanInit
<1>1. bus \in Buses /\ Len(bus) \in Nat /\ DOMAIN bus = 1 .. Len(bus)
  BY PciAssumption
<1>2. \A i \in DOMAIN bus : \A k \in 0 .. 5 : Programmed(bus[i], k) \in 0 .. Word32 - 1
  BY <1>1, LegalBus, ProgrammedFacts
<1>3. ScanTypes
  <2>1. \A i \in DOMAIN bus : bus[i].command \subseteq CommandBits
    BY <1>1, LegalBus
  <2> QED BY <1>1, <1>2, <2>1 DEF ScanTypes, Registers, Bars, Unseen
<1> QED
  BY <1>1, <1>3 DEF ScanInv, FirstGpu, BarsKept, CommandKept, ProbeOrder, DeviceKnown, NoGpuYet,
                    Scanning

(* Probing changes one BAR of one function. *)
LEMMA BarWritten ==
  ASSUME ScanInv, slot \in DOMAIN bus, NEW k \in 0 .. 5, NEW v, Keep(bus[slot], k, v) \in 0 .. Word32 - 1,
         WriteBar(k, v)
  PROVE  /\ config' \in [DOMAIN bus -> Registers]
         /\ \A i \in DOMAIN bus :
              /\ config'[i].command = config[i].command /\ config'[i].status = config[i].status
              /\ \A j \in 0 .. 5 :
                   config'[i].bars[j] = IF i = slot /\ j = k THEN Keep(bus[slot], k, v)
                                        ELSE config[i].bars[j]
<1> DEFINE w == Keep(bus[slot], k, v)
<1>1. config' = [config EXCEPT ![slot].bars[k] = w] /\ w \in 0 .. Word32 - 1
  BY DEF WriteBar
<1>2. config \in [DOMAIN bus -> Registers]
  BY DEF ScanInv, ScanTypes
<1> HIDE DEF w
<1>3. config[slot] \in Registers /\ config[slot].bars \in Bars
  BY <1>2 DEF Registers
<1>4. /\ config' = [config EXCEPT ![slot] = config'[slot]]
      /\ config'[slot] = [config[slot] EXCEPT !.bars = [config[slot].bars EXCEPT ![k] = w]]
  BY <1>1, <1>2
<1>5. /\ config'[slot] \in Registers /\ config'[slot].command = config[slot].command
      /\ config'[slot].status = config[slot].status
      /\ \A j \in 0 .. 5 : config'[slot].bars[j] = IF j = k THEN w ELSE config[slot].bars[j]
  BY <1>1, <1>3, <1>4 DEF Registers, Bars
<1>6. \A i \in DOMAIN bus : i # slot => config'[i] = config[i]
  BY <1>2, <1>4
<1>7. config' \in [DOMAIN bus -> Registers]
  BY <1>2, <1>4, <1>5
<1> QED BY <1>5, <1>6, <1>7 DEF w

LEMMA SkipKeeps == ScanInv /\ Skip => ScanInv'
<1> SUFFICES ASSUME ScanInv, Skip PROVE ScanInv'
  OBVIOUS
<1>1. Len(bus) \in Nat /\ slot \in Nat
  BY LegalBus, PciAssumption DEF ScanInv, ScanTypes
<1> QED
  BY <1>1 DEF Skip, ScanInv, ScanTypes, FirstGpu, BarsKept, CommandKept, ProbeOrder, DeviceKnown,
              NoGpuYet, Scanning

LEMMA ScanExhaustedKeeps == ScanInv /\ ScanExhausted => ScanInv'
BY DEF ScanExhausted, scan, ScanInv, ScanTypes, FirstGpu, BarsKept, CommandKept, ProbeOrder,
       DeviceKnown, NoGpuYet, Scanning

LEMMA ReadBarsKeeps == ScanInv /\ ReadBars => ScanInv'
<1> SUFFICES ASSUME ScanInv, ReadBars PROVE ScanInv'
  OBVIOUS
<1>1. slot \in DOMAIN bus /\ bus \in Buses
  BY PciAssumption DEF ReadBars, ScanInv, ScanTypes
<1>2. \A k \in 0 .. 5 : Bar(k) = Programmed(bus[slot], k)
  BY <1>1 DEF ReadBars, ScanInv, BarsKept, Bar
<1>3. ScanTypes' /\ FirstGpu' /\ BarsKept' /\ CommandKept'
  BY <1>1 DEF ReadBars, ScanInv, ScanTypes, FirstGpu, BarsKept, CommandKept, NoGpuYet, Scanning
<1>4. ProbeOrder'
  BY <1>2 DEF ReadBars, ProbeOrder
<1>5. DeviceKnown'
  <2>1. NextProbe' = 0
    BY DEF ReadBars, NextProbe
  <2>2. pci' = {Found(bus[slot], 0)}
    BY <1>2 DEF ReadBars, Found
  <2> QED BY <2>1, <2>2 DEF ReadBars, DeviceKnown, NoGpuYet, Found
<1> QED BY <1>3, <1>4, <1>5 DEF ScanInv

(* The BAR at hand is one of three.                                        *)
LEMMA ProbedBar ==
  ASSUME ScanInv, pc \in {"ones", "restore"}
  PROVE  /\ Head(probes) \in {0, 2, 4} /\ slot \in DOMAIN bus /\ AllLegal(bus[slot])
         /\ Len(probes) = 1 => Head(probes) = IF Is64(Programmed(bus[slot], 0)) THEN 4 ELSE 2
         /\ Head(probes) = 4 => Is64(Programmed(bus[slot], 0)) /\ Len(probes) = 1
         /\ Len(probes) # 1 =>
              /\ Head(Tail(probes)) = Head(probes) + 2
              /\ Tail(probes) \in IF Is64(Programmed(bus[slot], 0)) THEN {<<2, 4>>, <<4>>}
                                 ELSE {<<2>>}
<1>1. slot \in DOMAIN bus /\ AllLegal(bus[slot])
  BY LegalBus DEF ScanInv, ScanTypes, FirstGpu, NoGpuYet
<1>2. \/ Is64(Programmed(bus[slot], 0)) /\ probes \in {<<0, 2, 4>>, <<2, 4>>, <<4>>}
      \/ ~ Is64(Programmed(bus[slot], 0)) /\ probes \in {<<0, 2>>, <<2>>}
  BY DEF ScanInv, ProbeOrder
<1>3. \A a, b, c :
        /\ Head(<<a, b, c>>) = a /\ Tail(<<a, b, c>>) = <<b, c>> /\ Len(<<a, b, c>>) = 3
        /\ Head(<<a, b>>) = a /\ Tail(<<a, b>>) = <<b>> /\ Len(<<a, b>>) = 2
        /\ Head(<<a>>) = a /\ Len(<<a>>) = 1
  OBVIOUS
<1>4. CASE probes = <<0, 2, 4>>
  BY <1>1, <1>2, <1>3, <1>4
<1>5. CASE probes = <<2, 4>>
  BY <1>1, <1>2, <1>3, <1>5
<1>6. CASE probes = <<4>>
  BY <1>1, <1>2, <1>3, <1>6
<1>7. CASE probes = <<0, 2>>
  BY <1>1, <1>2, <1>3, <1>7
<1>8. CASE probes = <<2>>
  BY <1>1, <1>2, <1>3, <1>8
<1> QED BY <1>2, <1>4, <1>5, <1>6, <1>7, <1>8

LEMMA ProbeOnesKeeps == ScanInv /\ ProbeOnes => ScanInv'
<1> SUFFICES ASSUME ScanInv, ProbeOnes PROVE ScanInv'
  OBVIOUS
<1> DEFINE k == Head(probes)
<1>1. k \in 0 .. 5 /\ slot \in DOMAIN bus /\ AllLegal(bus[slot])
  BY ProbedBar DEF ProbeOnes
<1>2. /\ pc = "ones" /\ pc' = "restore" /\ original' = config[slot].bars[k]
      /\ WriteBar(k, Word32 - 1)
      /\ UNCHANGED <<bus, slot, pci, probes, seen>>
  BY DEF ProbeOnes, Bar
<1> HIDE DEF k
<1>3. Keep(bus[slot], k, Word32 - 1) \in 0 .. Word32 - 1
  BY <1>1, KeepInRange, WordFacts
<1>4. /\ config' \in [DOMAIN bus -> Registers]
      /\ \A i \in DOMAIN bus :
           /\ config'[i].command = config[i].command /\ config'[i].status = config[i].status
           /\ \A j \in 0 .. 5 :
                config'[i].bars[j] = IF i = slot /\ j = k THEN Keep(bus[slot], k, Word32 - 1)
                                     ELSE config[i].bars[j]
  BY <1>1, <1>2, <1>3, BarWritten
<1>5. ScanTypes' /\ FirstGpu'
  BY <1>2, <1>4 DEF ScanInv, ScanTypes, FirstGpu, NoGpuYet
<1>6. BarsKept'
  BY <1>1, <1>2, <1>4 DEF ScanInv, BarsKept, k
<1>7. CommandKept' /\ ProbeOrder'
  BY <1>1, <1>2, <1>4 DEF ScanInv, CommandKept, ProbeOrder, Scanning
<1>8. DeviceKnown'
  BY <1>2 DEF ScanInv, DeviceKnown, NextProbe, NoGpuYet, Found
<1> QED BY <1>5, <1>6, <1>7, <1>8 DEF ScanInv

LEMMA ProbeRestoreKeeps == ScanInv /\ ProbeRestore => ScanInv'
<1> SUFFICES ASSUME ScanInv, ProbeRestore PROVE ScanInv'
  OBVIOUS
<1> DEFINE k == Head(probes)
           f == bus[slot]
<1>1. /\ k \in {0, 2, 4} /\ slot \in DOMAIN bus /\ AllLegal(f)
      /\ Len(probes) = 1 => k = IF Is64(Programmed(f, 0)) THEN 4 ELSE 2
      /\ k = 4 => Is64(Programmed(f, 0)) /\ Len(probes) = 1
      /\ Len(probes) # 1 => Head(Tail(probes)) = k + 2
  BY ProbedBar DEF ProbeRestore
<1>p. ProbeOrder'
  <2>1. Len(probes) # 1 => Tail(probes) \in IF Is64(Programmed(bus[slot], 0)) THEN {<<2, 4>>, <<4>>}
                                             ELSE {<<2>>}
    BY ProbedBar DEF ProbeRestore
  <2> QED BY <2>1 DEF ProbeOrder, ProbeRestore
<1>2. /\ pc = "restore" /\ pc' = IF Len(probes) = 1 THEN "command" ELSE "ones"
      /\ original' = 0 /\ probes' = Tail(probes)
      /\ pci' = {[d EXCEPT !.size[(k \div 2) + 1] = ProbedSize(config[slot].bars[k])] : d \in pci}
      /\ WriteBar(k, original) /\ UNCHANGED <<bus, slot, seen>>
  BY DEF ProbeRestore, Bar
<1>3. original = Programmed(f, k) /\ config[slot].bars[k] = Keep(f, k, Word32 - 1)
  BY <1>2 DEF ScanInv, BarsKept
<1>4. NextProbe' = IF Len(probes) = 1 THEN 6 ELSE k + 2
  BY <1>1, <1>2 DEF NextProbe
<1>5. NextProbe = k
  BY <1>2 DEF NextProbe
<1>6. pci = {Found(f, k)}
  BY <1>2, <1>5 DEF ScanInv, DeviceKnown, NoGpuYet
<1>7. bus \in Buses /\ slot' = slot /\ bus' = bus
  BY <1>2 DEF ScanInv, ScanTypes
<1> HIDE DEF k, f
<1>8. Keep(f, k, original) = Programmed(f, k) /\ Programmed(f, k) \in 0 .. Word32 - 1
  BY <1>1, <1>3, ProgrammedFacts
<1>9. /\ config' \in [DOMAIN bus -> Registers]
      /\ \A i \in DOMAIN bus :
           /\ config'[i].command = config[i].command /\ config'[i].status = config[i].status
           /\ \A j \in 0 .. 5 :
                config'[i].bars[j] = IF i = slot /\ j = k THEN Programmed(f, k)
                                     ELSE config[i].bars[j]
  BY <1>1, <1>2, <1>8, BarWritten DEF f
<1>10. ScanTypes' /\ FirstGpu'
  BY <1>2, <1>9 DEF ScanInv, ScanTypes, FirstGpu, NoGpuYet
<1>11. BarsKept'
  BY <1>1, <1>2, <1>9 DEF ScanInv, BarsKept, k, f
<1>12. CommandKept'
  BY <1>1, <1>2, <1>9 DEF ScanInv, CommandKept, Scanning
<1>13. DeviceKnown'
  <2>1. ProbedSize(config[slot].bars[k]) = SizeAt(f, k)
    BY <1>3 DEF SizeAt
  <2>2. pci' = {[Found(f, k) EXCEPT !.size[(k \div 2) + 1] = SizeAt(f, k)]}
    BY <1>2, <1>6, <2>1
  <2>3. [Found(f, k) EXCEPT !.size[(k \div 2) + 1] = SizeAt(f, k)] = Found(f, NextProbe')
    <3>1. CASE k = 0
      <4>1. NextProbe' = 2 /\ (k \div 2) + 1 = 1
        BY <1>1, <1>4, <3>1
      <4> QED BY <3>1, <4>1 DEF Found
    <3>2. CASE k = 2
      <4>1. /\ NextProbe' \in {4, 6} /\ (k \div 2) + 1 = 2
            /\ Is64(Programmed(f, 0)) => NextProbe' = 4
        BY <1>1, <1>4, <3>2
      <4> QED BY <3>2, <4>1 DEF Found
    <3>3. CASE k = 4
      <4>1. NextProbe' = 6 /\ (k \div 2) + 1 = 3 /\ Is64(Programmed(f, 0))
        BY <1>1, <1>4, <3>3
      <4> QED BY <3>3, <4>1 DEF Found
    <3> QED BY <1>1, <3>1, <3>2, <3>3
  <2>4. pc' \notin NoGpuYet /\ Found(bus[slot], NextProbe)' = Found(f, NextProbe')
    BY <1>2 DEF NoGpuYet, Found, f
  <2> QED BY <2>2, <2>3, <2>4 DEF DeviceKnown
<1> QED BY <1>p, <1>10, <1>11, <1>12, <1>13 DEF ScanInv

LEMMA ReadCommandKeeps == ScanInv /\ ReadCommand => ScanInv'
<1> SUFFICES ASSUME ScanInv, ReadCommand PROVE ScanInv'
  OBVIOUS
<1>1. slot \in DOMAIN bus /\ config[slot] \in Registers
  BY DEF ReadCommand, ScanInv, FirstGpu, ScanTypes, NoGpuYet
<1>2. /\ pc = "command" /\ pc' \in {"found", "merge"}
      /\ pc' = "found" => {"memory", "master"} \subseteq config[slot].command
      /\ seen' \in [command : SUBSET CommandBits, status : SUBSET StatusBits]
      /\ UNCHANGED <<bus, config, slot, pci, probes, original>>
  BY <1>1 DEF ReadCommand, Registers, ScanInv, ScanTypes
<1>3. ScanTypes' /\ FirstGpu' /\ BarsKept' /\ CommandKept' /\ ProbeOrder'
  BY <1>1, <1>2 DEF ScanInv, ScanTypes, FirstGpu, BarsKept, CommandKept, ProbeOrder, NoGpuYet, Scanning
<1>4. DeviceKnown'
  BY <1>2 DEF ScanInv, DeviceKnown, NextProbe, NoGpuYet, Found
<1> QED BY <1>3, <1>4 DEF ScanInv

LEMMA MergeCommandKeeps == ScanInv /\ MergeCommand => ScanInv'
<1> SUFFICES ASSUME ScanInv, MergeCommand PROVE ScanInv'
  OBVIOUS
<1>1. slot \in DOMAIN bus /\ config[slot] \in Registers
  BY DEF MergeCommand, ScanInv, FirstGpu, ScanTypes, NoGpuYet
<1>2. /\ pc = "merge" /\ pc' = "write"
      /\ seen' \in [command : SUBSET CommandBits, status : SUBSET StatusBits]
      /\ UNCHANGED <<bus, config, slot, pci, probes, original>>
  BY <1>1 DEF MergeCommand, Registers, ScanInv, ScanTypes
<1>3. ScanTypes' /\ FirstGpu' /\ BarsKept' /\ CommandKept' /\ ProbeOrder'
  BY <1>1, <1>2 DEF ScanInv, ScanTypes, FirstGpu, BarsKept, CommandKept, ProbeOrder, NoGpuYet, Scanning
<1>4. DeviceKnown'
  BY <1>2 DEF ScanInv, DeviceKnown, NextProbe, NoGpuYet, Found
<1> QED BY <1>3, <1>4 DEF ScanInv

LEMMA WriteCommandKeeps == ScanInv /\ WriteCommand => ScanInv'
<1> SUFFICES ASSUME ScanInv, WriteCommand PROVE ScanInv'
  OBVIOUS
<1>1. slot \in DOMAIN bus /\ config \in [DOMAIN bus -> Registers] /\ config[slot] \in Registers
  BY DEF WriteCommand, ScanInv, FirstGpu, ScanTypes, NoGpuYet
<1>2. /\ pc = "write" /\ pc' = "found"
      /\ seen' \in [command : SUBSET CommandBits, status : SUBSET StatusBits]
      /\ UNCHANGED <<bus, slot, pci, probes, original>>
  BY <1>1 DEF WriteCommand, ScanInv, ScanTypes, Unseen
<1>3. /\ config' \in [DOMAIN bus -> Registers]
      /\ \A i \in DOMAIN bus : config'[i].bars = config[i].bars
      /\ \A i \in DOMAIN bus : i # slot => config'[i] = config[i]
      /\ {"memory", "master"} \subseteq config'[slot].command
  <2>1. seen.command \cup {"memory", "master"} \in SUBSET CommandBits
    BY DEF ScanInv, ScanTypes, CommandBits
  <2>2. config' = [config EXCEPT ![slot] =
                     [config[slot] EXCEPT !.command = seen.command \cup {"memory", "master"},
                                          !.status = config[slot].status \ seen.status]]
    BY <1>1 DEF WriteCommand, Registers
  <2> QED BY <1>1, <2>1, <2>2 DEF Registers
<1>4. ScanTypes' /\ FirstGpu' /\ BarsKept' /\ CommandKept' /\ ProbeOrder'
  BY <1>1, <1>2, <1>3 DEF ScanInv, ScanTypes, FirstGpu, BarsKept, CommandKept, ProbeOrder, NoGpuYet, Scanning
<1>5. DeviceKnown'
  BY <1>2 DEF ScanInv, DeviceKnown, NextProbe, NoGpuYet, Found
<1> QED BY <1>4, <1>5 DEF ScanInv

LEMMA RaiseStatusKeeps ==
  ASSUME ScanInv, NEW b \in StatusBits, RaiseStatus(b)
  PROVE  ScanInv'
<1>0. bus \in Buses /\ slot \in 1 .. Len(bus) + 1 /\ config \in [DOMAIN bus -> Registers]
      /\ slot <= Len(bus)
  BY DEF RaiseStatus, ScanInv, ScanTypes
<1>1. Len(bus) \in Nat /\ slot \in DOMAIN bus /\ config \in [DOMAIN bus -> Registers]
  BY <1>0, PciAssumption
<1>2. /\ config' \in [DOMAIN bus -> Registers]
      /\ \A i \in DOMAIN bus :
           config'[i].bars = config[i].bars /\ config'[i].command = config[i].command
  <2>1. config' = [config EXCEPT ![slot] =
                     [config[slot] EXCEPT !.status = config[slot].status \cup {b}]]
    BY <1>1 DEF RaiseStatus, Registers
  <2> QED BY <1>1, <2>1 DEF Registers
<1>3. pc' = pc /\ UNCHANGED <<bus, slot, pci, probes, original, seen>>
  BY DEF RaiseStatus
<1>4. ScanTypes' /\ FirstGpu' /\ BarsKept' /\ CommandKept' /\ ProbeOrder'
  BY <1>1, <1>2, <1>3 DEF ScanInv, ScanTypes, FirstGpu, BarsKept, CommandKept, ProbeOrder
<1>5. DeviceKnown'
  BY <1>3 DEF ScanInv, DeviceKnown, NextProbe, Found
<1> QED BY <1>4, <1>5 DEF ScanInv

(* The invariant is kept by the scan, by errors on the bus, and by all     *)
(* that comes after the scan.                                              *)
LEMMA ScanKeeps == ScanInv /\ ScanStep => ScanInv'
BY SkipKeeps, ScanExhaustedKeeps, ReadBarsKeeps, ProbeOnesKeeps, ProbeRestoreKeeps,
   ReadCommandKeeps, MergeCommandKeeps, WriteCommandKeeps DEF ScanStep

LEMMA AfterScan ==
  ASSUME ScanInv, UNCHANGED scan,
         pc' = pc \/ (pc \notin Scanning \cup {"none"} /\ pc' \notin Scanning \cup {"none"})
  PROVE  ScanInv'
<1> USE DEF scan
<1>1. ScanTypes' /\ FirstGpu' /\ BarsKept' /\ CommandKept' /\ ProbeOrder'
  BY DEF ScanInv, ScanTypes, FirstGpu, BarsKept, CommandKept, ProbeOrder, NoGpuYet, Scanning
<1>2. DeviceKnown'
  BY DEF ScanInv, DeviceKnown, NextProbe, NoGpuYet, Found, Scanning
<1> QED BY <1>1, <1>2 DEF ScanInv
=============================================================================
