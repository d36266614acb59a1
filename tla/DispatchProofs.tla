--------------------------- MODULE DispatchProofs ---------------------------
(***************************************************************************)
(* Proofs about Dispatch for any number of calls, any jobs and shaders and *)
(* any word size: what the GPU finds in its registers when it comes to a   *)
(* launch or to a release.                                                 *)
(***************************************************************************)
EXTENDS Dispatch, ModArithmetic, FiniteSetTheorems

(* The constants are numbers, and words are at least binary.               *)
LEMMA DispatchConstants ==
  /\ ClassId \in Nat /\ PushWords \in Nat /\ VramPages \in Nat /\ VaBase \in Nat
  /\ PageSize \in Nat \ {0} /\ Word32 \in Nat \ {0, 1} /\ SizeSpan \in Nat \ {0}
  /\ MaxPolls \in Nat /\ MaxCalls \in Nat
  /\ VramPages * PageSize \in Nat /\ Word32 * Word32 \in Nat
BY DispatchAssumption

-----------------------------------------------------------------------------
(* A header names its method, and the GPU's table finds it.                *)
LEMMA MethodNames ==
  Methods = {"SET_OBJECT", "SET_CONSTANT_BUFFER_BIND", "CB_SELECTOR", "SET_PROGRAM_REGION_A",
             "SET_PROGRAM_REGION_B", "SET_SHADER_PROGRAM", "SET_SHARED_MEMORY_SIZE",
             "SET_BLOCK_DIM_X", "SET_BLOCK_DIM_Y", "SET_BLOCK_DIM_Z", "LAUNCH_DIM_X",
             "LAUNCH_DIM_Y", "LAUNCH_DIM_Z", "LAUNCH", "SET_REPORT_SEMAPHORE_A",
             "SET_REPORT_SEMAPHORE_B", "SET_REPORT_SEMAPHORE_C", "SET_REPORT_SEMAPHORE_D"}
BY DEF Methods, Offset

(* Every method has an offset of its own, a multiple of four that fits a   *)
(* header's field.                                                         *)
LEMMA OffsetsKnown ==
  /\ \A m \in Methods : Offset[m] \in Nat /\ Offset[m] < 4 * \h2000 /\ Offset[m] % 4 = 0
  /\ \A m, n \in Methods : Offset[m] = Offset[n] => m = n
<1>1. /\ Offset["SET_OBJECT"] = 0 /\ Offset["SET_CONSTANT_BUFFER_BIND"] = 2736
      /\ Offset["CB_SELECTOR"] = 9088 /\ Offset["SET_PROGRAM_REGION_A"] = 5640
      /\ Offset["SET_PROGRAM_REGION_B"] = 5644 /\ Offset["SET_SHADER_PROGRAM"] = 8192
      /\ Offset["SET_SHARED_MEMORY_SIZE"] = 8268 /\ Offset["SET_BLOCK_DIM_X"] = 8256
      /\ Offset["SET_BLOCK_DIM_Y"] = 8260 /\ Offset["SET_BLOCK_DIM_Z"] = 8264
      /\ Offset["LAUNCH_DIM_X"] = 8308 /\ Offset["LAUNCH_DIM_Y"] = 8312
      /\ Offset["LAUNCH_DIM_Z"] = 8316 /\ Offset["LAUNCH"] = 8320
      /\ Offset["SET_REPORT_SEMAPHORE_A"] = 6912 /\ Offset["SET_REPORT_SEMAPHORE_B"] = 6916
      /\ Offset["SET_REPORT_SEMAPHORE_C"] = 6920 /\ Offset["SET_REPORT_SEMAPHORE_D"] = 6924
  BY DEF Offset
<1>2. ASSUME NEW m \in Methods PROVE Offset[m] \in Nat /\ Offset[m] < 4 * \h2000 /\ Offset[m] % 4 = 0
  BY <1>1, <1>2, MethodNames
<1>3. ASSUME NEW m \in Methods, NEW n \in Methods, Offset[m] = Offset[n] PROVE m = n
  BY <1>1, <1>3, MethodNames
<1> QED BY <1>2, <1>3

(* The GPU reads back from a one-word header the method it was made for.   *)
LEMMA HeaderFacts ==
  ASSUME NEW m \in Methods
  PROVE  LET h == gpu_method_1(0, Offset[m])
         IN h \in Nat /\ Known(h) /\ MethodAt[4 * (h % \h2000)] = m
<1> DEFINE h == gpu_method_1(0, Offset[m])
<1>1. PICK q \in Nat : q < \h2000 /\ Offset[m] = 4 * q
  <2>1. Offset[m] \in Nat /\ Offset[m] < 4 * \h2000 /\ Offset[m] % 4 = 0
    BY OffsetsKnown
  <2> DEFINE o == Offset[m]
  <2>2. o \in Nat /\ o < 4 * \h2000 /\ o % 4 = 0
    BY <2>1
  <2> HIDE DEF o
  <2>3. o \div 4 \in Nat /\ o \div 4 < \h2000 /\ o = 4 * (o \div 4)
    BY <2>2
  <2> QED BY <2>3 DEF o
<1>2. h = \h2000 * \h8008 + q
  BY <1>1, SMT DEF gpu_method_1, gpu_method_incr
<1>3. h \in Nat /\ h % \h2000 = q /\ h \div \h2000 = \h8008
  BY <1>1, <1>2, SMT
<1>4. (\h10000000 + \h10000) \div \h2000 = \h8008
  BY SMT
<1> HIDE DEF h
<1>5. Offset[m] \in {Offset[n] : n \in Methods}
  OBVIOUS
<1>6. MethodAt[Offset[m]] = m
  <2>1. MethodAt[Offset[m]] = CHOOSE n \in Methods : Offset[n] = Offset[m]
    BY <1>5 DEF MethodAt
  <2> QED BY <2>1, OffsetsKnown
<1>7. Offset[m] \in DOMAIN MethodAt
  BY <1>5 DEF MethodAt
<1>8. 4 * (h % \h2000) = Offset[m]
  BY <1>1, <1>3
<1> QED BY <1>3, <1>4, <1>6, <1>7, <1>8, SMT DEF h, Known

-----------------------------------------------------------------------------
(* What build_dispatch_commands is given, and what it makes of it: the     *)
(* methods of Order, with those of the constant buffers after the fourth.  *)
Triples  == Nat \X Nat \X Nat
Bindings == [slot : Slots, size : 0 .. SizeSpan - 1]
ShaderRecords == [va : Nat, entry_offset : Nat, shared_mem_size : Nat]
Kernels  == [shader : ShaderRecords, block : Triples, grid : Triples, buffers : Seq(Bindings)]
Pairs    == Methods \X Nat

OneFence(f) == f = {} \/ \E x \in Fences : f = {x}

Order == <<"SET_PROGRAM_REGION_A", "SET_PROGRAM_REGION_B", "SET_SHADER_PROGRAM",
           "SET_SHARED_MEMORY_SIZE", "SET_BLOCK_DIM_X", "SET_BLOCK_DIM_Y", "SET_BLOCK_DIM_Z",
           "LAUNCH_DIM_X", "LAUNCH_DIM_Y", "LAUNCH_DIM_Z", "LAUNCH", "SET_REPORT_SEMAPHORE_A",
           "SET_REPORT_SEMAPHORE_B", "SET_REPORT_SEMAPHORE_C", "SET_REPORT_SEMAPHORE_D">>

(* The fifteen methods besides those of the buffers are all different.     *)
LEMMA OrderFacts ==
  /\ \A i \in 1 .. 15 : Order[i] \in Methods
  /\ \A i \in 1 .. 15 : Order[i] \notin {"SET_OBJECT", "CB_SELECTOR", "SET_CONSTANT_BUFFER_BIND"}
  /\ \A i, j \in 1 .. 15 : Order[i] = Order[j] => i = j
<1>1. \A i \in 1 .. 15 : Order[i] \in Methods
  BY MethodNames DEF Order
<1>2. \A i \in 1 .. 15 : Order[i] \notin {"SET_OBJECT", "CB_SELECTOR", "SET_CONSTANT_BUFFER_BIND"}
  BY DEF Order
<1>3. \A i, j \in 1 .. 15 : Order[i] = Order[j] => i = j
  BY DEF Order
<1> QED BY <1>1, <1>2, <1>3

(* What the record of a bound buffer holds.                                *)
LEMMA BindingFacts ==
  ASSUME NEW x \in Bindings
  PROVE  x.slot \in Slots /\ x.size \in Nat /\ x.size < SizeSpan
<1>1. SizeSpan \in Nat
  BY DispatchConstants
<1> QED BY <1>1 DEF Bindings

(* Slots are numbers, and every job's buffers are bindings.                *)
LEMMA SlotsAreNumbers == Slots \subseteq Nat /\ \A j \in Jobs : j.buffers \in Seq(Bindings)
<1> DEFINE S == 0 .. SizeSpan - 1
           B == [slot : Nat, size : S]
<1>1. \A j \in Jobs : j.buffers \in Seq(B)
  BY DispatchAssumption
<1> HIDE DEF S
<1>2. \A x \in B : x.slot \in Nat /\ x.size \in S /\ x = [slot |-> x.slot, size |-> x.size]
  OBVIOUS
<1> HIDE DEF B
<1>3. ASSUME NEW j \in Jobs
      PROVE /\ DOMAIN j.buffers = 1 .. Len(j.buffers)
            /\ \A i \in 1 .. Len(j.buffers) : j.buffers[i] \in B
  BY <1>1
<1>4. Slots \subseteq Nat
  <2> SUFFICES ASSUME NEW s \in Slots PROVE s \in Nat
    OBVIOUS
  <2>1. PICK j \in Jobs : s \in {j.buffers[i].slot : i \in DOMAIN j.buffers}
    BY DEF Slots
  <2>2. PICK i \in DOMAIN j.buffers : s = j.buffers[i].slot
    BY <2>1
  <2> QED BY <1>2, <1>3, <2>2
<1>5. ASSUME NEW j \in Jobs PROVE j.buffers \in Seq(Bindings)
  <2>1. \A i \in 1 .. Len(j.buffers) : j.buffers[i].slot \in Slots
    BY <1>3 DEF Slots
  <2>2. ASSUME NEW i \in 1 .. Len(j.buffers) PROVE j.buffers[i] \in Bindings
    <3> DEFINE x == j.buffers[i]
    <3>1. x \in B /\ x.slot \in Slots
      BY <1>3, <2>1
    <3> HIDE DEF x
    <3>2. x \in Bindings
      BY <1>2, <3>1 DEF Bindings, S
    <3> QED BY <3>2 DEF x
  <2>3. j.buffers \in Seq(B)
    BY <1>1
  <2> QED BY <2>2, <2>3
<1> QED BY <1>4, <1>5

(* An address of two words is what its halves say.                         *)
LEMMA HalvesFacts ==
  ASSUME NEW va \in Nat
  PROVE  /\ High(va) \in Nat /\ Low(va) \in Nat
         /\ va < Word32 * Word32 => High(va) * Word32 + Low(va) = va
<1> DEFINE w == Word32
           q == va \div w
<1>1. w \in Nat \ {0}
  BY DispatchConstants
<1>2. q \in Nat /\ va = w * q + (va % w) /\ va % w \in Nat
  BY <1>1, DivFacts, ModFacts
<1> HIDE DEF q
<1>3. q % w \in Nat
  BY <1>1, <1>2
<1>4. ASSUME va < w * w PROVE q % w = q
  <2>1. ASSUME q >= w PROVE FALSE
    <3>1. w * w <= w * q
      BY <1>1, <1>2, <2>1, ProductAtMost
    <3>2. w * q \in Nat /\ w * w \in Nat
      BY <1>1, <1>2
    <3> QED BY <1>2, <1>4, <3>1, <3>2
  <2> QED BY <1>1, <1>2, <2>1
<1>5. q * w = w * q
  BY <1>1, <1>2
<1> QED BY <1>2, <1>3, <1>4, <1>5 DEF High, Low, q

FixedLen(f) == IF f = {} THEN 11 ELSE 15

(* A fence holds an address and a value.                                   *)
LEMMA FenceFacts ==
  ASSUME NEW x \in Fences
  PROVE  x.va \in Nat /\ x.value \in Nat
<1>1. Word32 \in Nat
  BY DispatchConstants
<1> QED BY <1>1 DEF Fences

(* The release of a kernel with a fence is that fence's semaphore.         *)
LEMMA ReleaseFacts ==
  ASSUME NEW x
  PROVE  {x} # {} /\ Release({x}) = Semaphore(x)
BY Zenon DEF Release

(* The pieces of a kernel's commands, and their lengths.                   *)
LEMMA PiecesFacts ==
  ASSUME NEW k \in Kernels, NEW f, OneFence(f)
  PROVE  /\ Program(k) \in Seq(Pairs) /\ Len(Program(k)) = 4
         /\ Dimensions(k) \in Seq(Pairs) /\ Len(Dimensions(k)) = 6
         /\ << <<"LAUNCH", 0>> >> \in Seq(Pairs) /\ Len(<< <<"LAUNCH", 0>> >>) = 1
         /\ Release(f) \in Seq(Pairs) /\ Len(Release(f)) = FixedLen(f) - 11
         /\ ConstBuffers(k) \in Seq(Pairs) /\ Len(ConstBuffers(k)) = 2 * Len(k.buffers)
         /\ Len(k.buffers) \in Nat
<1>1. /\ k.shader \in ShaderRecords /\ k.block \in Triples /\ k.grid \in Triples
      /\ k.buffers \in Seq(Bindings) /\ Len(k.buffers) \in Nat
  BY DEF Kernels
<1>2. Program(k) \in Seq(Pairs) /\ Len(Program(k)) = 4
  <2>1. /\ High(k.shader.va) \in Nat /\ Low(k.shader.va) \in Nat
        /\ k.shader.entry_offset \in Nat /\ k.shader.shared_mem_size \in Nat
    BY <1>1, HalvesFacts DEF ShaderRecords
  <2> QED BY <2>1, MethodNames DEF Program, Pairs
<1>3. Dimensions(k) \in Seq(Pairs) /\ Len(Dimensions(k)) = 6
  <2>1. /\ k.block[1] \in Nat /\ k.block[2] \in Nat /\ k.block[3] \in Nat
        /\ k.grid[1] \in Nat /\ k.grid[2] \in Nat /\ k.grid[3] \in Nat
    BY <1>1 DEF Triples
  <2> QED BY <2>1, MethodNames DEF Dimensions, Pairs
<1>4. << <<"LAUNCH", 0>> >> \in Seq(Pairs) /\ Len(<< <<"LAUNCH", 0>> >>) = 1
  BY MethodNames DEF Pairs
<1>5. Release(f) \in Seq(Pairs) /\ Len(Release(f)) = FixedLen(f) - 11
  <2>1. CASE f = {}
    BY <2>1 DEF Release, FixedLen
  <2>2. ASSUME NEW x \in Fences, f = {x} PROVE Release(f) \in Seq(Pairs) /\ Len(Release(f)) = 4 /\ f # {}
    <3>1. f # {} /\ Release(f) = Semaphore(x)
      BY <2>2, ReleaseFacts
    <3>2. High(x.va) \in Nat /\ Low(x.va) \in Nat /\ x.value \in Nat
      BY FenceFacts, HalvesFacts
    <3>3. Semaphore(x) \in Seq(Pairs) /\ Len(Semaphore(x)) = 4
      BY <3>2, MethodNames, SMT DEF Pairs, Semaphore
    <3> QED BY <3>1, <3>3
  <2>3. CASE \E x \in Fences : f = {x}
    <3>1. Release(f) \in Seq(Pairs) /\ Len(Release(f)) = 4 /\ f # {}
      BY <2>2, <2>3
    <3> QED BY <3>1 DEF FixedLen
  <2> QED BY <2>1, <2>3 DEF OneFence
<1>6. ConstBuffers(k) \in Seq(Pairs) /\ Len(ConstBuffers(k)) = 2 * Len(k.buffers)
  <2> DEFINE b == Len(k.buffers)
  <2>1. ASSUME NEW i \in 1 .. 2 * b
        PROVE  LET cb == k.buffers[(i + 1) \div 2]
               IN /\ <<"CB_SELECTOR", cb.slot>> \in Pairs
                  /\ <<"SET_CONSTANT_BUFFER_BIND", Binding(cb.size)>> \in Pairs
    <3> DEFINE cb == k.buffers[(i + 1) \div 2]
    <3>1. (i + 1) \div 2 \in 1 .. b
      BY <1>1
    <3>2. cb \in Bindings
      BY <1>1, <3>1
    <3> HIDE DEF cb
    <3>3. cb.slot \in Nat /\ cb.size \in Nat
      BY <3>2, BindingFacts, SlotsAreNumbers
    <3>4. Binding(cb.size) \in Nat
      <4>1. cb.size % SizeSpan \in Nat
        <5>1. SizeSpan \in Nat \ {0}
          BY DispatchConstants
        <5>2. cb.size % SizeSpan \in 0 .. SizeSpan - 1
          BY <3>3, <5>1, ModFacts
        <5> QED BY <5>1, <5>2
      <4> QED BY <4>1 DEF Binding
    <3>5. <<"CB_SELECTOR", cb.slot>> \in Pairs /\ <<"SET_CONSTANT_BUFFER_BIND", Binding(cb.size)>> \in Pairs
      BY <3>3, <3>4, MethodNames DEF Pairs
    <3> QED BY <3>5 DEF cb
  <2>2. ConstBuffers(k) \in [1 .. 2 * b -> Pairs]
    BY <2>1 DEF ConstBuffers
  <2>3. 2 * b \in Nat
    BY <1>1
  <2> HIDE DEF b
  <2> QED BY <2>2, <2>3 DEF b
<1> QED BY <1>1, <1>2, <1>3, <1>4, <1>5, <1>6

-----------------------------------------------------------------------------
(* Where the commands of a kernel stand in what is submitted for it: the   *)
(* method Order[i] at Place(k, i), the constant buffer t at 3 + 2 * t.     *)
Place(k, i) == IF i <= 4 THEN i ELSE i + 2 * Len(k.buffers)

(* Where the elements of a concatenation come from: commands.              *)
LEMMA ConcatFacts ==
  ASSUME NEW a \in Seq(Pairs), NEW b \in Seq(Pairs)
  PROVE  /\ a \o b \in Seq(Pairs) /\ Len(a \o b) = Len(a) + Len(b)
         /\ \A i \in 1 .. Len(a) : (a \o b)[i] = a[i]
         /\ \A i \in 1 .. Len(b) : (a \o b)[Len(a) + i] = b[i]
OBVIOUS

(* Where each piece stands among the commands of a kernel.                 *)
LEMMA BlockParts ==
  ASSUME NEW k \in Kernels, NEW f, OneFence(f)
  PROVE  LET c == Commands(k, f)
             b == Len(k.buffers)
         IN /\ c \in Seq(Pairs) /\ Len(c) = FixedLen(f) + 2 * b
            /\ \A i \in 1 .. 4 : c[i] = Program(k)[i]
            /\ \A i \in 1 .. 2 * b : c[4 + i] = ConstBuffers(k)[i]
            /\ \A i \in 1 .. 6 : c[4 + 2 * b + i] = Dimensions(k)[i]
            /\ c[11 + 2 * b] = <<"LAUNCH", 0>>
            /\ \A i \in 1 .. FixedLen(f) - 11 : c[11 + 2 * b + i] = Release(f)[i]
<1> DEFINE P == Program(k)
           B == ConstBuffers(k)
           D == Dimensions(k)
           L == << <<"LAUNCH", 0>> >>
           R == Release(f)
           b == Len(k.buffers)
<1>1. /\ P \in Seq(Pairs) /\ Len(P) = 4 /\ D \in Seq(Pairs) /\ Len(D) = 6
      /\ L \in Seq(Pairs) /\ Len(L) = 1 /\ R \in Seq(Pairs) /\ Len(R) = FixedLen(f) - 11
      /\ B \in Seq(Pairs) /\ Len(B) = 2 * b /\ b \in Nat
  BY PiecesFacts
<1>2. Commands(k, f) = P \o B \o D \o L \o R
  BY DEF Commands
<1>3. L[1] = <<"LAUNCH", 0>>
  OBVIOUS
<1>4. FixedLen(f) \in {11, 15}
  BY DEF FixedLen
<1> HIDE DEF P, B, D, L, R, b
<1> DEFINE PB == P \o B
           PBD == PB \o D
           PBDL == PBD \o L
           c == PBDL \o R
<1>5. /\ PB \in Seq(Pairs) /\ Len(PB) = 4 + 2 * b
      /\ \A i \in 1 .. 4 : PB[i] = P[i]
      /\ \A i \in 1 .. 2 * b : PB[4 + i] = B[i]
  <2>1. /\ PB \in Seq(Pairs) /\ Len(PB) = Len(P) + Len(B)
        /\ \A i \in 1 .. Len(P) : PB[i] = P[i]
        /\ \A i \in 1 .. Len(B) : PB[Len(P) + i] = B[i]
    BY <1>1, ConcatFacts
  <2> HIDE DEF PB
  <2> QED BY <1>1, <2>1
<1> HIDE DEF PB
<1>6. /\ PBD \in Seq(Pairs) /\ Len(PBD) = 10 + 2 * b
      /\ \A i \in 1 .. 4 + 2 * b : PBD[i] = PB[i]
      /\ \A i \in 1 .. 6 : PBD[4 + 2 * b + i] = D[i]
  <2>1. /\ PBD \in Seq(Pairs) /\ Len(PBD) = Len(PB) + Len(D)
        /\ \A i \in 1 .. Len(PB) : PBD[i] = PB[i]
        /\ \A i \in 1 .. Len(D) : PBD[Len(PB) + i] = D[i]
    BY <1>1, <1>5, ConcatFacts
  <2> HIDE DEF PBD
  <2> QED BY <1>1, <1>5, <2>1
<1> HIDE DEF PBD
<1>7. /\ PBDL \in Seq(Pairs) /\ Len(PBDL) = 11 + 2 * b
      /\ \A i \in 1 .. 10 + 2 * b : PBDL[i] = PBD[i]
      /\ PBDL[11 + 2 * b] = <<"LAUNCH", 0>>
  <2>1. /\ PBDL \in Seq(Pairs) /\ Len(PBDL) = Len(PBD) + Len(L)
        /\ \A i \in 1 .. Len(PBD) : PBDL[i] = PBD[i]
        /\ \A i \in 1 .. Len(L) : PBDL[Len(PBD) + i] = L[i]
    BY <1>1, <1>6, ConcatFacts
  <2> HIDE DEF PBDL
  <2>2. PBDL[Len(PBD) + 1] = L[1] /\ Len(PBD) + 1 = 11 + 2 * b
    BY <1>1, <1>6, <2>1
  <2> QED BY <1>3, <2>2, <1>1, <1>6, <2>1
<1> HIDE DEF PBDL
<1>8. /\ c \in Seq(Pairs) /\ Len(c) = FixedLen(f) + 2 * b
      /\ \A i \in 1 .. 11 + 2 * b : c[i] = PBDL[i]
      /\ \A i \in 1 .. FixedLen(f) - 11 : c[11 + 2 * b + i] = R[i]
  <2>1. /\ c \in Seq(Pairs) /\ Len(c) = Len(PBDL) + Len(R)
        /\ \A i \in 1 .. Len(PBDL) : c[i] = PBDL[i]
        /\ \A i \in 1 .. Len(R) : c[Len(PBDL) + i] = R[i]
    BY <1>1, <1>7, ConcatFacts
  <2> HIDE DEF c
  <2> QED BY <1>1, <1>4, <1>7, <2>1
<1>9. c = Commands(k, f)
  BY <1>2 DEF c, PBDL, PBD, PB
<1> HIDE DEF c
<1>10. \A i \in 1 .. 4 : c[i] = P[i]
  <2> SUFFICES ASSUME NEW i \in 1 .. 4 PROVE c[i] = P[i]
    OBVIOUS
  <2>1. i \in 1 .. 4 + 2 * b /\ i \in 1 .. 10 + 2 * b /\ i \in 1 .. 11 + 2 * b
    BY <1>1
  <2> QED BY <1>5, <1>6, <1>7, <1>8, <2>1
<1>11. \A i \in 1 .. 2 * b : c[4 + i] = B[i]
  <2> SUFFICES ASSUME NEW i \in 1 .. 2 * b PROVE c[4 + i] = B[i]
    OBVIOUS
  <2> DEFINE q == 4 + i
  <2>1. q \in 1 .. 4 + 2 * b /\ q \in 1 .. 10 + 2 * b /\ q \in 1 .. 11 + 2 * b
    BY <1>1
  <2>2. PB[q] = B[i]
    BY <1>5
  <2> HIDE DEF q
  <2>3. c[q] = PBDL[q] /\ PBDL[q] = PBD[q] /\ PBD[q] = PB[q]
    BY <1>6, <1>7, <1>8, <2>1
  <2>4. c[q] = B[i]
    BY <2>2, <2>3
  <2> QED BY <2>4 DEF q
<1>12. \A i \in 1 .. 6 : c[4 + 2 * b + i] = D[i]
  <2> SUFFICES ASSUME NEW i \in 1 .. 6 PROVE c[4 + 2 * b + i] = D[i]
    OBVIOUS
  <2>1. 4 + 2 * b + i \in 1 .. 10 + 2 * b /\ 4 + 2 * b + i \in 1 .. 11 + 2 * b
    BY <1>1
  <2> QED BY <1>6, <1>7, <1>8, <2>1
<1>13. c[11 + 2 * b] = <<"LAUNCH", 0>>
  <2>1. 11 + 2 * b \in 1 .. 11 + 2 * b
    BY <1>1
  <2> QED BY <1>7, <1>8, <2>1
<1> QED BY <1>8, <1>9, <1>10, <1>11, <1>12, <1>13 DEF P, B, D, R, b

(* Which methods the pieces consist of.                                    *)
LEMMA PartMethods ==
  ASSUME NEW k \in Kernels, NEW f, OneFence(f)
  PROVE  /\ \A i \in 1 .. 4 : Program(k)[i][1] = Order[i]
         /\ \A i \in 1 .. 6 : Dimensions(k)[i][1] = Order[4 + i]
         /\ \A i \in 1 .. FixedLen(f) - 11 : Release(f)[i][1] = Order[11 + i]
         /\ \A t \in 1 .. Len(k.buffers) :
              /\ ConstBuffers(k)[2 * t - 1] = <<"CB_SELECTOR", k.buffers[t].slot>>
              /\ ConstBuffers(k)[2 * t] =
                   <<"SET_CONSTANT_BUFFER_BIND", Binding(k.buffers[t].size)>>
<1>1. \A i \in 1 .. 4 : Program(k)[i][1] = Order[i]
  BY DEF Program, Order
<1>2. \A i \in 1 .. 6 : Dimensions(k)[i][1] = Order[4 + i]
  BY DEF Dimensions, Order
<1>3. \A i \in 1 .. FixedLen(f) - 11 : Release(f)[i][1] = Order[11 + i]
  <2>1. CASE f = {}
    BY <2>1 DEF FixedLen
  <2>2. ASSUME NEW x \in Fences, f = {x}
        PROVE  \A i \in 1 .. FixedLen(f) - 11 : Release(f)[i][1] = Order[11 + i]
    <3>1. FixedLen(f) - 11 = 4 /\ Release(f) = Semaphore(x)
      BY <2>2, ReleaseFacts DEF FixedLen
    <3>2. \A i \in 1 .. 4 : Semaphore(x)[i][1] = Order[11 + i]
      BY SMT DEF Semaphore, Order
    <3> QED BY <3>1, <3>2
  <2> QED BY <2>1, <2>2 DEF OneFence
<1>4. ASSUME NEW t \in 1 .. Len(k.buffers)
      PROVE  /\ ConstBuffers(k)[2 * t - 1] = <<"CB_SELECTOR", k.buffers[t].slot>>
             /\ ConstBuffers(k)[2 * t] =
                  <<"SET_CONSTANT_BUFFER_BIND", Binding(k.buffers[t].size)>>
  <2> DEFINE b == Len(k.buffers)
             u == 2 * t - 1
             w == 2 * t
  <2>1. b \in Nat /\ t \in 1 .. b
    BY PiecesFacts
  <2>2. /\ u \in 1 .. 2 * b /\ u % 2 = 1 /\ (u + 1) \div 2 = t
        /\ w \in 1 .. 2 * b /\ w % 2 # 1 /\ (w + 1) \div 2 = t
    BY <2>1
  <2> HIDE DEF u, w
  <2>3. /\ ConstBuffers(k)[u] = <<"CB_SELECTOR", k.buffers[t].slot>>
        /\ ConstBuffers(k)[w] = <<"SET_CONSTANT_BUFFER_BIND", Binding(k.buffers[t].size)>>
    BY <2>2 DEF ConstBuffers
  <2> QED BY <2>3 DEF u, w
<1> QED BY <1>1, <1>2, <1>3, <1>4

(* Which method stands where among the commands of a kernel.               *)
LEMMA BlockMethods ==
  ASSUME NEW k \in Kernels, NEW f, OneFence(f)
  PROVE  LET c == Commands(k, f)
             b == Len(k.buffers)
         IN /\ \A i \in 1 .. FixedLen(f) : Place(k, i) \in 1 .. Len(c) /\ c[Place(k, i)][1] = Order[i]
            /\ \A t \in 1 .. b :
                 /\ 4 + 2 * t <= Len(c)
                 /\ c[3 + 2 * t] = <<"CB_SELECTOR", k.buffers[t].slot>>
                 /\ c[4 + 2 * t] = <<"SET_CONSTANT_BUFFER_BIND", Binding(k.buffers[t].size)>>
            /\ \A p \in 1 .. Len(c) :
                 \/ \E i \in 1 .. FixedLen(f) : p = Place(k, i)
                 \/ \E t \in 1 .. b : p = 3 + 2 * t \/ p = 4 + 2 * t
<1> DEFINE c == Commands(k, f)
           b == Len(k.buffers)
<1>1. b \in Nat
  BY PiecesFacts
<1>2. FixedLen(f) \in {11, 15}
  BY DEF FixedLen
<1>3. \A i \in Nat : Place(k, i) = IF i <= 4 THEN i ELSE i + 2 * b
  BY DEF Place
<1>4. /\ Len(c) = FixedLen(f) + 2 * b
      /\ \A i \in 1 .. 4 : c[i] = Program(k)[i]
      /\ \A i \in 1 .. 2 * b : c[4 + i] = ConstBuffers(k)[i]
      /\ \A i \in 1 .. 6 : c[4 + 2 * b + i] = Dimensions(k)[i]
      /\ c[11 + 2 * b] = <<"LAUNCH", 0>>
      /\ \A i \in 1 .. FixedLen(f) - 11 : c[11 + 2 * b + i] = Release(f)[i]
  BY BlockParts
<1>5. \A t \in 1 .. b :
        /\ ConstBuffers(k)[2 * t - 1] = <<"CB_SELECTOR", k.buffers[t].slot>>
        /\ ConstBuffers(k)[2 * t] =
             <<"SET_CONSTANT_BUFFER_BIND", Binding(k.buffers[t].size)>>
  BY PartMethods
<1> HIDE DEF c, b
<1>6. ASSUME NEW i \in 1 .. FixedLen(f)
      PROVE  Place(k, i) \in 1 .. Len(c) /\ c[Place(k, i)][1] = Order[i]
  <2>1. Place(k, i) \in 1 .. Len(c)
    <3>1. i \in Nat /\ i >= 1 /\ i <= FixedLen(f)
      BY <1>2
    <3>2. Place(k, i) = i \/ Place(k, i) = i + 2 * b
      BY <1>3, <3>1
    <3>3. Place(k, i) \in Nat /\ 1 <= Place(k, i) /\ Place(k, i) <= FixedLen(f) + 2 * b
      BY <1>1, <1>2, <3>1, <3>2
    <3>4. Len(c) = FixedLen(f) + 2 * b /\ Len(c) \in Nat
      BY <1>1, <1>2, <1>4
    <3> QED BY <3>3, <3>4
  <2>2. CASE i <= 4
    <3>1. i \in 1 .. 4 /\ Place(k, i) = i
      BY <2>2, <1>3
    <3> QED BY <1>4, <2>1, <3>1, PartMethods
  <2>3. CASE i > 4 /\ i <= 10
    <3> DEFINE j == i - 4
    <3>1. j \in 1 .. 6 /\ Place(k, i) = 4 + 2 * b + j /\ i = 4 + j
      BY <1>1, <1>3, <2>3
    <3> HIDE DEF j
    <3>2. c[4 + 2 * b + j] = Dimensions(k)[j] /\ Dimensions(k)[j][1] = Order[4 + j]
      BY <1>4, <3>1, PartMethods
    <3> QED BY <2>1, <3>1, <3>2
  <2>4. CASE i = 11
    <3>1. Place(k, i) = 11 + 2 * b /\ Order[11] = "LAUNCH"
      BY <1>1, <1>3, <2>4 DEF Order
    <3> QED BY <1>4, <2>1, <2>4, <3>1
  <2>5. CASE i > 11
    <3> DEFINE j == i - 11
    <3>1. j \in 1 .. FixedLen(f) - 11 /\ Place(k, i) = 11 + 2 * b + j /\ i = 11 + j
      BY <1>1, <1>2, <1>3, <2>5
    <3> HIDE DEF j
    <3>2. c[11 + 2 * b + j][1] = Order[11 + j]
      BY <1>4, <3>1, PartMethods
    <3> QED BY <2>1, <3>1, <3>2
  <2> QED BY <1>2, <2>2, <2>3, <2>4, <2>5
<1>7. ASSUME NEW t \in 1 .. b
      PROVE  /\ 4 + 2 * t <= Len(c)
             /\ c[3 + 2 * t] = <<"CB_SELECTOR", k.buffers[t].slot>>
             /\ c[4 + 2 * t] = <<"SET_CONSTANT_BUFFER_BIND", Binding(k.buffers[t].size)>>
  <2> DEFINE u == 2 * t - 1
             w == 2 * t
  <2>1. u \in 1 .. 2 * b /\ w \in 1 .. 2 * b /\ 3 + 2 * t = 4 + u /\ 4 + 2 * t = 4 + w
    BY <1>1
  <2>2. /\ ConstBuffers(k)[u] = <<"CB_SELECTOR", k.buffers[t].slot>>
        /\ ConstBuffers(k)[w] = <<"SET_CONSTANT_BUFFER_BIND", Binding(k.buffers[t].size)>>
    BY <1>5
  <2>3. 4 + 2 * t <= Len(c)
    BY <1>1, <1>2, <1>4
  <2> HIDE DEF u, w
  <2>4. c[4 + u] = ConstBuffers(k)[u] /\ c[4 + w] = ConstBuffers(k)[w]
    BY <1>4, <2>1
  <2> QED BY <2>1, <2>2, <2>3, <2>4
<1>8. ASSUME NEW p \in 1 .. Len(c)
      PROVE  \/ \E i \in 1 .. FixedLen(f) : p = Place(k, i)
             \/ \E t \in 1 .. b : p = 3 + 2 * t \/ p = 4 + 2 * t
  <2>1. CASE p <= 4
    <3>1. p \in 1 .. FixedLen(f) /\ p = Place(k, p)
      BY <1>2, <1>3, <2>1
    <3> QED BY <3>1
  <2>2. CASE p > 4 /\ p <= 4 + 2 * b
    <3>1. (p - 3) \div 2 \in 1 .. b /\ (p = 3 + 2 * ((p - 3) \div 2) \/ p = 4 + 2 * ((p - 3) \div 2))
      BY <1>1, <2>2
    <3> QED BY <3>1
  <2>3. CASE p > 4 + 2 * b
    <3> DEFINE i == p - 2 * b
    <3>1. i \in 1 .. FixedLen(f) /\ i \in Nat /\ ~ (i <= 4) /\ p = i + 2 * b
      BY <1>1, <1>2, <1>4, <2>3
    <3> HIDE DEF i
    <3>2. p = Place(k, i)
      BY <1>3, <3>1
    <3> QED BY <3>1, <3>2
  <2> QED BY <1>1, <2>1, <2>2, <2>3
<1> QED BY <1>6, <1>7, <1>8 DEF c, b

-----------------------------------------------------------------------------
(* The first p of the commands c leave v in the register m, and bind slot  *)
(* s to v.                                                                 *)
Holds(c, p, m, v) ==
  \E q \in 1 .. p : c[q][1] = m /\ c[q][2] = v /\ \A r \in q + 1 .. p : c[r][1] # m

Binds(c, p, s, v) ==
  \E q \in 1 .. p - 1 :
    /\ c[q] = <<"CB_SELECTOR", s>> /\ c[q + 1] = <<"SET_CONSTANT_BUFFER_BIND", v>>
    /\ \A r \in q + 2 .. p : c[r] # <<"CB_SELECTOR", s>>

(* A kernel that asks for two buffers in one slot gets the second only.    *)
Distinct(b) == \A s, t \in DOMAIN b : s # t => b[s].slot # b[t].slot

OneBufferPerSlot == \A j \in Jobs : Distinct(j.buffers)

(* They prepare the launch of an accepted kernel, but for its class.       *)
Prepares(c, p, a) ==
  /\ Holds(c, p, "SET_PROGRAM_REGION_A", High(a.program.va))
  /\ Holds(c, p, "SET_PROGRAM_REGION_B", Low(a.program.va))
  /\ Holds(c, p, "SET_SHADER_PROGRAM", a.program.entry_offset)
  /\ Holds(c, p, "SET_SHARED_MEMORY_SIZE", a.program.shared_mem_size)
  /\ Holds(c, p, "SET_BLOCK_DIM_X", a.block[1]) /\ Holds(c, p, "SET_BLOCK_DIM_Y", a.block[2])
  /\ Holds(c, p, "SET_BLOCK_DIM_Z", a.block[3])
  /\ Holds(c, p, "LAUNCH_DIM_X", a.grid[1]) /\ Holds(c, p, "LAUNCH_DIM_Y", a.grid[2])
  /\ Holds(c, p, "LAUNCH_DIM_Z", a.grid[3])
  /\ OneBufferPerSlot => \A x \in a.buffers : Binds(c, p, x.slot, Binding(x.size))

(* They prepare the release of the fence in f.                             *)
Releases(c, p, f) ==
  \E x \in Fences :
    /\ f = {x}
    /\ Holds(c, p, "SET_REPORT_SEMAPHORE_A", High(x.va))
    /\ Holds(c, p, "SET_REPORT_SEMAPHORE_B", Low(x.va))
    /\ Holds(c, p, "SET_REPORT_SEMAPHORE_C", x.value)

(* Every method of Order has a place of its own.                           *)
LEMMA PlaceFacts ==
  ASSUME NEW k \in Kernels
  PROVE  /\ \A i, j \in Nat : Place(k, i) = Place(k, j) => i = j
         /\ \A i \in Nat : Place(k, i) \in Nat
         /\ \A i \in 1 .. 4 : Place(k, i) = i
         /\ \A i \in 5 .. 15 : Place(k, i) = i + 2 * Len(k.buffers)
<1>1. Len(k.buffers) \in Nat
  BY PiecesFacts, Zenon DEF OneFence
<1> QED BY <1>1 DEF Place

(* Within a kernel's commands a method's register keeps what was written.  *)
LEMMA BlockHolds ==
  ASSUME NEW k \in Kernels, NEW f, OneFence(f), NEW i \in 1 .. FixedLen(f),
         NEW p \in Place(k, i) .. Len(Commands(k, f))
  PROVE  Holds(Commands(k, f), p, Order[i], Commands(k, f)[Place(k, i)][2])
<1> DEFINE c == Commands(k, f)
           b == Len(k.buffers)
           q == Place(k, i)
<1>1. FixedLen(f) \in {11, 15} /\ i \in 1 .. 15 /\ i \in Nat
  BY DEF FixedLen
<1>2. Len(c) \in Nat
  BY BlockParts
<1>3. q \in 1 .. p /\ c[q][1] = Order[i] /\ p <= Len(c) /\ p \in Nat /\ q \in Nat
  BY <1>1, <1>2, BlockMethods
<1>4. ASSUME NEW r \in q + 1 .. p PROVE c[r][1] # Order[i]
  <2>1. r \in 1 .. Len(c) /\ r # q
    BY <1>2, <1>3
  <2>2. ASSUME NEW j \in 1 .. FixedLen(f), r = Place(k, j) PROVE c[r][1] # Order[i]
    <3>1. j \in 1 .. 15 /\ j \in Nat
      BY <1>1
    <3>2. j # i
      BY <2>1, <2>2
    <3>3. c[r][1] = Order[j]
      BY <2>2, BlockMethods
    <3> QED BY <1>1, <3>1, <3>2, <3>3, OrderFacts
  <2>3. ASSUME NEW t \in 1 .. b, r = 3 + 2 * t \/ r = 4 + 2 * t PROVE c[r][1] # Order[i]
    <3>1. c[r][1] \in {"CB_SELECTOR", "SET_CONSTANT_BUFFER_BIND"}
      <4>1. /\ c[3 + 2 * t] = <<"CB_SELECTOR", k.buffers[t].slot>>
            /\ c[4 + 2 * t] = <<"SET_CONSTANT_BUFFER_BIND", Binding(k.buffers[t].size)>>
        BY BlockMethods
      <4> QED BY <2>3, <4>1
    <3> QED BY <1>1, <3>1, OrderFacts
  <2> QED BY <2>1, <2>2, <2>3, BlockMethods
<1> QED BY <1>3, <1>4 DEF Holds

(* What build_dispatch_commands makes of a kernel and its fence.           *)
LEMMA BlockFacts ==
  ASSUME NEW k \in Kernels, NEW f, OneFence(f), OneBufferPerSlot => Distinct(k.buffers)
  PROVE  LET c == Commands(k, f)
             l == 11 + 2 * Len(k.buffers)
         IN /\ c \in Seq(Pairs) /\ l \in 1 .. Len(c)
            /\ \A p \in 1 .. Len(c) :
                 /\ c[p][1] = "LAUNCH" <=> p = l
                 /\ c[p][1] # "SET_OBJECT"
                 /\ c[p][1] = "CB_SELECTOR" => c[p][2] \in Slots
                 /\ c[p][1] = "SET_CONSTANT_BUFFER_BIND" => p > 1 /\ c[p - 1][1] = "CB_SELECTOR"
                 /\ c[p][1] = "SET_REPORT_SEMAPHORE_D" => l < p /\ Releases(c, p - 1, f)
            /\ Prepares(c, l - 1, Kernel(k, f))
<1> DEFINE c == Commands(k, f)
           b == Len(k.buffers)
           l == 11 + 2 * b
<1>1. /\ b \in Nat /\ c \in Seq(Pairs) /\ Len(c) = FixedLen(f) + 2 * b /\ k.buffers \in Seq(Bindings)
      /\ k.shader \in ShaderRecords /\ k.block \in Triples /\ k.grid \in Triples
  BY PiecesFacts, BlockParts DEF Kernels
<1>2. FixedLen(f) \in {11, 15}
  BY DEF FixedLen
<1>3. l \in 1 .. Len(c) /\ l = Place(k, 11)
  <2>1. l \in 1 .. Len(c)
    BY <1>1, <1>2
  <2>2. 11 \in 5 .. 15
    OBVIOUS
  <2> QED BY <2>1, <2>2, PlaceFacts
<1>4. ASSUME NEW p \in 1 .. Len(c), NEW t \in 1 .. b, p = 3 + 2 * t \/ p = 4 + 2 * t
      PROVE  /\ p # l
             /\ \/ c[p][1] = "CB_SELECTOR" /\ c[p][2] \in Slots
                \/ c[p][1] = "SET_CONSTANT_BUFFER_BIND" /\ p > 1 /\ c[p - 1][1] = "CB_SELECTOR"
  <2>1. /\ c[3 + 2 * t] = <<"CB_SELECTOR", k.buffers[t].slot>>
        /\ c[4 + 2 * t] = <<"SET_CONSTANT_BUFFER_BIND", Binding(k.buffers[t].size)>>
    BY BlockMethods
  <2>2. k.buffers[t].slot \in Slots
    <3>1. k.buffers[t] \in Bindings
      BY <1>1
    <3> QED BY <3>1, BindingFacts
  <2>3. p # l /\ t \in Nat
    BY <1>1, <1>4
  <2>4. CASE p = 3 + 2 * t
    <3>1. c[p] = <<"CB_SELECTOR", k.buffers[t].slot>>
      BY <2>1, <2>4, Zenon
    <3> QED BY <2>2, <2>3, <3>1
  <2>5. CASE p = 4 + 2 * t
    <3>1. p > 1 /\ p - 1 = 3 + 2 * t
      BY <2>3, <2>5
    <3> QED BY <2>1, <2>3, <2>5, <3>1
  <2> QED BY <1>4, <2>4, <2>5
<1>5. ASSUME NEW p \in 1 .. Len(c), NEW i \in 1 .. FixedLen(f), p = Place(k, i)
      PROVE  /\ c[p][1] = Order[i] /\ i \in 1 .. 15
             /\ p = l <=> i = 11
  <2>1. i \in 1 .. 15 /\ i \in Nat /\ 11 \in Nat
    BY <1>2
  <2>2. p = l <=> i = 11
    BY <1>3, <1>5, <2>1, PlaceFacts
  <2> QED BY <1>5, <2>1, <2>2, BlockMethods
<1>6. Order[11] = "LAUNCH" /\ Order[15] = "SET_REPORT_SEMAPHORE_D"
  BY DEF Order
<1>7. ASSUME NEW p \in 1 .. Len(c)
      PROVE  /\ c[p][1] = "LAUNCH" <=> p = l
             /\ c[p][1] # "SET_OBJECT"
             /\ c[p][1] = "CB_SELECTOR" => c[p][2] \in Slots
             /\ c[p][1] = "SET_CONSTANT_BUFFER_BIND" => p > 1 /\ c[p - 1][1] = "CB_SELECTOR"
             /\ c[p][1] = "SET_REPORT_SEMAPHORE_D" => p = Place(k, 15) /\ FixedLen(f) = 15
  <2>1. CASE \E t \in 1 .. b : p = 3 + 2 * t \/ p = 4 + 2 * t
    BY <1>4, <2>1
  <2>2. ASSUME NEW i \in 1 .. FixedLen(f), p = Place(k, i)
        PROVE  /\ c[p][1] = "LAUNCH" <=> p = l
               /\ c[p][1] \notin {"SET_OBJECT", "CB_SELECTOR", "SET_CONSTANT_BUFFER_BIND"}
               /\ c[p][1] = "SET_REPORT_SEMAPHORE_D" => p = Place(k, 15) /\ FixedLen(f) = 15
    <3>1. c[p][1] = Order[i] /\ i \in 1 .. 15 /\ (p = l <=> i = 11)
      BY <1>5, <2>2
    <3>2. Order[i] = "LAUNCH" <=> i = 11
      BY <1>6, <3>1, OrderFacts, SMTT(30)
    <3>3. Order[i] = "SET_REPORT_SEMAPHORE_D" => i = 15
      BY <1>6, <3>1, OrderFacts, SMTT(30)
    <3>4. i = 15 => FixedLen(f) = 15
      BY <1>2
    <3> QED BY <2>2, <3>1, <3>2, <3>3, <3>4, OrderFacts
  <2> QED BY <2>1, <2>2, BlockMethods
<1>8. ASSUME NEW i \in 1 .. FixedLen(f), NEW p \in Place(k, i) .. Len(c)
      PROVE  Holds(c, p, Order[i], c[Place(k, i)][2])
  BY BlockHolds
<1>9. Prepares(c, l - 1, Kernel(k, f))
  <2> DEFINE a == Kernel(k, f)
             p == l - 1
  <2>1. /\ a.program = k.shader /\ a.block = k.block /\ a.grid = k.grid
        /\ a.buffers = {k.buffers[t] : t \in DOMAIN k.buffers}
    BY DEF Kernel
  <2>2. /\ \A i \in 1 .. 4 : c[i] = Program(k)[i]
        /\ \A i \in 1 .. 6 : c[4 + 2 * b + i] = Dimensions(k)[i]
    BY BlockParts
  <2>3. p \in Nat /\ p = 10 + 2 * b /\ p <= Len(c) /\ Len(c) \in Nat
    BY <1>1, <1>2
  <2>4. ASSUME NEW i \in 1 .. 4 PROVE Holds(c, p, Order[i], Program(k)[i][2])
    <3>1. i \in 1 .. FixedLen(f) /\ p \in i .. Len(c)
      BY <1>1, <1>2, <2>3
    <3>2. Place(k, i) = i
      BY PlaceFacts
    <3> QED BY <1>8, <2>2, <3>1, <3>2
  <2>5. ASSUME NEW i \in 1 .. 6 PROVE Holds(c, p, Order[4 + i], Dimensions(k)[i][2])
    <3> DEFINE j == 4 + i
    <3>1. j \in 1 .. FixedLen(f) /\ j \in 5 .. 15
      BY <1>2
    <3>2. Place(k, j) = j + 2 * b
      BY <3>1, PlaceFacts
    <3>6. b \in Nat /\ i \in Nat /\ i <= 6 /\ j = 4 + i
      BY <1>1
    <3> HIDE DEF b, j
    <3>3. Place(k, j) = 4 + 2 * b + i /\ Place(k, j) \in Nat /\ Place(k, j) <= 10 + 2 * b
      BY <3>2, <3>6
    <3> USE DEF b, j
    <3>5. p \in Place(k, j) .. Len(c)
      BY <2>3, <3>3
    <3>4. Holds(c, p, Order[j], c[4 + 2 * b + i][2])
      BY <1>8, <3>1, <3>3, <3>5
    <3> QED BY <2>2, <3>4
  <2>6. /\ Program(k)[1][2] = High(k.shader.va) /\ Program(k)[2][2] = Low(k.shader.va)
        /\ Program(k)[3][2] = k.shader.entry_offset
        /\ Program(k)[4][2] = k.shader.shared_mem_size
        /\ Dimensions(k)[1][2] = k.block[1] /\ Dimensions(k)[2][2] = k.block[2]
        /\ Dimensions(k)[3][2] = k.block[3] /\ Dimensions(k)[4][2] = k.grid[1]
        /\ Dimensions(k)[5][2] = k.grid[2] /\ Dimensions(k)[6][2] = k.grid[3]
    BY DEF Program, Dimensions
  <2>7. /\ Order[1] = "SET_PROGRAM_REGION_A" /\ Order[2] = "SET_PROGRAM_REGION_B"
        /\ Order[3] = "SET_SHADER_PROGRAM" /\ Order[4] = "SET_SHARED_MEMORY_SIZE"
        /\ Order[4 + 1] = "SET_BLOCK_DIM_X" /\ Order[4 + 2] = "SET_BLOCK_DIM_Y"
        /\ Order[4 + 3] = "SET_BLOCK_DIM_Z" /\ Order[4 + 4] = "LAUNCH_DIM_X"
        /\ Order[4 + 5] = "LAUNCH_DIM_Y" /\ Order[4 + 6] = "LAUNCH_DIM_Z"
    BY DEF Order
  <2>8. ASSUME Distinct(k.buffers), NEW x \in a.buffers PROVE Binds(c, p, x.slot, Binding(x.size))
    <3>1. PICK t \in 1 .. b : x = k.buffers[t]
      BY <1>1, <2>1, <2>8
    <3> DEFINE q == 3 + 2 * t
    <3>2. /\ q \in 1 .. p - 1 /\ q + 1 = 4 + 2 * t /\ t \in Nat
      BY <1>1, <2>3
    <3>3. /\ c[q] = <<"CB_SELECTOR", x.slot>>
          /\ c[q + 1] = <<"SET_CONSTANT_BUFFER_BIND", Binding(x.size)>>
      BY <3>1, <3>2, BlockMethods
    <3>4. ASSUME NEW r \in q + 2 .. p, c[r] = <<"CB_SELECTOR", x.slot>> PROVE FALSE
      <4>1. r \in 1 .. Len(c) /\ c[r][1] = "CB_SELECTOR" /\ c[r][2] = x.slot
        BY <2>3, <3>2, <3>4
      <4>2. ~ \E i \in 1 .. FixedLen(f) : r = Place(k, i)
        BY <1>5, <4>1, OrderFacts
      <4>3. PICK u \in 1 .. b : r = 3 + 2 * u \/ r = 4 + 2 * u
        BY <4>1, <4>2, BlockMethods
      <4>4. /\ c[3 + 2 * u] = <<"CB_SELECTOR", k.buffers[u].slot>>
            /\ c[4 + 2 * u] = <<"SET_CONSTANT_BUFFER_BIND", Binding(k.buffers[u].size)>>
        BY BlockMethods
      <4>5. r = 3 + 2 * u /\ k.buffers[u].slot = x.slot
        BY <4>1, <4>3, <4>4
      <4>6. t \in Nat /\ u \in Nat /\ q + 2 = 5 + 2 * t
        BY <1>1
      <4> HIDE DEF q
      <4>7. r \in Nat /\ r >= 5 + 2 * t /\ t \in Nat /\ u \in Nat
        BY <4>6
      <4>8. u # t
        BY <4>5, <4>7
      <4>9. u # t /\ u \in DOMAIN k.buffers /\ t \in DOMAIN k.buffers
        BY <1>1, <4>8
      <4> QED BY <2>8, <3>1, <4>5, <4>9 DEF Distinct
    <3> QED BY <3>2, <3>3, <3>4 DEF Binds
  <2> HIDE DEF a, p
  <2>9. /\ Holds(c, p, "SET_PROGRAM_REGION_A", High(a.program.va))
        /\ Holds(c, p, "SET_PROGRAM_REGION_B", Low(a.program.va))
        /\ Holds(c, p, "SET_SHADER_PROGRAM", a.program.entry_offset)
        /\ Holds(c, p, "SET_SHARED_MEMORY_SIZE", a.program.shared_mem_size)
    BY <2>1, <2>4, <2>6, <2>7
  <2>10. /\ Holds(c, p, "SET_BLOCK_DIM_X", a.block[1]) /\ Holds(c, p, "SET_BLOCK_DIM_Y", a.block[2])
         /\ Holds(c, p, "SET_BLOCK_DIM_Z", a.block[3])
         /\ Holds(c, p, "LAUNCH_DIM_X", a.grid[1]) /\ Holds(c, p, "LAUNCH_DIM_Y", a.grid[2])
         /\ Holds(c, p, "LAUNCH_DIM_Z", a.grid[3])
    <3>1. /\ Holds(c, p, Order[4 + 1], Dimensions(k)[1][2])
          /\ Holds(c, p, Order[4 + 2], Dimensions(k)[2][2])
          /\ Holds(c, p, Order[4 + 3], Dimensions(k)[3][2])
          /\ Holds(c, p, Order[4 + 4], Dimensions(k)[4][2])
          /\ Holds(c, p, Order[4 + 5], Dimensions(k)[5][2])
          /\ Holds(c, p, Order[4 + 6], Dimensions(k)[6][2])
      BY <2>5
    <3> QED BY <2>1, <2>6, <2>7, <3>1, ZenonT(30)
  <2> QED BY <2>8, <2>9, <2>10 DEF Prepares, a, p
<1>10. ASSUME FixedLen(f) = 15, NEW p \in 1 .. Len(c), p = Place(k, 15)
       PROVE  l < p /\ Releases(c, p - 1, f)
  <2>1. PICK x \in Fences : f = {x}
    BY <1>10 DEF FixedLen, OneFence
  <2>2. Release(f) = Semaphore(x)
    BY <2>1, ReleaseFacts
  <2>3. \A i \in 1 .. 4 : c[11 + 2 * b + i] = Semaphore(x)[i]
    <3>1. \A i \in 1 .. FixedLen(f) - 11 : c[11 + 2 * b + i] = Release(f)[i]
      BY BlockParts
    <3>2. FixedLen(f) - 11 = 4
      BY <1>10
    <3> QED BY <2>2, <3>1, <3>2, Zenon
  <2>4. 15 \in 5 .. 15
    OBVIOUS
  <2>5. p = 15 + 2 * b
    BY <1>10, <2>4, PlaceFacts
  <2>6. ASSUME NEW i \in 1 .. 3 PROVE Holds(c, p - 1, Order[11 + i], Semaphore(x)[i][2])
    <3> DEFINE j == 11 + i
    <3>1. j \in 1 .. FixedLen(f) /\ j \in 5 .. 15
      BY <1>10
    <3>2. Place(k, j) = j + 2 * b
      BY <3>1, PlaceFacts
    <3>7. /\ b \in Nat /\ i \in Nat /\ i <= 3 /\ j = 11 + i
          /\ p \in Nat /\ Len(c) \in Nat /\ p <= Len(c)
      BY <1>1, <1>10
    <3> HIDE DEF b, j, c
    <3>3. Place(k, j) = 11 + 2 * b + i /\ p - 1 \in Place(k, j) .. Len(c)
      BY <2>5, <3>2, <3>7
    <3> USE DEF b, j, c
    <3>4. Holds(c, p - 1, Order[j], c[11 + 2 * b + i][2])
      BY <1>8, <3>1, <3>3
    <3>5. i \in 1 .. 4
      OBVIOUS
    <3>6. c[11 + 2 * b + i] = Semaphore(x)[i]
      BY <2>3, <3>5, Zenon
    <3> QED BY <3>4, <3>6, Zenon
  <2>7. /\ Semaphore(x)[1][2] = High(x.va) /\ Semaphore(x)[2][2] = Low(x.va)
        /\ Semaphore(x)[3][2] = x.value
    BY SMT DEF Semaphore
  <2>8. /\ Order[11 + 1] = "SET_REPORT_SEMAPHORE_A" /\ Order[11 + 2] = "SET_REPORT_SEMAPHORE_B"
        /\ Order[11 + 3] = "SET_REPORT_SEMAPHORE_C"
    BY DEF Order
  <2>9. l < p
    BY <1>1, <2>5
  <2>10. /\ Holds(c, p - 1, "SET_REPORT_SEMAPHORE_A", High(x.va))
         /\ Holds(c, p - 1, "SET_REPORT_SEMAPHORE_B", Low(x.va))
         /\ Holds(c, p - 1, "SET_REPORT_SEMAPHORE_C", x.value)
    BY <2>6, <2>7, <2>8
  <2> QED BY <2>1, <2>9, <2>10 DEF Releases
<1> QED BY <1>1, <1>3, <1>7, <1>9, <1>10

-----------------------------------------------------------------------------
(* Commands that follow, or go before, do not change what others leave.    *)
LEMMA LeftBefore ==
  ASSUME NEW c \in Seq(Pairs), NEW d \in Seq(Pairs), NEW p \in 0 .. Len(c)
  PROVE  /\ \A m, v : Holds(c, p, m, v) <=> Holds(c \o d, p, m, v)
         /\ \A s, v : Binds(c, p, s, v) <=> Binds(c \o d, p, s, v)
<1> DEFINE e == c \o d
<1>1. Len(c) \in Nat /\ \A i \in 1 .. Len(c) : e[i] = c[i]
  BY ConcatFacts
<1> HIDE DEF e
<1>2. ASSUME NEW m, NEW v PROVE Holds(c, p, m, v) <=> Holds(e, p, m, v)
  <2>1. ASSUME NEW q \in 1 .. p PROVE e[q] = c[q] /\ \A r \in q + 1 .. p : e[r] = c[r]
    BY <1>1
  <2> QED BY <2>1 DEF Holds
<1>3. ASSUME NEW s, NEW v PROVE Binds(c, p, s, v) <=> Binds(e, p, s, v)
  <2>1. ASSUME NEW q \in 1 .. p - 1
        PROVE  e[q] = c[q] /\ e[q + 1] = c[q + 1] /\ \A r \in q + 2 .. p : e[r] = c[r]
    BY <1>1
  <2>2. ASSUME Binds(c, p, s, v) PROVE Binds(e, p, s, v)
    <3>1. PICK q \in 1 .. p - 1 :
            /\ c[q] = <<"CB_SELECTOR", s>> /\ c[q + 1] = <<"SET_CONSTANT_BUFFER_BIND", v>>
            /\ \A r \in q + 2 .. p : c[r] # <<"CB_SELECTOR", s>>
      BY <2>2 DEF Binds
    <3>2. /\ e[q] = <<"CB_SELECTOR", s>> /\ e[q + 1] = <<"SET_CONSTANT_BUFFER_BIND", v>>
          /\ \A r \in q + 2 .. p : e[r] # <<"CB_SELECTOR", s>>
      BY <2>1, <3>1, Zenon
    <3> QED BY <3>2, Zenon DEF Binds
  <2>3. ASSUME Binds(e, p, s, v) PROVE Binds(c, p, s, v)
    <3>1. PICK q \in 1 .. p - 1 :
            /\ e[q] = <<"CB_SELECTOR", s>> /\ e[q + 1] = <<"SET_CONSTANT_BUFFER_BIND", v>>
            /\ \A r \in q + 2 .. p : e[r] # <<"CB_SELECTOR", s>>
      BY <2>3 DEF Binds
    <3>2. /\ c[q] = <<"CB_SELECTOR", s>> /\ c[q + 1] = <<"SET_CONSTANT_BUFFER_BIND", v>>
          /\ \A r \in q + 2 .. p : c[r] # <<"CB_SELECTOR", s>>
      BY <2>1, <3>1, Zenon
    <3> QED BY <3>2, Zenon DEF Binds
  <2> QED BY <2>2, <2>3
<1> QED BY <1>2, <1>3 DEF e

(* What commands write they also write behind others.                      *)
LEMMA LeftBehind ==
  ASSUME NEW c \in Seq(Pairs), NEW d \in Seq(Pairs), NEW p \in 1 .. Len(d)
  PROVE  /\ \A m, v : Holds(d, p, m, v) => Holds(c \o d, Len(c) + p, m, v)
         /\ \A s, v : Binds(d, p, s, v) => Binds(c \o d, Len(c) + p, s, v)
<1> DEFINE e == c \o d
           n == Len(c)
<1>1. n \in Nat /\ Len(d) \in Nat /\ \A i \in 1 .. Len(d) : e[n + i] = d[i]
  BY ConcatFacts
<1> HIDE DEF e, n
<1>2. ASSUME NEW m, NEW v, Holds(d, p, m, v) PROVE Holds(e, n + p, m, v)
  <2>1. PICK q \in 1 .. p : d[q][1] = m /\ d[q][2] = v /\ \A r \in q + 1 .. p : d[r][1] # m
    BY <1>2 DEF Holds
  <2>2. n + q \in 1 .. n + p /\ e[n + q] = d[q]
    <3>1. q \in 1 .. Len(d) /\ n + q \in 1 .. n + p
      BY <1>1
    <3> QED BY <1>1, <3>1
  <2>3. ASSUME NEW r \in n + q + 1 .. n + p PROVE e[r][1] # m
    <3>1. r - n \in q + 1 .. p /\ r - n \in 1 .. Len(d) /\ n + (r - n) = r
      BY <1>1
    <3>2. e[n + (r - n)] = d[r - n]
      BY <1>1, <3>1
    <3> QED BY <2>1, <3>1, <3>2
  <2> QED BY <2>1, <2>2, <2>3 DEF Holds
<1>3. ASSUME NEW s, NEW v, Binds(d, p, s, v) PROVE Binds(e, n + p, s, v)
  <2>1. PICK q \in 1 .. p - 1 :
          /\ d[q] = <<"CB_SELECTOR", s>> /\ d[q + 1] = <<"SET_CONSTANT_BUFFER_BIND", v>>
          /\ \A r \in q + 2 .. p : d[r] # <<"CB_SELECTOR", s>>
    BY <1>3 DEF Binds
  <2>2. n + q \in 1 .. n + p - 1 /\ e[n + q] = d[q] /\ e[n + q + 1] = d[q + 1]
    <3>1. q \in 1 .. Len(d) /\ q + 1 \in 1 .. Len(d) /\ n + q + 1 = n + (q + 1)
      BY <1>1
    <3>2. n + q \in 1 .. n + p - 1
      BY <1>1
    <3> QED BY <1>1, <3>1, <3>2
  <2>3. ASSUME NEW r \in n + q + 2 .. n + p PROVE e[r] # <<"CB_SELECTOR", s>>
    <3>1. r - n \in q + 2 .. p /\ r - n \in 1 .. Len(d) /\ n + (r - n) = r
      BY <1>1
    <3>2. e[n + (r - n)] = d[r - n]
      BY <1>1, <3>1
    <3> QED BY <2>1, <3>1, <3>2
  <2>4. e[n + q] = <<"CB_SELECTOR", s>> /\ e[n + q + 1] = <<"SET_CONSTANT_BUFFER_BIND", v>>
    BY <2>1, <2>2
  <2> DEFINE w == n + q
             z == n + p
  <2>5. /\ w \in 1 .. z - 1 /\ e[w] = <<"CB_SELECTOR", s>>
        /\ e[w + 1] = <<"SET_CONSTANT_BUFFER_BIND", v>>
    BY <1>1, <2>2, <2>4
  <2>6. \A r \in w + 2 .. z : e[r] # <<"CB_SELECTOR", s>>
    BY <2>3
  <2> HIDE DEF w, z
  <2>7. Binds(e, z, s, v)
    BY <2>5, <2>6 DEF Binds
  <2> QED BY <2>7 DEF z
<1> QED BY <1>2, <1>3 DEF e, n

-----------------------------------------------------------------------------
(* All that was ever submitted: c, the commands, and spot, where each      *)
(* accepted kernel is launched.                                            *)
Shapes == [slot : Slots, size : Nat]

Requests == [class : {ClassId}, program : ShaderRecords, block : Triples, grid : Triples,
             buffers : SUBSET Bindings, fence : SUBSET Fences]

Arranged(c, spot, a, p) ==
  /\ c[p][1] = "SET_OBJECT" => p = 1
  /\ c[p][1] = "LAUNCH" => \E i \in 1 .. Len(a) : spot[i] = p
  /\ c[p][1] = "CB_SELECTOR" => c[p][2] \in Slots
  /\ c[p][1] = "SET_CONSTANT_BUFFER_BIND" => p > 1 /\ c[p - 1][1] = "CB_SELECTOR"
  /\ c[p][1] = "SET_REPORT_SEMAPHORE_D" =>
       \E i \in 1 .. Len(a) : spot[i] < p /\ Releases(c, p - 1, a[i].fence)

Prepared(c, spot, a, i) ==
  /\ spot[i] \in 2 .. Len(c) /\ c[spot[i]][1] = "LAUNCH"
  /\ Prepares(c, spot[i] - 1, a[i])
  /\ \A j \in 1 .. i - 1 : spot[j] < spot[i]

Script(c, spot, a) ==
  /\ c \in Seq(Pairs) /\ spot \in Seq(Nat) /\ Len(spot) = Len(a)
  /\ c # << >> => c[1] = <<"SET_OBJECT", ClassId>>
  /\ \A p \in 1 .. Len(c) : Arranged(c, spot, a, p)
  /\ \A i \in 1 .. Len(a) : Prepared(c, spot, a, i)

(* The class bound first stays bound.                                      *)
LEMMA ClassHeld ==
  ASSUME NEW c, NEW spot, NEW a, Script(c, spot, a), NEW p \in 1 .. Len(c)
  PROVE  Holds(c, p, "SET_OBJECT", ClassId)
<1>1. Len(c) \in Nat /\ c # << >>
  BY DEF Script
<1>2. c[1][1] = "SET_OBJECT" /\ c[1][2] = ClassId
  BY <1>1 DEF Script
<1>3. \A r \in 2 .. p : c[r][1] # "SET_OBJECT"
  BY <1>1 DEF Script, Arranged
<1>4. 1 \in 1 .. p
  BY <1>1
<1> QED BY <1>2, <1>3, <1>4 DEF Holds

(* Submitting a kernel's commands appends to the script.                   *)
LEMMA ScriptGrows ==
  ASSUME NEW c, NEW spot, NEW a \in Seq(Requests), Script(c, spot, a), c # << >>,
         NEW k \in Kernels, NEW f, OneFence(f), OneBufferPerSlot => Distinct(k.buffers)
  PROVE  Script(c \o Commands(k, f), Append(spot, Len(c) + (11 + 2 * Len(k.buffers))),
                Append(a, Kernel(k, f)))
<1> DEFINE d == Commands(k, f)
           l == 11 + 2 * Len(k.buffers)
           n == Len(c)
           N == Len(a)
           e == c \o d
           x == Kernel(k, f)
           a2 == Append(a, x)
           spot2 == Append(spot, n + l)
<1>1. /\ c \in Seq(Pairs) /\ spot \in Seq(Nat) /\ Len(spot) = N /\ N \in Nat /\ n \in Nat
      /\ c[1] = <<"SET_OBJECT", ClassId>> /\ n # 0
      /\ \A p \in 1 .. n : Arranged(c, spot, a, p)
      /\ \A i \in 1 .. N : Prepared(c, spot, a, i)
  BY DEF Script
<1>2. /\ d \in Seq(Pairs) /\ l \in 1 .. Len(d) /\ Len(d) \in Nat
      /\ \A p \in 1 .. Len(d) :
           /\ d[p][1] = "LAUNCH" <=> p = l
           /\ d[p][1] # "SET_OBJECT"
           /\ d[p][1] = "CB_SELECTOR" => d[p][2] \in Slots
           /\ d[p][1] = "SET_CONSTANT_BUFFER_BIND" => p > 1 /\ d[p - 1][1] = "CB_SELECTOR"
           /\ d[p][1] = "SET_REPORT_SEMAPHORE_D" => l < p /\ Releases(d, p - 1, f)
      /\ Prepares(d, l - 1, x)
  BY BlockFacts
<1>3. x.fence = f /\ l \in Nat /\ l > 1
  <2>1. Len(k.buffers) \in Nat
    BY PiecesFacts
  <2> QED BY <2>1 DEF Kernel
<1>4. n = Len(c) /\ N = Len(a)
  OBVIOUS
<1> HIDE DEF d, l, n, N, x
<1>5. /\ e \in Seq(Pairs) /\ Len(e) = n + Len(d)
      /\ \A i \in 1 .. n : e[i] = c[i]
      /\ \A i \in 1 .. Len(d) : e[n + i] = d[i]
  BY <1>1, <1>2, ConcatFacts DEF n
<1>6. /\ spot2 \in Seq(Nat) /\ Len(spot2) = N + 1 /\ spot2[N + 1] = n + l
      /\ \A i \in 1 .. N : spot2[i] = spot[i]
  BY <1>1, <1>3
<1>7. /\ Len(a2) = N + 1 /\ a2[N + 1] = x
      /\ \A i \in 1 .. N : a2[i] = a[i]
  BY <1>1 DEF N
<1>8. /\ \A p \in 0 .. n : \A m, v : Holds(c, p, m, v) => Holds(e, p, m, v)
      /\ \A p \in 0 .. n : \A s, v : Binds(c, p, s, v) => Binds(e, p, s, v)
  BY <1>1, <1>2, LeftBefore DEF n
<1>9. /\ \A p \in 1 .. Len(d) : \A m, v : Holds(d, p, m, v) => Holds(e, n + p, m, v)
      /\ \A p \in 1 .. Len(d) : \A s, v : Binds(d, p, s, v) => Binds(e, n + p, s, v)
  BY <1>1, <1>2, LeftBehind DEF n
<1> HIDE DEF e, a2, spot2
<1>10. ASSUME NEW p \in 0 .. n, NEW g
       PROVE  /\ Prepares(c, p, g) => Prepares(e, p, g)
              /\ Releases(c, p, g) => Releases(e, p, g)
  BY <1>8 DEF Prepares, Releases
<1>11. ASSUME NEW p \in 1 .. Len(d), NEW g
       PROVE  /\ Prepares(d, p, g) => Prepares(e, n + p, g)
              /\ Releases(d, p, g) => Releases(e, n + p, g)
  BY <1>9 DEF Prepares, Releases
<1>12. ASSUME NEW p \in 1 .. n PROVE Arranged(e, spot2, a2, p)
  <2>1. e[p] = c[p] /\ p - 1 \in 0 .. n /\ p \in Nat /\ (p > 1 => e[p - 1] = c[p - 1])
    BY <1>1, <1>5
  <2>2. Arranged(c, spot, a, p)
    BY <1>1
  <2>3. ASSUME NEW i \in 1 .. N PROVE i \in 1 .. N + 1 /\ spot2[i] = spot[i] /\ a2[i] = a[i]
    BY <1>1, <1>6, <1>7
  <2>4. e[p][1] = "LAUNCH" => \E i \in 1 .. Len(a2) : spot2[i] = p
    BY <1>7, <2>1, <2>2, <2>3 DEF Arranged, N
  <2>5. e[p][1] = "SET_REPORT_SEMAPHORE_D" =>
          \E i \in 1 .. Len(a2) : spot2[i] < p /\ Releases(e, p - 1, a2[i].fence)
    BY <1>7, <1>10, <2>1, <2>2, <2>3 DEF Arranged, N
  <2> QED BY <2>1, <2>2, <2>4, <2>5 DEF Arranged
<1>13. ASSUME NEW q \in 1 .. Len(d) PROVE Arranged(e, spot2, a2, n + q)
  <2>1. e[n + q] = d[q] /\ q \in Nat /\ (q > 1 => e[n + q - 1] = d[q - 1])
    <3>1. q > 1 => q - 1 \in 1 .. Len(d) /\ n + q - 1 = n + (q - 1)
      BY <1>1, <1>2
    <3> QED BY <1>2, <1>5, <3>1
  <2>2. N + 1 \in 1 .. Len(a2)
    BY <1>1, <1>7
  <2>3. ASSUME d[q][1] = "SET_REPORT_SEMAPHORE_D"
        PROVE  spot2[N + 1] < n + q /\ Releases(e, n + q - 1, a2[N + 1].fence)
    <3>1. l < q /\ Releases(d, q - 1, f)
      BY <1>2, <2>3
    <3>2. q - 1 \in 1 .. Len(d) /\ n + (q - 1) = n + q - 1 /\ n + l < n + q
      BY <1>1, <1>2, <1>3, <2>1, <3>1
    <3> QED BY <1>3, <1>6, <1>7, <1>11, <3>1, <3>2
  <2>4. n + q > 1 /\ n + q # 1
    BY <1>1, <2>1
  <2>5. d[q][1] = "LAUNCH" => spot2[N + 1] = n + q
    BY <1>2, <1>6
  <2> DEFINE w == n + q
  <2>6. e[w] = d[q]
    BY <2>1
  <2>7. e[w][1] = "SET_CONSTANT_BUFFER_BIND" => w > 1 /\ e[w - 1][1] = "CB_SELECTOR"
    <3>1. d[q][1] = "SET_CONSTANT_BUFFER_BIND" => q > 1 /\ d[q - 1][1] = "CB_SELECTOR"
      BY <1>2
    <3>2. w > 1
      BY <2>4
    <3>3. q > 1 => e[w - 1] = d[q - 1]
      <4>1. n \in Nat /\ q \in Nat
        BY <1>1, <2>1
      <4>2. w - 1 = n + q - 1
        BY <4>1
      <4> QED BY <2>1, <4>2, Zenon
    <3> HIDE DEF w
    <3> QED BY <2>6, <3>1, <3>2, <3>3, Zenon
  <2>8. e[w][1] = "LAUNCH" => \E i \in 1 .. Len(a2) : spot2[i] = w
    BY <2>1, <2>2, <2>5
  <2>9. e[w][1] = "SET_REPORT_SEMAPHORE_D" =>
          \E i \in 1 .. Len(a2) : spot2[i] < w /\ Releases(e, w - 1, a2[i].fence)
    BY <1>1, <2>1, <2>2, <2>3
  <2>10. e[w][1] # "SET_OBJECT" /\ (e[w][1] = "CB_SELECTOR" => e[w][2] \in Slots)
    BY <1>2, <2>6
  <2> HIDE DEF w
  <2>11. Arranged(e, spot2, a2, w)
    BY <2>7, <2>8, <2>9, <2>10 DEF Arranged
  <2> QED BY <2>11 DEF w
<1>14. ASSUME NEW i \in 1 .. N PROVE Prepared(e, spot2, a2, i)
  <2>1. Prepared(c, spot, a, i)
    BY <1>1
  <2>2. /\ spot[i] \in 2 .. n /\ spot[i] \in 2 .. Len(e) /\ spot[i] - 1 \in 0 .. n
        /\ e[spot[i]] = c[spot[i]]
    <3>1. spot[i] \in 2 .. n
      BY <1>4, <2>1 DEF Prepared
    <3>2. n \in Nat /\ Len(e) \in Nat /\ n <= Len(e)
      BY <1>1, <1>2, <1>5
    <3>3. spot[i] \in 1 .. n /\ spot[i] \in 2 .. Len(e) /\ spot[i] - 1 \in 0 .. n
      BY <3>1, <3>2
    <3> QED BY <1>5, <3>1, <3>3
  <2>3. spot2[i] = spot[i] /\ a2[i] = a[i]
    BY <1>6, <1>7
  <2>4. ASSUME NEW j \in 1 .. i - 1 PROVE spot2[j] = spot[j]
    <3>1. j \in 1 .. N
      BY <1>1
    <3> QED BY <1>6, <3>1
  <2> QED BY <1>10, <2>1, <2>2, <2>3, <2>4 DEF Prepared
<1>15. Prepared(e, spot2, a2, N + 1)
  <2>1. n + l \in 2 .. Len(e) /\ n + l - 1 = n + (l - 1) /\ l - 1 \in 1 .. Len(d)
    BY <1>1, <1>2, <1>3, <1>5
  <2>2. e[n + l][1] = "LAUNCH"
    BY <1>2, <1>5
  <2>3. Prepares(e, n + l - 1, x)
    BY <1>2, <1>11, <2>1
  <2> DEFINE w == n + l
             M == N + 1
  <2>4. ASSUME NEW j \in 1 .. M - 1 PROVE spot2[j] < w
    <3>1. j \in 1 .. N
      BY <1>1
    <3>2. spot2[j] = spot[j] /\ spot[j] \in 2 .. n
      BY <1>4, <1>1, <1>6, <3>1 DEF Prepared
    <3> QED BY <1>1, <1>3, <3>2
  <2>5. spot2[M] = w /\ a2[M] = x /\ w \in 2 .. Len(e) /\ e[w][1] = "LAUNCH" /\ Prepares(e, w - 1, x)
    BY <1>1, <1>3, <1>6, <1>7, <2>1, <2>2, <2>3
  <2> HIDE DEF w, M
  <2>6. Prepared(e, spot2, a2, M)
    BY <2>4, <2>5 DEF Prepared
  <2> QED BY <2>6 DEF M
<1>16. e[1] = <<"SET_OBJECT", ClassId>>
  BY <1>1, <1>5
<1>17. ASSUME NEW p \in 1 .. Len(e) PROVE Arranged(e, spot2, a2, p)
  <2>1. CASE p <= n
    BY <1>1, <1>12, <2>1
  <2>2. CASE p > n
    <3>1. p - n \in 1 .. Len(d) /\ n + (p - n) = p
      BY <1>1, <1>2, <1>5, <2>2
    <3> QED BY <1>13, <3>1
  <2> QED BY <1>1, <2>1, <2>2
<1>18. ASSUME NEW i \in 1 .. Len(a2) PROVE Prepared(e, spot2, a2, i)
  BY <1>1, <1>7, <1>14, <1>15
<1>19. Script(e, spot2, a2)
  BY <1>5, <1>6, <1>7, <1>16, <1>17, <1>18 DEF Script
<1> QED BY <1>19 DEF e, spot2, a2, d, x, n, l

-----------------------------------------------------------------------------
(* The words s are those of the commands behind the first n.               *)
Remaining(c, n, s) ==
  /\ n \in 0 .. Len(c) /\ s \in Seq(Nat) /\ Len(s) = 2 * (Len(c) - n)
  /\ \A p \in n + 1 .. Len(c) :
       /\ s[2 * (p - n) - 1] = gpu_method_1(0, Offset[c[p][1]])
       /\ s[2 * (p - n)] = c[p][2]

(* A command is two words, its header and its data.                        *)
LEMMA EncodedFacts ==
  ASSUME NEW d \in Seq(Pairs)
  PROVE  /\ Encoded(d) \in Seq(Nat) /\ Len(Encoded(d)) = 2 * Len(d)
         /\ \A p \in 1 .. Len(d) :
              /\ Encoded(d)[2 * p - 1] = gpu_method_1(0, Offset[d[p][1]])
              /\ Encoded(d)[2 * p] = d[p][2]
<1> DEFINE n == Len(d)
           W(i) == LET c == d[(i + 1) \div 2]
                   IN IF i % 2 = 1 THEN gpu_method_1(0, Offset[c[1]]) ELSE c[2]
<1>1. n \in Nat
  OBVIOUS
<1>2. ASSUME NEW p \in 1 .. n PROVE gpu_method_1(0, Offset[d[p][1]]) \in Nat /\ d[p][2] \in Nat
  <2>1. d[p] \in Pairs
    OBVIOUS
  <2>2. d[p][1] \in Methods /\ d[p][2] \in Nat
    BY <2>1 DEF Pairs
  <2> QED BY <2>2, HeaderFacts
<1>3. ASSUME NEW i \in 1 .. 2 * n PROVE W(i) \in Nat
  <2>1. (i + 1) \div 2 \in 1 .. n
    BY <1>1
  <2> QED BY <1>2, <2>1
<1>4. Encoded(d) = [i \in 1 .. 2 * n |-> W(i)]
  BY Zenon DEF Encoded
<1>5. ASSUME NEW p \in 1 .. n
      PROVE  /\ 2 * p - 1 \in 1 .. 2 * n /\ 2 * p \in 1 .. 2 * n
             /\ W(2 * p - 1) = gpu_method_1(0, Offset[d[p][1]]) /\ W(2 * p) = d[p][2]
  <2>1. /\ 2 * p - 1 \in 1 .. 2 * n /\ (2 * p - 1 + 1) \div 2 = p /\ (2 * p - 1) % 2 = 1
        /\ 2 * p \in 1 .. 2 * n /\ (2 * p + 1) \div 2 = p /\ (2 * p) % 2 # 1
    BY <1>1
  <2> QED BY <2>1
<1> HIDE DEF W, n
<1>6. 2 * n \in Nat
  BY <1>1
<1>7. Encoded(d) \in Seq(Nat) /\ Len(Encoded(d)) = 2 * n
  <2>1. Encoded(d) \in [1 .. 2 * n -> Nat]
    BY <1>3, <1>4
  <2> QED BY <1>6, <2>1
<1>8. ASSUME NEW p \in 1 .. n
      PROVE  /\ Encoded(d)[2 * p - 1] = gpu_method_1(0, Offset[d[p][1]])
             /\ Encoded(d)[2 * p] = d[p][2]
  BY <1>4, <1>5
<1> QED BY <1>7, <1>8 DEF n

(* Before the first command all of the words remain.                       *)
LEMMA RemainingAll ==
  ASSUME NEW d \in Seq(Pairs)
  PROVE  Remaining(d, 0, Encoded(d))
<1>1. Len(d) \in Nat
  OBVIOUS
<1>2. \A p \in 0 + 1 .. Len(d) : p - 0 = p /\ p \in 1 .. Len(d)
  OBVIOUS
<1>3. 0 \in 0 .. Len(d) /\ Len(d) - 0 = Len(d)
  BY <1>1
<1> QED BY <1>2, <1>3, EncodedFacts DEF Remaining

(* Where the elements of a concatenation come from: words.                 *)
LEMMA WordsFacts ==
  ASSUME NEW a \in Seq(Nat), NEW b \in Seq(Nat)
  PROVE  /\ a \o b \in Seq(Nat) /\ Len(a \o b) = Len(a) + Len(b)
         /\ \A i \in 1 .. Len(a) : (a \o b)[i] = a[i]
         /\ \A i \in 1 .. Len(b) : (a \o b)[Len(a) + i] = b[i]
OBVIOUS

(* A submission adds its words to those that remain.                       *)
LEMMA RemainingMore ==
  ASSUME NEW c \in Seq(Pairs), NEW d \in Seq(Pairs), NEW n, NEW s, Remaining(c, n, s)
  PROVE  Remaining(c \o d, n, s \o Encoded(d))
<1> DEFINE e == c \o d
           x == Encoded(d)
           t == s \o x
           N == Len(c)
           D == Len(d)
<1>0. N \in Nat /\ D \in Nat
  OBVIOUS
<1>1. /\ N \in Nat /\ D \in Nat
      /\ n \in 0 .. N /\ s \in Seq(Nat) /\ Len(s) = 2 * (N - n)
      /\ \A p \in n + 1 .. N : /\ s[2 * (p - n) - 1] = gpu_method_1(0, Offset[c[p][1]])
                               /\ s[2 * (p - n)] = c[p][2]
  BY <1>0 DEF Remaining
<1>2. /\ x \in Seq(Nat) /\ Len(x) = 2 * D
      /\ \A p \in 1 .. D : /\ x[2 * p - 1] = gpu_method_1(0, Offset[d[p][1]])
                           /\ x[2 * p] = d[p][2]
  BY EncodedFacts
<1>3. /\ Len(e) = N + D
      /\ \A i \in 1 .. N : e[i] = c[i]
      /\ \A i \in 1 .. D : e[N + i] = d[i]
  BY ConcatFacts
<1> HIDE DEF e, x, N, D
<1>4. /\ t \in Seq(Nat) /\ Len(t) = Len(s) + Len(x)
      /\ \A i \in 1 .. Len(s) : t[i] = s[i]
      /\ \A i \in 1 .. Len(x) : t[Len(s) + i] = x[i]
  BY <1>1, <1>2, WordsFacts
<1> HIDE DEF t
<1>5. ASSUME NEW p \in n + 1 .. Len(e)
      PROVE  /\ t[2 * (p - n) - 1] = gpu_method_1(0, Offset[e[p][1]])
             /\ t[2 * (p - n)] = e[p][2]
  <2> DEFINE u == 2 * (p - n) - 1
             w == 2 * (p - n)
  <2>1. CASE p <= N
    <3>1. p \in n + 1 .. N /\ p \in 1 .. N /\ u \in 1 .. Len(s) /\ w \in 1 .. Len(s)
      BY <1>1, <2>1
    <3> QED BY <1>1, <1>3, <1>4, <3>1
  <2>2. CASE p > N
    <3> DEFINE q == p - N
    <3>1. q \in 1 .. D /\ p = N + q /\ n \in Nat
      BY <1>1, <1>3, <2>2
    <3>2. /\ u = Len(s) + (2 * q - 1) /\ w = Len(s) + 2 * q
          /\ 2 * q - 1 \in 1 .. Len(x) /\ 2 * q \in 1 .. Len(x)
      BY <1>1, <1>2, <3>1
    <3> HIDE DEF q, u, w
    <3>3. t[u] = x[2 * q - 1] /\ t[w] = x[2 * q] /\ e[p] = d[q]
      BY <1>3, <1>4, <3>1, <3>2
    <3>4. t[u] = gpu_method_1(0, Offset[e[p][1]]) /\ t[w] = e[p][2]
      BY <1>2, <3>1, <3>3
    <3> QED BY <3>4 DEF u, w
  <2> QED BY <1>1, <2>1, <2>2
<1>6. n \in 0 .. Len(e) /\ Len(t) = 2 * (Len(e) - n)
  BY <1>1, <1>2, <1>3, <1>4
<1> QED BY <1>4, <1>5, <1>6 DEF Remaining, e, t, x

(* The first two remaining words are the next command.                     *)
LEMMA RemainingLess ==
  ASSUME NEW c \in Seq(Pairs), NEW n, NEW s, Remaining(c, n, s), s # << >>
  PROVE  /\ n + 1 \in 1 .. Len(c)
         /\ s[1] = gpu_method_1(0, Offset[c[n + 1][1]]) /\ s[2] = c[n + 1][2]
         /\ Remaining(c, n + 1, SubSeq(s, 3, Len(s)))
<1> DEFINE t == SubSeq(s, 3, Len(s))
           N == Len(c)
<1>1. /\ n \in 0 .. N /\ s \in Seq(Nat) /\ Len(s) = 2 * (N - n) /\ N \in Nat
      /\ \A p \in n + 1 .. N : /\ s[2 * (p - n) - 1] = gpu_method_1(0, Offset[c[p][1]])
                               /\ s[2 * (p - n)] = c[p][2]
  BY DEF Remaining
<1>2. Len(s) # 0
  BY <1>1
<1>3. n + 1 \in 1 .. N /\ n + 1 \in n + 1 .. N /\ n \in Nat
  BY <1>1, <1>2
<1>4. s[1] = gpu_method_1(0, Offset[c[n + 1][1]]) /\ s[2] = c[n + 1][2]
  <2> DEFINE p == n + 1
  <2>1. /\ s[2 * (p - n) - 1] = gpu_method_1(0, Offset[c[p][1]])
        /\ s[2 * (p - n)] = c[p][2]
    BY <1>1, <1>3
  <2>2. 2 * (p - n) - 1 = 1 /\ 2 * (p - n) = 2
    BY <1>3
  <2> HIDE DEF p
  <2> QED BY <2>1, <2>2 DEF p
<1>6. Len(s) \in Nat /\ Len(s) >= 2
  BY <1>1, <1>3
<1>7. /\ t \in Seq(Nat) /\ Len(t) = Len(s) - 2
      /\ \A i \in 1 .. Len(s) - 2 : t[i] = s[i + 2]
  BY <1>1, <1>6
<1> HIDE DEF t, N
<1>8. ASSUME NEW p \in n + 1 + 1 .. N
      PROVE  /\ t[2 * (p - (n + 1)) - 1] = gpu_method_1(0, Offset[c[p][1]])
             /\ t[2 * (p - (n + 1))] = c[p][2]
  <2> DEFINE u == 2 * (p - (n + 1)) - 1
             w == 2 * (p - (n + 1))
  <2>1. p \in Nat /\ p <= N /\ p >= n + 2 /\ p \in n + 1 .. N
    BY <1>1, <1>3
  <2>2. u + 2 = 2 * (p - n) - 1 /\ w + 2 = 2 * (p - n)
    BY <1>3, <2>1
  <2>3. u \in 1 .. Len(s) - 2 /\ w \in 1 .. Len(s) - 2
    BY <1>1, <1>3, <2>1
  <2> HIDE DEF u, w
  <2>4. t[u] = s[2 * (p - n) - 1] /\ t[w] = s[2 * (p - n)]
    BY <1>7, <2>2, <2>3
  <2> QED BY <1>1, <2>1, <2>4 DEF u, w
<1>9. Len(t) = 2 * (N - (n + 1)) /\ n + 1 \in 0 .. N
  <2>1. N \in Nat /\ n \in Nat /\ n + 1 <= N /\ Len(s) = 2 * (N - n)
    BY <1>1, <1>3
  <2>2. Len(t) = 2 * (N - n) - 2
    BY <1>7, <2>1
  <2> QED BY <2>1, <2>2
<1>10. Remaining(c, n + 1, t)
  BY <1>7, <1>8, <1>9 DEF Remaining, N
<1> QED BY <1>3, <1>4, <1>10 DEF N, t

-----------------------------------------------------------------------------
(* One command more.                                                       *)
LEMMA HoldsNext ==
  ASSUME NEW c, NEW n \in Nat, NEW m, NEW v, Holds(c, n + 1, m, v)
  PROVE  \/ c[n + 1][1] = m /\ c[n + 1][2] = v
         \/ c[n + 1][1] # m /\ Holds(c, n, m, v)
<1>1. PICK q \in 1 .. n + 1 : c[q][1] = m /\ c[q][2] = v /\ \A r \in q + 1 .. n + 1 : c[r][1] # m
  BY DEF Holds
<1>2. CASE q = n + 1
  BY <1>1, <1>2
<1>3. CASE q # n + 1
  <2>1. q \in 1 .. n /\ n + 1 \in q + 1 .. n + 1 /\ \A r \in q + 1 .. n : r \in q + 1 .. n + 1
    BY <1>3
  <2> QED BY <1>1, <2>1 DEF Holds
<1> QED BY <1>2, <1>3

(* The next command binds a slot, or leaves its binding as it was.         *)
LEMMA BindsNext ==
  ASSUME NEW c, NEW spot, NEW a, Script(c, spot, a), NEW n \in Nat, n + 1 <= Len(c),
         NEW s, NEW v, Binds(c, n + 1, s, v)
  PROVE  \/ /\ n >= 1 /\ c[n] = <<"CB_SELECTOR", s>>
            /\ c[n + 1] = <<"SET_CONSTANT_BUFFER_BIND", v>>
         \/ /\ Binds(c, n, s, v)
            /\ c[n + 1][1] = "SET_CONSTANT_BUFFER_BIND" =>
                 n >= 1 /\ c[n][1] = "CB_SELECTOR" /\ c[n][2] # s
<1> DEFINE p == n + 1
<1>0. Binds(c, p, s, v) /\ p = n + 1 /\ p - 1 = n
  OBVIOUS
<1> HIDE DEF p
<1>1. PICK q \in 1 .. n :
        /\ c[q] = <<"CB_SELECTOR", s>> /\ c[q + 1] = <<"SET_CONSTANT_BUFFER_BIND", v>>
        /\ \A r \in q + 2 .. n + 1 : c[r] # <<"CB_SELECTOR", s>>
  <2>1. \E q \in 1 .. p - 1 :
          /\ c[q] = <<"CB_SELECTOR", s>> /\ c[q + 1] = <<"SET_CONSTANT_BUFFER_BIND", v>>
          /\ \A r \in q + 2 .. p : c[r] # <<"CB_SELECTOR", s>>
    BY <1>0, Zenon DEF Binds
  <2> QED BY <1>0, <2>1
<1>2. q \in 1 .. n /\ q \in Nat
  OBVIOUS
<1>3. CASE q = n
  BY <1>1, <1>2, <1>3
<1>4. CASE q # n
  <2>1. q \in 1 .. n - 1 /\ \A r \in q + 2 .. n : r \in q + 2 .. n + 1
    BY <1>2, <1>4
  <2>2. Binds(c, n, s, v)
    BY <1>1, <2>1 DEF Binds
  <2>3. ASSUME c[n + 1][1] = "SET_CONSTANT_BUFFER_BIND"
        PROVE  n >= 1 /\ c[n][1] = "CB_SELECTOR" /\ c[n][2] # s
    <3>1. n + 1 \in 1 .. Len(c) /\ n \in 1 .. Len(c) /\ n + 1 - 1 = n /\ c \in Seq(Pairs)
      BY <1>2 DEF Script
    <3>2. c[n][1] = "CB_SELECTOR"
      BY <2>3, <3>1 DEF Script, Arranged
    <3>3. n # q + 1
      <4>1. c[q + 1][1] = "SET_CONSTANT_BUFFER_BIND"
        BY <1>1
      <4> QED BY <3>2, <4>1
    <3>4. n \in q + 2 .. n + 1
      BY <1>2, <1>4, <3>3
    <3>5. c[n] = <<c[n][1], c[n][2]>>
      <4>1. c[n] \in Pairs
        BY <3>1
      <4> QED BY <4>1 DEF Pairs
    <3>6. c[n] # <<"CB_SELECTOR", s>>
      BY <1>1, <3>4
    <3>7. n >= 1
      BY <1>2
    <3> QED BY <3>2, <3>5, <3>6, <3>7
  <2> QED BY <2>2, <2>3
<1> QED BY <1>3, <1>4

-----------------------------------------------------------------------------
(* The inductive invariant.  The GPU has carried out n of the commands     *)
(* ever submitted, and its registers and slots show it.                    *)
Machine(c, spot, n) ==
  /\ Script(c, spot, accepted) /\ Remaining(c, n, stream)
  /\ c = << >> <=> pc = "unbound"
  /\ \A m \in Methods : \A v : Holds(c, n, m, v) => regs[m] = v
  /\ \A s \in Slots : \A v : Binds(c, n, s, v) => buffers[s] = v
  /\ Len(launched) <= Len(accepted)
  /\ \A i \in 1 .. Len(accepted) : i <= Len(launched) <=> spot[i] <= n

Launches == [class : Nat, program : ShaderRecords, block : Triples, grid : Triples,
             buffers : SUBSET [slot : Nat, size : Nat]]

(* Addresses are handed out once, and have 64 bits.                        *)
Memory ==
  /\ nextVa = VaBase + (VramPages - vramPages) * PageSize
  /\ shaders \subseteq ShaderRecords /\ \A s \in shaders : s.va < Word32 * Word32

Kept ==
  /\ accepted \in Seq(Requests) /\ launched \in Seq(Launches)
  /\ \A i \in 1 .. Len(accepted) :
       /\ accepted[i].program.va < Word32 * Word32
       /\ OneFence(accepted[i].fence)
       /\ \A x \in accepted[i].fence : x.va < nextVa
       /\ \A j \in 1 .. Len(accepted) : i # j =>
            \A x \in accepted[i].fence, y \in accepted[j].fence : x.va # y.va

Calling ==
  /\ OneFence(fence)
  /\ pc = "submit" =>
       /\ job \in Kernels /\ job.shader.va < Word32 * Word32
       /\ OneBufferPerSlot => Distinct(job.buffers)
       /\ \A x \in fence : x.va < nextVa
       /\ \A x \in fence : \A i \in 1 .. Len(accepted) :
            \A y \in accepted[i].fence : x.va # y.va

Signals == \A x \in signalled : \E i \in 1 .. Len(launched) : accepted[i].fence = {x}

Inv ==
  /\ TypeOK /\ Memory /\ Kept /\ Calling /\ Signals
  /\ \E c, spot, n : Machine(c, spot, n)

(* No address handed out is longer than two words.                         *)
LEMMA MemoryFacts ==
  ASSUME TypeOK, Memory
  PROVE  nextVa \in Nat /\ nextVa < Word32 * Word32
<1> DEFINE p == VramPages - vramPages
<1>1. vramPages \in 0 .. VramPages /\ nextVa \in Nat
  BY DEF TypeOK
<1>2. p \in Nat /\ p <= VramPages
  BY <1>1, DispatchConstants
<1>3. nextVa = VaBase + p * PageSize
  BY DEF Memory
<1> HIDE DEF p
<1>4. p * PageSize <= VramPages * PageSize
  <2>1. PageSize * p <= PageSize * VramPages
    BY <1>2, DispatchConstants, ProductAtMost
  <2> QED BY <1>2, <2>1, DispatchConstants
<1>5. VaBase + (VramPages * PageSize) < Word32 * Word32
  BY DispatchAssumption
<1>6. p * PageSize \in Nat
  BY <1>2, DispatchConstants
<1> QED BY <1>1, <1>3, <1>4, <1>5, <1>6, DispatchConstants

(* What an accepted kernel asks for, and its fence.                        *)
LEMMA RequestFacts ==
  ASSUME NEW a \in Requests
  PROVE  /\ a.class = ClassId /\ a.program \in ShaderRecords /\ a.block \in Triples
         /\ a.grid \in Triples /\ a.buffers \subseteq Bindings /\ a.fence \subseteq Fences
         /\ a.program = [va |-> a.program.va, entry_offset |-> a.program.entry_offset,
                         shared_mem_size |-> a.program.shared_mem_size]
         /\ a.block = <<a.block[1], a.block[2], a.block[3]>>
         /\ a.grid = <<a.grid[1], a.grid[2], a.grid[3]>>
         /\ a.program.va \in Nat
<1>1. /\ a.class = ClassId /\ a.program \in ShaderRecords /\ a.block \in Triples
      /\ a.grid \in Triples /\ a.buffers \subseteq Bindings /\ a.fence \subseteq Fences
  BY DEF Requests
<1>2. \A x \in ShaderRecords :
        /\ x = [va |-> x.va, entry_offset |-> x.entry_offset, shared_mem_size |-> x.shared_mem_size]
        /\ x.va \in Nat
  BY DEF ShaderRecords
<1>3. \A x \in Triples : x = <<x[1], x[2], x[3]>>
  BY DEF Triples
<1> QED BY <1>1, <1>2, <1>3

-----------------------------------------------------------------------------
(* The GPU carries out one more command.                                   *)
LEMMA GpuEffect ==
  ASSUME Inv, GpuMethod, NEW c, NEW spot, NEW n, Machine(c, spot, n)
  PROVE  LET m == c[n + 1][1]
             v == c[n + 1][2]
         IN /\ n \in Nat /\ n + 1 \in 1 .. Len(c) /\ m \in Methods /\ v \in Nat
            /\ Remaining(c, n + 1, stream')
            /\ regs' = [regs EXCEPT ![m] = v]
            /\ buffers' = IF m = "SET_CONSTANT_BUFFER_BIND"
                          THEN [buffers EXCEPT ![regs["CB_SELECTOR"]] = v] ELSE buffers
            /\ launched' = IF m = "LAUNCH" THEN Append(launched, Running) ELSE launched
            /\ signalled' =
                 IF m = "SET_REPORT_SEMAPHORE_D"
                 THEN signalled \cup {[va |-> Address("SET_REPORT_SEMAPHORE_A", "SET_REPORT_SEMAPHORE_B"),
                                       value |-> regs["SET_REPORT_SEMAPHORE_C"]]}
                 ELSE signalled
            /\ UNCHANGED <<engine, memory, pushWords, accepted>>
<1> DEFINE m == c[n + 1][1]
           v == c[n + 1][2]
           M == MethodAt[4 * (stream[1] % \h2000)]
<1>1. c \in Seq(Pairs) /\ Remaining(c, n, stream) /\ stream # << >>
  BY DEF Machine, Script, GpuMethod
<1>2. /\ n + 1 \in 1 .. Len(c) /\ stream[1] = gpu_method_1(0, Offset[m]) /\ stream[2] = v
      /\ Remaining(c, n + 1, SubSeq(stream, 3, Len(stream)))
  BY <1>1, RemainingLess
<1>3. n \in Nat
  BY <1>1 DEF Remaining
<1>4. m \in Methods /\ v \in Nat
  <2>1. c[n + 1] \in Pairs
    BY <1>1, <1>2
  <2> QED BY <2>1 DEF Pairs
<1>5. M = m
  <2>1. MethodAt[4 * (gpu_method_1(0, Offset[m]) % \h2000)] = m
    BY <1>4, HeaderFacts
  <2> QED BY <1>2, <2>1
<1>6. /\ stream' = SubSeq(stream, 3, Len(stream))
      /\ regs' = [regs EXCEPT ![M] = stream[2]]
      /\ buffers' = IF M = "SET_CONSTANT_BUFFER_BIND"
                    THEN [buffers EXCEPT ![regs["CB_SELECTOR"]] = stream[2]] ELSE buffers
      /\ launched' = IF M = "LAUNCH" THEN Append(launched, Running) ELSE launched
      /\ signalled' =
           IF M = "SET_REPORT_SEMAPHORE_D"
           THEN signalled \cup {[va |-> Address("SET_REPORT_SEMAPHORE_A", "SET_REPORT_SEMAPHORE_B"),
                                 value |-> regs["SET_REPORT_SEMAPHORE_C"]]}
           ELSE signalled
      /\ UNCHANGED <<engine, memory, pushWords, accepted>>
  BY DEF GpuMethod
<1> HIDE DEF m, v, M
<1>7. /\ regs' = [regs EXCEPT ![m] = v]
      /\ buffers' = IF m = "SET_CONSTANT_BUFFER_BIND"
                    THEN [buffers EXCEPT ![regs["CB_SELECTOR"]] = v] ELSE buffers
      /\ launched' = IF m = "LAUNCH" THEN Append(launched, Running) ELSE launched
      /\ signalled' =
           IF m = "SET_REPORT_SEMAPHORE_D"
           THEN signalled \cup {[va |-> Address("SET_REPORT_SEMAPHORE_A", "SET_REPORT_SEMAPHORE_B"),
                                 value |-> regs["SET_REPORT_SEMAPHORE_C"]]}
           ELSE signalled
  BY <1>2, <1>5, <1>6
<1> QED BY <1>2, <1>3, <1>4, <1>6, <1>7 DEF m, v

(* Its registers and slots show it.                                        *)
LEMMA RegistersFollow ==
  ASSUME Inv, GpuMethod, NEW c, NEW spot, NEW n, Machine(c, spot, n)
  PROVE  /\ \A m \in Methods : \A v : Holds(c, n + 1, m, v) => regs'[m] = v
         /\ \A s \in Slots : \A v : Binds(c, n + 1, s, v) => buffers'[s] = v
         /\ regs' \in [Methods -> Nat] /\ buffers' \in [Slots -> Nat]
<1> DEFINE M == c[n + 1][1]
           V == c[n + 1][2]
<1>1. /\ n \in Nat /\ n + 1 \in 1 .. Len(c) /\ M \in Methods /\ V \in Nat
      /\ regs' = [regs EXCEPT ![M] = V]
      /\ buffers' = IF M = "SET_CONSTANT_BUFFER_BIND"
                    THEN [buffers EXCEPT ![regs["CB_SELECTOR"]] = V] ELSE buffers
  BY GpuEffect
<1>2. /\ regs \in [Methods -> Nat] /\ buffers \in [Slots -> Nat] /\ Script(c, spot, accepted)
      /\ \A m \in Methods : \A v : Holds(c, n, m, v) => regs[m] = v
      /\ \A s \in Slots : \A v : Binds(c, n, s, v) => buffers[s] = v
  BY DEF Inv, TypeOK, Machine
<1>3. ASSUME NEW m \in Methods, NEW v, Holds(c, n + 1, m, v) PROVE regs'[m] = v
  <2>1. \/ M = m /\ V = v
        \/ M # m /\ Holds(c, n, m, v)
    BY <1>1, <1>3, HoldsNext
  <2> HIDE DEF M, V
  <2> QED BY <1>1, <1>2, <2>1
<1>4. n + 1 <= Len(c)
  <2>1. c \in Seq(Pairs)
    BY <1>2 DEF Script
  <2> QED BY <1>1, <2>1
<1>5. "CB_SELECTOR" \in Methods
  BY MethodNames
<1>6. ASSUME n >= 1, NEW s, c[n][1] = "CB_SELECTOR", c[n][2] = s PROVE regs["CB_SELECTOR"] = s
  <2>1. n \in 1 .. n /\ \A r \in n + 1 .. n : FALSE
    BY <1>1, <1>6
  <2>2. Holds(c, n, "CB_SELECTOR", s)
    BY <1>6, <2>1 DEF Holds
  <2> QED BY <1>2, <1>5, <2>2
<1>7. ASSUME NEW s \in Slots, NEW v, Binds(c, n + 1, s, v) PROVE buffers'[s] = v
  <2>1. CASE /\ n >= 1 /\ c[n] = <<"CB_SELECTOR", s>>
             /\ c[n + 1] = <<"SET_CONSTANT_BUFFER_BIND", v>>
    <3>1. M = "SET_CONSTANT_BUFFER_BIND" /\ V = v /\ c[n][1] = "CB_SELECTOR" /\ c[n][2] = s
      BY <2>1
    <3>2. regs["CB_SELECTOR"] = s
      BY <1>6, <2>1, <3>1
    <3> HIDE DEF M, V
    <3> QED BY <1>1, <1>2, <3>1, <3>2
  <2>2. CASE /\ Binds(c, n, s, v)
             /\ c[n + 1][1] = "SET_CONSTANT_BUFFER_BIND" =>
                  n >= 1 /\ c[n][1] = "CB_SELECTOR" /\ c[n][2] # s
    <3>1. buffers[s] = v
      BY <1>2, <2>2
    <3>2. M = "SET_CONSTANT_BUFFER_BIND" => regs["CB_SELECTOR"] # s
      BY <1>6, <2>2
    <3> HIDE DEF M, V
    <3> QED BY <1>1, <1>2, <3>1, <3>2
  <2> QED BY <1>1, <1>2, <1>4, <1>7, <2>1, <2>2, BindsNext
<1> HIDE DEF M, V
<1>8. regs' \in [Methods -> Nat] /\ buffers' \in [Slots -> Nat]
  BY <1>1, <1>2
<1> QED BY <1>3, <1>7, <1>8

(* At a launch the registers and slots hold what the next accepted kernel  *)
(* asked for.                                                              *)
LEMMA LaunchServes ==
  ASSUME Inv, NEW c, NEW spot, NEW n \in Nat, Machine(c, spot, n), n + 1 \in 1 .. Len(c),
         c[n + 1][1] = "LAUNCH"
  PROVE  LET i == Len(launched) + 1
         IN /\ i \in 1 .. Len(accepted) /\ spot[i] = n + 1
            /\ Running \in Launches
            /\ OneBufferPerSlot => KQ!Serves(Running, accepted[i])
<1> DEFINE L == Len(launched)
           A == Len(accepted)
           i == L + 1
           a == accepted[i]
<1>1. /\ accepted \in Seq(Requests) /\ L \in Nat /\ A \in Nat /\ L <= A
      /\ regs \in [Methods -> Nat] /\ buffers \in [Slots -> Nat]
      /\ \A j \in 1 .. A : j <= L <=> spot[j] <= n
      /\ \A m \in Methods : \A v : Holds(c, n, m, v) => regs[m] = v
      /\ \A s \in Slots : \A v : Binds(c, n, s, v) => buffers[s] = v
      /\ Script(c, spot, accepted)
  BY DEF Inv, TypeOK, Kept, Machine
<1>2. /\ \A j \in 1 .. A : Prepared(c, spot, accepted, j)
      /\ Arranged(c, spot, accepted, n + 1) /\ c \in Seq(Pairs) /\ spot \in Seq(Nat) /\ Len(spot) = A
  BY <1>1 DEF Script
<1>3. PICK j \in 1 .. A : spot[j] = n + 1
  BY <1>2 DEF Arranged
<1> HIDE DEF L, A
<1>4. j = i
  <2>1. ~ (j <= L)
    BY <1>1, <1>3
  <2>2. CASE j > i
    <3>1. i \in 1 .. A /\ i \in 1 .. j - 1 /\ ~ (i <= L)
      BY <1>1, <2>2
    <3>2. spot[i] < spot[j]
      BY <1>2, <3>1 DEF Prepared
    <3>3. spot[i] \in Nat
      BY <1>1, <1>2, <3>1
    <3>4. spot[i] <= n
      BY <1>3, <3>2, <3>3
    <3> QED BY <1>1, <3>1, <3>4
  <2> QED BY <1>1, <2>1, <2>2
<1>5. i \in 1 .. A /\ spot[i] = n + 1
  BY <1>3, <1>4
<1> HIDE DEF i
<1>6. Prepares(c, n, a) /\ n \in 1 .. Len(c)
  <2>1. Prepares(c, spot[i] - 1, a) /\ spot[i] \in 2 .. Len(c)
    BY <1>2, <1>5 DEF Prepared
  <2>2. n + 1 - 1 = n /\ Len(c) \in Nat
    BY <1>2
  <2> QED BY <1>5, <2>1, <2>2
<1>7. regs["SET_OBJECT"] = ClassId
  BY <1>1, <1>6, ClassHeld, MethodNames
<1>8. /\ regs["SET_PROGRAM_REGION_A"] = High(a.program.va)
      /\ regs["SET_PROGRAM_REGION_B"] = Low(a.program.va)
      /\ regs["SET_SHADER_PROGRAM"] = a.program.entry_offset
      /\ regs["SET_SHARED_MEMORY_SIZE"] = a.program.shared_mem_size
      /\ regs["SET_BLOCK_DIM_X"] = a.block[1] /\ regs["SET_BLOCK_DIM_Y"] = a.block[2]
      /\ regs["SET_BLOCK_DIM_Z"] = a.block[3]
      /\ regs["LAUNCH_DIM_X"] = a.grid[1] /\ regs["LAUNCH_DIM_Y"] = a.grid[2]
      /\ regs["LAUNCH_DIM_Z"] = a.grid[3]
  <2>1. /\ Holds(c, n, "SET_PROGRAM_REGION_A", High(a.program.va))
        /\ Holds(c, n, "SET_PROGRAM_REGION_B", Low(a.program.va))
        /\ Holds(c, n, "SET_SHADER_PROGRAM", a.program.entry_offset)
        /\ Holds(c, n, "SET_SHARED_MEMORY_SIZE", a.program.shared_mem_size)
        /\ Holds(c, n, "SET_BLOCK_DIM_X", a.block[1]) /\ Holds(c, n, "SET_BLOCK_DIM_Y", a.block[2])
        /\ Holds(c, n, "SET_BLOCK_DIM_Z", a.block[3])
        /\ Holds(c, n, "LAUNCH_DIM_X", a.grid[1]) /\ Holds(c, n, "LAUNCH_DIM_Y", a.grid[2])
        /\ Holds(c, n, "LAUNCH_DIM_Z", a.grid[3])
    BY <1>6 DEF Prepares
  <2>2. {"SET_PROGRAM_REGION_A", "SET_PROGRAM_REGION_B", "SET_SHADER_PROGRAM",
         "SET_SHARED_MEMORY_SIZE", "SET_BLOCK_DIM_X", "SET_BLOCK_DIM_Y", "SET_BLOCK_DIM_Z",
         "LAUNCH_DIM_X", "LAUNCH_DIM_Y", "LAUNCH_DIM_Z"} \subseteq Methods
    BY MethodNames
  <2>3. \A m \in Methods : \A v : Holds(c, n, m, v) => regs[m] = v
    BY <1>1
  <2> HIDE DEF a
  <2> QED BY <2>1, <2>2, <2>3
<1>9. a \in Requests /\ a.program.va < Word32 * Word32
  <2>1. a \in Requests
    BY <1>1, <1>5 DEF A
  <2>2. a.program.va < Word32 * Word32
    BY <1>5 DEF Inv, Kept, A
  <2> QED BY <2>1, <2>2
<1> HIDE DEF a
<1>10. /\ a.class = ClassId /\ a.program \in ShaderRecords /\ a.block \in Triples
       /\ a.grid \in Triples /\ a.buffers \subseteq Bindings
       /\ a.program = [va |-> a.program.va, entry_offset |-> a.program.entry_offset,
                       shared_mem_size |-> a.program.shared_mem_size]
       /\ a.block = <<a.block[1], a.block[2], a.block[3]>>
       /\ a.grid = <<a.grid[1], a.grid[2], a.grid[3]>>
       /\ a.program.va \in Nat
  BY <1>9, RequestFacts
<1>11. Address("SET_PROGRAM_REGION_A", "SET_PROGRAM_REGION_B") = a.program.va
  BY <1>8, <1>9, <1>10, HalvesFacts DEF Address
<1> DEFINE B == {[slot |-> s, size |-> buffers[s] \div 16] : s \in {x \in Slots : buffers[x] % 2 = 1}}
<1>12. /\ Running.class = a.class /\ Running.program = a.program /\ Running.block = a.block
       /\ Running.grid = a.grid /\ Running.buffers = B
  BY <1>7, <1>8, <1>10, <1>11 DEF Running
<1>13. B \subseteq [slot : Nat, size : Nat]
  <2>1. \A s \in Slots : s \in Nat /\ buffers[s] \div 16 \in Nat
    BY <1>1, SlotsAreNumbers
  <2> QED BY <2>1
<1>14. Running \in Launches
  <2>1. Running = [class |-> Running.class, program |-> Running.program, block |-> Running.block,
                   grid |-> Running.grid, buffers |-> Running.buffers]
    BY DEF Running
  <2>2. Running.class \in Nat
    BY <1>10, <1>12, DispatchConstants
  <2> HIDE DEF B
  <2> QED BY <1>10, <1>12, <1>13, <2>1, <2>2 DEF Launches
<1>15. ASSUME OneBufferPerSlot, NEW b \in a.buffers PROVE b \in B
  <2>1. b \in Bindings
    BY <1>10
  <2>2. b.slot \in Slots /\ b.size \in Nat /\ b.size < SizeSpan /\ b = [slot |-> b.slot, size |-> b.size]
    BY <2>1, BindingFacts DEF Bindings
  <2>3. Binds(c, n, b.slot, Binding(b.size))
    BY <1>6, <1>15 DEF Prepares
  <2>4. buffers[b.slot] = Binding(b.size)
    BY <1>1, <2>2, <2>3
  <2>5. Binding(b.size) = 1 + 16 * b.size
    <3>1. SizeSpan \in Nat \ {0}
      BY DispatchConstants
    <3>2. b.size % SizeSpan = b.size
      BY <2>2, <3>1
    <3> QED BY <3>2 DEF Binding
  <2>6. buffers[b.slot] % 2 = 1 /\ buffers[b.slot] \div 16 = b.size
    <3>1. \A z \in Nat : (1 + 16 * z) % 2 = 1 /\ (1 + 16 * z) \div 16 = z
      OBVIOUS
    <3> QED BY <2>2, <2>4, <2>5, <3>1
  <2> QED BY <2>2, <2>6
<1> HIDE DEF B
<1>16. OneBufferPerSlot => KQ!Serves(Running, a)
  BY <1>12, <1>15 DEF KQ!Serves
<1> QED BY <1>5, <1>14, <1>16 DEF i, a, A, L

(* At a release they hold the fence of a kernel that was launched.         *)
LEMMA ReleaseServes ==
  ASSUME Inv, NEW c, NEW spot, NEW n \in Nat, Machine(c, spot, n), n + 1 \in 1 .. Len(c),
         c[n + 1][1] = "SET_REPORT_SEMAPHORE_D"
  PROVE  \E i \in 1 .. Len(launched), x \in Fences :
           /\ accepted[i].fence = {x}
           /\ x = [va |-> Address("SET_REPORT_SEMAPHORE_A", "SET_REPORT_SEMAPHORE_B"),
                   value |-> regs["SET_REPORT_SEMAPHORE_C"]]
<1>1. /\ accepted \in Seq(Requests) /\ Len(launched) \in Nat /\ Len(accepted) \in Nat
      /\ Len(launched) <= Len(accepted)
      /\ \A j \in 1 .. Len(accepted) : j <= Len(launched) <=> spot[j] <= n
      /\ \A m \in Methods : \A v : Holds(c, n, m, v) => regs[m] = v
      /\ Script(c, spot, accepted)
  BY DEF Inv, Kept, Machine
<1>2. Arranged(c, spot, accepted, n + 1) /\ spot \in Seq(Nat) /\ Len(spot) = Len(accepted)
  BY <1>1 DEF Script
<1>3. PICK i \in 1 .. Len(accepted) : spot[i] < n + 1 /\ Releases(c, n + 1 - 1, accepted[i].fence)
  BY <1>2 DEF Arranged
<1>4. i \in 1 .. Len(launched)
  <2>1. spot[i] \in Nat
    BY <1>2
  <2>2. spot[i] <= n
    BY <1>3, <2>1
  <2> QED BY <1>1, <2>2
<1>5. n + 1 - 1 = n
  OBVIOUS
<1>6. PICK x \in Fences :
        /\ accepted[i].fence = {x}
        /\ Holds(c, n, "SET_REPORT_SEMAPHORE_A", High(x.va))
        /\ Holds(c, n, "SET_REPORT_SEMAPHORE_B", Low(x.va))
        /\ Holds(c, n, "SET_REPORT_SEMAPHORE_C", x.value)
  BY <1>3, <1>5 DEF Releases
<1>7. {"SET_REPORT_SEMAPHORE_A", "SET_REPORT_SEMAPHORE_B", "SET_REPORT_SEMAPHORE_C"} \subseteq Methods
  BY MethodNames
<1>8. /\ regs["SET_REPORT_SEMAPHORE_A"] = High(x.va) /\ regs["SET_REPORT_SEMAPHORE_B"] = Low(x.va)
      /\ regs["SET_REPORT_SEMAPHORE_C"] = x.value
  BY <1>1, <1>6, <1>7
<1>9. x.va \in Nat /\ x.va < Word32 * Word32
  <2>1. x.va \in Nat /\ x.va < nextVa
    BY <1>1, <1>6, FenceFacts DEF Inv, Kept
  <2>2. nextVa \in Nat /\ nextVa < Word32 * Word32
    BY MemoryFacts DEF Inv
  <2> QED BY <2>1, <2>2, DispatchConstants
<1>10. Address("SET_REPORT_SEMAPHORE_A", "SET_REPORT_SEMAPHORE_B") = x.va
  BY <1>8, <1>9, HalvesFacts DEF Address
<1>11. x = [va |-> x.va, value |-> x.value]
  BY DEF Fences
<1> QED BY <1>4, <1>6, <1>8, <1>10, <1>11

(* A method carried out by the GPU keeps the invariant; a launch and a     *)
(* release are steps of KernelQueue.                                       *)
LEMMA GpuKeeps ==
  ASSUME Inv, GpuMethod
  PROVE  Inv' /\ (OneBufferPerSlot => [KQ!Next]_(KQ!vars))
<1> PICK c, spot, n : Machine(c, spot, n)
  BY DEF Inv
<1> DEFINE M == c[n + 1][1]
           i == Len(launched) + 1
<1>1. /\ n \in Nat /\ n + 1 \in 1 .. Len(c) /\ M \in Methods /\ c[n + 1][2] \in Nat
      /\ Remaining(c, n + 1, stream')
      /\ launched' = IF M = "LAUNCH" THEN Append(launched, Running) ELSE launched
      /\ signalled' =
           IF M = "SET_REPORT_SEMAPHORE_D"
           THEN signalled \cup {[va |-> Address("SET_REPORT_SEMAPHORE_A", "SET_REPORT_SEMAPHORE_B"),
                                 value |-> regs["SET_REPORT_SEMAPHORE_C"]]}
           ELSE signalled
      /\ UNCHANGED <<engine, memory, pushWords, accepted>>
  BY GpuEffect
<1>2. /\ \A m \in Methods : \A v : Holds(c, n + 1, m, v) => regs'[m] = v
      /\ \A s \in Slots : \A v : Binds(c, n + 1, s, v) => buffers'[s] = v
      /\ regs' \in [Methods -> Nat] /\ buffers' \in [Slots -> Nat]
  BY RegistersFollow
<1>3. /\ accepted \in Seq(Requests) /\ launched \in Seq(Launches) /\ Len(launched) \in Nat
      /\ Len(accepted) \in Nat /\ Len(launched) <= Len(accepted)
      /\ Script(c, spot, accepted) /\ (c = << >> <=> pc = "unbound")
      /\ \A j \in 1 .. Len(accepted) : j <= Len(launched) <=> spot[j] <= n
  BY DEF Inv, Kept, Machine
<1>4. \A j \in 1 .. Len(accepted) : /\ spot[j] \in Nat /\ c[spot[j]][1] = "LAUNCH"
                                    /\ \A k \in 1 .. j - 1 : spot[k] < spot[j]
  <2>1. /\ spot \in Seq(Nat) /\ Len(spot) = Len(accepted)
        /\ \A j \in 1 .. Len(accepted) : Prepared(c, spot, accepted, j)
    BY <1>3 DEF Script
  <2>2. \A j \in 1 .. Len(accepted) : spot[j] \in Nat
    BY <2>1
  <2> QED BY <2>1, <2>2 DEF Prepared
<1>5. accepted' = accepted /\ pc' = pc
  BY <1>1 DEF engine
<1>6. CASE M = "LAUNCH"
  <2>1. /\ i \in 1 .. Len(accepted) /\ spot[i] = n + 1 /\ Running \in Launches
        /\ OneBufferPerSlot => KQ!Serves(Running, accepted[i])
    BY <1>1, <1>6, LaunchServes
  <2>2. launched' = Append(launched, Running) /\ signalled' = signalled
    BY <1>1, <1>6
  <2>3. launched' \in Seq(Launches) /\ Len(launched') = i /\ launched'[i] = Running
    BY <1>3, <2>1, <2>2
  <2>4. ASSUME NEW j \in 1 .. Len(accepted) PROVE j <= i <=> spot[j] <= n + 1
    <3>1. CASE j < i
      <4>1. j <= Len(launched)
        BY <1>3, <3>1
      <4>2. spot[j] <= n /\ spot[j] \in Nat
        BY <1>3, <1>4, <4>1
      <4> QED BY <1>1, <3>1, <4>2
    <3>2. CASE j = i
      BY <1>1, <2>1, <3>2
    <3>3. CASE j > i
      <4>1. i \in 1 .. j - 1 /\ ~ (j <= i)
        BY <1>3, <2>1, <3>3
      <4>2. spot[i] < spot[j] /\ spot[j] \in Nat
        BY <1>4, <4>1
      <4> QED BY <1>1, <2>1, <4>1, <4>2
    <3> QED BY <1>3, <2>1, <3>1, <3>2, <3>3
  <2>5. Machine(c, spot, n + 1)'
    BY <1>1, <1>2, <1>3, <1>5, <2>1, <2>3, <2>4 DEF Machine
  <2>6. Signals'
    <3>1. \A j \in 1 .. Len(launched) : j \in 1 .. i
      BY <1>3
    <3> QED BY <1>5, <2>2, <2>3, <3>1 DEF Inv, Signals
  <2>7. Kept'
    BY <1>1, <1>5, <2>3 DEF Inv, Kept, memory
  <2>8. OneBufferPerSlot => KQ!Launch
    BY <1>3, <1>5, <2>1, <2>2, <2>3 DEF KQ!Launch
  <2>9. TypeOK'
    BY <1>1, <1>2, <2>2 DEF Inv, TypeOK, engine, memory
  <2>10. Memory' /\ Calling'
    BY <1>1, <1>5 DEF Inv, Memory, Calling, memory, engine
  <2> QED BY <2>5, <2>6, <2>7, <2>8, <2>9, <2>10 DEF Inv, KQ!Next
<1>7. CASE M # "LAUNCH"
  <2>1. launched' = launched
    BY <1>1, <1>7
  <2>2. ASSUME NEW j \in 1 .. Len(accepted) PROVE j <= Len(launched) <=> spot[j] <= n + 1
    <3>1. spot[j] # n + 1 /\ spot[j] \in Nat
      BY <1>4, <1>7
    <3>2. spot[j] <= n <=> spot[j] <= n + 1
      BY <1>1, <3>1
    <3> QED BY <1>3, <3>2
  <2>3. Machine(c, spot, n + 1)'
    BY <1>1, <1>2, <1>3, <1>5, <2>1, <2>2 DEF Machine
  <2>4. Kept'
    BY <1>1, <1>5, <2>1 DEF Inv, Kept, memory
  <2>5. Memory' /\ Calling'
    BY <1>1, <1>5 DEF Inv, Memory, Calling, memory, engine
  <2>6. CASE M # "SET_REPORT_SEMAPHORE_D"
    <3>1. signalled' = signalled
      BY <1>1, <2>6
    <3>2. TypeOK'
      BY <1>1, <1>2, <3>1 DEF Inv, TypeOK, engine, memory
    <3>3. Signals'
      BY <1>5, <2>1, <3>1 DEF Inv, Signals
    <3>4. UNCHANGED KQ!vars
      BY <1>5, <2>1, <3>1 DEF KQ!vars
    <3> QED BY <2>3, <2>4, <2>5, <3>2, <3>3, <3>4 DEF Inv
  <2>7. CASE M = "SET_REPORT_SEMAPHORE_D"
    <3>1. PICK j \in 1 .. Len(launched), x \in Fences :
            /\ accepted[j].fence = {x}
            /\ x = [va |-> Address("SET_REPORT_SEMAPHORE_A", "SET_REPORT_SEMAPHORE_B"),
                    value |-> regs["SET_REPORT_SEMAPHORE_C"]]
      BY <1>1, <2>7, ReleaseServes
    <3>2. signalled' = signalled \cup {x}
      BY <1>1, <2>7, <3>1
    <3>3. TypeOK'
      BY <1>1, <1>2, <3>2 DEF Inv, TypeOK, engine, memory
    <3>4. Signals'
      BY <1>5, <2>1, <3>1, <3>2 DEF Inv, Signals
    <3>5. KQ!Signal
      BY <1>5, <2>1, <3>1, <3>2 DEF KQ!Signal
    <3> QED BY <2>3, <2>4, <2>5, <3>3, <3>4, <3>5 DEF Inv, KQ!Next
  <2> QED BY <2>6, <2>7
<1> QED BY <1>6, <1>7

-----------------------------------------------------------------------------
(* The steps of the host.                                                  *)
LEMMA InitHolds ==
  ASSUME Init
  PROVE  Inv
<1>1. TypeOK
  <2>1. 0 \in Nat /\ 1 \in 0 .. Word32 - 1 /\ Cardinality({}) = 0
    BY DispatchConstants, FS_EmptySet
  <2>2. /\ pc = "unbound" /\ fence = {} /\ wait = FALSE /\ polls = 0 /\ result = "none" /\ calls = 0
        /\ next_fence_value = 1 /\ vramPages = VramPages /\ nextVa = VaBase /\ pushWords = 0
        /\ signalled = {} /\ stale = {} /\ regs = [m \in Methods |-> 0] /\ buffers = [s \in Slots |-> 0]
    BY DEF Init
  <2>3. /\ polls \in 0 .. MaxPolls /\ calls \in 0 .. MaxCalls /\ pushWords \in 0 .. PushWords
        /\ vramPages \in 0 .. VramPages /\ nextVa \in Nat
    BY <2>2, DispatchConstants
  <2>4. /\ fence \subseteq Fences /\ Cardinality(fence) <= 1
        /\ signalled \subseteq Fences /\ stale \subseteq Fences
    BY <2>1, <2>2
  <2>5. regs \in [Methods -> Nat] /\ buffers \in [Slots -> Nat]
    BY <2>1, <2>2
  <2>6. pc \in {"unbound", "idle", "submit", "wait"} /\ wait \in BOOLEAN
        /\ result \in {"none", "true", "false"}
    BY <2>2
  <2> QED BY <2>1, <2>2, <2>3, <2>4, <2>5, <2>6 DEF TypeOK
<1>2. Memory
  <2>1. (VramPages - VramPages) * PageSize = 0
    BY DispatchConstants
  <2> QED BY <2>1, DispatchConstants DEF Init, Memory
<1>3. /\ accepted = << >> /\ launched = << >> /\ signalled = {} /\ stream = << >> /\ fence = {}
      /\ pc = "unbound" /\ Len(accepted) = 0 /\ Len(launched) = 0
  BY DEF Init
<1>4. Kept
  BY <1>3 DEF Kept
<1>5. Calling /\ Signals
  BY <1>3 DEF Calling, Signals, OneFence
<1>6. Machine(<< >>, << >>, 0)
  <2> DEFINE c == << >>
             s == << >>
  <2>1. c \in Seq(Pairs) /\ s \in Seq(Nat) /\ Len(c) = 0 /\ Len(s) = 0
    OBVIOUS
  <2>2. Script(c, s, accepted)
    BY <1>3, <2>1 DEF Script
  <2>3. Remaining(c, 0, stream)
    BY <1>3, <2>1 DEF Remaining
  <2>4. \A m, v : ~ Holds(c, 0, m, v) /\ ~ Binds(c, 0, m, v)
    BY DEF Holds, Binds
  <2> QED BY <1>3, <2>1, <2>2, <2>3, <2>4 DEF Machine
<1> QED BY <1>1, <1>2, <1>4, <1>5, <1>6 DEF Inv

(* Kept, when addresses are only added.                                    *)
LEMMA KeptLater ==
  ASSUME Kept, TypeOK, nextVa' \in Nat, nextVa <= nextVa', UNCHANGED <<accepted, launched>>
  PROVE  Kept'
<1>1. accepted' = accepted /\ launched' = launched /\ accepted \in Seq(Requests) /\ nextVa \in Nat
  BY DEF Kept, TypeOK
<1>2. ASSUME NEW i \in 1 .. Len(accepted), NEW x \in accepted[i].fence PROVE x.va < nextVa'
  <2>1. accepted[i] \in Requests
    BY <1>1
  <2>2. x.va \in Nat
    BY <2>1, RequestFacts, FenceFacts
  <2>3. x.va < nextVa
    BY DEF Kept
  <2> QED BY <1>1, <2>2, <2>3
<1> QED BY <1>1, <1>2 DEF Kept

(* The class is bound before any kernel, and shows in KernelQueue as       *)
(* nothing.                                                                *)
LEMMA BindKeeps ==
  ASSUME Inv, BindToChannel
  PROVE  Inv' /\ UNCHANGED KQ!vars
<1> PICK c, spot, n : Machine(c, spot, n)
  BY DEF Inv
<1>1. /\ pc = "unbound" /\ pc' = "idle" /\ stream' = Encoded(Bind) /\ pushWords' = Words(Bind)
      /\ UNCHANGED <<job, fence, wait, polls, result, calls, next_fence_value, memory, gpu, accepted>>
  BY DEF BindToChannel
<1>2. /\ UNCHANGED <<shaders, vramPages, nextVa, stale, regs, buffers, launched, signalled>>
      /\ accepted' = accepted
  BY <1>1 DEF memory, gpu
<1>3. c = << >> /\ Script(c, spot, accepted) /\ Len(launched) <= Len(accepted)
      /\ launched \in Seq(Launches) /\ accepted \in Seq(Requests)
  BY <1>1 DEF Machine, Inv, Kept
<1>4. spot \in Seq(Nat) /\ Len(spot) = 0 /\ Len(accepted) = 0 /\ Len(launched) = 0
  <2>1. /\ spot \in Seq(Nat) /\ Len(spot) = Len(accepted) /\ Len(c) = 0
        /\ \A i \in 1 .. Len(accepted) : Prepared(c, spot, accepted, i)
    BY <1>3 DEF Script
  <2>2. \A i \in 1 .. Len(accepted) : FALSE
    BY <2>1 DEF Prepared
  <2>3. Len(accepted) \in Nat /\ Len(launched) \in Nat
    BY <1>3
  <2>4. Len(accepted) = 0
    BY <2>2, <2>3
  <2> QED BY <1>3, <2>1, <2>3, <2>4
<1> DEFINE d == Bind
<1>5. d \in Seq(Pairs) /\ Len(d) = 1 /\ d[1] = <<"SET_OBJECT", ClassId>> /\ d # << >>
  BY DispatchConstants, MethodNames DEF Bind, Pairs
<1>6. Remaining(d, 0, stream')
  BY <1>1, <1>5, RemainingAll
<1> HIDE DEF d
<1>7. Script(d, spot, accepted)
  BY <1>4, <1>5 DEF Script, Arranged
<1>8. \A m, v : ~ Holds(d, 0, m, v) /\ ~ Binds(d, 0, m, v)
  BY DEF Holds, Binds
<1>9. Machine(d, spot, 0)'
  BY <1>1, <1>2, <1>4, <1>5, <1>6, <1>7, <1>8 DEF Machine
<1>10. TypeOK'
  <2>1. pushWords' \in 0 .. PushWords
    BY <1>1, <1>5, BindFits, DispatchConstants DEF Words, d
  <2> QED BY <1>1, <1>2, <2>1 DEF Inv, TypeOK
<1>11. Memory' /\ Calling'
  BY <1>1, <1>2 DEF Inv, Memory, Calling
<1>12. Kept'
  <2>1. nextVa' = nextVa /\ nextVa \in Nat /\ UNCHANGED <<accepted, launched>>
    BY <1>2 DEF Inv, TypeOK
  <2> QED BY <2>1, KeptLater DEF Inv
<1>13. Signals'
  BY <1>2 DEF Inv, Signals
<1> QED BY <1>2, <1>9, <1>10, <1>11, <1>12, <1>13 DEF Inv, KQ!vars

(* Whatever leaves the GPU alone and submits nothing keeps the machine.    *)
LEMMA MachineKept ==
  ASSUME NEW c, NEW spot, NEW n, Machine(c, spot, n),
         UNCHANGED <<stream, gpu, accepted>>, pc = "unbound" <=> pc' = "unbound"
  PROVE  Machine(c, spot, n)' /\ UNCHANGED KQ!vars
BY DEF Machine, gpu, KQ!vars

(* A grant moves the next address past what it grants.                     *)
LEMMA AllocateFacts ==
  ASSUME TypeOK, Memory, NEW pages \in Nat, Allocate(pages)
  PROVE  /\ vramPages' \in 0 .. VramPages /\ nextVa' \in Nat
         /\ nextVa' = VaBase + (VramPages - vramPages') * PageSize
         /\ nextVa <= nextVa' /\ (pages > 0 => nextVa < nextVa')
         /\ nextVa \in Nat /\ nextVa < Word32 * Word32
<1> DEFINE p == VramPages - vramPages
<1>1. /\ vramPages \in 0 .. VramPages /\ nextVa \in Nat /\ nextVa = VaBase + p * PageSize
      /\ pages <= vramPages /\ vramPages' = vramPages - pages
      /\ nextVa' = nextVa + pages * PageSize
  BY DEF TypeOK, Memory, Allocate
<1>2. p \in Nat /\ VramPages - vramPages' = p + pages /\ vramPages' \in 0 .. VramPages
  BY <1>1, DispatchConstants
<1> HIDE DEF p
<1>3. PageSize * (p + pages) = PageSize * p + PageSize * pages
  BY <1>2, DispatchConstants, Distributes
<1>4. /\ (p + pages) * PageSize = PageSize * (p + pages) /\ p * PageSize = PageSize * p
      /\ pages * PageSize = PageSize * pages
  BY <1>2, DispatchConstants
<1> DEFINE a == PageSize * p
           b == PageSize * pages
<1>5. a \in Nat /\ b \in Nat /\ (pages > 0 => b > 0)
  <2>1. a \in Nat /\ b \in Nat
    BY <1>2, DispatchConstants
  <2>2. ASSUME pages > 0 PROVE b > 0
    BY <2>2, DispatchConstants, WordMultiple
  <2> QED BY <2>1, <2>2
<1> HIDE DEF a, b
<1>6. nextVa = VaBase + a /\ nextVa' = nextVa + b /\ (p + pages) * PageSize = a + b
  BY <1>1, <1>3, <1>4 DEF a, b
<1>7. nextVa \in Nat /\ nextVa < Word32 * Word32
  BY MemoryFacts
<1>8. nextVa' = VaBase + (VramPages - vramPages') * PageSize
  <2> DEFINE u == VramPages - vramPages'
  <2>1. u = p + pages
    BY <1>2
  <2> HIDE DEF u
  <2>2. u * PageSize = a + b
    BY <1>6, <2>1
  <2>3. nextVa' = VaBase + u * PageSize
    BY <1>5, <1>6, <2>2, DispatchConstants
  <2> QED BY <2>3 DEF u
<1> QED BY <1>1, <1>2, <1>5, <1>6, <1>7, <1>8

(* Loading a shader and the allocations of others only move addresses.     *)
LEMMA MemoryStepKeeps ==
  ASSUME Inv, LoadShader \/ OtherAllocate
  PROVE  Inv' /\ UNCHANGED KQ!vars
<1> PICK c, spot, n : Machine(c, spot, n)
  BY DEF Inv
<1>1. UNCHANGED <<engine, stale, pushWords, stream, gpu, accepted>>
  BY DEF LoadShader, OtherAllocate
<1>2. /\ UNCHANGED <<pc, job, fence, wait, polls, result, calls, next_fence_value>>
      /\ UNCHANGED <<stale, pushWords, stream, regs, buffers, launched, signalled, accepted>>
  BY <1>1 DEF engine, gpu
<1>3. TypeOK /\ Memory /\ Kept /\ Calling /\ Signals
  BY DEF Inv
<1>4. PICK pages \in Nat : Allocate(pages)
  <2>1. CASE LoadShader
    <3>1. PICK b \in Binaries : Allocate(b.pages)
      BY <2>1 DEF LoadShader
    <3>2. b.pages \in Nat
      BY DispatchAssumption
    <3> QED BY <3>1, <3>2
  <2>2. CASE OtherAllocate
    BY <2>2 DEF OtherAllocate
  <2> QED BY <2>1, <2>2
<1>5. /\ vramPages' \in 0 .. VramPages /\ nextVa' \in Nat /\ nextVa <= nextVa'
      /\ nextVa' = VaBase + (VramPages - vramPages') * PageSize
      /\ nextVa \in Nat /\ nextVa < Word32 * Word32
  BY <1>3, <1>4, AllocateFacts
<1>6. shaders' \subseteq ShaderRecords /\ \A s \in shaders' : s.va < Word32 * Word32
  <2>1. CASE OtherAllocate
    BY <1>3, <2>1 DEF OtherAllocate, Memory
  <2>2. CASE LoadShader
    <3>1. PICK b \in Binaries : shaders' = shaders \cup {[va |-> nextVa, entry_offset |-> b.entry_offset,
                                                       shared_mem_size |-> b.shared_mem_size]}
      BY <2>2 DEF LoadShader
    <3>2. b.entry_offset \in Nat /\ b.shared_mem_size \in Nat
      BY DispatchAssumption
    <3>3. [va |-> nextVa, entry_offset |-> b.entry_offset, shared_mem_size |-> b.shared_mem_size]
            \in ShaderRecords
      BY <1>5, <3>2 DEF ShaderRecords
    <3> QED BY <1>3, <1>5, <3>1, <3>3 DEF Memory
  <2> QED BY <2>1, <2>2
<1>7. Memory'
  BY <1>5, <1>6 DEF Memory
<1>8. TypeOK'
  BY <1>2, <1>3, <1>5 DEF TypeOK
<1>9. Kept'
  BY <1>2, <1>3, <1>5, KeptLater
<1>10. Signals'
  BY <1>2, <1>3 DEF Signals
<1>11. Calling'
  <2>1. ASSUME pc = "submit", NEW x \in fence PROVE x.va < nextVa'
    <3>1. fence \subseteq Fences /\ x.va < nextVa
      BY <1>3, <2>1 DEF TypeOK, Calling
    <3>2. x.va \in Nat
      BY <3>1, FenceFacts
    <3> QED BY <1>5, <3>1, <3>2
  <2> QED BY <1>2, <1>3, <2>1 DEF Calling
<1>12. Machine(c, spot, n)' /\ UNCHANGED KQ!vars
  BY <1>1, <1>2, MachineKept
<1> QED BY <1>7, <1>8, <1>9, <1>10, <1>11, <1>12 DEF Inv

(* The steps of a call that neither allocate nor submit.                   *)
LEMMA QuietStepKeeps ==
  ASSUME Inv, SubmitRefused \/ Poll \/ WaitTimeout \/ ResetPushBuffer
  PROVE  Inv' /\ UNCHANGED KQ!vars
<1> PICK c, spot, n : Machine(c, spot, n)
  BY DEF Inv
<1>1. /\ UNCHANGED <<job, fence, wait, calls, next_fence_value>> /\ UNCHANGED <<memory, stream, gpu, accepted>>
      /\ pc # "unbound" /\ pc' # "unbound" /\ (pc' = pc \/ pc' = "idle")
      /\ pushWords' \in {0, pushWords} /\ result' \in {"false", result}
      /\ polls' = polls \/ (polls < MaxPolls /\ polls' = polls + 1)
  BY DEF SubmitRefused, Poll, WaitTimeout, ResetPushBuffer, engine
<1>2. UNCHANGED <<shaders, vramPages, nextVa, stale, regs, buffers, launched, signalled>>
  BY <1>1 DEF memory, gpu
<1>3. TypeOK /\ Memory /\ Kept /\ Calling /\ Signals
  BY DEF Inv
<1>4. TypeOK'
  <2>1. /\ polls' \in 0 .. MaxPolls /\ pushWords' \in 0 .. PushWords
    BY <1>1, <1>3, DispatchConstants DEF TypeOK
  <2>2. /\ pc' \in {"unbound", "idle", "submit", "wait"} /\ result' \in {"none", "true", "false"}
    BY <1>1, <1>3 DEF TypeOK
  <2> QED BY <1>1, <1>2, <1>3, <2>1, <2>2 DEF TypeOK
<1>5. Memory' /\ Calling'
  BY <1>1, <1>2, <1>3 DEF Memory, Calling
<1>6. Kept'
  <2>1. nextVa' = nextVa /\ nextVa \in Nat /\ UNCHANGED <<accepted, launched>>
    BY <1>1, <1>2, <1>3 DEF TypeOK
  <2> QED BY <1>3, <2>1, KeptLater
<1>8. Signals'
  BY <1>1, <1>2, <1>3 DEF Signals
<1>7. Machine(c, spot, n)' /\ UNCHANGED KQ!vars
  BY <1>1, MachineKept
<1> QED BY <1>4, <1>5, <1>6, <1>7, <1>8 DEF Inv

(* dispatch begins: its fence, if it gets one, is at an address of its own.*)
LEMMA CallKeeps ==
  ASSUME Inv, NEW j \in Jobs, NEW s \in shaders,
         CallNoWait(j, s) \/ CallWait(j, s) \/ CallWaitNoFence(j, s)
  PROVE  Inv' /\ UNCHANGED KQ!vars
<1> PICK c, spot, n : Machine(c, spot, n)
  BY DEF Inv
<1>1. /\ pc = "idle" /\ calls < MaxCalls
      /\ pc' = "submit" /\ calls' = calls + 1 /\ result' = "none" /\ polls' = 0
      /\ job' = [shader |-> s, block |-> j.block, grid |-> j.grid, buffers |-> j.buffers]
      /\ UNCHANGED <<shaders, pushWords, stream, gpu, accepted>>
  BY DEF CallNoWait, CallWait, CallWaitNoFence, Call
<1>2. /\ UNCHANGED <<shaders, pushWords, stream, regs, buffers, launched, signalled>>
      /\ accepted' = accepted
  BY <1>1 DEF gpu
<1>3. TypeOK /\ Memory /\ Kept /\ Calling /\ Signals
  BY DEF Inv
<1>4. /\ job' \in Kernels /\ job'.shader = s /\ s.va < Word32 * Word32
      /\ OneBufferPerSlot => Distinct(job'.buffers)
  <2>1. s \in ShaderRecords /\ s.va < Word32 * Word32
    BY <1>3 DEF Memory
  <2>2. j.block \in Triples /\ j.grid \in Triples /\ j.buffers \in Seq(Bindings)
    BY DispatchAssumption, SlotsAreNumbers DEF Triples
  <2>3. job'.buffers = j.buffers
    BY <1>1
  <2> QED BY <1>1, <2>1, <2>2, <2>3 DEF Kernels, OneBufferPerSlot
<1>5. next_fence_value \in Nat /\ NextFence(next_fence_value) \in 0 .. Word32 - 1
  <2>1. next_fence_value \in Nat /\ Word32 \in Nat \ {0}
    BY <1>3, DispatchConstants DEF TypeOK
  <2> QED BY <2>1, ModFacts DEF NextFence
<1>6. /\ wait' \in BOOLEAN /\ next_fence_value' \in 0 .. Word32 - 1
      /\ vramPages' \in 0 .. VramPages /\ nextVa' \in Nat /\ nextVa <= nextVa'
      /\ nextVa' = VaBase + (VramPages - vramPages') * PageSize
      /\ \/ fence' = {}
         \/ /\ fence' = {[va |-> nextVa, value |-> next_fence_value]}
            /\ nextVa < nextVa'
      /\ stale' \subseteq stale \cup fence'
  <2>1. CASE CallNoWait(j, s)
    <3>1. /\ wait' = FALSE /\ fence' = {} /\ next_fence_value' = next_fence_value
          /\ vramPages' = vramPages /\ nextVa' = nextVa /\ stale' = stale
      BY <2>1 DEF CallNoWait
    <3>2. /\ next_fence_value \in 0 .. Word32 - 1 /\ vramPages \in 0 .. VramPages /\ nextVa \in Nat
          /\ nextVa = VaBase + (VramPages - vramPages) * PageSize
      BY <1>3 DEF TypeOK, Memory
    <3>3. nextVa' = VaBase + (VramPages - vramPages') * PageSize
      BY <3>1, <3>2, Zenon
    <3>4. nextVa <= nextVa'
      <4>1. nextVa \in Nat
        BY <3>2
      <4> QED BY <3>1, <4>1
    <3> QED BY <3>1, <3>2, <3>3, <3>4
  <2>2. CASE CallWait(j, s)
    <3>1. /\ wait' = TRUE /\ next_fence_value' = NextFence(next_fence_value) /\ Allocate(1)
          /\ fence' = {[va |-> nextVa, value |-> next_fence_value]}
      BY <2>2 DEF CallWait
    <3>2. 1 \in Nat /\ 1 > 0
      OBVIOUS
    <3>3. stale' \subseteq stale \cup fence'
      BY <2>2 DEF CallWait
    <3> QED BY <1>3, <1>5, <3>1, <3>2, <3>3, AllocateFacts
  <2>3. CASE CallWaitNoFence(j, s)
    BY <1>3, <1>5, <2>3 DEF CallWaitNoFence, TypeOK, Memory
  <2> QED BY <2>1, <2>2, <2>3
<1>7. nextVa \in Nat /\ next_fence_value \in 0 .. Word32 - 1
  BY <1>3 DEF TypeOK
<1> DEFINE x == [va |-> nextVa, value |-> next_fence_value]
<1>8. x \in Fences /\ x.va = nextVa
  BY <1>7 DEF Fences
<1>9. OneFence(fence') /\ fence' \subseteq Fences /\ Cardinality(fence') <= 1
  <2>1. Cardinality({}) = 0 /\ Cardinality({x}) = 1
    BY FS_EmptySet, FS_Singleton
  <2> HIDE DEF x
  <2>2. fence' = {} \/ fence' = {x}
    BY <1>6 DEF x
  <2> QED BY <1>8, <2>1, <2>2 DEF OneFence
<1>10. TypeOK'
  <2>1. polls' \in 0 .. MaxPolls /\ calls' \in 0 .. MaxCalls
    BY <1>1, <1>3, DispatchConstants DEF TypeOK
  <2>2. stale' \subseteq Fences
    BY <1>3, <1>6, <1>9 DEF TypeOK
  <2> QED BY <1>1, <1>2, <1>3, <1>6, <1>9, <2>1, <2>2 DEF TypeOK
<1>11. Memory'
  BY <1>2, <1>3, <1>6 DEF Memory
<1>12. Kept'
  BY <1>2, <1>3, <1>6, KeptLater
<1>13. Signals'
  BY <1>2, <1>3 DEF Signals
<1>14. Calling'
  <2>1. ASSUME NEW y \in fence'
        PROVE  /\ y.va < nextVa'
               /\ \A i \in 1 .. Len(accepted) : \A z \in accepted[i].fence : y.va # z.va
    <3>1. y.va = nextVa /\ nextVa < nextVa'
      BY <1>6, <1>8, <2>1
    <3>2. ASSUME NEW i \in 1 .. Len(accepted), NEW z \in accepted[i].fence PROVE z.va # nextVa
      <4>1. z.va < nextVa
        BY <1>3 DEF Kept
      <4>2. accepted[i] \in Requests
        BY <1>3 DEF Kept
      <4>3. z.va \in Nat
        BY <4>2, RequestFacts, FenceFacts
      <4> QED BY <1>7, <4>1, <4>3
    <3> QED BY <3>1, <3>2
  <2> QED BY <1>1, <1>2, <1>4, <1>9, <2>1 DEF Calling
<1>15. Machine(c, spot, n)' /\ UNCHANGED KQ!vars
  BY <1>1, MachineKept
<1> QED BY <1>10, <1>11, <1>12, <1>13, <1>14, <1>15 DEF Inv

(* The commands of the kernel join the script, and its fence the fences.   *)
LEMMA SubmitKeeps ==
  ASSUME Inv, Submit
  PROVE  Inv' /\ KQ!Accept
<1> PICK c, spot, n : Machine(c, spot, n)
  BY DEF Inv
<1> DEFINE d == Commands(job, fence)
           x == Kernel(job, fence)
           A == Len(accepted)
<1>1. /\ pc = "submit" /\ HasRoom(d) /\ stream' = stream \o Encoded(d)
      /\ pushWords' = pushWords + Words(d) /\ accepted' = Append(accepted, x)
      /\ pc' \in {"idle", "wait"} /\ result' \in {"true", result}
      /\ UNCHANGED <<job, fence, wait, polls, calls, next_fence_value, memory, gpu>>
  BY DEF Submit
<1>2. UNCHANGED <<shaders, vramPages, nextVa, stale, regs, buffers, launched, signalled>>
  BY <1>1 DEF memory, gpu
<1>3. TypeOK /\ Memory /\ Kept /\ Calling /\ Signals
  BY DEF Inv
<1>4. /\ job \in Kernels /\ job.shader.va < Word32 * Word32
      /\ OneBufferPerSlot => Distinct(job.buffers)
      /\ OneFence(fence) /\ \A y \in fence : y.va < nextVa
      /\ \A y \in fence : \A i \in 1 .. Len(accepted) : \A z \in accepted[i].fence : y.va # z.va
  BY <1>1, <1>3 DEF Calling
<1>5. /\ Script(c, spot, accepted) /\ Remaining(c, n, stream) /\ c # << >> /\ c \in Seq(Pairs)
      /\ \A m \in Methods : \A v : Holds(c, n, m, v) => regs[m] = v
      /\ \A s \in Slots : \A v : Binds(c, n, s, v) => buffers[s] = v
      /\ Len(launched) <= A
      /\ \A i \in 1 .. A : i <= Len(launched) <=> spot[i] <= n
  BY <1>1 DEF Machine, Script
<1>6. accepted \in Seq(Requests) /\ A \in Nat /\ launched \in Seq(Launches) /\ Len(launched) \in Nat
  BY <1>3 DEF Kept
<1>7. d \in Seq(Pairs) /\ Len(d) \in Nat
  BY <1>4, BlockParts
<1>8. /\ x \in Requests /\ x.program = job.shader /\ x.fence = fence
  <2>1. /\ job.shader \in ShaderRecords /\ job.block \in Triples /\ job.grid \in Triples
        /\ job.buffers \in Seq(Bindings)
    BY <1>4 DEF Kernels
  <2>2. {job.buffers[i] : i \in DOMAIN job.buffers} \subseteq Bindings
    BY <2>1
  <2>3. fence \subseteq Fences
    BY <1>3 DEF TypeOK
  <2> QED BY <2>1, <2>2, <2>3 DEF Kernel, Requests
<1> DEFINE l == Len(c) + (11 + 2 * Len(job.buffers))
           e == c \o d
           spot2 == Append(spot, l)
<1>9. Script(e, spot2, Append(accepted, x))
  BY <1>4, <1>5, <1>6, ScriptGrows
<1>10. Remaining(e, n, stream \o Encoded(d))
  BY <1>5, <1>7, RemainingMore
<1>11. n \in 0 .. Len(c) /\ Len(c) \in Nat
  BY <1>5 DEF Remaining
<1>12. /\ \A m, v : Holds(e, n, m, v) <=> Holds(c, n, m, v)
       /\ \A s, v : Binds(e, n, s, v) <=> Binds(c, n, s, v)
  BY <1>5, <1>7, <1>11, LeftBefore
<1>13. e # << >>
  <2>1. Len(c) # 0
    BY <1>5
  <2>2. Len(e) = Len(c) + Len(d)
    BY <1>5, <1>7, ConcatFacts
  <2>3. Len(e) # 0
    BY <1>7, <1>11, <2>1, <2>2
  <2> QED BY <2>3
<1>14. l \in Nat /\ l > n
  <2>1. Len(job.buffers) \in Nat
    BY <1>4 DEF Kernels
  <2> QED BY <1>11, <2>1
<1> HIDE DEF d, x, l, e
<1>15. /\ Len(accepted') = A + 1 /\ accepted'[A + 1] = x /\ accepted' \in Seq(Requests)
       /\ \A i \in 1 .. A : accepted'[i] = accepted[i]
  BY <1>1, <1>6, <1>8
<1>16. /\ spot2[A + 1] = l /\ \A i \in 1 .. A : spot2[i] = spot[i]
  <2>1. spot \in Seq(Nat) /\ Len(spot) = A
    BY <1>5 DEF Script
  <2> QED BY <1>6, <1>14, <2>1
<1> HIDE DEF spot2, A
<1>17. ASSUME NEW i \in 1 .. A + 1 PROVE i <= Len(launched) <=> spot2[i] <= n
  <2>1. CASE i \in 1 .. A
    BY <1>5, <1>16, <2>1
  <2>2. CASE i = A + 1
    BY <1>5, <1>6, <1>11, <1>14, <1>16, <2>2
  <2> QED BY <1>6, <2>1, <2>2
<1>18. accepted' = Append(accepted, x) /\ stream' = stream \o Encoded(d) /\ pc' # "unbound"
  BY <1>1
<1>19. \A k \in 1 .. Len(accepted') : k \in 1 .. A + 1
  BY <1>15
<1>20. Len(launched') <= Len(accepted')
  BY <1>2, <1>5, <1>6, <1>15
<1>21. Script(e, spot2, accepted') /\ Remaining(e, n, stream')
  BY <1>9, <1>10, <1>18
<1>22. \E C, S, N : Machine(C, S, N)'
  <2>1. ASSUME NEW CONSTANT C, NEW CONSTANT S, NEW CONSTANT N, C = e, S = spot2, N = n PROVE Machine(C, S, N)'
    BY <1>2, <1>5, <1>12, <1>13, <1>15, <1>17, <1>18, <1>20, <1>21, <2>1 DEF Machine
  <2> QED BY <2>1
<1>23. TypeOK'
  <2>1. pushWords' \in 0 .. PushWords
    <3>1. Words(d) \in Nat /\ pushWords + Words(d) <= PushWords /\ pushWords' = pushWords + Words(d)
      BY <1>1, <1>7 DEF HasRoom, Words
    <3>2. pushWords \in 0 .. PushWords
      BY <1>3 DEF TypeOK
    <3> QED BY <3>1, <3>2, DispatchConstants
  <2>2. pc' \in {"unbound", "idle", "submit", "wait"} /\ result' \in {"none", "true", "false"}
    BY <1>1, <1>3 DEF TypeOK
  <2> QED BY <1>1, <1>2, <1>3, <2>1, <2>2 DEF TypeOK
<1>24. Memory' /\ Calling'
  BY <1>1, <1>2, <1>3 DEF Memory, Calling
<1>25. Signals'
  <2>1. ASSUME NEW y \in signalled PROVE \E i \in 1 .. Len(launched) : accepted'[i].fence = {y}
    <3>1. PICK i \in 1 .. Len(launched) : accepted[i].fence = {y}
      BY <1>3 DEF Signals
    <3>2. i \in 1 .. A
      BY <1>5, <1>6, <3>1
    <3> QED BY <1>15, <3>1, <3>2
  <2> QED BY <1>2, <2>1 DEF Signals
<1>26. Kept'
  <2>1. \A i \in 1 .. A :
          /\ accepted[i].program.va < Word32 * Word32 /\ OneFence(accepted[i].fence)
          /\ \A y \in accepted[i].fence : y.va < nextVa
          /\ \A j \in 1 .. A : i # j =>
               \A y \in accepted[i].fence, z \in accepted[j].fence : y.va # z.va
    BY <1>3 DEF Kept, A
  <2>2. /\ x.program.va < Word32 * Word32 /\ OneFence(x.fence)
        /\ \A y \in x.fence : y.va < nextVa
        /\ \A y \in x.fence : \A i \in 1 .. A : \A z \in accepted[i].fence : y.va # z.va
    BY <1>4, <1>8 DEF A
  <2>3. \A i \in 1 .. Len(accepted') :
          \/ i \in 1 .. A /\ accepted'[i] = accepted[i]
          \/ i = A + 1 /\ accepted'[i] = x
    BY <1>6, <1>15 DEF A
  <2>4. launched' \in Seq(Launches) /\ nextVa' = nextVa
    BY <1>2, <1>6
  <2>5. ASSUME NEW i \in 1 .. Len(accepted')
        PROVE  /\ accepted'[i].program.va < Word32 * Word32
               /\ OneFence(accepted'[i].fence)
               /\ \A y \in accepted'[i].fence : y.va < nextVa
    BY <2>1, <2>2, <2>3
  <2>6. ASSUME NEW i \in 1 .. Len(accepted'), NEW j \in 1 .. Len(accepted'), i # j,
               NEW y \in accepted'[i].fence, NEW z \in accepted'[j].fence
        PROVE  y.va # z.va
    <3>1. CASE i \in 1 .. A /\ accepted'[i] = accepted[i]
      <4>1. CASE j \in 1 .. A /\ accepted'[j] = accepted[j]
        BY <2>1, <2>6, <3>1, <4>1
      <4>2. CASE j = A + 1 /\ accepted'[j] = x
        BY <2>2, <2>6, <3>1, <4>2
      <4> QED BY <2>3, <4>1, <4>2
    <3>2. CASE i = A + 1 /\ accepted'[i] = x
      <4>1. j \in 1 .. A /\ accepted'[j] = accepted[j]
        BY <2>3, <2>6, <3>2
      <4> QED BY <2>2, <2>6, <3>2, <4>1
    <3> QED BY <2>3, <3>1, <3>2
  <2> QED BY <1>15, <2>4, <2>5, <2>6 DEF Kept
<1>27. KQ!Accept
  BY <1>2, <1>15, <1>18 DEF KQ!Accept, A
<1> QED BY <1>22, <1>23, <1>24, <1>25, <1>26, <1>27 DEF Inv

-----------------------------------------------------------------------------
(* Every step keeps the invariant, and maps to KernelQueue.                *)
LEMMA StepKeeps ==
  ASSUME Inv, Next
  PROVE  Inv' /\ (OneBufferPerSlot => [KQ!Next]_(KQ!vars))
<1>1. CASE BindToChannel
  BY <1>1, BindKeeps
<1>2. CASE LoadShader \/ OtherAllocate
  BY <1>2, MemoryStepKeeps
<1>3. CASE Submit
  BY <1>3, SubmitKeeps DEF KQ!Next
<1>4. CASE SubmitRefused \/ Poll \/ WaitTimeout \/ ResetPushBuffer
  BY <1>4, QuietStepKeeps
<1>5. CASE \E j \in Jobs, s \in shaders :
             CallNoWait(j, s) \/ CallWait(j, s) \/ CallWaitNoFence(j, s)
  BY <1>5, CallKeeps
<1>6. CASE GpuMethod
  BY <1>6, GpuKeeps
<1> QED BY <1>1, <1>2, <1>3, <1>4, <1>5, <1>6 DEF Next, Continue

(* So does a step that changes nothing.                                    *)
LEMMA StutterKeeps ==
  ASSUME Inv, UNCHANGED vars
  PROVE  Inv' /\ UNCHANGED KQ!vars
<1> PICK c, spot, n : Machine(c, spot, n)
  BY DEF Inv
<1>1. UNCHANGED <<pc, job, fence, wait, polls, result, calls, next_fence_value, shaders, vramPages,
                  nextVa, stale, pushWords, stream, regs, buffers, launched, signalled, accepted>>
  BY DEF vars, engine, memory, gpu
<1>2. Machine(c, spot, n)' /\ UNCHANGED KQ!vars
  BY <1>1, MachineKept DEF gpu
<1>3. TypeOK'
  BY <1>1 DEF Inv, TypeOK
<1>4. Memory' /\ Calling' /\ Signals'
  BY <1>1 DEF Inv, Memory, Calling, Signals
<1>5. Kept'
  <2>1. nextVa' = nextVa /\ nextVa \in Nat /\ UNCHANGED <<accepted, launched>>
    BY <1>1 DEF Inv, TypeOK
  <2> QED BY <2>1, KeptLater DEF Inv
<1> QED BY <1>2, <1>3, <1>4, <1>5 DEF Inv

(* Every reachable state is what some script of commands, carried out up   *)
(* to a point, leaves behind: the strengthening that the properties of     *)
(* Dispatch follow from.                                                   *)
THEOREM Invariance == Spec => []Inv
<1>1. Init => Inv
  BY InitHolds
<1>2. Inv /\ [Next]_vars => Inv'
  BY StepKeeps, StutterKeeps
<1> QED BY <1>1, <1>2, PTL DEF Spec

(* Whatever jobs and shaders there are, every variable of the engine, of   *)
(* the allocator and of the GPU keeps its type.                            *)
THEOREM TypeCorrect == Spec => []TypeOK
<1>1. Inv => TypeOK
  BY DEF Inv
<1> QED BY <1>1, Invariance, PTL

(* For any number of calls and words of any size, while fewer entries are  *)
(* pending than the ring has slots: memory that did not hold the value of  *)
(* a fence from the start shows it only when its kernel, and every kernel  *)
(* accepted before it, has been launched (GpuFence,                        *)
(* build_dispatch_commands).                                               *)
THEOREM FencesMeanDone == Spec => []FenceMeansDone
<1>1. Inv => FenceMeansDone
  <2> SUFFICES ASSUME Inv, NEW i \in DOMAIN accepted, accepted[i].fence # {},
                      accepted[i].fence \subseteq Shown, accepted[i].fence \cap stale = {}
               PROVE  i <= Len(launched)
    BY DEF FenceMeansDone
  <2>1. PICK c, spot, n : Machine(c, spot, n)
    BY DEF Inv
  <2>2. /\ i \in 1 .. Len(accepted) /\ Len(launched) <= Len(accepted)
        /\ Len(accepted) \in Nat /\ Len(launched) \in Nat
    BY <2>1 DEF Inv, Kept, Machine
  <2>3. PICK x : x \in accepted[i].fence /\ x \in signalled
    BY DEF Shown
  <2>4. PICK j \in 1 .. Len(launched) : accepted[j].fence = {x}
    BY <2>3 DEF Inv, Signals
  <2>5. j \in 1 .. Len(accepted) /\ x \in accepted[j].fence
    BY <2>2, <2>4
  <2>6. i = j
    BY <2>2, <2>3, <2>5 DEF Inv, Kept
  <2> QED BY <2>2, <2>4, <2>6
<1> QED BY <1>1, Invariance, PTL

(* The registers keep what they hold and every kernel overwrites what it   *)
(* needs: if no job binds two buffers to one slot, the engine and the GPU  *)
(* together launch each accepted kernel once, in order and as asked, and   *)
(* signal its fence afterwards - for callers who keep the ring from being  *)
(* overrun, as Call has them do.                                           *)
THEOREM Refinement == OneBufferPerSlot => (Spec => Implements)
<1> SUFFICES ASSUME OneBufferPerSlot PROVE Spec => KQ!Spec
  BY DEF Implements
<1>1. Init => KQ!Init
  BY DEF Init, KQ!Init
<1>2. Inv /\ [Next]_vars => [KQ!Next]_(KQ!vars)
  BY StepKeeps, StutterKeeps
<1> QED BY <1>1, <1>2, Invariance, PTL DEF Spec, KQ!Spec
=============================================================================
