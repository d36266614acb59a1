------------------------- MODULE VramAllocatorProofs -------------------------
(***************************************************************************)
(* Proofs about VramAllocator for any number of threads and calls, any     *)
(* sizes and any page size, VRAM size and word width.                      *)
(***************************************************************************)
EXTENDS VramAllocator, ModArithmetic, TLAPS

(* A rounded size is a number of bytes.                                    *)
LEMMA AlignUpNat ==
  ASSUME NEW s \in Nat
  PROVE  AlignUp(s) \in Nat
<1> DEFINE x == (s + PageSize - 1) % Word
<1>1. x \in Nat
  BY WidthAssumption
<1> HIDE DEF x
<1>2. x % PageSize \in Nat /\ x % PageSize <= x
  BY <1>1, ModFacts, WidthAssumption
<1>3. x - (x % PageSize) \in Nat
  BY <1>1, <1>2
<1> QED BY <1>3 DEF AlignUp, x

(* A request is rounded up to the next whole number of pages.              *)
LEMMA AlignUpCovers ==
  ASSUME NEW s \in Sizes
  PROVE  AlignUp(s) \in Nat /\ VH!Covers(AlignUp(s), s)
<1> DEFINE x == s + PageSize - 1
<1>1. s \in Nat /\ x \in Nat /\ x < Word
  BY SizesAssumption, WidthAssumption
<1>2. x % Word = x
  BY <1>1, WidthAssumption
<1>3. AlignUp(s) = x - (x % PageSize)
  BY <1>2 DEF AlignUp
<1>4. x % PageSize \in 0 .. PageSize - 1 /\ (x - (x % PageSize)) % PageSize = 0
  BY <1>1, ModFacts, WidthAssumption
<1> HIDE DEF x
<1>5. s <= x - (x % PageSize) /\ x - (x % PageSize) < s + PageSize
  BY <1>1, <1>4, WidthAssumption DEF x
<1> QED BY <1>1, <1>3, <1>4, <1>5, AlignUpNat DEF VH!Covers

-----------------------------------------------------------------------------
(* Type correctness: in particular a region is never cut by more than it   *)
(* holds.                                                                  *)
LEMMA TypeInit == Init => TypeOK
<1> SUFFICES ASSUME Init PROVE TypeOK
  OBVIOUS
<1>1. total \in Nat
  BY WidthAssumption DEF Init, DecodeVramSize
<1>2. Capacity \in Nat
  BY <1>1, WidthAssumption DEF Capacity, CapacityOf
<1>3. granted \in Seq(Blocks)
  BY DEF Init
<1> QED BY <1>1, <1>2, <1>3, WidthAssumption
        DEF Init, TypeOK, PCs, Idle, NoRegion

LEMMA TypeNext == TypeOK /\ [Next]_vars => TypeOK'
<1> SUFFICES ASSUME TypeOK, [Next]_vars PROVE TypeOK'
  OBVIOUS
<1>c. \A t \in Callers : call[t].size \in Nat
  BY SizesAssumption DEF TypeOK
<1>n. \A t \in Callers : AlignUp(call[t].size) \in Nat
  BY <1>c, AlignUpNat
<1>v. \A t \in Callers : va[t] \in Nat /\ va[t] \in 0 .. Word - 1
  BY WidthAssumption DEF TypeOK
<1>r. \A t \in Callers : seen[t].start \in Nat /\ seen[t].size \in Nat
  BY DEF TypeOK
<1> USE DEF shared
<1>1. ASSUME NEW t \in Callers, BeginAllocate(t) PROVE TypeOK'
  <2>1. PICK s \in Sizes : Begin(t, "alloc", s, "list")
    BY <1>1 DEF BeginAllocate
  <2>2. pc' \in [Callers -> PCs]
    BY <2>1 DEF TypeOK, Begin, PCs
  <2>3. call' \in [Callers -> [op : {"idle", "alloc", "dma"}, size : Sizes \cup {0}]]
    BY <2>1 DEF TypeOK, Begin
  <2>4. calls' \in [Callers -> Nat]
    BY <2>1, SMTT(30) DEF TypeOK, Begin
  <2> QED BY <2>1, <2>2, <2>3, <2>4 DEF TypeOK, Begin
<1>2. ASSUME NEW t \in Callers, BeginMapSystem(t) PROVE TypeOK'
  <2>1. PICK s \in Sizes : Begin(t, "dma", s, "dma")
    BY <1>2 DEF BeginMapSystem
  <2>2. pc' \in [Callers -> PCs]
    BY <2>1 DEF TypeOK, Begin, PCs
  <2>3. call' \in [Callers -> [op : {"idle", "alloc", "dma"}, size : Sizes \cup {0}]]
    BY <2>1 DEF TypeOK, Begin
  <2>4. calls' \in [Callers -> Nat]
    BY <2>1, SMTT(30) DEF TypeOK, Begin
  <2> QED BY <2>1, <2>2, <2>3, <2>4 DEF TypeOK, Begin
<1>3. ASSUME NEW t \in Callers, LockFreeList(t) PROVE TypeOK'
  BY <1>3 DEF TypeOK, LockFreeList, PCs
<1>4. ASSUME NEW t \in Callers, TakeRegion(t) PROVE TypeOK'
  <2>1. freeRegion' \in [start : Nat, size : Nat]
    <3>1. seen[t].size >= AlignUp(call[t].size)
      BY <1>4 DEF TakeRegion, Fits
    <3>2. seen[t].start + AlignUp(call[t].size) \in Nat /\ seen[t].size - AlignUp(call[t].size) \in Nat
      BY <1>n, <1>r, <3>1
    <3> QED BY <1>4, <3>2 DEF TakeRegion, Cut
  <2> QED BY <1>4, <2>1 DEF TypeOK, TakeRegion, PCs
<1>5. ASSUME NEW t \in Callers, RefuseAllocate(t) PROVE TypeOK'
  BY <1>5, WidthAssumption DEF TypeOK, RefuseAllocate, Leave, PCs, Idle, NoRegion
<1>6. ASSUME NEW t \in Callers, LockNextVa(t) PROVE TypeOK'
  BY <1>6 DEF TypeOK, LockNextVa, PCs
<1>7. ASSUME NEW t \in Callers, NEW block \in Blocks, Return(t, block),
             listLock' \in Callers \cup {Nobody}
      PROVE  TypeOK'
  <2>1. block.size \in Nat /\ va[t] + block.size \in Nat
    <3>1. block.size \in Nat
      BY DEF Blocks
    <3> QED BY <1>v, <3>1
  <2>2. nextVa' \in 0 .. Word - 1
    BY <1>7, <2>1, ModFacts, WidthAssumption DEF Return
  <2>3. issued' \in Nat
    <3>1. issued \in Nat
      BY DEF TypeOK
    <3> QED BY <1>7, <2>1, <3>1 DEF Return
  <2>4. granted' \in Seq(Blocks)
    BY <1>7 DEF TypeOK, Return
  <2>5. pc' \in [Callers -> PCs] /\ seen' \in [Callers -> [start : Nat, size : Nat]]
    BY <1>7 DEF TypeOK, Return, Leave, PCs, NoRegion
  <2>6. call' \in [Callers -> [op : {"idle", "alloc", "dma"}, size : Sizes \cup {0}]]
    BY <1>7 DEF TypeOK, Return, Leave, Idle
  <2>7. va' \in [Callers -> 0 .. Word - 1]
    BY <1>7, WidthAssumption DEF TypeOK, Return, Leave
  <2> QED BY <1>7, <2>2, <2>3, <2>4, <2>5, <2>6, <2>7 DEF TypeOK, Return
<1>8. ASSUME NEW t \in Callers, ReturnBlock(t) PROVE TypeOK'
  <2>1. Block("vram", va[t], seen[t].start, AlignUp(call[t].size)) \in Blocks
    BY <1>n, <1>r, <1>v DEF Block, Blocks
  <2> QED BY <1>7, <1>8, <2>1 DEF ReturnBlock
<1>9. ASSUME NEW t \in Callers, ReturnMapping(t) PROVE TypeOK'
  <2>1. Block("dma", va[t], 0, AlignUp(call[t].size)) \in Blocks
    BY <1>n, <1>v DEF Block, Blocks
  <2>2. listLock' \in Callers \cup {Nobody}
    BY <1>9 DEF ReturnMapping, TypeOK
  <2> QED BY <1>7, <1>9, <2>1, <2>2 DEF ReturnMapping
<1>10. ASSUME NEW i \in DOMAIN granted, MapToCpu(i) PROVE TypeOK'
  <2>1. granted[i] \in Blocks
    BY DEF TypeOK
  <2>5. Bar1Base + granted[i].phys_addr \in Nat
    <3>1. granted[i].phys_addr \in Nat
      BY <2>1 DEF Blocks
    <3> QED BY <3>1, ApertureAssumption
  <2>2. [granted[i] EXCEPT !.cpu_mapped = TRUE, !.cpu_va = Bar1Base + granted[i].phys_addr] \in Blocks
    BY <2>1, <2>5 DEF Blocks
  <2>3. granted' = [granted EXCEPT ![i] = [granted[i] EXCEPT
                      !.cpu_mapped = TRUE, !.cpu_va = Bar1Base + granted[i].phys_addr]]
    BY <1>10 DEF MapToCpu
  <2>4. granted' \in Seq(Blocks)
    BY <2>2, <2>3 DEF TypeOK
  <2> QED BY <1>10, <2>4 DEF TypeOK, MapToCpu
<1>11. CASE UNCHANGED vars
  BY <1>11 DEF TypeOK, vars
<1> QED BY <1>1, <1>2, <1>3, <1>4, <1>5, <1>6, <1>8, <1>9, <1>10, <1>11 DEF Next, Continue

(* Every state of every behaviour has the types of TypeOK: the free region *)
(* never wraps below zero, the address counter stays a machine word.       *)
THEOREM TypeCorrect == Spec => []TypeOK
<1> QED BY TypeInit, TypeNext, PTL DEF Spec

-----------------------------------------------------------------------------
(* The inductive invariant.  The bytes a call in progress will receive:    *)
Want(t) == AlignUp(call[t].size)

(* The guards that are alive at each point of a call:                      *)
HoldsList(t) == pc[t] \in {"scan", "va", "bump"}
HoldsVa(t) == pc[t] \in {"bump", "dmaBump"}

(* A lock is owned exactly while its guard is alive.                       *)
LockInv ==
  \A t \in Callers : (listLock = t <=> HoldsList(t)) /\ (vaLock = t <=> HoldsVa(t))

CallInv ==
  \A t \in Callers :
    /\ pc[t] = "idle" => call[t] = Idle
    /\ pc[t] # "idle" => call[t].size \in Sizes
    /\ pc[t] \in {"list", "scan", "va", "bump"} => call[t].op = "alloc"
    /\ pc[t] \in {"dma", "dmaBump"} => call[t].op = "dma"

(* What a thread has loaded under a lock is still current.                 *)
SeenInv ==
  \A t \in Callers :
    /\ pc[t] = "scan" => seen[t] = freeRegion
    /\ pc[t] \in {"va", "bump"} =>
         /\ seen[t].start + Want(t) = freeRegion.start
         /\ \A i \in DOMAIN granted : granted[i].kind = "vram" =>
               granted[i].phys_addr + granted[i].size <= seen[t].start
         /\ Reserved <= seen[t].start
    /\ HoldsVa(t) => va[t] = nextVa

(* The one region runs from the frontier to the end of VRAM.               *)
RegionInv ==
  /\ Reserved <= freeRegion.start
  /\ freeRegion.start + freeRegion.size = Reserved + Capacity
  /\ \A i \in DOMAIN granted : granted[i].kind = "vram" =>
       granted[i].phys_addr + granted[i].size <= freeRegion.start

(* The counter is the number of bytes issued, and granted addresses are    *)
(* below it.                                                               *)
CounterInv ==
  /\ nextVa = (VaBase + issued) % Word
  /\ VaBase + issued < Word =>
       \A i \in DOMAIN granted : granted[i].gpu_va + granted[i].size <= nextVa

MappedInv ==
  \A i \in DOMAIN granted : granted[i].cpu_mapped =>
    /\ granted[i].kind = "vram" /\ InAperture(granted[i])
    /\ granted[i].cpu_va = Bar1Base + granted[i].phys_addr

IInv ==
  /\ LockInv /\ CallInv /\ SeenInv /\ RegionInv /\ CounterInv
  /\ BlocksDisjoint /\ VaDisjoint /\ MappedInv

LEMMA BlockFields ==
  ASSUME TypeOK, NEW i \in DOMAIN granted
  PROVE  /\ i \in Nat /\ i \in 1 .. Len(granted)
         /\ granted[i] \in Blocks
         /\ granted[i].phys_addr \in Nat /\ granted[i].size \in Nat
         /\ granted[i].gpu_va \in Nat
<1>1. i \in Nat /\ i \in 1 .. Len(granted) /\ granted[i] \in Blocks
  BY DEF TypeOK
<1>2. \A b \in Blocks : b.phys_addr \in Nat /\ b.size \in Nat /\ b.gpu_va \in Nat
  BY WidthAssumption DEF Blocks
<1> QED BY <1>1, <1>2

LEMMA LocalFields ==
  ASSUME TypeOK, NEW t \in Callers
  PROVE  /\ seen[t].start \in Nat /\ seen[t].size \in Nat
         /\ va[t] \in Nat /\ call[t].size \in Nat /\ Want(t) \in Nat
         /\ pc[t] \in PCs
<1>1. call[t].size \in Nat
  BY SizesAssumption DEF TypeOK
<1>2. va[t] \in Nat
  BY WidthAssumption DEF TypeOK
<1>3. seen[t].start \in Nat /\ seen[t].size \in Nat /\ pc[t] \in PCs
  BY DEF TypeOK
<1> QED BY <1>1, <1>2, <1>3, AlignUpNat DEF Want

LEMMA SharedFields ==
  ASSUME TypeOK
  PROVE  /\ total \in Nat /\ Capacity \in Nat /\ issued \in Nat
         /\ freeRegion.start \in Nat /\ freeRegion.size \in Nat /\ nextVa \in Nat
<1>1. total \in Nat /\ issued \in Nat /\ freeRegion.start \in Nat /\ freeRegion.size \in Nat
  BY DEF TypeOK
<1>2. nextVa \in Nat
  BY WidthAssumption DEF TypeOK
<1>3. Capacity \in Nat
  BY <1>1, WidthAssumption DEF Capacity, CapacityOf
<1> QED BY <1>1, <1>2, <1>3

-----------------------------------------------------------------------------
LEMMA IInvInit == Init => IInv
<1> SUFFICES ASSUME Init PROVE IInv
  OBVIOUS
<1>1. TypeOK
  BY TypeInit
<1>2. LockInv /\ CallInv
  BY CallersAssumption DEF Init, LockInv, CallInv, HoldsList, HoldsVa
<1>3. SeenInv
  BY DEF Init, SeenInv, HoldsVa
<1>4. DOMAIN granted = {}
  BY DEF Init
<1>5. RegionInv /\ BlocksDisjoint /\ VaDisjoint /\ MappedInv
  <2>1. freeRegion.start = Reserved /\ freeRegion.size = Capacity
    BY DEF Init
  <2> QED BY <1>4, <2>1, WidthAssumption
          DEF RegionInv, BlocksDisjoint, VaDisjoint, MappedInv
<1>6. CounterInv
  <2>1. nextVa = VaBase /\ issued = 0
    BY DEF Init
  <2>2. VaBase % Word = VaBase
    BY WidthAssumption
  <2> QED BY <1>4, <2>1, <2>2, WidthAssumption DEF CounterInv
<1> QED BY <1>2, <1>3, <1>5, <1>6 DEF IInv

(* A step that changes neither the blocks nor the counter keeps what is    *)
(* said of the blocks alone.                                               *)
LEMMA BlocksKept ==
  ASSUME IInv, UNCHANGED <<total, granted, issued, nextVa>>
  PROVE  CounterInv' /\ BlocksDisjoint' /\ VaDisjoint' /\ MappedInv'
<1>1. Capacity' = Capacity
  BY DEF Capacity
<1> QED BY <1>1 DEF IInv, CounterInv, BlocksDisjoint, VaDisjoint, MappedInv

LEMMA BeginKeeps ==
  ASSUME TypeOK, IInv, NEW t \in Callers, NEW op \in {"alloc", "dma"}, NEW s \in Sizes,
         Begin(t, op, s, IF op = "alloc" THEN "list" ELSE "dma")
  PROVE  IInv'
<1>1. CounterInv' /\ BlocksDisjoint' /\ VaDisjoint' /\ MappedInv'
  BY BlocksKept DEF Begin, shared
<1>2. LockInv'
  BY DEF TypeOK, IInv, LockInv, HoldsList, HoldsVa, Begin, shared
<1>3. CallInv'
  BY DEF TypeOK, IInv, CallInv, Begin
<1>4. SeenInv'
  BY DEF TypeOK, IInv, SeenInv, HoldsVa, Want, Begin, shared
<1>5. RegionInv'
  BY DEF IInv, RegionInv, Capacity, Begin, shared
<1> QED BY <1>1, <1>2, <1>3, <1>4, <1>5 DEF IInv

LEMMA LockFreeListKeeps ==
  ASSUME TypeOK, IInv, NEW t \in Callers, LockFreeList(t)
  PROVE  IInv'
<1>1. CounterInv' /\ BlocksDisjoint' /\ VaDisjoint' /\ MappedInv'
  BY BlocksKept DEF LockFreeList
<1>2. LockInv'
  BY CallersAssumption DEF TypeOK, IInv, LockInv, HoldsList, HoldsVa, LockFreeList
<1>3. CallInv'
  BY DEF TypeOK, IInv, CallInv, LockFreeList
<1>4. SeenInv'
  BY DEF TypeOK, IInv, SeenInv, HoldsVa, Want, LockFreeList
<1>5. RegionInv'
  BY DEF IInv, RegionInv, Capacity, LockFreeList
<1> QED BY <1>1, <1>2, <1>3, <1>4, <1>5 DEF IInv

LEMMA TakeRegionKeeps ==
  ASSUME TypeOK, IInv, NEW t \in Callers, TakeRegion(t)
  PROVE  IInv'
<1>1. CounterInv' /\ BlocksDisjoint' /\ VaDisjoint' /\ MappedInv'
  BY BlocksKept DEF TakeRegion
<1>2. LockInv'
  BY DEF TypeOK, IInv, LockInv, HoldsList, HoldsVa, TakeRegion
<1>3. CallInv'
  BY DEF TypeOK, IInv, CallInv, TakeRegion
<1>a. seen[t] = freeRegion /\ seen[t].size >= Want(t)
  BY DEF IInv, SeenInv, TakeRegion, Fits, Want
<1>b. freeRegion'.start = freeRegion.start + Want(t) /\ freeRegion'.size = freeRegion.size - Want(t)
  BY <1>a DEF TakeRegion, Cut, Want
<1>c. \A u \in Callers \ {t} : pc'[u] = pc[u] /\ pc[u] \notin {"scan", "va", "bump"}
  BY DEF TypeOK, IInv, LockInv, HoldsList, TakeRegion
<1>d. pc'[t] = "va" /\ pc[t] = "scan" /\ call' = call /\ seen' = seen /\ granted' = granted
  BY DEF TypeOK, TakeRegion
<1>4. SeenInv'
  <2>1. /\ seen'[t].start + Want(t)' = freeRegion'.start
        /\ \A i \in DOMAIN granted' : granted'[i].kind = "vram" =>
              granted'[i].phys_addr + granted'[i].size <= seen'[t].start
        /\ Reserved <= seen'[t].start
    BY <1>a, <1>b, <1>d DEF IInv, RegionInv, Want
  <2>2. \A u \in Callers : HoldsVa(u)' => va'[u] = nextVa'
    BY <1>c, <1>d DEF IInv, SeenInv, HoldsVa, TakeRegion
  <2>3. \A u \in Callers \ {t} : pc'[u] \notin {"scan", "va", "bump"}
    BY <1>c
  <2> QED BY <1>d, <2>1, <2>2, <2>3 DEF SeenInv
<1>5. RegionInv'
  <2>1. Want(t) \in Nat /\ freeRegion.start \in Nat /\ freeRegion.size \in Nat /\ Capacity \in Nat
    BY LocalFields, SharedFields
  <2>2. Reserved <= freeRegion.start + Want(t)
    BY <2>1, WidthAssumption DEF IInv, RegionInv
  <2>3. (freeRegion.start + Want(t)) + (freeRegion.size - Want(t)) = Reserved + Capacity
    BY <2>1 DEF IInv, RegionInv
  <2>4. \A i \in DOMAIN granted : granted[i].kind = "vram" =>
          granted[i].phys_addr + granted[i].size <= freeRegion.start + Want(t)
    BY <2>1, BlockFields DEF IInv, RegionInv
  <2>5. Capacity' = Capacity
    BY DEF TakeRegion, Capacity
  <2> QED BY <1>b, <1>d, <2>2, <2>3, <2>4, <2>5 DEF RegionInv
<1> QED BY <1>1, <1>2, <1>3, <1>4, <1>5 DEF IInv

LEMMA RefuseAllocateKeeps ==
  ASSUME TypeOK, IInv, NEW t \in Callers, RefuseAllocate(t)
  PROVE  IInv'
<1>1. CounterInv' /\ BlocksDisjoint' /\ VaDisjoint' /\ MappedInv'
  BY BlocksKept DEF RefuseAllocate
<1>2. LockInv'
  BY CallersAssumption DEF TypeOK, IInv, LockInv, HoldsList, HoldsVa, RefuseAllocate, Leave
<1>3. CallInv'
  BY DEF TypeOK, IInv, CallInv, RefuseAllocate, Leave
<1>4. SeenInv'
  BY DEF TypeOK, IInv, SeenInv, HoldsVa, Want, RefuseAllocate, Leave
<1>5. RegionInv'
  BY DEF IInv, RegionInv, Capacity, RefuseAllocate
<1> QED BY <1>1, <1>2, <1>3, <1>4, <1>5 DEF IInv

LEMMA LockNextVaKeeps ==
  ASSUME TypeOK, IInv, NEW t \in Callers, LockNextVa(t)
  PROVE  IInv'
<1>1. CounterInv' /\ BlocksDisjoint' /\ VaDisjoint' /\ MappedInv'
  BY BlocksKept DEF LockNextVa
<1>2. LockInv'
  BY CallersAssumption DEF TypeOK, IInv, LockInv, HoldsList, HoldsVa, LockNextVa
<1>3. CallInv'
  BY DEF TypeOK, IInv, CallInv, LockNextVa
<1>4. SeenInv'
  BY DEF TypeOK, IInv, SeenInv, HoldsVa, Want, LockNextVa
<1>5. RegionInv'
  BY DEF IInv, RegionInv, Capacity, LockNextVa
<1> QED BY <1>1, <1>2, <1>3, <1>4, <1>5 DEF IInv

(* The return of a block of n bytes at the address the thread has read.    *)
LEMMA ReturnKeeps ==
  ASSUME TypeOK, IInv, NEW t \in Callers, HoldsVa(t),
         NEW kind, NEW phys \in Nat,
         Return(t, Block(kind, va[t], phys, Want(t))),
         listLock' = IF pc[t] = "bump" THEN Nobody ELSE listLock,
         kind = "vram" => pc[t] = "bump" /\ phys = seen[t].start
  PROVE  IInv'
<1> DEFINE b == Block(kind, va[t], phys, Want(t))
<1>a. /\ granted' = Append(granted, b) /\ granted \in Seq(Blocks)
      /\ total' = total /\ freeRegion' = freeRegion
      /\ nextVa' = (va[t] + b.size) % Word /\ issued' = issued + b.size
      /\ vaLock' = Nobody /\ Leave(t)
  BY DEF Return, TypeOK
<1>b. /\ b.kind = kind /\ b.gpu_va = va[t] /\ b.phys_addr = phys /\ b.size = Want(t)
      /\ ~ b.cpu_mapped
  BY DEF Block
<1>c. /\ DOMAIN granted' = 1 .. Len(granted) + 1 /\ Len(granted) \in Nat
      /\ DOMAIN granted = 1 .. Len(granted)
      /\ \A i \in 1 .. Len(granted) : granted'[i] = granted[i]
      /\ granted'[Len(granted) + 1] = b
  BY <1>a
<1>d. /\ Want(t) \in Nat /\ va[t] \in Nat /\ seen[t].start \in Nat
      /\ freeRegion.start \in Nat /\ issued \in Nat /\ Capacity \in Nat
      /\ freeRegion.size \in Nat
  BY LocalFields, SharedFields
<1>e. va[t] = nextVa
  BY DEF IInv, SeenInv
<1>f. Capacity' = Capacity
  BY <1>a DEF Capacity
<1>g. kind = "vram" =>
        /\ Reserved <= phys /\ phys + Want(t) = freeRegion.start
        /\ \A i \in DOMAIN granted : granted[i].kind = "vram" =>
              granted[i].phys_addr + granted[i].size <= phys
  BY DEF IInv, SeenInv
<1>h. \A i \in DOMAIN granted :
        /\ granted[i].phys_addr \in Nat /\ granted[i].size \in Nat /\ granted[i].gpu_va \in Nat
  BY BlockFields
<1> HIDE DEF b
<1>1. LockInv'
  BY <1>a, CallersAssumption DEF TypeOK, IInv, LockInv, HoldsList, HoldsVa, Leave
<1>2. CallInv'
  BY <1>a DEF TypeOK, IInv, CallInv, Leave
<1>3. SeenInv'
  <2>1. \A u \in Callers : pc'[u] # "scan" \/ (u # t /\ pc[u] = "scan" /\ seen'[u] = seen[u])
    BY <1>a DEF TypeOK, Leave
  <2>2. \A u \in Callers : ~ HoldsVa(u)'
    BY <1>a DEF TypeOK, IInv, LockInv, HoldsVa, Leave
  <2>3. ASSUME NEW u \in Callers, pc'[u] \in {"va", "bump"}
        PROVE  /\ seen'[u].start + Want(u)' = freeRegion'.start
               /\ Reserved <= seen'[u].start
               /\ \A i \in DOMAIN granted' : granted'[i].kind = "vram" =>
                     granted'[i].phys_addr + granted'[i].size <= seen'[u].start
    <3>1. u # t /\ pc[u] \in {"va", "bump"} /\ seen'[u] = seen[u] /\ call'[u] = call[u]
      BY <1>a, <2>3 DEF TypeOK, Leave
    <3>2. kind # "vram"
      <4>1. pc[t] # "bump"
        BY <3>1 DEF IInv, LockInv, HoldsList
      <4> QED BY <4>1
    <3>3. /\ seen[u].start + Want(u) = freeRegion.start /\ Reserved <= seen[u].start
          /\ \A i \in DOMAIN granted : granted[i].kind = "vram" =>
               granted[i].phys_addr + granted[i].size <= seen[u].start
      BY <3>1 DEF IInv, SeenInv
    <3>4. Want(u)' = Want(u)
      BY <3>1 DEF Want
    <3> QED BY <1>a, <1>b, <1>c, <3>1, <3>2, <3>3, <3>4
  <2> QED BY <1>a, <2>1, <2>2, <2>3 DEF IInv, SeenInv
<1>4. RegionInv'
  <2>1. \A i \in DOMAIN granted' : granted'[i].kind = "vram" =>
          granted'[i].phys_addr + granted'[i].size <= freeRegion.start
    BY <1>b, <1>c, <1>d, <1>g DEF IInv, RegionInv
  <2> QED BY <1>a, <1>f, <2>1 DEF IInv, RegionInv
<1>5. CounterInv'
  <2>1. nextVa' = (VaBase + issued') % Word
    <3>1. nextVa' = (((VaBase + issued) % Word) + Want(t)) % Word
      BY <1>a, <1>b, <1>e DEF IInv, CounterInv
    <3>2. VaBase + issued \in Nat
      BY <1>d, WidthAssumption
    <3>3. (((VaBase + issued) % Word) + Want(t)) % Word = ((VaBase + issued) + Want(t)) % Word
      <4>1. Want(t) \in Nat /\ Word \in Nat \ {0}
        BY <1>d, WidthAssumption
      <4> QED BY <3>2, <4>1, ModSum, Zenon
    <3>4. issued' = issued + Want(t)
      BY <1>a, <1>b
    <3>5. (VaBase + issued) + Want(t) = VaBase + issued'
      BY <1>d, <3>4, WidthAssumption
    <3> QED BY <3>1, <3>3, <3>5
  <2>2. ASSUME VaBase + issued' < Word
        PROVE  \A i \in DOMAIN granted' : granted'[i].gpu_va + granted'[i].size <= nextVa'
    <3>1. VaBase + issued < Word /\ nextVa = VaBase + issued /\ nextVa' = nextVa + Want(t)
      <4>1. issued' = issued + Want(t)
        BY <1>a, <1>b
      <4>2. \A n \in Nat : n < Word => n % Word = n
        BY WidthAssumption
      <4>3. VaBase + issued \in Nat /\ VaBase + issued' \in Nat /\ VaBase + issued < Word
        BY <1>d, <2>2, <4>1, WidthAssumption
      <4>4. nextVa = VaBase + issued
        BY <4>2, <4>3 DEF IInv, CounterInv
      <4>5. nextVa' = VaBase + issued'
        BY <2>1, <2>2, <4>2, <4>3
      <4> QED BY <1>d, <4>1, <4>3, <4>4, <4>5, WidthAssumption
    <3>2. \A i \in DOMAIN granted : granted[i].gpu_va + granted[i].size <= nextVa + Want(t)
      BY <1>d, <1>h, <3>1, WidthAssumption DEF IInv, CounterInv
    <3> QED BY <1>b, <1>c, <1>d, <1>e, <3>1, <3>2
  <2> QED BY <2>1, <2>2 DEF CounterInv
<1>6. BlocksDisjoint'
  <2>1. \A i \in DOMAIN granted' : \A j \in 1 .. i - 1 : j \in 1 .. Len(granted)
    BY <1>c
  <2>2. kind = "vram" => phys + Want(t) <= Reserved + Capacity
    BY <1>d, <1>g, WidthAssumption DEF IInv, RegionInv
  <2>3. \A i \in DOMAIN granted' : i \in DOMAIN granted \/ i = Len(granted) + 1
    BY <1>c
  <2> QED BY <1>b, <1>c, <1>f, <1>g, <2>1, <2>2, <2>3 DEF IInv, BlocksDisjoint
<1>7. VaDisjoint'
  <2> SUFFICES ASSUME VaBase + issued' < Word,
                      NEW i \in DOMAIN granted', NEW j \in 1 .. i - 1
               PROVE  granted'[j].gpu_va + granted'[j].size <= granted'[i].gpu_va
    BY DEF VaDisjoint
  <2>1. VaBase + issued < Word
    BY <1>a, <1>b, <1>d, WidthAssumption
  <2>2. j \in 1 .. Len(granted) /\ (i \in DOMAIN granted \/ i = Len(granted) + 1)
    BY <1>c
  <2>3. \A k \in DOMAIN granted : granted[k].gpu_va + granted[k].size <= nextVa
    BY <2>1 DEF IInv, CounterInv
  <2> QED BY <1>b, <1>c, <1>e, <2>1, <2>2, <2>3 DEF IInv, VaDisjoint
<1>8. MappedInv'
  <2>1. \A i \in DOMAIN granted' : i \in DOMAIN granted \/ i = Len(granted) + 1
    BY <1>c
  <2> QED BY <1>b, <1>c, <2>1 DEF IInv, MappedInv
<1> QED BY <1>1, <1>2, <1>3, <1>4, <1>5, <1>6, <1>7, <1>8 DEF IInv

LEMMA MapToCpuKeeps ==
  ASSUME TypeOK, IInv, NEW k \in DOMAIN granted, MapToCpu(k)
  PROVE  IInv'
<1>a. /\ granted[k].kind = "vram" /\ InAperture(granted[k])
      /\ DOMAIN granted' = DOMAIN granted
      /\ \A i \in DOMAIN granted :
           /\ granted'[i].kind = granted[i].kind /\ granted'[i].size = granted[i].size
           /\ granted'[i].phys_addr = granted[i].phys_addr
           /\ granted'[i].gpu_va = granted[i].gpu_va
           /\ i # k => granted'[i] = granted[i]
      /\ granted'[k].cpu_va = Bar1Base + granted[k].phys_addr
  <2> DEFINE b == [granted[k] EXCEPT !.cpu_mapped = TRUE,
                                     !.cpu_va = Bar1Base + granted[k].phys_addr]
  <2>1. granted' = [granted EXCEPT ![k] = b] /\ granted[k].kind = "vram" /\ InAperture(granted[k])
    BY DEF MapToCpu
  <2>2. /\ b.kind = granted[k].kind /\ b.size = granted[k].size
        /\ b.phys_addr = granted[k].phys_addr /\ b.gpu_va = granted[k].gpu_va
        /\ b.cpu_va = Bar1Base + granted[k].phys_addr
    BY BlockFields DEF Blocks
  <2> HIDE DEF b
  <2>3. granted \in Seq(Blocks)
    BY DEF TypeOK
  <2> QED BY <2>1, <2>2, <2>3
<1>b. UNCHANGED <<shared, pc, call, seen, va, calls, issued>>
  BY DEF MapToCpu
<1>c. Capacity' = Capacity
  BY <1>b DEF Capacity, shared
<1>1. LockInv' /\ CallInv'
  BY <1>b DEF IInv, LockInv, CallInv, HoldsList, HoldsVa, shared
<1>2. SeenInv'
  BY <1>a, <1>b DEF IInv, SeenInv, HoldsVa, Want, shared
<1>3. RegionInv' /\ CounterInv'
  BY <1>a, <1>b, <1>c DEF IInv, RegionInv, CounterInv, shared
<1>i. \A i \in DOMAIN granted : \A j \in 1 .. i - 1 : j \in DOMAIN granted
  BY BlockFields DEF TypeOK
<1>4. BlocksDisjoint'
  BY <1>a, <1>c, <1>i DEF IInv, BlocksDisjoint
<1>5. VaDisjoint'
  BY <1>a, <1>b, <1>i DEF IInv, VaDisjoint
<1>6. MappedInv'
  BY <1>a DEF IInv, MappedInv, InAperture, InWindow
<1> QED BY <1>1, <1>2, <1>3, <1>4, <1>5, <1>6 DEF IInv

LEMMA IInvNext == TypeOK /\ IInv /\ [Next]_vars => IInv'
<1> SUFFICES ASSUME TypeOK, IInv, [Next]_vars PROVE IInv'
  OBVIOUS
<1>1. ASSUME NEW t \in Callers, BeginAllocate(t) PROVE IInv'
  BY <1>1, BeginKeeps DEF BeginAllocate
<1>2. ASSUME NEW t \in Callers, BeginMapSystem(t) PROVE IInv'
  BY <1>2, BeginKeeps DEF BeginMapSystem
<1>3. ASSUME NEW t \in Callers, ReturnBlock(t) PROVE IInv'
  BY <1>3, ReturnKeeps, LocalFields DEF ReturnBlock, HoldsVa, Want
<1>4. ASSUME NEW t \in Callers, ReturnMapping(t) PROVE IInv'
  BY <1>4, ReturnKeeps DEF ReturnMapping, HoldsVa, Want
<1>5. ASSUME UNCHANGED vars PROVE IInv'
  BY <1>5 DEF IInv, vars, shared, LockInv, CallInv, SeenInv, RegionInv, CounterInv,
       BlocksDisjoint, VaDisjoint, MappedInv, Capacity, HoldsList, HoldsVa, Want
<1> QED BY <1>1, <1>2, <1>3, <1>4, <1>5, LockFreeListKeeps, TakeRegionKeeps,
       RefuseAllocateKeeps, LockNextVaKeeps, MapToCpuKeeps DEF Next, Continue

LEMMA Inductive == Spec => [](TypeOK /\ IInv)
<1>1. Init => TypeOK /\ IInv
  BY TypeInit, IInvInit
<1>2. TypeOK /\ IInv /\ [Next]_vars => (TypeOK /\ IInv)'
  BY TypeNext, IInvNext
<1> QED BY <1>1, <1>2, PTL DEF Spec

(* For any number of threads, no two VRAM blocks share a byte and none     *)
(* leaves the memory that may be granted: the lock of free_list is enough. *)
THEOREM NoOverlapInVram == Spec => []BlocksDisjoint
<1>1. IInv => BlocksDisjoint
  BY DEF IInv
<1> QED BY Inductive, <1>1, PTL

(* For any number of threads, allocations and DMA mappings never share a   *)
(* GPU address while the 64-bit counter has not wrapped, although they     *)
(* take different locks.                                                   *)
THEOREM NoOverlapInVa == Spec => []VaDisjoint
<1>1. IInv => VaDisjoint
  BY DEF IInv
<1> QED BY Inductive, <1>1, PTL

(* Mapped blocks lie inside the BAR1 aperture and do not alias.            *)
THEOREM ApertureRespected == Spec => []ApertureSafe
<1>1. TypeOK /\ IInv => ApertureSafe
  <2> SUFFICES ASSUME TypeOK, IInv,
                      NEW i \in DOMAIN granted, granted[i].cpu_mapped
               PROVE  /\ granted[i].cpu_va \in Bar1Base .. Bar1Base + Bar1Size
                      /\ granted[i].cpu_va + granted[i].size <= Bar1Base + Bar1Size
                      /\ \A j \in 1 .. i - 1 : granted[j].cpu_mapped =>
                            granted[j].cpu_va + granted[j].size <= granted[i].cpu_va
    BY DEF ApertureSafe
  <2>1. /\ granted[i].phys_addr \in Nat /\ granted[i].size \in Nat
        /\ granted[i].kind = "vram"
        /\ granted[i].phys_addr + granted[i].size <= Bar1Size
        /\ granted[i].cpu_va = Bar1Base + granted[i].phys_addr
    BY BlockFields DEF IInv, MappedInv, InAperture, InWindow
  <2>2. ASSUME NEW j \in 1 .. i - 1, granted[j].cpu_mapped
        PROVE  granted[j].cpu_va + granted[j].size <= granted[i].cpu_va
    <3>1. j \in DOMAIN granted
      BY BlockFields DEF TypeOK
    <3>2. granted[j].phys_addr \in Nat /\ granted[j].size \in Nat
      BY <3>1, BlockFields
    <3>3. granted[j].kind = "vram" /\ granted[j].cpu_va = Bar1Base + granted[j].phys_addr
      BY <2>2, <3>1 DEF IInv, MappedInv
    <3>4. granted[j].phys_addr + granted[j].size <= granted[i].phys_addr
      BY <2>1, <3>3 DEF IInv, BlocksDisjoint
    <3> QED BY <2>1, <3>2, <3>3, <3>4, ApertureAssumption
  <2> QED BY <2>1, <2>2, ApertureAssumption
<1> QED BY Inductive, <1>1, PTL

-----------------------------------------------------------------------------
(* Refinement.  Bytes in flight belong to the owner of free_list's lock.   *)
LEMMA InFlightOf ==
  ASSUME TypeOK, LockInv, NEW t \in Callers
  PROVE  /\ pc[t] \in {"va", "bump"} => InFlight = Want(t)
         /\ pc[t] = "scan" => InFlight = 0
         /\ listLock = Nobody => InFlight = 0
BY CallersAssumption DEF LockInv, HoldsList, InFlight, Want

(* A step of t that neither touches the free region nor crosses the cut    *)
(* leaves the granted bytes as they are.                                   *)
LEMMA UsedKept ==
  ASSUME TypeOK, LockInv, NEW t \in Callers,
         freeRegion' = freeRegion, listLock' = listLock,
         \A u \in Callers \ {t} : pc'[u] = pc[u] /\ call'[u] = call[u],
         \/ pc[t] \notin {"va", "bump"} /\ pc'[t] \notin {"va", "bump"}
         \/ pc[t] \in {"va", "bump"} /\ pc'[t] \in {"va", "bump"} /\ call'[t] = call[t]
  PROVE  Used' = Used
<1>1. InFlight' = InFlight
  BY DEF TypeOK, InFlight
<1> QED BY <1>1 DEF Used

LEMMA RefineInit == Init => VH!Init
<1> SUFFICES ASSUME Init PROVE VH!Init
  OBVIOUS
<1>1. Capacity \in Nat
  BY TypeInit, SharedFields
<1>2. Used = 0
  BY WidthAssumption DEF Init, Used, InFlight
<1> QED BY <1>1, <1>2 DEF Init, VH!Init, Idle, VH!Idle

LEMMA RefineBegin ==
  ASSUME TypeOK, IInv, NEW t \in Callers, NEW op \in {"alloc", "dma"}, NEW s \in Sizes,
         Begin(t, op, s, IF op = "alloc" THEN "list" ELSE "dma")
  PROVE  VH!Ask(t)
<1>1. Used' = Used
  BY UsedKept DEF TypeOK, IInv, Begin, shared
<1>2. Capacity' = Capacity
  BY DEF Begin, shared, Capacity
<1>3. call[t] = Idle
  BY DEF IInv, CallInv, Begin
<1>4. call' = [call EXCEPT ![t] = call'[t]] /\ call'[t].op = op
  BY DEF TypeOK, Begin
<1> QED BY <1>1, <1>2, <1>3, <1>4 DEF VH!Ask, Idle, VH!Idle, Begin

LEMMA RefineRefuse ==
  ASSUME TypeOK, IInv, NEW t \in Callers, RefuseAllocate(t)
  PROVE  VH!Refuse(t)
<1>1. pc[t] = "scan" /\ call[t].op = "alloc" /\ call[t].size \in Sizes
  BY DEF IInv, CallInv, RefuseAllocate
<1>2. Want(t) \in Nat /\ VH!Covers(Want(t), call[t].size)
  BY <1>1, AlignUpCovers DEF Want
<1>3. Used = freeRegion.start - Reserved
  <2>1. InFlight = 0
    BY <1>1, InFlightOf DEF IInv
  <2> QED BY <2>1, SharedFields, WidthAssumption DEF Used
<1>4. Used' = Used
  <2>1. InFlight' = 0
    BY DEF RefuseAllocate, InFlight
  <2>2. freeRegion' = freeRegion
    BY DEF RefuseAllocate
  <2> QED BY <1>3, <2>1, <2>2, SharedFields, WidthAssumption DEF Used
<1>5. Used + Want(t) > Capacity
  <2>1. seen[t] = freeRegion /\ ~ (freeRegion.size >= Want(t))
    BY DEF IInv, SeenInv, RefuseAllocate, Fits, Want
  <2>2. freeRegion.start + freeRegion.size = Reserved + Capacity
    BY DEF IInv, RegionInv
  <2> QED BY <1>2, <1>3, <2>1, <2>2, SharedFields, WidthAssumption
<1>6. Want(t) \in call[t].size .. call[t].size + PageSize
  BY <1>2, LocalFields, WidthAssumption DEF VH!Covers
<1>7. Capacity' = Capacity
  BY DEF RefuseAllocate, Capacity
<1> QED BY <1>1, <1>2, <1>4, <1>5, <1>6, <1>7
       DEF RefuseAllocate, Leave, VH!Refuse, Idle, VH!Idle

(* The block a thread returns is a block the abstract heap may hand out.   *)
LEMMA RefineExtend ==
  ASSUME TypeOK, IInv, NEW t \in Callers, HoldsVa(t), NEW kind, NEW phys \in Nat,
         Return(t, Block(kind, va[t], phys, Want(t)))
  PROVE  /\ VH!Grows /\ VH!NewBlock = Block(kind, va[t], phys, Want(t))
         /\ VH!Extend(t, VH!NewBlock)
<1> DEFINE b == Block(kind, va[t], phys, Want(t))
<1>1. /\ granted' = Append(granted, b) /\ granted \in Seq(Blocks)
      /\ issued' = issued + b.size /\ call' = [call EXCEPT ![t] = Idle] /\ total' = total
  BY DEF Return, Leave, TypeOK
<1>2. b.gpu_va = va[t] /\ b.size = Want(t) /\ ~ b.cpu_mapped
  BY DEF Block
<1>3. VH!Covers(b.size, call[t].size)
  <2>1. pc[t] # "idle"
    BY DEF HoldsVa
  <2>2. call[t].size \in Sizes
    BY <2>1 DEF IInv, CallInv
  <2> QED BY <1>2, <2>2, AlignUpCovers DEF Want
<1>4. ASSUME VaBase + issued' < Word, NEW i \in DOMAIN granted
      PROVE  granted[i].gpu_va + granted[i].size <= b.gpu_va
  <2>1. VaBase + issued < Word
    BY <1>1, <1>2, <1>4, LocalFields, SharedFields, WidthAssumption
  <2> QED BY <1>2, <2>1 DEF IInv, CounterInv, SeenInv
<1>5. Capacity' = Capacity
  BY <1>1 DEF Capacity
<1> HIDE DEF b
<1>6. Len(granted') = Len(granted) + 1 /\ granted'[Len(granted) + 1] = b
  BY <1>1
<1>7. VH!Extend(t, b)
  BY <1>1, <1>2, <1>3, <1>4, <1>5
     DEF VH!Extend, VH!VaSpaceLeft, VH!DisjointVa, Idle, VH!Idle
<1> QED BY <1>6, <1>7 DEF VH!Grows, VH!NewBlock, b

LEMMA RefineGrant ==
  ASSUME TypeOK, IInv, NEW t \in Callers, ReturnBlock(t)
  PROVE  VH!Grant(t)
<1> DEFINE b == Block("vram", va[t], seen[t].start, Want(t))
<1>1. pc[t] = "bump" /\ call[t].op = "alloc" /\ HoldsVa(t)
  BY DEF IInv, CallInv, ReturnBlock, HoldsVa
<1>2. VH!Grows /\ VH!NewBlock = b /\ VH!Extend(t, VH!NewBlock)
  BY <1>1, RefineExtend, LocalFields DEF ReturnBlock, Want
<1>3. b.kind = "vram" /\ b.phys_addr = seen[t].start /\ b.size = Want(t)
  BY DEF Block
<1> HIDE DEF b
<1>4. /\ seen[t].start + Want(t) = freeRegion.start /\ Reserved <= seen[t].start
      /\ \A i \in DOMAIN granted : granted[i].kind = "vram" =>
            granted[i].phys_addr + granted[i].size <= seen[t].start
  BY <1>1 DEF IInv, SeenInv
<1>5. freeRegion.start <= Reserved + Capacity
  BY SharedFields, WidthAssumption DEF IInv, RegionInv
<1>6. Used' = Used + Want(t)
  <2>1. InFlight = Want(t)
    BY <1>1, InFlightOf DEF IInv
  <2>2. InFlight' = 0
    BY DEF ReturnBlock, InFlight
  <2>3. freeRegion' = freeRegion
    BY DEF ReturnBlock, Return
  <2> QED BY <2>1, <2>2, <2>3, SharedFields, LocalFields, WidthAssumption DEF Used
<1> QED BY <1>1, <1>2, <1>3, <1>4, <1>5, <1>6
       DEF VH!Grant, VH!InVram, VH!DisjointVram

LEMMA RefineMapDma ==
  ASSUME TypeOK, IInv, NEW t \in Callers, ReturnMapping(t)
  PROVE  VH!MapDma(t)
<1> DEFINE b == Block("dma", va[t], 0, Want(t))
<1>1. pc[t] = "dmaBump" /\ call[t].op = "dma" /\ HoldsVa(t)
  BY DEF IInv, CallInv, ReturnMapping, HoldsVa
<1>2. VH!Grows /\ VH!NewBlock = b /\ VH!Extend(t, VH!NewBlock)
  BY <1>1, RefineExtend DEF ReturnMapping, Want
<1>3. b.kind # "vram"
  BY DEF Block
<1> HIDE DEF b
<1>4. Used' = Used
  BY <1>1, UsedKept DEF TypeOK, IInv, ReturnMapping, Return, Leave
<1> QED BY <1>1, <1>2, <1>3, <1>4 DEF VH!MapDma, VH!InVram

LEMMA RefineExpose ==
  ASSUME TypeOK, IInv, NEW i \in DOMAIN granted, MapToCpu(i)
  PROVE  VH!Expose(i)
<1>1. UNCHANGED <<Capacity, Used>>
  BY DEF MapToCpu, shared, Capacity, Used, InFlight
<1> QED BY <1>1 DEF MapToCpu, InAperture, InWindow, VH!Expose, VH!InVram

LEMMA RefineNext == TypeOK /\ IInv /\ [Next]_vars => [VH!Next]_VH!vars
<1> SUFFICES ASSUME TypeOK, IInv, [Next]_vars PROVE [VH!Next]_VH!vars
  OBVIOUS
<1>1. ASSUME NEW t \in Callers, BeginAllocate(t) PROVE VH!Next
  <2>1. VH!Ask(t)
    BY <1>1, RefineBegin DEF BeginAllocate
  <2> QED BY <2>1 DEF VH!Next
<1>2. ASSUME NEW t \in Callers, BeginMapSystem(t) PROVE VH!Next
  <2>1. VH!Ask(t)
    BY <1>2, RefineBegin DEF BeginMapSystem
  <2> QED BY <2>1 DEF VH!Next
<1>3. ASSUME NEW t \in Callers, LockFreeList(t) PROVE UNCHANGED VH!vars
  <2>1. InFlight' = 0
    BY <1>3 DEF TypeOK, LockFreeList, InFlight
  <2>2. InFlight = 0
    BY <1>3, InFlightOf DEF IInv, LockFreeList
  <2>3. UNCHANGED <<Capacity, Used, call, granted, issued>>
    BY <1>3, <2>1, <2>2 DEF LockFreeList, Capacity, Used
  <2> QED BY <2>3 DEF VH!vars
<1>4. ASSUME NEW t \in Callers, TakeRegion(t) PROVE UNCHANGED VH!vars
  <2>1. InFlight = 0
    BY <1>4, InFlightOf DEF IInv, TakeRegion
  <2>2. InFlight' = Want(t)
    BY <1>4, CallersAssumption DEF TypeOK, IInv, LockInv, HoldsList, TakeRegion, InFlight, Want
  <2>3. freeRegion'.start = freeRegion.start + Want(t)
    BY <1>4 DEF IInv, SeenInv, TakeRegion, Cut, Want
  <2>4. Used' = Used
    BY <2>1, <2>2, <2>3, SharedFields, LocalFields, WidthAssumption DEF Used
  <2>5. UNCHANGED <<Capacity, call, granted, issued>>
    BY <1>4 DEF TakeRegion, Capacity
  <2> QED BY <2>4, <2>5 DEF VH!vars
<1>5. ASSUME NEW t \in Callers, RefuseAllocate(t) PROVE VH!Next
  BY <1>5, RefineRefuse DEF VH!Next
<1>6. ASSUME NEW t \in Callers, LockNextVa(t) PROVE UNCHANGED VH!vars
  <2>1. Used' = Used
    BY <1>6, UsedKept DEF TypeOK, IInv, LockNextVa
  <2>2. UNCHANGED <<Capacity, call, granted, issued>>
    BY <1>6 DEF LockNextVa, Capacity
  <2> QED BY <2>1, <2>2 DEF VH!vars
<1>7. ASSUME NEW t \in Callers, ReturnBlock(t) PROVE VH!Next
  BY <1>7, RefineGrant DEF VH!Next
<1>8. ASSUME NEW t \in Callers, ReturnMapping(t) PROVE VH!Next
  BY <1>8, RefineMapDma DEF VH!Next
<1>9. ASSUME NEW i \in DOMAIN granted, MapToCpu(i) PROVE VH!Next
  BY <1>9, RefineExpose DEF VH!Next
<1>10. CASE UNCHANGED vars
  <2>1. UNCHANGED <<Capacity, Used, call, granted, issued>>
    BY <1>10 DEF vars, shared, Capacity, Used, InFlight
  <2> QED BY <2>1 DEF VH!vars
<1> QED BY <1>1, <1>2, <1>3, <1>4, <1>5, <1>6, <1>7, <1>8, <1>9, <1>10 DEF Next, Continue

(* The two-lock allocator implements VramHeap, whose calls are atomic.     *)
THEOREM Refinement == Spec => Implements
<1> QED BY RefineInit, RefineNext, Inductive, PTL DEF Spec, Implements, VH!Spec
=============================================================================
