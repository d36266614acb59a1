---------------------------- MODULE VramAllocator ----------------------------
(***************************************************************************)
(* The VRAM bump allocator of src/src/memory.rs, called by several         *)
(* threads.  allocate takes the lock of the free list, cuts the block from *)
(* the front of the one free region, and takes the lock of next_gpu_va     *)
(* while it still holds the first; map_system_memory takes only the second *)
(* lock.  Between two lock operations any other thread may run.            *)
(*                                                                         *)
(* free changes nothing in the code, so it is no action here.  A loaded    *)
(* value stays in the thread (seen, va) until the step that stores it.     *)
(***************************************************************************)
EXTENDS Vram, Sequences

CONSTANTS
  Callers,        \* threads that share the allocator
  Nobody,         \* the owner of a free lock
  Sizes,          \* sizes that callers ask for
  MaxCalls,       \* bound: calls per thread
  Bar1Base, Bar1Size   \* as in VramHeap

ASSUME CallersAssumption == Nobody \notin Callers

ASSUME ApertureAssumption == Bar1Base \in Nat /\ Bar1Size \in Nat

(* Rounding a size up to a page does not overflow 64 bits.                 *)
ASSUME SizesAssumption == \A s \in Sizes : s \in Nat /\ s + PageSize <= Word

VARIABLES
  total,        \* info.total_bytes
  freeRegion,   \* free_list: it always holds exactly one region
  nextVa,       \* next_gpu_va
  listLock,     \* owner of free_list's mutex
  vaLock,       \* owner of next_gpu_va's mutex
  pc,           \* where each thread is
  call,         \* its call
  seen,         \* the region it read under the list lock
  va,           \* the next_gpu_va it read under the address lock
  calls,        \* calls it has made
  granted,      \* blocks returned, in the order of the returns
  issued        \* bytes of GPU address space handed out, without the wrap

shared == <<total, freeRegion, nextVa, listLock, vaLock>>
vars   == <<shared, pc, call, seen, va, calls, granted, issued>>

Idle == [op |-> "idle", size |-> 0]
NoRegion == [start |-> 0, size |-> 0]

-----------------------------------------------------------------------------
Capacity == CapacityOf(total)

InAperture(b) == InWindow(b, Bar1Size)

-----------------------------------------------------------------------------
(* detect_and_init *)
Init ==
  /\ \E reg \in VramSizeRegs : total = DecodeVramSize(reg)
  /\ freeRegion = [start |-> Reserved, size |-> Capacity]
  /\ nextVa = VaBase
  /\ listLock = Nobody /\ vaLock = Nobody
  /\ pc = [t \in Callers |-> "idle"]
  /\ call = [t \in Callers |-> Idle]
  /\ seen = [t \in Callers |-> NoRegion]
  /\ va = [t \in Callers |-> 0]
  /\ calls = [t \in Callers |-> 0]
  /\ granted = << >>
  /\ issued = 0

Begin(t, op, s, at) ==
  /\ pc[t] = "idle" /\ calls[t] < MaxCalls
  /\ calls' = [calls EXCEPT ![t] = @ + 1]
  /\ call' = [call EXCEPT ![t] = [op |-> op, size |-> s]]
  /\ pc' = [pc EXCEPT ![t] = at]
  /\ UNCHANGED <<shared, seen, va, granted, issued>>

BeginAllocate(t) == \E s \in Sizes : Begin(t, "alloc", s, "list")
BeginMapSystem(t) == \E s \in Sizes : Begin(t, "dma", s, "dma")

(* free_list.lock(), and the read of its region.  A variant of the code    *)
(* with a mistake in it stands before the definition it varies.            *)
LockFreeList_Shared(t) ==
  /\ pc[t] = "list"
  /\ listLock' = t
  /\ seen' = [seen EXCEPT ![t] = freeRegion]
  /\ pc' = [pc EXCEPT ![t] = "scan"]
  /\ UNCHANGED <<total, freeRegion, nextVa, vaLock, call, va, calls, granted, issued>>

LockFreeList(t) ==
  /\ pc[t] = "list" /\ listLock = Nobody
  /\ listLock' = t
  /\ seen' = [seen EXCEPT ![t] = freeRegion]
  /\ pc' = [pc EXCEPT ![t] = "scan"]
  /\ UNCHANGED <<total, freeRegion, nextVa, vaLock, call, va, calls, granted, issued>>

TakeRegion(t) ==
  /\ pc[t] = "scan" /\ Fits(seen[t], AlignUp(call[t].size))
  /\ freeRegion' = Cut(seen[t], AlignUp(call[t].size))
  /\ pc' = [pc EXCEPT ![t] = "va"]
  /\ UNCHANGED <<total, nextVa, listLock, vaLock, call, seen, va, calls, granted, issued>>

(* The call is over: its locals go out of scope. *)
Leave(t) ==
  /\ pc' = [pc EXCEPT ![t] = "idle"]
  /\ call' = [call EXCEPT ![t] = Idle]
  /\ seen' = [seen EXCEPT ![t] = NoRegion]
  /\ va' = [va EXCEPT ![t] = 0]

(* VRAM exhausted: None is returned and the guard dropped. *)
RefuseAllocate_KeepLock(t) ==
  /\ pc[t] = "scan" /\ ~ Fits(seen[t], AlignUp(call[t].size))
  /\ Leave(t)
  /\ UNCHANGED <<total, freeRegion, nextVa, listLock, vaLock, calls, granted, issued>>

RefuseAllocate(t) ==
  /\ pc[t] = "scan" /\ ~ Fits(seen[t], AlignUp(call[t].size))
  /\ Leave(t)
  /\ listLock' = Nobody
  /\ UNCHANGED <<total, freeRegion, nextVa, vaLock, calls, granted, issued>>

(* next_gpu_va.lock(), from allocate and from map_system_memory. *)
LockNextVa_NoLock(t) ==
  /\ pc[t] \in {"va", "dma"}
  /\ va' = [va EXCEPT ![t] = nextVa]
  /\ pc' = [pc EXCEPT ![t] = IF @ = "va" THEN "bump" ELSE "dmaBump"]
  /\ UNCHANGED <<total, freeRegion, nextVa, listLock, vaLock, call, seen, calls, granted, issued>>

LockNextVa(t) ==
  /\ pc[t] \in {"va", "dma"} /\ vaLock = Nobody
  /\ vaLock' = t
  /\ va' = [va EXCEPT ![t] = nextVa]
  /\ pc' = [pc EXCEPT ![t] = IF @ = "va" THEN "bump" ELSE "dmaBump"]
  /\ UNCHANGED <<total, freeRegion, nextVa, listLock, call, seen, calls, granted, issued>>

(* *next_va += aligned_size, the return and the drop of the guards. *)
Return(t, block) ==
  /\ nextVa' = (va[t] + block.size) % Word
  /\ issued' = issued + block.size
  /\ vaLock' = Nobody
  /\ granted' = Append(granted, block)
  /\ Leave(t)
  /\ UNCHANGED <<total, freeRegion, calls>>

ReturnBlock(t) ==
  /\ pc[t] = "bump"
  /\ Return(t, Block("vram", va[t], seen[t].start, AlignUp(call[t].size)))
  /\ listLock' = Nobody

ReturnMapping(t) ==
  /\ pc[t] = "dmaBump"
  /\ Return(t, Block("dma", va[t], 0, AlignUp(call[t].size)))
  /\ UNCHANGED listLock

(* The owner of block i maps it: &mut self, so nobody else uses the block. *)
MapToCpu(i) ==
  /\ granted[i].kind = "vram" /\ ~ granted[i].cpu_mapped /\ InAperture(granted[i])
  /\ granted' = [granted EXCEPT ![i].cpu_mapped = TRUE,
                                ![i].cpu_va = Bar1Base + granted[i].phys_addr]
  /\ UNCHANGED <<shared, pc, call, seen, va, calls, issued>>

(* A step of a call that has begun. *)
Continue(t) ==
  \/ LockFreeList(t) \/ TakeRegion(t) \/ RefuseAllocate(t)
  \/ LockNextVa(t) \/ ReturnBlock(t) \/ ReturnMapping(t)

Next ==
  \/ \E t \in Callers : BeginAllocate(t) \/ BeginMapSystem(t) \/ Continue(t)
  \/ \E i \in DOMAIN granted : MapToCpu(i)

Spec == Init /\ [][Next]_vars

(* A thread inside a call is scheduled until the call returns. *)
FairSpec == Spec /\ \A t \in Callers : WF_vars(Continue(t))

-----------------------------------------------------------------------------
Blocks == [kind : {"vram", "dma"}, gpu_va : 0 .. Word - 1, phys_addr : Nat,
           size : Nat, cpu_mapped : BOOLEAN, cpu_va : Nat]

PCs == {"idle", "list", "scan", "va", "bump", "dma", "dmaBump"}

(* Every variable has its type; the free region never has a negative size  *)
(* (region.size is unsigned: a cut larger than the region would wrap).     *)
TypeOK ==
  /\ total \in Nat
  /\ freeRegion \in [start : Nat, size : Nat]
  /\ nextVa \in 0 .. Word - 1
  /\ listLock \in Callers \cup {Nobody} /\ vaLock \in Callers \cup {Nobody}
  /\ pc \in [Callers -> PCs]
  /\ call \in [Callers -> [op : {"idle", "alloc", "dma"}, size : Sizes \cup {0}]]
  /\ seen \in [Callers -> [start : Nat, size : Nat]]
  /\ va \in [Callers -> 0 .. Word - 1]
  /\ calls \in [Callers -> Nat]
  /\ granted \in Seq(Blocks)
  /\ issued \in Nat

(* allocate: whatever the interleaving of the callers, no two blocks of    *)
(* VRAM share a byte, and none reaches into the reserved area or past the  *)
(* end of the memory that was detected.                                    *)
BlocksDisjoint ==
  \A i \in DOMAIN granted : granted[i].kind = "vram" =>
    /\ Reserved <= granted[i].phys_addr
    /\ granted[i].phys_addr + granted[i].size <= Reserved + Capacity
    /\ \A j \in 1 .. i - 1 : granted[j].kind = "vram" =>
          granted[j].phys_addr + granted[j].size <= granted[i].phys_addr

(* allocate and map_system_memory draw on one counter of GPU addresses     *)
(* under different locks: until it wraps, no two mappings of either kind   *)
(* share an address.                                                       *)
VaDisjoint ==
  VaBase + issued < Word =>
    \A i \in DOMAIN granted : \A j \in 1 .. i - 1 :
      granted[j].gpu_va + granted[j].size <= granted[i].gpu_va

(* map_to_cpu: CPU accesses to two mapped blocks stay inside the aperture  *)
(* and never reach the same byte.                                          *)
ApertureSafe ==
  \A i \in DOMAIN granted : granted[i].cpu_mapped =>
    /\ granted[i].cpu_va \in Bar1Base .. Bar1Base + Bar1Size
    /\ granted[i].cpu_va + granted[i].size <= Bar1Base + Bar1Size
    /\ \A j \in 1 .. i - 1 : granted[j].cpu_mapped =>
          granted[j].cpu_va + granted[j].size <= granted[i].cpu_va

(* The bytes cut from the region by a call that has not returned yet.      *)
InFlight ==
  IF listLock # Nobody /\ pc[listLock] \in {"va", "bump"}
  THEN AlignUp(call[listLock].size) ELSE 0

Used == freeRegion.start - Reserved - InFlight

VH == INSTANCE VramHeap WITH capacity <- Capacity, used <- Used

(* Every interleaving of the two-lock code looks like the allocator of     *)
(* VramHeap, whose calls are single steps: in particular None is returned  *)
(* only when the blocks granted so far leave no room.                      *)
Implements == VH!Spec

(* allocate takes next_gpu_va's lock inside free_list's: no order of the   *)
(* callers leaves a call waiting for ever.                                 *)
EveryCallReturns == \A t \in Callers : pc[t] # "idle" ~> pc[t] = "idle"
=============================================================================
