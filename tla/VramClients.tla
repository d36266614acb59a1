----------------------------- MODULE VramClients -----------------------------
(***************************************************************************)
(* Tensors and a runlist that draw on one VRAM allocator, in any order of  *)
(* their calls, until VRAM is used up: nothing is ever returned to it.     *)
(***************************************************************************)
EXTENDS Tensors, Runlist

VARIABLE capacity   \* bytes that could be granted at the start

vars == <<heap, tensorVars, runlistVars, capacity>>

Init ==
  /\ \E reg \in VramSizeRegs : capacity = CapacityOf(DecodeVramSize(reg))
  /\ freeRegion = [start |-> Reserved, size |-> capacity]
  /\ nextVa = VaBase
  /\ TensorsInit /\ RunlistInit

Next ==
  \/ TensorsNext /\ UNCHANGED <<runlistVars, capacity>>
  \/ RunlistNext /\ UNCHANGED <<tensorVars, capacity>>

Spec == Init /\ [][Next]_vars

-----------------------------------------------------------------------------
Blocks == [kind : {"vram"}, gpu_va : 0 .. Word - 1, phys_addr : Nat, size : Nat,
           cpu_mapped : BOOLEAN, cpu_va : Nat]

(* Every variable has its type: the counters never pass below zero.        *)
TypeOK ==
  /\ capacity \in Nat
  /\ freeRegion \in [start : Nat, size : Nat] /\ nextVa \in 0 .. Word - 1
  /\ Len(tensors) <= MaxTensors
  /\ \A i \in DOMAIN tensors :
       /\ tensors[i].allocation \in Blocks
       /\ tensors[i].num_elements \in 0 .. Word - 1
       /\ tensors[i].size_bytes \in 0 .. Word - 1
  /\ total_allocated \in 0 .. Word - 1 /\ tensor_count \in Nat
  /\ transfer \in [bytes : Nat, tensor : Nat, ok : BOOLEAN]
  /\ channels \in Seq(ChannelIds) /\ committed \in Seq(ChannelIds)
  /\ allocation \subseteq Blocks

(* The blocks somebody owns: the runlist's last. *)
Owned ==
  [i \in DOMAIN tensors |-> tensors[i].allocation] \o SetToSeq(allocation)

Used == capacity - freeRegion.size

(* allocate: whatever its clients asked for, sizes that wrap to an empty   *)
(* block included, no two of them own a byte of VRAM in common, and all    *)
(* lie in the memory that was handed out.                                  *)
BlocksOwned ==
  \A i \in DOMAIN Owned :
    /\ Reserved <= Owned[i].phys_addr
    /\ Owned[i].phys_addr + Owned[i].size <= Reserved + Used
    /\ \A j \in 1 .. i - 1 : DisjointVram(Owned[i], Owned[j])

-----------------------------------------------------------------------------
(* A tensor as its caller means it: sizes without the wrap.                *)
TrueProducts(shape) ==
  LET n == Len(shape)
      from[i \in 1 .. n + 1] == IF i = n + 1 THEN 1 ELSE shape[i] * from[i + 1]
  IN from

TrueElements(x) == TrueProducts(x.shape)[1]

Bits(x) == IF x.dtype = "Int4" THEN 4 ELSE 8 * element_size(x.dtype)

(* The number of its elements and the next one are usizes, its bytes and   *)
(* one page more are a u64.                                                *)
Representable(x) ==
  TrueElements(x) + 1 < Word /\ TrueElements(x) * Bits(x) <= 8 * (Word - PageSize)

Indices(x) ==
  {f \in [DOMAIN x.shape -> 0 .. Max({0} \cup Range(x.shape))] :
     \A k \in DOMAIN x.shape : f[k] < x.shape[k]}

(* Where the element at f lies, in elements: its place in each dimension   *)
(* times the stride, summed from the last dimension on.                    *)
Offsets(x, f) ==
  LET n == Len(x.shape)
      from[i \in 1 .. n + 1] == IF i = n + 1 THEN 0 ELSE (f[i] * x.strides[i]) + from[i + 1]
  IN from

Offset(x, f) == Offsets(x, f)[1]

(* allocate_tensor and compute_strides: a tensor whose count of elements   *)
(* and whose bytes do not wrap, in whatever number of dimensions, has a    *)
(* place for each of its elements inside the bytes that a transfer covers  *)
(* and its block holds, and no two elements share one.  (One that wraps    *)
(* may be granted a block that is too small, or an empty one.)             *)
ElementsPlaced ==
  \A i \in DOMAIN tensors :
    LET x == tensors[i]
    IN Representable(x) =>
         /\ x.num_elements = TrueElements(x) /\ x.size_bytes <= x.allocation.size
         /\ \A f \in Indices(x) : (Offset(x, f) + 1) * Bits(x) <= 8 * x.size_bytes
         /\ \A f, g \in Indices(x) : Offset(x, f) = Offset(x, g) => f = g

(* upload and download: a transfer that returns true has been granted a    *)
(* window for its copy: the caller's slice has room for every element, the *)
(* aperture shows that many bytes from the tensor's CPU address on, and    *)
(* they are no other client's - also when the mapping is the one of an     *)
(* earlier transfer.  (The copy is a TODO of the code: nothing is moved.)  *)
TransferWindow ==
  transfer.ok =>
    LET x == tensors[transfer.tensor]
        from == x.allocation.cpu_va - Bar1Base
        window == [phys_addr |-> from, size |-> transfer.bytes]
    IN Representable(x) =>
         /\ x.allocation.cpu_mapped /\ from + transfer.bytes <= Bar1Size
         /\ TrueElements(x) * Bits(x) <= 8 * transfer.bytes
         /\ \A i \in DOMAIN Owned \ {transfer.tensor} : DisjointVram(window, Owned[i])

TotalBytes(list) ==
  LET sum[k \in 0 .. Len(list)] == IF k = 0 THEN 0 ELSE sum[k - 1] + list[k].size_bytes
  IN sum[Len(list)]

(* total_allocated and tensor_count after any sequence of allocations that *)
(* succeed or fail, and of frees: the bytes and the number of the live     *)
(* tensors.  Unless a size wraps they never claim more than the allocator  *)
(* gave away - but less, since it takes nothing back.                      *)
CountersHonest ==
  /\ tensor_count = Len(tensors)
  /\ total_allocated = TotalBytes(tensors) % Word
  /\ (\A i \in DOMAIN tensors : Representable(tensors[i])) => total_allocated <= Used

(* Runlist::commit: the list that the GPU was given last is in a block     *)
(* that the runlist still owns and that has room for every entry of it -   *)
(* also after a commit that found no VRAM for a longer list, or nothing to *)
(* list, and left the GPU with the old one.                                *)
RunlistHeld ==
  committed # << >> => \E b \in allocation : ListBytes(committed) <= b.size
=============================================================================
