------------------------------- MODULE Tensors -------------------------------
(***************************************************************************)
(* The tensor engine of src/src/tensor.rs: descriptors of tensors, their   *)
(* transfers through the BAR1 aperture, and the counters of the engine.    *)
(* allocate_tensor and free_tensor take &mut self and transfers &mut the   *)
(* tensor, so every call is one step.  Sizes are computed in usize and     *)
(* u64, which wrap in the release build.                                   *)
(*                                                                         *)
(* The operations on tensors (matmul, softmax ...) log and return false.   *)
(***************************************************************************)
EXTENDS VramCalls, SequencesExt

CONSTANTS
  Requests,    \* what callers ask for: a shape and a data type
  MaxTensors,  \* bound: tensors alive
  Bar1Base,    \* CPU address of the BAR1 aperture
  Bar1Size     \* bytes of VRAM that the aperture shows

DTypes == {"Float32", "Float16", "BFloat16", "Int8", "Int4"}

ASSUME TensorAssumption ==
  /\ MaxTensors \in Nat /\ Bar1Base \in Nat /\ Bar1Size \in Nat /\ 1 < Word
  /\ \A r \in Requests : r.shape \in Seq(Nat) /\ r.dtype \in DTypes

VARIABLES
  tensors,           \* the live tensors
  total_allocated,
  tensor_count,
  transfer           \* the last call, if it was a transfer

tensorVars == <<tensors, total_allocated, tensor_count, transfer>>

NoTransfer == [bytes |-> 0, tensor |-> 0, ok |-> FALSE]

-----------------------------------------------------------------------------
element_size(dtype) ==
  CASE dtype = "Float32" -> 4
    [] dtype \in {"Float16", "BFloat16"} -> 2
    [] dtype \in {"Int8", "Int4"} -> 1

(* The products of the dimensions from each one on, and 1 past the last.   *)
Products(shape) ==
  LET n == Len(shape)
      from[i \in 1 .. n + 1] ==
        IF i = n + 1 THEN 1 ELSE (shape[i] * from[i + 1]) % Word
  IN from

total_elements(shape) == Products(shape)[1]

(* Variants with a mistake in them precede the definition they vary.       *)
compute_strides_NotReversed(shape) == Reverse([i \in DOMAIN shape |-> Products(shape)[i + 1]])

compute_strides(shape) == [i \in DOMAIN shape |-> Products(shape)[i + 1]]

SizeBytes_RoundDown(n, dtype) ==
  IF dtype = "Int4" THEN n \div 2 ELSE (n * element_size(dtype)) % Word

(* Two Int4 elements share a byte. *)
SizeBytes(n, dtype) ==
  IF dtype = "Int4" THEN ((n + 1) % Word) \div 2 ELSE (n * element_size(dtype)) % Word

Tensor(r) ==
  LET n == total_elements(r.shape)
      bytes == SizeBytes(n, r.dtype)
  IN [shape |-> r.shape, strides |-> compute_strides(r.shape), dtype |-> r.dtype,
      allocation |-> NewBlock(bytes), num_elements |-> n, size_bytes |-> bytes]

-----------------------------------------------------------------------------
TensorsInit ==
  tensors = << >> /\ total_allocated = 0 /\ tensor_count = 0 /\ transfer = NoTransfer

AllocateTensor(r) ==
  /\ Len(tensors) < MaxTensors
  /\ Allocate(Tensor(r).size_bytes)
  /\ tensors' = Append(tensors, Tensor(r))
  /\ total_allocated' = (total_allocated + Tensor(r).size_bytes) % Word
  /\ tensor_count' = tensor_count + 1
  /\ transfer' = NoTransfer

(* No VRAM: None, and nothing is counted. *)
RefuseTensor_Counted(r) ==
  /\ Len(tensors) < MaxTensors /\ ~ HasRoom(Tensor(r).size_bytes)
  /\ tensor_count' = tensor_count + 1
  /\ transfer' = NoTransfer
  /\ UNCHANGED <<heap, tensors, total_allocated>>

RefuseTensor(r) ==
  /\ Len(tensors) < MaxTensors /\ ~ HasRoom(Tensor(r).size_bytes)
  /\ transfer' = NoTransfer
  /\ UNCHANGED <<heap, tensors, total_allocated, tensor_count>>

(* map_to_cpu *)
Mappable_SizeOnly(b) == b.cpu_mapped \/ InWindow_SizeOnly(b, Bar1Size)

Mappable(b) == b.cpu_mapped \/ InWindow(b, Bar1Size)

Mapped(b) ==
  IF b.cpu_mapped THEN b
  ELSE [b EXCEPT !.cpu_mapped = TRUE, !.cpu_va = Bar1Base + b.phys_addr]

(* A slice of n bytes: it has the length of the tensor and the tensor can  *)
(* be mapped, or the call returns false and changes nothing.  The copy     *)
(* itself is a TODO of the code.                                           *)
Transfer(i, n) ==
  LET ok == n = tensors[i].size_bytes /\ Mappable(tensors[i].allocation)
  IN /\ tensors' = IF ok THEN [tensors EXCEPT ![i].allocation = Mapped(@)] ELSE tensors
     /\ transfer' = [bytes |-> n, tensor |-> i, ok |-> ok]
     /\ UNCHANGED <<heap, total_allocated, tensor_count>>

Upload(i, n) == Transfer(i, n)

Download(i, n) == Transfer(i, n)

(* The allocator keeps the block. *)
FreeTensor(i) ==
  /\ tensors' = RemoveAt(tensors, i)
  /\ total_allocated' = (total_allocated - tensors[i].size_bytes) % Word
  /\ tensor_count' = tensor_count - 1
  /\ transfer' = NoTransfer
  /\ UNCHANGED heap

(* Slices have the length of the tensor or another. *)
Lengths(x) == {x.size_bytes, x.size_bytes + 1}

TensorsNext ==
  \/ \E r \in Requests : AllocateTensor(r) \/ RefuseTensor(r)
  \/ \E i \in DOMAIN tensors :
       \/ \E n \in Lengths(tensors[i]) : Upload(i, n) \/ Download(i, n)
       \/ FreeTensor(i)
=============================================================================
