------------------------------ MODULE VramHeap ------------------------------
(***************************************************************************)
(* What VramAllocator (src/src/memory.rs) promises its callers, with every *)
(* call a single step: the blocks it grants never overlap, in VRAM or in   *)
(* the GPU address space; a request is refused only when the bytes granted *)
(* before leave no room for it; a block is shown to the CPU only inside    *)
(* the BAR1 aperture.  How the addresses are chosen is left open.          *)
(***************************************************************************)
EXTENDS Integers, Sequences

CONSTANTS
  Callers,    \* threads that share the allocator (its methods take &self)
  PageSize,   \* allocation granule in bytes (4 KiB)
  Reserved,   \* bytes at the start of VRAM kept for the GPU (1 MiB)
  VaBase,     \* first GPU virtual address handed out
  Word,       \* number of values of a u64
  Bar1Base,   \* CPU address of the BAR1 aperture
  Bar1Size    \* bytes of VRAM that the aperture shows

VARIABLES
  capacity,   \* bytes of VRAM that may be granted
  call,       \* what each caller is waiting for
  granted,    \* every block returned so far, in the order of the returns
  used,       \* bytes of VRAM granted
  issued      \* bytes of GPU address space granted

vars == <<capacity, call, granted, used, issued>>

Idle == [op |-> "idle", size |-> 0]

(* n is what a request for s bytes must receive: whole pages, the fewest.  *)
Covers(n, s) == n % PageSize = 0 /\ s <= n /\ n < s + PageSize

InVram(b) == b.kind = "vram"

DisjointVram(a, b) ==
  \/ a.phys_addr + a.size <= b.phys_addr
  \/ b.phys_addr + b.size <= a.phys_addr

DisjointVa(a, b) ==
  \/ a.gpu_va + a.size <= b.gpu_va
  \/ b.gpu_va + b.size <= a.gpu_va

(* As long as no more addresses than a u64 counts have been given out.     *)
VaSpaceLeft(bytes) == VaBase + bytes < Word

Init ==
  /\ capacity \in Nat
  /\ call = [t \in Callers |-> Idle]
  /\ granted = << >>
  /\ used = 0
  /\ issued = 0

Ask(t) ==
  /\ call[t] = Idle
  /\ call' = [call EXCEPT ![t] = call'[t]]
  /\ call'[t].op \in {"alloc", "dma"}
  /\ UNCHANGED <<capacity, granted, used, issued>>

(* One more block b, at addresses that no earlier block has.               *)
Extend(t, b) ==
  /\ granted' = Append(granted, b)
  /\ Covers(b.size, call[t].size)
  /\ ~ b.cpu_mapped
  /\ issued' = issued + b.size
  /\ VaSpaceLeft(issued') => \A i \in DOMAIN granted : DisjointVa(granted[i], b)
  /\ call' = [call EXCEPT ![t] = Idle]
  /\ UNCHANGED capacity

Grows == Len(granted') = Len(granted) + 1
NewBlock == granted'[Len(granted) + 1]

Grant(t) ==
  /\ call[t].op = "alloc" /\ Grows
  /\ Extend(t, NewBlock)
  /\ InVram(NewBlock)
  /\ Reserved <= NewBlock.phys_addr
  /\ NewBlock.phys_addr + NewBlock.size <= Reserved + capacity
  /\ \A i \in DOMAIN granted : InVram(granted[i]) => DisjointVram(granted[i], NewBlock)
  /\ used' = used + NewBlock.size

Refuse(t) ==
  /\ call[t].op = "alloc"
  /\ \E n \in call[t].size .. call[t].size + PageSize :
        Covers(n, call[t].size) /\ used + n > capacity
  /\ call' = [call EXCEPT ![t] = Idle]
  /\ UNCHANGED <<capacity, granted, used, issued>>

MapDma(t) ==
  /\ call[t].op = "dma" /\ Grows
  /\ Extend(t, NewBlock)
  /\ ~ InVram(NewBlock)
  /\ UNCHANGED used

(* Block i becomes visible to the CPU through the aperture.                *)
Expose(i) ==
  /\ InVram(granted[i]) /\ ~ granted[i].cpu_mapped
  /\ granted[i].phys_addr + granted[i].size <= Bar1Size
  /\ granted' = [granted EXCEPT ![i].cpu_mapped = TRUE,
                                ![i].cpu_va = Bar1Base + granted[i].phys_addr]
  /\ UNCHANGED <<capacity, call, used, issued>>

Next ==
  \/ \E t \in Callers : Ask(t) \/ Grant(t) \/ Refuse(t) \/ MapDma(t)
  \/ \E i \in DOMAIN granted : Expose(i)

Spec == Init /\ [][Next]_vars
=============================================================================
