-------------------------------- MODULE Vram --------------------------------
(***************************************************************************)
(* The arithmetic of the VRAM allocator (src/src/memory.rs), shared by the *)
(* models of its threads, of its clients and of the device's start.        *)
(***************************************************************************)
EXTENDS Integers

CONSTANTS
  PageSize,      \* allocation granule in bytes (4 KiB)
  Reserved,      \* bytes at the start of VRAM kept for the GPU (1 MiB)
  VaBase,        \* first GPU virtual address handed out
  Word,          \* number of values of a u64 and of a usize
  VramSizeRegs,  \* values NV_PFB_VRAM_SIZE may read
  MiB, DefaultVram, MaxVram   \* unit of the register, 8 GiB, 128 GiB

ASSUME WidthAssumption ==
  /\ PageSize \in Nat \ {0} /\ Word \in Nat \ {0}
  /\ Reserved \in Nat /\ VaBase \in Nat /\ VaBase < Word
  /\ MiB \in Nat /\ DefaultVram \in Nat /\ MaxVram \in Nat
  /\ VramSizeRegs \subseteq Nat

(* (size + 0xFFF) & !0xFFF in u64. *)
AlignUp(s) == LET x == (s + PageSize - 1) % Word IN x - (x % PageSize)

DecodeVramSize(reg) ==
  IF reg = 0 THEN DefaultVram
  ELSE IF reg * MiB <= MaxVram THEN reg * MiB ELSE 0

(* total_bytes.saturating_sub(reserved) *)
CapacityOf(bytes) == IF bytes > Reserved THEN bytes - Reserved ELSE 0

(* Variants of the code with a mistake in it stand before the definition   *)
(* they vary; no specification uses them.                                  *)
Fits_NotEmpty(region, n) == region.size > 0
Fits_Strict(region, n) == region.size > n

Fits(region, n) == region.size >= n

Cut_KeepStart(region, n) == [start |-> region.start, size |-> region.size - n]

Cut(region, n) == [start |-> region.start + n, size |-> region.size - n]

(* The test of map_to_cpu: BAR1 shows the first bytes of VRAM.             *)
InWindow_SizeOnly(b, bytes) == b.size <= bytes

InWindow(b, bytes) == b.size <= bytes /\ b.phys_addr + b.size <= bytes

Block(kind, gpu_va, phys_addr, size) ==
  [kind |-> kind, gpu_va |-> gpu_va, phys_addr |-> phys_addr, size |-> size,
   cpu_mapped |-> FALSE, cpu_va |-> 0]
=============================================================================
