------------------------------ MODULE VramCalls ------------------------------
(***************************************************************************)
(* The VRAM allocator as its clients see it: an allocation is one step, as *)
(* VramHeap promises.  free changes nothing.                               *)
(***************************************************************************)
EXTENDS Vram

VARIABLES freeRegion, nextVa   \* as in VramAllocator

heap == <<freeRegion, nextVa>>

HasRoom(bytes) == Fits(freeRegion, AlignUp(bytes))

NewBlock(bytes) == Block("vram", nextVa, freeRegion.start, AlignUp(bytes))

Allocate(bytes) ==
  /\ HasRoom(bytes)
  /\ freeRegion' = Cut(freeRegion, AlignUp(bytes))
  /\ nextVa' = (nextVa + AlignUp(bytes)) % Word

DisjointVram(a, b) ==
  \/ a.phys_addr + a.size <= b.phys_addr
  \/ b.phys_addr + b.size <= a.phys_addr
=============================================================================
