--------------------------- MODULE MCVramAllocator ---------------------------
(***************************************************************************)
(* Two threads, two calls each, pages of 2 bytes.  The register values     *)
(* decode to the default (10 bytes, of which 8 may be granted), to 4 bytes *)
(* (2 may be granted), and to no memory at all; the largest run of         *)
(* requests both exhausts VRAM and wraps the address counter               *)
(* (8 + 4 * 4 >= 20).                                                      *)
(***************************************************************************)
EXTENDS VramAllocator

MCSizes == {0, 1, 4}
MCRegs  == {0, 2, 9}
=============================================================================
