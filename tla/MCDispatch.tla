----------------------------- MODULE MCDispatch -----------------------------
(***************************************************************************)
(* Two shaders from either of two binaries, two jobs that differ in every  *)
(* dimension and in their constant buffers, two calls.  Two kernels fit    *)
(* the push buffer only if the second is small or the buffer was reset;    *)
(* VRAM may run out before either call; addresses cross a word, and the    *)
(* fence value wraps.                                                      *)
(***************************************************************************)
EXTENDS Dispatch

MCBinaries == {[pages |-> 1, entry_offset |-> 1, shared_mem_size |-> 2],
               [pages |-> 2, entry_offset |-> 2, shared_mem_size |-> 1]}

MCJobs ==
  {[block |-> <<1, 2, 3>>, grid |-> <<3, 1, 2>>, buffers |-> << >>],
   [block |-> <<2, 3, 1>>, grid |-> <<1, 2, 3>>,
    buffers |-> <<[slot |-> 1, size |-> 2], [slot |-> 0, size |-> 1]>>]}
=============================================================================
