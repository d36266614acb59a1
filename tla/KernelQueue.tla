----------------------------- MODULE KernelQueue -----------------------------
(***************************************************************************)
(* What ComputeEngine (src/src/compute.rs) promises of the kernels it has  *)
(* accepted: the GPU launches each of them once, in order, with the        *)
(* program and the dimensions its caller gave, and with at least the       *)
(* constant buffers it asked for; a fence is signalled only for a kernel   *)
(* that has been launched.                                                 *)
(***************************************************************************)
EXTENDS Naturals, Sequences

VARIABLES
  accepted,   \* kernels for which dispatch handed work to the GPU, in order
  launched,   \* what the GPU launched, in order
  signalled   \* fences whose value the GPU has written

vars == <<accepted, launched, signalled>>

(* The launch does what the kernel asks for. *)
Serves(launch, kernel) ==
  /\ launch.class = kernel.class
  /\ launch.program = kernel.program
  /\ launch.block = kernel.block /\ launch.grid = kernel.grid
  /\ \A b \in kernel.buffers : b \in launch.buffers

Init == accepted = << >> /\ launched = << >> /\ signalled = {}

Accept ==
  /\ Len(accepted') = Len(accepted) + 1
  /\ accepted' = Append(accepted, accepted'[Len(accepted) + 1])
  /\ UNCHANGED <<launched, signalled>>

Launch ==
  /\ Len(launched) < Len(accepted)
  /\ Len(launched') = Len(launched) + 1
  /\ launched' = Append(launched, launched'[Len(launched) + 1])
  /\ Serves(launched'[Len(launched) + 1], accepted[Len(launched) + 1])
  /\ UNCHANGED <<accepted, signalled>>

Signal ==
  /\ \E i \in 1 .. Len(launched) :
        /\ accepted[i].fence # {}
        /\ signalled' = signalled \cup accepted[i].fence
  /\ UNCHANGED <<accepted, launched>>

Next == Accept \/ Launch \/ Signal

Spec == Init /\ [][Next]_vars
=============================================================================
