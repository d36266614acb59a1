---------------------------- MODULE CommandQueue ----------------------------
(***************************************************************************)
(* What a Channel (src/src/fifo.rs) promises its callers: each call of     *)
(* submit is one step that either queues the caller's commands or, when    *)
(* the push buffer has no room for them, refuses; the GPU runs exactly the *)
(* queued commands, in the order of the queue; and the commands that wait  *)
(* for the GPU never share memory with each other.                         *)
(***************************************************************************)
EXTENDS Integers, Sequences

CONSTANTS
  Submitters,   \* threads that submit to the channel
  Dword,        \* bytes of a command word (4)
  PushVa,       \* GPU address of the push buffer
  PushBytes     \* its size (256 KiB)

VARIABLES
  call,         \* <<n>> while a thread submits n command words, else << >>
  submitted,    \* the entries whose submit returned Some, in order
  executed,     \* the entries the GPU fetched, in order
  used          \* bytes of the push buffer taken since the last reset

vars == <<call, submitted, executed, used>>

Bytes(n) == Dword * n

Disjoint(e, f) ==
  \/ e.va + Bytes(e.len) <= f.va
  \/ f.va + Bytes(f.len) <= e.va

Pending == Len(executed) + 1 .. Len(submitted)

Init ==
  /\ call = [s \in Submitters |-> << >>]
  /\ submitted = << >> /\ executed = << >>
  /\ used = 0

Call(s) ==
  /\ call[s] = << >>
  /\ call' = [call EXCEPT ![s] = call'[s]] /\ call'[s] # << >>
  /\ UNCHANGED <<submitted, executed, used>>

Grows == Len(submitted') = Len(submitted) + 1
NewEntry == submitted'[Len(submitted) + 1]

Accept(s) ==
  /\ call[s] # << >> /\ Grows
  /\ submitted' = Append(submitted, NewEntry)
  /\ call[s] = <<NewEntry.len>>
  /\ PushVa <= NewEntry.va
  /\ NewEntry.va + Bytes(NewEntry.len) <= PushVa + PushBytes
  /\ \A i \in Pending : Disjoint(submitted[i], NewEntry)
  /\ used' = used + Bytes(NewEntry.len)
  /\ call' = [call EXCEPT ![s] = << >>]
  /\ UNCHANGED executed

Refuse(s) ==
  /\ call[s] # << >>
  /\ used + Bytes(call[s][1]) > PushBytes
  /\ call' = [call EXCEPT ![s] = << >>]
  /\ UNCHANGED <<submitted, executed, used>>

Run ==
  /\ Pending # {}
  /\ executed' = Append(executed, submitted[Len(executed) + 1])
  /\ UNCHANGED <<call, submitted, used>>

Reset ==
  /\ executed = submitted
  /\ used' = 0
  /\ UNCHANGED <<call, submitted, executed>>

Next == Run \/ Reset \/ \E s \in Submitters : Call(s) \/ Accept(s) \/ Refuse(s)

Spec == Init /\ [][Next]_vars
=============================================================================
