------------------------------- MODULE Channel -------------------------------
(***************************************************************************)
(* A GPU channel of src/src/fifo.rs: a push buffer for command words and a *)
(* ring of GPFIFO entries that point into it.  submit takes &self and does *)
(* its work in separate atomic operations, so that another thread or the   *)
(* GPU may act between any two of them.                                    *)
(*                                                                         *)
(* The code builds the GPFIFO entry and leaves its store into the ring a   *)
(* TODO; the ring here holds, for each slot, the entry built for it.  The  *)
(* GPU is modelled from how the code uses it: it fetches the slots from    *)
(* its own index up to the index last written to the doorbell register.    *)
(***************************************************************************)
EXTENDS Integers, Sequences

CONSTANTS
  Submitters,    \* threads that share the channel
  Serialised,    \* whether the callers take turns (the code does not make them)
  Window,        \* a caller waits until fewer submissions than this are pending
  Lens,          \* command words of a submission
  MaxCalls,      \* bound: calls of submit per thread
  Entries,       \* slots of the ring (gpfifo_entries, 1024)
  Dword, PushVa, PushBytes,   \* as in CommandQueue
  Word32,        \* number of values of a u32
  VaSpan,        \* addresses a GPFIFO entry can hold (2^40)
  LenSpan        \* lengths it can hold (2^23)

ASSUME RingAssumption ==
  /\ Entries \in Nat \ {0} /\ Window \in Nat /\ Serialised \in BOOLEAN

ASSUME BufferAssumption ==
  /\ Dword \in Nat \ {0} /\ PushVa \in Nat /\ PushBytes \in Nat
  /\ Word32 \in Nat \ {0} /\ VaSpan \in Nat \ {0} /\ LenSpan \in Nat \ {0}
  /\ PushVa + PushBytes < VaSpan

(* No slice is so long that its length in bytes, added to an offset into   *)
(* the buffer, leaves a u32, or that an entry cannot hold its length.      *)
ASSUME LensAssumption ==
  \A n \in Lens : n \in Nat /\ PushBytes + Dword * n < Word32 /\ n < LenSpan

VARIABLES
  push_offset,   \* bytes of the push buffer taken
  gpfifo_put,    \* next slot of the ring
  doorbell,      \* the channel's doorbell register
  gpfifo_get,    \* GPU: next slot to fetch
  ring,          \* the entry built for each slot
  pc,            \* where each thread is in submit
  call,          \* <<n>> while a thread submits n words, else << >>
  calls,         \* calls it has made
  offset,        \* current_offset, as it loaded it
  idx,           \* gpfifo_idx, as it loaded it
  submitted,     \* what submit returned Some for, in the order of the doorbells
  executed       \* what the GPU fetched

locals == <<pc, call, calls, offset, idx>>
vars   == <<push_offset, gpfifo_put, doorbell, gpfifo_get, ring, locals,
            submitted, executed>>

-----------------------------------------------------------------------------
(* (commands.len() * 4) as u32 *)
ByteLen(n) == (Dword * n) % Word32

(* GpfifoEntry::new: 40 bits of address, 23 bits of length.  The identity  *)
(* of the submission is kept to tell equal segments apart.                 *)
Encode(va, n, id) == [va |-> va % VaSpan, len |-> n % LenSpan, id |-> id]

(* The segment thread s was granted: the return value of submit.           *)
Segment(s) == PushVa + offset[s]

Id(s) == [by |-> s, nth |-> calls[s]]

NoEntry == [va |-> 0, len |-> 0, id |-> << >>]

(* Variants with a mistake in them precede the definition they vary.       *)
Full_Early(off, n) == (off + ByteLen(n)) % Word32 >= PushBytes

(* The test of line 195, in u32.                                           *)
Full(off, n) == (off + ByteLen(n)) % Word32 > PushBytes

NextSlot_Unwrapped(i) == IF i + 1 > Entries THEN 0 ELSE i + 1

NextSlot(i) == (i + 1) % Entries

-----------------------------------------------------------------------------
(* Channel::allocate: both indices and the offset are zero. *)
Init ==
  /\ push_offset = 0 /\ gpfifo_put = 0
  /\ doorbell = 0 /\ gpfifo_get = 0
  /\ ring = [i \in 0 .. Entries - 1 |-> NoEntry]
  /\ pc = [s \in Submitters |-> "idle"]
  /\ call = [s \in Submitters |-> << >>]
  /\ calls = [s \in Submitters |-> 0]
  /\ offset = [s \in Submitters |-> 0]
  /\ idx = [s \in Submitters |-> 0]
  /\ submitted = << >> /\ executed = << >>

Begin(s) ==
  /\ pc[s] = "idle" /\ calls[s] < MaxCalls
  /\ Serialised => \A u \in Submitters : pc[u] = "idle"
  /\ Len(submitted) - Len(executed) < Window
  /\ \E n \in Lens : call' = [call EXCEPT ![s] = <<n>>]
  /\ calls' = [calls EXCEPT ![s] = @ + 1]
  /\ pc' = [pc EXCEPT ![s] = "load"]
  /\ UNCHANGED <<push_offset, gpfifo_put, doorbell, gpfifo_get, ring,
                 offset, idx, submitted, executed>>

(* The call is over: its locals go out of scope. *)
Leave(s) ==
  /\ pc' = [pc EXCEPT ![s] = "idle"]
  /\ call' = [call EXCEPT ![s] = << >>]
  /\ offset' = [offset EXCEPT ![s] = 0]
  /\ idx' = [idx EXCEPT ![s] = 0]
  /\ UNCHANGED calls

(* push_offset.load: there is room. *)
LoadOffset(s) ==
  /\ pc[s] = "load" /\ ~ Full(push_offset, call[s][1])
  /\ offset' = [offset EXCEPT ![s] = push_offset]
  /\ pc' = [pc EXCEPT ![s] = "reserve"]
  /\ UNCHANGED <<push_offset, gpfifo_put, doorbell, gpfifo_get, ring,
                 call, calls, idx, submitted, executed>>

(* push_offset.load: None is returned. *)
RefuseFull(s) ==
  /\ pc[s] = "load" /\ Full(push_offset, call[s][1])
  /\ Leave(s)
  /\ UNCHANGED <<push_offset, gpfifo_put, doorbell, gpfifo_get, ring,
                 submitted, executed>>

(* push_offset.fetch_add *)
Reserve_ByWords(s) ==
  /\ pc[s] = "reserve"
  /\ push_offset' = (push_offset + call[s][1]) % Word32
  /\ pc' = [pc EXCEPT ![s] = "build"]
  /\ UNCHANGED <<gpfifo_put, doorbell, gpfifo_get, ring,
                 call, calls, offset, idx, submitted, executed>>

Reserve(s) ==
  /\ pc[s] = "reserve"
  /\ push_offset' = (push_offset + ByteLen(call[s][1])) % Word32
  /\ pc' = [pc EXCEPT ![s] = "build"]
  /\ UNCHANGED <<gpfifo_put, doorbell, gpfifo_get, ring,
                 call, calls, offset, idx, submitted, executed>>

(* gpfifo_put.load, and the entry for that slot. *)
BuildEntry_Reload(s) ==
  /\ pc[s] = "build"
  /\ idx' = [idx EXCEPT ![s] = gpfifo_put]
  /\ ring' = [ring EXCEPT ![gpfifo_put] = Encode(PushVa + push_offset, call[s][1], Id(s))]
  /\ pc' = [pc EXCEPT ![s] = "store"]
  /\ UNCHANGED <<push_offset, gpfifo_put, doorbell, gpfifo_get,
                 call, calls, offset, submitted, executed>>

BuildEntry(s) ==
  /\ pc[s] = "build"
  /\ idx' = [idx EXCEPT ![s] = gpfifo_put]
  /\ ring' = [ring EXCEPT ![gpfifo_put] = Encode(Segment(s), call[s][1], Id(s))]
  /\ pc' = [pc EXCEPT ![s] = "store"]
  /\ UNCHANGED <<push_offset, gpfifo_put, doorbell, gpfifo_get,
                 call, calls, offset, submitted, executed>>

(* gpfifo_put.store(new_idx, Release) *)
StorePut(s) ==
  /\ pc[s] = "store"
  /\ gpfifo_put' = NextSlot(idx[s])
  /\ pc' = [pc EXCEPT ![s] = "bell"]
  /\ UNCHANGED <<push_offset, doorbell, gpfifo_get, ring,
                 call, calls, offset, idx, submitted, executed>>

(* regs.write32(doorbell_offset, new_idx), and return Some(segment).       *)
RingDoorbell_OldIndex(s) ==
  /\ pc[s] = "bell"
  /\ doorbell' = idx[s]
  /\ submitted' = Append(submitted, [va |-> Segment(s), len |-> call[s][1], id |-> Id(s)])
  /\ Leave(s)
  /\ UNCHANGED <<push_offset, gpfifo_put, gpfifo_get, ring, executed>>

RingDoorbell(s) ==
  /\ pc[s] = "bell"
  /\ doorbell' = NextSlot(idx[s])
  /\ submitted' = Append(submitted, [va |-> Segment(s), len |-> call[s][1], id |-> Id(s)])
  /\ Leave(s)
  /\ UNCHANGED <<push_offset, gpfifo_put, gpfifo_get, ring, executed>>

(* The GPU fetches the next entry and runs its segment. *)
GpuFetch ==
  /\ gpfifo_get # doorbell
  /\ executed' = Append(executed, ring[gpfifo_get])
  /\ gpfifo_get' = NextSlot(gpfifo_get)
  /\ UNCHANGED <<push_offset, gpfifo_put, doorbell, ring, locals, submitted>>

(* reset_push_buffer, called as its comment asks: the GPU has consumed all *)
(* commands, and nobody is inside submit.                                  *)
ResetPushBuffer ==
  /\ gpfifo_get = doorbell /\ \A s \in Submitters : pc[s] = "idle"
  /\ push_offset' = 0
  /\ UNCHANGED <<gpfifo_put, doorbell, gpfifo_get, ring, locals, submitted, executed>>

(* A step of a submit that has begun. *)
Continue(s) ==
  \/ LoadOffset(s) \/ RefuseFull(s) \/ Reserve(s)
  \/ BuildEntry(s) \/ StorePut(s) \/ RingDoorbell(s)

Next ==
  \/ GpuFetch
  \/ ResetPushBuffer
  \/ \E s \in Submitters : Begin(s) \/ Continue(s)

Spec == Init /\ [][Next]_vars

(* A thread inside submit is scheduled; the GPU serves a rung channel.     *)
FairSpec == Spec /\ WF_vars(GpuFetch) /\ \A s \in Submitters : WF_vars(Continue(s))

-----------------------------------------------------------------------------
PCs == {"idle", "load", "reserve", "build", "store", "bell"}

Submissions == [va : Nat, len : Nat, id : [by : Submitters, nth : Nat]]

(* The indices stay inside the ring, the offset is a u32, and whoever is   *)
(* inside submit knows what it submits.                                    *)
TypeOK ==
  /\ push_offset \in 0 .. Word32 - 1
  /\ gpfifo_put \in 0 .. Entries - 1 /\ doorbell \in 0 .. Entries - 1
  /\ gpfifo_get \in 0 .. Entries - 1
  /\ ring \in [0 .. Entries - 1 -> Submissions \cup {NoEntry}]
  /\ pc \in [Submitters -> PCs]
  /\ call \in [Submitters -> {<< >>} \cup {<<n>> : n \in Lens}]
  /\ \A s \in Submitters : pc[s] = "idle" <=> call[s] = << >>
  /\ calls \in [Submitters -> Nat]
  /\ offset \in [Submitters -> 0 .. Word32 - 1]
  /\ idx \in [Submitters -> 0 .. Entries - 1]
  /\ submitted \in Seq(Submissions)
  /\ executed \in Seq(Submissions \cup {NoEntry})

(* The byte ranges that must be intact: taken by a submit still running,   *)
(* or submitted and not yet fetched.                                       *)
InSubmit == {s \in Submitters : pc[s] \in {"build", "store", "bell"}}
Waiting == Len(executed) + 1 .. Len(submitted)

Overlap(a, m, b, n) == a < b + Dword * n /\ b < a + Dword * m

(* submit: the commands of one submission are never written over those of  *)
(* another that the GPU has not run, nor outside the push buffer.          *)
PendingDisjoint ==
  /\ \A s \in InSubmit : offset[s] + Dword * call[s][1] <= PushBytes
  /\ \A s, u \in InSubmit : s # u =>
       ~ Overlap(offset[s], call[s][1], offset[u], call[u][1])
  /\ \A s \in InSubmit, i \in Waiting :
       ~ Overlap(Segment(s), call[s][1], submitted[i].va, submitted[i].len)
  /\ \A i, j \in Waiting : i # j =>
       ~ Overlap(submitted[i].va, submitted[i].len, submitted[j].va, submitted[j].len)

(* submit and the doorbell: the GPU has run a prefix of what was submitted *)
(* - no entry lost, repeated, garbled or out of order.                     *)
Fifo ==
  /\ Len(executed) <= Len(submitted)
  /\ \A i \in 1 .. Len(executed) : executed[i] = submitted[i]

(* Bytes of the buffer taken by submissions that have returned, when the   *)
(* callers take turns.                                                     *)
Used == IF InSubmit = {} THEN push_offset ELSE offset[CHOOSE s \in InSubmit : TRUE]

CQ == INSTANCE CommandQueue WITH used <- Used

(* With callers that take turns and keep fewer than Entries submissions    *)
(* pending, submit behaves as the one-step queue of CommandQueue: None is  *)
(* returned only when the buffer has no room, Some only for commands that  *)
(* the GPU will see whole and in order.                                    *)
Implements == CQ!Spec

Holds(history, s, n) ==
  \E i \in DOMAIN history : history[i].id = [by |-> s, nth |-> n]

(* The doorbell always gets the GPU to everything that was submitted.      *)
EverySubmissionRuns ==
  \A s \in Submitters, n \in 1 .. MaxCalls :
    Holds(submitted, s, n) ~> Holds(executed, s, n)
=============================================================================
