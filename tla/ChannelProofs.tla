---------------------------- MODULE ChannelProofs ----------------------------
(***************************************************************************)
(* Proofs about Channel for any number of threads, any ring and buffer     *)
(* size.  TypeOK holds however the threads interleave; everything else     *)
(* needs the two conditions the code leaves to its callers: they take      *)
(* turns, and fewer submissions are pending than the ring has slots.       *)
(***************************************************************************)
EXTENDS Channel, ModArithmetic, SequenceTheorems, TLAPS

CallersBehave == Serialised /\ Window < Entries

(* Indices of different waiting submissions are different slots.           *)
LEMMA SlotsDiffer ==
  ASSUME NEW w \in Nat \ {0}, NEW a \in Nat, NEW b \in Nat, a < b, b - a < w
  PROVE  a % w # b % w
<1> SUFFICES ASSUME a % w = b % w PROVE FALSE
  OBVIOUS
<1>1. /\ a = w * (a \div w) + (a % w) /\ a \div w \in Int
      /\ b = w * (b \div w) + (b % w) /\ b \div w \in Int
      /\ a % w \in 0 .. w - 1
  OBVIOUS
<1>2. ASSUME NEW p \in Int, NEW q \in Int, NEW r \in 0 .. w - 1, a = w * p + r, b = w * q + r
      PROVE  FALSE
  <2>1. b - a = w * q - w * p /\ w * q \in Int /\ w * p \in Int
    BY <1>2
  <2>2. w * (q - p) = b - a /\ w * (p - q) = a - b
    BY <2>1, Distributes
  <2>3. CASE q > p
    <3>1. q - p \in Nat \ {0}
      BY <2>3
    <3>2. w * (q - p) >= w
      BY <3>1, WordMultiple
    <3> QED BY <2>2, <3>2
  <2>4. CASE p > q
    <3>1. p - q \in Nat \ {0}
      BY <2>4
    <3>2. w * (p - q) >= w
      BY <3>1, WordMultiple
    <3> QED BY <2>2, <3>2
  <2>5. CASE p = q
    BY <1>2, <2>5
  <2> QED BY <2>3, <2>4, <2>5
<1> QED BY <1>1, <1>2

(* The slot after that of index n is that of index n + 1.                  *)
LEMMA NextSlotOf ==
  ASSUME NEW n \in Nat
  PROVE  NextSlot(n % Entries) = (n + 1) % Entries
BY ModSum, RingAssumption DEF NextSlot

LEMMA SlotInRing ==
  ASSUME NEW n \in Nat
  PROVE  n % Entries \in 0 .. Entries - 1
BY ModFacts, RingAssumption

-----------------------------------------------------------------------------
(* A call's length and the bytes it takes.                                 *)
LEMMA CallFields ==
  ASSUME TypeOK, NEW s \in Submitters, pc[s] # "idle"
  PROVE  /\ call[s][1] \in Lens /\ call[s][1] \in Nat /\ call[s] = <<call[s][1]>>
         /\ Dword * call[s][1] \in Nat
         /\ ByteLen(call[s][1]) = Dword * call[s][1]
<1>1. PICK n \in Lens : call[s] = <<n>>
  BY DEF TypeOK
<1>2. call[s][1] = n
  BY <1>1
<1>3. n \in Nat
  BY LensAssumption
<1>4. Dword * n \in Nat
  BY <1>3, BufferAssumption
<1>5. Dword * n < Word32
  BY <1>4, LensAssumption, BufferAssumption
<1>6. \A k \in Nat : k < Word32 => k % Word32 = k
  BY BufferAssumption
<1>7. ByteLen(n) = Dword * n
  BY <1>4, <1>5, <1>6 DEF ByteLen
<1> QED BY <1>1, <1>2, <1>3, <1>4, <1>7

LEMMA TypeInit == Init => TypeOK
<1> SUFFICES ASSUME Init PROVE TypeOK
  OBVIOUS
<1>1. 0 \in 0 .. Word32 - 1 /\ 0 \in 0 .. Entries - 1
  BY RingAssumption, BufferAssumption
<1>2. submitted \in Seq(Submissions) /\ executed \in Seq(Submissions \cup {NoEntry})
  BY DEF Init
<1> QED BY <1>1, <1>2 DEF Init, TypeOK, PCs

LEMMA TypeNext == TypeOK /\ [Next]_vars => TypeOK'
<1> SUFFICES ASSUME TypeOK, [Next]_vars PROVE TypeOK'
  OBVIOUS
<1> USE DEF PCs, locals
<1>z. 0 \in 0 .. Word32 - 1 /\ 0 \in 0 .. Entries - 1
  BY RingAssumption, BufferAssumption
<1>n. \A n \in Nat : n % Word32 \in 0 .. Word32 - 1
  BY ModFacts, BufferAssumption
<1>s. \A i \in 0 .. Entries - 1 : NextSlot(i) \in 0 .. Entries - 1
  BY SlotInRing, RingAssumption DEF NextSlot
<1>f. \A s \in Submitters : Segment(s) \in Nat /\ Id(s) \in [by : Submitters, nth : Nat]
  <2>1. ASSUME NEW s \in Submitters PROVE offset[s] \in Nat
    BY BufferAssumption DEF TypeOK
  <2> QED BY <2>1, BufferAssumption DEF TypeOK, Segment, Id
<1>1. ASSUME NEW s \in Submitters, Begin(s) PROVE TypeOK'
  BY <1>1 DEF Begin, TypeOK
<1>2. ASSUME NEW s \in Submitters, LoadOffset(s) PROVE TypeOK'
  BY <1>2 DEF LoadOffset, TypeOK
<1>3. ASSUME NEW s \in Submitters, RefuseFull(s) PROVE TypeOK'
  BY <1>3, <1>z DEF RefuseFull, Leave, TypeOK
<1>4. ASSUME NEW s \in Submitters, Reserve(s) PROVE TypeOK'
  <2>1. push_offset \in Nat
    BY BufferAssumption DEF TypeOK
  <2>2. ByteLen(call[s][1]) \in Nat
    BY <1>4, CallFields DEF Reserve
  <2>3. push_offset + ByteLen(call[s][1]) \in Nat
    BY <2>1, <2>2
  <2>4. push_offset' \in 0 .. Word32 - 1
    BY <1>4, <2>3, <1>n DEF Reserve
  <2> QED BY <1>4, <2>4 DEF Reserve, TypeOK
<1>5. ASSUME NEW s \in Submitters, BuildEntry(s) PROVE TypeOK'
  <2>1. call[s][1] \in Nat
    BY <1>5, CallFields DEF BuildEntry
  <2>2. Encode(Segment(s), call[s][1], Id(s)) \in Submissions
    <3>1. \A n \in Nat, p \in Nat \ {0} : n % p \in Nat
      OBVIOUS
    <3>2. Segment(s) % VaSpan \in Nat /\ call[s][1] % LenSpan \in Nat
      BY <2>1, <1>f, <3>1, BufferAssumption
    <3> QED BY <3>2, <1>f DEF Encode, Submissions
  <2> QED BY <1>5, <2>2 DEF BuildEntry, TypeOK
<1>6. ASSUME NEW s \in Submitters, StorePut(s) PROVE TypeOK'
  BY <1>6, <1>s DEF StorePut, TypeOK
<1>7. ASSUME NEW s \in Submitters, RingDoorbell(s) PROVE TypeOK'
  <2>1. call[s][1] \in Nat
    BY <1>7, CallFields DEF RingDoorbell
  <2>2. [va |-> Segment(s), len |-> call[s][1], id |-> Id(s)] \in Submissions
    BY <2>1, <1>f DEF Submissions
  <2>3. submitted' \in Seq(Submissions)
    BY <1>7, <2>2 DEF RingDoorbell, TypeOK
  <2>4. doorbell' \in 0 .. Entries - 1
    BY <1>7, <1>s DEF RingDoorbell, TypeOK
  <2> QED BY <1>7, <2>3, <2>4, <1>z DEF RingDoorbell, Leave, TypeOK
<1>8. ASSUME GpuFetch PROVE TypeOK'
  <2>1. executed' \in Seq(Submissions \cup {NoEntry})
    <3>1. ring[gpfifo_get] \in Submissions \cup {NoEntry}
      BY DEF TypeOK
    <3>2. executed \in Seq(Submissions \cup {NoEntry})
      BY DEF TypeOK
    <3> QED BY <1>8, <3>1, <3>2 DEF GpuFetch
  <2>2. gpfifo_get' \in 0 .. Entries - 1
    BY <1>8, <1>s DEF GpuFetch, TypeOK
  <2> QED BY <1>8, <2>1, <2>2 DEF GpuFetch, TypeOK
<1>9. ASSUME ResetPushBuffer PROVE TypeOK'
  BY <1>9, <1>z DEF ResetPushBuffer, TypeOK
<1>10. CASE UNCHANGED vars
  BY <1>10 DEF vars, TypeOK
<1> QED BY <1>1, <1>2, <1>3, <1>4, <1>5, <1>6, <1>7, <1>8, <1>9, <1>10 DEF Next, Continue

(* However the threads of a channel interleave, its indices stay inside    *)
(* the ring and every entry is well formed.                                *)
THEOREM TypeCorrect == Spec => []TypeOK
<1> QED BY TypeInit, TypeNext, PTL DEF Spec
-----------------------------------------------------------------------------
(* The inductive invariant, for callers that behave.                       *)
Queued == Len(submitted)
Ran == Len(executed)
End(e) == e.va + Dword * e.len
Request(s) == [va |-> Segment(s), len |-> call[s][1], id |-> Id(s)]

(* At most one thread is inside submit.                                    *)
TurnInv ==
  \A s, u \in Submitters : pc[s] # "idle" /\ pc[u] # "idle" => s = u

(* Each index is a history's length, reduced to the ring.                  *)
IndexInv ==
  /\ Ran <= Queued /\ Queued <= Ran + Window
  /\ \A s \in Submitters : pc[s] # "idle" => Queued < Ran + Window
  /\ doorbell = Queued % Entries /\ gpfifo_get = Ran % Entries
  /\ \A s \in Submitters : pc[s] \in {"store", "bell"} => idx[s] = Queued % Entries
  /\ \A s \in Submitters : pc[s] = "bell" => gpfifo_put = (Queued + 1) % Entries
  /\ (\A s \in Submitters : pc[s] # "bell") => gpfifo_put = Queued % Entries

(* The slots from gpfifo_get to the doorbell hold what waits, in order.    *)
RingInv ==
  /\ \A i \in Waiting : ring[(i - 1) % Entries] = submitted[i]
  /\ \A s \in Submitters : pc[s] \in {"store", "bell"} => ring[Queued % Entries] = Request(s)

(* A submit in progress has the last bytes taken.                          *)
BufferInv ==
  /\ push_offset <= PushBytes
  /\ \A s \in Submitters : pc[s] = "reserve" =>
       offset[s] = push_offset /\ push_offset + Dword * call[s][1] <= PushBytes
  /\ \A s \in InSubmit : offset[s] + Dword * call[s][1] = push_offset

(* What waits lies in the buffer, in the order of the queue, below what a  *)
(* submit in progress was granted.                                         *)
WaitingInv ==
  /\ \A i \in Waiting : PushVa <= submitted[i].va /\ End(submitted[i]) <= PushVa + push_offset
  /\ \A s \in InSubmit, i \in Waiting : End(submitted[i]) <= Segment(s)
  /\ \A i, j \in Waiting : i < j => End(submitted[i]) <= submitted[j].va

IInv == TurnInv /\ IndexInv /\ RingInv /\ BufferInv /\ WaitingInv /\ Fifo

LEMMA HistoryFields ==
  ASSUME TypeOK
  PROVE  /\ Queued \in Nat /\ Ran \in Nat /\ push_offset \in Nat
         /\ DOMAIN submitted = 1 .. Queued /\ DOMAIN executed = 1 .. Ran
         /\ submitted \in Seq(Submissions)
<1>1. push_offset \in Nat
  BY BufferAssumption DEF TypeOK
<1>2. submitted \in Seq(Submissions) /\ executed \in Seq(Submissions \cup {NoEntry})
  BY DEF TypeOK
<1> QED BY <1>1, <1>2 DEF Queued, Ran

LEMMA WaitingFields ==
  ASSUME TypeOK, NEW i \in Waiting
  PROVE  /\ i \in Nat /\ i - 1 \in Nat /\ Ran < i /\ i <= Queued /\ i \in DOMAIN submitted
         /\ submitted[i].va \in Nat /\ Dword * submitted[i].len \in Nat
         /\ End(submitted[i]) = submitted[i].va + Dword * submitted[i].len
<1>1. i \in Nat /\ i - 1 \in Nat /\ Ran < i /\ i <= Queued /\ i \in DOMAIN submitted
  BY HistoryFields DEF Waiting, Ran, Queued
<1>2. submitted[i] \in Submissions
  BY <1>1, HistoryFields
<1>3. submitted[i].va \in Nat /\ submitted[i].len \in Nat
  BY <1>2 DEF Submissions
<1>4. \A n \in Nat : Dword * n \in Nat
  BY BufferAssumption
<1> QED BY <1>1, <1>3, <1>4 DEF End

LEMMA OffsetFields ==
  ASSUME TypeOK, NEW s \in Submitters
  PROVE  offset[s] \in Nat /\ Segment(s) = PushVa + offset[s]
BY BufferAssumption DEF TypeOK, Segment

(* While callers take turns, an active thread is the only one.             *)
LEMMA OthersIdle ==
  ASSUME TurnInv, NEW s \in Submitters, pc[s] # "idle"
  PROVE  \A u \in Submitters \ {s} : pc[u] = "idle"
BY DEF TurnInv

LEMMA IInvInit == Init => IInv
<1> SUFFICES ASSUME Init PROVE IInv
  OBVIOUS
<1>1. Len(submitted) = 0 /\ Len(executed) = 0 /\ Waiting = {} /\ InSubmit = {}
  BY DEF Init, Waiting, InSubmit
<1>2. 0 % Entries = 0
  BY RingAssumption
<1> QED BY <1>1, <1>2, RingAssumption, BufferAssumption
       DEF Init, IInv, TurnInv, IndexInv, RingInv, BufferInv, WaitingInv, Fifo, Queued, Ran

LEMMA BeginKeeps ==
  ASSUME TypeOK, IInv, CallersBehave, NEW s \in Submitters, Begin(s)
  PROVE  IInv'
<1>a. \A u \in Submitters : pc[u] = "idle"
  BY DEF CallersBehave, Begin
<1>b. /\ pc' = [pc EXCEPT ![s] = "load"] /\ pc \in [Submitters -> PCs]
      /\ UNCHANGED <<push_offset, gpfifo_put, doorbell, gpfifo_get, ring, offset, idx,
                     submitted, executed>>
      /\ Len(submitted) - Len(executed) < Window
  BY DEF Begin, TypeOK
<1>c. InSubmit = {} /\ InSubmit' = {} /\ Waiting' = Waiting
  BY <1>a, <1>b DEF InSubmit, Waiting
<1>d. \A u \in Submitters : pc'[u] = "idle" \/ (u = s /\ pc'[u] = "load")
  BY <1>a, <1>b
<1>1. TurnInv'
  BY <1>d DEF TurnInv
<1>2. IndexInv'
  <2>1. Queued < Ran + Window
    BY <1>b, HistoryFields, RingAssumption DEF Queued, Ran
  <2> QED BY <1>a, <1>b, <1>d, <2>1 DEF IInv, IndexInv, Queued, Ran
<1>3. RingInv'
  BY <1>b, <1>c, <1>d DEF IInv, RingInv, Queued
<1>4. BufferInv' /\ WaitingInv'
  BY <1>b, <1>c, <1>d DEF IInv, BufferInv, WaitingInv, End
<1>5. Fifo'
  BY <1>b DEF IInv, Fifo
<1> QED BY <1>1, <1>2, <1>3, <1>4, <1>5 DEF IInv

LEMMA LoadOffsetKeeps ==
  ASSUME TypeOK, IInv, NEW s \in Submitters, LoadOffset(s)
  PROVE  IInv'
<1>a. \A u \in Submitters \ {s} : pc[u] = "idle"
  BY OthersIdle DEF IInv, LoadOffset
<1>b. /\ pc' = [pc EXCEPT ![s] = "reserve"] /\ pc \in [Submitters -> PCs] /\ pc[s] = "load"
      /\ offset' = [offset EXCEPT ![s] = push_offset] /\ offset'[s] = push_offset
      /\ UNCHANGED <<push_offset, gpfifo_put, doorbell, gpfifo_get, ring, call, calls, idx,
                     submitted, executed>>
  BY DEF LoadOffset, TypeOK
<1>c. InSubmit = {} /\ InSubmit' = {} /\ Waiting' = Waiting
  BY <1>a, <1>b DEF InSubmit, Waiting
<1>d. pc'[s] = "reserve" /\ \A u \in Submitters \ {s} : pc'[u] = "idle"
  BY <1>a, <1>b
<1>1. TurnInv'
  BY <1>d DEF TurnInv
<1>2. IndexInv'
  BY <1>a, <1>b, <1>d DEF IInv, IndexInv, Queued, Ran
<1>3. RingInv'
  BY <1>b, <1>c, <1>d DEF IInv, RingInv, Queued
<1>4. push_offset + Dword * call[s][1] <= PushBytes
  <2>1. /\ Dword * call[s][1] \in Nat /\ ByteLen(call[s][1]) = Dword * call[s][1]
        /\ call[s][1] \in Lens
    BY <1>b, CallFields
  <2>2. push_offset \in Nat /\ push_offset <= PushBytes
    BY HistoryFields DEF IInv, BufferInv
  <2>3. push_offset + Dword * call[s][1] < Word32
    BY <2>1, <2>2, LensAssumption, BufferAssumption
  <2>4. \A k \in Nat : k < Word32 => k % Word32 = k
    BY BufferAssumption
  <2>5. (push_offset + Dword * call[s][1]) % Word32 = push_offset + Dword * call[s][1]
    BY <2>1, <2>2, <2>3, <2>4
  <2>6. ~ ((push_offset + Dword * call[s][1]) % Word32 > PushBytes)
    BY <2>1 DEF LoadOffset, Full
  <2> QED BY <2>1, <2>2, <2>5, <2>6, BufferAssumption
<1>5. BufferInv'
  BY <1>b, <1>c, <1>d, <1>4 DEF IInv, BufferInv
<1>6. WaitingInv'
  BY <1>b, <1>c DEF IInv, WaitingInv, End
<1>7. Fifo'
  BY <1>b DEF IInv, Fifo
<1> QED BY <1>1, <1>2, <1>3, <1>5, <1>6, <1>7 DEF IInv

LEMMA RefuseFullKeeps ==
  ASSUME TypeOK, IInv, NEW s \in Submitters, RefuseFull(s)
  PROVE  IInv'
<1>a. \A u \in Submitters \ {s} : pc[u] = "idle"
  BY OthersIdle DEF IInv, RefuseFull
<1>b. /\ pc' = [pc EXCEPT ![s] = "idle"] /\ pc \in [Submitters -> PCs] /\ pc[s] = "load"
      /\ UNCHANGED <<push_offset, gpfifo_put, doorbell, gpfifo_get, ring, submitted, executed>>
  BY DEF RefuseFull, Leave, TypeOK
<1>c. InSubmit = {} /\ InSubmit' = {} /\ Waiting' = Waiting
  BY <1>a, <1>b DEF InSubmit, Waiting
<1>d. \A u \in Submitters : pc'[u] = "idle"
  BY <1>a, <1>b
<1>1. TurnInv' /\ RingInv'
  BY <1>b, <1>c, <1>d DEF IInv, TurnInv, RingInv, Queued
<1>2. IndexInv'
  BY <1>a, <1>b, <1>d DEF IInv, IndexInv, Queued, Ran
<1>3. BufferInv' /\ WaitingInv' /\ Fifo'
  BY <1>b, <1>c, <1>d DEF IInv, BufferInv, WaitingInv, End, Fifo
<1> QED BY <1>1, <1>2, <1>3 DEF IInv

LEMMA ReserveKeeps ==
  ASSUME TypeOK, IInv, NEW s \in Submitters, Reserve(s)
  PROVE  IInv'
<1>a. \A u \in Submitters \ {s} : pc[u] = "idle"
  BY OthersIdle DEF IInv, Reserve
<1>b. /\ pc' = [pc EXCEPT ![s] = "build"] /\ pc \in [Submitters -> PCs] /\ pc[s] = "reserve"
      /\ push_offset' = (push_offset + ByteLen(call[s][1])) % Word32
      /\ UNCHANGED <<gpfifo_put, doorbell, gpfifo_get, ring, call, calls, offset, idx,
                     submitted, executed>>
  BY DEF Reserve, TypeOK
<1>c. InSubmit = {} /\ InSubmit' = {s} /\ Waiting' = Waiting
  BY <1>a, <1>b DEF InSubmit, Waiting
<1>d. pc'[s] = "build" /\ \A u \in Submitters \ {s} : pc'[u] = "idle"
  BY <1>a, <1>b
<1>e. /\ Dword * call[s][1] \in Nat /\ push_offset \in Nat
      /\ offset[s] = push_offset /\ push_offset + Dword * call[s][1] <= PushBytes
  BY <1>b, CallFields, HistoryFields DEF IInv, BufferInv
<1>f. push_offset' = push_offset + Dword * call[s][1]
  <2>1. ByteLen(call[s][1]) = Dword * call[s][1] /\ call[s][1] \in Lens
    BY <1>b, CallFields
  <2>2. push_offset + Dword * call[s][1] < Word32
    BY <1>e, <2>1, LensAssumption, BufferAssumption
  <2>3. \A k \in Nat : k < Word32 => k % Word32 = k
    BY BufferAssumption
  <2> QED BY <1>b, <1>e, <2>1, <2>2, <2>3
<1>1. TurnInv'
  BY <1>d DEF TurnInv
<1>2. IndexInv'
  BY <1>a, <1>b, <1>d DEF IInv, IndexInv, Queued, Ran
<1>3. RingInv' /\ Fifo'
  BY <1>b, <1>c, <1>d DEF IInv, RingInv, Queued, Fifo
<1>4. BufferInv'
  BY <1>b, <1>c, <1>d, <1>e, <1>f DEF BufferInv
<1>5. WaitingInv'
  <2>1. \A i \in Waiting : /\ PushVa <= submitted[i].va
                           /\ End(submitted[i]) <= PushVa + push_offset
                           /\ End(submitted[i]) <= PushVa + (push_offset + Dword * call[s][1])
    BY <1>e, WaitingFields, BufferAssumption DEF IInv, WaitingInv
  <2>2. Segment(s)' = PushVa + push_offset
    BY <1>b, <1>e DEF Segment
  <2>3. \A i \in Waiting : End(submitted[i])' = End(submitted[i])
    BY <1>b DEF End
  <2> QED BY <1>b, <1>c, <1>f, <2>1, <2>2, <2>3 DEF IInv, WaitingInv
<1> QED BY <1>1, <1>2, <1>3, <1>4, <1>5 DEF IInv

(* An entry is what was submitted: neither field is cut by GpfifoEntry.    *)
LEMMA EncodeFaithful ==
  ASSUME TypeOK, NEW s \in Submitters, pc[s] # "idle",
         offset[s] + Dword * call[s][1] <= PushBytes
  PROVE  Encode(Segment(s), call[s][1], Id(s)) = Request(s)
<1>1. call[s][1] \in Nat /\ call[s][1] < LenSpan /\ Dword * call[s][1] \in Nat
  BY CallFields, LensAssumption
<1>2. Segment(s) \in Nat /\ Segment(s) < VaSpan
  BY <1>1, OffsetFields, BufferAssumption
<1>3. \A n \in Nat, p \in Nat \ {0} : n < p => n % p = n
  OBVIOUS
<1>4. Segment(s) % VaSpan = Segment(s) /\ call[s][1] % LenSpan = call[s][1]
  BY <1>1, <1>2, <1>3, BufferAssumption
<1> QED BY <1>4 DEF Encode, Request

LEMMA BuildEntryKeeps ==
  ASSUME TypeOK, IInv, CallersBehave, NEW s \in Submitters, BuildEntry(s)
  PROVE  IInv'
<1>a. \A u \in Submitters \ {s} : pc[u] = "idle"
  BY OthersIdle DEF IInv, BuildEntry
<1>b. /\ pc' = [pc EXCEPT ![s] = "store"] /\ pc \in [Submitters -> PCs] /\ pc[s] = "build"
      /\ idx' = [idx EXCEPT ![s] = gpfifo_put] /\ idx'[s] = gpfifo_put
      /\ ring' = [ring EXCEPT ![gpfifo_put] = Encode(Segment(s), call[s][1], Id(s))]
      /\ gpfifo_put \in 0 .. Entries - 1 /\ DOMAIN ring = 0 .. Entries - 1
      /\ UNCHANGED <<push_offset, gpfifo_put, doorbell, gpfifo_get, call, calls, offset,
                     submitted, executed>>
  BY DEF BuildEntry, TypeOK
<1>c. InSubmit = {s} /\ InSubmit' = {s} /\ Waiting' = Waiting
  BY <1>a, <1>b DEF InSubmit, Waiting
<1>d. pc'[s] = "store" /\ \A u \in Submitters \ {s} : pc'[u] = "idle"
  BY <1>a, <1>b
<1>e. gpfifo_put = Queued % Entries /\ Queued < Ran + Window
  BY <1>a, <1>b DEF IInv, IndexInv
<1>f. Encode(Segment(s), call[s][1], Id(s)) = Request(s)
  <2>1. offset[s] + Dword * call[s][1] <= PushBytes
    BY <1>c DEF IInv, BufferInv
  <2> QED BY <1>b, <2>1, EncodeFaithful
<1>1. TurnInv'
  BY <1>d DEF TurnInv
<1>2. IndexInv'
  BY <1>a, <1>b, <1>d, <1>e DEF IInv, IndexInv, Queued, Ran
<1>3. RingInv'
  <2>1. ASSUME NEW i \in Waiting PROVE ring'[(i - 1) % Entries] = submitted[i]
    <3>1. /\ i \in Nat /\ i - 1 \in Nat /\ Queued \in Nat /\ Ran \in Nat
          /\ i - 1 < Queued /\ Ran <= i - 1
      BY WaitingFields, HistoryFields
    <3>2. Queued - (i - 1) < Entries
      BY <1>e, <3>1, RingAssumption DEF CallersBehave
    <3>3. (i - 1) % Entries # Queued % Entries
      BY <3>1, <3>2, SlotsDiffer, RingAssumption
    <3>4. (i - 1) % Entries \in 0 .. Entries - 1
      BY <3>1, SlotInRing
    <3>5. ring'[(i - 1) % Entries] = ring[(i - 1) % Entries]
      BY <1>b, <1>e, <3>3, <3>4
    <3> QED BY <3>5 DEF IInv, RingInv
  <2>2. ring'[Queued % Entries] = Request(s)
    BY <1>b, <1>e, <1>f
  <2>3. Request(s)' = Request(s)
    BY <1>b DEF Request, Segment, Id
  <2> QED BY <1>b, <1>c, <1>d, <2>1, <2>2, <2>3 DEF RingInv, Queued
<1>4. BufferInv' /\ WaitingInv' /\ Fifo'
  BY <1>b, <1>c, <1>d DEF IInv, BufferInv, WaitingInv, End, Segment, Fifo
<1> QED BY <1>1, <1>2, <1>3, <1>4 DEF IInv

LEMMA StorePutKeeps ==
  ASSUME TypeOK, IInv, NEW s \in Submitters, StorePut(s)
  PROVE  IInv'
<1>a. \A u \in Submitters \ {s} : pc[u] = "idle"
  BY OthersIdle DEF IInv, StorePut
<1>b. /\ pc' = [pc EXCEPT ![s] = "bell"] /\ pc \in [Submitters -> PCs] /\ pc[s] = "store"
      /\ gpfifo_put' = NextSlot(idx[s])
      /\ UNCHANGED <<push_offset, doorbell, gpfifo_get, ring, call, calls, offset, idx,
                     submitted, executed>>
  BY DEF StorePut, TypeOK
<1>c. InSubmit = {s} /\ InSubmit' = {s} /\ Waiting' = Waiting
  BY <1>a, <1>b DEF InSubmit, Waiting
<1>d. pc'[s] = "bell" /\ \A u \in Submitters \ {s} : pc'[u] = "idle"
  BY <1>a, <1>b
<1>e. gpfifo_put' = (Queued + 1) % Entries
  <2>1. idx[s] = Queued % Entries
    BY <1>b DEF IInv, IndexInv
  <2> QED BY <1>b, <2>1, NextSlotOf, HistoryFields
<1>1. TurnInv'
  BY <1>d DEF TurnInv
<1>2. IndexInv'
  BY <1>a, <1>b, <1>d, <1>e DEF IInv, IndexInv, Queued, Ran
<1>3. RingInv'
  BY <1>b, <1>c, <1>d DEF IInv, RingInv, Queued, Request, Segment, Id
<1>4. BufferInv' /\ WaitingInv' /\ Fifo'
  BY <1>b, <1>c, <1>d DEF IInv, BufferInv, WaitingInv, End, Segment, Fifo
<1> QED BY <1>1, <1>2, <1>3, <1>4 DEF IInv

LEMMA RingDoorbellKeeps ==
  ASSUME TypeOK, IInv, NEW s \in Submitters, RingDoorbell(s)
  PROVE  IInv'
<1>a. \A u \in Submitters \ {s} : pc[u] = "idle"
  BY OthersIdle DEF IInv, RingDoorbell
<1>b. /\ pc' = [pc EXCEPT ![s] = "idle"] /\ pc \in [Submitters -> PCs] /\ pc[s] = "bell"
      /\ doorbell' = NextSlot(idx[s])
      /\ submitted' = Append(submitted, Request(s))
      /\ UNCHANGED <<push_offset, gpfifo_put, gpfifo_get, ring, executed>>
  BY DEF RingDoorbell, Leave, TypeOK, Request
<1>c. InSubmit = {s} /\ InSubmit' = {}
  BY <1>a, <1>b DEF InSubmit
<1>d. \A u \in Submitters : pc'[u] = "idle"
  BY <1>a, <1>b
<1>e. /\ Queued' = Queued + 1 /\ Ran' = Ran /\ Queued \in Nat /\ Ran \in Nat
      /\ submitted'[Queued + 1] = Request(s)
      /\ \A i \in 1 .. Queued : submitted'[i] = submitted[i]
  BY <1>b, HistoryFields DEF Queued, Ran
<1>f. /\ \A i \in Waiting' : i \in Waiting \/ i = Queued + 1
      /\ \A i \in Waiting : i \in 1 .. Queued /\ i \in Waiting'
  BY <1>e, HistoryFields DEF Waiting, Queued, Ran
<1>g. doorbell' = (Queued + 1) % Entries
  <2>1. idx[s] = Queued % Entries
    BY <1>b DEF IInv, IndexInv
  <2> QED BY <1>b, <2>1, NextSlotOf, <1>e
<1>1. TurnInv'
  BY <1>d DEF TurnInv
<1>2. IndexInv'
  <2>1. Ran <= Queued /\ Queued < Ran + Window
    BY <1>b DEF IInv, IndexInv
  <2>2. Ran' <= Queued' /\ Queued' <= Ran' + Window
    BY <1>e, <2>1, RingAssumption
  <2>3. gpfifo_put' = (Queued + 1) % Entries
    BY <1>b DEF IInv, IndexInv
  <2>4. gpfifo_get' = Ran' % Entries
    BY <1>b, <1>e DEF IInv, IndexInv
  <2> QED BY <1>d, <1>e, <1>g, <2>2, <2>3, <2>4 DEF IndexInv
<1>3. RingInv'
  <2>1. ring[Queued % Entries] = Request(s)
    BY <1>b DEF IInv, RingInv
  <2>2. (Queued + 1) - 1 = Queued
    BY <1>e
  <2>3. \A i \in Waiting' : ring[(i - 1) % Entries] = submitted'[i]
    BY <1>e, <1>f, <2>1, <2>2 DEF IInv, RingInv
  <2> QED BY <1>b, <1>d, <2>3 DEF RingInv
<1>4. BufferInv'
  BY <1>b, <1>c, <1>d DEF IInv, BufferInv
<1>5. WaitingInv'
  <2>1. /\ Dword * call[s][1] \in Nat /\ offset[s] \in Nat /\ Segment(s) = PushVa + offset[s]
        /\ offset[s] + Dword * call[s][1] = push_offset /\ push_offset \in Nat
    BY <1>b, <1>c, CallFields, OffsetFields, HistoryFields DEF IInv, BufferInv
  <2>2. Request(s).va = Segment(s) /\ End(Request(s)) = Segment(s) + Dword * call[s][1]
    BY DEF Request, End
  <2>3. PushVa <= Request(s).va /\ End(Request(s)) <= PushVa + push_offset
    BY <2>1, <2>2, BufferAssumption
  <2>4. \A i \in Waiting : End(submitted[i]) <= Request(s).va
    BY <1>c, <2>2 DEF IInv, WaitingInv
  <2>5. \A i \in Waiting' : End(submitted[i])' = End(submitted'[i])
    BY DEF End
  <2>6. \A i \in Waiting : submitted'[i] = submitted[i]
    BY <1>e, <1>f
  <2>7. \A i \in Waiting' : PushVa <= submitted'[i].va /\ End(submitted'[i]) <= PushVa + push_offset
    BY <1>e, <1>f, <2>3, <2>6 DEF IInv, WaitingInv
  <2>8. ASSUME NEW i \in Waiting', NEW j \in Waiting', i < j
        PROVE  End(submitted'[i]) <= submitted'[j].va
    <3>1. i \in Waiting
      BY <1>e, <1>f, <2>8
    <3>2. CASE j \in Waiting
      BY <2>6, <2>8, <3>1, <3>2 DEF IInv, WaitingInv
    <3>3. CASE j = Queued + 1
      BY <1>e, <2>4, <2>6, <3>1, <3>3
    <3> QED BY <1>f, <3>2, <3>3
  <2> QED BY <1>b, <1>c, <2>5, <2>7, <2>8 DEF WaitingInv
<1>6. Fifo'
  <2>1. /\ Ran <= Queued /\ \A i \in 1 .. Ran : executed[i] = submitted[i]
    BY DEF IInv, Fifo, Queued, Ran
  <2>2. Ran' <= Queued' /\ \A i \in 1 .. Ran : i \in 1 .. Queued
    BY <1>e, <2>1
  <2>3. \A i \in 1 .. Ran : executed'[i] = submitted'[i]
    BY <1>b, <1>e, <2>1, <2>2
  <2> QED BY <1>e, <2>2, <2>3 DEF Fifo, Queued, Ran
<1> QED BY <1>1, <1>2, <1>3, <1>4, <1>5, <1>6 DEF IInv

(* What the GPU fetches is the oldest submission that waits.               *)
LEMMA FetchesOldest ==
  ASSUME TypeOK, IInv, gpfifo_get # doorbell
  PROVE  /\ Ran < Queued /\ Ran + 1 \in Waiting
         /\ ring[gpfifo_get] = submitted[Ran + 1]
<1>1. Ran \in Nat /\ Queued \in Nat /\ Ran <= Queued
  BY HistoryFields DEF IInv, IndexInv
<1>2. Ran # Queued
  BY DEF IInv, IndexInv
<1>3. Ran < Queued /\ Ran + 1 \in Waiting /\ (Ran + 1) - 1 = Ran
  BY <1>1, <1>2 DEF Waiting, Ran, Queued
<1>4. ring[Ran % Entries] = submitted[Ran + 1]
  BY <1>3 DEF IInv, RingInv
<1> QED BY <1>3, <1>4 DEF IInv, IndexInv

(* The GPU has caught up with the doorbell only when nothing waits.        *)
LEMMA CaughtUp ==
  ASSUME TypeOK, IInv, CallersBehave, gpfifo_get = doorbell
  PROVE  Ran = Queued /\ Waiting = {} /\ executed = submitted
<1>1. /\ Ran \in Nat /\ Queued \in Nat /\ Ran <= Queued /\ Queued - Ran < Entries
      /\ Ran % Entries = Queued % Entries
  BY HistoryFields, RingAssumption DEF IInv, IndexInv, CallersBehave
<1>2. Ran = Queued
  <2> SUFFICES ASSUME Ran < Queued PROVE FALSE
    BY <1>1
  <2>1. Ran % Entries # Queued % Entries
    BY <1>1, SlotsDiffer, RingAssumption
  <2> QED BY <1>1, <2>1
<1>3. Waiting = {}
  BY <1>1, <1>2 DEF Waiting, Ran, Queued
<1>4. executed = submitted
  <2>1. \A i \in 1 .. Len(executed) : executed[i] = submitted[i]
    BY DEF IInv, Fifo
  <2>2. executed \in Seq(Submissions \cup {NoEntry}) /\ submitted \in Seq(Submissions)
    BY DEF TypeOK
  <2> DEFINE S == Submissions \cup {NoEntry}
  <2>3. executed \in Seq(S) /\ submitted \in Seq(S)
    BY <2>2
  <2>4. Len(executed) = Len(submitted)
    BY <1>2 DEF Ran, Queued
  <2> HIDE DEF S
  <2> QED BY <2>1, <2>3, <2>4, SeqEqual
<1> QED BY <1>2, <1>3, <1>4

LEMMA GpuFetchKeeps ==
  ASSUME TypeOK, IInv, GpuFetch
  PROVE  IInv'
<1>a. /\ executed' = Append(executed, ring[gpfifo_get]) /\ gpfifo_get' = NextSlot(gpfifo_get)
      /\ executed \in Seq(Submissions \cup {NoEntry})
      /\ UNCHANGED <<push_offset, gpfifo_put, doorbell, ring, pc, call, calls, offset, idx,
                     submitted>>
  BY DEF GpuFetch, locals, TypeOK
<1>b. /\ Ran < Queued /\ ring[gpfifo_get] = submitted[Ran + 1]
  BY FetchesOldest DEF GpuFetch
<1>c. /\ Ran \in Nat /\ Queued \in Nat /\ Ran' = Ran + 1 /\ Queued' = Queued
      /\ executed'[Ran + 1] = submitted[Ran + 1]
      /\ \A i \in 1 .. Ran : executed'[i] = executed[i]
  BY <1>a, <1>b, HistoryFields DEF Ran, Queued
<1>d. Waiting' \subseteq Waiting
  BY <1>a, <1>c DEF Waiting, Ran, Queued
<1>1. TurnInv' /\ BufferInv'
  BY <1>a DEF IInv, TurnInv, BufferInv, InSubmit
<1>2. IndexInv'
  <2>1. gpfifo_get' = Ran' % Entries
    BY <1>a, <1>c, NextSlotOf DEF IInv, IndexInv
  <2>2. Ran' <= Queued' /\ Queued' <= Ran' + Window
    BY <1>b, <1>c, RingAssumption DEF IInv, IndexInv
  <2>3. \A s \in Submitters : pc'[s] # "idle" => Queued' < Ran' + Window
    BY <1>a, <1>c, RingAssumption DEF IInv, IndexInv
  <2> QED BY <1>a, <1>c, <2>1, <2>2, <2>3 DEF IInv, IndexInv
<1>3. RingInv'
  BY <1>a, <1>c, <1>d DEF IInv, RingInv, Request, Segment, Id
<1>4. WaitingInv'
  BY <1>a, <1>d DEF IInv, WaitingInv, InSubmit, End, Segment
<1>5. Fifo'
  <2>1. \A i \in 1 .. Ran + 1 : executed'[i] = submitted[i]
    <3>1. \A i \in 1 .. Ran + 1 : i \in 1 .. Ran \/ i = Ran + 1
      BY <1>c
    <3>2. \A i \in 1 .. Ran : executed[i] = submitted[i]
      BY DEF IInv, Fifo, Ran
    <3> QED BY <1>c, <3>1, <3>2
  <2>2. Ran + 1 <= Queued
    BY <1>b, <1>c
  <2> QED BY <1>a, <1>c, <2>1, <2>2 DEF Fifo, Ran, Queued
<1> QED BY <1>1, <1>2, <1>3, <1>4, <1>5 DEF IInv

LEMMA ResetKeeps ==
  ASSUME TypeOK, IInv, CallersBehave, ResetPushBuffer
  PROVE  IInv'
<1>a. /\ push_offset' = 0 /\ gpfifo_get = doorbell /\ \A s \in Submitters : pc[s] = "idle"
      /\ UNCHANGED <<gpfifo_put, doorbell, gpfifo_get, ring, pc, call, calls, offset, idx,
                     submitted, executed>>
  BY DEF ResetPushBuffer, locals
<1>b. Waiting = {} /\ Waiting' = Waiting /\ InSubmit' = {}
  BY <1>a, CaughtUp DEF Waiting, InSubmit
<1>1. TurnInv' /\ Fifo' /\ RingInv'
  BY <1>a, <1>b DEF IInv, TurnInv, Fifo, RingInv, Queued
<1>2. IndexInv'
  BY <1>a DEF IInv, IndexInv, Queued, Ran
<1>3. BufferInv' /\ WaitingInv'
  BY <1>a, <1>b, BufferAssumption DEF BufferInv, WaitingInv
<1> QED BY <1>1, <1>2, <1>3 DEF IInv

LEMMA IInvNext ==
  ASSUME TypeOK, IInv, CallersBehave, [Next]_vars
  PROVE  IInv'
<1>1. CASE UNCHANGED vars
  BY <1>1 DEF vars, locals, IInv, TurnInv, IndexInv, RingInv, BufferInv, WaitingInv, Fifo,
       Queued, Ran, End, Request, Segment, Id, InSubmit, Waiting
<1> QED BY <1>1, BeginKeeps, LoadOffsetKeeps, RefuseFullKeeps, ReserveKeeps, BuildEntryKeeps,
       StorePutKeeps, RingDoorbellKeeps, GpuFetchKeeps, ResetKeeps DEF Next, Continue

LEMMA Inductive == CallersBehave => (Spec => [](TypeOK /\ IInv))
<1> SUFFICES ASSUME CallersBehave PROVE Spec => [](TypeOK /\ IInv)
  OBVIOUS
<1>1. Init => TypeOK /\ IInv
  BY TypeInit, IInvInit
<1>2. TypeOK /\ IInv /\ [Next]_vars => (TypeOK /\ IInv)'
  BY TypeNext, IInvNext
<1> QED BY <1>1, <1>2, PTL DEF Spec

(* For callers that take turns and keep fewer than Entries submissions     *)
(* pending, the GPU runs what was submitted, whole and in order.           *)
THEOREM FifoDelivery == CallersBehave => (Spec => []Fifo)
<1>1. IInv => Fifo
  BY DEF IInv
<1> QED BY Inductive, <1>1, PTL

(* For the same callers, commands that wait for the GPU are never          *)
(* overwritten, a reset of the push buffer included.                       *)
THEOREM NothingOverwritten == CallersBehave => (Spec => []PendingDisjoint)
<1>1. TypeOK /\ IInv => PendingDisjoint
  <2> SUFFICES ASSUME TypeOK, IInv PROVE PendingDisjoint
    OBVIOUS
  <2>1. ASSUME NEW s \in InSubmit PROVE offset[s] + Dword * call[s][1] <= PushBytes
    BY DEF IInv, BufferInv
  <2>2. ASSUME NEW s \in InSubmit, NEW u \in InSubmit PROVE s = u
    BY DEF IInv, TurnInv, InSubmit
  <2>3. ASSUME NEW s \in InSubmit, NEW i \in Waiting
        PROVE  ~ Overlap(Segment(s), call[s][1], submitted[i].va, submitted[i].len)
    <3>1. submitted[i].va + Dword * submitted[i].len <= Segment(s)
      BY WaitingFields DEF IInv, WaitingInv
    <3>2. Segment(s) \in Nat /\ submitted[i].va \in Nat /\ Dword * submitted[i].len \in Nat
      BY WaitingFields, OffsetFields, BufferAssumption DEF InSubmit
    <3> QED BY <3>1, <3>2 DEF Overlap
  <2>4. ASSUME NEW i \in Waiting, NEW j \in Waiting, i < j
        PROVE  /\ ~ Overlap(submitted[i].va, submitted[i].len, submitted[j].va, submitted[j].len)
               /\ ~ Overlap(submitted[j].va, submitted[j].len, submitted[i].va, submitted[i].len)
    <3>1. submitted[i].va + Dword * submitted[i].len <= submitted[j].va
      BY <2>4, WaitingFields DEF IInv, WaitingInv
    <3>2. /\ submitted[i].va \in Nat /\ Dword * submitted[i].len \in Nat
          /\ submitted[j].va \in Nat
      BY WaitingFields
    <3> QED BY <3>1, <3>2 DEF Overlap
  <2>5. \A i, j \in Waiting : i < j \/ i = j \/ j < i
    BY WaitingFields
  <2> QED BY <2>1, <2>2, <2>3, <2>4, <2>5 DEF PendingDisjoint
<1> QED BY Inductive, <1>1, PTL

-----------------------------------------------------------------------------
(* Refinement.  The bytes that returned submissions have taken.            *)
LEMMA UsedNow ==
  ASSUME TurnInv
  PROVE  /\ InSubmit = {} => Used = push_offset
         /\ \A s \in InSubmit : Used = offset[s]
<1>1. ASSUME NEW s \in InSubmit PROVE InSubmit = {s}
  BY DEF TurnInv, InSubmit
<1>2. ASSUME NEW s \in InSubmit PROVE Used = offset[s]
  BY <1>1 DEF Used
<1> QED BY <1>2 DEF Used

LEMMA RefineInit == Init => CQ!Init
BY DEF Init, CQ!Init, Used, InSubmit

LEMMA RefineBegin ==
  ASSUME TypeOK, IInv, CallersBehave, NEW s \in Submitters, Begin(s)
  PROVE  CQ!Call(s)
<1>1. \A u \in Submitters : pc[u] = "idle"
  BY DEF CallersBehave, Begin
<1>2. call[s] = << >> /\ call' = [call EXCEPT ![s] = call'[s]] /\ call'[s] # << >>
  BY <1>1 DEF Begin, TypeOK
<1>3. Used' = Used
  <2>1. InSubmit = {} /\ InSubmit' = {}
    BY <1>1 DEF Begin, InSubmit, TypeOK
  <2> QED BY <2>1 DEF Used, Begin
<1> QED BY <1>2, <1>3 DEF CQ!Call, Begin

LEMMA RefineRefuse ==
  ASSUME TypeOK, IInv, NEW s \in Submitters, RefuseFull(s)
  PROVE  CQ!Refuse(s)
<1>1. pc[s] = "load" /\ call[s] # << >> /\ call' = [call EXCEPT ![s] = << >>]
  BY DEF RefuseFull, Leave, TypeOK
<1>2. \A u \in Submitters \ {s} : pc[u] = "idle"
  BY <1>1, OthersIdle DEF IInv
<1>3. InSubmit = {} /\ InSubmit' = {}
  BY <1>1, <1>2 DEF RefuseFull, Leave, InSubmit, TypeOK
<1>4. Used = push_offset /\ Used' = Used
  BY <1>3 DEF Used, RefuseFull
<1>5. push_offset + Dword * call[s][1] > PushBytes
  <2>1. /\ Dword * call[s][1] \in Nat /\ ByteLen(call[s][1]) = Dword * call[s][1]
        /\ call[s][1] \in Lens
    BY <1>1, CallFields
  <2>2. push_offset \in Nat /\ push_offset <= PushBytes
    BY HistoryFields DEF IInv, BufferInv
  <2>3. push_offset + Dword * call[s][1] < Word32
    BY <2>1, <2>2, LensAssumption, BufferAssumption
  <2>4. \A k \in Nat : k < Word32 => k % Word32 = k
    BY BufferAssumption
  <2>5. (push_offset + Dword * call[s][1]) % Word32 = push_offset + Dword * call[s][1]
    BY <2>1, <2>2, <2>3, <2>4
  <2>6. (push_offset + Dword * call[s][1]) % Word32 > PushBytes
    BY <2>1 DEF RefuseFull, Full
  <2> QED BY <2>5, <2>6
<1> QED BY <1>1, <1>4, <1>5 DEF CQ!Refuse, CQ!Bytes, RefuseFull

LEMMA RefineAccept ==
  ASSUME TypeOK, IInv, NEW s \in Submitters, RingDoorbell(s)
  PROVE  CQ!Accept(s)
<1>1. /\ pc[s] = "bell" /\ call' = [call EXCEPT ![s] = << >>] /\ executed' = executed
      /\ submitted' = Append(submitted, Request(s)) /\ submitted \in Seq(Submissions)
      /\ push_offset' = push_offset
  BY DEF RingDoorbell, Leave, Request, TypeOK
<1>2. CQ!Grows /\ CQ!NewEntry = Request(s)
  BY <1>1 DEF CQ!Grows, CQ!NewEntry
<1>3. /\ call[s] # << >> /\ call[s] = <<Request(s).len>>
      /\ Request(s).len = call[s][1] /\ Request(s).va = Segment(s)
  BY <1>1, CallFields DEF TypeOK, Request
<1>4. s \in InSubmit /\ InSubmit' = {}
  <2>1. \A u \in Submitters \ {s} : pc[u] = "idle"
    BY <1>1, OthersIdle DEF IInv
  <2> QED BY <1>1, <2>1 DEF RingDoorbell, Leave, InSubmit, TypeOK
<1>5. /\ Dword * call[s][1] \in Nat /\ offset[s] \in Nat /\ Segment(s) = PushVa + offset[s]
      /\ offset[s] + Dword * call[s][1] = push_offset /\ push_offset <= PushBytes
  BY <1>1, <1>4, CallFields, OffsetFields DEF IInv, BufferInv
<1>6. Used' = Used + Dword * call[s][1]
  <2>1. Used = offset[s]
    BY <1>4, UsedNow DEF IInv
  <2>2. Used' = push_offset
    BY <1>1, <1>4 DEF Used
  <2> QED BY <1>5, <2>1, <2>2
<1>7. PushVa <= Segment(s) /\ Segment(s) + Dword * call[s][1] <= PushVa + PushBytes
  BY <1>5, BufferAssumption
<1>8. ASSUME NEW i \in Len(executed) + 1 .. Len(submitted)
      PROVE  submitted[i].va + Dword * submitted[i].len <= Segment(s)
  <2>1. i \in Waiting
    BY DEF Waiting
  <2> QED BY <1>4, <2>1 DEF IInv, WaitingInv, End
<1> QED BY <1>1, <1>2, <1>3, <1>6, <1>7, <1>8
       DEF CQ!Accept, CQ!Pending, CQ!Disjoint, CQ!Bytes

LEMMA RefineRun ==
  ASSUME TypeOK, IInv, GpuFetch
  PROVE  CQ!Run
<1>1. ring[gpfifo_get] = submitted[Len(executed) + 1]
  BY FetchesOldest DEF GpuFetch, Ran
<1>2. Len(executed) + 1 \in Len(executed) + 1 .. Len(submitted)
  BY FetchesOldest DEF GpuFetch, Waiting, Ran
<1>3. Used' = Used
  BY DEF GpuFetch, locals, Used, InSubmit
<1> QED BY <1>1, <1>2, <1>3 DEF GpuFetch, locals, CQ!Run, CQ!Pending

LEMMA RefineReset ==
  ASSUME TypeOK, IInv, CallersBehave, ResetPushBuffer
  PROVE  CQ!Reset
<1>1. executed = submitted
  BY CaughtUp DEF ResetPushBuffer
<1>2. Used' = 0
  BY DEF ResetPushBuffer, locals, Used, InSubmit
<1> QED BY <1>1, <1>2 DEF ResetPushBuffer, locals, CQ!Reset

LEMMA RefineNext ==
  ASSUME TypeOK, IInv, CallersBehave, [Next]_vars
  PROVE  [CQ!Next]_CQ!vars
<1>1. ASSUME NEW s \in Submitters, Begin(s) PROVE CQ!Next
  BY <1>1, RefineBegin DEF CQ!Next
<1>2. ASSUME NEW s \in Submitters, RefuseFull(s) PROVE CQ!Next
  BY <1>2, RefineRefuse DEF CQ!Next
<1>3. ASSUME NEW s \in Submitters, RingDoorbell(s) PROVE CQ!Next
  BY <1>3, RefineAccept DEF CQ!Next
<1>4. ASSUME NEW s \in Submitters, LoadOffset(s) PROVE UNCHANGED CQ!vars
  <2>1. InSubmit = {} /\ InSubmit' = {}
    BY <1>4, OthersIdle DEF IInv, LoadOffset, InSubmit, TypeOK
  <2>2. Used' = Used
    BY <1>4, <2>1 DEF Used, LoadOffset
  <2> QED BY <1>4, <2>2 DEF LoadOffset, CQ!vars
<1>5. ASSUME NEW s \in Submitters, Reserve(s) PROVE UNCHANGED CQ!vars
  <2>1. pc[s] = "reserve" /\ offset[s] = push_offset /\ offset' = offset
    BY <1>5 DEF IInv, BufferInv, Reserve
  <2>2. InSubmit = {} /\ InSubmit' = {s}
    BY <1>5, OthersIdle DEF IInv, Reserve, InSubmit, TypeOK
  <2>3. Used' = Used
    BY <2>1, <2>2 DEF Used
  <2> QED BY <1>5, <2>3 DEF Reserve, CQ!vars
<1>6. ASSUME NEW s \in Submitters, BuildEntry(s) PROVE UNCHANGED CQ!vars
  <2>1. InSubmit' = InSubmit
    BY <1>6 DEF BuildEntry, InSubmit, TypeOK
  <2>2. Used' = Used
    BY <1>6, <2>1 DEF Used, BuildEntry
  <2> QED BY <1>6, <2>2 DEF BuildEntry, CQ!vars
<1>7. ASSUME NEW s \in Submitters, StorePut(s) PROVE UNCHANGED CQ!vars
  <2>1. InSubmit' = InSubmit
    BY <1>7 DEF StorePut, InSubmit, TypeOK
  <2>2. Used' = Used
    BY <1>7, <2>1 DEF Used, StorePut
  <2> QED BY <1>7, <2>2 DEF StorePut, CQ!vars
<1>8. ASSUME GpuFetch PROVE CQ!Next
  BY <1>8, RefineRun DEF CQ!Next
<1>9. ASSUME ResetPushBuffer PROVE CQ!Next
  BY <1>9, RefineReset DEF CQ!Next
<1>10. CASE UNCHANGED vars
  <2>1. UNCHANGED <<call, submitted, executed, Used>>
    BY <1>10 DEF vars, locals, Used, InSubmit
  <2> QED BY <2>1 DEF CQ!vars
<1> QED BY <1>1, <1>2, <1>3, <1>4, <1>5, <1>6, <1>7, <1>8, <1>9, <1>10 DEF Next, Continue

(* For callers that behave, submit's separate loads and stores amount to   *)
(* the one-step queue of CommandQueue.                                     *)
THEOREM Refinement == CallersBehave => (Spec => Implements)
<1> SUFFICES ASSUME CallersBehave PROVE Spec => Implements
  OBVIOUS
<1>1. TypeOK /\ IInv /\ [Next]_vars => [CQ!Next]_CQ!vars
  BY RefineNext
<1> QED BY RefineInit, Inductive, <1>1, PTL DEF Spec, Implements, CQ!Spec
=============================================================================
