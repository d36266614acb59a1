----------------------------- MODULE DeviceProofs -----------------------------
(***************************************************************************)
(* Proofs about Device for any bus with legal regions, any amount of VRAM, *)
(* any set of events and any clock: what init leaves behind, when the line *)
(* of the GPU is asserted, what handle_interrupt and the writes of         *)
(* registers may drop, and the time that read_timer_ns returns.            *)
(***************************************************************************)
EXTENDS Device, PciConfigProofs, FiniteSetTheorems

(* Places of init after the scan.                                          *)
Quiet == {"vram", "clear_fifo", "enable_fifo", "ring", "push", "bind", "enable"}

AfterScanPcs == Quiet \cup {"found", "return", "ready"}

(* The scan moves among its own places, and ends in "none" or "found".     *)
LEMMA ScanMoves ==
  ASSUME ScanStep
  PROVE  pc \in Scanning /\ pc' \in Scanning \cup {"none", "found"}
BY DEF ScanStep, Skip, ScanExhausted, ReadBars, ProbeOnes, ProbeRestore, ReadCommand,
       MergeCommand, WriteCommand, Scanning

(* A step of Device is one of the scan, an error on the bus, or leaves the *)
(* bus alone.                                                              *)
InitRest ==
  \/ DisableInterrupts \/ DetectVram \/ ClearFifo \/ EnableFifo
  \/ AllocateRing \/ AllocatePush \/ RefuseChannel \/ Bind \/ EnableInterrupts
  \/ ReturnDevice

HandlerRest == ReadInterrupts \/ ClearInterrupt \/ \E e \in DOMAIN Engines : Raise(e)

TimerRest == ReadHigh \/ TimerStep \/ Tick

LEMMA StepKinds ==
  ASSUME Next
  PROVE  Scan \/ BusError \/ InitRest \/ HandlerRest \/ TimerRest
BY DEF Next, InitStep, InitRest, HandlerRest, TimerRest

LEMMA InitRestLeaves ==
  ASSUME InitRest
  PROVE  /\ UNCHANGED <<scan, handler, timer>>
         /\ pc \in AfterScanPcs \ {"ready"} /\ pc' \in AfterScanPcs \ {"found"}
BY DEF InitRest, DisableInterrupts, DetectVram, ClearFifo, EnableFifo, AllocateRing, AllocatePush,
       RefuseChannel, Bind, EnableInterrupts, ReturnDevice, AfterScanPcs, Quiet

LEMMA HandlerRestLeaves ==
  ASSUME HandlerRest
  PROVE  UNCHANGED <<pc, scan, setup, intrEn, fifoEn, timer>>
BY DEF HandlerRest, ReadInterrupts, ClearInterrupt, Raise

LEMMA TimerRestLeaves ==
  ASSUME TimerRest
  PROVE  UNCHANGED <<pc, scan, setup, intrEn, fifoEn, raised, handler>>
BY DEF TimerRest, TimerStep, ReadHigh, ReadLow, ReadHighAgain, ReadHighAnew, ReturnTime, Tick

-----------------------------------------------------------------------------
LEMMA BusInit == Init => ScanInv
BY ScanInvInit DEF Init

LEMMA BusNext == ScanInv /\ [Next]_vars => ScanInv'
<1> SUFFICES ASSUME ScanInv, [Next]_vars PROVE ScanInv'
  OBVIOUS
<1>1. CASE Scan
  BY <1>1, ScanKeeps DEF Scan
<1>2. CASE BusError
  BY <1>2, RaiseStatusKeeps DEF BusError
<1>3. CASE InitRest
  <2>1. UNCHANGED scan /\ pc \notin Scanning \cup {"none"} /\ pc' \notin Scanning \cup {"none"}
    BY <1>3, InitRestLeaves DEF AfterScanPcs, Quiet, Scanning
  <2> QED BY <2>1, AfterScan
<1>4. CASE HandlerRest
  BY <1>4, HandlerRestLeaves, AfterScan
<1>5. CASE TimerRest
  BY <1>5, TimerRestLeaves, AfterScan
<1>6. CASE UNCHANGED vars
  <2>1. UNCHANGED scan /\ pc' = pc
    BY <1>6 DEF vars
  <2> QED BY <2>1, AfterScan
<1> QED BY <1>1, <1>2, <1>3, <1>4, <1>5, <1>6, StepKinds

LEMMA BusInvariant == Spec => []ScanInv
BY BusInit, BusNext, PTL DEF Spec

(* Device.BusAsFound: the scan restores every BAR that it probes, and      *)
(* writes no register of any function but the first GPU.                   *)
THEOREM BusIsAsFound == Spec => []BusAsFound
<1>1. ScanInv => BusAsFound
  <2> SUFFICES ASSUME ScanInv, NEW i \in DOMAIN bus
               PROVE  /\ \A k \in 0 .. 5 :
                           \/ config[i].bars[k] = Programmed(bus[i], k)
                           \/ pc = "restore" /\ i = slot /\ k = Head(probes)
                      /\ \/ config[i].command = bus[i].command
                         \/ \A j \in 1 .. i :
                              j = i <=> bus[j].vendor = \h10DE /\ bus[j].class \in {\h03, \h12}
    BY DEF BusAsFound
  <2>1. ASSUME config[i].command # bus[i].command
        PROVE  \A j \in 1 .. i : j = i <=> bus[j].vendor = \h10DE /\ bus[j].class \in {\h03, \h12}
    <3>1. i = slot /\ pc \notin NoGpuYet
      BY <2>1 DEF ScanInv, CommandKept, NoGpuYet, Scanning
    <3>2. IsGpu(bus[i]) /\ \A j \in 1 .. i - 1 : ~ IsGpu(bus[j])
      BY <3>1 DEF ScanInv, FirstGpu
    <3>3. i \in Nat
      BY LegalBus DEF ScanInv, ScanTypes
    <3> QED BY <3>2, <3>3 DEF IsGpu
  <2> QED BY <2>1 DEF ScanInv, BarsKept
<1> QED BY <1>1, BusInvariant, PTL

(* Device.RegionsFound: whatever the bus, when the scan is over the bases  *)
(* of the regions are those of the GPU's hardware, and so are the sizes    *)
(* that are below 4 GiB.                                                   *)
THEOREM RegionsAreFound == Spec => []RegionsFound
<1>1. ScanInv => RegionsFound
  <2> SUFFICES ASSUME ScanInv, NEW d \in pci, pc \notin Scanning
               PROVE  LET f == bus[d.slot]
                          Region(n) == f.regions[2 * (n - 1)]
                      IN \A n \in IF f.regions[0].is64 THEN 1 .. 3 ELSE {1} :
                           IF 2 * (n - 1) \in DOMAIN f.regions
                           THEN /\ d.base[n] = Region(n).base
                                /\ Region(n).size < Word32 => d.size[n] = Region(n).size
                           ELSE IsHigh(f, 2 * (n - 1)) \/ (d.base[n] = 0 /\ d.size[n] = 0)
    BY DEF RegionsFound
  <2>1. pc \notin NoGpuYet /\ NextProbe = 6 /\ d = Found(bus[slot], 6)
    BY DEF ScanInv, DeviceKnown, NoGpuYet, NextProbe, Scanning
  <2> DEFINE f == bus[slot]
  <2>2. AllLegal(f) /\ 0 \in DOMAIN f.regions
    BY <2>1, LegalBus DEF ScanInv, ScanTypes, FirstGpu
  <2>3. d.slot = slot
    BY <2>1 DEF Found
  <2> HIDE DEF f
  <2>4. Is64(Programmed(f, 0)) <=> f.regions[0].is64
    BY <2>2, DecodesAddress
  <2>5. ASSUME NEW k \in {0, 2, 4}, k \in DOMAIN f.regions
        PROVE  /\ decode_bar64(Programmed(f, k), Programmed(f, k + 1)) = f.regions[k].base
               /\ f.regions[k].size < Word32 => SizeAt(f, k) = f.regions[k].size
    BY <2>2, <2>5, DecodesAddress, ProbesSize DEF SizeAt, IsLow
  <2>6. ASSUME NEW k \in {2, 4}, k \notin DOMAIN f.regions, ~ IsHigh(f, k)
        PROVE  decode_bar64(Programmed(f, k), Programmed(f, k + 1)) = 0 /\ SizeAt(f, k) = 0
    <3>1. ~ IsLow(f, k)
      BY <2>6 DEF IsLow
    <3>2. ~ IsHigh(f, k)
      BY <2>6
    <3>3. k \in 0 .. 5
      OBVIOUS
    <3> QED BY <2>2, <3>1, <3>2, <3>3, AbsentRegister, ProbesSize DEF SizeAt
  <2> QED BY <2>1, <2>2, <2>3, <2>4, <2>5, <2>6 DEF Found, f
<1> QED BY <1>1, BusInvariant, PTL

(* Device.StatusKept: only the write of COMMAND clears error bits, and     *)
(* only those it had read.                                                 *)
THEOREM StatusIsKept == Spec => StatusKept
<1> DEFINE Kept ==
      \A i \in DOMAIN config :
        config[i].status \ config'[i].status # {} =>
          pc = "write" /\ i = slot /\ config[i].status \ config'[i].status \subseteq seen.status
<1>1. ScanInv /\ [Next]_vars => [Kept]_vars
  <2> SUFFICES ASSUME ScanInv, Next PROVE Kept
    OBVIOUS
  <2>1. DOMAIN config = DOMAIN bus /\ config \in [DOMAIN bus -> Registers]
    BY DEF ScanInv, ScanTypes
  <2>2. ASSUME UNCHANGED config PROVE Kept
    BY <2>2
  <2>3. ASSUME ProbeOnes \/ ProbeRestore PROVE Kept
    <3>1. PICK v : WriteBar(Head(probes), v) /\ Keep(bus[slot], Head(probes), v) \in 0 .. Word32 - 1
      <4>1. Head(probes) \in 0 .. 5 /\ AllLegal(bus[slot])
        BY <2>3, ProbedBar DEF ProbeOnes, ProbeRestore
      <4>2. CASE ProbeOnes
        BY <4>1, <4>2, KeepInRange, WordFacts DEF ProbeOnes
      <4>3. CASE ProbeRestore
        <5>1. original = Programmed(bus[slot], Head(probes))
          BY <4>3 DEF ProbeRestore, ScanInv, BarsKept
        <5>2. Keep(bus[slot], Head(probes), original) \in 0 .. Word32 - 1
          BY <4>1, <5>1, ProgrammedFacts
        <5> QED BY <4>3, <5>2 DEF ProbeRestore
      <4> QED BY <2>3, <4>2, <4>3
    <3>2. slot \in DOMAIN bus /\ Head(probes) \in 0 .. 5
      BY <2>3, ProbedBar DEF ProbeOnes, ProbeRestore
    <3>3. \A i \in DOMAIN bus : config'[i].status = config[i].status
      BY <3>1, <3>2, BarWritten
    <3> QED BY <2>1, <3>3
  <2>4. ASSUME WriteCommand PROVE Kept
    <3>1. slot \in DOMAIN bus /\ pc = "write"
      BY <2>4 DEF WriteCommand, ScanInv, FirstGpu, NoGpuYet
    <3>2. config'[slot].status = config[slot].status \ seen.status
      BY <2>1, <2>4, <3>1 DEF WriteCommand, Registers
    <3>3. \A i \in DOMAIN bus : i # slot => config'[i].status = config[i].status
      BY <2>1, <2>4, <3>1 DEF WriteCommand, Registers
    <3> QED BY <2>1, <3>1, <3>2, <3>3
  <2>5. CASE Scan
    <3>1. ASSUME Skip \/ ScanExhausted \/ ReadBars \/ ReadCommand \/ MergeCommand
          PROVE  UNCHANGED config
      BY <3>1 DEF Skip, ScanExhausted, ReadBars, ReadCommand, MergeCommand, scan
    <3> QED BY <2>2, <2>3, <2>4, <2>5, <3>1 DEF Scan, ScanStep
  <2>6. CASE BusError
    <3>1. PICK b \in StatusBits : RaiseStatus(b)
      BY <2>6 DEF BusError
    <3>2. \A i \in DOMAIN bus : config[i].status \subseteq config'[i].status
      BY <2>1, <3>1 DEF RaiseStatus, Registers
    <3> QED BY <2>1, <3>2
  <2>7. CASE InitRest
    BY <2>2, <2>7, InitRestLeaves DEF scan
  <2>8. CASE HandlerRest
    BY <2>2, <2>8, HandlerRestLeaves DEF scan
  <2>9. CASE TimerRest
    BY <2>2, <2>9, TimerRestLeaves DEF scan
  <2> QED BY <2>5, <2>6, <2>7, <2>8, <2>9, StepKinds
<1> QED BY <1>1, BusInvariant, PTL DEF Spec, StatusKept

-----------------------------------------------------------------------------
(* The interrupts: which engines may assert the line at each place of      *)
(* init, and what the handler has still to do.                             *)
LineInv ==
  /\ pc \in Scanning \cup {"none"} \cup AfterScanPcs
  /\ pc \in Quiet => intrEn = {}
  /\ InterruptsOn => intrEn = Known

HandlerInv ==
  /\ todo \in Seq(Known) /\ noticed \subseteq Known
  /\ \A i \in DOMAIN todo : todo[i] \in noticed

LEMMA LineInit == Init => LineInv
BY DEF Init, ScanInit, LineInv, InterruptsOn, Scanning, Quiet

LEMMA LineNext == LineInv /\ [Next]_vars => LineInv'
<1> SUFFICES ASSUME LineInv, [Next]_vars PROVE LineInv'
  OBVIOUS
<1> USE DEF LineInv, InterruptsOn, Quiet, AfterScanPcs, setup, heap
<1>1. CASE Scan
  BY <1>1, ScanMoves DEF Scan, Scanning
<1>2. CASE BusError
  BY <1>2 DEF BusError, RaiseStatus
<1>3. CASE InitRest
  BY <1>3 DEF InitRest, DisableInterrupts, DetectVram, ClearFifo, EnableFifo, AllocateRing,
              AllocatePush, RefuseChannel, Bind, EnableInterrupts, ReturnDevice, Scanning
<1>4. CASE HandlerRest
  BY <1>4, HandlerRestLeaves
<1>5. CASE TimerRest
  BY <1>5, TimerRestLeaves
<1>6. CASE UNCHANGED vars
  BY <1>6 DEF vars
<1> QED BY <1>1, <1>2, <1>3, <1>4, <1>5, <1>6, StepKinds

LEMMA LineInvariant == Spec => []LineInv
BY LineInit, LineNext, PTL DEF Spec

(* Device.LineServable: no interrupt comes between disable_interrupts and  *)
(* enable_interrupts, and later only one that handle_interrupt             *)
(* acknowledges.                                                           *)
THEOREM LineIsServable == Spec => []LineServable
<1>1. LineInv => LineServable
  BY DEF LineInv, LineServable, Running, InterruptsOn, Line, PmcIntr, Quiet
<1> QED BY <1>1, LineInvariant, PTL

(* The engines handle_interrupt lists are among those it found pending.    *)
LEMMA IfPendingFacts ==
  ASSUME NEW g \in Known
  PROVE  IfPending(g) \in Seq(PmcIntr \cap Known)
<1> DEFINE S == PmcIntr \cap Known
<1>1. CASE g \in PmcIntr
  <2>1. g \in S /\ IfPending(g) = <<g>>
    BY <1>1 DEF IfPending
  <2> HIDE DEF S
  <2>2. IfPending(g) \in Seq(S)
    BY <2>1
  <2> QED BY <2>2 DEF S
<1>2. CASE g \notin PmcIntr
  <2>1. IfPending(g) = << >>
    BY <1>2 DEF IfPending
  <2> HIDE DEF S
  <2>2. IfPending(g) \in Seq(S)
    BY <2>1
  <2> QED BY <2>2 DEF S
<1> QED BY <1>1, <1>2

LEMMA HandlerInit == Init => HandlerInv
BY DEF Init, HandlerInv

LEMMA HandlerNext == HandlerInv /\ [Next]_vars => HandlerInv'
<1> SUFFICES ASSUME HandlerInv, [Next]_vars PROVE HandlerInv'
  OBVIOUS
<1>1. CASE ReadInterrupts
  <2> DEFINE S == PmcIntr \cap Known
  <2>1. "PFIFO" \in Known /\ "PGRAPH" \in Known /\ "PTIMER" \in Known
    BY DEF Known
  <2>2. \A g \in Known : IfPending(g) \in Seq(S)
    BY IfPendingFacts
  <2>3. noticed' = S /\ todo' \in Seq(S)
    BY <1>1, <2>1, <2>2 DEF ReadInterrupts
  <2> QED BY <2>3 DEF HandlerInv
<1>2. CASE ClearInterrupt
  <2>1. /\ todo # << >> /\ todo' = Tail(todo)
        /\ noticed' = IF Len(todo) = 1 THEN {} ELSE noticed
    BY <1>2 DEF ClearInterrupt
  <2>2. todo' \in Seq(Known) /\ Len(todo') = Len(todo) - 1 /\ DOMAIN todo' = 1 .. Len(todo) - 1
        /\ \A i \in DOMAIN todo' : todo'[i] = todo[i + 1] /\ i + 1 \in DOMAIN todo
    BY <2>1 DEF HandlerInv
  <2> QED BY <2>1, <2>2 DEF HandlerInv
<1>3. ASSUME UNCHANGED handler PROVE HandlerInv'
  BY <1>3 DEF handler, HandlerInv
<1>4. ASSUME NEW e \in DOMAIN Engines, Raise(e) PROVE UNCHANGED handler
  BY <1>4 DEF Raise
<1>5. ASSUME Scan \/ BusError PROVE UNCHANGED handler
  BY <1>5 DEF Scan, BusError
<1>6. ASSUME InitRest \/ TimerRest PROVE UNCHANGED handler
  BY <1>6, InitRestLeaves, TimerRestLeaves
<1>7. CASE UNCHANGED vars
  BY <1>3, <1>7 DEF vars
<1> QED BY <1>1, <1>2, <1>3, <1>4, <1>5, <1>6, <1>7, StepKinds DEF HandlerRest

LEMMA HandlerInvariant == Spec => []HandlerInv
BY HandlerInit, HandlerNext, PTL DEF Spec

(* Device.EventsKept: an event goes only by init_fifo or by a call of      *)
(* handle_interrupt that found its engine pending.                         *)
THEOREM EventsAreKept == Spec => EventsKept
<1> DEFINE Kept ==
      \A e \in raised \ raised' :
        Engines[e] \in noticed \/ (pc = "clear_fifo" /\ Engines[e] = "PFIFO")
<1>1. HandlerInv /\ [Next]_vars => [Kept]_vars
  <2> SUFFICES ASSUME HandlerInv, Next PROVE Kept
    OBVIOUS
  <2>1. ASSUME raised \subseteq raised' PROVE Kept
    BY <2>1
  <2>2. CASE ClearInterrupt
    <3>1. Head(todo) \in noticed
      BY <2>2 DEF ClearInterrupt, HandlerInv
    <3> QED BY <2>2, <3>1 DEF ClearInterrupt, Of
  <2>3. CASE ClearFifo
    BY <2>3 DEF ClearFifo, Of
  <2>4. ASSUME InitRest, ~ ClearFifo PROVE raised' = raised
    BY <2>4 DEF InitRest, DisableInterrupts, DetectVram, EnableFifo, AllocateRing, AllocatePush,
                RefuseChannel, Bind, EnableInterrupts, ReturnDevice
  <2>5. ASSUME Scan \/ BusError PROVE raised' = raised
    BY <2>5 DEF Scan, BusError
  <2>6. ASSUME HandlerRest, ~ ClearInterrupt PROVE raised \subseteq raised'
    BY <2>6 DEF HandlerRest, ReadInterrupts, Raise
  <2>7. ASSUME TimerRest PROVE raised' = raised
    BY <2>7, TimerRestLeaves
  <2> QED BY <2>1, <2>2, <2>3, <2>4, <2>5, <2>6, <2>7, StepKinds
<1> QED BY <1>1, HandlerInvariant, PTL DEF Spec, EventsKept

-----------------------------------------------------------------------------
(* The timer: what was read was shown between the first read and now, the  *)
(* low half no earlier than the high half before it.                       *)
Timers ==
  [at : {"idle", "high", "low", "again", "done"}, clock : 0 .. MaxClock, from : Nat, hi : Nat,
   lo : Nat]

TimerInv ==
  /\ timer \in Timers /\ timer.from <= timer.clock
  /\ timer.at = "high" =>
       \E t \in timer.from .. timer.clock : timer.hi = t \div LoSpan
  /\ timer.at = "low" =>
       \E t \in timer.from .. timer.clock, u \in timer.from .. timer.clock :
         t <= u /\ timer.hi = t \div LoSpan /\ timer.lo = u % LoSpan
  /\ timer.at = "done" => (timer.hi * LoSpan) + timer.lo \in timer.from .. timer.clock

LEMMA TimerInit == Init => TimerInv
BY DeviceAssumption DEF Init, Idle, TimerInv, Timers

(* Between two reads of the same high half the low half did not overflow.  *)
LEMMA HalvesAgree ==
  ASSUME NEW t \in Nat, NEW u \in Nat, NEW v \in Nat, t <= u, u <= v,
         t \div LoSpan = v \div LoSpan
  PROVE  ((t \div LoSpan) * LoSpan) + (u % LoSpan) = u
<1>1. t \div LoSpan <= u \div LoSpan /\ u \div LoSpan <= v \div LoSpan
  BY QuotientAtMost, DeviceAssumption
<1>2. t \div LoSpan \in Nat /\ u \div LoSpan \in Nat
  BY DivFacts, DeviceAssumption
<1>3. u \div LoSpan = t \div LoSpan
  BY <1>1, <1>2
<1>4. u = LoSpan * (u \div LoSpan) + (u % LoSpan)
  BY DivFacts, DeviceAssumption
<1>5. \A q \in Nat : q * LoSpan = LoSpan * q
  BY DeviceAssumption
<1> QED BY <1>2, <1>3, <1>4, <1>5

LEMMA TimerNext == TimerInv /\ [Next]_vars => TimerInv'
<1> SUFFICES ASSUME TimerInv, [Next]_vars PROVE TimerInv'
  OBVIOUS
<1>t. timer \in Timers /\ timer.clock \in Nat /\ timer.from \in Nat /\ MaxClock \in Nat
  BY DeviceAssumption DEF TimerInv, Timers
<1>p. LoSpan \in Nat \ {0} /\ LoSpan <= MaxClock
  BY DeviceAssumption
<1>m. ASSUME NEW n \in Nat PROVE n % LoSpan \in Nat /\ n \div LoSpan \in Nat
  <2>1. n % LoSpan \in 0 .. LoSpan - 1
    BY <1>p, ModFacts
  <2>2. n \div LoSpan \in Nat
    BY <1>p, DivFacts
  <2> QED BY <1>p, <2>1, <2>2
<1>1. CASE ReadHigh
  <2>1. PICK now \in 0 .. LoSpan - 1 :
          timer' = [timer EXCEPT !.at = "high", !.clock = now, !.from = now, !.hi = 0]
    BY <1>1 DEF ReadHigh
  <2>2. now \in 0 .. MaxClock /\ now \in Nat
    BY <1>t, <1>p
  <2>d. now \div LoSpan = 0
    BY <1>p
  <2>3. timer' \in Timers
    BY <1>t, <2>1, <2>2 DEF Timers
  <2> QED BY <1>t, <2>1, <2>2, <2>d, <2>3 DEF TimerInv, Timers
<1>2. CASE ReadLow
  <2>1. timer.at = "high" /\ timer' = [timer EXCEPT !.at = "low", !.lo = timer.clock % LoSpan]
    BY <1>2 DEF ReadLow
  <2>2. timer' \in Timers
    BY <1>t, <1>m, <2>1 DEF Timers
  <2> QED BY <1>t, <2>1, <2>2 DEF TimerInv, Timers
<1>3. CASE ReadHighAgain
  <2> DEFINE next == IF timer.hi = timer.clock \div LoSpan THEN "done" ELSE "again"
  <2>1. timer.at = "low" /\ timer' = [timer EXCEPT !.at = next]
    BY <1>3 DEF ReadHighAgain
  <2>2. timer' \in Timers
    BY <1>t, <2>1 DEF Timers
  <2>3. timer.hi = timer.clock \div LoSpan =>
          (timer.hi * LoSpan) + timer.lo \in timer.from .. timer.clock
    <3> SUFFICES ASSUME timer.hi = timer.clock \div LoSpan
                 PROVE  (timer.hi * LoSpan) + timer.lo \in timer.from .. timer.clock
      OBVIOUS
    <3>1. PICK t \in timer.from .. timer.clock, u \in timer.from .. timer.clock :
            t <= u /\ timer.hi = t \div LoSpan /\ timer.lo = u % LoSpan
      BY <2>1 DEF TimerInv
    <3>2. ((t \div LoSpan) * LoSpan) + (u % LoSpan) = u
      BY <1>t, <3>1, HalvesAgree
    <3> QED BY <3>1, <3>2
  <2> QED BY <1>t, <2>1, <2>2, <2>3 DEF TimerInv, Timers
<1>4. CASE ReadHighAnew
  <2>1. timer.at = "again" /\ timer' = [timer EXCEPT !.at = "high", !.hi = timer.clock \div LoSpan]
    BY <1>4 DEF ReadHighAnew
  <2>2. timer' \in Timers
    BY <1>t, <1>m, <2>1 DEF Timers
  <2> QED BY <1>t, <2>1, <2>2 DEF TimerInv, Timers
<1>5. CASE ReturnTime
  BY <1>5, DeviceAssumption DEF ReturnTime, Idle, TimerInv, Timers
<1>6. CASE Tick
  <2>1. timer.clock < MaxClock /\ timer' = [timer EXCEPT !.clock = timer.clock + 1]
    BY <1>6 DEF Tick
  <2>2. timer' \in Timers /\ timer'.clock = timer.clock + 1
    BY <1>t, <2>1 DEF Timers
  <2>3. timer'.at = timer.at /\ timer'.from = timer.from /\ timer'.hi = timer.hi
        /\ timer'.lo = timer.lo
    BY <1>t, <2>1 DEF Timers
  <2>4. timer.from .. timer.clock \subseteq timer'.from .. timer'.clock
    BY <1>t, <2>2, <2>3
  <2>5. timer'.at = "high" =>
          \E t \in timer'.from .. timer'.clock : timer'.hi = t \div LoSpan
    BY <2>3, <2>4 DEF TimerInv
  <2>6. timer'.at = "low" =>
          \E t \in timer'.from .. timer'.clock, u \in timer'.from .. timer'.clock :
            t <= u /\ timer'.hi = t \div LoSpan /\ timer'.lo = u % LoSpan
    BY <2>3, <2>4 DEF TimerInv
  <2>7. timer'.at = "done" =>
          (timer'.hi * LoSpan) + timer'.lo \in timer'.from .. timer'.clock
    BY <2>3, <2>4 DEF TimerInv
  <2> QED BY <1>t, <2>2, <2>3, <2>5, <2>6, <2>7 DEF TimerInv
<1>7. ASSUME UNCHANGED timer PROVE TimerInv'
  BY <1>7 DEF TimerInv
<1>8. ASSUME Scan \/ BusError PROVE UNCHANGED timer
  BY <1>8 DEF Scan, BusError
<1>9. ASSUME InitRest \/ HandlerRest PROVE UNCHANGED timer
  BY <1>9, InitRestLeaves, HandlerRestLeaves
<1>10. CASE UNCHANGED vars
  BY <1>7, <1>10 DEF vars
<1> QED
  BY <1>1, <1>2, <1>3, <1>4, <1>5, <1>6, <1>7, <1>8, <1>9, <1>10, StepKinds
  DEF TimerRest, TimerStep

LEMMA TimerInvariant == Spec => []TimerInv
BY TimerInit, TimerNext, PTL DEF Spec

(* Device.TimerHonest: read_timer_ns returns a time that the timer showed  *)
(* during the call, for any width of the halves.                           *)
THEOREM TimerIsHonest == Spec => []TimerHonest
<1>1. TimerInv => TimerHonest
  BY DEF TimerInv, TimerHonest
<1> QED BY <1>1, TimerInvariant, PTL

-----------------------------------------------------------------------------
(* The channel and the VRAM it takes, at each place of init.               *)
Ring == AlignUp(RingBytes)
Push == AlignUp(PushBytes)

RingBlock(va) == Block("vram", va, Reserved, Ring)
PushBlock(va) == Block("vram", va, Reserved + Ring, Push)

Free(taken) == freeRegion = [start |-> Reserved + taken, size |-> capacity - taken]

NothingTaken == channel = {} /\ Free(0)

OnlyRing ==
  /\ Ring <= capacity /\ Free(Ring)
  /\ \E va \in Nat : channel = {RingBlock(va)}

RingLost == channel = {} /\ Ring <= capacity /\ capacity < Ring + Push /\ Free(Ring)

WholeChannel ==
  /\ Ring + Push <= capacity /\ Free(Ring + Push)
  /\ \E va, vb \in Nat : channel = {RingBlock(va), PushBlock(vb)}

HeapInv ==
  /\ capacity \in Nat /\ nextVa \in 0 .. Word - 1
  /\ pc \notin {"push", "bind", "enable", "return", "ready"} => NothingTaken
  /\ pc = "push" => OnlyRing
  /\ pc \in {"bind", "enable", "return", "ready"} =>
       (NothingTaken /\ capacity < Ring) \/ RingLost \/ WholeChannel

BindInv ==
  /\ fifoEn \in BOOLEAN /\ compute_ready \in BOOLEAN
  /\ pc \in {"ring", "push", "bind", "enable", "return", "ready"} => fifoEn
  /\ pc \in {"enable", "return", "ready"} =>
       /\ compute_ready <=> ~ NeedsGsp(Family) /\ channel # {}
       /\ compute_ready => bound = compute_class_for_family(Family)

LEMMA ChannelBytes ==
  /\ Ring \in Nat /\ Push \in Nat \ {0}
  /\ Reserved \in Nat /\ Word \in Nat \ {0} /\ VaBase \in 0 .. Word - 1
<1>1. Reserved \in Nat /\ Word \in Nat \ {0} /\ VaBase \in 0 .. Word - 1 /\ PageSize \in Nat \ {0}
  BY WidthAssumption
<1>2. Push \in Nat \ {0}
  <2> DEFINE x == (PushBytes + PageSize - 1) % Word
  <2>1. PushBytes \in Nat /\ 8 <= PushBytes /\ PushBytes + PageSize <= Word
    BY DeviceAssumption
  <2>2. x \in Nat
    BY <1>1, <2>1
  <2>3. x - (x % PageSize) \in Nat /\ PushBytes <= x - (x % PageSize)
    BY <1>1, <2>1, <2>2, RoundUpFacts
  <2>4. Push = x - (x % PageSize)
    BY DEF Push, AlignUp
  <2> HIDE DEF x
  <2> QED BY <2>1, <2>3, <2>4
<1>3. Ring \in Nat
  <2> DEFINE x == (RingBytes + PageSize - 1) % Word
  <2>1. RingBytes \in Nat
    BY DeviceAssumption
  <2>2. x \in Nat
    BY <1>1, <2>1
  <2>3. Ring = x - (x % PageSize)
    BY DEF Ring, AlignUp
  <2> HIDE DEF x
  <2>4. x % PageSize \in Nat /\ x % PageSize <= x
    BY <1>1, <2>2, ModFacts
  <2> QED BY <2>2, <2>3, <2>4
<1> QED BY <1>1, <1>2, <1>3

LEMMA PairHasTwo ==
  ASSUME NEW x, NEW y, x # y
  PROVE  Cardinality({x, y}) = 2
<1>1. IsFiniteSet({x}) /\ Cardinality({x}) = 1
  BY FS_Singleton
<1>2. Cardinality({x} \cup {y}) = Cardinality({x}) + 1
  BY <1>1, FS_AddElement
<1>3. {x} \cup {y} = {x, y}
  OBVIOUS
<1> QED BY <1>1, <1>2, <1>3

LEMMA CapacityFound ==
  ASSUME NEW reg \in VramSizeRegs
  PROVE  CapacityOf(DecodeVramSize(reg)) \in Nat
<1>1. reg \in Nat /\ MiB \in Nat /\ DefaultVram \in Nat /\ Reserved \in Nat
  BY WidthAssumption
<1>2. reg * MiB \in Nat
  BY <1>1
<1>3. DecodeVramSize(reg) \in Nat
  BY <1>1, <1>2 DEF DecodeVramSize
<1> QED BY <1>1, <1>3 DEF CapacityOf

LEMMA HeapInit == Init => HeapInv /\ BindInv
<1> SUFFICES ASSUME Init PROVE HeapInv /\ BindInv
  OBVIOUS
<1>1. /\ pc = "scan" /\ freeRegion = [start |-> Reserved, size |-> 0] /\ capacity = 0
      /\ nextVa = VaBase /\ channel = {} /\ fifoEn \in BOOLEAN /\ compute_ready = FALSE
  BY DEF Init, ScanInit
<1>2. Reserved + 0 = Reserved
  BY ChannelBytes
<1>3. NothingTaken
  BY <1>1, <1>2 DEF NothingTaken, Free
<1> QED BY <1>1, <1>3, ChannelBytes DEF HeapInv, BindInv

LEMMA HeapNext == HeapInv /\ [Next]_vars => HeapInv'
<1> SUFFICES ASSUME HeapInv, [Next]_vars PROVE HeapInv'
  OBVIOUS
<1> USE DEF HeapInv
<1>c. capacity \in Nat /\ nextVa \in Nat
  BY ChannelBytes
<1>1. ASSUME UNCHANGED <<heap, capacity, channel>>,
             \/ pc' = pc
             \/ {pc, pc'} \cap {"push", "bind", "enable", "return", "ready"} = {}
             \/ pc \in {"bind", "enable", "return"} /\ pc' \in {"enable", "return", "ready"}
      PROVE  HeapInv'
  BY <1>1 DEF heap, NothingTaken, OnlyRing, RingLost, WholeChannel, Free
<1>2. CASE Scan
  <2>1. UNCHANGED <<heap, capacity, channel>>
    BY <1>2 DEF Scan, setup
  <2> QED BY <1>1, <1>2, <2>1, ScanMoves DEF Scan, Scanning
<1>3. CASE BusError
  BY <1>1, <1>3 DEF BusError, RaiseStatus, setup
<1>4. ASSUME DisableInterrupts \/ ClearFifo \/ EnableFifo \/ Bind \/ EnableInterrupts
             \/ ReturnDevice
      PROVE  HeapInv'
  <2>1. UNCHANGED <<heap, capacity, channel>>
    BY <1>4 DEF DisableInterrupts, ClearFifo, EnableFifo, Bind, EnableInterrupts, ReturnDevice, setup
  <2> QED BY <1>1, <1>4, <2>1
          DEF DisableInterrupts, ClearFifo, EnableFifo, Bind, EnableInterrupts, ReturnDevice
<1>5. CASE DetectVram
  BY <1>5, CapacityFound, ChannelBytes DEF DetectVram, NothingTaken, Free
<1>6. CASE AllocateRing
  <2>1. /\ pc = "ring" /\ pc' = "push" /\ capacity' = capacity
        /\ channel' = {NewBlock(RingBytes)} /\ Allocate(RingBytes)
    BY <1>6 DEF AllocateRing
  <2>2. NothingTaken
    BY <2>1
  <2>3. Ring <= capacity /\ freeRegion = [start |-> Reserved, size |-> capacity]
    BY <1>c, <2>1, <2>2, ChannelBytes DEF Allocate, HasRoom, Fits, NothingTaken, Free, Ring
  <2>4. freeRegion' = [start |-> Reserved + Ring, size |-> capacity - Ring]
    BY <2>1, <2>3 DEF Allocate, Cut, Ring
  <2>5. channel' = {RingBlock(nextVa)}
    BY <2>1, <2>3 DEF NewBlock, RingBlock, Ring
  <2>6. nextVa' \in 0 .. Word - 1
    <3>1. nextVa + Ring \in Nat
      BY <1>c, ChannelBytes
    <3>2. nextVa' = (nextVa + Ring) % Word
      BY <2>1 DEF Allocate, Ring
    <3> QED BY <3>1, <3>2, ChannelBytes, ModFacts
  <2>7. OnlyRing'
    BY <1>c, <2>1, <2>3, <2>4, <2>5 DEF OnlyRing, Free, RingBlock, Ring
  <2> QED BY <1>c, <2>1, <2>6, <2>7
<1>7. CASE AllocatePush
  <2>1. /\ pc = "push" /\ pc' = "bind" /\ capacity' = capacity
        /\ channel' = channel \cup {NewBlock(PushBytes)} /\ Allocate(PushBytes)
    BY <1>7 DEF AllocatePush
  <2>2. /\ Ring <= capacity
        /\ freeRegion = [start |-> Reserved + Ring, size |-> capacity - Ring]
    BY <2>1 DEF OnlyRing, Free
  <2>3. Push <= capacity - Ring
    BY <2>1, <2>2 DEF Allocate, HasRoom, Fits, Push
  <2>4. freeRegion' = [start |-> Reserved + (Ring + Push), size |-> capacity - (Ring + Push)]
    <3>1. freeRegion' = [start |-> (Reserved + Ring) + Push, size |-> (capacity - Ring) - Push]
      BY <2>1, <2>2 DEF Allocate, Cut, Push
    <3>2. (Reserved + Ring) + Push = Reserved + (Ring + Push)
          /\ (capacity - Ring) - Push = capacity - (Ring + Push)
      BY <1>c, ChannelBytes
    <3> QED BY <3>1, <3>2
  <2>5. PICK va \in Nat : channel = {RingBlock(va)}
    BY <2>1 DEF OnlyRing
  <2>6. channel' = {RingBlock(va), PushBlock(nextVa)}
    BY <2>1, <2>2, <2>5 DEF NewBlock, PushBlock, Push
  <2>7. nextVa' \in 0 .. Word - 1
    <3>1. nextVa + Push \in Nat
      BY <1>c, ChannelBytes
    <3>2. nextVa' = (nextVa + Push) % Word
      BY <2>1 DEF Allocate, Push
    <3> QED BY <3>1, <3>2, ChannelBytes, ModFacts
  <2>8. Ring + Push <= capacity
    BY <1>c, <2>3, ChannelBytes
  <2>9. WholeChannel'
    BY <1>c, <2>1, <2>4, <2>6, <2>8 DEF WholeChannel, Free, RingBlock, PushBlock, Ring, Push
  <2> QED BY <1>c, <2>1, <2>7, <2>9
<1>8. CASE RefuseChannel
  <2>1. pc' = "bind" /\ channel' = {} /\ UNCHANGED <<heap, capacity>>
    BY <1>8 DEF RefuseChannel
  <2>2. CASE pc = "ring" /\ ~ HasRoom(RingBytes)
    <3>1. capacity < Ring
      BY <1>c, <2>2, ChannelBytes DEF HasRoom, Fits, NothingTaken, Free, Ring
    <3> QED BY <2>1, <2>2, <3>1 DEF NothingTaken, Free, heap
  <2>3. CASE pc = "push" /\ ~ HasRoom(PushBytes)
    <3>1. capacity < Ring + Push
      BY <1>c, <2>3, ChannelBytes DEF HasRoom, Fits, OnlyRing, Free, Push
    <3> QED BY <2>1, <2>3, <3>1 DEF OnlyRing, RingLost, Free, heap
  <2> QED BY <1>8, <2>2, <2>3 DEF RefuseChannel
<1>9. CASE HandlerRest
  BY <1>1, <1>9, HandlerRestLeaves DEF setup
<1>10. CASE TimerRest
  BY <1>1, <1>10, TimerRestLeaves DEF setup
<1>11. CASE UNCHANGED vars
  BY <1>1, <1>11 DEF vars, setup
<1> QED
  BY <1>2, <1>3, <1>4, <1>5, <1>6, <1>7, <1>8, <1>9, <1>10, <1>11, StepKinds DEF InitRest

LEMMA BindNext == BindInv /\ [Next]_vars => BindInv'
<1> SUFFICES ASSUME BindInv, [Next]_vars PROVE BindInv'
  OBVIOUS
<1> USE DEF BindInv
<1>f. ASSUME pci' = pci PROVE Family' = Family
  BY <1>f DEF Family
<1>1. ASSUME UNCHANGED <<setup, fifoEn>>, pc' \notin {"ring", "push", "bind", "enable", "return", "ready"}
      PROVE  BindInv'
  BY <1>1 DEF setup
<1>2. CASE Scan
  BY <1>1, <1>2, ScanMoves DEF Scan, Scanning
<1>3. CASE BusError
  BY <1>1, <1>3 DEF BusError, RaiseStatus, Scanning
<1>4. CASE InitRest
  <2>1. pci' = pci
    BY <1>4, InitRestLeaves DEF scan
  <2>2. Family' = Family
    BY <1>f, <2>1
  <2>3. ASSUME DisableInterrupts \/ DetectVram \/ ClearFifo \/ EnableFifo \/ AllocateRing
               \/ AllocatePush \/ RefuseChannel
        PROVE  BindInv'
    BY <2>3 DEF DisableInterrupts, DetectVram, ClearFifo, EnableFifo, AllocateRing, AllocatePush,
                RefuseChannel, setup
  <2>4. CASE Bind
    <3>1. /\ pc = "bind" /\ pc' = "enable" /\ UNCHANGED <<channel, fifoEn>>
          /\ compute_ready' = (~ NeedsGsp(Family) /\ channel # {})
          /\ bound' = IF compute_ready' THEN compute_class_for_family(Family) ELSE 0
      BY <2>4 DEF Bind
    <3>2. compute_ready' => bound' = compute_class_for_family(Family')
      BY <2>2, <3>1
    <3>3. compute_ready' <=> ~ NeedsGsp(Family') /\ channel' # {}
      BY <2>2, <3>1
    <3>4. compute_ready' \in BOOLEAN
      BY <3>1
    <3> QED BY <3>1, <3>2, <3>3, <3>4
  <2>5. CASE EnableInterrupts \/ ReturnDevice
    BY <2>2, <2>5 DEF EnableInterrupts, ReturnDevice, setup
  <2> QED BY <1>4, <2>3, <2>4, <2>5 DEF InitRest
<1>5. ASSUME UNCHANGED <<pc, scan, setup, fifoEn>> PROVE BindInv'
  BY <1>f, <1>5 DEF setup, scan
<1>6. CASE HandlerRest
  BY <1>5, <1>6, HandlerRestLeaves
<1>7. CASE TimerRest
  BY <1>5, <1>7, TimerRestLeaves
<1>8. CASE UNCHANGED vars
  BY <1>5, <1>8 DEF vars
<1> QED BY <1>2, <1>3, <1>4, <1>6, <1>7, <1>8, StepKinds

LEMMA HeapInvariant == Spec => [](HeapInv /\ BindInv)
BY HeapInit, HeapNext, BindNext, PTL DEF Spec

(* Device.ReadyMeansUsable: what compute_ready promises, for any VRAM and  *)
(* any sizes of the ring and of the push buffer.                           *)
THEOREM ReadyIsUsable == Spec => []ReadyMeansUsable
<1>1. ScanInv /\ HeapInv /\ BindInv => ReadyMeansUsable
  <2> SUFFICES ASSUME ScanInv, HeapInv, BindInv, pc = "ready" PROVE ReadyMeansUsable
    BY DEF ReadyMeansUsable
  <2> DEFINE need == AlignUp(RingBytes) + AlignUp(PushBytes)
             taken == capacity - freeRegion.size
             Within(b) == Reserved <= b.phys_addr /\ b.phys_addr + b.size <= Reserved + taken
             Apart == \A a, b \in channel : a # b => DisjointVram(a, b)
  <2>n. capacity \in Nat /\ Ring \in Nat /\ Push \in Nat \ {0} /\ Reserved \in Nat
    BY ChannelBytes DEF HeapInv
  <2>f. fifoEn /\ compute_ready \in BOOLEAN
    BY DEF BindInv
  <2>d. \A d \in pci : {"memory", "master"} \subseteq config[d.slot].command
    <3>1. {"memory", "master"} \subseteq config[slot].command
      BY DEF ScanInv, CommandKept, Scanning
    <3> QED BY <3>1 DEF ScanInv, DeviceKnown, Found, NoGpuYet
  <2>r. compute_ready <=> ~ NeedsGsp(Family) /\ channel # {}
    BY DEF BindInv
  <2>b. compute_ready => bound = compute_class_for_family(Family)
    BY DEF BindInv
  <2>1. CASE channel = {}
    <3>1. taken \in {0, Ring} /\ capacity < Ring + Push
      BY <2>1, <2>n DEF HeapInv, NothingTaken, RingLost, WholeChannel, Free
    <3>2. ~ compute_ready
      BY <2>1, <2>r, <2>f
    <3> QED BY <2>1, <2>n, <3>1, <3>2 DEF ReadyMeansUsable, Ring, Push
  <2>2. CASE channel # {}
    <3>1. WholeChannel
      BY <2>2 DEF HeapInv, NothingTaken, RingLost
    <3>2. PICK va \in Nat, vb \in Nat : channel = {RingBlock(va), PushBlock(vb)}
      BY <3>1 DEF WholeChannel
    <3>3. /\ RingBlock(va).phys_addr = Reserved /\ RingBlock(va).size = Ring
          /\ PushBlock(vb).phys_addr = Reserved + Ring /\ PushBlock(vb).size = Push
      BY DEF RingBlock, PushBlock, Block
    <3>4. taken = Ring + Push /\ Ring + Push <= capacity
      BY <2>n, <3>1 DEF WholeChannel, Free
    <3>5. RingBlock(va) # PushBlock(vb)
      <4>1. CASE Ring = 0
        BY <2>n, <3>3, <4>1
      <4>2. CASE Ring # 0
        BY <2>n, <3>3, <4>2
      <4> QED BY <4>1, <4>2
    <3>6. Cardinality(channel) = 2
      <4> DEFINE x == RingBlock(va)
                 y == PushBlock(vb)
      <4>1. x # y /\ channel = {x, y}
        BY <3>2, <3>5
      <4> HIDE DEF x, y
      <4>2. Cardinality({x, y}) = 2
        BY <4>1, PairHasTwo
      <4> QED BY <4>1, <4>2
    <3>7. Apart
      <4>1. DisjointVram(RingBlock(va), PushBlock(vb)) /\ DisjointVram(PushBlock(vb), RingBlock(va))
        BY <2>n, <3>3 DEF DisjointVram
      <4> QED BY <3>2, <4>1
    <3>8. \A b \in channel : Within(b)
      BY <2>n, <3>2, <3>3, <3>4
    <3>9. taken = need /\ need <= capacity
      BY <3>4 DEF Ring, Push
    <3> HIDE DEF Within, Apart
    <3>10. compute_ready <=> ~ NeedsGsp(Family) /\ need <= capacity
      BY <2>2, <2>r, <3>9
    <3> HIDE DEF need, taken
    <3> QED BY <2>2, <2>b, <2>d, <2>f, <3>6, <3>7, <3>8, <3>9, <3>10
            DEF ReadyMeansUsable, Within, Apart, need, taken
  <2> QED BY <2>1, <2>2
<1> QED BY <1>1, BusInvariant, HeapInvariant, PTL

-----------------------------------------------------------------------------
(* What the registers of a device decode to is in range.                   *)
LEMMA DecodedTypes ==
  ASSUME NEW lo \in 0 .. Word32 - 1, NEW hi \in 0 .. Word32 - 1
  PROVE  decode_bar64(lo, hi) \in Nat /\ ProbedSize(lo) \in 0 .. Word32 - 1
<1>1. lo \in Nat /\ hi \in Nat /\ Word32 \in Nat \ {0}
  BY WordFacts
<1>2. Field(lo) \in 0 .. Word32 - 1
  <2>1. lo % 16 \in Nat /\ lo % 16 <= lo
    BY <1>1, ModFacts
  <2> DEFINE r == lo % 16
  <2>2. r \in Nat /\ r <= lo
    BY <2>1
  <2> HIDE DEF r
  <2>3. lo - r \in 0 .. Word32 - 1
    BY <1>1, <2>2
  <2> QED BY <2>3 DEF Field, r
<1>3. hi * Word32 \in Nat
  BY <1>1
<1> DEFINE a == Field(lo)
           b == hi * Word32
<1>4. a \in 0 .. Word32 - 1 /\ b \in Nat
  BY <1>2, <1>3
<1>5. decode_bar64(lo, hi) \in {b + a, a} /\ ProbedSize(lo) \in {0, Word32 - a}
      /\ (a = 0 => ProbedSize(lo) = 0)
  BY DEF decode_bar64, ProbedSize
<1> HIDE DEF a, b
<1>6. b + a \in Nat /\ a \in Nat /\ (a # 0 => Word32 - a \in 0 .. Word32 - 1)
      /\ 0 \in 0 .. Word32 - 1
  BY <1>1, <1>4
<1> QED BY <1>5, <1>6

LEMMA DeviceTypes ==
  ASSUME ScanInv, NEW d \in pci
  PROVE  d.base \in Seq(Nat) /\ d.size \in Seq(0 .. Word32 - 1)
<1> DEFINE f == bus[slot]
           S == 0 .. Word32 - 1
<1>1. pc \notin NoGpuYet /\ d = Found(f, NextProbe)
  BY DEF ScanInv, DeviceKnown
<1>2. AllLegal(f)
  BY <1>1, LegalBus DEF ScanInv, ScanTypes, FirstGpu
<1> HIDE DEF f
<1>3. \A k \in 0 .. 5 : Programmed(f, k) \in S
  BY <1>2, ProgrammedFacts
<1>4. \A k \in 0 .. 5 : Keep(f, k, Word32 - 1) \in S
  <2>1. Word32 - 1 \in 0 .. Word32 - 1
    BY WordFacts
  <2> QED BY <1>2, <2>1, KeepInRange
<1>5. \A k \in {0, 2, 4} :
        decode_bar64(Programmed(f, k), Programmed(f, k + 1)) \in Nat /\ SizeAt(f, k) \in S
  BY <1>3, <1>4, DecodedTypes DEF SizeAt
<1>6. 0 \in S
  BY WordFacts
<1> DEFINE b1 == decode_bar64(Programmed(f, 0), Programmed(f, 1))
           b2 == decode_bar64(Programmed(f, 2), Programmed(f, 3))
           b3 == IF Is64(Programmed(f, 0))
                 THEN decode_bar64(Programmed(f, 4), Programmed(f, 5)) ELSE 0
           s1 == IF 0 < NextProbe THEN SizeAt(f, 0) ELSE 0
           s2 == IF 2 < NextProbe THEN SizeAt(f, 2) ELSE 0
           s3 == IF 4 < NextProbe /\ Is64(Programmed(f, 0)) THEN SizeAt(f, 4) ELSE 0
<1>7. b1 \in Nat /\ b2 \in Nat /\ b3 \in Nat
  BY <1>5
<1> HIDE DEF S
<1>8. s1 \in S /\ s2 \in S /\ s3 \in S
  BY <1>5, <1>6
<1>9. d.base = <<b1, b2, b3>> /\ d.size = <<s1, s2, s3>>
  BY <1>1 DEF Found
<1> HIDE DEF b1, b2, b3, s1, s2, s3
<1>10. <<b1, b2, b3>> \in Seq(Nat) /\ <<s1, s2, s3>> \in Seq(S)
  BY <1>7, <1>8
<1> QED BY <1>9, <1>10 DEF S

(* The events and the engines that may raise them.                         *)
EventTypes == intrEn \subseteq AllEngines \cup Known /\ raised \subseteq DOMAIN Engines

LEMMA EventTypesNext == EventTypes /\ [Next]_vars => EventTypes'
<1> SUFFICES ASSUME EventTypes, [Next]_vars PROVE EventTypes'
  OBVIOUS
<1> USE DEF EventTypes, AllEngines
<1>1. CASE Scan
  BY <1>1 DEF Scan
<1>2. CASE BusError
  BY <1>2 DEF BusError
<1>3. CASE InitRest
  BY <1>3 DEF InitRest, DisableInterrupts, DetectVram, ClearFifo, EnableFifo, AllocateRing,
              AllocatePush, RefuseChannel, Bind, EnableInterrupts, ReturnDevice, Of
<1>4. CASE HandlerRest
  BY <1>4 DEF HandlerRest, ReadInterrupts, ClearInterrupt, Raise, Of
<1>5. CASE TimerRest
  BY <1>5, TimerRestLeaves
<1>6. CASE UNCHANGED vars
  BY <1>6 DEF vars
<1> QED BY <1>1, <1>2, <1>3, <1>4, <1>5, <1>6, StepKinds

LEMMA EventTypesInvariant == Spec => []EventTypes
<1>1. Init => EventTypes
  BY DEF Init, EventTypes
<1> QED BY <1>1, EventTypesNext, PTL DEF Spec

(* Type correctness: what init read and computed stays in range.           *)
THEOREM TypeCorrect == Spec => []TypeOK
<1>1. ScanInv /\ LineInv /\ HandlerInv /\ TimerInv /\ HeapInv /\ BindInv /\ EventTypes => TypeOK
  <2> SUFFICES ASSUME ScanInv, LineInv, HandlerInv, TimerInv, HeapInv, BindInv, EventTypes
               PROVE  TypeOK
    OBVIOUS
  <2>1. pc \in InitPcs /\ slot \in 1 .. Len(bus) + 1
    BY DEF LineInv, InitPcs, AfterScanPcs, Quiet, ScanInv, ScanTypes
  <2>2. \A i \in DOMAIN config :
          config[i].bars \in [0 .. 5 -> 0 .. Word32 - 1] /\ config[i].status \subseteq StatusBits
    BY DEF ScanInv, ScanTypes, Registers, Bars
  <2>3. \A d \in pci : d.base \in Seq(Nat) /\ d.size \in Seq(0 .. Word32 - 1)
    BY DeviceTypes
  <2>4. freeRegion \in [start : Nat, size : 0 .. capacity] /\ nextVa \in 0 .. Word - 1
    <3>1. PICK taken \in Nat : taken <= capacity /\ Free(taken)
      <4>1. capacity \in Nat /\ Ring \in Nat /\ Push \in Nat
        BY ChannelBytes DEF HeapInv
      <4>2. Free(0) \/ (Ring <= capacity /\ Free(Ring)) \/ (Ring + Push <= capacity /\ Free(Ring + Push))
        BY DEF HeapInv, NothingTaken, OnlyRing, RingLost, WholeChannel
      <4>3. 0 \in Nat /\ 0 <= capacity /\ Ring + Push \in Nat
        BY <4>1
      <4> QED BY <4>1, <4>2, <4>3
    <3>2. Reserved + taken \in Nat /\ capacity - taken \in 0 .. capacity
      BY <3>1, ChannelBytes DEF HeapInv
    <3> QED BY <3>1, <3>2 DEF Free, HeapInv
  <2>5. timer.clock \in 0 .. MaxClock
    BY DEF TimerInv, Timers
  <2> QED BY <2>1, <2>2, <2>3, <2>4, <2>5
          DEF TypeOK, EventTypes, BindInv, HandlerInv
<1> QED
  BY <1>1, BusInvariant, LineInvariant, HandlerInvariant, TimerInvariant, HeapInvariant,
     EventTypesInvariant, PTL
=============================================================================
