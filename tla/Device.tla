------------------------------- MODULE Device -------------------------------
(***************************************************************************)
(* GpuDevice of src/src/driver.rs: init from the scan of the bus to the    *)
(* interrupts being on, with init_fifo, Channel::allocate, bind_to_channel *)
(* and the interrupt registers of src/src/mmio.rs; then handle_interrupt,  *)
(* and the timer that status reads, next to hardware that raises events    *)
(* and a clock that runs.                                                  *)
(*                                                                         *)
(* handle_interrupt is entered when the line of the GPU is asserted, or    *)
(* for nothing, since a line may be shared; it is not entered twice at a   *)
(* time.  Mapping the BARs and loading firmware are TODOs of the code, and *)
(* the topology is only read and logged.                                   *)
(***************************************************************************)
EXTENDS PciConfig, VramCalls

CONSTANTS
  Engines,    \* of each event that hardware may raise: its engine
  RingBytes,  \* bytes of a GPFIFO ring (8 KiB)
  PushBytes,  \* bytes of a push buffer (256 KiB)
  LoSpan,     \* number of values of the low half of the timer (2^32)
  MaxClock    \* bound: the time that passes while the timer is read

(* A push buffer holds at least SET_OBJECT and its class, and its size     *)
(* can be rounded up; time passes until the low half has overflowed.       *)
ASSUME DeviceAssumption ==
  /\ RingBytes \in Nat /\ PushBytes \in Nat /\ 8 <= PushBytes
  /\ PushBytes + PageSize <= Word
  /\ LoSpan \in Nat \ {0} /\ MaxClock \in Nat /\ LoSpan <= MaxClock

VARIABLES
  capacity,       \* bytes of VRAM that could be granted when init found it
  channel,        \* {} or the blocks of the channel
  bound,          \* the class SET_OBJECT gave the channel, or 0
  compute_ready,
  intrEn,         \* NV_PMC_INTR_EN_0
  fifoEn,         \* whether NV_PFIFO_INTR_EN_0 lets the events of PFIFO pass
  raised,         \* events pending in the registers of the engines
  noticed,        \* engines that the call of handle_interrupt found pending
  todo,           \* those it has still to acknowledge
  timer           \* a call of read_timer_ns

setup   == <<heap, capacity, channel, bound, compute_ready>>
handler == <<noticed, todo>>
vars    == <<pc, scan, setup, intrEn, fifoEn, raised, handler, timer>>

-----------------------------------------------------------------------------
(* The interrupt registers.  Only PFIFO has its events enabled here; those *)
(* of the other engines are taken to pass.                                 *)
AllEngines == {Engines[e] : e \in DOMAIN Engines}

Known == {"PFIFO", "PGRAPH", "PTIMER"}

Of(engine) == {e \in raised : Engines[e] = engine}

PmcIntr == {g \in AllEngines : Of(g) # {} /\ (g = "PFIFO" => fifoEn)}

Line == PmcIntr \cap intrEn # {}

-----------------------------------------------------------------------------
NeedsGsp(family) == family \in {"Turing", "Ampere", "Ada"}

compute_class_for_family(family) ==
  CASE family = "Kepler"  -> \hA0C0 [] family = "Maxwell" -> \hB0C0
    [] family = "Pascal"  -> \hC0C0 [] family = "Volta"   -> \hC3C0
    [] family = "Turing"  -> \hC5C0 [] family \in {"Ampere", "Unknown"} -> \hC6C0
    [] family = "Ada"     -> \hC9C0

Family == (CHOOSE d \in pci : TRUE).family

Idle == [at |-> "idle", clock |-> 0, from |-> 0, hi |-> 0, lo |-> 0]

Init ==
  /\ ScanInit
  /\ freeRegion = [start |-> Reserved, size |-> 0] /\ nextVa = VaBase /\ capacity = 0
  /\ channel = {} /\ bound = 0 /\ compute_ready = FALSE
  /\ intrEn \in {{}, AllEngines} /\ fifoEn \in BOOLEAN
  /\ raised = {} /\ noticed = {} /\ todo = << >>
  /\ timer = Idle

Scan ==
  /\ ScanStep
  /\ UNCHANGED <<setup, intrEn, fifoEn, raised, handler, timer>>

BusError ==
  /\ \E b \in StatusBits : RaiseStatus(b)
  /\ UNCHANGED <<setup, intrEn, fifoEn, raised, handler, timer>>

DisableInterrupts ==
  /\ pc = "found" /\ pc' = "vram"
  /\ intrEn' = {}
  /\ UNCHANGED <<scan, setup, fifoEn, raised, handler, timer>>

DetectVram ==
  /\ pc = "vram" /\ pc' = "clear_fifo"
  /\ \E reg \in VramSizeRegs : capacity' = CapacityOf(DecodeVramSize(reg))
  /\ freeRegion' = [start |-> Reserved, size |-> capacity'] /\ nextVa' = VaBase
  /\ UNCHANGED <<scan, channel, bound, compute_ready, intrEn, fifoEn, raised, handler, timer>>

(* init_fifo *)
ClearFifo ==
  /\ pc = "clear_fifo" /\ pc' = "enable_fifo"
  /\ raised' = raised \ Of("PFIFO")
  /\ UNCHANGED <<scan, setup, intrEn, fifoEn, handler, timer>>

EnableFifo ==
  /\ pc = "enable_fifo" /\ pc' = "ring"
  /\ fifoEn' = TRUE
  /\ UNCHANGED <<scan, setup, intrEn, raised, handler, timer>>

(* Channel::allocate: the ring, then the push buffer; the ring is dropped  *)
(* when there is no push buffer.                                           *)
AllocateRing ==
  /\ pc = "ring" /\ pc' = "push"
  /\ Allocate(RingBytes) /\ channel' = {NewBlock(RingBytes)}
  /\ UNCHANGED <<scan, capacity, bound, compute_ready, intrEn, fifoEn, raised, handler, timer>>

AllocatePush ==
  /\ pc = "push" /\ pc' = "bind"
  /\ Allocate(PushBytes) /\ channel' = channel \cup {NewBlock(PushBytes)}
  /\ UNCHANGED <<scan, capacity, bound, compute_ready, intrEn, fifoEn, raised, handler, timer>>

RefuseChannel_RingOnly ==
  /\ pc = "ring" /\ ~ HasRoom(RingBytes)
  /\ pc' = "bind" /\ channel' = {}
  /\ UNCHANGED <<scan, heap, capacity, bound, compute_ready, intrEn, fifoEn, raised, handler,
                 timer>>

RefuseChannel ==
  /\ \/ pc = "ring" /\ ~ HasRoom(RingBytes)
     \/ pc = "push" /\ ~ HasRoom(PushBytes)
  /\ pc' = "bind" /\ channel' = {}
  /\ UNCHANGED <<scan, heap, capacity, bound, compute_ready, intrEn, fifoEn, raised, handler,
                 timer>>

(* compute_ready, and bind_to_channel when it holds: the first submission  *)
(* to an empty push buffer, whose result is dropped.                       *)
Bind_AnyChannel ==
  /\ pc = "bind" /\ pc' = "enable"
  /\ compute_ready' = ~ NeedsGsp(Family)
  /\ bound' = IF compute_ready' THEN compute_class_for_family(Family) ELSE 0
  /\ UNCHANGED <<scan, heap, capacity, channel, intrEn, fifoEn, raised, handler, timer>>

Bind ==
  /\ pc = "bind" /\ pc' = "enable"
  /\ compute_ready' = (~ NeedsGsp(Family) /\ channel # {})
  /\ bound' = IF compute_ready' THEN compute_class_for_family(Family) ELSE 0
  /\ UNCHANGED <<scan, heap, capacity, channel, intrEn, fifoEn, raised, handler, timer>>

EnableInterrupts_All ==
  /\ pc = "enable" /\ pc' = "return"
  /\ intrEn' = AllEngines
  /\ UNCHANGED <<scan, setup, fifoEn, raised, handler, timer>>

EnableInterrupts_NoTimer ==
  /\ pc = "enable" /\ pc' = "return"
  /\ intrEn' = Known \ {"PTIMER"}
  /\ UNCHANGED <<scan, setup, fifoEn, raised, handler, timer>>

EnableInterrupts ==
  /\ pc = "enable" /\ pc' = "return"
  /\ intrEn' = Known
  /\ UNCHANGED <<scan, setup, fifoEn, raised, handler, timer>>

(* The interrupts are on before the device is built and returned; until    *)
(* then there is none to call handle_interrupt of.                         *)
ReturnDevice ==
  /\ pc = "return" /\ pc' = "ready"
  /\ UNCHANGED <<scan, setup, intrEn, fifoEn, raised, handler, timer>>

-----------------------------------------------------------------------------
(* handle_interrupt: one read of NV_PMC_INTR_0, then a write of ones to    *)
(* the register of each engine that it named.                              *)
IfPending(g) == IF g \in PmcIntr THEN <<g>> ELSE << >>

ReadInterrupts_All ==
  /\ pc = "ready" /\ todo = << >>
  /\ noticed' = PmcIntr \cap Known
  /\ todo' = <<"PFIFO", "PGRAPH", "PTIMER">>
  /\ UNCHANGED <<pc, scan, setup, intrEn, fifoEn, raised, timer>>

ReadInterrupts ==
  /\ pc = "ready" /\ todo = << >>
  /\ noticed' = PmcIntr \cap Known
  /\ todo' = IfPending("PFIFO") \o IfPending("PGRAPH") \o IfPending("PTIMER")
  /\ UNCHANGED <<pc, scan, setup, intrEn, fifoEn, raised, timer>>

ClearInterrupt ==
  /\ todo # << >>
  /\ raised' = raised \ Of(Head(todo))
  /\ todo' = Tail(todo)
  /\ noticed' = IF Len(todo) = 1 THEN {} ELSE noticed
  /\ UNCHANGED <<pc, scan, setup, intrEn, fifoEn, timer>>

(* Hardware raises an event. *)
Raise(e) ==
  /\ raised' = raised \cup {e}
  /\ UNCHANGED <<pc, scan, setup, intrEn, fifoEn, handler, timer>>

-----------------------------------------------------------------------------
(* read_timer_ns: the high half, the low half, the high half again.  The   *)
(* clock counts from the value of the high half at the first read, with    *)
(* the low half anywhere in its range.                                     *)
ReadHigh ==
  /\ pc = "ready" /\ timer.at = "idle"
  /\ \E now \in 0 .. LoSpan - 1 :
       timer' = [timer EXCEPT !.at = "high", !.clock = now, !.from = now, !.hi = 0]
  /\ UNCHANGED <<pc, scan, setup, intrEn, fifoEn, raised, handler>>

ReadLow ==
  /\ timer.at = "high"
  /\ timer' = [timer EXCEPT !.at = "low", !.lo = timer.clock % LoSpan]
  /\ UNCHANGED <<pc, scan, setup, intrEn, fifoEn, raised, handler>>

ReadHighAgain_Unchecked ==
  /\ timer.at = "low"
  /\ timer' = [timer EXCEPT !.at = "done"]
  /\ UNCHANGED <<pc, scan, setup, intrEn, fifoEn, raised, handler>>

(* Another round, whose first read is a new one, when the halves disagree. *)
ReadHighAgain ==
  /\ timer.at = "low"
  /\ timer' = [timer EXCEPT !.at = IF timer.hi = timer.clock \div LoSpan THEN "done" ELSE "again"]
  /\ UNCHANGED <<pc, scan, setup, intrEn, fifoEn, raised, handler>>

ReadHighAnew ==
  /\ timer.at = "again"
  /\ timer' = [timer EXCEPT !.at = "high", !.hi = timer.clock \div LoSpan]
  /\ UNCHANGED <<pc, scan, setup, intrEn, fifoEn, raised, handler>>

ReturnTime ==
  /\ timer.at = "done" /\ timer' = Idle
  /\ UNCHANGED <<pc, scan, setup, intrEn, fifoEn, raised, handler>>

Tick ==
  /\ timer.at # "idle" /\ timer.clock < MaxClock
  /\ timer' = [timer EXCEPT !.clock = @ + 1]
  /\ UNCHANGED <<pc, scan, setup, intrEn, fifoEn, raised, handler>>

-----------------------------------------------------------------------------
InitStep ==
  \/ Scan \/ DisableInterrupts \/ DetectVram \/ ClearFifo \/ EnableFifo
  \/ AllocateRing \/ AllocatePush \/ RefuseChannel \/ Bind \/ EnableInterrupts
  \/ ReturnDevice

HandlerStep == (Line /\ ReadInterrupts) \/ ClearInterrupt

TimerStep == ReadLow \/ ReadHighAgain \/ ReadHighAnew \/ ReturnTime

Next ==
  \/ InitStep \/ BusError
  \/ ReadInterrupts \/ ClearInterrupt \/ \E e \in DOMAIN Engines : Raise(e)
  \/ ReadHigh \/ TimerStep \/ Tick

Spec == Init /\ [][Next]_vars

(* init runs on; the kernel calls the handler while the line is asserted,  *)
(* and lets it finish.                                                     *)
FairSpec == Spec /\ WF_vars(InitStep) /\ WF_vars(HandlerStep) /\ WF_vars(TimerStep)

-----------------------------------------------------------------------------
InitPcs == Scanning \cup
  {"none", "found", "vram", "clear_fifo", "enable_fifo", "ring", "push", "bind", "enable",
   "return", "ready"}

(* From the time init has disabled interrupts and found the VRAM.          *)
Running ==
  pc \in {"clear_fifo", "enable_fifo", "ring", "push", "bind", "enable", "return", "ready"}

InterruptsOn == pc \in {"return", "ready"}

(* Every variable has its type; addresses stay in VRAM.                    *)
TypeOK ==
  /\ pc \in InitPcs /\ slot \in 1 .. Len(bus) + 1
  /\ \A i \in DOMAIN config :
       config[i].bars \in [0 .. 5 -> 0 .. Word32 - 1] /\ config[i].status \subseteq StatusBits
  /\ \A d \in pci : d.base \in Seq(Nat) /\ d.size \in Seq(0 .. Word32 - 1)
  /\ freeRegion \in [start : Nat, size : 0 .. capacity] /\ nextVa \in 0 .. Word - 1
  /\ intrEn \subseteq AllEngines \cup Known /\ fifoEn \in BOOLEAN /\ compute_ready \in BOOLEAN
  /\ raised \subseteq DOMAIN Engines /\ noticed \subseteq Known /\ todo \in Seq(Known)
  /\ timer.clock \in 0 .. MaxClock

(* scan_for_nvidia_gpu writes to no function but the first GPU, of which   *)
(* it leaves every BAR as it was, but for the one being probed: a GPU that *)
(* is mapped answers where it did before.                                  *)
BusAsFound ==
  \A i \in DOMAIN bus :
    /\ \A k \in 0 .. 5 :
         config[i].bars[k] = Programmed(bus[i], k) \/ (pc = "restore" /\ i = slot /\ k = Head(probes))
    /\ \/ config[i].command = bus[i].command
       \/ \A j \in 1 .. i : j = i <=> bus[j].vendor = \h10DE /\ bus[j].class \in {\h03, \h12}

(* decode_bar64 and probe_bar_size: BAR0 is the region of the registers,   *)
(* wherever it lies and however large; when it takes two registers so are  *)
(* the next two.  Each has the base it has on the bus, its size if that is *)
(* below 4 GiB (see SizesFound), and zero for both if it is missing.  (A   *)
(* region that begins at BAR3 and goes on in BAR4 would be read as one     *)
(* that begins there.)                                                     *)
RegionsFound ==
  \A d \in pci :
    LET f == bus[d.slot]
        wide == f.regions[0].is64
        Region(n) == f.regions[2 * (n - 1)]
    IN pc \notin Scanning =>
         \A n \in IF wide THEN 1 .. 3 ELSE {1} :
           IF 2 * (n - 1) \in DOMAIN f.regions
           THEN /\ d.base[n] = Region(n).base
                /\ Region(n).size < Word32 => d.size[n] = Region(n).size
           ELSE IsHigh(f, 2 * (n - 1)) \/ (d.base[n] = 0 /\ d.size[n] = 0)

(* pci_config_write16: an error bit disappears only by the write of        *)
(* COMMAND, and only when it was set before that write's own read.         *)
StatusKept ==
  [][\A i \in DOMAIN config :
       config[i].status \ config'[i].status # {} =>
         pc = "write" /\ i = slot /\ config[i].status \ config'[i].status \subseteq seen.status]_vars

(* disable_interrupts and enable_interrupts: between the two nothing that  *)
(* hardware raises asserts the line, whatever was enabled at power on; and *)
(* once they are on, which is before there is a device to hand an          *)
(* interrupt to, the line is asserted only for engines that                *)
(* handle_interrupt acknowledges when it can be called - an event of       *)
(* another would keep it asserted for ever.                                *)
LineServable ==
  /\ Running /\ ~ InterruptsOn => ~ Line
  /\ InterruptsOn /\ Line => \E g \in Known : Of(g) # {}

(* No event is dropped without its engine having been noticed: it goes by  *)
(* init_fifo, which clears the events of PFIFO, or in a call of            *)
(* handle_interrupt that found its engine pending.  (An event that is      *)
(* raised between that call's read and its write goes with the others.)    *)
EventsKept ==
  [][\A e \in raised \ raised' :
       Engines[e] \in noticed \/ (pc = "clear_fifo" /\ Engines[e] = "PFIFO")]_vars

(* init: compute_ready says that the family needs no firmware and that the *)
(* channel has both its blocks, apart in the VRAM that was found, has the  *)
(* class of the family bound, and that the GPU may reach memory and raise  *)
(* the events of PFIFO; when it is false one of the two is missing.  VRAM  *)
(* taken is the channel's, or that of a ring whose push buffer was refused.*)
ReadyMeansUsable ==
  pc = "ready" =>
    LET need == AlignUp(RingBytes) + AlignUp(PushBytes)
        taken == capacity - freeRegion.size
    IN /\ compute_ready <=> ~ NeedsGsp(Family) /\ need <= capacity
       /\ compute_ready =>
            /\ Cardinality(channel) = 2 /\ bound = compute_class_for_family(Family)
            /\ \A a, b \in channel : a # b => DisjointVram(a, b)
            /\ \A d \in pci : {"memory", "master"} \subseteq config[d.slot].command
            /\ fifoEn
       /\ IF channel # {} THEN taken = need ELSE taken \in {0, AlignUp(RingBytes)}
       /\ \A b \in channel : Reserved <= b.phys_addr /\ b.phys_addr + b.size <= Reserved + taken

(* read_timer_ns: the time returned is one the timer showed during the     *)
(* call, also when the low half overflows between two of the reads.        *)
TimerHonest ==
  timer.at = "done" => (timer.hi * LoSpan) + timer.lo \in timer.from .. timer.clock

(* handle_interrupt: an event of an engine that is enabled, also one that  *)
(* was raised before init had the interrupts on, or after that and before  *)
(* the device was returned, is acknowledged.                               *)
InterruptServed ==
  \A e \in {x \in DOMAIN Engines : Engines[x] \in Known} :
    Running /\ e \in raised ~> e \notin raised

(* init returns, with a device or without, and status gets its time.       *)
InitReturns == <>(pc \in {"none", "ready"}) /\ [](timer.at # "idle" => <>(timer.at = "idle"))

-----------------------------------------------------------------------------
(* src/src/pci_config.rs:339 of the VRAM aperture: it is in BAR1, or in    *)
(* BAR2 and BAR3 if BAR0 takes two registers.                              *)
ApertureFound ==
  \A d \in pci :
    LET f == bus[d.slot]
        k == IF f.regions[0].is64 THEN 2 ELSE 1
    IN k \in DOMAIN f.regions => d.base[2] = f.regions[k].base

(* src/src/pci_config.rs:267 of probe_bar_size: the size of every region   *)
(* of the device is determined.                                            *)
SizesFound ==
  \A d \in pci :
    LET f == bus[d.slot]
    IN pc \notin Scanning =>
         \A n \in IF f.regions[0].is64 THEN 1 .. 3 ELSE {1} :
           2 * (n - 1) \in DOMAIN f.regions => d.size[n] = f.regions[2 * (n - 1)].size
=============================================================================
