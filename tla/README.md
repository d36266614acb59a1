# Verification of gpu-compute-nostd

TLA+ models, TLC runs and TLAPS proofs for `gpu-compute-nostd`, a bare-metal
(`no_std`) Rust driver for NVIDIA GPUs. Paths below are relative to the
repository; `memory.rs` stands for `src/src/memory.rs` and so on.
`PROJECT.json` holds the same facts for tools: components, runs, the lines each
definition models, hazards, theorems, and a wrong variant of the code ("mutant")
for every property, which TLC must reject.

## The system

The driver finds a GPU on the PCI bus, maps its registers, boots its
microcontrollers, manages its memory and gives it work. It has no scheduler or
thread of its own: its concurrency is that of its callers, who share one
`GpuDevice` (the methods of the allocator and of the channel take `&self` and
keep their state in spin locks and atomics), and that of the hardware, which
raises interrupts, runs firmware and fetches commands between any two accesses
of the host. Nothing is persisted. The release build wraps on integer overflow,
and the models do so too. The repository has no tests.

| component | state | operations | talks to |
|---|---|---|---|
| VRAM allocator, `memory.rs` | free list and `next_gpu_va`, each under a mutex; size of VRAM; BAR1 base and size | `detect_and_init`, `allocate`, `free` (changes nothing), `map_to_cpu`, `map_system_memory` | called by channel, runlist, compute, tensors |
| Channel, `fifo.rs` | `push_offset`, `gpfifo_put` (atomics), ring and push buffer in VRAM, doorbell | `allocate`, `submit`, `reset_push_buffer` | allocates VRAM; the GPU fetches what the doorbell announces |
| Runlist, `fifo.rs` | channel ids, current block | `add_channel`, `remove_channel`, `commit` | allocates VRAM |
| Falcon, `falcon.rs` | none on the host; IMEM, DMEM, their write pointers, `CPUCTL`, `FALCON_OS`, interrupt bits on the device | `halt`, `upload_imem`, `upload_dmem`, `boot`, `wait_ready`, `clear_interrupts`, `init_with_firmware`, mailboxes | the firmware |
| Compute engine, `compute.rs` | `next_fence_value`; a fence's semaphore in VRAM | `bind_to_channel`, `load_shader`, `build_dispatch_commands`, `dispatch`, `GpuFence` | allocator, channel |
| Tensor engine, `tensor.rs` | `total_allocated`, `tensor_count` | `allocate_tensor`, `upload`, `download`, `free_tensor`, operations that validate shapes and return false | allocator |
| Registers, `mmio.rs` | none | 32- and 64-bit access, timer, `master_reset`, interrupt mask | the device |
| Device, `driver.rs` | owns all of the above, `compute_ready` | `init`, `handle_interrupt`, `query_info`, `status` | everything |
| PCI, `pci_config.rs` | configuration space of the bus | scan, BAR decoding and probing, command register, family table | the device |

What makes each correct, and what is hard to test about it:

* **Allocator.** Blocks of VRAM and GPU addresses never overlap although two
  locks guard them and one caller uses only the second; nothing is granted from
  the reserved area or past the end; `None` means that there was no room; CPU
  mappings stay in the aperture; no caller waits for ever.
* **Channel.** Commands that wait for the GPU are not written over; the GPU runs
  what was submitted, whole, once, in order. `submit` is a chain of separate
  atomic operations, and nothing looks at how far the GPU has got.
* **Falcon.** A boot runs one whole image; memory is not written under a running
  core; `true` means that the image is up; no interrupt is acknowledged unread.
* **Compute engine.** `true` from `dispatch(wait = true)` means that the kernel
  has run; partial failures (no VRAM for the fence) are reported; a long run of
  legal calls does not use everything up.
* **Tensors.** Every element has a place of its own in the tensor's block, a
  transfer that returns true has a window in the aperture for all of them, and the
  counters agree with what is alive after any sequence of calls.
* **Runlist.** What the GPU is told is what the list holds, in a block that stays
  the runlist's also when a later `commit` does nothing.
* **Device, registers.** Interrupts are off until the engines are set up, the line
  is asserted only for what the handler can acknowledge, one that comes before there
  is a device is not lost, and none is dropped unnoticed; the timer is read whole;
  `compute_ready` tells the truth.
* **PCI.** The scan configures the first GPU and nothing else, finds where its
  regions are, and leaves the device as it found it, apart from the bits it enables.

`PROJECT.json` lists the hazards one by one, at their lines, with the properties
that cover each. Where no property does, because an assumption or a duty of the
caller excludes the case, it says so.

Much of the code is a skeleton around TODOs, and the models go as far as the code
does. What is not there yet, and therefore not checked: the copy of the command words
into the push buffer (`fifo.rs:211-217`) and of the entry into the ring (225-226), so
that the models give the GPU what `submit` was given; the copy of a tensor's data
(`tensor.rs:251-265`, 300-314: `upload` and `download` return true and move nothing,
although their docs at 226 and 278 say that they do); the entries and registers of a
runlist (`fifo.rs:313-322`); the clearing and the read of a fence
(`compute.rs:193`, 214); the mapping of the BARs and the loading of firmware.

## Modules

How they compose: `Vram` holds the allocator's arithmetic. `VramAllocator` has its
locks and is shown to implement one-step calls; `VramCalls` is those one-step calls
on the same variables, which `Tensors`, `Runlist` and `Device` share. `VramClients`
runs tensors and a runlist over one allocator; `Device` runs the start of the
device over `PciConfig` and the allocator.

### Allocator: `Vram`, `VramHeap`, `VramAllocator`, `MCVramAllocator`

`VramAllocator` follows `memory.rs` from one lock operation to the next. A call
of `allocate` is `BeginAllocate` (line 282), `LockFreeList` (289), `TakeRegion`
(292-296) or `RefuseAllocate` (324-328), `LockNextVa` (299-300) and
`ReturnBlock` (301-320, which drops both guards). `map_system_memory` is
`BeginMapSystem`, `LockNextVa` and `ReturnMapping` (405-419). `pc[t]` says where
thread `t` is; `seen[t]` and `va[t]` are the values it has loaded. `free_list`
is a vector in the code, but nothing ever adds to it, so it is the one region
`freeRegion`. `MapToCpu` is one step: it changes only the block that its owner
holds by `&mut`. `free` only logs, so it has no action. `Init` is
`detect_and_init`, with every way the size register can decode.

`granted` (the blocks returned so far) and `issued` (the bytes of addresses
handed out) are history, which the code does not keep. `granted` lists mappings
of system memory as blocks of kind `dma`.

`VramHeap` is the promise: every call is one step. `VramAllocator!Implements`
instantiates it with `used` mapped to what has been cut from the region, less
what a call in flight has cut and not returned.

### Channel: `CommandQueue`, `Channel`, `MCChannel`

`Channel` follows `submit` from one atomic operation to the next: `LoadOffset`
or `RefuseFull` (194-202), `Reserve` (219), `BuildEntry` (222-226), `StorePut`
(228-229), `RingDoorbell` (236-238). The indices, the `u32` sum of line 195 and
the 40- and 23-bit fields of an entry keep their widths. The code leaves the
store of the entry into the ring as a TODO (225-226); `ring` holds the entry that
the code builds for each slot. `GpuFetch` is the GPU: it fetches from its own
index up to the index in the doorbell register. `ResetPushBuffer` is called the
way its comment asks (line 241): when the GPU has consumed everything, and with
no thread inside `submit`. Nothing in the repository calls it.

Two constants say what the callers do, because the code leaves it to them.
`Serialised`: they take turns. `Window`: they wait until fewer than `Window`
submissions are pending. With both (`Serialised /\ Window < Entries`)
`Channel!Implements` holds: `submit` is a one-step queue, `CommandQueue`. Without
either the channel loses commands, which the two violation runs show.

### Falcon: `Falcon`, `MCFalcon`

`Falcon` is `init_with_firmware` with one step per register access, next to the
device: IMEM and DMEM with write pointers that advance and wrap, a core that is
halted or running, `FALCON_OS` and the interrupt bits. `ComeUp` is the firmware:
if the memories hold the whole of an image that is able to run, it may write
`FALCON_OS`, which nothing in the code clears. `RaiseIrq` may happen at any time.
An image's length is given in words, with a flag that says if its length in bytes
is a multiple of four (lines 185 and 227). It may be zero or more than the memories
hold: the code checks no size (197-207). What lies past the end is the hardware's
business; here the write pointer starts over, and an image that does not fit (`Fits`)
does not come up. The entry point is always 0 here
(line 382). The code gives one offset to `IRQSCLR` and to `IRQMCLR` (line 43); the
write of `clear_interrupts` is taken for the first. Halting is taken to be immediate.
Two register accesses have no step of their own: the read back in
`halt`, which changes nothing and is not looked at, and the write of the boot
vector, which is the same at every boot.

### Compute engine: `KernelQueue`, `Dispatch`, `MCDispatch`

`Dispatch` composes what the two modules above promise: an allocation and a
submission are single steps, since `dispatch` takes `&mut self` and
`VramHeap` and `CommandQueue` are refined by the detailed modules. `Channel` refines
`CommandQueue` only while fewer submissions are pending than its ring has slots,
and `submit` does not check that; so `Dispatch` asks it of the callers, as `Channel`
does: `Call` waits until fewer than `Window` entries are `Pending`, and `Window <
Entries` is an assumption. (About 2978 dispatches fit the push buffer, but 1024
entries the ring: without the assumption nothing below would hold for that many
calls, as `channel_overrun` shows.) `Commands` is
`build_dispatch_commands`, method for method: the halves of addresses, the binding
word of a constant buffer, and the release of the fence behind the launch. The
actions are `BindToChannel` (279-296), `LoadShader` (308-344), `CallNoWait`,
`CallWait` and `CallWaitNoFence` (454-462: the fence value is spent before the
allocation, which may fail), `Submit` and `SubmitRefused` (464-483), `Poll` and
`WaitTimeout` (221-240). The memory of a new fence is not cleared (a TODO, line 193),
so `CallWait` chooses whether it holds the fence's value from the start; `stale` keeps
the fences of which it did. `OtherAllocate` is any other user of the allocator.
`ResetPushBuffer` is as in `Channel`. What is submitted is words: a
header from `gpu_method_1` with the method's offset (`fifo.rs:53-60`,
`compute.rs:70-114`) and its data. `GpuMethod` takes a header apart, stops at one it
does not know, and carries the method out: registers
keep their values, so a kernel is launched with whatever the methods before left.
`is_signaled` does not read the semaphore (a TODO, line 214) and returns false, so
`wait` has no step that returns true: with a fence it always times out.

`KernelQueue` is the promise: every accepted kernel is launched once, in order,
with its own class, program, dimensions and constant buffers, and a fence is
signalled only for a launched kernel.

### Clients of the allocator: `VramCalls`, `Tensors`, `Runlist`, `VramClients`, `MCVramClients`

`Tensors` is the tensor engine: `AllocateTensor` and `RefuseTensor`
(`tensor.rs:186-224`), `Upload` and `Download` (229-324), `FreeTensor` (327-336).
Shapes, strides and sizes are computed as the code does, from the last dimension
and modulo `Word`. `Upload` and `Download` take a slice of the right length or of
another; what they change is the CPU mapping of the tensor's block. The copy is a
TODO of the code (251, 300), so `transfer` keeps what the call promised: the
length, the tensor and the result. `Runlist` is `add_channel`, `remove_channel` and
`commit` (`fifo.rs:267-337`); `committed` is the list that the block of the last
successful commit was made for. The entries are not written yet (a TODO).

### Start of the device: `PciConfig`, `Device`, `MCDevice`

`PciConfig` is `scan_for_nvidia_gpu`. A function of the bus is given by its vendor,
class, device id and regions; from the regions follows what its BARs read and keep
(`Keep`, by the PCI standard, since the code relies on it). Actions: `Skip`
(`pci_config.rs:294-322`), `ReadBars` (324-359), `ProbeOnes` and `ProbeRestore`
(268-285, for each BAR that is probed), `ReadCommand` (378-388), `MergeCommand` and
`WriteCommand` (the read and the write inside `pci_config_write16`, 247-253, between
which and before which hardware may set a bit of STATUS: `RaiseStatus`). The reads
of `ReadBars` are one step, since nothing else writes a BAR; the code does those of
BAR4 and BAR5 after two probes, which by then have restored theirs (`BusAsFound`).

`Device` goes on with `GpuDevice::init`: `DisableInterrupts` (`driver.rs:155`),
`DetectVram` (197), `ClearFifo` and `EnableFifo` (`fifo.rs:346-359`),
`AllocateRing`, `AllocatePush` and `RefuseChannel` (`fifo.rs:133-183`), `Bind`
(`driver.rs:225-232`), `EnableInterrupts` (238) and, since interrupts are on before the
device is built, `ReturnDevice` (242-253) as a step of its own. Then `handle_interrupt` is
`ReadInterrupts` and one `ClearInterrupt` per engine, and `read_timer_ns`, which
`status` calls, is `ReadHigh`, `ReadLow`, `ReadHighAgain`, `ReadHighAnew`,
`ReturnTime`. The hardware is `Raise`, `Tick` and the registers `PmcIntr` and
`Line`: an engine with an event pending shows in `NV_PMC_INTR_0` (PFIFO only when
its own enable register lets it), and the line is asserted for engines enabled in
`NV_PMC_INTR_EN_0`. `noticed` (the engines the current call found) is history.
Events of one engine are distinguished only by name, and a write of ones
acknowledges all that are pending: what is raised after the read goes with them.

### Proof modules

`VramAllocatorProofs`, `ChannelProofs`, `FalconProofs`, `PciConfigProofs`,
`DeviceProofs` (on top of `PciConfigProofs`), `VramClientsProofs` and
`DispatchProofs`, each about the module it is named for; `ModArithmetic` has what they
share: facts about `%` and `\div`, and induction.

Definitions named `<Action>_<Something>` are the mutants; no specification uses
them. Each stands before the definition it varies.

## Runs

| run | shows | bounds |
|---|---|---|
| `allocator_threads` | `TypeOK`, `BlocksDisjoint`, `VaDisjoint`, `ApertureSafe`, `Implements`, `EveryCallReturns` | 2 threads, 2 calls each, sizes 0, 1 and 4 with pages of 2 |
| `channel_in_turn` | `TypeOK`, `PendingDisjoint`, `Fifo`, `Implements`, `EverySubmissionRuns` | 2 threads, 3 calls each, 1 or 2 words, 3 slots, a buffer of 3 words |
| `channel_race` | violates `PendingDisjoint` | callers not serialised |
| `channel_overrun` | violates `Fifo` | 4 pending submissions, 3 slots |
| `falcon_first_boot` | `TypeOK`, `FirstBootHonest`, `WholeImage`, `CodeStable`, `NoIrqLost`, `InitReturns` | 2 boots, 6 images, memories of 3 words, 2 interrupt sources, 2 polls |
| `falcon_reboot` | violates `EveryBootHonest` | the same |
| `dispatch_kernels` | `TypeOK`, `FenceMeansDone`, `Implements`, `EveryKernelRuns`, `DispatchReturns` | 2 calls, up to 2 shaders, 2 jobs, 3 pages of VRAM, a push buffer of 60 words, a ring of 4 entries, 1 poll |
| `dispatch_no_fence` | violates `WaitMeansDone` | the same |
| `vram_clients` | `TypeOK`, `BlocksOwned`, `ElementsPlaced`, `TransferWindow`, `CountersHonest`, `RunlistHeld` | 6 requests, 2 tensors, 2 channels, pages of 4, `Word` 64, a bounded VRAM |
| `device_bring_up` | `TypeOK`, `BusAsFound`, `RegionsFound`, `LineServable`, `ReadyMeansUsable`, `TimerHonest`, `StatusKept`, `EventsKept`, `InterruptServed`, `InitReturns` | 4 buses, 3 sizes of VRAM, 4 events, 1 status bit, 2 ticks |
| `device_aperture` | violates `ApertureFound` | the same |
| `device_sizes` | violates `SizesFound` | the same |

Why the bounds suffice. *Allocator*: two threads are what it takes for a lock to
be contended, and the order of two calls per thread gives every interleaving of
an `allocate` with an `allocate` or a `map_system_memory` before and after. VRAM
sizes are the default, one that the requests exhaust, and one that leaves no
capacity; the aperture ends inside the VRAM, so a block may lie before, across or
behind its end; `Word` is so small that the addresses wrap. *Channel*: three
slots wrap twice in six submissions; the buffer of three words holds two pending
submissions only in some splits, so that both outcomes of line 195 happen at
every offset, and a reset is needed to go on. *Falcon*: the images are one that
fills IMEM and has data, a shorter one without, one that never comes up, one
of a bad length, one that is larger than both memories and one without code, in every
order of two; `MaxPolls` stands for 1,000,000.
*Dispatch*: two calls are what it takes for one kernel to find the registers of
another; the jobs differ in every register, and one binds constant buffers; 60
words hold some pairs of kernels and not others; VRAM can run out before the first
call, between the calls, or not at all; addresses reach past one word, so that both of
their halves count; fence values wrap; the memory of each fence may hold its value
from the start. Two calls are three entries at most, so that the `Window` of this run
never makes a caller wait: it is there for the theorems, which are about any number of
calls.
*Clients*: the requests are a matrix, an odd number of packed elements, a scalar, a
shape whose product wraps to zero, one whose rounding wraps, and one of packed elements
whose bytes fit while their number wraps; two live tensors
and a runlist exhaust the larger VRAM, so that blocks lie before, across and behind
the end of the aperture; tensors may be freed and allocated as long as VRAM lasts.
*Device*: the buses have a GPU behind other functions and before another GPU, wide
and narrow BARs, a region too large for the probe, and no GPU; families with and
without firmware; VRAM for nothing, for a ring only, and for a channel; the event
of an engine that the handler does not know; and enough ticks for the low half of
the timer to overflow between any two of its reads.

Bounds in the guards are `MaxCalls` (calls, per thread where there are several),
`MaxInits` (boots), `MaxShaders` (shaders loaded), `MaxTensors`, `MaxChannels` and
`MaxClock` (time that passes during a read of the timer).
Deadlock is checked in `vram_clients`, whose calls can always be made. Elsewhere it
is not, since a system whose callers have made all their calls
stops; `EveryCallReturns`, `EverySubmissionRuns`, `InitReturns`, `EveryKernelRuns`,
`DispatchReturns` and `InterruptServed` say that it stops nowhere else.

Fairness. Weak fairness of the steps of a call that has begun: a thread inside a
call is scheduled, and the code has no other wait than the two spin locks, which
their owner releases within a bounded number of its own steps. `GpuFetch` and
`GpuMethod` are weakly fair: a GPU whose doorbell was rung fetches, and carries on. `InitStep` and `TimerStep` are
code without a wait; the loop of `read_timer_ns` ends because the bounded clock
cannot overflow its low half for ever, as four seconds between two reads of the real
one would take. `HandlerStep` is weakly fair: the kernel calls the handler while the
line is asserted, and lets it finish. Nothing is assumed of callers
(they need not call), of the events and errors that hardware raises, or of a Falcon
(it need not come up).

### What the violation runs found

* `channel_race`: `push_offset` is loaded at `fifo.rs:194` and added to at 219.
  Two threads that both load first are told the same segment, and
  both calls return it. `gpfifo_put` has the same gap (222, 229).
* `channel_overrun`: no line compares the put index with the GPU's. When as many
  submissions are pending as there are slots the doorbell is written with the
  value it had, and none of them is seen; one more, and it replaces an entry that the
  GPU has not fetched, which is what the trace shows.
* `falcon_reboot`: `wait_ready` takes any value of `FALCON_OS` but zero for
  readiness and nothing clears it, so a second boot returns `true` at once,
  whatever the new image does.
* `dispatch_no_fence`: when there is no VRAM for the fence, `dispatch(wait = true)`
  submits the kernel without one and returns `true` (line 492) at once. Every
  waiting dispatch takes a page for its fence and returns none, so this is where a
  long run of them ends.
* `device_aperture`: when BAR0 takes one register, the aperture is still looked for
  in BAR2 (`pci_config.rs:354`), the upper half of the address in BAR1.
  `RegionsFound` therefore says where BAR1 and BAR2 are only for a wide BAR0.
* `device_sizes`: `probe_bar_size` looks at the low half of a BAR only, so that the size
  of a region of 4 GiB or more is zero (`pci_config.rs:281`), although apertures of up
  to 16 GiB are expected (line 89). `RegionsFound` therefore asks for the sizes of
  smaller regions only, and for the bases of all.

Some more things hold in the models by what the code does and are worth knowing.
A tensor whose size wraps is granted a block that is too small (the `Representable`
of `ElementsPlaced`). `commit` of an empty list, or with no VRAM left, does nothing and
says nothing, so that the GPU keeps a list that is no longer the host's; the doc
(`fifo.rs:294-297`) makes no exception for the two cases. `RunlistHeld` says what can
be relied on: the list the GPU was given stays in a block of the runlist. The write of
COMMAND clears the error bits of STATUS that were set before it (`StatusKept` allows
those and no others). `free_tensor` lowers `total_allocated`, while the allocator takes
nothing back (`memory.rs:333` says so, `tensor.rs:326` says "release its VRAM");
`CountersHonest` allows that difference. `0x2684`, named as an Ada card
(`pci_config.rs:175`), is given the family Ampere, since the arm of line 142 comes
before those of lines 146 and 147; a Volta of line 127 is a Pascal for the same reason.
A second event of an engine, raised between the handler's read and its write, is
acknowledged with the first (`EventsKept` allows it).

What the liveness properties do not say. `EveryCallReturns` excludes that the locks
deadlock or that one is kept; it does not exclude that a spin lock, which is not fair,
is won by others again and again, since here the others run out of calls.
`EveryKernelRuns` is about the words given to `submit`, whose copy is missing.

## Proofs

For all values of the constants that satisfy the named assumptions.

**Allocator** (`VramAllocatorProofs`; assumptions `WidthAssumption` of `Vram`,
`CallersAssumption`, `ApertureAssumption` and `SizesAssumption` of `VramAllocator`). `TypeCorrect`;
`NoOverlapInVram`, `NoOverlapInVa`, `ApertureRespected`: `BlocksDisjoint`,
`VaDisjoint` and `ApertureSafe` of every reachable state; `Refinement`:
`VramAllocator` implements `VramHeap`. None of the properties is inductive: that a
new block is apart from the old ones needs to know what each thread has read and
that nobody could change it since. `IInv` says that a thread past `LockFreeList`
(`LockNextVa`) owns the lock, so there is one such thread per lock; that what it
read is still the value, or the value before its own cut; that every block lies
below the region, in the order of the grants; and that until the wrap
`next_gpu_va` is `VaBase + issued`, above every address handed out.
`SizesAssumption` says that rounding a size up to a page stays within 64 bits.

**Channel** (`ChannelProofs`; `RingAssumption`, `BufferAssumption`,
`LensAssumption`). `TypeCorrect` holds whatever the callers do. With
`CallersBehave == Serialised /\ Window < Entries`: `FifoDelivery`,
`NothingOverwritten` and `Refinement` (`Channel` implements `CommandQueue`). The
invariant says that at most one thread is inside `submit`; that the put index, the
doorbell and the GPU's index are the lengths of the histories modulo `Entries`;
that the slots between hold the pending entries; and that pending segments and the
segment in hand lie in the buffer one after the other. `Window < Entries` is what
makes different pending submissions have different slots (`SlotsDiffer`, a fact
about `%` that `ModArithmetic` provides).

**Falcon** (`FalconProofs`; `MemoryAssumption`: lengths are natural numbers, without
any relation to the size of the memories; and `NameAssumption`: no image has the
name that stands for blank memory). `TypeCorrect`, `BootsWholeImage` (`WholeImage`),
`CodeIsStable` (`CodeStable`), `IrqNotLost` (`NoIrqLost`), `FirstBoot`
(`FirstBootHonest`). `WholeImage` speaks of a core that runs, so the invariant (`Places`)
follows the upload: the core is halted from `halt` to `boot`; at `imemWord` the write
pointer is at `word` modulo the size of the memory, behind the words already in place;
after an upload its block is there whole if it fits, and has at least covered what it
reached. `FirstBoot` is about the first call only: `FirstCall` says that the memories then
hold nothing but the call's own image, so that only this image can have written
`FALCON_OS`. After a call that timed out the claim fails like that of `falcon_reboot`:
its firmware may come up late, and the next call takes that for its own.

**PCI** (`PciConfigProofs`; `PciAssumption`: regions are `Legal`, aligned to their sizes
and sized in powers of two as the PCI standard has it, and BAR0 of a GPU exists).
`ScanInv`: no slot passed over is a GPU; every BAR holds what was programmed, except
the one between the write of ones and its restore, whose old value is in
`original`; the probes left are those of BARs not probed yet; and what is known of
the device is a function of the bus and of the next probe. That a probe yields the size
of a region is `ProbesSize`, for every power of two (a fact about `%` and `\div`).

**Device** (`DeviceProofs`; `DeviceAssumption` besides: the push buffer holds the
bind, and rounding its size to a page stays within 64 bits). On every bus:
`BusIsAsFound`, `RegionsAreFound` (bases of any region, sizes below 4 GiB), `StatusIsKept`, `LineIsServable`,
`EventsAreKept`, `TimerIsHonest`, `ReadyIsUsable`, `TypeCorrect`. Each has its own
invariant: `LineInv` (interrupts are off until `EnableInterrupts`), `HandlerInv`
(what the handler has still to clear it has noticed), `TimerInv` (each half that was
read was shown at some moment of the call, the low half not before the high half),
`HeapInv` and `BindInv` (how much VRAM is taken at each place of `init`, in which
blocks, and what `compute_ready` was computed from).

**Clients of the allocator** (`VramClientsProofs`; `TensorAssumption`,
`RunlistAssumption`). `TypeCorrect`, `BlocksHaveOneOwner`, `ElementsHavePlaces`,
`TransfersHaveWindows`, `CountersAreHonest`, `RunlistIsHeld`, for any shapes.
The invariant is `ClientsInv`. Its parts: the region and what was cut from it make the
capacity (`HeapInv`); every tensor has the strides and sizes that `allocate_tensor`
computes (`ListInv`); the blocks stand in the order of the grants, below the
region (`Ordered`), and the runlist's block is apart from them; the counters are
sums over the list; a transfer names a live tensor. `BlocksOwned`
does not survive a step without `Ordered`: nothing else keeps a new block off an old one.
The products of a shape, its strides and the offsets of its elements are
recursive functions over dimensions. The library's induction theorems cannot be
instantiated here, so `ModArithmetic` states induction over sets of numbers
(`UpwardInduction`, `DownwardInduction`: a subset of a range that contains its end and
is closed under the step is the range) and proves it from
`NatSetInduction`; that suffices for functions, where the set is the arguments for which
the claim holds.

**Compute engine** (`DispatchProofs`; `DispatchAssumption` and `BindFits`: addresses of
VRAM have two words, and the push buffer holds the bind). `TypeCorrect`, `FencesMeanDone`
(`FenceMeansDone`), and `Refinement`: `Dispatch` implements `KernelQueue`. All of them
are about callers that keep fewer than `Window` submissions pending, with `Window <
Entries`, which the code leaves to them: under that assumption the ring that `Dispatch`
leaves out is never overrun (`ChannelProofs!Refinement`). `FenceMeansDone` is about
fences whose memory did not hold their value when it was granted; the code does not
see to that. What the GPU
launches depends on every method before the launch, and after two kernels a register may
hold what either of them left, so nothing about the current state alone is inductive.
`Inv` therefore says that there are (as witnesses, not as variables) the commands `c`
submitted so far, a place `spot[i]` in them at which kernel `i` is launched, and
a number `n` of commands carried out: `Script`, that `c` is the bind and one whole
block per accepted kernel, whose writes up to the launch are still the last ones to their
registers and slots; `Remaining`, that the stream is the headers and data of the commands
after the first `n`; `Machine`, that registers and slots show the last writes of the
first `n`; and `Kept`, `Calling` and `Signals`, that fences have addresses of their own,
shown for launched kernels only. A step of the GPU moves `n` by one, a submission
extends `c`, and all other steps leave the three alone. `Refinement` has the hypothesis
`OneBufferPerSlot` (no job binds two buffers to one slot): `dispatch` does not check it,
and such a job gets the last of the two only. The jobs of the runs satisfy it.

`Representable` (which `ElementsPlaced`, `TransferWindow` and the last part of
`CountersHonest` assume) limits the bytes and the number of elements: `Int4` elements
are half a byte, so the number can wrap while the bytes do not; then `num_elements` is
wrong, although the block is large enough. One of the requests of `vram_clients` is such
a shape. `RegionsFound` has a case for a BAR that is the upper half of the one before it:
with a wide BAR0 the scan decodes BAR2 and BAR4, and where BAR3 holds a region of two
registers it takes the upper half in BAR4 for the address of a region.

Only model-checked: the liveness properties `EveryCallReturns`, `EverySubmissionRuns`,
`InitReturns` (of `Falcon` and of `Device`), `EveryKernelRuns`, `DispatchReturns` and
`InterruptServed`, since the prover has no rules for fairness and `ENABLED`; and the six
violations, which a run shows by a behaviour. Every other property of a passing run is
a theorem.

## Plan

Every component that changes state has its model, and every safety property its proof.
What is left:

1. `Device` and `VramClients` use the one-step allocator of `VramCalls`, and `Dispatch`
   counts pages. `VramAllocatorProofs` relates the detailed allocator to `VramHeap`;
   that the steps of `VramCalls` are steps of `VramHeap` is not proved yet.
2. Shorter proofs: `DispatchProofs` and `VramClientsProofs` repeat facts about
   concatenation for each set of elements.

## Not modelled, and why

Logging, names and formatted text; the page table entry type (`GpuPte`), which
nothing uses; register constants that nothing uses. Functions that nothing calls:
the mailboxes of the Falcon, `master_reset`, `read64` and `write64`,
`gpu_method_nonincr`, `GpfifoEntry::new_no_prefetch`. The tensor operations beyond
storage: they compare shapes, compute a grid that is dropped, log and return false.
What `init` only reads and logs: chip id, state of the PMU, topology. The two I/O ports behind an access to the
configuration space, which is one step here: `init` is called once, and its contract
(`driver.rs:128`) excludes other drivers. The crate root and the manifest.
