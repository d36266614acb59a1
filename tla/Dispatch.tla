------------------------------ MODULE Dispatch ------------------------------
(***************************************************************************)
(* Running kernels: ComputeEngine and GpuFence of src/src/compute.rs, over *)
(* one channel and a VRAM allocator that other threads use too, next to a  *)
(* GPU that carries out the commands one method at a time.  dispatch takes *)
(* &mut self, so calls of it take turns; the allocation and the submission *)
(* inside it are single steps, as VramHeap and CommandQueue promise.       *)
(* Channel keeps the promise of CommandQueue only while fewer entries are  *)
(* pending than its ring has slots.  submit does not check that, so it is  *)
(* asked of the callers here too: Call waits for it.                       *)
(*                                                                         *)
(* submit leaves the copy of the command words into the push buffer a      *)
(* TODO; the GPU of this module carries out the words given to submit.     *)
(*                                                                         *)
(* The GPU is modelled from how the code uses it: a method sets a register *)
(* that keeps its value, LAUNCH starts a kernel with what the registers    *)
(* hold, SET_REPORT_SEMAPHORE_D writes the payload once the kernels before *)
(* it are complete.                                                        *)
(*                                                                         *)
(* is_signaled does not read the semaphore and always returns false (a     *)
(* TODO of the code), so wait has no step in which it returns true.        *)
(***************************************************************************)
EXTENDS Integers, Sequences, FiniteSets

CONSTANTS
  ClassId,      \* the compute class of the GPU's family
  Binaries,     \* shaders to load: their pages, entry point and shared memory
  Jobs,         \* dimensions and constant buffers of a kernel
  MaxShaders,   \* bound: shaders loaded
  MaxCalls,     \* bound: calls of dispatch
  MaxPolls,     \* iterations of a wait (10,000,000)
  PushWords,    \* words of the push buffer (65536)
  Entries,      \* slots of the channel's ring (1024)
  Window,       \* a caller waits until fewer submissions than this are pending
  VramPages,    \* pages the allocator may grant
  PageSize, VaBase,   \* as in VramAllocator
  Word32,       \* number of values of a u32
  SizeSpan      \* sizes a constant buffer binding can hold (2^17)

(* Addresses of VRAM are u64s.                                             *)
ASSUME DispatchAssumption ==
  /\ ClassId \in Nat /\ MaxShaders \in Nat /\ MaxCalls \in Nat /\ MaxPolls \in Nat
  /\ Entries \in Nat /\ Window \in Nat /\ Window < Entries
  /\ PushWords \in Nat /\ VramPages \in Nat /\ VaBase \in Nat
  /\ PageSize \in Nat \ {0} /\ Word32 \in Nat \ {0, 1} /\ SizeSpan \in Nat \ {0}
  /\ VaBase + (VramPages * PageSize) < Word32 * Word32
  /\ Binaries \subseteq [pages : Nat, entry_offset : Nat, shared_mem_size : Nat]
  /\ \A j \in Jobs :
       /\ j.block \in Nat \X Nat \X Nat /\ j.grid \in Nat \X Nat \X Nat
       /\ j.buffers \in Seq([slot : Nat, size : 0 .. SizeSpan - 1])

(* bind_to_channel runs in GpuDevice::init, on an empty push buffer. *)
ASSUME BindFits == 2 <= PushWords

VARIABLES
  pc, job, fence,     \* the call of dispatch: where it is, its kernel, its fence
  wait, polls,        \* whether it waits, and the iterations of the wait
  result, calls,      \* what the last call returned; calls made
  shaders,            \* the shaders loaded
  next_fence_value,
  vramPages, nextVa,  \* the allocator
  stale,              \* fences whose memory held their value when it was granted
  pushWords,          \* words of the push buffer taken
  stream,             \* GPU: words submitted and not carried out
  regs, buffers,      \* GPU: its registers, and the size bound to each slot
  accepted, launched, signalled   \* as in KernelQueue

engine  == <<pc, job, fence, wait, polls, result, calls, next_fence_value>>
memory  == <<shaders, vramPages, nextVa, stale>>
gpu     == <<regs, buffers, launched, signalled>>
vars    == <<engine, memory, pushWords, stream, gpu, accepted>>

-----------------------------------------------------------------------------
(* The words (va >> 32) as u32 and va as u32. *)
High(va) == (va \div Word32) % Word32
Low(va)  == va % Word32

NextFence_NoWrap(v) == v + 1

NextFence(v) == (v + 1) % Word32

(* Offsets of the methods of the compute object. *)
Offset ==
  [SET_OBJECT |-> \h0000, SET_CONSTANT_BUFFER_BIND |-> \h0AB0, CB_SELECTOR |-> \h2380,
   SET_PROGRAM_REGION_A |-> \h1608, SET_PROGRAM_REGION_B |-> \h160C,
   SET_SHADER_PROGRAM |-> \h2000, SET_SHARED_MEMORY_SIZE |-> \h204C,
   SET_BLOCK_DIM_X |-> \h2040, SET_BLOCK_DIM_Y |-> \h2044, SET_BLOCK_DIM_Z |-> \h2048,
   LAUNCH_DIM_X |-> \h2074, LAUNCH_DIM_Y |-> \h2078, LAUNCH_DIM_Z |-> \h207C,
   LAUNCH |-> \h2080,
   SET_REPORT_SEMAPHORE_A |-> \h1B00, SET_REPORT_SEMAPHORE_B |-> \h1B04,
   SET_REPORT_SEMAPHORE_C |-> \h1B08, SET_REPORT_SEMAPHORE_D |-> \h1B0C]

Methods == DOMAIN Offset

(* The fields of a header: type in bit 28, count, subchannel, word offset. *)
gpu_method_incr(subchannel, method, count) ==
  \h10000000 + ((count % \h2000) * \h10000) + ((subchannel % 8) * \h2000) + (method \div 4)

gpu_method_1(subchannel, method) == gpu_method_incr(subchannel, method, 1)

(* Every method becomes a header word and a data word.                     *)
Encoded(commands) ==
  [i \in 1 .. 2 * Len(commands) |->
     LET c == commands[(i + 1) \div 2]
     IN IF i % 2 = 1 THEN gpu_method_1(0, Offset[c[1]]) ELSE c[2]]

Words(commands) == 2 * Len(commands)

Bind == << <<"SET_OBJECT", ClassId>> >>

Program(k) ==
  << <<"SET_PROGRAM_REGION_A", High(k.shader.va)>>,
     <<"SET_PROGRAM_REGION_B", Low(k.shader.va)>>,
     <<"SET_SHADER_PROGRAM", k.shader.entry_offset>>,
     <<"SET_SHARED_MEMORY_SIZE", k.shader.shared_mem_size>> >>

(* 1 | ((size & 0x1FFFF) << 4) *)
Binding(size) == 1 + 16 * (size % SizeSpan)

ConstBuffers(k) ==
  [i \in 1 .. 2 * Len(k.buffers) |->
     LET cb == k.buffers[(i + 1) \div 2]
     IN IF i % 2 = 1 THEN <<"CB_SELECTOR", cb.slot>>
        ELSE <<"SET_CONSTANT_BUFFER_BIND", Binding(cb.size)>>]

Dimensions_NoGridZ(k) ==
  << <<"SET_BLOCK_DIM_X", k.block[1]>>, <<"SET_BLOCK_DIM_Y", k.block[2]>>,
     <<"SET_BLOCK_DIM_Z", k.block[3]>>,
     <<"LAUNCH_DIM_X", k.grid[1]>>, <<"LAUNCH_DIM_Y", k.grid[2]>> >>

Dimensions(k) ==
  << <<"SET_BLOCK_DIM_X", k.block[1]>>, <<"SET_BLOCK_DIM_Y", k.block[2]>>,
     <<"SET_BLOCK_DIM_Z", k.block[3]>>,
     <<"LAUNCH_DIM_X", k.grid[1]>>, <<"LAUNCH_DIM_Y", k.grid[2]>>,
     <<"LAUNCH_DIM_Z", k.grid[3]>> >>

Semaphore(x) ==
  << <<"SET_REPORT_SEMAPHORE_A", High(x.va)>>, <<"SET_REPORT_SEMAPHORE_B", Low(x.va)>>,
     <<"SET_REPORT_SEMAPHORE_C", x.value>>, <<"SET_REPORT_SEMAPHORE_D", 65540>> >>

(* f is {} or the one fence of the dispatch. *)
Release(f) == IF f = {} THEN << >> ELSE Semaphore(CHOOSE x \in f : TRUE)

(* Variants with a mistake in them precede the definition they vary.       *)
Commands_FenceFirst(k, f) ==
  Program(k) \o ConstBuffers(k) \o Dimensions(k) \o Release(f) \o << <<"LAUNCH", 0>> >>

Commands_LaunchWithFence(k, f) ==
  Program(k) \o ConstBuffers(k) \o Dimensions(k)
    \o (IF f = {} THEN << >> ELSE << <<"LAUNCH", 0>> >>) \o Release(f)

(* build_dispatch_commands *)
Commands(k, f) ==
  Program(k) \o ConstBuffers(k) \o Dimensions(k) \o << <<"LAUNCH", 0>> >> \o Release(f)

Slots == UNION {{j.buffers[i].slot : i \in DOMAIN j.buffers} : j \in Jobs}

NoJob == [shader |-> "none"]

-----------------------------------------------------------------------------
Init ==
  /\ pc = "unbound" /\ job = NoJob /\ fence = {}
  /\ wait = FALSE /\ polls = 0 /\ result = "none" /\ calls = 0
  /\ shaders = {} /\ next_fence_value = 1
  /\ vramPages = VramPages /\ nextVa = VaBase /\ stale = {}
  /\ pushWords = 0 /\ stream = << >>
  /\ regs = [m \in Methods |-> 0] /\ buffers = [s \in Slots |-> 0]
  /\ accepted = << >> /\ launched = << >> /\ signalled = {}

BindToChannel ==
  /\ pc = "unbound" /\ pc' = "idle"
  /\ stream' = Encoded(Bind) /\ pushWords' = Words(Bind)
  /\ UNCHANGED <<job, fence, wait, polls, result, calls, next_fence_value, memory, gpu,
                 accepted>>

(* VramAllocator::allocate, when it has the pages. *)
Allocate(pages) ==
  /\ pages <= vramPages
  /\ vramPages' = vramPages - pages
  /\ nextVa' = nextVa + pages * PageSize

(* load_shader; when VRAM is exhausted, it returns None, nothing changes.  *)
LoadShader ==
  /\ pc = "idle" /\ Cardinality(shaders) < MaxShaders
  /\ \E b \in Binaries :
       /\ Allocate(b.pages)
       /\ shaders' = shaders \cup {[va |-> nextVa, entry_offset |-> b.entry_offset,
                                    shared_mem_size |-> b.shared_mem_size]}
  /\ UNCHANGED <<engine, stale, pushWords, stream, gpu, accepted>>

(* Another thread takes a page. *)
OtherAllocate ==
  /\ Allocate(1)
  /\ UNCHANGED <<engine, shaders, stale, pushWords, stream, gpu, accepted>>

(* Entries of the ring not yet fetched, at most: a kernel is launched      *)
(* after its entry was fetched, and the class is bound before any kernel.  *)
Pending == Len(accepted) - Len(launched) + (IF launched = << >> THEN 1 ELSE 0)

Call(j, s) ==
  /\ pc = "idle" /\ calls < MaxCalls /\ Pending < Window
  /\ pc' = "submit" /\ calls' = calls + 1 /\ result' = "none" /\ polls' = 0
  /\ job' = [shader |-> s, block |-> j.block, grid |-> j.grid, buffers |-> j.buffers]
  /\ UNCHANGED <<shaders, pushWords, stream, gpu, accepted>>

CallNoWait(j, s) ==
  /\ Call(j, s)
  /\ wait' = FALSE /\ fence' = {}
  /\ UNCHANGED <<next_fence_value, vramPages, nextVa, stale>>

(* The value is taken before the fence is allocated, and the memory of     *)
(* the fence is not initialised: it may hold that value from the start ... *)
CallWait(j, s) ==
  /\ Call(j, s)
  /\ wait' = TRUE /\ next_fence_value' = NextFence(next_fence_value)
  /\ Allocate(1)
  /\ fence' = {[va |-> nextVa, value |-> next_fence_value]}
  /\ \E old \in {{}, fence'} : stale' = stale \cup old

(* ... and spent when there is no VRAM for it. *)
CallWaitNoFence(j, s) ==
  /\ Call(j, s) /\ vramPages = 0
  /\ wait' = TRUE /\ next_fence_value' = NextFence(next_fence_value)
  /\ fence' = {}
  /\ UNCHANGED <<vramPages, nextVa, stale>>

(* What the caller asked for, as KernelQueue has it. *)
Kernel(k, f) ==
  [class |-> ClassId, program |-> k.shader, block |-> k.block, grid |-> k.grid,
   buffers |-> {k.buffers[i] : i \in DOMAIN k.buffers}, fence |-> f]

HasRoom(commands) == pushWords + Words(commands) <= PushWords

Submit ==
  /\ pc = "submit" /\ HasRoom(Commands(job, fence))
  /\ stream' = stream \o Encoded(Commands(job, fence))
  /\ pushWords' = pushWords + Words(Commands(job, fence))
  /\ accepted' = Append(accepted, Kernel(job, fence))
  /\ pc' = IF fence = {} THEN "idle" ELSE "wait"
  /\ result' = IF fence = {} THEN "true" ELSE result
  /\ UNCHANGED <<job, fence, wait, polls, calls, next_fence_value, memory, gpu>>

SubmitRefused ==
  /\ pc = "submit" /\ ~ HasRoom(Commands(job, fence))
  /\ pc' = "idle" /\ result' = "false"
  /\ UNCHANGED <<job, fence, wait, polls, calls, next_fence_value, memory, pushWords,
                 stream, gpu, accepted>>

(* GpuFence::wait: is_signaled returns false. *)
Poll_Uncounted ==
  /\ pc = "wait" /\ polls < MaxPolls
  /\ UNCHANGED vars

Poll ==
  /\ pc = "wait" /\ polls < MaxPolls
  /\ polls' = polls + 1
  /\ UNCHANGED <<pc, job, fence, wait, result, calls, next_fence_value, memory, pushWords,
                 stream, gpu, accepted>>

WaitTimeout ==
  /\ pc = "wait" /\ polls = MaxPolls
  /\ pc' = "idle" /\ result' = "false"
  /\ UNCHANGED <<job, fence, wait, polls, calls, next_fence_value, memory, pushWords,
                 stream, gpu, accepted>>

(* reset_push_buffer, by a caller who knows that the GPU is done. *)
ResetPushBuffer ==
  /\ pc = "idle" /\ stream = << >> /\ pushWords' = 0
  /\ UNCHANGED <<engine, memory, stream, gpu, accepted>>

-----------------------------------------------------------------------------
(* The GPU *)
Address(high, low) == regs[high] * Word32 + regs[low]

Running ==
  [class   |-> regs["SET_OBJECT"],
   program |-> [va |-> Address("SET_PROGRAM_REGION_A", "SET_PROGRAM_REGION_B"),
                entry_offset |-> regs["SET_SHADER_PROGRAM"],
                shared_mem_size |-> regs["SET_SHARED_MEMORY_SIZE"]],
   block   |-> <<regs["SET_BLOCK_DIM_X"], regs["SET_BLOCK_DIM_Y"], regs["SET_BLOCK_DIM_Z"]>>,
   grid    |-> <<regs["LAUNCH_DIM_X"], regs["LAUNCH_DIM_Y"], regs["LAUNCH_DIM_Z"]>>,
   buffers |-> {[slot |-> s, size |-> buffers[s] \div 16] : s \in {x \in Slots : buffers[x] % 2 = 1}}]

MethodAt ==
  [o \in {Offset[m] : m \in Methods} |-> CHOOSE m \in Methods : Offset[m] = o]

(* A header of one data word for subchannel 0 whose method is known.       *)
Known(header) ==
  /\ header \div \h2000 = (\h10000000 + \h10000) \div \h2000
  /\ 4 * (header % \h2000) \in DOMAIN MethodAt

(* Carry out the next method; the GPU stops at one it does not know.       *)
GpuMethod ==
  /\ stream # << >> /\ Known(stream[1])
  /\ LET m == MethodAt[4 * (stream[1] % \h2000)]
         v == stream[2]
     IN /\ stream' = SubSeq(stream, 3, Len(stream))
        /\ regs' = [regs EXCEPT ![m] = v]
        /\ buffers' = IF m = "SET_CONSTANT_BUFFER_BIND"
                      THEN [buffers EXCEPT ![regs["CB_SELECTOR"]] = v] ELSE buffers
        /\ launched' = IF m = "LAUNCH" THEN Append(launched, Running) ELSE launched
        /\ signalled' =
             IF m = "SET_REPORT_SEMAPHORE_D"
             THEN signalled \cup {[va |-> Address("SET_REPORT_SEMAPHORE_A", "SET_REPORT_SEMAPHORE_B"),
                                   value |-> regs["SET_REPORT_SEMAPHORE_C"]]}
             ELSE signalled
  /\ UNCHANGED <<engine, memory, pushWords, accepted>>

-----------------------------------------------------------------------------
Continue == Submit \/ SubmitRefused \/ Poll \/ WaitTimeout

Next ==
  \/ BindToChannel \/ LoadShader \/ OtherAllocate \/ Continue
  \/ \E j \in Jobs, s \in shaders :
       CallNoWait(j, s) \/ CallWait(j, s) \/ CallWaitNoFence(j, s)
  \/ ResetPushBuffer
  \/ GpuMethod

Spec == Init /\ [][Next]_vars

(* A thread inside dispatch is scheduled; the GPU carries on.              *)
FairSpec == Spec /\ WF_vars(Continue) /\ WF_vars(GpuMethod)

-----------------------------------------------------------------------------
Fences == [va : Nat, value : 0 .. Word32 - 1]

(* A call is idle, about to submit, or waits on a fence; the counters stay *)
(* in their ranges, the wrapping fence value among them.                   *)
TypeOK ==
  /\ pc \in {"unbound", "idle", "submit", "wait"}
  /\ fence \subseteq Fences /\ Cardinality(fence) <= 1
  /\ wait \in BOOLEAN /\ polls \in 0 .. MaxPolls /\ calls \in 0 .. MaxCalls
  /\ result \in {"none", "true", "false"}
  /\ next_fence_value \in 0 .. Word32 - 1
  /\ vramPages \in 0 .. VramPages /\ nextVa \in Nat
  /\ pushWords \in 0 .. PushWords
  /\ signalled \subseteq Fences /\ stale \subseteq Fences
  /\ regs \in [Methods -> Nat] /\ buffers \in [Slots -> Nat]

(* The fences that is_signaled, were it to read memory, would report.      *)
Shown == signalled \cup stale

(* GpuFence: memory shows the value of a fence only when its own kernel,   *)
(* and every kernel accepted before it, has been launched - although all   *)
(* fences go through the same registers and share the allocator with       *)
(* shaders and other data.  The fences whose memory held the value before  *)
(* the GPU wrote it are excepted: GpuFence::new does not clear it.         *)
FenceMeansDone ==
  \A i \in DOMAIN accepted :
    LET f == accepted[i].fence
    IN f # {} /\ f \subseteq Shown /\ f \cap stale = {} => i <= Len(launched)

KQ == INSTANCE KernelQueue

(* build_dispatch_commands, and registers that keep their values from one  *)
(* kernel to the next: every accepted kernel is launched once, in order,   *)
(* with its own program and dimensions and the compute class bound.        *)
Implements == KQ!Spec

(* A kernel that was accepted is launched, and its fence is signalled.     *)
EveryKernelRuns ==
  \A n \in 1 .. MaxCalls :
    Len(accepted) >= n ~> Len(launched) >= n /\ accepted[n].fence \subseteq signalled

(* dispatch returns, with or without VRAM, room and a GPU that answers.    *)
DispatchReturns == pc \in {"submit", "wait"} ~> pc = "idle"

(* dispatch(wait = true) returned true: the kernel is complete.            *)
WaitMeansDone ==
  pc = "idle" /\ wait /\ result = "true" => Len(launched) = Len(accepted)
=============================================================================
