------------------------------- MODULE Falcon -------------------------------
(***************************************************************************)
(* Booting a Falcon microcontroller: init_with_firmware of                 *)
(* src/src/falcon.rs, one register access per step, next to the Falcon     *)
(* itself.  The Falcon is modelled from how the code uses it: it runs what *)
(* IMEM and DMEM hold while it is started, firmware that comes up writes a *)
(* non-zero value to FALCON_OS, and interrupts may be raised at any time.  *)
(*                                                                         *)
(* A firmware is a record: its name, the words of its code and data, a     *)
(* flag for each that its length is a multiple of four, and whether it     *)
(* comes up at all (it does not when it is unsigned).  No size is checked  *)
(* by the code: an image may be empty, or larger than the memory, in which *)
(* case the write pointer starts over and the image does not come up.      *)
(***************************************************************************)
EXTENDS Integers

CONSTANTS
  Firmware,   \* the images a caller may pass
  MemWords,   \* words of IMEM and of DMEM
  Sources,    \* interrupt sources
  MaxInits,   \* bound: calls of init_with_firmware
  MaxPolls    \* timeout_iters (1,000,000)

ASSUME MemoryAssumption ==
  /\ MemWords \in Nat \ {0} /\ MaxPolls \in Nat /\ MaxInits \in Nat
  /\ \A f \in Firmware : f.words \in Nat /\ f.data \in Nat

(* "none" stands for what is in a memory that was not written yet.         *)
ASSUME NameAssumption == \A f \in Firmware : f.name # "none"

VARIABLES
  pc,        \* the next register access of the host
  fw,        \* the image passed to the call
  word,      \* words written so far of the block being uploaded
  pending,   \* the interrupts clear_interrupts read
  polls,     \* iterations of wait_ready
  result,    \* what the last call returned
  inits,     \* calls made
  cpu,       \* Falcon: "halted" or "running"
  imem, dmem,         \* its memories
  imemPtr, dmemPtr,   \* the write pointers that IMEMC and DMEMC set
  os,        \* FALCON_OS
  irq,       \* FALCON_IRQSRD
  ready      \* the firmware that came up since the last start

host   == <<pc, fw, word, pending, polls, result, inits>>
memory == <<imem, dmem, imemPtr, dmemPtr>>
vars   == <<host, cpu, memory, os, irq, ready>>

NoFirmware == [name |-> "none", words |-> 0, data |-> 0,
               aligned |-> TRUE, dataAligned |-> TRUE, comesUp |-> FALSE]

Blank == <<"none", 0>>

Fits(f) == f.words <= MemWords /\ f.data <= MemWords

(* The memories hold all of image f: its own words, in order. *)
Loaded(f) ==
  /\ Fits(f)
  /\ \A k \in 0 .. f.words - 1 : imem[k] = <<f.name, k>>
  /\ \A k \in 0 .. f.data - 1 : dmem[k] = <<f.name, k>>

-----------------------------------------------------------------------------
(* A Falcon out of reset: nothing loaded, FALCON_OS zero. *)
Init ==
  /\ pc = "idle" /\ fw = NoFirmware
  /\ word = 0 /\ pending = {} /\ polls = 0
  /\ result = "none" /\ inits = 0
  /\ cpu = "halted"
  /\ imem = [k \in 0 .. MemWords - 1 |-> Blank] /\ imemPtr = 0
  /\ dmem = [k \in 0 .. MemWords - 1 |-> Blank] /\ dmemPtr = 0
  /\ os = "zero" /\ irq = {} /\ ready = "none"

Begin(f) ==
  /\ pc = "idle" /\ inits < MaxInits
  /\ pc' = "halt" /\ fw' = f /\ result' = "none" /\ inits' = inits + 1
  /\ UNCHANGED <<word, pending, polls, cpu, memory, os, irq, ready>>

(* Variants with a mistake in them precede the definition they vary.       *)
(* halt: the read back of CPUCTL changes nothing and is not checked.       *)
Halt_NoWrite ==
  /\ pc = "halt" /\ pc' = "readIrq"
  /\ ready' = "none"
  /\ UNCHANGED <<fw, word, pending, polls, result, inits, cpu, memory, os, irq>>

Halt ==
  /\ pc = "halt" /\ pc' = "readIrq"
  /\ cpu' = "halted" /\ ready' = "none"
  /\ UNCHANGED <<fw, word, pending, polls, result, inits, memory, os, irq>>

(* clear_interrupts: read, then write back what was read.  (The offset of  *)
(* IRQSCLR is also that of IRQMCLR in the code; the write acknowledges.)   *)
ReadIrq ==
  /\ pc = "readIrq"
  /\ pending' = irq
  /\ pc' = IF irq = {} THEN "imem" ELSE "clearIrq"
  /\ UNCHANGED <<fw, word, polls, result, inits, cpu, memory, os, irq, ready>>

ClearIrq_All ==
  /\ pc = "clearIrq" /\ pc' = "imem"
  /\ irq' = {}
  /\ UNCHANGED <<fw, word, pending, polls, result, inits, cpu, memory, os, ready>>

ClearIrq ==
  /\ pc = "clearIrq" /\ pc' = "imem"
  /\ irq' = irq \ pending
  /\ UNCHANGED <<fw, word, pending, polls, result, inits, cpu, memory, os, ready>>

(* upload_imem: an image of odd length is logged and not uploaded. *)
SelectImem_KeepPointer ==
  /\ pc = "imem" /\ fw.aligned
  /\ pc' = IF fw.words = 0 THEN "dmem" ELSE "imemWord"
  /\ word' = 0
  /\ UNCHANGED <<fw, pending, polls, result, inits, cpu, memory, os, irq, ready>>

SelectImem ==
  /\ pc = "imem" /\ fw.aligned
  /\ pc' = IF fw.words = 0 THEN "dmem" ELSE "imemWord"
  /\ imemPtr' = 0 /\ word' = 0
  /\ UNCHANGED <<fw, pending, polls, result, inits, cpu, imem, dmem, dmemPtr, os, irq, ready>>

SkipImem ==
  /\ pc = "imem" /\ ~ fw.aligned /\ pc' = "dmem"
  /\ UNCHANGED <<fw, word, pending, polls, result, inits, cpu, memory, os, irq, ready>>

WriteImem_OneMore ==
  /\ pc = "imemWord"
  /\ imem' = [imem EXCEPT ![imemPtr] = <<fw.name, word>>]
  /\ imemPtr' = (imemPtr + 1) % MemWords
  /\ word' = word + 1
  /\ pc' = IF word' > fw.words THEN "dmem" ELSE "imemWord"
  /\ UNCHANGED <<fw, pending, polls, result, inits, cpu, dmem, dmemPtr, os, irq, ready>>

WriteImem ==
  /\ pc = "imemWord"
  /\ imem' = [imem EXCEPT ![imemPtr] = <<fw.name, word>>]
  /\ imemPtr' = (imemPtr + 1) % MemWords
  /\ word' = word + 1
  /\ pc' = IF word' = fw.words THEN "dmem" ELSE "imemWord"
  /\ UNCHANGED <<fw, pending, polls, result, inits, cpu, dmem, dmemPtr, os, irq, ready>>

(* upload_dmem, unless there is no data. *)
SelectDmem ==
  /\ pc = "dmem" /\ fw.data > 0 /\ fw.dataAligned /\ pc' = "dmemWord"
  /\ dmemPtr' = 0 /\ word' = 0
  /\ UNCHANGED <<fw, pending, polls, result, inits, cpu, imem, dmem, imemPtr, os, irq, ready>>

SkipDmem ==
  /\ pc = "dmem" /\ (fw.data = 0 \/ ~ fw.dataAligned) /\ pc' = "boot"
  /\ UNCHANGED <<fw, word, pending, polls, result, inits, cpu, memory, os, irq, ready>>

WriteDmem ==
  /\ pc = "dmemWord"
  /\ dmem' = [dmem EXCEPT ![dmemPtr] = <<fw.name, word>>]
  /\ dmemPtr' = (dmemPtr + 1) % MemWords
  /\ word' = word + 1
  /\ pc' = IF word' = fw.data THEN "boot" ELSE "dmemWord"
  /\ UNCHANGED <<fw, pending, polls, result, inits, cpu, imem, imemPtr, os, irq, ready>>

(* boot: the vector (always 0 here) and CPUCTL_START. *)
Boot ==
  /\ pc = "boot" /\ pc' = "poll"
  /\ cpu' = "running" /\ polls' = 0
  /\ UNCHANGED <<fw, word, pending, result, inits, memory, os, irq, ready>>

(* wait_ready: one read of FALCON_OS per iteration. *)
Poll_Uncounted ==
  /\ pc = "poll" /\ polls < MaxPolls /\ os = "zero"
  /\ UNCHANGED vars

Poll ==
  /\ pc = "poll" /\ polls < MaxPolls /\ os = "zero"
  /\ polls' = polls + 1
  /\ UNCHANGED <<pc, fw, word, pending, result, inits, cpu, memory, os, irq, ready>>

Return(value) ==
  /\ pc' = "idle" /\ result' = value
  /\ UNCHANGED <<fw, word, pending, polls, inits, cpu, memory, os, irq, ready>>

PollReady_AnyValue == pc = "poll" /\ polls < MaxPolls /\ Return("true")
PollReady == pc = "poll" /\ polls < MaxPolls /\ os # "zero" /\ Return("true")
PollTimeout == pc = "poll" /\ polls = MaxPolls /\ Return("false")

(* The Falcon: firmware that was loaded whole comes up. *)
ComeUp(f) ==
  /\ cpu = "running" /\ f.comesUp /\ f.words > 0 /\ Loaded(f)
  /\ os' = f.name /\ ready' = f.name
  /\ UNCHANGED <<host, cpu, memory, irq>>

RaiseIrq(b) ==
  /\ irq' = irq \cup {b}
  /\ UNCHANGED <<host, cpu, memory, os, ready>>

HostStep ==
  \/ Halt \/ ReadIrq \/ ClearIrq
  \/ SelectImem \/ SkipImem \/ WriteImem
  \/ SelectDmem \/ SkipDmem \/ WriteDmem
  \/ Boot \/ Poll \/ PollReady \/ PollTimeout

Next ==
  \/ HostStep
  \/ \E f \in Firmware : Begin(f) \/ ComeUp(f)
  \/ \E b \in Sources : RaiseIrq(b)

Spec == Init /\ [][Next]_vars

(* The calling thread runs; nothing is assumed of the Falcon. *)
FairSpec == Spec /\ WF_vars(HostStep)

-----------------------------------------------------------------------------
Names == {f.name : f \in Firmware} \cup {"none"}
Words == Names \X Nat

(* Every variable has its type; the word about to be written is one of the *)
(* image, whose slice is never indexed past its end.                       *)
TypeOK ==
  /\ pc \in {"idle", "halt", "readIrq", "clearIrq", "imem", "imemWord", "dmem", "dmemWord",
             "boot", "poll"}
  /\ fw \in Firmware \cup {NoFirmware}
  /\ word \in Nat
  /\ pc = "imemWord" => word < fw.words
  /\ pc = "dmemWord" => word < fw.data
  /\ polls \in 0 .. MaxPolls /\ inits \in 0 .. MaxInits
  /\ pending \subseteq Sources /\ irq \subseteq Sources
  /\ result \in {"none", "true", "false"}
  /\ cpu \in {"halted", "running"}
  /\ imem \in [0 .. MemWords - 1 -> Words] /\ imemPtr \in 0 .. MemWords - 1
  /\ dmem \in [0 .. MemWords - 1 -> Words] /\ dmemPtr \in 0 .. MemWords - 1
  /\ os \in (Names \ {"none"}) \cup {"zero"} /\ ready \in Names

(* init_with_firmware returned true: the image it was given is up.         *)
EveryBootHonest == pc = "idle" /\ result = "true" => ready = fw.name

(* ... which holds for the first call on a Falcon out of reset, a call     *)
(* whose image was skipped for its length included.                        *)
FirstBootHonest == inits = 1 => EveryBootHonest

(* Whatever ran and was loaded before, a Falcon that was given an image of *)
(* proper length holds that image from its first word to its last when the *)
(* memories are large enough; and when they are not (upload_imem and       *)
(* upload_dmem check no size), still no word of an older image is left     *)
(* where the new one was written.                                          *)
WholeImage ==
  (cpu = "running" /\ pc = "poll" /\ fw.aligned /\ fw.dataAligned) =>
    /\ Fits(fw) => Loaded(fw)
    /\ \A k \in 0 .. MemWords - 1 :
         (k < fw.words => imem[k][1] = fw.name) /\ (k < fw.data => dmem[k][1] = fw.name)

(* The host never writes the memory of a Falcon that executes it.          *)
CodeStable == [][UNCHANGED <<imem, dmem>> \/ cpu = "halted"]_vars

(* clear_interrupts acknowledges only interrupts it has read: one raised   *)
(* between its two register accesses stays pending.                        *)
NoIrqLost == [][irq \ irq' \subseteq pending]_vars

(* A Falcon that never comes up cannot hold the caller: the call returns.  *)
InitReturns == pc # "idle" ~> pc = "idle"
=============================================================================
