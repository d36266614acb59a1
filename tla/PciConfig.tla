------------------------------ MODULE PciConfig ------------------------------
(***************************************************************************)
(* The scan for a GPU in src/src/pci_config.rs: the slots of the bus in    *)
(* the order of the scan, the base address registers of the first GPU      *)
(* probed and restored, its COMMAND register completed.                    *)
(*                                                                         *)
(* A function of the bus is given by the regions it implements.  What its  *)
(* registers read and keep follows from them by the PCI standard: a BAR    *)
(* keeps the address bits above the size of its region and constant flags, *)
(* and a STATUS bit is cleared by writing a one to it.                     *)
(***************************************************************************)
EXTENDS Integers, Sequences, FiniteSetsExt

CONSTANTS
  Buses,       \* the buses to scan: sequences of functions
  Word32,      \* number of values of a u32
  StatusBits   \* error bits of a STATUS register

(* Regions as the PCI standard allows them, sizes and Word32 being powers  *)
(* of two: a region lies at a multiple of its size, its flags say whether  *)
(* its address takes two registers, and below 4 GiB it fits if it takes    *)
(* one.                                                                    *)
Legal(regions, k) ==
  LET r == regions[k]
  IN /\ k \in 0 .. 5 /\ r.flags \in {0, 1, 4, 8, 12} /\ r.is64 = (r.flags \in {4, 12})
     /\ r.base \in Nat /\ r.size \in Nat \ {0} /\ r.size % 16 = 0 /\ r.base % r.size = 0
     /\ \/ Word32 % r.size = 0
        \/ r.is64 /\ r.size % Word32 = 0 /\ Word32 % (r.size \div Word32) = 0
     /\ r.is64 => k < 5 /\ k + 1 \notin DOMAIN regions
     /\ r.base \div Word32 \in IF r.is64 THEN 0 .. Word32 - 1 ELSE {0}

ASSUME PciAssumption ==
  /\ Word32 \in Nat \ {0} /\ Word32 % 16 = 0
  /\ \A b \in Buses :
       /\ Len(b) \in Nat /\ DOMAIN b = 1 .. Len(b)
       /\ \A i \in DOMAIN b :
            /\ b[i].command \subseteq {"io", "memory", "master"}
            /\ \A k \in DOMAIN b[i].regions : Legal(b[i].regions, k)
            /\ b[i].vendor = \h10DE /\ b[i].class \in {\h03, \h12} => 0 \in DOMAIN b[i].regions

VARIABLES
  pc,        \* where GpuDevice::init is
  bus,       \* the bus at hand
  config,    \* the BARs, COMMAND and STATUS of each of its functions
  slot,      \* the slot being examined
  pci,       \* {} or the device found
  probes,    \* BARs that remain to be probed
  original,  \* while a BAR is being probed, its value
  seen       \* while COMMAND is being written, it and STATUS as they were read

scan == <<bus, config, slot, pci, probes, original, seen>>

-----------------------------------------------------------------------------
(* What hardware keeps in register k of function f.                        *)
IsLow(f, k)  == k \in DOMAIN f.regions
IsHigh(f, k) == k - 1 \in DOMAIN f.regions /\ f.regions[k - 1].is64

Granule(f, k) ==
  IF IsLow(f, k) THEN Min({f.regions[k].size, Word32})
  ELSE IF IsHigh(f, k) THEN Max({f.regions[k - 1].size \div Word32, 1}) ELSE Word32

Flags(f, k) == IF IsLow(f, k) THEN f.regions[k].flags ELSE 0

Keep(f, k, v) == (v - (v % Granule(f, k))) + Flags(f, k)

Programmed(f, k) ==
  Keep(f, k, IF IsLow(f, k) THEN f.regions[k].base % Word32
             ELSE IF IsHigh(f, k) THEN f.regions[k - 1].base \div Word32 ELSE 0)

-----------------------------------------------------------------------------
(* bar & !0xF, and the two type bits. *)
Field(bar) == bar - (bar % 16)
Is64(bar)  == (bar \div 2) % 4 = 2

decode_bar64(lo, hi) == IF Is64(lo) THEN (hi * Word32) + Field(lo) ELSE Field(lo)

(* The size from what a BAR reads after ones were written to it.  (Variants *)
(* with a mistake in them precede the definition they vary.)               *)
ProbedSize_Unmasked(mask) == IF mask \in {0, Word32 - 1} THEN 0 ELSE Word32 - mask

ProbedSize(mask) ==
  IF mask \in {0, Word32 - 1} \/ Field(mask) = 0 THEN 0 ELSE Word32 - Field(mask)

(* The arms of device_id_to_family in their order. *)
FamilyRanges ==
  << <<\h0E0, \h0EF, "Kepler">>, <<\h0F0, \h0FF, "Kepler">>, <<\h100, \h10F, "Kepler">>,
     <<\h118, \h11F, "Kepler">>,
     <<\h130, \h13F, "Maxwell">>, <<\h140, \h14F, "Maxwell">>, <<\h170, \h17F, "Maxwell">>,
     <<\h150, \h15F, "Pascal">>, <<\h1B0, \h1BF, "Pascal">>, <<\h1C0, \h1CF, "Pascal">>,
     <<\h1D0, \h1DF, "Pascal">>,
     <<\h1D8, \h1DF, "Volta">>,
     <<\h1E0, \h1EF, "Turing">>, <<\h1F0, \h1FF, "Turing">>, <<\h218, \h21F, "Turing">>,
     <<\h220, \h22F, "Ampere">>, <<\h230, \h23F, "Ampere">>, <<\h240, \h24F, "Ampere">>,
     <<\h250, \h25F, "Ampere">>, <<\h260, \h27F, "Ampere">>,
     <<\h260, \h26F, "Ada">>, <<\h270, \h27F, "Ada">>, <<\h280, \h28F, "Ada">> >>

device_id_to_family(id) ==
  LET arms == {i \in DOMAIN FamilyRanges :
                 id \div 16 \in FamilyRanges[i][1] .. FamilyRanges[i][2]}
  IN IF arms = {} THEN "Unknown" ELSE FamilyRanges[Min(arms)][3]

Unseen == [command |-> {}, status |-> {}]

-----------------------------------------------------------------------------
ScanInit ==
  /\ pc = "scan" /\ bus \in Buses /\ slot = 1
  /\ config = [i \in DOMAIN bus |->
                 [bars |-> [k \in 0 .. 5 |-> Programmed(bus[i], k)],
                  command |-> bus[i].command, status |-> {}]]
  /\ pci = {} /\ probes = << >> /\ original = 0
  /\ seen = Unseen

IsGpu_AnyClass(f) == f.vendor = \h10DE

(* A display controller or a processing accelerator of NVIDIA. *)
IsGpu(f) == f.vendor = \h10DE /\ f.class \in {\h03, \h12}

Skip ==
  /\ pc = "scan" /\ slot <= Len(bus) /\ ~ IsGpu(bus[slot])
  /\ slot' = slot + 1
  /\ UNCHANGED <<pc, bus, config, pci, probes, original, seen>>

ScanExhausted ==
  /\ pc = "scan" /\ slot > Len(bus)
  /\ pc' = "none"
  /\ UNCHANGED scan

(* pci_config_read32 and pci_config_write32 of BAR k. *)
Bar(k) == config[slot].bars[k]

WriteBar(k, v) == config' = [config EXCEPT ![slot].bars[k] = Keep(bus[slot], k, v)]

(* The aperture is taken from BAR2, however many registers BAR0 takes.     *)
ReadBars ==
  LET base2 == IF Is64(Bar(0)) THEN decode_bar64(Bar(4), Bar(5)) ELSE 0
  IN /\ pc = "scan" /\ slot <= Len(bus) /\ IsGpu(bus[slot])
     /\ pci' = {[slot |-> slot, device_id |-> bus[slot].device_id,
                 family |-> device_id_to_family(bus[slot].device_id),
                 base |-> <<decode_bar64(Bar(0), Bar(1)), decode_bar64(Bar(2), Bar(3)), base2>>,
                 size |-> <<0, 0, 0>>]}
     /\ probes' = IF Is64(Bar(0)) THEN <<0, 2, 4>> ELSE <<0, 2>>
     /\ pc' = "ones"
     /\ UNCHANGED <<bus, config, slot, original, seen>>

ProbeOnes ==
  /\ pc = "ones"
  /\ original' = Bar(Head(probes))
  /\ WriteBar(Head(probes), Word32 - 1)
  /\ pc' = "restore"
  /\ UNCHANGED <<bus, slot, pci, probes, seen>>

ProbeRestore ==
  /\ pc = "restore"
  /\ pci' = {[d EXCEPT !.size[(Head(probes) \div 2) + 1] = ProbedSize(Bar(Head(probes)))] : d \in pci}
  /\ WriteBar(Head(probes), original)
  /\ probes' = Tail(probes) /\ original' = 0
  /\ pc' = IF Len(probes) = 1 THEN "command" ELSE "ones"
  /\ UNCHANGED <<bus, slot, seen>>

ReadCommand ==
  /\ pc = "command"
  /\ IF {"memory", "master"} \subseteq config[slot].command
     THEN pc' = "found" /\ seen' = seen
     ELSE pc' = "merge" /\ seen' = [seen EXCEPT !.command = config[slot].command]
  /\ UNCHANGED <<bus, config, slot, pci, probes, original>>

(* pci_config_write16 reads both halves of the word, of which the upper is *)
(* STATUS ...                                                              *)
MergeCommand ==
  /\ pc = "merge"
  /\ seen' = [seen EXCEPT !.status = config[slot].status]
  /\ pc' = "write"
  /\ UNCHANGED <<bus, config, slot, pci, probes, original>>

(* ... and writes both: the ones of STATUS clear the bits they were read   *)
(* from.                                                                   *)
WriteCommand_Ones ==
  /\ pc = "write"
  /\ config' = [config EXCEPT ![slot].command = seen.command \cup {"memory", "master"},
                              ![slot].status = {}]
  /\ pc' = "found" /\ seen' = Unseen
  /\ UNCHANGED <<bus, slot, pci, probes, original>>

WriteCommand ==
  /\ pc = "write"
  /\ config' = [config EXCEPT ![slot].command = seen.command \cup {"memory", "master"},
                              ![slot].status = @ \ seen.status]
  /\ pc' = "found" /\ seen' = Unseen
  /\ UNCHANGED <<bus, slot, pci, probes, original>>

Scanning == {"scan", "ones", "restore", "command", "merge", "write"}

(* An error on the bus, while the function is being examined. *)
RaiseStatus(b) ==
  /\ pc \in Scanning /\ slot <= Len(bus)
  /\ config' = [config EXCEPT ![slot].status = @ \cup {b}]
  /\ pc' = pc
  /\ UNCHANGED <<bus, slot, pci, probes, original, seen>>

ScanStep ==
  \/ Skip \/ ScanExhausted \/ ReadBars \/ ProbeOnes \/ ProbeRestore
  \/ ReadCommand \/ MergeCommand \/ WriteCommand
=============================================================================
