------------------------------ MODULE MCDevice ------------------------------
(***************************************************************************)
(* Buses: a GPU behind a network card and the audio function of another    *)
(* card, with a second GPU behind it, whose registers and aperture take    *)
(* two BARs each; an accelerator with an aperture too large for the low    *)
(* half; a card as they are sold, whose BAR0 takes one register; a bus     *)
(* without a GPU.  Of VRAM there is enough for nothing, for a ring, and    *)
(* for a whole channel.                                                    *)
(***************************************************************************)
EXTENDS Device

Region(base, size, flags) ==
  [base |-> base, size |-> size, is64 |-> flags % 8 = 4, flags |-> flags]

Function(vendor, class, id, command, regions) ==
  [vendor |-> vendor, class |-> class, device_id |-> id, command |-> command,
   regions |-> regions]

Wide(size) ==
  [k \in {0, 2, 4} |->
     CASE k = 0 -> Region(576, 64, 4)
       [] k = 2 -> Region(2048, size, 12)
       [] k = 4 -> Region(96, 32, 0)]

Narrow ==
  [k \in {0, 1, 5} |->
     CASE k = 0 -> Region(64, 64, 0)
       [] k = 1 -> Region(1024, 128, 12)
       [] k = 5 -> Region(128, 16, 1)]

Nic   == Function(\h8086, \h02, \h1533, {"io", "master"}, [k \in {0} |-> Region(128, 128, 0)])
Audio == Function(\h10DE, \h04, \h10F0, {"memory"}, [k \in {0} |-> Region(192, 16, 0)])

MCBuses ==
  {<<Nic, Audio, Function(\h10DE, \h03, \h1B80, {"io"}, Wide(128)),
     Function(\h10DE, \h03, \h2482, {}, Wide(64))>>,
   <<Function(\h10DE, \h12, \h2684, {"memory", "master"}, Wide(1024))>>,
   <<Function(\h10DE, \h03, \h1C03, {"memory"}, Narrow)>>,
   <<Audio, Nic>>}

MCRegs == {0, 1, 5}

MCEngines ==
  [e \in {"fifo", "done", "alarm", "thermal"} |->
     CASE e = "fifo" -> "PFIFO" [] e = "done" -> "PGRAPH"
       [] e = "alarm" -> "PTIMER" [] e = "thermal" -> "other"]
=============================================================================
