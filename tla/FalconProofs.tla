----------------------------- MODULE FalconProofs -----------------------------
(***************************************************************************)
(* Proofs about Falcon for any set of images, any size of the memories and *)
(* any number of calls: what is in the Falcon's memory when it starts, who *)
(* may write it, and what the first call may conclude from FALCON_OS.      *)
(***************************************************************************)
EXTENDS Falcon, ModArithmetic, TLAPS

(* The write pointer follows the count of the words written: it stays in   *)
(* the memory, and is the count itself until the memory is full.           *)
LEMMA NextPointer ==
  ASSUME NEW n \in Nat
  PROVE  /\ n % MemWords \in 0 .. MemWords - 1
         /\ n < MemWords => n % MemWords = n
         /\ ((n % MemWords) + 1) % MemWords = (n + 1) % MemWords
<1>1. MemWords \in Nat \ {0}
  BY MemoryAssumption
<1>2. n % MemWords \in 0 .. MemWords - 1
  BY <1>1, ModFacts
<1>3. ASSUME n < MemWords PROVE n % MemWords = n
  BY <1>1, <1>3
<1>4. ((n % MemWords) + 1) % MemWords = (n + 1) % MemWords
  BY <1>1, ModSum
<1> QED BY <1>2, <1>3, <1>4

-----------------------------------------------------------------------------
(* Places of the call: before the start, and after each of the uploads.    *)
Loading == {"readIrq", "clearIrq", "imem", "imemWord", "dmem", "dmemWord", "boot"}
CodeDone == {"dmem", "dmemWord", "boot", "poll"}
DataDone == {"boot", "poll"}

(* From halt to boot the Falcon stands still.                              *)
HaltedWhileLoading == pc \in Loading => cpu = "halted"

(* A call has an image, and counts.                                        *)
CallHasImage == pc # "idle" => fw \in Firmware /\ inits > 0

HasCode(n) == \A k \in 0 .. n - 1 : imem[k] = <<fw.name, k>>

HasData(n) == \A k \in 0 .. n - 1 : dmem[k] = <<fw.name, k>>

(* The first n words are of the image, though not its first n when it is   *)
(* larger than the memory and the pointer has started over.                *)
OwnCode(n) == \A k \in 0 .. MemWords - 1 : k < n => imem[k][1] = fw.name

OwnData(n) == \A k \in 0 .. MemWords - 1 : k < n => dmem[k][1] = fw.name

(* The words written so far are in place, and the write pointer is at the  *)
(* next; afterwards the block is there whole, if there is room for it.     *)
CodeInPlace ==
  /\ pc = "imemWord" =>
       /\ fw.aligned /\ word < fw.words /\ imemPtr = word % MemWords
       /\ OwnCode(word) /\ (fw.words <= MemWords => HasCode(word))
  /\ pc \in CodeDone /\ fw.aligned =>
       OwnCode(fw.words) /\ (fw.words <= MemWords => HasCode(fw.words))

DataInPlace ==
  /\ pc = "dmemWord" =>
       /\ fw.dataAligned /\ word < fw.data /\ dmemPtr = word % MemWords
       /\ OwnData(word) /\ (fw.data <= MemWords => HasData(word))
  /\ pc \in DataDone /\ fw.dataAligned =>
       OwnData(fw.data) /\ (fw.data <= MemWords => HasData(fw.data))

Places == HaltedWhileLoading /\ CallHasImage /\ CodeInPlace /\ DataInPlace

LEMMA TypeInit == Init => TypeOK
BY MemoryAssumption DEF Init, TypeOK, Names, Words, Blank

(* Types: each step keeps them, because an upload stops at the last word   *)
(* of its image and an empty one writes nothing.                           *)
LEMMA TypeNext == TypeOK /\ Places /\ [Next]_vars => TypeOK'
<1> SUFFICES ASSUME TypeOK, Places, [Next]_vars PROVE TypeOK'
  OBVIOUS
<1> USE MemoryAssumption DEF TypeOK, memory
<1>w. ASSUME pc # "idle", NEW k \in Nat
      PROVE  <<fw.name, k>> \in Words
  BY <1>w DEF Places, CallHasImage, Words, Names
<1>1. CASE Halt
  BY <1>1 DEF Halt, Names
<1>2. CASE ReadIrq
  BY <1>2 DEF ReadIrq
<1>3. CASE ClearIrq
  BY <1>3 DEF ClearIrq
<1>4. CASE SelectImem
  <2>1. fw.words \in Nat
    BY <1>4 DEF SelectImem, Places, CallHasImage
  <2>2. fw.words # 0 => 0 < fw.words
    BY <2>1
  <2> QED BY <1>4, <2>2 DEF SelectImem
<1>5. CASE SkipImem
  BY <1>5 DEF SkipImem
<1>6. CASE WriteImem
  <2>1. word \in Nat /\ word < fw.words /\ fw.words \in Nat /\ fw \in Firmware
    BY <1>6 DEF WriteImem, Places, CallHasImage
  <2>2. <<fw.name, word>> \in Words
    BY <2>1, <1>w, <1>6 DEF WriteImem
  <2>3. imem' \in [0 .. MemWords - 1 -> Words]
    BY <1>6, <2>2 DEF WriteImem
  <2>4. imemPtr' \in 0 .. MemWords - 1
    <3>1. imemPtr + 1 \in Nat /\ imemPtr' = (imemPtr + 1) % MemWords
      BY <1>6 DEF WriteImem
    <3> QED BY <3>1, NextPointer
  <2>5. word' \in Nat /\ word' = word + 1 /\ fw' = fw
    BY <1>6, <2>1 DEF WriteImem
  <2>6. word' # fw.words => word' < fw'.words
    BY <2>1, <2>5
  <2> QED BY <1>6, <2>3, <2>4, <2>5, <2>6 DEF WriteImem
<1>7. CASE SelectDmem
  BY <1>7 DEF SelectDmem
<1>8. CASE SkipDmem
  BY <1>8 DEF SkipDmem
<1>9. CASE WriteDmem
  <2>1. word \in Nat /\ word < fw.data /\ fw.data \in Nat /\ fw \in Firmware
    BY <1>9 DEF WriteDmem, Places, CallHasImage
  <2>2. <<fw.name, word>> \in Words
    BY <2>1, <1>w, <1>9 DEF WriteDmem
  <2>3. dmem' \in [0 .. MemWords - 1 -> Words]
    BY <1>9, <2>2 DEF WriteDmem
  <2>4. dmemPtr' \in 0 .. MemWords - 1
    <3>1. dmemPtr + 1 \in Nat /\ dmemPtr' = (dmemPtr + 1) % MemWords
      BY <1>9 DEF WriteDmem
    <3> QED BY <3>1, NextPointer
  <2>5. word' \in Nat /\ word' = word + 1 /\ fw' = fw
    BY <1>9, <2>1 DEF WriteDmem
  <2>6. word' # fw.data => word' < fw'.data
    BY <2>1, <2>5
  <2> QED BY <1>9, <2>3, <2>4, <2>5, <2>6 DEF WriteDmem
<1>10. CASE Boot
  BY <1>10 DEF Boot
<1>11. CASE Poll
  BY <1>11 DEF Poll
<1>12. CASE PollReady
  BY <1>12 DEF PollReady, Return
<1>13. CASE PollTimeout
  BY <1>13 DEF PollTimeout, Return
<1>14. ASSUME NEW f \in Firmware, Begin(f) PROVE TypeOK'
  BY <1>14 DEF Begin
<1>15. ASSUME NEW f \in Firmware, ComeUp(f) PROVE TypeOK'
  <2>1. f.name \in Names \ {"none"}
    BY NameAssumption DEF Names
  <2> QED BY <1>15, <2>1 DEF ComeUp, host
<1>16. ASSUME NEW b \in Sources, RaiseIrq(b) PROVE TypeOK'
  BY <1>16 DEF RaiseIrq, host
<1>17. CASE UNCHANGED vars
  BY <1>17 DEF vars, host, Names
<1> QED
  BY <1>1, <1>2, <1>3, <1>4, <1>5, <1>6, <1>7, <1>8, <1>9, <1>10, <1>11, <1>12, <1>13, <1>14,
     <1>15, <1>16, <1>17 DEF Next, HostStep

LEMMA PlacesInit == Init => Places
BY DEF Init, Places, HaltedWhileLoading, CallHasImage, CodeInPlace, DataInPlace, Loading,
       CodeDone, DataDone

LEMMA PlacesNext == TypeOK /\ Places /\ [Next]_vars => Places'
<1> SUFFICES ASSUME TypeOK, Places, [Next]_vars PROVE Places'
  OBVIOUS
<1> USE DEF Places, HaltedWhileLoading, CallHasImage, CodeInPlace, DataInPlace, HasCode,
            HasData, OwnCode, OwnData, Loading, CodeDone, DataDone, memory
<1>i. inits \in Nat
  BY MemoryAssumption DEF TypeOK
<1>1. CASE Halt
  BY <1>1 DEF Halt
<1>2. CASE ReadIrq
  BY <1>2 DEF ReadIrq
<1>3. CASE ClearIrq
  BY <1>3 DEF ClearIrq
<1>4. CASE SelectImem
  <2>1. fw.words \in Nat /\ MemWords \in Nat \ {0}
    BY <1>4, MemoryAssumption DEF SelectImem
  <2>2. 0 % MemWords = 0
    BY <2>1
  <2>3. CASE fw.words = 0
    BY <1>4, <2>3 DEF SelectImem
  <2>4. CASE fw.words # 0
    <3>1. 0 < fw.words
      BY <2>1, <2>4
    <3> QED BY <1>4, <2>2, <2>4, <3>1 DEF SelectImem
  <2> QED BY <2>3, <2>4
<1>5. CASE SkipImem
  BY <1>5 DEF SkipImem
<1>6. CASE WriteImem
  <2>1. word \in Nat /\ fw \in Firmware /\ word < fw.words /\ imemPtr = word % MemWords
    BY <1>6 DEF WriteImem, TypeOK
  <2>2. fw.words \in Nat /\ MemWords \in Nat \ {0}
    BY <2>1, MemoryAssumption
  <2>3. word' = word + 1 /\ fw' = fw /\ imemPtr' = (imemPtr + 1) % MemWords
    BY <1>6 DEF WriteImem
  <2>4. \A k \in 0 .. MemWords - 1 :
          imem'[k] = IF k = imemPtr THEN <<fw.name, word>> ELSE imem[k]
    BY <1>6 DEF WriteImem, TypeOK
  <2>5. imemPtr' = word' % MemWords
    BY <2>1, <2>3, NextPointer
  <2>6. OwnCode(word)
    BY <1>6 DEF WriteImem
  <2>7. OwnCode(word)'
    <3> SUFFICES ASSUME NEW k \in 0 .. MemWords - 1, k < word + 1
                 PROVE  imem'[k][1] = fw.name
      BY <2>3 DEF OwnCode, OwnData
    <3>1. CASE k < word
      BY <2>4, <2>6, <3>1
    <3>2. CASE k = word
      <4>1. word < MemWords
        BY <2>2, <3>2
      <4>2. word % MemWords = word
        BY <2>1, <4>1, NextPointer
      <4> QED BY <2>1, <2>4, <3>2, <4>2
    <3> QED BY <2>1, <2>2, <3>1, <3>2
  <2>8. ASSUME fw.words <= MemWords PROVE HasCode(word)'
    <3> SUFFICES ASSUME NEW k \in 0 .. (word + 1) - 1
                 PROVE  imem'[k] = <<fw.name, k>>
      BY <2>3
    <3>1. word < MemWords /\ imemPtr = word /\ HasCode(word)
      <4>1. word < MemWords
        BY <2>1, <2>2, <2>8
      <4>2. word % MemWords = word
        BY <2>1, <4>1, NextPointer
      <4>3. HasCode(word)
        BY <1>6, <2>8 DEF WriteImem
      <4> QED BY <2>1, <4>1, <4>2, <4>3
    <3>2. k \in 0 .. MemWords - 1
      BY <2>1, <2>2, <3>1
    <3>3. CASE k < word
      BY <2>1, <2>4, <3>1, <3>2, <3>3
    <3>4. CASE k = word
      BY <2>4, <3>1, <3>2, <3>4
    <3> QED BY <2>1, <3>3, <3>4
  <2>9. CodeInPlace'
    <3>1. CASE word + 1 = fw.words
      BY <1>6, <2>1, <2>3, <2>7, <2>8, <3>1 DEF WriteImem
    <3>2. CASE word + 1 # fw.words
      <4>1. word + 1 < fw.words
        BY <2>1, <2>2, <3>2
      <4> QED BY <1>6, <2>3, <2>5, <2>7, <2>8, <3>2, <4>1 DEF WriteImem
    <3> QED BY <3>1, <3>2
  <2> QED BY <1>6, <2>9 DEF WriteImem
<1>7. CASE SelectDmem
  <2>1. fw.data \in Nat /\ fw.data > 0 /\ MemWords \in Nat \ {0}
    BY <1>7, MemoryAssumption DEF SelectDmem
  <2>2. 0 % MemWords = 0
    BY <2>1
  <2> QED BY <1>7, <2>1, <2>2 DEF SelectDmem
<1>8. CASE SkipDmem
  BY <1>8 DEF SkipDmem
<1>9. CASE WriteDmem
  <2>1. word \in Nat /\ fw \in Firmware /\ word < fw.data /\ dmemPtr = word % MemWords
    BY <1>9 DEF WriteDmem, TypeOK
  <2>2. fw.data \in Nat /\ MemWords \in Nat \ {0}
    BY <2>1, MemoryAssumption
  <2>3. word' = word + 1 /\ fw' = fw /\ dmemPtr' = (dmemPtr + 1) % MemWords
    BY <1>9 DEF WriteDmem
  <2>4. \A k \in 0 .. MemWords - 1 :
          dmem'[k] = IF k = dmemPtr THEN <<fw.name, word>> ELSE dmem[k]
    BY <1>9 DEF WriteDmem, TypeOK
  <2>5. dmemPtr' = word' % MemWords
    BY <2>1, <2>3, NextPointer
  <2>6. OwnData(word)
    BY <1>9 DEF WriteDmem
  <2>7. OwnData(word)'
    <3> SUFFICES ASSUME NEW k \in 0 .. MemWords - 1, k < word + 1
                 PROVE  dmem'[k][1] = fw.name
      BY <2>3 DEF OwnCode, OwnData
    <3>1. CASE k < word
      BY <2>4, <2>6, <3>1
    <3>2. CASE k = word
      <4>1. word < MemWords
        BY <2>2, <3>2
      <4>2. word % MemWords = word
        BY <2>1, <4>1, NextPointer
      <4> QED BY <2>1, <2>4, <3>2, <4>2
    <3> QED BY <2>1, <2>2, <3>1, <3>2
  <2>8. ASSUME fw.data <= MemWords PROVE HasData(word)'
    <3> SUFFICES ASSUME NEW k \in 0 .. (word + 1) - 1
                 PROVE  dmem'[k] = <<fw.name, k>>
      BY <2>3
    <3>1. word < MemWords /\ dmemPtr = word /\ HasData(word)
      <4>1. word < MemWords
        BY <2>1, <2>2, <2>8
      <4>2. word % MemWords = word
        BY <2>1, <4>1, NextPointer
      <4>3. HasData(word)
        BY <1>9, <2>8 DEF WriteDmem
      <4> QED BY <2>1, <4>1, <4>2, <4>3
    <3>2. k \in 0 .. MemWords - 1
      BY <2>1, <2>2, <3>1
    <3>3. CASE k < word
      BY <2>1, <2>4, <3>1, <3>2, <3>3
    <3>4. CASE k = word
      BY <2>4, <3>1, <3>2, <3>4
    <3> QED BY <2>1, <3>3, <3>4
  <2>9. DataInPlace'
    <3>1. CASE word + 1 = fw.data
      BY <1>9, <2>1, <2>3, <2>7, <2>8, <3>1 DEF WriteDmem
    <3>2. CASE word + 1 # fw.data
      <4>1. word + 1 < fw.data
        BY <2>1, <2>2, <3>2
      <4> QED BY <1>9, <2>3, <2>5, <2>7, <2>8, <3>2, <4>1 DEF WriteDmem
    <3> QED BY <3>1, <3>2
  <2> QED BY <1>9, <2>9 DEF WriteDmem
<1>10. CASE Boot
  BY <1>10 DEF Boot
<1>11. CASE Poll
  BY <1>11 DEF Poll
<1>12. CASE PollReady
  BY <1>12 DEF PollReady, Return
<1>13. CASE PollTimeout
  BY <1>13 DEF PollTimeout, Return
<1>14. ASSUME NEW f \in Firmware, Begin(f) PROVE Places'
  BY <1>14, <1>i DEF Begin
<1>15. ASSUME NEW f \in Firmware, ComeUp(f) PROVE Places'
  BY <1>15 DEF ComeUp, host
<1>16. ASSUME NEW b \in Sources, RaiseIrq(b) PROVE Places'
  BY <1>16 DEF RaiseIrq, host
<1>17. CASE UNCHANGED vars
  BY <1>17 DEF vars, host
<1> QED
  BY <1>1, <1>2, <1>3, <1>4, <1>5, <1>6, <1>7, <1>8, <1>9, <1>10, <1>11, <1>12, <1>13, <1>14,
     <1>15, <1>16, <1>17 DEF Next, HostStep

LEMMA Inductive == Spec => [](TypeOK /\ Places)
<1>1. TypeOK /\ Places /\ [Next]_vars => (TypeOK /\ Places)'
  BY TypeNext, PlacesNext
<1> QED BY <1>1, TypeInit, PlacesInit, PTL DEF Spec

(* Falcon.TypeOK: whatever the length of the images, empty or larger than  *)
(* the memory, no upload reads past the end of its slice.                  *)
THEOREM TypeCorrect == Spec => []TypeOK
BY Inductive, PTL

(* Falcon.WholeImage: while it executes an image of proper length the      *)
(* Falcon's memory holds that image whole if there is room for it, and in  *)
(* any case none of what was loaded before in the words it covers.         *)
THEOREM BootsWholeImage == Spec => []WholeImage
<1>1. Places => WholeImage
  BY DEF Places, CodeInPlace, DataInPlace, HasCode, HasData, OwnCode, OwnData, CodeDone,
         DataDone, WholeImage, Loaded, Fits
<1> QED BY <1>1, Inductive, PTL

(* Falcon.CodeStable: the uploads come between halt and boot.              *)
THEOREM CodeIsStable == Spec => CodeStable
<1>1. Places /\ [Next]_vars => [UNCHANGED <<imem, dmem>> \/ cpu = "halted"]_vars
  <2> SUFFICES ASSUME Places, Next, ~ (cpu = "halted") PROVE UNCHANGED <<imem, dmem>>
    OBVIOUS
  <2>1. pc \notin Loading
    BY DEF Places, HaltedWhileLoading
  <2>2. ~ WriteImem /\ ~ WriteDmem
    BY <2>1 DEF WriteImem, WriteDmem, Loading
  <2>3. ASSUME HostStep PROVE UNCHANGED <<imem, dmem>>
    BY <2>2, <2>3 DEF HostStep, Halt, ReadIrq, ClearIrq, SelectImem, SkipImem, SelectDmem,
                      SkipDmem, Boot, Poll, PollReady, PollTimeout, Return, memory
  <2>4. ASSUME NEW f \in Firmware, Begin(f) \/ ComeUp(f) PROVE UNCHANGED <<imem, dmem>>
    BY <2>4 DEF Begin, ComeUp, memory
  <2>5. ASSUME NEW b \in Sources, RaiseIrq(b) PROVE UNCHANGED <<imem, dmem>>
    BY <2>5 DEF RaiseIrq, memory
  <2> QED BY <2>3, <2>4, <2>5 DEF Next
<1> QED BY <1>1, Inductive, PTL DEF Spec, CodeStable

(* Falcon.NoIrqLost: clear_interrupts writes back what it read.            *)
THEOREM IrqNotLost == Spec => NoIrqLost
<1>1. [Next]_vars => [irq \ irq' \subseteq pending]_vars
  <2> SUFFICES ASSUME Next PROVE irq \ irq' \subseteq pending
    OBVIOUS
  <2>1. ASSUME ClearIrq PROVE irq \ irq' \subseteq pending
    BY <2>1 DEF ClearIrq
  <2>2. ASSUME HostStep, ~ ClearIrq PROVE irq' = irq
    BY <2>2 DEF HostStep, Halt, ReadIrq, SelectImem, SkipImem, WriteImem, SelectDmem,
                SkipDmem, WriteDmem, Boot, Poll, PollReady, PollTimeout, Return
  <2>3. ASSUME NEW f \in Firmware, Begin(f) \/ ComeUp(f) PROVE irq' = irq
    BY <2>3 DEF Begin, ComeUp
  <2>4. ASSUME NEW b \in Sources, RaiseIrq(b) PROVE irq \ irq' \subseteq pending
    BY <2>4 DEF RaiseIrq
  <2> QED BY <2>1, <2>2, <2>3, <2>4 DEF Next
<1> QED BY <1>1, PTL DEF Spec, NoIrqLost

-----------------------------------------------------------------------------
(* The first call: only words of its image were ever written, so only that *)
(* image can have come up, and it has not while it is being loaded.        *)
NoCallYet == inits = 0 => pc = "idle" /\ cpu = "halted" /\ os = "zero" /\ result = "none"

NothingElseLoaded ==
  \A k \in 0 .. MemWords - 1 :
    /\ inits = 0 => imem[k][1] = "none"
    /\ inits = 1 => imem[k][1] \in {"none", fw.name}

NotUpWhileLoading == inits = 1 /\ pc \notin {"poll", "idle"} => cpu = "halted" /\ os = "zero"

UpMeansOwn ==
  /\ inits = 1 /\ os # "zero" => ready = fw.name
  /\ inits = 1 /\ pc = "idle" /\ result = "true" => ready = fw.name

FirstCall == NoCallYet /\ NothingElseLoaded /\ NotUpWhileLoading /\ UpMeansOwn

LEMMA FirstCallInit == Init => FirstCall
BY DEF Init, Blank, FirstCall, NoCallYet, NothingElseLoaded, NotUpWhileLoading, UpMeansOwn

LEMMA FirstCallNext == TypeOK /\ Places /\ FirstCall /\ [Next]_vars => FirstCall'
<1> SUFFICES ASSUME TypeOK, Places, FirstCall, [Next]_vars PROVE FirstCall'
  OBVIOUS
<1> USE DEF FirstCall, NoCallYet, NothingElseLoaded, NotUpWhileLoading, UpMeansOwn, memory
<1>1. CASE Halt
  BY <1>1 DEF Halt
<1>2. CASE ReadIrq
  BY <1>2 DEF ReadIrq
<1>3. CASE ClearIrq
  BY <1>3 DEF ClearIrq
<1>4. CASE SelectImem
  BY <1>4 DEF SelectImem
<1>5. CASE SkipImem
  BY <1>5 DEF SkipImem
<1>6. CASE WriteImem
  <2>1. \A k \in 0 .. MemWords - 1 :
          imem'[k] = IF k = imemPtr THEN <<fw.name, word>> ELSE imem[k]
    BY <1>6 DEF WriteImem, TypeOK
  <2>2. fw' = fw /\ inits' = inits /\ inits # 0
    BY <1>6 DEF WriteImem
  <2>3. NothingElseLoaded'
    BY <2>1, <2>2
  <2> QED BY <1>6, <2>3 DEF WriteImem
<1>7. CASE SelectDmem
  BY <1>7 DEF SelectDmem
<1>8. CASE SkipDmem
  BY <1>8 DEF SkipDmem
<1>9. CASE WriteDmem
  BY <1>9 DEF WriteDmem
<1>10. CASE Boot
  BY <1>10 DEF Boot
<1>11. CASE Poll
  BY <1>11 DEF Poll
<1>12. CASE PollReady
  BY <1>12 DEF PollReady, Return
<1>13. CASE PollTimeout
  BY <1>13 DEF PollTimeout, Return
<1>14. ASSUME NEW f \in Firmware, Begin(f) PROVE FirstCall'
  <2>1. inits \in Nat
    BY MemoryAssumption DEF TypeOK
  <2> QED BY <1>14, <2>1 DEF Begin
<1>15. ASSUME NEW f \in Firmware, ComeUp(f) PROVE FirstCall'
  <2>1. imem[0] = <<f.name, 0>> /\ 0 \in 0 .. MemWords - 1
    <3>1. f.words \in Nat /\ f.words > 0 /\ MemWords \in Nat \ {0}
      BY <1>15, MemoryAssumption DEF ComeUp
    <3>2. 0 \in 0 .. f.words - 1 /\ 0 \in 0 .. MemWords - 1
      BY <3>1
    <3> QED BY <1>15, <3>2 DEF ComeUp, Loaded
  <2>2. inits = 1 => f.name = fw.name
    BY <2>1, NameAssumption
  <2> QED BY <1>15, <2>2 DEF ComeUp, host
<1>16. ASSUME NEW b \in Sources, RaiseIrq(b) PROVE FirstCall'
  BY <1>16 DEF RaiseIrq, host
<1>17. CASE UNCHANGED vars
  BY <1>17 DEF vars, host
<1> QED
  BY <1>1, <1>2, <1>3, <1>4, <1>5, <1>6, <1>7, <1>8, <1>9, <1>10, <1>11, <1>12, <1>13, <1>14,
     <1>15, <1>16, <1>17 DEF Next, HostStep

(* Falcon.FirstBootHonest: when the first call returns true the image that *)
(* is up is its own, a call whose image was not uploaded included.         *)
THEOREM FirstBoot == Spec => []FirstBootHonest
<1>1. TypeOK /\ Places /\ FirstCall /\ [Next]_vars => FirstCall'
  BY FirstCallNext
<1>2. FirstCall => FirstBootHonest
  BY DEF FirstCall, UpMeansOwn, FirstBootHonest, EveryBootHonest
<1> QED BY <1>1, <1>2, FirstCallInit, Inductive, PTL DEF Spec
=============================================================================
