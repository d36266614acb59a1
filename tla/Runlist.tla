------------------------------- MODULE Runlist -------------------------------
(***************************************************************************)
(* A runlist of src/src/fifo.rs: the channels that the GPU's scheduler     *)
(* cycles through, and the block of VRAM that holds them for the GPU.  Its *)
(* methods take &mut self, so every call is one step.  Writing the entries *)
(* into the block and the registers of the list is a TODO of the code.     *)
(***************************************************************************)
EXTENDS VramCalls, Sequences

CONSTANTS
  ChannelIds,
  MaxChannels,  \* bound: length of the list
  EntryBytes    \* bytes of an entry (8)

(* The list of every channel fits the memory of a host. *)
ASSUME RunlistAssumption ==
  /\ MaxChannels \in Nat /\ EntryBytes \in Nat \ {0}
  /\ (MaxChannels * EntryBytes) + PageSize <= Word

VARIABLES
  channels,    \* the list of the host
  allocation,  \* {} or the block of the last successful commit
  committed    \* the list that block was made for

runlistVars == <<channels, allocation, committed>>

ListBytes(list) == Len(list) * EntryBytes

RunlistInit == channels = << >> /\ allocation = {} /\ committed = << >>

AddChannel(c) ==
  /\ Len(channels) < MaxChannels
  /\ channels' = Append(channels, c)
  /\ UNCHANGED <<heap, allocation, committed>>

(* retain: every occurrence goes, the others keep their order. *)
Without(list, c) ==
  LET kept[k \in 0 .. Len(list)] ==
        IF k = 0 THEN << >>
        ELSE IF list[k] = c THEN kept[k - 1] ELSE Append(kept[k - 1], list[k])
  IN kept[Len(list)]

RemoveChannel(c) ==
  /\ channels' = Without(channels, c)
  /\ UNCHANGED <<heap, allocation, committed>>

(* A block for the whole list; the one before is dropped. *)
Commit ==
  /\ channels # << >>
  /\ Allocate(ListBytes(channels))
  /\ allocation' = {NewBlock(ListBytes(channels))}
  /\ committed' = channels
  /\ UNCHANGED channels

(* Variants with a mistake in them precede the definition they vary.       *)
CommitNothing_Dropped ==
  /\ channels = << >> \/ ~ HasRoom(ListBytes(channels))
  /\ allocation' = {}
  /\ UNCHANGED <<heap, channels, committed>>

(* Nothing to list, or no VRAM: commit returns, and the GPU keeps what it  *)
(* has.                                                                    *)
CommitNothing ==
  /\ channels = << >> \/ ~ HasRoom(ListBytes(channels))
  /\ UNCHANGED <<heap, channels, allocation, committed>>

RunlistNext ==
  \/ \E c \in ChannelIds : AddChannel(c) \/ RemoveChannel(c)
  \/ Commit \/ CommitNothing
=============================================================================
