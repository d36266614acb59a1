------------------------------ MODULE MCFalcon ------------------------------
(***************************************************************************)
(* Two calls with any of six images: one with data that fills IMEM, a      *)
(* shorter one without data, one that never comes up, one whose length is  *)
(* not a multiple of four, one that is larger than both memories, and one  *)
(* without code.                                                           *)
(***************************************************************************)
EXTENDS Falcon

Image(name, words, data, aligned, comesUp) ==
  [name |-> name, words |-> words, data |-> data, aligned |-> aligned,
   dataAligned |-> aligned, comesUp |-> comesUp]

MCFirmware == {Image("long", 3, 1, TRUE, TRUE), Image("short", 1, 0, TRUE, TRUE),
               Image("mute", 1, 1, TRUE, FALSE), Image("odd", 2, 1, FALSE, TRUE),
               Image("large", 4, 4, TRUE, TRUE), Image("empty", 0, 1, TRUE, TRUE)}
=============================================================================
