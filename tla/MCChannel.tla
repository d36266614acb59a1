------------------------------ MODULE MCChannel ------------------------------
(***************************************************************************)
(* Two threads, a ring of three slots, a push buffer of three command      *)
(* words: up to six submissions of one or two words wrap the ring, fill    *)
(* the buffer, are refused and follow a reset.                             *)
(***************************************************************************)
EXTENDS Channel
=============================================================================
