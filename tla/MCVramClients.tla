---------------------------- MODULE MCVramClients ----------------------------
(***************************************************************************)
(* Pages of 4 bytes and a 64-valued word.  Requests: a matrix, an odd      *)
(* number of packed elements, a scalar, a shape whose product wraps to     *)
(* zero, one whose size wraps when it is rounded up to a page, and packed  *)
(* elements whose bytes are few but whose number wraps.  Two channels need *)
(* two pages.                                                              *)
(***************************************************************************)
EXTENDS VramClients

MCRequests ==
  {[shape |-> <<2, 3>>, dtype |-> "Float16"], [shape |-> <<9>>, dtype |-> "Int4"],
   [shape |-> << >>, dtype |-> "Float32"],
   [shape |-> <<8, 8>>, dtype |-> "Int8"], [shape |-> <<7, 9>>, dtype |-> "Int8"],
   [shape |-> <<8, 9>>, dtype |-> "Int4"]}

MCRegs == {0, 4}
=============================================================================
