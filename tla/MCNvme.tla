------------------------------- MODULE MCNvme -------------------------------
(***************************************************************************)
(* Model checking of module Nvme.  Reads of one byte up to three pages, at *)
(* every offset in a sector; the ids wrap in a round with phase 0, as the  *)
(* 65536 of the code do with queues of 64.                                 *)
(***************************************************************************)
EXTENDS Nvme

MCRequest == [off_bytes : 0 .. 2, num_bytes : 1 .. 13]
=============================================================================
