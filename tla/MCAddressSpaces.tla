--------------------------- MODULE MCAddressSpaces --------------------------
(***************************************************************************)
(* Model checking of module AddressSpaces: the kernel is page 2, and the   *)
(* programs are linked at pages 1 and 4, one below and one above it.       *)
(***************************************************************************)
EXTENDS AddressSpaces

MCProgram == {<<4, 4>>, <<1, 4>>}
=============================================================================
