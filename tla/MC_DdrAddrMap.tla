---------------------------- MODULE MC_DdrAddrMap ----------------------------
(***************************************************************************)
(* SPD values for checking DdrAddrMap: every organization byte (ranks and *)
(* device width, bits 7:6 reserved), every bank-group code, every row     *)
(* address code, a 32-bit and a 64-bit primary bus with and without the  *)
(* ECC extension, one or two DIMMs; mirrored, registered and 2T from     *)
(* flash are BOOLEAN in DdrAddrMap.                                      *)
(***************************************************************************)
EXTENDS DdrAddrMap

MC_OrgBytes == 0..63
MC_DensityBytes == {0, 64, 128, 192}
MC_AddressingBytes == {8 * k : k \in 0..7}
MC_BusWidthBytes == {2, 3, 10, 11}
MC_DimmCounts == {1, 2}
=============================================================================
