---------------------------- MODULE MCMrfIoOnSpi ----------------------------
(***************************************************************************)
(* The ends of the two address spaces and the boundary between them.  The  *)
(* short addresses 0 and 1 and the long addresses 0 and 1 are different    *)
(* cells; 63 and 64 lie on both sides of isLongAddress.                    *)
(***************************************************************************)
EXTENDS MrfIoOnSpi

MCShortRegisters == {0, 1, 63}
MCLongRegisters  == {64, 1023}
MCFifoAddresses  == {0, 1}
MCBlocks         == {<<5, 9>>}

=============================================================================
