------------------------- MODULE MCFrameHeaderSetters -------------------------
(***************************************************************************)
(* Small instances of FrameHeaderSetters.  The two values of each address  *)
(* differ in every byte, and no two bytes of one value are equal, so that  *)
(* a byte that ends up one place off is seen.                              *)
(***************************************************************************)
EXTENDS FrameHeaderSetters

MCPanIds            == {[i \in 0 .. 1 |-> 10 + i], [i \in 0 .. 1 |-> 60 + i]}
MCShortAddresses    == {[i \in 0 .. 1 |-> 20 + i], [i \in 0 .. 1 |-> 30 + i]}
MCExtendedAddresses == {[i \in 0 .. 7 |-> 40 + i], [i \in 0 .. 7 |-> 50 + i]}
MCOneShortAddress    == {[i \in 0 .. 1 |-> 20 + i]}
MCOneExtendedAddress == {[i \in 0 .. 7 |-> 40 + i]}
MCSequenceNumbers   == {7}
MCAdjacentBytes     == {0, 170}

=============================================================================
