-------------------------- MODULE MCPacketInspection --------------------------
(***************************************************************************)
(* Two short addresses, so that a source read from the place of the        *)
(* destination is noticed; one extended address and one PAN id.  Payload   *)
(* lengths: none, the largest that fits beside the largest header, and two *)
(* that make the uint8_t frame length wrap.  Foreign frames come with      *)
(* every addressing mode and control bit.                                  *)
(***************************************************************************)
EXTENDS PacketInspection

MCPanIds            == {[i \in 0 .. 1 |-> 10 + i]}
MCShortAddresses    == {[i \in 0 .. 1 |-> 20 + i], [i \in 0 .. 1 |-> 30 + i]}
MCExtendedAddresses == {[i \in 0 .. 7 |-> 40 + i]}
MCPayloadLengths    == {0, LargestPayload, 240, 255}
MCForeignLengths    == {0, LargestPayload}
MCAddressingModes   == {0, 2, 3}
MCFrameControls     == Bit \X Bit

=============================================================================
