-------------------------- MODULE MCMrfStateSetters --------------------------
(***************************************************************************)
(* Payload lengths: none, one, the largest that fits beside the largest    *)
(* header, and two that make the uint8_t frame length wrap.                *)
(***************************************************************************)
EXTENDS MrfStateSetters

MCPanIds            == {[i \in 0 .. 1 |-> 10 + i]}
MCShortAddresses    == {[i \in 0 .. 1 |-> 20 + i]}
MCExtendedAddresses == {[i \in 0 .. 7 |-> 40 + i]}
MCPayloadLengths    == {0, 1, LargestPayload, 240, 255}

=============================================================================
