---------------------------- MODULE MCSpiPrograms ----------------------------
(***************************************************************************)
(* All programs at once, on a chip that powers up with zeros, with ones,   *)
(* or receiving.  Two packets of different lengths.                        *)
(***************************************************************************)
EXTENDS SpiPrograms

MCAllPrograms ==
  {ReadTxFifoMemory, ReadMrfTxStabilizationRegister,
   SPITestWithoutCommunicationModuleAndLufa, SPITestWithLufaOnly,
   WriteReadSourceAddress, CheckSetSourceAddresses,
   SendOneFrameUsingPeripheralInterfaceOnly, ReceiveFrameWithSPIOnly}

\* The last one has the interrupt of a packet set that never came.
MCPowerUpContents ==
  {[cell \in Cells |-> 0], [cell \in Cells |-> 255],
   [cell \in Cells |-> CASE cell = Cell("short", mrf_register_receive_mac_control) -> 1
                          [] cell = Cell("short", mrf_register_rf_mode_control)     -> 0
                          [] cell = Cell("short", mrf_register_interrupt_status)    -> 8
                          [] OTHER -> 254]}

MCPackets == {<<5, 1, 2, 3, 4, 5>>, <<7, 11, 12, 13, 14, 15, 16, 17>>}

=============================================================================
