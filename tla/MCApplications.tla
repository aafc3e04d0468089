---------------------------- MODULE MCApplications ----------------------------
(***************************************************************************)
(* Programs on small instances: packets from two nodes with short source   *)
(* addresses, of different lengths, one of which begins with an 'e', and   *)
(* one from a node with an extended source address.  One packet is in the  *)
(* network of the sender, the others in that of the echo.                  *)
(***************************************************************************)
EXTENDS Applications

MCPrograms == {EchoMessageBlocking, NetworkMonitor, SendOneFrameBlocking, PrintTXBuffer}
MCEcho     == {EchoMessageBlocking}
MCConfigs  == {EchoConfig, MonitorConfig}

\* A packet of a node that runs this library.
Frame(pan_id, source, length, e) ==
  LET addressed == FrameHeader802154_setShortDestinationAddress(
                     FrameHeader802154_setPanId(FrameHeader802154_init(0), pan_id),
                     EchoConfig.short_source_address)
      header == IF DOMAIN source = 0 .. 1
                  THEN FrameHeader802154_setShortSourceAddress(addressed, source)
                  ELSE FrameHeader802154_setExtendedSourceAddress(addressed, source)
  IN [length      |-> PayloadStart(header) + length + frame_check_sequence_size,
      pan_id      |-> pan_id,
      destination |-> EchoConfig.short_source_address,
      header      |-> header,
      source      |-> source,
      payload     |-> [start  |-> frame_length_field_size + PayloadStart(header),
                       length |-> length],
      e           |-> e]

MCPackets ==
  {Frame(EchoConfig.pan_id, Address(2, 1), 3, TRUE),
   Frame(EchoConfig.pan_id, Address(2, 5), 0, FALSE),
   Frame(EchoConfig.pan_id, Address(8, 33), 4, TRUE),
   Frame(MonitorConfig.pan_id, Address(2, 5), 2, FALSE)}

MCPayloads == {text} \cup {PayloadOf(p) : p \in MCPackets}

=============================================================================
