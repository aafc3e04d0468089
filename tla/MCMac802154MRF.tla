--------------------------- MODULE MCMac802154MRF ---------------------------
(***************************************************************************)
(* Small instances of the driver and its chip: two configurations, the     *)
(* second on another channel, one destination of each size, the extended   *)
(* one being that of the configuration, one payload, and one packet, for   *)
(* the first configuration.                                                *)
(***************************************************************************)
EXTENDS Mac802154MRF

ShortAddress(b)    == [i \in 0 .. 1 |-> b + i]
ExtendedAddress(b) == [i \in 0 .. 7 |-> b + i]

Home == [short_source_address    |-> ShortAddress(16),
         extended_source_address |-> ExtendedAddress(32),
         pan_id                  |-> ShortAddress(48),
         channel                 |-> 11]
Away == [short_source_address    |-> ShortAddress(64),
         extended_source_address |-> ExtendedAddress(80),
         pan_id                  |-> ShortAddress(96),
         channel                 |-> 26]

MCOneConfig            == {Home}
MCTwoConfigs           == {Home, Away}
MCShortDestinations    == {ShortAddress(112)}
MCExtendedDestinations == {coordinators_address}
MCPayloadLengths       == {3}

PacketTo(destination, length) ==
  [length |-> length, pan_id |-> Home.pan_id, destination |-> destination]

MCOnePacket == {PacketTo(Home.short_source_address, 20)}

=============================================================================
