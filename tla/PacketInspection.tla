--------------------------- MODULE PacketInspection ---------------------------
(***************************************************************************)
(* The inspection functions of Mac802154MRFImpl.c on packets that came     *)
(* from another node.  InspectionSpec: it runs this library, and sends     *)
(* what its MrfState holds after any sequence of setters.  ForeignSpec:    *)
(* it is any node that follows the standard.                               *)
(***************************************************************************)
EXTENDS MrfStateSetters, Inspection

CONSTANTS AddressingModes,   \* addressing modes of foreign frames
          FrameControls      \* whether PAN id compression and sequence number
                             \* suppression are on, in foreign frames

ASSUME ForeignAssumption ==
  /\ AddressingModes \subseteq {ADDRESSING_MODE_NEITHER_PAN_NOR_ADDRESS_PRESENT,
                                ADDRESSING_MODE_SHORT_ADDRESS,
                                ADDRESSING_MODE_EXTENDED_ADDRESS}
  /\ FrameControls \subseteq Bit \X Bit

VARIABLES
  source,   \* the source address the sender chose last
  packet    \* what the last fetchPacketBlocking put into the buffer

inspection_vars == <<mrf, submitted, source, packet>>

-----------------------------------------------------------------------------
(* Where packets come from.                                                *)

Setter ==
  \/ \E pan_id \in PanIds : SetPanId(pan_id) /\ UNCHANGED source
  \/ \E address \in ShortAddresses :
       \/ SetShortDestinationAddress(address) /\ UNCHANGED source
       \/ SetShortSourceAddress(address) /\ source' = address
  \/ \E address \in ExtendedAddresses :
       \/ SetExtendedDestinationAddress(address) /\ UNCHANGED source
       \/ SetExtendedSourceAddress(address) /\ source' = address
  \/ EnableAcknowledgement /\ UNCHANGED source
  \/ \E payload \in Payloads, length \in PayloadLengths :
       SetPayload(payload, length) /\ UNCHANGED source

\* The sender's chip puts bytes 2 and up of its transmit FIFO on air, as many as
\* the frame length says, and adds the check sequence.
Deliver ==
  /\ submitted.payload # Null
  /\ HeaderSize = submitted.header_size
  /\ submitted.length <= LargestPayload
  /\ packet' =
       [length  |-> mrf.header.frame_length + frame_check_sequence_size,
        header  |-> mrf.header.frame_header,
        payload |-> [start  |-> MrfState_getPayloadField(mrf).address - length_fields_size
                                  + frame_length_field_size,
                     length |-> submitted.length],
        source  |-> source]
  /\ UNCHANGED <<mrf, submitted, source>>

\* A frame of a foreign node, with a payload of `length' bytes where the standard
\* puts it.  Every byte of the header holds its own index.
ForeignHeader(control, destination_mode, source_mode) ==
  [pan_id_compression          |-> control[1],
   sequence_number_suppression |-> control[2],
   acknowledgement_request     |-> 0,
   destination_addressing_mode |-> destination_mode,
   source_addressing_mode      |-> source_mode,
   data                        |-> [i \in HeaderIndex |-> i]]

DeliverForeign(h, length) ==
  /\ PayloadStart(h) <= MAXIMUM_HEADER_SIZE
  /\ packet' = [length  |-> PayloadStart(h) + length + frame_check_sequence_size,
                header  |-> h,
                payload |-> [start |-> frame_length_field_size + PayloadStart(h),
                             length |-> length],
                source  |-> ParsedSource(h)]
  /\ UNCHANGED <<mrf, submitted, source>>

NoPacket == [length |-> 0]

InspectionInit ==
  /\ Init
  /\ source = ParsedSource(mrf.header.frame_header)
  /\ packet = NoPacket

InspectionNext == (Setter /\ UNCHANGED packet) \/ Deliver

InspectionSpec == InspectionInit /\ [][InspectionNext]_inspection_vars

ForeignNext ==
  \E control \in FrameControls, destination_mode, source_mode \in AddressingModes,
     length \in PayloadLengths :
    DeliverForeign(ForeignHeader(control, destination_mode, source_mode), length)

ForeignSpec == InspectionInit /\ [][ForeignNext]_inspection_vars

-----------------------------------------------------------------------------
\* The payload pointer and size the receiver computes are the place and the
\* length of the payload the sender set: header, MrfState, transmit FIFO and
\* inspection agree on four different layouts of the same bytes
\* (Mac802154MRFImpl.c:312-329, Mac802154.h:111-115).
PayloadIsFound ==
  packet # NoPacket =>
    /\ getPacketPayload(packet) = packet.payload.start
    /\ getPacketPayloadSize(packet) = packet.payload.length

\* The source address the receiver reads is the one the sender chose last, and it
\* is told to be short or long accordingly (Mac802154MRFImpl.c:331-364).
SourceIsFound ==
  packet # NoPacket =>
    /\ getPacketSourceAddress(packet, getPacketSourceAddressSize(packet)) = packet.source
    /\ packetAddressIsShort(packet) <=> DOMAIN packet.source = 0 .. 1
    /\ packetAddressIsLong(packet)  <=> DOMAIN packet.source = 0 .. 7

=============================================================================
