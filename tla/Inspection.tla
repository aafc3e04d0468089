------------------------------ MODULE Inspection ------------------------------
(***************************************************************************)
(* The inspection functions of Mac802154MRFImpl.c.  A packet has the       *)
(* fields `length', its length byte, which counts the frame and its check  *)
(* sequence, and `header'.  A pointer into a packet is its index in the    *)
(* buffer: index 0 is the length byte, the frame starts at index 1.        *)
(***************************************************************************)
EXTENDS Ieee802154

frame_length_field_size == 1

frame_check_sequence_size == 2

\* Faulty: the length byte is forgotten.
getPacketPayloadOfFrame(p) == FrameHeader802154_getHeaderSize(p.header)

getPacketPayload(p) ==
  frame_length_field_size + FrameHeader802154_getHeaderSize(p.header)

getPacketPayloadSize(p) ==
  uint8(p.length - FrameHeader802154_getHeaderSize(p.header) - frame_check_sequence_size)

packetAddressIsShort(p) == FrameHeader802154_getSourceAddressSize(p.header) = 2
packetAddressIsLong(p)  == FrameHeader802154_getSourceAddressSize(p.header) = 8

getPacketSourceAddressSize(p) == FrameHeader802154_getSourceAddressSize(p.header)

\* Faulty: the pointer to the destination address.
getPacketDestinationAddress(p, size) ==
  [i \in 0 .. (size - 1) |->
     p.header.data[FrameHeader802154_getDestinationAddressOffset(p.header) + i]]

\* The bytes behind the pointer that getPacketExtendedSourceAddress and
\* getPacketShortSourceAddress both return, as many as `size'.
getPacketSourceAddress(p, size) ==
  [i \in 0 .. (size - 1) |->
     p.header.data[FrameHeader802154_getSourceAddressOffset(p.header) + i]]

-----------------------------------------------------------------------------
\* The transmit memory of a sender holds 128 bytes, its two length bytes included;
\* the check sequence is added on air.
LargestPacket == 128

\* A packet of a node that runs this library, with the source address and the
\* place and length of the payload that node meant.
IsOfThisLibrary(p) ==
  /\ WellFormed(p.header)
  /\ p.source = ParsedSource(p.header)
  /\ p.payload.start = frame_length_field_size + PayloadStart(p.header)
  /\ p.payload.length \in Nat
  /\ p.length = PayloadStart(p.header) + p.payload.length + frame_check_sequence_size
  /\ p.length <= LargestPacket

=============================================================================
