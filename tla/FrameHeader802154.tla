-------------------------- MODULE FrameHeader802154 --------------------------
(***************************************************************************)
(* The 802.15.4 MAC header as src/Mac802154/MRF/FrameHeader802154.c builds *)
(* and reads it.  A header is one value; every C function that writes      *)
(* through its `self' pointer is an operator from header to header, under  *)
(* the function's own name.                                                *)
(*                                                                         *)
(* The two control bytes are kept as the record of the bit fields that the *)
(* code ever changes or tests; the remaining bytes of the C array `data'   *)
(* keep their index.  Index MAXIMUM_HEADER_SIZE is the byte behind the     *)
(* array: it belongs to whatever follows the header in memory and is part  *)
(* of the model because moveRight can reach it.                            *)
(***************************************************************************)
EXTENDS Integers, Bytes

MAXIMUM_HEADER_SIZE == 21
HeaderIndex == 2 .. MAXIMUM_HEADER_SIZE

ADDRESSING_MODE_NEITHER_PAN_NOR_ADDRESS_PRESENT == 0
ADDRESSING_MODE_SHORT_ADDRESS    == 2
ADDRESSING_MODE_EXTENDED_ADDRESS == 3

AddressingMode == 0 .. 3

control_field_size == 2
pan_id_size        == 2

FrameHeaders ==
  [pan_id_compression          : Bit,
   sequence_number_suppression : Bit,
   acknowledgement_request     : Bit,
   destination_addressing_mode : AddressingMode,
   source_addressing_mode      : AddressingMode,
   data                        : [HeaderIndex -> Byte]]

PanIdBytes    == [0 .. 1 -> Byte]
ShortBytes    == [0 .. 1 -> Byte]
ExtendedBytes == [0 .. 7 -> Byte]

-----------------------------------------------------------------------------
(* Bytes in the array.                                                     *)

\* BitManipulation_copyBytes: `size' bytes land at index `first'.
BitManipulation_copyBytes(bytes, data, first, size) ==
  [i \in DOMAIN data |->
     IF i \in first .. (first + size - 1) THEN bytes[i - first] ELSE data[i]]

\* Faulty: one byte too many.
moveOneByteMore(data, first, number_of_elements, distance) ==
  [i \in DOMAIN data |->
     IF i \in (first + distance) .. (first + distance + number_of_elements)
       THEN data[i - distance] ELSE data[i]]

\* moveRight runs from the last byte down and moveLeft from the first byte up,
\* so both copy every byte before it is overwritten.  The bytes that are not
\* overwritten keep their value: nothing is cleared behind a move.
moveBytes(data, first, number_of_elements, distance) ==
  [i \in DOMAIN data |->
     IF i \in (first + distance) .. (first + distance + number_of_elements - 1)
       THEN data[i - distance] ELSE data[i]]

-----------------------------------------------------------------------------
(* Sizes and offsets.                                                      *)

getAddressSize(mode) ==
  IF mode = ADDRESSING_MODE_EXTENDED_ADDRESS THEN 8
  ELSE IF mode = ADDRESSING_MODE_SHORT_ADDRESS THEN 2 ELSE 0

sequenceNumberIsPresent(h) == h.sequence_number_suppression = 0

panIdIsPresent(h) ==
  \/ /\ h.source_addressing_mode = ADDRESSING_MODE_EXTENDED_ADDRESS
     /\ h.destination_addressing_mode = ADDRESSING_MODE_EXTENDED_ADDRESS
  \/ h.pan_id_compression = 1

FrameHeader802154_getSequenceNumberSize(h) ==
  IF sequenceNumberIsPresent(h) THEN 1 ELSE 0

FrameHeader802154_getPanIdSize(h) == IF panIdIsPresent(h) THEN 2 ELSE 0

FrameHeader802154_getSourceAddressSize(h) ==
  getAddressSize(h.source_addressing_mode)

FrameHeader802154_getDestinationAddressSize(h) ==
  getAddressSize(h.destination_addressing_mode)

\* Faulty: the PAN id is forgotten.
getHeaderSizeWithoutPanId(h) ==
  control_field_size
    + FrameHeader802154_getSequenceNumberSize(h)
    + FrameHeader802154_getSourceAddressSize(h)
    + FrameHeader802154_getDestinationAddressSize(h)

FrameHeader802154_getHeaderSize(h) ==
  control_field_size
    + FrameHeader802154_getSequenceNumberSize(h)
    + FrameHeader802154_getPanIdSize(h)
    + FrameHeader802154_getSourceAddressSize(h)
    + FrameHeader802154_getDestinationAddressSize(h)

getPanIdOffset(h) ==
  control_field_size + FrameHeader802154_getSequenceNumberSize(h)

\* Unlike getHeaderSize, the offsets count the PAN id even if panIdIsPresent
\* says that there is none.
FrameHeader802154_getDestinationAddressOffset(h) ==
  getPanIdOffset(h) + pan_id_size

FrameHeader802154_getSourceAddressOffset(h) ==
  FrameHeader802154_getDestinationAddressOffset(h)
    + FrameHeader802154_getDestinationAddressSize(h)

-----------------------------------------------------------------------------
(* Moving the fields behind one that grows or shrinks.                     *)

moveSourceAddress(h, distance) ==
  [h EXCEPT !.data = moveBytes(@, FrameHeader802154_getSourceAddressOffset(h),
                               FrameHeader802154_getSourceAddressSize(h), distance)]

\* Faulty: the destination address first, over the source address.
moveDestinationAddressFirst(h, distance) ==
  moveSourceAddress(
    [h EXCEPT
       !.data = moveBytes(@, FrameHeader802154_getDestinationAddressOffset(h), 8, distance)],
    distance)

\* Always eight bytes, whatever the size of the destination address.
moveDestinationAddress(h, distance) ==
  [moveSourceAddress(h, distance) EXCEPT
     !.data = moveBytes(@, FrameHeader802154_getDestinationAddressOffset(h), 8, distance)]

movePanId(h, distance) ==
  [moveDestinationAddress(h, distance) EXCEPT
     !.data = moveBytes(@, getPanIdOffset(h), 2, distance)]

-----------------------------------------------------------------------------
(* The setters.                                                            *)

\* `adjacent' is the byte behind the array, which init leaves alone.
FrameHeader802154_init(adjacent) ==
  [pan_id_compression          |-> 1,
   sequence_number_suppression |-> 0,
   acknowledgement_request     |-> 0,
   destination_addressing_mode |-> ADDRESSING_MODE_SHORT_ADDRESS,
   source_addressing_mode      |-> ADDRESSING_MODE_SHORT_ADDRESS,
   data |-> [i \in HeaderIndex |-> IF i < MAXIMUM_HEADER_SIZE THEN 0 ELSE adjacent]]

FrameHeader802154_setPanId(h, pan_id) ==
  [h EXCEPT !.data = [@ EXCEPT ![getPanIdOffset(h)] = pan_id[0],
                               ![getPanIdOffset(h) + 1] = pan_id[1]]]

\* Faulty: PAN id compression stays on.
setExtendedSourceAddressCompressed(h, address) ==
  [h EXCEPT
     !.data = BitManipulation_copyBytes(address, @,
                 FrameHeader802154_getSourceAddressOffset(h), 8),
     !.source_addressing_mode = ADDRESSING_MODE_EXTENDED_ADDRESS]

FrameHeader802154_setExtendedSourceAddress(h, address) ==
  [h EXCEPT
     !.data = BitManipulation_copyBytes(address, @,
                 FrameHeader802154_getSourceAddressOffset(h), 8),
     !.pan_id_compression =
        IF h.destination_addressing_mode = ADDRESSING_MODE_EXTENDED_ADDRESS
          THEN 0 ELSE @,
     !.source_addressing_mode = ADDRESSING_MODE_EXTENDED_ADDRESS]

\* Faulty: the old mode is cleared and the new one not set.
setShortSourceAddressWithoutMode(h, address) ==
  [h EXCEPT
     !.data = BitManipulation_copyBytes(address, @,
                 FrameHeader802154_getSourceAddressOffset(h), 2),
     !.pan_id_compression = 1,
     !.source_addressing_mode = ADDRESSING_MODE_NEITHER_PAN_NOR_ADDRESS_PRESENT]

FrameHeader802154_setShortSourceAddress(h, address) ==
  [h EXCEPT
     !.data = BitManipulation_copyBytes(address, @,
                 FrameHeader802154_getSourceAddressOffset(h), 2),
     !.pan_id_compression = 1,
     !.source_addressing_mode = ADDRESSING_MODE_SHORT_ADDRESS]

\* Faulty: room is made even if the destination was extended already.
setExtendedDestinationAddressAlwaysMoving(h, address) ==
  [moveSourceAddress(h, 6) EXCEPT
     !.data = BitManipulation_copyBytes(address, @,
                 FrameHeader802154_getDestinationAddressOffset(h), 8),
     !.pan_id_compression =
        IF h.source_addressing_mode = ADDRESSING_MODE_EXTENDED_ADDRESS THEN 0 ELSE @,
     !.destination_addressing_mode = ADDRESSING_MODE_EXTENDED_ADDRESS]

\* The source address makes room only if the destination was short so far.
FrameHeader802154_setExtendedDestinationAddress(h, address) ==
  LET moved == IF h.destination_addressing_mode = ADDRESSING_MODE_SHORT_ADDRESS
                 THEN moveSourceAddress(h, 6) ELSE h
  IN [moved EXCEPT
        !.data = BitManipulation_copyBytes(address, @,
                    FrameHeader802154_getDestinationAddressOffset(h), 8),
        !.pan_id_compression =
           IF h.source_addressing_mode = ADDRESSING_MODE_EXTENDED_ADDRESS
             THEN 0 ELSE @,
        !.destination_addressing_mode = ADDRESSING_MODE_EXTENDED_ADDRESS]

FrameHeader802154_setShortDestinationAddress(h, address) ==
  LET moved == IF h.destination_addressing_mode = ADDRESSING_MODE_EXTENDED_ADDRESS
                 THEN moveSourceAddress(h, -6) ELSE h
  IN [moved EXCEPT
        !.data = BitManipulation_copyBytes(address, @,
                    FrameHeader802154_getDestinationAddressOffset(h), 2),
        !.pan_id_compression = 1,
        !.destination_addressing_mode = ADDRESSING_MODE_SHORT_ADDRESS]

FrameHeader802154_enableAcknowledgementRequest(h) ==
  [h EXCEPT !.acknowledgement_request = 1]

FrameHeader802154_enableSequenceNumberSuppression(h) ==
  [h EXCEPT !.sequence_number_suppression = 1]

FrameHeader802154_disableSequenceNumberSuppression(h) ==
  [h EXCEPT !.sequence_number_suppression = 0]

\* The fields move right by one byte whether or not a number is present.
FrameHeader802154_setSequenceNumber(h, number) ==
  [FrameHeader802154_disableSequenceNumberSuppression(movePanId(h, 1)) EXCEPT
     !.data[2] = number]

=============================================================================
