------------------------------- MODULE MrfState -------------------------------
(***************************************************************************)
(* src/Mac802154/MRF/MRFState.c: the frame under construction, as it will  *)
(* be written to the transmit memory of the MRF24J40.  It keeps the two    *)
(* length bytes the chip wants in front of the header and the pointer to   *)
(* the payload, which stays in the caller's memory.                        *)
(*                                                                         *)
(* A payload pointer is a model value.  The bit mask `state' is the set of *)
(* its flags.  Lengths are uint8_t and wrap.                               *)
(***************************************************************************)
EXTENDS Ieee802154

MRF_STATE_FRAME_LENGTH_CHANGED        == "frame length"
MRF_STATE_DESTINATION_ADDRESS_CHANGED == "destination address"
MRF_STATE_PAYLOAD_CHANGED             == "payload"

MrfStateFlags == {MRF_STATE_FRAME_LENGTH_CHANGED,
                  MRF_STATE_DESTINATION_ADDRESS_CHANGED,
                  MRF_STATE_PAYLOAD_CHANGED}

MrfHeaders == [frame_header_length : Byte,
               frame_length        : Byte,
               frame_header        : FrameHeaders]

MrfStates(Pointers) == [header  : MrfHeaders,
                        payload : Pointers,
                        state   : SUBSET MrfStateFlags]

\* The bytes in front of the MAC header: header length and frame length.
length_fields_size == 2

-----------------------------------------------------------------------------
\* The payload pointer keeps the value it had in `memory'.
MrfState_init(memory) ==
  LET frame_header == FrameHeader802154_init(
                        memory.header.frame_header.data[MAXIMUM_HEADER_SIZE])
      length       == FrameHeader802154_getHeaderSize(frame_header)
  IN [memory EXCEPT !.header = [frame_header_length |-> length,
                                frame_length        |-> length,
                                frame_header        |-> frame_header],
                    !.state  = {}]

\* Faulty: the header length is not refreshed.
replaceFrameHeaderOnly(mrf, frame_header) == [mrf EXCEPT !.header.frame_header = frame_header]

\* The address setters put a new MAC header in place and refresh the header
\* length.  The frame length, which counts the header too, is left alone.
replaceFrameHeader(mrf, frame_header) ==
  [mrf EXCEPT
     !.header.frame_header        = frame_header,
     !.header.frame_header_length = FrameHeader802154_getHeaderSize(frame_header)]

MrfState_setShortDestinationAddress(mrf, address) ==
  [replaceFrameHeader(mrf,
     FrameHeader802154_setShortDestinationAddress(mrf.header.frame_header, address))
   EXCEPT !.state = @ \cup {MRF_STATE_DESTINATION_ADDRESS_CHANGED}]

MrfState_setExtendedDestinationAddress(mrf, address) ==
  replaceFrameHeader(mrf,
    FrameHeader802154_setExtendedDestinationAddress(mrf.header.frame_header, address))

MrfState_setShortSourceAddress(mrf, address) ==
  replaceFrameHeader(mrf,
    FrameHeader802154_setShortSourceAddress(mrf.header.frame_header, address))

MrfState_setExtendedSourceAddress(mrf, address) ==
  replaceFrameHeader(mrf,
    FrameHeader802154_setExtendedSourceAddress(mrf.header.frame_header, address))

MrfState_setPanId(mrf, pan_id) ==
  [mrf EXCEPT
     !.header.frame_header = FrameHeader802154_setPanId(mrf.header.frame_header, pan_id)]

MrfState_enableAcknowledgement(mrf) ==
  [mrf EXCEPT
     !.header.frame_header =
        FrameHeader802154_enableAcknowledgementRequest(mrf.header.frame_header)]

\* Faulty: the sum is not cut to a byte; the header is not counted.
setPayloadUncut(mrf, payload, payload_length) ==
  [mrf EXCEPT
     !.header.frame_length = payload_length + mrf.header.frame_header_length,
     !.payload = payload]

setPayloadWithoutHeader(mrf, payload, payload_length) ==
  [mrf EXCEPT !.header.frame_length = payload_length, !.payload = payload]

MrfState_setPayload(mrf, payload, payload_length) ==
  [mrf EXCEPT
     !.header.frame_length = uint8(payload_length + mrf.header.frame_header_length),
     !.payload = payload,
     !.state   = @ \cup {MRF_STATE_FRAME_LENGTH_CHANGED, MRF_STATE_PAYLOAD_CHANGED}]

-----------------------------------------------------------------------------
(* What is written to the chip, and where.                                 *)

MrfState_getPayloadLength(mrf) ==
  uint8(mrf.header.frame_length - mrf.header.frame_header_length)

\* Faulty: without the two length bytes.
getFullHeaderLengthOfHeaderAlone(mrf) == mrf.header.frame_header_length

MrfState_getFullHeaderLength(mrf) ==
  uint8(mrf.header.frame_header_length + length_fields_size)

MrfState_getFullHeaderField(mrf) ==
  [address |-> 0,
   data    |-> mrf.header,
   length  |-> MrfState_getFullHeaderLength(mrf)]

MrfState_getPayloadField(mrf) ==
  [address |-> MrfState_getFullHeaderLength(mrf),
   data    |-> mrf.payload,
   length  |-> MrfState_getPayloadLength(mrf)]

-----------------------------------------------------------------------------
(* The iterator over changed fields, which the driver does not use.        *)

MrfState_getCurrentField(mrf) == MrfState_getFullHeaderField(mrf)

\* The result of the C function and the state it leaves behind.
MrfState_moveIteratorToNextField(mrf) ==
  IF MRF_STATE_FRAME_LENGTH_CHANGED \in mrf.state
    THEN [result |-> TRUE,
          mrf |-> [mrf EXCEPT !.state = @ \ {MRF_STATE_FRAME_LENGTH_CHANGED}]]
  ELSE IF MRF_STATE_PAYLOAD_CHANGED \in mrf.state
    THEN [result |-> TRUE,
          mrf |-> [mrf EXCEPT !.state = @ \ {MRF_STATE_PAYLOAD_CHANGED}]]
  ELSE [result |-> FALSE, mrf |-> mrf]

=============================================================================
