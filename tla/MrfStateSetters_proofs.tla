------------------------ MODULE MrfStateSetters_proofs ------------------------
(***************************************************************************)
(* The properties of MrfStateSetters for all addresses, payloads and       *)
(* payload lengths, and those of PacketInspection for packets that were    *)
(* built by such setters.                                                  *)
(***************************************************************************)
EXTENDS PacketInspection, Frames_proofs

Pointers == Payloads \cup {Null}

\* The header length is that of the header, the frame length is the sum that
\* setPayload computed from the arguments and the header length of that moment.
LengthsAreKnown ==
  /\ mrf.header.frame_header_length = HeaderSize
  /\ submitted.payload # Null =>
       /\ mrf.payload = submitted.payload
       /\ mrf.header.frame_length = uint8(submitted.length + submitted.header_size)

Invariant == TypeOK /\ LengthsAreKnown

-----------------------------------------------------------------------------
\* The invariant after an address setter, which replaces the header.
LEMMA AddressSetterKeepsInvariant ==
  ASSUME Invariant, NEW h, WellFormed(h),
         mrf' \in MrfStates(Pointers),
         mrf'.header = replaceFrameHeader(mrf, h).header,
         mrf'.payload = mrf.payload,
         UNCHANGED submitted
  PROVE  Invariant'
<1>1. mrf \in MrfStates(Pointers)
  BY DEF Invariant, TypeOK, Pointers
<1>2. /\ mrf'.header.frame_header = h
      /\ mrf'.header.frame_header_length = FrameHeader802154_getHeaderSize(h)
      /\ mrf'.header.frame_length = mrf.header.frame_length
  BY <1>1, ReplaceFrameHeader
<1>3. TypeOK'
  BY <1>2 DEF Invariant, TypeOK, Pointers
<1>4. LengthsAreKnown'
  BY <1>2 DEF Invariant, LengthsAreKnown, HeaderSize
<1> QED BY <1>3, <1>4 DEF Invariant

\* The invariant after a setter of another header field, of the same size.
LEMMA FieldSetterKeepsInvariant ==
  ASSUME Invariant, NEW h, WellFormed(h),
         h.source_addressing_mode = mrf.header.frame_header.source_addressing_mode,
         h.destination_addressing_mode = mrf.header.frame_header.destination_addressing_mode,
         mrf' = [mrf EXCEPT !.header.frame_header = h],
         UNCHANGED submitted
  PROVE  Invariant'
<1> DEFINE g == mrf.header.frame_header
<1>1. mrf \in MrfStates(Pointers) /\ WellFormed(g)
  BY DEF Invariant, TypeOK, Pointers
<1>2. /\ mrf' \in MrfStates(Pointers)
      /\ mrf'.header.frame_header = h
      /\ mrf'.header.frame_header_length = mrf.header.frame_header_length
      /\ mrf'.header.frame_length = mrf.header.frame_length
      /\ mrf'.payload = mrf.payload
  BY <1>1, ReplaceHeaderOfSameSize
<1>3. FrameHeader802154_getHeaderSize(h) = FrameHeader802154_getHeaderSize(g)
  BY <1>1, Modes, WellFormedIsAddressable DEF FrameHeader802154_getHeaderSize, FrameHeader802154_getSequenceNumberSize,
     FrameHeader802154_getPanIdSize, FrameHeader802154_getSourceAddressSize,
     FrameHeader802154_getDestinationAddressSize, sequenceNumberIsPresent, panIdIsPresent,
     WellFormed
<1>4. TypeOK'
  BY <1>2 DEF Invariant, TypeOK, Pointers
<1>5. LengthsAreKnown'
  BY <1>2, <1>3 DEF Invariant, LengthsAreKnown, HeaderSize
<1> QED BY <1>4, <1>5 DEF Invariant

-----------------------------------------------------------------------------
LEMMA InitInvariant == Init => Invariant
<1> SUFFICES ASSUME Init PROVE Invariant
  OBVIOUS
<1> DEFINE h == FrameHeader802154_init(StaticMemory.header.frame_header.data[MAXIMUM_HEADER_SIZE])
           size == FrameHeader802154_getHeaderSize(h)
<1>1. StaticMemory.header.frame_header.data[MAXIMUM_HEADER_SIZE] = 0
  BY DEF StaticMemory, FrameHeader802154_init, HeaderIndex, MAXIMUM_HEADER_SIZE
<1>2. WellFormed(h) /\ size \in Byte /\ h \in FrameHeaders
  <2>1. 0 \in Byte
    BY DEF Byte
  <2>2. WellFormed(h)
    BY <1>1, <2>1, InitLemma
  <2> QED BY <2>2, SizeBounds DEF WellFormed
<1>3. /\ mrf \in MrfStates(Pointers)
      /\ mrf.header.frame_header = h
      /\ mrf.header.frame_header_length = size
  <2>1. mrf = [StaticMemory EXCEPT !.header = [frame_header_length |-> size,
                                               frame_length        |-> size,
                                               frame_header        |-> h],
                                   !.state  = {}]
    BY DEF Init, MrfState_init
  <2> HIDE DEF h, size
  <2>2. mrf = [header  |-> [frame_header_length |-> size,
                            frame_length        |-> size,
                            frame_header        |-> h],
               payload |-> Null,
               state   |-> {}]
    BY <2>1 DEF StaticMemory
  <2> QED BY <2>2, <1>2 DEF MrfStates, MrfHeaders, Pointers
<1>4. /\ submitted = [payload |-> Null, length |-> 0, header_size |-> 0]
      /\ 0 \in Byte /\ 0 \in 0 .. MAXIMUM_HEADER_SIZE
  BY DEF Init, NothingSubmitted, Byte, MAXIMUM_HEADER_SIZE
<1>5. TypeOK
  BY <1>2, <1>3, <1>4 DEF TypeOK, Pointers
<1>6. LengthsAreKnown
  BY <1>3, <1>4 DEF LengthsAreKnown, HeaderSize
<1> QED BY <1>5, <1>6 DEF Invariant

\* One step for each setter (MRFState.c:12-50, 121-125).
LEMMA NextInvariant ==
  ASSUME Invariant, Next
  PROVE  Invariant'
<1> USE MrfStateAssumption
<1> DEFINE g == mrf.header.frame_header
<1>0. mrf \in MrfStates(Pointers) /\ WellFormed(g) /\ mrf.state \in SUBSET MrfStateFlags
  <2>1. mrf \in MrfStates(Pointers) /\ WellFormed(g)
    BY DEF Invariant, TypeOK, Pointers
  <2> QED BY <2>1, Parts
<1>1. ASSUME NEW pan_id \in PanIds, SetPanId(pan_id)
      PROVE  Invariant'
  <2> DEFINE h == FrameHeader802154_setPanId(g, pan_id)
  <2>1. WellFormed(h)
    BY <1>0, SetPanIdLemma
  <2>2. /\ h.source_addressing_mode = g.source_addressing_mode
        /\ h.destination_addressing_mode = g.destination_addressing_mode
    BY <1>0 DEF FrameHeader802154_setPanId, WellFormed, FrameHeaders
  <2>3. mrf' = [mrf EXCEPT !.header.frame_header = h] /\ UNCHANGED submitted
    BY <1>1 DEF SetPanId, MrfState_setPanId
  <2> HIDE DEF h
  <2> QED BY <2>1, <2>2, <2>3, FieldSetterKeepsInvariant
<1>2. ASSUME NEW address \in ShortAddresses, SetShortDestinationAddress(address)
      PROVE  Invariant'
  <2> DEFINE h == FrameHeader802154_setShortDestinationAddress(g, address)
             n == replaceFrameHeader(mrf, h)
  <2>1. WellFormed(h)
    BY <1>0, SetShortDestinationAddressLemma
  <2>2. mrf' = [n EXCEPT !.state = @ \cup {MRF_STATE_DESTINATION_ADDRESS_CHANGED}]
          /\ UNCHANGED submitted
    BY <1>2 DEF SetShortDestinationAddress, MrfState_setShortDestinationAddress
  <2>3. /\ n \in MrfStates(Pointers)
        /\ n.payload = mrf.payload
    BY <1>0, <2>1, ReplaceFrameHeader
  <2>4. MRF_STATE_DESTINATION_ADDRESS_CHANGED \in MrfStateFlags
    BY DEF MrfStateFlags
  <2> HIDE DEF h, n
  <2>5. /\ mrf' \in MrfStates(Pointers)
        /\ mrf'.header = n.header
        /\ mrf'.payload = n.payload
    BY <2>2, <2>3, <2>4 DEF MrfStates
  <2> QED BY <2>1, <2>2, <2>3, <2>5, AddressSetterKeepsInvariant DEF n
<1>3. ASSUME NEW h, WellFormed(h), mrf' = replaceFrameHeader(mrf, h), UNCHANGED submitted
      PROVE  Invariant'
  BY <1>0, <1>3, ReplaceFrameHeader, AddressSetterKeepsInvariant
<1>4. ASSUME NEW address \in ShortAddresses, SetShortSourceAddress(address)
      PROVE  Invariant'
  <2>1. WellFormed(FrameHeader802154_setShortSourceAddress(g, address))
    BY <1>0, SetShortSourceAddressLemma
  <2> QED BY <1>3, <1>4, <2>1 DEF SetShortSourceAddress, MrfState_setShortSourceAddress
<1>5. ASSUME NEW address \in ExtendedAddresses, SetExtendedDestinationAddress(address)
      PROVE  Invariant'
  <2>1. WellFormed(FrameHeader802154_setExtendedDestinationAddress(g, address))
    BY <1>0, SetExtendedDestinationAddressLemma
  <2> QED BY <1>3, <1>5, <2>1
          DEF SetExtendedDestinationAddress, MrfState_setExtendedDestinationAddress
<1>6. ASSUME NEW address \in ExtendedAddresses, SetExtendedSourceAddress(address)
      PROVE  Invariant'
  <2>1. WellFormed(FrameHeader802154_setExtendedSourceAddress(g, address))
    BY <1>0, SetExtendedSourceAddressLemma
  <2> QED BY <1>3, <1>6, <2>1 DEF SetExtendedSourceAddress, MrfState_setExtendedSourceAddress
<1>7. CASE EnableAcknowledgement
  <2> DEFINE h == FrameHeader802154_enableAcknowledgementRequest(g)
  <2>1. WellFormed(h)
    BY <1>0, EnableAcknowledgementLemma
  <2>2. /\ h.source_addressing_mode = g.source_addressing_mode
        /\ h.destination_addressing_mode = g.destination_addressing_mode
    BY <1>0 DEF FrameHeader802154_enableAcknowledgementRequest, WellFormed, FrameHeaders
  <2>3. mrf' = [mrf EXCEPT !.header.frame_header = h] /\ UNCHANGED submitted
    BY <1>7 DEF EnableAcknowledgement, MrfState_enableAcknowledgement
  <2> HIDE DEF h
  <2> QED BY <2>1, <2>2, <2>3, FieldSetterKeepsInvariant
<1>8. ASSUME NEW payload \in Payloads, NEW length \in PayloadLengths,
             SetPayload(payload, length)
      PROVE  Invariant'
  <2> DEFINE sum == uint8(length + mrf.header.frame_header_length)
             flags == mrf.state \cup {MRF_STATE_FRAME_LENGTH_CHANGED, MRF_STATE_PAYLOAD_CHANGED}
  <2>1. /\ HeaderSize \in Byte /\ HeaderSize \in 0 .. MAXIMUM_HEADER_SIZE
        /\ mrf.header.frame_header_length = HeaderSize
        /\ length \in Byte
    BY <1>0, SizeBounds DEF HeaderSize, Invariant, LengthsAreKnown
  <2>2. sum \in Byte /\ flags \in SUBSET MrfStateFlags
    <3>1. sum \in Byte
      BY <2>1, SumIsByte
    <3>2. {MRF_STATE_FRAME_LENGTH_CHANGED, MRF_STATE_PAYLOAD_CHANGED} \subseteq MrfStateFlags
      BY DEF MrfStateFlags
    <3>3. flags \in SUBSET MrfStateFlags
      BY <1>0, <3>2
    <3> QED BY <3>1, <3>3
  <2>3. mrf' = [mrf EXCEPT !.header.frame_length = sum, !.payload = payload, !.state = flags]
    BY <1>8, <1>0 DEF SetPayload, MrfState_setPayload, MrfStates
  <2>4. submitted' = [payload |-> payload, length |-> length, header_size |-> HeaderSize]
    BY <1>8 DEF SetPayload
  <2> HIDE DEF sum, flags
  <2>5. /\ mrf' \in MrfStates(Pointers)
        /\ mrf'.header.frame_header = mrf.header.frame_header
        /\ mrf'.header.frame_header_length = mrf.header.frame_header_length
        /\ mrf'.header.frame_length = sum
        /\ mrf'.payload = payload
    BY <1>0, <2>2, <2>3 DEF MrfStates, MrfHeaders, Pointers
  <2>6. HeaderSize' = HeaderSize
    BY <2>5 DEF HeaderSize
  <2>7. TypeOK'
    BY <1>0, <2>1, <2>4, <2>5 DEF TypeOK, Pointers
  <2>8. LengthsAreKnown'
    BY <2>1, <2>4, <2>5, <2>6 DEF LengthsAreKnown, sum
  <2> QED BY <2>7, <2>8 DEF Invariant
<1> QED BY <1>1, <1>2, <1>4, <1>5, <1>6, <1>7, <1>8 DEF Next

LEMMA InvariantHolds == Spec => []Invariant
<1>1. Invariant /\ UNCHANGED vars => Invariant'
  BY DEF vars, Invariant, TypeOK, LengthsAreKnown, HeaderSize
<1>2. Invariant /\ [Next]_vars => Invariant'
  BY <1>1, NextInvariant
<1> QED BY <1>2, InitInvariant, PTL DEF Spec

-----------------------------------------------------------------------------
\* The type invariant, for all addresses, payloads and lengths.
THEOREM TypeCorrect == Spec => []TypeOK
<1>1. Invariant => TypeOK
  BY DEF Invariant
<1> QED BY <1>1, InvariantHolds, PTL

\* The header length the chip is told is that of the header
\* (MRFState.c:12-34).
THEOREM HeaderLengthCorrect == Spec => []HeaderLengthIsCurrent
<1>1. Invariant => HeaderLengthIsCurrent
  BY DEF Invariant, LengthsAreKnown, HeaderLengthIsCurrent
<1> QED BY <1>1, InvariantHolds, PTL

\* What the payload field holds, in a state of the invariant.
LEMMA PayloadField ==
  ASSUME Invariant, submitted.payload # Null, HeaderSize = submitted.header_size
  PROVE  /\ MrfState_getPayloadLength(mrf) = submitted.length
         /\ mrf.payload = submitted.payload
<1>1. submitted.length \in Byte /\ submitted.header_size \in 0 .. MAXIMUM_HEADER_SIZE
  BY DEF Invariant, TypeOK
<1>2. /\ mrf.header.frame_header_length = submitted.header_size
      /\ mrf.header.frame_length = uint8(submitted.length + submitted.header_size)
      /\ mrf.payload = submitted.payload
  BY DEF Invariant, LengthsAreKnown
<1> QED BY <1>1, <1>2, SumAndDifference DEF MrfState_getPayloadLength

\* The payload field is the payload that was set, even one whose length makes the
\* frame length wrap, as long as the header has its size (MRFState.c:36-44, 110-119).
THEOREM PayloadFieldCorrect == Spec => []PayloadFieldIsWhatWasSet
<1>1. Invariant => PayloadFieldIsWhatWasSet
  BY PayloadField DEF PayloadFieldIsWhatWasSet, MrfState_getPayloadField
<1> QED BY <1>1, InvariantHolds, PTL

\* Header field and payload field tile the frame the length bytes describe, inside
\* the transmit memory (MRFState.c:52-56, 99-119).
THEOREM FieldsTile == Spec => []FieldsTileTheFrame
<1>1. ASSUME Invariant, submitted.payload # Null, submitted.length <= LargestPayload,
             HeaderSize = submitted.header_size
      PROVE  LET header  == MrfState_getFullHeaderField(mrf)
                 payload == MrfState_getPayloadField(mrf)
                 end     == length_fields_size + mrf.header.frame_length
             IN /\ header.length
                     = length_fields_size + PayloadStart(mrf.header.frame_header)
                /\ payload.address = header.address + header.length
                /\ payload.address + payload.length = end
                /\ end <= TxFifoSize
  <2>1. /\ submitted.length \in Byte
        /\ HeaderSize \in 0 .. MAXIMUM_HEADER_SIZE
        /\ HeaderSize = PayloadStart(mrf.header.frame_header)
    BY <1>1, SizeBounds DEF Invariant, TypeOK, HeaderSize
  <2>2. /\ mrf.header.frame_header_length = HeaderSize
        /\ mrf.header.frame_length = uint8(submitted.length + HeaderSize)
    BY <1>1 DEF Invariant, LengthsAreKnown
  <2>3. mrf.header.frame_length = submitted.length + HeaderSize
    BY <1>1, <2>1, <2>2 DEF uint8, Byte, LargestPayload, TxFifoSize, length_fields_size,
                            MAXIMUM_HEADER_SIZE
  <2>4. MrfState_getFullHeaderLength(mrf) = length_fields_size + HeaderSize
    BY <2>1, <2>2 DEF MrfState_getFullHeaderLength, uint8, length_fields_size,
                      MAXIMUM_HEADER_SIZE
  <2>5. MrfState_getPayloadLength(mrf) = submitted.length
    BY <1>1, PayloadField
  <2> QED BY <1>1, <2>1, <2>3, <2>4, <2>5
          DEF MrfState_getFullHeaderField, MrfState_getPayloadField, LargestPayload,
              TxFifoSize, length_fields_size, MAXIMUM_HEADER_SIZE, Byte
<1>2. Invariant => FieldsTileTheFrame
  BY <1>1 DEF FieldsTileTheFrame
<1> QED BY <1>2, InvariantHolds, PTL

-----------------------------------------------------------------------------
(* Inspection of what another MrfState sent.                               *)

\* The source address is the one in the header; a packet has the layout that the
\* inspection functions rely on.
PacketsAreOwn ==
  /\ Invariant
  /\ source = ParsedSource(mrf.header.frame_header)
  /\ packet # NoPacket => IsOfThisLibrary(packet)

LEMMA PacketsAreOwnInitially == InspectionInit => PacketsAreOwn
BY InitInvariant DEF InspectionInit, PacketsAreOwn

\* The MAC header and the source address after each setter.
LEMMA SetterKeepsSource ==
  ASSUME PacketsAreOwn, Setter
  PROVE  Next /\ source' = ParsedSource(mrf'.header.frame_header)
<1> USE MrfStateAssumption
<1> DEFINE g == mrf.header.frame_header
<1>0. /\ mrf \in MrfStates(Pointers) /\ WellFormed(g)
      /\ source = ParsedSource(g)
  BY DEF PacketsAreOwn, Invariant, TypeOK, Pointers
<1> DEFINE Goal == Next /\ source' = ParsedSource(mrf'.header.frame_header)
<1>1. ASSUME NEW pan_id \in PanIds, SetPanId(pan_id), UNCHANGED source
      PROVE  Goal
  <2> DEFINE h == FrameHeader802154_setPanId(g, pan_id)
  <2>1. WellFormed(h) /\ ParsedSource(h) = ParsedSource(g)
    BY <1>0, SetPanIdLemma DEF OthersThanPanId
  <2>2. mrf' = [mrf EXCEPT !.header.frame_header = h]
    BY <1>1 DEF SetPanId, MrfState_setPanId
  <2> HIDE DEF h
  <2>3. mrf'.header.frame_header = h
    BY <1>0, <2>1, <2>2, ReplaceHeaderOfSameSize
  <2>4. Next
    BY <1>1 DEF Next
  <2> QED BY <1>0, <1>1, <2>1, <2>3, <2>4
<1>2. ASSUME NEW address \in ShortAddresses, SetShortDestinationAddress(address),
             UNCHANGED source
      PROVE  Goal
  <2> DEFINE h == FrameHeader802154_setShortDestinationAddress(g, address)
             n == replaceFrameHeader(mrf, h)
  <2>1. WellFormed(h) /\ ParsedSource(h) = ParsedSource(g)
    BY <1>0, SetShortDestinationAddressLemma DEF OthersThanDestination
  <2>2. mrf' = [n EXCEPT !.state = @ \cup {MRF_STATE_DESTINATION_ADDRESS_CHANGED}]
    BY <1>2 DEF SetShortDestinationAddress, MrfState_setShortDestinationAddress
  <2>3. n \in MrfStates(Pointers) /\ n.header.frame_header = h
    BY <1>0, <2>1, ReplaceFrameHeader
  <2> HIDE DEF h, n
  <2>4. mrf'.header.frame_header = h
    BY <2>2, <2>3 DEF MrfStates
  <2>5. Next
    BY <1>2 DEF Next
  <2> QED BY <1>0, <1>2, <2>1, <2>4, <2>5
<1>3. ASSUME NEW address \in ExtendedAddresses, SetExtendedDestinationAddress(address),
             UNCHANGED source
      PROVE  Goal
  <2> DEFINE h == FrameHeader802154_setExtendedDestinationAddress(g, address)
  <2>1. WellFormed(h) /\ ParsedSource(h) = ParsedSource(g)
    BY <1>0, SetExtendedDestinationAddressLemma DEF OthersThanDestination
  <2>2. mrf' = replaceFrameHeader(mrf, h)
    BY <1>3 DEF SetExtendedDestinationAddress, MrfState_setExtendedDestinationAddress
  <2> HIDE DEF h
  <2>3. mrf'.header.frame_header = h
    BY <1>0, <2>1, <2>2, ReplaceFrameHeader
  <2>4. Next
    BY <1>3 DEF Next
  <2> QED BY <1>0, <1>3, <2>1, <2>3, <2>4
<1>4. ASSUME NEW address \in ShortAddresses, SetShortSourceAddress(address),
             source' = address
      PROVE  Goal
  <2> DEFINE h == FrameHeader802154_setShortSourceAddress(g, address)
  <2>1. WellFormed(h) /\ ParsedSource(h) = address
    BY <1>0, SetShortSourceAddressLemma
  <2>2. mrf' = replaceFrameHeader(mrf, h)
    BY <1>4 DEF SetShortSourceAddress, MrfState_setShortSourceAddress
  <2> HIDE DEF h
  <2>3. mrf'.header.frame_header = h
    BY <1>0, <2>1, <2>2, ReplaceFrameHeader
  <2>4. Next
    BY <1>4 DEF Next
  <2> QED BY <1>4, <2>1, <2>3, <2>4
<1>5. ASSUME NEW address \in ExtendedAddresses, SetExtendedSourceAddress(address),
             source' = address
      PROVE  Goal
  <2> DEFINE h == FrameHeader802154_setExtendedSourceAddress(g, address)
  <2>1. WellFormed(h) /\ ParsedSource(h) = address
    BY <1>0, SetExtendedSourceAddressLemma
  <2>2. mrf' = replaceFrameHeader(mrf, h)
    BY <1>5 DEF SetExtendedSourceAddress, MrfState_setExtendedSourceAddress
  <2> HIDE DEF h
  <2>3. mrf'.header.frame_header = h
    BY <1>0, <2>1, <2>2, ReplaceFrameHeader
  <2>4. Next
    BY <1>5 DEF Next
  <2> QED BY <1>5, <2>1, <2>3, <2>4
<1>6. CASE EnableAcknowledgement /\ UNCHANGED source
  <2> DEFINE h == FrameHeader802154_enableAcknowledgementRequest(g)
  <2>1. WellFormed(h) /\ ParsedSource(h) = ParsedSource(g)
    BY <1>0, EnableAcknowledgementLemma
  <2>2. mrf' = [mrf EXCEPT !.header.frame_header = h]
    BY <1>6 DEF EnableAcknowledgement, MrfState_enableAcknowledgement
  <2> HIDE DEF h
  <2>3. mrf'.header.frame_header = h
    BY <1>0, <2>1, <2>2, ReplaceHeaderOfSameSize
  <2>4. Next
    BY <1>6 DEF Next
  <2> QED BY <1>0, <1>6, <2>1, <2>3, <2>4
<1>7. ASSUME NEW payload \in Payloads, NEW length \in PayloadLengths,
             SetPayload(payload, length), UNCHANGED source
      PROVE  Goal
  <2>1. mrf'.header.frame_header = g
    BY <1>0, <1>7 DEF SetPayload, MrfState_setPayload, MrfStates, MrfHeaders
  <2>2. Next
    BY <1>7 DEF Next
  <2> QED BY <1>0, <1>7, <2>1, <2>2
<1> QED BY <1>1, <1>2, <1>3, <1>4, <1>5, <1>6, <1>7 DEF Setter

\* What the chip sends out of the transmit memory has the layout of its header.
LEMMA DeliveredIsOwn ==
  ASSUME PacketsAreOwn, Deliver
  PROVE  IsOfThisLibrary(packet')
<1> DEFINE g == mrf.header.frame_header
           bytes == HeaderSize
<1>1. /\ submitted.payload # Null
      /\ bytes = submitted.header_size
      /\ submitted.length <= LargestPayload
      /\ Invariant
  BY DEF Deliver, PacketsAreOwn
<1>2. /\ submitted.length \in Nat
      /\ bytes \in 0 .. MAXIMUM_HEADER_SIZE
      /\ bytes = PayloadStart(g)
      /\ WellFormed(g)
  BY <1>1, SizeBounds DEF Invariant, TypeOK, HeaderSize, Byte
<1>3. /\ mrf.header.frame_header_length = bytes
      /\ mrf.header.frame_length = uint8(submitted.length + bytes)
  BY <1>1 DEF Invariant, LengthsAreKnown
<1> HIDE DEF bytes
<1>4. mrf.header.frame_length = submitted.length + bytes
  BY <1>1, <1>2, <1>3 DEF uint8, LargestPayload, TxFifoSize, length_fields_size,
                          MAXIMUM_HEADER_SIZE
<1>5. MrfState_getPayloadField(mrf).address = length_fields_size + bytes
  BY <1>2, <1>3 DEF MrfState_getPayloadField, MrfState_getFullHeaderLength, uint8,
                    length_fields_size, MAXIMUM_HEADER_SIZE
<1> DEFINE start == MrfState_getPayloadField(mrf).address - length_fields_size
                      + frame_length_field_size
<1>6. /\ packet'.length = mrf.header.frame_length + frame_check_sequence_size
      /\ packet'.header = g
      /\ packet'.payload.start = start
      /\ packet'.payload.length = submitted.length
      /\ packet'.source = source
  BY DEF Deliver
<1>7. start = frame_length_field_size + PayloadStart(g)
  BY <1>2, <1>5 DEF length_fields_size, frame_length_field_size
<1> HIDE DEF start, g
<1>8. packet'.length = PayloadStart(g) + submitted.length + frame_check_sequence_size
      /\ packet'.length <= LargestPacket
  BY <1>1, <1>2, <1>4, <1>6 DEF LargestPacket, LargestPayload, TxFifoSize, MAXIMUM_HEADER_SIZE,
     length_fields_size, frame_check_sequence_size
<1> QED BY <1>2, <1>6, <1>7, <1>8 DEF IsOfThisLibrary, PacketsAreOwn, g

LEMMA PacketsStayOwn ==
  ASSUME PacketsAreOwn, [InspectionNext]_inspection_vars
  PROVE  PacketsAreOwn'
<1>1. CASE Setter /\ UNCHANGED packet
  <2>1. Invariant'
    BY <1>1, SetterKeepsSource, NextInvariant DEF PacketsAreOwn
  <2> QED BY <1>1, <2>1, SetterKeepsSource DEF PacketsAreOwn, NoPacket
<1>2. CASE Deliver
  <2>1. UNCHANGED <<mrf, submitted, source>>
    BY <1>2 DEF Deliver
  <2>2. Invariant'
    BY <2>1 DEF PacketsAreOwn, Invariant, TypeOK, LengthsAreKnown, HeaderSize
  <2> QED BY <1>2, <2>1, <2>2, DeliveredIsOwn DEF PacketsAreOwn
<1>3. CASE UNCHANGED inspection_vars
  BY <1>3 DEF inspection_vars, PacketsAreOwn, Invariant, TypeOK, LengthsAreKnown, HeaderSize
<1> QED BY <1>1, <1>2, <1>3 DEF InspectionNext

LEMMA PacketsAreOwnAlways == InspectionSpec => []PacketsAreOwn
<1>1. PacketsAreOwn /\ [InspectionNext]_inspection_vars => PacketsAreOwn'
  BY PacketsStayOwn
<1> QED BY <1>1, PacketsAreOwnInitially, PTL DEF InspectionSpec

\* The receiver finds the payload where the sender's setters, MrfState and transmit
\* memory have put it, and as long as it was (Mac802154MRFImpl.c:312-329).
THEOREM PayloadIsFoundAlways == InspectionSpec => []PayloadIsFound
<1>1. PacketsAreOwn => PayloadIsFound
  BY OwnPacketIsInspected DEF PacketsAreOwn, PayloadIsFound
<1> QED BY <1>1, PacketsAreOwnAlways, PTL

\* The receiver reads the source address the sender chose last, and knows its size
\* (Mac802154MRFImpl.c:331-364).
THEOREM SourceIsFoundAlways == InspectionSpec => []SourceIsFound
<1>1. PacketsAreOwn => SourceIsFound
  BY OwnPacketIsInspected DEF PacketsAreOwn, SourceIsFound
<1> QED BY <1>1, PacketsAreOwnAlways, PTL

=============================================================================
