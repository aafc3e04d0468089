-------------------------- MODULE Mac802154MRF_proofs --------------------------
(***************************************************************************)
(* The driver with its chip, for every configuration, address, payload,    *)
(* length and packet: nothing but its own transmission ends the wait of    *)
(* sendBlocking, so the transmit FIFO is never written under the chip;     *)
(* what goes on air is what was asked for; and together they implement     *)
(* MacService.                                                             *)
(***************************************************************************)
EXTENDS Mac802154MRF, Frames_proofs, MrfRegisters_proofs

\* A transmission that runs, or one that ended and was not noticed yet, exists
\* only while triggerSend polls, and never both: the interrupt bit it waits for
\* is the bit of the transmission it started.
OneTransmission ==
  /\ transmitting => pc = "poll"
  /\ transmitting => TXInterrupt \notin int_status
  /\ TXInterrupt \in int_status => pc = "poll"

\* The properties below, of one step.
FifoStep == transmitting => UNCHANGED tx_fifo
ReturnStep == (pc = "poll" /\ pc' = "ready") => ~transmitting

LEMMA InitOneTransmission == Init => OneTransmission
BY DEF Init, OneTransmission

\* The calls outside sendBlocking start when the driver is not polling.
LEMMA OtherCalls ==
  ASSUME OneTransmission,
         \/ Configuration \/ Setters \/ NewMessageAvailable
         \/ EnablePromiscuousMode \/ DisablePromiscuousMode
  PROVE  OneTransmission' /\ FifoStep /\ ReturnStep
<1> DEFINE Goal == OneTransmission' /\ FifoStep /\ ReturnStep
<1>1. CASE Configuration
  <2>1. ASSUME NEW new_config \in Configs, Reconfigure(new_config)
        PROVE  Goal
    BY <2>1 DEF Reconfigure, chip, OneTransmission, FifoStep, ReturnStep
  <2>2. CASE WriteConfiguration
    <3>1. /\ pc = "configuring"
          /\ int_status' = {} \/ int_status' = int_status
          /\ transmitting' => transmitting
          /\ UNCHANGED <<pc, tx_fifo>>
      BY <2>2 DEF WriteConfiguration
    <3> QED BY <3>1 DEF OneTransmission, FifoStep, ReturnStep
  <2>3. CASE FinishConfiguration
    <3>1. pc = "configuring" /\ pc' = "ready" /\ UNCHANGED chip
      BY <2>3 DEF FinishConfiguration
    <3> QED BY <3>1 DEF chip, OneTransmission, FifoStep, ReturnStep
  <2> QED BY <1>1, <2>1, <2>2, <2>3 DEF Configuration
<1>2. CASE Setters
  <2>1. UNCHANGED <<pc, chip>>
    BY <1>2 DEF Setters, SetShortDestinationAddress, SetExtendedDestinationAddress,
                UseExtendedSourceAddress, UseShortSourceAddress, SetPayload, SetUp
  <2> QED BY <2>1 DEF chip, OneTransmission, FifoStep, ReturnStep
<1>3. CASE NewMessageAvailable \/ EnablePromiscuousMode \/ DisablePromiscuousMode
  <2>1. /\ pc = "ready"
        /\ int_status' = {} \/ int_status' = int_status
        /\ UNCHANGED <<pc, tx_fifo, transmitting>>
    BY <1>3 DEF NewMessageAvailable, EnablePromiscuousMode, DisablePromiscuousMode,
                SetPromiscuousMode, driver, chip
  <2> QED BY <2>1 DEF OneTransmission, FifoStep, ReturnStep
<1> QED BY <1>1, <1>2, <1>3

LEMMA SendingSteps ==
  ASSUME OneTransmission, SendBlocking \/ SendSteps
  PROVE  OneTransmission' /\ FifoStep /\ ReturnStep
<1>1. CASE SendBlocking
  BY <1>1 DEF SendBlocking, OneTransmission, FifoStep, ReturnStep
<1>2. CASE WritePayloadField
  BY <1>2 DEF WritePayloadField, OneTransmission, FifoStep, ReturnStep
<1>3. CASE TriggerSend
  BY <1>3 DEF TriggerSend, OneTransmission, FifoStep, ReturnStep
<1>4. CASE PollInterruptStatus
  BY <1>4 DEF PollInterruptStatus, OneTransmission, FifoStep, ReturnStep
<1> QED BY <1>1, <1>2, <1>3, <1>4 DEF SendSteps

LEMMA ChipSteps ==
  ASSUME OneTransmission, TransmissionEnds \/ PacketArrives
  PROVE  OneTransmission' /\ FifoStep /\ ReturnStep
<1>1. CASE TransmissionEnds
  BY <1>1 DEF TransmissionEnds, driver, OneTransmission, FifoStep, ReturnStep
<1>2. CASE PacketArrives
  <2>1. /\ int_status' = int_status \cup {RXInterrupt}
        /\ UNCHANGED <<pc, tx_fifo, transmitting>>
    BY <1>2 DEF PacketArrives, Receive, driver
  <2>2. TXInterrupt # RXInterrupt
    BY DEF TXInterrupt, RXInterrupt
  <2> QED BY <2>1, <2>2 DEF OneTransmission, FifoStep, ReturnStep
<1> QED BY <1>1, <1>2

LEMMA SendStepKeepsOneTransmission ==
  ASSUME OneTransmission, [SendNext]_vars
  PROVE  OneTransmission' /\ FifoStep /\ ReturnStep
<1>1. CASE SendNext
  <2>1. CASE \/ Configuration \/ Setters \/ NewMessageAvailable
             \/ EnablePromiscuousMode \/ DisablePromiscuousMode
    BY <2>1, OtherCalls
  <2>2. CASE SendBlocking \/ SendSteps
    BY <2>2, SendingSteps
  <2>3. CASE TransmissionEnds \/ PacketArrives
    BY <2>3, ChipSteps
  <2> QED BY <1>1, <2>1, <2>2, <2>3 DEF SendNext
<1>2. CASE UNCHANGED vars
  BY <1>2 DEF vars, OneTransmission, FifoStep, ReturnStep
<1> QED BY <1>1, <1>2

\* sendBlocking never writes the transmit FIFO, with the header field or with the
\* payload field, before the transmission of the frame in it has ended.
THEOREM FifoIsStable == SendSpec => TxFifoIsStableWhileTransmitting
<1>1. SendSpec => []OneTransmission
  BY InitOneTransmission, SendStepKeepsOneTransmission, PTL DEF SendSpec
<1>2. OneTransmission /\ [SendNext]_vars => [FifoStep]_vars
  BY SendStepKeepsOneTransmission
<1> QED
  BY <1>1, <1>2, PTL DEF SendSpec, TxFifoIsStableWhileTransmitting, FifoStep

\* triggerSend leaves its loop only when the transmission it started has ended,
\* though every reading of the status clears all bits and other interrupts come in.
THEOREM ReturnsAfterTransmission == SendSpec => SendReturnsAfterItsTransmission
<1>1. SendSpec => []OneTransmission
  BY InitOneTransmission, SendStepKeepsOneTransmission, PTL DEF SendSpec
<1>2. OneTransmission /\ [SendNext]_vars => [ReturnStep]_vars
  BY SendStepKeepsOneTransmission
<1> QED
  BY <1>1, <1>2, PTL DEF SendSpec, SendReturnsAfterItsTransmission, ReturnStep

-----------------------------------------------------------------------------
(* The frame on air.                                                       *)

Pointers == Payloads \cup {Null}

NodeAddresses == ShortBytes \cup ExtendedBytes

Requests == [destination : NodeAddresses,
             source      : NodeAddresses,
             pan_id      : PanIdBytes,
             payload     : Pointers,
             length      : Nat,
             header_size : 0 .. MAXIMUM_HEADER_SIZE]

\* The header `h' has, for a receiver, the addresses of the request `r'.
Addressed(h, r) ==
  /\ ParsedDestination(h) = r.destination
  /\ ParsedSource(h) = r.source
  /\ ParsedPanId(h) = r.pan_id

\* The payload of `m' is that of `r', if one was set: the header size of a request
\* without payload is 0.
Loaded(m, r) ==
  r.header_size # 0 =>
    /\ m.payload = r.payload
    /\ m.header.frame_length = uint8(uint8(r.length) + r.header_size)

\* The MrfState `m' is what the setters made of the request `r'.
Built(m, r) ==
  /\ m \in MrfStates(Pointers)
  /\ r \in Requests
  /\ WellFormed(m.header.frame_header)
  /\ m.header.frame_header_length = HeaderSize(m)
  /\ Addressed(m.header.frame_header, r)
  /\ Loaded(m, r)

-----------------------------------------------------------------------------
(* The setters keep MrfState and request together.                         *)

\* A MrfState with another header, and its request with another address.
LEMMA ReplacedIsBuilt ==
  ASSUME NEW m, NEW r, Built(m, r), NEW n \in MrfStates(Pointers), NEW h, WellFormed(h),
         n.header = replaceFrameHeader(m, h).header, n.payload = m.payload,
         NEW q \in Requests, Addressed(h, q),
         q.payload = r.payload, q.length = r.length, q.header_size = r.header_size
  PROVE  Built(n, q)
<1>1. m \in MrfStates(Pointers)
  BY DEF Built
<1>2. /\ n.header.frame_header = h
      /\ n.header.frame_header_length = FrameHeader802154_getHeaderSize(h)
      /\ n.header.frame_length = m.header.frame_length
  BY <1>1, ReplaceFrameHeader
<1>3. Loaded(n, q)
  BY <1>2 DEF Built, Loaded
<1> QED BY <1>2, <1>3 DEF Built, HeaderSize

\* The request with another part is a request.
LEMMA OtherDestination ==
  ASSUME NEW r \in Requests, NEW address \in NodeAddresses
  PROVE  LET q == [r EXCEPT !.destination = address]
         IN /\ q \in Requests
            /\ q.destination = address /\ q.source = r.source /\ q.pan_id = r.pan_id
            /\ q.payload = r.payload /\ q.length = r.length /\ q.header_size = r.header_size
BY DEF Requests

LEMMA OtherSource ==
  ASSUME NEW r \in Requests, NEW address \in NodeAddresses
  PROVE  LET q == [r EXCEPT !.source = address]
         IN /\ q \in Requests
            /\ q.destination = r.destination /\ q.source = address /\ q.pan_id = r.pan_id
            /\ q.payload = r.payload /\ q.length = r.length /\ q.header_size = r.header_size
BY DEF Requests

LEMMA ShortDestinationIsBuilt ==
  ASSUME NEW m, NEW r, Built(m, r), NEW address \in ShortBytes
  PROVE  Built(MrfState_setShortDestinationAddress(m, address),
               [r EXCEPT !.destination = address])
<1> DEFINE g == m.header.frame_header
           h == FrameHeader802154_setShortDestinationAddress(g, address)
           k == replaceFrameHeader(m, h)
           n == [k EXCEPT !.state = @ \cup {MRF_STATE_DESTINATION_ADDRESS_CHANGED}]
           q == [r EXCEPT !.destination = address]
<1>1. m \in MrfStates(Pointers) /\ WellFormed(g) /\ r \in Requests /\ Addressed(g, r)
  BY DEF Built
<1>2. WellFormed(h) /\ ParsedDestination(h) = address /\ OthersThanDestination(h, g)
  BY <1>1, SetShortDestinationAddressLemma
<1>3. k \in MrfStates(Pointers) /\ k.payload = m.payload
  BY <1>1, <1>2, ReplaceFrameHeader
<1>4. n \in MrfStates(Pointers) /\ n.header = k.header /\ n.payload = m.payload
  <2>1. MRF_STATE_DESTINATION_ADDRESS_CHANGED \in MrfStateFlags
    BY DEF MrfStateFlags
  <2> HIDE DEF k
  <2> QED BY <1>3, <2>1 DEF MrfStates
<1>5. address \in NodeAddresses
  BY DEF NodeAddresses
<1>6. /\ q \in Requests
      /\ q.destination = address /\ q.source = r.source /\ q.pan_id = r.pan_id
      /\ q.payload = r.payload /\ q.length = r.length /\ q.header_size = r.header_size
  BY <1>1, <1>5, OtherDestination
<1>7. MrfState_setShortDestinationAddress(m, address) = n
  BY DEF MrfState_setShortDestinationAddress
<1> HIDE DEF n, q, h, g
<1>8. Addressed(h, q)
  BY <1>1, <1>2, <1>6 DEF Addressed, OthersThanDestination
<1>9. Built(n, q)
  BY <1>2, <1>4, <1>6, <1>8, ReplacedIsBuilt
<1> QED BY <1>7, <1>9 DEF q

LEMMA ExtendedDestinationIsBuilt ==
  ASSUME NEW m, NEW r, Built(m, r), NEW address \in ExtendedBytes
  PROVE  Built(MrfState_setExtendedDestinationAddress(m, address), [r EXCEPT !.destination = address])
<1> DEFINE g == m.header.frame_header
           h == FrameHeader802154_setExtendedDestinationAddress(g, address)
           n == replaceFrameHeader(m, h)
           q == [r EXCEPT !.destination = address]
<1>1. m \in MrfStates(Pointers) /\ WellFormed(g) /\ r \in Requests /\ Addressed(g, r)
  BY DEF Built
<1>2. WellFormed(h) /\ ParsedDestination(h) = address /\ OthersThanDestination(h, g)
  BY <1>1, SetExtendedDestinationAddressLemma
<1>3. n \in MrfStates(Pointers) /\ n.payload = m.payload
  BY <1>1, <1>2, ReplaceFrameHeader
<1>4. address \in NodeAddresses
  BY DEF NodeAddresses
<1>5. /\ q \in Requests
      /\ q.destination = address
      /\ q.source = r.source
      /\ q.pan_id = r.pan_id
      /\ q.payload = r.payload /\ q.length = r.length /\ q.header_size = r.header_size
  BY <1>1, <1>4, OtherDestination
<1>6. MrfState_setExtendedDestinationAddress(m, address) = n
  BY DEF MrfState_setExtendedDestinationAddress
<1> HIDE DEF q, h, g
<1>7. Addressed(h, q)
  BY <1>1, <1>2, <1>5 DEF Addressed, OthersThanDestination
<1>8. Built(n, q)
  BY <1>2, <1>3, <1>5, <1>7, ReplacedIsBuilt
<1> QED BY <1>6, <1>8 DEF q

LEMMA ShortSourceIsBuilt ==
  ASSUME NEW m, NEW r, Built(m, r), NEW address \in ShortBytes
  PROVE  Built(MrfState_setShortSourceAddress(m, address), [r EXCEPT !.source = address])
<1> DEFINE g == m.header.frame_header
           h == FrameHeader802154_setShortSourceAddress(g, address)
           n == replaceFrameHeader(m, h)
           q == [r EXCEPT !.source = address]
<1>1. m \in MrfStates(Pointers) /\ WellFormed(g) /\ r \in Requests /\ Addressed(g, r)
  BY DEF Built
<1>2. WellFormed(h) /\ ParsedSource(h) = address /\ OthersThanSource(h, g)
  BY <1>1, SetShortSourceAddressLemma
<1>3. n \in MrfStates(Pointers) /\ n.payload = m.payload
  BY <1>1, <1>2, ReplaceFrameHeader
<1>4. address \in NodeAddresses
  BY DEF NodeAddresses
<1>5. /\ q \in Requests
      /\ q.destination = r.destination
      /\ q.source = address
      /\ q.pan_id = r.pan_id
      /\ q.payload = r.payload /\ q.length = r.length /\ q.header_size = r.header_size
  BY <1>1, <1>4, OtherSource
<1>6. MrfState_setShortSourceAddress(m, address) = n
  BY DEF MrfState_setShortSourceAddress
<1> HIDE DEF q, h, g
<1>7. Addressed(h, q)
  BY <1>1, <1>2, <1>5 DEF Addressed, OthersThanSource
<1>8. Built(n, q)
  BY <1>2, <1>3, <1>5, <1>7, ReplacedIsBuilt
<1> QED BY <1>6, <1>8 DEF q

LEMMA ExtendedSourceIsBuilt ==
  ASSUME NEW m, NEW r, Built(m, r), NEW address \in ExtendedBytes
  PROVE  Built(MrfState_setExtendedSourceAddress(m, address), [r EXCEPT !.source = address])
<1> DEFINE g == m.header.frame_header
           h == FrameHeader802154_setExtendedSourceAddress(g, address)
           n == replaceFrameHeader(m, h)
           q == [r EXCEPT !.source = address]
<1>1. m \in MrfStates(Pointers) /\ WellFormed(g) /\ r \in Requests /\ Addressed(g, r)
  BY DEF Built
<1>2. WellFormed(h) /\ ParsedSource(h) = address /\ OthersThanSource(h, g)
  BY <1>1, SetExtendedSourceAddressLemma
<1>3. n \in MrfStates(Pointers) /\ n.payload = m.payload
  BY <1>1, <1>2, ReplaceFrameHeader
<1>4. address \in NodeAddresses
  BY DEF NodeAddresses
<1>5. /\ q \in Requests
      /\ q.destination = r.destination
      /\ q.source = address
      /\ q.pan_id = r.pan_id
      /\ q.payload = r.payload /\ q.length = r.length /\ q.header_size = r.header_size
  BY <1>1, <1>4, OtherSource
<1>6. MrfState_setExtendedSourceAddress(m, address) = n
  BY DEF MrfState_setExtendedSourceAddress
<1> HIDE DEF q, h, g
<1>7. Addressed(h, q)
  BY <1>1, <1>2, <1>5 DEF Addressed, OthersThanSource
<1>8. Built(n, q)
  BY <1>2, <1>3, <1>5, <1>7, ReplacedIsBuilt
<1> QED BY <1>6, <1>8 DEF q

\* A header of the same address sizes has the same size.
LEMMA SizeFollowsModes ==
  ASSUME NEW g, NEW h, WellFormed(g), WellFormed(h),
         h.source_addressing_mode = g.source_addressing_mode,
         h.destination_addressing_mode = g.destination_addressing_mode
  PROVE  FrameHeader802154_getHeaderSize(h) = FrameHeader802154_getHeaderSize(g)
BY Modes, WellFormedIsAddressable DEF FrameHeader802154_getHeaderSize, FrameHeader802154_getSequenceNumberSize,
   FrameHeader802154_getPanIdSize, FrameHeader802154_getSourceAddressSize,
   FrameHeader802154_getDestinationAddressSize, sequenceNumberIsPresent, panIdIsPresent,
   WellFormed

LEMMA PanIdIsBuilt ==
  ASSUME NEW m, NEW r, Built(m, r), NEW pan_id \in PanIdBytes
  PROVE  Built(MrfState_setPanId(m, pan_id), [r EXCEPT !.pan_id = pan_id])
<1> DEFINE g == m.header.frame_header
           h == FrameHeader802154_setPanId(g, pan_id)
           n == [m EXCEPT !.header.frame_header = h]
           q == [r EXCEPT !.pan_id = pan_id]
<1>1. m \in MrfStates(Pointers) /\ WellFormed(g) /\ r \in Requests /\ Addressed(g, r)
  BY DEF Built
<1>2. WellFormed(h) /\ ParsedPanId(h) = pan_id /\ OthersThanPanId(h, g)
  BY <1>1, SetPanIdLemma
<1>3. /\ h.source_addressing_mode = g.source_addressing_mode
      /\ h.destination_addressing_mode = g.destination_addressing_mode
  BY <1>1 DEF FrameHeader802154_setPanId, WellFormed, FrameHeaders
<1>4. FrameHeader802154_getHeaderSize(h) = FrameHeader802154_getHeaderSize(g)
  BY <1>1, <1>2, <1>3, SizeFollowsModes
<1>5. /\ q \in Requests
      /\ q.destination = r.destination /\ q.source = r.source /\ q.pan_id = pan_id
      /\ q.payload = r.payload /\ q.length = r.length /\ q.header_size = r.header_size
  BY <1>1 DEF Requests
<1>6. MrfState_setPanId(m, pan_id) = n
  BY DEF MrfState_setPanId
<1> HIDE DEF q, h
<1>7. /\ n \in MrfStates(Pointers)
      /\ n.header.frame_header = h
      /\ n.header.frame_header_length = m.header.frame_header_length
      /\ n.header.frame_length = m.header.frame_length
      /\ n.payload = m.payload
  BY <1>1, <1>2, ReplaceHeaderOfSameSize
<1> HIDE DEF n
<1>8. Addressed(h, q)
  BY <1>1, <1>2, <1>5 DEF Addressed, OthersThanPanId
<1>9. Built(n, q)
  BY <1>2, <1>4, <1>5, <1>7, <1>8 DEF Built, Loaded, HeaderSize
<1> QED BY <1>6, <1>9 DEF q

LEMMA PayloadIsBuilt ==
  ASSUME NEW m, NEW r, Built(m, r), NEW payload \in Payloads, NEW length \in Nat
  PROVE  Built(MrfState_setPayload(m, payload, uint8(length)),
               [r EXCEPT !.payload = payload, !.length = length,
                         !.header_size = HeaderSize(m)])
<1> DEFINE g == m.header.frame_header
           sum == uint8(uint8(length) + m.header.frame_header_length)
           flags == m.state \cup {MRF_STATE_FRAME_LENGTH_CHANGED, MRF_STATE_PAYLOAD_CHANGED}
           n == [m EXCEPT !.header.frame_length = sum, !.payload = payload, !.state = flags]
           q == [r EXCEPT !.payload = payload, !.length = length,
                          !.header_size = HeaderSize(m)]
<1>1. m \in MrfStates(Pointers) /\ WellFormed(g) /\ r \in Requests /\ Addressed(g, r)
  BY DEF Built
<1>2. /\ HeaderSize(m) \in 0 .. MAXIMUM_HEADER_SIZE
      /\ HeaderSize(m) \in Byte
      /\ m.header.frame_header_length = HeaderSize(m)
  BY <1>1, SizeBounds DEF Built, HeaderSize
<1>3. sum \in Byte
  <2>1. uint8(length) \in Byte
    BY DEF uint8, Byte
  <2> QED BY <1>2, <2>1, SumIsByte
<1>4. flags \in SUBSET MrfStateFlags
  <2>1. {MRF_STATE_FRAME_LENGTH_CHANGED, MRF_STATE_PAYLOAD_CHANGED} \subseteq MrfStateFlags
    BY DEF MrfStateFlags
  <2> QED BY <1>1, <2>1, Parts
<1>5. MrfState_setPayload(m, payload, uint8(length)) = n
  BY <1>1 DEF MrfState_setPayload, MrfStates
<1>6. payload \in Pointers
  BY DEF Pointers
<1>7. /\ q \in Requests
      /\ q.destination = r.destination /\ q.source = r.source /\ q.pan_id = r.pan_id
      /\ q.payload = payload /\ q.length = length /\ q.header_size = HeaderSize(m)
  BY <1>1, <1>2, <1>6 DEF Requests
<1> HIDE DEF sum, flags, q
<1>8. /\ n \in MrfStates(Pointers)
      /\ n.header.frame_header = g
      /\ n.header.frame_header_length = m.header.frame_header_length
      /\ n.header.frame_length = sum
      /\ n.payload = payload
  BY <1>1, <1>3, <1>4, <1>6 DEF MrfStates, MrfHeaders
<1> HIDE DEF n
<1>9. Built(n, q)
  <2>1. Loaded(n, q)
    BY <1>2, <1>7, <1>8 DEF Loaded, sum
  <2>2. Addressed(n.header.frame_header, q)
    BY <1>1, <1>7, <1>8 DEF Addressed
  <2>3. n.header.frame_header_length = HeaderSize(n)
    BY <1>2, <1>8 DEF HeaderSize
  <2> QED BY <1>1, <1>7, <1>8, <2>1, <2>2, <2>3 DEF Built
<1> QED BY <1>5, <1>9 DEF q

-----------------------------------------------------------------------------
(* reconfigure starts with a new header.                                   *)

zeros == [i \in 0 .. 1 |-> 0]

InitialRequest == RequestWithoutPayload(zeros, zeros, zeros)

LEMMA InitialIsBuilt ==
  ASSUME NEW m \in MrfStates(Pointers)
  PROVE  Built(MrfState_init(m), InitialRequest)
<1> DEFINE adjacent == m.header.frame_header.data[MAXIMUM_HEADER_SIZE]
           h == FrameHeader802154_init(adjacent)
           bytes == FrameHeader802154_getHeaderSize(h)
           head == [frame_header_length |-> bytes,
                    frame_length        |-> bytes,
                    frame_header        |-> h]
           n == [m EXCEPT !.header = head, !.state = {}]
           q == InitialRequest
<1>1. adjacent \in Byte
  <2>1. m.header.frame_header \in FrameHeaders
    BY Parts
  <2> QED BY <2>1 DEF FrameHeaders, HeaderIndex, MAXIMUM_HEADER_SIZE
<1>2. /\ WellFormed(h)
      /\ ParsedPanId(h) = zeros
      /\ ParsedDestination(h) = zeros
      /\ ParsedSource(h) = zeros
  <2> HIDE DEF adjacent
  <2> QED BY <1>1, InitLemma DEF zeros
<1>3. h \in FrameHeaders /\ bytes \in Byte
  BY <1>2, SizeBounds DEF WellFormed
<1>4. MrfState_init(m) = n
  BY DEF MrfState_init
<1> HIDE DEF h, bytes
<1>5. head \in MrfHeaders
  BY <1>3 DEF MrfHeaders
<1>6. /\ n \in MrfStates(Pointers)
      /\ n.header = head
  <2> HIDE DEF head
  <2> QED BY <1>5 DEF MrfStates
<1>7. /\ zeros \in PanIdBytes /\ zeros \in NodeAddresses
  BY DEF zeros, PanIdBytes, NodeAddresses, ShortBytes, Byte
<1>8. /\ q \in Requests
      /\ q.destination = zeros /\ q.source = zeros /\ q.pan_id = zeros
      /\ q.header_size = 0
  <2>1. q = [destination |-> zeros, source |-> zeros, pan_id |-> zeros,
             payload |-> Null, length |-> 0, header_size |-> 0]
    BY DEF InitialRequest, RequestWithoutPayload
  <2>2. Null \in Pointers /\ 0 \in Nat /\ 0 \in 0 .. MAXIMUM_HEADER_SIZE
    BY DEF Pointers, MAXIMUM_HEADER_SIZE
  <2> HIDE DEF q
  <2> QED BY <1>7, <2>1, <2>2 DEF Requests
<1>9. Built(n, q)
  <2>1. n.header.frame_header = h /\ n.header.frame_header_length = bytes
    BY <1>6
  <2> HIDE DEF n, q, head
  <2> QED BY <1>2, <1>6, <1>8, <2>1 DEF Built, Addressed, Loaded, HeaderSize, bytes
<1> QED BY <1>4, <1>9

\* The MrfState and the request at the end of reconfigure.
LEMMA ConfiguredIsBuilt ==
  ASSUME NEW m \in MrfStates(Pointers), NEW c \in ConfigType
  PROVE  LET initial == MrfState_init(m)
             in_pan  == MrfState_setPanId(initial, c.pan_id)
             sourced == MrfState_setShortSourceAddress(in_pan, c.short_source_address)
         IN Built(MrfState_setExtendedDestinationAddress(sourced, coordinators_address),
                  RequestWithoutPayload(coordinators_address, c.short_source_address,
                                        c.pan_id))
<1> DEFINE initial == MrfState_init(m)
           in_pan  == MrfState_setPanId(initial, c.pan_id)
           sourced == MrfState_setShortSourceAddress(in_pan, c.short_source_address)
           q1 == [InitialRequest EXCEPT !.pan_id = c.pan_id]
           q2 == [q1 EXCEPT !.source = c.short_source_address]
           q3 == [q2 EXCEPT !.destination = coordinators_address]
<1>1. c.pan_id \in PanIdBytes /\ c.short_source_address \in ShortBytes
  BY DEF ConfigType
<1>2. coordinators_address \in ExtendedBytes
  BY DEF coordinators_address, ExtendedBytes, Byte
<1>3. q3 = RequestWithoutPayload(coordinators_address, c.short_source_address, c.pan_id)
  <2>1. q1 = RequestWithoutPayload(zeros, zeros, c.pan_id)
    BY DEF InitialRequest, RequestWithoutPayload
  <2>2. q2 = RequestWithoutPayload(zeros, c.short_source_address, c.pan_id)
    <3> HIDE DEF q1
    <3> QED BY <2>1 DEF RequestWithoutPayload
  <2> HIDE DEF q2
  <2> QED BY <2>2 DEF RequestWithoutPayload
<1>4. Built(initial, InitialRequest)
  BY InitialIsBuilt
<1>5. Built(in_pan, q1)
  <2> HIDE DEF initial
  <2> QED BY <1>1, <1>4, PanIdIsBuilt
<1>6. Built(sourced, q2)
  <2> HIDE DEF in_pan, q1
  <2> QED BY <1>1, <1>5, ShortSourceIsBuilt
<1>7. Built(MrfState_setExtendedDestinationAddress(sourced, coordinators_address), q3)
  <2> HIDE DEF sourced, q2
  <2> QED BY <1>2, <1>6, ExtendedDestinationIsBuilt
<1> QED BY <1>3, <1>7

-----------------------------------------------------------------------------
(* What is built is what goes on air.                                      *)

\* The chip starts with the header and the payload field of the MrfState.
LEMMA FifoIsFrame ==
  ASSUME Built(mrf, request), tx_fifo.header = mrf.header,
         tx_fifo.payload = MrfState_getPayloadField(mrf)
  PROVE  /\ Addressed(mrf.header.frame_header, request)
         /\ FrameInFifo.destination = request.destination
         /\ FrameInFifo.source = request.source
         /\ FrameInFifo.pan_id = request.pan_id
         /\ FrameInFifo.header_size = HeaderSize(mrf)
         /\ request.header_size # 0 =>
              /\ FrameInFifo.payload = request.payload
              /\ FrameInFifo.length =
                   uint8(uint8(uint8(request.length) + request.header_size) - HeaderSize(mrf))
         /\ request.header_size = HeaderSize(mrf) /\ HeaderSize(mrf) # 0 =>
              /\ FrameInFifo.payload = request.payload
              /\ FrameInFifo.length = uint8(request.length)
<1> DEFINE g == mrf.header.frame_header
           bytes == HeaderSize(mrf)
<1>1. /\ WellFormed(g) /\ request \in Requests /\ Addressed(g, request)
      /\ mrf.header.frame_header_length = bytes
      /\ Loaded(mrf, request)
  BY DEF Built
<1>2. bytes \in 0 .. MAXIMUM_HEADER_SIZE /\ PayloadStart(g) = bytes
  BY <1>1, SizeBounds DEF HeaderSize
<1>3. FrameInFifo =
        [pan_id      |-> ParsedPanId(g),
         destination |-> ParsedDestination(g),
         source      |-> ParsedSource(g),
         header_size |-> PayloadStart(g),
         payload     |-> IF /\ tx_fifo.payload.address = length_fields_size + PayloadStart(g)
                            /\ mrf.header.frame_header_length = PayloadStart(g)
                           THEN tx_fifo.payload.data ELSE Null,
         length      |-> uint8(mrf.header.frame_length - mrf.header.frame_header_length)]
  BY DEF FrameInFifo
<1>4. /\ tx_fifo.payload.data = mrf.payload
      /\ tx_fifo.payload.address = MrfState_getFullHeaderLength(mrf)
  BY DEF MrfState_getPayloadField
<1>5. MrfState_getFullHeaderLength(mrf) = length_fields_size + bytes
  <2> HIDE DEF bytes
  <2> QED BY <1>1, <1>2 DEF MrfState_getFullHeaderLength, uint8, length_fields_size,
                            MAXIMUM_HEADER_SIZE
<1>6. FrameInFifo.payload = mrf.payload
  BY <1>1, <1>2, <1>3, <1>4, <1>5
<1>7. ASSUME request.header_size = bytes, bytes # 0
      PROVE  FrameInFifo.payload = request.payload /\ FrameInFifo.length = uint8(request.length)
  <2>1. /\ mrf.payload = request.payload
        /\ mrf.header.frame_length = uint8(uint8(request.length) + bytes)
    BY <1>1, <1>7 DEF Loaded
  <2>2. uint8(request.length) \in Byte
    BY <1>1 DEF Requests, uint8, Byte
  <2>3. FrameInFifo.length = uint8(uint8(uint8(request.length) + bytes) - bytes)
    BY <1>1, <1>3, <2>1
  <2> HIDE DEF bytes
  <2> QED BY <1>2, <1>6, <2>1, <2>2, <2>3, SumAndDifference
<1>8. ASSUME request.header_size # 0
      PROVE  /\ FrameInFifo.payload = request.payload
             /\ FrameInFifo.length =
                  uint8(uint8(uint8(request.length) + request.header_size) - bytes)
  <2>1. /\ mrf.payload = request.payload
        /\ mrf.header.frame_length = uint8(uint8(request.length) + request.header_size)
    BY <1>1, <1>8 DEF Loaded
  <2> QED BY <1>1, <1>3, <1>6, <2>1
<1> QED BY <1>1, <1>2, <1>3, <1>7, <1>8 DEF Addressed

\* The header of a frame takes the space MacService says.
LEMMA SpaceIsHeaderSize ==
  ASSUME NEW m, NEW r, Built(m, r)
  PROVE  Service!SpaceOfHeader(r) = HeaderSize(m) /\ HeaderSize(m) # 0
<1> DEFINE g == m.header.frame_header
<1>1. WellFormed(g) /\ Addressed(g, r)
  BY DEF Built
<1>2. Service!AddressSize(ParsedDestination(g)) = AddressLength(g.destination_addressing_mode)
  <2> DEFINE bytes == AddressLength(g.destination_addressing_mode)
  <2>1. DOMAIN ParsedDestination(g) = 0 .. (bytes - 1)
    BY DEF ParsedDestination, Field
  <2>2. bytes \in {2, 8}
    BY <1>1, Layout
  <2> HIDE DEF bytes
  <2>3. (IF 0 .. (bytes - 1) = 0 .. 1 THEN 2 ELSE 8) = bytes
    <3>1. CASE bytes = 2
      BY <3>1
    <3>2. CASE bytes = 8
      <4>1. 7 \in 0 .. (bytes - 1) /\ 7 \notin 0 .. 1
        BY <3>2
      <4> QED BY <3>2, <4>1
    <3> QED BY <2>2, <3>1, <3>2
  <2>4. Service!AddressSize(ParsedDestination(g)) = bytes
    BY <2>1, <2>3, Zenon DEF Service!AddressSize
  <2> QED BY <2>4 DEF bytes
<1>3. Service!AddressSize(ParsedSource(g)) = AddressLength(g.source_addressing_mode)
  <2> DEFINE bytes == AddressLength(g.source_addressing_mode)
  <2>1. DOMAIN ParsedSource(g) = 0 .. (bytes - 1)
    BY DEF ParsedSource, Field
  <2>2. bytes \in {2, 8}
    BY <1>1, Layout
  <2> HIDE DEF bytes
  <2>3. (IF 0 .. (bytes - 1) = 0 .. 1 THEN 2 ELSE 8) = bytes
    <3>1. CASE bytes = 2
      BY <3>1
    <3>2. CASE bytes = 8
      <4>1. 7 \in 0 .. (bytes - 1) /\ 7 \notin 0 .. 1
        BY <3>2
      <4> QED BY <3>2, <4>1
    <3> QED BY <2>2, <3>1, <3>2
  <2>4. Service!AddressSize(ParsedSource(g)) = bytes
    BY <2>1, <2>3, Zenon DEF Service!AddressSize
  <2> QED BY <2>4 DEF bytes
<1>4. /\ HeaderSize(m) = 5 + AddressLength(g.destination_addressing_mode)
                           + AddressLength(g.source_addressing_mode)
      /\ AddressLength(g.destination_addressing_mode) \in {2, 8}
      /\ AddressLength(g.source_addressing_mode) \in {2, 8}
  BY <1>1, Layout DEF HeaderSize
<1> QED BY <1>1, <1>2, <1>3, <1>4 DEF Service!SpaceOfHeader, Addressed

-----------------------------------------------------------------------------
(* The invariant, and the steps.                                           *)

Sending == {"write payload", "trigger", "poll"}

\* From configure on, the MrfState is what the setters made of the request, and
\* sendBlocking has copied it to the transmit FIFO as far as it got.
FrameIsBuilt ==
  /\ mrf \in MrfStates(Pointers)
  /\ pc \in ReadyStates \cup {"configuring"} => config \in Configs
  /\ pc \in ReadyStates => Built(mrf, request)
  /\ tx_fifo = [header |-> tx_fifo.header, payload |-> tx_fifo.payload]
  /\ pc \in Sending => tx_fifo.header = mrf.header
  /\ pc \in Sending \ {"write payload"} => tx_fifo.payload = MrfState_getPayloadField(mrf)

LEMMA QuietKeepsFrame ==
  ASSUME FrameIsBuilt, UNCHANGED <<mrf, config, pc, request, tx_fifo>>
  PROVE  FrameIsBuilt'
BY DEF FrameIsBuilt

LEMMA ConfigurationKeepsFrame ==
  ASSUME FrameIsBuilt,
         (\E new_config \in Configs : Reconfigure(new_config))
           \/ WriteConfiguration \/ FinishConfiguration
  PROVE  FrameIsBuilt'
<1>1. CASE \E new_config \in Configs : Reconfigure(new_config)
  <2>1. /\ pc' = "configuring" /\ config' \in Configs
        /\ UNCHANGED <<mrf, tx_fifo>>
    BY <1>1 DEF Reconfigure, chip
  <2> QED BY <2>1 DEF FrameIsBuilt, ReadyStates, Sending
<1>2. CASE WriteConfiguration
  BY <1>2, QuietKeepsFrame DEF WriteConfiguration
<1>3. CASE FinishConfiguration
  <2>1. /\ pc = "configuring" /\ pc' = "ready"
        /\ UNCHANGED <<config, tx_fifo>>
    BY <1>3 DEF FinishConfiguration, chip
  <2>2. mrf \in MrfStates(Pointers) /\ config \in ConfigType
    BY <2>1, DriverAssumption DEF FrameIsBuilt
  <2>3. Built(mrf', request')
    BY <1>3, <2>2, ConfiguredIsBuilt DEF FinishConfiguration
  <2> QED BY <2>1, <2>3 DEF FrameIsBuilt, ReadyStates, Sending, Built
<1> QED BY <1>1, <1>2, <1>3

LEMMA SetterKeepsFrame ==
  ASSUME FrameIsBuilt, NEW m, NEW r, Built(m, r), SetUp(m, r)
  PROVE  FrameIsBuilt'
<1>1. /\ pc = "ready" /\ mrf' = m /\ request' = r
      /\ UNCHANGED <<config, pc, tx_fifo>>
  BY DEF SetUp, chip
<1> QED BY <1>1 DEF FrameIsBuilt, ReadyStates, Sending, Built

LEMMA SendingKeepsFrame ==
  ASSUME FrameIsBuilt, SendBlocking \/ SendSteps
  PROVE  FrameIsBuilt'
<1>1. CASE SendBlocking
  <2>1. /\ pc = "ready" /\ pc' = "write payload"
        /\ tx_fifo' = [tx_fifo EXCEPT !.header = mrf.header]
        /\ UNCHANGED <<mrf, config, request>>
    BY <1>1 DEF SendBlocking, MrfState_getFullHeaderField, histories
  <2>2. /\ tx_fifo' = [header |-> tx_fifo'.header, payload |-> tx_fifo'.payload]
        /\ tx_fifo'.header = mrf.header
    BY <2>1 DEF FrameIsBuilt
  <2> QED BY <2>1, <2>2 DEF FrameIsBuilt, ReadyStates, Sending
<1>2. CASE WritePayloadField
  <2>1. /\ pc = "write payload" /\ pc' = "trigger"
        /\ tx_fifo' = [tx_fifo EXCEPT !.payload = MrfState_getPayloadField(mrf)]
        /\ UNCHANGED <<mrf, config, request>>
    BY <1>2 DEF WritePayloadField, histories
  <2>2. /\ tx_fifo' = [header |-> tx_fifo'.header, payload |-> tx_fifo'.payload]
        /\ tx_fifo'.header = tx_fifo.header
        /\ tx_fifo'.payload = MrfState_getPayloadField(mrf)
    BY <2>1 DEF FrameIsBuilt
  <2>3. MrfState_getPayloadField(mrf)' = MrfState_getPayloadField(mrf)
    BY <2>1 DEF MrfState_getPayloadField, MrfState_getFullHeaderLength, MrfState_getPayloadLength
  <2> QED BY <2>1, <2>2, <2>3 DEF FrameIsBuilt, ReadyStates, Sending
<1>3. CASE TriggerSend \/ PollInterruptStatus
  <2>1. /\ pc \in {"trigger", "poll"} /\ pc' \in {"poll", "ready"}
        /\ UNCHANGED <<mrf, config, request, tx_fifo>>
    BY <1>3 DEF TriggerSend, PollInterruptStatus, histories
  <2>2. MrfState_getPayloadField(mrf)' = MrfState_getPayloadField(mrf)
    BY <2>1 DEF MrfState_getPayloadField, MrfState_getFullHeaderLength, MrfState_getPayloadLength
  <2> QED BY <2>1, <2>2 DEF FrameIsBuilt, ReadyStates, Sending
<1> QED BY <1>1, <1>2, <1>3 DEF SendSteps

\* A step of the driver or the chip is a step of the service, or none.
ServiceStep == [Service!Next]_(Service!service)

Goal == FrameIsBuilt' /\ ServiceStep

LEMMA QuietSteps ==
  ASSUME FrameIsBuilt, UNCHANGED <<mrf, config, pc, request, tx_fifo>>,
         transmitting' <=> transmitting
  PROVE  Goal
<1>1. FrameIsBuilt'
  BY QuietKeepsFrame
<1>2. FrameInFifo' = FrameInFifo
  BY DEF FrameInFifo
<1>3. UNCHANGED Service!service
  BY <1>2 DEF Service!service, Phase, OnAir
<1> QED BY <1>1, <1>3 DEF Goal, ServiceStep

LEMMA ConfigurationSteps ==
  ASSUME FrameIsBuilt, OneTransmission, Configuration
  PROVE  Goal
<1>0. FrameIsBuilt'
  BY ConfigurationKeepsFrame DEF Configuration
<1>1. ASSUME NEW new_config \in Configs, Reconfigure(new_config)
      PROVE  Goal
  <2>1. /\ pc \in {"unconfigured", "ready"} /\ pc' = "configuring"
        /\ config' = new_config /\ request' = NothingRequested
        /\ UNCHANGED <<mrf, tx_fifo, transmitting>>
    BY <1>1 DEF Reconfigure, chip
  <2>3. ~transmitting /\ ~transmitting'
    BY <2>1 DEF OneTransmission
  <2>4. Phase \in {"off", "idle"} /\ Phase' = "configuring" /\ UNCHANGED OnAir
    BY <2>1, <2>3 DEF Phase, OnAir
  <2>5. NothingRequested = Service!Nothing
    BY DEF NothingRequested, RequestWithoutPayload, Service!Nothing, Service!WithoutPayload
  <2>6. Service!Configure
    BY <2>1, <2>4, <2>5 DEF Service!Configure
  <2> QED BY <1>0, <2>6 DEF Goal, ServiceStep, Service!Next
<1>2. CASE WriteConfiguration
  <2>1. /\ pc = "configuring" /\ (transmitting' => transmitting)
        /\ UNCHANGED <<mrf, config, pc, request, tx_fifo>>
    BY <1>2 DEF WriteConfiguration
  <2>2. ~transmitting /\ ~transmitting'
    BY <2>1 DEF OneTransmission
  <2> QED BY <2>1, <2>2, QuietSteps
<1>3. CASE FinishConfiguration
  <2>1. /\ pc = "configuring" /\ pc' = "ready"
        /\ request' = RequestWithoutPayload(coordinators_address,
                         config.short_source_address, config.pan_id)
        /\ UNCHANGED <<config, tx_fifo, transmitting>>
    BY <1>3 DEF FinishConfiguration, chip
  <2>5. ~transmitting /\ ~transmitting'
    BY <2>1 DEF OneTransmission
  <2>6. Phase = "configuring" /\ Phase' = "idle" /\ UNCHANGED OnAir
    BY <2>1, <2>5 DEF Phase, OnAir
  <2>7. request' = Service!WithoutPayload(request'.destination, request'.source,
                                          request'.pan_id)
    BY <2>1 DEF RequestWithoutPayload, Service!WithoutPayload
  <2>8. Service!Configured
    BY <2>6, <2>7 DEF Service!Configured
  <2> QED BY <1>0, <2>8 DEF Goal, ServiceStep, Service!Next
<1> QED BY <1>1, <1>2, <1>3 DEF Configuration

\* Once the setter's MrfState is known to be built, the rest is the same for all.
LEMMA SetterStep ==
  ASSUME FrameIsBuilt, NEW m, NEW r, Built(m, r), SetUp(m, r),
         \/ r = [request EXCEPT !.destination = r.destination]
         \/ r = [request EXCEPT !.source = r.source]
         \/ r = [request EXCEPT !.payload = r.payload, !.length = r.length,
                               !.header_size = Service!SpaceOfHeader(request)]
  PROVE  Goal
<1>1. /\ pc = "ready" /\ mrf' = m /\ request' = r
      /\ UNCHANGED <<config, pc, tx_fifo, transmitting>>
  BY DEF SetUp, chip
<1>2. FrameIsBuilt'
  BY SetterKeepsFrame
<1>3. Phase = "idle" /\ UNCHANGED Phase
  BY <1>1 DEF Phase
<1>4. FrameInFifo' = FrameInFifo
  BY <1>1 DEF FrameInFifo
<1>5. UNCHANGED OnAir
  BY <1>1, <1>4 DEF OnAir
<1>6. Service!SetDestination \/ Service!SetSource \/ Service!SetPayload
  BY <1>1 DEF Service!SetDestination, Service!SetSource, Service!SetPayload
<1>7. Service!Set
  BY <1>3, <1>5, <1>6 DEF Service!Set
<1> QED BY <1>2, <1>7 DEF Goal, ServiceStep, Service!Next

LEMMA SettersSteps ==
  ASSUME FrameIsBuilt, Setters
  PROVE  Goal
<1>1. /\ pc = "ready" /\ Built(mrf, request) /\ request \in Requests /\ config \in ConfigType
  <2>1. pc = "ready"
    BY DEF Setters, SetShortDestinationAddress, SetExtendedDestinationAddress,
           UseExtendedSourceAddress, UseShortSourceAddress, SetPayload, SetUp
  <2> QED BY <2>1, DriverAssumption DEF FrameIsBuilt, ReadyStates, Built
<1>2. config.short_source_address \in ShortBytes /\ config.extended_source_address \in ExtendedBytes
  BY <1>1 DEF ConfigType
<1>3. ASSUME NEW address \in ShortDestinations, SetShortDestinationAddress(address)
      PROVE  Goal
  <2> DEFINE m == MrfState_setShortDestinationAddress(mrf, address)
             r == [request EXCEPT !.destination = address]
  <2>1. address \in ShortBytes /\ address \in NodeAddresses
    BY DriverAssumption DEF NodeAddresses
  <2>2. Built(m, r)
    BY <1>1, <2>1, ShortDestinationIsBuilt
  <2>3. SetUp(m, r)
    BY <1>3 DEF SetShortDestinationAddress
  <2>4. r.destination = address
    BY <1>1, <2>1, OtherDestination
  <2>5. r = [request EXCEPT !.destination = r.destination]
    BY <2>4
  <2> HIDE DEF m, r
  <2> QED BY <2>2, <2>3, <2>5, SetterStep
<1>4. ASSUME NEW address \in ExtendedDestinations, SetExtendedDestinationAddress(address)
      PROVE  Goal
  <2> DEFINE m == MrfState_setExtendedDestinationAddress(mrf, address)
             r == [request EXCEPT !.destination = address]
  <2>1. address \in ExtendedBytes /\ address \in NodeAddresses
    BY DriverAssumption DEF NodeAddresses
  <2>2. Built(m, r)
    BY <1>1, <2>1, ExtendedDestinationIsBuilt
  <2>3. SetUp(m, r)
    BY <1>4 DEF SetExtendedDestinationAddress
  <2>4. r.destination = address
    BY <1>1, <2>1, OtherDestination
  <2>5. r = [request EXCEPT !.destination = r.destination]
    BY <2>4
  <2> HIDE DEF m, r
  <2> QED BY <2>2, <2>3, <2>5, SetterStep
<1>5. CASE UseExtendedSourceAddress
  <2> DEFINE address == config.extended_source_address
             m == MrfState_setExtendedSourceAddress(mrf, address)
             r == [request EXCEPT !.source = address]
  <2>1. address \in NodeAddresses
    BY <1>2 DEF NodeAddresses
  <2>2. Built(m, r)
    BY <1>1, <1>2, ExtendedSourceIsBuilt
  <2>3. SetUp(m, r)
    BY <1>5 DEF UseExtendedSourceAddress
  <2>4. r.source = address
    BY <1>1, <2>1, OtherSource
  <2>5. r = [request EXCEPT !.source = r.source]
    BY <2>4
  <2> HIDE DEF m, r
  <2> QED BY <2>2, <2>3, <2>5, SetterStep
<1>6. CASE UseShortSourceAddress
  <2> DEFINE address == config.short_source_address
             m == MrfState_setShortSourceAddress(mrf, address)
             r == [request EXCEPT !.source = address]
  <2>1. address \in NodeAddresses
    BY <1>2 DEF NodeAddresses
  <2>2. Built(m, r)
    BY <1>1, <1>2, ShortSourceIsBuilt
  <2>3. SetUp(m, r)
    BY <1>6 DEF UseShortSourceAddress
  <2>4. r.source = address
    BY <1>1, <2>1, OtherSource
  <2>5. r = [request EXCEPT !.source = r.source]
    BY <2>4
  <2> HIDE DEF m, r
  <2> QED BY <2>2, <2>3, <2>5, SetterStep
<1>7. ASSUME NEW payload \in Payloads, NEW length \in PayloadLengths,
             SetPayload(payload, length)
      PROVE  Goal
  <2> DEFINE m == MrfState_setPayload(mrf, payload, uint8(length))
             r == [request EXCEPT !.payload = payload, !.length = length,
                                  !.header_size = HeaderSize(mrf)]
  <2>1. length \in Nat
    BY DriverAssumption
  <2>2. Built(m, r)
    BY <1>1, <2>1, PayloadIsBuilt
  <2>3. SetUp(m, r)
    BY <1>7 DEF SetPayload
  <2>4. Service!SpaceOfHeader(request) = HeaderSize(mrf)
    BY <1>1, SpaceIsHeaderSize
  <2>5. r.payload = payload /\ r.length = length
    BY <1>1 DEF Requests
  <2>6. r = [request EXCEPT !.payload = r.payload, !.length = r.length,
                            !.header_size = Service!SpaceOfHeader(request)]
    BY <2>4, <2>5
  <2> HIDE DEF m, r
  <2> QED BY <2>2, <2>3, <2>6, SetterStep
<1> QED BY <1>3, <1>4, <1>5, <1>6, <1>7 DEF Setters

\* sendBlocking: submitted, on air with what was asked for, and back.
LEMMA SendingIsServiceStep ==
  ASSUME FrameIsBuilt, OneTransmission, SendBlocking \/ SendSteps
  PROVE  Goal
<1>0. FrameIsBuilt'
  BY SendingKeepsFrame
<1>1. CASE SendBlocking
  <2>1. /\ pc = "ready" /\ pc' = "write payload"
        /\ tx_fifo' = [tx_fifo EXCEPT !.header = mrf.header]
        /\ UNCHANGED <<mrf, config, request, transmitting>>
    BY <1>1 DEF SendBlocking, MrfState_getFullHeaderField, histories
  <2>4. ~transmitting /\ ~transmitting'
    BY <2>1 DEF OneTransmission
  <2>5. Phase = "idle" /\ Phase' = "submitted" /\ UNCHANGED OnAir
    BY <2>1, <2>4 DEF Phase, OnAir
  <2>6. Service!Submit
    BY <2>1, <2>5 DEF Service!Submit
  <2> QED BY <1>0, <2>6 DEF Goal, ServiceStep, Service!Next
<1>2. CASE WritePayloadField
  <2>1. /\ pc = "write payload" /\ pc' = "trigger"
        /\ tx_fifo' = [tx_fifo EXCEPT !.payload = MrfState_getPayloadField(mrf)]
        /\ UNCHANGED <<mrf, config, request, transmitting>>
    BY <1>2 DEF WritePayloadField, histories
  <2>5. ~transmitting /\ ~transmitting'
    BY <2>1 DEF OneTransmission
  <2>6. UNCHANGED <<Phase, request, OnAir>>
    BY <2>1, <2>5 DEF Phase, OnAir
  <2> QED BY <1>0, <2>6 DEF Goal, ServiceStep, Service!service
<1>3. CASE TriggerSend
  <2>1. /\ pc = "trigger" /\ pc' = "poll" /\ transmitting'
        /\ UNCHANGED <<mrf, config, request, tx_fifo>>
    BY <1>3 DEF TriggerSend, histories
  <2>4. /\ Built(mrf, request) /\ tx_fifo.header = mrf.header
        /\ tx_fifo.payload = MrfState_getPayloadField(mrf)
    BY <2>1 DEF FrameIsBuilt, ReadyStates, Sending
  <2>5. FrameInFifo' = FrameInFifo
    BY <2>1 DEF FrameInFifo
  <2>6. OnAir' = FrameInFifo
    BY <2>1, <2>5 DEF OnAir
  <2>7. Service!SpaceOfHeader(request) = HeaderSize(mrf) /\ HeaderSize(mrf) # 0
    BY <2>4, SpaceIsHeaderSize
  <2>8. Service!Carries(FrameInFifo, request)
    BY <2>4, <2>7, FifoIsFrame DEF Service!Carries, uint8
  <2>9. Phase = "submitted" /\ Phase' = "on air"
    BY <2>1 DEF Phase
  <2>10. Service!GoOnAir
    BY <2>1, <2>6, <2>8, <2>9 DEF Service!GoOnAir
  <2> QED BY <1>0, <2>10 DEF Goal, ServiceStep, Service!Next
<1>4. CASE PollInterruptStatus
  <2>1. /\ pc = "poll"
        /\ pc' = IF TXInterrupt \in int_status THEN "ready" ELSE "poll"
        /\ UNCHANGED <<mrf, config, request, tx_fifo, transmitting>>
    BY <1>4 DEF PollInterruptStatus, histories
  <2>2. CASE TXInterrupt \in int_status
    <3>1. ~transmitting /\ ~transmitting'
      BY <2>1, <2>2 DEF OneTransmission
    <3>3. Phase = "sent" /\ Phase' = "idle" /\ UNCHANGED OnAir
      BY <2>1, <2>2, <3>1 DEF Phase, OnAir
    <3>4. Service!Return
      BY <2>1, <3>3 DEF Service!Return
    <3> QED BY <1>0, <3>4 DEF Goal, ServiceStep, Service!Next
  <2>3. CASE TXInterrupt \notin int_status
    BY <2>1, <2>3, QuietSteps
  <2> QED BY <2>2, <2>3
<1> QED BY <1>1, <1>2, <1>3, <1>4 DEF SendSteps

\* Reception and promiscuous mode do not touch what is sent; the chip ends what it
\* was started with.
LEMMA OtherSteps ==
  ASSUME FrameIsBuilt, OneTransmission,
         \/ NewMessageAvailable \/ EnablePromiscuousMode \/ DisablePromiscuousMode
         \/ TransmissionEnds \/ PacketArrives
  PROVE  Goal
<1>1. CASE NewMessageAvailable \/ EnablePromiscuousMode \/ DisablePromiscuousMode
  <2>1. UNCHANGED <<mrf, config, pc, request, tx_fifo, transmitting>>
    BY <1>1 DEF NewMessageAvailable, EnablePromiscuousMode, DisablePromiscuousMode,
                SetPromiscuousMode, driver, histories
  <2> QED BY <2>1, QuietSteps
<1>2. CASE PacketArrives
  <2>1. UNCHANGED <<mrf, config, pc, request, tx_fifo, transmitting>>
    BY <1>2 DEF PacketArrives, Receive, driver
  <2> QED BY <2>1, QuietSteps
<1>3. CASE TransmissionEnds
  <2>1. /\ transmitting /\ ~transmitting'
        /\ UNCHANGED <<mrf, config, pc, request, tx_fifo>>
    BY <1>3 DEF TransmissionEnds, driver, histories
  <2>2. pc = "poll"
    BY <2>1 DEF OneTransmission
  <2>3. FrameIsBuilt'
    BY <2>1, QuietKeepsFrame
  <2>4. Phase = "on air" /\ Phase' = "sent" /\ OnAir' = Null
    BY <2>1, <2>2 DEF Phase, OnAir
  <2>5. Service!End
    BY <2>1, <2>4 DEF Service!End
  <2> QED BY <2>3, <2>5 DEF Goal, ServiceStep, Service!Next
<1> QED BY <1>1, <1>2, <1>3

LEMMA SendStepIsServiceStep ==
  ASSUME FrameIsBuilt, OneTransmission, [SendNext]_vars
  PROVE  Goal
<1>1. CASE UNCHANGED vars
  BY <1>1, QuietSteps DEF vars
<1>2. CASE SendNext
  <2>1. CASE Configuration
    BY <2>1, ConfigurationSteps
  <2>2. CASE Setters
    BY <2>2, SettersSteps
  <2>3. CASE SendBlocking \/ SendSteps
    BY <2>3, SendingIsServiceStep
  <2>4. CASE \/ NewMessageAvailable \/ EnablePromiscuousMode \/ DisablePromiscuousMode
             \/ TransmissionEnds \/ PacketArrives
    BY <2>4, OtherSteps
  <2> QED BY <1>2, <2>1, <2>2, <2>3, <2>4 DEF SendNext
<1> QED BY <1>1, <1>2

\* The memory Mac802154MRF_create starts from.
LEMMA StaticMemoryIsMrfState == StaticMemory \in MrfStates(Pointers)
<1> DEFINE h == FrameHeader802154_init(0)
           head == [frame_header_length |-> 0, frame_length |-> 0, frame_header |-> h]
<1>1. 0 \in Byte
  BY DEF Byte
<1>2. h \in FrameHeaders
  BY <1>1, InitLemma DEF WellFormed
<1> HIDE DEF h
<1>3. head \in MrfHeaders
  BY <1>1, <1>2 DEF MrfHeaders
<1>4. StaticMemory = [header |-> head, payload |-> Null, state |-> {}]
  BY DEF StaticMemory, h
<1> HIDE DEF head
<1> QED BY <1>3, <1>4 DEF MrfStates, Pointers

LEMMA InitIsServiceInit == Init => FrameIsBuilt /\ Service!Init
<1> SUFFICES ASSUME Init PROVE FrameIsBuilt /\ Service!Init
  OBVIOUS
<1>1. /\ mrf = StaticMemory /\ pc = "unconfigured" /\ ~transmitting
      /\ tx_fifo = [header |-> StaticMemory.header, payload |-> Null]
      /\ request = NothingRequested
  BY DEF Init
<1>2. FrameIsBuilt
  <2>1. tx_fifo = [header |-> tx_fifo.header, payload |-> tx_fifo.payload]
    BY <1>1
  <2> QED BY StaticMemoryIsMrfState, <1>1, <2>1 DEF FrameIsBuilt, ReadyStates, Sending
<1>3. Service!Init
  BY <1>1 DEF Service!Init, Phase, OnAir, NothingRequested, RequestWithoutPayload,
              Service!Nothing, Service!WithoutPayload
<1> QED BY <1>2, <1>3

LEMMA SendingInvariants == SendSpec => [](FrameIsBuilt /\ OneTransmission)
<1>1. FrameIsBuilt /\ OneTransmission /\ [SendNext]_vars => FrameIsBuilt' /\ OneTransmission'
  BY SendStepIsServiceStep, SendStepKeepsOneTransmission DEF Goal
<1> QED BY <1>1, InitIsServiceInit, InitOneTransmission, PTL DEF SendSpec

\* Every frame on air has the addresses that were chosen last and the payload that
\* was set, of the length it was set with (Mac802154MRFImpl.c:184-264).
THEOREM AiredFrameCorrect == SendSpec => []AiredFrameIsWhatWasAskedFor
<1>1. FrameIsBuilt /\ OneTransmission => AiredFrameIsWhatWasAskedFor
  <2> SUFFICES ASSUME FrameIsBuilt, OneTransmission, transmitting
               PROVE  AiredFrameIsWhatWasAskedFor
    BY DEF AiredFrameIsWhatWasAskedFor
  <2>1. pc = "poll"
    BY DEF OneTransmission
  <2>2. /\ Built(mrf, request) /\ tx_fifo.header = mrf.header
        /\ tx_fifo.payload = MrfState_getPayloadField(mrf)
    BY <2>1 DEF FrameIsBuilt, ReadyStates, Sending
  <2>3. HeaderSize(mrf) # 0
    BY <2>2, SpaceIsHeaderSize
  <2> QED BY <2>2, <2>3, FifoIsFrame DEF AiredFrameIsWhatWasAskedFor
<1> QED BY <1>1, SendingInvariants, PTL

\* What the driver and the chip do is what Mac802154.h promises about sending: one
\* frame on air for each sendBlocking, the one that was asked for.
THEOREM ServiceIsImplemented == SendSpec => SendingImplementsService
<1>1. Init => Service!Init
  BY InitIsServiceInit
<1>2. FrameIsBuilt /\ OneTransmission /\ [SendNext]_vars => [Service!Next]_(Service!service)
  BY SendStepIsServiceStep DEF Goal, ServiceStep
<1> QED BY <1>1, <1>2, SendingInvariants, PTL
        DEF SendSpec, SendingImplementsService, Service!Spec

-----------------------------------------------------------------------------
(* What the chip is configured to.                                         *)

\* What the cells of a configuration have to do with the driver: while it
\* configures, the transactions that are left write them, or they were written and
\* are left alone; afterwards they are written.
RegistersAreConfigured ==
  /\ register \in [ControlRegisters -> Byte]
  /\ writes \in Seq(ByteWrites) /\ Len(writes) <= 64
  /\ pc \in ReadyStates \cup {"configuring"} => config \in Configs
  /\ pc = "configuring" =>
       \A w \in ConfiguredCells(config) : Owes(writes, register, w[1], w[2])
  /\ pc \in ReadyStates => \A w \in ConfiguredCells(config) : register[w[1]] = w[2]

\* The cells of a configuration are registers, other than those the software reset
\* and the promiscuous mode write.
LEMMA CellsOfConfiguration ==
  ASSUME NEW c \in ConfigType, NEW w \in ConfiguredCells(c)
  PROVE  /\ w[1] \in ControlRegisters
         /\ w[1] # ResetCell
         /\ w[1] # Cell("short", mrf_register_receive_mac_control)
<1>1. \/ w[1] = <<"short", 50>> \/ w[1] = <<"long", 512>> \/ w[1] = <<"short", 54>>
      \/ \E k \in 1 .. 12 : w[1] = <<"short", k>>
  <2>1. CASE w \in RunningCells(c.channel)
    BY <2>1 DEF RunningCells, Cell, mrf_register_interrupt_control, mrf_register_rf_control0,
                mrf_register_rf_mode_control
  <2>2. CASE w \in BlockCells(mrf_register_short_address_low_byte, c.short_source_address, 2)
    <3>1. PICK i \in 0 .. 1 : w[1] = <<"short", 3 + i>>
      BY <2>2 DEF BlockCells, Cell, mrf_register_short_address_low_byte
    <3>2. 3 + i \in 1 .. 12
      OBVIOUS
    <3> QED BY <3>1, <3>2
  <2>3. CASE w \in BlockCells(mrf_register_extended_address0, c.extended_source_address, 8)
    <3>1. PICK i \in 0 .. 7 : w[1] = <<"short", 5 + i>>
      BY <2>3 DEF BlockCells, Cell, mrf_register_extended_address0
    <3>2. 5 + i \in 1 .. 12
      OBVIOUS
    <3> QED BY <3>1, <3>2
  <2>4. CASE w \in BlockCells(mrf_register_pan_id_low_byte, c.pan_id, 2)
    <3>1. PICK i \in 0 .. 1 : w[1] = <<"short", 1 + i>>
      BY <2>4 DEF BlockCells, Cell, mrf_register_pan_id_low_byte
    <3>2. 1 + i \in 1 .. 12
      OBVIOUS
    <3> QED BY <3>1, <3>2
  <2> QED BY <2>1, <2>2, <2>3, <2>4 DEF ConfiguredCells
<1>2. w[1] \in ControlRegisters
  BY <1>1 DEF ControlRegisters
<1>3. w[1] # <<"short", 42>> /\ w[1] # <<"short", 0>>
  BY <1>1
<1> QED BY <1>2, <1>3 DEF ResetCell, Cell, mrf_register_software_reset,
                          mrf_register_receive_mac_control

\* The steps that do not configure: they stay among the states in which the driver
\* is configured, or leave them for good.
LEMMA RegistersUntouched ==
  ASSUME RegistersAreConfigured, UNCHANGED <<register, writes, config>>,
         pc' = pc \/ (pc \in ReadyStates /\ pc' \in ReadyStates)
  PROVE  RegistersAreConfigured'
BY DEF RegistersAreConfigured, ReadyStates

\* reconfigure, from its first transaction to its last.
LEMMA ConfigurationConfigures ==
  ASSUME RegistersAreConfigured,
         (\E new_config \in Configs : Reconfigure(new_config))
           \/ WriteConfiguration \/ FinishConfiguration
  PROVE  RegistersAreConfigured'
<1>1. ASSUME NEW new_config \in Configs, Reconfigure(new_config)
      PROVE  RegistersAreConfigured'
  <2>1. /\ pc' = "configuring" /\ config' = new_config /\ register' = register
        /\ writes' = ConfigurationWrites(new_config)
    BY <1>1 DEF Reconfigure, chip
  <2>2. new_config \in ConfigType
    BY DriverAssumption
  <2>3. /\ HasLength(ConfigurationWrites(new_config), 30)
        /\ SettlesAll(ConfigurationWrites(new_config), ConfiguredCells(new_config))
    <3>1. /\ new_config.short_source_address    \in [0 .. (2 - 1) -> Byte]
          /\ new_config.extended_source_address \in [0 .. (8 - 1) -> Byte]
          /\ new_config.pan_id                  \in [0 .. (2 - 1) -> Byte]
          /\ new_config.channel \in Int
      <4>1. /\ new_config.short_source_address \in ShortBytes
            /\ new_config.extended_source_address \in ExtendedBytes
            /\ new_config.pan_id \in PanIdBytes /\ new_config.channel \in Byte
        BY <2>2 DEF ConfigType
      <4>2. 2 - 1 = 1 /\ 8 - 1 = 7 /\ \A b \in Byte : b \in Int
        BY DEF Byte
      <4> QED BY <4>1, <4>2, Zenon DEF ShortBytes, ExtendedBytes, PanIdBytes
    <3> QED BY <3>1, ReconfigureSettles
  <2>4. writes' \in Seq(ByteWrites) /\ Len(writes') <= 64
    BY <2>1, <2>3 DEF HasLength
  <2>5. \A w \in ConfiguredCells(config') : Owes(writes', register', w[1], w[2])
    BY <2>1, <2>3 DEF SettlesAll, Owes
  <2> QED BY <2>1, <2>4, <2>5 DEF RegistersAreConfigured, ReadyStates
<1>2. CASE WriteConfiguration
  <2> DEFINE t == Head(writes)
  <2>1. /\ pc = "configuring" /\ writes # <<>> /\ writes' = Tail(writes)
        /\ UNCHANGED <<config, pc>>
        /\ register' = AfterTransaction(register, t)
    BY <1>2 DEF WriteConfiguration, AfterTransaction, Resets, ResetCell, WrittenCell,
                WrittenValue
  <2>2. /\ register \in [ControlRegisters -> Byte] /\ writes \in Seq(ByteWrites)
        /\ Len(writes) <= 64 /\ config \in Configs /\ config \in ConfigType
        /\ \A w \in ConfiguredCells(config) : Owes(writes, register, w[1], w[2])
    BY <2>1, DriverAssumption DEF RegistersAreConfigured
  <2>3. writes' \in Seq(ByteWrites) /\ Len(writes') <= 64
    BY <2>1, <2>2
  <2>4. register' \in [ControlRegisters -> Byte]
    <3>1. t \in ByteWrites
      BY <2>1, <2>2
    <3>2. WrittenValue(t) \in Byte
      BY <3>1 DEF ByteWrites, WrittenValue
    <3>3. 0 \in Byte
      BY DEF Byte
    <3> HIDE DEF t
    <3> QED BY <2>1, <2>2, <3>2, <3>3 DEF AfterTransaction
  <2>5. ASSUME NEW w \in ConfiguredCells(config)
        PROVE  Owes(writes', register', w[1], w[2])
    <3>1. w[1] \in ControlRegisters /\ w[1] # ResetCell
      BY <2>2, CellsOfConfiguration
    <3>2. Owes(Tail(writes), AfterTransaction(register, Head(writes)), w[1], w[2])
      BY <2>1, <2>2, <3>1, OneTransactionLess
    <3> QED BY <2>1, <3>2
  <2> QED BY <2>1, <2>2, <2>3, <2>4, <2>5 DEF RegistersAreConfigured, ReadyStates
<1>3. CASE FinishConfiguration
  <2>1. /\ pc = "configuring" /\ pc' = "ready" /\ writes = <<>>
        /\ UNCHANGED <<config, writes, register>>
    BY <1>3 DEF FinishConfiguration, chip
  <2>2. \A w \in ConfiguredCells(config) : register[w[1]] = w[2]
    <3>1. \A c, v : ~Settles(writes, c, v)
      BY <2>1 DEF Settles
    <3> QED BY <2>1, <3>1 DEF RegistersAreConfigured, Owes
  <2> QED BY <2>1, <2>2 DEF RegistersAreConfigured, ReadyStates
<1> QED BY <1>1, <1>2, <1>3

\* The promiscuous mode has a register of its own.
LEMMA PromiscuousModeConfiguresNothing ==
  ASSUME RegistersAreConfigured, EnablePromiscuousMode \/ DisablePromiscuousMode
  PROVE  RegistersAreConfigured'
<1>1. PICK value \in {0, 1} : SetPromiscuousMode(value)
  BY DEF EnablePromiscuousMode, DisablePromiscuousMode
<1>2. /\ pc = "ready" /\ UNCHANGED <<pc, config, writes>>
      /\ register' = [register EXCEPT
                        ![Cell("short", mrf_register_receive_mac_control)] = value]
  BY <1>1 DEF SetPromiscuousMode, driver
<1>3. /\ register \in [ControlRegisters -> Byte] /\ config \in ConfigType
      /\ \A w \in ConfiguredCells(config) : register[w[1]] = w[2]
  BY <1>2, DriverAssumption DEF RegistersAreConfigured, ReadyStates
<1>4. value \in Byte
  BY DEF Byte
<1>5. register' \in [ControlRegisters -> Byte]
  BY <1>2, <1>3, <1>4
<1>6. \A w \in ConfiguredCells(config) : register'[w[1]] = w[2]
  BY <1>2, <1>3, CellsOfConfiguration
<1> QED BY <1>2, <1>5, <1>6 DEF RegistersAreConfigured

LEMMA SendStepKeepsRegisters ==
  ASSUME RegistersAreConfigured, [SendNext]_vars
  PROVE  RegistersAreConfigured'
<1>1. CASE UNCHANGED vars
  BY <1>1, RegistersUntouched DEF vars
<1>2. CASE Configuration
  BY <1>2, ConfigurationConfigures DEF Configuration
<1>3. CASE Setters
  BY <1>3, RegistersUntouched DEF Setters, SetShortDestinationAddress,
     SetExtendedDestinationAddress, UseExtendedSourceAddress, UseShortSourceAddress,
     SetPayload, SetUp, chip
<1>4. CASE SendBlocking \/ SendSteps
  <2>1. pc \in ReadyStates /\ pc' \in ReadyStates /\ UNCHANGED <<register, writes, config>>
    BY <1>4 DEF SendBlocking, SendSteps, WritePayloadField, TriggerSend,
                PollInterruptStatus, ReadyStates
  <2> QED BY <2>1, RegistersUntouched
<1>5. CASE NewMessageAvailable \/ TransmissionEnds \/ PacketArrives
  BY <1>5, RegistersUntouched DEF NewMessageAvailable, TransmissionEnds, PacketArrives,
     Receive, driver
<1>6. CASE EnablePromiscuousMode \/ DisablePromiscuousMode
  BY <1>6, PromiscuousModeConfiguresNothing
<1> QED BY <1>1, <1>2, <1>3, <1>4, <1>5, <1>6 DEF SendNext

LEMMA RegistersInitially == Init => RegistersAreConfigured
<1>1. <<>> \in Seq(ByteWrites) /\ Len(<<>>) <= 64 /\ 0 \in Byte
  BY DEF Byte
<1> QED BY <1>1 DEF Init, RegistersAreConfigured, ReadyStates

\* The channels of IEEE 802.15.4 in the band of the MRF24J40.  The code does not
\* check the channel it is given.
ChannelsExist == \A c \in Configs : c.channel \in 11 .. 26

LEMMA ConfiguredIsListening ==
  ASSUME RegistersAreConfigured, ChannelsExist
  PROVE  ChipListensToTheConfiguration
<1> SUFFICES ASSUME pc \in ReadyStates PROVE ChipListensToTheConfiguration
  BY DEF ChipListensToTheConfiguration
<1>1. /\ config \in ConfigType /\ config.channel \in 11 .. 26
      /\ \A w \in ConfiguredCells(config) : register[w[1]] = w[2]
  BY DriverAssumption DEF RegistersAreConfigured, ChannelsExist
<1> DEFINE Holds(c, v) == register[c] = v
<1>2. \A c, v : <<c, v>> \in ConfiguredCells(config) => Holds(c, v)
  BY <1>1
<1>3. /\ Holds(Cell("short", mrf_register_interrupt_control), mrf_value_rx_interrupt_enabled)
      /\ Holds(Cell("long", mrf_register_rf_control0),
               MRF_getRegisterValueForChannelNumber(config.channel))
      /\ Holds(Cell("short", mrf_register_rf_mode_control),
               mrf_value_rf_state_machine_operating_state)
  <2> HIDE DEF Holds
  <2> QED BY <1>2 DEF ConfiguredCells, RunningCells
<1>4. \A address, n, bytes :
        BlockCells(address, bytes, n) \subseteq ConfiguredCells(config) =>
          \A i \in 0 .. (n - 1) : register[Cell("short", address + i)] = bytes[i]
  <2>1. ASSUME NEW address, NEW n, NEW bytes, NEW i \in 0 .. (n - 1)
        PROVE  <<Cell("short", address + i), bytes[i]>> \in BlockCells(address, bytes, n)
    BY DEF BlockCells
  <2>2. ASSUME NEW address, NEW n, NEW bytes, NEW i \in 0 .. (n - 1),
               BlockCells(address, bytes, n) \subseteq ConfiguredCells(config)
        PROVE  register[Cell("short", address + i)] = bytes[i]
    <3>1. <<Cell("short", address + i), bytes[i]>> \in ConfiguredCells(config)
      BY <2>1, <2>2
    <3>2. Holds(Cell("short", address + i), bytes[i])
      BY <1>2, <3>1, Zenon
    <3> QED BY <3>2
  <2> QED BY <2>2
<1>5. ASSUME NEW address, NEW n \in {2, 8}, NEW bytes \in [0 .. (n - 1) -> Byte],
             BlockCells(address, bytes, n) \subseteq ConfiguredCells(config)
      PROVE  RegisterBytes(address, n) = bytes
  <2>1. \A i \in 0 .. (n - 1) : ShortRegister(address + i) = bytes[i]
    BY <1>4, <1>5 DEF ShortRegister
  <2> HIDE DEF Holds
  <2> QED BY <2>1 DEF RegisterBytes
<1>6. /\ RegisterBytes(mrf_register_short_address_low_byte, 2) = config.short_source_address
      /\ RegisterBytes(mrf_register_extended_address0, 8) = config.extended_source_address
      /\ RegisterBytes(mrf_register_pan_id_low_byte, 2) = config.pan_id
  <2>1. /\ config.short_source_address    \in [0 .. (2 - 1) -> Byte]
        /\ config.extended_source_address \in [0 .. (8 - 1) -> Byte]
        /\ config.pan_id                  \in [0 .. (2 - 1) -> Byte]
    BY <1>1 DEF ConfigType, ShortBytes, ExtendedBytes, PanIdBytes
  <2> QED BY <1>5, <2>1 DEF ConfiguredCells
<1>7. MRF_getRegisterValueForChannelNumber(config.channel) = 16 * (config.channel - 11) + 3
  BY <1>1 DEF MRF_getRegisterValueForChannelNumber, uint8
<1> QED BY <1>3, <1>6, <1>7 DEF ChipListensToTheConfiguration, ShortRegister

\* Whatever was configured before: when configure has returned, and until the next
\* configure, the chip listens to the addresses, the network and the channel it was
\* given and raises the receive interrupt (Mac802154MRFImpl.c:59-182).
THEOREM ChipIsConfigured ==
  ASSUME ChannelsExist
  PROVE  SendSpec => []ChipListensToTheConfiguration
<1>1. Init => RegistersAreConfigured
  BY RegistersInitially
<1>2. RegistersAreConfigured /\ [SendNext]_vars => RegistersAreConfigured'
  BY SendStepKeepsRegisters
<1>3. RegistersAreConfigured => ChipListensToTheConfiguration
  BY ConfiguredIsListening
<1> QED BY <1>1, <1>2, <1>3, PTL DEF SendSpec

-----------------------------------------------------------------------------
(* The types.                                                              *)

\* The variables that FrameIsBuilt and RegistersAreConfigured say nothing of.
OtherTypes ==
  /\ config \in Configs \cup {Null}
  /\ pc \in ReadyStates \cup {"unconfigured", "configuring"}
  /\ size \in Byte \cup {Null}
  /\ available \in BOOLEAN
  /\ transmitting \in BOOLEAN
  /\ int_status \subseteq {TXInterrupt, RXInterrupt}
  /\ rx_fifo \in Packets \cup {Null}
  /\ arrived \in BOOLEAN /\ overtaken \in BOOLEAN

LEMMA OtherTypesInitially == Init => OtherTypes
BY DEF Init, OtherTypes

LEMMA OtherTypesOfConfiguration ==
  ASSUME OtherTypes, NEW C \in SUBSET Configs,
         (\E new_config \in C : Reconfigure(new_config))
           \/ WriteConfiguration \/ FinishConfiguration
  PROVE  OtherTypes'
<1>1. CASE \E new_config \in C : Reconfigure(new_config)
  BY <1>1 DEF Reconfigure, chip, OtherTypes
<1>2. CASE WriteConfiguration
  <2>1. /\ int_status' = {} \/ int_status' = int_status
        /\ transmitting' \in BOOLEAN /\ arrived' \in BOOLEAN
        /\ UNCHANGED <<config, pc, size, available, rx_fifo, overtaken>>
    BY <1>2 DEF WriteConfiguration, application
  <2> QED BY <2>1 DEF OtherTypes
<1>3. CASE FinishConfiguration
  BY <1>3 DEF FinishConfiguration, application, chip, OtherTypes, ReadyStates
<1> QED BY <1>1, <1>2, <1>3

LEMMA OtherTypesOfDriver ==
  ASSUME OtherTypes,
         \/ \E m, r : SetUp(m, r)
         \/ SendBlocking \/ SendSteps \/ NewMessageAvailable
         \/ GetReceivedMessageSize \/ FetchMessageBlocking
         \/ EnablePromiscuousMode \/ DisablePromiscuousMode
  PROVE  OtherTypes'
<1>1. CASE \E m, r : SetUp(m, r)
  BY <1>1 DEF SetUp, application, chip, OtherTypes
<1>2. CASE SendBlocking \/ SendSteps
  <2>1. /\ pc' \in ReadyStates
        /\ int_status' = {} \/ int_status' = int_status
        /\ transmitting' = TRUE \/ UNCHANGED transmitting
        /\ UNCHANGED <<config, size, available, rx_fifo, arrived, overtaken>>
    BY <1>2, Zenon DEF SendBlocking, SendSteps, WritePayloadField, TriggerSend, PollInterruptStatus,
       application, histories, ReadyStates
  <2> QED BY <2>1 DEF OtherTypes
<1>3. CASE NewMessageAvailable
  <2>1. /\ available' = (RXInterrupt \in int_status) /\ int_status' = {}
        /\ arrived' = FALSE /\ overtaken' = FALSE
        /\ size' = Null /\ UNCHANGED <<config, pc, transmitting, rx_fifo>>
    BY <1>3 DEF NewMessageAvailable, driver
  <2>2. available' \in BOOLEAN
    <3>1. available' = TRUE \/ available' = FALSE
      BY <2>1
    <3> QED BY <3>1
  <2>3. int_status' \subseteq {TXInterrupt, RXInterrupt} /\ size' \in Byte \cup {Null}
        /\ arrived' \in BOOLEAN /\ overtaken' \in BOOLEAN
    BY <2>1
  <2> QED BY <2>1, <2>2, <2>3, Zenon DEF OtherTypes
<1>4. CASE GetReceivedMessageSize
  <2>1. size' \in Byte
    <3>1. rx_fifo.length \in Byte
      BY <1>4, DriverAssumption DEF GetReceivedMessageSize, OtherTypes
    <3> QED BY <1>4, <3>1 DEF GetReceivedMessageSize, uint8, Byte, frame_length_field_size
  <2> QED BY <1>4, <2>1 DEF GetReceivedMessageSize, driver, chip, histories, OtherTypes
<1>5. CASE FetchMessageBlocking
  BY <1>5 DEF FetchMessageBlocking, driver, chip, histories, OtherTypes
<1>6. CASE EnablePromiscuousMode \/ DisablePromiscuousMode
  BY <1>6 DEF EnablePromiscuousMode, DisablePromiscuousMode, SetPromiscuousMode,
     driver, application, histories, OtherTypes
<1> QED BY <1>1, <1>2, <1>3, <1>4, <1>5, <1>6

LEMMA OtherTypesOfChip ==
  ASSUME OtherTypes, TransmissionEnds \/ PacketArrives
  PROVE  OtherTypes'
<1>1. CASE TransmissionEnds
  BY <1>1 DEF TransmissionEnds, driver, application, histories, OtherTypes
<1>2. CASE PacketArrives
  <2>1. overtaken' = TRUE \/ overtaken' = FALSE
    BY <1>2 DEF PacketArrives, Receive
  <2> QED BY <1>2, <2>1 DEF PacketArrives, Receive, driver, application, OtherTypes
<1> QED BY <1>1, <1>2

LEMMA SendStepKeepsOtherTypes ==
  ASSUME OtherTypes, [SendNext]_vars
  PROVE  OtherTypes'
<1>1. CASE UNCHANGED vars
  BY <1>1 DEF vars, OtherTypes
<1>2. CASE Configuration
  BY <1>2, OtherTypesOfConfiguration DEF Configuration
<1>3. CASE Setters
  <2>1. \E m, r : SetUp(m, r)
    BY <1>3 DEF Setters, SetShortDestinationAddress, SetExtendedDestinationAddress,
                UseExtendedSourceAddress, UseShortSourceAddress, SetPayload
  <2> QED BY <2>1, OtherTypesOfDriver
<1>4. CASE \/ SendBlocking \/ SendSteps \/ NewMessageAvailable
           \/ EnablePromiscuousMode \/ DisablePromiscuousMode
  BY <1>4, OtherTypesOfDriver
<1>5. CASE TransmissionEnds \/ PacketArrives
  BY <1>5, OtherTypesOfChip
<1> QED BY <1>1, <1>2, <1>3, <1>4, <1>5 DEF SendNext

\* The driver's variables and the chip's registers have their types, with the
\* transactions of a reconfigure never more than 64.
THEOREM TypesCorrect == SendSpec => []TypeOK
<1>1. Init => RegistersAreConfigured /\ OtherTypes
  BY RegistersInitially, OtherTypesInitially
<1>2. RegistersAreConfigured /\ OtherTypes /\ [SendNext]_vars
        => RegistersAreConfigured' /\ OtherTypes'
  BY SendStepKeepsRegisters, SendStepKeepsOtherTypes
<1>3. FrameIsBuilt /\ RegistersAreConfigured /\ OtherTypes => TypeOK
  BY DEF FrameIsBuilt, RegistersAreConfigured, OtherTypes, TypeOK, Pointers
<1> QED BY <1>1, <1>2, <1>3, SendingInvariants, PTL DEF SendSpec

=============================================================================
