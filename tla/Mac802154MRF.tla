----------------------------- MODULE Mac802154MRF -----------------------------
(***************************************************************************)
(* src/Mac802154/MRF/Mac802154MRFImpl.c: the driver, one action for each   *)
(* SPI transaction in which it can be overtaken by the chip, and the       *)
(* MRF24J40 (external), which sends, receives and raises interrupt bits at *)
(* any moment.                                                             *)
(*                                                                         *)
(* The chip as the driver uses it: writing 1 to the transmit control       *)
(* register starts a transmission out of the transmit FIFO; its end, with  *)
(* or without success, sets bit 0 of the interrupt status; an accepted     *)
(* packet replaces the content of the receive FIFO and sets bit 3; reading *)
(* the interrupt status clears it; a software reset clears registers and   *)
(* interrupt bits and stops a transmission.                                *)
(***************************************************************************)
EXTENDS MrfState, MrfRegisters, Inspection

CONSTANTS Configs,             \* configurations passed to Mac802154_configure
          ShortDestinations,   \* addresses passed to setShortDestinationAddress
          ExtendedDestinations,
          Payloads,            \* payload pointers passed to setPayload
          PayloadLengths,      \* lengths passed to setPayload, a size_t
          Packets,             \* packets of other nodes that come in
          Null

ConfigType == [short_source_address    : ShortBytes,
               extended_source_address : ExtendedBytes,
               pan_id                  : PanIdBytes,
               channel                 : Byte]

ASSUME DriverAssumption ==
  /\ Configs \subseteq ConfigType
  /\ ShortDestinations \subseteq ShortBytes
  /\ ExtendedDestinations \subseteq ExtendedBytes
  /\ PayloadLengths \subseteq Nat
  /\ \A p \in Packets : /\ p.length \in Byte
                       /\ p.pan_id \in PanIdBytes
                       /\ p.destination \in ShortBytes \cup ExtendedBytes
  /\ Null \notin Payloads \cup Configs \cup Packets

VARIABLES
  \* the driver (struct Mrf)
  mrf,           \* impl->state
  config,        \* impl->config
  pc,            \* the transaction it does next
  writes,        \* the transactions left of a reconfigure
  \* the application
  size,          \* the last result of getReceivedPacketSize, in this turn of its loop
  packet,        \* what the last fetchPacketBlocking put into the buffer
  available,     \* the last result of newPacketAvailable
  \* the chip
  register,      \* its control registers
  tx_fifo,       \* the header and payload fields in its transmit FIFO
  transmitting,  \* whether it is sending, its wait for a free channel included
  int_status,    \* the interrupt bits set: 0 for sent, 3 for received
  rx_fifo,       \* the packet in its receive FIFO
  \* histories
  request,       \* what the application asked to send, by its last calls
  arrived,       \* whether a packet was accepted since newPacketAvailable
  overtaken      \* whether one was accepted since the size was read

driver      == <<mrf, config, pc, writes>>
application == <<size, packet, available>>
chip        == <<register, tx_fifo, transmitting, int_status, rx_fifo>>
histories   == <<request, arrived, overtaken>>
vars == <<pc, mrf, config, writes, size, packet, available,
          register, tx_fifo, transmitting, int_status, rx_fifo,
          request, arrived, overtaken>>

TXInterrupt == 0
RXInterrupt == 3

RequestWithoutPayload(destination, source, pan_id) ==
  [destination |-> destination, source |-> source, pan_id |-> pan_id,
   payload |-> Null, length |-> 0, header_size |-> 0]

NothingRequested == RequestWithoutPayload(Null, Null, Null)

HeaderSize(state) == FrameHeader802154_getHeaderSize(state.header.frame_header)

StaticMemory ==
  [header  |-> [frame_header_length |-> 0, frame_length |-> 0,
                frame_header |-> FrameHeader802154_init(0)],
   payload |-> Null,
   state   |-> {}]

\* After Mac802154MRF_create: the interface is set up, nothing is configured.
Init ==
  /\ mrf = StaticMemory
  /\ config = Null
  /\ pc = "unconfigured"
  /\ writes = <<>>
  /\ size = Null /\ packet = Null /\ available = FALSE
  /\ register = [cell \in ControlRegisters |-> 0]
  /\ tx_fifo = [header |-> StaticMemory.header, payload |-> Null]
  /\ transmitting = FALSE
  /\ int_status = {}
  /\ rx_fifo = Null
  /\ request = NothingRequested
  /\ arrived = FALSE
  /\ overtaken = FALSE

-----------------------------------------------------------------------------
(* reconfigure                                                             *)

Reconfigure(new_config) ==
  /\ pc \in {"unconfigured", "ready"}
  /\ config' = new_config
  /\ writes' = ConfigurationWrites(new_config)
  /\ pc' = "configuring"
  /\ request' = NothingRequested
  /\ size' = Null
  /\ available' = FALSE
  /\ overtaken' = FALSE
  /\ UNCHANGED <<mrf, packet, chip, arrived>>

\* One transaction.  The chip takes the address out of the command.
WriteConfiguration ==
  LET transaction == Head(writes)
      cell        == CellOfByte(transaction.command, 1)
      value       == transaction.payload[1]
      resets      == /\ cell = Cell("short", mrf_register_software_reset)
                     /\ value = mrf_value_full_software_reset
  IN /\ pc = "configuring"
     /\ writes # <<>>
     /\ writes' = Tail(writes)
     /\ register' = IF resets THEN [c \in ControlRegisters |-> 0]
                              ELSE [register EXCEPT ![cell] = value]
     /\ int_status' = IF resets THEN {} ELSE int_status
     /\ transmitting' = (transmitting /\ ~resets)
     /\ arrived' = (arrived /\ ~resets)
     /\ UNCHANGED <<mrf, config, pc, application, tx_fifo, rx_fifo, request, overtaken>>

coordinators_address == [i \in 0 .. 7 |-> 0]

\* The rest of reconfigure works on the MrfState alone.
FinishConfiguration ==
  LET initial == MrfState_init(mrf)
      in_pan  == MrfState_setPanId(initial, config.pan_id)
      sourced == MrfState_setShortSourceAddress(in_pan, config.short_source_address)
  IN /\ pc = "configuring"
     /\ writes = <<>>
     /\ mrf' = MrfState_setExtendedDestinationAddress(sourced, coordinators_address)
     /\ pc' = "ready"
     /\ request' = RequestWithoutPayload(coordinators_address, config.short_source_address,
                                         config.pan_id)
     /\ UNCHANGED <<config, writes, application, chip, arrived, overtaken>>

-----------------------------------------------------------------------------
(* The setters.                                                            *)

SetUp(new_mrf, new_request) ==
  /\ pc = "ready"
  /\ mrf' = new_mrf
  /\ request' = new_request
  /\ UNCHANGED <<config, pc, writes, application, chip, arrived, overtaken>>

SetShortDestinationAddress(address) ==
  SetUp(MrfState_setShortDestinationAddress(mrf, address),
        [request EXCEPT !.destination = address])

SetExtendedDestinationAddress(address) ==
  SetUp(MrfState_setExtendedDestinationAddress(mrf, address),
        [request EXCEPT !.destination = address])

UseExtendedSourceAddress ==
  SetUp(MrfState_setExtendedSourceAddress(mrf, config.extended_source_address),
        [request EXCEPT !.source = config.extended_source_address])

UseShortSourceAddress ==
  SetUp(MrfState_setShortSourceAddress(mrf, config.short_source_address),
        [request EXCEPT !.source = config.short_source_address])

\* The length is a size_t for the caller and a uint8_t for MrfState.
SetPayload(payload, length) ==
  SetUp(MrfState_setPayload(mrf, payload, uint8(length)),
        [request EXCEPT !.payload = payload, !.length = length,
                        !.header_size = HeaderSize(mrf)])

-----------------------------------------------------------------------------
(* sendBlocking                                                            *)

\* The header field is written, with its two length bytes.
SendBlocking ==
  /\ pc = "ready"
  /\ tx_fifo' = [tx_fifo EXCEPT !.header = MrfState_getFullHeaderField(mrf).data]
  /\ pc' = "write payload"
  /\ UNCHANGED <<mrf, config, writes, application, register, transmitting, int_status,
                 rx_fifo, histories>>

WritePayloadField ==
  /\ pc = "write payload"
  /\ tx_fifo' = [tx_fifo EXCEPT !.payload = MrfState_getPayloadField(mrf)]
  /\ pc' = "trigger"
  /\ UNCHANGED <<mrf, config, writes, application, register, transmitting, int_status,
                 rx_fifo, histories>>

\* Faulty: sendBlocking returns at once.
TriggerSendWithoutWaiting ==
  /\ pc = "trigger"
  /\ transmitting' = TRUE
  /\ pc' = "ready"
  /\ UNCHANGED <<mrf, config, writes, application, register, tx_fifo, int_status,
                 rx_fifo, histories>>

TriggerSend ==
  /\ pc = "trigger"
  /\ transmitting' = TRUE
  /\ pc' = "poll"
  /\ UNCHANGED <<mrf, config, writes, application, register, tx_fifo, int_status,
                 rx_fifo, histories>>

\* Faulty: any interrupt ends the wait; the other interrupt ends the wait.
PollAnyInterrupt ==
  /\ pc = "poll"
  /\ int_status' = {}
  /\ pc' = IF int_status # {} THEN "ready" ELSE "poll"
  /\ UNCHANGED <<mrf, config, writes, application, register, tx_fifo, transmitting,
                 rx_fifo, histories>>

PollReceiveInterrupt ==
  /\ pc = "poll"
  /\ int_status' = {}
  /\ pc' = IF RXInterrupt \in int_status THEN "ready" ELSE "poll"
  /\ UNCHANGED <<mrf, config, writes, application, register, tx_fifo, transmitting,
                 rx_fifo, histories>>

\* Faulty: the other bits are kept.
PollTransmitInterruptOnly ==
  /\ pc = "poll"
  /\ int_status' = int_status \ {TXInterrupt}
  /\ pc' = IF TXInterrupt \in int_status THEN "ready" ELSE "poll"
  /\ UNCHANGED <<mrf, config, writes, application, register, tx_fifo, transmitting,
                 rx_fifo, histories>>

\* Faulty: a packet that came in makes the driver start the frame again.
PollAndRetry ==
  /\ pc = "poll"
  /\ int_status' = {}
  /\ pc' = IF TXInterrupt \in int_status THEN "ready"
           ELSE IF RXInterrupt \in int_status THEN "trigger" ELSE "poll"
  /\ UNCHANGED <<mrf, config, writes, application, register, tx_fifo, transmitting,
                 rx_fifo, histories>>

\* while (!(interrupt status & 1)) {}: every turn of the loop reads, and clears,
\* all the bits.
PollInterruptStatus ==
  /\ pc = "poll"
  /\ int_status' = {}
  /\ pc' = IF TXInterrupt \in int_status THEN "ready" ELSE "poll"
  /\ UNCHANGED <<mrf, config, writes, application, register, tx_fifo, transmitting,
                 rx_fifo, histories>>

-----------------------------------------------------------------------------
(* Reception, and promiscuous mode.  The application asks for the size once *)
(* newPacketAvailable said so, and fetches with that size: the loop of      *)
(* integration_tests/EchoMessageBlocking.c.                                *)

\* Faulty: the result is taken from the bit of the transmission.
NewMessageAvailableOnTransmission ==
  /\ pc = "ready"
  /\ available' = (TXInterrupt \in int_status)
  /\ int_status' = {}
  /\ arrived' = FALSE
  /\ overtaken' = FALSE
  /\ size' = Null
  /\ UNCHANGED <<driver, packet, register, tx_fifo, transmitting, rx_fifo, request>>

NewMessageAvailable ==
  /\ pc = "ready"
  /\ available' = (RXInterrupt \in int_status)
  /\ int_status' = {}
  /\ arrived' = FALSE
  /\ overtaken' = FALSE
  /\ size' = Null
  /\ UNCHANGED <<driver, packet, register, tx_fifo, transmitting, rx_fifo,
                 request>>

\* Faulty: a size that was read before is returned again.
GetReceivedMessageSizeOnce ==
  /\ pc = "ready"
  /\ rx_fifo # Null
  /\ size' = IF size = Null THEN uint8(rx_fifo.length + frame_length_field_size) ELSE size
  /\ overtaken' = FALSE
  /\ UNCHANGED <<driver, packet, available, chip, request, arrived>>

\* The first byte of the receive FIFO is the length of the packet behind it.  Left
\* out: an application that asks before any packet came in reads what the FIFO
\* held at power-up.
GetReceivedMessageSize ==
  /\ pc = "ready"
  /\ rx_fifo # Null
  /\ size' = uint8(rx_fifo.length + frame_length_field_size)
  /\ overtaken' = FALSE
  /\ UNCHANGED <<driver, packet, available, chip, request, arrived>>

FetchMessageBlocking ==
  /\ pc = "ready"
  /\ size # Null
  /\ packet' = [content |-> rx_fifo, size |-> size]
  /\ UNCHANGED <<driver, size, available, chip, histories>>

SetPromiscuousMode(value) ==
  /\ pc = "ready"
  /\ register' = [register EXCEPT ![Cell("short", mrf_register_receive_mac_control)] = value]
  /\ UNCHANGED <<driver, application, tx_fifo, transmitting, int_status, rx_fifo, histories>>

EnablePromiscuousMode  == SetPromiscuousMode(1)
DisablePromiscuousMode == SetPromiscuousMode(0)

-----------------------------------------------------------------------------
(* The chip.                                                               *)

ShortRegister(address) == register[Cell("short", address)]
RegisterBytes(address, length) == [i \in 0 .. (length - 1) |-> ShortRegister(address + i)]

\* What a receiver makes of the content of the transmit FIFO: the header by the
\* standard, and the payload if it starts and ends where the length bytes say.
FrameInFifo ==
  LET header == tx_fifo.header
      mac    == header.frame_header
      length == uint8(header.frame_length - header.frame_header_length)
      start  == length_fields_size + PayloadStart(mac)
  IN [pan_id      |-> ParsedPanId(mac),
      destination |-> ParsedDestination(mac),
      source      |-> ParsedSource(mac),
      header_size |-> PayloadStart(mac),
      payload     |-> IF /\ tx_fifo.payload.address = start
                         /\ header.frame_header_length = PayloadStart(mac)
                        THEN tx_fifo.payload.data ELSE Null,
      length      |-> length]

TransmissionEnds ==
  /\ transmitting
  /\ transmitting' = FALSE
  /\ int_status' = int_status \cup {TXInterrupt}
  /\ UNCHANGED <<driver, application, register, tx_fifo, rx_fifo, histories>>

Accepts(p) ==
  \/ ShortRegister(mrf_register_receive_mac_control) = 1
  \/ /\ p.pan_id = RegisterBytes(mrf_register_pan_id_low_byte, 2)
     /\ p.destination \in {RegisterBytes(mrf_register_short_address_low_byte, 2),
                           RegisterBytes(mrf_register_extended_address0, 8)}

Receive(p) ==
  /\ ShortRegister(mrf_register_rf_mode_control) = mrf_value_rf_state_machine_operating_state
  /\ Accepts(p)
  /\ rx_fifo' = p
  /\ int_status' = int_status \cup {RXInterrupt}
  /\ arrived' = TRUE
  /\ overtaken' = (size # Null)
  /\ UNCHANGED <<driver, application, register, tx_fifo, transmitting, request>>

-----------------------------------------------------------------------------
Configuration ==
  \/ \E new_config \in Configs : Reconfigure(new_config)
  \/ WriteConfiguration
  \/ FinishConfiguration

Setters ==
  \/ \E address \in ShortDestinations : SetShortDestinationAddress(address)
  \/ \E address \in ExtendedDestinations : SetExtendedDestinationAddress(address)
  \/ UseExtendedSourceAddress
  \/ UseShortSourceAddress
  \/ \E payload \in Payloads, length \in PayloadLengths : SetPayload(payload, length)

SendSteps == WritePayloadField \/ TriggerSend \/ PollInterruptStatus

PacketArrives == \E p \in Packets : Receive(p)

\* An application that does what it likes, short of fetching the packets it hears of.
SendNext ==
  \/ Configuration
  \/ Setters
  \/ SendBlocking
  \/ SendSteps
  \/ NewMessageAvailable
  \/ EnablePromiscuousMode
  \/ DisablePromiscuousMode
  \/ TransmissionEnds
  \/ PacketArrives

\* Inside sendBlocking the processor does nothing but the driver's steps, and a
\* transmission that was started ends.
Fairness == WF_vars(SendSteps) /\ WF_vars(TransmissionEnds)

SendSpec == Init /\ [][SendNext]_vars /\ Fairness

-----------------------------------------------------------------------------
(* Properties.                                                             *)

ReadyStates == {"ready", "write payload", "trigger", "poll"}

\* The variables have their types.
TypeOK ==
  /\ mrf \in MrfStates(Payloads \cup {Null})
  /\ config \in Configs \cup {Null}
  /\ pc \in ReadyStates \cup {"unconfigured", "configuring"}
  /\ Len(writes) <= 64
  /\ size \in Byte \cup {Null}
  /\ available \in BOOLEAN
  /\ register \in [ControlRegisters -> Byte]
  /\ transmitting \in BOOLEAN
  /\ int_status \subseteq {TXInterrupt, RXInterrupt}
  /\ rx_fifo \in Packets \cup {Null}
  /\ arrived \in BOOLEAN
  /\ overtaken \in BOOLEAN

\* Once configure has returned the chip runs, raises the receive interrupt and
\* filters by the very addresses of the configuration, on its channel, with no
\* remains of an earlier configuration: reset first, then every register in the
\* order of reconfigure.
ChipListensToTheConfiguration ==
  pc \in ReadyStates =>
    /\ RegisterBytes(mrf_register_short_address_low_byte, 2) = config.short_source_address
    /\ RegisterBytes(mrf_register_extended_address0, 8) = config.extended_source_address
    /\ RegisterBytes(mrf_register_pan_id_low_byte, 2) = config.pan_id
    /\ register[Cell("long", mrf_register_rf_control0)] = 16 * (config.channel - 11) + 3
    /\ ShortRegister(mrf_register_rf_mode_control) = mrf_value_rf_state_machine_operating_state
    /\ ShortRegister(mrf_register_interrupt_control) = mrf_value_rx_interrupt_enabled

\* What goes on air carries the addresses the application chose last, and, when
\* no address changed size since setPayload, its payload at the place and of the
\* length the two length bytes announce.  Several calls, and the two fields
\* written one after the other, lie in between.
AiredFrameIsWhatWasAskedFor ==
  transmitting =>
    LET frame == FrameInFifo
    IN /\ frame.destination = request.destination
       /\ frame.source = request.source
       /\ frame.pan_id = request.pan_id
       /\ frame.header_size = request.header_size =>
            /\ frame.payload = request.payload
            /\ frame.length = uint8(request.length)

\* The driver never writes the transmit FIFO while the chip sends out of it:
\* sendBlocking waits, whatever the other interrupt bits do meanwhile.
TxFifoIsStableWhileTransmitting ==
  [][transmitting => UNCHANGED tx_fifo]_vars

\* sendBlocking returns only after the end of the transmission it started
\* itself: no leftover of an earlier one ends the wait early.
SendReturnsAfterItsTransmission ==
  [][(pc = "poll" /\ pc' = "ready") => ~transmitting]_vars

\* sendBlocking returns, though every poll clears all interrupt bits and packets
\* may come in all the time.
EverySendReturns == (pc = "write payload") ~> (pc = "ready")

Phase ==
  CASE pc = "unconfigured"               -> "off"
    [] pc = "configuring"                -> "configuring"
    [] pc = "ready"                      -> "idle"
    [] pc \in {"write payload", "trigger"} -> "submitted"
    [] pc = "poll" /\ transmitting       -> "on air"
    [] pc = "poll" /\ ~transmitting      -> "sent"

OnAir == IF transmitting THEN FrameInFifo ELSE Null

Service == INSTANCE MacService WITH phase <- Phase, asked <- request, on_air <- OnAir

\* The driver with its chip implements the service of Mac802154.h: one frame goes
\* on air for each sendBlocking, neither more nor less, it is the one that was
\* asked for, it does not change on its way, and nothing else is ever sent
\* (Mac802154MRFImpl.c:59-85, 184-264; Mac802154.h:35-96).
SendingImplementsService == Service!Spec

\* newPacketAvailable says whether data came in since its last call, or since
\* the chip was reset.  [CommunicationModule/Mac802154.h:98-101]
NewPacketIsReported ==
  [][NewMessageAvailable => (available' = arrived)]_vars

\* Any fetch gives one complete packet, its length byte included, of the size that
\* was read for it: "Place all received data available from the hardware into the
\* buffer", whose size "should be the value you got prior from
\* Mac802154_getReceivedPacketSize()" (Mac802154.h:103-108).
EveryFetchIsWhole ==
  [][FetchMessageBlocking => packet'.size = packet'.content.length + 1]_vars

\* The fetch gives one unless another packet was accepted between the two calls,
\* which are two transactions (Mac802154MRFImpl.c:266-277): the size read last is
\* the one of the packet in the FIFO, however many packets came in before it was
\* read, and whether or not the application asked newPacketAvailable.
FetchedPacketIsWhole ==
  [][(FetchMessageBlocking /\ ~overtaken) =>
       packet'.size = packet'.content.length + 1]_vars

=============================================================================
