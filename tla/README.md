# A TLA+ model of the CommunicationLibrary

The CommunicationLibrary drives an MRF24J40 radio from an AVR microcontroller: an
application builds an IEEE 802.15.4 data frame with setters, sends it with a blocking
call, and polls for received packets.  This directory models that code in TLA+, checks
it with TLC on small instances, and proves the central results with TLAPS for every
value of the constants.

Paths below are those of the repository; `MRF/` stands for `src/Mac802154/MRF/`.

## The system

| Component | State | Operations | Modules |
|---|---|---|---|
| 802.15.4 frame header, `MRF/FrameHeader802154.c` | 21 bytes: control bits, sequence number, PAN id, destination, source | setters that move the fields behind a field that grows or shrinks; sizes and offsets | `FrameHeader802154`, `FrameHeaderSetters` |
| MrfState, `MRF/MRFState.c` | two length bytes, the header, the payload pointer, change flags | setters; the two fields to be written to the chip; an iterator | `MrfState`, `MrfStateSetters`, `MrfStateIterator` |
| MrfIo, `MRF/MrfIo.c`, `MRF/MRFHelperFunctions.h` | the command bytes | read and write registers and memory of the chip over SPI | `MrfIo`, `MrfIoOnSpi`, `RegisterAccess` (what callers rely on) |
| Driver, `MRF/Mac802154MRFImpl.c` | MrfState, the configuration | configure, send, receive, promiscuous mode, packet inspection | `MrfRegisters`, `Mac802154MRF`, `Inspection`, `PacketInspection` |
| Interface, `src/Mac802154/Mac802154.c`, `CommunicationModule/Mac802154.h` | a table of function pointers | one wrapper for each pointer | `MacService` (what it promises about sending), the actions of `Mac802154MRF` |
| Programs on the library, `integration_tests/`, with `Setup/` | the global driver pointer, a buffer, a counter | echo, monitor, sender, print | `Applications`, `EchoWithPeer` |
| Programs on the bare SPI bus, `integration_tests/` | buffers | write and read registers and FIFOs, initialise the chip, receive | `SpiHelpers`, `SpiPrograms` |
| External: MRF24J40, PeripheralInterface, EmbeddedUtilities, the standard, a peer node | registers, FIFOs, interrupt bits | | `Ieee802154`, parts of `MrfIo`, `MrfIoOnSpi`, `SpiPrograms`, `Mac802154MRF`, `Applications`, `EchoWithPeer` |

The application calls the interface, the interface the driver; the driver keeps the
frame in a MrfState, which keeps the MAC header in a FrameHeader802154; when it
configures, sends or receives, the driver goes through MrfIo, MrfIo through
PeripheralInterface to the chip.  There is one thread and no interrupt handler: what
runs concurrently is the chip, which sends, receives and sets interrupt bits between
any two SPI transactions.  The chip has its own supply: when the microcontroller
restarts, a transmission and the interrupt bits outlive it until the next reset of
the chip.

What is hard here:

* a frame header is edited in place.  An address that changes its size moves the fields
  behind it and decides about PAN id compression, which in turn depends on the other
  address; each of four setters sees one address only;
* lengths are cached (`frame_header_length`, `frame_length`) and are `uint8_t`;
* registers are written in an order that matters, through commands assembled by shifts
  and casts for two address spaces that differ in everything;
* reading the interrupt status clears it, and two callers read it for different bits;
* the wait for the end of a transmission has no timeout, and reception goes on
  meanwhile;
* a packet is asked for, measured and fetched in three transactions, and another one
  may come in between any two of them;
* the payload stays in the caller's memory, often the buffer the last packet is in;
* everything that is served, USB included, waits for the blocking calls.

`PROJECT.json` lists these hazards line by line, with the properties that cover them.

## The modules

**`Bytes`**: `uint8_t`, `uint16_t` and their conversions.

**`FrameHeader802154`**: every function of `MRF/FrameHeader802154.c` that changes or
measures a header, as an operator under its C name.  The two control bytes are a record
of the bits the code uses; the other bytes keep their index in `data`.  One byte more
than the array is part of the model, the one behind it, since `moveRight` can reach it.
`moveBytes` stands for the loops of `moveLeft` and `moveRight`.

**`Ieee802154`** (external): how a receiver finds the fields of a header, from the
control bits alone, by Table 7-2 of the standard the code refers to.  It shares no
offset with the code and judges what the code writes.

**`FrameFields`**: the abstract specification of a header, a bundle of four independent
fields.

**`FrameHeaderSetters`**: the machine.  `Spec` has the setters the driver uses;
`InsertionSpec` starts with or without a sequence number and adds it later; `FullSpec`
adds the sequence number functions in any order.

**`MrfState`**, **`MrfStateSetters`**, **`MrfStateIterator`**: the operators of
`MRF/MRFState.c`, any sequence of its setters with the arguments of the last
`setPayload` remembered, and a user of its iterator.

**`MrfIo`**, **`MrfIoOnSpi`**: the command bytes and the transactions of each call; the
calls as they run on the bus, one action for each call into PeripheralInterface, with
the chip decoding commands at the other end.  A caller's expectation is stated without
commands and compared when the call is over.

**`RegisterAccess`**: the abstract specification of MrfIo: one access at a time, which
writes cells or reads them.  It knows no command, transaction or bus.  `Access` is the
refinement mapping, which reads off `pc` whether a call is under way.

**`MrfRegisters`**: the register constants and the writes of `reconfigure` in order.

**`MacService`**: the abstract specification of sending: a frame is asked for part by
part, submitted, goes on air once, ends, and the call returns.  It knows addresses and
payloads, and no header, register or FIFO.

**`Mac802154MRF`**: the driver with the chip.  `reconfigure` is one action per SPI
transaction and one for what it does with the MrfState; `sendBlocking` is four actions
(header field, payload field, trigger, poll), with the chip free to act between any
two; the other calls make one transaction, or none, and are one action each.
`TransmissionEnds` and `Receive` are the chip's.  `Service` is the refinement mapping
to `MacService`: the phase is read off `pc` and `transmitting`, and the frame on air is
what a receiver makes of the transmit FIFO.

**`Inspection`**, **`PacketInspection`**: the functions that find payload and source
address in a fetched packet, as offsets into its buffer, with two worlds to take packets
from: another node that runs this library (the setters of `MrfStateSetters` plus
delivery), and any node that follows the standard.

**`Applications`**: four programs (`EchoMessageBlocking`, `NetworkMonitor`,
`SendOneFrameBlocking`, `PrintTXBuffer`) on `Mac802154MRF`.  A program is a sequence of
calls of its setup and one of its loop; a call is the driver's action under the
conditions and with the arguments the program gives it, and the next one waits until
the driver is back.  `setUpMac` and `debug` are those of `Setup/`.  `Restart` is the
microcontroller starting anew, with the chip as it is.

**`EchoWithPeer`**: `Applications` in two worlds, one with packets from anywhere, one
with a peer that repeats a message until it hears the answer to it, over a channel that
loses frames.

**`SpiHelpers`**, **`SpiPrograms`**: `HelpersForUsageWithoutCommModule.c`, and eight
programs that drive the chip byte by byte, or, like `CheckSetSourceAddresses`, configure
it with the library and read it back without.  Every select, byte and deselect is an
action.  A program is the transactions of its setup and those of a turn of its loop, each
a sequence of such operations; the loop of `ReceiveFrameWithSPIOnly` has two more items,
what the program does with the interrupt status (`wait`) and with the size (`burst`) it
has just read.

**`*_proofs`**: the theorems.  **`MC*`**: instances for TLC.

Operators whose comment begins with "Faulty" are variants of the definition that follows
them, with one plausible mistake each.  They are used by no specification; each shows
that some property notices the mistake (`mutants` in `PROJECT.json`).

## The runs

| Run | Checks | Bounds |
|---|---|---|
| `header_setters` | any sequence of setters, and of the insertion of a sequence number into a header without one: its size is where the payload starts, compression is right, the byte behind the array is never written, and each setter changes its own field only, by refinement of `FrameFields` | two values for each field that differ in every byte, one sequence number, two values of the adjacent byte |
| `sequence_number_any_order` | **violated**: in any other situation `setSequenceNumber` shifts the fields or loses bytes | one address of each size |
| `mrf_state` | length bytes, header field and payload field agree with each other and with what was set; a receiver finds payload and source address of every packet made this way | payload lengths 0, the largest that fits, and two that make the frame length wrap; two short addresses |
| `payload_length_kept` | **violated**: an address of another size, set after the payload, changes the payload's length | one address of each size |
| `state_iterator` | **violated**: the iterator never yields a changed payload | one address, two lengths |
| `spi` | every call of MrfIo changes and reads exactly the cells it addresses; the bus is free between transactions; a call, in however many transactions, implements one access of `RegisterAccess` | the ends of both address spaces, the boundary 63/64, blocks of two |
| `send` | setters, sends, configurations, promiscuous mode and arriving packets in any order: frames on air are the ones asked for, the chip listens to the current configuration, the transmit FIFO is stable during a transmission, a send returns after its own transmission, and it does return; driver and chip implement `MacService` | two configurations on different channels, one destination of each size, one payload, one packet |
| `lost_notification` | **violated**: a send swallows the notification of a packet | one configuration, one destination |
| `foreign_packets` | **violated**: in frames of other nodes the payload is looked for in the wrong place | every combination of addressing modes, compression and suppression, up to 21 bytes of header |
| `applications` | the four programs with restarts: the echo of a packet that was fetched whole goes to the first two bytes of its source and starts with its payload, of exactly its length in `EchoMessageBlocking`, of a length that is off by the change of the header in `PrintTXBuffer` (finding 2); a packet is fetched whole unless another one comes in between size and fetch; no packet is answered twice, texts have their own length, payload buffers stay alive from `setPayload` to the end of the transmission, a restart does not mix two sends; every packet is shown, the sender prints again and again, every message of a peer is answered | one restart, four packets from two networks with both address sizes, a counter up to 11 (from one digit to two) |
| `overtaken_fetch` | **violated**: a packet that comes in between size and fetch is fetched with the size of the one before | one echo, messages of two lengths |
| `spi_programs` | the eight programs read back what they announce whatever the chip held, but for one byte of `WriteReadSourceAddress` (below); `initMrf` leaves its addresses behind; a packet is read whole unless another one comes in since the interrupt status was read, and none is overlooked | power-up contents of all zeros, of all ones, and of a receiver with the interrupt of a packet that never came; two packets of different lengths, of at most 13 bytes, the part of the receive FIFO that is modelled |

*Why the bounds are enough.*  The header code never looks at the value of an address
byte: it copies and moves bytes at positions that depend on the two address sizes and
the suppression bit.  All combinations of these occur, and distinct bytes make every
misplaced one visible; the theorems lift the result to all addresses.  MrfState adds
one sum modulo 256, for which lengths on both sides of the wrap are used.  MrfIo's
encodings are checked where their bit fields begin and end, and proved for all
addresses.  In the driver one packet and one payload suffice for every order of the two
interrupt bits, the polling loop and the calls; the second configuration is there to see
leftovers of the first.  In the applications packets of different lengths and sources
make an exchanged packet visible.  One restart reaches every point of the setup and the
loop with the chip in every state it can be left in; the theorem about restarts has no
bound.

*Fairness.*  `SendSpec` assumes weak fairness of the driver's steps inside
`sendBlocking`, because a blocking call runs alone on the processor, and of
`TransmissionEnds`, because the chip reports the end of every transmission it was told
to start, failed ones included.  `PeerSpec` assumes weak fairness of the program's own
steps for the same reason, of the end of a transmission, and of the peer, which keeps
sending; and strong fairness of the arrival of an answer: a channel that loses every
answer is excluded, one that loses any finite number is not.  Nothing is assumed of
packets from elsewhere, of restarts, or of configuration; so the liveness properties
start in the loop and allow a restart to end the obligation.  `SpiPrograms` assumes that
the processor runs its program.  Time has no length in these models: the liveness properties
say that something happens, or happens again and again, never how soon.  So
`UsbIsServedBySender` says nothing of how short the intervals are in which USB is served, of
which the sender's delay of a second (`SendOneFrameBlocking.c:37`) is a part.

*What is assumed of the chip.*  It decodes commands as `MrfIo` states; only long
addresses advance within a transaction (comment at `MRF/MrfIo.c:27-40`), and a second
data byte in a short transaction is ignored, or answered with 0; writing 1 to
TXNCON starts a transmission; bits 0 and 3 of INTSTAT mean sent and received, appear
though bit 0 is masked in INTCON (the polling loop depends on it), and are cleared by
reading; a newly accepted packet replaces an older one in the receive FIFO; a software
reset clears control registers and interrupt bits, leaves the FIFOs alone and stops a
transmission.  Transmitting includes the wait for a free channel, during which packets
are still accepted.  The microcontroller restarts between transactions, not within one.
In `Mac802154MRF` a fetch is one transaction; `SpiPrograms` reads packets byte by byte
while they come in.

## What the violated runs show

1. `FrameHeader802154_setSequenceNumber` moves the fields even when a number is present,
   and always moves eight bytes of destination (`MRF/FrameHeader802154.c:92-96, 320-324`).
   The unit test for "any order" keeps the number first and uses equal bytes.  The driver
   never calls the function.
2. `frame_length` is not corrected when an address changes its size after `setPayload`
   (`MRF/MRFState.c:12-44`).  `integration_tests/PrintTXBuffer.c:36-41` calls in that
   order and sends six bytes too many.
3. `MrfState_getCurrentField` returns the header whatever changed
   (`MRF/MRFState.c:89-97`, against `MRF/MRFState.h:14-17`).
4. `triggerSend` reads the interrupt status and drops the receive bit
   (`MRF/Mac802154MRFImpl.c:262`), so `newPacketAvailable` misses a packet
   (`CommunicationModule/Mac802154.h:99`).  The echo survives it when its peer repeats
   itself (`EveryMessageIsAnswered`), and owes to it that no packet is answered twice.
5. `getPacketPayload` counts a PAN id only where this library would send one
   (`MRF/Mac802154MRFImpl.c:316`, `MRF/FrameHeader802154.c:201-205`).  A frame with a
   short destination and no source, without compression, has its payload two bytes
   further on (`CommunicationModule/Mac802154.h:112`).  The address filter of the chip
   does not keep such frames away, and `integration_tests/NetworkMonitor.c` reads every
   frame that is on air.
6. The size of a packet is read in one transaction, the packet in another
   (`MRF/Mac802154MRFImpl.c:266-292`).  A packet that is accepted in between is fetched with
   the size of the one before, too short for it, though the caller gave the size that
   `CommunicationModule/Mac802154.h:103-108` asks for to get "a complete frame".
   `FetchedPacketIsWhole` says that this is the only way to get a packet in part, and its
   theorem that it is so for every set of packets.

Seen while modelling, without a run of their own:

* `(uint8_t) (1 << mrf_fifo_enable | 0x18)` is 0x18, because `mrf_fifo_enable` is 8
  (`MRF/Mac802154MRFImpl.c:138`), and the model writes 0x18; the table of `initMrf`, which
  agrees with the driver in all other initial values, has 0x98
  (`HelpersForUsageWithoutCommModule.c:276`).
* `doEachIOAsByteString` (`integration_tests/WriteReadSourceAddress.c:74-110`) announces
  "expected: 0xAA 0xAA".  It writes both bytes of the short address behind one command for
  a short address, and sends its second read command without a deselect before it; the
  model reads 0xAA and 0.  On a chip that advances within short addresses the second byte
  would be stored, but the second read, the third byte of one transaction, would return
  the register behind it: neither way is the second 0xAA read back.  Lines 14-20 of the
  file take the test as a proof that these registers have to be set byte by byte, so its
  author expects the failure; the announcement says otherwise.  `ReadsWhatIsExpected` and
  its theorem except this byte (`Attainable`).
* `NetworkMonitor.c:40-41` waits for a packet without serving USB, which `debug` alone
  does, so that on a silent channel USB is not served at all; `Setup/LUFAHelpers.h:17` wants
  it served "in short intervals".
* `SendOneFrameUsingPeripheralInterfaceOnly.c:72` writes as many bytes of its array as
  the frame length says; the two length bytes in front are not counted, and the two
  bytes of payload stay behind.
* `PrintReceivedDataToVirtualSerial.c:32` configures the driver without `setUpMac`, so
  through a null pointer.
* an echo program answers a packet with an extended source address to the first two bytes
  of it (`EchoMessageBlocking.c:30-31`, `PrintTXBuffer.c:39-40`), so to nobody.
* `ReceiveFrameWithSPIOnly.c:37` ends the text at `packet[packet_size-12]`, which lies
  before the array for packets of fewer than 12 bytes.  The memory around the array is not
  modelled.
* `ReadTxFifoMemory.c:10-16` reports, as a "Current Bug", that reading several bytes at once
  "yields just 0s".  The model, whose bus loses no byte, does not reproduce it: there the
  burst of this program returns what was written.  The cause must lie below the calls of
  PeripheralInterface, or in timing.
* the race of finding 6 is also in `ReceiveFrameWithSPIOnly.c:29-35`, where the size and the
  packet are two transactions; `FrameIsReadWhole` excludes it.
* before the first `setPayload` after a configuration the frame length is that of a
  shorter header, so that a send writes about 250 bytes (`MRF/Mac802154MRFImpl.c:76`).

## The proofs

`Frames_proofs` holds the lemmas about single setters, of the header and of MrfState: the
layout the code computes and the layout of the standard coincide for every header with
two addresses, with or without a sequence number (`AddressableLayout`), and each setter,
given such a header, yields one with its own field replaced and the others kept.  Every
position depends on whether there is a number, so the lemmas are about positions relative
to the PAN id.  `InsertNumberEffect` follows the three moves of `setSequenceNumber` byte by
byte.  The headers the driver builds, which have a number, are the special case `Layout`
and the lemmas below it speak of.  All rest on no bound and on no value of an address.

`FrameHeaderSetters_proofs` is about `InsertionSpec`, which the run `header_setters` checks;
`SettersAreAPart` carries everything over to `Spec`.  The inductive invariant is
`Addressable(header)`: types, two addresses of known size, and compression exactly when
not both are extended.  Compression has to be part of it: without it the destination
offset of the standard is not the one the code assumes, and no setter lemma holds.  From
it follow `TypeCorrect`, `CompressionCorrect`, `HeaderSizeCorrect`, `NoOverrun`,
`SettersImplementFields`, the refinement of `FrameFields`, in which the insertion of a
number is a stutter, and `InsertionKeepsFields`: the number is read where it was put and
the fields behind it are those of before.  `SequenceNumberKeepsFields`, the same claim for
any use of `setSequenceNumber`, is false (finding 1); the proof needs both guards of
`InsertSequenceNumber`, that there is no number and that the destination is extended.
`HeaderIsWellFormed` adds for `Spec` that the number the header starts with stays.

`MrfStateSetters_proofs` is about any sequence of MrfState setters.  The invariant adds `LengthsAreKnown` to the types: the cached header length is that of
the header, and the cached frame length is the uint8_t sum of the length and the header
size at the last `setPayload`, whatever the header did since.  The type invariant alone
would let `frame_length` be anything.  With the arithmetic of `SumAndDifference`, that a
summand is recovered from a wrapped sum, follow `HeaderLengthCorrect`,
`PayloadFieldCorrect` (for every length of a byte) and `FieldsTile` (for every payload
that fits).  For packets of another node, `PacketsAreOwn` says that whatever was
delivered is a packet of this library (`IsOfThisLibrary`: its header is well formed, and
its length byte counts header, payload and check sequence); `PayloadIsFoundAlways` and
`SourceIsFoundAlways` follow from `OwnPacketIsInspected`, which is a lemma about
packets and not about the machine, so that the programs can use it too.

`MrfIoOnSpi_proofs` proves that every call of MrfIo writes and reads the cells its
caller named, for every address of both spaces and every block (`WritesArrive`,
`ReadsReturnTheContent`), and that the bus is released (`BusIsReleased`).  In the middle
of a call memory is neither the old nor the wanted one; the invariant
`CallsAreCarriedOut` says what is left: every byte still to be sent goes where it is
wanted, every other cell is right already, and a read still to be done will find what is
expected.  From it also follows `AccessIsImplemented`, the refinement of
`RegisterAccess`.  It speaks of the middle of a call too, which matters for a block at
short addresses: each transaction stores one byte, and no cell is ever given a byte other
than the one it shall hold after the call.

`MrfRegisters_proofs` is about commands and about `ConfigurationWrites`, the thirty
transactions of `reconfigure`.  `LongCommands` and `ShortCommands` show that the chip
recovers address, direction and space from the command bytes.  `ReconfigureSettles`
shows that a configuration begins with the reset and that for each cell it is to
configure (`ConfiguredCells`) some transaction writes the wanted byte and no later one
touches the cell.  The sequence is put together from parts; the lemmas `SettledLater`
and `SettledBefore` say when a part may follow or precede one that settles a cell.

`Mac802154MRF_proofs` is the driver with the chip.

* `OneTransmission`: the interrupt bit of a finished transmission exists only while the
  driver polls and never beside a running one.  `FifoIsStable` (the transmit FIFO is not
  written during a transmission) and `ReturnsAfterTransmission` (the polling loop ends
  only after the transmission it started) need it: were a leftover possible, a second
  send would return at once.
* `FrameIsBuilt`: the MrfState is what the setters made of the request (`Built`:
  addresses by the standard's layout, cached lengths, payload), and so much of it is in
  the transmit FIFO at each point of `sendBlocking`.  With `OneTransmission` it gives
  `AiredFrameCorrect`, that every frame on air is the one that was asked for, and
  `ServiceIsImplemented`, the refinement of `MacService`: every step of driver or chip
  is one step of the service or none.
* `RegistersAreConfigured`: while the driver configures, each cell of the configuration
  is written by a transaction that is left, or holds its byte and is left alone
  (`Owes`); afterwards it holds its byte.  That the chip listens to the configuration
  says nothing of the time in between and is not inductive.  `ChipIsConfigured` follows.
* `OtherTypes` is what these leave open of the types; together they are `TypesCorrect`.

`Applications_proofs` is about the programs, with any number of restarts and any set of
packets.  With restarts `OneTransmission` is false, since a restart leaves a
transmission or its bit behind.  The parts of `ProgramInvariant` are

* `LeftoversAreReset`: such a leftover exists only while polling, before `configure`, or
  until the first transaction of `reconfigure`, which is the reset.  From it
  `SendsStaySeparate`;
* `OnTrack`: the calls left are the last ones of the program, `configure` is behind
  exactly when the driver is configured, and the driver sends only at the turn of the
  loop.  Without it nothing is known of what happened before a call;
* `FrameIsBuilt`, `RegistersAreConfigured`, `OtherTypes` of the driver, and `OwnTypes`:
  `ProgramTypesCorrect`, and `ProgramsListen` for the chip of each program;
* `SizeIsCurrent`: a size that was read is that of the packet in the FIFO unless
  `overtaken` holds, that is, unless a packet was accepted since the size was read:
  `PacketsAreFetchedWhole`, for programs that ask for new packets and for those that do not;
* `InterruptIsUnread`: a receive interrupt `newPacketAvailable` can see is that of a
  packet nobody fetched, which depends on the polling of the send before it:
  `AnswersOnce`;
* `EchoAnswers`, `PrintAnswers`, `SenderSendsText`: what a program has asked for by the
  calls it has left, and that from setting the payload on the header keeps its size where
  it does.  With `FrameIsBuilt`, and `OwnPacketIsInspected` for what a fetched packet says,
  follow `EchoGoesBack` and `NumberGoesOut`.  `EchoGoesBack` is about packets that were
  fetched whole.  It says where the echo goes (to the first two bytes of the source), where
  its payload starts, and how long it is: exactly the payload in `EchoMessageBlocking`, and
  in `PrintTXBuffer` longer or shorter by what the header changed since `setPayload`.

`PayloadsStayAlive` covers the time from `setPayload`, which keeps a pointer, to the end of
the transmission.  It needs all that is said about `pc` and about the calls left: the buffers
change only in calls, calls wait for the driver, and no program calls anything that changes
its buffer between `setPayload` and the return of the send.  The driver keeps the pointer
after that, but no call looks at it before the next `setPayload`
(`NothingIsNeededYet`).  `PeerIsOneOfTheWorlds` shows that the peer, its lossy
channel and its answers allow nothing that `ApplicationsSpec` does not, so that these
theorems hold of `EchoWithPeer` too.

`SpiPrograms_proofs` is about the programs on the bare bus, for every content of the chip at
power-up and every set of packets.  The parts of its invariant `Inv` are

* `Types`: `TypeOK`, and that what is left to do consists of items of the program, with a
  position inside the first of them;
* `BusIsFollowed`: the chip has of the transaction at hand exactly the command bytes that
  went out, and has counted the data bytes behind them.  Without it nothing is known of
  the cell the next byte goes to;
* `InitMrfSettles`: each cell `initMrf` is to set has its final value and is left alone by
  everything left to do, or the last transaction left that writes it writes that value.
  The cells do not hold their values together before the end of the setup, and one of them
  is written three times.  `InitMrfTakesEffectAlways` follows;
* `ReceiverIsOnTrack`: `ReceiveFrameWithSPIOnly` is in its setup, polls, reads the size, or
  reads a burst of some length;
* `InterruptMeansPacket`: once the reset has gone out, the receive bit of the interrupt
  status means that one of the packets is in the FIFO.  Before the reset the bit may be a
  leftover of power-up, and what would be read is not a packet;
* `ReceiverReads`: what is read of the FIFO is the beginning of what it holds, and the
  length of the burst is that of the packet in it, unless `overtaken`.  The length of the
  packet stays with the packet, since a packet comes in at once and no transaction of the
  program writes the receive FIFO.  `FrameIsReadWholeAlways` follows;
* `ReadsBack`: the six programs without `initMrf` follow a plan (`IsPlan`).  It says of each
  byte such a program announces which datum of which transaction reads it, from which cell,
  and which datum of an earlier transaction put it there, or that the chip powers up with
  it; no other transaction writes the cell in between, no packet reaches it, and the bytes
  are read in the order they are announced.  `PlansExist` gives the plans, from one lemma for
  each kind of program: that of `CheckSetSourceAddresses` takes the writer of a cell from
  `ReconfigureSettles`, so it is about the transactions `configure` really makes.  What has
  been read so far is then the beginning of what is announced, however the turn is cut;
  `ReadsWhatIsExpectedAlways` follows.  Excepted is the second byte of "expected: 0xAA 0xAA"
  (above): the plan of `WriteReadSourceAddress` ends before it, since no transaction
  puts it anywhere.

Assumptions: `AddressAssumption`, `MrfStateAssumption`, `SpiAssumption` and
`DriverAssumption`, that the caller's addresses have the sizes the interface documents,
that lengths and values fit their types, and that registers are ones the chip has;
`ApplicationsAssumption` and `ProgramsAssumption`, that programs are the four, with the
given configurations; `PacketsAssumption`, that the nodes around run this library, without
which the echoes are wrong (run `foreign_packets`); `MessagesAssumption`, that a peer's
messages are packets; `SpiProgramsAssumption`, that packets start with their length and fit
the part of the FIFO that is modelled, and that registers power up with bytes;
`SpiProgramsAreTheseEight`, that the programs are the eight.  TLC evaluates all of them.  The theorems about configurations have
`ChannelsExist` as a hypothesis: channels are numbered from 11 to 26, as the
standard has them in the band of the chip; `MRF/MRFHelperFunctions.h:38-40` subtracts 11
from whatever number it is given.

Only model-checked: liveness, which is out of the provers' reach here.  Every invariant
and every action property of a passing run is the property of a theorem.

## Not modelled

* Delays, the reset line, pin tables, and the texts that programs print: pure I/O.  The USB
  event handlers of `LUFAHelpers.c` are those of LUFA's demo; `WriteStringToVirtualSerial`
  and `LufaTest` only print.  `PrintReceivedDataToVirtualSerial` stops at its first call
  (above).
* CException in `CheckSetSourceAddresses`: the SPI calls it wraps throw nothing there;
  the counter byte it writes into the FIFO.
* Functions that are declared and not defined (`sendNonBlocking`, the non-blocking reads
  of MrfIo, three setters of MrfState) and the struct fields that belong to them.
* The bytes behind a payload pointer; `Applications` knows which buffer they are in.
* What the receive FIFO holds before the first packet, packets shorter than the header they
  announce, and what `ReceiveFrameWithSPIOnly` does with its array after reading it.
* Radio: channel access, loss and acknowledgements end in `TransmissionEnds` either way,
  since the code does not read whether a transmission succeeded.

## Plan

Done: the frame header, MrfState, MrfIo on the bus, the driver with the chip, packet
inspection, the programs on the library and on the bare bus, restarts, the echo with a
peer; the abstract specifications of header fields, register accesses and sending; the
proofs above.

Left: reception as a service like `MacService`.  It is stated by properties instead
(`FetchedPacketIsWhole`, `PayloadIsFound`, `SourceIsFound`, `NoPacketIsAnsweredTwice`), since
what a caller may rely on there is a list of exceptions: findings 4, 5 and 6.
