----------------------------- MODULE SpiPrograms -----------------------------
(***************************************************************************)
(* The programs of integration_tests/ that talk to the MRF24J40 without    *)
(* the library, or read its registers behind the back of the library, as   *)
(* they run on the SPI bus: one action for each select, each byte and each *)
(* deselect.  The chip (external) decodes commands as in MrfIo, byte by    *)
(* byte; in a short transaction it has no use for a second data byte and   *)
(* answers it with 0.                                                      *)
(*                                                                         *)
(* A program is the transactions it makes once, those of its endless loop, *)
(* and the bytes its comments or messages say a turn of the loop reads.    *)
(***************************************************************************)
EXTENDS SpiHelpers

CONSTANTS Programs,   \* the programs that are run
          PowerUpContents,   \* what the chip may hold when it is powered up
          Packets,   \* packets that come in: sequences that start with their length
          Null

\* The cells the programs use.
Cells == ({"short"} \X (0 .. \h3F)) \cup
         ({"long"} \X (0 .. 20 \cup {512, 513, 514, 515, 518, 519, 520, 544}
                               \cup 768 .. 780))

IsFifo(cell) == cell[1] = "long" /\ (cell[2] < 512 \/ cell[2] >= mrf_rx_fifo_start)

ASSUME SpiProgramsAssumption ==
  /\ PowerUpContents \subseteq [Cells -> Byte]
  /\ \A p \in Packets : p \in Seq(Byte) /\ Len(p) \in 1 .. 13 /\ Len(p) = p[1] + 1

VARIABLES
  program,    \* the program that runs
  todo,       \* the transactions left of its setup or of the turn of its loop
  position,   \* what comes next in the first of them
  kept,       \* the bytes it has read in this turn
  selected,   \* chip: whether its select line is active
  command,    \* chip: the command bytes since it was selected
  offset,     \* chip: the bytes since the command was complete
  memory,     \* chip: registers and FIFOs
  overtaken   \* history: a packet came in since the interrupt status was cleared

chip == <<selected, command, offset, memory>>
vars == <<program, todo, position, kept, selected, command, offset, memory, overtaken>>

-----------------------------------------------------------------------------
(* The programs.                                                           *)

\* A text of the programs: as many bytes, which differ.
Text(length) == [i \in 1 .. length |-> 96 + i]

\* The data sheet's value of the register two programs read after power-up.
tx_stabilization_after_reset == \h75

hello_world == Text(13) \o <<0>>

writeTxMemory == <<Transaction(<<\h80, \h10>>, write(hello_world))>>
printTxMemory == <<Transaction(<<\h80, \h00>>, read(15))>>

ReadTxFifoMemory ==
  [name |-> "ReadTxFifoMemory", setup |-> writeTxMemory, loop |-> printTxMemory,
   expected |-> hello_world]

ReadMrfTxStabilizationRegister ==
  [name |-> "ReadMrfTxStabilizationRegister", setup |-> <<>>,
   loop |-> <<Transaction(<<mrf_register_tx_stabilization * 2>>, read(1))>>,
   expected |-> <<tx_stabilization_after_reset>>]

SPITestWithoutCommunicationModuleAndLufa ==
  [name |-> "SPITestWithoutCommunicationModuleAndLufa", setup |-> <<>>,
   loop |-> <<Transaction(<<\h2E * 2>>, read(1))>>,
   expected |-> <<tx_stabilization_after_reset>>]

\* The bit mask takes the highest and the lowest bit away.
readByteFromShortAddressRegister(address) ==
  Transaction(<<2 * ((uint8(address * 2) \div 2) % 64)>>, read(1))

writeByteToShortRegisterAddress(address, byte) ==
  Transaction(<<uint8(address * 2 + 1)>>, write(<<byte>>))

writeStringToTX(bytes) == Transaction(<<\h80, \h10>>, write(bytes))
readBurst(length)      == Transaction(<<\h80, \h00>>, read(length))

SPITestWithLufaOnly ==
  [name |-> "SPITestWithLufaOnly",
   setup |-> <<writeByteToShortRegisterAddress(\h2F, \h55)>>,
   loop |-> <<readByteFromShortAddressRegister(\h2E),
              writeStringToTX(Text(11)), readBurst(11)>>,
   expected |-> <<tx_stabilization_after_reset>> \o Text(11)]

\* Faulty: the second command is the one of the low byte again.
doEachIOByteWiseAtOneAddress ==
  <<writeByteToShortAddress(mrf_register_short_address_low_byte, \hFF),
    writeByteToShortAddress(mrf_register_short_address_low_byte, \hFF)>>
  \o readByteWiseFromShortAddress(mrf_register_short_address_low_byte, 2)

doEachIOByteWise ==
  <<Transaction(writeShortCommand(mrf_register_short_address_low_byte), write(<<\hFF>>)),
    Transaction(writeShortCommand(mrf_register_short_address_low_byte + 1), write(<<\hFF>>)),
    Transaction(readShortCommand(mrf_register_short_address_low_byte), read(1)),
    Transaction(readShortCommand(mrf_register_short_address_low_byte + 1), read(1))>>

\* The second read command follows the first read without a deselect.
doEachIOAsByteString ==
  <<Transaction(writeShortCommand(mrf_register_short_address_low_byte),
                write(<<\hAA, \hAA>>)),
    Transaction(readShortCommand(mrf_register_short_address_low_byte),
                read(1) \o write(readShortCommand(mrf_register_short_address_low_byte + 1))
                        \o read(1))>>

\* main() calls one after the other and stops.  Each announces what it will read.
WriteReadSourceAddress ==
  [name |-> "WriteReadSourceAddress", setup |-> doEachIOByteWise \o doEachIOAsByteString,
   loop |-> <<>>, expected |-> <<\hFF, \hFF, \hAA, \hAA>>]

\* Mac802154_configure, its transactions byte by byte.
configure(config) ==
  LET calls == ConfigurationWrites(config)
  IN [i \in 1 .. Len(calls) |-> Transaction(calls[i].command, write(calls[i].payload))]

check_config == [channel                 |-> \h0C,
                 pan_id                  |-> [i \in 0 .. 1 |-> IF i = 0 THEN \h34 ELSE \h12],
                 short_source_address    |-> [i \in 0 .. 1 |-> \hAA],
                 extended_source_address |-> [i \in 0 .. 7 |-> 17 * (i + 1)]]

readByte(address) == Transaction(readShortCommand(address), read(1))

readByteWise(address, length) == [i \in 1 .. length |-> readByte(address + i - 1)]

\* The two bytes that a burst puts at long address 3 do not reach short address 3.
\* The counter in the second of them is left out.
CheckSetSourceAddresses ==
  [name |-> "CheckSetSourceAddresses", setup |-> <<>>,
   loop |->    configure(check_config)
            \o <<writeBurstToLongAddress(3, <<\hBB, 0>>)>>
            \o readByteWise(1, 12),
   expected |-> AddressBytes(check_config.pan_id, 2)
                \o AddressBytes(check_config.short_source_address, 2)
                \o AddressBytes(check_config.extended_source_address, 8)]

frame == <<\h09, \h0B, \h41, \hA8, \h00, \h34, \h12, \hBB, \hBB, \h34, \h12, \h61, \h61>>

\* frame[1] in C is the frame length; the two length bytes, which come on top of it,
\* are not counted, so that the two bytes of payload stay behind.
sendToCoordinator ==
  <<writeBurstToLongAddress(mrf_tx_fifo_start, SubSeq(frame, 1, frame[2])),
    setRegister(mrf_register_tx_normal_fifo_control, 1)>>

SendOneFrameUsingPeripheralInterfaceOnly ==
  [name |-> "SendOneFrameUsingPeripheralInterfaceOnly", setup |-> initMrf,
   loop |-> sendToCoordinator \o <<readByteFromShortAddress(\h24)>>, expected |-> Null]

\* What depends on the byte read last.
wait  == <<[op |-> "wait"]>>
burst == <<[op |-> "burst"]>>

\* Left out is what the program does with its array afterwards: it prints it, and
\* writes the end of a string into packet[packet_size-12] (ReceiveFrameWithSPIOnly.c:37),
\* which lies before the array for packets of fewer than 12 bytes.  `kept' is what was
\* read; the memory of the microcontroller around the array is not modelled.
ReceiveFrameWithSPIOnly ==
  [name |-> "ReceiveFrameWithSPIOnly", setup |-> initMrf \o <<enablePromiscuous>>,
   loop |-> <<gotNewMessage, wait, getReceivedMessageSize, burst>>, expected |-> Null]

ASSUME SpiProgramsAreTheseEight ==
  Programs \subseteq {ReadTxFifoMemory, ReadMrfTxStabilizationRegister,
                      SPITestWithoutCommunicationModuleAndLufa, SPITestWithLufaOnly,
                      WriteReadSourceAddress, CheckSetSourceAddresses,
                      SendOneFrameUsingPeripheralInterfaceOnly, ReceiveFrameWithSPIOnly}

-----------------------------------------------------------------------------
Init ==
  /\ program \in Programs
  /\ todo = program.setup \o program.loop
  /\ position = 1
  /\ kept = <<>>
  /\ selected = FALSE
  /\ command = <<>>
  /\ offset = 0
  /\ \E content \in PowerUpContents :
       memory = [content EXCEPT ![Cell("short", mrf_register_tx_stabilization)] =
                                  tx_stabilization_after_reset]
  /\ overtaken = FALSE

Current   == Head(todo)[position]
Doing(op) == todo # <<>> /\ Current.op = op

Advance ==
  IF position < Len(Head(todo))
    THEN position' = position + 1 /\ UNCHANGED todo
    ELSE position' = 1 /\ todo' = Tail(todo)

Select ==
  /\ Doing("select")
  /\ selected' = TRUE
  /\ command' = <<>>
  /\ offset' = 0
  /\ Advance
  /\ UNCHANGED <<program, kept, memory, overtaken>>

Deselect ==
  /\ Doing("deselect")
  /\ selected' = FALSE
  /\ Advance
  /\ UNCHANGED <<program, kept, command, offset, memory, overtaken>>

CommandComplete == command # <<>> /\ (IsLongCommand(command) => Len(command) = 2)

\* The cell the next data byte goes to or comes from, and whether there is one.
CurrentCell == CellOfByte(command, offset + 1)
InCell      == CurrentCell \in Cells /\ (IsLongCommand(command) \/ offset = 0)

\* What the chip answers while a byte goes out to it.
Answer ==
  IF selected /\ CommandComplete /\ ~IsWriteCommand(command) /\ InCell
    THEN memory[CurrentCell] ELSE 0

\* Registers after a software reset; the FIFOs stay as they are.
AfterReset ==
  [cell \in Cells |-> IF IsFifo(cell) THEN memory[cell]
                      ELSE IF cell = Cell("short", mrf_register_tx_stabilization)
                             THEN tx_stabilization_after_reset ELSE 0]

\* The chip obeys a data byte.
Obey(byte) ==
  /\ offset' = offset + 1
  /\ UNCHANGED command
  /\ LET writes == IsWriteCommand(command) /\ InCell
         resets == /\ writes /\ CurrentCell = Cell("short", mrf_register_software_reset)
                   /\ byte = mrf_value_full_software_reset
         polls  == /\ ~IsWriteCommand(command)
                   /\ CurrentCell = Cell("short", mrf_register_interrupt_status)
     IN /\ memory' = IF resets THEN AfterReset
                     ELSE IF writes THEN [memory EXCEPT ![CurrentCell] = byte]
                     ELSE IF polls THEN [memory EXCEPT ![CurrentCell] = 0]
                     ELSE memory
        /\ overtaken' = (overtaken /\ ~polls /\ ~resets)

Transfer(byte) ==
  /\ Advance
  /\ UNCHANGED <<program, selected>>
  /\ \/ selected /\ CommandComplete /\ Obey(byte)
     \/ selected /\ ~CommandComplete /\ command' = Append(command, byte)
          /\ UNCHANGED <<offset, memory, overtaken>>
     \/ ~selected /\ UNCHANGED <<command, offset, memory, overtaken>>

Write == Doing("write") /\ Transfer(Current.byte) /\ UNCHANGED kept

Read == Doing("read") /\ Transfer(0) /\ kept' = Append(kept, Answer)

LastByte == kept[Len(kept)]

\* Faulty: the bit of a transmission.
WaitForTransmission ==
  /\ Doing("wait")
  /\ todo' = IF LastByte % 2 = 1 THEN Tail(todo) ELSE <<gotNewMessage>> \o todo
  /\ kept' = <<>>
  /\ UNCHANGED <<program, position, chip, overtaken>>

\* while (!gotNewMessage()) {}: bit 3 of the interrupt status.
Wait ==
  /\ Doing("wait")
  /\ todo' = IF (LastByte \div 8) % 2 = 1 THEN Tail(todo) ELSE <<gotNewMessage>> \o todo
  /\ kept' = <<>>
  /\ UNCHANGED <<program, position, chip, overtaken>>

\* Faulty: without the length byte.
BurstOfLength ==
  /\ Doing("burst")
  /\ todo' = <<readBurstFromLongAddress(mrf_rx_fifo_start, LastByte)>>
  /\ kept' = <<>>
  /\ UNCHANGED <<program, position, chip, overtaken>>

\* getReceivedMessageSize adds one to the length byte.
Burst ==
  /\ Doing("burst")
  /\ todo' = <<readBurstFromLongAddress(mrf_rx_fifo_start, uint8(LastByte + 1))>>
  /\ kept' = <<>>
  /\ UNCHANGED <<program, position, chip, overtaken>>

\* while (1); a program without a loop spins.
Repeat ==
  /\ todo = <<>>
  /\ todo' = program.loop
  /\ kept' = IF program.loop = <<>> THEN kept ELSE <<>>
  /\ UNCHANGED <<program, position, chip, overtaken>>

\* In promiscuous mode every packet is taken.
PacketArrives(p) ==
  /\ memory[Cell("short", mrf_register_receive_mac_control)] = 1
  /\ memory[Cell("short", mrf_register_rf_mode_control)] = 0
  /\ memory' = [cell \in Cells |->
       IF cell[1] = "long" /\ cell[2] \in mrf_rx_fifo_start .. mrf_rx_fifo_start + Len(p) - 1
         THEN p[cell[2] - mrf_rx_fifo_start + 1]
       ELSE IF /\ cell = Cell("short", mrf_register_interrupt_status)
               /\ (memory[cell] \div 8) % 2 = 0
         THEN memory[cell] + 8
       ELSE memory[cell]]
  /\ overtaken' = TRUE
  /\ UNCHANGED <<program, todo, position, kept, selected, command, offset>>

ProgramSteps == Select \/ Deselect \/ Write \/ Read \/ Wait \/ Burst \/ Repeat

Next == ProgramSteps \/ \E p \in Packets : PacketArrives(p)

\* The processor does nothing but run the program.
Spec == Init /\ [][Next]_vars /\ WF_vars(ProgramSteps)

-----------------------------------------------------------------------------
(* Properties.                                                             *)

TypeOK ==
  /\ program \in Programs
  /\ kept \in Seq(Byte)
  /\ selected \in BOOLEAN
  /\ command \in Seq(Byte)
  /\ memory \in [Cells -> Byte]
  /\ overtaken \in BOOLEAN

EndOfTurn == todo = <<>>
SetUp     == Len(todo) <= Len(program.loop)
Runs(name) == program.name = name
Holds(address, bytes) ==
  \A i \in 1 .. Len(bytes) : memory[Cell("short", address + i - 1)] = bytes[i]

\* The first n bytes that a turn reads are those announced.
AnnouncedAreRead(n) ==
  EndOfTurn => \A i \in 1 .. n : i <= Len(kept) /\ kept[i] = program.expected[i]

\* The bytes of its announcement that a program can read back: the second 0xAA of
\* WriteReadSourceAddress went out behind a command that takes one byte.
Attainable(p) ==
  IF p.name = "WriteReadSourceAddress" THEN Len(p.expected) - 1 ELSE Len(p.expected)

\* Whatever the chip held before: what a program reads back is what it announces
\* ("0x75 was expected", SPITestWithLufaOnly.c:80; "expected: 0xFF 0xFF" and the
\* first byte of "expected: 0xAA 0xAA", WriteReadSourceAddress.c:70, 109), what it
\* wrote into the FIFO, or the addresses it configured, which a burst at the same
\* number in the other address space leaves alone.  Excepted is the second byte of
\* "expected: 0xAA 0xAA": that announcement does not come true, since what is read
\* there is not the second 0xAA (lines 84-102).  That reading several bytes
\* "yields just 0s" (ReadTxFifoMemory.c:14-16) is an observation on hardware; on the
\* bus of this model, which loses no byte, it does not occur.
ReadsWhatIsExpected ==
  program.expected # Null => AnnouncedAreRead(Attainable(program))

\* initMrf leaves its own addresses and the channel behind and the receiver
\* running, though its first write erases every register and some registers are
\* written three times (HelpersForUsageWithoutCommModule.c:270-319).
InitMrfTakesEffect ==
  EndOfTurn /\ program.name \in {"SendOneFrameUsingPeripheralInterfaceOnly",
                                "ReceiveFrameWithSPIOnly"} =>
    /\ Holds(mrf_register_pan_id_low_byte, initMrf_pan_id)
    /\ Holds(mrf_register_short_address_low_byte, initMrf_short_source_address)
    /\ Holds(mrf_register_extended_address0, initMrf_extended_source_address)
    /\ Holds(mrf_register_rf_mode_control, <<0>>)
    /\ memory[Cell("long", mrf_register_rf_control0)] = \h13

FifoHolds(bytes) ==
  \A i \in 1 .. Len(bytes) : memory[Cell("long", mrf_rx_fifo_start + i - 1)] = bytes[i]

\* A packet is read whole, its length byte included, unless another one came in
\* since the interrupt status was read: the FIFO is read in two transactions and
\* byte by byte while reception goes on (ReceiveFrameWithSPIOnly.c:25-32).
FrameIsReadWhole ==
  EndOfTurn /\ Runs("ReceiveFrameWithSPIOnly") /\ ~overtaken =>
    Len(kept) = kept[1] + 1 /\ FifoHolds(kept)

\* A packet that came in after the reset and stays in the FIFO is read in the end:
\* the status is cleared by the poll, before the packet is read, so that no packet
\* is overlooked (ReceiveFrameWithSPIOnly.c:25-32).
NoPacketIsOverlooked ==
  \A p \in Packets :
    (Runs("ReceiveFrameWithSPIOnly") /\ SetUp /\ overtaken /\ FifoHolds(p))
      ~> ((EndOfTurn /\ kept = p) \/ ~FifoHolds(p))

=============================================================================
