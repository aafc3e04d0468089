------------------------------ MODULE SpiHelpers ------------------------------
(***************************************************************************)
(* integration_tests/HelpersForUsageWithoutCommModule.c: talking to the    *)
(* MRF24J40 without the library.  A transaction is the sequence of things  *)
(* it does to the SPI bus, byte by byte; a call makes one transaction or a *)
(* sequence of them.                                                       *)
(***************************************************************************)
EXTENDS MrfRegisters

select   == <<[op |-> "select"]>>
deselect == <<[op |-> "deselect"]>>

\* PeripheralInterface_writeBlocking, _readBlocking, and the loops over transfer()
\* that other programs have: a byte goes out, and one comes in that a read keeps.
write(bytes) == [i \in 1 .. Len(bytes) |-> [op |-> "write", byte |-> bytes[i]]]
read(length) == [i \in 1 .. length |-> [op |-> "read"]]

Transaction(command, data) == select \o write(command) \o data \o deselect

-----------------------------------------------------------------------------
(* The command bytes, which the file computes by its own copies of the     *)
(* functions of MRFHelperFunctions.h.                                      *)

readLongCommand(address)   == setReadLongCommand(address)
writeLongCommand(address)  == setWriteLongCommand(address)
readShortCommand(address)  == setReadShortCommand(address)
writeShortCommand(address) == setWriteShortCommand(address)

-----------------------------------------------------------------------------
readByteFromShortAddress(address) == Transaction(readShortCommand(address), read(1))

writeByteToShortAddress(address, byte) ==
  Transaction(writeShortCommand(address), write(<<byte>>))

readByteWiseFromShortAddress(address, length) ==
  [i \in 1 .. length |-> readByteFromShortAddress(address + i - 1)]

writeByteWiseToShortAddress(address, bytes) ==
  [i \in 1 .. Len(bytes) |-> writeByteToShortAddress(address + i - 1, bytes[i])]

readByteFromLongAddress(address) == Transaction(readLongCommand(address), read(1))

readBurstFromLongAddress(address, length) ==
  Transaction(readLongCommand(address), read(length))

writeBurstToLongAddress(address, bytes) ==
  Transaction(writeLongCommand(address), write(bytes))

writeByteToLongAddress(address, byte) ==
  Transaction(writeLongCommand(address), write(<<byte>>))

setRegister(address, value) ==
  IF address > \h3F THEN writeByteToLongAddress(address, value)
                    ELSE writeByteToShortAddress(address, value)

printRegister(address) ==
  IF address > \h3F THEN readByteFromLongAddress(address)
                    ELSE readByteFromShortAddress(address)

enablePromiscuous == setRegister(mrf_register_receive_mac_control, 1)

gotNewMessage == readByteFromShortAddress(mrf_register_interrupt_status)

getReceivedMessageSize == readByteFromLongAddress(mrf_rx_fifo_start)

-----------------------------------------------------------------------------
\* The table of initMrf.
register_value_pairs ==
  << <<\h2A, \h07>>,  <<\h18, \h98>>,  <<\h2E, \h95>>,  <<\h200, \h03>>, <<\h201, \h01>>,
     <<\h202, \h80>>, <<\h206, \h90>>, <<\h207, \h80>>, <<\h208, \h10>>, <<\h220, \h21>>,
     <<\h3A, \h80>>,  <<\h3F, \h60>>,  <<\h3E, \h40>>,
     <<mrf_register_interrupt_control, \hF6>>,
     <<\h200, \h13>>, <<\h36, \h04>>,  <<\h36, \h00>> >>

initMrf_pan_id                  == <<\h34, \h12>>
initMrf_short_source_address    == <<\hBB, \hBB>>
initMrf_extended_source_address == <<8, 7, 6, 5, 4, 3, 2, 1>>

setRegisters ==
  [i \in 1 .. Len(register_value_pairs) |->
     setRegister(register_value_pairs[i][1], register_value_pairs[i][2])]

printRegisters ==
  [i \in 1 .. Len(register_value_pairs) |-> printRegister(register_value_pairs[i][1])]

setAddresses ==
     writeByteWiseToShortAddress(mrf_register_pan_id_low_byte, initMrf_pan_id)
  \o writeByteWiseToShortAddress(mrf_register_short_address_low_byte,
                                 initMrf_short_source_address)
  \o writeByteWiseToShortAddress(mrf_register_extended_address0,
                                 initMrf_extended_source_address)

\* Faulty: the addresses before the table, whose first row resets the chip.
initMrfAddressesFirst == setAddresses \o setRegisters

initMrf ==
  setRegisters \o printRegisters \o <<setRegister(mrf_register_interrupt_control, \hF6)>>
               \o setAddresses

=============================================================================
