-------------------------------- MODULE MrfIo --------------------------------
(***************************************************************************)
(* src/Mac802154/MRF/MrfIo.c: reading and writing the registers and the    *)
(* memory of the MRF24J40 over SPI.  A call is the sequence of SPI         *)
(* transactions it makes, each with a command of one or two bytes that the *)
(* chip decodes.                                                           *)
(***************************************************************************)
EXTENDS Integers, Sequences, Bytes

LastShortControlRegisterAddress == 63    \* 0x3F
LongAddress == 0 .. 1023

-----------------------------------------------------------------------------
(* MRFHelperFunctions.h: the command bytes.                                *)

\* 1 << 15 | address << 5
MRF_readLongCommand(address) ==
  LET shifted == uint16(address * 32)
  IN IF shifted >= 32768 THEN shifted ELSE shifted + 32768

\* The shift has left bit 4 clear.
MRF_writeLongCommand(address) == MRF_readLongCommand(address) + 16

\* Faulty: with the write bit.
readShortCommandWithWriteBit(address) == uint8(address * 2) + 1

MRF_readShortCommand(address) == uint8(address * 2)

\* (address << 1 & ~(1 << 7)) | 1
MRF_writeShortCommand(address) == ((address * 2) % 128) + 1

FirstByte(command)  == command \div 256
\* Faulty: not cut to a byte.
secondByteUncut(command) == command

SecondByte(command) == uint8(command)

MRF_getRegisterValueForChannelNumber(channel_number) ==
  uint8((channel_number - 11) * 16 + 3)

-----------------------------------------------------------------------------
(* The transactions of each call.                                          *)

setWriteLongCommand(address) ==
  <<FirstByte(MRF_writeLongCommand(address)), SecondByte(MRF_writeLongCommand(address))>>
setReadLongCommand(address) ==
  <<FirstByte(MRF_readLongCommand(address)), SecondByte(MRF_readLongCommand(address))>>
setWriteShortCommand(address) == <<MRF_writeShortCommand(address)>>
setReadShortCommand(address)  == <<MRF_readShortCommand(address)>>

\* Faulty: the last short address is taken for a long one.
isLongAddressFromLastShort(address) == address >= LastShortControlRegisterAddress

isLongAddress(address) == address > LastShortControlRegisterAddress

writeBlockingWithCommand(command, payload) ==
  [command |-> command, payload |-> payload, size |-> Len(payload)]

readBlockingWithCommand(command, size) ==
  [command |-> command, payload |-> <<>>, size |-> size]

MrfIo_setControlRegister(address, value) ==
  <<writeBlockingWithCommand(
      IF isLongAddress(address) THEN setWriteLongCommand(address)
                                ELSE setWriteShortCommand(address),
      <<value>>)>>

MrfIo_readControlRegister(address) ==
  <<readBlockingWithCommand(
      IF isLongAddress(address) THEN setReadLongCommand(address)
                                ELSE setReadShortCommand(address),
      1)>>

MrfIo_writeBlockingToLongAddress(payload, address) ==
  <<writeBlockingWithCommand(setWriteLongCommand(address), payload)>>

MrfIo_readBlockingFromLongAddress(address, length) ==
  <<readBlockingWithCommand(setReadLongCommand(address), length)>>

\* Faulty: all bytes in one transaction.
writeBlockingInOneTransaction(payload, address) ==
  <<writeBlockingWithCommand(setWriteShortCommand(address), payload)>>

\* Short addresses do not advance by themselves: one transaction for each byte.
MrfIo_writeBlockingToShortAddress(payload, address) ==
  [i \in 1 .. Len(payload) |->
     writeBlockingWithCommand(setWriteShortCommand(uint8(address + i - 1)), <<payload[i]>>)]

-----------------------------------------------------------------------------
(* The chip (external).  Bit 7 of the first byte of a command selects the  *)
(* long address space; the address and the write bit follow.               *)

IsLongCommand(command) == command[1] >= 128

CommandAddress(command) ==
  IF IsLongCommand(command)
    THEN ((command[1] % 128) * 256 + command[2]) \div 32
    ELSE command[1] \div 2

IsWriteCommand(command) ==
  IF IsLongCommand(command) THEN (command[2] \div 16) % 2 = 1 ELSE command[1] % 2 = 1

\* A cell of the chip: the two address spaces are distinct, so that long address 0
\* is the first byte of the transmit FIFO and short address 0 a control register.
Cell(space, address) == <<space, address>>

\* Where the bytes of a transaction go to or come from.  Only long addresses
\* advance from byte to byte, see the comment at MrfIo.c:27-40.
CellOfByte(command, i) ==
  IF IsLongCommand(command)
    THEN Cell("long", CommandAddress(command) + i - 1)
    ELSE Cell("short", CommandAddress(command))

=============================================================================
