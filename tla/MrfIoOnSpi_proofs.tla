--------------------------- MODULE MrfIoOnSpi_proofs ---------------------------
(***************************************************************************)
(* Proofs about MrfIo on the bus, for all addresses the chip has and all   *)
(* values and blocks: what a call writes arrives where it should, what a   *)
(* call reads comes from there, and the bus is free in between.            *)
(***************************************************************************)
EXTENDS MrfIoOnSpi, MrfRegisters_proofs

Transactions == [command : Seq(Byte), payload : Seq(Byte), size : Nat]

\* Only long addresses advance, and the write bit tells what the payload is for.
WellFormed(t) ==
  IF t.payload = <<>> THEN ~IsWriteCommand(t.command)
  ELSE /\ IsWriteCommand(t.command)
       /\ \/ IsLongCommand(t.command) /\ CommandAddress(t.command) \in Nat
          \/ Len(t.payload) = 1

\* The transactions whose payload the chip did not see yet.
Pending == IF pc = "deselect" THEN 2 .. Len(todo) ELSE 1 .. Len(todo)

Content(t) ==
  [i \in 1 .. t.size |->
     IF CellOfByte(t.command, i) \in Cells THEN memory[CellOfByte(t.command, i)] ELSE 0]

Reading == todo # <<>> /\ pc # "deselect" /\ todo[1].payload = <<>>

\* Where the code is, and what the chip knows of the running transaction.
BusOK ==
  /\ selected <=> pc \in {"command", "write", "read", "deselect"}
  /\ pc = "idle" <=> todo = <<>>
  /\ pc \in {"write", "read", "deselect"} => command = todo[1].command
  /\ pc = "write" => todo[1].payload # <<>>
  /\ pc = "read" => todo[1].payload = <<>>

TodoOK ==
  \A k \in 1 .. Len(todo) :
    WellFormed(todo[k]) /\ (todo[k].payload = <<>> => Len(todo) = 1)

\* Every byte still to be sent is the one that is wanted where it goes ...
PendingBytesAreWanted ==
  \A k \in Pending : \A i \in 1 .. Len(todo[k].payload) :
    LET cell == CellOfByte(todo[k].command, i)
    IN cell \in Cells => wanted[cell] = todo[k].payload[i]

\* ... and where none goes the chip holds what is wanted.
OtherCellsAreRight ==
  \A cell \in Cells :
    (\A k \in Pending : \A i \in 1 .. Len(todo[k].payload) :
       CellOfByte(todo[k].command, i) # cell)
    => memory[cell] = wanted[cell]

\* A read that is still to be done will find what is expected.
ReadsAreRight ==
  IF Reading THEN expected = Content(todo[1]) ELSE buffer = expected

CallsAreCarriedOut ==
  /\ TypeOK
  /\ BusOK
  /\ TodoOK
  /\ PendingBytesAreWanted
  /\ OtherCellsAreRight
  /\ ReadsAreRight

-----------------------------------------------------------------------------
(* The calls.                                                              *)

\* What the chip does is told by the type of a transaction.
LEMMA LongWrites ==
  ASSUME NEW address \in LongAddress, NEW bytes \in Seq(Byte)
  PROVE  LET t == writeBlockingWithCommand(setWriteLongCommand(address), bytes)
         IN /\ t \in Transactions /\ t.payload = bytes
            /\ bytes # <<>> => WellFormed(t)
            /\ \A i : CellOfByte(t.command, i) = Cell("long", address + i - 1)
<1>1. Len(bytes) \in Nat
  OBVIOUS
<1>2. \A i : CellOfByte(setWriteLongCommand(address), i) = Cell("long", address + i - 1)
  BY LongCommands, Zenon DEF CellOfByte
<1>3. address \in Nat
  BY DEF LongAddress
<1> QED
  BY <1>1, <1>2, <1>3, LongCommands DEF writeBlockingWithCommand, Transactions, WellFormed

LEMMA LongReads ==
  ASSUME NEW address \in LongAddress, NEW length \in Nat
  PROVE  LET t == readBlockingWithCommand(setReadLongCommand(address), length)
         IN /\ t \in Transactions /\ WellFormed(t)
            /\ t.payload = <<>> /\ t.size = length
            /\ \A i : CellOfByte(t.command, i) = Cell("long", address + i - 1)
<1>1. <<>> \in Seq(Byte)
  OBVIOUS
<1>2. \A i : CellOfByte(setReadLongCommand(address), i) = Cell("long", address + i - 1)
  BY LongCommands, Zenon DEF CellOfByte
<1> QED
  BY <1>1, <1>2, LongCommands DEF readBlockingWithCommand, Transactions, WellFormed

LEMMA ShortFacts ==
  ASSUME NEW address \in 0 .. LastShortControlRegisterAddress, NEW value \in Byte
  PROVE  LET w == writeBlockingWithCommand(setWriteShortCommand(address), <<value>>)
             r == readBlockingWithCommand(setReadShortCommand(address), 1)
         IN /\ w \in Transactions /\ r \in Transactions
            /\ WellFormed(w) /\ WellFormed(r)
            /\ w.payload = <<value>> /\ r.payload = <<>> /\ r.size = 1
            /\ \A i : /\ CellOfByte(w.command, i) = Cell("short", address)
                      /\ CellOfByte(r.command, i) = Cell("short", address)
<1>1. <<value>> \in Seq(Byte) /\ Len(<<value>>) = 1 /\ <<>> \in Seq(Byte) /\ <<value>> # <<>>
  OBVIOUS
<1>2. \A i : /\ CellOfByte(setWriteShortCommand(address), i) = Cell("short", address)
             /\ CellOfByte(setReadShortCommand(address), i) = Cell("short", address)
  BY ShortCommands, Zenon DEF CellOfByte
<1> QED
  BY <1>1, <1>2, ShortCommands
     DEF writeBlockingWithCommand, readBlockingWithCommand, Transactions, WellFormed

LEMMA PairFacts ==
  ASSUME NEW S, NEW T, NEW x \in S \X T
  PROVE  x = <<x[1], x[2]>> /\ x[2] \in T
OBVIOUS

LEMMA CellFacts ==
  ASSUME NEW cell \in Cells
  PROVE  /\ cell = Cell(cell[1], cell[2])
         /\ cell[2] \in Nat
<1>1. 0 .. LastShortControlRegisterAddress \subseteq Nat /\ LongAddress \subseteq Nat
  BY DEF LongAddress, LastShortControlRegisterAddress
<1>2. ShortRegisters \subseteq Nat /\ LongRegisters \cup FifoAddresses \subseteq Nat
  BY <1>1, SpiAssumption, Zenon
<1>3. \/ cell \in {"short"} \X ShortRegisters
      \/ cell \in {"long"} \X (LongRegisters \cup FifoAddresses)
  BY DEF Cells
<1>4. cell = <<cell[1], cell[2]>> /\ cell[2] \in Nat
  <2>1. CASE cell \in {"short"} \X ShortRegisters
    BY <1>2, <2>1, PairFacts, Zenon
  <2>2. CASE cell \in {"long"} \X (LongRegisters \cup FifoAddresses)
    BY <1>2, <2>2, PairFacts, Zenon
  <2> QED BY <1>3, <2>1, <2>2
<1> QED BY <1>4 DEF Cell

\* The bytes at their addresses, the rest as it is.
IsWritten(result, space, address, bytes) ==
  /\ result \in [Cells -> Byte]
  /\ \A cell \in Cells : \A i \in 1 .. Len(bytes) :
       cell = Cell(space, address + i - 1) => result[cell] = bytes[i]
  /\ \A cell \in Cells :
       (\A i \in 1 .. Len(bytes) : cell # Cell(space, address + i - 1)) =>
         result[cell] = memory[cell]

LEMMA WrittenFacts ==
  ASSUME memory \in [Cells -> Byte], NEW space, NEW address \in Nat, NEW bytes \in Seq(Byte)
  PROVE  IsWritten(Written(space, address, bytes), space, address, bytes)
<1> DEFINE inside(cell) == cell[1] = space /\ cell[2] \in address .. (address + Len(bytes) - 1)
<1>1. ASSUME NEW cell \in Cells
      PROVE  Written(space, address, bytes)[cell] =
               IF inside(cell) THEN bytes[cell[2] - address + 1] ELSE memory[cell]
  BY DEF Written
<1>2. ASSUME NEW cell \in Cells, inside(cell)
      PROVE  /\ cell[2] - address + 1 \in 1 .. Len(bytes)
             /\ cell = Cell(space, address + (cell[2] - address + 1) - 1)
  <2>1. cell[2] \in Nat /\ cell = Cell(space, cell[2]) /\ Len(bytes) \in Nat
    BY <1>2, CellFacts
  <2>2. address + (cell[2] - address + 1) - 1 = cell[2]
    BY <2>1
  <2> QED BY <1>2, <2>1, <2>2
<1>3. ASSUME NEW cell \in Cells, NEW i \in 1 .. Len(bytes), cell = Cell(space, address + i - 1)
      PROVE  inside(cell) /\ cell[2] - address + 1 = i
  <2>1. cell[1] = space /\ cell[2] = address + i - 1
    BY <1>3 DEF Cell
  <2> QED BY <2>1
<1>4. ASSUME NEW cell \in Cells
      PROVE  Written(space, address, bytes)[cell] \in Byte
  <2>1. CASE inside(cell)
    <3>1. PICK j \in 1 .. Len(bytes) : j = cell[2] - address + 1
      BY <1>2, <2>1
    <3>2. bytes[j] \in Byte
      OBVIOUS
    <3> QED BY <1>1, <2>1, <3>1, <3>2
  <2>2. CASE ~inside(cell)
    BY <1>1, <2>2
  <2> QED BY <2>1, <2>2
<1>5. Written(space, address, bytes) = [cell \in Cells |-> Written(space, address, bytes)[cell]]
  BY DEF Written
<1> HIDE DEF inside
<1>6. Written(space, address, bytes) \in [Cells -> Byte]
  BY <1>4, <1>5
<1>7. ASSUME NEW cell \in Cells, NEW i \in 1 .. Len(bytes), cell = Cell(space, address + i - 1)
      PROVE  Written(space, address, bytes)[cell] = bytes[i]
  BY <1>1, <1>3, <1>7
<1>8. ASSUME NEW cell \in Cells,
             \A i \in 1 .. Len(bytes) : cell # Cell(space, address + i - 1)
      PROVE  Written(space, address, bytes)[cell] = memory[cell]
  BY <1>1, <1>2, <1>8
<1> QED BY <1>6, <1>7, <1>8 DEF IsWritten

\* Between calls nothing is pending.
LEMMA IdleFacts ==
  ASSUME CallsAreCarriedOut, pc = "idle"
  PROVE  /\ memory = wanted
         /\ buffer = expected
<1>1. todo = <<>> /\ Pending = {} /\ ~Reading
  BY DEF CallsAreCarriedOut, BusOK, Pending, Reading
<1>2. memory \in [Cells -> Byte] /\ wanted \in [Cells -> Byte]
  BY DEF CallsAreCarriedOut, TypeOK
<1>3. \A cell \in Cells : memory[cell] = wanted[cell]
  BY <1>1 DEF CallsAreCarriedOut, OtherCellsAreRight
<1>4. memory = wanted
  BY <1>2, <1>3
<1> QED BY <1>1, <1>4 DEF CallsAreCarriedOut, ReadsAreRight

\* What has to be shown of a call.
LEMMA CallStep ==
  ASSUME NEW transactions \in Seq(Transactions), transactions # <<>>,
         CallsAreCarriedOut, Call(transactions),
         wanted' \in [Cells -> Byte], expected' \in Seq(Byte),
         \A k \in 1 .. Len(transactions) :
           /\ WellFormed(transactions[k])
           /\ transactions[k].payload = <<>> => Len(transactions) = 1,
         \A k \in 1 .. Len(transactions) : \A i \in 1 .. Len(transactions[k].payload) :
           LET cell == CellOfByte(transactions[k].command, i)
           IN cell \in Cells => wanted'[cell] = transactions[k].payload[i],
         \A cell \in Cells :
           (\A k \in 1 .. Len(transactions) : \A i \in 1 .. Len(transactions[k].payload) :
              CellOfByte(transactions[k].command, i) # cell)
           => memory[cell] = wanted'[cell],
         IF transactions[1].payload = <<>> THEN expected' = Content(transactions[1])
                                           ELSE buffer = expected'
  PROVE  CallsAreCarriedOut'
<1>1. /\ todo' = transactions /\ pc' = "select" /\ pc = "idle"
      /\ UNCHANGED <<selected, command, memory, buffer>>
  BY DEF Call
<1>2. TypeOK'
  BY <1>1 DEF CallsAreCarriedOut, TypeOK, Transactions
<1>3. BusOK'
  BY <1>1 DEF CallsAreCarriedOut, BusOK
<1>4. TodoOK'
  BY <1>1 DEF TodoOK
<1>5. Pending' = 1 .. Len(transactions)
  BY <1>1 DEF Pending
<1>6. PendingBytesAreWanted'
  BY <1>1, <1>5 DEF PendingBytesAreWanted
<1>7. OtherCellsAreRight'
  BY <1>1, <1>5 DEF OtherCellsAreRight
<1>8. ReadsAreRight'
  <2>1. Reading' = (transactions[1].payload = <<>>)
    BY <1>1 DEF Reading
  <2>2. Content(transactions[1])' = Content(transactions[1])
    BY <1>1 DEF Content
  <2> QED BY <1>1, <2>1, <2>2 DEF ReadsAreRight, Content
<1> QED BY <1>2, <1>3, <1>4, <1>6, <1>7, <1>8 DEF CallsAreCarriedOut

\* One transaction that writes its bytes where they are wanted.
LEMMA WriteCall ==
  ASSUME CallsAreCarriedOut, NEW space, NEW address \in Nat, NEW bytes \in Seq(Byte),
         NEW t \in Transactions, WellFormed(t), t.payload = bytes, bytes # <<>>,
         \A i \in 1 .. Len(bytes) : CellOfByte(t.command, i) = Cell(space, address + i - 1),
         Call(<<t>>), wanted' = Written(space, address, bytes), expected' = buffer
  PROVE  CallsAreCarriedOut'
<1>1. memory \in [Cells -> Byte] /\ buffer \in Seq(Byte)
  BY DEF CallsAreCarriedOut, TypeOK
<1>2. /\ <<t>> \in Seq(Transactions) /\ <<t>> # <<>> /\ Len(<<t>>) = 1 /\ <<t>>[1] = t
      /\ \A k \in 1 .. Len(<<t>>) : <<t>>[k] = t
  OBVIOUS
<1>3. IsWritten(wanted', space, address, bytes)
  BY <1>1, WrittenFacts, Zenon
<1>6. wanted' \in [Cells -> Byte] /\ expected' \in Seq(Byte)
  BY <1>1, <1>3 DEF IsWritten
<1>4. \A k \in 1 .. Len(<<t>>) : \A i \in 1 .. Len(<<t>>[k].payload) :
        LET cell == CellOfByte(<<t>>[k].command, i)
        IN cell \in Cells => wanted'[cell] = <<t>>[k].payload[i]
  <2> SUFFICES ASSUME NEW i \in 1 .. Len(bytes), CellOfByte(t.command, i) \in Cells
               PROVE  wanted'[CellOfByte(t.command, i)] = bytes[i]
    BY <1>2, Zenon
  <2> QED BY <1>3 DEF IsWritten
<1>5. \A cell \in Cells :
        (\A k \in 1 .. Len(<<t>>) : \A i \in 1 .. Len(<<t>>[k].payload) :
           CellOfByte(<<t>>[k].command, i) # cell)
        => memory[cell] = wanted'[cell]
  <2> SUFFICES ASSUME NEW cell \in Cells,
                      \A i \in 1 .. Len(bytes) : CellOfByte(t.command, i) # cell
               PROVE  memory[cell] = wanted'[cell]
    BY <1>2
  <2> QED BY <1>3 DEF IsWritten
<1> QED BY <1>2, <1>4, <1>5, <1>6, CallStep

\* One transaction that reads what is expected.
LEMMA ReadCall ==
  ASSUME CallsAreCarriedOut, NEW t \in Transactions, WellFormed(t), t.payload = <<>>,
         Call(<<t>>), wanted' = wanted, expected' = Content(t), expected' \in Seq(Byte)
  PROVE  CallsAreCarriedOut'
<1>1. memory = wanted /\ wanted \in [Cells -> Byte]
  BY IdleFacts DEF Call, CallsAreCarriedOut, TypeOK
<1>2. /\ <<t>> \in Seq(Transactions) /\ <<t>> # <<>> /\ Len(<<t>>) = 1 /\ <<t>>[1] = t
      /\ \A k \in 1 .. Len(<<t>>) : <<t>>[k] = t
  OBVIOUS
<1>3. \A k \in 1 .. Len(<<t>>) : \A i \in 1 .. Len(<<t>>[k].payload) : FALSE
  BY <1>2
<1>4. \A k \in 1 .. Len(<<t>>) :
        WellFormed(<<t>>[k]) /\ (<<t>>[k].payload = <<>> => Len(<<t>>) = 1)
  BY <1>2
<1>5. \A cell \in Cells : memory[cell] = wanted'[cell]
  BY <1>1
<1> QED BY <1>1, <1>2, <1>3, <1>4, <1>5, CallStep

\* On which side of isLongAddress an address lies.
LEMMA Addresses ==
  /\ \A address \in ShortRegisters : /\ address \in 0 .. LastShortControlRegisterAddress
                                     /\ address \in Nat
                                     /\ ~isLongAddress(address)
  /\ \A address \in LongRegisters : /\ address \in LongAddress
                                    /\ address \in Nat
                                    /\ isLongAddress(address)
                                    /\ address \notin ShortRegisters
  /\ \A address \in FifoAddresses : address \in LongAddress /\ address \in Nat
<1>1. \A address \in 0 .. LastShortControlRegisterAddress :
        address \in Nat /\ ~isLongAddress(address)
  BY DEF isLongAddress, LastShortControlRegisterAddress
<1>2. \A address \in LongAddress \ (0 .. LastShortControlRegisterAddress) :
        address \in Nat /\ isLongAddress(address)
  BY DEF isLongAddress, LastShortControlRegisterAddress, LongAddress
<1>3. \A address \in LongAddress : address \in Nat
  BY DEF LongAddress
<1> QED BY <1>1, <1>2, <1>3, SpiAssumption, Zenon

LEMMA SetControlRegisterStep ==
  ASSUME CallsAreCarriedOut, NEW address \in ShortRegisters \cup LongRegisters,
         NEW value \in Values, SetControlRegister(address, value)
  PROVE  CallsAreCarriedOut'
<1>1. value \in Byte /\ <<value>> \in Seq(Byte) /\ <<value>> # <<>> /\ Len(<<value>>) = 1
  BY SpiAssumption
<1>2. CASE address \in ShortRegisters
  <2>1. address \in 0 .. LastShortControlRegisterAddress /\ address \in Nat
    BY <1>2, Addresses
  <2>2. PICK t : t = writeBlockingWithCommand(setWriteShortCommand(address), <<value>>)
    OBVIOUS
  <2>3. /\ t \in Transactions /\ WellFormed(t) /\ t.payload = <<value>>
        /\ \A i : CellOfByte(t.command, i) = Cell("short", address)
    BY <1>1, <2>1, <2>2, ShortFacts
  <2>4. \A i \in 1 .. Len(<<value>>) : CellOfByte(t.command, i) = Cell("short", address + i - 1)
    <3>1. \A i \in 1 .. 1 : address + i - 1 = address
      BY <2>1
    <3> QED BY <1>1, <2>3, <3>1
  <2>5. /\ Call(<<t>>) /\ expected' = buffer
        /\ wanted' = Written("short", address, <<value>>)
    BY <1>2, <2>2, Addresses DEF SetControlRegister, MrfIo_setControlRegister
  <2> QED BY <1>1, <2>1, <2>3, <2>4, <2>5, WriteCall
<1>3. CASE address \in LongRegisters
  <2>1. address \in LongAddress /\ address \in Nat
    BY <1>3, Addresses
  <2>2. PICK t : t = writeBlockingWithCommand(setWriteLongCommand(address), <<value>>)
    OBVIOUS
  <2>3. /\ t \in Transactions /\ WellFormed(t) /\ t.payload = <<value>>
        /\ \A i : CellOfByte(t.command, i) = Cell("long", address + i - 1)
    BY <1>1, <2>1, <2>2, LongWrites
  <2>4. /\ Call(<<t>>) /\ expected' = buffer
        /\ wanted' = Written("long", address, <<value>>)
    BY <1>3, <2>2, Addresses DEF SetControlRegister, MrfIo_setControlRegister
  <2> QED BY <1>1, <2>1, <2>3, <2>4, WriteCall
<1> QED BY <1>2, <1>3

LEMMA WriteLongStep ==
  ASSUME CallsAreCarriedOut, NEW bytes \in Blocks, NEW address \in FifoAddresses,
         WriteBlockingToLongAddress(bytes, address)
  PROVE  CallsAreCarriedOut'
<1>1. bytes \in Seq(Byte) /\ bytes # <<>> /\ address \in LongAddress /\ address \in Nat
  BY SpiAssumption, Addresses
<1>2. PICK t : t = writeBlockingWithCommand(setWriteLongCommand(address), bytes)
  OBVIOUS
<1>3. /\ t \in Transactions /\ WellFormed(t) /\ t.payload = bytes
      /\ \A i : CellOfByte(t.command, i) = Cell("long", address + i - 1)
  BY <1>1, <1>2, LongWrites
<1>4. /\ Call(<<t>>) /\ expected' = buffer
      /\ wanted' = Written("long", address, bytes)
  BY <1>2 DEF WriteBlockingToLongAddress, MrfIo_writeBlockingToLongAddress
<1> QED BY <1>1, <1>3, <1>4, WriteCall

\* One transaction for each byte, each to the address after the one before.
LEMMA WriteShortStep ==
  ASSUME CallsAreCarriedOut, NEW bytes \in Blocks, NEW address \in ShortRegisters,
         WriteBlockingToShortAddress(bytes, address)
  PROVE  CallsAreCarriedOut'
<1>1. bytes \in Seq(Byte) /\ bytes # <<>> /\ address \in Nat
  BY SpiAssumption, Addresses
<1>2. PICK ts : ts = MrfIo_writeBlockingToShortAddress(bytes, address)
  OBVIOUS
<1>3. /\ Call(ts) /\ expected' = buffer /\ ShortBlock(address, Len(bytes))
      /\ wanted' = Written("short", address, bytes)
  BY <1>2 DEF WriteBlockingToShortAddress
<1>4. ASSUME NEW k \in 1 .. Len(bytes)
      PROVE  /\ ts[k] \in Transactions /\ WellFormed(ts[k])
             /\ ts[k].payload = <<bytes[k]>>
             /\ CellOfByte(ts[k].command, 1) = Cell("short", address + k - 1)
  <2>1. address + k - 1 \in address .. (address + Len(bytes) - 1)
    BY <1>1
  <2>2. address + k - 1 \in 0 .. LastShortControlRegisterAddress
    BY <1>3, <2>1, Addresses DEF ShortBlock
  <2>3. uint8(address + k - 1) = address + k - 1
    <3>1. \A n \in 0 .. LastShortControlRegisterAddress : uint8(n) = n
      BY DEF uint8, LastShortControlRegisterAddress
    <3> QED BY <2>2, <3>1, Zenon
  <2>4. ts[k] = writeBlockingWithCommand(setWriteShortCommand(address + k - 1), <<bytes[k]>>)
    BY <1>2, <2>3 DEF MrfIo_writeBlockingToShortAddress
  <2>5. bytes[k] \in Byte
    BY <1>1
  <2> QED BY <2>2, <2>4, <2>5, ShortFacts
<1>5. ts \in Seq(Transactions) /\ Len(ts) = Len(bytes) /\ ts # <<>> /\ 1 \in 1 .. Len(bytes)
  <2>1. ts = [k \in 1 .. Len(bytes) |-> ts[k]] /\ Len(bytes) \in Nat \ {0}
    BY <1>1, <1>2 DEF MrfIo_writeBlockingToShortAddress
  <2>2. \A k \in 1 .. Len(bytes) : ts[k] \in Transactions
    BY <1>4
  <2> QED BY <2>1, <2>2
<1>6. memory \in [Cells -> Byte] /\ buffer \in Seq(Byte)
  BY DEF CallsAreCarriedOut, TypeOK
<1>7. IsWritten(wanted', "short", address, bytes)
  BY <1>1, <1>3, <1>6, WrittenFacts, Zenon
<1>8. wanted' \in [Cells -> Byte] /\ expected' \in Seq(Byte)
  BY <1>3, <1>6, <1>7 DEF IsWritten
<1>9. \A k \in 1 .. Len(ts) : /\ Len(ts[k].payload) = 1
                              /\ ts[k].payload[1] = bytes[k]
                              /\ ts[k].payload # <<>>
  <2>1. \A x : Len(<<x>>) = 1 /\ <<x>>[1] = x /\ <<x>> # <<>>
    OBVIOUS
  <2> QED BY <1>4, <1>5, <2>1, Zenon
<1>10. \A k \in 1 .. Len(ts) : \A i \in 1 .. Len(ts[k].payload) :
         LET cell == CellOfByte(ts[k].command, i)
         IN cell \in Cells => wanted'[cell] = ts[k].payload[i]
  <2> SUFFICES ASSUME NEW k \in 1 .. Len(bytes), NEW cell \in Cells,
                      cell = CellOfByte(ts[k].command, 1)
               PROVE  wanted'[cell] = bytes[k]
    BY <1>5, <1>9
  <2>1. cell = Cell("short", address + k - 1)
    BY <1>4
  <2> QED BY <1>7, <2>1 DEF IsWritten
<1>11. \A cell \in Cells :
         (\A k \in 1 .. Len(ts) : \A i \in 1 .. Len(ts[k].payload) :
            CellOfByte(ts[k].command, i) # cell)
         => memory[cell] = wanted'[cell]
  <2> SUFFICES ASSUME NEW cell \in Cells,
                      \A k \in 1 .. Len(bytes) : CellOfByte(ts[k].command, 1) # cell
               PROVE  memory[cell] = wanted'[cell]
    BY <1>5, <1>9
  <2>1. \A k \in 1 .. Len(bytes) : cell # Cell("short", address + k - 1)
    BY <1>4
  <2> QED BY <1>7, <2>1 DEF IsWritten
<1>12. /\ \A k \in 1 .. Len(ts) : /\ WellFormed(ts[k])
                                  /\ ts[k].payload = <<>> => Len(ts) = 1
       /\ ts[1].payload # <<>>
  BY <1>4, <1>5, <1>9
<1>13. buffer = expected'
  BY <1>3
<1> QED BY <1>3, <1>5, <1>8, <1>10, <1>11, <1>12, <1>13, CallStep

LEMMA ContentOfCells ==
  ASSUME NEW t \in Transactions, memory \in [Cells -> Byte],
         \A i \in 1 .. t.size : CellOfByte(t.command, i) \in Cells
  PROVE  /\ Content(t) = [i \in 1 .. t.size |-> memory[CellOfByte(t.command, i)]]
         /\ Content(t) \in Seq(Byte)
<1>1. Content(t) = [i \in 1 .. t.size |-> memory[CellOfByte(t.command, i)]]
  BY DEF Content
<1>2. \A i \in 1 .. t.size : memory[CellOfByte(t.command, i)] \in Byte
  OBVIOUS
<1>3. t.size \in Nat
  BY DEF Transactions
<1> QED BY <1>1, <1>2, <1>3

LEMMA ReadControlRegisterStep ==
  ASSUME CallsAreCarriedOut, NEW address \in ShortRegisters \cup LongRegisters,
         ReadControlRegister(address)
  PROVE  CallsAreCarriedOut'
<1>1. memory \in [Cells -> Byte]
  BY DEF CallsAreCarriedOut, TypeOK
<1>2. ASSUME NEW space, NEW t \in Transactions, WellFormed(t), t.payload = <<>>, t.size = 1,
             CellOfByte(t.command, 1) = Cell(space, address), Cell(space, address) \in Cells,
             Call(<<t>>), expected' = <<memory[Cell(space, address)]>>
      PROVE  CallsAreCarriedOut'
  <2>1. \A i \in 1 .. t.size : i = 1
    BY <1>2
  <2>2. /\ Content(t) = [i \in 1 .. t.size |-> memory[CellOfByte(t.command, i)]]
        /\ Content(t) \in Seq(Byte)
    BY <1>1, <1>2, <2>1, ContentOfCells
  <2>3. Content(t) = <<memory[Cell(space, address)]>>
    BY <1>2, <2>2
  <2> QED BY <1>2, <2>2, <2>3, ReadCall DEF ReadControlRegister
<1>3. CASE address \in ShortRegisters
  <2>1. address \in 0 .. LastShortControlRegisterAddress
    BY <1>3, Addresses
  <2>2. PICK t : t = readBlockingWithCommand(setReadShortCommand(address), 1)
    OBVIOUS
  <2>3. /\ t \in Transactions /\ WellFormed(t) /\ t.payload = <<>> /\ t.size = 1
        /\ CellOfByte(t.command, 1) = Cell("short", address)
    <3>1. 0 \in Byte
      BY DEF Byte
    <3> QED BY <2>1, <2>2, <3>1, ShortFacts
  <2>4. /\ Call(<<t>>) /\ Cell("short", address) \in Cells
        /\ expected' = <<memory[Cell("short", address)]>>
    BY <1>3, <2>2, Addresses DEF ReadControlRegister, MrfIo_readControlRegister, Cell, Cells
  <2> QED BY <1>2, <2>3, <2>4
<1>4. CASE address \in LongRegisters
  <2>1. address \in LongAddress /\ address \in Nat
    BY <1>4, Addresses
  <2>2. PICK t : t = readBlockingWithCommand(setReadLongCommand(address), 1)
    OBVIOUS
  <2>3. /\ t \in Transactions /\ WellFormed(t) /\ t.payload = <<>> /\ t.size = 1
        /\ CellOfByte(t.command, 1) = Cell("long", address)
    <3>1. <<>> \in Seq(Byte) /\ 1 \in Nat /\ address + 1 - 1 = address
      BY <2>1
    <3>2. /\ t \in Transactions /\ WellFormed(t) /\ t.payload = <<>> /\ t.size = 1
          /\ \A i : CellOfByte(t.command, i) = Cell("long", address + i - 1)
      BY <2>1, <2>2, <3>1, LongReads
    <3> QED BY <3>1, <3>2, Zenon
  <2>4. /\ Call(<<t>>) /\ Cell("long", address) \in Cells
        /\ expected' = <<memory[Cell("long", address)]>>
    BY <1>4, <2>2, Addresses DEF ReadControlRegister, MrfIo_readControlRegister, Cell, Cells
  <2> QED BY <1>2, <2>3, <2>4
<1> QED BY <1>3, <1>4

LEMMA ReadLongStep ==
  ASSUME CallsAreCarriedOut, NEW address \in FifoAddresses, NEW length \in Nat,
         ReadBlockingFromLongAddress(address, length)
  PROVE  CallsAreCarriedOut'
<1>1. memory \in [Cells -> Byte]
  BY DEF CallsAreCarriedOut, TypeOK
<1>2. address \in LongAddress /\ address \in Nat /\ <<>> \in Seq(Byte)
  BY Addresses
<1>3. PICK t : t = readBlockingWithCommand(setReadLongCommand(address), length)
  OBVIOUS
<1>4. /\ t \in Transactions /\ WellFormed(t) /\ t.payload = <<>> /\ t.size = length
      /\ \A i : CellOfByte(t.command, i) = Cell("long", address + i - 1)
  BY <1>2, <1>3, LongReads
<1>5. \A i \in 1 .. length : Cell("long", address + i - 1) \in Cells
  <2> SUFFICES ASSUME NEW i \in 1 .. length
               PROVE  Cell("long", address + i - 1) \in Cells
    OBVIOUS
  <2>1. address + i - 1 \in address .. (address + length - 1)
    BY <1>2
  <2>2. address + i - 1 \in FifoAddresses
    BY <2>1 DEF ReadBlockingFromLongAddress, LongBlock
  <2> QED BY <2>2, Zenon DEF Cells, Cell
<1>6. /\ Content(t) = [i \in 1 .. t.size |-> memory[CellOfByte(t.command, i)]]
      /\ Content(t) \in Seq(Byte)
  BY <1>1, <1>4, <1>5, ContentOfCells
<1>7. /\ Call(<<t>>) /\ wanted' = wanted
      /\ expected' = [i \in 1 .. length |-> memory[Cell("long", address + i - 1)]]
  BY <1>3 DEF ReadBlockingFromLongAddress, MrfIo_readBlockingFromLongAddress
<1>8. expected' = Content(t)
  BY <1>4, <1>6, <1>7
<1> QED BY <1>4, <1>6, <1>7, <1>8, ReadCall

-----------------------------------------------------------------------------
(* The steps of a transaction.                                             *)

LEMMA TodoFacts ==
  ASSUME CallsAreCarriedOut, pc # "idle"
  PROVE  /\ todo \in Seq(Transactions) /\ todo # <<>>
         /\ Len(todo) \in Nat \ {0} /\ 1 \in 1 .. Len(todo)
         /\ Head(todo) = todo[1] /\ todo[1] \in Transactions
         /\ \A k \in 1 .. Len(todo) : todo[k] \in Transactions
         /\ WellFormed(todo[1])
<1>1. todo \in Seq(Transactions) /\ todo # <<>>
  BY DEF CallsAreCarriedOut, TypeOK, BusOK, Transactions
<1>2. Len(todo) \in Nat \ {0} /\ 1 \in 1 .. Len(todo) /\ Head(todo) = todo[1]
  BY <1>1
<1> QED BY <1>1, <1>2 DEF CallsAreCarriedOut, TodoOK

\* A step that leaves alone what is pending, and the memory.
LEMMA BetweenStep ==
  ASSUME CallsAreCarriedOut, TypeOK', BusOK', pc # "deselect", pc' # "deselect",
         UNCHANGED <<todo, memory, buffer, wanted, expected>>
  PROVE  CallsAreCarriedOut'
<1>1. UNCHANGED <<Pending, Reading>>
  BY DEF Pending, Reading
<1>2. TodoOK'
  BY DEF CallsAreCarriedOut, TodoOK
<1>3. PendingBytesAreWanted' /\ OtherCellsAreRight'
  BY <1>1 DEF CallsAreCarriedOut, PendingBytesAreWanted, OtherCellsAreRight
<1>4. ReadsAreRight'
  <2>1. UNCHANGED Content(todo[1])
    BY DEF Content
  <2> QED BY <1>1, <2>1 DEF CallsAreCarriedOut, ReadsAreRight
<1> QED BY <1>2, <1>3, <1>4 DEF CallsAreCarriedOut

LEMMA SelectStep ==
  ASSUME CallsAreCarriedOut, SelectPeripheral \/ WriteCommand
  PROVE  CallsAreCarriedOut'
<1>1. pc # "idle" /\ TypeOK /\ BusOK
  BY DEF CallsAreCarriedOut, SelectPeripheral, WriteCommand
<1>2. todo[1] \in Transactions /\ Head(todo) = todo[1]
  BY <1>1, TodoFacts
<1>3. todo[1].command \in Seq(Byte)
  BY <1>2 DEF Transactions
<1>4. /\ pc \in {"select", "command"} /\ pc' \in {"command", "write", "read"}
      /\ UNCHANGED <<todo, memory, buffer, wanted, expected>>
  BY DEF SelectPeripheral, WriteCommand
<1>5. TypeOK'
  <2>1. /\ selected' \in BOOLEAN /\ command' \in Seq(Byte)
        /\ pc' \in {"command", "write", "read"}
    <3>1. CASE SelectPeripheral
      BY <1>1, <3>1 DEF TypeOK, SelectPeripheral
    <3>2. CASE WriteCommand
      BY <1>1, <1>2, <1>3, <3>2 DEF TypeOK, WriteCommand
    <3> QED BY <3>1, <3>2
  <2> QED BY <1>1, <1>4, <2>1 DEF TypeOK
<1>6. BusOK'
  BY <1>1, <1>2 DEF BusOK, SelectPeripheral, WriteCommand
<1> QED BY <1>4, <1>5, <1>6, BetweenStep

\* No byte of a transaction goes where another one went.
LEMMA OneByteEach ==
  ASSUME NEW t \in Transactions, WellFormed(t),
         NEW i \in 1 .. Len(t.payload), NEW j \in 1 .. Len(t.payload),
         CellOfByte(t.command, i) = CellOfByte(t.command, j)
  PROVE  i = j
<1>1. t.payload # <<>> /\ Len(t.payload) \in Nat
  BY DEF Transactions
<1>2. CASE Len(t.payload) = 1
  BY <1>2
<1>3. CASE IsLongCommand(t.command) /\ CommandAddress(t.command) \in Nat
  <2>1. CommandAddress(t.command) + i - 1 = CommandAddress(t.command) + j - 1
    BY <1>3 DEF CellOfByte, Cell
  <2> QED BY <1>3, <2>1
<1> QED BY <1>1, <1>2, <1>3 DEF WellFormed

\* A transaction puts each of its bytes where it goes and touches nothing else.
LEMMA WrittenMemory ==
  ASSUME CallsAreCarriedOut, WritePayload
  PROVE  /\ memory' \in [Cells -> Byte]
         /\ \A cell \in Cells : \A i \in 1 .. Len(todo[1].payload) :
              CellOfByte(todo[1].command, i) = cell => memory'[cell] = todo[1].payload[i]
         /\ \A cell \in Cells :
              (\A i \in 1 .. Len(todo[1].payload) : CellOfByte(todo[1].command, i) # cell)
              => memory'[cell] = memory[cell]
<1>1. pc = "write" /\ BusOK /\ memory \in [Cells -> Byte]
  BY DEF WritePayload, CallsAreCarriedOut, TypeOK
<1>2. PICK t \in Transactions : t = todo[1] /\ t = Head(todo) /\ WellFormed(t)
  BY <1>1, TodoFacts
<1>3. selected /\ command = t.command /\ t.payload # <<>> /\ IsWriteCommand(t.command)
  BY <1>1, <1>2 DEF BusOK, WellFormed
<1> DEFINE written(cell) == {i \in 1 .. Len(t.payload) : CellOfByte(t.command, i) = cell}
           first(cell)   == CHOOSE i \in written(cell) : \A j \in written(cell) : i <= j
<1>4. memory' = [cell \in Cells |-> IF written(cell) = {} THEN memory[cell]
                                    ELSE t.payload[first(cell)]]
  BY <1>2, <1>3 DEF WritePayload
<1>5. ASSUME NEW cell \in Cells, NEW i \in 1 .. Len(t.payload),
             CellOfByte(t.command, i) = cell
      PROVE  memory'[cell] = t.payload[i]
  <2>1. \A j \in written(cell) : j = i
    BY <1>2, <1>5, OneByteEach
  <2>2. i \in written(cell)
    BY <1>5
  <2>3. first(cell) = i
    <3>1. Len(t.payload) \in Nat /\ i \in Int /\ i <= i
      BY DEF Transactions
    <3>2. \A j \in written(cell) : i <= j
      BY <2>1, <3>1
    <3>3. first(cell) \in written(cell)
      BY <2>2, <3>2
    <3> QED BY <2>1, <3>3
  <2> QED BY <1>4, <2>2, <2>3
<1>6. ASSUME NEW cell \in Cells,
             \A i \in 1 .. Len(t.payload) : CellOfByte(t.command, i) # cell
      PROVE  memory'[cell] = memory[cell]
  <2>1. written(cell) = {}
    BY <1>6
  <2> QED BY <1>4, <2>1
<1>7. ASSUME NEW cell \in Cells PROVE memory'[cell] \in Byte
  <2>1. t.payload \in Seq(Byte)
    BY DEF Transactions
  <2>2. CASE \E i \in 1 .. Len(t.payload) : CellOfByte(t.command, i) = cell
    BY <1>5, <2>1, <2>2
  <2>3. CASE ~\E i \in 1 .. Len(t.payload) : CellOfByte(t.command, i) = cell
    BY <1>1, <1>6, <2>3
  <2> QED BY <2>2, <2>3
<1>8. memory' = [cell \in Cells |-> memory'[cell]]
  BY <1>4
<1> HIDE DEF written, first
<1>9. memory' \in [Cells -> Byte]
  BY <1>7, <1>8
<1> QED BY <1>2, <1>5, <1>6, <1>9

LEMMA WritePayloadStep ==
  ASSUME CallsAreCarriedOut, WritePayload
  PROVE  CallsAreCarriedOut'
<1>1. /\ pc = "write" /\ pc' = "deselect"
      /\ UNCHANGED <<todo, selected, command, buffer, wanted, expected>>
      /\ BusOK /\ TypeOK
  BY DEF WritePayload, CallsAreCarriedOut
<1>2. TypeOK'
  BY <1>1, WrittenMemory DEF TypeOK
<1>3. BusOK' /\ TodoOK'
  BY <1>1 DEF CallsAreCarriedOut, BusOK, TodoOK
<1>4. /\ Pending = 1 .. Len(todo) /\ Pending' = 2 .. Len(todo)
      /\ 1 \in Pending /\ \A k \in Pending : k = 1 \/ k \in Pending'
      /\ \A k \in Pending' : k \in Pending
  BY <1>1, TodoFacts DEF Pending
<1>5. PendingBytesAreWanted'
  BY <1>1, <1>4 DEF CallsAreCarriedOut, PendingBytesAreWanted
<1>6. OtherCellsAreRight'
  <2> SUFFICES ASSUME NEW cell \in Cells,
                      \A k \in Pending' : \A i \in 1 .. Len(todo[k].payload) :
                        CellOfByte(todo[k].command, i) # cell
               PROVE  memory'[cell] = wanted[cell]
    BY <1>1 DEF OtherCellsAreRight
  <2>1. CASE \E i \in 1 .. Len(todo[1].payload) : CellOfByte(todo[1].command, i) = cell
    BY <1>4, <2>1, WrittenMemory DEF CallsAreCarriedOut, PendingBytesAreWanted
  <2>2. CASE \A i \in 1 .. Len(todo[1].payload) : CellOfByte(todo[1].command, i) # cell
    <3>1. memory[cell] = wanted[cell]
      BY <1>4, <2>2 DEF CallsAreCarriedOut, OtherCellsAreRight
    <3> QED BY <2>2, <3>1, WrittenMemory
  <2> QED BY <2>1, <2>2
<1>7. ReadsAreRight'
  BY <1>1 DEF CallsAreCarriedOut, ReadsAreRight, Reading, BusOK
<1> QED BY <1>2, <1>3, <1>5, <1>6, <1>7 DEF CallsAreCarriedOut

LEMMA ReadPayloadStep ==
  ASSUME CallsAreCarriedOut, ReadPayload
  PROVE  CallsAreCarriedOut'
<1>1. /\ pc = "read" /\ pc' = "deselect"
      /\ UNCHANGED <<todo, selected, command, memory, wanted, expected>>
      /\ BusOK /\ TypeOK /\ TodoOK /\ ReadsAreRight
  BY DEF ReadPayload, CallsAreCarriedOut
<1>2. PICK t \in Transactions : t = todo[1] /\ t = Head(todo) /\ WellFormed(t)
  BY <1>1, TodoFacts
<1>3. /\ selected /\ command = t.command /\ t.payload = <<>> /\ ~IsWriteCommand(t.command)
      /\ Len(todo) = 1 /\ todo # <<>>
  BY <1>1, <1>2, TodoFacts DEF BusOK, WellFormed, TodoOK
<1>4. buffer' = Content(t)
  BY <1>2, <1>3 DEF ReadPayload, Content
<1>5. Content(t) = expected
  BY <1>1, <1>2, <1>3 DEF ReadsAreRight, Reading
<1>6. TypeOK'
  BY <1>1, <1>4, <1>5 DEF TypeOK
<1>7. BusOK' /\ TodoOK'
  BY <1>1 DEF BusOK, TodoOK
<1>8. Pending' = {} /\ \A k \in Pending : todo[k] = t
  BY <1>1, <1>2, <1>3 DEF Pending
<1>9. PendingBytesAreWanted'
  BY <1>8 DEF PendingBytesAreWanted
<1>10. OtherCellsAreRight'
  <2>1. \A i \in 1 .. Len(t.payload) : FALSE
    BY <1>3
  <2> QED BY <1>1, <1>8, <2>1 DEF CallsAreCarriedOut, OtherCellsAreRight
<1>11. ReadsAreRight'
  BY <1>1, <1>4, <1>5 DEF ReadsAreRight, Reading
<1> QED BY <1>6, <1>7, <1>9, <1>10, <1>11 DEF CallsAreCarriedOut

LEMMA EmptySequence ==
  ASSUME NEW S
  PROVE  <<>> \in Seq(S) /\ Len(<<>>) = 0
OBVIOUS

LEMMA TailFacts ==
  ASSUME NEW S, NEW s \in Seq(S), s # <<>>
  PROVE  /\ Tail(s) \in Seq(S) /\ Len(Tail(s)) = Len(s) - 1
         /\ \A k \in 1 .. Len(Tail(s)) : Tail(s)[k] = s[k + 1]
         /\ Tail(s) = <<>> <=> Len(s) = 1
         /\ Len(s) \in Nat \ {0}
<1>1. Len(s) \in Nat \ {0}
  OBVIOUS
<1>2. /\ Tail(s) \in Seq(S) /\ Len(Tail(s)) = Len(s) - 1
      /\ \A k \in 1 .. Len(Tail(s)) : Tail(s)[k] = s[k + 1]
  OBVIOUS
<1>3. \A t \in Seq(S) : t = <<>> <=> Len(t) = 0
  OBVIOUS
<1> QED BY <1>1, <1>2, <1>3

LEMMA DeselectStep ==
  ASSUME CallsAreCarriedOut, DeselectPeripheral
  PROVE  CallsAreCarriedOut'
<1>1. /\ pc = "deselect" /\ todo' = Tail(todo)
      /\ pc' = IF Tail(todo) = <<>> THEN "idle" ELSE "select"
      /\ selected' = FALSE /\ command' = <<>>
      /\ UNCHANGED <<memory, buffer, wanted, expected>>
      /\ BusOK /\ TypeOK /\ TodoOK /\ ReadsAreRight
  BY DEF DeselectPeripheral, CallsAreCarriedOut
<1>2. todo \in Seq(Transactions) /\ todo # <<>>
  BY <1>1, TodoFacts
<1>3. /\ todo' \in Seq(Transactions) /\ Len(todo') = Len(todo) - 1
      /\ \A k \in 1 .. Len(todo') : todo'[k] = todo[k + 1]
      /\ todo' = <<>> <=> Len(todo) = 1
      /\ Len(todo) \in Nat \ {0}
  BY <1>1, <1>2, TailFacts
<1>4. TypeOK'
  <2>1. command' \in Seq(Byte) /\ selected' \in BOOLEAN /\ pc' \in {"idle", "select"}
    BY <1>1, EmptySequence, Zenon
  <2>2. todo' \in Seq([command : Seq(Byte), payload : Seq(Byte), size : Nat])
    BY <1>3 DEF Transactions
  <2> QED BY <1>1, <2>1, <2>2 DEF TypeOK
<1>5. BusOK'
  <2>1. pc' = IF todo' = <<>> THEN "idle" ELSE "select"
    BY <1>1, Zenon
  <2>2. /\ pc' \in {"idle", "select"} /\ (pc' = "idle" <=> todo' = <<>>)
        /\ selected' = FALSE
    BY <1>1, <2>1, Zenon
  <2>3. pc' \notin {"command", "write", "read", "deselect"}
    BY <2>2
  <2> QED BY <2>2, <2>3, Zenon DEF BusOK
<1>6. \A k \in 1 .. Len(todo') : k + 1 \in 1 .. Len(todo) /\ k + 1 \in 2 .. Len(todo)
  BY <1>3
<1>7. TodoOK'
  <2> SUFFICES ASSUME NEW k \in 1 .. Len(todo')
               PROVE  /\ WellFormed(todo'[k])
                      /\ todo'[k].payload = <<>> => Len(todo') = 1
    BY DEF TodoOK
  <2>1. todo'[k] = todo[k + 1] /\ k + 1 \in 1 .. Len(todo)
    BY <1>3, <1>6
  <2>2. WellFormed(todo[k + 1]) /\ (todo[k + 1].payload = <<>> => Len(todo) = 1)
    BY <1>1, <2>1 DEF TodoOK
  <2>3. Len(todo) # 1
    BY <1>3
  <2> QED BY <2>1, <2>2, <2>3
<1>8. /\ Pending = 2 .. Len(todo) /\ Pending' = 1 .. Len(todo')
      /\ \A k \in Pending' : k + 1 \in Pending /\ todo'[k] = todo[k + 1]
      /\ \A k \in Pending : k - 1 \in Pending' /\ todo'[k - 1] = todo[k]
  <2>1. Pending = 2 .. Len(todo) /\ Pending' = 1 .. Len(todo')
    BY <1>1 DEF Pending
  <2>2. \A k \in 2 .. Len(todo) : k - 1 \in 1 .. Len(todo') /\ (k - 1) + 1 = k
    BY <1>3
  <2> QED BY <1>3, <1>6, <2>1, <2>2
<1>9. PendingBytesAreWanted'
  BY <1>1, <1>8 DEF CallsAreCarriedOut, PendingBytesAreWanted
<1>10. OtherCellsAreRight'
  <2> SUFFICES ASSUME NEW cell \in Cells,
                      \A k \in Pending' : \A i \in 1 .. Len(todo'[k].payload) :
                        CellOfByte(todo'[k].command, i) # cell
               PROVE  memory[cell] = wanted[cell]
    BY <1>1 DEF OtherCellsAreRight
  <2>1. \A k \in Pending : \A i \in 1 .. Len(todo[k].payload) :
          CellOfByte(todo[k].command, i) # cell
    BY <1>8
  <2> QED BY <2>1 DEF CallsAreCarriedOut, OtherCellsAreRight
<1>11. ReadsAreRight'
  <2>1. ~Reading /\ buffer = expected
    BY <1>1 DEF ReadsAreRight, Reading
  <2>2. todo' # <<>> => todo'[1].payload # <<>>
    <3> SUFFICES ASSUME todo' # <<>> PROVE todo'[1].payload # <<>>
      OBVIOUS
    <3>1. todo'[1] = todo[2] /\ 2 \in 1 .. Len(todo) /\ Len(todo) # 1
      BY <1>3
    <3> QED BY <1>1, <3>1 DEF TodoOK
  <2>3. ~Reading'
    BY <2>2 DEF Reading
  <2> QED BY <1>1, <2>1, <2>3 DEF ReadsAreRight
<1> QED BY <1>4, <1>5, <1>7, <1>9, <1>10, <1>11 DEF CallsAreCarriedOut

-----------------------------------------------------------------------------
(* The theorems.                                                           *)

LEMMA CallsAreCarriedOutInitially == Init => CallsAreCarriedOut
<1> SUFFICES ASSUME Init PROVE CallsAreCarriedOut
  OBVIOUS
<1>1. memory \in [Cells -> Byte] /\ memory = wanted
  BY DEF Init, Byte
<1>2. TypeOK
  <2>1. /\ todo \in Seq([command : Seq(Byte), payload : Seq(Byte), size : Nat])
        /\ command \in Seq(Byte) /\ buffer \in Seq(Byte) /\ expected \in Seq(Byte)
        /\ pc = "idle" /\ selected \in BOOLEAN
    BY EmptySequence, Zenon DEF Init
  <2> QED BY <1>1, <2>1 DEF TypeOK
<1>3. BusOK /\ ReadsAreRight
  <2>1. todo = <<>> /\ pc = "idle" /\ ~selected /\ buffer = expected
    BY DEF Init
  <2> QED BY <2>1 DEF BusOK, ReadsAreRight, Reading
<1>6. TodoOK
  BY DEF Init, TodoOK
<1>4. Pending = {}
  BY DEF Init, Pending
<1>5. PendingBytesAreWanted /\ OtherCellsAreRight
  BY <1>1, <1>4 DEF PendingBytesAreWanted, OtherCellsAreRight
<1> QED BY <1>2, <1>3, <1>5, <1>6 DEF CallsAreCarriedOut

LEMMA CallsStayCarriedOut ==
  ASSUME CallsAreCarriedOut, [Next]_vars
  PROVE  CallsAreCarriedOut'
<1>1. CASE \E address \in ShortRegisters \cup LongRegisters :
             \/ \E value \in Values : SetControlRegister(address, value)
             \/ ReadControlRegister(address)
  BY <1>1, SetControlRegisterStep, ReadControlRegisterStep
<1>2. CASE \E bytes \in Blocks :
             \/ \E address \in FifoAddresses : WriteBlockingToLongAddress(bytes, address)
             \/ \E address \in ShortRegisters : WriteBlockingToShortAddress(bytes, address)
  BY <1>2, WriteLongStep, WriteShortStep
<1>3. CASE \E address \in FifoAddresses, length \in {Len(block) : block \in Blocks} :
             ReadBlockingFromLongAddress(address, length)
  <2>1. {Len(block) : block \in Blocks} \subseteq Nat
    BY SpiAssumption
  <2> QED BY <1>3, <2>1, ReadLongStep
<1>4. CASE Transaction
  BY <1>4, SelectStep, WritePayloadStep, ReadPayloadStep, DeselectStep DEF Transaction
<1>5. CASE UNCHANGED vars
  BY <1>5 DEF vars, CallsAreCarriedOut, TypeOK, BusOK, TodoOK, PendingBytesAreWanted,
              OtherCellsAreRight, ReadsAreRight, Pending, Reading, Content
<1> QED BY <1>1, <1>2, <1>3, <1>4, <1>5 DEF Next

\* In every state of every call, what is left to be done leads to what is wanted.
THEOREM CallsAreAlwaysCarriedOut == Spec => []CallsAreCarriedOut
<1>1. CallsAreCarriedOut /\ [Next]_vars => CallsAreCarriedOut'
  BY CallsStayCarriedOut
<1> QED BY CallsAreCarriedOutInitially, <1>1, PTL DEF Spec

\* The variables keep their types.
THEOREM TypeIsKept == Spec => []TypeOK
<1>1. CallsAreCarriedOut => TypeOK
  BY DEF CallsAreCarriedOut
<1> QED BY CallsAreAlwaysCarriedOut, <1>1, PTL

\* Whatever the addresses, the values and the blocks: after a call the memory of
\* the chip differs from before by the bytes of the call at its address, and
\* nowhere else.
THEOREM WritesArrive == Spec => []MemoryIsWhatWasAskedFor
<1>1. CallsAreCarriedOut => MemoryIsWhatWasAskedFor
  BY IdleFacts DEF MemoryIsWhatWasAskedFor
<1> QED BY CallsAreAlwaysCarriedOut, <1>1, PTL

\* Whatever the addresses and the lengths: after a call the buffer holds what the
\* chip held at that address, and a call that writes leaves the buffer alone.
THEOREM ReadsReturnTheContent == Spec => []BufferIsWhatWasAskedFor
<1>1. CallsAreCarriedOut => BufferIsWhatWasAskedFor
  BY IdleFacts DEF BufferIsWhatWasAskedFor
<1> QED BY CallsAreAlwaysCarriedOut, <1>1, PTL

\* The chip is never left selected by a call or between two of its transactions.
THEOREM BusIsReleased == Spec => []BusIsFreeBetweenTransactions
<1>1. CallsAreCarriedOut => BusIsFreeBetweenTransactions
  BY DEF CallsAreCarriedOut, BusOK, BusIsFreeBetweenTransactions
<1> QED BY CallsAreAlwaysCarriedOut, <1>1, PTL

-----------------------------------------------------------------------------
(* The refinement.  A call is a Write or a Read, selecting and sending the *)
(* command are no step of the access, a payload is a Store or a Deliver,   *)
(* and the last deselecting is the Return.                                 *)

\* A call leaves the cells and the buffer alone when it starts.
LEMMA CallsOfAccess ==
  ASSUME NEW transactions, Call(transactions)
  PROVE  /\ pc = "idle" /\ pc' # "idle"
         /\ UNCHANGED <<memory, buffer>>
BY DEF Call

\* What has to be shown of a call that writes, and of one that reads.
LEMMA AccessWrite ==
  ASSUME CallsAreCarriedOut, NEW transactions, Call(transactions),
         NEW space, NEW address, NEW bytes,
         wanted' = Written(space, address, bytes), expected' = buffer
  PROVE  Access!Write
<1>1. pc = "idle" /\ pc' # "idle" /\ UNCHANGED <<memory, buffer>>
  BY CallsOfAccess
<1>2. expected' = expected
  BY <1>1, IdleFacts
<1>3. DOMAIN wanted' = DOMAIN memory
  BY DEF Written, CallsAreCarriedOut, TypeOK
<1> QED BY <1>1, <1>2, <1>3 DEF Access!Write

LEMMA AccessRead ==
  ASSUME CallsAreCarriedOut, NEW transactions, Call(transactions), wanted' = wanted,
         \A i \in 1 .. Len(expected') : \E cell \in Cells : expected'[i] = memory[cell]
  PROVE  Access!Read
<1>1. pc = "idle" /\ pc' # "idle" /\ UNCHANGED <<memory, buffer>>
  BY CallsOfAccess
<1>2. DOMAIN memory = Cells
  BY DEF CallsAreCarriedOut, TypeOK
<1> QED BY <1>1, <1>2 DEF Access!Read

\* Single registers.
LEMMA ControlRegistersAreAccessed ==
  ASSUME CallsAreCarriedOut, NEW address \in ShortRegisters \cup LongRegisters
  PROVE  /\ \A value \in Values : SetControlRegister(address, value) => Access!Write
         /\ ReadControlRegister(address) => Access!Read
<1>1. ASSUME NEW value \in Values, SetControlRegister(address, value)
      PROVE  Access!Write
  BY <1>1, AccessWrite DEF SetControlRegister
<1>2. ASSUME ReadControlRegister(address)
      PROVE  Access!Read
  <2>1. PICK cell : /\ cell = Cell(IF address \in ShortRegisters THEN "short" ELSE "long", address)
                    /\ expected' = <<memory[cell]>>
    BY <1>2 DEF ReadControlRegister
  <2>2. cell \in Cells
    BY <2>1 DEF Cell, Cells
  <2>3. \A i \in 1 .. Len(expected') : expected'[i] = memory[cell]
    BY <2>1
  <2> QED BY <1>2, <2>2, <2>3, AccessRead DEF ReadControlRegister
<1> QED BY <1>1, <1>2

\* Blocks that are read: every address of the block is a cell.
LEMMA BlocksAreAccessed ==
  ASSUME CallsAreCarriedOut, NEW address \in FifoAddresses, NEW length \in Nat,
         ReadBlockingFromLongAddress(address, length)
  PROVE  Access!Read
<1>1. address \in Nat
  BY Addresses
<1>2. Len(expected') = length
      /\ \A i \in 1 .. length : expected'[i] = memory[Cell("long", address + i - 1)]
  BY DEF ReadBlockingFromLongAddress
<1>3. ASSUME NEW i \in 1 .. length
      PROVE  Cell("long", address + i - 1) \in Cells
  <2>1. address + i - 1 \in address .. (address + length - 1)
    BY <1>1
  <2>2. address + i - 1 \in FifoAddresses
    BY <2>1 DEF ReadBlockingFromLongAddress, LongBlock
  <2> QED BY <2>2, Zenon DEF Cells, Cell
<1> QED BY <1>2, <1>3, AccessRead DEF ReadBlockingFromLongAddress

\* A transaction is a part of the access.
LEMMA TransactionsAreAccesses ==
  ASSUME CallsAreCarriedOut, Transaction
  PROVE  Access!Next \/ UNCHANGED Access!access
<1>1. CASE SelectPeripheral \/ WriteCommand
  <2>1. UNCHANGED <<memory, buffer, wanted, expected>> /\ pc # "idle" /\ pc' # "idle"
    BY <1>1 DEF SelectPeripheral, WriteCommand
  <2> QED BY <2>1 DEF Access!access
<1>2. CASE WritePayload
  <2>1. /\ pc = "write" /\ pc' = "deselect"
        /\ UNCHANGED <<buffer, wanted, expected>>
    BY <1>2 DEF WritePayload
  <2>2. 1 \in Pending
    BY <2>1, TodoFacts DEF Pending
  <2>3. DOMAIN memory = Cells /\ DOMAIN memory' = Cells
    BY <1>2, WrittenMemory DEF CallsAreCarriedOut, TypeOK
  <2>4. ASSUME NEW cell \in Cells
        PROVE  memory'[cell] \in {memory[cell], wanted[cell]}
    <3>1. CASE \E i \in 1 .. Len(todo[1].payload) : CellOfByte(todo[1].command, i) = cell
      BY <1>2, <2>2, <3>1, WrittenMemory DEF CallsAreCarriedOut, PendingBytesAreWanted
    <3>2. CASE \A i \in 1 .. Len(todo[1].payload) : CellOfByte(todo[1].command, i) # cell
      BY <1>2, <3>2, WrittenMemory
    <3> QED BY <3>1, <3>2
  <2>5. Access!Store
    BY <2>1, <2>3, <2>4 DEF Access!Store
  <2> QED BY <2>5 DEF Access!Next
<1>3. CASE ReadPayload
  <2>1. /\ pc = "read" /\ pc' = "deselect"
        /\ UNCHANGED <<memory, wanted, expected>>
    BY <1>3 DEF ReadPayload
  <2>2. CallsAreCarriedOut'
    BY <1>3, ReadPayloadStep
  <2>3. buffer' = expected
    BY <2>1, <2>2 DEF CallsAreCarriedOut, ReadsAreRight, Reading
  <2>4. Access!Deliver
    BY <2>1, <2>3 DEF Access!Deliver
  <2> QED BY <2>4 DEF Access!Next
<1>4. CASE DeselectPeripheral
  <2>1. pc = "deselect" /\ UNCHANGED <<memory, buffer, wanted, expected>>
    BY <1>4 DEF DeselectPeripheral
  <2>2. CASE pc' = "idle"
    <3>1. Tail(todo) = <<>>
      BY <1>4, <2>2 DEF DeselectPeripheral
    <3>2. todo \in Seq(Transactions) /\ todo # <<>>
      BY <2>1, TodoFacts
    <3>3. Len(todo) = 1
      BY <3>1, <3>2, TailFacts
    <3>4. Pending = {} /\ ~Reading
      BY <2>1, <3>3 DEF Pending, Reading
    <3>5. memory \in [Cells -> Byte] /\ wanted \in [Cells -> Byte]
      BY DEF CallsAreCarriedOut, TypeOK
    <3>6. \A cell \in Cells : memory[cell] = wanted[cell]
      BY <3>4 DEF CallsAreCarriedOut, OtherCellsAreRight
    <3>7. memory = wanted /\ buffer = expected
      BY <3>4, <3>5, <3>6 DEF CallsAreCarriedOut, ReadsAreRight
    <3>8. Access!Return
      BY <2>1, <2>2, <3>7 DEF Access!Return
    <3> QED BY <3>8 DEF Access!Next
  <2>3. CASE pc' # "idle"
    BY <2>1, <2>3 DEF Access!access
  <2> QED BY <2>2, <2>3
<1> QED BY <1>1, <1>2, <1>3, <1>4 DEF Transaction

\* Every step is a step of the access or none.
LEMMA StepsImplementAccess ==
  ASSUME CallsAreCarriedOut, [Next]_vars
  PROVE  [Access!Next]_(Access!access)
<1>1. CASE \E address \in ShortRegisters \cup LongRegisters :
             \/ \E value \in Values : SetControlRegister(address, value)
             \/ ReadControlRegister(address)
  BY <1>1, ControlRegistersAreAccessed DEF Access!Next
<1>2. CASE \E bytes \in Blocks :
             \/ \E address \in FifoAddresses : WriteBlockingToLongAddress(bytes, address)
             \/ \E address \in ShortRegisters : WriteBlockingToShortAddress(bytes, address)
  <2>1. Access!Write
    BY <1>2, AccessWrite DEF WriteBlockingToLongAddress, WriteBlockingToShortAddress
  <2> QED BY <2>1 DEF Access!Next
<1>3. CASE \E address \in FifoAddresses, length \in {Len(block) : block \in Blocks} :
             ReadBlockingFromLongAddress(address, length)
  <2>1. {Len(block) : block \in Blocks} \subseteq Nat
    BY SpiAssumption
  <2>2. Access!Read
    BY <1>3, <2>1, BlocksAreAccessed
  <2> QED BY <2>2 DEF Access!Next
<1>4. CASE Transaction
  BY <1>4, TransactionsAreAccesses
<1>5. CASE UNCHANGED vars
  BY <1>5 DEF vars, Access!access
<1> QED BY <1>1, <1>2, <1>3, <1>4, <1>5 DEF Next

\* Every call of MrfIo, whatever it reads or writes and in however many
\* transactions, is one access to the chip: it starts, moves bytes between the
\* cells and the caller in no other way than it was asked to, and returns when it
\* is complete.
THEOREM AccessIsImplemented == Spec => CallsImplementAccess
<1>1. Init => Access!Init
  BY DEF Init, Access!Init
<1>2. CallsAreCarriedOut /\ [Next]_vars => [Access!Next]_(Access!access)
  BY StepsImplementAccess
<1> QED BY CallsAreAlwaysCarriedOut, <1>1, <1>2, PTL DEF Spec, CallsImplementAccess, Access!Spec

=============================================================================
