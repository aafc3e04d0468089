-------------------------- MODULE MrfRegisters_proofs --------------------------
(***************************************************************************)
(* What the SPI commands of MrfIo.c address, and what the sequence of      *)
(* transactions of reconfigure leaves in the registers of the chip.        *)
(***************************************************************************)
EXTENDS MrfRegisters, TLAPS

-----------------------------------------------------------------------------
(* What the chip makes of the commands.                                    *)

\* The bits of a long command.
LEMMA LongCommandValue ==
  ASSUME NEW address \in LongAddress
  PROVE  /\ MRF_readLongCommand(address) = 32768 + 32 * address
         /\ MRF_writeLongCommand(address) = 32784 + 32 * address
BY DEF LongAddress, MRF_readLongCommand, MRF_writeLongCommand, uint16

LEMMA LongWord ==
  ASSUME NEW address \in LongAddress, NEW low \in {0, 16},
         NEW first, NEW second,
         first = (32768 + low + 32 * address) \div 256,
         second = (32768 + low + 32 * address) % 256
  PROVE  /\ first \in 128 .. 255
         /\ second \in 0 .. 255
         /\ ((first % 128) * 256 + second) \div 32 = address
         /\ (second \div 16) % 2 = low \div 16
BY DEF LongAddress

\* Every address of the long space is found again in the two bytes.
LEMMA LongCommands ==
  ASSUME NEW address \in LongAddress
  PROVE  /\ setWriteLongCommand(address) \in Seq(Byte)
         /\ setReadLongCommand(address) \in Seq(Byte)
         /\ IsLongCommand(setWriteLongCommand(address))
         /\ IsLongCommand(setReadLongCommand(address))
         /\ CommandAddress(setWriteLongCommand(address)) = address
         /\ CommandAddress(setReadLongCommand(address)) = address
         /\ IsWriteCommand(setWriteLongCommand(address))
         /\ ~IsWriteCommand(setReadLongCommand(address))
<1>1. PICK w1, w2 : /\ setWriteLongCommand(address) = <<w1, w2>>
                    /\ w1 = (32784 + 32 * address) \div 256
                    /\ w2 = (32784 + 32 * address) % 256
  BY LongCommandValue DEF setWriteLongCommand, FirstByte, SecondByte, uint8
<1>2. PICK r1, r2 : /\ setReadLongCommand(address) = <<r1, r2>>
                    /\ r1 = (32768 + 32 * address) \div 256
                    /\ r2 = (32768 + 32 * address) % 256
  BY LongCommandValue DEF setReadLongCommand, FirstByte, SecondByte, uint8
<1>3. /\ w1 \in 128 .. 255 /\ w2 \in 0 .. 255
      /\ ((w1 % 128) * 256 + w2) \div 32 = address
      /\ (w2 \div 16) % 2 = 1
  <2>1. /\ w1 = (32768 + 16 + 32 * address) \div 256
        /\ w2 = (32768 + 16 + 32 * address) % 256
    BY <1>1 DEF LongAddress
  <2> QED BY <2>1, LongWord
<1>4. /\ r1 \in 128 .. 255 /\ r2 \in 0 .. 255
      /\ ((r1 % 128) * 256 + r2) \div 32 = address
      /\ (r2 \div 16) % 2 = 0
  <2>1. /\ r1 = (32768 + 0 + 32 * address) \div 256
        /\ r2 = (32768 + 0 + 32 * address) % 256
    BY <1>2 DEF LongAddress
  <2> QED BY <2>1, LongWord
<1>5. <<w1, w2>> \in Seq(Byte) /\ <<r1, r2>> \in Seq(Byte)
  BY <1>3, <1>4 DEF Byte
<1>6. /\ IsLongCommand(<<w1, w2>>) /\ IsLongCommand(<<r1, r2>>)
      /\ CommandAddress(<<w1, w2>>) = address /\ CommandAddress(<<r1, r2>>) = address
      /\ IsWriteCommand(<<w1, w2>>) /\ ~IsWriteCommand(<<r1, r2>>)
  BY <1>3, <1>4 DEF IsLongCommand, CommandAddress, IsWriteCommand
<1> QED BY <1>1, <1>2, <1>5, <1>6

\* Every address of the short space is found again in the byte.
LEMMA ShortCommands ==
  ASSUME NEW address \in 0 .. LastShortControlRegisterAddress
  PROVE  /\ setWriteShortCommand(address) \in Seq(Byte)
         /\ setReadShortCommand(address) \in Seq(Byte)
         /\ ~IsLongCommand(setWriteShortCommand(address))
         /\ ~IsLongCommand(setReadShortCommand(address))
         /\ CommandAddress(setWriteShortCommand(address)) = address
         /\ CommandAddress(setReadShortCommand(address)) = address
         /\ IsWriteCommand(setWriteShortCommand(address))
         /\ ~IsWriteCommand(setReadShortCommand(address))
<1>1. PICK w, r : /\ setWriteShortCommand(address) = <<w>> /\ w = 2 * address + 1
                  /\ setReadShortCommand(address) = <<r>> /\ r = 2 * address
  BY DEF setWriteShortCommand, setReadShortCommand, MRF_writeShortCommand,
         MRF_readShortCommand, uint8, LastShortControlRegisterAddress
<1>2. /\ w \in Byte /\ w < 128 /\ w \div 2 = address /\ w % 2 = 1
      /\ r \in Byte /\ r < 128 /\ r \div 2 = address /\ r % 2 = 0
  BY <1>1 DEF Byte, LastShortControlRegisterAddress
<1>3. <<w>> \in Seq(Byte) /\ <<r>> \in Seq(Byte)
  BY <1>2
<1>4. /\ ~IsLongCommand(<<w>>) /\ ~IsLongCommand(<<r>>)
      /\ CommandAddress(<<w>>) = address /\ CommandAddress(<<r>>) = address
      /\ IsWriteCommand(<<w>>) /\ ~IsWriteCommand(<<r>>)
  BY <1>2 DEF IsLongCommand, CommandAddress, IsWriteCommand, Byte
<1> QED BY <1>1, <1>3, <1>4

\* Command bytes of the two kinds.
Commands == {c \in Seq(Byte) : \/ Len(c) = 1 /\ c[1] < 128
                               \/ Len(c) = 2 /\ c[1] >= 128}

LEMMA CommandsAreCommands ==
  /\ \A a \in 0 .. 63 : /\ setReadShortCommand(a) \in Commands
                        /\ setWriteShortCommand(a) \in Commands
  /\ \A a \in LongAddress : /\ setReadLongCommand(a) \in Commands
                            /\ setWriteLongCommand(a) \in Commands
<1>1. ASSUME NEW a \in 0 .. 63
      PROVE  setReadShortCommand(a) \in Commands /\ setWriteShortCommand(a) \in Commands
  <2>1. /\ setReadShortCommand(a) \in Seq(Byte) /\ ~IsLongCommand(setReadShortCommand(a))
        /\ setWriteShortCommand(a) \in Seq(Byte) /\ ~IsLongCommand(setWriteShortCommand(a))
    BY ShortCommands DEF LastShortControlRegisterAddress
  <2>2. Len(setReadShortCommand(a)) = 1 /\ Len(setWriteShortCommand(a)) = 1
    BY DEF setReadShortCommand, setWriteShortCommand
  <2>3. \A c \in Seq(Byte) : Len(c) = 1 /\ ~IsLongCommand(c) => c \in Commands
    <3>1. \A x \in Byte : x >= 128 \/ x < 128
      BY DEF Byte
    <3>2. \A c \in Seq(Byte) : Len(c) = 1 => c[1] \in Byte
      OBVIOUS
    <3> QED BY <3>1, <3>2 DEF Commands, IsLongCommand
  <2> QED BY <2>1, <2>2, <2>3, Zenon
<1>2. ASSUME NEW a \in LongAddress
      PROVE  setReadLongCommand(a) \in Commands /\ setWriteLongCommand(a) \in Commands
  <2>1. /\ setReadLongCommand(a) \in Seq(Byte) /\ IsLongCommand(setReadLongCommand(a))
        /\ setWriteLongCommand(a) \in Seq(Byte) /\ IsLongCommand(setWriteLongCommand(a))
    BY LongCommands
  <2>2. Len(setReadLongCommand(a)) = 2 /\ Len(setWriteLongCommand(a)) = 2
    BY DEF setReadLongCommand, setWriteLongCommand
  <2>3. \A c \in Seq(Byte) : Len(c) = 2 /\ IsLongCommand(c) => c \in Commands
    BY DEF Commands, IsLongCommand
  <2> QED BY <2>1, <2>2, <2>3, Zenon
<1> QED BY <1>1, <1>2

WriteCommands == {c \in Commands : IsWriteCommand(c)}

-----------------------------------------------------------------------------
(* What a sequence of transactions, each of one byte, leaves in a cell.    *)

ByteWrites == [command : WriteCommands, payload : [1 .. 1 -> Byte], size : Nat]

WrittenCell(t)  == CellOfByte(t.command, 1)
WrittenValue(t) == t.payload[1]

ResetCell == Cell("short", mrf_register_software_reset)

Resets(t) == WrittenCell(t) = ResetCell /\ WrittenValue(t) = mrf_value_full_software_reset

\* No transaction of `s' writes the cell `c' or resets the chip.
Spares(s, c) ==
  \A i \in 1 .. Len(s) : WrittenCell(s[i]) # c /\ WrittenCell(s[i]) # ResetCell

\* The last transaction of `s' that has to do with the cell `c' writes `v' to it.
Settles(s, c, v) ==
  \E i \in 1 .. Len(s) :
    /\ WrittenCell(s[i]) = c
    /\ WrittenValue(s[i]) = v
    /\ \A j \in (i + 1) .. Len(s) : WrittenCell(s[j]) # c /\ WrittenCell(s[j]) # ResetCell

\* All cells of a set of pairs of cell and value.
SettlesAll(s, pairs) == \A w \in pairs : Settles(s, w[1], w[2])
SparesAll(s, pairs)  == \A w \in pairs : Spares(s, w[1])

\* The elements of a concatenation.
LEMMA Concatenation ==
  ASSUME NEW s \in Seq(ByteWrites), NEW t \in Seq(ByteWrites)
  PROVE  /\ s \o t \in Seq(ByteWrites)
         /\ Len(s \o t) = Len(s) + Len(t)
         /\ Len(s) \in Nat /\ Len(t) \in Nat
         /\ \A i \in 1 .. Len(s) : (s \o t)[i] = s[i]
         /\ \A i \in 1 .. Len(t) : (s \o t)[Len(s) + i] = t[i]
OBVIOUS

\* What is settled at the end of a sequence is settled by it.
LEMMA SettledLater ==
  ASSUME NEW s \in Seq(ByteWrites), NEW t \in Seq(ByteWrites), NEW c, NEW v,
         Settles(t, c, v)
  PROVE  Settles(s \o t, c, v)
<1>1. PICK i \in 1 .. Len(t) :
        /\ WrittenCell(t[i]) = c
        /\ WrittenValue(t[i]) = v
        /\ \A j \in (i + 1) .. Len(t) : WrittenCell(t[j]) # c /\ WrittenCell(t[j]) # ResetCell
  BY DEF Settles
<1> DEFINE both == s \o t
           k == Len(s) + i
<1>2. /\ k \in 1 .. Len(both) /\ both[k] = t[i]
      /\ \A j \in (k + 1) .. Len(both) :
           j - Len(s) \in (i + 1) .. Len(t) /\ both[j] = t[j - Len(s)]
  <2>1. /\ Len(both) = Len(s) + Len(t) /\ Len(s) \in Nat /\ Len(t) \in Nat
        /\ \A n \in 1 .. Len(t) : both[Len(s) + n] = t[n]
    BY Concatenation
  <2> HIDE DEF both
  <2>2. k \in 1 .. Len(both) /\ both[k] = t[i]
    BY <2>1
  <2>3. ASSUME NEW j \in (k + 1) .. Len(both)
        PROVE  j - Len(s) \in (i + 1) .. Len(t) /\ both[j] = t[j - Len(s)]
    <3>1. j - Len(s) \in (i + 1) .. Len(t) /\ j = Len(s) + (j - Len(s))
      BY <2>1
    <3> QED BY <2>1, <3>1
  <2> QED BY <2>2, <2>3
<1> HIDE DEF both, k
<1>3. /\ WrittenCell(both[k]) = c
      /\ WrittenValue(both[k]) = v
      /\ \A j \in (k + 1) .. Len(both) :
           WrittenCell(both[j]) # c /\ WrittenCell(both[j]) # ResetCell
  BY <1>1, <1>2
<1> QED BY <1>2, <1>3 DEF Settles, both

\* What is settled stays so when the rest spares it.
LEMMA SettledBefore ==
  ASSUME NEW s \in Seq(ByteWrites), NEW t \in Seq(ByteWrites), NEW c, NEW v,
         Settles(s, c, v), Spares(t, c)
  PROVE  Settles(s \o t, c, v)
<1>1. PICK i \in 1 .. Len(s) :
        /\ WrittenCell(s[i]) = c
        /\ WrittenValue(s[i]) = v
        /\ \A j \in (i + 1) .. Len(s) : WrittenCell(s[j]) # c /\ WrittenCell(s[j]) # ResetCell
  BY DEF Settles
<1> DEFINE both == s \o t
<1>2. /\ Len(both) = Len(s) + Len(t) /\ Len(s) \in Nat /\ Len(t) \in Nat
      /\ \A n \in 1 .. Len(s) : both[n] = s[n]
      /\ \A n \in 1 .. Len(t) : both[Len(s) + n] = t[n]
  BY Concatenation
<1> HIDE DEF both
<1>3. i \in 1 .. Len(both) /\ both[i] = s[i]
  BY <1>2
<1>4. ASSUME NEW j \in (i + 1) .. Len(both)
      PROVE  WrittenCell(both[j]) # c /\ WrittenCell(both[j]) # ResetCell
  <2>1. CASE j <= Len(s)
    <3>1. j \in (i + 1) .. Len(s) /\ j \in 1 .. Len(s)
      BY <1>2, <2>1
    <3> QED BY <1>1, <1>2, <3>1
  <2>2. CASE j > Len(s)
    <3>1. j - Len(s) \in 1 .. Len(t) /\ j = Len(s) + (j - Len(s))
      BY <1>2, <2>2
    <3>2. both[j] = t[j - Len(s)]
      BY <1>2, <3>1
    <3> QED BY <3>1, <3>2 DEF Spares
  <2> QED BY <1>2, <2>1, <2>2
<1> QED BY <1>1, <1>3, <1>4 DEF Settles, both

\* One more part of a sequence.
LEMMA SettledParts ==
  ASSUME NEW s \in Seq(ByteWrites), NEW t \in Seq(ByteWrites), NEW A, NEW B,
         SettlesAll(s, A), SettlesAll(t, B), SparesAll(t, A)
  PROVE  SettlesAll(s \o t, A \cup B)
BY SettledLater, SettledBefore DEF SettlesAll, SparesAll

\* When the transactions `s' are done on registers of content `f', the cell `c' will
\* hold `v'.
Owes(s, f, c, v) == Settles(s, c, v) \/ (Spares(s, c) /\ f[c] = v)

\* The registers after the transaction `t'.
AfterTransaction(f, t) ==
  IF Resets(t) THEN [r \in ControlRegisters |-> 0]
               ELSE [f EXCEPT ![WrittenCell(t)] = WrittenValue(t)]

\* What a sequence owes to a cell it still owes once its first transaction is done.
LEMMA OneTransactionLess ==
  ASSUME NEW s \in Seq(ByteWrites), s # <<>>, NEW c \in ControlRegisters, c # ResetCell,
         NEW v, NEW f \in [ControlRegisters -> Byte],
         Owes(s, f, c, v)
  PROVE  Owes(Tail(s), AfterTransaction(f, Head(s)), c, v)
<1> DEFINE t == Tail(s)
           g == AfterTransaction(f, Head(s))
<1>0. /\ g = IF Resets(Head(s)) THEN [r \in ControlRegisters |-> 0]
                   ELSE [f EXCEPT ![WrittenCell(Head(s))] = WrittenValue(Head(s))]
      /\ Settles(s, c, v) \/ (Spares(s, c) /\ f[c] = v)
  BY DEF AfterTransaction, Owes
<1> SUFFICES Settles(t, c, v) \/ (Spares(t, c) /\ g[c] = v)
  BY DEF Owes
<1> HIDE DEF g
<1>1. /\ Len(s) \in Nat /\ Len(s) >= 1 /\ Len(t) = Len(s) - 1 /\ Head(s) = s[1]
      /\ \A n \in 1 .. Len(t) : t[n] = s[n + 1]
  OBVIOUS
<1> HIDE DEF t
<1>2. CASE Spares(s, c) /\ f[c] = v
  <2>1. /\ \A n \in 1 .. Len(t) : WrittenCell(t[n]) # c /\ WrittenCell(t[n]) # ResetCell
        /\ WrittenCell(s[1]) # c /\ WrittenCell(s[1]) # ResetCell
    <3>1. \A n \in 1 .. Len(t) : n + 1 \in 1 .. Len(s) /\ t[n] = s[n + 1]
      BY <1>1
    <3> QED BY <1>1, <1>2, <3>1 DEF Spares
  <2>2. g[c] = v
    BY <1>0, <1>1, <1>2, <2>1 DEF Resets
  <2> QED BY <2>1, <2>2 DEF Spares, t
<1>3. CASE Settles(s, c, v)
  <2>1. PICK i \in 1 .. Len(s) :
          /\ WrittenCell(s[i]) = c
          /\ WrittenValue(s[i]) = v
          /\ \A j \in (i + 1) .. Len(s) :
               WrittenCell(s[j]) # c /\ WrittenCell(s[j]) # ResetCell
    BY <1>3 DEF Settles
  <2>2. CASE i = 1
    <3>1. \A n \in 1 .. Len(t) : n + 1 \in 2 .. Len(s) /\ t[n] = s[n + 1]
      BY <1>1
    <3>2. Spares(t, c)
      BY <2>1, <2>2, <3>1 DEF Spares
    <3>3. g[c] = v
      BY <1>0, <1>1, <2>1, <2>2 DEF Resets
    <3> QED BY <3>2, <3>3 DEF t
  <2>3. CASE i # 1
    <3>1. i - 1 \in 1 .. Len(t) /\ t[i - 1] = s[i]
      <4>1. i - 1 \in 1 .. Len(t) /\ (i - 1) + 1 = i
        BY <1>1, <2>3
      <4> QED BY <1>1, <4>1
    <3>2. \A j \in ((i - 1) + 1) .. Len(t) : j + 1 \in (i + 1) .. Len(s) /\ t[j] = s[j + 1]
      BY <1>1, <3>1
    <3>3. \A j \in ((i - 1) + 1) .. Len(t) :
            WrittenCell(t[j]) # c /\ WrittenCell(t[j]) # ResetCell
      BY <2>1, <3>2
    <3> QED BY <2>1, <3>1, <3>3 DEF Settles, t
  <2> QED BY <2>2, <2>3
<1> QED BY <1>0, <1>2, <1>3

-----------------------------------------------------------------------------
(* The parts of reconfigure.                                               *)

\* A sequence of `n' transactions.
HasLength(s, n) == s \in Seq(ByteWrites) /\ n \in Nat /\ Len(s) = n

LEMMA Joined ==
  ASSUME NEW s, NEW t, NEW n, NEW m, HasLength(s, n), HasLength(t, m)
  PROVE  HasLength(s \o t, n + m)
<1>1. s \in Seq(ByteWrites) /\ t \in Seq(ByteWrites)
  BY DEF HasLength
<1>2. s \o t \in Seq(ByteWrites) /\ Len(s \o t) = Len(s) + Len(t)
  BY <1>1, Concatenation, Zenon
<1> QED BY <1>2 DEF HasLength

\* One byte goes to a short or a long address.
LEMMA OneByte ==
  ASSUME NEW address \in LongAddress, NEW value \in Byte
  PROVE  LET t == writeBlockingWithCommand(setWriteShortCommand(address), <<value>>)
             l == writeBlockingWithCommand(setWriteLongCommand(address), <<value>>)
         IN /\ WrittenValue(t) = value
            /\ ~isLongAddress(address) =>
                 t \in ByteWrites /\ WrittenCell(t) = Cell("short", address)
            /\ l \in ByteWrites /\ WrittenValue(l) = value
            /\ WrittenCell(l) = Cell("long", address)
<1> DEFINE t == writeBlockingWithCommand(setWriteShortCommand(address), <<value>>)
           l == writeBlockingWithCommand(setWriteLongCommand(address), <<value>>)
<1>1. <<value>> \in [1 .. 1 -> Byte] /\ Len(<<value>>) \in Nat
  OBVIOUS
<1>2. ~isLongAddress(address) => setWriteShortCommand(address) \in WriteCommands
  <2> SUFFICES ASSUME ~isLongAddress(address) PROVE setWriteShortCommand(address) \in WriteCommands
    OBVIOUS
  <2>1. address \in 0 .. 63 /\ address \in 0 .. LastShortControlRegisterAddress
    BY DEF isLongAddress, LastShortControlRegisterAddress, LongAddress
  <2> QED BY <2>1, CommandsAreCommands, ShortCommands, Zenon DEF WriteCommands
<1>3. setWriteLongCommand(address) \in WriteCommands
  BY CommandsAreCommands, LongCommands, Zenon DEF WriteCommands
<1> HIDE DEF WriteCommands
<1>4. (~isLongAddress(address) => t \in ByteWrites) /\ l \in ByteWrites
  BY <1>1, <1>2, <1>3 DEF ByteWrites, writeBlockingWithCommand
<1>5. /\ WrittenValue(t) = value /\ WrittenValue(l) = value
      /\ t.command = setWriteShortCommand(address)
      /\ l.command = setWriteLongCommand(address)
  BY DEF WrittenValue, writeBlockingWithCommand
<1>6. ~isLongAddress(address) => WrittenCell(t) = Cell("short", address)
  <2> SUFFICES ASSUME ~isLongAddress(address) PROVE WrittenCell(t) = Cell("short", address)
    OBVIOUS
  <2>1. address \in 0 .. LastShortControlRegisterAddress
    BY DEF isLongAddress, LastShortControlRegisterAddress, LongAddress
  <2>2. /\ ~IsLongCommand(setWriteShortCommand(address))
        /\ CommandAddress(setWriteShortCommand(address)) = address
    BY <2>1, ShortCommands
  <2> QED BY <1>5, <2>2, Zenon DEF WrittenCell, CellOfByte
<1>7. WrittenCell(l) = Cell("long", address)
  <2>1. /\ IsLongCommand(setWriteLongCommand(address))
        /\ CommandAddress(setWriteLongCommand(address)) = address
    BY LongCommands
  <2>2. WrittenCell(l) = Cell("long", address + 1 - 1)
    BY <1>5, <2>1, Zenon DEF WrittenCell, CellOfByte
  <2> QED BY <2>2 DEF LongAddress
<1> QED BY <1>4, <1>5, <1>6, <1>7

\* A register is written in one transaction.
LEMMA RegisterWrite ==
  ASSUME NEW address \in LongAddress, NEW value \in Byte
  PROVE  LET s == MrfIo_setControlRegister(address, value)
         IN /\ s \in Seq(ByteWrites)
            /\ Len(s) = 1
            /\ WrittenCell(s[1])
                 = Cell(IF isLongAddress(address) THEN "long" ELSE "short", address)
            /\ WrittenValue(s[1]) = value
<1> DEFINE t == writeBlockingWithCommand(setWriteShortCommand(address), <<value>>)
           l == writeBlockingWithCommand(setWriteLongCommand(address), <<value>>)
           w == IF isLongAddress(address) THEN l ELSE t
<1>1. /\ WrittenValue(t) = value
      /\ ~isLongAddress(address) =>
           t \in ByteWrites /\ WrittenCell(t) = Cell("short", address)
      /\ l \in ByteWrites /\ WrittenValue(l) = value
      /\ WrittenCell(l) = Cell("long", address)
  BY OneByte
<1>2. MrfIo_setControlRegister(address, value) = <<w>>
  BY Zenon DEF MrfIo_setControlRegister
<1> HIDE DEF t, l
<1>3. /\ w \in ByteWrites
      /\ WrittenCell(w) = Cell(IF isLongAddress(address) THEN "long" ELSE "short", address)
      /\ WrittenValue(w) = value
  BY <1>1
<1> HIDE DEF w
<1>4. <<w>> \in Seq(ByteWrites) /\ Len(<<w>>) = 1 /\ <<w>>[1] = w
  BY <1>3
<1> QED BY <1>2, <1>3, <1>4

\* The cells from `address' on, and the bytes of an address that belong there.
BlockCells(address, bytes, n) == {<<Cell("short", address + i), bytes[i]>> : i \in 0 .. (n - 1)}

\* A block goes to short addresses byte by byte.
LEMMA BlockWrite ==
  ASSUME NEW address \in Nat, NEW n \in Nat, address + n <= LastShortControlRegisterAddress,
         NEW bytes \in [0 .. (n - 1) -> Byte]
  PROVE  LET s == MrfIo_writeBlockingToShortAddress(AddressBytes(bytes, n), address)
         IN /\ s \in Seq(ByteWrites)
            /\ Len(s) = n
            /\ \A i \in 1 .. n : /\ WrittenCell(s[i]) = Cell("short", address + i - 1)
                                 /\ WrittenValue(s[i]) = bytes[i - 1]
<1> DEFINE block == AddressBytes(bytes, n)
           transaction(i) ==
             writeBlockingWithCommand(setWriteShortCommand(uint8(address + i - 1)), <<block[i]>>)
<1>1. /\ Len(block) = n
      /\ \A i \in 1 .. n : block[i] = bytes[i - 1]
  BY DEF AddressBytes
<1> HIDE DEF block
<1>2. ASSUME NEW i \in 1 .. n
      PROVE  /\ transaction(i) \in ByteWrites
             /\ WrittenCell(transaction(i)) = Cell("short", address + i - 1)
             /\ WrittenValue(transaction(i)) = bytes[i - 1]
  <2> DEFINE a == address + i - 1
  <2>1. uint8(a) = a /\ a \in LongAddress /\ ~isLongAddress(a)
    BY DEF uint8, LongAddress, isLongAddress, LastShortControlRegisterAddress
  <2>2. block[i] = bytes[i - 1] /\ bytes[i - 1] \in Byte
    <3>1. i - 1 \in 0 .. (n - 1)
      OBVIOUS
    <3> QED BY <1>1, <3>1
  <2>3. transaction(i) = writeBlockingWithCommand(setWriteShortCommand(a), <<bytes[i - 1]>>)
    BY <2>1, <2>2
  <2> HIDE DEF a, transaction
  <2>4. /\ transaction(i) \in ByteWrites
        /\ WrittenCell(transaction(i)) = Cell("short", a)
        /\ WrittenValue(transaction(i)) = bytes[i - 1]
    BY <2>1, <2>2, <2>3, OneByte
  <2> QED BY <2>4 DEF a
<1> DEFINE s == [i \in 1 .. n |-> transaction(i)]
<1>3. MrfIo_writeBlockingToShortAddress(block, address) = s
  BY <1>1 DEF MrfIo_writeBlockingToShortAddress
<1> HIDE DEF transaction
<1>4. s \in Seq(ByteWrites) /\ Len(s) = n
  BY <1>2
<1>5. \A i \in 1 .. n : s[i] = transaction(i)
  OBVIOUS
<1> HIDE DEF s
<1> QED BY <1>2, <1>3, <1>4, <1>5 DEF block

\* A block settles its cells and spares the others.
LEMMA BlockSettles ==
  ASSUME NEW address \in Nat, NEW n \in Nat, address + n <= LastShortControlRegisterAddress,
         NEW bytes \in [0 .. (n - 1) -> Byte],
         address + n <= mrf_register_software_reset
  PROVE  LET s == MrfIo_writeBlockingToShortAddress(AddressBytes(bytes, n), address)
         IN /\ SettlesAll(s, BlockCells(address, bytes, n))
            /\ \A c : (\A i \in 0 .. (n - 1) : c # Cell("short", address + i)) => Spares(s, c)
<1> DEFINE s == MrfIo_writeBlockingToShortAddress(AddressBytes(bytes, n), address)
<1>1. /\ Len(s) = n
      /\ \A i \in 1 .. n : /\ WrittenCell(s[i]) = Cell("short", address + i - 1)
                           /\ WrittenValue(s[i]) = bytes[i - 1]
  BY BlockWrite
<1> HIDE DEF s
<1>2. \A i \in 1 .. n : WrittenCell(s[i]) # ResetCell
  BY <1>1 DEF ResetCell, Cell, mrf_register_software_reset
<1>3. ASSUME NEW k \in 0 .. (n - 1)
      PROVE  Settles(s, Cell("short", address + k), bytes[k])
  <2>1. /\ k + 1 \in 1 .. Len(s)
        /\ address + (k + 1) - 1 = address + k
        /\ (k + 1) - 1 = k
    BY <1>1
  <2>2. /\ WrittenCell(s[k + 1]) = Cell("short", address + k)
        /\ WrittenValue(s[k + 1]) = bytes[k]
    <3>1. /\ WrittenCell(s[k + 1]) = Cell("short", address + (k + 1) - 1)
          /\ WrittenValue(s[k + 1]) = bytes[(k + 1) - 1]
      BY <1>1, <2>1
    <3> QED BY <2>1, <3>1
  <2>3. ASSUME NEW j \in ((k + 1) + 1) .. Len(s)
        PROVE  WrittenCell(s[j]) # Cell("short", address + k) /\ WrittenCell(s[j]) # ResetCell
    <3>1. j \in 1 .. n /\ address + j - 1 # address + k
      BY <1>1
    <3> QED BY <1>1, <1>2, <3>1 DEF Cell
  <2> QED BY <2>1, <2>2, <2>3 DEF Settles
<1>4. SettlesAll(s, BlockCells(address, bytes, n))
  <2> SUFFICES ASSUME NEW w \in BlockCells(address, bytes, n) PROVE Settles(s, w[1], w[2])
    BY DEF SettlesAll
  <2>1. PICK i \in 0 .. (n - 1) : w = <<Cell("short", address + i), bytes[i]>>
    BY DEF BlockCells
  <2>2. w[1] = Cell("short", address + i) /\ w[2] = bytes[i]
    BY <2>1
  <2> QED BY <1>3, <2>2
<1>5. ASSUME NEW c, \A i \in 0 .. (n - 1) : c # Cell("short", address + i)
      PROVE  Spares(s, c)
  <2>1. ASSUME NEW i \in 1 .. Len(s) PROVE WrittenCell(s[i]) # c
    <3>1. i - 1 \in 0 .. (n - 1) /\ address + i - 1 = address + (i - 1) /\ i \in 1 .. n
      BY <1>1
    <3> QED BY <1>1, <1>5, <3>1
  <2> QED BY <1>1, <1>2, <2>1 DEF Spares
<1> QED BY <1>4, <1>5 DEF s

\* One register write as a part of a longer sequence.
LEMMA RegisterWriteLength ==
  ASSUME NEW address \in LongAddress, NEW value \in Byte
  PROVE  HasLength(MrfIo_setControlRegister(address, value), 1)
BY RegisterWrite DEF HasLength

LEMMA InitialValues == HasLength(setInitializationValuesFromDatasheet, 12)
<1> DEFINE w1 == MrfIo_setControlRegister(mrf_register_power_amplifier_control2, power_amplifier_control2_value)
           w2 == MrfIo_setControlRegister(mrf_register_tx_stabilization, 149)
           w3 == MrfIo_setControlRegister(mrf_register_rf_control0, 3)
           w4 == MrfIo_setControlRegister(mrf_register_rf_control1, 1)
           w5 == MrfIo_setControlRegister(mrf_register_rf_control2, 128)
           w6 == MrfIo_setControlRegister(mrf_register_rf_control6, 144)
           w7 == MrfIo_setControlRegister(mrf_register_rf_control7, 128)
           w8 == MrfIo_setControlRegister(mrf_register_rf_control8, 16)
           w9 == MrfIo_setControlRegister(mrf_register_sleep_clock_control1, 33)
           w10 == MrfIo_setControlRegister(mrf_register_base_band2, 128)
           w11 == MrfIo_setControlRegister(mrf_register_energy_detection_threshold, 96)
           w12 == MrfIo_setControlRegister(mrf_register_base_band6, 64)
           Write(w) == HasLength(w, 1)
<1>0. \A address \in LongAddress, value \in Byte : Write(MrfIo_setControlRegister(address, value))
  BY RegisterWriteLength
<1>1. Write(w1) /\ Write(w2) /\ Write(w3)
  <2>1. /\ mrf_register_power_amplifier_control2 \in LongAddress /\ power_amplifier_control2_value \in Byte
        /\ mrf_register_tx_stabilization \in LongAddress /\ 149 \in Byte
        /\ mrf_register_rf_control0 \in LongAddress /\ 3 \in Byte
    BY DEF LongAddress, Byte, mrf_register_power_amplifier_control2,
       mrf_register_tx_stabilization,
       mrf_register_rf_control0, power_amplifier_control2_value, uint8
  <2> HIDE DEF Write
  <2> QED BY <1>0, <2>1, Zenon
<1>2. Write(w4) /\ Write(w5) /\ Write(w6)
  <2>1. /\ mrf_register_rf_control1 \in LongAddress /\ 1 \in Byte
        /\ mrf_register_rf_control2 \in LongAddress /\ 128 \in Byte
        /\ mrf_register_rf_control6 \in LongAddress /\ 144 \in Byte
    BY DEF LongAddress, Byte, mrf_register_rf_control1,
       mrf_register_rf_control2,
       mrf_register_rf_control6
  <2> HIDE DEF Write
  <2> QED BY <1>0, <2>1, Zenon
<1>3. Write(w7) /\ Write(w8) /\ Write(w9)
  <2>1. /\ mrf_register_rf_control7 \in LongAddress /\ 128 \in Byte
        /\ mrf_register_rf_control8 \in LongAddress /\ 16 \in Byte
        /\ mrf_register_sleep_clock_control1 \in LongAddress /\ 33 \in Byte
    BY DEF LongAddress, Byte, mrf_register_rf_control7,
       mrf_register_rf_control8,
       mrf_register_sleep_clock_control1
  <2> HIDE DEF Write
  <2> QED BY <1>0, <2>1, Zenon
<1>4. Write(w10) /\ Write(w11) /\ Write(w12)
  <2>1. /\ mrf_register_base_band2 \in LongAddress /\ 128 \in Byte
        /\ mrf_register_energy_detection_threshold \in LongAddress /\ 96 \in Byte
        /\ mrf_register_base_band6 \in LongAddress /\ 64 \in Byte
    BY DEF LongAddress, Byte, mrf_register_base_band2,
       mrf_register_energy_detection_threshold,
       mrf_register_base_band6
  <2> HIDE DEF Write
  <2> QED BY <1>0, <2>1, Zenon
<1> HIDE DEF w1, w2, w3, w4, w5, w6, w7, w8, w9, w10, w11, w12
<1>5. HasLength(w1 \o w2 \o w3 \o w4, 1 + 1 + 1 + 1)
  BY <1>1, <1>2, Joined, Zenon
<1>6. HasLength(w1 \o w2 \o w3 \o w4 \o w5 \o w6 \o w7, 4 + 1 + 1 + 1)
  <2>1. HasLength(w1 \o w2 \o w3 \o w4, 4)
    BY <1>5
  <2> QED BY <1>2, <1>3, <2>1, Joined, Zenon
<1>7. HasLength(w1 \o w2 \o w3 \o w4 \o w5 \o w6 \o w7 \o w8 \o w9 \o w10, 7 + 1 + 1 + 1)
  <2>1. HasLength(w1 \o w2 \o w3 \o w4 \o w5 \o w6 \o w7, 7)
    BY <1>6
  <2> QED BY <1>3, <1>4, <2>1, Joined, Zenon
<1>8. HasLength(w1 \o w2 \o w3 \o w4 \o w5 \o w6 \o w7 \o w8 \o w9 \o w10 \o w11 \o w12,
                10 + 1 + 1)
  <2>1. HasLength(w1 \o w2 \o w3 \o w4 \o w5 \o w6 \o w7 \o w8 \o w9 \o w10, 10)
    BY <1>7
  <2> QED BY <1>4, <2>1, Joined, Zenon
<1>9. setInitializationValuesFromDatasheet
        = w1 \o w2 \o w3 \o w4 \o w5 \o w6 \o w7 \o w8 \o w9 \o w10 \o w11 \o w12
  BY Zenon DEF w1, w2, w3, w4, w5, w6, w7, w8, w9, w10, w11, w12,
               setInitializationValuesFromDatasheet
<1> QED BY <1>8, <1>9

LEMMA SparesJoined ==
  ASSUME NEW s \in Seq(ByteWrites), NEW t \in Seq(ByteWrites), NEW c,
         Spares(s, c), Spares(t, c)
  PROVE  Spares(s \o t, c)
<1> DEFINE both == s \o t
<1>1. /\ Len(both) = Len(s) + Len(t) /\ Len(s) \in Nat /\ Len(t) \in Nat
      /\ \A n \in 1 .. Len(s) : both[n] = s[n]
      /\ \A n \in 1 .. Len(t) : both[Len(s) + n] = t[n]
  BY Concatenation
<1> HIDE DEF both
<1>2. ASSUME NEW j \in 1 .. Len(both)
      PROVE  WrittenCell(both[j]) # c /\ WrittenCell(both[j]) # ResetCell
  <2>1. CASE j <= Len(s)
    BY <1>1, <2>1 DEF Spares
  <2>2. CASE j > Len(s)
    <3>1. j - Len(s) \in 1 .. Len(t) /\ j = Len(s) + (j - Len(s))
      BY <1>1, <2>2
    <3>2. both[j] = t[j - Len(s)]
      BY <1>1, <3>1
    <3> QED BY <3>1, <3>2 DEF Spares
  <2> QED BY <1>1, <2>1, <2>2
<1> QED BY <1>2 DEF Spares, both

\* What the configuration `c' leaves in the registers that configure sets for good.
RunningCells(channel) ==
  {<<Cell("short", mrf_register_interrupt_control), mrf_value_rx_interrupt_enabled>>,
   <<Cell("long", mrf_register_rf_control0), MRF_getRegisterValueForChannelNumber(channel)>>,
   <<Cell("short", mrf_register_rf_mode_control), mrf_value_rf_state_machine_operating_state>>}

ConfiguredCells(c) ==
  RunningCells(c.channel)
    \cup BlockCells(mrf_register_short_address_low_byte, c.short_source_address, 2)
    \cup BlockCells(mrf_register_extended_address0, c.extended_source_address, 8)
    \cup BlockCells(mrf_register_pan_id_low_byte, c.pan_id, 2)

\* A single write settles its cell and spares the others.
LEMMA RegisterSettles ==
  ASSUME NEW address \in LongAddress, NEW value \in Byte, address # mrf_register_software_reset
  PROVE  LET s    == MrfIo_setControlRegister(address, value)
             cell == Cell(IF isLongAddress(address) THEN "long" ELSE "short", address)
         IN /\ SettlesAll(s, {<<cell, value>>})
            /\ \A c : c # cell => Spares(s, c)
<1> DEFINE s    == MrfIo_setControlRegister(address, value)
           cell == Cell(IF isLongAddress(address) THEN "long" ELSE "short", address)
<1>1. Len(s) = 1 /\ WrittenCell(s[1]) = cell /\ WrittenValue(s[1]) = value
  BY RegisterWrite
<1>2. cell # ResetCell
  BY DEF Cell, ResetCell
<1> HIDE DEF s, cell
<1>3. Settles(s, cell, value)
  BY <1>1 DEF Settles
<1>4. SettlesAll(s, {<<cell, value>>})
  BY <1>3 DEF SettlesAll
<1>5. \A c : c # cell => Spares(s, c)
  BY <1>1, <1>2 DEF Spares
<1> QED BY <1>4, <1>5 DEF s, cell

\* `n' transactions, the first of which is `first', that settle what `pairs' says.
Part(s, n, first, pairs) == HasLength(s, n) /\ n > 0 /\ Head(s) = first /\ SettlesAll(s, pairs)

LEMMA JoinedParts ==
  ASSUME NEW s, NEW t, NEW n, NEW m, NEW f1, NEW f2, NEW A, NEW B,
         Part(s, n, f1, A), Part(t, m, f2, B), SparesAll(t, A)
  PROVE  Part(s \o t, n + m, f1, A \cup B)
<1>1. /\ s \in Seq(ByteWrites) /\ t \in Seq(ByteWrites)
      /\ n \in Nat /\ m \in Nat /\ n > 0 /\ m > 0 /\ Len(s) = n /\ Len(t) = m
      /\ Head(s) = f1
  BY DEF Part, HasLength
<1>2. HasLength(s \o t, n + m)
  BY Joined DEF Part
<1>3. SettlesAll(s \o t, A \cup B)
  BY <1>1, SettledParts DEF Part
<1>4. Head(s \o t) = f1
  <2>1. \A q \in Seq(ByteWrites), r \in Seq(ByteWrites) :
          Len(q) > 0 => Head(q \o r) = Head(q)
    OBVIOUS
  <2> QED BY <1>1, <2>1
<1> QED BY <1>1, <1>2, <1>3, <1>4 DEF Part

\* Every transaction of reconfigure in its order: the reset is the first, and what
\* the configuration sets is not overwritten by what comes after it.
LEMMA ReconfigureSettles ==
  ASSUME NEW c,
         c.short_source_address    \in [0 .. (2 - 1) -> Byte],
         c.extended_source_address \in [0 .. (8 - 1) -> Byte],
         c.pan_id                  \in [0 .. (2 - 1) -> Byte],
         c.channel \in Int
  PROVE  /\ HasLength(ConfigurationWrites(c), 30)
         /\ Head(ConfigurationWrites(c)) = Head(reset)
         /\ SettlesAll(ConfigurationWrites(c), ConfiguredCells(c))
<1> DEFINE p2 == setInitializationValuesFromDatasheet
           p3 == enableRXInterrupt
           p4a == MrfIo_setControlRegister(mrf_register_rf_control0,
                     MRF_getRegisterValueForChannelNumber(c.channel))
           p4b == MrfIo_setControlRegister(mrf_register_rf_mode_control,
                     mrf_value_rf_state_machine_reset_state)
           p4c == MrfIo_setControlRegister(mrf_register_rf_mode_control,
                     mrf_value_rf_state_machine_operating_state)
           p5 == setUpTransmitterPower
           p6 == setShortSourceAddress(c.short_source_address)
           p7 == setExtendedSourceAddress(c.extended_source_address)
           p8 == setPanId(c.pan_id)
           interrupts == {<<Cell("short", mrf_register_interrupt_control),
                            mrf_value_rx_interrupt_enabled>>}
           channels == {<<Cell("long", mrf_register_rf_control0),
                          MRF_getRegisterValueForChannelNumber(c.channel)>>}
           modes == {<<Cell("short", mrf_register_rf_mode_control),
                       mrf_value_rf_state_machine_operating_state>>}
           shorts == BlockCells(mrf_register_short_address_low_byte, c.short_source_address, 2)
           extendeds == BlockCells(mrf_register_extended_address0, c.extended_source_address, 8)
           pans == BlockCells(mrf_register_pan_id_low_byte, c.pan_id, 2)
<1>1. HasLength(reset, 1)
  <2>1. mrf_register_software_reset \in LongAddress /\ mrf_value_full_software_reset \in Byte
    BY DEF mrf_register_software_reset, LongAddress, Byte, mrf_value_full_software_reset
  <2> QED BY <2>1, RegisterWriteLength DEF reset
<1>2. HasLength(p2, 12)
  BY InitialValues
<1>3. /\ HasLength(p3, 1)
      /\ SettlesAll(p3, interrupts)
  <2>1. /\ mrf_register_interrupt_control \in LongAddress
        /\ mrf_value_rx_interrupt_enabled \in Byte
        /\ mrf_register_interrupt_control # mrf_register_software_reset
        /\ ~isLongAddress(mrf_register_interrupt_control)
    BY DEF mrf_register_interrupt_control, LongAddress, Byte, mrf_value_rx_interrupt_enabled,
           mrf_register_software_reset, isLongAddress, LastShortControlRegisterAddress
  <2> QED BY <2>1, RegisterWriteLength, RegisterSettles DEF enableRXInterrupt
<1>4. /\ HasLength(p4a, 1) /\ SettlesAll(p4a, channels)
      /\ \A cell : cell # Cell("long", mrf_register_rf_control0) => Spares(p4a, cell)
  <2>1. /\ mrf_register_rf_control0 \in LongAddress
        /\ MRF_getRegisterValueForChannelNumber(c.channel) \in Byte
        /\ mrf_register_rf_control0 # mrf_register_software_reset
        /\ isLongAddress(mrf_register_rf_control0)
    BY DEF mrf_register_rf_control0, LongAddress, Byte, mrf_register_software_reset,
           MRF_getRegisterValueForChannelNumber, uint8, isLongAddress,
           LastShortControlRegisterAddress
  <2> QED BY <2>1, RegisterWriteLength, RegisterSettles
<1>5. /\ HasLength(p4b, 1) /\ HasLength(p4c, 1) /\ SettlesAll(p4c, modes)
      /\ \A cell : cell # Cell("short", mrf_register_rf_mode_control) =>
           Spares(p4b, cell) /\ Spares(p4c, cell)
  <2>1. /\ mrf_register_rf_mode_control \in LongAddress
        /\ mrf_value_rf_state_machine_reset_state \in Byte
        /\ mrf_value_rf_state_machine_operating_state \in Byte
        /\ mrf_register_rf_mode_control # mrf_register_software_reset
        /\ ~isLongAddress(mrf_register_rf_mode_control)
    BY DEF mrf_register_rf_mode_control, LongAddress, Byte, mrf_register_software_reset,
           isLongAddress, LastShortControlRegisterAddress,
           mrf_value_rf_state_machine_reset_state, mrf_value_rf_state_machine_operating_state
  <2> QED BY <2>1, RegisterWriteLength, RegisterSettles
<1>6. /\ HasLength(p5, 1)
      /\ \A cell : cell # Cell("long", mrf_register_rf_control3) => Spares(p5, cell)
  <2>1. /\ mrf_register_rf_control3 \in LongAddress
        /\ 0 \in Byte
        /\ mrf_register_rf_control3 # mrf_register_software_reset
        /\ isLongAddress(mrf_register_rf_control3)
    BY DEF mrf_register_rf_control3, LongAddress, Byte, mrf_register_software_reset,
           isLongAddress, LastShortControlRegisterAddress
  <2> QED BY <2>1, RegisterWriteLength, RegisterSettles DEF setUpTransmitterPower
<1> DEFINE Outside(cell, first, n) == \A i \in 0 .. (n - 1) : cell # Cell("short", first + i)
<1>7. /\ HasLength(p6, 2) /\ SettlesAll(p6, shorts)
      /\ \A cell : Outside(cell, mrf_register_short_address_low_byte, 2) => Spares(p6, cell)
  <2>1. /\ mrf_register_short_address_low_byte \in Nat /\ 2 \in Nat
        /\ mrf_register_short_address_low_byte + 2 <= LastShortControlRegisterAddress
        /\ mrf_register_short_address_low_byte + 2 <= mrf_register_software_reset
    BY DEF mrf_register_short_address_low_byte, LastShortControlRegisterAddress,
           mrf_register_software_reset
  <2> QED BY <2>1, BlockWrite, BlockSettles DEF setShortSourceAddress, HasLength
<1>8. /\ HasLength(p7, 8) /\ SettlesAll(p7, extendeds)
      /\ \A cell : Outside(cell, mrf_register_extended_address0, 8) => Spares(p7, cell)
  <2>1. /\ mrf_register_extended_address0 \in Nat /\ 8 \in Nat
        /\ mrf_register_extended_address0 + 8 <= LastShortControlRegisterAddress
        /\ mrf_register_extended_address0 + 8 <= mrf_register_software_reset
    BY DEF mrf_register_extended_address0, LastShortControlRegisterAddress,
           mrf_register_software_reset
  <2> QED BY <2>1, BlockWrite, BlockSettles DEF setExtendedSourceAddress, HasLength
<1>9. /\ HasLength(p8, 2) /\ SettlesAll(p8, pans)
      /\ \A cell : Outside(cell, mrf_register_pan_id_low_byte, 2) => Spares(p8, cell)
  <2>1. /\ mrf_register_pan_id_low_byte \in Nat /\ 2 \in Nat
        /\ mrf_register_pan_id_low_byte + 2 <= LastShortControlRegisterAddress
        /\ mrf_register_pan_id_low_byte + 2 <= mrf_register_software_reset
    BY DEF mrf_register_pan_id_low_byte, LastShortControlRegisterAddress,
           mrf_register_software_reset
  <2> QED BY <2>1, BlockWrite, BlockSettles DEF setPanId, HasLength
<1>10. ConfigurationWrites(c)
         = reset \o p2 \o p3 \o (p4a \o (p4b \o p4c)) \o p5 \o p6 \o p7 \o p8
  BY Zenon DEF ConfigurationWrites, setChannel, resetInternalRFStateMachine
<1> DEFINE inner == p4b \o p4c
           channel == p4a \o inner
           a1 == reset \o p2
           a2 == a1 \o p3
           a3 == a2 \o channel
           a4 == a3 \o p5
           a5 == a4 \o p6
           a6 == a5 \o p7
           a7 == a6 \o p8
           first == Head(reset)
           A3 == interrupts \cup (channels \cup modes)
           A5 == A3 \cup shorts
           A6 == A5 \cup extendeds
<1>11. /\ \A w \in interrupts : w[1] = <<"short", 50>>
       /\ \A w \in channels : w[1] = <<"long", 512>>
       /\ \A w \in modes : w[1] = <<"short", 54>>
       /\ \A w \in shorts : \E k \in 3 .. 4 : w[1] = <<"short", k>>
       /\ \A w \in extendeds : \E k \in 5 .. 12 : w[1] = <<"short", k>>
  <2>1. /\ \A w \in interrupts : w[1] = <<"short", 50>>
        /\ \A w \in channels : w[1] = <<"long", 512>>
        /\ \A w \in modes : w[1] = <<"short", 54>>
    BY DEF Cell, mrf_register_interrupt_control, mrf_register_rf_control0,
           mrf_register_rf_mode_control
  <2>2. \A w \in shorts : \E k \in 3 .. 4 : w[1] = <<"short", k>>
    BY DEF BlockCells, Cell, mrf_register_short_address_low_byte
  <2>3. \A w \in extendeds : \E k \in 5 .. 12 : w[1] = <<"short", k>>
    BY DEF BlockCells, Cell, mrf_register_extended_address0
  <2> QED BY <2>1, <2>2, <2>3
<1>12. /\ \A cell : cell # <<"long", 512>> => Spares(p4a, cell)
       /\ \A cell : cell # <<"short", 54>> => Spares(p4b, cell) /\ Spares(p4c, cell)
       /\ \A cell : cell # <<"long", 515>> => Spares(p5, cell)
       /\ \A cell : cell # <<"short", 3>> /\ cell # <<"short", 4>> => Spares(p6, cell)
       /\ \A cell : (\A k \in 5 .. 12 : cell # <<"short", k>>) => Spares(p7, cell)
       /\ \A cell : cell # <<"short", 1>> /\ cell # <<"short", 2>> => Spares(p8, cell)
  <2> HIDE DEF p4a, p4b, p4c, p5, p6, p7, p8
  <2>1. /\ \A cell : cell # <<"long", 512>> => Spares(p4a, cell)
        /\ \A cell : cell # <<"short", 54>> => Spares(p4b, cell) /\ Spares(p4c, cell)
        /\ \A cell : cell # <<"long", 515>> => Spares(p5, cell)
    BY <1>4, <1>5, <1>6 DEF Cell, mrf_register_rf_control0, mrf_register_rf_mode_control,
                            mrf_register_rf_control3
  <2>2. \A cell : cell # <<"short", 3>> /\ cell # <<"short", 4>> => Spares(p6, cell)
    BY <1>7 DEF Cell, mrf_register_short_address_low_byte
  <2>3. \A cell : (\A k \in 5 .. 12 : cell # <<"short", k>>) => Spares(p7, cell)
    BY <1>8 DEF Cell, mrf_register_extended_address0
  <2>4. \A cell : cell # <<"short", 1>> /\ cell # <<"short", 2>> => Spares(p8, cell)
    BY <1>9 DEF Cell, mrf_register_pan_id_low_byte
  <2> QED BY <2>1, <2>2, <2>3, <2>4
<1> HIDE DEF p2, p3, p4a, p4b, p4c, p5, p6, p7, p8, interrupts, channels, modes, shorts,
             extendeds, pans
<1>13. \A cell : cell # <<"short", 54>> => Spares(inner, cell)
  BY <1>5, <1>12, SparesJoined DEF HasLength
<1>14. \A cell : cell # <<"short", 54>> /\ cell # <<"long", 512>> => Spares(channel, cell)
  <2>1. inner \in Seq(ByteWrites) /\ p4a \in Seq(ByteWrites)
    <3>1. HasLength(inner, 1 + 1)
      BY <1>5, Joined
    <3> QED BY <1>4, <3>1 DEF HasLength
  <2> HIDE DEF inner
  <2> QED BY <2>1, <1>12, <1>13, SparesJoined
<1> HIDE DEF inner, channel, first
<1>15. /\ SparesAll(channel, interrupts)
       /\ SparesAll(inner, channels)
       /\ SparesAll(p5, A3)
       /\ SparesAll(p6, A3)
  <2>1. SparesAll(channel, interrupts) /\ SparesAll(inner, channels)
    BY <1>11, <1>13, <1>14 DEF SparesAll
  <2>2. \A w \in A3 : \/ w[1] = <<"short", 50>>
                      \/ w[1] = <<"long", 512>>
                      \/ w[1] = <<"short", 54>>
    BY <1>11
  <2> QED BY <1>12, <2>1, <2>2 DEF SparesAll
<1>16. SparesAll(p7, A5)
  <2>1. \A w \in A5 : \A k \in 5 .. 12 : w[1] # <<"short", k>>
    BY <1>11
  <2> QED BY <1>12, <2>1 DEF SparesAll
<1>17. SparesAll(p8, A6)
  <2>1. \A w \in A6 : w[1] # <<"short", 1>> /\ w[1] # <<"short", 2>>
    BY <1>11
  <2> QED BY <1>12, <2>1 DEF SparesAll
<1>18. Part(channel, 3, Head(p4a), channels \cup modes)
  <2>1. Part(p4a, 1, Head(p4a), channels) /\ Part(p4c, 1, Head(p4c), modes)
        /\ Part(p4b, 1, Head(p4b), {}) /\ SparesAll(p4c, {})
    BY <1>4, <1>5 DEF Part, SettlesAll, SparesAll
  <2>2. Part(inner, 1 + 1, Head(p4b), {} \cup modes)
    BY <2>1, JoinedParts DEF inner
  <2>3. Part(inner, 2, Head(p4b), modes)
    BY <2>2
  <2>4. Part(channel, 1 + 2, Head(p4a), channels \cup modes)
    BY <1>15, <2>1, <2>3, JoinedParts DEF channel
  <2> QED BY <2>4
<1> HIDE DEF a1, a2, a3, a4, a5, a6, a7
<1>19. Part(a2, 14, first, interrupts)
  <2>1. /\ Part(reset, 1, first, {}) /\ Part(p2, 12, Head(p2), {}) /\ SparesAll(p2, {})
        /\ Part(p3, 1, Head(p3), interrupts) /\ SparesAll(p3, {})
    BY <1>1, <1>2, <1>3 DEF Part, SettlesAll, SparesAll, first
  <2>2. Part(a1, 1 + 12, first, {} \cup {})
    BY <2>1, JoinedParts DEF a1
  <2>3. Part(a1, 13, first, {})
    BY <2>2
  <2>4. Part(a2, 13 + 1, first, {} \cup interrupts)
    BY <2>1, <2>3, JoinedParts DEF a2
  <2> QED BY <2>4
<1> HIDE DEF A3
<1>20. Part(a4, 18, first, A3)
  <2>1. Part(a3, 14 + 3, first, interrupts \cup (channels \cup modes))
    BY <1>15, <1>18, <1>19, JoinedParts DEF a3
  <2>2. Part(a3, 17, first, A3)
    BY <2>1 DEF A3
  <2>3. Part(p5, 1, Head(p5), {})
    BY <1>6 DEF Part, SettlesAll
  <2>4. Part(a4, 17 + 1, first, A3 \cup {})
    BY <1>15, <2>2, <2>3, JoinedParts DEF a4
  <2> QED BY <2>4
<1> HIDE DEF A5, A6
<1>21. Part(a6, 28, first, A6)
  <2>1. /\ Part(p6, 2, Head(p6), shorts)
        /\ Part(p7, 8, Head(p7), extendeds)
    BY <1>7, <1>8 DEF Part
  <2>2. Part(a5, 18 + 2, first, A3 \cup shorts)
    BY <1>15, <1>20, <2>1, JoinedParts DEF a5
  <2>3. Part(a5, 20, first, A5)
    BY <2>2 DEF A5
  <2>4. Part(a6, 20 + 8, first, A5 \cup extendeds)
    BY <1>16, <2>1, <2>3, JoinedParts DEF a6
  <2> QED BY <2>4 DEF A6
<1>22. Part(a7, 28 + 2, first, A6 \cup pans)
  <2>1. Part(p8, 2, Head(p8), pans)
    BY <1>9 DEF Part
  <2> QED BY <1>17, <1>21, <2>1, JoinedParts DEF a7
<1>23. Part(a7, 30, first, A6 \cup pans)
  BY <1>22
<1>24. ConfigurationWrites(c) = a7
  BY <1>10, Zenon DEF a1, a2, a3, a4, a5, a6, a7, channel, inner
<1>25. A6 \cup pans = ConfiguredCells(c)
  <2>1. interrupts \cup (channels \cup modes) = RunningCells(c.channel)
    BY DEF interrupts, channels, modes, RunningCells
  <2> QED BY <2>1 DEF A3, A5, A6, shorts, extendeds, pans, ConfiguredCells
<1> QED BY <1>23, <1>24, <1>25 DEF Part, first

=============================================================================
