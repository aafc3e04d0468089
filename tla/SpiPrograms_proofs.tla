-------------------------- MODULE SpiPrograms_proofs --------------------------
(***************************************************************************)
(* The programs on the bare SPI bus, for every content of the chip at      *)
(* power-up and every set of packets.                                      *)
(***************************************************************************)
EXTENDS SpiPrograms, MrfRegisters_proofs, SequenceTheorems

-----------------------------------------------------------------------------
(* Transactions.                                                           *)

WriteOps == {[op |-> "write", byte |-> b] : b \in Byte}
DataOps  == WriteOps \cup {[op |-> "read"]}
Ops == DataOps \cup {[op |-> "select"], [op |-> "deselect"], [op |-> "wait"], [op |-> "burst"]}

\* The bytes of the command, and the rest of a transaction.
IsLong(t)     == t[2].byte >= 128
Width(t)      == IF IsLong(t) THEN 2 ELSE 1
CommandOf(t)  == IF IsLong(t) THEN <<t[2].byte, t[3].byte>> ELSE <<t[2].byte>>
DataLength(t) == Len(t) - Width(t) - 2
Datum(t, i)   == t[i + Width(t) + 1]

IsTransaction(t) ==
  /\ t \in Seq(Ops)
  /\ Len(t) >= Width(t) + 2
  /\ t[1] = [op |-> "select"] /\ t[Len(t)] = [op |-> "deselect"]
  /\ t[2] \in WriteOps
  /\ IsLong(t) => t[3] \in WriteOps
  /\ \A i \in 1 .. DataLength(t) : Datum(t, i) \in DataOps

LEMMA WriteSequence ==
  ASSUME NEW bytes \in Seq(Byte)
  PROVE  /\ write(bytes) \in Seq(DataOps)
         /\ Len(write(bytes)) = Len(bytes)
         /\ \A i \in 1 .. Len(bytes) : write(bytes)[i] = [op |-> "write", byte |-> bytes[i]]
<1>1. \A i \in 1 .. Len(bytes) : [op |-> "write", byte |-> bytes[i]] \in DataOps
  BY DEF DataOps, WriteOps
<1>2. Len(bytes) \in Nat
  OBVIOUS
<1> HIDE DEF DataOps
<1> QED BY <1>1, <1>2 DEF write

LEMMA ReadSequence ==
  ASSUME NEW n \in Nat
  PROVE  /\ read(n) \in Seq(DataOps)
         /\ Len(read(n)) = n
         /\ \A i \in 1 .. n : read(n)[i] = [op |-> "read"]
<1>1. [op |-> "read"] \in DataOps
  BY DEF DataOps
<1> HIDE DEF DataOps
<1> QED BY <1>1 DEF read

\* The elements of a concatenation.
LEMMA Elements ==
  ASSUME NEW s \in Seq(Ops), NEW t \in Seq(Ops)
  PROVE  /\ s \o t \in Seq(Ops)
         /\ Len(s \o t) = Len(s) + Len(t)
         /\ Len(s) \in Nat /\ Len(t) \in Nat
         /\ \A i \in 1 .. Len(s) : (s \o t)[i] = s[i]
         /\ \A i \in 1 .. Len(t) : (s \o t)[Len(s) + i] = t[i]
OBVIOUS

LEMMA TransactionShape ==
  ASSUME NEW c \in Commands, NEW data \in Seq(DataOps), NEW t, t = Transaction(c, data)
  PROVE  /\ IsTransaction(t)
         /\ CommandOf(t) = c /\ Width(t) = Len(c)
         /\ IsLong(t) <=> IsLongCommand(c)
         /\ DataLength(t) = Len(data)
         /\ Len(t) = Len(c) + Len(data) + 2
         /\ \A i \in 1 .. Len(data) : Datum(t, i) = data[i]
<1> DEFINE s1 == <<[op |-> "select"]>>
           s2 == write(c)
           s4 == <<[op |-> "deselect"]>>
<1>1. /\ c \in Seq(Byte) /\ Len(c) \in 1 .. 2 /\ Len(data) \in Nat
      /\ Len(c) = 2 <=> c[1] >= 128
      /\ \A i \in 1 .. Len(c) : c[i] \in Byte
  <2>1. c \in Seq(Byte) /\ ((Len(c) = 1 /\ c[1] < 128) \/ (Len(c) = 2 /\ c[1] >= 128))
    BY DEF Commands
  <2>2. \A i \in 1 .. Len(c) : c[i] \in Byte
    BY <2>1
  <2>3. c[1] \in Int
    <3>1. c[1] \in Byte
      BY <2>1, <2>2
    <3>2. \A x \in Byte : x \in Int
      BY DEF Byte
    <3> QED BY <3>1, <3>2, Zenon
  <2> HIDE DEF Byte
  <2>6. Len(data) \in Nat
    OBVIOUS
  <2>7. Len(c) \in 1 .. 2
    BY <2>1
  <2>8. Len(c) = 2 <=> c[1] >= 128
    BY <2>1, <2>3
  <2> QED BY <2>1, <2>2, <2>6, <2>7, <2>8, Zenon
<1>2. /\ s1 \in Seq(Ops) /\ s4 \in Seq(Ops) /\ Len(s1) = 1 /\ Len(s4) = 1
      /\ s1[1] = [op |-> "select"] /\ s4[1] = [op |-> "deselect"]
  BY DEF Ops
<1>3. /\ s2 \in Seq(Ops) /\ data \in Seq(Ops) /\ Len(s2) = Len(c)
      /\ \A i \in 1 .. Len(c) : s2[i] \in WriteOps /\ s2[i].byte = c[i]
      /\ \A i \in 1 .. Len(data) : data[i] \in DataOps
  <2>1. DataOps \subseteq Ops
    BY DEF Ops
  <2>2. \A i \in 1 .. Len(c) : s2[i] = [op |-> "write", byte |-> c[i]]
    BY <1>1, WriteSequence
  <2>3. \A i \in 1 .. Len(c) : s2[i] \in WriteOps /\ s2[i].byte = c[i]
    <3>1. \A b : [op |-> "write", byte |-> b].byte = b
      OBVIOUS
    <3>2. \A b \in Byte : [op |-> "write", byte |-> b] \in WriteOps
      BY DEF WriteOps
    <3> HIDE DEF WriteOps, Byte, s2
    <3> QED BY <1>1, <2>2, <3>1, <3>2
  <2>4. write(c) \in Seq(Ops) /\ data \in Seq(Ops)
    BY <1>1, <2>1, WriteSequence, SeqMonotonic
  <2>5. \A i \in 1 .. Len(data) : data[i] \in DataOps
    BY ElementOfSeq
  <2> QED BY <1>1, <2>3, <2>4, <2>5, WriteSequence
<1> DEFINE a == s1 \o s2
           b == a \o data
<1>4. t = b \o s4
  BY DEF Transaction, select, deselect
<1> HIDE DEF s1, s2, s4, a, b, Ops, DataOps, WriteOps, Byte
<1>5. /\ a \in Seq(Ops) /\ Len(a) = 1 + Len(c) /\ a[1] = s1[1]
      /\ \A i \in 1 .. Len(c) : a[1 + i] = s2[i]
  <2>1. /\ s1 \o s2 \in Seq(Ops)
        /\ Len(s1 \o s2) = Len(s1) + Len(s2)
        /\ \A i \in 1 .. Len(s1) : (s1 \o s2)[i] = s1[i]
        /\ \A i \in 1 .. Len(s2) : (s1 \o s2)[Len(s1) + i] = s2[i]
    BY <1>2, <1>3, Elements, Zenon
  <2> QED BY <1>2, <1>3, <2>1 DEF a
<1>6. /\ b \in Seq(Ops) /\ Len(b) = 1 + Len(c) + Len(data) /\ b[1] = s1[1]
      /\ \A i \in 1 .. Len(c) : b[1 + i] = s2[i]
      /\ \A i \in 1 .. Len(data) : b[1 + Len(c) + i] = data[i]
  <2>1. /\ a \o data \in Seq(Ops)
        /\ Len(a \o data) = Len(a) + Len(data)
        /\ \A i \in 1 .. Len(a) : (a \o data)[i] = a[i]
        /\ \A i \in 1 .. Len(data) : (a \o data)[Len(a) + i] = data[i]
    BY <1>3, <1>5, Elements, Zenon
  <2>2. \A i \in 1 .. Len(c) : 1 + i \in 1 .. Len(a)
    BY <1>1, <1>5
  <2> QED BY <1>1, <1>5, <2>1, <2>2 DEF b
<1>7. /\ t \in Seq(Ops) /\ Len(t) = 2 + Len(c) + Len(data) /\ t[1] = s1[1]
      /\ t[Len(t)] = s4[1]
      /\ \A i \in 1 .. Len(c) : t[1 + i] = s2[i]
      /\ \A i \in 1 .. Len(data) : t[1 + Len(c) + i] = data[i]
  <2>1. /\ b \o s4 \in Seq(Ops)
        /\ Len(b \o s4) = Len(b) + Len(s4)
        /\ \A i \in 1 .. Len(b) : (b \o s4)[i] = b[i]
        /\ \A i \in 1 .. Len(s4) : (b \o s4)[Len(b) + i] = s4[i]
    BY <1>2, <1>6, Elements, Zenon
  <2>2. \A i \in 1 .. Len(c) : 1 + i \in 1 .. Len(b)
    BY <1>1, <1>6
  <2>3. \A i \in 1 .. Len(data) : 1 + Len(c) + i \in 1 .. Len(b)
    BY <1>1, <1>6
  <2>4. 1 \in 1 .. Len(b) /\ 1 \in 1 .. Len(s4)
    BY <1>1, <1>2, <1>6
  <2> QED BY <1>1, <1>2, <1>4, <1>6, <2>1, <2>2, <2>3, <2>4
<1>8. /\ t[2].byte = c[1] /\ t[2] \in WriteOps
      /\ Len(c) = 2 => t[3].byte = c[2] /\ t[3] \in WriteOps
  <2>1. 1 \in 1 .. Len(c) /\ (Len(c) = 2 => 2 \in 1 .. Len(c))
    <3>1. \A n \in 1 .. 2 : 1 \in 1 .. n /\ (n = 2 => 2 \in 1 .. n)
      OBVIOUS
    <3> QED BY <1>1, <3>1, Zenon
  <2>2. t[1 + 1] = s2[1] /\ (Len(c) = 2 => t[1 + 2] = s2[2])
    BY <1>7, <2>1
  <2>3. 1 + 1 = 2 /\ 1 + 2 = 3
    OBVIOUS
  <2> QED BY <1>3, <2>1, <2>2, <2>3
<1>11. c = IF Len(c) = 2 THEN <<c[1], c[2]>> ELSE <<c[1]>>
  BY <1>1
<1>9. /\ IsLong(t) <=> Len(c) = 2
      /\ Width(t) = Len(c) /\ CommandOf(t) = c
      /\ IsLong(t) <=> IsLongCommand(c)
  BY <1>1, <1>8, <1>11 DEF IsLong, Width, CommandOf, IsLongCommand
<1>10. DataLength(t) = Len(data) /\ \A i \in 1 .. Len(data) : Datum(t, i) = data[i]
  <2>1. Len(t) - Width(t) - 2 = Len(data)
    BY <1>1, <1>7, <1>9
  <2>2. \A i \in 1 .. Len(data) : t[i + Width(t) + 1] = data[i]
    <3>1. \A i \in 1 .. Len(data) : i + Width(t) + 1 = 1 + Len(c) + i
      BY <1>1, <1>9
    <3> QED BY <1>7, <3>1
  <2> QED BY <2>1, <2>2 DEF DataLength, Datum
<1> QED BY <1>1, <1>2, <1>3, <1>7, <1>8, <1>9, <1>10 DEF IsTransaction

-----------------------------------------------------------------------------
(* The calls.                                                              *)

\* A data byte of the transaction goes to the cell `c'.
WritesTo(t, c) ==
  /\ IsWriteCommand(CommandOf(t))
  /\ \E i \in 1 .. DataLength(t) : CellOfByte(CommandOf(t), i) = c

\* A write of one byte to a short address.
LEMMA ShortWrite ==
  ASSUME NEW a \in 0 .. 63, NEW v \in Byte, NEW t, t = writeByteToShortAddress(a, v)
  PROVE  /\ IsTransaction(t) /\ ~IsLong(t) /\ DataLength(t) = 1
         /\ Datum(t, 1) = [op |-> "write", byte |-> v]
         /\ IsWriteCommand(CommandOf(t)) /\ CellOfByte(CommandOf(t), 1) = Cell("short", a)
         /\ \A c : WritesTo(t, c) <=> c = Cell("short", a)
<1> DEFINE w == setWriteShortCommand(a)
<1>1. w \in Commands
  BY CommandsAreCommands, Zenon
<1>2. ~IsLongCommand(w) /\ CommandAddress(w) = a /\ IsWriteCommand(w)
  BY ShortCommands DEF LastShortControlRegisterAddress
<1>3. /\ write(<<v>>) \in Seq(DataOps) /\ Len(write(<<v>>)) = 1
      /\ write(<<v>>)[1] = [op |-> "write", byte |-> v]
  <2>1. <<v>> \in Seq(Byte) /\ Len(<<v>>) = 1 /\ <<v>>[1] = v /\ 1 \in 1 .. 1
    BY DEF Byte
  <2> QED BY <2>1, WriteSequence
<1>4. t = Transaction(w, write(<<v>>))
  BY DEF writeByteToShortAddress, writeShortCommand
<1> HIDE DEF w
<1>5. /\ IsTransaction(t) /\ CommandOf(t) = w /\ (IsLong(t) <=> IsLongCommand(w))
      /\ DataLength(t) = Len(write(<<v>>))
      /\ \A i \in 1 .. Len(write(<<v>>)) : Datum(t, i) = write(<<v>>)[i]
  BY <1>1, <1>3, <1>4, TransactionShape
<1>6. CellOfByte(w, 1) = Cell("short", a)
  BY <1>2 DEF CellOfByte
<1>7. 1 .. DataLength(t) = {1} /\ 1 \in 1 .. Len(write(<<v>>))
  BY <1>3, <1>5
<1> QED BY <1>2, <1>3, <1>5, <1>6, <1>7, Zenon DEF WritesTo

LEMMA ShortRead ==
  ASSUME NEW a \in 0 .. 63, NEW t, t = readByteFromShortAddress(a)
  PROVE  /\ IsTransaction(t) /\ ~IsLong(t) /\ DataLength(t) = 1
         /\ Datum(t, 1) = [op |-> "read"]
         /\ ~IsWriteCommand(CommandOf(t)) /\ CellOfByte(CommandOf(t), 1) = Cell("short", a)
         /\ \A c : ~WritesTo(t, c)
<1> DEFINE r == setReadShortCommand(a)
<1>1. r \in Commands
  BY CommandsAreCommands, Zenon
<1>2. ~IsLongCommand(r) /\ CommandAddress(r) = a /\ ~IsWriteCommand(r)
  BY ShortCommands DEF LastShortControlRegisterAddress
<1>3. read(1) \in Seq(DataOps) /\ Len(read(1)) = 1 /\ read(1)[1] = [op |-> "read"]
  <2>1. 1 \in Nat /\ 1 \in 1 .. 1
    OBVIOUS
  <2> QED BY <2>1, ReadSequence
<1>4. t = Transaction(r, read(1))
  BY DEF readByteFromShortAddress, readShortCommand
<1> HIDE DEF r
<1>5. /\ IsTransaction(t) /\ CommandOf(t) = r /\ (IsLong(t) <=> IsLongCommand(r))
      /\ DataLength(t) = Len(read(1))
      /\ \A i \in 1 .. Len(read(1)) : Datum(t, i) = read(1)[i]
  BY <1>1, <1>3, <1>4, TransactionShape
<1>6. CellOfByte(r, 1) = Cell("short", a)
  BY <1>2 DEF CellOfByte
<1>7. 1 \in 1 .. Len(read(1))
  BY <1>3
<1> QED BY <1>2, <1>3, <1>5, <1>6, <1>7, Zenon DEF WritesTo

\* A write of any number of bytes to a long address.
LEMMA LongWrite ==
  ASSUME NEW a \in LongAddress, NEW bytes \in Seq(Byte), NEW t,
         t = writeBurstToLongAddress(a, bytes)
  PROVE  /\ IsTransaction(t) /\ IsLong(t) /\ DataLength(t) = Len(bytes)
         /\ \A i \in 1 .. Len(bytes) : Datum(t, i) = [op |-> "write", byte |-> bytes[i]]
         /\ IsWriteCommand(CommandOf(t))
         /\ \A i \in Int : CellOfByte(CommandOf(t), i) = Cell("long", a + i - 1)
<1> DEFINE w == setWriteLongCommand(a)
<1>1. w \in Commands
  BY CommandsAreCommands, Zenon
<1>2. IsLongCommand(w) /\ CommandAddress(w) = a /\ IsWriteCommand(w)
  BY LongCommands
<1>3. t = Transaction(w, write(bytes))
  BY DEF writeBurstToLongAddress, writeLongCommand
<1> HIDE DEF w
<1>4. /\ IsTransaction(t) /\ CommandOf(t) = w /\ (IsLong(t) <=> IsLongCommand(w))
      /\ DataLength(t) = Len(write(bytes))
      /\ \A i \in 1 .. Len(write(bytes)) : Datum(t, i) = write(bytes)[i]
  BY <1>1, <1>3, TransactionShape, WriteSequence
<1>5. \A i \in Int : CellOfByte(w, i) = Cell("long", a + i - 1)
  BY <1>2 DEF CellOfByte
<1> QED BY <1>2, <1>4, <1>5, WriteSequence, Zenon

LEMMA LongRead ==
  ASSUME NEW a \in LongAddress, NEW n \in Nat, NEW t, t = readBurstFromLongAddress(a, n)
  PROVE  /\ IsTransaction(t) /\ IsLong(t) /\ DataLength(t) = n /\ Len(t) = n + 4
         /\ \A i \in 1 .. n : Datum(t, i) = [op |-> "read"]
         /\ ~IsWriteCommand(CommandOf(t))
         /\ \A i \in Int : CellOfByte(CommandOf(t), i) = Cell("long", a + i - 1)
         /\ \A c : ~WritesTo(t, c)
<1> DEFINE r == setReadLongCommand(a)
<1>1. r \in Commands
  BY CommandsAreCommands, Zenon
<1>2. IsLongCommand(r) /\ CommandAddress(r) = a /\ ~IsWriteCommand(r)
  BY LongCommands
<1>3. t = Transaction(r, read(n))
  BY DEF readBurstFromLongAddress, readLongCommand
<1>9. Len(r) = 2
  BY DEF setReadLongCommand
<1> HIDE DEF r
<1>4. /\ IsTransaction(t) /\ CommandOf(t) = r /\ (IsLong(t) <=> IsLongCommand(r))
      /\ DataLength(t) = Len(read(n))
      /\ Len(t) = Len(r) + Len(read(n)) + 2
      /\ \A i \in 1 .. Len(read(n)) : Datum(t, i) = read(n)[i]
  <2>1. read(n) \in Seq(DataOps)
    BY ReadSequence
  <2> QED BY <1>1, <1>3, <2>1, TransactionShape
<1>5. \A i \in Int : CellOfByte(r, i) = Cell("long", a + i - 1)
  BY <1>2 DEF CellOfByte
<1>6. Len(t) = n + 4
  <2>1. Len(read(n)) = n
    BY ReadSequence, Zenon
  <2> QED BY <1>4, <1>9, <2>1
<1> QED BY <1>2, <1>4, <1>5, <1>6, ReadSequence, Zenon DEF WritesTo

-----------------------------------------------------------------------------
(* The transactions of initMrf, one by one.                                *)

Transactions == {t \in Seq(Ops) : IsTransaction(t)}

OneWrite(t, c, v) ==
  /\ t \in Transactions /\ DataLength(t) = 1
  /\ Datum(t, 1) = [op |-> "write", byte |-> v]
  /\ IsWriteCommand(CommandOf(t)) /\ CellOfByte(CommandOf(t), 1) = c

OneRead(t, c) ==
  /\ t \in Transactions /\ DataLength(t) = 1
  /\ Datum(t, 1) = [op |-> "read"]
  /\ ~IsWriteCommand(CommandOf(t)) /\ CellOfByte(CommandOf(t), 1) = c

LEMMA WritesOfOne ==
  /\ \A t, c, v : OneWrite(t, c, v) => \A d : WritesTo(t, d) <=> d = c
  /\ \A t, c : OneRead(t, c) => \A d : ~WritesTo(t, d)
<1>1. ASSUME NEW t, NEW c, NEW v, OneWrite(t, c, v)
      PROVE  \A d : WritesTo(t, d) <=> d = c
  <2>1. 1 .. DataLength(t) = {1}
    BY <1>1 DEF OneWrite
  <2> QED BY <1>1, <2>1, Zenon DEF OneWrite, WritesTo
<1>2. ASSUME NEW t, NEW c, OneRead(t, c)
      PROVE  \A d : ~WritesTo(t, d)
  BY <1>2, Zenon DEF OneRead, WritesTo
<1> QED BY <1>1, <1>2, Zenon

RegisterAddresses == (0 .. 63) \cup (512 .. 767)
RegisterCell(a)   == Cell(IF a > \h3F THEN "long" ELSE "short", a)

LEMMA SetRegister ==
  ASSUME NEW a \in RegisterAddresses, NEW v \in Byte
  PROVE  OneWrite(setRegister(a, v), RegisterCell(a), v)
<1> DEFINE t == setRegister(a, v)
<1>1. CASE a \in 0 .. 63
  <2>1. t = writeByteToShortAddress(a, v) /\ RegisterCell(a) = Cell("short", a)
    BY <1>1 DEF setRegister, RegisterCell
  <2> HIDE DEF t
  <2>2. /\ IsTransaction(t) /\ DataLength(t) = 1
        /\ Datum(t, 1) = [op |-> "write", byte |-> v]
        /\ IsWriteCommand(CommandOf(t)) /\ CellOfByte(CommandOf(t), 1) = Cell("short", a)
    BY <1>1, <2>1, ShortWrite
  <2>3. OneWrite(t, RegisterCell(a), v)
    BY <2>1, <2>2, Zenon DEF OneWrite, Transactions, IsTransaction
  <2> QED BY <2>3 DEF t
<1>2. CASE a \in 512 .. 767
  <2>1. t = writeBurstToLongAddress(a, <<v>>) /\ RegisterCell(a) = Cell("long", a)
    BY <1>2 DEF setRegister, RegisterCell, writeByteToLongAddress, writeBurstToLongAddress
  <2>2. a \in LongAddress /\ <<v>> \in Seq(Byte) /\ Len(<<v>>) = 1 /\ <<v>>[1] = v
        /\ 1 \in 1 .. 1 /\ a + 1 - 1 = a
    BY <1>2 DEF LongAddress
  <2> HIDE DEF t
  <2>3. /\ IsTransaction(t) /\ DataLength(t) = 1
        /\ \A i \in 1 .. 1 : Datum(t, i) = [op |-> "write", byte |-> <<v>>[i]]
        /\ IsWriteCommand(CommandOf(t))
        /\ \A i \in Int : CellOfByte(CommandOf(t), i) = Cell("long", a + i - 1)
    BY <2>1, <2>2, LongWrite
  <2>4. Datum(t, 1) = [op |-> "write", byte |-> v] /\ CellOfByte(CommandOf(t), 1) = Cell("long", a)
    BY <2>2, <2>3
  <2>5. OneWrite(t, RegisterCell(a), v)
    BY <2>1, <2>3, <2>4, Zenon DEF OneWrite, Transactions, IsTransaction
  <2> QED BY <2>5 DEF t
<1> QED BY <1>1, <1>2 DEF RegisterAddresses

LEMMA PrintRegister ==
  ASSUME NEW a \in RegisterAddresses
  PROVE  OneRead(printRegister(a), RegisterCell(a))
<1> DEFINE t == printRegister(a)
<1>1. CASE a \in 0 .. 63
  <2>1. t = readByteFromShortAddress(a) /\ RegisterCell(a) = Cell("short", a)
    BY <1>1 DEF printRegister, RegisterCell
  <2> HIDE DEF t
  <2>2. /\ IsTransaction(t) /\ DataLength(t) = 1 /\ Datum(t, 1) = [op |-> "read"]
        /\ ~IsWriteCommand(CommandOf(t)) /\ CellOfByte(CommandOf(t), 1) = Cell("short", a)
    BY <1>1, <2>1, ShortRead
  <2>3. OneRead(t, RegisterCell(a))
    BY <2>1, <2>2, Zenon DEF OneRead, Transactions, IsTransaction
  <2> QED BY <2>3 DEF t
<1>2. CASE a \in 512 .. 767
  <2>1. t = readBurstFromLongAddress(a, 1) /\ RegisterCell(a) = Cell("long", a)
    BY <1>2 DEF printRegister, RegisterCell, readByteFromLongAddress, readBurstFromLongAddress
  <2>2. a \in LongAddress /\ 1 \in Nat /\ 1 \in 1 .. 1 /\ a + 1 - 1 = a
    BY <1>2 DEF LongAddress
  <2> HIDE DEF t
  <2>3. /\ IsTransaction(t) /\ DataLength(t) = 1
        /\ \A i \in 1 .. 1 : Datum(t, i) = [op |-> "read"]
        /\ ~IsWriteCommand(CommandOf(t))
        /\ \A i \in Int : CellOfByte(CommandOf(t), i) = Cell("long", a + i - 1)
    BY <2>1, <2>2, LongRead
  <2>4. Datum(t, 1) = [op |-> "read"] /\ CellOfByte(CommandOf(t), 1) = Cell("long", a)
    BY <2>2, <2>3
  <2>5. OneRead(t, RegisterCell(a))
    BY <2>1, <2>3, <2>4, Zenon DEF OneRead, Transactions, IsTransaction
  <2> QED BY <2>5 DEF t
<1> QED BY <1>1, <1>2 DEF RegisterAddresses

\* The table of initMrf: what is in it, and what is not.
LEMMA Table ==
  /\ Len(register_value_pairs) = 17
  /\ \A k \in 1 .. 17 : /\ register_value_pairs[k][1] \in RegisterAddresses \ {49}
                        /\ register_value_pairs[k][2] \in Byte
  /\ register_value_pairs[1] = <<42, 7>>
  /\ register_value_pairs[15] = <<512, 19>>
  /\ register_value_pairs[16][1] = 54
  /\ register_value_pairs[17] = <<54, 0>>
<1> DEFINE T == register_value_pairs
<1>1. Len(T) = 17
  BY DEF register_value_pairs
<1>2. /\ T[1] = <<42, 7>>   /\ T[2] = <<24, 152>>  /\ T[3] = <<46, 149>>
      /\ T[4] = <<512, 3>>  /\ T[5] = <<513, 1>>   /\ T[6] = <<514, 128>>
      /\ T[7] = <<518, 144>> /\ T[8] = <<519, 128>> /\ T[9] = <<520, 16>>
      /\ T[10] = <<544, 33>> /\ T[11] = <<58, 128>> /\ T[12] = <<63, 96>>
      /\ T[13] = <<62, 64>> /\ T[14] = <<50, 246>> /\ T[15] = <<512, 19>>
      /\ T[16] = <<54, 4>>  /\ T[17] = <<54, 0>>
  BY DEF register_value_pairs, mrf_register_interrupt_control
<1> HIDE DEF T
<1>3. ASSUME NEW k \in 1 .. 17
      PROVE  T[k][1] \in RegisterAddresses \ {49} /\ T[k][2] \in Byte
  BY <1>2 DEF RegisterAddresses, Byte
<1> QED BY <1>1, <1>2, <1>3 DEF T

LEMMA ShortWrites ==
  ASSUME NEW a \in 0 .. 63, NEW v \in Byte
  PROVE  OneWrite(writeByteToShortAddress(a, v), Cell("short", a), v)
<1> DEFINE t == writeByteToShortAddress(a, v)
<1>1. /\ IsTransaction(t) /\ DataLength(t) = 1
      /\ Datum(t, 1) = [op |-> "write", byte |-> v]
      /\ IsWriteCommand(CommandOf(t)) /\ CellOfByte(CommandOf(t), 1) = Cell("short", a)
  BY ShortWrite
<1> HIDE DEF t
<1>2. OneWrite(t, Cell("short", a), v)
  BY <1>1, Zenon DEF OneWrite, Transactions, IsTransaction
<1> QED BY <1>2 DEF t

LEMMA ByteWiseWrites ==
  ASSUME NEW a \in Nat, NEW bytes \in Seq(Byte), a + Len(bytes) <= 64
  PROVE  LET s == writeByteWiseToShortAddress(a, bytes)
         IN /\ s \in Seq(Transactions) /\ Len(s) = Len(bytes)
            /\ \A i \in 1 .. Len(bytes) : OneWrite(s[i], Cell("short", a + i - 1), bytes[i])
<1> DEFINE s == writeByteWiseToShortAddress(a, bytes)
<1>1. Len(bytes) \in Nat /\ \A i \in 1 .. Len(bytes) : bytes[i] \in Byte
  OBVIOUS
<1>2. \A i \in 1 .. Len(bytes) :
        OneWrite(writeByteToShortAddress(a + i - 1, bytes[i]), Cell("short", a + i - 1), bytes[i])
  <2>1. \A i \in 1 .. Len(bytes) : a + i - 1 \in 0 .. 63
    BY <1>1
  <2> QED BY <1>1, <2>1, ShortWrites
<1>3. \A i \in 1 .. Len(bytes) : writeByteToShortAddress(a + i - 1, bytes[i]) \in Transactions
  BY <1>2 DEF OneWrite
<1> HIDE DEF Transactions
<1>4. s \in Seq(Transactions) /\ Len(s) = Len(bytes)
      /\ \A i \in 1 .. Len(bytes) : s[i] = writeByteToShortAddress(a + i - 1, bytes[i])
  BY <1>1, <1>3 DEF writeByteWiseToShortAddress
<1> QED BY <1>2, <1>4

\* `u' is `n' transactions of `s' and then `m' of `t'.
Joins(u, s, n, t, m) ==
  /\ u \in Seq(Transactions) /\ Len(u) = n + m
  /\ \A i \in 1 .. n : u[i] = s[i]
  /\ \A i \in 1 .. m : u[n + i] = t[i]

LEMMA JoinedTransactions ==
  ASSUME NEW s \in Seq(Transactions), NEW t \in Seq(Transactions), NEW n, NEW m,
         Len(s) = n, Len(t) = m
  PROVE  Joins(s \o t, s, n, t, m)
<1>1. /\ s \o t \in Seq(Transactions)
      /\ Len(s \o t) = Len(s) + Len(t)
      /\ \A i \in 1 .. Len(s) : (s \o t)[i] = s[i]
      /\ \A i \in 1 .. Len(t) : (s \o t)[Len(s) + i] = t[i]
  <2> HIDE DEF Transactions
  <2> QED OBVIOUS
<1> QED BY <1>1, Zenon DEF Joins

\* The bytes initMrf writes to the short addresses from 1 on.
InitAddresses == <<52, 18, 187, 187, 8, 7, 6, 5, 4, 3, 2, 1>>

LEMMA SetAddresses ==
  /\ setAddresses \in Seq(Transactions) /\ Len(setAddresses) = 12
  /\ \A i \in 1 .. 12 : OneWrite(setAddresses[i], Cell("short", i), InitAddresses[i])
<1> DEFINE p == writeByteWiseToShortAddress(1, <<52, 18>>)
           q == writeByteWiseToShortAddress(3, <<187, 187>>)
           r == writeByteWiseToShortAddress(5, <<8, 7, 6, 5, 4, 3, 2, 1>>)
           pq == p \o q
<1>1. setAddresses = pq \o r
  BY DEF setAddresses, mrf_register_pan_id_low_byte, mrf_register_short_address_low_byte,
         mrf_register_extended_address0, initMrf_pan_id, initMrf_short_source_address,
         initMrf_extended_source_address
<1>2. /\ p \in Seq(Transactions) /\ Len(p) = 2
      /\ \A i \in 1 .. 2 : OneWrite(p[i], Cell("short", 1 + i - 1), <<52, 18>>[i])
  <2>1. <<52, 18>> \in Seq(Byte) /\ Len(<<52, 18>>) = 2 /\ 1 \in Nat /\ 1 + Len(<<52, 18>>) <= 64
    BY DEF Byte
  <2>2. /\ p \in Seq(Transactions) /\ Len(p) = Len(<<52, 18>>)
        /\ \A i \in 1 .. Len(<<52, 18>>) : OneWrite(p[i], Cell("short", 1 + i - 1), <<52, 18>>[i])
    BY <2>1, ByteWiseWrites, Zenon
  <2> QED BY <2>1, <2>2, Zenon
<1>3. /\ q \in Seq(Transactions) /\ Len(q) = 2
      /\ \A i \in 1 .. 2 : OneWrite(q[i], Cell("short", 3 + i - 1), <<187, 187>>[i])
  <2> DEFINE bytes == <<187, 187>>
  <2>1. bytes \in Seq(Byte) /\ Len(bytes) = 2 /\ 3 \in Nat /\ 3 + Len(bytes) <= 64
    BY DEF Byte
  <2>2. q = writeByteWiseToShortAddress(3, bytes)
    OBVIOUS
  <2> HIDE DEF bytes, q
  <2>3. /\ q \in Seq(Transactions) /\ Len(q) = Len(bytes)
        /\ \A i \in 1 .. Len(bytes) : OneWrite(q[i], Cell("short", 3 + i - 1), bytes[i])
    BY <2>1, <2>2, ByteWiseWrites, Zenon
  <2> QED BY <2>1, <2>3, Zenon DEF bytes
<1>4. /\ r \in Seq(Transactions) /\ Len(r) = 8
      /\ \A i \in 1 .. 8 :
           OneWrite(r[i], Cell("short", 5 + i - 1), <<8, 7, 6, 5, 4, 3, 2, 1>>[i])
  <2>1. <<8, 7, 6, 5, 4, 3, 2, 1>> \in Seq(Byte) /\ Len(<<8, 7, 6, 5, 4, 3, 2, 1>>) = 8 /\ 5 \in Nat /\ 5 + Len(<<8, 7, 6, 5, 4, 3, 2, 1>>) <= 64
    BY DEF Byte
  <2>2. /\ r \in Seq(Transactions) /\ Len(r) = Len(<<8, 7, 6, 5, 4, 3, 2, 1>>)
        /\ \A i \in 1 .. Len(<<8, 7, 6, 5, 4, 3, 2, 1>>) : OneWrite(r[i], Cell("short", 5 + i - 1), <<8, 7, 6, 5, 4, 3, 2, 1>>[i])
    BY <2>1, ByteWiseWrites, Zenon
  <2> QED BY <2>1, <2>2, Zenon
<1> HIDE DEF p, q, r, pq
<1>5. /\ pq \in Seq(Transactions) /\ Len(pq) = 4
      /\ \A i \in 1 .. 2 : pq[i] = p[i]
      /\ \A i \in 1 .. 2 : pq[2 + i] = q[i]
  <2>1. Joins(pq, p, 2, q, 2)
    BY <1>2, <1>3, JoinedTransactions DEF pq
  <2> QED BY <2>1 DEF Joins
<1>6. /\ setAddresses \in Seq(Transactions) /\ Len(setAddresses) = 12
      /\ \A i \in 1 .. 4 : setAddresses[i] = pq[i]
      /\ \A i \in 1 .. 8 : setAddresses[4 + i] = r[i]
  <2>1. Joins(setAddresses, pq, 4, r, 8)
    BY <1>1, <1>4, <1>5, JoinedTransactions
  <2> QED BY <2>1 DEF Joins
<1>7. ASSUME NEW i \in 1 .. 12
      PROVE  OneWrite(setAddresses[i], Cell("short", i), InitAddresses[i])
  <2>1. CASE i \in 1 .. 2
    <3>1. setAddresses[i] = p[i] /\ 1 + i - 1 = i /\ InitAddresses[i] = <<52, 18>>[i]
      BY <1>5, <1>6, <2>1 DEF InitAddresses
    <3> QED BY <1>2, <2>1, <3>1
  <2>2. CASE i \in 3 .. 4
    <3>1. setAddresses[i] = q[i - 2] /\ 3 + (i - 2) - 1 = i
          /\ InitAddresses[i] = <<187, 187>>[i - 2] /\ i - 2 \in 1 .. 2
      <4>1. i - 2 \in 1 .. 2 /\ 2 + (i - 2) = i /\ i \in 1 .. 4
        BY <2>2
      <4> QED BY <1>5, <1>6, <2>2, <4>1 DEF InitAddresses
    <3> QED BY <1>3, <3>1
  <2>3. CASE i \in 5 .. 12
    <3>1. setAddresses[i] = r[i - 4] /\ 5 + (i - 4) - 1 = i
          /\ InitAddresses[i] = <<8, 7, 6, 5, 4, 3, 2, 1>>[i - 4] /\ i - 4 \in 1 .. 8
      <4>1. i - 4 \in 1 .. 8 /\ 4 + (i - 4) = i
        BY <2>3
      <4>2. setAddresses[i] = r[i - 4] /\ 5 + (i - 4) - 1 = i
        BY <1>6, <4>1, SMTT(30)
      <4>3. InitAddresses[i] = <<8, 7, 6, 5, 4, 3, 2, 1>>[i - 4]
        BY <2>3 DEF InitAddresses
      <4> QED BY <4>1, <4>2, <4>3, Zenon
    <3> QED BY <1>4, <3>1
  <2> QED BY <2>1, <2>2, <2>3
<1> QED BY <1>6, <1>7

LEMMA InitMrfShape ==
  /\ initMrf \in Seq(Transactions) /\ Len(initMrf) = 47
  /\ \A k \in 1 .. 17 : OneWrite(initMrf[k], RegisterCell(register_value_pairs[k][1]),
                                 register_value_pairs[k][2])
  /\ \A k \in 18 .. 34 : OneRead(initMrf[k], RegisterCell(register_value_pairs[k - 17][1]))
  /\ OneWrite(initMrf[35], Cell("short", 50), 246)
  /\ \A k \in 36 .. 47 : OneWrite(initMrf[k], Cell("short", k - 35), InitAddresses[k - 35])
<1> DEFINE w  == setRegister(50, 246)
           q  == <<w>>
           a1 == setRegisters \o printRegisters
           a2 == a1 \o q
<1>1. initMrf = a2 \o setAddresses
  BY DEF initMrf, mrf_register_interrupt_control
<1>2. /\ setRegisters \in Seq(Transactions) /\ Len(setRegisters) = 17
      /\ \A k \in 1 .. 17 : OneWrite(setRegisters[k], RegisterCell(register_value_pairs[k][1]),
                                     register_value_pairs[k][2])
  <2>1. \A k \in 1 .. 17 : OneWrite(setRegister(register_value_pairs[k][1], register_value_pairs[k][2]),
                                    RegisterCell(register_value_pairs[k][1]),
                                    register_value_pairs[k][2])
    BY Table, SetRegister
  <2>2. \A k \in 1 .. 17 :
          setRegister(register_value_pairs[k][1], register_value_pairs[k][2]) \in Transactions
    BY <2>1 DEF OneWrite
  <2> HIDE DEF Transactions
  <2>3. /\ setRegisters \in Seq(Transactions) /\ Len(setRegisters) = 17
        /\ \A k \in 1 .. 17 : setRegisters[k] =
             setRegister(register_value_pairs[k][1], register_value_pairs[k][2])
    BY Table, <2>2 DEF setRegisters
  <2> QED BY <2>1, <2>3
<1>3. /\ printRegisters \in Seq(Transactions) /\ Len(printRegisters) = 17
      /\ \A k \in 1 .. 17 : OneRead(printRegisters[k], RegisterCell(register_value_pairs[k][1]))
  <2>1. \A k \in 1 .. 17 : OneRead(printRegister(register_value_pairs[k][1]),
                                   RegisterCell(register_value_pairs[k][1]))
    BY Table, PrintRegister
  <2>2. \A k \in 1 .. 17 : printRegister(register_value_pairs[k][1]) \in Transactions
    BY <2>1 DEF OneRead
  <2> HIDE DEF Transactions
  <2>3. /\ printRegisters \in Seq(Transactions) /\ Len(printRegisters) = 17
        /\ \A k \in 1 .. 17 : printRegisters[k] = printRegister(register_value_pairs[k][1])
    BY Table, <2>2 DEF printRegisters
  <2> QED BY <2>1, <2>3
<1>4. OneWrite(w, Cell("short", 50), 246)
  <2>1. 50 \in RegisterAddresses /\ 246 \in Byte /\ RegisterCell(50) = Cell("short", 50)
    BY DEF RegisterAddresses, Byte, RegisterCell
  <2> QED BY <2>1, SetRegister
<1>5. q \in Seq(Transactions) /\ Len(q) = 1 /\ q[1] = w
  <2>1. w \in Transactions
    BY <1>4 DEF OneWrite
  <2> HIDE DEF Transactions, w
  <2> QED BY <2>1
<1> HIDE DEF q, w, a1, a2
<1>6. /\ a1 \in Seq(Transactions) /\ Len(a1) = 34
      /\ \A k \in 1 .. 17 : a1[k] = setRegisters[k]
      /\ \A k \in 1 .. 17 : a1[17 + k] = printRegisters[k]
  <2>1. Joins(a1, setRegisters, 17, printRegisters, 17)
    BY <1>2, <1>3, JoinedTransactions DEF a1
  <2> QED BY <2>1 DEF Joins
<1>7. /\ a2 \in Seq(Transactions) /\ Len(a2) = 35
      /\ \A k \in 1 .. 34 : a2[k] = a1[k]
      /\ a2[35] = w
  <2>1. Joins(a2, a1, 34, q, 1)
    BY <1>5, <1>6, JoinedTransactions DEF a2
  <2>2. 1 \in 1 .. 1 /\ 34 + 1 = 35
    OBVIOUS
  <2> QED BY <1>5, <2>1, <2>2 DEF Joins
<1>8. /\ initMrf \in Seq(Transactions) /\ Len(initMrf) = 47
      /\ \A k \in 1 .. 35 : initMrf[k] = a2[k]
      /\ \A k \in 1 .. 12 : initMrf[35 + k] = setAddresses[k]
  <2>1. Joins(initMrf, a2, 35, setAddresses, 12)
    BY <1>1, <1>7, SetAddresses, JoinedTransactions
  <2> QED BY <2>1 DEF Joins
<1>9. \A k \in 1 .. 17 : initMrf[k] = setRegisters[k]
  <2>1. \A k \in 1 .. 17 : k \in 1 .. 35 /\ k \in 1 .. 34
    OBVIOUS
  <2>2. \A k \in 1 .. 17 : initMrf[k] = a2[k]
    BY <1>8, <2>1
  <2>3. \A k \in 1 .. 17 : a2[k] = a1[k]
    BY <1>7, <2>1
  <2> QED BY <1>6, <2>2, <2>3
<1>10. \A k \in 18 .. 34 : initMrf[k] = printRegisters[k - 17]
  <2>1. \A k \in 18 .. 34 : k - 17 \in 1 .. 17 /\ 17 + (k - 17) = k /\ k \in 1 .. 34 /\ k \in 1 .. 35
    OBVIOUS
  <2>2. \A k \in 18 .. 34 : initMrf[k] = a1[k]
    BY <2>1, <1>7, <1>8
  <2>3. \A k \in 18 .. 34 : a1[17 + (k - 17)] = printRegisters[k - 17]
    BY <2>1, <1>6
  <2> QED BY <2>1, <2>2, <2>3
<1>11. \A k \in 36 .. 47 : initMrf[k] = setAddresses[k - 35]
  <2>1. \A k \in 36 .. 47 : k - 35 \in 1 .. 12 /\ 35 + (k - 35) = k
    OBVIOUS
  <2>2. \A k \in 36 .. 47 : initMrf[35 + (k - 35)] = setAddresses[k - 35]
    BY <2>1, <1>8
  <2> QED BY <2>1, <2>2
<1>12. \A k \in 18 .. 34 : k - 17 \in 1 .. 17
  OBVIOUS
<1>13. \A k \in 36 .. 47 : k - 35 \in 1 .. 12
  OBVIOUS
<1>14. \A k \in 18 .. 34 : OneRead(initMrf[k], RegisterCell(register_value_pairs[k - 17][1]))
  BY <1>3, <1>10, <1>12
<1>15. \A k \in 36 .. 47 : OneWrite(initMrf[k], Cell("short", k - 35), InitAddresses[k - 35])
  BY SetAddresses, <1>11, <1>13
<1>16. \A k \in 1 .. 17 : OneWrite(initMrf[k], RegisterCell(register_value_pairs[k][1]),
                                    register_value_pairs[k][2])
  BY <1>2, <1>9, Zenon
<1>17. OneWrite(initMrf[35], Cell("short", 50), 246)
  <2>1. 35 \in 1 .. 35
    OBVIOUS
  <2> QED BY <1>4, <1>7, <1>8, <2>1, Zenon
<1> QED BY <1>8, <1>14, <1>15, <1>16, <1>17, Zenon

-----------------------------------------------------------------------------
(* The invariant.                                                          *)

Receiver  == ReceiveFrameWithSPIOnly
Sender    == SendOneFrameUsingPeripheralInterfaceOnly
RunsInitMrf == program \in {Sender, Receiver}

\* What the setup and the loop of a program consist of.
ItemsOf(p) == IF p = Receiver THEN Transactions \cup {wait, burst} ELSE Transactions

Left == Len(todo)

Types ==
  /\ TypeOK
  /\ todo \in Seq(ItemsOf(program))
  /\ offset \in Nat
  /\ position \in (IF todo = <<>> THEN {1} ELSE 1 .. Len(todo[1]))

\* What the chip knows, whether it is selected, the command and the offset, of a
\* transaction that came to the position `p'.
Follows(t, p, s, c, o) ==
  /\ t \in Transactions
  /\ s = TRUE
  /\ c = (IF p = 2 THEN <<>> ELSE IF p = 3 THEN <<t[2].byte>> ELSE CommandOf(t))
  /\ o = (IF p > Width(t) + 2 THEN p - Width(t) - 2 ELSE 0)

BusIsFollowed ==
  todo # <<>> /\ position > 1 =>
    Follows(todo[1], position, selected, command, offset)

\* The transaction, or what the program does between two, does not write the cell.
Leaves(t, c) == t \in {wait, burst} \/ ~WritesTo(t, c)

LeftAlone(c, k) == \A j \in k .. Left : Leaves(todo[j], c) /\ Leaves(todo[j], ResetCell)

\* What initMrf leaves behind.
FinalCells == {<<Cell("short", i), InitAddresses[i]>> : i \in 1 .. 12}
                \cup {<<Cell("short", 54), 0>>, <<Cell("long", 512), 19>>}

\* The cell has its final value, or the last transaction left that writes it writes
\* that value.
Settled(c, v) == memory[c] = v /\ LeftAlone(c, 1)
Owed(c, v) ==
  \E k \in 1 .. Left : /\ OneWrite(todo[k], c, v)
                       /\ k = 1 /\ position = Len(todo[1]) => memory[c] = v
                       /\ LeftAlone(c, k + 1)

InitMrfSettles == RunsInitMrf => \A f \in FinalCells : Settled(f[1], f[2]) \/ Owed(f[1], f[2])

-----------------------------------------------------------------------------
(* Reception.                                                              *)

InterruptCell == Cell("short", mrf_register_interrupt_status)
SizeCell      == Cell("long", mrf_rx_fifo_start)
ReceptionCells == {InterruptCell} \cup {Cell("long", a) : a \in 768 .. 780}

\* No data byte of a transaction goes to the interrupt status or the receive FIFO.
SparesReception(t) == \A c \in ReceptionCells : ~WritesTo(t, c)

Burst1(n) == readBurstFromLongAddress(mrf_rx_fifo_start, n)
Bursting  == \E n \in Byte : todo = <<Burst1(n)>>

LoopBegins == todo = Receiver.loop
Waiting    == todo = <<wait, getReceivedMessageSize, burst>>
Sizing     == todo = <<getReceivedMessageSize, burst>>
ToBurst    == todo = <<burst>>

\* What of initMrf and the promiscuous mode is left, before the loop.
SettingUp ==
  /\ Left \in 5 .. 52
  /\ \A k \in 1 .. (Left - 4) : todo[k] \in Transactions /\ SparesReception(todo[k])
  /\ \A k \in 1 .. 4 : todo[Left - 4 + k] = Receiver.loop[k]
  /\ Left = 52 => OneWrite(todo[1], ResetCell, mrf_value_full_software_reset)

ReceiverIsOnTrack ==
  program = Receiver =>
    SettingUp \/ LoopBegins \/ Waiting \/ Sizing \/ ToBurst \/ Bursting \/ todo = <<>>

GotPacket == \E p \in Packets : FifoHolds(p)
Reports(status) == (status \div 8) % 2 = 1

BeforeReset == Left = 52 /\ position <= 3

InterruptMeansPacket ==
  program = Receiver /\ ~BeforeReset /\ Reports(memory[InterruptCell]) => GotPacket

\* What was read so far of the packet in the FIFO.
ReceiverReads ==
  program = Receiver =>
    /\ (LoopBegins /\ position = 4) \/ Waiting =>
         kept # <<>> /\ (Reports(LastByte) => GotPacket)
    /\ Sizing \/ ToBurst \/ Bursting \/ todo = <<>> => GotPacket
    /\ Sizing /\ position <= 4 => kept = <<>>
    /\ (Sizing /\ position = 5) \/ ToBurst =>
         /\ Len(kept) = 1
         /\ ~overtaken => kept[1] = memory[SizeCell]
    /\ \A n \in Byte : todo = <<Burst1(n)>> =>
         /\ Len(kept) = IF position <= 4 THEN 0 ELSE position - 4
         /\ ~overtaken => n = memory[SizeCell] + 1 /\ FifoHolds(kept)
    /\ todo = <<>> /\ ~overtaken => Len(kept) = memory[SizeCell] + 1 /\ FifoHolds(kept)

-----------------------------------------------------------------------------
(* The setup and the loop of the programs.                                 *)

LEMMA PollAndSize ==
  /\ OneRead(gotNewMessage, InterruptCell) /\ Width(gotNewMessage) = 1 /\ Len(gotNewMessage) = 4
  /\ OneRead(getReceivedMessageSize, SizeCell) /\ Width(getReceivedMessageSize) = 2
  /\ Len(getReceivedMessageSize) = 5
<1>1. OneRead(gotNewMessage, InterruptCell) /\ Width(gotNewMessage) = 1
  <2>1. 49 \in 0 .. 63 /\ gotNewMessage = readByteFromShortAddress(49)
        /\ InterruptCell = Cell("short", 49)
    BY DEF gotNewMessage, mrf_register_interrupt_status, InterruptCell
  <2> QED BY <2>1, ShortRead DEF OneRead, Transactions, Width, IsTransaction
<1>2. /\ OneRead(getReceivedMessageSize, SizeCell) /\ Width(getReceivedMessageSize) = 2
      /\ Len(getReceivedMessageSize) = 5
  <2> DEFINE t == getReceivedMessageSize
             start == mrf_rx_fifo_start
  <2>1. /\ start \in LongAddress /\ 1 \in Nat /\ 1 \in 1 .. 1 /\ 1 \in Int
        /\ t = readBurstFromLongAddress(start, 1)
        /\ SizeCell = Cell("long", start) /\ start + 1 - 1 = start
    BY DEF getReceivedMessageSize, mrf_rx_fifo_start, SizeCell, LongAddress,
           readByteFromLongAddress, readBurstFromLongAddress
  <2> HIDE DEF t, start
  <2>2. /\ IsTransaction(t) /\ IsLong(t) /\ DataLength(t) = 1 /\ Len(t) = 1 + 4
        /\ \A i \in 1 .. 1 : Datum(t, i) = [op |-> "read"]
        /\ ~IsWriteCommand(CommandOf(t))
        /\ \A i \in Int : CellOfByte(CommandOf(t), i) = Cell("long", start + i - 1)
    BY <2>1, LongRead, ZenonT(60)
  <2>3. Datum(t, 1) = [op |-> "read"] /\ CellOfByte(CommandOf(t), 1) = SizeCell
    BY <2>1, <2>2
  <2>4. Len(t) = 5 /\ Width(t) = 2
    BY <2>2 DEF Width
  <2>5. OneRead(t, SizeCell)
    BY <2>2, <2>3, Zenon DEF OneRead, Transactions, IsTransaction
  <2> QED BY <2>4, <2>5 DEF t
<1>3. Len(gotNewMessage) = 4
  <2>1. Len(gotNewMessage) \in Nat
    BY <1>1 DEF OneRead, Transactions
  <2> QED BY <1>1, <2>1 DEF OneRead, DataLength
<1> QED BY <1>1, <1>2, <1>3

LEMMA ReceiverShape ==
  /\ Receiver.setup \in Seq(Transactions) /\ Len(Receiver.setup) = 48
  /\ \A k \in 1 .. 47 : Receiver.setup[k] = initMrf[k]
  /\ OneWrite(Receiver.setup[48], Cell("short", 0), 1)
  /\ Receiver.loop = <<gotNewMessage, wait, getReceivedMessageSize, burst>>
<1> DEFINE e == enablePromiscuous
           q == <<e>>
           u == Receiver.setup
<1>1. u = initMrf \o q /\ Receiver.loop = <<gotNewMessage, wait, getReceivedMessageSize, burst>>
  BY DEF Receiver, ReceiveFrameWithSPIOnly
<1>2. OneWrite(e, Cell("short", 0), 1)
  <2>1. /\ 0 \in RegisterAddresses /\ 1 \in Byte /\ RegisterCell(0) = Cell("short", 0)
        /\ e = setRegister(0, 1)
    BY DEF RegisterAddresses, Byte, RegisterCell, enablePromiscuous, mrf_register_receive_mac_control
  <2> QED BY <2>1, SetRegister
<1>3. q \in Seq(Transactions) /\ Len(q) = 1 /\ q[1] = e
  <2>1. e \in Transactions
    BY <1>2 DEF OneWrite
  <2> HIDE DEF Transactions, e
  <2> QED BY <2>1
<1> HIDE DEF e, q, u
<1>4. Joins(u, initMrf, 47, q, 1)
  BY <1>1, <1>3, InitMrfShape, JoinedTransactions
<1>5. u[48] = q[1]
  <2>1. 1 \in 1 .. 1 /\ 47 + 1 = 48
    OBVIOUS
  <2> QED BY <1>4, <2>1 DEF Joins
<1>6. u \in Seq(Transactions) /\ Len(u) = 48 /\ \A k \in 1 .. 47 : u[k] = initMrf[k]
  BY <1>4 DEF Joins
<1> QED BY <1>1, <1>2, <1>3, <1>5, <1>6 DEF u

\* What a program with initMrf does afterwards leaves the configuration alone.
LEMMA SenderShape ==
  /\ Sender.setup = initMrf
  /\ Sender.loop \in Seq(Transactions) /\ Len(Sender.loop) = 3
  /\ \A k \in 1 .. 3 : \A c \in {f[1] : f \in FinalCells} \cup {ResetCell} :
       ~WritesTo(Sender.loop[k], c)
<1> DEFINE bytes == SubSeq(frame, 1, frame[2])
           t1 == writeBurstToLongAddress(0, bytes)
           t2 == setRegister(27, 1)
           t3 == readByteFromShortAddress(36)
<1>1. Sender.setup = initMrf /\ Sender.loop = <<t1, t2>> \o <<t3>>
  BY DEF Sender, SendOneFrameUsingPeripheralInterfaceOnly, sendToCoordinator,
         mrf_tx_fifo_start, mrf_register_tx_normal_fifo_control
<1>2. bytes \in Seq(Byte) /\ Len(bytes) = 11
  <2>1. /\ Len(frame) = 13 /\ frame[2] = 11
        /\ \A i \in 1 .. 11 : frame[i] \in Byte
    BY DEF frame, Byte
  <2>2. bytes = [i \in 1 .. 11 |-> frame[i]]
    BY <2>1 DEF frame
  <2> HIDE DEF bytes
  <2> QED BY <2>1, <2>2
<1>3. /\ t1 \in Transactions /\ DataLength(t1) = 11
      /\ \A i \in Int : CellOfByte(CommandOf(t1), i) = Cell("long", i - 1)
  <2>1. 0 \in LongAddress /\ \A i \in Int : 0 + i - 1 = i - 1
    BY DEF LongAddress
  <2> HIDE DEF bytes
  <2>2. /\ IsTransaction(t1) /\ DataLength(t1) = Len(bytes)
        /\ \A i \in Int : CellOfByte(CommandOf(t1), i) = Cell("long", 0 + i - 1)
    BY <1>2, <2>1, LongWrite
  <2>3. t1 \in Transactions
    BY <2>2, Zenon DEF Transactions, IsTransaction
  <2> QED BY <1>2, <2>1, <2>2, <2>3
<1>4. OneWrite(t2, Cell("short", 27), 1)
  <2>1. /\ 27 \in RegisterAddresses /\ 1 \in Byte /\ RegisterCell(27) = Cell("short", 27)
    BY DEF RegisterAddresses, Byte, RegisterCell
  <2> QED BY <2>1, SetRegister
<1>5. t3 \in Transactions /\ \A c : ~WritesTo(t3, c)
  <2>1. 36 \in 0 .. 63
    OBVIOUS
  <2>2. IsTransaction(t3) /\ \A c : ~WritesTo(t3, c)
    BY <2>1, ShortRead
  <2> QED BY <2>2, Zenon DEF Transactions, IsTransaction
<1>6. t2 \in Transactions
  BY <1>4 DEF OneWrite
<1> HIDE DEF t1, t2, t3
<1>7. /\ Sender.loop \in Seq(Transactions) /\ Len(Sender.loop) = 3
      /\ Sender.loop[1] = t1 /\ Sender.loop[2] = t2 /\ Sender.loop[3] = t3
  <2> HIDE DEF Transactions
  <2> DEFINE a == <<t1, t2>>
             b == <<t3>>
  <2>1. /\ a \in Seq(Transactions) /\ Len(a) = 2 /\ a[1] = t1 /\ a[2] = t2
        /\ b \in Seq(Transactions) /\ Len(b) = 1 /\ b[1] = t3
    BY <1>3, <1>5, <1>6
  <2>2. Sender.loop = a \o b
    BY <1>1
  <2> HIDE DEF a, b
  <2>3. Joins(Sender.loop, a, 2, b, 1)
    BY <2>1, <2>2, JoinedTransactions
  <2>4. /\ Sender.loop[1] = a[1] /\ Sender.loop[2] = a[2] /\ Sender.loop[3] = b[1]
    <3>1. 1 \in 1 .. 2 /\ 2 \in 1 .. 2 /\ 1 \in 1 .. 1 /\ 2 + 1 = 3
      OBVIOUS
    <3> QED BY <2>3, <3>1 DEF Joins
  <2>5. Sender.loop \in Seq(Transactions) /\ Len(Sender.loop) = 3
    BY <2>3 DEF Joins
  <2> QED BY <2>1, <2>4, <2>5
<1>8. ASSUME NEW c \in {f[1] : f \in FinalCells} \cup {ResetCell}
      PROVE  ~WritesTo(t1, c) /\ ~WritesTo(t2, c) /\ ~WritesTo(t3, c)
  <2>1. \/ \E i \in 1 .. 12 : c = <<"short", i>>
        \/ c = <<"short", 54>> \/ c = <<"long", 512>> \/ c = <<"short", 42>>
    BY DEF FinalCells, Cell, ResetCell, mrf_register_software_reset
  <2>2. \A i \in 1 .. 11 : c # <<"long", i - 1>>
    BY <2>1
  <2>3. c # <<"short", 27>>
    BY <2>1
  <2>4. \A i \in 1 .. 11 : CellOfByte(CommandOf(t1), i) = <<"long", i - 1>>
    BY <1>3 DEF Cell
  <2>5. ~WritesTo(t1, c)
    BY <1>3, <2>2, <2>4, Zenon DEF WritesTo
  <2>6. ~WritesTo(t2, c)
    BY <1>4, <2>3, WritesOfOne DEF Cell
  <2> QED BY <1>5, <2>5, <2>6
<1> QED BY <1>1, <1>7, <1>8

\* A transaction that writes `bytes' from the cell `a' on, one that reads `n' bytes.
\* A short command names the same cell for all of its bytes.
CellFrom(space, a, i) == Cell(space, IF space = "long" THEN a + i - 1 ELSE a)

Puts(t, space, a, bytes) ==
  /\ t \in Transactions /\ IsWriteCommand(CommandOf(t)) /\ (IsLong(t) <=> space = "long")
  /\ DataLength(t) = Len(bytes)
  /\ \A i \in 1 .. Len(bytes) : /\ Datum(t, i) = [op |-> "write", byte |-> bytes[i]]
                                /\ CellOfByte(CommandOf(t), i) = CellFrom(space, a, i)

Gets(t, space, a, n) ==
  /\ t \in Transactions /\ ~IsWriteCommand(CommandOf(t)) /\ (IsLong(t) <=> space = "long")
  /\ DataLength(t) = n
  /\ \A i \in 1 .. n : /\ Datum(t, i) = [op |-> "read"]
                       /\ CellOfByte(CommandOf(t), i) = CellFrom(space, a, i)

\* A command, its kind and the address it names.
IsCommandFor(c, space, a) ==
  /\ c \in Commands /\ CommandAddress(c) = a
  /\ space \in {"short", "long"} /\ (IsLongCommand(c) <=> space = "long")

LEMMA BusTransaction ==
  ASSUME NEW c, NEW space, NEW a, IsCommandFor(c, space, a), NEW data \in Seq(DataOps),
         NEW t, t = Transaction(c, data)
  PROVE  /\ t \in Transactions /\ CommandOf(t) = c /\ (IsLong(t) <=> space = "long")
         /\ DataLength(t) = Len(data)
         /\ \A i \in 1 .. Len(data) : /\ Datum(t, i) = data[i]
                                      /\ CellOfByte(CommandOf(t), i) = CellFrom(space, a, i)
<1>1. /\ IsTransaction(t) /\ CommandOf(t) = c /\ (IsLong(t) <=> IsLongCommand(c))
      /\ DataLength(t) = Len(data)
      /\ \A i \in 1 .. Len(data) : Datum(t, i) = data[i]
  BY TransactionShape DEF IsCommandFor
<1>2. t \in Transactions
  BY <1>1, Zenon DEF Transactions, IsTransaction
<1>3. \A i : CellOfByte(c, i) = CellFrom(space, a, i)
  BY Zenon DEF IsCommandFor, CellOfByte, CellFrom
<1> QED BY <1>1, <1>2, <1>3, Zenon DEF IsCommandFor

LEMMA PutBytes ==
  ASSUME NEW c, NEW space, NEW a, IsCommandFor(c, space, a), IsWriteCommand(c),
         NEW bytes \in Seq(Byte)
  PROVE  Puts(Transaction(c, write(bytes)), space, a, bytes)
<1> DEFINE t == Transaction(c, write(bytes))
<1>1. /\ write(bytes) \in Seq(DataOps) /\ Len(write(bytes)) = Len(bytes)
      /\ \A i \in 1 .. Len(bytes) : write(bytes)[i] = [op |-> "write", byte |-> bytes[i]]
  BY WriteSequence
<1> HIDE DEF t
<1>2. /\ t \in Transactions /\ CommandOf(t) = c /\ (IsLong(t) <=> space = "long")
      /\ DataLength(t) = Len(write(bytes))
      /\ \A i \in 1 .. Len(write(bytes)) : /\ Datum(t, i) = write(bytes)[i]
                                           /\ CellOfByte(CommandOf(t), i) = CellFrom(space, a, i)
  BY <1>1, BusTransaction, Zenon DEF t
<1>3. Puts(t, space, a, bytes)
  BY <1>1, <1>2, Zenon DEF Puts
<1> QED BY <1>3 DEF t

LEMMA GetBytes ==
  ASSUME NEW c, NEW space, NEW a, IsCommandFor(c, space, a), ~IsWriteCommand(c), NEW n \in Nat
  PROVE  Gets(Transaction(c, read(n)), space, a, n)
<1> DEFINE t == Transaction(c, read(n))
<1>1. /\ read(n) \in Seq(DataOps) /\ Len(read(n)) = n
      /\ \A i \in 1 .. n : read(n)[i] = [op |-> "read"]
  BY ReadSequence
<1> HIDE DEF t
<1>2. /\ t \in Transactions /\ CommandOf(t) = c /\ (IsLong(t) <=> space = "long")
      /\ DataLength(t) = Len(read(n))
      /\ \A i \in 1 .. Len(read(n)) : /\ Datum(t, i) = read(n)[i]
                                      /\ CellOfByte(CommandOf(t), i) = CellFrom(space, a, i)
  BY <1>1, BusTransaction, Zenon DEF t
<1>3. Gets(t, space, a, n)
  BY <1>1, <1>2, Zenon DEF Gets
<1> QED BY <1>3 DEF t

\* Which cells such transactions write.
LEMMA CellsWritten ==
  /\ \A t, space, a, bytes, d : Puts(t, space, a, bytes) =>
       (WritesTo(t, d) <=> \E i \in 1 .. Len(bytes) : d = CellFrom(space, a, i))
  /\ \A t, space, a, n, d : Gets(t, space, a, n) => ~WritesTo(t, d)
<1>1. ASSUME NEW t, NEW space, NEW a, NEW bytes, NEW d, Puts(t, space, a, bytes)
      PROVE  WritesTo(t, d) <=> \E i \in 1 .. Len(bytes) : d = CellFrom(space, a, i)
  BY <1>1, Zenon DEF Puts, WritesTo
<1>2. ASSUME NEW t, NEW space, NEW a, NEW n, NEW d, Gets(t, space, a, n)
      PROVE  ~WritesTo(t, d)
  BY <1>2, Zenon DEF Gets, WritesTo
<1> QED BY <1>1, <1>2, Zenon

LEMMA ProgramCommands ==
  /\ IsCommandFor(<<\h80, \h10>>, "long", 0) /\ IsWriteCommand(<<\h80, \h10>>)
  /\ IsCommandFor(<<\h80, \h00>>, "long", 0) /\ ~IsWriteCommand(<<\h80, \h00>>)
  /\ IsCommandFor(<<92>>, "short", 46) /\ ~IsWriteCommand(<<92>>)
  /\ IsCommandFor(<<95>>, "short", 47) /\ IsWriteCommand(<<95>>)
  /\ \A a \in 0 .. 63 :
       /\ IsCommandFor(readShortCommand(a), "short", a) /\ ~IsWriteCommand(readShortCommand(a))
       /\ IsCommandFor(writeShortCommand(a), "short", a) /\ IsWriteCommand(writeShortCommand(a))
<1>1. /\ IsCommandFor(<<\h80, \h10>>, "long", 0) /\ IsWriteCommand(<<\h80, \h10>>)
      /\ IsCommandFor(<<\h80, \h00>>, "long", 0) /\ ~IsWriteCommand(<<\h80, \h00>>)
  BY DEF IsCommandFor, Commands, CommandAddress, IsLongCommand, IsWriteCommand, Byte
<1>2. /\ IsCommandFor(<<92>>, "short", 46) /\ ~IsWriteCommand(<<92>>)
      /\ IsCommandFor(<<95>>, "short", 47) /\ IsWriteCommand(<<95>>)
  BY DEF IsCommandFor, Commands, CommandAddress, IsLongCommand, IsWriteCommand, Byte
<1>3. ASSUME NEW a \in 0 .. 63
      PROVE  /\ IsCommandFor(readShortCommand(a), "short", a) /\ ~IsWriteCommand(readShortCommand(a))
             /\ IsCommandFor(writeShortCommand(a), "short", a) /\ IsWriteCommand(writeShortCommand(a))
  <2>1. a \in 0 .. LastShortControlRegisterAddress
    BY DEF LastShortControlRegisterAddress
  <2>2. "short" \in {"short", "long"} /\ "short" # "long"
    OBVIOUS
  <2> QED BY <2>1, <2>2, ShortCommands, CommandsAreCommands, Zenon
          DEF readShortCommand, writeShortCommand, IsCommandFor
<1> QED BY <1>1, <1>2, <1>3

LEMMA TransactionTuples ==
  ASSUME NEW t1 \in Transactions, NEW t2 \in Transactions,
         NEW t3 \in Transactions, NEW t4 \in Transactions
  PROVE  /\ <<>> \in Seq(Transactions)
         /\ <<t1>> \in Seq(Transactions)
         /\ <<t1, t2>> \in Seq(Transactions)
         /\ <<t1, t2, t3>> \in Seq(Transactions)
         /\ <<t1, t2, t3, t4>> \in Seq(Transactions)
<1> HIDE DEF Transactions
<1> QED OBVIOUS

\* The transactions the programs put together themselves, and those of their helpers.
LEMMA ProgramTransactions ==
  /\ \A bytes \in Seq(Byte) : Puts(Transaction(<<\h80, \h10>>, write(bytes)), "long", 0, bytes)
  /\ \A n \in Nat : Gets(Transaction(<<\h80, \h00>>, read(n)), "long", 0, n)
  /\ \A bytes \in Seq(Byte) : Puts(Transaction(<<95>>, write(bytes)), "short", 47, bytes)
  /\ \A n \in Nat : Gets(Transaction(<<92>>, read(n)), "short", 46, n)
  /\ \A a \in 0 .. 63, bytes \in Seq(Byte) :
       Puts(Transaction(writeShortCommand(a), write(bytes)), "short", a, bytes)
  /\ \A a \in 0 .. 63, n \in Nat :
       Gets(Transaction(readShortCommand(a), read(n)), "short", a, n)
<1>1. \A c, space, a : IsCommandFor(c, space, a) /\ IsWriteCommand(c) =>
        \A bytes \in Seq(Byte) : Puts(Transaction(c, write(bytes)), space, a, bytes)
  BY PutBytes, Zenon
<1>2. \A c, space, a : IsCommandFor(c, space, a) /\ ~IsWriteCommand(c) =>
        \A n \in Nat : Gets(Transaction(c, read(n)), space, a, n)
  BY GetBytes, Zenon
<1>3. \A bytes \in Seq(Byte) : Puts(Transaction(<<\h80, \h10>>, write(bytes)), "long", 0, bytes)
  BY <1>1, ProgramCommands, Zenon
<1>4. \A n \in Nat : Gets(Transaction(<<\h80, \h00>>, read(n)), "long", 0, n)
  BY <1>2, ProgramCommands, Zenon
<1>5. \A bytes \in Seq(Byte) : Puts(Transaction(<<95>>, write(bytes)), "short", 47, bytes)
  BY <1>1, ProgramCommands, Zenon
<1>6. \A n \in Nat : Gets(Transaction(<<92>>, read(n)), "short", 46, n)
  BY <1>2, ProgramCommands, Zenon
<1>7. \A a \in 0 .. 63, bytes \in Seq(Byte) :
        Puts(Transaction(writeShortCommand(a), write(bytes)), "short", a, bytes)
  BY <1>1, ProgramCommands, Zenon
<1>8. \A a \in 0 .. 63, n \in Nat :
        Gets(Transaction(readShortCommand(a), read(n)), "short", a, n)
  BY <1>2, ProgramCommands, Zenon
<1> QED BY <1>3, <1>4, <1>5, <1>6, <1>7, <1>8

\* Every text is of bytes.
LEMMA Texts ==
  ASSUME NEW n \in 0 .. 100
  PROVE  Text(n) \in Seq(Byte) /\ Len(Text(n)) = n
<1>1. \A i \in 1 .. n : 96 + i \in Byte
  BY DEF Byte
<1> HIDE DEF Byte
<1> QED BY <1>1 DEF Text

LEMMA HelloWorld == hello_world \in Seq(Byte) /\ Len(hello_world) = 14
<1>1. Text(13) \in Seq(Byte) /\ Len(Text(13)) = 13
  BY Texts
<1>2. <<0>> \in Seq(Byte) /\ Len(<<0>>) = 1
  BY DEF Byte
<1>3. \A s \in Seq(Byte), t \in Seq(Byte) :
        s \o t \in Seq(Byte) /\ Len(s \o t) = Len(s) + Len(t)
  <2> HIDE DEF Byte
  <2> QED OBVIOUS
<1>4. hello_world \in Seq(Byte) /\ Len(hello_world) = 13 + 1
  BY <1>1, <1>2, <1>3, Zenon DEF hello_world
<1> QED BY <1>4

\* A program of these two sequences of transactions.
IsScript(p, setup, loop) ==
  p.setup = setup /\ p.loop = loop /\ setup \in Seq(Transactions) /\ loop \in Seq(Transactions)

\* The programs without initMrf, one by one.
LEMMA ReadTxFifoMemoryScript ==
  \E t1, t2 : /\ IsScript(ReadTxFifoMemory, <<t1>>, <<t2>>)
              /\ Puts(t1, "long", 0, hello_world) /\ Gets(t2, "long", 0, 15)
<1> DEFINE t1 == Transaction(<<\h80, \h10>>, write(hello_world))
           t2 == Transaction(<<\h80, \h00>>, read(15))
<1>1. ReadTxFifoMemory.setup = <<t1>> /\ ReadTxFifoMemory.loop = <<t2>>
  BY DEF ReadTxFifoMemory, writeTxMemory, printTxMemory
<1>2. 15 \in Nat
  OBVIOUS
<1>3. Puts(t1, "long", 0, hello_world) /\ Gets(t2, "long", 0, 15)
  BY <1>2, ProgramTransactions, HelloWorld, Zenon
<1> HIDE DEF t1, t2
<1>4. t1 \in Transactions /\ t2 \in Transactions
  BY <1>3, Zenon DEF Puts, Gets
<1>5. <<t1>> \in Seq(Transactions) /\ <<t2>> \in Seq(Transactions)
  BY <1>4, TransactionTuples
<1> QED BY <1>1, <1>3, <1>5, Zenon DEF IsScript

LEMMA StabilizationScripts ==
  \A p \in {ReadMrfTxStabilizationRegister, SPITestWithoutCommunicationModuleAndLufa} :
    \E t1 : IsScript(p, <<>>, <<t1>>) /\ Gets(t1, "short", 46, 1)
<1> SUFFICES ASSUME NEW p \in {ReadMrfTxStabilizationRegister,
                               SPITestWithoutCommunicationModuleAndLufa}
             PROVE  \E t1 : IsScript(p, <<>>, <<t1>>) /\ Gets(t1, "short", 46, 1)
  OBVIOUS
<1> DEFINE t1 == Transaction(<<92>>, read(1))
<1>1. p.setup = <<>> /\ p.loop = <<t1>>
  <2>1. mrf_register_tx_stabilization * 2 = 92 /\ \h2E * 2 = 92
    BY DEF mrf_register_tx_stabilization
  <2> QED BY <2>1 DEF ReadMrfTxStabilizationRegister, SPITestWithoutCommunicationModuleAndLufa
<1>2. 1 \in Nat
  OBVIOUS
<1>3. Gets(t1, "short", 46, 1)
  BY <1>2, ProgramTransactions, Zenon
<1> HIDE DEF t1
<1>4. t1 \in Transactions
  BY <1>3, Zenon DEF Gets
<1>5. <<t1>> \in Seq(Transactions) /\ <<>> \in Seq(Transactions)
  BY <1>4, TransactionTuples
<1> QED BY <1>1, <1>3, <1>5, Zenon DEF IsScript

LEMMA SPITestScript ==
  \E t1, t2, t3, t4 :
    /\ IsScript(SPITestWithLufaOnly, <<t1>>, <<t2, t3, t4>>)
    /\ Puts(t1, "short", 47, <<\h55>>) /\ Gets(t2, "short", 46, 1)
    /\ Puts(t3, "long", 0, Text(11)) /\ Gets(t4, "long", 0, 11)
<1> DEFINE t1 == Transaction(<<95>>, write(<<\h55>>))
           t2 == Transaction(<<92>>, read(1))
           t3 == Transaction(<<\h80, \h10>>, write(Text(11)))
           t4 == Transaction(<<\h80, \h00>>, read(11))
<1>1. SPITestWithLufaOnly.setup = <<t1>> /\ SPITestWithLufaOnly.loop = <<t2, t3, t4>>
  <2>1. uint8(\h2F * 2 + 1) = 95 /\ 2 * ((uint8(\h2E * 2) \div 2) % 64) = 92
    BY DEF uint8
  <2> QED BY <2>1 DEF SPITestWithLufaOnly, writeByteToShortRegisterAddress,
                      readByteFromShortAddressRegister, writeStringToTX, readBurst
<1>2. 1 \in Nat /\ 11 \in Nat /\ <<\h55>> \in Seq(Byte) /\ Text(11) \in Seq(Byte)
  BY Texts DEF Byte
<1>3. Puts(t1, "short", 47, <<\h55>>) /\ Gets(t2, "short", 46, 1)
  BY <1>2, ProgramTransactions, Zenon
<1>4. Puts(t3, "long", 0, Text(11)) /\ Gets(t4, "long", 0, 11)
  BY <1>2, ProgramTransactions, Zenon
<1> HIDE DEF t1, t2, t3, t4
<1>5. t1 \in Transactions /\ t2 \in Transactions /\ t3 \in Transactions /\ t4 \in Transactions
  BY <1>3, <1>4, Zenon DEF Puts, Gets
<1>6. <<t1>> \in Seq(Transactions) /\ <<t2, t3, t4>> \in Seq(Transactions)
  BY <1>5, TransactionTuples
<1> QED BY <1>1, <1>3, <1>4, <1>6, Zenon DEF IsScript

LEMMA ThreeInTurn ==
  ASSUME NEW D, NEW s \in Seq(D), NEW u \in Seq(D), Len(s) = 1, Len(u) = 1
  PROVE  s \o u \o s \in Seq(D) /\ Len(s \o u \o s) = 3 /\ (s \o u \o s)[1] = s[1]
<1>1. \A v \in Seq(D), w \in Seq(D) :
        /\ v \o w \in Seq(D) /\ Len(v \o w) = Len(v) + Len(w)
        /\ \A i \in 1 .. (Len(v) + Len(w)) :
             (v \o w)[i] = IF i <= Len(v) THEN v[i] ELSE w[i - Len(v)]
  BY ConcatProperties, Zenon
<1> DEFINE v == s \o u
<1>2. v \in Seq(D) /\ Len(v) = 1 + 1 /\ v[1] = s[1]
  BY <1>1
<1> HIDE DEF v
<1>3. v \o s \in Seq(D) /\ Len(v \o s) = 3 /\ (v \o s)[1] = s[1]
  BY <1>1, <1>2
<1> QED BY <1>3 DEF v

\* A read that sends another command instead of ending is one transaction, whose
\* first byte comes from the address of the first command.
LEMMA ReadThenCommand ==
  ASSUME NEW c, NEW d, NEW t,
         IsCommandFor(c, "short", 3), ~IsWriteCommand(c), IsCommandFor(d, "short", 4),
         t = Transaction(c, read(1) \o write(d) \o read(1))
  PROVE  /\ t \in Transactions /\ ~IsWriteCommand(CommandOf(t)) /\ DataLength(t) = 3
         /\ Datum(t, 1) = [op |-> "read"] /\ CellOfByte(CommandOf(t), 1) = Cell("short", 3)
<1>1. d \in Seq(Byte) /\ Len(d) = 1
  BY DEF IsCommandFor, Commands, IsLongCommand, Byte
<1>2. read(1) \in Seq(DataOps) /\ Len(read(1)) = 1 /\ read(1)[1] = [op |-> "read"]
  <2>1. 1 \in Nat /\ 1 \in 1 .. 1
    OBVIOUS
  <2> QED BY <2>1, ReadSequence, Zenon
<1>3. write(d) \in Seq(DataOps) /\ Len(write(d)) = 1
  BY <1>1, WriteSequence, Zenon
<1> DEFINE data == read(1) \o write(d) \o read(1)
<1>4. data \in Seq(DataOps) /\ Len(data) = 3 /\ data[1] = [op |-> "read"]
  BY <1>2, <1>3, ThreeInTurn, Zenon
<1>5. t = Transaction(c, data)
  BY Zenon
<1> HIDE DEF data
<1>6. /\ t \in Transactions /\ CommandOf(t) = c /\ DataLength(t) = Len(data)
      /\ \A i \in 1 .. Len(data) : /\ Datum(t, i) = data[i]
                                    /\ CellOfByte(CommandOf(t), i) = CellFrom("short", 3, i)
  <2>1. \A space, a :
          IsCommandFor(c, space, a) =>
            \A w : w = Transaction(c, data) =>
              /\ w \in Transactions /\ CommandOf(w) = c /\ DataLength(w) = Len(data)
              /\ \A i \in 1 .. Len(data) :
                   /\ Datum(w, i) = data[i]
                   /\ CellOfByte(CommandOf(w), i) = CellFrom(space, a, i)
    <3> SUFFICES ASSUME NEW space, NEW a, IsCommandFor(c, space, a),
                        NEW w, w = Transaction(c, data)
                 PROVE  /\ w \in Transactions /\ CommandOf(w) = c /\ DataLength(w) = Len(data)
                        /\ \A i \in 1 .. Len(data) :
                             /\ Datum(w, i) = data[i]
                             /\ CellOfByte(CommandOf(w), i) = CellFrom(space, a, i)
      OBVIOUS
    <3>1. /\ w \in Transactions /\ CommandOf(w) = c /\ (IsLong(w) <=> space = "long")
          /\ DataLength(w) = Len(data)
          /\ \A i \in 1 .. Len(data) : /\ Datum(w, i) = data[i]
                                        /\ CellOfByte(CommandOf(w), i) = CellFrom(space, a, i)
      BY <1>4, BusTransaction
    <3> QED BY <3>1, Zenon
  <2> QED BY <2>1, <1>5, Zenon
<1>7. 1 \in 1 .. Len(data) /\ CellFrom("short", 3, 1) = Cell("short", 3)
  BY <1>4 DEF CellFrom
<1> QED BY <1>4, <1>6, <1>7, Zenon

LEMMA WriteReadScript ==
  \E t1, t2, t3, t4, t5, t6 :
    /\ IsScript(WriteReadSourceAddress, <<t1, t2, t3, t4>> \o <<t5, t6>>, <<>>)
    /\ Puts(t1, "short", 3, <<\hFF>>) /\ Puts(t2, "short", 4, <<\hFF>>)
    /\ Gets(t3, "short", 3, 1) /\ Gets(t4, "short", 4, 1)
    /\ Puts(t5, "short", 3, <<\hAA, \hAA>>)
    /\ t6 \in Transactions /\ ~IsWriteCommand(CommandOf(t6)) /\ DataLength(t6) = 3
    /\ Datum(t6, 1) = [op |-> "read"] /\ CellOfByte(CommandOf(t6), 1) = Cell("short", 3)
<1> DEFINE t1 == Transaction(writeShortCommand(3), write(<<\hFF>>))
           t2 == Transaction(writeShortCommand(4), write(<<\hFF>>))
           t3 == Transaction(readShortCommand(3), read(1))
           t4 == Transaction(readShortCommand(4), read(1))
           t5 == Transaction(writeShortCommand(3), write(<<\hAA, \hAA>>))
           data == read(1) \o write(readShortCommand(4)) \o read(1)
           t6 == Transaction(readShortCommand(3), data)
           a == <<t1, t2, t3, t4>>
           b == <<t5, t6>>
<1>1. WriteReadSourceAddress.setup = a \o b /\ WriteReadSourceAddress.loop = <<>>
  <2>1. mrf_register_short_address_low_byte = 3 /\ mrf_register_short_address_low_byte + 1 = 4
    BY DEF mrf_register_short_address_low_byte
  <2> QED BY <2>1 DEF WriteReadSourceAddress, doEachIOByteWise, doEachIOAsByteString
<1>2. /\ 1 \in Nat /\ 3 \in 0 .. 63 /\ 4 \in 0 .. 63
      /\ <<\hFF>> \in Seq(Byte) /\ <<\hAA, \hAA>> \in Seq(Byte)
  BY DEF Byte
<1>3. Puts(t1, "short", 3, <<\hFF>>) /\ Puts(t2, "short", 4, <<\hFF>>)
  <2>1. \A bytes \in Seq(Byte) :
          /\ Puts(Transaction(writeShortCommand(3), write(bytes)), "short", 3, bytes)
          /\ Puts(Transaction(writeShortCommand(4), write(bytes)), "short", 4, bytes)
    BY <1>2, ProgramTransactions, Zenon
  <2> QED BY <1>2, <2>1, Zenon
<1>4. Gets(t3, "short", 3, 1) /\ Gets(t4, "short", 4, 1)
  BY <1>2, ProgramTransactions, Zenon
<1>5. Puts(t5, "short", 3, <<\hAA, \hAA>>)
  BY <1>2, ProgramTransactions, Zenon
<1>6. /\ t6 \in Transactions /\ ~IsWriteCommand(CommandOf(t6)) /\ DataLength(t6) = 3
      /\ Datum(t6, 1) = [op |-> "read"] /\ CellOfByte(CommandOf(t6), 1) = Cell("short", 3)
  <2>1. /\ IsCommandFor(readShortCommand(3), "short", 3) /\ ~IsWriteCommand(readShortCommand(3))
        /\ IsCommandFor(readShortCommand(4), "short", 4)
    BY <1>2, ProgramCommands, Zenon
  <2> HIDE DEF t6
  <2>2. t6 = Transaction(readShortCommand(3),
                         read(1) \o write(readShortCommand(4)) \o read(1))
    BY Zenon DEF t6, data
  <2> HIDE DEF data
  <2> QED BY <2>1, <2>2, ReadThenCommand
<1> HIDE DEF t1, t2, t3, t4, t5, t6
<1>7. /\ t1 \in Transactions /\ t2 \in Transactions /\ t3 \in Transactions
      /\ t4 \in Transactions /\ t5 \in Transactions
  BY <1>3, <1>4, <1>5, Zenon DEF Puts, Gets
<1>8. a \in Seq(Transactions) /\ b \in Seq(Transactions) /\ <<>> \in Seq(Transactions)
  BY <1>6, <1>7, TransactionTuples
<1>9. a \o b \in Seq(Transactions)
  <2> HIDE DEF a, b
  <2> QED BY <1>8, JoinedTransactions, Zenon DEF Joins
<1>10. IsScript(WriteReadSourceAddress, a \o b, <<>>)
  BY <1>1, <1>8, <1>9, Zenon DEF IsScript
<1> QED BY <1>3, <1>4, <1>5, <1>6, <1>10, Zenon

\* The transactions of configure are those of MrfIo, byte by byte.
LEMMA ConfigurationWrite ==
  ASSUME NEW w \in ByteWrites
  PROVE  OneWrite(Transaction(w.command, write(w.payload)), WrittenCell(w), WrittenValue(w))
<1> DEFINE c == w.command
           bytes == w.payload
           t == Transaction(c, write(bytes))
<1>1. c \in Commands /\ IsWriteCommand(c) /\ bytes \in [1 .. 1 -> Byte]
  BY DEF ByteWrites, WriteCommands
<1>2. bytes \in Seq(Byte) /\ Len(bytes) = 1 /\ 1 \in 1 .. 1
  <2>1. \A f \in [1 .. 1 -> Byte] : f \in Seq(Byte)
    <3>1. Seq(Byte) = UNION {[1 .. n -> Byte] : n \in Nat}
      BY SeqDef
    <3>2. 1 \in Nat
      OBVIOUS
    <3> QED BY <3>1, <3>2, Zenon
  <2>2. bytes \in Seq(Byte) /\ DOMAIN bytes = 1 .. 1
    BY <1>1, <2>1
  <2> HIDE DEF bytes
  <2>3. Len(bytes) \in Nat /\ 1 .. Len(bytes) = 1 .. 1
    BY <2>2
  <2> QED BY <2>2, <2>3
<1>3. WrittenCell(w) = CellOfByte(c, 1) /\ WrittenValue(w) = bytes[1]
  BY DEF WrittenCell, WrittenValue
<1> HIDE DEF c, bytes, t
<1>4. /\ write(bytes) \in Seq(DataOps) /\ Len(write(bytes)) = 1
      /\ write(bytes)[1] = [op |-> "write", byte |-> bytes[1]]
  BY <1>2, WriteSequence
<1>5. /\ IsTransaction(t) /\ CommandOf(t) = c /\ DataLength(t) = 1
      /\ Datum(t, 1) = [op |-> "write", byte |-> bytes[1]]
  BY <1>1, <1>2, <1>4, TransactionShape DEF t
<1>6. t \in Transactions
  BY <1>5, Zenon DEF Transactions, IsTransaction
<1>7. OneWrite(t, WrittenCell(w), WrittenValue(w))
  BY <1>1, <1>3, <1>5, <1>6, Zenon DEF OneWrite
<1> QED BY <1>7 DEF t, c, bytes

CheckCalls == ConfigurationWrites(check_config)

\* A function on 1 .. n is a sequence of length n, and the elements of a sequence are in its set.
LEMMA SequenceOf ==
  ASSUME NEW S, NEW n \in Nat, NEW f \in [1 .. n -> S]
  PROVE  f \in Seq(S) /\ Len(f) = n
<1>1. f \in Seq(S)
  BY SeqDef, Zenon
<1>2. Len(f) \in Nat /\ 1 .. Len(f) = 1 .. n
  <2>1. DOMAIN f = 1 .. n
    OBVIOUS
  <2> QED BY <1>1, <2>1, LenProperties, Zenon
<1>3. Len(f) = n
  <2> HIDE DEF Byte
  <2> DEFINE m == Len(f)
  <2>1. m \in Nat /\ 1 .. m = 1 .. n
    BY <1>2
  <2> HIDE DEF m
  <2>2. m = n
    BY <2>1
  <2> QED BY <2>2 DEF m
<1> QED BY <1>1, <1>3

LEMMA Configured ==
  LET s == configure(check_config)
  IN /\ HasLength(CheckCalls, 30) /\ SettlesAll(CheckCalls, ConfiguredCells(check_config))
     /\ s \in Seq(Transactions) /\ Len(s) = 30
     /\ \A k \in 1 .. 30 :
          OneWrite(s[k], WrittenCell(CheckCalls[k]), WrittenValue(CheckCalls[k]))
<1> DEFINE s == configure(check_config)
           t(k) == Transaction(CheckCalls[k].command, write(CheckCalls[k].payload))
<1>1. HasLength(CheckCalls, 30) /\ SettlesAll(CheckCalls, ConfiguredCells(check_config))
  <2>1. /\ check_config.short_source_address \in [0 .. (2 - 1) -> Byte]
        /\ check_config.extended_source_address \in [0 .. (8 - 1) -> Byte]
        /\ check_config.pan_id \in [0 .. (2 - 1) -> Byte]
        /\ check_config.channel \in Int
    BY DEF check_config, Byte
  <2> QED BY <2>1, ReconfigureSettles DEF CheckCalls
<1>2. Len(CheckCalls) = 30 /\ \A k \in 1 .. 30 : CheckCalls[k] \in ByteWrites
  <2>1. CheckCalls \in Seq(ByteWrites) /\ Len(CheckCalls) = 30
    BY <1>1 DEF HasLength
  <2> HIDE DEF ByteWrites
  <2> QED BY <2>1, ElementOfSeq, Zenon
<1>3. \A k \in 1 .. 30 : OneWrite(t(k), WrittenCell(CheckCalls[k]), WrittenValue(CheckCalls[k]))
  BY <1>2, ConfigurationWrite
<1>4. \A k \in 1 .. 30 : t(k) \in Transactions
  BY <1>3, Zenon DEF OneWrite
<1>5. s = [k \in 1 .. 30 |-> t(k)]
  BY <1>2, Zenon DEF configure, CheckCalls
<1> HIDE DEF s, t
<1>6. s \in Seq(Transactions) /\ Len(s) = 30 /\ \A k \in 1 .. 30 : s[k] = t(k)
  <2>1. s \in [1 .. 30 -> Transactions] /\ \A k \in 1 .. 30 : s[k] = t(k)
    BY <1>4, <1>5, Zenon
  <2> DEFINE n == 30
  <2>2. n \in Nat
    OBVIOUS
  <2>3. s \in [1 .. n -> Transactions]
    BY <2>1
  <2> HIDE DEF n, Transactions
  <2>4. s \in Seq(Transactions) /\ Len(s) = n
    BY <2>2, <2>3, SequenceOf, Zenon
  <2> QED BY <2>1, <2>4, Zenon DEF n
<1>7. \A k \in 1 .. 30 : OneWrite(s[k], WrittenCell(CheckCalls[k]), WrittenValue(CheckCalls[k]))
  BY <1>3, <1>6, Zenon
<1> QED BY <1>1, <1>6, <1>7 DEF s

LEMMA CheckScript ==
  \E s : /\ IsScript(CheckSetSourceAddresses, <<>>, s) /\ Len(s) = 43
         /\ \A k \in 1 .. 30 :
              OneWrite(s[k], WrittenCell(CheckCalls[k]), WrittenValue(CheckCalls[k]))
         /\ Puts(s[31], "long", 3, <<\hBB, 0>>)
         /\ \A i \in 1 .. 12 : Gets(s[31 + i], "short", i, 1)
<1> DEFINE w == writeBurstToLongAddress(3, <<\hBB, 0>>)
           q == <<w>>
           r == readByteWise(1, 12)
           c == configure(check_config)
           cq == c \o q
           s == cq \o r
<1>1. CheckSetSourceAddresses.loop = s /\ CheckSetSourceAddresses.setup = <<>>
  BY DEF CheckSetSourceAddresses
<1>2. Puts(w, "long", 3, <<\hBB, 0>>)
  <2>1. 3 \in LongAddress /\ <<\hBB, 0>> \in Seq(Byte)
    BY DEF LongAddress, Byte
  <2>2. IsCommandFor(writeLongCommand(3), "long", 3) /\ IsWriteCommand(writeLongCommand(3))
    <3>1. "long" \in {"short", "long"}
      OBVIOUS
    <3> QED BY <2>1, <3>1, LongCommands, CommandsAreCommands, Zenon
            DEF writeLongCommand, IsCommandFor
  <2> QED BY <2>1, <2>2, PutBytes DEF writeBurstToLongAddress
<1>3. \A i \in 1 .. 12 : Gets(readByte(i), "short", i, 1)
  <2>1. \A i \in 1 .. 12 : i \in 0 .. 63
    OBVIOUS
  <2>2. 1 \in Nat
    OBVIOUS
  <2> QED BY <2>1, <2>2, ProgramTransactions, Zenon DEF readByte
<1>4. /\ r \in Seq(Transactions) /\ Len(r) = 12
      /\ \A i \in 1 .. 12 : r[i] = readByte(i)
  <2>1. \A i \in 1 .. 12 : readByte(i) \in Transactions
    BY <1>3, Zenon DEF Gets
  <2>2. r = [i \in 1 .. 12 |-> readByte(1 + i - 1)] /\ \A i \in 1 .. 12 : 1 + i - 1 = i
    BY DEF readByteWise
  <2> HIDE DEF Transactions, r
  <2> QED BY <2>1, <2>2
<1>5. q \in Seq(Transactions) /\ Len(q) = 1 /\ q[1] = w
  <2>1. w \in Transactions
    BY <1>2, Zenon DEF Puts
  <2> HIDE DEF Transactions, w
  <2> QED BY <2>1
<1>6. /\ c \in Seq(Transactions) /\ Len(c) = 30
      /\ \A k \in 1 .. 30 :
           OneWrite(c[k], WrittenCell(CheckCalls[k]), WrittenValue(CheckCalls[k]))
  BY Configured
<1> HIDE DEF w, q, r, c
<1>7. Joins(cq, c, 30, q, 1)
  BY <1>5, <1>6, JoinedTransactions
<1>8. cq \in Seq(Transactions) /\ Len(cq) = 31
  BY <1>7 DEF Joins
<1> HIDE DEF cq
<1>9. Joins(s, cq, 31, r, 12)
  BY <1>4, <1>8, JoinedTransactions
<1>10. s \in Seq(Transactions) /\ Len(s) = 43
  BY <1>9 DEF Joins
<1> HIDE DEF s
<1>11. \A k \in 1 .. 30 : s[k] = c[k]
  <2>1. \A k \in 1 .. 30 : k \in 1 .. 31
    OBVIOUS
  <2> QED BY <1>7, <1>9, <2>1, Zenon DEF Joins
<1>12. s[31] = w
  <2>1. 31 \in 1 .. 31 /\ 1 \in 1 .. 1 /\ 30 + 1 = 31
    OBVIOUS
  <2>2. s[31] = cq[31] /\ cq[30 + 1] = q[1]
    BY <1>7, <1>9, <2>1 DEF Joins
  <2> QED BY <1>5, <2>1, <2>2
<1>13. \A i \in 1 .. 12 : s[31 + i] = readByte(i)
  BY <1>4, <1>9, Zenon DEF Joins
<1>14. \A k \in 1 .. 30 :
         OneWrite(s[k], WrittenCell(CheckCalls[k]), WrittenValue(CheckCalls[k]))
  BY <1>6, <1>11, Zenon
<1>15. \A i \in 1 .. 12 : Gets(s[31 + i], "short", i, 1)
  BY <1>3, <1>13, Zenon
<1>16. IsScript(CheckSetSourceAddresses, <<>>, s)
  <2>1. <<>> \in Seq(Transactions)
    OBVIOUS
  <2> QED BY <1>1, <1>10, <2>1, Zenon DEF IsScript
<1> QED BY <1>2, <1>10, <1>12, <1>14, <1>15, <1>16, Zenon

\* The programs without initMrf.
OtherPrograms == {ReadTxFifoMemory, ReadMrfTxStabilizationRegister,
                  SPITestWithoutCommunicationModuleAndLufa, SPITestWithLufaOnly,
                  WriteReadSourceAddress, CheckSetSourceAddresses}

LEMMA OtherScripts == \A p \in OtherPrograms : IsScript(p, p.setup, p.loop)
<1> SUFFICES ASSUME NEW p \in OtherPrograms PROVE \E s, t : IsScript(p, s, t)
  BY Zenon DEF IsScript
<1>1. CASE p = ReadTxFifoMemory
  BY <1>1, ReadTxFifoMemoryScript, Zenon
<1>2. CASE p \in {ReadMrfTxStabilizationRegister, SPITestWithoutCommunicationModuleAndLufa}
  BY <1>2, StabilizationScripts, Zenon
<1>3. CASE p = SPITestWithLufaOnly
  BY <1>3, SPITestScript, Zenon
<1>4. CASE p = WriteReadSourceAddress
  <2>1. PICK setup, loop : IsScript(WriteReadSourceAddress, setup, loop)
    BY WriteReadScript
  <2> QED BY <1>4, <2>1, Zenon DEF IsScript
<1>5. CASE p = CheckSetSourceAddresses
  BY <1>5, CheckScript, Zenon
<1>6. \/ p = ReadTxFifoMemory \/ p = SPITestWithLufaOnly \/ p = WriteReadSourceAddress
      \/ p = CheckSetSourceAddresses
      \/ p \in {ReadMrfTxStabilizationRegister, SPITestWithoutCommunicationModuleAndLufa}
  BY Zenon DEF OtherPrograms
<1> QED BY <1>1, <1>2, <1>3, <1>4, <1>5, <1>6, Zenon

LEMMA WaitAndBurst ==
  /\ wait \in Seq(Ops) /\ Len(wait) = 1 /\ wait[1] = [op |-> "wait"]
  /\ burst \in Seq(Ops) /\ Len(burst) = 1 /\ burst[1] = [op |-> "burst"]
BY DEF wait, burst, Ops

\* What comes at which position of a transaction.
LEMMA Positions ==
  ASSUME NEW t \in Transactions
  PROVE  /\ t \in Seq(Ops) /\ Len(t) \in Nat /\ Width(t) \in 1 .. 2 /\ Len(t) >= Width(t) + 2
         /\ t[1] = [op |-> "select"] /\ t[Len(t)] = [op |-> "deselect"]
         /\ \A k \in 2 .. (Width(t) + 1) : t[k] \in WriteOps
         /\ \A k \in (Width(t) + 2) .. (Len(t) - 1) :
              /\ k - Width(t) - 1 \in 1 .. DataLength(t)
              /\ t[k] = Datum(t, k - Width(t) - 1) /\ t[k] \in DataOps
<1>1. IsTransaction(t)
  BY DEF Transactions
<1>2. /\ t \in Seq(Ops) /\ Len(t) \in Nat /\ Width(t) \in 1 .. 2 /\ Len(t) >= Width(t) + 2
      /\ t[1] = [op |-> "select"] /\ t[Len(t)] = [op |-> "deselect"]
  BY <1>1 DEF IsTransaction, Width
<1>3. \A k \in 2 .. (Width(t) + 1) : t[k] \in WriteOps
  <2>1. \A k \in 2 .. (Width(t) + 1) : k = 2 \/ (k = 3 /\ IsLong(t))
    BY DEF Width
  <2>2. t[2] \in WriteOps /\ (IsLong(t) => t[3] \in WriteOps)
    BY <1>1 DEF IsTransaction
  <2> QED BY <2>1, <2>2
<1>4. \A k \in (Width(t) + 2) .. (Len(t) - 1) :
        /\ k - Width(t) - 1 \in 1 .. DataLength(t)
        /\ t[k] = Datum(t, k - Width(t) - 1) /\ t[k] \in DataOps
  <2>1. \A k \in (Width(t) + 2) .. (Len(t) - 1) :
          k - Width(t) - 1 \in 1 .. DataLength(t) /\ (k - Width(t) - 1) + Width(t) + 1 = k
    BY <1>2 DEF DataLength
  <2>2. \A i \in 1 .. DataLength(t) : Datum(t, i) \in DataOps
    BY <1>1 DEF IsTransaction
  <2> QED BY <2>1, <2>2 DEF Datum
<1> QED BY <1>2, <1>3, <1>4

\* The kinds of bus operation.
LEMMA OpNames ==
  /\ \A o \in WriteOps : o.op = "write" /\ o.byte \in Byte
  /\ \A o \in DataOps : (o.op = "write" /\ o.byte \in Byte) \/ o.op = "read"
  /\ \A o \in Ops : o.op = "write" => o.byte \in Byte
<1>1. \A o \in WriteOps : o.op = "write" /\ o.byte \in Byte
  <2>1. \A b : [op |-> "write", byte |-> b].op = "write" /\ [op |-> "write", byte |-> b].byte = b
    OBVIOUS
  <2> HIDE DEF Byte
  <2> QED BY <2>1 DEF WriteOps
<1>2. \A o \in DataOps : (o.op = "write" /\ o.byte \in Byte) \/ o.op = "read"
  <2>1. [op |-> "read"].op = "read"
    OBVIOUS
  <2> QED BY <1>1, <2>1, Zenon DEF DataOps
<1>3. \A o \in Ops : o.op = "write" => o.byte \in Byte
  <2>1. /\ [op |-> "select"].op # "write" /\ [op |-> "deselect"].op # "write"
        /\ [op |-> "wait"].op # "write" /\ [op |-> "burst"].op # "write" /\ "read" # "write"
    OBVIOUS
  <2> HIDE DEF DataOps
  <2>2. \A o \in Ops : \/ o \in DataOps \/ o = [op |-> "select"] \/ o = [op |-> "deselect"]
                        \/ o = [op |-> "wait"] \/ o = [op |-> "burst"]
    BY Zenon DEF Ops
  <2> QED BY <1>2, <2>1, <2>2, Zenon
<1> QED BY <1>1, <1>2, <1>3, Zenon

LEMMA Names ==
  /\ Receiver.name = "ReceiveFrameWithSPIOnly"
  /\ Sender.name = "SendOneFrameUsingPeripheralInterfaceOnly"
  /\ \A p \in Programs :
       \/ p = Receiver \/ p = Sender
       \/ /\ p.name # Receiver.name /\ p.name # Sender.name
          /\ p \in OtherPrograms
          /\ p.setup \in Seq(Transactions) /\ p.loop \in Seq(Transactions)
<1>1. /\ Receiver.name = "ReceiveFrameWithSPIOnly"
      /\ Sender.name = "SendOneFrameUsingPeripheralInterfaceOnly"
  BY DEF Receiver, ReceiveFrameWithSPIOnly, Sender, SendOneFrameUsingPeripheralInterfaceOnly
<1>2. \A p \in Programs : p \in OtherPrograms \/ p = Receiver \/ p = Sender
  BY SpiProgramsAreTheseEight, Zenon DEF Receiver, Sender, OtherPrograms
<1>3. \A p \in OtherPrograms : p.name \in {"ReadTxFifoMemory", "ReadMrfTxStabilizationRegister",
          "SPITestWithoutCommunicationModuleAndLufa", "SPITestWithLufaOnly",
          "WriteReadSourceAddress", "CheckSetSourceAddresses"}
  <2>1. /\ ReadTxFifoMemory.name = "ReadTxFifoMemory"
        /\ ReadMrfTxStabilizationRegister.name = "ReadMrfTxStabilizationRegister"
    BY DEF ReadTxFifoMemory, ReadMrfTxStabilizationRegister
  <2>2. /\ SPITestWithoutCommunicationModuleAndLufa.name
             = "SPITestWithoutCommunicationModuleAndLufa"
        /\ SPITestWithLufaOnly.name = "SPITestWithLufaOnly"
    BY DEF SPITestWithoutCommunicationModuleAndLufa, SPITestWithLufaOnly
  <2>3. /\ WriteReadSourceAddress.name = "WriteReadSourceAddress"
        /\ CheckSetSourceAddresses.name = "CheckSetSourceAddresses"
    BY DEF WriteReadSourceAddress, CheckSetSourceAddresses
  <2> QED BY <2>1, <2>2, <2>3, Zenon DEF OtherPrograms
<1>4. \A p \in OtherPrograms : p.setup \in Seq(Transactions) /\ p.loop \in Seq(Transactions)
  BY OtherScripts, Zenon DEF IsScript
<1>5. \A p \in OtherPrograms : p.name # Receiver.name /\ p.name # Sender.name
  BY <1>1, <1>3
<1> QED BY <1>1, <1>2, <1>4, <1>5

LEMMA OtherNames == Receiver \notin OtherPrograms /\ Sender \notin OtherPrograms
<1>1. \A p \in OtherPrograms :
        p.name # "ReceiveFrameWithSPIOnly" /\ p.name # "SendOneFrameUsingPeripheralInterfaceOnly"
  BY DEF OtherPrograms, ReadTxFifoMemory, ReadMrfTxStabilizationRegister,
         SPITestWithoutCommunicationModuleAndLufa, SPITestWithLufaOnly,
         WriteReadSourceAddress, CheckSetSourceAddresses
<1> QED BY <1>1, Names, Zenon

LEMMA ItemsOfPrograms ==
  /\ ItemsOf(Receiver) = Transactions \cup {wait, burst}
  /\ \A p : p # Receiver => ItemsOf(p) = Transactions
  /\ Sender # Receiver
<1>1. Sender # Receiver
  <2>1. Sender.name # Receiver.name
    BY Names
  <2> QED BY <2>1, Zenon
<1> QED BY <1>1, Zenon DEF ItemsOf

ReceiverItems == Transactions \cup {wait, burst}

\* The same for items that are not all transactions.
Appends(u, s, n, t, m) ==
  /\ Len(u) = n + m
  /\ \A i \in 1 .. n : u[i] = s[i]
  /\ \A i \in 1 .. m : u[n + i] = t[i]

LEMMA JoinedItems ==
  ASSUME NEW s \in Seq(ReceiverItems),
         NEW t \in Seq(ReceiverItems),
         NEW n, NEW m, Len(s) = n, Len(t) = m
  PROVE  s \o t \in Seq(ReceiverItems) /\ Appends(s \o t, s, n, t, m)
<1>2. /\ s \o t \in Seq(ReceiverItems)
      /\ Len(s \o t) = Len(s) + Len(t)
      /\ \A i \in 1 .. Len(s) : (s \o t)[i] = s[i]
      /\ \A i \in 1 .. Len(t) : (s \o t)[Len(s) + i] = t[i]
  OBVIOUS
<1> QED BY <1>2, Zenon DEF Appends

LEMMA ReceiverLoopItems ==
  /\ Receiver.loop \in Seq(ItemsOf(Receiver)) /\ Len(Receiver.loop) = 4
  /\ Receiver.loop[1] = gotNewMessage /\ Receiver.loop[2] = wait
  /\ Receiver.loop[3] = getReceivedMessageSize /\ Receiver.loop[4] = burst
<1> DEFINE S == ItemsOf(Receiver)
<1>1. gotNewMessage \in S /\ wait \in S /\ getReceivedMessageSize \in S /\ burst \in S
  BY ItemsOfPrograms, PollAndSize, Zenon DEF OneRead
<1> HIDE DEF S
<1>2. Receiver.loop = <<gotNewMessage, wait, getReceivedMessageSize, burst>>
  BY ReceiverShape
<1>3. Receiver.loop \in Seq(S) /\ Len(Receiver.loop) = 4
  BY <1>1, <1>2
<1> QED BY <1>2, <1>3 DEF S

\* The loop of a program, and its setup with the loop.
LEMMA ProgramItems ==
  ASSUME NEW p \in Programs
  PROVE  /\ p.loop \in Seq(ItemsOf(p))
         /\ p.setup \o p.loop \in Seq(ItemsOf(p))
<1>1. CASE p = Receiver
  <2>1. p.setup \in Seq(ReceiverItems)
    <3>1. Transactions \subseteq ReceiverItems
      BY DEF ReceiverItems
    <3> QED BY <1>1, <3>1, ReceiverShape, SeqMonotonic
  <2>2. p.loop \in Seq(ReceiverItems)
    BY <1>1, ReceiverLoopItems, ItemsOfPrograms DEF ReceiverItems
  <2>3. p.setup \o p.loop \in Seq(ReceiverItems)
    BY <2>1, <2>2, JoinedItems, Zenon
  <2>4. ItemsOf(p) = ReceiverItems
    BY <1>1, ItemsOfPrograms, Zenon DEF ReceiverItems
  <2> QED BY <2>2, <2>3, <2>4, Zenon
<1>2. CASE p # Receiver
  <2>1. p.setup \in Seq(Transactions) /\ p.loop \in Seq(Transactions)
    <3>1. CASE p = Sender
      BY <3>1, InitMrfShape, SenderShape
    <3>2. CASE p # Sender
      BY <1>2, <3>2, Names, Zenon
    <3> QED BY <3>1, <3>2
  <2>2. Joins(p.setup \o p.loop, p.setup, Len(p.setup), p.loop, Len(p.loop))
    BY <2>1, JoinedTransactions, Zenon
  <2> QED BY <1>2, <2>1, <2>2, ItemsOfPrograms, Zenon DEF Joins
<1> QED BY <1>1, <1>2

\* Every item is a sequence of operations that is not empty.
LEMMA Items ==
  ASSUME NEW p \in Programs, NEW t \in ItemsOf(p)
  PROVE  /\ t \in Seq(Ops) /\ Len(t) \in Nat /\ Len(t) > 0
         /\ t \in Transactions \/ (p = Receiver /\ t \in {wait, burst})
<1>1. CASE t \in Transactions
  BY <1>1, Positions
<1>2. CASE p = Receiver /\ t \in {wait, burst}
  BY <1>2, WaitAndBurst
<1>3. t \in Transactions \/ (p = Receiver /\ t \in {wait, burst})
  BY ItemsOfPrograms, Zenon
<1> QED BY <1>1, <1>2, <1>3

-----------------------------------------------------------------------------
(* A byte, a select or a deselect.                                         *)

BusStep == Select \/ Deselect \/ Write \/ Read

\* What comes after the operation at hand.
GoesOn ==
  IF position < Len(todo[1]) THEN position' = position + 1 /\ todo' = todo
                             ELSE position' = 1 /\ todo' = Tail(todo)

LEMMA AtHand ==
  ASSUME Types, todo # <<>>
  PROVE  /\ Left \in Nat /\ Left > 0
         /\ todo[1] \in ItemsOf(program) /\ todo[1] \in Seq(Ops)
         /\ Len(todo[1]) \in Nat /\ Len(todo[1]) > 0
         /\ position \in 1 .. Len(todo[1])
         /\ Current = todo[1][position] /\ Current \in Ops
         /\ Tail(todo) \in Seq(ItemsOf(program)) /\ Len(Tail(todo)) = Left - 1
         /\ \A i \in 1 .. (Left - 1) : Tail(todo)[i] = todo[i + 1]
<1> DEFINE S == ItemsOf(program)
<1>1. program \in Programs /\ todo \in Seq(S)
  BY DEF Types, TypeOK
<1> HIDE DEF S
<1>2. /\ Left \in Nat /\ Left > 0 /\ todo[1] \in S /\ Head(todo) = todo[1]
      /\ Tail(todo) \in Seq(S) /\ Len(Tail(todo)) = Left - 1
      /\ \A i \in 1 .. (Left - 1) : Tail(todo)[i] = todo[i + 1]
  BY <1>1 DEF Left
<1>3. todo[1] \in Seq(Ops) /\ Len(todo[1]) \in Nat /\ Len(todo[1]) > 0
  BY <1>1, <1>2, Items DEF S
<1>4. position \in 1 .. Len(todo[1])
  BY DEF Types
<1>5. Current = todo[1][position]
  BY <1>2 DEF Current
<1>6. Current \in Ops
  <2> HIDE DEF Ops
  <2> QED BY <1>3, <1>4, <1>5
<1> QED BY <1>2, <1>3, <1>4, <1>5, <1>6 DEF S

LEMMA AdvanceGoesOn ==
  ASSUME Types, todo # <<>>, Advance, program' = program
  PROVE  /\ GoesOn
         /\ todo' \in Seq(ItemsOf(program'))
         /\ position' \in (IF todo' = <<>> THEN {1} ELSE 1 .. Len(todo'[1]))
<1>1. Head(todo) = todo[1]
  <2> DEFINE S == ItemsOf(program)
  <2>1. todo \in Seq(S)
    BY DEF Types
  <2> HIDE DEF S
  <2> QED BY <2>1
<1>2. GoesOn
  BY <1>1 DEF Advance, GoesOn
<1>3. CASE position < Len(todo[1])
  <2>1. position' = position + 1 /\ todo' = todo
    BY <1>2, <1>3 DEF GoesOn
  <2>2. position + 1 \in 1 .. Len(todo[1])
    BY <1>3, AtHand
  <2> QED BY <1>2, <2>1, <2>2 DEF Types
<1>4. CASE ~(position < Len(todo[1]))
  <2>1. position' = 1 /\ todo' = Tail(todo)
    BY <1>2, <1>4 DEF GoesOn
  <2> DEFINE S == ItemsOf(program)
             rest == Tail(todo)
  <2>2. rest \in Seq(S)
    BY AtHand
  <2>3. ASSUME rest # <<>> PROVE 1 \in 1 .. Len(rest[1])
    <3>1. rest[1] \in S
      <4> HIDE DEF S, rest
      <4> QED BY <2>2, <2>3
    <3>2. program \in Programs
      BY DEF Types, TypeOK
    <3> HIDE DEF rest
    <3> QED BY <3>1, <3>2, Items
  <2> QED BY <1>2, <2>1, <2>2, <2>3
<1> QED BY <1>3, <1>4

\* Every step on the bus is one of the operation at hand.
LEMMA BusStepIsAtHand ==
  ASSUME BusStep
  PROVE  /\ todo # <<>> /\ Advance /\ program' = program
         /\ \/ Select /\ Current.op = "select"
            \/ Deselect /\ Current.op = "deselect"
            \/ Write /\ Current.op = "write" /\ Transfer(Current.byte) /\ kept' = kept
            \/ Read /\ Current.op = "read" /\ Transfer(0) /\ kept' = Append(kept, Answer)
<1>1. CASE Select
  BY <1>1, Zenon DEF Select, Doing
<1>2. CASE Deselect
  BY <1>2, Zenon DEF Deselect, Doing
<1>3. CASE Write
  BY <1>3, Zenon DEF Write, Doing, Transfer
<1>4. CASE Read
  BY <1>4, Zenon DEF Read, Doing, Transfer
<1> QED BY <1>1, <1>2, <1>3, <1>4 DEF BusStep

LEMMA MemoryType ==
  ASSUME memory \in [Cells -> Byte], NEW byte \in Byte
  PROVE  /\ AfterReset \in [Cells -> Byte]
         /\ Answer \in Byte
         /\ \A c \in Cells : [memory EXCEPT ![c] = byte] \in [Cells -> Byte]
         /\ \A c \in Cells : [memory EXCEPT ![c] = 0] \in [Cells -> Byte]
<1>1. 0 \in Byte /\ tx_stabilization_after_reset \in Byte
  BY DEF Byte, tx_stabilization_after_reset
<1>2. \A c \in Cells : memory[c] \in Byte
  OBVIOUS
<1> HIDE DEF Byte, Cells
<1>3. AfterReset \in [Cells -> Byte]
  BY <1>1, <1>2 DEF AfterReset
<1>4. Answer \in Byte
  BY <1>1, <1>2, Zenon DEF Answer, InCell
<1> QED BY <1>1, <1>3, <1>4

LEMMA TransferTypes ==
  ASSUME TypeOK, offset \in Nat, NEW byte \in Byte, Transfer(byte)
  PROVE  /\ memory' \in [Cells -> Byte] /\ command' \in Seq(Byte) /\ offset' \in Nat
         /\ overtaken' \in BOOLEAN /\ selected' = selected
<1>1. memory \in [Cells -> Byte] /\ command \in Seq(Byte) /\ overtaken \in BOOLEAN
  BY DEF TypeOK
<1>2. selected' = selected
  BY Zenon DEF Transfer
<1>3. CASE selected /\ CommandComplete /\ Obey(byte)
  <2>1. offset' = offset + 1 /\ command' = command
    BY <1>3, Zenon DEF Obey
  <2>2. memory' \in [Cells -> Byte]
    <3> DEFINE writes == IsWriteCommand(command) /\ InCell
               polls == /\ ~IsWriteCommand(command)
                        /\ CurrentCell = Cell("short", mrf_register_interrupt_status)
    <3>1. \/ memory' = AfterReset
          \/ writes /\ memory' = [memory EXCEPT ![CurrentCell] = byte]
          \/ polls /\ memory' = [memory EXCEPT ![CurrentCell] = 0]
          \/ memory' = memory
      BY <1>3, Zenon DEF Obey
    <3>2. writes => CurrentCell \in Cells
      BY DEF InCell
    <3>3. polls => CurrentCell \in Cells
      BY DEF Cell, Cells, mrf_register_interrupt_status
    <3> HIDE DEF writes, polls
    <3> QED BY <1>1, <3>1, <3>2, <3>3, MemoryType, Zenon
  <2>3. overtaken' \in BOOLEAN
    BY <1>3, Zenon DEF Obey
  <2>4. offset' \in Nat
    BY <2>1
  <2> QED BY <1>1, <1>2, <2>1, <2>2, <2>3, <2>4, Zenon
<1>4. CASE /\ selected /\ ~CommandComplete /\ command' = Append(command, byte)
           /\ UNCHANGED <<offset, memory, overtaken>>
  <2>1. offset' = offset /\ memory' = memory /\ overtaken' = overtaken
        /\ command' = Append(command, byte)
    BY <1>4, Zenon
  <2>2. Append(command, byte) \in Seq(Byte)
    <3> HIDE DEF Byte
    <3> QED BY <1>1
  <2> QED BY <1>1, <1>2, <2>1, <2>2, Zenon
<1>5. CASE ~selected /\ UNCHANGED <<command, offset, memory, overtaken>>
  <2>1. offset' = offset /\ memory' = memory /\ overtaken' = overtaken /\ command' = command
    BY <1>5, Zenon
  <2> QED BY <1>1, <1>2, <2>1, Zenon
<1> QED BY <1>3, <1>4, <1>5, Zenon DEF Transfer

LEMMA BusStepTypes ==
  ASSUME Types, BusStep
  PROVE  Types' /\ GoesOn
<1>1. /\ todo # <<>> /\ Advance /\ program' = program
      /\ \/ Select
         \/ Deselect
         \/ Current.op = "write" /\ Transfer(Current.byte) /\ kept' = kept
         \/ Transfer(0) /\ kept' = Append(kept, Answer)
  BY BusStepIsAtHand, Zenon
<1>2. /\ GoesOn
      /\ todo' \in Seq(ItemsOf(program'))
      /\ position' \in (IF todo' = <<>> THEN {1} ELSE 1 .. Len(todo'[1]))
  BY <1>1, AdvanceGoesOn
<1>3. TypeOK /\ offset \in Nat
  BY DEF Types
<1>4. /\ program' \in Programs /\ kept \in Seq(Byte) /\ memory \in [Cells -> Byte]
      /\ command \in Seq(Byte) /\ selected \in BOOLEAN /\ overtaken \in BOOLEAN
  BY <1>1, <1>3 DEF TypeOK
<1>5. CASE Select
  <2>1. /\ selected' = TRUE /\ command' = <<>> /\ offset' = 0 /\ kept' = kept
        /\ memory' = memory /\ overtaken' = overtaken
    BY <1>5, Zenon DEF Select
  <2>2. <<>> \in Seq(Byte) /\ 0 \in Nat
    OBVIOUS
  <2>3. TypeOK' /\ offset' \in Nat
    BY <1>4, <2>1, <2>2, Zenon DEF TypeOK
  <2> QED BY <1>2, <2>3, Zenon DEF Types
<1>6. CASE Deselect
  <2>1. /\ selected' = FALSE /\ command' = command /\ offset' = offset /\ kept' = kept
        /\ memory' = memory /\ overtaken' = overtaken
    BY <1>6, Zenon DEF Deselect
  <2>2. FALSE \in BOOLEAN
    OBVIOUS
  <2>3. TypeOK'
    BY <1>4, <2>1, <2>2, Zenon DEF TypeOK
  <2>4. offset' \in Nat
    BY <1>3, <2>1, Zenon
  <2> QED BY <1>2, <2>3, <2>4, Zenon DEF Types
<1>7. CASE Current.op = "write" /\ Transfer(Current.byte) /\ kept' = kept
  <2>1. Current.byte \in Byte
    <3>1. Current \in Ops
      BY <1>1, AtHand, Zenon
    <3> QED BY <1>7, <3>1, OpNames, Zenon
  <2>2. /\ memory' \in [Cells -> Byte] /\ command' \in Seq(Byte) /\ offset' \in Nat
        /\ overtaken' \in BOOLEAN /\ selected' = selected
    BY <1>3, <1>7, <2>1, TransferTypes, Zenon
  <2>3. TypeOK'
    BY <1>4, <1>7, <2>2, Zenon DEF TypeOK
  <2> QED BY <1>2, <2>2, <2>3, Zenon DEF Types
<1>8. CASE Transfer(0) /\ kept' = Append(kept, Answer)
  <2>1. 0 \in Byte
    BY DEF Byte
  <2>2. /\ memory' \in [Cells -> Byte] /\ command' \in Seq(Byte) /\ offset' \in Nat
        /\ overtaken' \in BOOLEAN /\ selected' = selected
    BY <1>3, <1>8, <2>1, TransferTypes, Zenon
  <2>3. Answer \in Byte
    BY <1>4, <2>1, MemoryType
  <2>4. Append(kept, Answer) \in Seq(Byte)
    <3> HIDE DEF Byte, Answer
    <3> QED BY <1>4, <2>3
  <2>5. TypeOK'
    BY <1>4, <1>8, <2>2, <2>4, Zenon DEF TypeOK
  <2> QED BY <1>2, <2>2, <2>5, Zenon DEF Types
<1> QED BY <1>1, <1>2, <1>5, <1>6, <1>7, <1>8, Zenon

\* What the data byte `i' of a transaction does to the chip and to the program.
DataByte(t, i) ==
  LET o      == Datum(t, i)
      c      == CellOfByte(CommandOf(t), i)
      inCell == c \in Cells /\ (IsLong(t) \/ i = 1)
      byte   == IF o.op = "write" THEN o.byte ELSE 0
      writes == IsWriteCommand(CommandOf(t)) /\ inCell
      resets == writes /\ c = ResetCell /\ byte = mrf_value_full_software_reset
      polls  == ~IsWriteCommand(CommandOf(t)) /\ c = InterruptCell
  IN /\ memory' = IF resets THEN AfterReset
                  ELSE IF writes THEN [memory EXCEPT ![c] = byte]
                  ELSE IF polls THEN [memory EXCEPT ![c] = 0]
                  ELSE memory
     /\ overtaken' = (overtaken /\ ~polls /\ ~resets)
     /\ kept' = IF o.op = "read"
                  THEN Append(kept, IF ~IsWriteCommand(CommandOf(t)) /\ inCell
                                      THEN memory[c] ELSE 0)
                  ELSE kept

IsData(t, p) == p \in (Width(t) + 2) .. (Len(t) - 1)

NoData == memory' = memory /\ overtaken' = overtaken /\ kept' = kept

LEMMA CommandBytes ==
  ASSUME NEW t \in Transactions
  PROVE  /\ CommandOf(t) # <<>> /\ Len(CommandOf(t)) = Width(t)
         /\ IsLongCommand(CommandOf(t)) <=> IsLong(t)
         /\ Width(t) = 1 => CommandOf(t) = <<t[2].byte>>
         /\ Width(t) = 2 => CommandOf(t) = <<t[2].byte, t[3].byte>>
         /\ IsLong(t) <=> Width(t) = 2
BY DEF CommandOf, Width, IsLongCommand, IsLong

LEMMA AppendedByte ==
  ASSUME NEW a \in Byte, NEW b \in Byte
  PROVE  Append(<<a>>, b) = <<a, b>>
<1> HIDE DEF Byte
<1> DEFINE x == Append(<<a>>, b)
<1>1. x \in Seq(Byte) /\ Len(x) = 2 /\ x[1] = a /\ x[2] = b
  OBVIOUS
<1> HIDE DEF x
<1>2. x = <<x[1], x[2]>>
  BY <1>1
<1> QED BY <1>1, <1>2 DEF x

LEMMA BusStepDoes ==
  ASSUME Types, BusIsFollowed, BusStep, NEW t, t = todo[1]
  PROVE  /\ t \in Transactions
         /\ BusIsFollowed'
         /\ ~IsData(t, position) => NoData
         /\ IsData(t, position) => DataByte(t, position - Width(t) - 1)
<1>1. /\ todo # <<>> /\ program' = program /\ GoesOn
      /\ \/ Select /\ Current.op = "select"
         \/ Deselect /\ Current.op = "deselect"
         \/ Current.op = "write" /\ Transfer(Current.byte) /\ kept' = kept
         \/ Current.op = "read" /\ Transfer(0) /\ kept' = Append(kept, Answer)
  BY BusStepIsAtHand, BusStepTypes, Zenon
<1>2. t \in ItemsOf(program) /\ position \in 1 .. Len(t) /\ Current = t[position]
  BY <1>1, AtHand
<1>3. t \in Transactions
  <2>1. CASE t \in {wait, burst}
    <3>1. position = 1 /\ t[1].op \in {"wait", "burst"}
      BY <1>2, <2>1, WaitAndBurst
    <3> QED BY <1>1, <1>2, <3>1
  <2>2. program \in Programs
    BY DEF Types, TypeOK
  <2> QED BY <1>2, <2>1, <2>2, Items
<1> DEFINE w == Width(t)
           p == position
<1>4. /\ Len(t) \in Nat /\ w \in 1 .. 2 /\ Len(t) >= w + 2
      /\ t[1] = [op |-> "select"] /\ t[Len(t)] = [op |-> "deselect"]
      /\ \A k \in 2 .. (w + 1) : t[k].op = "write"
      /\ \A k \in (w + 2) .. (Len(t) - 1) : t[k] = Datum(t, k - w - 1) /\ t[k] \in DataOps
  BY <1>3, Positions, OpNames
<1>5. p > 1 => Follows(t, p, selected, command, offset)
  BY <1>1 DEF BusIsFollowed
<1>6. p < Len(t) => p' = p + 1 /\ todo' = todo
  BY <1>1 DEF GoesOn
<1>7. p = Len(t) => p' = 1
  BY <1>1 DEF GoesOn
<1>8. p < Len(t) /\ Follows(t, p + 1, selected', command', offset') => BusIsFollowed'
  BY <1>6 DEF BusIsFollowed
<1>9. p = Len(t) => BusIsFollowed'
  BY <1>7 DEF BusIsFollowed
<1>10. CASE p = 1
  <2>1. Select
    BY <1>1, <1>2, <1>4, <1>10
  <2>2. selected' = TRUE /\ command' = <<>> /\ offset' = 0 /\ NoData
    BY <2>1, Zenon DEF Select, NoData
  <2>3. ~IsData(t, p) /\ p < Len(t)
    BY <1>4, <1>10 DEF IsData
  <2>4. Follows(t, p + 1, selected', command', offset')
    BY <1>3, <1>4, <1>10, <2>2 DEF Follows
  <2> QED BY <1>3, <1>8, <2>2, <2>3, <2>4
<1>11. CASE p = Len(t)
  <2>1. Deselect
    BY <1>1, <1>2, <1>4, <1>11
  <2>2. NoData
    BY <2>1, Zenon DEF Deselect, NoData
  <2>3. ~IsData(t, p)
    BY <1>4, <1>11 DEF IsData
  <2> QED BY <1>3, <1>9, <1>11, <2>2, <2>3
<1>12. CASE p \in 2 .. (w + 1)
  <2>1. Transfer(t[p].byte) /\ kept' = kept
    BY <1>1, <1>2, <1>4, <1>12
  <2>2. p < Len(t) /\ ~IsData(t, p) /\ p > 1
    BY <1>4, <1>12 DEF IsData
  <2>3. selected = TRUE /\ offset = 0
    BY <1>4, <1>5, <1>12, <2>2 DEF Follows
  <2>4. /\ ~CommandComplete
        /\ Append(command, t[p].byte) = IF p + 1 = 3 THEN <<t[2].byte>> ELSE CommandOf(t)
    <3>1. CASE p = 2
      <4>1. command = <<>>
        BY <1>5, <3>1 DEF Follows
      <4>2. \A b : Append(<<>>, b) = <<b>>
        OBVIOUS
      <4> QED BY <3>1, <4>1, <4>2 DEF CommandComplete
    <3>2. CASE p = 3
      <4>1. w = 2 /\ IsLong(t) /\ CommandOf(t) = <<t[2].byte, t[3].byte>>
        BY <1>3, <1>4, <1>12, <3>2, CommandBytes
      <4>2. command = <<t[2].byte>>
        BY <1>5, <3>2 DEF Follows
      <4>3. \A a \in Byte, b \in Byte : Append(<<a>>, b) = <<a, b>>
        BY AppendedByte
      <4>5. t[2].byte \in Byte /\ t[3].byte \in Byte
        BY <1>3, <4>1, Positions, OpNames
      <4>4. ~CommandComplete
        BY <4>1, <4>2 DEF CommandComplete, IsLongCommand, IsLong
      <4>6. Append(command, t[3].byte) = CommandOf(t)
        BY <4>1, <4>2, <4>3, <4>5, Zenon
      <4> QED BY <3>2, <4>4, <4>6
    <3>3. p = 2 \/ p = 3
      <4>1. \A v \in 1 .. 2 : \A k \in 2 .. (v + 1) : k = 2 \/ k = 3
        OBVIOUS
      <4> QED BY <1>4, <1>12, <4>1, Zenon
    <3> QED BY <3>1, <3>2, <3>3
  <2>5. /\ command' = Append(command, t[p].byte) /\ offset' = offset
        /\ memory' = memory /\ overtaken' = overtaken /\ selected' = selected
    BY <2>1, <2>3, <2>4, Zenon DEF Transfer
  <2>6. Follows(t, p + 1, selected', command', offset')
    BY <1>3, <1>4, <1>12, <2>3, <2>4, <2>5 DEF Follows
  <2> QED BY <1>3, <1>8, <2>1, <2>2, <2>5, <2>6 DEF NoData
<1>13. CASE IsData(t, p)
  <2> DEFINE i == p - w - 1
  <2>1. p \in (w + 2) .. (Len(t) - 1) /\ p < Len(t) /\ p > 2 /\ i \in Nat /\ i > 0
    BY <1>4, <1>13 DEF IsData
  <2>2. selected = TRUE /\ command = CommandOf(t) /\ offset + 1 = i
    <3>1. p = 3 => w = 1
      BY <1>4, <2>1
    <3>2. w = 1 => CommandOf(t) = <<t[2].byte>>
      BY <1>3, CommandBytes
    <3>3. offset + 1 = i
      BY <1>4, <1>5, <2>1 DEF Follows
    <3>4. /\ selected = TRUE
          /\ command = (IF p = 2 THEN <<>> ELSE IF p = 3 THEN <<t[2].byte>> ELSE CommandOf(t))
      BY <1>5, <2>1 DEF Follows
    <3>5. p # 2
      BY <2>1
    <3> QED BY <3>1, <3>2, <3>3, <3>4, <3>5, Zenon
  <2>3. CommandComplete /\ (IsLongCommand(command) <=> IsLong(t))
    BY <1>3, <2>2, CommandBytes DEF CommandComplete
  <2> DEFINE o == Datum(t, i)
             byte == IF o.op = "write" THEN o.byte ELSE 0
  <2>4. t[p] = o /\ o \in DataOps
    BY <1>4, <2>1
  <2>5. /\ Transfer(byte)
        /\ kept' = IF o.op = "read" THEN Append(kept, Answer) ELSE kept
    <3>1. (o.op = "write" /\ o.byte \in Byte) \/ o.op = "read"
      BY <2>4, OpNames
    <3> QED BY <1>1, <1>2, <2>4, <3>1
  <2>6. Obey(byte) /\ selected' = selected
    BY <2>2, <2>3, <2>5, Zenon DEF Transfer
  <2>7. offset' = offset + 1 /\ command' = command
    BY <2>6, Zenon DEF Obey
  <2>8. Follows(t, p + 1, selected', command', offset')
    BY <1>3, <1>4, <2>1, <2>2, <2>6, <2>7 DEF Follows
  <2>9. CurrentCell = CellOfByte(CommandOf(t), i)
    BY <2>2 DEF CurrentCell
  <2>10. InCell <=> CurrentCell \in Cells /\ (IsLong(t) \/ i = 1)
    <3>1. offset = 0 <=> i = 1
      <4>1. offset \in Nat
        BY DEF Types
      <4>2. \A m \in Nat, n \in Nat : m + 1 = n => (m = 0 <=> n = 1)
        OBVIOUS
      <4> QED BY <2>1, <2>2, <4>1, <4>2, Zenon
    <3> QED BY <2>3, <3>1, Zenon DEF InCell
  <2> DEFINE writes == IsWriteCommand(CommandOf(t)) /\ InCell
             resets == /\ writes /\ CurrentCell = ResetCell
                       /\ byte = mrf_value_full_software_reset
             polls == ~IsWriteCommand(CommandOf(t)) /\ CurrentCell = InterruptCell
  <2>11. /\ memory' = IF resets THEN AfterReset
                      ELSE IF writes THEN [memory EXCEPT ![CurrentCell] = byte]
                      ELSE IF polls THEN [memory EXCEPT ![CurrentCell] = 0]
                      ELSE memory
         /\ overtaken' = (overtaken /\ ~polls /\ ~resets)
    BY <2>2, <2>6, Zenon DEF Obey, ResetCell, InterruptCell
  <2>12. Answer = IF ~IsWriteCommand(CommandOf(t)) /\ InCell THEN memory[CurrentCell] ELSE 0
    BY <2>2, <2>3, Zenon DEF Answer
  <2>13. DataByte(t, i)
    BY <2>5, <2>9, <2>10, <2>11, <2>12, Zenon DEF DataByte
  <2> QED BY <1>3, <1>8, <1>13, <2>1, <2>8, <2>13
<1>14. p \in 1 .. Len(t) => p = 1 \/ p = Len(t) \/ p \in 2 .. (w + 1) \/ IsData(t, p)
  BY <1>4 DEF IsData
<1> QED BY <1>2, <1>10, <1>11, <1>12, <1>13, <1>14

-----------------------------------------------------------------------------
(* What the steps between two transactions start from.                     *)

LEMMA NotTransactions == wait \notin Transactions /\ burst \notin Transactions
<1>1. \A t \in Transactions : t[1] = [op |-> "select"]
  BY Positions
<1>2. wait[1] # [op |-> "select"] /\ burst[1] # [op |-> "select"]
  BY WaitAndBurst
<1> QED BY <1>1, <1>2, Zenon

\* No operation of a transaction waits or makes a burst.
LEMMA PlainOps ==
  ASSUME NEW t \in Transactions, NEW k \in 1 .. Len(t)
  PROVE  t[k].op \in {"select", "deselect", "write", "read"}
<1>1. \/ k = 1 \/ k = Len(t) \/ k \in 2 .. (Width(t) + 1)
      \/ k \in (Width(t) + 2) .. (Len(t) - 1)
  BY Positions
<1>2. CASE k = 1 \/ k = Len(t)
  BY <1>2, Positions
<1>3. CASE k \in 2 .. (Width(t) + 1)
  BY <1>3, Positions, OpNames
<1>4. CASE k \in (Width(t) + 2) .. (Len(t) - 1)
  BY <1>4, Positions, OpNames
<1> QED BY <1>1, <1>2, <1>3, <1>4

LEMMA WaitAtHand ==
  ASSUME Types
  PROVE  /\ Doing("wait") => todo # <<>> /\ todo[1] = wait /\ position = 1 /\ program = Receiver
         /\ Doing("burst") => todo # <<>> /\ todo[1] = burst /\ position = 1 /\ program = Receiver
<1> SUFFICES ASSUME Doing("wait") \/ Doing("burst"), todo # <<>>
             PROVE  /\ Doing("wait") => todo[1] = wait /\ position = 1 /\ program = Receiver
                    /\ Doing("burst") => todo[1] = burst /\ position = 1 /\ program = Receiver
  BY DEF Doing
<1> DEFINE t == todo[1]
<1>1. /\ t \in ItemsOf(program) /\ position \in 1 .. Len(t) /\ Current = t[position]
      /\ Len(t) \in Nat /\ program \in Programs
  BY AtHand DEF Types, TypeOK
<1>2. t \in Transactions \/ (program = Receiver /\ t \in {wait, burst})
  BY <1>1, Items
<1>3. Current.op = "wait" \/ Current.op = "burst"
  BY DEF Doing
<1> HIDE DEF t
<1>4. t \notin Transactions
  BY <1>1, <1>3, PlainOps
<1>5. program = Receiver /\ t \in {wait, burst}
  BY <1>2, <1>4
<1>6. position = 1
  BY <1>1, <1>5, WaitAndBurst
<1>7. wait[1].op = "wait" /\ burst[1].op = "burst"
  BY WaitAndBurst
<1>8. /\ Doing("wait") => t = wait
      /\ Doing("burst") => t = burst
  BY <1>1, <1>5, <1>6, <1>7 DEF Doing
<1> QED BY <1>5, <1>6, <1>8 DEF t

\* The receiver waits and reads the packet at one place of its loop each.
LEMMA BurstTransactions ==
  ASSUME NEW n \in Byte
  PROVE  /\ Burst1(n) \in Transactions /\ Width(Burst1(n)) = 2 /\ IsLong(Burst1(n))
         /\ Len(Burst1(n)) = n + 4
         /\ \A i \in 1 .. n : Datum(Burst1(n), i) = [op |-> "read"]
         /\ ~IsWriteCommand(CommandOf(Burst1(n)))
         /\ \A i \in Int : CellOfByte(CommandOf(Burst1(n)), i) = Cell("long", 768 + i - 1)
         /\ \A c : ~WritesTo(Burst1(n), c)
<1> DEFINE t == Burst1(n)
           start == mrf_rx_fifo_start
<1>1. start \in LongAddress /\ n \in Nat
  BY DEF mrf_rx_fifo_start, LongAddress, Byte
<1>5. start = 768
  BY DEF mrf_rx_fifo_start
<1>2. t = readBurstFromLongAddress(start, n)
  BY DEF Burst1
<1> HIDE DEF t, start
<1>3. /\ IsTransaction(t) /\ IsLong(t) /\ Len(t) = n + 4
      /\ \A i \in 1 .. n : Datum(t, i) = [op |-> "read"]
      /\ ~IsWriteCommand(CommandOf(t))
      /\ \A i \in Int : CellOfByte(CommandOf(t), i) = Cell("long", start + i - 1)
      /\ \A c : ~WritesTo(t, c)
  BY <1>1, <1>2, LongRead, ZenonT(60)
<1>4. t \in Transactions /\ Width(t) = 2
  BY <1>3, Zenon DEF Transactions, IsTransaction, Width
<1> QED BY <1>3, <1>4, <1>5 DEF t

LEMMA WaitsAndBursts ==
  ASSUME Types, ReceiverIsOnTrack
  PROVE  /\ Doing("wait") => program = Receiver /\ Waiting /\ position = 1
         /\ Doing("burst") => program = Receiver /\ ToBurst /\ position = 1
<1> SUFFICES ASSUME Doing("wait") \/ Doing("burst")
             PROVE  /\ Doing("wait") => program = Receiver /\ Waiting /\ position = 1
                    /\ Doing("burst") => program = Receiver /\ ToBurst /\ position = 1
  OBVIOUS
<1>1. /\ todo # <<>> /\ position = 1 /\ program = Receiver /\ todo[1] \notin Transactions
      /\ Doing("wait") => todo[1] = wait
      /\ Doing("burst") => todo[1] = burst
  BY WaitAtHand, NotTransactions, Zenon
<1>2. wait # burst
  <2>1. wait[1].op # burst[1].op
    BY WaitAndBurst
  <2> QED BY <2>1, Zenon
<1>3. ~SettingUp
  <2>1. SettingUp => todo[1] \in Transactions
    BY DEF SettingUp
  <2> QED BY <1>1, <2>1
<1>4. ~LoopBegins
  BY <1>1, ReceiverLoopItems, PollAndSize DEF LoopBegins, OneRead
<1>5. ~Sizing
  <2>1. Sizing => todo[1] = getReceivedMessageSize
    BY DEF Sizing
  <2> QED BY <1>1, <2>1, PollAndSize DEF OneRead
<1>6. ~Bursting
  <2>1. \A n \in Byte : Burst1(n) \in Transactions
    BY BurstTransactions
  <2>2. Bursting => \E n \in Byte : todo[1] = Burst1(n)
    BY DEF Bursting
  <2> QED BY <1>1, <2>1, <2>2
<1>7. Waiting => todo[1] = wait
  BY DEF Waiting
<1>8. ToBurst => todo[1] = burst
  BY DEF ToBurst
<1>9. Waiting \/ ToBurst
  BY <1>1, <1>3, <1>4, <1>5, <1>6 DEF ReceiverIsOnTrack
<1> QED BY <1>1, <1>2, <1>7, <1>8, <1>9

-----------------------------------------------------------------------------
(* What initMrf leaves behind.                                             *)

Finals == {f[1] : f \in FinalCells}

LEMMA FinalCellsAre ==
  /\ \A c \in Finals \cup {ResetCell} :
       \/ \E i \in 1 .. 12 : c = <<"short", i>>
       \/ c = <<"short", 54>> \/ c = <<"long", 512>> \/ c = <<"short", 42>>
  /\ \A c \in Finals \cup {ResetCell} :
       c \in Cells /\ c # InterruptCell /\ c # <<"short", 0>> /\ ~(c[1] = "long" /\ c[2] >= 768)
  /\ \A c \in Finals : c # ResetCell
<1>1. \A c \in Finals : \/ \E i \in 1 .. 12 : c = <<"short", i>>
                        \/ c = <<"short", 54>> \/ c = <<"long", 512>>
  BY DEF Finals, FinalCells, Cell
<1>2. ResetCell = <<"short", 42>> /\ InterruptCell = <<"short", 49>>
  BY DEF ResetCell, InterruptCell, Cell, mrf_register_software_reset,
         mrf_register_interrupt_status
<1>3. \A c \in Finals \cup {ResetCell} :
        \/ \E i \in 1 .. 12 : c = <<"short", i>>
        \/ c = <<"short", 54>> \/ c = <<"long", 512>> \/ c = <<"short", 42>>
  BY <1>1, <1>2
<1>4. ASSUME NEW c \in Finals \cup {ResetCell}
      PROVE  c \in Cells /\ c # InterruptCell /\ c # <<"short", 0>>
             /\ ~(c[1] = "long" /\ c[2] >= 768)
  <2>1. CASE \E i \in 1 .. 12 : c = <<"short", i>>
    BY <1>2, <2>1 DEF Cells
  <2>2. CASE c = <<"short", 54>> \/ c = <<"long", 512>> \/ c = <<"short", 42>>
    BY <1>2, <2>2 DEF Cells
  <2> QED BY <1>3, <2>1, <2>2
<1>5. ASSUME NEW c \in Finals PROVE c # ResetCell
  <2>1. CASE \E i \in 1 .. 12 : c = <<"short", i>>
    <3>1. PICK i \in 1 .. 12 : c = <<"short", i>>
      BY <2>1
    <3> QED BY <1>2, <3>1
  <2>2. CASE c = <<"short", 54>> \/ c = <<"long", 512>>
    BY <1>2, <2>2
  <2> QED BY <1>1, <2>1, <2>2, Zenon
<1> QED BY <1>3, <1>4, <1>5

\* The last write of initMrf to each of the cells.
LEMMA LastWrites ==
  ASSUME NEW f \in FinalCells
  PROVE  \E k \in 1 .. 47 :
           /\ OneWrite(initMrf[k], f[1], f[2])
           /\ \A j \in (k + 1) .. 47 :
                ~WritesTo(initMrf[j], f[1]) /\ ~WritesTo(initMrf[j], ResetCell)
<1>1. \A j \in 18 .. 34 : \A c : ~WritesTo(initMrf[j], c)
  BY InitMrfShape, WritesOfOne, ZenonT(60)
<1>10. \A t, c, v : OneWrite(t, c, v) => \A d : WritesTo(t, d) <=> d = c
  BY WritesOfOne, Zenon
<1>2. \A c : WritesTo(initMrf[35], c) <=> c = <<"short", 50>>
  <2>1. OneWrite(initMrf[35], Cell("short", 50), 246)
    BY InitMrfShape, Zenon
  <2> QED BY <1>10, <2>1 DEF Cell
<1>9. \A j \in 36 .. 47 : OneWrite(initMrf[j], Cell("short", j - 35), InitAddresses[j - 35])
  BY InitMrfShape, Zenon
<1>3. \A j \in 36 .. 47 : \A c : WritesTo(initMrf[j], c) <=> c = <<"short", j - 35>>
  <2>1. \A j \in 36 .. 47 : \A c : WritesTo(initMrf[j], c) <=> c = Cell("short", j - 35)
    BY <1>9, <1>10
  <2> QED BY <2>1 DEF Cell
<1>4. /\ \A c : WritesTo(initMrf[16], c) <=> c = <<"short", 54>>
      /\ \A c : WritesTo(initMrf[17], c) <=> c = <<"short", 54>>
      /\ OneWrite(initMrf[17], <<"short", 54>>, 0)
      /\ OneWrite(initMrf[15], <<"long", 512>>, 19)
  <2>1. /\ OneWrite(initMrf[16], <<"short", 54>>, register_value_pairs[16][2])
        /\ OneWrite(initMrf[17], <<"short", 54>>, 0)
        /\ OneWrite(initMrf[15], <<"long", 512>>, 19)
    <3>1. /\ RegisterCell(54) = <<"short", 54>> /\ RegisterCell(512) = <<"long", 512>>
          /\ 15 \in 1 .. 17 /\ 16 \in 1 .. 17 /\ 17 \in 1 .. 17
      BY DEF RegisterCell, Cell
    <3>2. /\ register_value_pairs[15][1] = 512 /\ register_value_pairs[15][2] = 19
          /\ register_value_pairs[16][1] = 54
          /\ register_value_pairs[17][1] = 54 /\ register_value_pairs[17][2] = 0
      BY Table
    <3>3. \A k \in 1 .. 17 : OneWrite(initMrf[k], RegisterCell(register_value_pairs[k][1]),
                                      register_value_pairs[k][2])
      BY InitMrfShape
    <3> QED BY <3>1, <3>2, <3>3
  <2> QED BY <1>10, <2>1
<1>5. ResetCell = <<"short", 42>>
  BY DEF ResetCell, Cell, mrf_register_software_reset
<1>6. CASE \E i \in 1 .. 12 : f = <<Cell("short", i), InitAddresses[i]>>
  <2>1. PICK i \in 1 .. 12 : f = <<Cell("short", i), InitAddresses[i]>>
    BY <1>6
  <2> DEFINE k == i + 35
  <2>2. k \in 36 .. 47 /\ k - 35 = i /\ k \in 1 .. 47
    OBVIOUS
  <2>3. OneWrite(initMrf[k], f[1], f[2])
    <3>1. OneWrite(initMrf[k], Cell("short", k - 35), InitAddresses[k - 35])
      BY <1>9, <2>2
    <3>2. f[1] = Cell("short", i) /\ f[2] = InitAddresses[i]
      BY <2>1
    <3> QED BY <2>2, <3>1, <3>2
  <2>4. ASSUME NEW j \in (k + 1) .. 47
        PROVE  ~WritesTo(initMrf[j], f[1]) /\ ~WritesTo(initMrf[j], ResetCell)
    <3>1. j \in 36 .. 47 /\ j - 35 # i /\ j - 35 # 42
      OBVIOUS
    <3>2. f[1] = <<"short", i>>
      BY <2>1 DEF Cell
    <3>3. <<"short", i>> # <<"short", j - 35>> /\ <<"short", 42>> # <<"short", j - 35>>
      BY <3>1
    <3> QED BY <1>3, <1>5, <3>1, <3>2, <3>3
  <2> QED BY <2>2, <2>3, <2>4
<1>7. CASE f = <<Cell("short", 54), 0>>
  <2>1. f[1] = <<"short", 54>> /\ f[2] = 0 /\ 17 \in 1 .. 47
    BY <1>7 DEF Cell
  <2>2. ASSUME NEW j \in (17 + 1) .. 47
        PROVE  ~WritesTo(initMrf[j], f[1]) /\ ~WritesTo(initMrf[j], ResetCell)
    <3>1. j \in 18 .. 34 \/ j = 35 \/ (j \in 36 .. 47 /\ j - 35 # 54 /\ j - 35 # 42)
      OBVIOUS
    <3> QED BY <1>1, <1>2, <1>3, <1>5, <2>1, <3>1
  <2>3. OneWrite(initMrf[17], f[1], f[2])
    BY <1>4, <2>1
  <2> QED BY <2>1, <2>2, <2>3, Zenon
<1>8. CASE f = <<Cell("long", 512), 19>>
  <2>1. f[1] = <<"long", 512>> /\ f[2] = 19 /\ 15 \in 1 .. 47
    BY <1>8 DEF Cell
  <2>2. ASSUME NEW j \in (15 + 1) .. 47
        PROVE  ~WritesTo(initMrf[j], f[1]) /\ ~WritesTo(initMrf[j], ResetCell)
    <3>1. \/ j = 16 \/ j = 17 \/ j \in 18 .. 34 \/ j = 35
          \/ (j \in 36 .. 47 /\ j - 35 # 42)
      OBVIOUS
    <3>2. CASE j = 16 \/ j = 17
      BY <1>4, <1>5, <2>1, <3>2
    <3>3. CASE j \in 18 .. 34
      BY <1>1, <3>3
    <3>4. CASE j = 35
      BY <1>2, <1>5, <2>1, <3>4
    <3>5. CASE j \in 36 .. 47 /\ j - 35 # 42
      BY <1>3, <1>5, <2>1, <3>5
    <3> QED BY <3>1, <3>2, <3>3, <3>4, <3>5, Zenon
  <2>3. OneWrite(initMrf[15], f[1], f[2])
    BY <1>4, <2>1
  <2> QED BY <2>1, <2>2, <2>3, Zenon
<1> QED BY <1>6, <1>7, <1>8, Zenon DEF FinalCells

LEMMA LeavesOfLoop ==
  ASSUME NEW p \in {Sender, Receiver}, NEW c \in Finals \cup {ResetCell}
  PROVE  \A k \in 1 .. Len(p.loop) : Leaves(p.loop[k], c)
<1>1. CASE p = Sender
  <2>1. \A k \in 1 .. 3 : ~WritesTo(Sender.loop[k], c)
    BY SenderShape, Zenon DEF Finals
  <2> QED BY <1>1, <2>1, SenderShape DEF Leaves
<1>2. CASE p = Receiver
  <2>1. ~WritesTo(gotNewMessage, c) /\ ~WritesTo(getReceivedMessageSize, c)
    BY PollAndSize, WritesOfOne, Zenon
  <2>2. /\ Leaves(Receiver.loop[1], c) /\ Leaves(Receiver.loop[2], c)
        /\ Leaves(Receiver.loop[3], c) /\ Leaves(Receiver.loop[4], c)
    BY <2>1, ReceiverLoopItems DEF Leaves
  <2> QED BY <1>2, <2>2, ReceiverLoopItems
<1> QED BY <1>1, <1>2

\* The whole sequence of transactions of the two programs.
BeginsWithInitMrf(s) ==
  /\ Len(s) \in {50, 52}
  /\ \A k \in 1 .. 47 : s[k] = initMrf[k]
  /\ \A c \in Finals \cup {ResetCell} : \A j \in 48 .. Len(s) : Leaves(s[j], c)

LEMMA Start ==
  ASSUME NEW p \in {Sender, Receiver}, NEW s, s = p.setup \o p.loop
  PROVE  BeginsWithInitMrf(s)
<1>1. CASE p = Sender
  <2>1. /\ p.setup = initMrf /\ initMrf \in Seq(Transactions) /\ Len(initMrf) = 47
        /\ p.loop \in Seq(Transactions) /\ Len(p.loop) = 3
    BY <1>1, SenderShape, InitMrfShape
  <2> DEFINE l == p.loop
  <2> HIDE DEF l
  <2>2. Joins(s, initMrf, 47, l, 3)
    BY <2>1, JoinedTransactions DEF l
  <2>3. ASSUME NEW c \in Finals \cup {ResetCell}, NEW j \in 48 .. 50
        PROVE  Leaves(s[j], c)
    <3>1. j - 47 \in 1 .. 3 /\ 47 + (j - 47) = j
      OBVIOUS
    <3>2. s[j] = l[j - 47]
      BY <2>2, <3>1 DEF Joins
    <3>3. \A k \in 1 .. 3 : Leaves(l[k], c)
      BY <2>1, LeavesOfLoop DEF l
    <3> QED BY <3>1, <3>2, <3>3
  <2>4. Len(s) = 50
    BY <2>2 DEF Joins
  <2>5. \A k \in 1 .. 47 : s[k] = initMrf[k]
    BY <2>2, ZenonT(60) DEF Joins
  <2> QED BY <2>3, <2>4, <2>5, Zenon DEF BeginsWithInitMrf
<1>2. CASE p = Receiver
  <2> DEFINE u == p.setup
             l == p.loop
  <2>1. /\ u \in Seq(ReceiverItems) /\ Len(u) = 48
        /\ l \in Seq(ReceiverItems) /\ Len(l) = 4
        /\ \A k \in 1 .. 47 : u[k] = initMrf[k]
        /\ OneWrite(u[48], Cell("short", 0), 1)
    <3>1. Transactions \subseteq ReceiverItems
      BY DEF ReceiverItems
    <3>2. u \in Seq(ReceiverItems)
      BY <1>2, <3>1, ReceiverShape, SeqMonotonic
    <3> QED BY <1>2, <3>2, ReceiverShape, ReceiverLoopItems, ItemsOfPrograms DEF ReceiverItems
  <2> HIDE DEF u, l
  <2>2. Appends(s, u, 48, l, 4)
    <3>1. s = u \o l
      BY DEF u, l
    <3>2. Appends(u \o l, u, 48, l, 4)
      BY <2>1, JoinedItems
    <3> QED BY <3>1, <3>2, Zenon
  <2>3. Len(s) = 52
    BY <2>2 DEF Appends
  <2>6. /\ \A i \in 1 .. 48 : s[i] = u[i]
        /\ \A i \in 1 .. 4 : s[48 + i] = l[i]
    BY <2>2, Zenon DEF Appends
  <2>4. \A k \in 1 .. 47 : s[k] = initMrf[k]
    <3>1. \A k \in 1 .. 47 : k \in 1 .. 48
      OBVIOUS
    <3> QED BY <2>1, <2>6, <3>1, Zenon
  <2>5. ASSUME NEW c \in Finals \cup {ResetCell}, NEW j \in 48 .. 52
        PROVE  Leaves(s[j], c)
    <3>1. CASE j = 48
      <4>1. s[48] = u[48]
        <5>1. 48 \in 1 .. 48
          OBVIOUS
        <5> QED BY <2>6, <5>1
      <4>2. c # Cell("short", 0)
        BY FinalCellsAre DEF Cell
      <4>3. ~WritesTo(u[48], c)
        <5>1. \A t, d, v : OneWrite(t, d, v) => \A e : WritesTo(t, e) <=> e = d
          BY WritesOfOne, Zenon
        <5> QED BY <2>1, <4>2, <5>1
      <4> QED BY <3>1, <4>1, <4>3 DEF Leaves
    <3>2. CASE j \in 49 .. 52
      <4>1. j - 48 \in 1 .. 4 /\ 48 + (j - 48) = j
        BY <3>2
      <4>2. s[j] = l[j - 48]
        BY <2>6, <4>1
      <4>3. \A k \in 1 .. 4 : Leaves(l[k], c)
        BY <1>2, <2>1, LeavesOfLoop DEF l
      <4> QED BY <4>1, <4>2, <4>3
    <3>3. j = 48 \/ j \in 49 .. 52
      OBVIOUS
    <3> QED BY <3>1, <3>2, <3>3
  <2> QED BY <2>3, <2>4, <2>5 DEF BeginsWithInitMrf
<1> QED BY <1>1, <1>2, Zenon

LEMMA InitSettles == Init => InitMrfSettles
<1> SUFFICES ASSUME Init, RunsInitMrf, NEW f \in FinalCells
             PROVE  Owed(f[1], f[2])
  BY DEF InitMrfSettles
<1>1. todo = program.setup \o program.loop /\ position = 1 /\ program \in {Sender, Receiver}
  <2>1. todo = program.setup \o program.loop /\ position = 1
    BY ZenonT(60) DEF Init
  <2> QED BY <2>1, Zenon DEF RunsInitMrf
<1>2. /\ Left \in {50, 52}
      /\ \A k \in 1 .. 47 : todo[k] = initMrf[k]
      /\ \A c \in Finals \cup {ResetCell} : \A j \in 48 .. Left : Leaves(todo[j], c)
  <2> DEFINE s == program.setup \o program.loop
  <2> HIDE DEF s
  <2>1. s = program.setup \o program.loop /\ todo = s
    BY <1>1 DEF s
  <2>2. BeginsWithInitMrf(s)
    BY <1>1, <2>1, Start
  <2> QED BY <2>1, <2>2 DEF Left, BeginsWithInitMrf
<1>3. PICK k \in 1 .. 47 :
        /\ OneWrite(initMrf[k], f[1], f[2])
        /\ \A j \in (k + 1) .. 47 :
             ~WritesTo(initMrf[j], f[1]) /\ ~WritesTo(initMrf[j], ResetCell)
  BY LastWrites
<1>4. k \in 1 .. Left /\ OneWrite(todo[k], f[1], f[2])
  BY <1>2, <1>3
<1>5. ~(k = 1 /\ position = Len(todo[1]))
  <2>1. k = 1 => Len(todo[1]) # 1
    <3>1. k = 1 => todo[1] \in Transactions
      BY <1>4 DEF OneWrite
    <3>2. \A t \in Transactions : Len(t) # 1
      BY Positions
    <3> QED BY <3>1, <3>2, Zenon
  <2> QED BY <1>1, <2>1, Zenon
<1>6. f[1] \in Finals
  BY DEF Finals
<1>7. LeftAlone(f[1], k + 1)
  <2> SUFFICES ASSUME NEW j \in (k + 1) .. Left
               PROVE  Leaves(todo[j], f[1]) /\ Leaves(todo[j], ResetCell)
    BY DEF LeftAlone
  <2>1. CASE j <= 47
    <3>1. j \in (k + 1) .. 47 /\ j \in 1 .. 47
      BY <1>2, <2>1
    <3> QED BY <1>2, <1>3, <3>1 DEF Leaves
  <2>2. CASE j > 47
    <3>1. j \in 48 .. Left
      BY <1>2, <2>2
    <3> QED BY <1>2, <1>6, <3>1
  <2> QED BY <1>2, <2>1, <2>2
<1> QED BY <1>4, <1>5, <1>7, Zenon DEF Owed

\* A data byte changes no other cell than the one it goes to.
LEMMA MemoryKept ==
  ASSUME memory \in [Cells -> Byte], NEW t \in Transactions, NEW i \in 1 .. DataLength(t),
         DataByte(t, i), NEW c \in Cells, c # InterruptCell,
         ~WritesTo(t, c), ~WritesTo(t, ResetCell)
  PROVE  memory'[c] = memory[c]
<1> DEFINE cell   == CellOfByte(CommandOf(t), i)
           inCell == cell \in Cells /\ (IsLong(t) \/ i = 1)
           byte   == IF Datum(t, i).op = "write" THEN Datum(t, i).byte ELSE 0
           writes == IsWriteCommand(CommandOf(t)) /\ inCell
           resets == writes /\ cell = ResetCell /\ byte = mrf_value_full_software_reset
           polls  == ~IsWriteCommand(CommandOf(t)) /\ cell = InterruptCell
<1>1. memory' = IF resets THEN AfterReset
                ELSE IF writes THEN [memory EXCEPT ![cell] = byte]
                ELSE IF polls THEN [memory EXCEPT ![cell] = 0]
                ELSE memory
  BY Zenon DEF DataByte
<1>2. ~resets
  BY Zenon DEF WritesTo
<1>3. writes => cell # c
  BY Zenon DEF WritesTo
<1>4. polls => cell # c
  OBVIOUS
<1> HIDE DEF cell, writes, polls, resets, byte, Cells, Byte
<1> QED BY <1>1, <1>2, <1>3, <1>4

LEMMA MemoryWritten ==
  ASSUME memory \in [Cells -> Byte], NEW t, NEW c \in Cells, NEW v, OneWrite(t, c, v),
         DataByte(t, 1), c # ResetCell
  PROVE  memory'[c] = v
<1> DEFINE cell   == CellOfByte(CommandOf(t), 1)
           inCell == cell \in Cells /\ (IsLong(t) \/ 1 = 1)
           byte   == IF Datum(t, 1).op = "write" THEN Datum(t, 1).byte ELSE 0
           writes == IsWriteCommand(CommandOf(t)) /\ inCell
           resets == writes /\ cell = ResetCell /\ byte = mrf_value_full_software_reset
           polls  == ~IsWriteCommand(CommandOf(t)) /\ cell = InterruptCell
<1>1. memory' = IF resets THEN AfterReset
                ELSE IF writes THEN [memory EXCEPT ![cell] = byte]
                ELSE IF polls THEN [memory EXCEPT ![cell] = 0]
                ELSE memory
  BY Zenon DEF DataByte
<1>2. cell = c /\ writes /\ ~resets
  BY Zenon DEF OneWrite
<1>3. byte = v
  BY DEF OneWrite
<1> HIDE DEF cell, writes, polls, resets, byte, Cells, Byte
<1> QED BY <1>1, <1>2, <1>3

\* A step on the bus of a program with initMrf: the transaction, and what is left.
LEMMA BusStepMoves ==
  ASSUME Types, BusIsFollowed, BusStep, NEW t, t = todo[1]
  PROVE  /\ t \in Transactions /\ Left \in Nat /\ Left > 0 /\ Len(t) >= 3
         /\ \/ /\ position < Len(t) /\ position' = position + 1 /\ todo' = todo
            \/ /\ position = Len(t) /\ position' = 1 /\ NoData
               /\ Left' = Left - 1 /\ \A i \in 1 .. (Left - 1) : todo'[i] = todo[i + 1]
         /\ ~IsData(t, position) => NoData
         /\ IsData(t, position) => DataByte(t, position - Width(t) - 1)
<1>1. /\ t \in Transactions
      /\ ~IsData(t, position) => NoData
      /\ IsData(t, position) => DataByte(t, position - Width(t) - 1)
  BY BusStepDoes
<1>2. todo # <<>> /\ GoesOn
  BY BusStepIsAtHand, BusStepTypes, Zenon
<1>3. /\ Left \in Nat /\ Left > 0 /\ position \in 1 .. Len(t)
      /\ Len(Tail(todo)) = Left - 1
      /\ \A i \in 1 .. (Left - 1) : Tail(todo)[i] = todo[i + 1]
  BY <1>2, AtHand
<1>4. Len(t) \in Nat /\ Len(t) >= 3 /\ Width(t) \in 1 .. 2
  BY <1>1, Positions
<1>5. CASE position < Len(t)
  <2>1. position' = position + 1 /\ todo' = todo
    BY <1>2, <1>5 DEF GoesOn
  <2> QED BY <1>1, <1>3, <1>4, <1>5, <2>1
<1>6. CASE position = Len(t)
  <2>1. position' = 1 /\ todo' = Tail(todo)
    BY <1>2, <1>4, <1>6 DEF GoesOn
  <2>2. ~IsData(t, position)
    BY <1>4, <1>6 DEF IsData
  <2>3. Left' = Left - 1 /\ \A i \in 1 .. (Left - 1) : todo'[i] = todo[i + 1]
    BY <1>3, <2>1 DEF Left
  <2> QED BY <1>1, <1>3, <1>4, <1>6, <2>1, <2>2, <2>3
<1>7. position < Len(t) \/ position = Len(t)
  BY <1>3, <1>4
<1> QED BY <1>5, <1>6, <1>7

LEMMA BusStepSettles ==
  ASSUME Types, BusIsFollowed, InitMrfSettles, BusStep
  PROVE  InitMrfSettles'
<1>1. program' = program
  BY BusStepIsAtHand, Zenon
<1> SUFFICES ASSUME RunsInitMrf, NEW f \in FinalCells
             PROVE  Settled(f[1], f[2])' \/ Owed(f[1], f[2])'
  BY <1>1 DEF InitMrfSettles, RunsInitMrf
<1> DEFINE t == todo[1]
           c == f[1]
           v == f[2]
<1> HIDE DEF t
<1>2. /\ t \in Transactions /\ Left \in Nat /\ Left > 0 /\ Len(t) >= 3
      /\ \/ /\ position < Len(t) /\ position' = position + 1 /\ todo' = todo
         \/ /\ position = Len(t) /\ position' = 1 /\ NoData
            /\ Left' = Left - 1 /\ \A i \in 1 .. (Left - 1) : todo'[i] = todo[i + 1]
      /\ ~IsData(t, position) => NoData
      /\ IsData(t, position) => DataByte(t, position - Width(t) - 1)
  BY BusStepMoves DEF t
<1>3. Settled(c, v) \/ Owed(c, v)
  BY DEF InitMrfSettles
<1>4. c \in Cells /\ c # InterruptCell /\ c # ResetCell /\ c \in Finals
  BY FinalCellsAre DEF Finals
<1>5. memory \in [Cells -> Byte] /\ position \in Nat /\ Len(t) \in Nat
  <2>1. position \in 1 .. Len(todo[1])
    BY <1>2, AtHand DEF Left
  <2> QED BY <1>2, <2>1, Positions DEF Types, TypeOK
\* What is left alone stays so.
<1>6. ASSUME NEW k \in 1 .. Left, LeftAlone(c, k), todo' = todo
      PROVE  LeftAlone(c, k)'
  <2>1. Left' = Left
    BY <1>6 DEF Left
  <2> QED BY <1>6, <2>1 DEF LeftAlone
<1>7. ASSUME NEW k \in 1 .. Left, LeftAlone(c, k + 1),
             Left' = Left - 1, \A i \in 1 .. (Left - 1) : todo'[i] = todo[i + 1]
      PROVE  LeftAlone(c, k)'
  <2> SUFFICES ASSUME NEW j \in k .. Left'
               PROVE  Leaves(todo'[j], c) /\ Leaves(todo'[j], ResetCell)
    BY DEF LeftAlone, Leaves, ResetCell, Cell, mrf_register_software_reset, WritesTo
  <2>1. j + 1 \in (k + 1) .. Left /\ j \in 1 .. (Left - 1)
    BY <1>2, <1>7
  <2> QED BY <1>7, <2>1 DEF LeftAlone
<1>8. CASE Settled(c, v)
  <2>1. memory[c] = v /\ LeftAlone(c, 1)
    BY <1>8 DEF Settled
  <2>2. 1 \in 1 .. Left
    BY <1>2
  <2>3. Leaves(t, c) /\ Leaves(t, ResetCell)
    BY <2>1, <2>2 DEF LeftAlone, t
  <2>4. ~WritesTo(t, c) /\ ~WritesTo(t, ResetCell)
    BY <1>2, <2>3, NotTransactions DEF Leaves
  <2>5. memory'[c] = v
    <3>1. CASE ~IsData(t, position)
      BY <1>2, <2>1, <3>1 DEF NoData
    <3>2. CASE IsData(t, position)
      <4>1. position - Width(t) - 1 \in 1 .. DataLength(t)
        BY <1>2, <3>2, Positions DEF IsData
      <4>2. DataByte(t, position - Width(t) - 1)
        BY <1>2, <3>2
      <4> DEFINE i == position - Width(t) - 1
      <4> HIDE DEF i
      <4>3. memory'[c] = memory[c]
        BY <1>2, <1>4, <1>5, <2>4, <4>1, <4>2, MemoryKept DEF i
      <4> QED BY <2>1, <4>3
    <3> QED BY <3>1, <3>2
  <2>6. LeftAlone(c, 1)'
    <3>1. CASE todo' = todo
      BY <1>6, <2>1, <2>2, <3>1
    <3>2. CASE Left' = Left - 1 /\ \A i \in 1 .. (Left - 1) : todo'[i] = todo[i + 1]
      <4>1. LeftAlone(c, 1 + 1)
        BY <1>2, <2>1 DEF LeftAlone
      <4> QED BY <1>7, <2>2, <3>2, <4>1
    <3> QED BY <1>2, <3>1, <3>2
  <2>7. Settled(c, v)'
    BY <2>5, <2>6 DEF Settled
  <2> QED BY <2>7
<1>9. CASE Owed(c, v)
  <2>1. PICK k \in 1 .. Left : /\ OneWrite(todo[k], c, v)
                               /\ k = 1 /\ position = Len(todo[1]) => memory[c] = v
                               /\ LeftAlone(c, k + 1)
    BY <1>9 DEF Owed
  <2>2. todo[k] \in Transactions /\ DataLength(todo[k]) = 1
    BY <2>1 DEF OneWrite
  <2>3. CASE position < Len(t) /\ position' = position + 1 /\ todo' = todo
    <3>1. Left' = Left /\ k \in 1 .. Left'
      BY <2>3 DEF Left
    <3>2. LeftAlone(c, k + 1)'
      BY <2>1, <2>3, <3>1 DEF LeftAlone
    <3>3. ASSUME k = 1, position' = Len(todo'[1]) PROVE memory'[c] = v
      <4>1. IsData(t, position) /\ position - Width(t) - 1 = 1
        BY <1>2, <1>5, <2>2, <2>3, <3>3, Positions DEF IsData, DataLength, t
      <4>2. DataByte(t, 1)
        BY <1>2, <4>1
      <4>3. OneWrite(t, c, v)
        BY <2>1, <3>3 DEF t
      <4> QED BY <1>4, <1>5, <4>2, <4>3, MemoryWritten
    <3>4. OneWrite(todo'[k], c, v)
      BY <2>1, <2>3
    <3>5. Owed(c, v)'
      BY <3>1, <3>2, <3>3, <3>4 DEF Owed
    <3> QED BY <3>5
  <2>4. CASE /\ position = Len(t) /\ position' = 1 /\ NoData
             /\ Left' = Left - 1 /\ \A i \in 1 .. (Left - 1) : todo'[i] = todo[i + 1]
    <3>1. CASE k = 1
      <4>1. memory'[c] = v
        BY <2>1, <2>4, <3>1 DEF NoData, t
      <4>2. LeftAlone(c, 1)'
        BY <1>7, <2>1, <2>4, <3>1
      <4>3. Settled(c, v)'
        BY <4>1, <4>2 DEF Settled
      <4> QED BY <4>3
    <3>2. CASE k > 1
      <4> DEFINE m == k - 1
      <4>1. m \in 1 .. (Left - 1) /\ m + 1 = k /\ m \in 1 .. Left' /\ m \in 1 .. Left
        BY <1>2, <2>4, <3>2
      <4>2. OneWrite(todo'[m], c, v)
        BY <2>1, <2>4, <4>1
      <4>3. ~(m = 1 /\ position' = Len(todo'[1]))
        <5>1. todo'[m] \in Transactions
          BY <4>2 DEF OneWrite
        <5>2. \A u \in Transactions : Len(u) # 1
          BY Positions
        <5>3. m = 1 => Len(todo'[1]) # 1
          BY <5>1, <5>2
        <5> QED BY <2>4, <5>3, Zenon
      <4>4. LeftAlone(c, m + 1)'
        <5>1. k \in 1 .. Left /\ LeftAlone(c, k + 1)
          BY <2>1
        <5>2. LeftAlone(c, k)'
          BY <1>7, <2>4, <5>1
        <5> QED BY <4>1, <5>2
      <4> HIDE DEF m
      <4>5. Owed(c, v)'
        BY <4>1, <4>2, <4>3, <4>4, Zenon DEF Owed
      <4> QED BY <4>5
    <3> QED BY <3>1, <3>2
  <2> QED BY <1>2, <2>3, <2>4
<1> QED BY <1>3, <1>8, <1>9

-----------------------------------------------------------------------------
(* The receiver on its way.                                                *)

LEMMA LoopParts ==
  /\ gotNewMessage \in Transactions /\ getReceivedMessageSize \in Transactions
  /\ \A c : ~WritesTo(gotNewMessage, c) /\ ~WritesTo(getReceivedMessageSize, c)
  /\ \A n \in Byte : Burst1(n) \in Transactions /\ \A c : ~WritesTo(Burst1(n), c)
  /\ \A n \in Byte, m \in Byte : Burst1(n) = Burst1(m) => n = m
<1>1. gotNewMessage \in Transactions /\ getReceivedMessageSize \in Transactions
  BY PollAndSize, Zenon DEF OneRead
<1>2. \A c : ~WritesTo(gotNewMessage, c) /\ ~WritesTo(getReceivedMessageSize, c)
  BY PollAndSize, WritesOfOne, Zenon
<1>3. \A n \in Byte : Burst1(n) \in Transactions /\ \A c : ~WritesTo(Burst1(n), c)
  BY BurstTransactions, ZenonT(60)
<1>4. \A n \in Byte, m \in Byte : Burst1(n) = Burst1(m) => n = m
  <2>1. \A n \in Byte : Len(Burst1(n)) = n + 4
    BY BurstTransactions
  <2>2. \A n \in Byte, m \in Byte : n + 4 = m + 4 => n = m
    BY DEF Byte
  <2> QED BY <2>1, <2>2, Zenon
<1> QED BY <1>1, <1>2, <1>3, <1>4

\* What is at hand in each place.
LEMMA Places ==
  /\ SettingUp  => Left > 4
  /\ LoopBegins => todo # <<>> /\ Left = 4 /\ todo[1] = gotNewMessage /\ todo[2] = wait
                   /\ todo[3] = getReceivedMessageSize /\ todo[4] = burst
  /\ Waiting    => todo # <<>> /\ Left = 3 /\ todo[1] = wait /\ todo[2] = getReceivedMessageSize
                   /\ todo[3] = burst
  /\ Sizing     => todo # <<>> /\ Left = 2 /\ todo[1] = getReceivedMessageSize /\ todo[2] = burst
  /\ ToBurst    => todo # <<>> /\ Left = 1 /\ todo[1] = burst
  /\ \A n : todo = <<Burst1(n)>> => todo # <<>> /\ Left = 1 /\ todo[1] = Burst1(n)
  /\ todo = <<>> => Left = 0
<1>1. SettingUp => Left > 4
  BY DEF SettingUp
<1>2. LoopBegins => todo # <<>> /\ Left = 4 /\ todo[1] = gotNewMessage /\ todo[2] = wait
                    /\ todo[3] = getReceivedMessageSize /\ todo[4] = burst
  BY ReceiverShape DEF LoopBegins, Left
<1>3. Waiting => todo # <<>> /\ Left = 3 /\ todo[1] = wait /\ todo[2] = getReceivedMessageSize
                 /\ todo[3] = burst
  BY DEF Waiting, Left
<1>4. Sizing => todo # <<>> /\ Left = 2 /\ todo[1] = getReceivedMessageSize /\ todo[2] = burst
  BY DEF Sizing, Left
<1>5. ToBurst => todo # <<>> /\ Left = 1 /\ todo[1] = burst
  BY DEF ToBurst, Left
<1>6. \A n : todo = <<Burst1(n)>> => todo # <<>> /\ Left = 1 /\ todo[1] = Burst1(n)
  BY DEF Left
<1>7. todo = <<>> => Left = 0
  BY DEF Left
<1> QED BY <1>1, <1>2, <1>3, <1>4, <1>5, <1>6, <1>7

LEMMA FourItems ==
  ASSUME NEW s, NEW a, NEW b, NEW c, NEW d, s = <<s[1], s[2], s[3], s[4]>>,
         s[1] = a, s[2] = b, s[3] = c, s[4] = d
  PROVE  s = <<a, b, c, d>>
OBVIOUS

\* The sequences of the places, from their elements.
LEMMA PlaceOf ==
  ASSUME NEW s \in Seq(ItemsOf(Receiver))
  PROVE  /\ Len(s) = 4 /\ s[1] = gotNewMessage /\ s[2] = wait
              /\ s[3] = getReceivedMessageSize /\ s[4] = burst
              => s = Receiver.loop
         /\ Len(s) = 3 /\ s[1] = wait /\ s[2] = getReceivedMessageSize /\ s[3] = burst
              => s = <<wait, getReceivedMessageSize, burst>>
         /\ Len(s) = 2 /\ s[1] = getReceivedMessageSize /\ s[2] = burst
              => s = <<getReceivedMessageSize, burst>>
         /\ Len(s) = 1 /\ s[1] = burst => s = <<burst>>
         /\ Len(s) = 0 => s = <<>>
<1> DEFINE S == ItemsOf(Receiver)
<1>1. s \in Seq(S)
  OBVIOUS
<1> HIDE DEF S
<1>2. /\ Len(s) = 4 => s = <<s[1], s[2], s[3], s[4]>>
      /\ Len(s) = 3 => s = <<s[1], s[2], s[3]>>
      /\ Len(s) = 2 => s = <<s[1], s[2]>>
      /\ Len(s) = 1 => s = <<s[1]>>
      /\ Len(s) = 0 => s = <<>>
  BY <1>1
<1> HIDE <1>1
<1>3. ASSUME Len(s) = 4, s[1] = gotNewMessage, s[2] = wait,
             s[3] = getReceivedMessageSize, s[4] = burst
      PROVE  s = Receiver.loop
  <2>1. s = <<s[1], s[2], s[3], s[4]>>
    BY <1>2, <1>3
  <2>2. s = <<gotNewMessage, wait, getReceivedMessageSize, burst>>
    BY <1>3, <2>1, FourItems, Zenon
  <2> QED BY <2>2, ReceiverShape
<1>4. Len(s) = 3 /\ s[1] = wait /\ s[2] = getReceivedMessageSize /\ s[3] = burst
        => s = <<wait, getReceivedMessageSize, burst>>
  BY <1>2, Zenon
<1>5. Len(s) = 2 /\ s[1] = getReceivedMessageSize /\ s[2] = burst
        => s = <<getReceivedMessageSize, burst>>
  BY <1>2, Zenon
<1>6. Len(s) = 1 /\ s[1] = burst => s = <<burst>>
  BY <1>2, Zenon
<1>7. Len(s) = 0 => s = <<>>
  BY <1>2, Zenon
<1> QED BY <1>3, <1>4, <1>5, <1>6, <1>7

\* No two places at a time.
Apart ==
  /\ SettingUp  => ~LoopBegins /\ ~Waiting /\ ~Sizing /\ ~ToBurst /\ ~Bursting /\ todo # <<>>
  /\ LoopBegins => ~Waiting /\ ~Sizing /\ ~ToBurst /\ ~Bursting /\ todo # <<>>
  /\ Waiting    => ~Sizing /\ ~ToBurst /\ ~Bursting /\ todo # <<>>
  /\ Sizing     => ~ToBurst /\ ~Bursting /\ todo # <<>>
  /\ ToBurst    => ~Bursting /\ todo # <<>>
  /\ Bursting   => todo # <<>>

LEMMA OnePlace == Apart
<1>1. Bursting => Left = 1 /\ todo[1] \in Transactions /\ todo # <<>>
  BY Places, LoopParts, Zenon DEF Bursting
<1>2. ToBurst => todo[1] \notin Transactions
  BY Places, NotTransactions, Zenon
<1> QED BY <1>1, <1>2, Places DEF Apart

LEMMA OnePlaceNext == Apart'
BY OnePlace, PTL

\* The transactions of the receiver leave alone what reception writes.
LEMMA ReceiverSpares ==
  ASSUME ReceiverIsOnTrack, program = Receiver, todo # <<>>, todo[1] \in Transactions
  PROVE  SparesReception(todo[1])
<1>1. CASE SettingUp
  <2>1. 1 \in 1 .. (Left - 4)
    BY <1>1 DEF SettingUp
  <2> QED BY <1>1, <2>1 DEF SettingUp
<1>2. CASE LoopBegins \/ Sizing
  BY <1>2, Places, LoopParts, Zenon DEF SparesReception
<1>3. CASE Waiting \/ ToBurst
  BY <1>3, Places, NotTransactions, Zenon
<1>4. CASE Bursting
  BY <1>4, Places, LoopParts, Zenon DEF SparesReception, Bursting
<1> QED BY <1>1, <1>2, <1>3, <1>4 DEF ReceiverIsOnTrack

\* The interrupt status and the receive FIFO, after a data byte.
LEMMA ReceptionAfterByte ==
  ASSUME memory \in [Cells -> Byte], NEW t \in Transactions, NEW i \in 1 .. DataLength(t),
         DataByte(t, i), SparesReception(t)
  PROVE  /\ \A a \in 768 .. 780 : memory'[Cell("long", a)] = memory[Cell("long", a)]
         /\ memory'[InterruptCell] \in {0, memory[InterruptCell]}
<1> DEFINE cell   == CellOfByte(CommandOf(t), i)
           inCell == cell \in Cells /\ (IsLong(t) \/ i = 1)
           byte   == IF Datum(t, i).op = "write" THEN Datum(t, i).byte ELSE 0
           writes == IsWriteCommand(CommandOf(t)) /\ inCell
           resets == writes /\ cell = ResetCell /\ byte = mrf_value_full_software_reset
           polls  == ~IsWriteCommand(CommandOf(t)) /\ cell = InterruptCell
<1>1. memory' = IF resets THEN AfterReset
                ELSE IF writes THEN [memory EXCEPT ![cell] = byte]
                ELSE IF polls THEN [memory EXCEPT ![cell] = 0]
                ELSE memory
  BY Zenon DEF DataByte
<1>2. \A c \in ReceptionCells : writes => cell # c
  BY Zenon DEF WritesTo, SparesReception
<1>3. polls => cell = InterruptCell
  OBVIOUS
<1> HIDE DEF cell, writes, polls, resets, byte
<1>4. InterruptCell \in Cells /\ InterruptCell \in ReceptionCells
      /\ ~IsFifo(InterruptCell) /\ InterruptCell # Cell("short", mrf_register_tx_stabilization)
  BY DEF InterruptCell, Cells, ReceptionCells, Cell, IsFifo, mrf_register_interrupt_status,
         mrf_register_tx_stabilization
<1>5. \A a \in 768 .. 780 : /\ Cell("long", a) \in Cells /\ Cell("long", a) \in ReceptionCells
                            /\ IsFifo(Cell("long", a)) /\ Cell("long", a) # InterruptCell
  BY DEF InterruptCell, Cells, ReceptionCells, Cell, IsFifo, mrf_rx_fifo_start,
         mrf_register_interrupt_status
<1>6. /\ \A a \in 768 .. 780 : AfterReset[Cell("long", a)] = memory[Cell("long", a)]
      /\ AfterReset[InterruptCell] = 0
  <2> HIDE DEF Cells
  <2> QED BY <1>4, <1>5 DEF AfterReset
<1>7. \A a \in 768 .. 780 : memory'[Cell("long", a)] = memory[Cell("long", a)]
  <2> SUFFICES ASSUME NEW a \in 768 .. 780
               PROVE  memory'[Cell("long", a)] = memory[Cell("long", a)]
    OBVIOUS
  <2> DEFINE c == Cell("long", a)
  <2>1. /\ c \in Cells /\ c # InterruptCell /\ AfterReset[c] = memory[c] /\ (writes => cell # c)
    BY <1>2, <1>5, <1>6
  <2> HIDE DEF c, Cells, Byte
  <2>2. memory'[c] = memory[c]
    BY <1>1, <1>3, <2>1
  <2> QED BY <2>2 DEF c
<1>8. memory'[InterruptCell] \in {0, memory[InterruptCell]}
  <2>1. writes => cell # InterruptCell
    BY <1>2, <1>4
  <2> HIDE DEF Cells, Byte
  <2> QED BY <1>1, <1>3, <1>4, <1>6, <2>1
<1> QED BY <1>7, <1>8

\* The effect of a byte that is read.
LEMMA ReadByte ==
  ASSUME NEW t, NEW i, DataByte(t, i), Datum(t, i) = [op |-> "read"],
         ~IsWriteCommand(CommandOf(t)), NEW c, CellOfByte(CommandOf(t), i) = c
  PROVE  /\ kept' = Append(kept, IF c \in Cells /\ (IsLong(t) \/ i = 1) THEN memory[c] ELSE 0)
         /\ c # InterruptCell => memory' = memory /\ (overtaken' <=> overtaken)
         /\ c = InterruptCell => ~overtaken'
<1>1. Datum(t, i).op = "read"
  OBVIOUS
<1> DEFINE inCell == c \in Cells /\ (IsLong(t) \/ i = 1)
<1>2. /\ kept' = IF Datum(t, i).op = "read"
                   THEN Append(kept, IF ~IsWriteCommand(CommandOf(t)) /\ inCell
                                       THEN memory[c] ELSE 0)
                   ELSE kept
      /\ c # InterruptCell => memory' = memory /\ (overtaken' <=> overtaken)
      /\ c = InterruptCell => ~overtaken'
  BY Zenon DEF DataByte
<1> QED BY <1>1, <1>2, Zenon

\* How the receiver goes on after a step on the bus.
LEMMA ReceiverGoesOn ==
  ASSUME Types, BusIsFollowed, ReceiverIsOnTrack, program = Receiver, BusStep
  PROVE  /\ todo # <<>> /\ todo[1] \in Transactions /\ program' = program
         /\ position \in 1 .. Len(todo[1])
         /\ SettingUp \/ LoopBegins \/ Sizing \/ Bursting
         /\ ~IsData(todo[1], position) => NoData
         /\ IsData(todo[1], position) => DataByte(todo[1], position - Width(todo[1]) - 1)
         /\ position < Len(todo[1]) => position' = position + 1 /\ todo' = todo
         /\ position = Len(todo[1]) =>
              /\ position' = 1 /\ NoData
              /\ SettingUp  => SettingUp' \/ LoopBegins'
              /\ LoopBegins => Waiting'
              /\ Sizing     => ToBurst'
              /\ Bursting   => todo' = <<>>
<1> DEFINE t == todo[1]
<1>1. /\ t \in Transactions /\ Left \in Nat /\ Left > 0 /\ Len(t) >= 3
      /\ \/ /\ position < Len(t) /\ position' = position + 1 /\ todo' = todo
         \/ /\ position = Len(t) /\ position' = 1 /\ NoData
            /\ Left' = Left - 1 /\ \A i \in 1 .. (Left - 1) : todo'[i] = todo[i + 1]
      /\ ~IsData(t, position) => NoData
      /\ IsData(t, position) => DataByte(t, position - Width(t) - 1)
  BY BusStepMoves
<1>2. todo # <<>> /\ program' = program
  BY BusStepIsAtHand, Zenon
<1>3. position \in 1 .. Len(t) /\ Len(t) \in Nat
  BY <1>2, AtHand
<1>4. SettingUp \/ LoopBegins \/ Sizing \/ Bursting
  <2>1. ~Waiting /\ ~ToBurst
    BY <1>1, Places, NotTransactions, Zenon
  <2> QED BY <1>2, <2>1 DEF ReceiverIsOnTrack
<1>5. ASSUME position = Len(t)
      PROVE  /\ position' = 1 /\ NoData
             /\ SettingUp  => SettingUp' \/ LoopBegins'
             /\ LoopBegins => Waiting'
             /\ Sizing     => ToBurst'
             /\ Bursting   => todo' = <<>>
  <2>1. /\ position' = 1 /\ NoData
        /\ Left' = Left - 1 /\ \A i \in 1 .. (Left - 1) : todo'[i] = todo[i + 1]
    BY <1>1, <1>3, <1>5
  <2>2. todo' \in Seq(ItemsOf(Receiver))
    BY <1>2, BusStepTypes DEF Types
  <2> HIDE DEF t
  <2>3. LoopBegins => Waiting'
    <3>1. ASSUME LoopBegins
          PROVE  /\ Len(todo') = 3 /\ todo'[1] = wait /\ todo'[2] = getReceivedMessageSize
                 /\ todo'[3] = burst
      <4>1. /\ Left = 4 /\ todo[2] = wait /\ todo[3] = getReceivedMessageSize /\ todo[4] = burst
        BY <3>1, Places, Zenon
      <4> HIDE <2>2
      <4> QED BY <2>1, <4>1 DEF Left
    <3> QED BY <2>2, <3>1, PlaceOf, Zenon DEF Waiting
  <2>4. Sizing => ToBurst'
    <3>1. ASSUME Sizing PROVE Len(todo') = 1 /\ todo'[1] = burst
      <4>1. Left = 2 /\ todo[2] = burst
        BY <3>1, Places, Zenon
      <4> HIDE <2>2
      <4> QED BY <2>1, <4>1 DEF Left
    <3> QED BY <2>2, <3>1, PlaceOf, Zenon DEF ToBurst
  <2>5. Bursting => todo' = <<>>
    <3>1. Bursting => Left = 1
      BY Places, Zenon DEF Bursting
    <3>2. Left = 1 => Len(todo') = 0
      BY <2>1 DEF Left
    <3> QED BY <2>2, <3>1, <3>2, PlaceOf, Zenon
  <2>6. ASSUME SettingUp, Left = 5 PROVE LoopBegins'
    <3>1. \A k \in 1 .. 4 : todo[1 + k] = Receiver.loop[k]
      BY <2>6 DEF SettingUp
    <3>2. /\ Receiver.loop[1] = gotNewMessage /\ Receiver.loop[2] = wait
          /\ Receiver.loop[3] = getReceivedMessageSize /\ Receiver.loop[4] = burst
      BY ReceiverShape
    <3>3. /\ Len(todo') = 4 /\ todo'[1] = gotNewMessage /\ todo'[2] = wait
          /\ todo'[3] = getReceivedMessageSize /\ todo'[4] = burst
      BY <2>1, <2>6, <3>1, <3>2 DEF Left
    <3> QED BY <2>2, <3>3, PlaceOf, Zenon DEF LoopBegins
  <2>7. ASSUME SettingUp, Left # 5 PROVE SettingUp'
    <3>1. Left' \in 5 .. 51 /\ Left \in 6 .. 52
      BY <1>1, <2>1, <2>7 DEF SettingUp
    <3>2. \A k \in 1 .. (Left' - 4) : todo'[k] \in Transactions /\ SparesReception(todo'[k])
      <4>1. \A k \in 1 .. (Left' - 4) :
              k + 1 \in 1 .. (Left - 4) /\ todo'[k] = todo[k + 1]
        BY <2>1, <3>1
      <4> QED BY <2>7, <4>1 DEF SettingUp
    <3>3. \A k \in 1 .. 4 : todo'[Left' - 4 + k] = Receiver.loop[k]
      <4>1. \A k \in 1 .. 4 : /\ Left' - 4 + k \in 1 .. (Left - 1)
                              /\ (Left' - 4 + k) + 1 = Left - 4 + k
        BY <2>1, <3>1
      <4>2. \A k \in 1 .. 4 : todo'[Left' - 4 + k] = todo[Left - 4 + k]
        BY <2>1, <4>1
      <4> QED BY <2>7, <4>2 DEF SettingUp
    <3>4. Left' # 52 /\ Left' \in 5 .. 52
      BY <3>1
    <3> QED BY <3>2, <3>3, <3>4 DEF SettingUp, SparesReception, ReceptionCells, InterruptCell,
               WritesTo
  <2> QED BY <2>1, <2>3, <2>4, <2>5, <2>6, <2>7
<1>6. position < Len(t) => position' = position + 1 /\ todo' = todo
  BY <1>1, <1>3
<1> QED BY <1>1, <1>2, <1>3, <1>4, <1>5, <1>6

\* What the bytes of the poll, of the length and of the packet are.
LEMMA BytesOfLoop ==
  /\ \A p \in Nat : IsData(gotNewMessage, p) <=> p = 3
  /\ \A p \in Nat : IsData(getReceivedMessageSize, p) <=> p = 4
  /\ \A n \in Byte, p \in Nat : IsData(Burst1(n), p) <=> p \in 4 .. (n + 3)
  /\ InterruptCell \in Cells /\ SizeCell \in Cells /\ SizeCell # InterruptCell
  /\ SizeCell = Cell("long", 768)
  /\ \A i \in Int : Cell("long", 768 + i - 1) # InterruptCell
  /\ \A i \in 1 .. 13 : Cell("long", 768 + i - 1) \in Cells
<1>1. \A p \in Nat : IsData(gotNewMessage, p) <=> p = 3
  BY PollAndSize DEF IsData
<1>2. \A p \in Nat : IsData(getReceivedMessageSize, p) <=> p = 4
  BY PollAndSize DEF IsData
<1>3. \A n \in Byte, p \in Nat : IsData(Burst1(n), p) <=> p \in 4 .. (n + 3)
  <2> SUFFICES ASSUME NEW n \in Byte, NEW p \in Nat
               PROVE  IsData(Burst1(n), p) <=> p \in 4 .. (n + 3)
    OBVIOUS
  <2>1. Width(Burst1(n)) = 2 /\ Len(Burst1(n)) = n + 4
    BY BurstTransactions, ZenonT(60)
  <2> QED BY <2>1 DEF IsData, Byte
<1>4. /\ InterruptCell \in Cells /\ SizeCell \in Cells /\ SizeCell # InterruptCell
      /\ SizeCell = Cell("long", 768)
      /\ \A i \in Int : Cell("long", 768 + i - 1) # InterruptCell
      /\ \A i \in 1 .. 13 : Cell("long", 768 + i - 1) \in Cells
  BY DEF InterruptCell, SizeCell, Cells, Cell, mrf_register_interrupt_status, mrf_rx_fifo_start
<1> QED BY <1>1, <1>2, <1>3, <1>4

LEMMA LoopCells == InterruptCell \in Cells /\ SizeCell \in Cells /\ SizeCell # InterruptCell
BY DEF InterruptCell, SizeCell, Cells, Cell, mrf_register_interrupt_status, mrf_rx_fifo_start

LEMMA PollByte ==
  ASSUME DataByte(gotNewMessage, 1)
  PROVE  kept' = Append(kept, memory[InterruptCell])
<1>1. /\ Datum(gotNewMessage, 1) = [op |-> "read"] /\ ~IsWriteCommand(CommandOf(gotNewMessage))
      /\ CellOfByte(CommandOf(gotNewMessage), 1) = InterruptCell
  BY PollAndSize, Zenon DEF OneRead
<1>2. kept' = Append(kept, IF InterruptCell \in Cells /\ (IsLong(gotNewMessage) \/ 1 = 1)
                             THEN memory[InterruptCell] ELSE 0)
  BY <1>1, ReadByte, Zenon
<1> QED BY <1>2, LoopCells, Zenon

LEMMA SizeByte ==
  ASSUME DataByte(getReceivedMessageSize, 1)
  PROVE  kept' = Append(kept, memory[SizeCell]) /\ memory' = memory /\ (overtaken' <=> overtaken)
<1> DEFINE t == getReceivedMessageSize
<1>1. /\ Datum(t, 1) = [op |-> "read"] /\ ~IsWriteCommand(CommandOf(t))
      /\ CellOfByte(CommandOf(t), 1) = SizeCell
  BY PollAndSize, Zenon DEF OneRead
<1>2. /\ kept' = Append(kept, IF SizeCell \in Cells /\ (IsLong(t) \/ 1 = 1)
                                THEN memory[SizeCell] ELSE 0)
      /\ SizeCell # InterruptCell => memory' = memory /\ (overtaken' <=> overtaken)
  BY <1>1, ReadByte, Zenon
<1> QED BY <1>2, LoopCells, Zenon

LEMMA BurstByte ==
  ASSUME NEW n \in Byte, NEW i \in 1 .. n, DataByte(Burst1(n), i)
  PROVE  /\ \E b : kept' = Append(kept, b)
         /\ i <= 13 => kept' = Append(kept, memory[Cell("long", 768 + i - 1)])
         /\ memory' = memory /\ (overtaken' <=> overtaken)
<1> DEFINE t == Burst1(n)
           c == Cell("long", 768 + i - 1)
<1>1. /\ Datum(t, i) = [op |-> "read"] /\ ~IsWriteCommand(CommandOf(t)) /\ IsLong(t)
      /\ CellOfByte(CommandOf(t), i) = c
  BY BurstTransactions
<1>2. c # InterruptCell /\ (i <= 13 => c \in Cells)
  <2>1. i \in Int /\ (i <= 13 => i \in 1 .. 13)
    BY DEF Byte
  <2> QED BY <2>1, BytesOfLoop
<1> HIDE DEF t, c
<1>3. /\ kept' = Append(kept, IF c \in Cells /\ (IsLong(t) \/ i = 1) THEN memory[c] ELSE 0)
      /\ c # InterruptCell => memory' = memory /\ (overtaken' <=> overtaken)
  BY <1>1, ReadByte, Zenon DEF t
<1>4. i <= 13 => kept' = Append(kept, memory[c])
  BY <1>1, <1>2, <1>3, Zenon
<1>5. \E b : kept' = Append(kept, b)
  BY <1>3, Zenon
<1>6. memory' = memory /\ (overtaken' <=> overtaken)
  BY <1>2, <1>3, Zenon
<1> QED BY <1>4, <1>5, <1>6, Zenon DEF c

\* The packet stays where it is.
LEMMA PacketStays ==
  ASSUME \A a \in 768 .. 780 : memory'[Cell("long", a)] = memory[Cell("long", a)]
  PROVE  /\ GotPacket => GotPacket'
         /\ memory'[SizeCell] = memory[SizeCell]
         /\ \A b : Len(b) \in 0 .. 13 /\ FifoHolds(b) => FifoHolds(b)'
<1>1. ASSUME NEW b, Len(b) \in 0 .. 13, FifoHolds(b) PROVE FifoHolds(b)'
  <2> SUFFICES ASSUME NEW i \in 1 .. Len(b)
               PROVE  memory'[Cell("long", mrf_rx_fifo_start + i - 1)] = b[i]
    BY ZenonT(60) DEF FifoHolds, Cell, mrf_rx_fifo_start
  <2>1. memory[Cell("long", mrf_rx_fifo_start + i - 1)] = b[i]
    BY <1>1 DEF FifoHolds
  <2>2. mrf_rx_fifo_start + i - 1 \in 768 .. 780
    <3> DEFINE m == Len(b)
    <3>1. m \in 0 .. 13 /\ i \in 1 .. m
      BY <1>1
    <3> HIDE DEF m
    <3> QED BY <3>1 DEF mrf_rx_fifo_start
  <2> QED BY <2>1, <2>2
<1>2. \A p \in Packets : Len(p) \in 0 .. 13
  <2>1. \A p \in Packets : Len(p) \in 1 .. 13
    BY SpiProgramsAssumption, ZenonT(60)
  <2>2. \A n \in 1 .. 13 : n \in 0 .. 13
    OBVIOUS
  <2> QED BY <2>1, <2>2, ZenonT(60)
<1>3. memory'[SizeCell] = memory[SizeCell]
  BY DEF SizeCell, mrf_rx_fifo_start
<1> QED BY <1>1, <1>2, <1>3 DEF GotPacket

LEMMA ReceptionKept ==
  ASSUME Types, BusIsFollowed, ReceiverIsOnTrack, program = Receiver, BusStep
  PROVE  /\ \A a \in 768 .. 780 : memory'[Cell("long", a)] = memory[Cell("long", a)]
         /\ memory'[InterruptCell] \in {0, memory[InterruptCell]}
<1> DEFINE t == todo[1]
           i == position - Width(t) - 1
<1>1. /\ todo # <<>> /\ t \in Transactions
      /\ ~IsData(t, position) => NoData
      /\ IsData(t, position) => DataByte(t, i)
  BY ReceiverGoesOn
<1>2. CASE ~IsData(t, position)
  BY <1>1, <1>2 DEF NoData
<1>3. CASE IsData(t, position)
  <2>1. i \in 1 .. DataLength(t)
    BY <1>1, <1>3, Positions DEF IsData
  <2>2. SparesReception(t)
    BY <1>1, ReceiverSpares
  <2>3. memory \in [Cells -> Byte]
    BY DEF Types, TypeOK
  <2> HIDE DEF t, i
  <2> QED BY <1>1, <1>3, <2>1, <2>2, <2>3, ReceptionAfterByte, Zenon
<1> QED BY <1>2, <1>3

LEMMA BusStepReports ==
  ASSUME Types, BusIsFollowed, ReceiverIsOnTrack, InterruptMeansPacket, BusStep
  PROVE  InterruptMeansPacket'
<1> SUFFICES ASSUME program = Receiver, ~BeforeReset', Reports(memory'[InterruptCell])
             PROVE  GotPacket'
  <2>1. program' = program
    BY BusStepIsAtHand, Zenon
  <2>2. InterruptCell' = InterruptCell
    BY DEF InterruptCell, Cell, mrf_register_interrupt_status
  <2> QED BY <2>1, <2>2, Zenon DEF InterruptMeansPacket, Reports
<1>1. /\ \A a \in 768 .. 780 : memory'[Cell("long", a)] = memory[Cell("long", a)]
      /\ memory'[InterruptCell] \in {0, memory[InterruptCell]}
  BY ReceptionKept
<1>2. ~Reports(0)
  BY DEF Reports
<1>3. CASE ~BeforeReset
  <2>1. GotPacket
    BY <1>1, <1>2, <1>3 DEF InterruptMeansPacket
  <2> QED BY <1>1, <2>1, PacketStays
<1>4. CASE BeforeReset
  <2> DEFINE t == todo[1]
  <2>1. /\ t \in Transactions
        /\ SettingUp \/ LoopBegins \/ Sizing \/ Bursting
        /\ position \in 1 .. Len(t)
        /\ IsData(t, position) => DataByte(t, position - Width(t) - 1)
        /\ position < Len(t) => position' = position + 1 /\ todo' = todo
    BY ReceiverGoesOn
  <2>2. Left = 52 /\ position <= 3
    BY <1>4 DEF BeforeReset
  <2>3. SettingUp
    <3>1. ~LoopBegins /\ ~Sizing /\ ~Bursting
      BY <2>2, Places DEF Bursting
    <3> QED BY <2>1, <3>1
  <2>4. OneWrite(t, ResetCell, mrf_value_full_software_reset)
    BY <2>2, <2>3 DEF SettingUp
  <2>5. Width(t) = 1 /\ Len(t) = 4
    <3>1. ~IsLong(t)
      <4>1. CellOfByte(CommandOf(t), 1) = ResetCell /\ ResetCell[1] = "short"
        BY <2>4 DEF OneWrite, ResetCell, Cell
      <4>2. ~IsLongCommand(CommandOf(t))
        BY <4>1 DEF CellOfByte, Cell
      <4>3. t \in Transactions
        BY <2>1, Zenon
      <4> HIDE DEF t
      <4>4. IsLongCommand(CommandOf(t)) <=> IsLong(t)
        BY <4>3, CommandBytes
      <4> QED BY <4>2, <4>4
    <3>2. Width(t) = 1
      BY <3>1 DEF Width
    <3>3. DataLength(t) = 1 /\ Len(t) \in Nat
      BY <2>1, <2>4, Positions DEF OneWrite
    <3> QED BY <3>2, <3>3 DEF DataLength
  <2>6. position' = position + 1 /\ todo' = todo /\ position \in 1 .. 3
    BY <2>1, <2>2, <2>5
  <2>7. position = 3
    <3>1. Left' = 52
      BY <2>2, <2>6 DEF Left
    <3>2. ~(position' <= 3)
      BY <3>1 DEF BeforeReset
    <3> QED BY <2>6, <3>2
  <2>8. DataByte(t, 1)
    <3>1. IsData(t, position) /\ position - Width(t) - 1 = 1
      BY <2>5, <2>7 DEF IsData
    <3> QED BY <2>1, <3>1
  <2> HIDE DEF t
  <2>9. memory' = AfterReset
    <3>1. /\ IsWriteCommand(CommandOf(t)) /\ CellOfByte(CommandOf(t), 1) = ResetCell
          /\ Datum(t, 1).op = "write" /\ Datum(t, 1).byte = mrf_value_full_software_reset
      BY <2>4 DEF OneWrite
    <3>2. ResetCell \in Cells
      BY DEF ResetCell, Cells, Cell, mrf_register_software_reset
    <3> QED BY <2>8, <3>1, <3>2, Zenon DEF DataByte
  <2>10. memory'[InterruptCell] = 0
    <3>1. InterruptCell \in Cells
          /\ ~IsFifo(InterruptCell) /\ InterruptCell # Cell("short", mrf_register_tx_stabilization)
      BY DEF InterruptCell, Cells, Cell, IsFifo, mrf_register_interrupt_status,
             mrf_register_tx_stabilization
    <3> HIDE DEF Cells
    <3> QED BY <2>9, <3>1 DEF AfterReset
  <2> QED BY <1>2, <2>10, Zenon
<1> QED BY <1>3, <1>4

\* The length of a packet that came in.
LEMMA PacketLength ==
  ASSUME GotPacket
  PROVE  memory[SizeCell] \in 0 .. 12
<1>1. PICK p \in Packets : FifoHolds(p)
  BY DEF GotPacket
<1>2. Len(p) \in 1 .. 13 /\ Len(p) = p[1] + 1 /\ p \in Seq(Byte)
  BY SpiProgramsAssumption, Zenon
<1>3. p[1] \in Byte
  <2> HIDE DEF Byte
  <2> QED BY <1>2
<1>4. p[1] \in 0 .. 12
  <2> DEFINE m == Len(p)
  <2>1. m \in 1 .. 13 /\ m = p[1] + 1 /\ p[1] \in Int
    <3>1. \A b \in Byte : b \in Int
      BY DEF Byte
    <3> QED BY <1>2, <1>3, <3>1, Zenon
  <2> HIDE DEF m
  <2> QED BY <2>1
<1>5. memory[SizeCell] = p[1]
  <2>1. 1 \in 1 .. Len(p)
    BY <1>2
  <2>2. memory[Cell("long", mrf_rx_fifo_start + 1 - 1)] = p[1]
    BY <1>1, <2>1 DEF FifoHolds
  <2>3. mrf_rx_fifo_start + 1 - 1 = mrf_rx_fifo_start
    BY DEF mrf_rx_fifo_start
  <2> QED BY <2>2, <2>3 DEF SizeCell
<1> QED BY <1>4, <1>5

\* A byte that is kept.
LEMMA Kept ==
  ASSUME kept \in Seq(Byte), NEW b, kept' = Append(kept, b), kept' \in Seq(Byte)
  PROVE  /\ kept' # <<>> /\ Len(kept') = Len(kept) + 1 /\ Len(kept) \in Nat
         /\ kept'[Len(kept')] = b
         /\ \A i \in 1 .. Len(kept) : kept'[i] = kept[i]
         /\ kept = <<>> => kept'[1] = b /\ Len(kept') = 1
<1> HIDE DEF Byte
<1>1. Len(kept) \in Nat
  OBVIOUS
<1>2. /\ Len(kept') = Len(kept) + 1 /\ kept'[Len(kept) + 1] = b
      /\ \A i \in 1 .. Len(kept) : kept'[i] = kept[i]
  OBVIOUS
<1>3. kept' # <<>>
  BY <1>1, <1>2
<1>4. kept = <<>> => Len(kept) = 0
  OBVIOUS
<1> QED BY <1>1, <1>2, <1>3, <1>4

LEMMA SetUpReads ==
  ASSUME Types, BusIsFollowed, ReceiverIsOnTrack, program = Receiver, BusStep, SettingUp
  PROVE  ReceiverReads'
<1>1. /\ position \in 1 .. Len(todo[1])
      /\ position < Len(todo[1]) => todo' = todo
      /\ position = Len(todo[1]) => position' = 1 /\ (SettingUp' \/ LoopBegins')
  BY ReceiverGoesOn
<1>2. position < Len(todo[1]) \/ position = Len(todo[1])
  BY <1>1
<1>3. /\ SettingUp' => ~LoopBegins' /\ ~Waiting' /\ ~Sizing' /\ ~ToBurst' /\ ~Bursting'
                       /\ todo' # <<>>
      /\ LoopBegins' => ~Waiting' /\ ~Sizing' /\ ~ToBurst' /\ ~Bursting' /\ todo' # <<>>
  BY OnePlaceNext, Zenon DEF Apart
<1>4. todo' = todo => SettingUp'
  BY DEF SettingUp, Left, SparesReception, ReceptionCells, InterruptCell, WritesTo
<1>5. /\ ~(LoopBegins' /\ position' = 4) /\ ~Waiting' /\ ~Sizing' /\ ~ToBurst' /\ ~Bursting'
      /\ todo' # <<>>
  BY <1>1, <1>2, <1>3, <1>4
<1>6. \A n \in Byte : todo' # <<Burst1(n)>>
  BY <1>5 DEF Bursting
<1> QED BY <1>5, <1>6, Zenon DEF ReceiverReads

LEMMA PollReads ==
  ASSUME Types, BusIsFollowed, ReceiverIsOnTrack, InterruptMeansPacket, ReceiverReads,
         program = Receiver, BusStep, LoopBegins
  PROVE  ReceiverReads'
<1>1. /\ todo[1] = gotNewMessage /\ Left = 4 /\ Len(gotNewMessage) = 4
  BY Places, PollAndSize
<1>2. /\ position \in 1 .. 4
      /\ ~IsData(gotNewMessage, position) => NoData
      /\ IsData(gotNewMessage, position)
           => DataByte(gotNewMessage, position - Width(gotNewMessage) - 1)
      /\ position < 4 => position' = position + 1 /\ todo' = todo
      /\ position = 4 => position' = 1 /\ NoData /\ Waiting'
  BY <1>1, ReceiverGoesOn
<1>3. /\ LoopBegins' => ~Waiting' /\ ~Sizing' /\ ~ToBurst' /\ ~Bursting' /\ todo' # <<>>
      /\ Waiting' => ~Sizing' /\ ~ToBurst' /\ ~Bursting' /\ todo' # <<>>
  BY OnePlaceNext, Zenon DEF Apart
<1>4. todo' = todo => LoopBegins'
  BY DEF LoopBegins
<1>5. LoopBegins' \/ Waiting'
  BY <1>2, <1>4
<1>6. ~Sizing' /\ ~ToBurst' /\ ~Bursting' /\ todo' # <<>>
  BY <1>3, <1>5
<1>7. \A n \in Byte : todo' # <<Burst1(n)>>
  BY <1>6 DEF Bursting
<1>8. ASSUME (LoopBegins' /\ position' = 4) \/ Waiting'
      PROVE  kept' # <<>> /\ (Reports(LastByte') => GotPacket')
  <2>1. \A a \in 768 .. 780 : memory'[Cell("long", a)] = memory[Cell("long", a)]
    BY ReceptionKept
  <2>2. CASE position = 4
    <3>1. kept # <<>> /\ (Reports(LastByte) => GotPacket)
      BY <2>2, Zenon DEF ReceiverReads
    <3>2. kept' = kept
      BY <1>2, <2>2, Zenon DEF NoData
    <3>3. LastByte' = LastByte
      BY <3>2 DEF LastByte
    <3> QED BY <2>1, <3>1, <3>2, <3>3, PacketStays
  <2>3. CASE position = 3
    <3>1. IsData(gotNewMessage, position) /\ position - Width(gotNewMessage) - 1 = 1
      BY <2>3, BytesOfLoop, PollAndSize
    <3>2. kept' = Append(kept, memory[InterruptCell])
      BY <1>2, <3>1, PollByte
    <3>3. kept \in Seq(Byte) /\ kept' \in Seq(Byte)
      BY BusStepTypes DEF Types, TypeOK
    <3>4. kept' # <<>> /\ LastByte' = memory[InterruptCell]
      BY <3>2, <3>3, Kept DEF LastByte
    <3>5. ~BeforeReset
      BY <1>1 DEF BeforeReset
    <3>6. Reports(memory[InterruptCell]) => GotPacket
      BY <3>5 DEF InterruptMeansPacket
    <3> QED BY <2>1, <3>4, <3>6, PacketStays
  <2>4. CASE position < 3
    <3>1. position' # 4 /\ todo' = todo
      BY <1>2, <2>4
    <3> QED BY <1>3, <1>4, <1>8, <3>1
  <2> QED BY <1>2, <2>2, <2>3, <2>4
<1> QED BY <1>6, <1>7, <1>8, Zenon DEF ReceiverReads, Reports

LEMMA SizeReads ==
  ASSUME Types, BusIsFollowed, ReceiverIsOnTrack, ReceiverReads,
         program = Receiver, BusStep, Sizing
  PROVE  ReceiverReads'
<1> DEFINE t == getReceivedMessageSize
<1>1. todo[1] = t /\ Len(t) = 5 /\ Width(t) = 2
  BY Places, PollAndSize
<1>2. /\ position \in 1 .. 5
      /\ ~IsData(t, position) => NoData
      /\ IsData(t, position) => DataByte(t, position - Width(t) - 1)
      /\ position < 5 => position' = position + 1 /\ todo' = todo
      /\ position = 5 => position' = 1 /\ NoData /\ ToBurst'
  BY <1>1, ReceiverGoesOn
<1>3. /\ Sizing' => ~LoopBegins' /\ ~Waiting' /\ ~ToBurst' /\ ~Bursting' /\ todo' # <<>>
      /\ ToBurst' => ~LoopBegins' /\ ~Waiting' /\ ~Sizing' /\ ~Bursting' /\ todo' # <<>>
  BY OnePlaceNext, Zenon DEF Apart
<1>4. todo' = todo => Sizing'
  BY DEF Sizing
<1>5. Sizing' \/ ToBurst'
  BY <1>2, <1>4
<1>6. ~LoopBegins' /\ ~Waiting' /\ ~Bursting' /\ todo' # <<>>
  BY <1>3, <1>5
<1>7. \A n \in Byte : todo' # <<Burst1(n)>>
  BY <1>6 DEF Bursting
<1>8. GotPacket'
  <2>1. GotPacket
    BY Zenon DEF ReceiverReads
  <2> QED BY <2>1, ReceptionKept, PacketStays
<1>9. position # 4 => NoData
  BY <1>2, BytesOfLoop
<1>10. ASSUME Sizing', position' <= 4 PROVE kept' = <<>>
  <2>1. position < 4
    BY <1>2, <1>3, <1>10
  <2>2. Sizing /\ position <= 4 => kept = <<>>
    BY Zenon DEF ReceiverReads
  <2>3. kept = <<>>
    BY <1>2, <2>1, <2>2
  <2> QED BY <1>9, <2>1, <2>3 DEF NoData
<1>11. ASSUME (Sizing' /\ position' = 5) \/ ToBurst'
       PROVE  Len(kept') = 1 /\ (~overtaken' => kept'[1] = memory'[SizeCell])
  <2>1. CASE position = 5
    <3>1. Len(kept) = 1 /\ (~overtaken => kept[1] = memory[SizeCell])
      BY <2>1, Zenon DEF ReceiverReads
    <3>2. NoData
      BY <1>2, <2>1
    <3>3. kept' = kept /\ memory' = memory /\ (overtaken' <=> overtaken)
      BY <3>2, Zenon DEF NoData
    <3> QED BY <3>1, <3>3
  <2>2. CASE position = 4
    <3>1. kept = <<>>
      <4>1. Sizing /\ position <= 4 => kept = <<>>
        BY Zenon DEF ReceiverReads
      <4> QED BY <2>2, <4>1
    <3>2. IsData(t, position) /\ position - Width(t) - 1 = 1
      BY <1>1, <2>2, BytesOfLoop
    <3>3. DataByte(t, 1)
      BY <1>2, <3>2
    <3>4. kept' = Append(kept, memory[SizeCell]) /\ memory' = memory
      BY <3>3, SizeByte, Zenon
    <3>5. kept \in Seq(Byte) /\ kept' \in Seq(Byte)
      BY BusStepTypes DEF Types, TypeOK
    <3>6. kept'[1] = memory[SizeCell] /\ Len(kept') = 1
      BY <3>1, <3>4, <3>5, Kept, Zenon
    <3> QED BY <3>4, <3>6, Zenon
  <2>3. CASE position < 4
    <3>1. position' # 5 /\ todo' = todo
      BY <1>2, <2>3
    <3> QED BY <1>3, <1>4, <1>11, <3>1
  <2> QED BY <1>2, <2>1, <2>2, <2>3
<1>12. SizeCell' = SizeCell
  BY DEF SizeCell, Cell, mrf_rx_fifo_start
<1> QED BY <1>6, <1>7, <1>8, <1>10, <1>11, <1>12, Zenon DEF ReceiverReads

LEMMA BurstReads ==
  ASSUME Types, BusIsFollowed, ReceiverIsOnTrack, ReceiverReads,
         program = Receiver, BusStep, NEW n \in Byte, todo = <<Burst1(n)>>
  PROVE  ReceiverReads'
<1> DEFINE t == Burst1(n)
<1>1. todo[1] = t /\ Len(t) = n + 4 /\ Width(t) = 2 /\ Bursting
  BY Places, BurstTransactions, ZenonT(60) DEF Bursting
<1>2. /\ position \in 1 .. (n + 4)
      /\ ~IsData(t, position) => NoData
      /\ IsData(t, position) => DataByte(t, position - Width(t) - 1)
      /\ position < n + 4 => position' = position + 1 /\ todo' = todo
      /\ position = n + 4 => position' = 1 /\ NoData /\ todo' = <<>>
  BY <1>1, ReceiverGoesOn
<1> HIDE DEF t
<1>20. n \in Nat
  BY DEF Byte
<1>21. position < n + 4 \/ position = n + 4
  BY <1>2, <1>20
<1>3. GotPacket /\ GotPacket' /\ memory[SizeCell] \in 0 .. 12 /\ memory'[SizeCell] = memory[SizeCell]
  <2>1. GotPacket
    BY <1>1, Zenon DEF ReceiverReads
  <2> QED BY <2>1, ReceptionKept, PacketStays, PacketLength
<1>4. /\ Bursting' => ~SettingUp' /\ ~LoopBegins' /\ ~Waiting' /\ ~Sizing' /\ ~ToBurst'
                      /\ todo' # <<>>
      /\ todo' = <<>> => ~SettingUp' /\ ~LoopBegins' /\ ~Waiting' /\ ~Sizing' /\ ~ToBurst'
                         /\ ~Bursting'
  BY OnePlaceNext, Zenon DEF Apart
<1>5. todo' = todo => Bursting'
  BY DEF Bursting
<1>6. ~LoopBegins' /\ ~Waiting' /\ ~Sizing' /\ ~ToBurst'
  BY <1>2, <1>4, <1>5, <1>21
<1>7. /\ Len(kept) = IF position <= 4 THEN 0 ELSE position - 4
      /\ ~overtaken => n = memory[SizeCell] + 1 /\ FifoHolds(kept)
  BY Zenon DEF ReceiverReads
<1>8. kept \in Seq(Byte) /\ kept' \in Seq(Byte)
  BY BusStepTypes DEF Types, TypeOK
<1>9. ASSUME NEW m \in Byte, todo' = <<Burst1(m)>>
      PROVE  /\ Len(kept') = IF position' <= 4 THEN 0 ELSE position' - 4
             /\ ~overtaken' => m = memory'[SizeCell] + 1 /\ FifoHolds(kept)'
  <2>1. position < n + 4 /\ position' = position + 1 /\ todo' = todo
    <3>1. todo' # <<>>
      BY <1>9
    <3> QED BY <1>2, <1>21, <3>1
  <2>2. m = n
    <3>1. todo[1] = Burst1(m)
      BY <1>9, <2>1
    <3> QED BY <1>1, <3>1, LoopParts DEF t
  <2>3. CASE position <= 3
    <3>1. ~IsData(t, position)
      BY <1>2, <1>20, <2>3, BytesOfLoop DEF t
    <3>5. NoData
      BY <1>2, <3>1
    <3>2. kept' = kept /\ memory' = memory /\ (overtaken' <=> overtaken)
      BY <3>5, Zenon DEF NoData
    <3>3. position' <= 4 /\ position <= 4
      BY <1>2, <1>20, <2>1, <2>3
    <3>4. FifoHolds(kept)' <=> FifoHolds(kept)
      BY <3>2 DEF FifoHolds, Cell, mrf_rx_fifo_start
    <3> QED BY <1>7, <2>2, <3>2, <3>3, <3>4
  <2>4. CASE position > 3
    <3> DEFINE i == position - 3
    <3>1. IsData(t, position) /\ position - Width(t) - 1 = i /\ i \in 1 .. n
      BY <1>1, <1>2, <1>20, <2>1, <2>4, BytesOfLoop DEF t
    <3> HIDE DEF i
    <3>2. DataByte(Burst1(n), i)
      BY <1>2, <3>1 DEF t
    <3>3. /\ \E b : kept' = Append(kept, b)
          /\ i <= 13 => kept' = Append(kept, memory[Cell("long", 768 + i - 1)])
          /\ memory' = memory /\ (overtaken' <=> overtaken)
      BY <3>1, <3>2, BurstByte
    <3>4. Len(kept) = i - 1 /\ position' > 4 /\ position' - 4 = i
      BY <1>2, <1>7, <1>20, <2>1, <2>4 DEF i
    <3>5. Len(kept') = i
      BY <1>8, <3>1, <3>3, <3>4, Kept
    <3>6. ASSUME ~overtaken' PROVE m = memory'[SizeCell] + 1 /\ FifoHolds(kept)'
      <4>1. n = memory[SizeCell] + 1 /\ FifoHolds(kept)
        BY <1>7, <3>3, <3>6
      <4>2. i <= 13
        BY <1>3, <3>1, <4>1
      <4>3. kept' = Append(kept, memory[Cell("long", 768 + i - 1)])
        BY <3>3, <4>2
      <4>4. /\ kept'[i] = memory[Cell("long", 768 + i - 1)]
            /\ \A j \in 1 .. (i - 1) : kept'[j] = kept[j]
        BY <1>8, <3>4, <3>5, <4>3, Kept
      <4>5. \A j \in 1 .. (i - 1) : memory[Cell("long", mrf_rx_fifo_start + j - 1)] = kept[j]
        BY <3>4, <4>1 DEF FifoHolds
      <4>6. \A j \in 1 .. i : j \in 1 .. (i - 1) \/ j = i
        BY <3>1, <1>20
      <4>7. mrf_rx_fifo_start + i - 1 = 768 + i - 1
        BY DEF mrf_rx_fifo_start
      <4>8. \A j \in 1 .. i : memory[Cell("long", mrf_rx_fifo_start + j - 1)] = kept'[j]
        BY <4>4, <4>5, <4>6, <4>7
      <4>9. FifoHolds(kept)'
        <5> SUFFICES ASSUME NEW j \in 1 .. Len(kept')
                     PROVE  memory'[Cell("long", mrf_rx_fifo_start + j - 1)] = kept'[j]
          BY DEF FifoHolds, Cell, mrf_rx_fifo_start
        <5> QED BY <3>3, <3>5, <4>8
      <4> QED BY <1>3, <2>2, <4>1, <4>9
    <3>7. ~(position' <= 4) /\ position' - 4 = i
      BY <1>2, <1>20, <2>1, <2>4 DEF i
    <3>8. Len(kept') = IF position' <= 4 THEN 0 ELSE position' - 4
      BY <3>5, <3>7, Zenon
    <3> QED BY <3>6, <3>8, Zenon
  <2> QED BY <1>2, <1>20, <2>3, <2>4
<1>10. ASSUME todo' = <<>>, ~overtaken'
       PROVE  Len(kept') = memory'[SizeCell] + 1 /\ FifoHolds(kept)'
  <2>1. position = n + 4 /\ NoData
    <3>1. todo' # todo
      BY <1>10
    <3> QED BY <1>2, <1>21, <3>1
  <2>2. kept' = kept /\ memory' = memory /\ (overtaken' <=> overtaken)
    BY <2>1, Zenon DEF NoData
  <2>3. Len(kept) = n
    BY <1>7, <1>20, <2>1
  <2>4. n = memory[SizeCell] + 1 /\ FifoHolds(kept)
    BY <1>7, <1>10, <2>2
  <2>5. FifoHolds(kept)'
    <3>1. FifoHolds(kept)' <=> FifoHolds(kept)
      BY <2>2 DEF FifoHolds, Cell, mrf_rx_fifo_start
    <3> QED BY <2>4, <3>1
  <2> QED BY <2>2, <2>3, <2>4, <2>5
<1>11. SizeCell' = SizeCell /\ \A m \in Byte : Burst1(m)' = Burst1(m)
  BY DEF SizeCell, Cell, mrf_rx_fifo_start
<1> QED BY <1>3, <1>6, <1>9, <1>10, <1>11, Zenon DEF ReceiverReads

LEMMA BusStepReads ==
  ASSUME Types, BusIsFollowed, ReceiverIsOnTrack, InterruptMeansPacket, ReceiverReads, BusStep
  PROVE  ReceiverReads'
<1>1. program' = program
  BY BusStepIsAtHand, Zenon
<1>2. CASE program # Receiver
  BY <1>1, <1>2, Zenon DEF ReceiverReads
<1>3. CASE program = Receiver
  <2>1. SettingUp \/ LoopBegins \/ Sizing \/ Bursting
    BY <1>3, ReceiverGoesOn
  <2>2. CASE SettingUp
    BY <1>3, <2>2, SetUpReads
  <2>3. CASE LoopBegins
    BY <1>3, <2>3, PollReads
  <2>4. CASE Sizing
    BY <1>3, <2>4, SizeReads
  <2>5. CASE Bursting
    <3>1. PICK n \in Byte : todo = <<Burst1(n)>>
      BY <2>5 DEF Bursting
    <3> QED BY <1>3, <3>1, BurstReads
  <2> QED BY <2>1, <2>2, <2>3, <2>4, <2>5
<1> QED BY <1>2, <1>3

LEMMA BusStepOnTrack ==
  ASSUME Types, BusIsFollowed, ReceiverIsOnTrack, BusStep
  PROVE  ReceiverIsOnTrack'
<1>1. program' = program
  BY BusStepIsAtHand, Zenon
<1>2. CASE program # Receiver
  BY <1>1, <1>2, Zenon DEF ReceiverIsOnTrack
<1>3. CASE program = Receiver
  <2>1. /\ position \in 1 .. Len(todo[1]) /\ todo[1] \in Transactions
        /\ position < Len(todo[1]) => todo' = todo
        /\ position = Len(todo[1]) =>
             /\ SettingUp  => SettingUp' \/ LoopBegins'
             /\ LoopBegins => Waiting'
             /\ Sizing     => ToBurst'
             /\ Bursting   => todo' = <<>>
        /\ SettingUp \/ LoopBegins \/ Sizing \/ Bursting
    BY <1>3, ReceiverGoesOn
  <2>2. position < Len(todo[1]) \/ position = Len(todo[1])
    BY <2>1, Positions
  <2>3. /\ todo' = todo /\ SettingUp => SettingUp'
        /\ todo' = todo /\ LoopBegins => LoopBegins'
        /\ todo' = todo /\ Sizing => Sizing'
        /\ todo' = todo /\ Bursting => Bursting'
    <3>1. todo' = todo /\ SettingUp => SettingUp'
      BY DEF SettingUp, Left, SparesReception, ReceptionCells, InterruptCell, WritesTo
    <3> QED BY <3>1 DEF LoopBegins, Sizing, Bursting
  <2>4. \/ SettingUp' \/ LoopBegins' \/ Waiting' \/ Sizing' \/ ToBurst' \/ Bursting'
        \/ todo' = <<>>
    BY <2>1, <2>2, <2>3, Zenon
  <2> QED BY <2>4, Zenon DEF ReceiverIsOnTrack
<1> QED BY <1>2, <1>3

-----------------------------------------------------------------------------
(* Between the transactions: the wait, the burst and the next turn.        *)

\* The receiver is past its setup, and what initMrf set is there.
InLoop    == LoopBegins \/ Waiting \/ Sizing \/ ToBurst \/ Bursting \/ todo = <<>>
SetValues == \A f \in FinalCells : memory[f[1]] = f[2]

\* Nothing left of the loop writes to the chip: what initMrf set is there already.
LoopKeepsSettings == InLoop => (InitMrfSettles <=> (RunsInitMrf => SetValues))

LEMMA LoopLeavesAll ==
  ASSUME InLoop
  PROVE  \A k \in 1 .. Left : \A c : Leaves(todo[k], c)
<1>1. /\ \A c : Leaves(gotNewMessage, c) /\ Leaves(getReceivedMessageSize, c)
      /\ \A c : Leaves(wait, c) /\ Leaves(burst, c)
      /\ \A n \in Byte : \A c : Leaves(Burst1(n), c)
  BY LoopParts, Zenon DEF Leaves
<1>2. CASE LoopBegins
  <2>1. /\ Left = 4 /\ todo[1] = gotNewMessage /\ todo[2] = wait
        /\ todo[3] = getReceivedMessageSize /\ todo[4] = burst
    BY <1>2, Places, Zenon
  <2> QED BY <1>1, <2>1
<1>3. CASE Waiting
  <2>1. Left = 3 /\ todo[1] = wait /\ todo[2] = getReceivedMessageSize /\ todo[3] = burst
    BY <1>3, Places, Zenon
  <2> QED BY <1>1, <2>1
<1>4. CASE Sizing
  <2>1. Left = 2 /\ todo[1] = getReceivedMessageSize /\ todo[2] = burst
    BY <1>4, Places, Zenon
  <2> QED BY <1>1, <2>1
<1>5. CASE ToBurst
  <2>1. Left = 1 /\ todo[1] = burst
    BY <1>5, Places, Zenon
  <2> QED BY <1>1, <2>1
<1>6. CASE Bursting
  <2>1. PICK n \in Byte : todo = <<Burst1(n)>>
    BY <1>6 DEF Bursting
  <2>2. Left = 1 /\ todo[1] = Burst1(n)
    BY <2>1, Places, Zenon
  <2>3. \A c : Leaves(todo[1], c)
    BY <1>1, <2>2, Zenon
  <2> QED BY <2>2, <2>3
<1>7. CASE todo = <<>>
  BY <1>7, Places
<1> QED BY <1>2, <1>3, <1>4, <1>5, <1>6, <1>7 DEF InLoop

LEMMA LoopSettled == LoopKeepsSettings
<1> SUFFICES ASSUME InLoop
             PROVE  InitMrfSettles <=> (RunsInitMrf => SetValues)
  BY DEF LoopKeepsSettings
<1>1. \A k \in 1 .. Left : \A c : Leaves(todo[k], c)
  BY LoopLeavesAll
<1>2. \A c : LeftAlone(c, 1)
  BY <1>1 DEF LeftAlone
<1>3. ASSUME NEW f \in FinalCells PROVE ~Owed(f[1], f[2])
  <2> SUFFICES ASSUME NEW k \in 1 .. Left, OneWrite(todo[k], f[1], f[2]) PROVE FALSE
    BY DEF Owed
  <2>1. WritesTo(todo[k], f[1])
    BY WritesOfOne, Zenon
  <2>2. todo[k] \notin {wait, burst}
    <3>1. todo[k] \in Transactions
      BY DEF OneWrite
    <3> QED BY <3>1, NotTransactions, Zenon
  <2> QED BY <1>1, <2>1, <2>2, Zenon DEF Leaves
<1> QED BY <1>2, <1>3, Zenon DEF InitMrfSettles, Settled, SetValues

LEMMA LoopSettledNext == LoopKeepsSettings'
BY LoopSettled, PTL

\* A step of the receiver that leaves the chip alone and stays in the loop.
LEMMA SettingsStay ==
  ASSUME InitMrfSettles, program = Receiver, program' = program, InLoop, InLoop',
         memory' = memory
  PROVE  InitMrfSettles'
<1>1. SetValues
  BY LoopSettled DEF LoopKeepsSettings, RunsInitMrf
<1>2. SetValues'
  BY <1>1, Zenon DEF SetValues, FinalCells, Cell
<1> QED BY <1>2, LoopSettledNext, Zenon DEF LoopKeepsSettings

LEMMA Uint8 ==
  /\ \A n \in Nat : uint8(n) \in Byte
  /\ \A n \in 0 .. 12 : uint8(n + 1) = n + 1
BY DEF uint8, Byte

LEMMA TailAndFront ==
  ASSUME NEW S, NEW s \in Seq(S), NEW g \in S
  PROVE  /\ s # <<>> =>
              /\ s[1] \in S /\ Tail(s) \in Seq(S) /\ Len(Tail(s)) = Len(s) - 1
              /\ \A i \in 1 .. (Len(s) - 1) : Tail(s)[i] = s[i + 1]
         /\ <<g>> \o s \in Seq(S) /\ Len(<<g>> \o s) = Len(s) + 1 /\ (<<g>> \o s)[1] = g
         /\ \A i \in 1 .. Len(s) : (<<g>> \o s)[i + 1] = s[i]
OBVIOUS

LEMMA WaitSteps ==
  ASSUME Types, ReceiverIsOnTrack, Wait
  PROVE  /\ program = Receiver /\ Waiting /\ position = 1 /\ Left = 3
         /\ program' = program /\ position' = 1 /\ kept' = <<>> /\ selected' = selected
         /\ command' = command /\ offset' = offset /\ memory' = memory
         /\ (overtaken' <=> overtaken)
         /\ todo' \in Seq(ItemsOf(Receiver))
         /\ \/ Reports(LastByte) /\ Sizing'
            \/ LoopBegins'
<1>1. Doing("wait")
  BY DEF Wait
<1>2. program = Receiver /\ Waiting /\ position = 1
  BY <1>1, WaitsAndBursts
<1>3. /\ program' = program /\ position' = position /\ kept' = <<>> /\ selected' = selected
      /\ command' = command /\ offset' = offset /\ memory' = memory
      /\ (overtaken' <=> overtaken)
  BY Zenon DEF Wait, chip
<1>4. \/ Reports(LastByte) /\ todo' = Tail(todo)
      \/ todo' = <<gotNewMessage>> \o todo
  BY Zenon DEF Wait, Reports
<1>5. Left = 3 /\ todo[1] = wait /\ todo[2] = getReceivedMessageSize /\ todo[3] = burst
  BY <1>2, Places, Zenon
<1> DEFINE S == ItemsOf(Receiver)
<1>6. todo \in Seq(S) /\ gotNewMessage \in S
  BY <1>2, ReceiverLoopItems, ItemsOfPrograms, LoopParts DEF Types
<1> HIDE DEF S
<1>7. CASE Reports(LastByte) /\ todo' = Tail(todo)
  <2>1. /\ todo' \in Seq(S) /\ Len(todo') = 2 /\ todo'[1] = getReceivedMessageSize
        /\ todo'[2] = burst
    <3> DEFINE rest == Tail(todo)
    <3>1. /\ rest \in Seq(S) /\ Len(rest) = Left - 1
          /\ \A i \in 1 .. (Left - 1) : rest[i] = todo[i + 1]
      BY <1>2, <1>6, TailAndFront, Places, Zenon DEF Left
    <3> HIDE DEF rest
    <3>2. rest \in Seq(S) /\ Len(rest) = 2 /\ rest[1] = todo[2] /\ rest[2] = todo[3]
      BY <1>5, <3>1
    <3> QED BY <1>5, <1>7, <3>2, Zenon DEF rest
  <2>2. Sizing'
    BY <2>1, PlaceOf, Zenon DEF S, Sizing
  <2> QED BY <1>2, <1>3, <1>5, <1>7, <2>1, <2>2, Zenon DEF S
<1>8. CASE todo' = <<gotNewMessage>> \o todo
  <2>1. /\ todo' \in Seq(S) /\ Len(todo') = 4 /\ todo'[1] = gotNewMessage /\ todo'[2] = wait
        /\ todo'[3] = getReceivedMessageSize /\ todo'[4] = burst
    <3> DEFINE all == <<gotNewMessage>> \o todo
    <3>1. /\ all \in Seq(S) /\ Len(all) = Left + 1 /\ all[1] = gotNewMessage
          /\ \A i \in 1 .. Left : all[i + 1] = todo[i]
      BY <1>6, TailAndFront DEF Left
    <3> HIDE DEF all
    <3>2. all \in Seq(S) /\ Len(all) = 4 /\ all[2] = todo[1] /\ all[3] = todo[2] /\ all[4] = todo[3]
      BY <1>5, <3>1
    <3> QED BY <1>5, <1>8, <3>1, <3>2, Zenon DEF all
  <2>2. LoopBegins'
    BY <2>1, PlaceOf, Zenon DEF S, LoopBegins
  <2> QED BY <1>2, <1>3, <1>5, <2>1, <2>2, Zenon DEF S
<1> QED BY <1>4, <1>7, <1>8

\* The type of the positions at the start of an item.
LEMMA StartOfItem ==
  ASSUME NEW p \in Programs, NEW s \in Seq(ItemsOf(p))
  PROVE  1 \in (IF s = <<>> THEN {1} ELSE 1 .. Len(s[1]))
<1> DEFINE S == ItemsOf(p)
<1>1. s # <<>> => s[1] \in S
  <2>1. s \in Seq(S)
    OBVIOUS
  <2> HIDE DEF S
  <2> QED BY <2>1
<1>2. ASSUME s # <<>> PROVE 1 \in 1 .. Len(s[1])
  <2>1. Len(s[1]) \in Nat /\ Len(s[1]) > 0
    BY <1>1, <1>2, Items
  <2> QED BY <2>1
<1> QED BY <1>2

LEMMA WaitKeeps ==
  ASSUME Types, InitMrfSettles, ReceiverIsOnTrack, InterruptMeansPacket, ReceiverReads, Wait
  PROVE  /\ Types' /\ BusIsFollowed' /\ InitMrfSettles'
         /\ ReceiverIsOnTrack' /\ InterruptMeansPacket' /\ ReceiverReads'
<1>1. /\ program = Receiver /\ Waiting /\ position = 1 /\ Left = 3
      /\ program' = program /\ position' = 1 /\ kept' = <<>> /\ selected' = selected
      /\ command' = command /\ offset' = offset /\ memory' = memory
      /\ (overtaken' <=> overtaken)
      /\ todo' \in Seq(ItemsOf(Receiver))
      /\ \/ Reports(LastByte) /\ Sizing'
         \/ LoopBegins'
  BY WaitSteps
<1>2. Sizing' \/ LoopBegins'
  BY <1>1, Zenon
<1>3. Types'
  <2>1. TypeOK /\ offset \in Nat
    BY DEF Types
  <2>2. <<>> \in Seq(Byte)
    OBVIOUS
  <2>6. /\ program' = program /\ kept' = <<>> /\ selected' = selected
        /\ command' = command /\ offset' = offset /\ memory' = memory
        /\ (overtaken' <=> overtaken)
    BY <1>1, Zenon
  <2> HIDE <1>1
  <2>3. TypeOK' /\ offset' \in Nat
    BY <2>1, <2>2, <2>6, Zenon DEF TypeOK
  <2>4. program' \in Programs /\ todo' \in Seq(ItemsOf(program'))
    BY <1>1, <2>3, Zenon DEF TypeOK
  <2>5. position' \in (IF todo' = <<>> THEN {1} ELSE 1 .. Len(todo'[1]))
    BY <1>1, <2>4, StartOfItem, Zenon
  <2> QED BY <2>3, <2>4, <2>5, Zenon DEF Types
<1>4. BusIsFollowed'
  <2>1. ~(position' > 1)
    BY <1>1
  <2> QED BY <2>1, Zenon DEF BusIsFollowed
<1>5. InitMrfSettles'
  BY <1>1, <1>2, SettingsStay, Zenon DEF InLoop
<1>6. ReceiverIsOnTrack'
  BY <1>2, Zenon DEF ReceiverIsOnTrack
<1>7. GotPacket => GotPacket'
  BY <1>1, PacketStays
<1>8. InterruptMeansPacket'
  <2>1. ~BeforeReset
    BY <1>1 DEF BeforeReset
  <2>2. Reports(memory[InterruptCell]) => GotPacket
    BY <1>1, <2>1 DEF InterruptMeansPacket
  <2>3. Reports(memory[InterruptCell])' <=> Reports(memory[InterruptCell])
    BY <1>1 DEF Reports, InterruptCell, Cell, mrf_register_interrupt_status
  <2> QED BY <1>7, <2>2, <2>3, Zenon DEF InterruptMeansPacket
<1>9. ReceiverReads'
  <2>1. /\ Sizing' => ~LoopBegins' /\ ~Waiting' /\ ~ToBurst' /\ ~Bursting' /\ todo' # <<>>
        /\ LoopBegins' => ~Waiting' /\ ~Sizing' /\ ~ToBurst' /\ ~Bursting' /\ todo' # <<>>
    BY OnePlaceNext, Zenon DEF Apart
  <2>2. position' # 4 /\ position' # 5
    BY <1>1
  <2>3. Waiting => (Reports(LastByte) => GotPacket)
    BY <1>1, Zenon DEF ReceiverReads
  <2>4. Sizing' => GotPacket'
    BY <1>1, <1>7, <2>1, <2>3, Zenon
  <2>5. ~Waiting' /\ ~ToBurst' /\ ~Bursting' /\ todo' # <<>>
    BY <1>2, <2>1, Zenon
  <2>6. \A n \in Byte : todo' # <<Burst1(n)>>
    BY <2>5 DEF Bursting
  <2> QED BY <1>1, <2>2, <2>4, <2>5, <2>6, Zenon DEF ReceiverReads
<1> QED BY <1>3, <1>4, <1>5, <1>6, <1>8, <1>9

LEMMA BurstKeeps ==
  ASSUME Types, InitMrfSettles, ReceiverIsOnTrack, InterruptMeansPacket, ReceiverReads, Burst
  PROVE  /\ Types' /\ BusIsFollowed' /\ InitMrfSettles'
         /\ ReceiverIsOnTrack' /\ InterruptMeansPacket' /\ ReceiverReads'
<1>1. Doing("burst")
  BY DEF Burst
<1>2. program = Receiver /\ ToBurst /\ position = 1
  BY <1>1, WaitsAndBursts
<1>3. /\ program' = program /\ position' = position /\ kept' = <<>> /\ selected' = selected
      /\ command' = command /\ offset' = offset /\ memory' = memory
      /\ (overtaken' <=> overtaken)
      /\ todo' = <<readBurstFromLongAddress(mrf_rx_fifo_start, uint8(LastByte + 1))>>
  BY Zenon DEF Burst, chip
<1>4. /\ Len(kept) = 1 /\ (~overtaken => kept[1] = memory[SizeCell])
      /\ GotPacket
  BY <1>2, Zenon DEF ReceiverReads
<1>5. kept[1] \in Byte
  <2>1. kept \in Seq(Byte)
    BY DEF Types, TypeOK
  <2> HIDE DEF Byte
  <2> QED BY <1>4, <2>1
<1> DEFINE n == uint8(kept[1] + 1)
<1>6. n \in Byte
  <2>1. kept[1] + 1 \in Nat
    BY <1>5 DEF Byte
  <2> QED BY <2>1, Uint8
<1>7. todo' = <<Burst1(n)>>
  <2>1. LastByte = kept[1]
    BY <1>4 DEF LastByte
  <2> QED BY <1>3, <2>1, Zenon DEF Burst1
<1>8. ~overtaken => n = memory[SizeCell] + 1
  BY <1>4, PacketLength, Uint8
<1> HIDE DEF n
<1>9. Bursting'
  BY <1>6, <1>7 DEF Bursting
<1>10. Types'
  <2>1. TypeOK /\ offset \in Nat
    BY DEF Types
  <2>2. <<>> \in Seq(Byte)
    OBVIOUS
  <2>3. TypeOK' /\ offset' \in Nat
    BY <1>3, <2>1, <2>2, Zenon DEF TypeOK
  <2>4. program' \in Programs /\ todo' \in Seq(ItemsOf(program'))
    <3> DEFINE S == ItemsOf(Receiver)
    <3>1. Burst1(n) \in S
      BY <1>6, ItemsOfPrograms, LoopParts, Zenon
    <3> HIDE DEF S
    <3>2. <<Burst1(n)>> \in Seq(S)
      BY <3>1
    <3> QED BY <1>2, <1>3, <1>7, <2>3, <3>2, Zenon DEF TypeOK, S
  <2>5. position' \in (IF todo' = <<>> THEN {1} ELSE 1 .. Len(todo'[1]))
    BY <1>2, <1>3, <2>4, StartOfItem, Zenon
  <2> QED BY <2>3, <2>4, <2>5, Zenon DEF Types
<1>11. BusIsFollowed'
  <2>1. ~(position' > 1)
    BY <1>2, <1>3
  <2> QED BY <2>1, Zenon DEF BusIsFollowed
<1>12. InitMrfSettles'
  BY <1>2, <1>3, <1>9, SettingsStay, Zenon DEF InLoop
<1>13. ReceiverIsOnTrack'
  BY <1>9, Zenon DEF ReceiverIsOnTrack
<1>14. GotPacket'
  BY <1>3, <1>4, PacketStays
<1>15. InterruptMeansPacket'
  BY <1>14, Zenon DEF InterruptMeansPacket
<1>16. ReceiverReads'
  <2>1. ~LoopBegins' /\ ~Waiting' /\ ~Sizing' /\ ~ToBurst' /\ todo' # <<>>
    BY <1>9, OnePlaceNext, Zenon DEF Apart
  <2>2. ASSUME NEW m \in Byte, todo' = <<Burst1(m)>>
        PROVE  /\ Len(kept') = IF position' <= 4 THEN 0 ELSE position' - 4
               /\ ~overtaken' => m = memory'[SizeCell] + 1 /\ FifoHolds(kept)'
    <3>1. m = n
      <4>1. <<Burst1(m)>>[1] = <<Burst1(n)>>[1]
        BY <1>7, <2>2, Zenon
      <4> QED BY <1>6, <4>1, LoopParts
    <3>2. position' = 1 /\ Len(kept') = 0
      BY <1>2, <1>3
    <3>3. FifoHolds(kept)'
      BY <3>2 DEF FifoHolds
    <3>4. memory'[SizeCell] = memory[SizeCell]
      BY <1>3, Zenon
    <3>5. Len(kept') = IF position' <= 4 THEN 0 ELSE position' - 4
      BY <3>2
    <3> QED BY <1>3, <1>8, <3>1, <3>3, <3>4, <3>5, Zenon
  <2>3. SizeCell' = SizeCell
    BY DEF SizeCell, Cell, mrf_rx_fifo_start
  <2> QED BY <1>14, <2>1, <2>2, <2>3, Zenon DEF ReceiverReads
<1> QED BY <1>10, <1>11, <1>12, <1>13, <1>15, <1>16

LEMMA RepeatKeeps ==
  ASSUME Types, InitMrfSettles, ReceiverIsOnTrack, InterruptMeansPacket, Repeat
  PROVE  /\ Types' /\ BusIsFollowed' /\ InitMrfSettles'
         /\ ReceiverIsOnTrack' /\ InterruptMeansPacket' /\ ReceiverReads'
<1>1. /\ todo = <<>> /\ todo' = program.loop
      /\ kept' = kept \/ kept' = <<>>
      /\ program' = program /\ position' = position /\ selected' = selected
      /\ command' = command /\ offset' = offset /\ memory' = memory
      /\ (overtaken' <=> overtaken)
  BY Zenon DEF Repeat, chip
<1>2. position' = 1
  BY <1>1 DEF Types
<1>3. Types'
  <2>1. TypeOK /\ offset \in Nat
    BY DEF Types
  <2>2. <<>> \in Seq(Byte)
    OBVIOUS
  <2>3. kept' \in Seq(Byte)
    BY <1>1, <2>1, <2>2, Zenon DEF TypeOK
  <2>4. /\ program' = program /\ selected' = selected
        /\ command' = command /\ offset' = offset /\ memory' = memory
        /\ (overtaken' <=> overtaken)
    BY <1>1, Zenon
  <2>5. TypeOK' /\ offset' \in Nat
    BY <2>1, <2>3, <2>4, Zenon DEF TypeOK
  <2>6. program' \in Programs /\ todo' \in Seq(ItemsOf(program'))
    BY <1>1, <2>5, ProgramItems, Zenon DEF TypeOK
  <2>7. position' \in (IF todo' = <<>> THEN {1} ELSE 1 .. Len(todo'[1]))
    BY <1>2, <2>6, StartOfItem, Zenon
  <2> QED BY <2>5, <2>6, <2>7, Zenon DEF Types
<1>4. BusIsFollowed'
  <2>1. ~(position' > 1)
    BY <1>2
  <2> QED BY <2>1, Zenon DEF BusIsFollowed
<1>5. InitMrfSettles'
  <2> SUFFICES ASSUME RunsInitMrf, NEW f \in FinalCells
               PROVE  Settled(f[1], f[2])'
    BY <1>1 DEF InitMrfSettles, RunsInitMrf
  <2>1. memory[f[1]] = f[2]
    <3>1. InLoop
      BY <1>1 DEF InLoop
    <3>2. SetValues
      BY <3>1, LoopSettled DEF LoopKeepsSettings
    <3> QED BY <3>2 DEF SetValues
  <2>2. f[1] \in Finals
    BY DEF Finals
  <2>3. \A k \in 1 .. Len(program.loop) :
          Leaves(program.loop[k], f[1]) /\ Leaves(program.loop[k], ResetCell)
    BY <2>2, LeavesOfLoop, Zenon DEF RunsInitMrf
  <2>4. LeftAlone(f[1], 1)'
    BY <1>1, <2>3, Zenon DEF LeftAlone, Left, Leaves, WritesTo, ResetCell, Cell,
                             mrf_register_software_reset
  <2> QED BY <1>1, <2>1, <2>4 DEF Settled
<1>6. program = Receiver => LoopBegins'
  BY <1>1 DEF LoopBegins
<1>7. ReceiverIsOnTrack'
  BY <1>1, <1>6, Zenon DEF ReceiverIsOnTrack
<1>8. InterruptMeansPacket'
  <2> SUFFICES ASSUME program = Receiver, Reports(memory'[InterruptCell])
               PROVE  GotPacket'
    <3>1. InterruptCell' = InterruptCell
      BY DEF InterruptCell, Cell, mrf_register_interrupt_status
    <3> QED BY <1>1, <3>1, Zenon DEF InterruptMeansPacket, Reports
  <2>1. ~BeforeReset
    BY <1>1, Places DEF BeforeReset
  <2>2. GotPacket
    BY <1>1, <2>1, Zenon DEF InterruptMeansPacket
  <2> QED BY <1>1, <2>2, PacketStays
<1>9. ReceiverReads'
  <2> SUFFICES ASSUME program = Receiver PROVE ReceiverReads'
    BY <1>1, Zenon DEF ReceiverReads
  <2>1. ~Waiting' /\ ~Sizing' /\ ~ToBurst' /\ ~Bursting' /\ todo' # <<>>
    BY <1>6, OnePlaceNext, Zenon DEF Apart
  <2>2. position' # 4
    BY <1>2
  <2>3. \A n \in Byte : todo' # <<Burst1(n)>>
    BY <2>1 DEF Bursting
  <2> QED BY <2>1, <2>2, <2>3, Zenon DEF ReceiverReads
<1> QED BY <1>3, <1>4, <1>5, <1>7, <1>8, <1>9

-----------------------------------------------------------------------------
(* A packet comes in.                                                      *)

LEMMA NewPacket ==
  ASSUME memory \in [Cells -> Byte], NEW p \in Packets, PacketArrives(p)
  PROVE  /\ memory' \in [Cells -> Byte]
         /\ FifoHolds(p)'
         /\ \A f \in FinalCells : memory'[f[1]] = memory[f[1]]
<1> DEFINE n == Len(p)
           inFifo(cell) == cell[1] = "long" /\ cell[2] \in mrf_rx_fifo_start .. mrf_rx_fifo_start + n - 1
           rises(cell) == cell = InterruptCell /\ (memory[cell] \div 8) % 2 = 0
<1>1. p \in Seq(Byte) /\ n \in 1 .. 13
  BY SpiProgramsAssumption, Zenon
<1>2. memory' = [cell \in Cells |-> IF inFifo(cell) THEN p[cell[2] - mrf_rx_fifo_start + 1]
                                    ELSE IF rises(cell) THEN memory[cell] + 8
                                    ELSE memory[cell]]
  BY Zenon DEF PacketArrives, InterruptCell
<1>3. \A j \in 1 .. n : p[j] \in Byte
  <2> HIDE DEF Byte
  <2> QED BY <1>1
<1>4. \A b \in Byte : (b \div 8) % 2 = 0 => b + 8 \in Byte
  BY DEF Byte
<1>5. ASSUME NEW cell \in Cells
      PROVE  memory'[cell] \in Byte
  <2>1. memory[cell] \in Byte
    OBVIOUS
  <2>2. CASE inFifo(cell)
    <3>1. \A k \in mrf_rx_fifo_start .. (mrf_rx_fifo_start + n - 1) : k - mrf_rx_fifo_start + 1 \in 1 .. n
      <4> HIDE DEF n
      <4> QED BY <1>1 DEF mrf_rx_fifo_start
    <3>2. p[cell[2] - mrf_rx_fifo_start + 1] \in Byte
      BY <1>3, <2>2, <3>1, Zenon
    <3>3. memory'[cell] = p[cell[2] - mrf_rx_fifo_start + 1]
      <4> HIDE DEF Cells, Byte, inFifo, rises, n
      <4> QED BY <1>2, <2>2
    <3> QED BY <3>2, <3>3
  <2>3. CASE ~inFifo(cell)
    <3>1. memory'[cell] = IF rises(cell) THEN memory[cell] + 8 ELSE memory[cell]
      <4> HIDE DEF Cells, Byte, inFifo, rises, n
      <4> QED BY <1>2, <2>3
    <3> QED BY <1>4, <2>1, <3>1, Zenon
  <2> QED BY <2>2, <2>3
<1>6. memory' \in [Cells -> Byte]
  <2> HIDE DEF Cells, Byte, inFifo, rises, n
  <2> QED BY <1>2, <1>5
<1>7. ASSUME NEW i \in 1 .. n
      PROVE  memory'[Cell("long", mrf_rx_fifo_start + i - 1)] = p[i]
  <2> DEFINE cell == Cell("long", mrf_rx_fifo_start + i - 1)
  <2>1. cell \in Cells /\ inFifo(cell) /\ cell[2] - mrf_rx_fifo_start + 1 = i
    <3>1. i \in 1 .. 13
      <4> HIDE DEF n
      <4> QED BY <1>1
    <3>2. cell \in Cells
      BY <3>1, BytesOfLoop, SMTT(30) DEF mrf_rx_fifo_start
    <3>3. cell[1] = "long" /\ cell[2] = mrf_rx_fifo_start + i - 1
      BY DEF Cell
    <3>4. /\ mrf_rx_fifo_start + i - 1 \in mrf_rx_fifo_start .. mrf_rx_fifo_start + n - 1
          /\ mrf_rx_fifo_start + i - 1 - mrf_rx_fifo_start + 1 = i
      <4> HIDE DEF n
      <4> QED BY <1>1 DEF mrf_rx_fifo_start
    <3> HIDE DEF n, cell, Cells
    <3>5. i \in Int
      OBVIOUS
    <3> QED BY <1>1, <3>2, <3>3, <3>4, <3>5 DEF mrf_rx_fifo_start
  <2> HIDE DEF cell, Cells, Byte, inFifo, rises, n
  <2>2. memory'[cell] = p[cell[2] - mrf_rx_fifo_start + 1]
    BY <1>2, <2>1
  <2> QED BY <2>1, <2>2 DEF cell
<1>8. FifoHolds(p)'
  BY <1>7 DEF FifoHolds, Cell, mrf_rx_fifo_start
<1>9. ASSUME NEW f \in FinalCells
      PROVE  memory'[f[1]] = memory[f[1]]
  <2> DEFINE cell == f[1]
  <2>1. cell \in Cells /\ cell # InterruptCell /\ ~(cell[1] = "long" /\ cell[2] >= 768)
    BY FinalCellsAre DEF Finals
  <2>2. ~inFifo(cell)
    <3> HIDE DEF n
    <3> QED BY <1>1, <2>1 DEF mrf_rx_fifo_start
  <2>3. ~rises(cell)
    BY <2>1
  <2> HIDE DEF cell, Cells, Byte, inFifo, rises, n
  <2>4. memory'[cell] = memory[cell]
    BY <1>2, <2>1, <2>2, <2>3
  <2> QED BY <2>4 DEF cell
<1> QED BY <1>6, <1>8, <1>9

LEMMA SamePlace ==
  ASSUME todo' = todo
  PROVE  /\ (SettingUp' <=> SettingUp) /\ (LoopBegins' <=> LoopBegins) /\ (Waiting' <=> Waiting)
         /\ (Sizing' <=> Sizing) /\ (ToBurst' <=> ToBurst) /\ (Bursting' <=> Bursting)
         /\ Left' = Left
<1>1. Left' = Left
  BY DEF Left
<1>2. SettingUp' <=> SettingUp
  BY <1>1 DEF SettingUp, SparesReception, ReceptionCells, InterruptCell, WritesTo
<1> QED BY <1>1, <1>2 DEF LoopBegins, Waiting, Sizing, ToBurst, Bursting

LEMMA PacketKeeps ==
  ASSUME Types, BusIsFollowed, InitMrfSettles, ReceiverIsOnTrack, ReceiverReads,
         NEW p \in Packets, PacketArrives(p)
  PROVE  /\ Types' /\ BusIsFollowed' /\ InitMrfSettles'
         /\ ReceiverIsOnTrack' /\ InterruptMeansPacket' /\ ReceiverReads'
<1>1. /\ program' = program /\ todo' = todo /\ position' = position /\ kept' = kept
      /\ (selected' <=> selected) /\ command' = command /\ offset' = offset /\ overtaken' = TRUE
  BY Zenon DEF PacketArrives
<1>2. TypeOK /\ offset \in Nat
  BY DEF Types
<1>3. /\ memory' \in [Cells -> Byte] /\ FifoHolds(p)'
      /\ \A f \in FinalCells : memory'[f[1]] = memory[f[1]]
  <2>1. memory \in [Cells -> Byte]
    BY <1>2 DEF TypeOK
  <2> QED BY <2>1, NewPacket
<1>4. selected' = selected
  BY Zenon DEF PacketArrives
<1>5. Types'
  <2>1. overtaken' \in BOOLEAN
    BY <1>1
  <2>2. TypeOK' /\ offset' \in Nat
    BY <1>1, <1>2, <1>3, <1>4, <2>1, Zenon DEF TypeOK
  <2>3. todo' \in Seq(ItemsOf(program'))
        /\ position' \in (IF todo' = <<>> THEN {1} ELSE 1 .. Len(todo'[1]))
    BY <1>1, Zenon DEF Types
  <2> QED BY <2>2, <2>3, Zenon DEF Types
<1>6. BusIsFollowed'
  BY <1>1, <1>4 DEF BusIsFollowed
<1>7. InitMrfSettles'
  <2> SUFFICES ASSUME RunsInitMrf, NEW f \in FinalCells
               PROVE  Settled(f[1], f[2])' \/ Owed(f[1], f[2])'
    BY <1>1 DEF InitMrfSettles, RunsInitMrf
  <2>1. Settled(f[1], f[2]) \/ Owed(f[1], f[2])
    BY DEF InitMrfSettles
  <2>2. memory'[f[1]] = memory[f[1]]
    BY <1>3
  <2>3. \A k : LeftAlone(f[1], k)' <=> LeftAlone(f[1], k)
    BY <1>1 DEF LeftAlone, Left
  <2>4. Settled(f[1], f[2]) => Settled(f[1], f[2])'
    BY <2>2, <2>3 DEF Settled
  <2>5. Owed(f[1], f[2]) => Owed(f[1], f[2])'
    BY <1>1, <2>2, <2>3 DEF Owed, Left
  <2> QED BY <2>1, <2>4, <2>5
<1>8. ReceiverIsOnTrack'
  BY <1>1, SamePlace, Zenon DEF ReceiverIsOnTrack
<1>9. GotPacket'
  BY <1>3 DEF GotPacket
<1>10. InterruptMeansPacket'
  BY <1>9, Zenon DEF InterruptMeansPacket
<1>11. ReceiverReads'
  <2> SUFFICES ASSUME program = Receiver PROVE ReceiverReads'
    BY <1>1, Zenon DEF ReceiverReads
  <2>1. /\ (SettingUp' <=> SettingUp) /\ (LoopBegins' <=> LoopBegins) /\ (Waiting' <=> Waiting)
        /\ (Sizing' <=> Sizing) /\ (ToBurst' <=> ToBurst) /\ (Bursting' <=> Bursting)
    BY <1>1, SamePlace
  <2>2. (LoopBegins' /\ position' = 4) \/ Waiting' => kept' # <<>>
    BY <1>1, <2>1, Zenon DEF ReceiverReads
  <2>3. Sizing' /\ position' <= 4 => kept' = <<>>
    BY <1>1, <2>1, Zenon DEF ReceiverReads
  <2>4. (Sizing' /\ position' = 5) \/ ToBurst' => Len(kept') = 1
    BY <1>1, <2>1, Zenon DEF ReceiverReads
  <2>5. \A n \in Byte : todo' = <<Burst1(n)>> =>
          Len(kept') = IF position' <= 4 THEN 0 ELSE position' - 4
    BY <1>1, Zenon DEF ReceiverReads
  <2> QED BY <1>1, <1>9, <2>2, <2>3, <2>4, <2>5, Zenon DEF ReceiverReads
<1> QED BY <1>5, <1>6, <1>7, <1>8, <1>10, <1>11

LEMMA StutterKeeps ==
  ASSUME Types, BusIsFollowed, InitMrfSettles, ReceiverIsOnTrack, InterruptMeansPacket,
         ReceiverReads, UNCHANGED vars
  PROVE  /\ Types' /\ BusIsFollowed' /\ InitMrfSettles'
         /\ ReceiverIsOnTrack' /\ InterruptMeansPacket' /\ ReceiverReads'
<1>1. /\ program' = program /\ todo' = todo /\ position' = position /\ kept' = kept
      /\ selected' = selected /\ command' = command /\ offset' = offset /\ memory' = memory
      /\ overtaken' = overtaken
  BY Zenon DEF vars
<1>2. Types'
  BY <1>1, Zenon DEF Types, TypeOK
<1>3. BusIsFollowed'
  BY <1>1 DEF BusIsFollowed
<1>4. InitMrfSettles'
  <2> SUFFICES ASSUME RunsInitMrf, NEW f \in FinalCells
               PROVE  Settled(f[1], f[2])' \/ Owed(f[1], f[2])'
    BY <1>1 DEF InitMrfSettles, RunsInitMrf
  <2>1. Settled(f[1], f[2]) \/ Owed(f[1], f[2])
    BY DEF InitMrfSettles
  <2>2. \A k : LeftAlone(f[1], k)' <=> LeftAlone(f[1], k)
    BY <1>1 DEF LeftAlone, Left
  <2>3. Settled(f[1], f[2]) => Settled(f[1], f[2])'
    BY <1>1, <2>2 DEF Settled
  <2>4. Owed(f[1], f[2]) => Owed(f[1], f[2])'
    BY <1>1, <2>2 DEF Owed, Left
  <2> QED BY <2>1, <2>3, <2>4
<1>5. ReceiverIsOnTrack'
  BY <1>1, SamePlace, Zenon DEF ReceiverIsOnTrack
<1>6. GotPacket' <=> GotPacket
  BY <1>1 DEF GotPacket, FifoHolds
<1>7. InterruptMeansPacket'
  <2>1. BeforeReset' <=> BeforeReset
    BY <1>1 DEF BeforeReset, Left
  <2>2. Reports(memory[InterruptCell])' <=> Reports(memory[InterruptCell])
    BY <1>1 DEF Reports, InterruptCell, Cell, mrf_register_interrupt_status
  <2> QED BY <1>1, <1>6, <2>1, <2>2, Zenon DEF InterruptMeansPacket
<1>8. ReceiverReads'
  <2>1. /\ (LoopBegins' <=> LoopBegins) /\ (Waiting' <=> Waiting)
        /\ (Sizing' <=> Sizing) /\ (ToBurst' <=> ToBurst) /\ (Bursting' <=> Bursting)
    BY <1>1, SamePlace
  <2>2. FifoHolds(kept)' <=> FifoHolds(kept)
    BY <1>1 DEF FifoHolds
  <2>3. SizeCell' = SizeCell
    BY DEF SizeCell, Cell, mrf_rx_fifo_start
  <2>4. LastByte' = LastByte
    BY <1>1 DEF LastByte
  <2>5. Reports(LastByte)' <=> Reports(LastByte)
    BY <2>4 DEF Reports
  <2> QED BY <1>1, <1>6, <2>1, <2>2, <2>3, <2>5, Zenon DEF ReceiverReads
<1> QED BY <1>2, <1>3, <1>4, <1>5, <1>7, <1>8

-----------------------------------------------------------------------------
(* The start.                                                              *)

LEMMA SetupSpares ==
  \A k \in 1 .. 48 : SparesReception(Receiver.setup[k])
<1>1. \A a \in RegisterAddresses \ {49} : RegisterCell(a) \notin ReceptionCells
  <2> SUFFICES ASSUME NEW a \in RegisterAddresses \ {49}
               PROVE  RegisterCell(a) \notin ReceptionCells
    OBVIOUS
  <2>1. CASE a <= 63
    <3>1. RegisterCell(a) = <<"short", a>>
      BY <2>1 DEF RegisterCell, Cell, RegisterAddresses
    <3> QED BY <3>1 DEF ReceptionCells, InterruptCell, Cell, mrf_register_interrupt_status
  <2>2. CASE a > 63
    <3>1. RegisterCell(a) = <<"long", a>> /\ a \notin 768 .. 780
      BY <2>2 DEF RegisterCell, Cell, RegisterAddresses
    <3> QED BY <3>1 DEF ReceptionCells, InterruptCell, Cell, mrf_register_interrupt_status
  <2>3. a <= 63 \/ a > 63
    BY DEF RegisterAddresses
  <2> QED BY <2>1, <2>2, <2>3
<1>2. \A a \in 0 .. 63 : a # 49 => Cell("short", a) \notin ReceptionCells
  BY DEF ReceptionCells, InterruptCell, Cell, mrf_register_interrupt_status
<1>3. \A t, c, v : OneWrite(t, c, v) /\ c \notin ReceptionCells => SparesReception(t)
  <2>1. \A t, c, v : OneWrite(t, c, v) => \A d : WritesTo(t, d) <=> d = c
    BY WritesOfOne, Zenon
  <2> QED BY <2>1, Zenon DEF SparesReception
<1>4. \A t, c : OneRead(t, c) => SparesReception(t)
  BY WritesOfOne, Zenon DEF SparesReception
<1>5. ASSUME NEW k \in 1 .. 17 PROVE SparesReception(initMrf[k])
  <2>1. register_value_pairs[k][1] \in RegisterAddresses \ {49}
    BY Table, ZenonT(60)
  <2>2. OneWrite(initMrf[k], RegisterCell(register_value_pairs[k][1]), register_value_pairs[k][2])
    BY InitMrfShape, Zenon
  <2> QED BY <1>1, <1>3, <2>1, <2>2, Zenon
<1>6. ASSUME NEW k \in 18 .. 34 PROVE SparesReception(initMrf[k])
  BY <1>4, InitMrfShape, ZenonT(60)
<1>7. SparesReception(initMrf[35])
  <2>1. Cell("short", 50) \notin ReceptionCells
    BY <1>2
  <2>2. OneWrite(initMrf[35], Cell("short", 50), 246)
    BY InitMrfShape, Zenon
  <2> QED BY <1>3, <2>1, <2>2, Zenon
<1>8. ASSUME NEW k \in 36 .. 47 PROVE SparesReception(initMrf[k])
  <2>1. Cell("short", k - 35) \notin ReceptionCells
    <3>1. k - 35 \in 0 .. 63 /\ k - 35 # 49
      OBVIOUS
    <3> QED BY <1>2, <3>1
  <2>2. OneWrite(initMrf[k], Cell("short", k - 35), InitAddresses[k - 35])
    <3>1. \A j \in 36 .. 47 : OneWrite(initMrf[j], Cell("short", j - 35), InitAddresses[j - 35])
      BY InitMrfShape, Zenon
    <3> QED BY <3>1
  <2> QED BY <1>3, <2>1, <2>2, Zenon
<1>9. SparesReception(Receiver.setup[48])
  <2>1. Cell("short", 0) \notin ReceptionCells
    BY <1>2
  <2>2. OneWrite(Receiver.setup[48], Cell("short", 0), 1)
    BY ReceiverShape, Zenon
  <2> QED BY <1>3, <2>1, <2>2, Zenon
<1>10. \A k \in 1 .. 47 : Receiver.setup[k] = initMrf[k]
  BY ReceiverShape, Zenon
<1>11. \A k \in 1 .. 48 : \/ k \in 1 .. 17 \/ k \in 18 .. 34 \/ k = 35 \/ k \in 36 .. 47
                          \/ k = 48
  OBVIOUS
<1>12. \A k \in 1 .. 48 : k = 48 \/ k \in 1 .. 47
  OBVIOUS
<1>13. \A k \in 1 .. 47 : SparesReception(initMrf[k])
  <2>1. \A k \in 1 .. 47 : \/ k \in 1 .. 17 \/ k \in 18 .. 34 \/ k = 35 \/ k \in 36 .. 47
    OBVIOUS
  <2> QED BY <1>5, <1>6, <1>7, <1>8, <2>1, Zenon
<1> QED BY <1>9, <1>10, <1>12, <1>13, Zenon

LEMMA InitSetsUp ==
  ASSUME Init, program = Receiver
  PROVE  SettingUp /\ Left = 52 /\ position = 1
<1> DEFINE u == Receiver.setup
           l == Receiver.loop
<1>1. todo = u \o l /\ position = 1
  BY DEF Init
<1>2. /\ u \in Seq(Transactions) /\ Len(u) = 48
      /\ u \in Seq(ReceiverItems)
      /\ l \in Seq(ReceiverItems) /\ Len(l) = 4
  <2>1. Transactions \subseteq ReceiverItems
    BY DEF ReceiverItems
  <2>2. u \in Seq(ReceiverItems)
    BY <2>1, ReceiverShape, SeqMonotonic
  <2> QED BY <2>2, ReceiverShape, ReceiverLoopItems, ItemsOfPrograms DEF ReceiverItems
<1>3. /\ \A k \in 1 .. 48 : u[k] \in Transactions
      /\ \A k \in 1 .. 48 : SparesReception(u[k])
  <2>1. \A k \in 1 .. 48 : SparesReception(u[k])
    BY SetupSpares
  <2>2. u \in Seq(Transactions) /\ Len(u) = 48
    BY <1>2
  <2> HIDE DEF u, Transactions
  <2>3. \A k \in 1 .. 48 : u[k] \in Transactions
    <3>1. \A k \in 1 .. Len(u) : u[k] \in Transactions
      BY <2>2, ElementOfSeq, Zenon
    <3> QED BY <2>2, <3>1, Zenon
  <2> QED BY <2>1, <2>3 DEF u
<1>4. OneWrite(u[1], ResetCell, mrf_value_full_software_reset)
  <2>1. register_value_pairs[1][1] = 42 /\ register_value_pairs[1][2] = 7
    BY Table
  <2>2. OneWrite(initMrf[1], RegisterCell(register_value_pairs[1][1]), register_value_pairs[1][2])
    BY InitMrfShape
  <2>3. RegisterCell(42) = ResetCell /\ mrf_value_full_software_reset = 7
    BY DEF RegisterCell, ResetCell, mrf_register_software_reset, mrf_value_full_software_reset
  <2>4. u[1] = initMrf[1]
    BY ReceiverShape
  <2> QED BY <2>1, <2>2, <2>3, <2>4
<1> HIDE DEF u, l
<1>5. Appends(u \o l, u, 48, l, 4)
  BY <1>2, JoinedItems, ZenonT(60)
<1>6. /\ Left = 52
      /\ \A k \in 1 .. 48 : todo[k] = u[k]
      /\ \A k \in 1 .. 4 : todo[48 + k] = l[k]
  <2> DEFINE s == u \o l
  <2>1. Appends(s, u, 48, l, 4) /\ todo = s
    BY <1>1, <1>5
  <2>2. 48 + 4 = 52
    OBVIOUS
  <2> HIDE DEF s
  <2> QED BY <2>1, <2>2, Zenon DEF Appends, Left
<1>7. \A k \in 1 .. (Left - 4) : todo[k] \in Transactions /\ SparesReception(todo[k])
  <2>1. Left - 4 = 48
    BY <1>6
  <2> QED BY <1>3, <1>6, <2>1
<1>8. \A k \in 1 .. 4 : todo[Left - 4 + k] = Receiver.loop[k]
  <2>1. \A k \in 1 .. 4 : Left - 4 + k = 48 + k
    BY <1>6
  <2> QED BY <1>6, <2>1 DEF l
<1>9. OneWrite(todo[1], ResetCell, mrf_value_full_software_reset)
  BY <1>4, <1>6
<1>10. Left \in 5 .. 52
  BY <1>6
<1> QED BY <1>1, <1>6, <1>7, <1>8, <1>9, <1>10, Zenon DEF SettingUp

LEMMA InitTypes == Init => Types
<1> SUFFICES ASSUME Init PROVE Types
  OBVIOUS
<1>1. /\ program \in Programs /\ todo = program.setup \o program.loop /\ position = 1
      /\ kept = <<>> /\ selected = FALSE /\ command = <<>> /\ offset = 0 /\ overtaken = FALSE
  BY DEF Init
<1>2. memory \in [Cells -> Byte]
  <2>1. PICK content \in PowerUpContents :
          memory = [content EXCEPT ![Cell("short", mrf_register_tx_stabilization)] =
                                     tx_stabilization_after_reset]
    BY DEF Init
  <2>2. content \in [Cells -> Byte]
    BY SpiProgramsAssumption
  <2>3. tx_stabilization_after_reset \in Byte
    BY DEF tx_stabilization_after_reset, Byte
  <2> HIDE DEF Cells, Byte
  <2> QED BY <2>1, <2>2, <2>3
<1>3. <<>> \in Seq(Byte) /\ FALSE \in BOOLEAN /\ 0 \in Nat
  OBVIOUS
<1>4. TypeOK
  BY <1>1, <1>2, <1>3, Zenon DEF TypeOK
<1>5. todo \in Seq(ItemsOf(program))
  BY <1>1, ProgramItems, Zenon
<1>6. position \in (IF todo = <<>> THEN {1} ELSE 1 .. Len(todo[1]))
  BY <1>1, <1>5, StartOfItem, Zenon
<1> QED BY <1>1, <1>3, <1>4, <1>5, <1>6, Zenon DEF Types

-----------------------------------------------------------------------------
(* What the programs without initMrf read back.                            *)

Script(p) == p.setup \o p.loop
StabilizationCell == Cell("short", mrf_register_tx_stabilization)

\* The datum `j' of the transaction reads the cell `c'; it is the one that writes
\* it, the value `v'.
Fetches(t, j, c) ==
  /\ j \in 1 .. DataLength(t) /\ Datum(t, j) = [op |-> "read"]
  /\ ~IsWriteCommand(CommandOf(t)) /\ CellOfByte(CommandOf(t), j) = c
  /\ IsLong(t) \/ j = 1

Stores(t, j, c, v) ==
  /\ j \in 1 .. DataLength(t) /\ Datum(t, j) = [op |-> "write", byte |-> v]
  /\ IsWriteCommand(CommandOf(t)) /\ (IsLong(t) \/ j = 1)
  /\ \A i \in 1 .. DataLength(t) :
       IsLong(t) \/ i = 1 => (CellOfByte(CommandOf(t), i) = c <=> i = j)
  /\ ~WritesTo(t, ResetCell)

\* How the value `v' that a program announces comes to where it is read: the datum
\* `datum' of the transaction `at' reads it from `cell', where the datum `written' of
\* the transaction `from' put it, or the chip when it was powered up.  As long as it
\* is to be read, no other transaction writes the cell or resets the chip.
IsReading(p, r, v) ==
  LET s    == Script(p)
      last == IF p.loop = <<>> THEN r.at ELSE Len(s)
  IN /\ r.at \in 1 .. Len(s) /\ (p.loop # <<>> => r.at > Len(p.setup))
     /\ Fetches(s[r.at], r.datum, r.cell)
     /\ r.cell \in Cells \ ReceptionCells
     /\ \/ /\ r.from = 0 /\ r.cell = StabilizationCell
           /\ v = tx_stabilization_after_reset
        \/ r.from \in 1 .. (r.at - 1) /\ Stores(s[r.from], r.written, r.cell, v)
     /\ \A k \in (r.from + 1) .. last : ~WritesTo(s[k], r.cell) /\ ~WritesTo(s[k], ResetCell)

Earlier(k, i, l, j) == k < l \/ (k = l /\ i < j)

\* The bytes announced are read one after the other, and before all others.
IsPlan(p, q) ==
  LET s == Script(p)
      n == Attainable(p)
  IN /\ n \in Nat
     /\ \A i \in 1 .. n : IsReading(p, q[i], p.expected[i])
     /\ \A i \in 1 .. n, j \in 1 .. n :
          i < j => Earlier(q[i].at, q[i].datum, q[j].at, q[j].datum)
     /\ \A k \in 1 .. Len(s) : \A j \in 1 .. DataLength(s[k]) :
          Datum(s[k], j).op = "read" =>
            \/ \E i \in 1 .. n : q[i].at = k /\ q[i].datum = j
            \/ \A i \in 1 .. n : Earlier(q[i].at, q[i].datum, k, j)

\* How far the program came: the transactions it made in this turn, the data byte at
\* hand of the one it makes, and whether a data byte is behind it.
Done    == Len(Script(program)) - Left
Reached == position - Width(todo[1]) - 1
Passed(k, j) == Done >= k \/ (Done = k - 1 /\ Reached > j)

OnScript ==
  /\ Left <= Len(Script(program))
  /\ \A j \in 1 .. Left : todo[j] = Script(program)[Done + j]

Known(r, v) ==
  /\ r.from = 0 \/ Passed(r.from, r.written)
  /\ Done < r.at \/ program.loop # <<>>
  => memory[r.cell] = v

ReadSoFar(i, r, v) ==
  IF Passed(r.at, r.datum) THEN i <= Len(kept) /\ kept[i] = v ELSE Len(kept) < i

FollowsPlan(q) ==
  \A i \in 1 .. Attainable(program) :
    Known(q[i], program.expected[i]) /\ ReadSoFar(i, q[i], program.expected[i])

ReadsBack ==
  program \in OtherPrograms =>
    OnScript /\ \E q : IsPlan(program, q) /\ FollowsPlan(q)

\* What a data byte does to a cell.
LEMMA ByteSpares ==
  ASSUME memory \in [Cells -> Byte], NEW t, NEW i, DataByte(t, i),
         NEW c \in Cells, c # InterruptCell,
         IsWriteCommand(CommandOf(t)) /\ (IsLong(t) \/ i = 1) =>
           CellOfByte(CommandOf(t), i) # c /\ CellOfByte(CommandOf(t), i) # ResetCell
  PROVE  memory'[c] = memory[c]
<1> DEFINE cell   == CellOfByte(CommandOf(t), i)
           inCell == cell \in Cells /\ (IsLong(t) \/ i = 1)
           byte   == IF Datum(t, i).op = "write" THEN Datum(t, i).byte ELSE 0
           writes == IsWriteCommand(CommandOf(t)) /\ inCell
           resets == writes /\ cell = ResetCell /\ byte = mrf_value_full_software_reset
           polls  == ~IsWriteCommand(CommandOf(t)) /\ cell = InterruptCell
<1>1. memory' = IF resets THEN AfterReset
                ELSE IF writes THEN [memory EXCEPT ![cell] = byte]
                ELSE IF polls THEN [memory EXCEPT ![cell] = 0]
                ELSE memory
  BY Zenon DEF DataByte
<1>2. ~resets /\ (writes => cell # c) /\ (polls => cell # c)
  OBVIOUS
<1> HIDE DEF cell, writes, polls, resets, byte, Cells, Byte
<1> QED BY <1>1, <1>2

LEMMA ByteStores ==
  ASSUME memory \in [Cells -> Byte], NEW t, NEW i, DataByte(t, i),
         NEW c \in Cells, NEW v, Stores(t, i, c, v)
  PROVE  memory'[c] = v
<1> DEFINE cell   == CellOfByte(CommandOf(t), i)
           inCell == cell \in Cells /\ (IsLong(t) \/ i = 1)
           byte   == IF Datum(t, i).op = "write" THEN Datum(t, i).byte ELSE 0
           writes == IsWriteCommand(CommandOf(t)) /\ inCell
           resets == writes /\ cell = ResetCell /\ byte = mrf_value_full_software_reset
           polls  == ~IsWriteCommand(CommandOf(t)) /\ cell = InterruptCell
<1>1. memory' = IF resets THEN AfterReset
                ELSE IF writes THEN [memory EXCEPT ![cell] = byte]
                ELSE IF polls THEN [memory EXCEPT ![cell] = 0]
                ELSE memory
  BY Zenon DEF DataByte
<1>2. i \in 1 .. DataLength(t) /\ cell = c /\ writes
  BY Zenon DEF Stores
<1>3. ~resets
  BY <1>2, Zenon DEF Stores, WritesTo
<1>4. byte = v
  BY DEF Stores
<1> HIDE DEF cell, writes, polls, resets, byte, Cells, Byte
<1> QED BY <1>1, <1>2, <1>3, <1>4

LEMMA ByteFetched ==
  ASSUME NEW t, NEW i, DataByte(t, i), NEW c \in Cells, Fetches(t, i, c)
  PROVE  kept' = Append(kept, memory[c])
<1>1. Datum(t, i).op = "read"
  BY DEF Fetches
<1> QED BY <1>1, Zenon DEF Fetches, DataByte

\* A data byte appends to what was read when it is a read.
LEMMA ByteKept ==
  ASSUME NEW t, NEW i, DataByte(t, i)
  PROVE  IF Datum(t, i).op = "read" THEN \E x : kept' = Append(kept, x) ELSE kept' = kept
BY Zenon DEF DataByte

-----------------------------------------------------------------------------
(* A step on the bus of a program that follows its script.                 *)

LEMMA ScriptOf ==
  ASSUME NEW p \in OtherPrograms
  PROVE  /\ Script(p) \in Seq(Transactions) /\ Len(p.setup) \in Nat /\ Len(p.loop) \in Nat
         /\ Len(Script(p)) = Len(p.setup) + Len(p.loop)
         /\ \A i \in 1 .. Len(p.setup) : Script(p)[i] = p.setup[i]
         /\ \A i \in 1 .. Len(p.loop) : Script(p)[Len(p.setup) + i] = p.loop[i]
<1>1. p.setup \in Seq(Transactions) /\ p.loop \in Seq(Transactions)
  BY OtherScripts, Zenon DEF IsScript
<1>2. Joins(Script(p), p.setup, Len(p.setup), p.loop, Len(p.loop))
  BY <1>1, JoinedTransactions, Zenon DEF Script
<1>3. Len(p.setup) \in Nat /\ Len(p.loop) \in Nat
  BY <1>1
<1> QED BY <1>2, <1>3, Zenon DEF Joins

LEMMA ScriptMoves ==
  ASSUME Types, BusIsFollowed, program \in OtherPrograms, OnScript, BusStep,
         NEW t, t = todo[1], NEW s, s = Script(program), NEW k, k = Done + 1
  PROVE  /\ k \in 1 .. Len(s) /\ t = s[k] /\ Done \in Nat /\ Reached \in Int
         /\ program' = program /\ OnScript' /\ Done' \in (k - 1) .. k
         /\ \/ NoData /\ Reached \notin 1 .. DataLength(t)
            \/ DataByte(t, Reached) /\ Reached \in 1 .. DataLength(t) /\ Done' = Done
         /\ \A l \in 1 .. Len(s), j \in Nat :
              j \in 1 .. DataLength(s[l]) =>
                (Passed(l, j)' <=> (Passed(l, j) \/ (l = k /\ j = Reached)))
<1> DEFINE n == Len(s)
           p == position
           w == Width(t)
<1>1. /\ t \in Transactions /\ Left \in Nat /\ Left > 0
      /\ \/ /\ p < Len(t) /\ p' = p + 1 /\ todo' = todo
         \/ /\ p = Len(t) /\ p' = 1 /\ NoData
            /\ Left' = Left - 1 /\ \A i \in 1 .. (Left - 1) : todo'[i] = todo[i + 1]
      /\ ~IsData(t, p) => NoData
      /\ IsData(t, p) => DataByte(t, p - w - 1)
  BY BusStepMoves
<1>2. todo # <<>> /\ program' = program
  BY BusStepIsAtHand, Zenon
<1>3. p \in 1 .. Len(t)
  BY <1>2, AtHand
<1>4. Len(t) \in Nat /\ w \in 1 .. 2 /\ Len(t) >= w + 2 /\ DataLength(t) = Len(t) - w - 2
  BY <1>1, Positions DEF DataLength
<1>5. n \in Nat
  BY ScriptOf
<1>6. Left <= n /\ Done = n - Left /\ Done \in Nat /\ k = n - Left + 1 /\ k \in 1 .. n
  <2>1. Left <= n
    BY Zenon DEF OnScript
  <2>2. Done = n - Left
    BY Zenon DEF Done
  <2> HIDE DEF n
  <2> QED BY <1>1, <1>5, <2>1, <2>2
<1>7. t = s[k]
  <2>1. 1 \in 1 .. Left
    BY <1>1
  <2> QED BY <2>1 DEF OnScript
<1>8. Reached = p - w - 1 /\ Reached \in Int
  BY <1>3, <1>4 DEF Reached
<1>9. Reached \in 1 .. DataLength(t) <=> IsData(t, p)
  <2> DEFINE m == Len(t)
             x == Reached
             y == DataLength(t)
  <2>1. p \in Int /\ m \in Int /\ w \in Int /\ x = p - w - 1 /\ y = m - w - 2
    <3> HIDE DEF x, y, w
    <3> QED BY <1>3, <1>4, <1>8 DEF x, y
  <2>2. IsData(t, p) <=> p \in (w + 2) .. (m - 1)
    BY Zenon DEF IsData
  <2> HIDE DEF p, m, w, x, y
  <2>3. x \in 1 .. y <=> p \in (w + 2) .. (m - 1)
    BY <2>1
  <2> QED BY <2>2, <2>3, Zenon DEF x, y
<1>10. CASE p < Len(t) /\ p' = p + 1 /\ todo' = todo
  <2>1. Left' = Left /\ Done' = Done /\ Reached' = Reached + 1
    BY <1>2, <1>3, <1>4, <1>8, <1>10 DEF Left, Done, Reached
  <2>2. OnScript'
    BY <1>2, <1>10, <2>1 DEF OnScript
  <2>3. ASSUME NEW l \in 1 .. n, NEW j \in Nat
        PROVE  Passed(l, j)' <=> (Passed(l, j) \/ (l = k /\ j = Reached))
    BY <1>5, <1>6, <1>8, <2>1 DEF Passed
  <2> QED BY <1>1, <1>2, <1>6, <1>7, <1>8, <1>9, <2>1, <2>2, <2>3
<1>11. CASE /\ p = Len(t) /\ p' = 1 /\ NoData
            /\ Left' = Left - 1 /\ \A i \in 1 .. (Left - 1) : todo'[i] = todo[i + 1]
  <2>1. Done' = k /\ Reached = DataLength(t) + 1
    BY <1>1, <1>2, <1>4, <1>5, <1>6, <1>8, <1>11 DEF Done
  <2>2. Reached' < 0 /\ Reached' \in Int
    <3>1. \A u : Width(u) \in 1 .. 2
      BY DEF Width
    <3>2. Width(todo'[1]) \in 1 .. 2
      BY <3>1
    <3>3. Reached' = 1 - Width(todo'[1]) - 1
      BY <1>11 DEF Reached
    <3> QED BY <3>2, <3>3
  <2>3. OnScript'
    <3>1. Left' <= n
      BY <1>1, <1>5, <1>6, <1>11
    <3>2. ASSUME NEW j \in 1 .. (Left - 1) PROVE todo'[j] = s[k + j]
      <4>1. j + 1 \in 1 .. Left /\ Done + (j + 1) = k + j
        BY <1>1, <1>5, <1>6
      <4> QED BY <1>11, <4>1 DEF OnScript
    <3>3. Script(program') = s
      BY <1>2
    <3> QED BY <1>11, <2>1, <3>1, <3>2, <3>3 DEF OnScript
  <2>4. ASSUME NEW l \in 1 .. n, NEW j \in Nat, j \in 1 .. DataLength(s[l])
        PROVE  Passed(l, j)' <=> (Passed(l, j) \/ (l = k /\ j = Reached))
    <3>1. Passed(l, j)' <=> k >= l
      BY <1>6, <2>1, <2>2, <2>4 DEF Passed
    <3>2. l = k => j < Reached
      BY <1>4, <1>7, <2>1, <2>4
    <3> QED BY <1>5, <1>6, <1>8, <3>1, <3>2 DEF Passed
  <2>5. Reached \notin 1 .. DataLength(t)
    BY <1>4, <2>1
  <2> QED BY <1>2, <1>6, <1>7, <1>8, <1>11, <2>1, <2>3, <2>4, <2>5
<1> QED BY <1>1, <1>10, <1>11

\* What is to be read stays where it is.
LEMMA BusStepKnown ==
  ASSUME Types, BusIsFollowed, program \in OtherPrograms, OnScript, BusStep,
         NEW r, NEW v, IsReading(program, r, v), Known(r, v)
  PROVE  Known(r, v)'
<1> DEFINE p == program
           s == Script(p)
           k == Done + 1
           t == todo[1]
           c == r.cell
           last == IF p.loop = <<>> THEN r.at ELSE Len(s)
<1>1. /\ k \in 1 .. Len(s) /\ t = s[k] /\ Done \in Nat /\ Reached \in Int
      /\ p' = p /\ Done' \in (k - 1) .. k
      /\ \/ NoData /\ Reached \notin 1 .. DataLength(t)
         \/ DataByte(t, Reached) /\ Reached \in 1 .. DataLength(t) /\ Done' = Done
      /\ \A l \in 1 .. Len(s), j \in Nat :
           j \in 1 .. DataLength(s[l]) =>
             (Passed(l, j)' <=> (Passed(l, j) \/ (l = k /\ j = Reached)))
  BY ScriptMoves
<1>2. /\ r.at \in 1 .. Len(s)
      /\ c \in Cells /\ c \notin ReceptionCells
      /\ r.from = 0 \/ (r.from \in 1 .. (r.at - 1) /\ Stores(s[r.from], r.written, c, v))
      /\ \A l \in (r.from + 1) .. last : ~WritesTo(s[l], c) /\ ~WritesTo(s[l], ResetCell)
  BY DEF IsReading
<1>3. Len(s) \in Nat
  BY ScriptOf
<1>4. memory \in [Cells -> Byte]
  BY DEF Types, TypeOK
<1>5. c # InterruptCell
  BY <1>2 DEF ReceptionCells
<1>6. r.from > 0 => /\ r.from \in 1 .. Len(s) /\ r.written \in Nat
                    /\ r.written \in 1 .. DataLength(s[r.from])
  <2>1. \A d : \A j \in 1 .. d : j \in Int /\ j >= 1
    OBVIOUS
  <2>2. r.from > 0 => r.written \in 1 .. DataLength(s[r.from])
    BY <1>2 DEF Stores
  <2>3. r.from > 0 => r.written \in Nat
    BY <2>1, <2>2
  <2> QED BY <1>2, <1>3, <2>2, <2>3
<1> HIDE DEF Cells, Byte, s, t, p, k, c, last
<1> SUFFICES ASSUME r.from = 0 \/ Passed(r.from, r.written)', Done' < r.at \/ p.loop # <<>>
             PROVE  memory'[c] = v
  BY <1>1, Zenon DEF Known, p, c
<1>7. Done \in Int /\ k = Done + 1 /\ Done' \in Int /\ Done <= Done'
  BY <1>1, <1>3 DEF k
<1>8. Done < r.at \/ p.loop # <<>>
  BY <1>2, <1>7
<1>9. r.from = 0 \/ Passed(r.from, r.written) => memory[c] = v
  BY <1>8, Zenon DEF Known, p, c
<1>10. CASE NoData /\ Reached \notin 1 .. DataLength(t)
  <2>1. r.from > 0 => Passed(r.from, r.written)
    BY <1>1, <1>2, <1>6, <1>10
  <2>2. memory[c] = v
    BY <1>2, <1>9, <2>1
  <2> QED BY <1>10, <2>2 DEF NoData
<1>11. CASE DataByte(t, Reached) /\ Reached \in 1 .. DataLength(t) /\ Done' = Done
  <2>1. CASE r.from = k /\ r.written = Reached
    <3>1. Stores(t, Reached, c, v)
      BY <1>1, <1>2, <2>1
    <3> QED BY <1>2, <1>4, <1>11, <3>1, ByteStores
  <2>2. CASE ~(r.from = k /\ r.written = Reached)
    <3>1. r.from > 0 => Passed(r.from, r.written)
      <4> SUFFICES ASSUME r.from > 0 PROVE Passed(r.from, r.written)
        OBVIOUS
      <4>1. r.from # 0
        OBVIOUS
      <4>2. Passed(r.from, r.written)'
        BY <4>1, Zenon
      <4> QED BY <1>1, <1>6, <2>2, <4>2, Zenon
    <3>2. memory[c] = v
      BY <1>2, <1>9, <3>1
    <3>3. r.from <= k /\ r.from \in Int
      <4> DEFINE a == r.from
      <4>0. a = 0 \/ a > 0
        BY <1>2
      <4>1. a = 0 \/ Done >= a \/ Done = a - 1
        BY <4>0, <3>1, Zenon DEF Passed
      <4>2. a = 0 \/ a \in 1 .. Len(s)
        BY <4>0, <1>6, Zenon
      <4>3. k = Done + 1 /\ Done \in Nat
        BY <1>1, <1>7, Zenon
      <4> HIDE DEF a
      <4>4. a \in Int
        BY <1>3, <4>2
      <4>5. a <= k
        BY <4>1, <4>3, <4>4
      <4> QED BY <4>4, <4>5 DEF a
    <3>4. CASE r.from = k
      <4>1. Stores(t, r.written, c, v) /\ r.written # Reached
        BY <1>1, <1>2, <2>2, <3>4
      <4>2. IsLong(t) \/ Reached = 1 => CellOfByte(CommandOf(t), Reached) # c
        BY <1>11, <4>1 DEF Stores
      <4>3. CellOfByte(CommandOf(t), Reached) # ResetCell
        BY <1>11, <4>1, Zenon DEF Stores, WritesTo
      <4>4. memory'[c] = memory[c]
        BY <1>2, <1>4, <1>5, <1>11, <4>2, <4>3, ByteSpares
      <4> QED BY <3>2, <4>4
    <3>5. CASE r.from < k
      <4>1. k \in (r.from + 1) .. last
        <5>1. k \in 1 .. Len(s) /\ last = IF p.loop = <<>> THEN r.at ELSE Len(s)
          BY <1>1 DEF last
        <5>2. p.loop = <<>> => k <= r.at
          BY <1>2, <1>3, <1>7, <1>11
        <5> QED BY <1>2, <1>3, <1>7, <3>3, <3>5, <5>1, <5>2
      <4>2. ~WritesTo(t, c) /\ ~WritesTo(t, ResetCell)
        BY <1>1, <1>2, <4>1
      <4>3. IsWriteCommand(CommandOf(t)) =>
              /\ CellOfByte(CommandOf(t), Reached) # c
              /\ CellOfByte(CommandOf(t), Reached) # ResetCell
        BY <1>11, <4>2, Zenon DEF WritesTo
      <4>4. memory'[c] = memory[c]
        BY <1>2, <1>4, <1>5, <1>11, <4>3, ByteSpares
      <4> QED BY <3>2, <4>4
    <3> QED BY <1>7, <3>3, <3>4, <3>5
  <2> QED BY <2>1, <2>2
<1> QED BY <1>1, <1>10, <1>11

LEMMA AppendedTo ==
  ASSUME NEW s \in Seq(Byte), NEW x
  PROVE  /\ Len(s) \in Nat /\ Len(Append(s, x)) = Len(s) + 1
         /\ Append(s, x)[Len(s) + 1] = x
         /\ \A i \in 1 .. Len(s) : Append(s, x)[i] = s[i]
<1> HIDE DEF Byte
<1> QED OBVIOUS

\* What was read so far is what was announced, and a byte that is read next to it is
\* the one announced next.
LEMMA BusStepReadSoFar ==
  ASSUME Types, BusIsFollowed, program \in OtherPrograms, OnScript, BusStep,
         NEW q, IsPlan(program, q), FollowsPlan(q), NEW i \in 1 .. Attainable(program)
  PROVE  ReadSoFar(i, q[i], program.expected[i])'
<1> DEFINE p == program
           e == program.expected
           n == Attainable(p)
           s == Script(p)
           k == Done + 1
           t == todo[1]
<1>1. /\ k \in 1 .. Len(s) /\ t = s[k] /\ Done \in Nat /\ Reached \in Int
      /\ p' = p
      /\ \/ NoData /\ Reached \notin 1 .. DataLength(t)
         \/ DataByte(t, Reached) /\ Reached \in 1 .. DataLength(t)
      /\ \A l \in 1 .. Len(s), j \in Nat :
           j \in 1 .. DataLength(s[l]) =>
             (Passed(l, j)' <=> (Passed(l, j) \/ (l = k /\ j = Reached)))
  BY ScriptMoves
<1>2. /\ n \in Nat
      /\ \A j \in 1 .. n : IsReading(p, q[j], e[j])
      /\ \A j \in 1 .. n, m \in 1 .. n :
           j < m => Earlier(q[j].at, q[j].datum, q[m].at, q[m].datum)
      /\ \A l \in 1 .. Len(s) : \A j \in 1 .. DataLength(s[l]) :
           Datum(s[l], j).op = "read" =>
             \/ \E m \in 1 .. n : q[m].at = l /\ q[m].datum = j
             \/ \A m \in 1 .. n : Earlier(q[m].at, q[m].datum, l, j)
  BY DEF IsPlan
<1>3. Len(s) \in Nat
  BY ScriptOf
<1>4. \A j \in 1 .. n : /\ q[j].at \in 1 .. Len(s) /\ q[j].datum \in Nat /\ q[j].cell \in Cells
                        /\ q[j].datum \in 1 .. DataLength(s[q[j].at])
                        /\ Fetches(s[q[j].at], q[j].datum, q[j].cell)
                        /\ q[j].from = 0 \/ q[j].from \in 1 .. (q[j].at - 1)
  <2>1. \A d : \A j \in 1 .. d : j \in Nat
    OBVIOUS
  <2> QED BY <1>2, <2>1 DEF IsReading, Fetches
<1>5. \A j \in 1 .. n :
        Passed(q[j].at, q[j].datum)' <=>
          (Passed(q[j].at, q[j].datum) \/ (q[j].at = k /\ q[j].datum = Reached))
  BY <1>1, <1>4
<1>6. \A j \in 1 .. n : Known(q[j], e[j]) /\ ReadSoFar(j, q[j], e[j])
  BY DEF FollowsPlan
<1>7. k \in Int /\ Done \in Int /\ k = Done + 1
  BY <1>1, <1>3 DEF Done
<1>8. kept \in Seq(Byte) /\ Len(kept) \in Nat
  BY DEF Types, TypeOK
<1> HIDE DEF p, n, s, k, t
<1> SUFFICES IF Passed(q[i].at, q[i].datum)'
               THEN i <= Len(kept') /\ kept'[i] = e[i] ELSE Len(kept') < i
  BY <1>1, Zenon DEF ReadSoFar, p
<1>9. i \in 1 .. n
  BY DEF n, p
<1> HIDE DEF e
<1>10. IF Passed(q[i].at, q[i].datum) THEN i <= Len(kept) /\ kept[i] = e[i] ELSE Len(kept) < i
  BY <1>6, <1>9, Zenon DEF ReadSoFar
<1>11. \A m \in 1 .. n :
         Earlier(q[m].at, q[m].datum, k, Reached) => Passed(q[m].at, q[m].datum)
  <2> SUFFICES ASSUME NEW m \in 1 .. n, Earlier(q[m].at, q[m].datum, k, Reached)
               PROVE  Passed(q[m].at, q[m].datum)
    BY Zenon
  <2> DEFINE a == q[m].at
             d == q[m].datum
  <2>1. a \in 1 .. Len(s) /\ d \in Nat /\ Reached \in Int
    BY <1>1, <1>4, Zenon
  <2>2. a < k \/ (a = k /\ d < Reached)
    BY Zenon DEF Earlier
  <2> HIDE DEF a, d
  <2>3. Done >= a \/ (Done = a - 1 /\ Reached > d)
    BY <1>3, <1>7, <2>1, <2>2
  <2> QED BY <2>3, Zenon DEF Passed, a, d
<1>12. CASE NoData /\ Reached \notin 1 .. DataLength(t)
  <2>1. ~(q[i].at = k /\ q[i].datum = Reached)
    BY <1>1, <1>4, <1>9, <1>12
  <2>2. kept' = kept
    BY <1>12 DEF NoData
  <2> QED BY <1>5, <1>9, <1>10, <2>1, <2>2
<1>13. CASE DataByte(t, Reached) /\ Datum(t, Reached).op # "read"
  <2>1. ASSUME q[i].at = k /\ q[i].datum = Reached PROVE FALSE
    <3>1. Fetches(t, Reached, q[i].cell)
      BY <1>1, <1>4, <1>9, <2>1, Zenon
    <3>2. Datum(t, Reached) = [op |-> "read"] /\ [op |-> "read"].op = "read"
      BY <3>1 DEF Fetches
    <3> QED BY <1>13, <3>2, Zenon
  <2>2. kept' = kept
    BY <1>13, ByteKept
  <2> QED BY <1>5, <1>9, <1>10, <2>1, <2>2
<1>14. CASE /\ DataByte(t, Reached) /\ Reached \in 1 .. DataLength(t)
            /\ Datum(t, Reached).op = "read"
  <2>1. PICK x : kept' = Append(kept, x)
    BY <1>14, ByteKept
  <2>2. /\ Len(kept') = Len(kept) + 1 /\ kept'[Len(kept) + 1] = x
        /\ \A j \in 1 .. Len(kept) : kept'[j] = kept[j]
    BY <1>8, <2>1, AppendedTo
  <2>3. CASE Passed(q[i].at, q[i].datum)
    <3>1. i \in 1 .. Len(kept) /\ kept[i] = e[i]
      BY <1>2, <1>8, <1>9, <1>10, <2>3
    <3>2. i <= Len(kept') /\ kept'[i] = e[i]
      BY <1>8, <2>2, <3>1
    <3> QED BY <1>5, <1>9, <2>3, <3>2
  <2>4. CASE q[i].at = k /\ q[i].datum = Reached /\ ~Passed(q[i].at, q[i].datum)
    <3>1. Len(kept) + 1 = i
      <4>1. Len(kept) < i
        BY <1>10, <2>4
      <4>2. i > 1 => Len(kept) >= i - 1
        <5> SUFFICES ASSUME i > 1 PROVE Len(kept) >= i - 1
          OBVIOUS
        <5>1. i - 1 \in 1 .. n /\ i - 1 < i
          BY <1>2, <1>9
        <5>2. Passed(q[i - 1].at, q[i - 1].datum)
          BY <1>2, <1>9, <1>11, <2>4, <5>1
        <5>3. ReadSoFar(i - 1, q[i - 1], e[i - 1])
          BY <1>6, <5>1
        <5> QED BY <5>2, <5>3, Zenon DEF ReadSoFar
      <4> QED BY <1>2, <1>8, <1>9, <4>1, <4>2
    <3>2. x = e[i]
      <4>1. q[i].cell \in Cells /\ Fetches(t, Reached, q[i].cell)
        BY <1>1, <1>4, <1>9, <2>4
      <4>2. kept' = Append(kept, memory[q[i].cell])
        BY <1>14, <4>1, ByteFetched
      <4>3. q[i].from = 0 \/ Passed(q[i].from, q[i].written)
        BY <1>3, <1>4, <1>7, <1>9, <2>4 DEF Passed
      <4>4. Done < q[i].at
        BY <1>7, <2>4
      <4>5. memory[q[i].cell] = e[i]
        BY <1>6, <1>9, <4>3, <4>4, Zenon DEF Known
      <4>6. kept'[Len(kept) + 1] = memory[q[i].cell]
        BY <1>8, <4>2, AppendedTo
      <4> QED BY <2>2, <4>5, <4>6
    <3>3. i <= Len(kept') /\ kept'[i] = e[i]
      BY <1>8, <2>2, <3>1, <3>2
    <3> QED BY <1>5, <1>9, <2>4, <3>3
  <2>5. CASE ~Passed(q[i].at, q[i].datum) /\ ~(q[i].at = k /\ q[i].datum = Reached)
    <3>1. ~Passed(q[i].at, q[i].datum)'
      BY <1>5, <1>9, <2>5
    <3>2. ~Earlier(q[i].at, q[i].datum, k, Reached)
      BY <1>9, <1>11, <2>5
    <3>3. PICK m \in 1 .. n : q[m].at = k /\ q[m].datum = Reached
      BY <1>1, <1>2, <1>9, <1>14, <3>2
    <3>4. m < i
      <4>1. m # i
        BY <2>5, <3>3
      <4>2. ~(i < m)
        BY <1>2, <1>9, <3>2, <3>3
      <4> QED BY <1>2, <1>9, <4>1, <4>2
    <3>5. ~Passed(q[m].at, q[m].datum)
      BY <1>1, <1>3, <1>7, <3>3 DEF Passed
    <3>6. Len(kept) < m
      BY <1>6, <3>5, Zenon DEF ReadSoFar
    <3>7. Len(kept') < i
      BY <1>2, <1>8, <1>9, <2>2, <3>4, <3>6
    <3> QED BY <3>1, <3>7
  <2> QED BY <2>3, <2>4, <2>5
<1> QED BY <1>1, <1>12, <1>13, <1>14


\* The other steps.
LEMMA SameReadsBack ==
  ASSUME ReadsBack, program' = program, todo' = todo, position' = position, kept' = kept,
         \A c \in Cells \ ReceptionCells : memory'[c] = memory[c]
  PROVE  ReadsBack'
<1> SUFFICES ASSUME program \in OtherPrograms
             PROVE  OnScript' /\ \E q : IsPlan(program, q) /\ FollowsPlan(q)'
  BY Zenon DEF ReadsBack
<1>1. PICK q : OnScript /\ IsPlan(program, q) /\ FollowsPlan(q)
  BY Zenon DEF ReadsBack
<1>2. Left' = Left /\ Done' = Done /\ Reached' = Reached
  BY DEF Left, Done, Reached
<1>3. OnScript'
  BY <1>1, <1>2 DEF OnScript
<1>4. \A k, j : Passed(k, j)' <=> Passed(k, j)
  BY <1>2 DEF Passed
<1>5. ASSUME NEW i \in 1 .. Attainable(program)
      PROVE  Known(q[i], program.expected[i])' /\ ReadSoFar(i, q[i], program.expected[i])'
  <2>1. Known(q[i], program.expected[i]) /\ ReadSoFar(i, q[i], program.expected[i])
    BY <1>1 DEF FollowsPlan
  <2>2. q[i].cell \in Cells \ ReceptionCells
    BY <1>1 DEF IsPlan, IsReading
  <2>3. memory'[q[i].cell] = memory[q[i].cell]
    BY <2>2
  <2>4. Known(q[i], program.expected[i])'
    BY <1>2, <1>4, <2>1, <2>3, Zenon DEF Known
  <2>5. ReadSoFar(i, q[i], program.expected[i])'
    BY <1>4, <2>1, Zenon DEF ReadSoFar
  <2> QED BY <2>4, <2>5
<1>6. FollowsPlan(q)'
  BY <1>5, Zenon DEF FollowsPlan
<1> QED BY <1>1, <1>3, <1>6

LEMMA BusStepReadsBack ==
  ASSUME Types, BusIsFollowed, ReadsBack, BusStep
  PROVE  ReadsBack'
<1>1. program' = program
  BY BusStepIsAtHand, Zenon
<1> SUFFICES ASSUME program \in OtherPrograms
             PROVE  OnScript' /\ \E q : IsPlan(program, q) /\ FollowsPlan(q)'
  BY <1>1, Zenon DEF ReadsBack
<1>2. PICK q : OnScript /\ IsPlan(program, q) /\ FollowsPlan(q)
  BY Zenon DEF ReadsBack
<1>3. OnScript'
  <2>1. \A t, s, k : t = todo[1] /\ s = Script(program) /\ k = Done + 1 => OnScript'
    BY <1>2, ScriptMoves, Zenon
  <2> QED BY <2>1, Zenon
<1>4. ASSUME NEW i \in 1 .. Attainable(program)
      PROVE  Known(q[i], program.expected[i])' /\ ReadSoFar(i, q[i], program.expected[i])'
  <2>1. PICK v : v = program.expected[i]
    OBVIOUS
  <2>4. IsReading(program, q[i], v) /\ Known(q[i], v)
    BY <1>2, <2>1, Zenon DEF IsPlan, FollowsPlan
  <2>5. \A r, x : IsReading(program, r, x) /\ Known(r, x) => Known(r, x)'
    BY <1>2, BusStepKnown, Zenon
  <2>6. program' = program
    BY BusStepIsAtHand, Zenon
  <2>2. Known(q[i], program.expected[i])'
    <3>1. Known(q[i], v)'
      BY <2>4, <2>5, Zenon
    <3> QED BY <2>1, <2>6, <3>1, Zenon DEF Known
  <2>3. ReadSoFar(i, q[i], program.expected[i])'
    BY <1>2, BusStepReadSoFar
  <2> QED BY <2>2, <2>3
<1>5. FollowsPlan(q)'
  BY <1>1, <1>4, Zenon DEF FollowsPlan
<1> QED BY <1>2, <1>3, <1>5

LEMMA WaitsReadBack ==
  ASSUME Types, Wait \/ Burst
  PROVE  ReadsBack'
<1>1. program = Receiver
  BY WaitAtHand, Zenon DEF Wait, Burst
<1>2. program' = program
  BY Zenon DEF Wait, Burst
<1>3. program' \notin OtherPrograms
  BY <1>1, <1>2, OtherNames, Zenon
<1> QED BY <1>3, Zenon DEF ReadsBack

\* A new turn: what the setup wrote is known, what the loop is to write is not needed.
LEMMA RepeatReadsBack ==
  ASSUME Types, ReadsBack, Repeat
  PROVE  ReadsBack'
<1>1. /\ todo = <<>> /\ todo' = program.loop /\ program' = program /\ position' = position
      /\ kept' = (IF program.loop = <<>> THEN kept ELSE <<>>) /\ memory' = memory
  BY Zenon DEF Repeat, chip
<1>2. CASE program.loop = <<>>
  <2>1. todo' = todo /\ kept' = kept
    BY <1>1, <1>2
  <2> QED BY <1>1, <2>1, SameReadsBack
<1>3. CASE program.loop # <<>>
  <2> SUFFICES ASSUME program \in OtherPrograms
               PROVE  OnScript' /\ \E q : IsPlan(program, q) /\ FollowsPlan(q)'
    BY <1>1, Zenon DEF ReadsBack
  <2> DEFINE p == program
             s == Script(p)
  <2>1. PICK q : OnScript /\ IsPlan(p, q) /\ FollowsPlan(q)
    BY Zenon DEF ReadsBack
  <2>2. /\ Len(p.setup) \in Nat /\ Len(p.loop) \in Nat /\ Len(s) = Len(p.setup) + Len(p.loop)
        /\ \A i \in 1 .. Len(p.loop) : s[Len(p.setup) + i] = p.loop[i]
    BY ScriptOf
  <2>3. Left = 0 /\ Done = Len(s) /\ Left' = Len(p.loop) /\ Done' = Len(p.setup)
    <3>1. Len(<<>>) = 0
      OBVIOUS
    <3>2. Left = 0 /\ Left' = Len(p.loop)
      BY <1>1, <3>1 DEF Left
    <3> HIDE DEF s
    <3>3. Done = Len(s) - Left /\ Done' = Len(s) - Left'
      BY <1>1 DEF Done, s
    <3> QED BY <2>2, <3>2, <3>3
  <2>4. Reached' < 0 /\ Reached' \in Int
    <3>1. position' = 1
      BY <1>1 DEF Types
    <3>2. \A u : Width(u) \in 1 .. 2
      BY DEF Width
    <3>3. Width(todo'[1]) \in 1 .. 2
      BY <3>2
    <3> DEFINE w == Width(todo'[1])
    <3>4. Reached' = 1 - w - 1
      BY <3>1, Zenon DEF Reached
    <3> HIDE DEF w
    <3>5. w \in 1 .. 2
      BY <3>3 DEF w
    <3> QED BY <3>4, <3>5
  <2> HIDE DEF s
  <2>8. Left' <= Len(s) /\ Len(s) \in Nat
    <3> DEFINE a == Len(p.setup)
               b == Len(p.loop)
               n == Len(s)
    <3>1. a \in Nat /\ b \in Nat /\ n = a + b /\ Left' = b
      BY <2>2, <2>3, Zenon
    <3> HIDE DEF a, b, n
    <3>2. Left' <= n /\ n \in Nat
      BY <3>1
    <3> QED BY <3>2, Zenon DEF n
  <2>5. OnScript'
    <3>1. Left' <= Len(s)
      BY <2>8
    <3>2. ASSUME NEW j \in 1 .. Left' PROVE todo'[j] = s[Done' + j]
      BY <1>1, <2>2, <2>3, Zenon
    <3>3. program' = program
      BY <1>1, Zenon
    <3> QED BY <3>1, <3>2, <3>3, Zenon DEF OnScript, s
  <2>6. ASSUME NEW i \in 1 .. Attainable(p)
        PROVE  Known(q[i], p.expected[i])' /\ ReadSoFar(i, q[i], p.expected[i])'
    <3> DEFINE r == q[i]
               v == p.expected[i]
    <3>1. Known(r, v)
      BY <2>1 DEF FollowsPlan
    <3>2. /\ r.at \in 1 .. Len(s) /\ r.at > Len(p.setup)
          /\ r.datum \in Nat
          /\ r.from = 0 \/ (r.from \in 1 .. (r.at - 1) /\ r.written \in Nat)
      <4>1. \A d : \A j \in 1 .. d : j \in Nat
        OBVIOUS
      <4>2. IsReading(p, r, v)
        BY <2>1 DEF IsPlan
      <4> HIDE DEF r, v
      <4>3. r.at \in 1 .. Len(s) /\ r.at > Len(p.setup) /\ Fetches(s[r.at], r.datum, r.cell)
        BY <1>3, <4>2, Zenon DEF IsReading, s
      <4>4. r.from = 0 \/ (r.from \in 1 .. (r.at - 1) /\ Stores(s[r.from], r.written, r.cell, v))
        BY <4>2, Zenon DEF IsReading, s
      <4>5. r.datum \in Nat
        BY <4>1, <4>3, Zenon DEF Fetches
      <4>6. r.from = 0 \/ (r.from \in 1 .. (r.at - 1) /\ r.written \in Nat)
        BY <4>1, <4>4, Zenon DEF Stores
      <4> QED BY <4>3, <4>5, <4>6, Zenon
    <3>3. ~Passed(r.at, r.datum)'
      BY <2>2, <2>3, <2>4, <3>2 DEF Passed
    <3>4. r.from = 0 \/ Passed(r.from, r.written)
      <4>1. /\ Done = Len(s) /\ r.at \in 1 .. Len(s)
            /\ r.from = 0 \/ r.from \in 1 .. (r.at - 1)
        BY <2>3, <3>2, Zenon
      <4>2. Len(s) \in Nat
        BY <2>8
      <4> HIDE DEF r
      <4>3. r.from = 0 \/ Done >= r.from
        BY <4>1, <4>2
      <4> QED BY <4>3, Zenon DEF Passed
    <3>5. memory[r.cell] = v
      BY <1>3, <3>1, <3>4, Zenon DEF Known
    <3>6. Known(r, v)'
      BY <1>1, <3>5, Zenon DEF Known
    <3>7. ReadSoFar(i, r, v)'
      <4>1. kept' = <<>> /\ Len(<<>>) < i
        BY <1>1, <1>3
      <4> QED BY <3>3, <4>1, Zenon DEF ReadSoFar
    <3> QED BY <3>6, <3>7
  <2>7. FollowsPlan(q)'
    BY <1>1, <2>6, Zenon DEF FollowsPlan
  <2> QED BY <2>1, <2>5, <2>7
<1> QED BY <1>2, <1>3

LEMMA PacketReadsBack ==
  ASSUME Types, ReadsBack, NEW p \in Packets, PacketArrives(p)
  PROVE  ReadsBack'
<1>1. program' = program /\ todo' = todo /\ position' = position /\ kept' = kept
  BY Zenon DEF PacketArrives
<1>2. p \in Seq(Byte) /\ Len(p) \in 1 .. 13
  BY SpiProgramsAssumption, Zenon
<1>3. ASSUME NEW c \in Cells \ ReceptionCells
      PROVE  memory'[c] = memory[c]
  <2> DEFINE inFifo == /\ c[1] = "long"
                       /\ c[2] \in mrf_rx_fifo_start .. mrf_rx_fifo_start + Len(p) - 1
  <2>1. c # InterruptCell
    BY DEF ReceptionCells
  <2>2. ~inFifo
    <3> SUFFICES ASSUME inFifo PROVE c \in ReceptionCells
      OBVIOUS
    <3> DEFINE n == Len(p)
               a == c[2]
    <3>1. n \in 1 .. 13 /\ c[1] = "long" /\ a \in mrf_rx_fifo_start .. mrf_rx_fifo_start + n - 1
      BY <1>2, Zenon
    <3>2. a \in 768 .. 780
      <4>1. n \in 1 .. 13 /\ a \in mrf_rx_fifo_start .. mrf_rx_fifo_start + n - 1
        BY <3>1, Zenon
      <4> HIDE DEF a, n
      <4>2. mrf_rx_fifo_start = 768
        BY DEF mrf_rx_fifo_start
      <4> QED BY <4>1, <4>2
    <3>3. c = <<c[1], c[2]>>
      BY DEF Cells
    <3>4. c = Cell("long", a)
      BY <3>1, <3>3, Zenon DEF Cell
    <3> HIDE DEF a
    <3> QED BY <3>2, <3>4 DEF ReceptionCells
  <2>3. memory'[c] = IF inFifo THEN p[c[2] - mrf_rx_fifo_start + 1]
                     ELSE IF /\ c = InterruptCell
                             /\ (memory[c] \div 8) % 2 = 0
                       THEN memory[c] + 8
                     ELSE memory[c]
    <3> HIDE DEF Cells
    <3> QED BY DEF PacketArrives, InterruptCell
  <2> QED BY <2>1, <2>2, <2>3, Zenon
<1> QED BY <1>1, <1>3, SameReadsBack


-----------------------------------------------------------------------------
(* Each of these programs reads what it announces: its plan.               *)

LEMMA CellNames ==
  /\ \A a \in 0 .. 20 : Cell("long", a) \in Cells \ ReceptionCells
  /\ \A a \in (1 .. 12) \cup {46} :
       Cell("short", a) \in Cells \ ReceptionCells /\ Cell("short", a) # ResetCell
  /\ \A a, b : Cell("long", a) = Cell("long", b) => a = b
  /\ \A a, b : Cell("short", a) = Cell("short", b) => a = b
  /\ \A a, b : Cell("long", a) # Cell("short", b)
  /\ ResetCell = Cell("short", 42) /\ StabilizationCell = Cell("short", 46)
<1>1. /\ \A a, b : Cell("long", a) = Cell("long", b) => a = b
      /\ \A a, b : Cell("short", a) = Cell("short", b) => a = b
      /\ \A a, b : Cell("long", a) # Cell("short", b)
  BY DEF Cell
<1>2. ResetCell = Cell("short", 42) /\ StabilizationCell = Cell("short", 46)
  BY DEF ResetCell, StabilizationCell, mrf_register_software_reset, mrf_register_tx_stabilization
<1>3. InterruptCell = Cell("short", 49)
  BY DEF InterruptCell, mrf_register_interrupt_status
<1>4. ASSUME NEW a \in 0 .. 20 PROVE Cell("long", a) \in Cells \ ReceptionCells
  <2>1. Cell("long", a) \in Cells
    BY DEF Cells, Cell
  <2>2. \A b \in 768 .. 780 : a # b
    OBVIOUS
  <2>3. Cell("long", a) \notin ReceptionCells
    BY <1>3, <2>2 DEF ReceptionCells, Cell
  <2> QED BY <2>1, <2>3, Zenon
<1>5. ASSUME NEW a \in (1 .. 12) \cup {46}
      PROVE  Cell("short", a) \in Cells \ ReceptionCells /\ Cell("short", a) # ResetCell
  <2>1. Cell("short", a) \in Cells
    BY DEF Cells, Cell
  <2>2. a # 49 /\ a # 42
    OBVIOUS
  <2>3. Cell("short", a) \notin ReceptionCells /\ Cell("short", a) # ResetCell
    BY <1>2, <1>3, <2>2 DEF ReceptionCells, Cell
  <2> QED BY <2>1, <2>3, Zenon
<1> QED BY <1>1, <1>2, <1>4, <1>5, Zenon

LEMMA GetFetches ==
  ASSUME NEW t, NEW space, NEW a, NEW n, Gets(t, space, a, n), NEW j \in 1 .. n,
         space = "long" \/ j = 1
  PROVE  Fetches(t, j, CellFrom(space, a, j))
BY Zenon DEF Gets, Fetches

LEMMA OneWriteStores ==
  ASSUME NEW t, NEW c, NEW v, OneWrite(t, c, v), c # ResetCell
  PROVE  Stores(t, 1, c, v)
<1>1. 1 .. DataLength(t) = {1} /\ 1 \in 1 .. DataLength(t)
  BY DEF OneWrite
<1>2. ~WritesTo(t, ResetCell)
  BY WritesOfOne, Zenon
<1>3. \A i \in 1 .. DataLength(t) : CellOfByte(CommandOf(t), i) = c <=> i = 1
  BY <1>1, Zenon DEF OneWrite
<1> QED BY <1>1, <1>2, <1>3, Zenon DEF OneWrite, Stores

\* A write to long addresses spares the short ones.
LEMMA LongPutSpares ==
  ASSUME NEW t, NEW a, NEW bytes, Puts(t, "long", a, bytes)
  PROVE  \A y : ~WritesTo(t, Cell("short", y))
<1>1. \A i : CellFrom("long", a, i) = Cell("long", a + i - 1)
  BY DEF CellFrom
<1>2. \A x, y : Cell("long", x) # Cell("short", y)
  BY CellNames, Zenon
<1>3. \A i, y : Cell("short", y) # CellFrom("long", a, i)
  BY <1>1, <1>2, Zenon
<1>4. \A d : WritesTo(t, d) <=> \E i \in 1 .. Len(bytes) : d = CellFrom("long", a, i)
  BY Zenon DEF Puts, WritesTo
<1> QED BY <1>3, <1>4, Zenon

LEMMA LongPutStores ==
  ASSUME NEW t, NEW a \in Nat, NEW bytes, Len(bytes) \in Nat, Puts(t, "long", a, bytes),
         NEW j \in 1 .. Len(bytes)
  PROVE  Stores(t, j, CellFrom("long", a, j), bytes[j])
<1> DEFINE n == Len(bytes)
<1> HIDE DEF n
<1>1. \A i : CellFrom("long", a, i) = Cell("long", a + i - 1)
  BY DEF CellFrom
<1>2. ~WritesTo(t, ResetCell)
  BY LongPutSpares, CellNames, Zenon
<1>3. \A i \in 1 .. n : a + i - 1 = a + j - 1 <=> i = j
  BY DEF n
<1>4. \A i \in 1 .. n : CellFrom("long", a, i) = CellFrom("long", a, j) <=> i = j
  BY <1>1, <1>3, CellNames, Zenon
<1>5. /\ \A i \in 1 .. DataLength(t) : CellOfByte(CommandOf(t), i) = CellFrom("long", a, i)
      /\ DataLength(t) = n
  BY Zenon DEF Puts, n
<1>6. \A i \in 1 .. DataLength(t) :
        CellOfByte(CommandOf(t), i) = CellFrom("long", a, j) <=> i = j
  BY <1>4, <1>5, Zenon
<1> QED BY <1>2, <1>6, Zenon DEF Puts, Stores

LEMMA ShortPut ==
  ASSUME NEW t, NEW a, NEW v, Puts(t, "short", a, <<v>>)
  PROVE  OneWrite(t, Cell("short", a), v)
<1>1. Len(<<v>>) = 1 /\ <<v>>[1] = v /\ 1 \in 1 .. 1 /\ "short" # "long"
  OBVIOUS
<1>2. CellFrom("short", a, 1) = Cell("short", a)
  BY <1>1, Zenon DEF CellFrom
<1> QED BY <1>1, <1>2, Zenon DEF Puts, OneWrite

LEMMA ShortGet ==
  ASSUME NEW t, NEW a, Gets(t, "short", a, 1)
  PROVE  Fetches(t, 1, Cell("short", a)) /\ DataLength(t) = 1
<1>1. 1 \in 1 .. 1 /\ "short" # "long"
  OBVIOUS
<1>2. CellFrom("short", a, 1) = Cell("short", a)
  BY <1>1, Zenon DEF CellFrom
<1> QED BY <1>1, <1>2, GetFetches, Zenon DEF Gets

\* A transaction that writes reads nothing.
Mute(t) == \A j \in 1 .. DataLength(t) : Datum(t, j).op # "read"

LEMMA WritesAreMute ==
  /\ \A t, space, a, bytes : Puts(t, space, a, bytes) => Mute(t)
  /\ \A t, c, v : OneWrite(t, c, v) => Mute(t)
<1>1. \A v : [op |-> "write", byte |-> v].op # "read"
  OBVIOUS
<1>2. ASSUME NEW t, NEW c, NEW v, OneWrite(t, c, v) PROVE Mute(t)
  <2>1. 1 .. DataLength(t) = {1}
    BY <1>2 DEF OneWrite
  <2> QED BY <1>1, <1>2, <2>1, Zenon DEF OneWrite, Mute
<1>3. ASSUME NEW t, NEW space, NEW a, NEW bytes, Puts(t, space, a, bytes) PROVE Mute(t)
  BY <1>1, <1>3, Zenon DEF Puts, Mute
<1> QED BY <1>2, <1>3, Zenon

\* A plan of the program `p' exists.
HasPlan(p) == \E q : IsPlan(p, q)

\* All programs but one can read back all they announce.
LEMMA AllAttainable ==
  \A p : p.name # "WriteReadSourceAddress" => Attainable(p) = Len(p.expected)
BY Zenon DEF Attainable

LEMMA ReadTxFifoMemoryPlan == HasPlan(ReadTxFifoMemory)
<1> DEFINE p == ReadTxFifoMemory
           s == Script(p)
           q == [i \in 1 .. 14 |-> [at |-> 2, datum |-> i, cell |-> Cell("long", i - 1),
                                    from |-> 1, written |-> i]]
<1>1. PICK t1, t2 : /\ IsScript(p, <<t1>>, <<t2>>)
                    /\ Puts(t1, "long", 0, hello_world) /\ Gets(t2, "long", 0, 15)
  BY ReadTxFifoMemoryScript
<1>2. p.expected = hello_world /\ Len(hello_world) = 14 /\ Attainable(p) = 14
  <2>1. p.expected = hello_world /\ Len(hello_world) = 14 /\ p.name # "WriteReadSourceAddress"
    BY HelloWorld DEF ReadTxFifoMemory
  <2> QED BY <2>1, AllAttainable, Zenon
<1>3. \A i \in 1 .. 14 : /\ q[i].at = 2 /\ q[i].datum = i /\ q[i].cell = Cell("long", i - 1)
                         /\ q[i].from = 1 /\ q[i].written = i
  OBVIOUS
<1>4. Len(s) = 2 /\ s[1] = t1 /\ s[2] = t2 /\ Len(p.setup) = 1 /\ p.loop # <<>>
  BY <1>1, Zenon, SMT DEF IsScript, Script
<1> HIDE DEF p, s, q
<1>5. ASSUME NEW i \in 1 .. 14 PROVE IsReading(p, q[i], p.expected[i])
  <2>1. CellFrom("long", 0, i) = Cell("long", i - 1)
    BY DEF CellFrom
  <2>2. i \in 1 .. 15 /\ i - 1 \in 0 .. 20 /\ 0 \in Nat /\ 14 \in Nat
    OBVIOUS
  <2>3. Fetches(t2, i, Cell("long", i - 1))
    BY <1>1, <2>1, <2>2, GetFetches
  <2>4. Stores(t1, i, Cell("long", i - 1), hello_world[i])
    BY <1>1, <1>2, <2>1, <2>2, LongPutStores
  <2>5. Cell("long", i - 1) \in Cells \ ReceptionCells
    BY <2>2, CellNames, Zenon
  <2>6. \A d : ~WritesTo(t2, d)
    BY <1>1, CellsWritten, Zenon
  <2>7. 2 \in 1 .. 2 /\ 1 \in 1 .. (2 - 1) /\ 2 > 1 /\ \A k \in (1 + 1) .. 2 : k = 2
    OBVIOUS
  <2> HIDE DEF Cells, ReceptionCells
  <2> QED BY <1>2, <1>3, <1>4, <2>3, <2>4, <2>5, <2>6, <2>7, Zenon DEF IsReading, s
<1>6. \A i \in 1 .. 14, j \in 1 .. 14 :
        i < j => Earlier(q[i].at, q[i].datum, q[j].at, q[j].datum)
  BY <1>3, Zenon DEF Earlier
<1>7. ASSUME NEW k \in 1 .. 2, NEW j \in 1 .. DataLength(s[k]), Datum(s[k], j).op = "read"
      PROVE  \/ \E i \in 1 .. 14 : q[i].at = k /\ q[i].datum = j
             \/ \A i \in 1 .. 14 : Earlier(q[i].at, q[i].datum, k, j)
  <2>1. k = 2
    <3>1. k # 1
      BY <1>1, <1>4, <1>7, WritesAreMute, Zenon DEF Mute
    <3> QED BY <3>1
  <2>2. j \in 1 .. 15
    BY <1>1, <1>4, <2>1, Zenon DEF Gets
  <2>3. CASE j \in 1 .. 14
    BY <1>3, <2>1, <2>3, Zenon
  <2>4. CASE j = 15
    <3>1. \A i \in 1 .. 14 : i < 15
      OBVIOUS
    <3> QED BY <1>3, <2>1, <2>4, <3>1, Zenon DEF Earlier
  <2> QED BY <2>2, <2>3, <2>4
<1>8. 14 \in Nat
  OBVIOUS
<1> QED BY <1>2, <1>4, <1>5, <1>6, <1>7, <1>8, Zenon DEF IsPlan, HasPlan, s, p

LEMMA StabilizationPlans ==
  ASSUME NEW p \in {ReadMrfTxStabilizationRegister, SPITestWithoutCommunicationModuleAndLufa}
  PROVE  HasPlan(p)
<1> DEFINE s == Script(p)
           q == <<[at |-> 1, datum |-> 1, cell |-> StabilizationCell,
                   from |-> 0, written |-> 0]>>
<1>1. PICK t1 : IsScript(p, <<>>, <<t1>>) /\ Gets(t1, "short", 46, 1)
  BY StabilizationScripts
<1>2. /\ p.expected = <<tx_stabilization_after_reset>> /\ Attainable(p) = 1
      /\ p.expected[1] = tx_stabilization_after_reset
  <2>1. /\ p.expected = <<tx_stabilization_after_reset>> /\ Len(p.expected) = 1
        /\ p.expected[1] = tx_stabilization_after_reset /\ p.name # "WriteReadSourceAddress"
    BY DEF ReadMrfTxStabilizationRegister, SPITestWithoutCommunicationModuleAndLufa
  <2> QED BY <2>1, AllAttainable, Zenon
<1>3. q[1].at = 1 /\ q[1].datum = 1 /\ q[1].cell = StabilizationCell /\ q[1].from = 0
  OBVIOUS
<1>4. Len(s) = 1 /\ s[1] = t1 /\ Len(p.setup) = 0 /\ p.loop # <<>>
  BY <1>1, Zenon, SMT DEF IsScript, Script
<1> HIDE DEF s, q
<1>5. Fetches(t1, 1, StabilizationCell) /\ DataLength(t1) = 1
  BY <1>1, ShortGet, CellNames, Zenon
<1>6. IsReading(p, q[1], p.expected[1])
  <2>1. \A d : ~WritesTo(t1, d)
    BY <1>1, CellsWritten, Zenon
  <2>2. StabilizationCell \in Cells \ ReceptionCells
    <3>1. 46 \in (1 .. 12) \cup {46}
      OBVIOUS
    <3> QED BY <3>1, CellNames, Zenon
  <2>3. 1 \in 1 .. 1 /\ 1 > 0 /\ \A k \in (0 + 1) .. 1 : k = 1
    OBVIOUS
  <2> HIDE DEF Cells, ReceptionCells
  <2> QED BY <1>2, <1>3, <1>4, <1>5, <2>1, <2>2, <2>3, Zenon DEF IsReading, s
<1>7. 1 \in Nat /\ \A i \in 1 .. 1 : i = 1
  OBVIOUS
<1>8. \A i \in 1 .. 1 : IsReading(p, q[i], p.expected[i])
  BY <1>6, <1>7, Zenon
<1>9. \A i \in 1 .. 1, j \in 1 .. 1 : ~(i < j)
  OBVIOUS
<1>10. \A k \in 1 .. 1 : \A j \in 1 .. DataLength(s[k]) :
         \E i \in 1 .. 1 : q[i].at = k /\ q[i].datum = j
  BY <1>3, <1>4, <1>5, <1>7, Zenon
<1>11. \A i \in 1 .. 1, j \in 1 .. 1 :
         i < j => Earlier(q[i].at, q[i].datum, q[j].at, q[j].datum)
  BY <1>9, Zenon
<1>12. IsPlan(p, q)
  BY <1>2, <1>4, <1>7, <1>8, <1>10, <1>11 DEF IsPlan, s
<1> QED BY <1>12, Zenon DEF HasPlan

LEMMA SPITestPlan == HasPlan(SPITestWithLufaOnly)
<1> DEFINE p == SPITestWithLufaOnly
           s == Script(p)
           text == Text(11)
           q == [i \in 1 .. 12 |->
                  IF i = 1 THEN [at |-> 2, datum |-> 1, cell |-> StabilizationCell,
                                 from |-> 0, written |-> 0]
                  ELSE [at |-> 4, datum |-> i - 1, cell |-> Cell("long", i - 2),
                        from |-> 3, written |-> i - 1]]
<1>1. PICK t1, t2, t3, t4 :
        /\ IsScript(p, <<t1>>, <<t2, t3, t4>>)
        /\ Puts(t1, "short", 47, <<\h55>>) /\ Gets(t2, "short", 46, 1)
        /\ Puts(t3, "long", 0, text) /\ Gets(t4, "long", 0, 11)
  BY SPITestScript
<1>2. /\ Len(text) = 11 /\ Attainable(p) = 12
      /\ p.expected[1] = tx_stabilization_after_reset
      /\ \A i \in 1 .. 11 : p.expected[1 + i] = text[i]
  <2>1. text \in Seq(Byte) /\ Len(text) = 11
    BY Texts
  <2>2. p.expected = <<tx_stabilization_after_reset>> \o text
    BY DEF SPITestWithLufaOnly
  <2>3. <<tx_stabilization_after_reset>> \in Seq(Byte)
    BY DEF tx_stabilization_after_reset, Byte
  <2>4. Len(<<tx_stabilization_after_reset>>) = 1
        /\ <<tx_stabilization_after_reset>>[1] = tx_stabilization_after_reset
    OBVIOUS
  <2>5. \A u \in Seq(Byte), t \in Seq(Byte) :
          /\ Len(u \o t) = Len(u) + Len(t)
          /\ \A i \in 1 .. Len(u) : (u \o t)[i] = u[i]
          /\ \A i \in 1 .. Len(t) : (u \o t)[Len(u) + i] = t[i]
    <3> HIDE DEF Byte
    <3> QED OBVIOUS
  <2>6. 1 + 11 = 12 /\ 1 \in 1 .. 1
    OBVIOUS
  <2>11. p.name # "WriteReadSourceAddress"
    BY DEF SPITestWithLufaOnly
  <2> DEFINE u == <<tx_stabilization_after_reset>>
  <2> HIDE DEF text, p, u
  <2>7. /\ Len(u \o text) = Len(u) + Len(text)
        /\ \A i \in 1 .. Len(u) : (u \o text)[i] = u[i]
        /\ \A i \in 1 .. Len(text) : (u \o text)[Len(u) + i] = text[i]
    BY <2>1, <2>3, <2>5, Zenon DEF u
  <2>8. Len(u) = 1 /\ u[1] = tx_stabilization_after_reset /\ p.expected = u \o text
    BY <2>2, <2>4, Zenon DEF u
  <2>9. Len(p.expected) = 1 + 11 /\ p.expected[1] = u[1]
    BY <2>1, <2>6, <2>7, <2>8
  <2>10. \A i \in 1 .. 11 : p.expected[1 + i] = text[i]
    BY <2>1, <2>7, <2>8
  <2>12. Attainable(p) = 12
    BY <2>6, <2>9, <2>11, AllAttainable, Zenon
  <2> QED BY <2>1, <2>6, <2>8, <2>9, <2>10, <2>12
<1>3. /\ q[1].at = 2 /\ q[1].datum = 1 /\ q[1].cell = StabilizationCell /\ q[1].from = 0
      /\ \A i \in 2 .. 12 : /\ q[i].at = 4 /\ q[i].datum = i - 1
                            /\ q[i].cell = Cell("long", i - 2)
                            /\ q[i].from = 3 /\ q[i].written = i - 1
  OBVIOUS
<1>4. Len(s) = 4 /\ s[1] = t1 /\ s[2] = t2 /\ s[3] = t3 /\ s[4] = t4
      /\ Len(p.setup) = 1 /\ p.loop # <<>>
  BY <1>1, Zenon, SMT DEF IsScript, Script
<1> HIDE DEF p, s, q, text
<1>5. ~WritesTo(t3, StabilizationCell) /\ ~WritesTo(t3, ResetCell)
  <2>1. \A y : ~WritesTo(t3, Cell("short", y))
    BY <1>1, LongPutSpares
  <2> QED BY <2>1, CellNames, Zenon
<1>6. ~WritesTo(t1, StabilizationCell) /\ ~WritesTo(t1, ResetCell)
  <2>1. OneWrite(t1, Cell("short", 47), \h55)
    BY <1>1, ShortPut, Zenon
  <2>2. Cell("short", 47) # StabilizationCell /\ Cell("short", 47) # ResetCell
    BY CellNames DEF Cell
  <2> QED BY <2>1, <2>2, WritesOfOne, Zenon
<1>7. \A d : ~WritesTo(t2, d) /\ ~WritesTo(t4, d)
  BY <1>1, CellsWritten, Zenon
<1>8. IsReading(p, q[1], p.expected[1])
  <2>1. Fetches(t2, 1, StabilizationCell)
    BY <1>1, ShortGet, CellNames, Zenon
  <2>2. StabilizationCell \in Cells \ ReceptionCells
    <3>1. 46 \in (1 .. 12) \cup {46}
      OBVIOUS
    <3> QED BY <3>1, CellNames, Zenon
  <2>3. 2 \in 1 .. 4 /\ 2 > 1 /\ \A k \in (0 + 1) .. 4 : k = 1 \/ k = 2 \/ k = 3 \/ k = 4
    OBVIOUS
  <2>4. \A k \in (0 + 1) .. 4 : ~WritesTo(s[k], StabilizationCell) /\ ~WritesTo(s[k], ResetCell)
    BY <1>4, <1>5, <1>6, <1>7, <2>3, Zenon
  <2> HIDE DEF Cells, ReceptionCells
  <2> QED BY <1>2, <1>3, <1>4, <2>1, <2>2, <2>3, <2>4, Zenon DEF IsReading, s
<1>9. ASSUME NEW i \in 2 .. 12 PROVE IsReading(p, q[i], p.expected[i])
  <2> DEFINE j == i - 1
             c == Cell("long", i - 2)
  <2>1. j \in 1 .. 11 /\ 1 + j = i /\ i - 2 \in 0 .. 20 /\ 0 \in Nat /\ 11 \in Nat
    OBVIOUS
  <2>2. CellFrom("long", 0, j) = c
    <3>1. 0 + j - 1 = i - 2
      OBVIOUS
    <3> QED BY <3>1 DEF CellFrom
  <2>3. c \in Cells \ ReceptionCells
    BY <2>1, CellNames, Zenon
  <2>4. q[i].at = 4 /\ q[i].datum = j /\ q[i].cell = c /\ q[i].from = 3 /\ q[i].written = j
    BY <1>3
  <2> HIDE DEF j, c
  <2>5. Fetches(t4, j, c)
    BY <1>1, <2>1, <2>2, GetFetches
  <2>6. Stores(t3, j, c, text[j]) /\ p.expected[i] = text[j]
    BY <1>1, <1>2, <2>1, <2>2, LongPutStores
  <2>7. 4 \in 1 .. 4 /\ 3 \in 1 .. (4 - 1) /\ 4 > 1 /\ \A k \in (3 + 1) .. 4 : k = 4
    OBVIOUS
  <2>8. \A k \in (3 + 1) .. 4 : ~WritesTo(s[k], c) /\ ~WritesTo(s[k], ResetCell)
    BY <1>4, <1>7, <2>7, Zenon
  <2> HIDE DEF Cells, ReceptionCells
  <2> QED BY <1>4, <2>3, <2>4, <2>5, <2>6, <2>7, <2>8, Zenon DEF IsReading, s
<1>10. \A i \in 1 .. 12 : i = 1 \/ i \in 2 .. 12
  OBVIOUS
<1>11. \A i \in 1 .. 12 : IsReading(p, q[i], p.expected[i])
  BY <1>8, <1>9, <1>10, Zenon
<1>12. ASSUME NEW i \in 1 .. 12, NEW j \in 1 .. 12, i < j
       PROVE  Earlier(q[i].at, q[i].datum, q[j].at, q[j].datum)
  <2>1. j \in 2 .. 12 /\ i - 1 < j - 1 /\ 2 < 4
    BY <1>12
  <2>2. q[j].at = 4 /\ q[j].datum = j - 1
    BY <1>3, <2>1, Zenon
  <2>3. CASE i = 1
    BY <1>3, <2>1, <2>2, <2>3 DEF Earlier
  <2>4. CASE i \in 2 .. 12
    <3>1. q[i].at = 4 /\ q[i].datum = i - 1
      BY <1>3, <2>4, Zenon
    <3> QED BY <2>1, <2>2, <3>1, Zenon DEF Earlier
  <2> QED BY <1>10, <2>3, <2>4
<1>13. ASSUME NEW k \in 1 .. 4, NEW j \in 1 .. DataLength(s[k]), Datum(s[k], j).op = "read"
       PROVE  \E i \in 1 .. 12 : q[i].at = k /\ q[i].datum = j
  <2>1. k # 1 /\ k # 3
    BY <1>1, <1>4, <1>13, WritesAreMute, Zenon DEF Mute
  <2>2. CASE k = 2
    <3>1. j \in 1 .. 1
      BY <1>1, <1>4, <2>2, Zenon DEF Gets
    <3>2. j = 1 /\ 1 \in 1 .. 12
      BY <3>1
    <3> QED BY <1>3, <2>2, <3>2, Zenon
  <2>3. CASE k = 4
    <3>1. j \in 1 .. 11
      BY <1>1, <1>4, <2>3, Zenon DEF Gets
    <3> DEFINE i == j + 1
    <3>2. i \in 1 .. 12 /\ i \in 2 .. 12 /\ i - 1 = j
      BY <3>1
    <3> HIDE DEF i
    <3>3. q[i].at = 4 /\ q[i].datum = j
      BY <1>3, <3>2
    <3> QED BY <2>3, <3>2, <3>3, Zenon
  <2>4. k = 1 \/ k = 2 \/ k = 3 \/ k = 4
    OBVIOUS
  <2> QED BY <2>1, <2>2, <2>3, <2>4
<1>14. 12 \in Nat
  OBVIOUS
<1>15. Attainable(p) \in Nat /\ \A i \in 1 .. Attainable(p) : IsReading(p, q[i], p.expected[i])
  BY <1>2, <1>14, <1>11, Zenon
<1>16. \A i \in 1 .. Attainable(p), j \in 1 .. Attainable(p) :
         i < j => Earlier(q[i].at, q[i].datum, q[j].at, q[j].datum)
  BY <1>2, <1>12, Zenon
<1>17. \A k \in 1 .. Len(s) : \A j \in 1 .. DataLength(s[k]) : Datum(s[k], j).op = "read" =>
         \/ \E i \in 1 .. Attainable(p) : q[i].at = k /\ q[i].datum = j
         \/ \A i \in 1 .. Attainable(p) : Earlier(q[i].at, q[i].datum, k, j)
  <2> SUFFICES ASSUME NEW k \in 1 .. Len(s), NEW j \in 1 .. DataLength(s[k]),
                      Datum(s[k], j).op = "read"
               PROVE  \/ \E i \in 1 .. Attainable(p) : q[i].at = k /\ q[i].datum = j
                      \/ \A i \in 1 .. Attainable(p) : Earlier(q[i].at, q[i].datum, k, j)
    BY Zenon
  <2>1. k \in 1 .. 4
    BY <1>4
  <2>2. \A i : i \in 1 .. Attainable(p) <=> i \in 1 .. 12
    BY <1>2
  <2>3. PICK i \in 1 .. 12 : q[i].at = k /\ q[i].datum = j
    BY <1>13, <2>1
  <2> QED BY <2>2, <2>3, Zenon
<1> QED BY <1>15, <1>16, <1>17, Zenon DEF IsPlan, HasPlan, s, p

LEMMA WriteReadPlan == HasPlan(WriteReadSourceAddress)
<1> DEFINE p == WriteReadSourceAddress
           s == Script(p)
           q == <<[at |-> 3, datum |-> 1, cell |-> Cell("short", 3), from |-> 1, written |-> 1],
                  [at |-> 4, datum |-> 1, cell |-> Cell("short", 4), from |-> 2, written |-> 1],
                  [at |-> 6, datum |-> 1, cell |-> Cell("short", 3), from |-> 5, written |-> 1]>>
<1>1. PICK t1, t2, t3, t4, t5, t6 :
        /\ IsScript(p, <<t1, t2, t3, t4>> \o <<t5, t6>>, <<>>)
        /\ Puts(t1, "short", 3, <<\hFF>>) /\ Puts(t2, "short", 4, <<\hFF>>)
        /\ Gets(t3, "short", 3, 1) /\ Gets(t4, "short", 4, 1)
        /\ Puts(t5, "short", 3, <<\hAA, \hAA>>)
        /\ t6 \in Transactions /\ ~IsWriteCommand(CommandOf(t6)) /\ DataLength(t6) = 3
        /\ Datum(t6, 1) = [op |-> "read"] /\ CellOfByte(CommandOf(t6), 1) = Cell("short", 3)
  BY WriteReadScript
<1>2. /\ Attainable(p) = 3
      /\ p.expected[1] = \hFF /\ p.expected[2] = \hFF /\ p.expected[3] = \hAA
  BY DEF WriteReadSourceAddress, Attainable
<1>3. /\ q[1].at = 3 /\ q[1].datum = 1 /\ q[1].cell = Cell("short", 3)
      /\ q[1].from = 1 /\ q[1].written = 1
      /\ q[2].at = 4 /\ q[2].datum = 1 /\ q[2].cell = Cell("short", 4)
      /\ q[2].from = 2 /\ q[2].written = 1
      /\ q[3].at = 6 /\ q[3].datum = 1 /\ q[3].cell = Cell("short", 3)
      /\ q[3].from = 5 /\ q[3].written = 1
  OBVIOUS
<1>4. /\ Len(s) = 6 /\ s[1] = t1 /\ s[2] = t2 /\ s[3] = t3 /\ s[4] = t4 /\ s[5] = t5
      /\ s[6] = t6 /\ p.loop = <<>>
  BY <1>1, Zenon, SMT DEF IsScript, Script
<1> HIDE DEF p, s, q
<1>5. OneWrite(t1, Cell("short", 3), \hFF) /\ OneWrite(t2, Cell("short", 4), \hFF)
  <2>1. \A t, a, v : Puts(t, "short", a, <<v>>) => OneWrite(t, Cell("short", a), v)
    BY ShortPut, Zenon
  <2>2. Puts(t1, "short", 3, <<\hFF>>) /\ Puts(t2, "short", 4, <<\hFF>>)
    BY <1>1, Zenon
  <2> QED BY <2>1, <2>2
<1>6. /\ Fetches(t3, 1, Cell("short", 3)) /\ DataLength(t3) = 1
      /\ Fetches(t4, 1, Cell("short", 4)) /\ DataLength(t4) = 1
  BY <1>1, ShortGet, Zenon
<1>7. \A d : ~WritesTo(t3, d) /\ ~WritesTo(t4, d)
  BY <1>1, CellsWritten, Zenon
<1>8. /\ Cell("short", 3) \in Cells \ ReceptionCells /\ Cell("short", 3) # ResetCell
      /\ Cell("short", 4) \in Cells \ ReceptionCells /\ Cell("short", 4) # ResetCell
      /\ Cell("short", 3) # Cell("short", 4)
  <2>1. 3 \in (1 .. 12) \cup {46} /\ 4 \in (1 .. 12) \cup {46} /\ 3 # 4
    OBVIOUS
  <2>2. \A a, b : Cell("short", a) = Cell("short", b) => a = b
    BY CellNames, Zenon
  <2>3. Cell("short", 3) # Cell("short", 4)
    BY <2>1, <2>2
  <2>4. \A a \in (1 .. 12) \cup {46} :
          Cell("short", a) \in Cells \ ReceptionCells /\ Cell("short", a) # ResetCell
    BY CellNames, Zenon
  <2>5. Cell("short", 3) \in Cells \ ReceptionCells /\ Cell("short", 3) # ResetCell
    BY <2>1, <2>4, Zenon
  <2>6. Cell("short", 4) \in Cells \ ReceptionCells /\ Cell("short", 4) # ResetCell
    BY <2>1, <2>4, Zenon
  <2> QED BY <2>3, <2>5, <2>6, Zenon
<1>9. /\ Stores(t1, 1, Cell("short", 3), \hFF) /\ Stores(t2, 1, Cell("short", 4), \hFF)
      /\ ~WritesTo(t2, Cell("short", 3)) /\ ~WritesTo(t2, ResetCell)
  <2>1. Cell("short", 3) # Cell("short", 4) /\ ResetCell # Cell("short", 4)
    BY <1>8
  <2>2. ~WritesTo(t2, Cell("short", 3)) /\ ~WritesTo(t2, ResetCell)
    <3>1. \A e : WritesTo(t2, e) <=> e = Cell("short", 4)
      BY <1>5, WritesOfOne
    <3> QED BY <2>1, <3>1, Zenon
  <2>3. Stores(t1, 1, Cell("short", 3), \hFF)
    BY <1>5, <1>8, OneWriteStores
  <2>4. Stores(t2, 1, Cell("short", 4), \hFF)
    BY <1>5, <1>8, OneWriteStores
  <2> QED BY <2>2, <2>3, <2>4
<1>20. /\ Stores(t5, 1, Cell("short", 3), \hAA)
       /\ Fetches(t6, 1, Cell("short", 3)) /\ \A d : ~WritesTo(t6, d)
  <2>1. \A d : WritesTo(t5, d) => d = Cell("short", 3)
    BY <1>1, Zenon DEF Puts, WritesTo, CellFrom
  <2>2. ~WritesTo(t5, ResetCell)
    BY <1>8, <2>1, Zenon
  <2>3. Len(<<\hAA, \hAA>>) = 2 /\ <<\hAA, \hAA>>[1] = \hAA /\ 1 \in 1 .. 2 /\ 1 \in 1 .. 3
    OBVIOUS
  <2>4. ~IsLong(t5) /\ CellOfByte(CommandOf(t5), 1) = Cell("short", 3)
    BY <1>1, <2>3, Zenon DEF Puts, CellFrom
  <2>5. Stores(t5, 1, Cell("short", 3), \hAA)
    BY <1>1, <2>2, <2>3, <2>4, Zenon DEF Puts, Stores
  <2>6. Fetches(t6, 1, Cell("short", 3))
    BY <1>1, <2>3, Zenon DEF Fetches
  <2>7. \A d : ~WritesTo(t6, d)
    BY <1>1, Zenon DEF WritesTo
  <2> QED BY <2>5, <2>6, <2>7, Zenon
<1> HIDE DEF Cells, ReceptionCells
<1>10. IsReading(p, q[1], p.expected[1])
  <2>1. 3 \in 1 .. 6 /\ 1 \in 1 .. (3 - 1) /\ \A k \in (1 + 1) .. 3 : k = 2 \/ k = 3
    OBVIOUS
  <2>2. \A k \in (1 + 1) .. 3 : ~WritesTo(s[k], Cell("short", 3)) /\ ~WritesTo(s[k], ResetCell)
    BY <1>4, <1>7, <1>9, <2>1, Zenon
  <2> QED BY <1>2, <1>3, <1>4, <1>6, <1>8, <1>9, <2>1, <2>2 DEF IsReading, s
<1>11. IsReading(p, q[2], p.expected[2])
  <2>1. 4 \in 1 .. 6 /\ 2 \in 1 .. (4 - 1) /\ \A k \in (2 + 1) .. 4 : k = 3 \/ k = 4
    OBVIOUS
  <2>2. \A k \in (2 + 1) .. 4 : ~WritesTo(s[k], Cell("short", 4)) /\ ~WritesTo(s[k], ResetCell)
    BY <1>4, <1>7, <2>1, Zenon
  <2> QED BY <1>2, <1>3, <1>4, <1>6, <1>8, <1>9, <2>1, <2>2 DEF IsReading, s
<1>21. IsReading(p, q[3], p.expected[3])
  <2>1. 6 \in 1 .. 6 /\ 5 \in 1 .. (6 - 1) /\ \A k \in (5 + 1) .. 6 : k = 6
    OBVIOUS
  <2>2. \A k \in (5 + 1) .. 6 : ~WritesTo(s[k], Cell("short", 3)) /\ ~WritesTo(s[k], ResetCell)
    BY <1>4, <1>20, <2>1, Zenon
  <2> QED BY <1>2, <1>3, <1>4, <1>8, <1>20, <2>1, <2>2 DEF IsReading, s
<1>12. 3 \in Nat /\ \A i \in 1 .. 3 : i = 1 \/ i = 2 \/ i = 3
  OBVIOUS
<1>13. \A i \in 1 .. 3 : IsReading(p, q[i], p.expected[i])
  BY <1>10, <1>11, <1>12, <1>21, Zenon
<1>14. ASSUME NEW i \in 1 .. 3, NEW j \in 1 .. 3, i < j
       PROVE  Earlier(q[i].at, q[i].datum, q[j].at, q[j].datum)
  <2>1. (i = 1 /\ j = 2) \/ (i = 1 /\ j = 3) \/ (i = 2 /\ j = 3)
    BY <1>14
  <2>2. 3 < 4 /\ 3 < 6 /\ 4 < 6
    OBVIOUS
  <2> QED BY <1>3, <2>1, <2>2, Zenon DEF Earlier
<1>15. ASSUME NEW k \in 1 .. 6, NEW j \in 1 .. DataLength(s[k]), Datum(s[k], j).op = "read"
       PROVE  \E i \in 1 .. 3 : \/ q[i].at = k /\ q[i].datum = j
                                \/ i = 3 /\ k = 6 /\ 1 < j
  <2>1. k # 1 /\ k # 2 /\ k # 5
    BY <1>1, <1>4, <1>15, WritesAreMute, Zenon DEF Mute
  <2>2. \A x \in 1 .. 1 : x = 1
    OBVIOUS
  <2>3. 1 \in 1 .. 3 /\ 2 \in 1 .. 3 /\ 3 \in 1 .. 3
    OBVIOUS
  <2>4. CASE k = 3
    BY <1>3, <1>4, <1>6, <2>2, <2>3, <2>4, Zenon
  <2>5. CASE k = 4
    BY <1>3, <1>4, <1>6, <2>2, <2>3, <2>5, Zenon
  <2>6. CASE k = 6
    <3>1. j = 1 \/ 1 < j
      BY <1>1, <1>4, <2>6
    <3> QED BY <1>3, <2>3, <2>6, <3>1, Zenon
  <2>7. k = 1 \/ k = 2 \/ k = 3 \/ k = 4 \/ k = 5 \/ k = 6
    OBVIOUS
  <2> QED BY <2>1, <2>4, <2>5, <2>6, <2>7, Zenon
<1>16. Attainable(p) \in Nat /\ \A i \in 1 .. Attainable(p) : IsReading(p, q[i], p.expected[i])
  BY <1>2, <1>12, <1>13, Zenon
<1>17. \A i \in 1 .. Attainable(p), j \in 1 .. Attainable(p) :
         i < j => Earlier(q[i].at, q[i].datum, q[j].at, q[j].datum)
  BY <1>14, <1>2, Zenon
<1>18. \A k \in 1 .. Len(s) : \A j \in 1 .. DataLength(s[k]) : Datum(s[k], j).op = "read" =>
         \/ \E i \in 1 .. Attainable(p) : q[i].at = k /\ q[i].datum = j
         \/ \A i \in 1 .. Attainable(p) : Earlier(q[i].at, q[i].datum, k, j)
  <2> SUFFICES ASSUME NEW k \in 1 .. Len(s), NEW j \in 1 .. DataLength(s[k]),
                      Datum(s[k], j).op = "read"
               PROVE  \/ \E i \in 1 .. Attainable(p) : q[i].at = k /\ q[i].datum = j
                      \/ \A i \in 1 .. Attainable(p) : Earlier(q[i].at, q[i].datum, k, j)
    BY Zenon
  <2>1. k \in 1 .. 6
    BY <1>4
  <2>2. \A i : i \in 1 .. Attainable(p) <=> i \in 1 .. 3
    BY <1>2
  <2>3. PICK i \in 1 .. 3 : (q[i].at = k /\ q[i].datum = j) \/ (i = 3 /\ k = 6 /\ 1 < j)
    BY <1>15, <2>1, Zenon
  <2>4. 3 < 6 /\ 4 < 6
    OBVIOUS
  <2>5. k = 6 /\ 1 < j => \A h \in 1 .. 3 : Earlier(q[h].at, q[h].datum, k, j)
    BY <1>3, <1>12, <2>4, Zenon DEF Earlier
  <2> QED BY <2>2, <2>3, <2>5, Zenon
<1> QED BY <1>16, <1>17, <1>18, Zenon DEF IsPlan, HasPlan, s, p

\* The values configure leaves in the registers that are read back.
LEMMA CheckConfigured ==
  LET expected == CheckSetSourceAddresses.expected
  IN /\ Len(expected) = 12
     /\ \A i \in 1 .. 12 :
          <<Cell("short", i), expected[i]>> \in ConfiguredCells(check_config)
<1> DEFINE c == check_config
           pan == AddressBytes(c.pan_id, 2)
           short == AddressBytes(c.short_source_address, 2)
           extended == AddressBytes(c.extended_source_address, 8)
           front == pan \o short
           expected == CheckSetSourceAddresses.expected
<1>1. /\ pan \in Seq(Byte) /\ Len(pan) = 2
      /\ short \in Seq(Byte) /\ Len(short) = 2
      /\ extended \in Seq(Byte) /\ Len(extended) = 8
      /\ \A i \in 1 .. 2 : pan[i] = c.pan_id[i - 1] /\ short[i] = c.short_source_address[i - 1]
      /\ \A i \in 1 .. 8 : extended[i] = c.extended_source_address[i - 1]
  <2>1. /\ c.short_source_address \in [0 .. (2 - 1) -> Byte]
        /\ c.extended_source_address \in [0 .. (8 - 1) -> Byte]
        /\ c.pan_id \in [0 .. (2 - 1) -> Byte]
    BY DEF check_config, Byte
  <2> HIDE DEF c, Byte
  <2> QED BY <2>1 DEF AddressBytes
<1>2. expected = front \o extended
  BY DEF CheckSetSourceAddresses
<1> HIDE DEF pan, short, extended, expected
<1>3. \A u \in Seq(Byte), t \in Seq(Byte) :
        /\ u \o t \in Seq(Byte) /\ Len(u \o t) = Len(u) + Len(t)
        /\ \A i \in 1 .. Len(u) : (u \o t)[i] = u[i]
        /\ \A i \in 1 .. Len(t) : (u \o t)[Len(u) + i] = t[i]
  <2> HIDE DEF Byte
  <2> QED OBVIOUS
<1>4. /\ front \in Seq(Byte) /\ Len(front) = 4
      /\ \A i \in 1 .. 2 : front[i] = pan[i] /\ front[2 + i] = short[i]
  <2>1. /\ front \in Seq(Byte) /\ Len(front) = Len(pan) + Len(short)
        /\ \A i \in 1 .. Len(pan) : front[i] = pan[i]
        /\ \A i \in 1 .. Len(short) : front[Len(pan) + i] = short[i]
    BY <1>1, <1>3, Zenon
  <2> HIDE DEF Byte, front
  <2> QED BY <1>1, <2>1
<1> HIDE DEF front
<1>5. /\ Len(expected) = 12
      /\ \A i \in 1 .. 4 : expected[i] = front[i]
      /\ \A i \in 1 .. 8 : expected[4 + i] = extended[i]
  <2> DEFINE whole == front \o extended
  <2>1. /\ Len(whole) = Len(front) + Len(extended)
        /\ \A i \in 1 .. Len(front) : whole[i] = front[i]
        /\ \A i \in 1 .. Len(extended) : whole[Len(front) + i] = extended[i]
    <3>1. front \in Seq(Byte) /\ extended \in Seq(Byte)
      BY <1>1, <1>4, Zenon
    <3> QED BY <1>3, <3>1, Zenon
  <2> HIDE DEF Byte, whole
  <2>2. /\ Len(whole) = 12
        /\ \A i \in 1 .. 4 : whole[i] = front[i]
        /\ \A i \in 1 .. 8 : whole[4 + i] = extended[i]
    BY <1>1, <1>4, <2>1
  <2>3. expected = whole
    BY <1>2 DEF whole
  <2> QED BY <2>2, <2>3
<1>6. ASSUME NEW a, NEW bytes, NEW n, NEW i \in 0 .. (n - 1),
             BlockCells(a, bytes, n) \subseteq ConfiguredCells(c)
      PROVE  <<Cell("short", a + i), bytes[i]>> \in ConfiguredCells(c)
  BY <1>6, Zenon DEF BlockCells
<1>7. /\ BlockCells(1, c.pan_id, 2) \subseteq ConfiguredCells(c)
      /\ BlockCells(3, c.short_source_address, 2) \subseteq ConfiguredCells(c)
      /\ BlockCells(5, c.extended_source_address, 8) \subseteq ConfiguredCells(c)
  <2>1. /\ mrf_register_pan_id_low_byte = 1 /\ mrf_register_short_address_low_byte = 3
        /\ mrf_register_extended_address0 = 5
    BY DEF mrf_register_pan_id_low_byte, mrf_register_short_address_low_byte,
           mrf_register_extended_address0
  <2> QED BY <2>1, Zenon DEF ConfiguredCells
<1> HIDE DEF c
<1>8. ASSUME NEW i \in 1 .. 2
      PROVE  <<Cell("short", i), expected[i]>> \in ConfiguredCells(c)
  <2>1. i - 1 \in 0 .. (2 - 1) /\ 1 + (i - 1) = i /\ i \in 1 .. 4
    OBVIOUS
  <2>2. expected[i] = c.pan_id[i - 1]
    BY <1>1, <1>4, <1>5, <2>1, Zenon
  <2> QED BY <1>6, <1>7, <2>1, <2>2
<1>9. ASSUME NEW i \in 3 .. 4
      PROVE  <<Cell("short", i), expected[i]>> \in ConfiguredCells(c)
  <2> DEFINE j == i - 2
  <2>1. j \in 1 .. 2 /\ j - 1 \in 0 .. (2 - 1) /\ 3 + (j - 1) = i /\ 2 + j = i /\ i \in 1 .. 4
    OBVIOUS
  <2> HIDE DEF j
  <2>2. expected[i] = c.short_source_address[j - 1]
    BY <1>1, <1>4, <1>5, <2>1
  <2> QED BY <1>6, <1>7, <2>1, <2>2
<1>10. ASSUME NEW i \in 5 .. 12
       PROVE  <<Cell("short", i), expected[i]>> \in ConfiguredCells(c)
  <2> DEFINE j == i - 4
  <2>1. j \in 1 .. 8 /\ j - 1 \in 0 .. (8 - 1) /\ 5 + (j - 1) = i /\ 4 + j = i
    OBVIOUS
  <2> HIDE DEF j
  <2>2. expected[i] = c.extended_source_address[j - 1]
    BY <1>1, <1>5, <2>1
  <2> QED BY <1>6, <1>7, <2>1, <2>2
<1>11. \A i \in 1 .. 12 : i \in 1 .. 2 \/ i \in 3 .. 4 \/ i \in 5 .. 12
  OBVIOUS
<1> QED BY <1>5, <1>8, <1>9, <1>10, <1>11, Zenon DEF expected, c

\* The configuration settles each of these registers: nothing after it does so again.
LEMMA CheckWrites ==
  ASSUME NEW s, HasLength(CheckCalls, 30),
         SettlesAll(CheckCalls, ConfiguredCells(check_config)),
         \A k \in 1 .. 30 :
           OneWrite(s[k], WrittenCell(CheckCalls[k]), WrittenValue(CheckCalls[k])),
         NEW c, NEW v, <<c, v>> \in ConfiguredCells(check_config), c # ResetCell
  PROVE  \E k \in 1 .. 30 :
           /\ Stores(s[k], 1, c, v)
           /\ \A l \in (k + 1) .. 30 : ~WritesTo(s[l], c) /\ ~WritesTo(s[l], ResetCell)
<1>1. Len(CheckCalls) = 30
  BY DEF HasLength
<1>2. Settles(CheckCalls, <<c, v>>[1], <<c, v>>[2]) /\ <<c, v>>[1] = c /\ <<c, v>>[2] = v
  BY DEF SettlesAll
<1>3. PICK k \in 1 .. 30 :
        /\ WrittenCell(CheckCalls[k]) = c
        /\ WrittenValue(CheckCalls[k]) = v
        /\ \A l \in (k + 1) .. 30 :
             WrittenCell(CheckCalls[l]) # c /\ WrittenCell(CheckCalls[l]) # ResetCell
  BY <1>1, <1>2, Zenon DEF Settles
<1>4. Stores(s[k], 1, c, v)
  BY <1>3, OneWriteStores, Zenon
<1>5. ASSUME NEW l \in (k + 1) .. 30
      PROVE  ~WritesTo(s[l], c) /\ ~WritesTo(s[l], ResetCell)
  <2>1. l \in 1 .. 30
    OBVIOUS
  <2> QED BY <1>3, <2>1, WritesOfOne, Zenon
<1> QED BY <1>4, <1>5, Zenon

LEMMA CheckPlan == HasPlan(CheckSetSourceAddresses)
<1> DEFINE p == CheckSetSourceAddresses
           s == Script(p)
<1>1. PICK loop : /\ IsScript(p, <<>>, loop) /\ Len(loop) = 43
                  /\ \A k \in 1 .. 30 :
                       OneWrite(loop[k], WrittenCell(CheckCalls[k]), WrittenValue(CheckCalls[k]))
                  /\ Puts(loop[31], "long", 3, <<\hBB, 0>>)
                  /\ \A i \in 1 .. 12 : Gets(loop[31 + i], "short", i, 1)
  BY CheckScript, Zenon
<1>2. s = loop /\ Len(s) = 43 /\ Len(p.setup) = 0 /\ p.loop # <<>>
  <2>1. p.setup = <<>> /\ p.loop = loop /\ loop \in Seq(Transactions)
    BY <1>1, Zenon DEF IsScript
  <2>2. \A t \in Seq(Transactions) : <<>> \o t = t
    <3> HIDE DEF Transactions
    <3> QED OBVIOUS
  <2>3. s = loop
    BY <2>1, <2>2, Zenon DEF Script
  <2>4. Len(<<>>) = 0 /\ 43 # 0
    OBVIOUS
  <2> QED BY <1>1, <2>1, <2>3, <2>4
<1>3. Attainable(p) = 12
  <2>1. Len(p.expected) = 12
    BY CheckConfigured
  <2>2. p.name # "WriteReadSourceAddress"
    BY DEF CheckSetSourceAddresses
  <2> QED BY <2>1, <2>2, AllAttainable, Zenon
<1> DEFINE IsFrom(i, k) ==
             /\ Stores(s[k], 1, Cell("short", i), p.expected[i])
             /\ \A l \in (k + 1) .. 30 :
                  ~WritesTo(s[l], Cell("short", i)) /\ ~WritesTo(s[l], ResetCell)
           From(i) == CHOOSE k \in 1 .. 30 : IsFrom(i, k)
           q == [i \in 1 .. 12 |-> [at |-> 31 + i, datum |-> 1, cell |-> Cell("short", i),
                                    from |-> From(i), written |-> 1]]
<1> HIDE DEF p, s
<1>4. \A i \in 1 .. 12 : /\ Cell("short", i) \in Cells \ ReceptionCells
                         /\ Cell("short", i) # ResetCell
  <2>1. \A i \in 1 .. 12 : i \in (1 .. 12) \cup {46}
    OBVIOUS
  <2> QED BY <2>1, CellNames, Zenon
<1>5. \A i \in 1 .. 12 : From(i) \in 1 .. 30 /\ IsFrom(i, From(i))
  <2> SUFFICES ASSUME NEW i \in 1 .. 12 PROVE \E k \in 1 .. 30 : IsFrom(i, k)
    BY Zenon
  <2>1. <<Cell("short", i), p.expected[i]>> \in ConfiguredCells(check_config)
    BY CheckConfigured DEF p
  <2>2. HasLength(CheckCalls, 30) /\ SettlesAll(CheckCalls, ConfiguredCells(check_config))
    BY Configured
  <2>3. \A k \in 1 .. 30 :
          OneWrite(s[k], WrittenCell(CheckCalls[k]), WrittenValue(CheckCalls[k]))
    BY <1>1, <1>2, Zenon
  <2>4. Cell("short", i) # ResetCell
    BY <1>4
  <2> QED BY <2>1, <2>2, <2>3, <2>4, CheckWrites, Zenon
<1>6. \A i \in 1 .. 12 : /\ q[i].at = 31 + i /\ q[i].datum = 1 /\ q[i].cell = Cell("short", i)
                         /\ q[i].from = From(i) /\ q[i].written = 1
  <2> HIDE DEF From
  <2> QED OBVIOUS
<1> HIDE DEF From, q
<1>7. \A i \in 1 .. 12 : ~WritesTo(s[31], Cell("short", i)) /\ ~WritesTo(s[31], ResetCell)
  <2>1. PICK bytes : Puts(s[31], "long", 3, bytes)
    BY <1>1, <1>2
  <2>2. \A y : ~WritesTo(s[31], Cell("short", y))
    BY <2>1, LongPutSpares
  <2> QED BY <2>2, CellNames, Zenon
<1>8. \A l \in 32 .. 43 : DataLength(s[l]) = 1 /\ \A d : ~WritesTo(s[l], d)
  <2> SUFFICES ASSUME NEW l \in 32 .. 43
               PROVE  DataLength(s[l]) = 1 /\ \A d : ~WritesTo(s[l], d)
    OBVIOUS
  <2> DEFINE i == l - 31
  <2>1. i \in 1 .. 12 /\ 31 + i = l
    OBVIOUS
  <2> HIDE DEF i
  <2>2. Gets(s[l], "short", i, 1)
    BY <1>1, <1>2, <2>1
  <2> QED BY <2>2, ShortGet, CellsWritten, Zenon
<1>9. ASSUME NEW i \in 1 .. 12 PROVE IsReading(p, q[i], p.expected[i])
  <2> DEFINE at == 31 + i
             f  == From(i)
             c  == Cell("short", i)
  <2>1. f \in 1 .. 30 /\ IsFrom(i, f)
    BY <1>5
  <2>2. at \in 1 .. 43 /\ f \in 1 .. (at - 1) /\ at > 0
        /\ \A k \in (f + 1) .. 43 : k \in (f + 1) .. 30 \/ k = 31 \/ k \in 32 .. 43
    BY <2>1
  <2>3. Fetches(s[at], 1, c)
    BY <1>1, <1>2, ShortGet, Zenon
  <2>4. q[i].at = at /\ q[i].datum = 1 /\ q[i].cell = c /\ q[i].from = f /\ q[i].written = 1
    BY <1>6, Zenon
  <2> HIDE DEF at, f
  <2>5. \A k \in (f + 1) .. 43 : ~WritesTo(s[k], c) /\ ~WritesTo(s[k], ResetCell)
    BY <1>7, <1>8, <2>1, <2>2, Zenon
  <2>6. Stores(s[f], 1, c, p.expected[i]) /\ c \in Cells \ ReceptionCells
    BY <1>4, <2>1, Zenon
  <2> HIDE DEF Cells, ReceptionCells, c
  <2> QED BY <1>2, <2>2, <2>3, <2>4, <2>5, <2>6, Zenon DEF IsReading, s
<1>10. ASSUME NEW i \in 1 .. 12, NEW j \in 1 .. 12, i < j
       PROVE  Earlier(q[i].at, q[i].datum, q[j].at, q[j].datum)
  <2>1. 31 + i < 31 + j
    BY <1>10
  <2> QED BY <1>6, <2>1, Zenon DEF Earlier
<1>11. ASSUME NEW k \in 1 .. 43, NEW j \in 1 .. DataLength(s[k]), Datum(s[k], j).op = "read"
       PROVE  \E i \in 1 .. 12 : q[i].at = k /\ q[i].datum = j
  <2>1. ~Mute(s[k])
    BY <1>11, Zenon DEF Mute
  <2>5. k \notin 1 .. 30
    BY <1>1, <1>2, <2>1, WritesAreMute, Zenon
  <2>6. k # 31
    <3>1. PICK bytes : Puts(s[31], "long", 3, bytes)
      BY <1>1, <1>2
    <3> QED BY <2>1, <3>1, WritesAreMute
  <2>2. k \in 32 .. 43
    BY <2>5, <2>6
  <2>3. j = 1
    <3>1. \A x \in 1 .. 1 : x = 1
      OBVIOUS
    <3> QED BY <1>8, <2>2, <3>1, Zenon
  <2> DEFINE i == k - 31
  <2>4. i \in 1 .. 12 /\ 31 + i = k
    BY <2>2
  <2> HIDE DEF i
  <2> QED BY <1>6, <2>3, <2>4, Zenon
<1>12. Attainable(p) \in Nat /\ \A i \in 1 .. Attainable(p) : IsReading(p, q[i], p.expected[i])
  <2>1. 12 \in Nat
    OBVIOUS
  <2> QED BY <1>3, <1>9, <2>1, Zenon
<1>13. \A i \in 1 .. Attainable(p), j \in 1 .. Attainable(p) :
         i < j => Earlier(q[i].at, q[i].datum, q[j].at, q[j].datum)
  BY <1>3, <1>10, Zenon
<1>14. \A k \in 1 .. Len(s) : \A j \in 1 .. DataLength(s[k]) : Datum(s[k], j).op = "read" =>
         \/ \E i \in 1 .. Attainable(p) : q[i].at = k /\ q[i].datum = j
         \/ \A i \in 1 .. Attainable(p) : Earlier(q[i].at, q[i].datum, k, j)
  <2> SUFFICES ASSUME NEW k \in 1 .. Len(s), NEW j \in 1 .. DataLength(s[k]),
                      Datum(s[k], j).op = "read"
               PROVE  \/ \E i \in 1 .. Attainable(p) : q[i].at = k /\ q[i].datum = j
                      \/ \A i \in 1 .. Attainable(p) : Earlier(q[i].at, q[i].datum, k, j)
    BY Zenon
  <2>1. k \in 1 .. 43
    BY <1>2
  <2>2. \A i : i \in 1 .. Attainable(p) <=> i \in 1 .. 12
    BY <1>3
  <2>3. PICK i \in 1 .. 12 : q[i].at = k /\ q[i].datum = j
    BY <1>11, <2>1
  <2> QED BY <2>2, <2>3, Zenon
<1> QED BY <1>12, <1>13, <1>14, Zenon DEF IsPlan, HasPlan, s, p

LEMMA PlansExist == \A p \in OtherPrograms : HasPlan(p)
BY ReadTxFifoMemoryPlan, StabilizationPlans, SPITestPlan, WriteReadPlan, CheckPlan, Zenon
   DEF OtherPrograms

-----------------------------------------------------------------------------
(* The plan of the program that starts is followed from the first step on. *)

LEMMA InitReadsBack == Init => ReadsBack
<1> SUFFICES ASSUME Init, program \in OtherPrograms
             PROVE  OnScript /\ \E q : IsPlan(program, q) /\ FollowsPlan(q)
  BY Zenon DEF ReadsBack
<1> DEFINE s == Script(program)
<1>1. todo = s /\ position = 1 /\ kept = <<>> /\ Len(s) \in Nat
  <2>1. s \in Seq(Transactions)
    BY ScriptOf, Zenon
  <2> HIDE DEF s
  <2>2. Len(s) \in Nat
    BY <2>1, LenProperties, Zenon
  <2> QED BY <2>2, Zenon DEF Init, Script, s
<1>2. Left = Len(s) /\ Done = 0 /\ OnScript
  <2>1. Left = Len(s) /\ Done = Len(s) - Left
    BY <1>1 DEF Left, Done
  <2> HIDE DEF s
  <2>2. Done = 0 /\ \A j : Done + j = 0 + j
    BY <1>1, <2>1
  <2>3. \A j \in 1 .. Left : todo[j] = s[Done + j]
    BY <1>1, <2>1, <2>2
  <2>4. Left <= Len(s)
    BY <1>1, <2>1
  <2> QED BY <2>1, <2>2, <2>3, <2>4 DEF OnScript, s
<1>3. PICK q : IsPlan(program, q)
  BY PlansExist, Zenon DEF HasPlan
<1>4. memory[StabilizationCell] = tx_stabilization_after_reset
  <2>1. PICK content \in PowerUpContents :
          memory = [content EXCEPT ![StabilizationCell] = tx_stabilization_after_reset]
    BY Zenon DEF Init, StabilizationCell
  <2>2. content \in [Cells -> Byte]
    BY SpiProgramsAssumption
  <2>3. StabilizationCell \in Cells
    <3>1. 46 \in (1 .. 12) \cup {46}
      OBVIOUS
    <3> QED BY <3>1, CellNames, Zenon
  <2> HIDE DEF Cells, Byte
  <2> QED BY <2>1, <2>2, <2>3
<1>5. Reached < 0
  <2>1. \A u : Width(u) \in 1 .. 2
    BY DEF Width
  <2>2. Width(todo[1]) \in 1 .. 2
    BY <2>1
  <2> QED BY <1>1, <2>2 DEF Reached
<1>6. ASSUME NEW k \in Nat, NEW j \in Nat, k > 0 PROVE ~Passed(k, j)
  <2>1. Reached \in Int
    <3>1. \A u : Width(u) \in 1 .. 2
      BY DEF Width
    <3>2. Width(todo[1]) \in 1 .. 2
      BY <3>1
    <3> QED BY <1>1, <3>2 DEF Reached
  <2> QED BY <1>2, <1>5, <1>6, <2>1 DEF Passed
<1>7. ASSUME NEW i \in 1 .. Attainable(program)
      PROVE  Known(q[i], program.expected[i]) /\ ReadSoFar(i, q[i], program.expected[i])
  <2> DEFINE r == q[i]
             v == program.expected[i]
  <2>1. IsReading(program, r, v) /\ Attainable(program) \in Nat
    BY <1>3 DEF IsPlan
  <2> HIDE DEF r, v, s
  <2>2. r.at \in 1 .. Len(s) /\ r.datum \in 1 .. DataLength(s[r.at])
    BY <2>1, Zenon DEF IsReading, Fetches, s
  <2>3. \/ r.from = 0 /\ r.cell = StabilizationCell /\ v = tx_stabilization_after_reset
        \/ r.from \in 1 .. (r.at - 1) /\ r.written \in 1 .. DataLength(s[r.from])
    BY <2>1, Zenon DEF IsReading, Stores, s
  <2>4. \A n : \A j \in 1 .. n : j \in Nat /\ j > 0
    OBVIOUS
  <2>5. ~Passed(r.at, r.datum)
    BY <1>6, <2>2, <2>4, Zenon
  <2>6. r.from = 0 \/ ~Passed(r.from, r.written)
    BY <1>6, <2>3, <2>4, Zenon
  <2>7. Known(r, v)
    <3>1. \A x : 0 \notin 1 .. x
      OBVIOUS
    <3>2. r.from = 0 => memory[r.cell] = v
      BY <1>4, <2>3, <3>1, Zenon
    <3> QED BY <2>6, <3>2, Zenon DEF Known
  <2>8. Len(kept) < i
    BY <1>1, <2>1
  <2>9. ReadSoFar(i, r, v)
    BY <2>5, <2>8, Zenon DEF ReadSoFar
  <2> QED BY <2>7, <2>9 DEF r, v
<1>8. FollowsPlan(q)
  BY <1>7, Zenon DEF FollowsPlan
<1> QED BY <1>2, <1>3, <1>8, Zenon

\* At the end of a turn everything is behind the program.
LEMMA ReadWhatIsExpected ==
  ASSUME Types, ReadsBack, EndOfTurn, program \in OtherPrograms
  PROVE  \A i \in 1 .. Attainable(program) :
           i <= Len(kept) /\ kept[i] = program.expected[i]
<1>1. PICK q : OnScript /\ IsPlan(program, q) /\ FollowsPlan(q)
  BY Zenon DEF ReadsBack
<1> DEFINE n == Len(Script(program))
<1>2. n \in Nat
  <2>1. Script(program) \in Seq(Transactions)
    BY ScriptOf, Zenon
  <2> QED BY <2>1, LenProperties, Zenon
<1>3. Done = n
  <2>1. Left = 0
    BY DEF EndOfTurn, Left
  <2> HIDE DEF n
  <2> QED BY <1>2, <2>1 DEF Done, n
<1> SUFFICES ASSUME NEW i \in 1 .. Attainable(program)
             PROVE  i <= Len(kept) /\ kept[i] = program.expected[i]
  OBVIOUS
<1>4. q[i].at \in 1 .. n
  BY <1>1 DEF IsPlan, IsReading
<1> HIDE DEF n
<1>5. Done >= q[i].at
  BY <1>2, <1>3, <1>4
<1>6. Passed(q[i].at, q[i].datum)
  BY <1>5, Zenon DEF Passed
<1>7. ReadSoFar(i, q[i], program.expected[i])
  BY <1>1, Zenon DEF FollowsPlan
<1> QED BY <1>6, <1>7, Zenon DEF ReadSoFar

-----------------------------------------------------------------------------
(* The theorems.                                                           *)

Inv ==
  /\ Types /\ BusIsFollowed
  /\ InitMrfSettles
  /\ ReceiverIsOnTrack /\ InterruptMeansPacket /\ ReceiverReads
  /\ ReadsBack

LEMMA InitInv == Init => Inv
<1> SUFFICES ASSUME Init PROVE Inv
  OBVIOUS
<1>1. Types
  BY InitTypes
<1>2. BusIsFollowed
  <2>1. ~(position > 1)
    BY DEF Init
  <2> QED BY <2>1, Zenon DEF BusIsFollowed
<1>3. InitMrfSettles
  BY InitSettles
<1>4. ReceiverIsOnTrack
  BY InitSetsUp, Zenon DEF ReceiverIsOnTrack
<1>5. InterruptMeansPacket
  <2>1. program = Receiver => BeforeReset
    BY InitSetsUp DEF BeforeReset
  <2> QED BY <2>1, Zenon DEF InterruptMeansPacket
<1>6. ReceiverReads
  <2> SUFFICES ASSUME program = Receiver PROVE ReceiverReads
    BY Zenon DEF ReceiverReads
  <2>1. ~LoopBegins /\ ~Waiting /\ ~Sizing /\ ~ToBurst /\ ~Bursting /\ todo # <<>>
    BY InitSetsUp, OnePlace, Zenon DEF Apart
  <2>2. \A n \in Byte : todo # <<Burst1(n)>>
    BY <2>1 DEF Bursting
  <2> QED BY <2>1, <2>2, Zenon DEF ReceiverReads
<1>7. ReadsBack
  BY InitReadsBack
<1> QED BY <1>1, <1>2, <1>3, <1>4, <1>5, <1>6, <1>7 DEF Inv

LEMMA NextInv == Inv /\ [Next]_vars => Inv'
<1> SUFFICES ASSUME Inv, [Next]_vars PROVE Inv'
  OBVIOUS
<1>1. /\ Types /\ BusIsFollowed /\ InitMrfSettles
      /\ ReceiverIsOnTrack /\ InterruptMeansPacket /\ ReceiverReads
      /\ ReadsBack
  BY DEF Inv
<1>2. CASE BusStep
  <2>1. Types'
    BY <1>1, <1>2, BusStepTypes
  <2>2. BusIsFollowed'
    BY <1>1, <1>2, BusStepDoes
  <2>3. InitMrfSettles'
    BY <1>1, <1>2, BusStepSettles
  <2>4. ReceiverIsOnTrack' /\ InterruptMeansPacket' /\ ReceiverReads'
    BY <1>1, <1>2, BusStepOnTrack, BusStepReports, BusStepReads
  <2>5. ReadsBack'
    BY <1>1, <1>2, BusStepReadsBack
  <2> QED BY <2>1, <2>2, <2>3, <2>4, <2>5, Zenon DEF Inv
<1>3. CASE Wait
  BY <1>1, <1>3, WaitKeeps, WaitsReadBack, Zenon DEF Inv
<1>4. CASE Burst
  BY <1>1, <1>4, BurstKeeps, WaitsReadBack, Zenon DEF Inv
<1>5. CASE Repeat
  BY <1>1, <1>5, RepeatKeeps, RepeatReadsBack, Zenon DEF Inv
<1>6. CASE \E p \in Packets : PacketArrives(p)
  BY <1>1, <1>6, PacketKeeps, PacketReadsBack, Zenon DEF Inv
<1>7. CASE UNCHANGED vars
  <2>1. ReadsBack'
    BY <1>1, <1>7, SameReadsBack, Zenon DEF vars, chip
  <2> QED BY <1>1, <1>7, <2>1, StutterKeeps, Zenon DEF Inv
<1> QED BY <1>2, <1>3, <1>4, <1>5, <1>6, <1>7, Zenon DEF Next, ProgramSteps, BusStep

LEMMA InvAlways == Spec => []Inv
<1>1. Init => Inv
  BY InitInv
<1>2. Inv /\ [Next]_vars => Inv'
  BY NextInv
<1> QED BY <1>1, <1>2, PTL DEF Spec

\* Whatever the chip holds at power-up and whatever comes in, the registers hold
\* bytes, and what the programs read are bytes.
THEOREM TypeOKAlways == Spec => []TypeOK
<1>1. Inv => TypeOK
  BY DEF Inv, Types
<1> QED BY <1>1, InvAlways, PTL

\* ReceiveFrameWithSPIOnly reads a packet whole, its length byte included, from any
\* chip and whatever packets come in, unless another one came in since it read the
\* interrupt status (ReceiveFrameWithSPIOnly.c:25-32).
THEOREM FrameIsReadWholeAlways == Spec => []FrameIsReadWhole
<1>1. Inv => FrameIsReadWhole
  <2> SUFFICES ASSUME Inv, todo = <<>>, program.name = "ReceiveFrameWithSPIOnly", ~overtaken
               PROVE  Len(kept) = kept[1] + 1 /\ FifoHolds(kept)
    BY DEF FrameIsReadWhole, EndOfTurn, Runs
  <2>1. program = Receiver
    <3>1. program \in Programs
      BY DEF Inv, Types, TypeOK
    <3>2. Sender.name # "ReceiveFrameWithSPIOnly"
      BY Names
    <3> QED BY <3>1, <3>2, Names
  <2>2. GotPacket /\ Len(kept) = memory[SizeCell] + 1 /\ FifoHolds(kept)
    BY <2>1, Zenon DEF Inv, ReceiverReads
  <2>3. memory[SizeCell] \in 0 .. 12
    BY <2>2, PacketLength
  <2>4. kept[1] = memory[SizeCell]
    <3>1. 1 \in 1 .. Len(kept)
      BY <2>2, <2>3
    <3>2. memory[Cell("long", mrf_rx_fifo_start + 1 - 1)] = kept[1]
      BY <2>2, <3>1 DEF FifoHolds
    <3>3. mrf_rx_fifo_start + 1 - 1 = mrf_rx_fifo_start
      BY DEF mrf_rx_fifo_start
    <3> QED BY <3>2, <3>3 DEF SizeCell
  <2> QED BY <2>2, <2>4
<1> QED BY <1>1, InvAlways, PTL

\* initMrf leaves its addresses and the channel behind and the receiver running at
\* every end of a turn of the two programs that call it, though its first write
\* erases every register (HelpersForUsageWithoutCommModule.c:270-319).
THEOREM InitMrfTakesEffectAlways == Spec => []InitMrfTakesEffect
<1>1. Inv => InitMrfTakesEffect
  <2> SUFFICES ASSUME Inv, todo = <<>>,
                      program.name \in {"SendOneFrameUsingPeripheralInterfaceOnly",
                                        "ReceiveFrameWithSPIOnly"}
               PROVE  /\ Holds(mrf_register_pan_id_low_byte, initMrf_pan_id)
                      /\ Holds(mrf_register_short_address_low_byte, initMrf_short_source_address)
                      /\ Holds(mrf_register_extended_address0, initMrf_extended_source_address)
                      /\ Holds(mrf_register_rf_mode_control, <<0>>)
                      /\ memory[Cell("long", mrf_register_rf_control0)] = \h13
    BY DEF InitMrfTakesEffect, EndOfTurn
  <2>1. RunsInitMrf
    <3>1. program \in Programs
      BY Zenon DEF Inv, Types, TypeOK
    <3>2. /\ Receiver.name = "ReceiveFrameWithSPIOnly"
          /\ Sender.name = "SendOneFrameUsingPeripheralInterfaceOnly"
      BY Names, Zenon
    <3>3. \/ program = Receiver \/ program = Sender
          \/ program.name # Receiver.name /\ program.name # Sender.name
      BY <3>1, Names, Zenon
    <3>4. program = Receiver \/ program = Sender
      BY <3>2, <3>3
    <3> QED BY <3>4, Zenon DEF RunsInitMrf
  <2>2. SetValues
    <3>1. InLoop
      BY DEF InLoop
    <3>2. InitMrfSettles
      BY DEF Inv
    <3> QED BY <2>1, <3>1, <3>2, LoopSettled DEF LoopKeepsSettings
  <2>3. /\ \A i \in 1 .. 12 : memory[Cell("short", i)] = InitAddresses[i]
        /\ memory[Cell("short", 54)] = 0 /\ memory[Cell("long", 512)] = 19
    <3>1. /\ \A i \in 1 .. 12 : <<Cell("short", i), InitAddresses[i]>> \in FinalCells
          /\ <<Cell("short", 54), 0>> \in FinalCells /\ <<Cell("long", 512), 19>> \in FinalCells
      <4>1. \A i \in 1 .. 12 : <<Cell("short", i), InitAddresses[i]>> \in FinalCells
        BY ZenonT(60) DEF FinalCells
      <4>2. {<<Cell("short", 54), 0>>, <<Cell("long", 512), 19>>} \subseteq FinalCells
        BY DEF FinalCells
      <4> QED BY <4>1, <4>2
    <3> QED BY <2>2, <3>1 DEF SetValues
  <2>4. Holds(mrf_register_pan_id_low_byte, initMrf_pan_id)
    <3> SUFFICES ASSUME NEW i \in 1 .. 2
                 PROVE  memory[Cell("short", 1 + i - 1)] = <<52, 18>>[i]
      BY DEF Holds, mrf_register_pan_id_low_byte, initMrf_pan_id
    <3>1. 1 + i - 1 \in 1 .. 12
      OBVIOUS
    <3>2. InitAddresses[1 + i - 1] = <<52, 18>>[i]
      BY DEF InitAddresses
    <3> QED BY <2>3, <3>1, <3>2, Zenon
  <2>5. Holds(mrf_register_short_address_low_byte, initMrf_short_source_address)
    <3> SUFFICES ASSUME NEW i \in 1 .. 2
                 PROVE  memory[Cell("short", 3 + i - 1)] = <<187, 187>>[i]
      BY DEF Holds, mrf_register_short_address_low_byte, initMrf_short_source_address
    <3>1. 3 + i - 1 \in 1 .. 12
      OBVIOUS
    <3>2. InitAddresses[3 + i - 1] = <<187, 187>>[i]
      BY DEF InitAddresses
    <3> QED BY <2>3, <3>1, <3>2, Zenon
  <2>6. Holds(mrf_register_extended_address0, initMrf_extended_source_address)
    <3> SUFFICES ASSUME NEW i \in 1 .. 8
                 PROVE  memory[Cell("short", 5 + i - 1)] = <<8, 7, 6, 5, 4, 3, 2, 1>>[i]
      BY DEF Holds, mrf_register_extended_address0, initMrf_extended_source_address
    <3>1. 5 + i - 1 \in 1 .. 12
      OBVIOUS
    <3>2. InitAddresses[5 + i - 1] = <<8, 7, 6, 5, 4, 3, 2, 1>>[i]
      BY DEF InitAddresses
    <3> QED BY <2>3, <3>1, <3>2, Zenon
  <2>7. Holds(mrf_register_rf_mode_control, <<0>>)
    BY <2>3 DEF Holds, mrf_register_rf_mode_control
  <2>8. memory[Cell("long", mrf_register_rf_control0)] = \h13
    BY <2>3 DEF mrf_register_rf_control0
  <2> QED BY <2>4, <2>5, <2>6, <2>7, <2>8
<1> QED BY <1>1, InvAlways, PTL

\* Whatever the chip held at power-up and whatever comes in, what the programs without
\* initMrf read back in a turn is what they announce: the value of the data sheet, the
\* text they put into the FIFO, or the addresses they wrote byte by byte
\* (WriteReadSourceAddress.c:70, SPITestWithLufaOnly.c:80,
\* CheckSetSourceAddresses.c:188-192).  Excepted is the last byte announced by
\* WriteReadSourceAddress (line 109), which goes out as the second of a byte string and
\* is not read back.  The other two programs announce nothing.
THEOREM ReadsWhatIsExpectedAlways == Spec => []ReadsWhatIsExpected
<1>1. Inv => ReadsWhatIsExpected
  <2> SUFFICES ASSUME Inv, EndOfTurn, program.expected # Null
               PROVE  \A i \in 1 .. Attainable(program) :
                        i <= Len(kept) /\ kept[i] = program.expected[i]
    BY Zenon DEF ReadsWhatIsExpected, AnnouncedAreRead
  <2>1. program # Receiver /\ program # Sender
    BY DEF ReceiveFrameWithSPIOnly, SendOneFrameUsingPeripheralInterfaceOnly, Receiver, Sender
  <2>2. program \in OtherPrograms
    <3>1. program \in Programs
      BY Zenon DEF Inv, Types, TypeOK
    <3> QED BY <2>1, <3>1, SpiProgramsAreTheseEight, Zenon DEF OtherPrograms, Receiver, Sender
  <2> QED BY <2>2, ReadWhatIsExpected, Zenon DEF Inv
<1> QED BY <1>1, InvAlways, PTL

=============================================================================
