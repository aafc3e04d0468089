------------------------------ MODULE MrfIoOnSpi ------------------------------
(***************************************************************************)
(* MrfIo on the SPI bus: one action for each call into                     *)
(* PeripheralInterface, with the chip at the other end of the bus.  The    *)
(* interface and the chip are external; the chip obeys a command only      *)
(* while it is selected and forgets it when it is deselected.              *)
(***************************************************************************)
EXTENDS MrfIo

CONSTANTS ShortRegisters,   \* short addresses callers use
          LongRegisters,    \* long addresses above 0x3F callers use
          FifoAddresses,    \* long addresses callers read and write in blocks
          Values,           \* bytes callers write
          Blocks            \* byte sequences callers write

ASSUME SpiAssumption ==
  /\ ShortRegisters \subseteq 0 .. LastShortControlRegisterAddress
  /\ LongRegisters \subseteq LongAddress \ (0 .. LastShortControlRegisterAddress)
  /\ FifoAddresses \subseteq LongAddress
  /\ Values \subseteq Byte
  /\ \A block \in Blocks : block \in Seq(Byte) /\ block # <<>>

Cells == ({"short"} \X ShortRegisters) \cup ({"long"} \X (LongRegisters \cup FifoAddresses))

VARIABLES
  todo,      \* the transactions left of the call, the running one first
  pc,        \* where in the running transaction the code is
  selected,  \* chip: whether its select line is active
  command,   \* chip: the command bytes received since it was selected
  memory,    \* chip: the content of its cells
  buffer,    \* the bytes the last read put into the caller's buffer
  wanted,    \* history: what the caller expects memory to be after the call
  expected   \* history: what the caller expects in the buffer after the call

vars == <<todo, pc, selected, command, memory, buffer, wanted, expected>>

Init ==
  /\ todo = <<>>
  /\ pc = "idle"
  /\ selected = FALSE
  /\ command = <<>>
  /\ memory = [cell \in Cells |-> 0]
  /\ buffer = <<>>
  /\ wanted = memory
  /\ expected = <<>>

-----------------------------------------------------------------------------
(* Calls.  `wanted' and `expected' are stated without commands.            *)

Call(transactions) ==
  /\ pc = "idle"
  /\ todo' = transactions
  /\ pc' = "select"
  /\ UNCHANGED <<selected, command, memory, buffer>>

\* memory with the bytes of a block at consecutive addresses of a space.
Written(space, address, bytes) ==
  [cell \in Cells |->
     IF cell[1] = space /\ cell[2] \in address .. (address + Len(bytes) - 1)
       THEN bytes[cell[2] - address + 1] ELSE memory[cell]]

ShortBlock(address, length) == address .. (address + length - 1) \subseteq ShortRegisters
LongBlock(address, length)  == address .. (address + length - 1) \subseteq FifoAddresses

SetControlRegister(address, value) ==
  /\ Call(MrfIo_setControlRegister(address, value))
  /\ wanted' = Written(IF address \in ShortRegisters THEN "short" ELSE "long", address, <<value>>)
  /\ expected' = buffer

ReadControlRegister(address) ==
  /\ Call(MrfIo_readControlRegister(address))
  /\ expected' =
       <<memory[Cell(IF address \in ShortRegisters THEN "short" ELSE "long", address)]>>
  /\ UNCHANGED wanted

WriteBlockingToLongAddress(bytes, address) ==
  /\ LongBlock(address, Len(bytes))
  /\ Call(MrfIo_writeBlockingToLongAddress(bytes, address))
  /\ wanted' = Written("long", address, bytes)
  /\ expected' = buffer

WriteBlockingToShortAddress(bytes, address) ==
  /\ ShortBlock(address, Len(bytes))
  /\ Call(MrfIo_writeBlockingToShortAddress(bytes, address))
  /\ wanted' = Written("short", address, bytes)
  /\ expected' = buffer

ReadBlockingFromLongAddress(address, length) ==
  /\ LongBlock(address, length)
  /\ Call(MrfIo_readBlockingFromLongAddress(address, length))
  /\ expected' = [i \in 1 .. length |-> memory[Cell("long", address + i - 1)]]
  /\ UNCHANGED wanted

-----------------------------------------------------------------------------
(* One transaction: select, command, payload, deselect.                    *)

SelectPeripheral ==
  /\ pc = "select"
  /\ selected' = TRUE
  /\ command' = <<>>
  /\ pc' = "command"
  /\ UNCHANGED <<todo, memory, buffer, wanted, expected>>

WriteCommand ==
  /\ pc = "command"
  /\ command' = IF selected THEN Head(todo).command ELSE command
  /\ pc' = IF Head(todo).payload # <<>> THEN "write" ELSE "read"
  /\ UNCHANGED <<todo, selected, memory, buffer, wanted, expected>>

\* A write that the chip does not take for one changes nothing.
WritePayload ==
  LET bytes == Head(todo).payload
      written(cell) == {i \in 1 .. Len(bytes) : CellOfByte(command, i) = cell}
      first(cell)   == CHOOSE i \in written(cell) : \A j \in written(cell) : i <= j
  IN /\ pc = "write"
     /\ memory' = IF selected /\ IsWriteCommand(command)
                    THEN [cell \in Cells |-> IF written(cell) = {} THEN memory[cell]
                                             ELSE bytes[first(cell)]]
                    ELSE memory
     /\ pc' = "deselect"
     /\ UNCHANGED <<todo, selected, command, buffer, wanted, expected>>

\* Cells outside the instance read as zero.
ReadPayload ==
  LET content(cell) == IF cell \in Cells THEN memory[cell] ELSE 0
  IN /\ pc = "read"
     /\ buffer' = [i \in 1 .. Head(todo).size |->
                     IF selected /\ ~IsWriteCommand(command)
                       THEN content(CellOfByte(command, i)) ELSE 0]
     /\ pc' = "deselect"
     /\ UNCHANGED <<todo, selected, command, memory, wanted, expected>>

\* Faulty: the chip stays selected.
FinishWithoutDeselecting ==
  /\ pc = "deselect"
  /\ todo' = Tail(todo)
  /\ pc' = IF Tail(todo) = <<>> THEN "idle" ELSE "select"
  /\ UNCHANGED <<selected, command, memory, buffer, wanted, expected>>

DeselectPeripheral ==
  /\ pc = "deselect"
  /\ selected' = FALSE
  /\ command' = <<>>
  /\ todo' = Tail(todo)
  /\ pc' = IF Tail(todo) = <<>> THEN "idle" ELSE "select"
  /\ UNCHANGED <<memory, buffer, wanted, expected>>

Transaction ==
  SelectPeripheral \/ WriteCommand \/ WritePayload \/ ReadPayload \/ DeselectPeripheral

Next ==
  \/ \E address \in ShortRegisters \cup LongRegisters :
       \/ \E value \in Values : SetControlRegister(address, value)
       \/ ReadControlRegister(address)
  \/ \E bytes \in Blocks :
       \/ \E address \in FifoAddresses : WriteBlockingToLongAddress(bytes, address)
       \/ \E address \in ShortRegisters : WriteBlockingToShortAddress(bytes, address)
  \/ \E address \in FifoAddresses, length \in {Len(block) : block \in Blocks} :
       ReadBlockingFromLongAddress(address, length)
  \/ Transaction

Spec == Init /\ [][Next]_vars

-----------------------------------------------------------------------------
\* The type invariant.
TypeOK ==
  /\ todo \in Seq([command : Seq(Byte), payload : Seq(Byte), size : Nat])
  /\ pc \in {"idle", "select", "command", "write", "read", "deselect"}
  /\ selected \in BOOLEAN
  /\ command \in Seq(Byte)
  /\ memory \in [Cells -> Byte]
  /\ buffer \in Seq(Byte)
  /\ wanted \in [Cells -> Byte]
  /\ expected \in Seq(Byte)

\* After every call each cell of the chip holds what the caller asked for: the
\* bytes of the call at its address in its address space, and no other cell
\* changed (MrfIo.c:16-51, 65-75, 84-95; MRFHelperFunctions.h).
MemoryIsWhatWasAskedFor == pc = "idle" => memory = wanted

\* After every read the caller's buffer holds the content of the cells at the
\* address it asked for, and no write command ever reads
\* (MrfIo.c:53-62, 77-82, 97-117).
BufferIsWhatWasAskedFor == pc = "idle" => buffer = expected

\* The chip is selected only inside a transaction: between two transactions, and
\* between two calls, the bus is free for other devices (MrfIo.c:65-82).
BusIsFreeBetweenTransactions == pc \in {"idle", "select"} => ~selected

Access == INSTANCE RegisterAccess WITH busy <- (pc # "idle")

\* The transactions of a call carry out one access to the chip.  At no moment of
\* a call, also of one that sends its bytes in several transactions, does a cell
\* hold anything but what it held before or shall hold after it; the buffer goes
\* from what it held to the bytes of the cells in one step, and only in a call
\* that reads; a call returns only when its access is complete (MrfIo.c:16-117).
CallsImplementAccess == Access!Spec

=============================================================================
