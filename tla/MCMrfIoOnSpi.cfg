SPECIFICATION Spec
CONSTANTS
  ShortRegisters <- MCShortRegisters
  LongRegisters <- MCLongRegisters
  FifoAddresses <- MCFifoAddresses
  Blocks <- MCBlocks
  Values = {7}
INVARIANTS
  TypeOK
  MemoryIsWhatWasAskedFor
  BufferIsWhatWasAskedFor
  BusIsFreeBetweenTransactions
PROPERTIES
  CallsImplementAccess
