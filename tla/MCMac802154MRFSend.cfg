SPECIFICATION SendSpec
CONSTANTS
  Configs <- MCTwoConfigs
  ShortDestinations <- MCShortDestinations
  ExtendedDestinations <- MCExtendedDestinations
  Payloads = {message}
  PayloadLengths <- MCPayloadLengths
  Packets <- MCOnePacket
  Null = Null
INVARIANTS
  TypeOK
  AiredFrameIsWhatWasAskedFor
  ChipListensToTheConfiguration
PROPERTIES
  TxFifoIsStableWhileTransmitting
  SendReturnsAfterItsTransmission
  EverySendReturns
  SendingImplementsService
