SPECIFICATION PeerSpec
CONSTANTS
  Programs <- MCPrograms
  MaxRestarts = 1
  NumberRange = 12
  Configs <- MCConfigs
  ShortDestinations = {}
  ExtendedDestinations = {}
  Payloads <- MCPayloads
  PayloadLengths = {}
  Packets <- MCPackets
  Messages <- MCMessages
  Null = Null
INVARIANTS
  ApplicationsTypeOK
  EchoIsFaithful
  NumberIsSentAsFormatted
PROPERTIES
  FetchedPacketIsWhole
  NoPacketIsAnsweredTwice
  PayloadStaysAlive
  SendsAreSeparate
  EveryPacketIsShown
  UsbIsServedBySender
  EveryMessageIsAnswered
