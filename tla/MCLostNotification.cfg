SPECIFICATION SendSpec
CONSTANTS
  Configs <- MCOneConfig
  ShortDestinations <- MCShortDestinations
  ExtendedDestinations = {}
  Payloads = {message}
  PayloadLengths <- MCPayloadLengths
  Packets <- MCOnePacket
  Null = Null
PROPERTIES
  NewPacketIsReported
