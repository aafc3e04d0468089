SPECIFICATION PeerSpec
CONSTANTS
  Programs <- MCEcho
  MaxRestarts = 0
  NumberRange = 12
  Configs <- MCConfigs
  ShortDestinations = {}
  ExtendedDestinations = {}
  Payloads <- MCPayloads
  PayloadLengths = {}
  Packets <- MCPackets
  Messages <- MCMessages
  Null = Null
PROPERTIES
  EveryFetchIsWhole
