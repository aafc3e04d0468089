SPECIFICATION Spec
CONSTANTS
  ShortAddresses <- MCShortAddresses
  PayloadLengths <- MCPayloadLengths
  Payloads = {p1}
  Null = Null
PROPERTY EveryUpdateIsYielded
