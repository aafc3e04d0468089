SPECIFICATION Spec
CONSTANTS
  PanIds <- MCPanIds
  ShortAddresses <- MCShortAddresses
  ExtendedAddresses <- MCExtendedAddresses
  PayloadLengths <- MCPayloadLengths
  Payloads = {p1, p2}
  Null = Null
INVARIANT PayloadLengthIsWhatWasSet
