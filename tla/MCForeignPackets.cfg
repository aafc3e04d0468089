SPECIFICATION ForeignSpec
CONSTANTS
  PanIds <- MCPanIds
  ShortAddresses <- MCShortAddresses
  ExtendedAddresses <- MCExtendedAddresses
  Payloads = {message}
  PayloadLengths <- MCForeignLengths
  AddressingModes <- MCAddressingModes
  FrameControls <- MCFrameControls
  Null = Null
INVARIANTS
  PayloadIsFound
