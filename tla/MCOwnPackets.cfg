SPECIFICATION InspectionSpec
CONSTANTS
  PanIds <- MCPanIds
  ShortAddresses <- MCShortAddresses
  ExtendedAddresses <- MCExtendedAddresses
  Payloads = {message}
  PayloadLengths <- MCPayloadLengths
  AddressingModes <- MCAddressingModes
  FrameControls <- MCFrameControls
  Null = Null
INVARIANTS
  TypeOK
  HeaderLengthIsCurrent
  PayloadFieldIsWhatWasSet
  FieldsTileTheFrame
  PayloadIsFound
  SourceIsFound
