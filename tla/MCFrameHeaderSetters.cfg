SPECIFICATION InsertionSpec
CONSTANTS
  PanIds <- MCPanIds
  ShortAddresses <- MCShortAddresses
  ExtendedAddresses <- MCExtendedAddresses
  SequenceNumbers <- MCSequenceNumbers
  AdjacentBytes <- MCAdjacentBytes
INVARIANTS
  TypeOK
  HeaderSizeIsWhereThePayloadStarts
  CompressionFollowsTheAddresses
PROPERTIES
  AdjacentByteIsUntouched
  FieldsAreIndependent
  InsertedNumberKeepsFields
