SPECIFICATION FullSpec
CONSTANTS
  PanIds <- MCPanIds
  ShortAddresses <- MCOneShortAddress
  ExtendedAddresses <- MCOneExtendedAddress
  SequenceNumbers <- MCSequenceNumbers
  AdjacentBytes <- MCAdjacentBytes
PROPERTIES
  SequenceNumberKeepsFields
