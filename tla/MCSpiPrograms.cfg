SPECIFICATION Spec
CONSTANTS
  Programs <- MCAllPrograms
  PowerUpContents <- MCPowerUpContents
  Packets <- MCPackets
  Null = Null
INVARIANTS
  TypeOK
  ReadsWhatIsExpected
  InitMrfTakesEffect
  FrameIsReadWhole
PROPERTIES
  NoPacketIsOverlooked
