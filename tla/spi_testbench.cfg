CONSTANTS
  FlashSize = 16
  PageSize = 2
  SectorSize = 8
  Cell <- MCCell
  Blank <- MCBlank
  BitAnd <- MCAnd
  ProgTicks = 1
  EraseTicks = 2
  ByteBits = 3
  AddrBytes = 2
  WREN = 6
  RDSR = 5
  READ = 3
  PP = 2
  SE = 4
  Frames <- MCFrames
SPECIFICATION Spec
CHECK_DEADLOCK FALSE
PROPERTY TestbenchReads
