CONSTANTS
  FlashSize = 56
  PageSize = 8
  SectorSize = 28
  Cell <- MCCell
  Blank <- MCBlank
  BitAnd <- MCAnd
  Base = 0
  Size = 3
  Requests <- TwoWrites
  Crc <- FieldCrc
  SectorMagic <- MCSectorMagic
  RecMagic <- MCRecMagic
  MaxSeq = 4
  Faults = {"restart"}
SPECIFICATION Spec
INVARIANT RestartRecovers
INVARIANT AppendsOnBlank
PROPERTY MountFailsOnlyAtEnd
PROPERTY ImplementsStore
PROPERTY EveryCallReturns
