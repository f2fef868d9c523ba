CONSTANTS
  FlashSize = 44
  PageSize = 8
  SectorSize = 22
  Cell <- MCCell
  Blank <- MCBlank
  BitAnd <- MCAnd
  Base = 0
  Size = 3
  Requests <- TwoWrites
  Crc <- SelfCrc
  SectorMagic <- MCSectorMagic
  RecMagic <- MCRecMagic
  MaxSeq = 2
  Faults = {"ioerr"}
SPECIFICATION Spec
INVARIANT TypeOK
INVARIANT IInv
INVARIANT WriteStaysInSector
PROPERTY LogKept
PROPERTY ImplementsStore
PROPERTY AnswersAsStore
