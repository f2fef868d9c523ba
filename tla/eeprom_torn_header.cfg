CONSTANTS
  FlashSize = 52
  PageSize = 8
  SectorSize = 26
  Cell <- MCCell
  Blank <- MCBlank
  BitAnd <- MCAnd
  Base = 0
  Size = 3
  Requests <- TwoWrites
  Crc <- SelfCrc
  SectorMagic <- MCSectorMagic
  RecMagic <- MCRecMagic
  MaxSeq = 4
  Faults = {"tear"}
SPECIFICATION Spec
INVARIANT MountSucceeds
