CONSTANTS
  FlashSize = 52
  PageSize = 8
  SectorSize = 26
  Cell <- MCCell
  Blank <- MCBlank
  BitAnd <- MCAnd
  Base = 0
  Size = 3
  Requests <- OneWrite
  Crc <- SelfCrc
  SectorMagic <- MCSectorMagic
  RecMagic <- MCRecMagic
  MaxSeq = 3
  Faults = {"tear", "restart"}
SPECIFICATION Spec
INVARIANT IInv
INVARIANT HeadersDistinct
INVARIANT RestartPicksActive
PROPERTY NeverReformatted
PROPERTY MountFailsOnlyTorn
