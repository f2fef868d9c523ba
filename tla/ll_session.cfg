CONSTANTS
  FlashSize = 8
  PageSize = 2
  SectorSize = 4
  Cell <- MCCell
  Blank <- MCBlank
  BitAnd <- MCAnd
  ProgTicks = 1
  EraseTicks = 3
  FifoCap = 4
  PpBuf = 2
  AddrSpace = 8
  MemSize = 8
  DrvPage = 2
  ProgBudget = 1
  EraseBudget = 3
  FifoFactor = 1
  FifoSlack = 1
  Calls <- MCCalls
SPECIFICATION Spec
INVARIANT NothingIgnored
PROPERTY CleanAfterOk
PROPERTY OkMeansProgrammed
PROPERTY ImplementsNor
PROPERTY AnswersAsNor
