CONSTANTS
  FlashSize = 8
  PageSize = 4
  SectorSize = 4
  Cell <- MCCell
  Blank <- MCBlank
  BitAnd <- MCAnd
  ProgTicks = 3
  EraseTicks = 3
  FifoCap = 3
  PpBuf = 2
  AddrSpace = 16
  MemSize = 10
  DrvPage = 4
  ProgBudget = 1
  EraseBudget = 1
  FifoFactor = 1
  FifoSlack = 1
  Calls <- MCCalls
SPECIFICATION Spec
INVARIANT TypeOK
INVARIANT RxDrained
PROPERTY OthersKept
PROPERTY EveryCallReturns
