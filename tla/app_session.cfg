CONSTANTS
  Size = 8
  DefaultSize = 6
  Blank = 2
  WordLen = 2
  NameLen = 2
  NameAddr = 3
  DefaultBaud = 5
  Commands <- MCCommands
SPECIFICATION Spec
INVARIANT TypeOK
PROPERTY ShowsPromised
PROPERTY FormatInOrder
PROPERTY CommandAnswered
