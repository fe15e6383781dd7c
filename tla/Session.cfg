SPECIFICATION Spec
CONSTANTS
  Lines <- MCLines
  Starts <- MCStarts
  Tree <- MCTree
  Within <- MCWithin
  Order <- MCOrder
  Hidden = {"d/.h"}
  Chars <- MCChars
  Devices <- MCDevices
  MAX_TOKENS = 7
  BUF_SIZE = 3
  MAX_LINE = 3
  PIPESIZE = 1
  MaxFaults = 1
INVARIANTS
  ToolOutput
  SourceKept
  NothingLeft
PROPERTY
  PromptReturns
CHECK_DEADLOCK FALSE
