SPECIFICATION CheckSpec
CONSTANTS
  NotSemver = NotSemver
  Texts <- MCTexts
  Parsed <- MCParsed
  Allows <- MCAllows
INVARIANTS
  CheckInv
  ReportsAgree
  UpdatesSettle
  NeverLeavesLine
