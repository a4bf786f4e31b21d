SPECIFICATION Spec
CONSTANTS
  Conversions <- MCConversions
  Inputs <- MCInputs
  Limit = 10
  NotDecimal = NotDecimal
  NotABar = NotABar
  Nobody = Nobody
\* The conversions have ended.
CHECK_DEADLOCK FALSE
INVARIANTS
  OutputIsWhole
  ConvertedIsMine
  RowsIncrease
  ParsedConverts
