SPECIFICATION SourceSpec
CONSTANTS
  Writers = {a, b, c}
  Files = 3
  NoOwner = NoOwner
SYMMETRY Symmetric
\* The writers have ended.
CHECK_DEADLOCK FALSE
INVARIANTS
  OneWriterWins
PROPERTY
  NotMineNotTouched
