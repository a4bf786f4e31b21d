SPECIFICATION AdapterSpec
CONSTANTS
  Runs = {r1, r2}
  Window = w
  Allowances <- MCAllowances
  MaxAttempts = 3
  RequestIds = {i1, i2, i3, i4}
  NoRow = NoRow
SYMMETRY Symmetric
\* Every adapter ends, so the system stops.
CHECK_DEADLOCK FALSE
INVARIANTS
  OneUnitPerCall
  OnlyRetriesPrecede
  ResultAccounts
  ResultsAreEvidenced
  StatusIsEarned
PROPERTY NoCallOnceDone
