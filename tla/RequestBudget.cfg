SPECIFICATION FairSpec
CONSTANTS
  Procs = {p1, p2}
  Windows = {w1}
  Allowances <- MCAllowances
  Amounts <- MCAmounts
  NoRow = NoRow
  NoProc = NoProc
INVARIANTS
  TypeOK
  NoDoubleGrant
  AnswersAreDurable
PROPERTIES
  ImplementsBudget
  CallsEnd
