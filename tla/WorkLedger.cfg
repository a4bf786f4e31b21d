SPECIFICATION FairSpec
CONSTANTS
  Keys <- MCKeys
  Columns = {"a", "b"}
  Windows = {"day", "hour"}
  Registrations <- MCRegistrations
  Registrars = {r1, r2}
  Workers = {w1, w2}
  Batches <- MCBatches
  NoProc = NoProc
  NoData = NoData
\* Every process ends, so the system stops.
CHECK_DEADLOCK FALSE
INVARIANTS
  TablesAgree
  ReportsAreDurable
  OneRegistration
PROPERTIES
  ImplementsLifecycle
  ClaimsSettle
