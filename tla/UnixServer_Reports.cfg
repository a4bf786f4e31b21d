SPECIFICATION Spec
CONSTANTS
  Clients = {c1}
  MaxConnections = 1
  Backlog = 1
  NoClient = NoClient
\* A stopped server stays stopped.
CHECK_DEADLOCK FALSE
INVARIANT
  StopReports
