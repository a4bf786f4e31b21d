SPECIFICATION FairServiceSpec
CONSTANTS
  Clients = {c1, c2}
  MaxConnections = 1
  Backlog = 1
  NoClient = NoClient
\* The service has returned.
CHECK_DEADLOCK FALSE
INVARIANTS
  SlotsAccounted
  TrueMeansDrained
  ReportIsTrue
  NothingLeft
PROPERTIES
  ConnectionsEnd
  ServiceEnds
