SPECIFICATION Spec
CONSTANTS
  Publishers = {p1}
  Contents = {c1}
  Payloads = 1
  NoDir = NoDir
  NoProc = NoProc
\* The publisher ends, so the system stops.
CHECK_DEADLOCK FALSE
INVARIANT
  FailureMakesNoBundle
