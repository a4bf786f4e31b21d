SPECIFICATION Spec
CONSTANTS
  Publishers = {p1, p2, p3}
  Contents = {c1, c2}
  Payloads = 1
  NoDir = NoDir
  NoProc = NoProc
SYMMETRY Symmetric
\* Every publisher ends, so the system stops.
CHECK_DEADLOCK FALSE
INVARIANTS
  BundleIsWhole
  PublishedIsDurable
  NothingLeft
PROPERTY
  NeverAltered
