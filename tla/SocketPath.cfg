SPECIFICATION Spec
CONSTANTS
  Servers = {a, b, c}
  MaxSockets = 3
  Inodes = {i1, i2, i3, i4, i5}
  Nothing = Nothing
  File = File
  NoInode = NoInode
SYMMETRY Symmetric
\* The sockets are used up.
CHECK_DEADLOCK FALSE
INVARIANTS
  UpIsReachable
  AloneNeverFails
PROPERTY
  EstablishedKept
