SPECIFICATION LockSpec
CONSTANTS
  Procs = {p1, p2, p3}
  Inodes = {i1, i2, i3, i4}
  NoFile = NoFile
  NoProc = NoProc
  MaxAppends = 1
  MaxBackups = 1
SYMMETRY Symmetry
INVARIANTS OwnerOwnsThePath AckedStay
CHECK_DEADLOCK FALSE
