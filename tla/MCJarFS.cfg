\* jarfs_read after jarfs_open: the position jarfs_open never sets.
CONSTANTS
  NULL = NULL
  Blank = Blank
  Devices = {d1}
  MountObjs = {m1, m2}
  FileObjs = {f1, f2}
  TempObjs = {t1}
  NodeObjs = {n1}
  FormatSizes <- MCFormatSizes
  ReadCounts <- MCReadCounts
  JunkPositions <- MCJunkPositions
  JunkInodes <- MCJunkInodes
  MaxMounts = 2
SPECIFICATION Spec
INVARIANT ReadStaysInBlock
\* A panic or a fault halts the kernel: no step follows it.
CHECK_DEADLOCK FALSE
