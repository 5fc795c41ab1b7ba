\* gui_shutdown after gui_init: what wm_destroy strands.
CONSTANTS
  NULL = NULL
  Blank = Blank
  Devices = {d1}
  MountObjs = {m1}
  FileObjs = {f1}
  TempObjs = {t1}
  NodeObjs = {n1}
  FormatSizes <- MCFormatSizes
  ReadCounts <- MCReadCounts
  JunkPositions <- MCJunkPositions
  JunkInodes <- MCJunkInodes
  MaxMounts = 1
  FbObjs = {fb1}
  PixelObjs = {px1}
  BackObjs = {bb1}
  WmObjs = {wm1}
  WinArrObjs = {wa1}
  ThemeObjs = {th1}
  WindowObjs = {w1, w2}
  CoreObjs = {c1}
  NetObjs = {net1}
  LayerObjs = {ly1}
  NeuronObjs = {nu1, nu2, nu3}
  KbObjs = {kb1}
  KbArrObjs = {ka1}
  KbNodeObjs = {kn1}
  ShellLines <- MCShellLines
SPECIFICATION Spec
\* A panic or a fault halts the kernel: no step follows it.
INVARIANT HeapReachable
CHECK_DEADLOCK FALSE
