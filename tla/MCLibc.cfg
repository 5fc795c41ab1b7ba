\* libc: string.c, stdlib.c, stdio.c, time.c and ctype.c against reference definitions, and the GUI's line drawing over jarvis_gui.c's abs.
CONSTANTS
  CmpBytes <- MCCmpBytes
  CopyBytes <- MCCopyBytes
  TokBytes <- MCTokBytes
  Delims <- MCDelims
  TrimBytes <- MCTrimBytes
  SortVals <- MCSortVals
  IntVals <- MCIntVals
  Bases <- MCBases
  Seeds <- MCSeeds
  MaxLen = 3
  MaxCap = 4
  MaxRand = 3
  Formats <- MCFormats
  FmtInts <- MCFmtInts
  FmtUints <- MCFmtUints
  FmtStrs <- MCFmtStrs
  FmtPtrs <- MCFmtPtrs
  NullPtr = NullPtr
  MaxFmt = 12
  Times <- MCTimes
  LineCoords <- MCLineCoords
  FbWidth = 3
  FbHeight = 2
SPECIFICATION Spec
INVARIANT CompareOrder
INVARIANT SearchFindsFirst
INVARIANT BoundedCopies
INVARIANT MemmoveCopies
INVARIANT StrtokSplits
INVARIANT TrimTrims
INVARIANT QsortSorts
INVARIANT BsearchFinds
INVARIANT ItoaRoundTrip
INVARIANT SnprintfBounded
INVARIANT GmtimeCivil
INVARIANT AsctimeBounded
INVARIANT DrawLineTraces
