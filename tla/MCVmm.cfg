\* vmm.c on an ideal allocator, callers following the boot order.
CONSTANTS
  PAGE_SIZE = 4096
  Frames <- MCFrames
  Slots <- MCSlots
  VAs <- MCVAs
  PfaAlloc <- IdealAlloc
  PfaFree <- IdealFree
  InitPfa <- MCInitPfa
  BootMem <- MCBootMem
  BootPml4 = 1
  IdentityMapped = TRUE
  FlagChoices <- MCFlags
  MaxSpaces = 2
  MaxHeld = 2
  FollowBootOrder = TRUE
INIT VmmInitState
NEXT VmmNext
INVARIANTS
  VmmTypeOK
  MappingCorrect
  HigherHalfShared
  TlbFresh
  LowerHalfIsolated
