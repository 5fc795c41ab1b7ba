\* vmm.c over the real pmm.c: vmm_create zeroes the frame holding the bitmap.
CONSTANTS
  PAGE_SIZE = 4096
  Frames <- MCFrames
  Slots <- MCSlots
  VAs <- MCVAs
  MemMaps <- MCMemMaps
  BootMem <- MCBootMem
  BadAddrs <- MCBadAddrs
  BootPml4 = 1
  IdentityMapped = TRUE
  FlagChoices <- MCFlags
  MaxSpaces = 2
  MaxHeld = 2
  FollowBootOrder = TRUE
INIT Init
NEXT Next
INVARIANT SystemNoDoubleGrant
