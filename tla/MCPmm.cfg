\* Frame allocator on Limine-shaped maps whose size is a multiple of 8 frames.
CONSTANTS
  PAGE_SIZE = 4096
  Frames <- MCFrames
  Slots <- MCSlots
  MemMaps <- MCPassMaps
  BootMem <- MCBootMem
  BadAddrs <- MCBadAddrs
INIT PmmInitState
NEXT PmmNext
INVARIANTS
  NoDoubleGrant
  GrantedFramesUsable
  NoFrameLost
