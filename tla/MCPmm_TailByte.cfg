CONSTANTS
  PAGE_SIZE = 4096
  Frames <- MCFrames
  Slots <- MCSlots
  MemMaps <- MCTailMaps
  BootMem <- MCBootMem
  BadAddrs <- MCBadAddrs
INIT PmmInitState
NEXT PmmNext
INVARIANT GrantedFramesUsable
