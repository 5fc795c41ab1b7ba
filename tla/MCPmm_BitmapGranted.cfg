CONSTANTS
  PAGE_SIZE = 4096
  Frames <- MCFrames
  Slots <- MCSlots
  MemMaps <- MCPassMaps
  BootMem <- MCBootMem
  BadAddrs <- MCBadAddrs
INIT PmmInitState
NEXT PmmNext
INVARIANT BitmapNeverGranted
