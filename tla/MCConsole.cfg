\* The console on a 10 x 2 screen, every call possible before console_init.
CONSTANTS
  NullPtr = NullPtr
  StrayByte = 0
  VGA_WIDTH = 10
  VGA_HEIGHT = 2
  U32_BITS = 16
  BootCell <- MCBootCell
  Chars <- MCChars
  Colors <- MCColors
  Positions <- MCPositions
  Formats <- MCFormats
  MaxCalls = 5
SPECIFICATION Spec
INVARIANT VgaWritesInBounds
PROPERTY PrintfShowsText
