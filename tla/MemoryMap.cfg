\* Words of 12 bits, megabytes of 256 bytes, a screen of 4 by 2.
SPECIFICATION FairSpec
CONSTANTS
  VGA_WIDTH = 4
  VGA_HEIGHT = 2
  WORD = 4096
  MB = 256
  HEXDIGITS = 3
  Starts <- Starting
INVARIANTS TablesFaithful PutIntReadsBack MegabytesExact RangesFaithful
PROPERTIES Ends
