\* Both programs of FIFOS, ticks at every instruction.
SPECIFICATION Spec
CONSTANTS
  MAX_THREADS = 3
  Modes = {1, 2}
  ROUNDS = 2
  Wrap = 3
  TickAt <- Anywhere
INVARIANTS RingOK OwnContext HaltsWhenDone
PROPERTIES LeftForGood
