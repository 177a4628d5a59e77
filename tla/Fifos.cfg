\* Both programs of FIFOS, three threads of three rounds, ticks at all but the
\* critical instructions.
SPECIFICATION FairSpec
CONSTANTS
  MAX_THREADS = 3
  Modes = {1, 2}
  ROUNDS = 3
  Wrap = 4
  TickAt <- Calm
INVARIANTS DoneIsDone
PROPERTIES InStep ImplementsRoundRobin AllFinish
