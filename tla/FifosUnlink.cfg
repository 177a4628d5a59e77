\* A tick in the middle of thread_ids++: who leaves the run queue.
SPECIFICATION Spec
CONSTANTS
  MAX_THREADS = 2
  Modes = {2}
  ROUNDS = 3
  Wrap = 4
  TickAt <- Numbering
INVARIANTS UnlinkedFinished
