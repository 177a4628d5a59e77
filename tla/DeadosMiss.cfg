\* Deadlines that can be met.
SPECIFICATION Spec
CONSTANTS
  MAX_THREADS = 3
  Workloads <- Feasible
  LINE = 4
  ROUNDS = 3
  Wrap = 5
PROPERTIES NoMiss
