\* Every table of parameters; functions that yield; interrupts that find the
\* flag set.
SPECIFICATION Spec
CONSTANTS
  MAX_THREADS = 4
  Tables <- AllTables
  FuncYields = TRUE
  TimerUnmasked = TRUE
INVARIANTS NoDoubleQueue OwnStack NoReturnToExit
PROPERTIES LostForever SchedulersAgree
