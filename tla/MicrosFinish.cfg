\* The program as built: kmain's table, thread_func.
SPECIFICATION FairSpec
CONSTANTS
  MAX_THREADS = 4
  Tables <- KmainTables
  FuncYields = FALSE
  TimerUnmasked = FALSE
PROPERTIES AllThreadsFinish
