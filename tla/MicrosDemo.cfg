\* Tables like kmain's, an int of sixteen numbers.
SPECIFICATION DemoSpec
CONSTANTS
  MAX_THREADS = 4
  Tables <- Ascending
  FuncYields = FALSE
  TimerUnmasked = FALSE
  Wrap = 16
PROPERTIES FirstJobsRun
