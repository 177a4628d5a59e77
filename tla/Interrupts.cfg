\* Two threads that print a character each, in rows of three columns, and
\* one character that the scheduler of DEADOS prints.
SPECIFICATION FairSpec
CONSTANTS
  Printer = {t1, t2}
  Kmain = Kmain
  COLS = 3
  TAB = 2
  LENGTH = 1
  REPORTS = 1
  Wirings <- Machines
INVARIANTS AllAcknowledged  CursorSettles
PROPERTIES SlaveShutOut TimerGoesOn
