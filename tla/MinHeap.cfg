\* heap_create(MAX_THREADS), as init_thread_pool calls it; six places, so that
\* both loops can take several turns.
SPECIFICATION FairSpec
CONSTANTS
  Threads <- MCThreads
  PriorityOf <- MCPriorityOf
  MAX_THREADS = 6
  Requested = 6
  NoThread = NoThread
INVARIANTS WithinArray LoopInv
PROPERTIES ImplementsPriorityQueue CallsReturn
