\* kmain's workload with ticks in halts and in kmain's last instructions,
\* and two others with ticks anywhere.
SPECIFICATION FairSpec
CONSTANTS
  MAX_THREADS = 3
  Workloads <- Several
  LINE = 3
  ROUNDS = 3
  Wrap = 4
INVARIANTS IInv Conserved WithinJob ReleasedOnTime NodesPerPeriod
PROPERTIES EarliestFirst KmainsExit
