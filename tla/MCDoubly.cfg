\* Two threads in ialloc: the second saves the flag that the first has cleared.
CONSTANTS
  SIZE_T_SIZE = 4
  MAX_SIZE_T = 65535
  FOOTERS = FALSE
  page_size = 256
  granularity = 512
  trim_threshold = 600
  MORECORE_CONTIGUOUS = TRUE
  BREAK = 1000
  Foreign = 100
  Threads = {t1, t2}
  Scenarios <- MCDoubly
SPECIFICATION Spec
SYMMETRY ThreadsAlike
INVARIANT AggregateInHeap
