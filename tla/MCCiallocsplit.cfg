\* Two threads: the chunk before the aggregate is freed before the aggregate is split.
CONSTANTS
  SIZE_T_SIZE = 4
  MAX_SIZE_T = 65535
  FOOTERS = FALSE
  page_size = 256
  granularity = 512
  trim_threshold = 600
  MORECORE_CONTIGUOUS = TRUE
  BREAK = 1000
  Foreign = 100
  Threads = {t1, t2}
  Scenarios <- MCSplitting
SPECIFICATION Spec
SYMMETRY ThreadsAlike
INVARIANTS HeapChecked
