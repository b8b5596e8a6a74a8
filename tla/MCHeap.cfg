\* The scenarios of MCDlmallocC: the break, mappings, failing calls, a limit, chunks
\* mapped directly, mremap with and without a limit, the independent_ functions, and
\* two threads.
CONSTANTS
  SIZE_T_SIZE = 4
  MAX_SIZE_T = 65535
  FOOTERS = FALSE
  page_size = 256
  granularity = 512
  trim_threshold = 600
  MORECORE_CONTIGUOUS = TRUE
  BREAK = 1000
  Foreign = 100
  Threads = {t1, t2}
  Scenarios <- MCScenarios
SPECIFICATION Spec
SYMMETRY ThreadsAlike
INVARIANTS HeapChecked SystemSound InUseAccounted LiveServed StatsAgree
PROPERTIES LimitKept TrimKeepsPad KeepsContract
