\* Both spin locks with three threads, nested up to three deep, and the threads that
\* race for the initialisation. The nested calls end: the system may stop.
CONSTANTS
  Threads = {t1, t2, t3}
  NoThread = NoThread
  Returning <- MCReturning
  MaxDepth = 3
  Builds <- MCBuilds
  Tuner = t3
  PAGE_SIZE = 4
  DEFAULT_MMAP_THRESHOLD = 64
  DEFAULT_TRIM_THRESHOLD = 128
  MAX_SIZE_T = 1023
  SYS_ALLOC_PADDING = 4
  Seeds = {3}
  Settings <- MCSettings
  Needs = {606}
SPECIFICATION TSpec
INVARIANTS ReadsInitialised OneInMalloc ChildSound
PROPERTIES WholeGranules KeepsPromise NoIdleWait InitEnds
CHECK_DEADLOCK FALSE
