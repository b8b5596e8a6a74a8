\* The recursive lock, with one thread that comes back for it.
CONSTANTS
  Threads = {t1, t2}
  NoThread = NoThread
  Returning <- MCComingBack
  MaxDepth = 1
SPECIFICATION Spec
INVARIANTS MutualExclusion
CHECK_DEADLOCK FALSE
