\* Two spaces side by side, and one on the client's memory.
CONSTANTS
  SIZE_T_SIZE = 4
  MAX_SIZE_T = 65535
  FOOTERS = TRUE
  page_size = 256
  granularity = 512
  trim_threshold = 600
  MORECORE_CONTIGUOUS = TRUE
  BREAK = 1000
  Foreign = 100
  MSTATE_SIZE = 100
  Scenarios <- MCScenarios
SPECIFICATION Spec
INVARIANTS SpacesChecked SpacesApart
PROPERTIES NothingLeaks
