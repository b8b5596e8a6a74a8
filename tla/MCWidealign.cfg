\* A granularity and an alignment of half the address space.
CONSTANTS
  WORD = 8
  USIZE_MAX = 1023
  DEFAULT_GRANULARITY = 512
  DEFAULT_TRIM_THRESHOLD = 600
  DEFAULT_RATE = 2
  Granularities = {}
  Rates = {}
  Requests = {700}
  Alignments = {512}
  Pads = {}
  OSBases = {256}
  OSSurplus = {0}
  OSFlags = {0}
  CanRelease = TRUE
  MaxLive = 2
  MaxCountdown = 2
SPECIFICATION Spec
INVARIANT NoWrap
