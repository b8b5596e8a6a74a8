\* A sub-page granularity: a segment's only chunk may be a small one.
CONSTANTS
  WORD = 8
  USIZE_MAX = 65535
  DEFAULT_GRANULARITY = 32
  DEFAULT_TRIM_THRESHOLD = 600
  DEFAULT_RATE = 2
  Granularities = {}
  Rates = {}
  Requests = {24, 60}
  Alignments = {}
  Pads = {0}
  OSBases = {1024, 2048}
  OSSurplus = {0}
  OSFlags = {0}
  CanRelease = TRUE
  MaxLive = 2
  MaxCountdown = 2
SPECIFICATION Spec
INVARIANTS NoCorruption
