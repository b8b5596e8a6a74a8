\* Every call returns.
CONSTANTS
  WORD = 8
  USIZE_MAX = 65535
  DEFAULT_GRANULARITY = 512
  DEFAULT_TRIM_THRESHOLD = 600
  DEFAULT_RATE = 1
  Granularities = {}
  Rates = {}
  Requests = {300}
  Alignments = {}
  Pads = {0}
  OSBases = {1024, 2048, 4096}
  OSSurplus = {0}
  OSFlags = {0}
  CanRelease = TRUE
  MaxLive = 3
  MaxCountdown = 2
SPECIFICATION FairSpec
PROPERTIES CallsReturn
