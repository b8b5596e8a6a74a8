\* The system uses the flag that sys_flags shifts onto the bit of EXTERN.
CONSTANTS
  WORD = 4
  USIZE_MAX = 65535
  DEFAULT_GRANULARITY = 512
  DEFAULT_TRIM_THRESHOLD = 600
  DEFAULT_RATE = 2
  Granularities = {}
  Rates = {}
  Requests = {12, 440}
  Alignments = {}
  Pads = {0, 100, 60000}
  OSBases = {1024, 1536, 2048}
  OSSurplus = {0}
  OSFlags = {1, 2}
  CanRelease = TRUE
  MaxLive = 2
  MaxCountdown = 2
SPECIFICATION Spec
INVARIANT ExternApart
