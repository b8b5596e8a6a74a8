\* Over-aligned blocks and requests up to the limit, while the configuration changes.
CONSTANTS
  WORD = 8
  USIZE_MAX = 8191
  DEFAULT_GRANULARITY = 512
  DEFAULT_TRIM_THRESHOLD = 600
  DEFAULT_RATE = 2
  Granularities = {8, 1024}
  Rates = {0, 2}
  Requests = {24, 300, 7500, 7576}
  Alignments = {64}
  Pads = {}
  OSBases = {1544}
  OSSurplus = {0, 64}
  OSFlags = {0}
  CanRelease = TRUE
  MaxLive = 2
  MaxCountdown = 2
SPECIFICATION Spec
INVARIANTS TypeOK HeapOK BlocksOK NoWrap CountdownRuns
PROPERTIES KeepsContract
