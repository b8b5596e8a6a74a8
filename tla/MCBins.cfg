\* Six small chunks, eight large ones, maps of ten bins, and all pairs of 236 sizes, whose
\* walks end: the system may stop.
CONSTANTS
  SIZE_T_BITS = 30
  UINT_BITS = 22
  NTREEBINS = 32
  TREEBIN_SHIFT = 8
  NBINS = 10
  ChunkSize <- MCSmallSizes
  Requests = {24, 32, 40, 48, 64}
  TreeChunks <- MCTreeChunks
  LargeRequests = {256, 272, 296, 352, 384, 408}
  SmallRequests = {24}
  LargeSizes <- MCLargeSizes
SPECIFICATION MCSpec
INVARIANTS BinsOK LeastBinFound WaysPart
PROPERTIES MostRecentFit LeastRecentFit
CHECK_DEADLOCK FALSE
