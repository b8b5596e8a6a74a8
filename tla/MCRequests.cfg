\* All pairs of factors of eight bits; alignments that are a power of two up to the
\* highest, two that are none and one above the highest; sizes below the last page of
\* size_t.
SPECIFICATION Spec
CONSTANTS
  SIZE_T_SIZE = 4
  MAX_SIZE_T = 255
  HALF_WORD = 15
  page_size = 32
  Factors <- AllSizes
  Alignments = {0, 4, 8, 16, 24, 32, 64, 100, 128, 200}
  Bytes <- Small
  Places <- MCPlaces
INVARIANTS Served RoomForBlock
PROPERTIES CallReturns
