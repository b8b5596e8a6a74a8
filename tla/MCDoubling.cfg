\* An alignment above the highest power of two of size_t.
SPECIFICATION Spec
CONSTANTS
  SIZE_T_SIZE = 4
  MAX_SIZE_T = 255
  HALF_WORD = 15
  page_size = 32
  Factors = {1}
  Alignments = {16, 24, 200}
  Bytes = {10}
  Places <- MCPlaces
PROPERTY EveryCallReturns
