\* Two threads that allocate, enable and fork, twice in all; a small address space of
\* wasm, whose linker leaves none, some or all of its memory.
CONSTANTS
  Threads = {t1, t2}
  Nobody = nobody
  AtforkFails = FALSE
  MaxForks = 2
  PageUnits = 4
  AddressPages = 6
  InitialPages = 2
  HeapBases = {0, 3, 5}
  HeapEnds = {0, 5, 8}
SPECIFICATION PSpec
INVARIANTS HeapGuarded RegionsApart
PROPERTIES ChildServed
