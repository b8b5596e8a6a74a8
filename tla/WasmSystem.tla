----------------------------- MODULE WasmSystem -----------------------------
(***************************************************************************)
(* The system allocator of wasm: the memory the linker left between        *)
(* __heap_base and __heap_end, given away once at most, and memory.grow,   *)
(* which other code of the program may call too.  Addresses and sizes are  *)
(* in units of sixteen bytes; the address space is full of pages.          *)
(***************************************************************************)
EXTENDS Integers, FiniteSets

CONSTANTS
  PageUnits, AddressPages,     \* a page, and the address space
  InitialPages,                \* pages of memory the program starts with
  HeapBases, HeapEnds          \* where the linker may put its two symbols

WasmAssumption ==
  /\ PageUnits \in Nat \ {0, 1} /\ AddressPages \in Nat \ {0}
  /\ InitialPages \in 1 .. AddressPages
  /\ HeapBases \cup HeapEnds \subseteq 0 .. InitialPages * PageUnits
  /\ AddressPages * PageUnits \notin HeapEnds     \* the address of __heap_end is a usize

VARIABLES
  heap_base, heap_end,    \* fixed by the linker
  PREEXISTING_USED,
  pages,                  \* of memory, now
  regions                 \* what alloc answered: [asked, base, size]

vars == <<heap_base, heap_end, PREEXISTING_USED, pages, regions>>
linker == <<heap_base, heap_end>>

AddressSpace == AddressPages * PageUnits
div_ceil(a, b) == (a + b - 1) \div b

\* preexisting_chunk_from_linker(size) is Some.
LinkerChunk(size) ==
  /\ heap_base # 0 /\ heap_end > heap_base
  /\ heap_end - heap_base >= size

\* Mutant: nobody remembers that the memory was given.
donated_every_time(size) == LinkerChunk(size)

\* try_donate_preexisting: asking is enough to mark it used.
Donated(size) == ~ PREEXISTING_USED /\ LinkerChunk(size)

\* A region that would end with the address space loses its last bytes.
usable(base, size) == IF base + size = AddressSpace THEN size - 1 ELSE size

Answer(asked, base, size) == regions' = regions \cup {[asked |-> asked, base |-> base, size |-> size]}

-----------------------------------------------------------------------------
AllocPreexisting(size) ==
  /\ Donated(size)
  /\ Answer(size, heap_base, heap_end - heap_base)
  /\ PREEXISTING_USED' = TRUE /\ UNCHANGED <<pages, linker>>

AllocViaGrow(size) ==
  LET more == div_ceil(size, PageUnits)
      base == pages * PageUnits
  IN  /\ ~ Donated(size) /\ pages + more <= AddressPages
      /\ Answer(size, base, usable(base, more * PageUnits))
      /\ pages' = pages + more
      /\ PREEXISTING_USED' = TRUE /\ UNCHANGED linker

\* memory.grow may refuse at any time.
AllocFails(size) ==
  /\ ~ Donated(size)
  /\ PREEXISTING_USED' = TRUE /\ UNCHANGED <<pages, regions, linker>>

OthersGrow ==
  /\ pages < AddressPages /\ pages' = pages + 1
  /\ UNCHANGED <<PREEXISTING_USED, regions, linker>>

-----------------------------------------------------------------------------
Init ==
  /\ heap_base \in HeapBases /\ heap_end \in HeapEnds
  /\ PREEXISTING_USED = FALSE /\ pages = InitialPages /\ regions = {}

Alloc(size) == AllocPreexisting(size) \/ AllocViaGrow(size) \/ AllocFails(size)
Next == (\E size \in 1 .. AddressSpace : Alloc(size)) \/ OthersGrow
Spec == Init /\ [][Next]_vars

-----------------------------------------------------------------------------
(* Properties *)

\* No two answers share a unit of memory: the linker's memory is given away
\* once, whatever fails before or after (wasm.rs l. 39-48). None reaches the end of
\* the address space, where a pointer past its end would be null (l. 62-71).
RegionsApart ==
  /\ \A r, q \in regions :
       r # q => r.base + r.size <= q.base \/ q.base + q.size <= r.base
  /\ \A r \in regions :
       /\ r.size > 0 /\ r.base + r.size <= pages * PageUnits
       /\ r.base + r.size < AddressSpace
=============================================================================
