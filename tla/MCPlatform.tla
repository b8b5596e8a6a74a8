----------------------------- MODULE MCPlatform -----------------------------
(***************************************************************************)
(* What the platform gives the crate: the global lock with fork(2), and    *)
(* the memory of wasm.  `part` says which of the two moves; the other one  *)
(* stays as it begins.                                                     *)
(***************************************************************************)
EXTENDS GlobalLock

CONSTANTS PageUnits, AddressPages, InitialPages, HeapBases, HeapEnds

VARIABLES part, heap_base, heap_end, PREEXISTING_USED, pages, regions

wasm == <<heap_base, heap_end, PREEXISTING_USED, pages, regions>>

Wasm == INSTANCE WasmSystem

ASSUME PlatformAssumption == Wasm!WasmAssumption

-----------------------------------------------------------------------------
PInit ==
  /\ Init /\ Wasm!Init /\ part \in {"lock", "wasm"}
  /\ part = "lock" => heap_base = 0 /\ heap_end = 0

Lock(A) == part = "lock" /\ A /\ UNCHANGED <<part, wasm>>
WasmMoves == part = "wasm" /\ Wasm!Next /\ UNCHANGED <<part, vars>>

PNext == Lock(Next) \/ WasmMoves

\* The fairness of GlobalLock's FairSpec.
PSpec ==
  /\ PInit /\ [][PNext]_<<part, vars, wasm>>
  /\ WF_<<part, vars, wasm>>(Lock(ChildHandlers)) /\ WF_<<part, vars, wasm>>(Lock(ChildCall))
  /\ \A t \in Threads : SF_<<part, vars, wasm>>(Lock(Step(t)))

-----------------------------------------------------------------------------
\* What wasm's alloc answers is memory of its own, and none of it twice.
RegionsApart == Wasm!RegionsApart
=============================================================================
