--------------------------- MODULE PlatformProofs ---------------------------
(***************************************************************************)
(* What the platform gives the crate, for any number of threads and forks  *)
(* and for any memory of wasm: the lock of the global allocator protects   *)
(* it, through forks too, and wasm's regions are apart.                    *)
(***************************************************************************)
EXTENDS MCPlatform, TLAPS

-----------------------------------------------------------------------------
(* The global lock *)

Places == {"out", "in", "enabling", "enabled", "preparing", "after"}

\* Where a thread has the lock: in the guard, in enable_alloc_after_fork, and
\* between the prepare handlers of a fork and those that undo them.
Holds(t) ==
  \/ pc[t] \in {"in", "enabling", "enabled"}
  \/ pc[t] = "preparing" /\ left[t] < atfork
  \/ pc[t] = "after" /\ left[t] > 0

\* The handlers are installed once, before any fork.
Installed ==
  /\ FORK_PROTECTED \in BOOLEAN /\ enabled \in BOOLEAN /\ atfork \in {0, 1}
  /\ FORK_PROTECTED => AtforkFails \/ atfork = 1
  /\ atfork = 1 => FORK_PROTECTED
  /\ enabled => FORK_PROTECTED

\* What is so of one thread.
Placed(t) ==
  /\ pc[t] = "enabled" => FORK_PROTECTED
  /\ pc[t] \in {"preparing", "after"} => FORK_PROTECTED /\ left[t] <= atfork
  /\ LOCK = t <=> Holds(t)

LockInv ==
  /\ Installed
  /\ pc \in [Threads -> Places] /\ left \in [Threads -> {0, 1}]
  /\ LOCK \in Threads \cup {Nobody}
  /\ \A t \in Threads : Placed(t)

\* Nobody is in the allocator and nobody forks when all begins.
LEMMA LockInitially == Init => LockInv
<1> SUFFICES ASSUME Init PROVE LockInv
  OBVIOUS
<1>1. Installed /\ LOCK \in Threads \cup {Nobody}
  <2>1. FORK_PROTECTED = FALSE /\ enabled = FALSE /\ atfork = 0 /\ LOCK = Nobody
    BY DEF Init
  <2>2. FORK_PROTECTED \in BOOLEAN /\ enabled \in BOOLEAN
    BY <2>1
  <2>3. ~ FORK_PROTECTED /\ ~ enabled /\ atfork # 1
    BY <2>1
  <2> QED
    BY <2>1, <2>2, <2>3 DEF Installed
<1>2. pc \in [Threads -> Places] /\ left \in [Threads -> {0, 1}]
  BY DEF Init, Places
<1>3. ASSUME NEW t \in Threads PROVE Placed(t)
  BY GlobalAssumption DEF Init, Placed, Holds
<1> QED
  BY <1>1, <1>2, <1>3 DEF LockInv

\* A thread that moves to a place leaves the others where they are.
LEMMA Moved ==
  ASSUME NEW t \in Threads, NEW l \in Places, LockInv, Goto(t, l)
  PROVE  /\ pc' \in [Threads -> Places] /\ pc'[t] = l
         /\ \A u \in Threads : u # t => pc'[u] = pc[u]
BY DEF LockInv, Goto

\* A thread that has run handlers, or begins to, leaves the others' alone.
LEMMA Counted ==
  ASSUME NEW t \in Threads, NEW k \in {0, 1}, LockInv, left' = [left EXCEPT ![t] = k]
  PROVE  /\ left' \in [Threads -> {0, 1}] /\ left'[t] = k
         /\ \A u \in Threads : u # t => left'[u] = left[u]
BY DEF LockInv

\* Entering the allocator, or enable_alloc_after_fork, waits for the lock.
LEMMA EnterKeeps == ASSUME LockInv, NEW t \in Threads, Enter(t) \/ EnableEnter(t) PROVE LockInv'
<1>1. /\ LOCK = Nobody /\ LOCK' = t /\ pc[t] = "out"
      /\ UNCHANGED <<FORK_PROTECTED, atfork, enabled, left>>
  BY DEF Enter, EnableEnter, acquire_global_lock
<1>2. PICK l \in {"in", "enabling"} : Goto(t, l)
  BY DEF Enter, EnableEnter
<1>3. /\ pc' \in [Threads -> Places] /\ pc'[t] \in {"in", "enabling"}
      /\ \A u \in Threads : u # t => pc'[u] = pc[u]
  BY <1>2, Moved DEF Places
<1>4. ASSUME NEW u \in Threads PROVE Placed(u)'
  <2>1. CASE u = t
    BY <1>1, <1>3, <2>1 DEF Placed, Holds
  <2>2. CASE u # t
    BY <1>1, <1>3, <2>2, GlobalAssumption DEF Placed, Holds, LockInv
  <2> QED
    BY <2>1, <2>2
<1> QED
  BY <1>1, <1>3, <1>4 DEF LockInv, Installed

\* Dropping the guard gives the lock back.
LEMMA DropKeeps == ASSUME LockInv, NEW t \in Threads, DropGuard(t) \/ EnableReturn(t) PROVE LockInv'
<1>1. /\ LOCK' = Nobody /\ pc[t] \in {"in", "enabled"} /\ Goto(t, "out")
      /\ UNCHANGED <<FORK_PROTECTED, atfork, left>>
      /\ (enabled' = enabled \/ (pc[t] = "enabled" /\ enabled' = TRUE))
  BY DEF DropGuard, EnableReturn, release_global_lock
<1>2. /\ pc' \in [Threads -> Places] /\ pc'[t] = "out"
      /\ \A u \in Threads : u # t => pc'[u] = pc[u]
  BY <1>1, Moved DEF Places
<1>3. LOCK = t /\ (pc[t] = "enabled" => FORK_PROTECTED)
  BY <1>1 DEF LockInv, Placed, Holds
<1>4. ASSUME NEW u \in Threads PROVE Placed(u)'
  <2>1. CASE u = t
    BY <1>1, <1>2, <2>1, GlobalAssumption DEF Placed, Holds
  <2>2. CASE u # t
    BY <1>1, <1>2, <1>3, <2>2, GlobalAssumption DEF Placed, Holds, LockInv
  <2> QED
    BY <2>1, <2>2
<1>5. Installed'
  <2>1. Installed /\ (enabled' = enabled \/ (enabled' = TRUE /\ FORK_PROTECTED))
    BY <1>1, <1>3 DEF LockInv
  <2>2. enabled' \in BOOLEAN
    BY <2>1 DEF Installed
  <2>3. enabled' => FORK_PROTECTED
    BY <2>1 DEF Installed
  <2> QED
    BY <1>1, <2>1, <2>2, <2>3 DEF Installed
<1> QED
  BY <1>1, <1>2, <1>4, <1>5 DEF LockInv

\* Installing the handlers disturbs no fork, because none has begun.
LEMMA RegisterKeeps == ASSUME LockInv, NEW t \in Threads, EnableRegister(t) PROVE LockInv'
<1>1. pc[t] = "enabling" /\ Goto(t, "enabled") /\ UNCHANGED <<LOCK, enabled, left>>
  BY DEF EnableRegister
<1>2. /\ pc' \in [Threads -> Places] /\ pc'[t] = "enabled"
      /\ \A u \in Threads : u # t => pc'[u] = pc[u]
  BY <1>1, Moved DEF Places
<1>3. /\ FORK_PROTECTED' = TRUE /\ Installed'
      /\ FORK_PROTECTED => atfork' = atfork
  <2>1. CASE FORK_PROTECTED
    <3>1. UNCHANGED <<FORK_PROTECTED, atfork>>
      BY <2>1 DEF EnableRegister, Unprotected
    <3> QED
      BY <1>1, <2>1, <3>1 DEF LockInv, Installed
  <2>2. CASE ~ FORK_PROTECTED
    <3>1. FORK_PROTECTED' = TRUE /\ (atfork' = atfork + 1 \/ (AtforkFails /\ atfork' = atfork))
      BY <2>2 DEF EnableRegister, Unprotected
    <3>2. atfork = 0
      BY <2>2 DEF LockInv, Installed
    <3> QED
      BY <1>1, <2>2, <3>1, <3>2 DEF LockInv, Installed
  <2> QED
    BY <2>1, <2>2
<1>4. ASSUME NEW u \in Threads PROVE Placed(u)'
  <2>1. CASE u = t
    BY <1>1, <1>2, <1>3, <2>1 DEF Placed, Holds, LockInv
  <2>2. CASE u # t /\ pc[u] \in {"preparing", "after"}
    BY <1>1, <1>2, <1>3, <2>2 DEF Placed, Holds, LockInv
  <2>3. CASE u # t /\ pc[u] \notin {"preparing", "after"}
    BY <1>1, <1>2, <1>3, <2>3 DEF Placed, Holds, LockInv
  <2> QED
    BY <2>1, <2>2, <2>3
<1> QED
  BY <1>1, <1>2, <1>3, <1>4 DEF LockInv

\* A fork takes the lock in its prepare handlers, and gives it back after.
LEMMA ForkKeeps ==
  ASSUME LockInv, NEW t \in Threads,
         ForkBegin(t) \/ ForkPrepare(t) \/ Fork(t) \/ ForkParent(t)
  PROVE  LockInv'
<1>1. UNCHANGED <<FORK_PROTECTED, atfork, enabled>> /\ Installed' /\ Installed
  BY DEF ForkBegin, ForkPrepare, Fork, ForkParent, LockInv, Installed
<1>2. atfork \in {0, 1} /\ left[t] \in {0, 1} /\ Placed(t) /\ t # Nobody
  BY GlobalAssumption DEF LockInv, Installed
<1>3. CASE ForkBegin(t)
  <2>1. /\ pc[t] = "out" /\ enabled /\ Goto(t, "preparing") /\ LOCK' = LOCK
        /\ left' = [left EXCEPT ![t] = atfork]
    BY <1>3 DEF ForkBegin
  <2>2. /\ pc' \in [Threads -> Places] /\ pc'[t] = "preparing"
        /\ \A u \in Threads : u # t => pc'[u] = pc[u]
    BY <2>1, Moved DEF Places
  <2>3. /\ left' \in [Threads -> {0, 1}] /\ left'[t] = atfork
        /\ \A u \in Threads : u # t => left'[u] = left[u]
    BY <1>2, <2>1, Counted
  <2>4. ASSUME NEW u \in Threads PROVE Placed(u)'
    <3>1. CASE u = t
      BY <1>1, <1>2, <2>1, <2>2, <2>3, <3>1 DEF Placed, Holds, Installed
    <3>2. CASE u # t
      BY <1>1, <2>1, <2>2, <2>3, <3>2 DEF Placed, Holds, LockInv
    <3> QED
      BY <3>1, <3>2
  <2> QED
    BY <1>1, <2>1, <2>2, <2>3, <2>4 DEF LockInv
<1>4. CASE ForkPrepare(t)
  <2>1. /\ pc[t] = "preparing" /\ left[t] > 0 /\ LOCK = Nobody /\ LOCK' = t /\ pc' = pc
        /\ left' = [left EXCEPT ![t] = left[t] - 1]
    BY <1>4 DEF ForkPrepare, acquire_global_lock
  <2>2. left[t] = 1 /\ atfork = 1 /\ FORK_PROTECTED /\ left' = [left EXCEPT ![t] = 0]
    <3>1. FORK_PROTECTED /\ left[t] <= atfork
      BY <1>2, <2>1 DEF Placed
    <3>2. left[t] = 1 /\ atfork = 1 /\ left[t] - 1 = 0
      BY <1>2, <2>1, <3>1
    <3> QED
      BY <2>1, <3>1, <3>2
  <2>3. /\ left' \in [Threads -> {0, 1}] /\ left'[t] = 0
        /\ \A u \in Threads : u # t => left'[u] = left[u]
    BY <2>2, Counted
  <2>4. ASSUME NEW u \in Threads PROVE Placed(u)'
    <3>1. CASE u = t
      BY <1>1, <2>1, <2>2, <2>3, <3>1 DEF Placed, Holds
    <3>2. CASE u # t
      BY <1>1, <2>1, <2>3, <3>2, GlobalAssumption DEF Placed, Holds, LockInv
    <3> QED
      BY <3>1, <3>2
  <2> QED
    BY <1>1, <2>1, <2>3, <2>4 DEF LockInv
<1>5. CASE Fork(t)
  <2>1. /\ pc[t] = "preparing" /\ left[t] = 0 /\ Goto(t, "after") /\ LOCK' = LOCK
        /\ left' = [left EXCEPT ![t] = atfork]
    BY <1>5 DEF Fork
  <2>2. /\ pc' \in [Threads -> Places] /\ pc'[t] = "after"
        /\ \A u \in Threads : u # t => pc'[u] = pc[u]
    BY <2>1, Moved DEF Places
  <2>3. /\ left' \in [Threads -> {0, 1}] /\ left'[t] = atfork
        /\ \A u \in Threads : u # t => left'[u] = left[u]
    BY <1>2, <2>1, Counted
  <2>4. ASSUME NEW u \in Threads PROVE Placed(u)'
    <3>1. CASE u = t
      BY <1>1, <1>2, <2>1, <2>2, <2>3, <3>1 DEF Placed, Holds
    <3>2. CASE u # t
      BY <1>1, <2>1, <2>2, <2>3, <3>2 DEF Placed, Holds, LockInv
    <3> QED
      BY <3>1, <3>2
  <2> QED
    BY <1>1, <2>1, <2>2, <2>3, <2>4 DEF LockInv
<1>6. CASE ForkParent(t) /\ left[t] > 0
  <2>1. /\ pc[t] = "after" /\ LOCK' = Nobody /\ pc' = pc
        /\ left' = [left EXCEPT ![t] = left[t] - 1]
    BY <1>6 DEF ForkParent, release_global_lock
  <2>2. LOCK = t /\ FORK_PROTECTED /\ left' = [left EXCEPT ![t] = 0]
    <3>1. LOCK = t /\ FORK_PROTECTED
      BY <1>2, <1>6, <2>1 DEF Placed, Holds
    <3>2. left[t] - 1 = 0
      BY <1>2, <1>6
    <3> QED
      BY <2>1, <3>1, <3>2
  <2>3. /\ left' \in [Threads -> {0, 1}] /\ left'[t] = 0
        /\ \A u \in Threads : u # t => left'[u] = left[u]
    BY <2>2, Counted
  <2>4. ASSUME NEW u \in Threads PROVE Placed(u)'
    <3>1. CASE u = t
      BY <1>1, <1>2, <2>1, <2>2, <2>3, <3>1, GlobalAssumption DEF Placed, Holds
    <3>2. CASE u # t
      BY <1>1, <2>1, <2>2, <2>3, <3>2, GlobalAssumption DEF Placed, Holds, LockInv
    <3> QED
      BY <3>1, <3>2
  <2> QED
    BY <1>1, <2>1, <2>3, <2>4 DEF LockInv
<1>7. CASE ForkParent(t) /\ ~ (left[t] > 0)
  <2>1. pc[t] = "after" /\ Goto(t, "out") /\ UNCHANGED <<LOCK, left>>
    BY <1>7 DEF ForkParent
  <2>2. /\ pc' \in [Threads -> Places] /\ pc'[t] = "out"
        /\ \A u \in Threads : u # t => pc'[u] = pc[u]
    BY <2>1, Moved DEF Places
  <2>3. ASSUME NEW u \in Threads PROVE Placed(u)'
    <3>1. CASE u = t
      BY <1>1, <1>2, <1>7, <2>1, <2>2, <3>1 DEF Placed, Holds
    <3>2. CASE u # t
      BY <1>1, <2>1, <2>2, <3>2 DEF Placed, Holds, LockInv
    <3> QED
      BY <3>1, <3>2
  <2> QED
    BY <1>1, <2>1, <2>2, <2>3 DEF LockInv
<1> QED
  BY <1>3, <1>4, <1>5, <1>6, <1>7

\* A step of a child leaves the parent alone.
LEMMA LockUntouched == LockInv /\ UNCHANGED parent => LockInv'
BY DEF parent, LockInv, Installed, Placed, Holds

\* Every step of a thread or of a child keeps the lock to one thread.
LEMMA LockStep == LockInv /\ [Next]_vars => LockInv'
<1> SUFFICES ASSUME LockInv, [Next]_vars PROVE LockInv'
  OBVIOUS
<1>1. ASSUME NEW t \in Threads, Enter(t) \/ EnableEnter(t) \/ ForkBegin(t) \/ Step(t)
      PROVE  LockInv'
  BY <1>1, EnterKeeps, DropKeeps, RegisterKeeps, ForkKeeps DEF Step
<1>2. CASE ChildHandlers \/ ChildCall
  BY <1>2, LockUntouched DEF ChildHandlers, ChildCall
<1>3. CASE UNCHANGED vars
  BY <1>3, LockUntouched DEF vars, parent
<1> QED
  BY <1>1, <1>2, <1>3 DEF Next

\* A child of fork, none of whose parent's threads was in the allocator.
ChildWhole == "torn" \in DOMAIN child /\ child.torn = FALSE

\* The child of a fork is made while the forking thread has the lock, unless the
\* handlers could not be installed.
LEMMA ChildStep ==
  ASSUME ~ AtforkFails, LockInv, ChildWhole, [Next]_vars
  PROVE  ChildWhole'
<1>1. ASSUME NEW t \in Threads, Fork(t) PROVE ChildWhole'
  <2>1. pc[t] = "preparing" /\ left[t] = 0
    BY <1>1 DEF Fork
  <2>2. Placed(t) /\ Installed
    BY DEF LockInv
  <2>3. LOCK = t
    BY <2>1, <2>2 DEF Placed, Holds, Installed
  <2>4. \A u \in Threads : pc[u] # "in"
    BY <2>1, <2>3 DEF LockInv, Placed, Holds
  <2>5. child' = [pc |-> "after", LOCK |-> LOCK, left |-> atfork,
                  torn |-> \E u \in Threads : pc[u] = "in"]
    BY <1>1 DEF Fork
  <2>6. child' = [pc |-> "after", LOCK |-> t, left |-> atfork, torn |-> FALSE]
    BY <2>3, <2>4, <2>5
  <2> QED
    BY <2>6 DEF ChildWhole
<1>2. CASE UNCHANGED child
  BY <1>2 DEF ChildWhole
<1>3. ASSUME NEW t \in Threads, Enter(t) \/ EnableEnter(t) \/ ForkBegin(t) \/ Step(t), ~ Fork(t)
      PROVE  UNCHANGED child
  BY <1>3 DEF Step, Enter, EnableEnter, ForkBegin, DropGuard, EnableRegister,
              EnableReturn, ForkPrepare, ForkParent, born
<1>4. CASE ChildHandlers
  <2>1. \/ child' = [child EXCEPT !.LOCK = Nobody, !.left = @ - 1]
        \/ child' = [child EXCEPT !.pc = "calls"]
    BY <1>4 DEF ChildHandlers, child_lock_released
  <2> QED
    BY <2>1 DEF ChildWhole
<1>5. CASE ChildCall
  <2>1. child' = [child EXCEPT !.pc = "served"]
    BY <1>5 DEF ChildCall
  <2> QED
    BY <2>1 DEF ChildWhole
<1>6. CASE UNCHANGED vars
  BY <1>2, <1>6 DEF vars, born
<1> QED
  BY <1>1, <1>2, <1>3, <1>4, <1>5, <1>6 DEF Next

\* The steps of the platform are steps of its two parts.
LEMMA PlatformParts ==
  ASSUME [PNext]_<<part, vars, wasm>>
  PROVE  [Next]_vars /\ [Wasm!Next]_wasm
BY DEF PNext, Lock, WasmMoves

\* Whoever is in the allocator, or enables forks, has the lock; no child finds the
\* heap in the middle of a call; no fork waits for itself. pthread_atfork must
\* have found memory: enable_alloc_after_fork (unix.rs) does not look at its answer,
\* and a fork without its handlers may copy a heap in the middle of a call.
THEOREM LockGuardsHeap == ASSUME ~ AtforkFails PROVE PSpec => []HeapGuarded
<1>1. PInit => LockInv /\ ChildWhole
  <2>1. Init => ChildWhole
    BY DEF Init, NoChild, ChildWhole
  <2> QED
    BY <2>1, LockInitially DEF PInit
<1>2. LockInv /\ ChildWhole /\ [PNext]_<<part, vars, wasm>> => LockInv' /\ ChildWhole'
  BY PlatformParts, LockStep, ChildStep
<1>3. LockInv /\ ChildWhole => HeapGuarded
  <2> SUFFICES ASSUME LockInv, ChildWhole PROVE HeapGuarded
    OBVIOUS
  <2>1. ASSUME NEW t \in Threads, pc[t] \in {"in", "enabling", "enabled"} PROVE LOCK = t
    BY <2>1 DEF LockInv, Placed, Holds
  <2>2. ASSUME NEW t \in Threads, pc[t] = "preparing", left[t] > 0 PROVE LOCK # t
    <3>1. Placed(t) /\ left[t] \in {0, 1} /\ atfork \in {0, 1}
      BY DEF LockInv, Installed
    <3> QED
      BY <2>2, <3>1 DEF Placed, Holds
  <2> QED
    BY <2>1, <2>2 DEF HeapGuarded, ChildWhole
<1> QED
  BY <1>1, <1>2, <1>3, PTL DEF PSpec

-----------------------------------------------------------------------------
(* The memory of wasm *)

\* The linker's memory lies below what memory.grow gives, and is given once.
WasmInv ==
  /\ pages \in InitialPages..AddressPages
  /\ heap_base \in HeapBases /\ heap_end \in HeapEnds
  /\ PREEXISTING_USED \in BOOLEAN
  /\ \A r \in regions :
       /\ r.base \in Int /\ r.size \in Int /\ r.size > 0
       /\ r.base + r.size <= pages * PageUnits
       /\ r.base + r.size < AddressPages * PageUnits
       /\ r.base >= InitialPages * PageUnits \/ (PREEXISTING_USED /\ r.base + r.size <= heap_end)
  /\ \A r, q \in regions : r # q => r.base + r.size <= q.base \/ q.base + q.size <= r.base

\* Whole pages make up what is asked for.
LEMMA WholePages ==
  ASSUME NEW size \in Nat \ {0}
  PROVE  /\ Wasm!div_ceil(size, PageUnits) \in Nat /\ Wasm!div_ceil(size, PageUnits) >= 1
         /\ size <= Wasm!div_ceil(size, PageUnits) * PageUnits
<1>1. PageUnits \in Nat \ {0}
  BY PlatformAssumption DEF Wasm!WasmAssumption
<1> QED
  BY <1>1 DEF Wasm!div_ceil

\* Pages in units: whatever lies below some pages lies below more of them.
LEMMA PagesGrow ==
  ASSUME NEW a \in Int, NEW b \in Int, a <= b
  PROVE  a * PageUnits <= b * PageUnits /\ a * PageUnits \in Int /\ (a < b => a * PageUnits + PageUnits <= b * PageUnits)
<1>1. PageUnits \in Nat \ {0}
  BY PlatformAssumption DEF Wasm!WasmAssumption
<1> QED
  BY <1>1

\* What the constants are, in units.
LEMMA WasmConstants ==
  /\ PageUnits \in Nat \ {0, 1} /\ AddressPages \in Nat /\ InitialPages \in Nat
  /\ InitialPages <= AddressPages
  /\ \A e \in HeapBases \cup HeapEnds :
       e \in Nat /\ e <= InitialPages * PageUnits
  /\ \A e \in HeapEnds : e < AddressPages * PageUnits
<1>1. /\ PageUnits \in Nat \ {0, 1} /\ AddressPages \in Nat /\ InitialPages \in Nat
      /\ InitialPages <= AddressPages
      /\ HeapBases \cup HeapEnds \subseteq 0 .. InitialPages * PageUnits
      /\ AddressPages * PageUnits \notin HeapEnds
  BY PlatformAssumption DEF Wasm!WasmAssumption
<1>2. InitialPages * PageUnits <= AddressPages * PageUnits /\ InitialPages * PageUnits \in Int
      /\ AddressPages * PageUnits \in Int
  BY <1>1, PagesGrow
<1> QED
  BY <1>1, <1>2

\* A new answer beside the old ones.
LEMMA RegionAdded ==
  ASSUME WasmInv, NEW new, regions' = regions \cup {new}, pages' \in InitialPages..AddressPages,
         pages <= pages', UNCHANGED <<heap_base, heap_end>>, PREEXISTING_USED' = TRUE,
         new.base \in Int, new.size \in Int, new.size > 0,
         new.base + new.size <= pages' * PageUnits,
         new.base + new.size < AddressPages * PageUnits,
         new.base >= InitialPages * PageUnits \/ new.base + new.size <= heap_end,
         \A r \in regions : r.base + r.size <= new.base \/ new.base + new.size <= r.base
  PROVE  WasmInv'
<1>1. pages \in Int /\ pages' \in Int
  BY WasmConstants DEF WasmInv
<1>2. pages * PageUnits <= pages' * PageUnits /\ pages * PageUnits \in Int
      /\ pages' * PageUnits \in Int
  BY <1>1, PagesGrow
<1>3. ASSUME NEW r \in regions'
      PROVE  /\ r.base \in Int /\ r.size \in Int /\ r.size > 0
             /\ r.base + r.size <= pages' * PageUnits
             /\ r.base + r.size < AddressPages * PageUnits
             /\ r.base >= InitialPages * PageUnits \/ (PREEXISTING_USED' /\ r.base + r.size <= heap_end')
  <2>1. CASE r = new
    BY <2>1
  <2>2. CASE r \in regions
    <3>1. /\ r.base \in Int /\ r.size \in Int /\ r.size > 0
          /\ r.base + r.size <= pages * PageUnits
          /\ r.base + r.size < AddressPages * PageUnits
          /\ r.base >= InitialPages * PageUnits \/ r.base + r.size <= heap_end
      BY <2>2 DEF WasmInv
    <3> QED
      BY <1>2, <3>1
  <2> QED
    BY <1>3, <2>1, <2>2
<1>4. ASSUME NEW r \in regions', NEW q \in regions', r # q
      PROVE  r.base + r.size <= q.base \/ q.base + q.size <= r.base
  <2>1. CASE r \in regions /\ q \in regions
    BY <1>4, <2>1 DEF WasmInv
  <2>2. CASE r = new \/ q = new
    BY <1>4, <2>2
  <2> QED
    BY <2>1, <2>2
<1>5. heap_base' \in HeapBases /\ heap_end' \in HeapEnds /\ PREEXISTING_USED' \in BOOLEAN
  BY DEF WasmInv
<1> QED
  BY <1>3, <1>4, <1>5 DEF WasmInv

\* Nothing has been given before the first call.
LEMMA WasmInitially == Wasm!Init => WasmInv
<1> SUFFICES ASSUME Wasm!Init PROVE WasmInv
  OBVIOUS
<1>1. /\ heap_base \in HeapBases /\ heap_end \in HeapEnds /\ PREEXISTING_USED = FALSE
      /\ pages = InitialPages /\ regions = {}
  BY DEF Wasm!Init
<1>2. pages \in InitialPages..AddressPages
  BY <1>1, WasmConstants
<1>3. PREEXISTING_USED \in BOOLEAN
  BY <1>1
<1> QED
  BY <1>1, <1>2, <1>3 DEF WasmInv

\* An answer of Allocator::alloc lies beside every earlier one.
LEMMA AllocStep ==
  ASSUME WasmInv, NEW size \in 1..AddressPages * PageUnits, Wasm!Alloc(size)
  PROVE  WasmInv'
<1>0. /\ pages \in Int /\ InitialPages <= pages /\ pages <= AddressPages /\ size \in Nat \ {0}
      /\ heap_base \in Nat /\ heap_end \in Nat /\ heap_end <= InitialPages * PageUnits
      /\ heap_end < AddressPages * PageUnits
  BY WasmConstants DEF WasmInv
<1>1. /\ InitialPages * PageUnits <= pages * PageUnits /\ pages * PageUnits <= AddressPages * PageUnits
      /\ InitialPages * PageUnits \in Int /\ pages * PageUnits \in Int
      /\ AddressPages * PageUnits \in Int
  BY <1>0, PagesGrow, WasmConstants
<1>2. CASE Wasm!AllocPreexisting(size)
  <2> DEFINE new == [asked |-> size, base |-> heap_base, size |-> heap_end - heap_base]
  <2>1. /\ ~ PREEXISTING_USED /\ heap_end > heap_base /\ regions' = regions \cup {new}
        /\ PREEXISTING_USED' = TRUE /\ UNCHANGED <<pages, heap_base, heap_end>>
    BY <1>2 DEF Wasm!AllocPreexisting, Wasm!Donated, Wasm!LinkerChunk, Wasm!Answer, Wasm!linker
  <2>2. new.base = heap_base /\ new.size = heap_end - heap_base
    OBVIOUS
  <2>3. \A r \in regions : new.base + new.size <= r.base
    <3> SUFFICES ASSUME NEW r \in regions PROVE new.base + new.size <= r.base
      OBVIOUS
    <3>1. r.base \in Int /\ r.base >= InitialPages * PageUnits
      BY <2>1 DEF WasmInv
    <3> QED
      BY <1>0, <1>1, <2>2, <3>1
  <2>4. /\ new.base \in Int /\ new.size \in Int /\ new.size > 0
        /\ new.base + new.size = heap_end
    BY <1>0, <2>1, <2>2
  <2>5. pages' \in InitialPages..AddressPages /\ pages' = pages /\ pages <= pages'
    BY <1>0, <2>1 DEF WasmInv
  <2>6. new.base + new.size <= pages' * PageUnits
    BY <1>0, <1>1, <2>4, <2>5
  <2> HIDE DEF new
  <2> QED
    BY <1>0, <2>1, <2>3, <2>4, <2>5, <2>6, RegionAdded
<1>3. CASE Wasm!AllocViaGrow(size)
  <2> DEFINE more == Wasm!div_ceil(size, PageUnits)
             base == pages * PageUnits
             bytes == Wasm!usable(base, more * PageUnits)
             new == [asked |-> size, base |-> base, size |-> bytes]
  <2>1. /\ pages + more <= AddressPages /\ pages' = pages + more /\ PREEXISTING_USED' = TRUE
        /\ regions' = regions \cup {new} /\ UNCHANGED <<heap_base, heap_end>>
    BY <1>3 DEF Wasm!AllocViaGrow, Wasm!Answer, Wasm!linker
  <2>2. more \in Nat /\ more >= 1
    BY <1>0, WholePages
  <2>3. /\ (pages + more) * PageUnits <= AddressPages * PageUnits
        /\ (pages + more) * PageUnits \in Int
    BY <1>0, <2>1, <2>2, PagesGrow, WasmConstants
  <2>4. /\ more * PageUnits \in Int /\ more * PageUnits >= PageUnits
        /\ (pages + more) * PageUnits = pages * PageUnits + more * PageUnits
    <3>1. PageUnits \in Nat
      BY WasmConstants
    <3> QED
      BY <1>0, <2>2, <3>1
  <2>5. new.base = pages * PageUnits /\ new.size = bytes
    OBVIOUS
  <2>6. /\ bytes \in Int /\ bytes > 0 /\ bytes <= more * PageUnits
        /\ base + bytes < AddressPages * PageUnits
    <3>1. PageUnits \in Nat /\ PageUnits >= 2
      BY WasmConstants
    <3>2. bytes = IF base + more * PageUnits = AddressPages * PageUnits
                  THEN more * PageUnits - 1 ELSE more * PageUnits
      BY DEF Wasm!usable, Wasm!AddressSpace
    <3> QED
      BY <1>1, <2>3, <2>4, <3>1, <3>2
  <2> HIDE DEF new, bytes, more
  <2>7. \A r \in regions : r.base + r.size <= new.base
    BY <2>5 DEF WasmInv
  <2>8. pages' \in InitialPages..AddressPages /\ pages <= pages'
    BY <1>0, <2>1, <2>2, WasmConstants
  <2>9. /\ new.base \in Int /\ new.size \in Int /\ new.size > 0
        /\ new.base + new.size <= pages' * PageUnits
        /\ new.base + new.size < AddressPages * PageUnits
        /\ new.base >= InitialPages * PageUnits
    BY <1>1, <2>1, <2>3, <2>4, <2>5, <2>6
  <2> QED
    BY <2>1, <2>7, <2>8, <2>9, RegionAdded
<1>4. CASE Wasm!AllocFails(size)
  <2>1. PREEXISTING_USED' = TRUE /\ UNCHANGED <<pages, regions, heap_base, heap_end>>
    BY <1>4 DEF Wasm!AllocFails, Wasm!linker
  <2> QED
    BY <2>1 DEF WasmInv
<1> QED
  BY <1>2, <1>3, <1>4 DEF Wasm!Alloc

\* Whatever else grows the memory, the regions stay apart.
LEMMA WasmStep == WasmInv /\ [Wasm!Next]_wasm => WasmInv'
<1> SUFFICES ASSUME WasmInv, [Wasm!Next]_wasm PROVE WasmInv'
  OBVIOUS
<1>1. CASE \E size \in 1 .. Wasm!AddressSpace : Wasm!Alloc(size)
  BY <1>1, AllocStep DEF Wasm!AddressSpace
<1>2. CASE Wasm!OthersGrow
  <2>1. /\ pages < AddressPages /\ pages' = pages + 1
        /\ UNCHANGED <<PREEXISTING_USED, regions, heap_base, heap_end>>
    BY <1>2 DEF Wasm!OthersGrow, Wasm!linker
  <2>2. pages \in Int /\ pages' \in InitialPages..AddressPages
    BY <2>1, WasmConstants DEF WasmInv
  <2>3. pages * PageUnits <= pages' * PageUnits /\ pages * PageUnits \in Int /\ pages' * PageUnits \in Int
    BY <2>1, <2>2, PagesGrow, WasmConstants
  <2>4. ASSUME NEW r \in regions PROVE r.base + r.size <= pages' * PageUnits
    BY <2>3 DEF WasmInv
  <2> QED
    BY <2>1, <2>2, <2>4 DEF WasmInv
<1>3. CASE UNCHANGED wasm
  BY <1>3 DEF wasm, WasmInv
<1> QED
  BY <1>1, <1>2, <1>3 DEF Wasm!Next

\* For any memory of wasm and any growth of it by others, no two regions that
\* the allocator is given share memory, and none ends where the address space does.
THEOREM WasmRegionsApart == PSpec => []RegionsApart
<1>1. PInit => WasmInv
  BY WasmInitially DEF PInit
<1>2. WasmInv /\ [PNext]_<<part, vars, wasm>> => WasmInv'
  BY PlatformParts, WasmStep
<1>3. WasmInv => RegionsApart
  BY DEF WasmInv, RegionsApart, Wasm!RegionsApart, Wasm!AddressSpace
<1> QED
  BY <1>1, <1>2, <1>3, PTL DEF PSpec
=============================================================================
