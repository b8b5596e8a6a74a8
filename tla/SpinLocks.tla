------------------------------ MODULE SpinLocks ------------------------------
(***************************************************************************)
(* The spin locks of dlmalloc.c: the plain lock, one word that is set by   *)
(* test-and-set, and the recursive one, which adds the owner's thread id   *)
(* and a count.  A step is one access to shared memory; memory is          *)
(* sequentially consistent, as the barriers of the atomic operations and   *)
(* of the volatile reads make it on the builds the file names.  The yield  *)
(* every 64 spins changes nothing and is left out.                         *)
(***************************************************************************)
EXTENDS Integers, FiniteSets

CONSTANTS
  Threads,
  NoThread,              \* (THREAD_ID_T)0
  Returning,             \* which threads take the lock again after releasing it, by its kind
  MaxDepth               \* bound: nested acquisitions by one thread

ASSUME LockAssumption ==
  /\ NoThread \notin Threads /\ Returning \in [BOOLEAN -> SUBSET Threads] /\ MaxDepth \in Nat \ {0}

VARIABLES
  USE_RECURSIVE_LOCKS,   \* which of the two locks is compiled in: never changes
  sl, c, threadid,   \* struct malloc_recursive_lock; the plain lock is sl alone
  pc, trying,        \* where each thread is; whether it runs TRY_LOCK
  depth,             \* how often each thread was told that it has the lock
  been               \* the threads that had the lock

lock == <<sl, c, threadid>>
vars == <<USE_RECURSIVE_LOCKS, lock, pc, trying, depth, been>>

Goto(t, l) == pc' = [pc EXCEPT ![t] = l]

\* The lock routine returns to a thread that now has the lock (once more).
Enter(t) ==
  /\ Goto(t, "out") /\ depth' = [depth EXCEPT ![t] = @ + 1]
  /\ been' = been \cup {t}

\* TRY_LOCK gives up; ACQUIRE_LOCK goes round.
Denied(t) == Goto(t, IF trying[t] THEN "out" ELSE "look")

-----------------------------------------------------------------------------
(* A thread starts a lock routine.  The plain lock begins with the atomic    *)
(* operation, the recursive one with a read.  A plain lock is not taken by   *)
(* the thread that has it: malloc never nests its calls.                     *)

Start(t) ==
  /\ pc[t] = "out"
  /\ depth[t] < (IF USE_RECURSIVE_LOCKS THEN MaxDepth ELSE 1)
  /\ depth[t] > 0 \/ t \notin been \/ t \in Returning[USE_RECURSIVE_LOCKS]
  /\ Goto(t, IF USE_RECURSIVE_LOCKS THEN "look" ELSE "cas")
  /\ \E b \in BOOLEAN : trying' = [trying EXCEPT ![t] = b]
  /\ UNCHANGED <<USE_RECURSIVE_LOCKS, lock, depth, been>>

\* CAS_LOCK finds the lock free, and takes it.
CAS_LOCK == sl = 0

PlainCas(t) ==
  /\ ~ USE_RECURSIVE_LOCKS /\ pc[t] = "cas"
  /\ sl' = 1
  /\ IF CAS_LOCK THEN Enter(t) ELSE Denied(t) /\ UNCHANGED <<depth, been>>
  /\ UNCHANGED <<USE_RECURSIVE_LOCKS, c, threadid, trying>>

PlainLook(t) ==
  /\ ~ USE_RECURSIVE_LOCKS /\ pc[t] = "look"
  /\ Goto(t, IF sl = 0 THEN "cas" ELSE "look")
  /\ UNCHANGED <<USE_RECURSIVE_LOCKS, lock, trying, depth, been>>

\* Mutant: the lock is left set.
clear_lock_not == UNCHANGED sl

CLEAR_LOCK == sl' = 0

PlainRelease(t) ==
  /\ ~ USE_RECURSIVE_LOCKS /\ pc[t] = "out" /\ depth[t] > 0
  /\ CLEAR_LOCK /\ depth' = [depth EXCEPT ![t] = 0]
  /\ UNCHANGED <<USE_RECURSIVE_LOCKS, c, threadid, pc, trying, been>>

-----------------------------------------------------------------------------
(* The recursive lock                                                        *)

RecursiveLook(t) ==
  /\ USE_RECURSIVE_LOCKS /\ pc[t] = "look"
  /\ Goto(t, IF sl = 0 THEN "cas" ELSE "owner")
  /\ UNCHANGED <<USE_RECURSIVE_LOCKS, lock, trying, depth, been>>

RecursiveCas(t) ==
  /\ USE_RECURSIVE_LOCKS /\ pc[t] = "cas"
  /\ sl' = 1
  /\ IF CAS_LOCK THEN Goto(t, "own") ELSE Denied(t)
  /\ UNCHANGED <<USE_RECURSIVE_LOCKS, c, threadid, trying, depth, been>>

RecursiveOwn(t) ==
  /\ pc[t] = "own" /\ threadid' = t
  /\ Goto(t, "one")
  /\ UNCHANGED <<USE_RECURSIVE_LOCKS, sl, c, trying, depth, been>>

RecursiveOne(t) ==
  /\ pc[t] = "one" /\ c' = 1
  /\ Enter(t)
  /\ UNCHANGED <<USE_RECURSIVE_LOCKS, sl, threadid, trying>>

\* Mutant: the owner is not compared.
eq_owner_any(t) == TRUE

EQ_OWNER(t) == threadid = t

RecursiveOwner(t) ==
  /\ pc[t] = "owner"
  /\ IF EQ_OWNER(t) THEN Goto(t, "count") ELSE Denied(t)
  /\ UNCHANGED <<USE_RECURSIVE_LOCKS, lock, trying, depth, been>>

RecursiveCount(t) ==
  /\ pc[t] = "count" /\ c' = c + 1
  /\ Enter(t)
  /\ UNCHANGED <<USE_RECURSIVE_LOCKS, sl, threadid, trying>>

\* --lk->c == 0
Last == c' = 0

RecursiveRelease(t) ==
  /\ USE_RECURSIVE_LOCKS /\ pc[t] = "out" /\ depth[t] > 0
  /\ c' = c - 1
  /\ IF Last THEN Goto(t, "clear") /\ UNCHANGED depth
             ELSE UNCHANGED pc /\ depth' = [depth EXCEPT ![t] = @ - 1]
  /\ UNCHANGED <<USE_RECURSIVE_LOCKS, sl, threadid, trying, been>>

\* The owner's id stays where it is.
RecursiveClear(t) ==
  /\ pc[t] = "clear" /\ CLEAR_LOCK
  /\ Goto(t, "out") /\ depth' = [depth EXCEPT ![t] = @ - 1]
  /\ UNCHANGED <<USE_RECURSIVE_LOCKS, c, threadid, trying, been>>

-----------------------------------------------------------------------------
\* INITIAL_LOCK
Init ==
  /\ USE_RECURSIVE_LOCKS \in BOOLEAN
  /\ sl = 0 /\ c = 0 /\ threadid = NoThread
  /\ pc = [t \in Threads |-> "out"] /\ trying = [t \in Threads |-> FALSE]
  /\ depth = [t \in Threads |-> 0] /\ been = {}

\* A thread that has begun to lock or has the lock goes on.
Running(t) ==
  \/ PlainCas(t) \/ PlainLook(t) \/ PlainRelease(t)
  \/ RecursiveLook(t) \/ RecursiveCas(t) \/ RecursiveOwn(t) \/ RecursiveOne(t)
  \/ RecursiveOwner(t) \/ RecursiveCount(t) \/ RecursiveRelease(t) \/ RecursiveClear(t)

Next == \E t \in Threads : Start(t) \/ Running(t)

Spec == Init /\ [][Next]_vars
FairSpec == Spec /\ \A t \in Threads : WF_vars(Running(t))

-----------------------------------------------------------------------------
(* Properties *)

\* No two threads are told that they have the lock (ACQUIRE_LOCK, TRY_LOCK): what
\* every public call relies on when it touches the allocator's state.
MutualExclusion == Cardinality({t \in Threads : depth[t] > 0}) <= 1

\* The lock keeps the promise of an abstract one.
Promise == INSTANCE Mutex WITH Recursive <- USE_RECURSIVE_LOCKS, held <- depth
KeepsPromise == Promise!Spec

Waiting(t) == pc[t] \in {"cas", "look", "owner"}

\* A thread waits for ever only if others take the lock again and again: a
\* lock that nobody has any more is always found to be free.
NoIdleWait ==
  \A t \in Threads : <>[]Waiting(t) => []<>(\E u \in Threads \ {t} : depth[u] > 0)
=============================================================================
