----------------------------- MODULE GlobalLock -----------------------------
(***************************************************************************)
(* GlobalDlmalloc: one Dlmalloc in a static mut, entered by every thread   *)
(* through the platform's lock, on unix a pthread mutex of the default     *)
(* kind.  enable_alloc_after_fork has fork(2) take the lock first, so that *)
(* the child, in which only the forking thread goes on, finds the lock     *)
(* free and the heap whole.  A fork is made after some call of it has      *)
(* returned, as its documentation asks.                                    *)
(***************************************************************************)
EXTENDS Integers, FiniteSets

CONSTANTS
  Threads, Nobody,
  AtforkFails,       \* may pthread_atfork find no memory?
  MaxForks           \* bound

ASSUME GlobalAssumption == Nobody \notin Threads /\ AtforkFails \in BOOLEAN /\ MaxForks \in Nat

VARIABLES
  LOCK,              \* the thread that has the mutex
  FORK_PROTECTED,
  atfork,            \* how many sets of handlers are installed
  enabled,           \* some call of enable_alloc_after_fork has returned
  pc,                \* where each thread is
  left,              \* handlers that a forking thread has still to run
  child, forks       \* the latest child, and how many there were

vars == <<LOCK, FORK_PROTECTED, atfork, enabled, pc, left, child, forks>>
parent == <<LOCK, FORK_PROTECTED, atfork, enabled, pc, left>>
born == <<child, forks>>

Goto(t, l) == pc' = [pc EXCEPT ![t] = l]

acquire_global_lock(t) == LOCK = Nobody /\ LOCK' = t
release_global_lock == LOCK' = Nobody

-----------------------------------------------------------------------------
(* alloc, dealloc, alloc_zeroed and realloc: the guard is dropped at the end *)

Enter(t) ==
  /\ pc[t] = "out" /\ acquire_global_lock(t) /\ Goto(t, "in")
  /\ UNCHANGED <<FORK_PROTECTED, atfork, enabled, left, born>>

DropGuard(t) ==
  /\ pc[t] = "in" /\ release_global_lock /\ Goto(t, "out")
  /\ UNCHANGED <<FORK_PROTECTED, atfork, enabled, left, born>>

-----------------------------------------------------------------------------
(* enable_alloc_after_fork                                                   *)

EnableEnter(t) ==
  /\ pc[t] = "out" /\ acquire_global_lock(t) /\ Goto(t, "enabling")
  /\ UNCHANGED <<FORK_PROTECTED, atfork, enabled, left, born>>

\* Mutant: every call installs the handlers.
protect_again == TRUE

Unprotected == ~ FORK_PROTECTED

\* The answer of pthread_atfork is not looked at.
EnableRegister(t) ==
  /\ pc[t] = "enabling" /\ Goto(t, "enabled")
  /\ IF Unprotected
     THEN /\ FORK_PROTECTED' = TRUE
          /\ \/ atfork' = atfork + 1
             \/ AtforkFails /\ UNCHANGED atfork
     ELSE UNCHANGED <<atfork, FORK_PROTECTED>>
  /\ UNCHANGED <<LOCK, enabled, left, born>>

EnableReturn(t) ==
  /\ pc[t] = "enabled" /\ release_global_lock /\ Goto(t, "out") /\ enabled' = TRUE
  /\ UNCHANGED <<FORK_PROTECTED, atfork, left, born>>

-----------------------------------------------------------------------------
(* fork(2): the prepare handlers, the fork, the handlers of both processes   *)

ForkBegin(t) ==
  /\ pc[t] = "out" /\ enabled /\ forks < MaxForks
  /\ Goto(t, "preparing") /\ left' = [left EXCEPT ![t] = atfork]
  /\ UNCHANGED <<LOCK, FORK_PROTECTED, atfork, enabled, born>>

ForkPrepare(t) ==
  /\ pc[t] = "preparing" /\ left[t] > 0
  /\ acquire_global_lock(t) /\ left' = [left EXCEPT ![t] = @ - 1]
  /\ UNCHANGED <<FORK_PROTECTED, atfork, enabled, pc, born>>

\* The child has the parent's memory: its lock, and the heap as it is.
Fork(t) ==
  /\ pc[t] = "preparing" /\ left[t] = 0
  /\ forks' = forks + 1
  /\ child' = [pc |-> "after", LOCK |-> LOCK, left |-> atfork,
               torn |-> \E u \in Threads : pc[u] = "in"]
  /\ Goto(t, "after") /\ left' = [left EXCEPT ![t] = atfork]
  /\ UNCHANGED <<LOCK, FORK_PROTECTED, atfork, enabled>>

ForkParent(t) ==
  /\ pc[t] = "after"
  /\ IF left[t] > 0 THEN release_global_lock /\ left' = [left EXCEPT ![t] = @ - 1] /\ UNCHANGED pc
     ELSE Goto(t, "out") /\ UNCHANGED <<LOCK, left>>
  /\ UNCHANGED <<FORK_PROTECTED, atfork, enabled, born>>

\* Mutant: the child does not run its handlers.
child_lock_kept == child.LOCK

child_lock_released == Nobody

ChildHandlers ==
  /\ child.pc = "after"
  /\ child' = IF child.left > 0 THEN [child EXCEPT !.LOCK = child_lock_released, !.left = @ - 1]
              ELSE [child EXCEPT !.pc = "calls"]
  /\ UNCHANGED <<parent, forks>>

\* The child allocates.
ChildCall ==
  /\ child.pc = "calls" /\ child.LOCK = Nobody
  /\ child' = [child EXCEPT !.pc = "served"]
  /\ UNCHANGED <<parent, forks>>

-----------------------------------------------------------------------------
NoChild == [pc |-> "none", LOCK |-> Nobody, left |-> 0, torn |-> FALSE]

Init ==
  /\ LOCK = Nobody /\ FORK_PROTECTED = FALSE /\ atfork = 0 /\ enabled = FALSE
  /\ pc = [t \in Threads |-> "out"] /\ left = [t \in Threads |-> 0]
  /\ child = NoChild /\ forks = 0

Step(t) ==
  \/ DropGuard(t) \/ EnableRegister(t) \/ EnableReturn(t)
  \/ ForkPrepare(t) \/ Fork(t) \/ ForkParent(t)

Next ==
  \/ \E t \in Threads : Enter(t) \/ EnableEnter(t) \/ ForkBegin(t) \/ Step(t)
  \/ ChildHandlers \/ ChildCall

\* A child is scheduled, and so is a thread that holds the lock; the mutex
\* admits every waiter at some time.
Spec == Init /\ [][Next]_vars
FairSpec ==
  /\ Spec /\ WF_vars(ChildHandlers) /\ WF_vars(ChildCall)
  /\ \A t \in Threads : SF_vars(Step(t))

-----------------------------------------------------------------------------
(* Properties *)

\* Whoever is in the allocator, or in enable_alloc_after_fork, has the lock, so at
\* most one thread is (global.rs l. 15-43). A child never finds the heap in the
\* middle of a call. A thread that forks never waits for the lock it has itself: the
\* handlers run once, however often they are asked for (unix.rs l. 105-106).
HeapGuarded ==
  /\ \A t \in Threads : pc[t] \in {"in", "enabling", "enabled"} => LOCK = t
  /\ ~ child.torn
  /\ \A t \in Threads : pc[t] = "preparing" /\ left[t] > 0 => LOCK # t

\* Every child can allocate (unix.rs l. 97-102).
ChildServed == child.pc = "after" ~> child.pc = "served"
=============================================================================
