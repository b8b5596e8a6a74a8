-------------------------------- MODULE Mutex --------------------------------
(***************************************************************************)
(* What a lock promises: at most one thread is inside, and only a lock     *)
(* that is recursive lets that thread in again.                            *)
(***************************************************************************)
EXTENDS Integers

CONSTANT Threads

VARIABLES
  Recursive,   \* the kind of lock it is: never changes
  held         \* how often each thread has it

Inside == {t \in Threads : held[t] > 0}

Acquire(t) ==
  /\ Inside \subseteq (IF Recursive THEN {t} ELSE {})
  /\ held' = [held EXCEPT ![t] = @ + 1]
  /\ UNCHANGED Recursive

Release(t) ==
  /\ held[t] > 0
  /\ held' = [held EXCEPT ![t] = @ - 1]
  /\ UNCHANGED Recursive

Init == Recursive \in BOOLEAN /\ held = [t \in Threads |-> 0]
Next == \E t \in Threads : Acquire(t) \/ Release(t)
Spec == Init /\ [][Next]_<<Recursive, held>>
=============================================================================
