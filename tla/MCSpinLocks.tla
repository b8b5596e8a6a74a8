----------------------------- MODULE MCSpinLocks -----------------------------
EXTENDS SpinLocks

\* Nested calls of the recursive lock end; plain calls come again and again.
MCReturning == [recursive \in BOOLEAN |-> IF recursive THEN {} ELSE Threads]

\* One thread comes back for the recursive lock.
MCComingBack == [recursive \in BOOLEAN |-> IF recursive THEN {CHOOSE t \in Threads : TRUE} ELSE {}]
=============================================================================
