----------------------------- MODULE FreeChunks -----------------------------
(***************************************************************************)
(* What the bins of dlmalloc promise to malloc, without lists, trees and   *)
(* maps: the free chunks of each size, in the order they were put there.   *)
(* A search takes a chunk of the smallest size that will do, the oldest or *)
(* the newest of that size, and comes back empty-handed only if no chunk   *)
(* will do.                                                                *)
(***************************************************************************)
EXTENDS Integers, Sequences, SequencesExt, FiniteSetsExt

CONSTANTS
  Oldest,     \* ties go to the chunk that is free longest; if not, to the last freed
  None        \* no chunk

VARIABLES
  queue,             \* for each size the free chunks, oldest first
  request, found     \* what the last step looked for, and got

vars == <<queue, request, found>>

Quiet == request' = 0 /\ found' = None

\* q is the queue before a step and r after it.
In(c, q) == \E s \in DOMAIN q : Contains(q[s], c)

Inserted(q, r) ==
  \E s \in DOMAIN q :
    /\ Len(r[s]) = Len(q[s]) + 1 /\ ~ In(Last(r[s]), q)
    /\ r = [q EXCEPT ![s] = Append(@, Last(r[s]))]

Withdrawn(q, r) ==
  \E s \in DOMAIN q : \E i \in DOMAIN q[s] : r = [q EXCEPT ![s] = RemoveAt(@, i)]

Fits(q, nb) == {s \in DOMAIN q : s >= nb /\ q[s] # << >>}

Taken(q, r, nb, c) ==
  LET s == Min(Fits(q, nb))
      i == IF Oldest THEN 1 ELSE Len(q[s])
  IN  c = q[s][i] /\ r = [q EXCEPT ![s] = RemoveAt(@, i)]

Quietly(q, r) == Quiet /\ (q = r \/ Inserted(q, r) \/ Withdrawn(q, r))

Searched(q, r) ==
  /\ request' > 0
  /\ IF Fits(q, request') = {} THEN found' = None /\ r = q ELSE Taken(q, r, request', found')

Init == (\A s \in DOMAIN queue : queue[s] = << >>) /\ request = 0 /\ found = None
\* q and r are queue and queue': TLC evaluates a refinement mapping once for each.
Next == \E q \in {queue}, r \in {queue'} : Quietly(q, r) \/ Searched(q, r)
Spec == Init /\ [][Next]_vars
=============================================================================
