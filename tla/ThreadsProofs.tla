---------------------------- MODULE ThreadsProofs ----------------------------
(***************************************************************************)
(* The locks and the lazy initialisation of dlmalloc.c, for any number of  *)
(* threads: each spin lock keeps the promise of an abstract one, and the   *)
(* threads that race for the initialisation agree on its outcome.          *)
(***************************************************************************)
EXTENDS MCThreads, FiniteSetTheorems, TLAPS

-----------------------------------------------------------------------------
(* The spin locks *)

\* A thread has the lock, or has it but for the owner's id and the count.
Owns(t) == depth[t] > 0 \/ pc[t] \in {"own", "one"}

LockTypes ==
  /\ USE_RECURSIVE_LOCKS \in BOOLEAN
  /\ pc \in [Threads -> {"out", "cas", "look", "own", "one", "owner", "count", "clear"}]
  /\ depth \in [Threads -> Nat] /\ c \in Int /\ DOMAIN trying = Threads
  /\ sl \in {0, 1}

\* At most one thread has the lock, and the word says whether one has.
OneOwner ==
  /\ \A t \in Threads : Owns(t) => sl = 1
  /\ \A t, u \in Threads : Owns(t) /\ Owns(u) => t = u

\* The plain lock is never nested.
PlainThread(t) ==
  ~ USE_RECURSIVE_LOCKS =>
    pc[t] \in {"out", "cas", "look"} /\ depth[t] <= 1 /\ (depth[t] > 0 => pc[t] = "out")

\* The recursive lock counts what its owner was told. Its owner's id is stale
\* only for a thread that had the lock, and none of those waits for it anew.
RecursiveThread(t) ==
  /\ pc[t] \in {"own", "one"} => depth[t] = 0
  /\ pc[t] = "clear" => depth[t] = 1
  /\ pc[t] = "count" => depth[t] > 0
  /\ USE_RECURSIVE_LOCKS =>
       /\ depth[t] > 0 /\ pc[t] # "clear" => c = depth[t]
       /\ threadid = t => pc[t] = "one" \/ t \in been
       /\ pc[t] \in {"cas", "look", "owner"} /\ t \in been => depth[t] > 0
       /\ pc[t] \in {"own", "one"} => t \notin been

SpinInv ==
  /\ LockTypes /\ OneOwner
  /\ \A t \in Threads : PlainThread(t) /\ RecursiveThread(t)

\* At first nobody has the lock.
LEMMA SpinInitially == Init => SpinInv
<1> SUFFICES ASSUME Init PROVE SpinInv
  OBVIOUS
<1>1. LockTypes
  BY DEF Init, LockTypes
<1>2. \A t \in Threads : ~ Owns(t)
  BY DEF Init, Owns
<1>3. ASSUME NEW t \in Threads PROVE PlainThread(t) /\ RecursiveThread(t)
  BY LockAssumption DEF Init, PlainThread, RecursiveThread
<1> QED
  BY <1>1, <1>2, <1>3 DEF SpinInv, OneOwner

\* A thread that moves leaves the others where they are.
LEMMA SpinMoved ==
  ASSUME NEW t \in Threads, LockTypes,
         NEW l \in {"out", "cas", "look", "own", "one", "owner", "count", "clear"}, Goto(t, l)
  PROVE  /\ pc' \in [Threads -> {"out", "cas", "look", "own", "one", "owner", "count", "clear"}]
         /\ pc'[t] = l /\ \A u \in Threads : u # t => pc'[u] = pc[u]
BY DEF LockTypes, Goto

\* What one thread is told leaves what the others were told.
LEMMA Told ==
  ASSUME NEW t \in Threads, LockTypes, NEW k \in Nat, depth' = [depth EXCEPT ![t] = k]
  PROVE  /\ depth' \in [Threads -> Nat] /\ depth'[t] = k
         /\ \A u \in Threads : u # t => depth'[u] = depth[u]
BY DEF LockTypes

\* A thread that is told nothing new.
LEMMA ToldAgain ==
  ASSUME NEW t \in Threads, LockTypes, depth' = depth
  PROVE  depth' = [depth EXCEPT ![t] = depth[t]]
BY DEF LockTypes

\* A thread that begins to wait, goes on waiting or gives up.
LEMMA WaitKeeps ==
  ASSUME NEW t \in Threads, SpinInv, ~ Owns(t) \/ depth[t] > 0, pc[t] # "clear",
         NEW l \in {"out", "cas", "look", "owner"}, Goto(t, l),
         ~ USE_RECURSIVE_LOCKS => l # "owner" /\ depth[t] = 0,
         USE_RECURSIVE_LOCKS /\ l # "out" /\ t \in been => depth[t] > 0,
         UNCHANGED <<USE_RECURSIVE_LOCKS, lock, depth, been>>, DOMAIN trying' = Threads
  PROVE  SpinInv'
<1>1. /\ pc' \in [Threads -> {"out", "cas", "look", "own", "one", "owner", "count", "clear"}]
      /\ pc'[t] = l /\ \A u \in Threads : u # t => pc'[u] = pc[u]
  BY SpinMoved DEF SpinInv
<1>2. UNCHANGED <<USE_RECURSIVE_LOCKS, sl, c, threadid, depth, been>>
  BY DEF lock
<1>3. \A u \in Threads : Owns(u)' <=> Owns(u)
  BY <1>1, <1>2 DEF Owns, SpinInv, RecursiveThread
<1>4. LockTypes'
  BY <1>1, <1>2 DEF SpinInv, LockTypes
<1>5. ASSUME NEW u \in Threads PROVE PlainThread(u)' /\ RecursiveThread(u)'
  <2>1. PlainThread(u) /\ RecursiveThread(u)
    BY DEF SpinInv
  <2>2. CASE u # t
    BY <1>1, <1>2, <2>1, <2>2 DEF PlainThread, RecursiveThread
  <2>3. CASE u = t
    BY <1>1, <1>2, <2>1, <2>3 DEF PlainThread, RecursiveThread, Owns
  <2> QED
    BY <2>2, <2>3
<1> QED
  BY <1>2, <1>3, <1>4, <1>5 DEF SpinInv, OneOwner

\* A thread takes the lock that is free; the plain lock is then had.
LEMMA TakeKeeps ==
  ASSUME NEW t \in Threads, SpinInv, sl = 0, sl' = 1, pc[t] = "cas",
         UNCHANGED <<USE_RECURSIVE_LOCKS, c, threadid>>, DOMAIN trying' = Threads,
         \/ /\ USE_RECURSIVE_LOCKS /\ Goto(t, "own") /\ UNCHANGED <<depth, been>>
         \/ ~ USE_RECURSIVE_LOCKS /\ Enter(t)
  PROVE  SpinInv' /\ \A u \in Threads : depth[u] = 0
<1>0. /\ LockTypes /\ \A u \in Threads : ~ Owns(u) /\ depth[u] = 0
  BY DEF SpinInv, OneOwner, LockTypes, Owns
<1>1. PICK l \in {"out", "own"} : Goto(t, l) /\ (l = "own" <=> USE_RECURSIVE_LOCKS)
  BY DEF Enter
<1>2. /\ pc' \in [Threads -> {"out", "cas", "look", "own", "one", "owner", "count", "clear"}]
      /\ pc'[t] = l /\ \A u \in Threads : u # t => pc'[u] = pc[u]
  BY <1>0, <1>1, SpinMoved
<1>3. PICK k \in {0, 1} : depth' = [depth EXCEPT ![t] = k] /\ (k = 0 <=> USE_RECURSIVE_LOCKS)
  <2>1. CASE USE_RECURSIVE_LOCKS
    <3>1. depth' = [depth EXCEPT ![t] = 0]
      <4>1. depth' = depth /\ depth[t] = 0
        BY <1>0, <2>1
      <4> QED
        BY <1>0, <4>1, ToldAgain
    <3> QED
      BY <2>1, <3>1
  <2>2. CASE ~ USE_RECURSIVE_LOCKS
    <3>1. depth' = [depth EXCEPT ![t] = depth[t] + 1] /\ depth[t] + 1 = 1
      BY <1>0, <2>2 DEF Enter
    <3>2. depth' = [depth EXCEPT ![t] = 1]
      BY <3>1
    <3> QED
      BY <2>2, <3>2
  <2> QED
    BY <2>1, <2>2
<1>4. /\ depth' \in [Threads -> Nat] /\ depth'[t] = k
      /\ \A u \in Threads : u # t => depth'[u] = 0
  BY <1>0, <1>3, Told
<1>5. LockTypes'
  BY <1>0, <1>2, <1>4 DEF LockTypes
<1>6. \A u \in Threads : u # t => ~ Owns(u)'
  BY <1>0, <1>2, <1>4 DEF Owns
<1>7. OneOwner'
  BY <1>6 DEF OneOwner
<1>8. ASSUME NEW u \in Threads PROVE PlainThread(u)' /\ RecursiveThread(u)'
  <2>1. PlainThread(u) /\ RecursiveThread(u)
    BY DEF SpinInv
  <2>2. CASE u # t
    <3>1. ~ USE_RECURSIVE_LOCKS => u \in Threads /\ pc'[u] = pc[u] /\ depth'[u] = 0
      BY <1>2, <1>4, <2>2
    <3>2. pc[u] \notin {"clear", "count", "own", "one"}
      BY <1>0, <2>1 DEF RecursiveThread, Owns
    <3>3. USE_RECURSIVE_LOCKS => UNCHANGED <<depth, been, threadid>>
      OBVIOUS
    <3> QED
      BY <1>0, <1>2, <1>4, <2>1, <2>2, <3>2, <3>3 DEF PlainThread, RecursiveThread
  <2>3. CASE u = t
    BY <1>0, <1>1, <1>2, <1>3, <1>4, <2>1, <2>3 DEF PlainThread, RecursiveThread
  <2> QED
    BY <2>2, <2>3
<1> QED
  BY <1>0, <1>5, <1>7, <1>8 DEF SpinInv

\* The owner of the recursive lock goes on: to write its id and the count, to
\* take the lock once more, or to give one of its acquisitions back.
LEMMA OwnerKeeps ==
  ASSUME NEW t \in Threads, SpinInv, USE_RECURSIVE_LOCKS,
         \/ RecursiveOwn(t) \/ RecursiveOne(t) \/ RecursiveCount(t) \/ RecursiveRelease(t)
  PROVE  SpinInv' /\ \A u \in Threads : depth[u] > 0 => u = t
<1>0. LockTypes /\ Owns(t) /\ PlainThread(t) /\ RecursiveThread(t)
  BY DEF SpinInv, RecursiveThread, Owns, RecursiveOwn, RecursiveOne, RecursiveCount, RecursiveRelease
<1>1. \A u \in Threads : u # t => ~ Owns(u) /\ depth[u] = 0
  BY <1>0 DEF SpinInv, OneOwner, Owns, LockTypes
<1>2. PICK l \in {"out", "one", "clear"} :
        /\ Goto(t, l)
        /\ UNCHANGED <<USE_RECURSIVE_LOCKS, sl, trying>>
        /\ \/ pc[t] = "own" /\ l = "one" /\ threadid' = t /\ UNCHANGED <<c, depth, been>>
           \/ /\ pc[t] \in {"one", "count"} /\ l = "out" /\ depth' = [depth EXCEPT ![t] = depth[t] + 1]
              /\ c' = (IF pc[t] = "one" THEN 1 ELSE c + 1)
              /\ been' = been \cup {t} /\ UNCHANGED threadid
           \/ /\ pc[t] = "out" /\ depth[t] > 0 /\ l = "out" /\ c' = c - 1 /\ c' # 0
              /\ depth' = [depth EXCEPT ![t] = depth[t] - 1]
              /\ UNCHANGED <<threadid, been>>
           \/ /\ pc[t] = "out" /\ depth[t] > 0 /\ l = "clear" /\ c' = c - 1 /\ c' = 0
              /\ UNCHANGED <<threadid, been, depth>>
  <2>1. CASE RecursiveOwn(t)
    BY <2>1 DEF RecursiveOwn
  <2>2. CASE RecursiveOne(t) \/ RecursiveCount(t)
    BY <2>2 DEF RecursiveOne, RecursiveCount, Enter
  <2>3. CASE RecursiveRelease(t)
    <3>1. CASE Last
      BY <2>3, <3>1 DEF RecursiveRelease, Last
    <3>2. CASE ~ Last
      <4>1. pc' = [pc EXCEPT ![t] = "out"]
        BY <1>0, <2>3, <3>2 DEF RecursiveRelease, LockTypes
      <4> QED
        BY <2>3, <3>2, <4>1 DEF RecursiveRelease, Last, Goto
    <3> QED
      BY <3>1, <3>2
  <2> QED
    BY <2>1, <2>2, <2>3
<1>3. /\ pc' \in [Threads -> {"out", "cas", "look", "own", "one", "owner", "count", "clear"}]
      /\ pc'[t] = l /\ \A u \in Threads : u # t => pc'[u] = pc[u]
  BY <1>0, <1>2, SpinMoved
<1>4. /\ depth[t] \in Nat /\ c \in Int /\ depth \in [Threads -> Nat]
      /\ pc[t] \in {"one", "own"} => depth[t] = 0
      /\ pc[t] \in {"out", "count"} => depth[t] > 0 /\ c = depth[t]
  BY <1>0, <1>2 DEF LockTypes, RecursiveThread, Owns
<1>5. PICK k \in Nat :
        /\ depth' = [depth EXCEPT ![t] = k] /\ c' \in Int
        /\ l = "one" => k = 0 /\ threadid' = t /\ been' = been /\ pc[t] = "own"
        /\ l = "clear" => k = 1 /\ UNCHANGED <<threadid, been>>
        /\ l = "out" => /\ k > 0 /\ c' = k /\ threadid' = threadid
                        /\ been' \in {been, been \cup {t}} /\ (pc[t] = "one" => t \in been')
  <2>1. CASE l = "one"
    <3>1. depth' = [depth EXCEPT ![t] = 0]
      <4>1. depth' = depth /\ depth[t] = 0
        BY <1>2, <1>4, <2>1
      <4> QED
        BY <1>0, <4>1, ToldAgain
    <3> QED
      BY <1>2, <1>4, <2>1, <3>1
  <2>2. CASE l = "clear"
    <3>1. depth[t] = 1
      BY <1>2, <1>4, <2>2
    <3>2. depth' = [depth EXCEPT ![t] = 1]
      <4>1. depth' = depth
        BY <1>2, <2>2
      <4> QED
        BY <1>0, <3>1, <4>1, ToldAgain
    <3>3. c' \in Int /\ threadid' = threadid /\ been' = been
      BY <1>2, <1>4, <2>2
    <3>4. l # "one" /\ l # "out" /\ 1 \in Nat
      BY <2>2
    <3> QED
      BY <3>2, <3>3, <3>4
  <2>3. CASE l = "out" /\ pc[t] \in {"one", "count"}
    <3>1. depth[t] + 1 \in Nat /\ depth[t] + 1 > 0 /\ c' = depth[t] + 1
      BY <1>2, <1>4, <2>3
    <3> QED
      BY <1>2, <2>3, <3>1
  <2>4. CASE l = "out" /\ pc[t] = "out"
    <3>1. depth[t] - 1 \in Nat /\ depth[t] - 1 > 0 /\ c' = depth[t] - 1
      BY <1>2, <1>4, <2>4
    <3> QED
      BY <1>2, <2>4, <3>1
  <2> QED
    BY <1>2, <2>1, <2>2, <2>3, <2>4
<1>6. /\ depth' \in [Threads -> Nat] /\ depth'[t] = k
      /\ \A u \in Threads : u # t => depth'[u] = 0
  BY <1>0, <1>1, <1>5, Told
<1>7. LockTypes'
  BY <1>0, <1>2, <1>3, <1>5, <1>6 DEF LockTypes
<1>8. \A u \in Threads : u # t => ~ Owns(u)'
  BY <1>1, <1>3, <1>6 DEF Owns
<1>9. OneOwner'
  BY <1>0, <1>2, <1>8 DEF OneOwner, SpinInv
<1>10. ASSUME NEW u \in Threads PROVE PlainThread(u)' /\ RecursiveThread(u)'
  <2>1. PlainThread(u) /\ RecursiveThread(u)
    BY DEF SpinInv
  <2>2. CASE u # t
    BY <1>1, <1>2, <1>3, <1>5, <1>6, <2>1, <2>2 DEF PlainThread, RecursiveThread
  <2>3. CASE u = t
    <3>1. l \in {"out", "one", "clear"} /\ (USE_RECURSIVE_LOCKS <=> USE_RECURSIVE_LOCKS')
      BY <1>2
    <3> QED
      BY <1>0, <1>2, <1>3, <1>4, <1>5, <1>6, <2>3, <3>1 DEF PlainThread, RecursiveThread
  <2> QED
    BY <2>2, <2>3
<1>11. \A u \in Threads : depth[u] > 0 => u = t
  BY <1>1
<1> QED
  BY <1>7, <1>9, <1>10, <1>11 DEF SpinInv

\* The thread that has the lock gives it back.
LEMMA ClearKeeps ==
  ASSUME NEW t \in Threads, SpinInv, depth[t] > 0, sl' = 0,
         \/ pc[t] = "out" /\ pc' = pc /\ ~ USE_RECURSIVE_LOCKS
         \/ pc[t] = "clear" /\ Goto(t, "out"),
         depth' = [depth EXCEPT ![t] = 0],
         UNCHANGED <<USE_RECURSIVE_LOCKS, c, threadid, trying, been>>
  PROVE  SpinInv'
<1>0. LockTypes /\ Owns(t) /\ PlainThread(t) /\ RecursiveThread(t)
  BY DEF SpinInv, Owns
<1>1. \A u \in Threads : u # t => ~ Owns(u) /\ depth[u] = 0
  BY <1>0 DEF SpinInv, OneOwner, Owns, LockTypes
<1>2. Goto(t, "out")
  BY <1>0 DEF Goto, LockTypes
<1>3. /\ pc' \in [Threads -> {"out", "cas", "look", "own", "one", "owner", "count", "clear"}]
      /\ pc'[t] = "out" /\ \A u \in Threads : u # t => pc'[u] = pc[u]
  BY <1>0, <1>2, SpinMoved
<1>4. /\ depth' \in [Threads -> Nat] /\ depth'[t] = 0
      /\ \A u \in Threads : u # t => depth'[u] = 0
  BY <1>0, <1>1, Told
<1>5. \A u \in Threads : ~ Owns(u)'
  BY <1>1, <1>3, <1>4 DEF Owns
<1>6. LockTypes'
  BY <1>0, <1>3, <1>4 DEF LockTypes
<1>7. ASSUME NEW u \in Threads PROVE PlainThread(u)' /\ RecursiveThread(u)'
  <2>1. PlainThread(u) /\ RecursiveThread(u)
    BY DEF SpinInv
  <2>2. CASE u # t
    BY <1>1, <1>3, <1>4, <2>1, <2>2 DEF PlainThread, RecursiveThread
  <2>3. CASE u = t
    BY <1>0, <1>3, <1>4, <2>3 DEF PlainThread, RecursiveThread
  <2> QED
    BY <2>2, <2>3
<1> QED
  BY <1>5, <1>6, <1>7 DEF SpinInv, OneOwner

-----------------------------------------------------------------------------
(* The lock implements the abstract one *)

\* A step of a lock is a step of its promise, or none that a thread is told of.
LEMMA SpinStep ==
  ASSUME Returning[TRUE] = {}, SpinInv, [Next]_vars
  PROVE  SpinInv' /\ [Promise!Next]_<<USE_RECURSIVE_LOCKS, depth>>
<1> DEFINE kept == UNCHANGED <<USE_RECURSIVE_LOCKS, depth>>
           Goal == SpinInv' /\ [Promise!Next]_<<USE_RECURSIVE_LOCKS, depth>>
<1>0. LockTypes
  BY DEF SpinInv
<1>1. ASSUME NEW t \in Threads, Start(t) PROVE Goal
  <2>1. /\ pc[t] = "out" /\ UNCHANGED <<USE_RECURSIVE_LOCKS, lock, depth, been>>
        /\ Goto(t, IF USE_RECURSIVE_LOCKS THEN "look" ELSE "cas") /\ DOMAIN trying' = Threads
    BY <1>0, <1>1 DEF Start, LockTypes
  <2>2. ~ USE_RECURSIVE_LOCKS => depth[t] = 0
    BY <1>0, <1>1 DEF Start, LockTypes
  <2>3. USE_RECURSIVE_LOCKS /\ t \in been => depth[t] > 0
    BY <1>1 DEF Start
  <2>4. ~ Owns(t) \/ depth[t] > 0
    BY <2>1 DEF Owns
  <2>5. SpinInv'
    <3>1. CASE USE_RECURSIVE_LOCKS
      BY <2>1, <2>3, <2>4, <3>1, WaitKeeps
    <3>2. CASE ~ USE_RECURSIVE_LOCKS
      BY <2>1, <2>2, <2>4, <3>2, WaitKeeps
    <3> QED
      BY <3>1, <3>2
  <2> QED
    BY <2>1, <2>5
<1>2. ASSUME NEW t \in Threads, SpinInv', sl = 0, \A u \in Threads : depth[u] = 0, Enter(t),
             UNCHANGED USE_RECURSIVE_LOCKS
      PROVE  Goal
  <2>1. Promise!Acquire(t)
    BY <1>2 DEF Promise!Acquire, Promise!Inside, Enter
  <2> QED
    BY <1>2, <2>1 DEF Promise!Next
<1>3. ASSUME NEW t \in Threads, PlainCas(t) \/ RecursiveCas(t) PROVE Goal
  <2>1. CASE sl = 0
    <3>1. SpinInv' /\ \A u \in Threads : depth[u] = 0
      BY <1>0, <1>3, <2>1, TakeKeeps DEF PlainCas, RecursiveCas, CAS_LOCK, LockTypes
    <3>2. CASE PlainCas(t)
      BY <1>2, <2>1, <3>1, <3>2 DEF PlainCas, CAS_LOCK
    <3>3. CASE RecursiveCas(t)
      BY <2>1, <3>1, <3>3 DEF RecursiveCas, CAS_LOCK
    <3> QED
      BY <1>3, <3>2, <3>3
  <2>2. CASE sl # 0
    <3>1. /\ pc[t] = "cas" /\ sl' = sl /\ UNCHANGED <<USE_RECURSIVE_LOCKS, lock, depth, been, trying>>
          /\ (Goto(t, "out") \/ Goto(t, "look"))
      BY <1>0, <1>3, <2>2 DEF PlainCas, RecursiveCas, CAS_LOCK, LockTypes, Denied, lock
    <3>2. PlainThread(t) /\ RecursiveThread(t) /\ depth[t] \in Nat /\ DOMAIN trying = Threads
      BY <1>0 DEF SpinInv, LockTypes
    <3>3. ~ USE_RECURSIVE_LOCKS => depth[t] = 0
      BY <3>1, <3>2 DEF PlainThread
    <3>4. USE_RECURSIVE_LOCKS /\ t \in been => depth[t] > 0
      BY <3>1, <3>2 DEF RecursiveThread
    <3>5. ~ Owns(t) \/ depth[t] > 0
      BY <3>1 DEF Owns
    <3>6. SpinInv'
      <4>1. CASE Goto(t, "out")
        BY <3>1, <3>2, <3>3, <3>5, <4>1, WaitKeeps
      <4>2. CASE Goto(t, "look")
        BY <3>1, <3>2, <3>3, <3>4, <3>5, <4>2, WaitKeeps
      <4> QED
        BY <3>1, <4>1, <4>2
    <3> QED
      BY <3>1, <3>6
  <2> QED
    BY <2>1, <2>2
<1>4. ASSUME NEW t \in Threads, PlainLook(t) \/ RecursiveLook(t) PROVE Goal
  <2>1. /\ pc[t] = "look" /\ UNCHANGED <<USE_RECURSIVE_LOCKS, lock, depth, been, trying>>
        /\ \E l \in {"cas", "look", "owner"} : Goto(t, l) /\ (l = "owner" => USE_RECURSIVE_LOCKS)
    BY <1>4 DEF PlainLook, RecursiveLook
  <2>2. PlainThread(t) /\ RecursiveThread(t) /\ depth[t] \in Nat /\ DOMAIN trying = Threads
    BY <1>0 DEF SpinInv, LockTypes
  <2>3. PICK l \in {"cas", "look", "owner"} : Goto(t, l) /\ (l = "owner" => USE_RECURSIVE_LOCKS)
    BY <2>1
  <2>4. /\ ~ USE_RECURSIVE_LOCKS => depth[t] = 0
        /\ USE_RECURSIVE_LOCKS /\ t \in been => depth[t] > 0
        /\ ~ Owns(t) \/ depth[t] > 0
    BY <2>1, <2>2 DEF PlainThread, RecursiveThread, Owns
  <2>5. SpinInv'
    BY <2>1, <2>2, <2>3, <2>4, WaitKeeps
  <2> QED
    BY <2>1, <2>5
<1>5. ASSUME NEW t \in Threads, RecursiveOwner(t) PROVE Goal
  <2>1. /\ pc[t] = "owner" /\ USE_RECURSIVE_LOCKS
        /\ UNCHANGED <<USE_RECURSIVE_LOCKS, lock, depth, been, trying>>
        /\ IF threadid = t THEN Goto(t, "count") ELSE (Goto(t, "out") \/ Goto(t, "look"))
    BY <1>5 DEF RecursiveOwner, EQ_OWNER, Denied, SpinInv, PlainThread
  <2>2. PlainThread(t) /\ RecursiveThread(t) /\ depth[t] \in Nat /\ DOMAIN trying = Threads
    BY <1>0 DEF SpinInv, LockTypes
  <2>3. /\ t \in been => depth[t] > 0
        /\ ~ Owns(t) \/ depth[t] > 0
    BY <2>1, <2>2 DEF RecursiveThread, Owns
  <2>4. CASE threadid # t
    <3>1. SpinInv'
      BY <2>1, <2>2, <2>3, <2>4, WaitKeeps
    <3> QED
      BY <2>1, <3>1
  <2>5. CASE threadid = t
    <3>1. depth[t] > 0 /\ Goto(t, "count")
      BY <2>1, <2>2, <2>3, <2>5 DEF RecursiveThread
    <3>2. /\ pc' \in [Threads -> {"out", "cas", "look", "own", "one", "owner", "count", "clear"}]
          /\ pc'[t] = "count" /\ \A u \in Threads : u # t => pc'[u] = pc[u]
      BY <1>0, <3>1, SpinMoved
    <3>3. \A u \in Threads : Owns(u)' <=> Owns(u)
      BY <2>1, <3>1, <3>2 DEF Owns
    <3>4. LockTypes'
      BY <1>0, <2>1, <3>2 DEF LockTypes, lock
    <3>5. ASSUME NEW u \in Threads PROVE PlainThread(u)' /\ RecursiveThread(u)'
      <4>1. PlainThread(u) /\ RecursiveThread(u)
        BY DEF SpinInv
      <4>2. CASE u # t
        BY <2>1, <3>2, <4>1, <4>2 DEF PlainThread, RecursiveThread, lock
      <4>3. CASE u = t
        BY <2>1, <2>2, <3>1, <3>2, <4>3 DEF PlainThread, RecursiveThread, lock
      <4> QED
        BY <4>2, <4>3
    <3>6. SpinInv'
      BY <2>1, <3>3, <3>4, <3>5 DEF SpinInv, OneOwner, lock
    <3> QED
      BY <2>1, <3>6
  <2> QED
    BY <2>4, <2>5
<1>6. ASSUME NEW t \in Threads,
             RecursiveOwn(t) \/ RecursiveOne(t) \/ RecursiveCount(t) \/ RecursiveRelease(t)
      PROVE  Goal
  <2>1. USE_RECURSIVE_LOCKS /\ UNCHANGED USE_RECURSIVE_LOCKS
    BY <1>6 DEF RecursiveOwn, RecursiveOne, RecursiveCount, RecursiveRelease, SpinInv, PlainThread
  <2>2. SpinInv' /\ \A u \in Threads : depth[u] > 0 => u = t
    BY <1>6, <2>1, OwnerKeeps
  <2>3. CASE RecursiveOwn(t)
    BY <2>2, <2>3 DEF RecursiveOwn
  <2>4. CASE RecursiveOne(t) \/ RecursiveCount(t)
    <3>1. Promise!Acquire(t)
      BY <2>1, <2>2, <2>4 DEF Promise!Acquire, Promise!Inside, RecursiveOne, RecursiveCount, Enter
    <3> QED
      BY <2>2, <3>1 DEF Promise!Next
  <2>5. CASE RecursiveRelease(t)
    <3>1. CASE Last
      BY <2>2, <2>5, <3>1 DEF RecursiveRelease
    <3>2. CASE ~ Last
      <4>1. Promise!Release(t)
        BY <2>5, <3>2 DEF RecursiveRelease, Promise!Release
      <4> QED
        BY <2>2, <4>1 DEF Promise!Next
    <3> QED
      BY <3>1, <3>2
  <2> QED
    BY <1>6, <2>3, <2>4, <2>5
<1>7. ASSUME NEW t \in Threads, PlainRelease(t) \/ RecursiveClear(t) PROVE Goal
  <2>1. PlainThread(t) /\ RecursiveThread(t) /\ depth[t] \in Nat
    BY <1>0 DEF SpinInv, LockTypes
  <2>2. depth[t] > 0 /\ (RecursiveClear(t) => depth[t] = 1)
    BY <1>7, <2>1 DEF PlainRelease, RecursiveClear, RecursiveThread
  <2>3. sl' = 0 /\ UNCHANGED <<USE_RECURSIVE_LOCKS, c, threadid, trying, been>>
    BY <1>7 DEF PlainRelease, RecursiveClear, CLEAR_LOCK
  <2>4. depth' = [depth EXCEPT ![t] = 0]
    <3>1. CASE PlainRelease(t)
      BY <3>1 DEF PlainRelease
    <3>2. CASE RecursiveClear(t)
      <4>1. depth' = [depth EXCEPT ![t] = depth[t] - 1] /\ depth[t] - 1 = 0
        BY <2>2, <3>2 DEF RecursiveClear
      <4> QED
        BY <4>1
    <3> QED
      BY <1>7, <3>1, <3>2
  <2>5. \/ pc[t] = "out" /\ pc' = pc /\ ~ USE_RECURSIVE_LOCKS
        \/ pc[t] = "clear" /\ Goto(t, "out")
    BY <1>7 DEF PlainRelease, RecursiveClear
  <2>6. SpinInv'
    BY <2>2, <2>3, <2>4, <2>5, ClearKeeps
  <2>7. depth[t] = 1
    BY <1>7, <2>1, <2>2 DEF PlainRelease, PlainThread
  <2>8. Promise!Release(t)
    BY <2>2, <2>3, <2>4, <2>7 DEF Promise!Release
  <2> QED
    BY <2>6, <2>8 DEF Promise!Next
<1>8. CASE UNCHANGED vars
  <2>1. SpinInv'
    BY <1>8 DEF vars, lock, SpinInv, LockTypes, OneOwner, PlainThread, RecursiveThread, Owns
  <2> QED
    BY <1>8, <2>1 DEF vars
<1> QED
  BY <1>1, <1>3, <1>4, <1>5, <1>6, <1>7, <1>8 DEF Next, Running

\* Both spin locks keep the promise of a lock: at most one thread is told that it
\* has the lock, and is told so again only by the recursive one. As long as no
\* thread comes back for the recursive lock after giving it up: the owner's id,
\* which stays behind, would let such a thread in beside another.
THEOREM LocksKeepPromise == ASSUME Returning[TRUE] = {} PROVE TSpec => KeepsPromise
<1>1. TInit => Promise!Init /\ SpinInv
  <2>1. Init => Promise!Init
    BY DEF Init, Promise!Init
  <2> QED
    BY <2>1, SpinInitially DEF TInit
<1>2. SpinInv /\ [TNext]_<<part, vars, pvars>>
      => SpinInv' /\ [Promise!Next]_<<USE_RECURSIVE_LOCKS, depth>>
  <2>1. [TNext]_<<part, vars, pvars>> => [Next]_vars
    BY DEF TNext, Locks, Params
  <2> QED
    BY <2>1, SpinStep
<1> QED
  BY <1>1, <1>2, PTL DEF TSpec, KeepsPromise, Promise!Spec

-----------------------------------------------------------------------------
(* The initialisation of mparams *)

\* A granularity leaves room in size_t for the padding of sys_alloc: a power of two
\* is at most half of it.
Leaves(g) == g + SYS_ALLOC_PADDING <= MAX_SIZE_T + 1

\* What the builds and the callers of mallopt must be like: a build's granularity
\* is a multiple of the page (dlmalloc.c: DEFAULT_GRANULARITY), and a threshold of
\* zero is never asked for. That a power of two of at least a page is a multiple of
\* it is a fact of arithmetic.
Setup ==
  /\ NoThread \notin Threads
  /\ MAX_SIZE_T \in Nat /\ SYS_ALLOC_PADDING \in 0..MAX_SIZE_T
  /\ PAGE_SIZE \in Nat /\ Leaves(PAGE_SIZE)
  /\ \A b \in Builds :
       /\ b.NEED_GLOBAL_LOCK_INIT \in BOOLEAN /\ b.LOCK_AT_FORK \in BOOLEAN
       /\ b.DEFAULT_GRANULARITY \in Nat /\ b.DEFAULT_GRANULARITY % PAGE_SIZE = 0
       /\ Leaves(b.DEFAULT_GRANULARITY)
  /\ DEFAULT_MMAP_THRESHOLD \in Nat \ {0} /\ DEFAULT_TRIM_THRESHOLD \in Nat \ {0}
  /\ \A s \in Settings :
       /\ s[1] \in {"granularity", "mmap_threshold", "trim_threshold"}
       /\ P!Value(s[2]) \in Nat \ {0}
       /\ P!IsPowerOf2(P!Value(s[2])) /\ P!Value(s[2]) >= PAGE_SIZE
          => P!Value(s[2]) % PAGE_SIZE = 0 /\ Leaves(P!Value(s[2]))
  /\ Seeds \subseteq Nat

InMparams == {"check", "fill", "init_gm", "magic", "release"}
InMalloc == {"align", "mask", "morecore", "sbrk", "postaction"}
Locations ==
  {"idle", "ensure", "status", "create", "lock", "preaction", "change", "fork", "bare"}
    \cup InMparams \cup InMalloc

\* Every parameter but magic is set, and the granularity is fit for its mask.
FilledIn ==
  /\ mparams.page_size = PAGE_SIZE
  /\ mparams.granularity \in Nat \ {0} /\ mparams.granularity % PAGE_SIZE = 0
  /\ P!IsPowerOf2(mparams.granularity) /\ Leaves(mparams.granularity)
  /\ mparams.mmap_threshold # 0 /\ mparams.trim_threshold # 0

ParamTypes ==
  /\ build \in Builds /\ alive \subseteq Threads
  /\ at \in [Threads -> Locations]
  /\ DOMAIN mparams = {"magic", "page_size", "granularity", "mmap_threshold", "trim_threshold"}
  /\ DOMAIN job = Threads /\ mflags \in BOOLEAN /\ handlers \in BOOLEAN
  /\ \A t \in Threads : job[t].kind = "mallopt" => job[t].arg \in Settings
  /\ status \in {-1, 0, 1} /\ process \in {"parent", "child", "bare"}

\* The global lock is made before anybody takes it, by one thread.
GlobalReady ==
  build.NEED_GLOBAL_LOCK_INIT /\ status # 1 =>
    /\ mparams.magic = 0 /\ ~ handlers
    /\ \A t \in alive : at[t] \in {"idle", "ensure", "status", "create", "bare"}
OneCreator ==
  /\ \A t \in alive : at[t] = "create" => status = -1
  /\ \A t \in alive : at[t] \in {"status", "create"} => build.NEED_GLOBAL_LOCK_INIT
  /\ \A t, u \in alive : at[t] = "create" /\ at[u] = "create" => t = u

\* magic says that everything else is set, and only the thread that has the
\* global lock sets it.
MagicLast ==
  /\ mparams.magic # 0 => FilledIn /\ mflags
  /\ \A t \in alive :
       /\ at[t] \in InMalloc \cup {"preaction", "change", "release"} => mparams.magic # 0
       /\ at[t] \in {"fill", "init_gm", "magic"} => mparams.magic = 0
       /\ at[t] \in {"init_gm", "magic"} => FilledIn
       /\ at[t] = "magic" => mflags
       /\ at[t] = "change" => job[t].kind = "mallopt"

\* Whoever works under a lock has it, and a lock that is had is had by one of them;
\* except the lock of the main area in a child that was made without handlers. The
\* owner of the global lock may be a thread that a fork has left behind.
LocksHeld ==
  /\ \A t \in alive : at[t] \in InMparams \cup {"sbrk"} => global = t
  /\ global # NoThread => global \in Threads /\ at[global] \in InMparams \cup {"sbrk"}
  /\ \A t \in alive : at[t] \in InMalloc \cup {"fork"} => gm_mutex = t
  /\ process # "bare" /\ gm_mutex # NoThread =>
       gm_mutex \in alive /\ at[gm_mutex] \in InMalloc \cup {"fork"}

\* The handlers are there as soon as magic is about to be written.
Registered == handlers /\ mparams.magic = 0 => global \in Threads /\ at[global] = "magic"

\* The child is the thread that forked. With handlers, none of the others was at work
\* on the main area, but one may have been in init_mparams, behind pthread_atfork.
Forked ==
  /\ \A t \in alive : at[t] \in {"fork", "bare"} => process = "parent"
  /\ \A t \in alive : at[t] = "fork" => handlers
  /\ process = "parent" => alive = Threads
  /\ process # "parent" => \A t, u \in alive : t = u
  /\ process = "child" =>
       /\ handlers /\ \A t \in Threads \ alive : at[t] \notin InMalloc \cup {"fork"}
       /\ global \notin alive \cup {NoThread} => at[global] \in {"check", "magic", "release"}
       /\ mparams.magic = 0 => global \notin alive

ParamInv ==
  ParamTypes /\ GlobalReady /\ OneCreator /\ MagicLast /\ LocksHeld /\ Registered /\ Forked

\* A thread that moves leaves the others where they are.
LEMMA ParamMoved ==
  ASSUME NEW t \in Threads, NEW l \in Locations, ParamTypes, P!Goto(t, l)
  PROVE  /\ at' \in [Threads -> Locations] /\ at'[t] = l
         /\ \A u \in Threads : u # t => at'[u] = at[u]
BY DEF ParamTypes, P!Goto

\* At first nothing is initialised and nobody has a lock.
LEMMA ParamInitially == Setup /\ P!Init => ParamInv
<1> SUFFICES ASSUME Setup, P!Init PROVE ParamInv
  OBVIOUS
<1>1. /\ build \in Builds /\ mparams = P!Unset /\ mflags = FALSE /\ status = 0
      /\ global = NoThread /\ gm_mutex = NoThread /\ handlers = FALSE /\ process = "parent"
      /\ alive = Threads /\ at = [t \in Threads |-> "idle"]
      /\ job = [t \in Threads |-> [kind |-> "malloc", arg |-> 0]]
  BY DEF P!Init
<1>2. /\ DOMAIN mparams = {"magic", "page_size", "granularity", "mmap_threshold", "trim_threshold"}
      /\ mparams.magic = 0
  BY <1>1 DEF P!Unset
<1>3. \A t \in Threads : at[t] = "idle" /\ job[t].kind = "malloc"
  BY <1>1
<1>4. ParamTypes
  <2>1. at \in [Threads -> Locations] /\ DOMAIN job = Threads
    BY <1>1 DEF Locations
  <2>2. mflags \in BOOLEAN /\ handlers \in BOOLEAN
    BY <1>1
  <2> QED
    BY <1>1, <1>2, <1>3, <2>1, <2>2 DEF ParamTypes
<1>5. GlobalReady /\ OneCreator
  BY <1>1, <1>2, <1>3 DEF GlobalReady, OneCreator
<1>6. MagicLast /\ LocksHeld /\ Registered /\ Forked
  BY <1>1, <1>2, <1>3 DEF MagicLast, LocksHeld, Registered, Forked, InMalloc, InMparams
<1> QED
  BY <1>4, <1>5, <1>6 DEF ParamInv

\* A thread that only moves on, and finds what it needs where it goes.
LEMMA MoveKeeps ==
  ASSUME ParamInv, NEW t \in alive,
         NEW l \in Locations \ {"create", "fork", "bare", "init_gm", "magic"},
         P!Goto(t, l), at[t] \notin {"fork", "magic"}, UNCHANGED <<P!params, P!locks, P!world>>,
         l = "status" => build.NEED_GLOBAL_LOCK_INIT,
         build.NEED_GLOBAL_LOCK_INIT /\ status # 1 => l \in {"idle", "ensure", "status"},
         l \in InMalloc \cup {"preaction", "change", "release"} => mparams.magic # 0,
         l = "fill" => mparams.magic = 0,
         l \in InMparams \cup {"sbrk"} => global = t,
         at[t] \in InMparams \cup {"sbrk"} => l \in {"fill", "release"},
         l \in InMalloc <=> at[t] \in InMalloc,
         l = "change" => job'[t].kind = "mallopt",
         DOMAIN job' = Threads, \A u \in alive : u # t => job'[u].kind = job[u].kind,
         \A u \in Threads : job'[u].kind = "mallopt" => job'[u].arg \in Settings
  PROVE  ParamInv'
<1>0. ParamTypes /\ t \in Threads /\ alive \subseteq Threads /\ l \in Locations
  BY DEF ParamInv, ParamTypes
<1>1. /\ at' \in [Threads -> Locations] /\ at'[t] = l
      /\ \A u \in Threads : u # t => at'[u] = at[u]
  BY <1>0, ParamMoved
<1>2. UNCHANGED <<mparams, mflags, status, global, gm_mutex, build, handlers, process, alive>>
  BY DEF P!params, P!locks, P!world
<1>3. ParamTypes'
  BY <1>0, <1>1, <1>2 DEF ParamTypes
<1>4. GlobalReady' /\ OneCreator'
  BY <1>0, <1>1, <1>2 DEF ParamInv, GlobalReady, OneCreator
<1>5. MagicLast'
  <2>1. FilledIn' <=> FilledIn
    BY <1>2 DEF FilledIn
  <2> QED
    BY <1>0, <1>1, <1>2, <2>1 DEF ParamInv, MagicLast
<1>6. LocksHeld'
  <2>1. LocksHeld
    BY DEF ParamInv
  <2>2. at[t] \in InMparams \cup {"sbrk"} => l \in InMparams \cup {"sbrk"}
    BY DEF InMparams
  <2> QED
    BY <1>0, <1>1, <1>2, <2>1, <2>2 DEF LocksHeld
<1>7. Registered' /\ Forked'
  <2>1. Registered'
    BY <1>0, <1>1, <1>2 DEF ParamInv, Registered
  <2>2. Forked'
    <3>1. Forked /\ (global # NoThread => global \in Threads)
      BY DEF ParamInv, LocksHeld
    <3>2. /\ \A u \in Threads \ alive : at'[u] = at[u]
          /\ \A u \in alive : at'[u] \in {"fork", "bare"} => at'[u] = at[u]
      BY <1>0, <1>1
    <3> QED
      BY <1>0, <1>2, <3>1, <3>2 DEF Forked
  <2> QED
    BY <2>1, <2>2
<1> QED
  BY <1>3, <1>4, <1>5, <1>6, <1>7 DEF ParamInv

\* Where a thread goes from the initialisation.
LEMMA WorkPlaces ==
  ASSUME ParamTypes, NEW t \in Threads
  PROVE  P!Work(t) \in {"change", "preaction"} /\ (P!Work(t) = "change" => job[t].kind = "mallopt")
BY DEF P!Work

\* The steps that only read: what is read without a lock is magic, which is set last.
LEMMA MovesKeep ==
  ASSUME Setup, ParamInv, NEW t \in Threads,
         \/ P!Call(t) \/ P!EnsureInitialization(t) \/ P!GlobalMutexReady(t) \/ P!Check(t)
         \/ P!AlignFirst(t) \/ P!AlignSecond(t)
  PROVE  ParamInv'
<1>0. ParamTypes
  BY DEF ParamInv
<1>1. CASE P!Call(t)
  <2>1. /\ t \in alive /\ at[t] = "idle" /\ P!Goto(t, "ensure")
        /\ UNCHANGED <<P!params, P!locks, P!world>>
    BY <1>1 DEF P!Call, P!At
  <2>2. \/ \E n : job' = [job EXCEPT ![t] = [kind |-> "malloc", arg |-> n]]
        \/ \E s \in Settings : job' = [job EXCEPT ![t] = [kind |-> "mallopt", arg |-> s]]
    BY <1>1 DEF P!Call
  <2>3. /\ DOMAIN job' = Threads /\ \A u \in Threads : u # t => job'[u] = job[u]
        /\ job'[t].kind = "mallopt" => job'[t].arg \in Settings
    BY <1>0, <2>2 DEF ParamTypes
  <2>4. \A u \in Threads : job'[u].kind = "mallopt" => job'[u].arg \in Settings
    BY <1>0, <2>3 DEF ParamTypes
  <2>5. \A u \in alive : u # t => job'[u].kind = job[u].kind
    BY <1>0, <2>3 DEF ParamTypes
  <2> QED
    BY <2>1, <2>3, <2>4, <2>5, MoveKeeps DEF Locations, InMalloc, InMparams
<1>2. ASSUME UNCHANGED job
      PROVE  /\ DOMAIN job' = Threads /\ \A u \in alive : u # t => job'[u].kind = job[u].kind
             /\ \A u \in Threads : job'[u].kind = "mallopt" => job'[u].arg \in Settings
  BY <1>0, <1>2 DEF ParamTypes
<1>3. CASE P!EnsureInitialization(t)
  <2>1. /\ t \in alive /\ at[t] = "ensure" /\ UNCHANGED <<P!params, P!locks, P!world>>
        /\ UNCHANGED job
    BY <1>3 DEF P!EnsureInitialization, P!At, P!frames
  <2>2. CASE mparams.magic # 0
    <3>1. P!Goto(t, P!Work(t))
      BY <1>3, <2>2 DEF P!EnsureInitialization
    <3>2. ~ (build.NEED_GLOBAL_LOCK_INIT /\ status # 1)
      BY <2>2 DEF ParamInv, GlobalReady
    <3> QED
      BY <1>0, <1>2, <2>1, <2>2, <3>1, <3>2, WorkPlaces, MoveKeeps DEF Locations, InMalloc, InMparams
  <2>3. CASE mparams.magic = 0 /\ build.NEED_GLOBAL_LOCK_INIT
    <3>1. P!Goto(t, "status")
      BY <1>3, <2>3 DEF P!EnsureInitialization, P!NEED_GLOBAL_LOCK_INIT
    <3> QED
      BY <1>2, <2>1, <2>3, <3>1, MoveKeeps DEF Locations, InMalloc, InMparams
  <2>4. CASE mparams.magic = 0 /\ ~ build.NEED_GLOBAL_LOCK_INIT
    <3>1. P!Goto(t, "lock")
      BY <1>3, <2>4 DEF P!EnsureInitialization, P!NEED_GLOBAL_LOCK_INIT
    <3> QED
      BY <1>2, <2>1, <2>4, <3>1, MoveKeeps DEF Locations, InMalloc, InMparams
  <2> QED
    BY <2>2, <2>3, <2>4
<1>4. CASE P!GlobalMutexReady(t)
  <2>1. /\ t \in alive /\ at[t] = "status" /\ UNCHANGED <<P!params, P!locks, P!world>>
        /\ UNCHANGED job /\ P!Goto(t, "lock") /\ status > 0
    BY <1>4 DEF P!GlobalMutexReady, P!At, P!frames
  <2>2. status = 1
    BY <1>0, <2>1 DEF ParamTypes
  <2> QED
    BY <1>2, <2>1, <2>2, MoveKeeps DEF Locations, InMalloc, InMparams
<1>5. CASE P!Check(t)
  <2>1. /\ t \in alive /\ at[t] = "check" /\ UNCHANGED <<P!params, P!locks, P!world>>
        /\ UNCHANGED job
        /\ P!Goto(t, IF mparams.magic = 0 THEN "fill" ELSE "release")
    BY <1>5 DEF P!Check, P!At, P!frames, P!StillZero
  <2>2. /\ global = t /\ ~ (build.NEED_GLOBAL_LOCK_INIT /\ status # 1)
    BY <2>1 DEF ParamInv, LocksHeld, GlobalReady, InMparams
  <2>3. CASE mparams.magic = 0
    BY <1>2, <2>1, <2>2, <2>3, MoveKeeps DEF Locations, InMalloc, InMparams
  <2>4. CASE mparams.magic # 0
    BY <1>2, <2>1, <2>2, <2>4, MoveKeeps DEF Locations, InMalloc, InMparams
  <2> QED
    BY <2>3, <2>4
<1>6. CASE P!AlignFirst(t) \/ P!AlignSecond(t)
  <2>1. /\ t \in alive /\ at[t] \in {"align", "mask"} /\ UNCHANGED <<P!params, P!locks, P!world>>
        /\ UNCHANGED job
        /\ \E l \in {"mask", "morecore", "postaction"} : P!Goto(t, l)
    BY <1>6 DEF P!AlignFirst, P!AlignSecond, P!At
  <2>2. PICK l \in {"mask", "morecore", "postaction"} : P!Goto(t, l)
    BY <2>1
  <2>3. mparams.magic # 0 /\ ~ (build.NEED_GLOBAL_LOCK_INIT /\ status # 1)
    BY <2>1 DEF ParamInv, MagicLast, GlobalReady, InMalloc
  <2> QED
    BY <1>2, <2>1, <2>2, <2>3, MoveKeeps DEF Locations, InMalloc, InMparams
<1> QED
  BY <1>1, <1>3, <1>4, <1>5, <1>6

-----------------------------------------------------------------------------
\* One thread makes the global lock, before anybody can take it.
LEMMA CreateKeeps ==
  ASSUME Setup, ParamInv, NEW t \in Threads, P!GlobalMutexClaim(t) \/ P!GlobalMutexCreate(t)
  PROVE  ParamInv'
<1>0. ParamTypes /\ NoThread \notin alive
  BY DEF ParamInv, ParamTypes, Setup
<1>1. PICK l \in {"create", "lock"} :
        /\ t \in alive /\ P!Goto(t, l)
        /\ UNCHANGED <<mparams, mflags, gm_mutex, build, handlers, process, alive, job>>
        /\ \/ l = "create" /\ at[t] = "status" /\ status = 0 /\ status' = -1 /\ global' = global
           \/ l = "lock" /\ at[t] = "create" /\ status' = 1 /\ global' = NoThread
  BY DEF P!GlobalMutexClaim, P!GlobalMutexCreate, P!Claim, P!params, P!world, P!frames, P!At
<1>2. /\ at' \in [Threads -> Locations] /\ at'[t] = l
      /\ \A u \in Threads : u # t => at'[u] = at[u]
  BY <1>0, <1>1, ParamMoved DEF Locations
<1>3. build.NEED_GLOBAL_LOCK_INIT /\ status # 1
  <2>1. CASE l = "create"
    BY <1>1, <2>1 DEF ParamInv, OneCreator
  <2>2. CASE l = "lock"
    BY <1>1, <2>2 DEF ParamInv, OneCreator
  <2> QED
    BY <1>1, <2>1, <2>2
<1>4. /\ mparams.magic = 0 /\ ~ handlers
      /\ \A u \in alive : at[u] \in {"idle", "ensure", "status", "create", "bare"}
  BY <1>3 DEF ParamInv, GlobalReady
<1>5. ParamTypes'
  BY <1>0, <1>1, <1>2 DEF ParamTypes
<1>6. GlobalReady'
  BY <1>0, <1>1, <1>2, <1>4 DEF GlobalReady, ParamTypes
<1>7. OneCreator'
  <2>1. OneCreator
    BY DEF ParamInv
  <2>2. CASE l = "create"
    <3>1. \A u \in alive : at[u] # "create"
      BY <1>1, <2>1, <2>2 DEF OneCreator
    <3> QED
      BY <1>0, <1>1, <1>2, <1>3, <2>2, <3>1 DEF OneCreator, ParamTypes
  <2>3. CASE l = "lock"
    <3>1. \A u \in alive : u # t => at[u] # "create"
      BY <1>1, <2>1, <2>3 DEF OneCreator
    <3> QED
      BY <1>0, <1>1, <1>2, <1>3, <2>1, <2>3, <3>1 DEF OneCreator, ParamTypes
  <2> QED
    BY <1>1, <2>2, <2>3
<1>8. \A u \in alive : at'[u] \notin InMparams \cup InMalloc \cup {"preaction", "change", "fork"}
  BY <1>0, <1>1, <1>2, <1>4 DEF InMparams, InMalloc, ParamTypes
<1>9. MagicLast'
  BY <1>1, <1>4, <1>8 DEF MagicLast, InMparams
<1>10. LocksHeld'
  <2>1. process # "bare" => gm_mutex = NoThread
    BY <1>4 DEF ParamInv, LocksHeld, InMalloc
  <2>2. global' # NoThread =>
          global' \in Threads /\ at'[global'] \in InMparams \cup {"sbrk"}
    <3>1. global' # NoThread => global' = global /\ global # NoThread /\ at[t] = "status"
      BY <1>1
    <3>2. at[t] \notin InMparams \cup {"sbrk"}
      BY <1>1 DEF InMparams
    <3> QED
      BY <1>2, <3>1, <3>2 DEF ParamInv, LocksHeld
  <2> QED
    BY <1>1, <1>8, <2>1, <2>2 DEF LocksHeld, InMalloc
<1>11. Registered' /\ Forked'
  <2>1. Registered'
    BY <1>1, <1>4 DEF Registered
  <2>2. process # "child"
    BY <1>4 DEF ParamInv, Forked
  <2> QED
    BY <1>0, <1>1, <1>2, <1>8, <2>1, <2>2 DEF ParamInv, Forked, ParamTypes
<1> QED
  BY <1>5, <1>6, <1>7, <1>9, <1>10, <1>11 DEF ParamInv

\* Whoever takes the global lock, for init_mparams or for MORECORE, finds it free,
\* and gives it back.
LEMMA GlobalKeeps ==
  ASSUME Setup, ParamInv, NEW t \in Threads,
         P!AcquireGlobal(t) \/ P!ReleaseGlobal(t) \/ P!MorecoreBegin(t) \/ P!MorecoreEnd(t)
  PROVE  ParamInv'
<1>0. ParamTypes /\ NoThread \notin alive
  BY DEF ParamInv, ParamTypes, Setup
<1>1. PICK l \in {"check", "change", "preaction", "sbrk", "postaction"} :
        /\ t \in alive /\ P!Goto(t, l)
        /\ UNCHANGED <<mparams, mflags, status, gm_mutex, build, handlers, process, alive, job>>
        /\ \/ l = "check" /\ at[t] = "lock" /\ global = NoThread /\ global' = t
           \/ l = "sbrk" /\ at[t] = "morecore" /\ global = NoThread /\ global' = t
           \/ l \in {"change", "preaction"} /\ at[t] = "release" /\ global' = NoThread
              /\ (l = "change" => job[t].kind = "mallopt")
           \/ l = "postaction" /\ at[t] = "sbrk" /\ global' = NoThread
  <2>1. CASE P!AcquireGlobal(t)
    BY <2>1 DEF P!AcquireGlobal, P!params, P!world, P!frames, P!At
  <2>2. CASE P!MorecoreBegin(t)
    BY <2>2 DEF P!MorecoreBegin, P!params, P!world, P!frames, P!At
  <2>3. CASE P!ReleaseGlobal(t)
    BY <1>0, <2>3, WorkPlaces DEF P!ReleaseGlobal, P!params, P!world, P!frames, P!At
  <2>4. CASE P!MorecoreEnd(t)
    BY <2>4 DEF P!MorecoreEnd, P!params, P!world, P!frames, P!At
  <2> QED
    BY <2>1, <2>2, <2>3, <2>4
<1>2. /\ at' \in [Threads -> Locations] /\ at'[t] = l
      /\ \A u \in Threads : u # t => at'[u] = at[u]
  BY <1>0, <1>1, ParamMoved DEF Locations, InMparams, InMalloc
<1>3. ParamTypes'
  BY <1>0, <1>1, <1>2 DEF ParamTypes
<1>4. GlobalReady' /\ OneCreator'
  <2>1. ~ (build.NEED_GLOBAL_LOCK_INIT /\ status # 1)
    BY <1>1 DEF ParamInv, GlobalReady
  <2> QED
    BY <1>0, <1>1, <1>2, <2>1 DEF ParamInv, GlobalReady, OneCreator, ParamTypes
<1>5. MagicLast'
  <2>1. FilledIn' <=> FilledIn
    BY <1>1 DEF FilledIn
  <2>2. l # "check" => mparams.magic # 0
    BY <1>1 DEF ParamInv, MagicLast, InMalloc
  <2>3. MagicLast /\ alive \subseteq Threads
    BY <1>0 DEF ParamInv, ParamTypes
  <2>4. UNCHANGED <<mparams, mflags, handlers, build, alive, job>>
    BY <1>1
  <2>5. ASSUME NEW u \in alive
        PROVE  /\ at'[u] \in InMalloc \cup {"preaction", "change", "release"} => mparams.magic # 0
               /\ at'[u] \in {"fill", "init_gm", "magic"} => mparams.magic = 0
               /\ at'[u] \in {"init_gm", "magic"} => FilledIn
               /\ at'[u] = "magic" => mflags
               /\ at'[u] = "change" => job[u].kind = "mallopt"
    <3>1. CASE u = t
      BY <1>1, <1>2, <2>2, <2>3, <3>1 DEF InMalloc
    <3>2. CASE u # t
      BY <1>2, <2>3, <3>2 DEF MagicLast
    <3> QED
      BY <3>1, <3>2
  <2> QED
    BY <2>1, <2>3, <2>4, <2>5 DEF MagicLast
<1>6. LocksHeld'
  <2>1. LocksHeld
    BY DEF ParamInv
  <2>2. \A u \in alive : u # t => at[u] \notin InMparams \cup {"sbrk"}
    BY <1>0, <1>1, <2>1 DEF LocksHeld, InMparams
  <2>3. \A u \in alive : at'[u] \in InMparams \cup {"sbrk"} => global' = u
    BY <1>0, <1>1, <1>2, <2>2 DEF ParamTypes, InMparams
  <2>4. at'[t] \in InMalloc <=> at[t] \in InMalloc
    BY <1>1, <1>2 DEF InMalloc
  <2>5. at[t] # "fork" /\ at'[t] # "fork"
    BY <1>1, <1>2
  <2>6. global' # NoThread => global' = t /\ at'[t] \in InMparams \cup {"sbrk"}
    BY <1>1, <1>2 DEF InMparams
  <2> QED
    BY <1>0, <1>1, <1>2, <2>1, <2>3, <2>4, <2>5, <2>6 DEF LocksHeld, ParamTypes
<1>7. Registered' /\ Forked'
  <2>1. Registered /\ Forked /\ LocksHeld /\ MagicLast
    BY DEF ParamInv
  <2>2. /\ global = NoThread \/ global = t
        /\ global # NoThread => at[t] \in {"release", "sbrk"}
    BY <1>1, <2>1 DEF LocksHeld, InMparams
  <2>3. handlers => mparams.magic # 0
    BY <1>0, <1>1, <2>1, <2>2 DEF Registered, Setup
  <2>4. Registered'
    BY <1>1, <2>3 DEF Registered
  <2>5. global' \in alive \cup {NoThread}
    BY <1>1
  <2> QED
    BY <1>0, <1>1, <1>2, <2>1, <2>3, <2>4, <2>5 DEF Forked, ParamTypes
<1> QED
  BY <1>3, <1>4, <1>5, <1>6, <1>7 DEF ParamInv

\* Whoever takes the lock of the main malloc area, or forks with handlers, finds it free.
LEMMA AreaKeeps ==
  ASSUME Setup, ParamInv, NEW t \in Threads,
         P!Preaction(t) \/ P!Postaction(t) \/ P!PreFork(t) \/ P!PostForkParent(t)
  PROVE  ParamInv'
<1>0. ParamTypes /\ NoThread \notin alive
  BY DEF ParamInv, ParamTypes, Setup
<1>1. PICK l \in {"align", "idle", "fork", "bare"} :
        /\ t \in alive /\ P!Goto(t, l)
        /\ UNCHANGED <<mparams, mflags, status, global, build, handlers, process, alive, job>>
        /\ \/ /\ l = "align" /\ at[t] = "preaction"
              /\ (mflags => gm_mutex = NoThread /\ gm_mutex' = t)
           \/ /\ l = "fork" /\ at[t] = "idle" /\ process = "parent" /\ handlers
              /\ gm_mutex = NoThread /\ gm_mutex' = t
           \/ /\ l = "bare" /\ at[t] = "idle" /\ process = "parent" /\ gm_mutex' = gm_mutex
           \/ l = "idle" /\ at[t] = "postaction" /\ (mflags => gm_mutex' = NoThread)
           \/ l = "idle" /\ at[t] = "fork" /\ gm_mutex' = NoThread
           \/ l = "idle" /\ at[t] = "bare" /\ gm_mutex' = gm_mutex
  <2>1. CASE P!Preaction(t)
    BY <2>1 DEF P!Preaction, P!params, P!world, P!frames, P!At
  <2>2. CASE P!PreFork(t)
    <3>1. /\ t \in alive /\ at[t] = "idle" /\ process = "parent"
          /\ UNCHANGED <<P!params, status, global, P!world, P!frames>>
      BY <2>2 DEF P!PreFork, P!At
    <3>2. CASE handlers /\ gm_mutex = NoThread /\ gm_mutex' = t /\ P!Goto(t, "fork")
      BY <3>1, <3>2 DEF P!params, P!world, P!frames
    <3>3. CASE UNCHANGED gm_mutex /\ P!Goto(t, "bare")
      BY <3>1, <3>3 DEF P!params, P!world, P!frames
    <3> QED
      BY <2>2, <3>2, <3>3 DEF P!PreFork
  <2>3. CASE P!Postaction(t)
    BY <2>3 DEF P!Postaction, P!params, P!world, P!At
  <2>4. CASE P!PostForkParent(t)
    BY <2>4 DEF P!PostForkParent, P!params, P!world, P!frames, P!At
  <2> QED
    BY <2>1, <2>2, <2>3, <2>4
<1>2. /\ at' \in [Threads -> Locations] /\ at'[t] = l
      /\ \A u \in Threads : u # t => at'[u] = at[u]
  BY <1>0, <1>1, ParamMoved DEF Locations, InMparams, InMalloc
<1>3. ParamTypes'
  BY <1>0, <1>1, <1>2 DEF ParamTypes
<1>4. at[t] \in {"preaction", "postaction"} => mparams.magic # 0 /\ mflags
  BY <1>1 DEF ParamInv, MagicLast, InMalloc
<1>5. at[t] \notin {"idle", "bare"} \/ l = "fork" => ~ (build.NEED_GLOBAL_LOCK_INIT /\ status # 1)
  BY <1>1 DEF ParamInv, GlobalReady
<1>6. \/ l \in {"align", "fork"} /\ at[t] \in {"preaction", "idle"} /\ gm_mutex = NoThread /\ gm_mutex' = t
      \/ l = "idle" /\ at[t] \in {"postaction", "fork"} /\ gm_mutex' = NoThread
      \/ l \in {"idle", "bare"} /\ at[t] \in {"idle", "bare"} /\ gm_mutex' = gm_mutex
  BY <1>1, <1>4
<1>7. GlobalReady' /\ OneCreator'
  <2>1. GlobalReady /\ OneCreator
    BY DEF ParamInv
  <2>2. l \in {"idle", "bare"} \/ ~ (build.NEED_GLOBAL_LOCK_INIT /\ status # 1)
    BY <1>1, <1>5
  <2> QED
    BY <1>0, <1>1, <1>2, <2>1, <2>2 DEF GlobalReady, OneCreator, ParamTypes
<1>8. MagicLast'
  <2>1. FilledIn' <=> FilledIn
    BY <1>1 DEF FilledIn
  <2>2. l = "align" => mparams.magic # 0
    BY <1>1, <1>4
  <2> QED
    BY <1>0, <1>1, <1>2, <2>1, <2>2 DEF ParamInv, MagicLast, ParamTypes, InMalloc
<1>9. LocksHeld'
  <2>1. LocksHeld /\ Forked
    BY DEF ParamInv
  <2>2. at[t] \notin InMparams \cup {"sbrk"} /\ l \notin InMparams \cup {"sbrk"}
    BY <1>1 DEF InMparams
  <2>3. /\ \A u \in alive : at'[u] \in InMparams \cup {"sbrk"} => global' = u
        /\ global' # NoThread => global' \in Threads /\ at'[global'] \in InMparams \cup {"sbrk"}
    BY <1>0, <1>1, <1>2, <2>1, <2>2 DEF LocksHeld, ParamTypes
  <2>4. CASE l \in {"align", "fork"} /\ gm_mutex = NoThread /\ gm_mutex' = t
    <3>1. \A u \in alive : at[u] \notin InMalloc \cup {"fork"}
      BY <1>0, <2>1, <2>4 DEF LocksHeld
    <3>2. \A u \in alive : u # t => at'[u] \notin InMalloc \cup {"fork"}
      BY <1>0, <1>2, <3>1 DEF ParamTypes
    <3>3. at'[t] \in InMalloc \cup {"fork"} /\ alive' = alive
      BY <1>1, <1>2, <2>4 DEF InMalloc
    <3> QED
      BY <1>1, <2>3, <2>4, <3>2, <3>3 DEF LocksHeld
  <2>5. CASE l = "idle" /\ at[t] \in {"postaction", "fork"} /\ gm_mutex' = NoThread
    <3>1. gm_mutex = t
      BY <1>1, <2>1, <2>5 DEF LocksHeld, InMalloc
    <3>2. \A u \in alive : u # t => at[u] \notin InMalloc \cup {"fork"}
      BY <2>1, <3>1 DEF LocksHeld
    <3>3. \A u \in alive : at'[u] \notin InMalloc \cup {"fork"}
      BY <1>0, <1>2, <2>5, <3>2 DEF ParamTypes, InMalloc
    <3> QED
      BY <1>1, <2>3, <2>5, <3>3 DEF LocksHeld
  <2>6. CASE l \in {"idle", "bare"} /\ at[t] \in {"idle", "bare"} /\ gm_mutex' = gm_mutex
    <3>1. at[t] \notin InMalloc \cup {"fork"} /\ at'[t] \notin InMalloc \cup {"fork"}
      BY <1>2, <2>6 DEF InMalloc
    <3> QED
      BY <1>0, <1>1, <1>2, <2>1, <2>3, <2>6, <3>1 DEF LocksHeld, ParamTypes
  <2> QED
    BY <1>6, <2>4, <2>5, <2>6
<1>10. Registered' /\ Forked'
  <2>1. Registered /\ Forked
    BY DEF ParamInv
  <2>2. at[t] \notin {"check", "magic", "release"}
    BY <1>1
  <2>3. Registered'
    BY <1>0, <1>1, <1>2, <2>1, <2>2 DEF Registered
  <2>4. l \in {"fork", "bare"} => process = "parent" /\ (l = "fork" => handlers)
    BY <1>1
  <2>5. \A u \in Threads \ alive : at'[u] = at[u]
    BY <1>1, <1>2
  <2>6. process = "child" /\ global \notin alive \cup {NoThread} => at'[global] = at[global]
    <3>1. global # NoThread => global \in Threads
      BY DEF ParamInv, LocksHeld
    <3> QED
      BY <1>1, <1>2, <3>1
  <2> QED
    BY <1>0, <1>1, <1>2, <2>1, <2>3, <2>4, <2>5, <2>6 DEF Forked, ParamTypes
<1> QED
  BY <1>3, <1>7, <1>8, <1>9, <1>10 DEF ParamInv

-----------------------------------------------------------------------------
\* The parameters as init_mparams fills them in.
LEMMA FilledRight ==
  ASSUME Setup, ParamTypes, mparams' = P!Filled
  PROVE  /\ FilledIn' /\ mparams'.magic = mparams.magic /\ DOMAIN mparams' = DOMAIN mparams
<1>1. /\ P!IsPowerOf2(PAGE_SIZE) /\ PAGE_SIZE \in Nat
      /\ build.DEFAULT_GRANULARITY \in Nat /\ build.DEFAULT_GRANULARITY % PAGE_SIZE = 0
      /\ build.DEFAULT_GRANULARITY # 0 => P!IsPowerOf2(build.DEFAULT_GRANULARITY)
      /\ Leaves(PAGE_SIZE) /\ Leaves(build.DEFAULT_GRANULARITY)
  BY MparamsSanityCheck DEF P!SanityCheck, Setup, ParamTypes
<1>2. PAGE_SIZE \in Nat \ {0} /\ PAGE_SIZE % PAGE_SIZE = 0
  <2>1. PAGE_SIZE > 0
    BY <1>1 DEF P!IsPowerOf2
  <2> QED
    BY <1>1, <2>1
<1> DEFINE g == IF build.DEFAULT_GRANULARITY # 0 THEN build.DEFAULT_GRANULARITY ELSE PAGE_SIZE
<1>3. g \in Nat \ {0} /\ g % PAGE_SIZE = 0 /\ P!IsPowerOf2(g) /\ Leaves(g)
  BY <1>1, <1>2
<1>4. mparams' = [mparams EXCEPT !.page_size = PAGE_SIZE, !.granularity = g,
                    !.mmap_threshold = DEFAULT_MMAP_THRESHOLD,
                    !.trim_threshold = DEFAULT_TRIM_THRESHOLD]
  BY DEF P!Filled, P!DEFAULT_GRANULARITY
<1> HIDE DEF g
<1>5. /\ mparams'.page_size = PAGE_SIZE /\ mparams'.granularity = g
      /\ mparams'.mmap_threshold = DEFAULT_MMAP_THRESHOLD
      /\ mparams'.trim_threshold = DEFAULT_TRIM_THRESHOLD
      /\ mparams'.magic = mparams.magic /\ DOMAIN mparams' = DOMAIN mparams
  BY <1>4 DEF ParamTypes
<1>6. mparams'.mmap_threshold # 0 /\ mparams'.trim_threshold # 0
  BY <1>5 DEF Setup
<1> QED
  BY <1>3, <1>5, <1>6 DEF FilledIn

\* The thread that has the global lock initialises, and sets magic last.
LEMMA InitKeeps ==
  ASSUME Setup, ParamInv, NEW t \in Threads, P!Fill(t) \/ P!InitGm(t) \/ P!SetMagic(t)
  PROVE  ParamInv'
<1>0. ParamTypes /\ NoThread \notin alive /\ alive \subseteq Threads
  BY DEF ParamInv, ParamTypes, Setup
<1>1. PICK l \in {"init_gm", "magic", "release"} :
        /\ t \in alive /\ P!Goto(t, l)
        /\ UNCHANGED <<status, global, build, process, alive, job>>
        /\ \/ /\ l = "init_gm" /\ at[t] = "fill" /\ mparams' = P!Filled
              /\ UNCHANGED <<mflags, gm_mutex, handlers>>
           \/ /\ l = "magic" /\ at[t] = "init_gm" /\ UNCHANGED mparams /\ mflags'
              /\ mflags' \in BOOLEAN /\ gm_mutex' = NoThread
              /\ handlers' = build.LOCK_AT_FORK
           \/ /\ l = "release" /\ at[t] = "magic"
              /\ \E raw \in Seeds : mparams' = [mparams EXCEPT !.magic = P!Magic(raw)]
              /\ UNCHANGED <<mflags, gm_mutex, handlers>>
  <2>1. CASE P!Fill(t)
    BY <2>1 DEF P!Fill, P!locks, P!world, P!frames, P!At
  <2>2. CASE P!InitGm(t)
    BY <2>2 DEF P!InitGm, P!frames, P!At, P!LOCK_AT_FORK
  <2>3. CASE P!SetMagic(t)
    BY <2>3 DEF P!SetMagic, P!locks, P!world, P!frames, P!At
  <2> QED
    BY <2>1, <2>2, <2>3
<1>2. /\ at' \in [Threads -> Locations] /\ at'[t] = l
      /\ \A u \in Threads : u # t => at'[u] = at[u]
  BY <1>0, <1>1, ParamMoved DEF Locations, InMparams, InMalloc
<1>3. /\ mparams.magic = 0 /\ (l # "init_gm" => FilledIn)
      /\ l = "release" => mflags
      /\ ~ (build.NEED_GLOBAL_LOCK_INIT /\ status # 1)
      /\ global = t /\ process # "child"
      /\ l # "release" => ~ handlers
  <2>1. /\ mparams.magic = 0 /\ (l # "init_gm" => FilledIn)
        /\ l = "release" => mflags
        /\ ~ (build.NEED_GLOBAL_LOCK_INIT /\ status # 1) /\ global = t
    BY <1>1 DEF ParamInv, MagicLast, GlobalReady, LocksHeld, InMparams
  <2>2. process # "child"
    BY <1>1, <2>1 DEF ParamInv, Forked
  <2>3. l # "release" => ~ handlers
    BY <1>1, <2>1 DEF ParamInv, Registered
  <2> QED
    BY <2>1, <2>2, <2>3
<1>4. \A u \in alive :
        at[u] \notin InMalloc \cup {"preaction", "change", "release"}
  BY <1>3 DEF ParamInv, MagicLast
<1>5. \A u \in alive : u # t => at[u] \notin InMparams \cup {"sbrk"}
  BY <1>1 DEF ParamInv, LocksHeld, InMparams
<1>6. /\ FilledIn' /\ DOMAIN mparams' = DOMAIN mparams
      /\ l # "release" => mparams'.magic = 0
      /\ l = "release" => mparams'.magic # 0
  <2>1. CASE l = "init_gm"
    BY <1>0, <1>1, <1>3, <2>1, FilledRight
  <2>2. CASE l = "magic"
    BY <1>1, <1>3, <2>2 DEF FilledIn
  <2>3. CASE l = "release"
    <3>1. PICK raw \in Seeds : mparams' = [mparams EXCEPT !.magic = P!Magic(raw)]
      BY <1>1, <2>3
    <3>2. P!Magic(raw) # 0
      <4>1. raw \in Nat
        BY DEF Setup
      <4> QED
        BY <4>1 DEF P!Magic
    <3>3. /\ mparams'.magic = P!Magic(raw) /\ mparams'.page_size = mparams.page_size
          /\ mparams'.granularity = mparams.granularity /\ DOMAIN mparams' = DOMAIN mparams
          /\ mparams'.mmap_threshold = mparams.mmap_threshold
          /\ mparams'.trim_threshold = mparams.trim_threshold
      BY <1>0, <3>1 DEF ParamTypes
    <3> QED
      BY <1>3, <2>3, <3>2, <3>3 DEF FilledIn
  <2> QED
    BY <1>1, <2>1, <2>2, <2>3
<1>7. handlers' \in BOOLEAN /\ (l # "init_gm" => mflags')
  BY <1>0, <1>1, <1>3 DEF Setup, ParamTypes
<1>8. ParamTypes'
  BY <1>0, <1>1, <1>2, <1>6, <1>7 DEF ParamTypes
<1>9. GlobalReady' /\ OneCreator'
  BY <1>0, <1>1, <1>2, <1>3 DEF ParamInv, GlobalReady, OneCreator
<1>10. MagicLast'
  <2>1. ASSUME NEW u \in alive, u # t
        PROVE  at'[u] \notin InMalloc \cup {"preaction", "change", "release"} \cup InMparams
    BY <1>0, <1>2, <1>4, <1>5, <2>1
  <2>2. alive' = alive /\ l \notin InMalloc \cup {"preaction", "change"}
    BY <1>1 DEF InMalloc
  <2> QED
    BY <1>1, <1>2, <1>6, <1>7, <2>1, <2>2 DEF MagicLast, InMparams
<1>11. LocksHeld'
  <2>1. LocksHeld
    BY DEF ParamInv
  <2>2. \A u \in alive : at'[u] \notin InMalloc
    BY <1>0, <1>1, <1>2, <1>4 DEF InMalloc
  <2>3. \A u \in alive : at'[u] = "fork" <=> at[u] = "fork"
    BY <1>0, <1>1, <1>2
  <2>4. \A u \in alive : u # t => at'[u] \notin InMparams \cup {"sbrk"}
    BY <1>0, <1>2, <1>5
  <2>5. at'[t] \in InMparams /\ global' = t /\ t \in Threads
    BY <1>1, <1>2, <1>3 DEF InMparams
  <2>6. CASE l # "magic"
    <3>1. gm_mutex' = gm_mutex
      BY <1>1, <2>6
    <3>2. \A u \in alive : at[u] \in InMalloc \cup {"fork"} <=> at'[u] \in InMalloc \cup {"fork"}
      BY <1>4, <2>2, <2>3
    <3> QED
      BY <1>1, <2>1, <2>4, <2>5, <3>1, <3>2 DEF LocksHeld
  <2>7. CASE l = "magic"
    <3>1. \A u \in alive : at[u] # "fork"
      BY <1>3, <2>7 DEF ParamInv, Forked
    <3>2. gm_mutex' = NoThread
      BY <1>1, <2>7
    <3> QED
      BY <1>1, <2>2, <2>3, <2>4, <2>5, <3>1, <3>2 DEF LocksHeld
  <2> QED
    BY <2>6, <2>7
<1>12. Registered' /\ Forked'
  <2>1. Registered'
    <3>1. l = "init_gm" => ~ handlers'
      BY <1>1, <1>3
    <3> QED
      BY <1>1, <1>2, <1>3, <1>6, <3>1 DEF Registered
  <2>2. Forked
    BY DEF ParamInv
  <2>3. \A u \in alive : /\ at'[u] = "fork" <=> at[u] = "fork"
                         /\ at'[u] = "bare" <=> at[u] = "bare"
    BY <1>0, <1>1, <1>2
  <2>4. \A u \in alive : at[u] = "fork" => handlers'
    BY <1>1, <1>3, <2>2 DEF Forked
  <2> QED
    BY <1>1, <1>3, <2>1, <2>2, <2>3, <2>4 DEF Forked
<1> QED
  BY <1>8, <1>9, <1>10, <1>11, <1>12 DEF ParamInv

\* mallopt changes one parameter to an acceptable value.
LEMMA ChangeKeeps ==
  ASSUME Setup, ParamInv, NEW t \in Threads, P!ChangeMparam(t)
  PROVE  ParamInv'
<1>0. ParamTypes /\ t \in alive /\ alive \subseteq Threads /\ at[t] = "change"
  BY DEF ParamInv, ParamTypes, P!ChangeMparam, P!At
<1>1. /\ P!Goto(t, "idle")
      /\ UNCHANGED <<mflags, status, global, gm_mutex, build, handlers, process, alive, job>>
  BY DEF P!ChangeMparam, P!locks, P!world, P!frames
<1>2. /\ at' \in [Threads -> Locations] /\ at'[t] = "idle"
      /\ \A u \in Threads : u # t => at'[u] = at[u]
  BY <1>0, <1>1, ParamMoved DEF Locations
<1>3. /\ mparams.magic # 0 /\ FilledIn /\ mflags
      /\ job[t].arg \in Settings
  BY <1>0 DEF ParamInv, MagicLast, ParamTypes
<1>4. FilledIn' /\ mparams'.magic = mparams.magic /\ DOMAIN mparams' = DOMAIN mparams
  <2> DEFINE p == job[t].arg[1]
             v == P!Value(job[t].arg[2])
  <2>1. mparams' = IF P!Acceptable(p, v) THEN [mparams EXCEPT ![p] = v] ELSE mparams
    BY DEF P!ChangeMparam
  <2>2. /\ p \in {"granularity", "mmap_threshold", "trim_threshold"} /\ v \in Nat \ {0}
        /\ P!IsPowerOf2(v) /\ v >= PAGE_SIZE => v % PAGE_SIZE = 0 /\ Leaves(v)
    BY <1>3 DEF Setup
  <2> HIDE DEF p, v
  <2>3. CASE ~ P!Acceptable(p, v)
    BY <1>3, <2>1, <2>3 DEF FilledIn
  <2>4. CASE P!Acceptable(p, v) /\ p = "granularity"
    <3>1. v >= PAGE_SIZE /\ P!IsPowerOf2(v)
      BY <1>3, <2>4 DEF P!Acceptable, FilledIn
    <3>2. v % PAGE_SIZE = 0 /\ Leaves(v)
      BY <2>2, <3>1
    <3>3. mparams' = [mparams EXCEPT !.granularity = v]
      BY <2>1, <2>4
    <3>4. /\ mparams'.granularity = v /\ mparams'.page_size = mparams.page_size
          /\ mparams'.mmap_threshold = mparams.mmap_threshold
          /\ mparams'.trim_threshold = mparams.trim_threshold
          /\ mparams'.magic = mparams.magic /\ DOMAIN mparams' = DOMAIN mparams
      BY <1>0, <3>3 DEF ParamTypes
    <3> QED
      BY <1>3, <2>2, <3>1, <3>2, <3>4 DEF FilledIn
  <2>5. CASE P!Acceptable(p, v) /\ p # "granularity"
    <3>1. mparams' = [mparams EXCEPT ![p] = v]
      BY <2>1, <2>5
    <3>2. /\ mparams'.granularity = mparams.granularity /\ mparams'.page_size = mparams.page_size
          /\ mparams'.magic = mparams.magic /\ DOMAIN mparams' = DOMAIN mparams
      BY <1>0, <2>2, <2>5, <3>1 DEF ParamTypes
    <3>3. mparams'.mmap_threshold # 0 /\ mparams'.trim_threshold # 0
      BY <1>0, <1>3, <2>2, <3>1 DEF ParamTypes, FilledIn
    <3> QED
      BY <1>3, <3>2, <3>3 DEF FilledIn
  <2> QED
    BY <2>3, <2>4, <2>5
<1>5. ParamTypes'
  BY <1>0, <1>1, <1>2, <1>4 DEF ParamTypes
<1>6. GlobalReady' /\ OneCreator'
  BY <1>0, <1>1, <1>2, <1>4 DEF ParamInv, GlobalReady, OneCreator
<1>7. MagicLast'
  BY <1>0, <1>1, <1>2, <1>3, <1>4 DEF ParamInv, MagicLast
<1>8. LocksHeld'
  <2>1. LocksHeld /\ {at[t], at'[t]} \cap (InMalloc \cup InMparams \cup {"fork"}) = {}
    BY <1>0, <1>2 DEF ParamInv, InMalloc, InMparams
  <2>2. global # t
    BY <1>0, <2>1 DEF LocksHeld, InMalloc, Setup
  <2> QED
    BY <1>0, <1>1, <1>2, <2>1, <2>2 DEF LocksHeld, InMalloc
<1>9. Registered' /\ Forked'
  <2>1. Registered'
    BY <1>1, <1>3, <1>4 DEF Registered
  <2>2. Forked /\ \A u \in Threads \ alive : at'[u] = at[u]
    BY <1>0, <1>2 DEF ParamInv
  <2>3. global # NoThread => global \in Threads
    BY DEF ParamInv, LocksHeld
  <2> QED
    BY <1>0, <1>1, <1>2, <1>3, <1>4, <2>1, <2>2, <2>3 DEF Forked
<1> QED
  BY <1>5, <1>6, <1>7, <1>8, <1>9 DEF ParamInv

\* Of a fork's child only the forking thread is left, and with handlers the lock is
\* its own; who has the global lock was in init_mparams.
LEMMA ChildKeeps ==
  ASSUME Setup, ParamInv, NEW t \in Threads, P!PostForkChild(t)
  PROVE  ParamInv'
<1>0. ParamTypes /\ t \in alive /\ alive \subseteq Threads /\ at[t] \in {"fork", "bare"}
  BY DEF ParamInv, ParamTypes, P!PostForkChild, P!At
<1>1. /\ P!Goto(t, "idle") /\ alive' = {t}
      /\ UNCHANGED <<mparams, mflags, status, global, build, handlers, job>>
      /\ \/ at[t] = "fork" /\ process' = "child" /\ gm_mutex' = NoThread
         \/ at[t] = "bare" /\ process' = "bare"
  BY DEF P!PostForkChild, P!params, P!frames, P!ChildLock, P!At
<1>2. /\ at' \in [Threads -> Locations] /\ at'[t] = "idle"
      /\ \A u \in Threads : u # t => at'[u] = at[u]
  BY <1>0, <1>1, ParamMoved DEF Locations
<1>3. process = "parent" /\ alive = Threads /\ (at[t] = "fork" => handlers /\ gm_mutex = t)
  BY <1>0 DEF ParamInv, Forked, LocksHeld
<1>4. at[t] = "fork" => \A u \in Threads : u # t => at[u] \notin InMalloc \cup {"fork"}
  BY <1>3 DEF ParamInv, LocksHeld
<1>5. ParamTypes'
  BY <1>0, <1>1, <1>2 DEF ParamTypes
<1>6. GlobalReady' /\ OneCreator'
  BY <1>0, <1>1, <1>2 DEF ParamInv, GlobalReady, OneCreator
<1>7. MagicLast'
  <2>1. FilledIn' <=> FilledIn
    BY <1>1 DEF FilledIn
  <2> QED
    BY <1>0, <1>1, <1>2, <2>1 DEF ParamInv, MagicLast, InMalloc
<1>8. /\ global # t
      /\ global # NoThread =>
           /\ global \in Threads /\ at'[global] = at[global]
           /\ at[global] \in InMparams \cup {"sbrk"}
  BY <1>0, <1>2 DEF ParamInv, LocksHeld, Setup, InMparams
<1>9. LocksHeld'
  BY <1>1, <1>2, <1>8 DEF LocksHeld, InMalloc, InMparams
<1>10. Registered'
  BY <1>1, <1>8 DEF ParamInv, Registered, Setup
<1>11. Forked'
  <2>1. ASSUME process' = "child" PROVE at[t] = "fork" /\ handlers'
    BY <1>1, <1>3, <2>1
  <2>2. ASSUME process' = "child"
        PROVE  \A u \in Threads \ alive' : at'[u] \notin InMalloc \cup {"fork"}
    BY <1>1, <1>2, <1>4, <2>1, <2>2
  <2>3. ASSUME process' = "child", global # NoThread
        PROVE  at'[global] \in {"check", "magic", "release"}
    <3>1. at[global] \in InMparams
      BY <1>4, <1>8, <2>1, <2>3 DEF InMalloc
    <3>2. at[global] \notin {"fill", "init_gm"}
      BY <1>1, <1>3, <1>8, <2>1, <2>3 DEF ParamInv, MagicLast, Registered
    <3> QED
      BY <1>8, <2>3, <3>1, <3>2 DEF InMparams
  <2>4. process' = "child" => global' \notin alive'
    BY <1>1, <1>8
  <2> QED
    BY <1>1, <1>2, <2>1, <2>2, <2>3, <2>4 DEF Forked
<1> QED
  BY <1>5, <1>6, <1>7, <1>9, <1>10, <1>11 DEF ParamInv

\* Every step of a caller keeps the initialisation sound.
LEMMA ParamStep == Setup /\ ParamInv /\ [P!Next]_pvars => ParamInv'
<1> SUFFICES ASSUME Setup, ParamInv, [P!Next]_pvars PROVE ParamInv'
  OBVIOUS
<1>1. ASSUME NEW t \in Threads,
             P!Call(t) \/ P!Initialising(t) \/ P!Working(t) \/ P!PreFork(t) \/ P!Forking(t)
      PROVE  ParamInv'
  BY <1>1, MovesKeep, CreateKeeps, GlobalKeeps, AreaKeeps, InitKeeps, ChangeKeeps, ChildKeeps
     DEF P!Initialising, P!Working, P!Forking
<1>2. CASE UNCHANGED pvars
  BY <1>2 DEF pvars, ParamInv, ParamTypes, GlobalReady, OneCreator, MagicLast, FilledIn, LocksHeld,
              Registered, Forked
<1> QED
  BY <1>1, <1>2 DEF P!Next

\* The initialisation is sound in every state.
LEMMA ParamAlways == ASSUME Setup PROVE TSpec => []ParamInv
<1>1. TInit => ParamInv
  BY ParamInitially DEF TInit
<1>2. ParamInv /\ [TNext]_<<part, vars, pvars>> => ParamInv'
  <2>1. [TNext]_<<part, vars, pvars>> => [P!Next]_pvars
    BY DEF TNext, Locks, Params
  <2> QED
    BY <2>1, ParamStep
<1> QED
  BY <1>1, <1>2, PTL DEF TSpec

\* A thread that has read a magic other than zero, without a lock, finds every
\* parameter set and a granularity fit for the masks made from it, whoever
\* initialised them and whatever mallopt is called with meanwhile.
THEOREM InitialisedWhenRead == ASSUME Setup PROVE TSpec => []ReadsInitialised
<1>1. ParamInv => ReadsInitialised
  <2> SUFFICES ASSUME ParamInv, NEW t \in alive, at[t] \in P!InCall
               PROVE  /\ mflags /\ mparams.page_size = PAGE_SIZE /\ mparams.magic # 0
                      /\ \A p \in {"granularity", "mmap_threshold", "trim_threshold"} : mparams[p] # 0
                      /\ mparams.granularity % PAGE_SIZE = 0 /\ P!IsPowerOf2(mparams.granularity)
    BY DEF ReadsInitialised, P!ReadsInitialised
  <2>1. mparams.magic # 0
    BY DEF ParamInv, MagicLast, P!InCall, InMalloc
  <2>2. FilledIn /\ mflags
    BY <2>1 DEF ParamInv, MagicLast
  <2> QED
    BY <2>1, <2>2 DEF FilledIn
<1> QED
  BY <1>1, ParamAlways, PTL

\* A set no two of whose members differ has one member at most.
LEMMA AtMostOne ==
  ASSUME NEW S, \A x, y \in S : x = y
  PROVE  Cardinality(S) <= 1
<1>1. CASE S = {}
  BY <1>1, FS_EmptySet
<1>2. CASE S # {}
  <2>1. PICK x : x \in S
    BY <1>2
  <2>2. S = {x}
    BY <2>1
  <2> QED
    BY <2>2, FS_Singleton
<1> QED
  BY <1>1, <1>2

\* No two threads work on the main malloc area at once, nor under the global lock,
\* and no lock is made anew while a thread has it.
THEOREM OneThreadInMalloc == ASSUME Setup PROVE TSpec => []OneInMalloc
<1>1. ParamInv => OneInMalloc
  <2> SUFFICES ASSUME ParamInv PROVE OneInMalloc
    OBVIOUS
  <2> DEFINE A == {t \in alive : at[t] \in P!Locked}
             G == {t \in alive : at[t] \in P!UnderGlobal}
  <2>1. \A t \in A : gm_mutex = t
    BY DEF ParamInv, LocksHeld, P!Locked, InMalloc
  <2>2. \A t \in G : global = t
    BY DEF ParamInv, LocksHeld, P!UnderGlobal, InMparams
  <2>3. Cardinality(A) <= 1
    <3> HIDE DEF A
    <3> QED
      BY <2>1, AtMostOne
  <2>4. Cardinality(G) <= 1
    <3> HIDE DEF G
    <3> QED
      BY <2>2, AtMostOne
  <2> QED
    BY <2>3, <2>4, Zenon DEF OneInMalloc, P!OneInMalloc, P!Cardinality, Cardinality
<1> QED
  BY <1>1, ParamAlways, PTL

\* The child of a fork that ran the handlers finds no work of a thread that is gone on
\* the main area, and its lock free. malloc_global_mutex it may find taken, by a thread
\* that was in init_mparams behind pthread_atfork, and then perhaps uninitialised.
THEOREM ChildFindsAreaWhole == ASSUME Setup PROVE TSpec => []ChildSound
<1>1. Setup /\ ParamInv => ChildSound
  <2> SUFFICES ASSUME Setup, ParamInv, process = "child" PROVE ChildSound
    BY DEF ChildSound, P!ChildSound
  <2>1. \A t \in Threads \ alive : at[t] \notin P!Locked
    BY DEF ParamInv, Forked, P!Locked, InMalloc
  <2>2. ASSUME NEW t \in alive, at[t] = "idle" PROVE gm_mutex = NoThread
    <3> SUFFICES ASSUME gm_mutex # NoThread PROVE FALSE
      OBVIOUS
    <3>1. gm_mutex \in alive /\ at[gm_mutex] # "idle"
      BY DEF ParamInv, LocksHeld, InMalloc
    <3>2. gm_mutex = t
      BY <3>1 DEF ParamInv, Forked
    <3> QED
      BY <2>2, <3>1, <3>2
  <2>3. P!Orphaned => at[global] \in {"check", "magic", "release"}
    BY DEF ParamInv, Forked, P!Orphaned
  <2>4. ASSUME mparams.magic = 0 PROVE P!Orphaned /\ at[global] = "magic"
    <3>1. handlers /\ global \notin alive
      BY <2>4 DEF ParamInv, Forked
    <3>2. global \in Threads /\ at[global] = "magic"
      BY <2>4, <3>1 DEF ParamInv, Registered
    <3> QED
      BY <3>1, <3>2 DEF P!Orphaned, Setup
  <2> QED
    BY <2>1, <2>2, <2>3, <2>4 DEF ChildSound, P!ChildSound
<1> QED
  BY <1>1, ParamAlways, PTL

-----------------------------------------------------------------------------
(* The size asked of the system *)

\* What is needed from the system is a number of bytes that can be padded.
NeedsNumbers == \A n \in Needs : n \in Nat /\ n + SYS_ALLOC_PADDING <= MAX_SIZE_T

\* Who comes to the rounding came to get a number of bytes, and has read a granularity.
Granules ==
  /\ DOMAIN first = Threads /\ DOMAIN asize = Threads
  /\ \A t \in alive :
       /\ job[t].kind \in {"malloc", "mallopt"}
       /\ job[t].kind = "malloc" => job[t].arg \in Nat /\ job[t].arg + SYS_ALLOC_PADDING <= MAX_SIZE_T
       /\ at[t] \in InMalloc \cup {"preaction"} => job[t].kind = "malloc"
       /\ at[t] = "mask" =>
            first[t] \in Nat \ {0} /\ first[t] % PAGE_SIZE = 0 /\ Leaves(first[t])

\* Rounding to granules gives whole pages, whichever granularity was added.
LEMMA RoundedToPages ==
  ASSUME NEW s \in Nat, NEW g \in Nat \ {0}, NEW h \in Nat \ {0}, NEW page \in Nat \ {0},
         h % page = 0, MAX_SIZE_T \in Nat
  PROVE  P!Rounded(s, g, h) \in Int /\ P!Rounded(s, g, h) % page = 0
<1>1. PICK m \in Nat : m = (s + g - 1) % (MAX_SIZE_T + 1)
  OBVIOUS
<1>2. PICK q \in Int : q = m \div h
  OBVIOUS
<1>3. PICK k \in Int : h = k * page
  <2>1. h = (h \div page) * page /\ h \div page \in Int
    OBVIOUS
  <2> QED
    BY <2>1
<1>4. q * h = (q * k) * page /\ q * k \in Int
  BY <1>3
<1>5. PICK n \in Int : n = q * k
  BY <1>4
<1>6. (n * page) % page = 0 /\ n * page \in Int
  BY <1>5
<1> QED
  BY <1>1, <1>2, <1>4, <1>5, <1>6 DEF P!Rounded

\* Rounding up with one granularity covers what is rounded, or the sum has wrapped and
\* what comes out is not above what was asked for before the padding.
LEMMA RoundedUp ==
  ASSUME Setup, NEW nb \in Nat, NEW g \in Nat \ {0}, Leaves(g), nb + SYS_ALLOC_PADDING <= MAX_SIZE_T
  PROVE  LET n == P!Rounded(nb + SYS_ALLOC_PADDING, g, g)
         IN  n >= nb + SYS_ALLOC_PADDING \/ n <= nb
<1> DEFINE s == nb + SYS_ALLOC_PADDING
           n == P!Rounded(s, g, g)
<1>0. /\ MAX_SIZE_T \in Nat /\ SYS_ALLOC_PADDING \in Nat /\ s \in Nat /\ s <= MAX_SIZE_T
      /\ g + SYS_ALLOC_PADDING <= MAX_SIZE_T + 1
  BY DEF Setup, Leaves
<1>1. CASE s + g - 1 <= MAX_SIZE_T
  <2>1. (s + g - 1) % (MAX_SIZE_T + 1) = s + g - 1
    BY <1>0, <1>1
  <2>2. PICK q \in Int : q = (s + g - 1) \div g
    BY <1>0
  <2>3. q * g >= s
    BY <1>0, <2>2
  <2> QED
    BY <1>0, <2>1, <2>2, <2>3 DEF P!Rounded
<1>2. CASE s + g - 1 > MAX_SIZE_T
  <2>1. (s + g - 1) % (MAX_SIZE_T + 1) = s + g - 1 - (MAX_SIZE_T + 1)
    BY <1>0, <1>2
  <2>2. PICK m \in Nat : m = s + g - 1 - (MAX_SIZE_T + 1)
    BY <1>0, <1>2
  <2>3. PICK q \in Int : q = m \div g
    BY <2>2
  <2>4. q * g <= m
    BY <2>3
  <2>5. m <= nb
    BY <1>0, <2>2
  <2>6. n = q * g
    BY <2>1, <2>2, <2>3 DEF P!Rounded
  <2> QED
    BY <2>4, <2>5, <2>6
<1> QED
  BY <1>0, <1>1, <1>2

\* A step that reads no granularity.
LEMMA GranulesMove ==
  ASSUME ParamTypes, Granules, NEW t \in alive, NEW l \in Locations \ {"mask"}, P!Goto(t, l),
         alive' \subseteq alive, UNCHANGED job, DOMAIN first' = Threads, DOMAIN asize' = Threads,
         \A u \in alive : u # t => first'[u] = first[u],
         l \in InMalloc \cup {"preaction"} => job[t].kind = "malloc"
  PROVE  Granules'
<1>1. t \in Threads /\ alive \subseteq Threads
  BY DEF ParamTypes
<1>2. /\ at'[t] = l /\ \A u \in Threads : u # t => at'[u] = at[u]
  BY <1>1, ParamMoved
<1> QED
  BY <1>1, <1>2 DEF Granules

\* Who gets a new size gets it from AlignSecond, in whole pages, above nb, and enough
\* unless the granularity is not the one read first.
Asked ==
  \A t \in alive : asize'[t] \notin {0, asize[t]} =>
    /\ asize'[t] % PAGE_SIZE = 0 /\ asize'[t] > job[t].arg
    /\ asize'[t] >= job[t].arg + SYS_ALLOC_PADDING \/ first[t] # mparams.granularity

\* Every step of a caller keeps what is known of the granularities that were read.
LEMMA GranulesStep ==
  ASSUME Setup, NeedsNumbers, ParamInv, Granules, [P!Next]_pvars
  PROVE  Granules' /\ Asked
<1>0. /\ ParamTypes /\ MagicLast /\ Forked /\ PAGE_SIZE \in Nat \ {0} /\ alive \subseteq Threads
  BY MparamsSanityCheck DEF P!SanityCheck, P!IsPowerOf2, Setup, ParamInv, ParamTypes
<1>1. ASSUME NEW t \in Threads, P!Call(t) PROVE Granules' /\ Asked
  <2>1. /\ at[t] = "idle" /\ P!Goto(t, "ensure")
        /\ UNCHANGED <<alive, first, asize>>
    BY <1>1 DEF P!Call, P!At, P!world
  <2>2. /\ at'[t] = "ensure" /\ \A u \in Threads : u # t => at'[u] = at[u]
    BY <1>0, <2>1, ParamMoved DEF Locations
  <2>3. \/ \E n \in Needs : job' = [job EXCEPT ![t] = [kind |-> "malloc", arg |-> n]]
        \/ \E s \in Settings : job' = [job EXCEPT ![t] = [kind |-> "mallopt", arg |-> s]]
    BY <1>1 DEF P!Call
  <2>4. /\ job'[t].kind \in {"malloc", "mallopt"}
        /\ job'[t].kind = "malloc" =>
             job'[t].arg \in Nat /\ job'[t].arg + SYS_ALLOC_PADDING <= MAX_SIZE_T
        /\ \A u \in Threads : u # t => job'[u] = job[u]
    BY <1>0, <2>3 DEF ParamTypes, NeedsNumbers
  <2>5. Granules'
    BY <1>0, <2>1, <2>2, <2>4 DEF Granules, InMalloc
  <2> QED
    BY <2>1, <2>5 DEF Asked
<1>2. ASSUME NEW t \in Threads,
             \/ P!GlobalMutexReady(t) \/ P!GlobalMutexClaim(t) \/ P!GlobalMutexCreate(t)
             \/ P!AcquireGlobal(t) \/ P!Check(t) \/ P!Fill(t) \/ P!InitGm(t) \/ P!SetMagic(t)
             \/ P!Preaction(t) \/ P!MorecoreBegin(t) \/ P!MorecoreEnd(t) \/ P!PreFork(t)
             \/ P!PostForkParent(t) \/ P!PostForkChild(t) \/ P!ChangeMparam(t)
      PROVE  Granules' /\ Asked
  <2>1. t \in alive /\ alive' \subseteq alive /\ UNCHANGED P!frames
    BY <1>2 DEF P!GlobalMutexReady, P!GlobalMutexClaim, P!GlobalMutexCreate, P!AcquireGlobal, P!Check,
         P!Fill, P!InitGm, P!SetMagic, P!Preaction, P!MorecoreBegin, P!MorecoreEnd, P!PreFork,
         P!PostForkParent, P!PostForkChild, P!ChangeMparam, P!world, P!At
  <2>2. \E l \in Locations \ {"mask", "preaction"} :
          P!Goto(t, l) /\ (l \in InMalloc => at[t] \in InMalloc \cup {"preaction"})
    BY <1>2 DEF P!GlobalMutexReady, P!GlobalMutexClaim, P!GlobalMutexCreate, P!AcquireGlobal, P!Check,
         P!Fill, P!InitGm, P!SetMagic, P!Preaction, P!MorecoreBegin, P!MorecoreEnd, P!PreFork,
         P!PostForkParent, P!PostForkChild, P!ChangeMparam, P!At, P!StillZero, Locations, InMparams,
         InMalloc
  <2>3. PICK l \in Locations \ {"mask", "preaction"} :
          P!Goto(t, l) /\ (l \in InMalloc => at[t] \in InMalloc \cup {"preaction"})
    BY <2>2
  <2>4. l \in InMalloc \cup {"preaction"} => job[t].kind = "malloc"
    BY <2>1, <2>3 DEF Granules
  <2>5. UNCHANGED <<job, first, asize>>
    BY <2>1 DEF P!frames
  <2>6. Granules'
    BY <1>0, <2>1, <2>3, <2>4, <2>5, GranulesMove DEF Granules
  <2> QED
    BY <2>5, <2>6 DEF Asked
<1>3. ASSUME NEW t \in Threads, P!EnsureInitialization(t) \/ P!ReleaseGlobal(t)
      PROVE  Granules' /\ Asked
  <2>1. t \in alive /\ UNCHANGED <<alive, job, first, asize>>
    BY <1>3 DEF P!EnsureInitialization, P!ReleaseGlobal, P!world, P!frames, P!At
  <2>2. PICK l \in {"status", "lock", "preaction", "change"} :
          P!Goto(t, l) /\ (l = "preaction" => job[t].kind # "mallopt")
    BY <1>3 DEF P!EnsureInitialization, P!ReleaseGlobal, P!Work
  <2>3. job[t].kind \in {"malloc", "mallopt"}
    BY <2>1 DEF Granules
  <2>4. l \in Locations \ {"mask"} /\ l \notin InMalloc
    BY DEF Locations, InMalloc
  <2>5. Granules'
    BY <1>0, <2>1, <2>2, <2>3, <2>4, GranulesMove DEF Granules
  <2> QED
    BY <2>1, <2>5 DEF Asked
<1>4. ASSUME NEW t \in Threads, P!AlignFirst(t) PROVE Granules' /\ Asked
  <2>1. /\ t \in alive /\ at[t] = "align" /\ P!Goto(t, "mask")
        /\ first' = [first EXCEPT ![t] = mparams.granularity] /\ UNCHANGED <<alive, job, asize>>
    BY <1>4 DEF P!AlignFirst, P!At, P!world
  <2>2. /\ at'[t] = "mask" /\ \A u \in Threads : u # t => at'[u] = at[u]
    BY <1>0, <2>1, ParamMoved DEF Locations, InMalloc
  <2>3. mparams.magic # 0
    BY <1>0, <2>1 DEF MagicLast, InMalloc
  <2>4. /\ mparams.granularity \in Nat \ {0} /\ mparams.granularity % PAGE_SIZE = 0
        /\ Leaves(mparams.granularity)
    BY <1>0, <2>3 DEF MagicLast, FilledIn
  <2>5. /\ DOMAIN first' = Threads /\ first'[t] = mparams.granularity
        /\ \A u \in Threads : u # t => first'[u] = first[u]
    BY <1>0, <2>1 DEF Granules
  <2>6. job[t].kind = "malloc"
    BY <2>1 DEF Granules, InMalloc
  <2>7. Granules'
    BY <1>0, <2>1, <2>2, <2>4, <2>5, <2>6 DEF Granules, Leaves
  <2> QED
    BY <2>1, <2>7 DEF Asked
<1>5. ASSUME NEW t \in Threads, P!AlignSecond(t) PROVE Granules' /\ Asked
  <2>1. /\ t \in alive /\ at[t] = "mask" /\ UNCHANGED <<alive, job, first>>
    BY <1>5 DEF P!AlignSecond, P!At, P!world
  <2>2. /\ job[t].kind = "malloc" /\ job[t].arg \in Nat /\ job[t].arg + SYS_ALLOC_PADDING <= MAX_SIZE_T
        /\ first[t] \in Nat \ {0} /\ first[t] % PAGE_SIZE = 0 /\ Leaves(first[t])
    BY <2>1 DEF Granules, InMalloc
  <2>3. mparams.magic # 0
    BY <1>0, <2>1 DEF MagicLast, InMalloc
  <2>4. mparams.granularity \in Nat \ {0} /\ mparams.granularity % PAGE_SIZE = 0
    BY <1>0, <2>3 DEF MagicLast, FilledIn
  <2>5. PICK g \in {first[t], mparams.granularity}, h \in {first[t], mparams.granularity} :
          LET n == P!Rounded(job[t].arg + SYS_ALLOC_PADDING, g, h)
          IN  \/ n > job[t].arg /\ asize' = [asize EXCEPT ![t] = n]
              \/ n <= job[t].arg /\ UNCHANGED asize
    BY <1>5 DEF P!AlignSecond
  <2> DEFINE n == P!Rounded(job[t].arg + SYS_ALLOC_PADDING, g, h)
  <2>6. n % PAGE_SIZE = 0
    <3>1. MAX_SIZE_T \in Nat /\ job[t].arg + SYS_ALLOC_PADDING \in Nat
      BY <2>2 DEF Setup
    <3>2. g \in Nat \ {0} /\ h \in Nat \ {0} /\ h % PAGE_SIZE = 0
      BY <2>2, <2>4
    <3> HIDE DEF n
    <3>3. P!Rounded(job[t].arg + SYS_ALLOC_PADDING, g, h) % PAGE_SIZE = 0
      BY <1>0, <3>1, <3>2, RoundedToPages
    <3> QED
      BY <3>3 DEF n
  <2>7. ASSUME first[t] = mparams.granularity
        PROVE  n >= job[t].arg + SYS_ALLOC_PADDING \/ n <= job[t].arg
    <3>1. g = first[t] /\ h = first[t]
      BY <2>7
    <3> QED
      BY <2>2, <3>1, RoundedUp
  <2> HIDE DEF n
  <2>8. \/ n > job[t].arg /\ asize' = [asize EXCEPT ![t] = n]
        \/ n <= job[t].arg /\ UNCHANGED asize
    BY <2>5 DEF n
  <2>9. /\ DOMAIN asize' = Threads /\ \A u \in Threads : u # t => asize'[u] = asize[u]
        /\ asize'[t] = asize[t] \/ (n > job[t].arg /\ asize'[t] = n)
    BY <1>0, <2>1, <2>8 DEF Granules
  <2>10. \E l \in Locations \ {"mask"} : P!Goto(t, l) /\ l # "preaction"
    BY <1>5 DEF P!AlignSecond, Locations, InMalloc
  <2>11. Granules'
    BY <1>0, <2>1, <2>2, <2>9, <2>10, GranulesMove DEF Granules
  <2>12. n \in Int
    <3>1. MAX_SIZE_T \in Nat /\ job[t].arg + SYS_ALLOC_PADDING \in Nat
      BY <2>2 DEF Setup
    <3> QED
      BY <1>0, <2>2, <2>4, <3>1, RoundedToPages DEF n
  <2>13. SYS_ALLOC_PADDING \in Nat
    BY DEF Setup
  <2>14. asize'[t] # asize[t] =>
           /\ asize'[t] % PAGE_SIZE = 0 /\ asize'[t] > job[t].arg
           /\ asize'[t] >= job[t].arg + SYS_ALLOC_PADDING \/ first[t] # mparams.granularity
    BY <2>2, <2>6, <2>7, <2>9, <2>12, <2>13
  <2>15. \A u \in alive : u # t => asize'[u] = asize[u]
    BY <1>0, <2>9
  <2> QED
    BY <2>11, <2>14, <2>15 DEF Asked
<1>6. ASSUME NEW t \in Threads, P!Postaction(t) PROVE Granules' /\ Asked
  <2>1. /\ t \in alive /\ P!Goto(t, "idle") /\ asize' = [asize EXCEPT ![t] = 0]
        /\ first' = [first EXCEPT ![t] = 0] /\ UNCHANGED <<alive, job>>
    BY <1>6 DEF P!Postaction, P!world, P!At
  <2>2. /\ asize'[t] = 0 /\ DOMAIN asize' = Threads /\ DOMAIN first' = Threads
        /\ \A u \in Threads : u # t => asize'[u] = asize[u] /\ first'[u] = first[u]
    BY <1>0, <2>1 DEF Granules
  <2>3. "idle" \in Locations \ {"mask"} /\ "idle" \notin InMalloc
    BY DEF Locations, InMalloc
  <2>4. Granules'
    BY <1>0, <2>1, <2>2, <2>3, GranulesMove
  <2>5. \A u \in alive : asize'[u] \in {0, asize[u]}
    BY <1>0, <2>2
  <2> QED
    BY <2>4, <2>5 DEF Asked
<1>7. CASE UNCHANGED pvars
  BY <1>7 DEF pvars, Granules, Asked
<1> QED
  BY <1>1, <1>2, <1>3, <1>4, <1>5, <1>6, <1>7 DEF P!Next, P!Initialising, P!Working, P!Forking

\* Whatever mallopt does beside, what sys_alloc asks of the system is whole pages and no
\* sum that has wrapped, and enough for the chunk and the padding, unless the granularity
\* has changed between its two reads (as with MCGranules.cfg).
THEOREM GranulesStayWhole == ASSUME Setup, NeedsNumbers PROVE TSpec => WholeGranules
<1>1. TInit => Granules
  BY DEF TInit, P!Init, Granules, NeedsNumbers, Setup, InMalloc
<1>2. ParamInv /\ Granules /\ [TNext]_<<part, vars, pvars>> => Granules' /\ [Asked]_pvars
  <2>1. [TNext]_<<part, vars, pvars>> => [P!Next]_pvars
    BY DEF TNext, Locks, Params
  <2> QED
    BY <2>1, GranulesStep
<1>3. [Asked]_pvars => [Asked]_(P!vars)
  BY DEF P!vars, P!params, P!locks, P!world, P!frames, pvars
<1>4. WholeGranules <=> [][Asked]_(P!vars)
  BY DEF WholeGranules, P!WholeGranules, Asked
<1> QED
  BY <1>1, <1>2, <1>3, <1>4, ParamAlways, PTL DEF TSpec
=============================================================================
