------------------------------- MODULE Mparams -------------------------------
(***************************************************************************)
(* How the threads of a program meet in dlmalloc.c before they reach its   *)
(* heap: the lazy initialisation of `mparams` and of the lock of the main  *)
(* malloc area under malloc_global_mutex, mallopt, which changes mparams   *)
(* without a lock, and fork with the handlers of LOCK_AT_FORK.  The heap   *)
(* itself is left out: of a public call remain its locks, and the two      *)
(* reads of mparams.granularity in the granularity_align of sys_alloc.     *)
(***************************************************************************)
EXTENDS Integers, FiniteSets

CONSTANTS
  Threads, NoThread,
  Builds,                  \* the programs looked at: see build
  PAGE_SIZE, DEFAULT_MMAP_THRESHOLD, DEFAULT_TRIM_THRESHOLD,
  MAX_SIZE_T,
  SYS_ALLOC_PADDING,       \* what sys_alloc asks for beside the chunk
  Seeds,                   \* the time or random number that magic is made from
  Settings,                \* what mallopt is called with: <<parameter, value>>
  Needs                    \* nb of the mallocs that come to sys_alloc

IsPowerOf2(n) == n > 0 /\ \A d \in 2..n : n % d = 0 => d % 2 = 0

\* init_mparams aborts where this does not hold.
SanityCheck ==
  /\ IsPowerOf2(PAGE_SIZE)
  /\ \A b \in Builds : b.DEFAULT_GRANULARITY # 0 => IsPowerOf2(b.DEFAULT_GRANULARITY)

VARIABLES
  build,             \* how the file is compiled and who calls it: never changes
  mparams, mflags,   \* mparams, and whether gm->mflags has USE_LOCK_BIT
  status,            \* malloc_global_mutex_status
  global, gm_mutex,  \* who has malloc_global_mutex, and gm->mutex
  handlers,          \* pthread_atfork was called
  process,           \* "parent", or a fork's "child", or "bare": one without handlers
  alive,             \* the threads of this process
  pc, job,           \* where each thread is, and the call it makes
  first, asize       \* granularity as read first; the size asked of the system

NEED_GLOBAL_LOCK_INIT == build.NEED_GLOBAL_LOCK_INIT  \* the global lock starts uninitialised (win32)
HAVE_MORECORE == build.HAVE_MORECORE                  \* sys_alloc takes the global lock for MORECORE
LOCK_AT_FORK == build.LOCK_AT_FORK
DEFAULT_GRANULARITY == build.DEFAULT_GRANULARITY      \* 0: the page size
Tuners == build.tuners                                \* the threads that call mallopt
Forkers == build.forkers                              \* the threads that call fork

locks == <<status, global, gm_mutex>>
params == <<mparams, mflags>>
world == <<build, handlers, process, alive>>
frames == <<job, first, asize>>
vars == <<params, locks, world, pc, frames>>

At(t, l) == t \in alive /\ pc[t] = l
Goto(t, l) == pc' = [pc EXCEPT ![t] = l]

Unset == [magic |-> 0, page_size |-> 0, granularity |-> 0, mmap_threshold |-> 0,
          trim_threshold |-> 0]

-----------------------------------------------------------------------------
(* ensure_initialization reads magic without a lock.                         *)

Work(t) == IF job[t].kind = "mallopt" THEN "change" ELSE "preaction"

Call(t) ==
  /\ At(t, "idle")
  /\ \/ \E n \in Needs : job' = [job EXCEPT ![t] = [kind |-> "malloc", arg |-> n]]
     \/ /\ t \in Tuners
        /\ \E s \in Settings : job' = [job EXCEPT ![t] = [kind |-> "mallopt", arg |-> s]]
  /\ Goto(t, "ensure")
  /\ UNCHANGED <<params, locks, world, first, asize>>

EnsureInitialization(t) ==
  /\ At(t, "ensure")
  /\ Goto(t, IF mparams.magic # 0 THEN Work(t)
             ELSE IF NEED_GLOBAL_LOCK_INIT THEN "status" ELSE "lock")
  /\ UNCHANGED <<params, locks, world, frames>>

\* init_malloc_global_mutex: one thread goes from 0 to -1 to 1, the others spin.
GlobalMutexReady(t) ==
  /\ At(t, "status") /\ status > 0
  /\ Goto(t, "lock")
  /\ UNCHANGED <<params, locks, world, frames>>

\* Mutant: the transition is not claimed with a compare-and-exchange.
claim_none == UNCHANGED status

Claim == status' = -1

GlobalMutexClaim(t) ==
  /\ At(t, "status") /\ status = 0 /\ Claim
  /\ Goto(t, "create")
  /\ UNCHANGED <<params, global, gm_mutex, world, frames>>

\* InitializeCriticalSection makes the lock a free one, whoever has it.
GlobalMutexCreate(t) ==
  /\ At(t, "create") /\ status' = 1 /\ global' = NoThread
  /\ Goto(t, "lock")
  /\ UNCHANGED <<params, gm_mutex, world, frames>>

-----------------------------------------------------------------------------
(* init_mparams                                                              *)

AcquireGlobal(t) ==
  /\ At(t, "lock") /\ global = NoThread
  /\ global' = t
  /\ Goto(t, "check")
  /\ UNCHANGED <<params, status, gm_mutex, world, frames>>

StillZero == mparams.magic = 0

Check(t) ==
  /\ At(t, "check")
  /\ Goto(t, IF StillZero THEN "fill" ELSE "release")
  /\ UNCHANGED <<params, locks, world, frames>>

\* Mutant: magic is set together with the other parameters, before the lock is.
filled_with_magic == [magic |-> 8, page_size |-> PAGE_SIZE, granularity |-> PAGE_SIZE,
                      mmap_threshold |-> 1, trim_threshold |-> 1]

Filled ==
  [mparams EXCEPT
     !.page_size = PAGE_SIZE,
     !.granularity = IF DEFAULT_GRANULARITY # 0 THEN DEFAULT_GRANULARITY ELSE PAGE_SIZE,
     !.mmap_threshold = DEFAULT_MMAP_THRESHOLD,
     !.trim_threshold = DEFAULT_TRIM_THRESHOLD]

Fill(t) ==
  /\ At(t, "fill") /\ mparams' = Filled
  /\ Goto(t, "init_gm")
  /\ UNCHANGED <<mflags, locks, world, frames>>

\* gm->mflags = default_mflags; INITIAL_LOCK(&gm->mutex); pthread_atfork(...)
InitGm(t) ==
  /\ At(t, "init_gm")
  /\ mflags' = TRUE /\ gm_mutex' = NoThread /\ handlers' = LOCK_AT_FORK
  /\ Goto(t, "magic")
  /\ UNCHANGED <<mparams, status, global, build, process, alive, frames>>

\* Mutant: nothing keeps the random number from being 0.
magic_masked(raw) == (raw \div 8) * 8

\* (raw | 8) & ~7
Magic(raw) == (raw \div 16) * 16 + 8

SetMagic(t) ==
  /\ At(t, "magic")
  /\ \E raw \in Seeds : mparams' = [mparams EXCEPT !.magic = Magic(raw)]
  /\ Goto(t, "release")
  /\ UNCHANGED <<mflags, locks, world, frames>>

ReleaseGlobal(t) ==
  /\ At(t, "release") /\ global' = NoThread
  /\ Goto(t, Work(t))
  /\ UNCHANGED <<params, status, gm_mutex, world, frames>>

-----------------------------------------------------------------------------
(* A public call: PREACTION, the part of sys_alloc, POSTACTION               *)

Preaction(t) ==
  /\ At(t, "preaction")
  /\ IF mflags THEN gm_mutex = NoThread /\ gm_mutex' = t ELSE UNCHANGED gm_mutex
  /\ Goto(t, "align")
  /\ UNCHANGED <<params, status, global, world, frames>>

\* granularity_align(S) is (S + (granularity - 1)) & ~(granularity - 1): the
\* program reads the variable twice, in either order, or once if the compiler
\* makes it so.
AlignFirst(t) ==
  /\ At(t, "align") /\ first' = [first EXCEPT ![t] = mparams.granularity]
  /\ Goto(t, "mask")
  /\ UNCHANGED <<params, locks, world, job, asize>>

\* Mutant: rounded down.
rounded_down(s, g, h) == (s \div h) * h

Rounded(s, g, h) == (((s + g - 1) % (MAX_SIZE_T + 1)) \div h) * h

\* A sum that wraps is noticed: what comes out is not above nb.
AlignSecond(t) ==
  /\ At(t, "mask")
  /\ \E g, h \in {first[t], mparams.granularity} :
       LET nb == job[t].arg
           n == Rounded(nb + SYS_ALLOC_PADDING, g, h)
       IN  \/ /\ n > nb /\ asize' = [asize EXCEPT ![t] = n]
              /\ Goto(t, IF HAVE_MORECORE THEN "morecore" ELSE "postaction")
           \/ n <= nb /\ UNCHANGED asize /\ Goto(t, "postaction")
  /\ UNCHANGED <<params, locks, world, job, first>>

MorecoreBegin(t) ==
  /\ At(t, "morecore") /\ global = NoThread /\ global' = t
  /\ Goto(t, "sbrk")
  /\ UNCHANGED <<params, status, gm_mutex, world, frames>>

MorecoreEnd(t) ==
  /\ At(t, "sbrk") /\ global' = NoThread
  /\ Goto(t, "postaction")
  /\ UNCHANGED <<params, status, gm_mutex, world, frames>>

Postaction(t) ==
  /\ At(t, "postaction")
  /\ gm_mutex' = IF mflags THEN NoThread ELSE gm_mutex
  /\ asize' = [asize EXCEPT ![t] = 0]
  /\ first' = [first EXCEPT ![t] = 0]
  /\ Goto(t, "idle")
  /\ UNCHANGED <<params, status, global, world, job>>

\* change_mparam takes no lock; it refuses a granularity that is below the page
\* size or not a power of two, and takes -1 for the largest value.
Value(v) == IF v = -1 THEN MAX_SIZE_T ELSE v

Acceptable(p, v) == p = "granularity" => v >= mparams.page_size /\ IsPowerOf2(v)

ChangeMparam(t) ==
  /\ At(t, "change")
  /\ LET p == job[t].arg[1]
         v == Value(job[t].arg[2])
     IN  mparams' = IF Acceptable(p, v) THEN [mparams EXCEPT ![p] = v] ELSE mparams
  /\ Goto(t, "idle")
  /\ UNCHANGED <<mflags, locks, world, frames>>

-----------------------------------------------------------------------------
(* fork, once, by a thread outside malloc, at any time: also while another one  *)
(* is in init_mparams                                                        *)

\* The handlers that run are those that are registered when the fork begins.
PreFork(t) ==
  /\ At(t, "idle") /\ t \in Forkers /\ process = "parent"
  /\ \/ handlers /\ gm_mutex = NoThread /\ gm_mutex' = t /\ Goto(t, "fork")
     \/ ~ handlers /\ UNCHANGED gm_mutex /\ Goto(t, "bare")
  /\ UNCHANGED <<params, status, global, world, frames>>

PostForkParent(t) ==
  /\ \/ At(t, "fork") /\ gm_mutex' = NoThread
     \/ At(t, "bare") /\ UNCHANGED gm_mutex
  /\ Goto(t, "idle")
  /\ UNCHANGED <<params, status, global, world, frames>>

\* Mutant: nothing is done in the child.
child_lock_kept == gm_mutex

\* post_fork_child: INITIAL_LOCK
ChildLock == NoThread

PostForkChild(t) ==
  /\ \/ At(t, "fork") /\ process' = "child" /\ gm_mutex' = ChildLock
     \/ At(t, "bare") /\ process' = "bare" /\ UNCHANGED gm_mutex
  /\ alive' = {t}
  /\ Goto(t, "idle")
  /\ UNCHANGED <<params, status, global, build, handlers, frames>>

-----------------------------------------------------------------------------
Init ==
  /\ build \in Builds
  /\ mparams = Unset /\ mflags = FALSE
  /\ status = 0 /\ global = NoThread /\ gm_mutex = NoThread
  /\ handlers = FALSE /\ process = "parent" /\ alive = Threads
  /\ pc = [t \in Threads |-> "idle"]
  /\ job = [t \in Threads |-> [kind |-> "malloc", arg |-> 0]]
  /\ first = [t \in Threads |-> 0] /\ asize = [t \in Threads |-> 0]

Initialising(t) ==
  \/ EnsureInitialization(t) \/ GlobalMutexReady(t) \/ GlobalMutexClaim(t)
  \/ GlobalMutexCreate(t) \/ AcquireGlobal(t) \/ Check(t) \/ Fill(t) \/ InitGm(t)
  \/ SetMagic(t) \/ ReleaseGlobal(t)

Working(t) ==
  \/ Preaction(t) \/ AlignFirst(t) \/ AlignSecond(t) \/ MorecoreBegin(t)
  \/ MorecoreEnd(t) \/ Postaction(t) \/ ChangeMparam(t)

Forking(t) == PostForkParent(t) \/ PostForkChild(t)

Next ==
  \E t \in Threads :
    Call(t) \/ Initialising(t) \/ Working(t) \/ PreFork(t) \/ Forking(t)

Spec == Init /\ [][Next]_vars

\* A thread inside a call is scheduled again and again.
FairSpec ==
  Spec /\ \A t \in Threads : WF_vars(Initialising(t) \/ Working(t) \/ Forking(t))

-----------------------------------------------------------------------------
(* Properties *)

InCall == {"preaction", "align", "mask", "morecore", "sbrk", "postaction", "change"}
Locked == {"align", "mask", "morecore", "sbrk", "postaction", "fork"}
UnderGlobal == {"check", "fill", "init_gm", "magic", "release", "sbrk"}

\* The unlocked read of magic is enough: a thread that is past it finds every
\* parameter and the lock's flag set, though another thread may have set them. The
\* granularity is a power of two of at least a page, whatever mallopt is called
\* with: the masks of granularity_align mean rounding only then.
ReadsInitialised ==
  \A t \in alive : pc[t] \in InCall =>
    /\ mflags /\ mparams.page_size = PAGE_SIZE /\ mparams.magic # 0
    /\ \A p \in {"granularity", "mmap_threshold", "trim_threshold"} : mparams[p] # 0
    /\ mparams.granularity % PAGE_SIZE = 0 /\ IsPowerOf2(mparams.granularity)

\* One thread at a time works on the main malloc area, and one is in init_mparams
\* or in MORECORE; in particular neither lock is initialised while a thread has it.
OneInMalloc ==
  /\ Cardinality({t \in alive : pc[t] \in Locked}) <= 1
  /\ Cardinality({t \in alive : pc[t] \in UnderGlobal}) <= 1

\* Whatever mallopt does beside: what sys_alloc asks of the system is a number of
\* whole pages, no sum that wrapped, and falls short of what is needed for the chunk
\* only if the granularity was changed between the two reads of granularity_align.
WholeGranules ==
  [][\A t \in alive : asize'[t] \notin {0, asize[t]} =>
       /\ asize'[t] % PAGE_SIZE = 0 /\ asize'[t] > job[t].arg
       /\ asize'[t] >= job[t].arg + SYS_ALLOC_PADDING \/ first[t] # mparams.granularity]_vars

\* What the comment on sys_alloc says of its request: in all cases it is enough for
\* nb bytes, with the padding.
RequestCovered ==
  \A t \in alive : asize[t] # 0 => asize[t] >= job[t].arg + SYS_ALLOC_PADDING

\* The global lock is held by a thread that is gone, which will not give it back.
Orphaned == global \notin alive \cup {NoThread}

\* A child of fork finds the main malloc area whole, no thread that is gone having
\* been at work on it, and its lock free (LOCK_AT_FORK). malloc_global_mutex has no
\* handlers: the child may find it taken, but only by a thread that was in
\* init_mparams, and itself uninitialised only if that one was about to write magic.
ChildSound ==
  process = "child" =>
    /\ \A t \in Threads \ alive : pc[t] \notin Locked
    /\ \A t \in alive : pc[t] = "idle" => gm_mutex = NoThread
    /\ Orphaned => pc[global] \in {"check", "magic", "release"}
    /\ mparams.magic = 0 => Orphaned /\ pc[global] = "magic"

\* The race of the threads for the initialisation ends with parameters set, and in a
\* child of fork every call comes back, unless the thread is left behind by a fork, or
\* the global lock without its owner.
InitEnds ==
  \A t \in Threads :
    At(t, "ensure") ~> \/ t \notin alive \/ Orphaned
                      \/ IF process = "child" THEN pc[t] = "idle" ELSE mparams.magic # 0

\* A call in a child of fork comes back: what pthread_atfork is used for (LOCK_AT_FORK).
ChildProceeds ==
  \A t \in Threads : (process = "child" /\ At(t, "ensure")) ~> pc[t] = "idle"
=============================================================================
