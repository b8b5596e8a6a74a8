------------------------------ MODULE MCThreads ------------------------------
(***************************************************************************)
(* The locks of dlmalloc.c and the threads that meet at its parameters.    *)
(* `part` says which of the two moves; the other one stays as it begins.   *)
(***************************************************************************)
EXTENDS MCSpinLocks

CONSTANTS
  Builds, PAGE_SIZE, DEFAULT_MMAP_THRESHOLD, DEFAULT_TRIM_THRESHOLD, MAX_SIZE_T,
  SYS_ALLOC_PADDING, Seeds, Settings, Needs,
  Tuner            \* the thread that calls mallopt

VARIABLES
  part,
  build, mparams, mflags, status, global, gm_mutex, handlers, process, alive, at, job,
  first, asize     \* of Mparams, where `at` is called pc

pvars == <<build, mparams, mflags, status, global, gm_mutex, handlers, process, alive, at,
           job, first, asize>>

P == INSTANCE Mparams WITH pc <- at

ASSUME MparamsSanityCheck == P!SanityCheck

Build(need, morecore, fork, granularity, tuners, forkers) ==
  [NEED_GLOBAL_LOCK_INIT |-> need, HAVE_MORECORE |-> morecore, LOCK_AT_FORK |-> fork,
   DEFAULT_GRANULARITY |-> granularity, tuners |-> tuners, forkers |-> forkers]

\* A fork beside two other threads; mallopt beside mallocs that take the global
\* lock for MORECORE; win32, where the global lock is initialised first.
MCBuilds == {Build(FALSE, TRUE, TRUE, 0, {}, Threads \ {Tuner}),
             Build(FALSE, TRUE, FALSE, 8, {Tuner}, {}),
             Build(TRUE, FALSE, FALSE, 16, {Tuner}, {})}

\* Values above and below the page size, a power of two or not, and -1.
MCSettings == {"granularity"} \X {-1, 2, 16, 512} \cup {"trim_threshold"} \X {8}

-----------------------------------------------------------------------------
TInit ==
  /\ Init /\ P!Init /\ part \in {"locks", "params"}
  /\ part = "locks" => build = CHOOSE b \in Builds : TRUE
  /\ part = "params" => USE_RECURSIVE_LOCKS

Locks(A) == part = "locks" /\ A /\ UNCHANGED <<part, pvars>>
Params(A) == part = "params" /\ A /\ UNCHANGED <<part, vars>>

TNext == Locks(Next) \/ Params(P!Next)

TSpec ==
  /\ TInit /\ [][TNext]_<<part, vars, pvars>>
  /\ \A t \in Threads :
       /\ WF_<<part, vars, pvars>>(Locks(Running(t)))
       /\ WF_<<part, vars, pvars>>
            (Params(P!Initialising(t) \/ P!Working(t) \/ P!Forking(t)))

-----------------------------------------------------------------------------
\* A thread past the unlocked read of magic finds every parameter set and the
\* granularity fit for its mask.
ReadsInitialised == P!ReadsInitialised

\* One thread at a time is under either lock (Mparams).
OneInMalloc == P!OneInMalloc

\* sys_alloc's request is whole pages, and short only after a change between two reads.
WholeGranules == P!WholeGranules

\* sys_alloc's request is enough in all cases.
RequestCovered == P!RequestCovered

\* The race for the initialisation ends, and a child's calls come back, unless
\* malloc_global_mutex was left behind.
InitEnds == P!InitEnds

\* A child of fork finds no work half done and a lock it can take.
ChildSound == P!ChildSound

\* A child's calls come back.
ChildProceeds == P!ChildProceeds
=============================================================================
