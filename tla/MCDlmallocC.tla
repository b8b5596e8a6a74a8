---------------------------- MODULE MCDlmallocC ----------------------------
(* Scenarios for DlmallocC. *)
EXTENDS DlmallocC

Plain == [have_morecore |-> TRUE, have_mmap |-> TRUE, have_mremap |-> FALSE,
          max_release_check_rate |-> 2, mmap_threshold |-> 300, break_end |-> 2560,
          mmap_bases |-> {}, may_fail |-> {}, foreigners |-> 0, races |-> FALSE,
          calls |-> {"malloc", "free"}, requests |-> {12, 400}, alignments |-> {},
          elements |-> {}, pads |-> {}, limits |-> {}, max_busy |-> 1, max_live |-> 2]

\* The break, which others move too, and mapped memory when it is used up.
Break == [Plain EXCEPT !.mmap_threshold = 3000, !.break_end = 1800, !.mmap_bases = {2560},
                       !.foreigners = 1, !.calls = @ \cup {"trim"}, !.pads = {0, 92, 65500},
                       !.max_live = 3]

\* Others move it also between two calls of sys_alloc.
Racing == [Break EXCEPT !.races = TRUE, !.foreigners = 2, !.break_end = 2560, !.requests = {300, 600},
                        !.calls = {"malloc", "free"}, !.max_live = 2]

\* Mapped memory only: segments joined in front and behind, recorded and released.
Maps == [Plain EXCEPT !.have_morecore = FALSE, !.max_release_check_rate = 1, !.break_end = 1000,
                      !.mmap_threshold = 2000, !.mmap_bases = {1024, 1536, 2560},
                      !.requests = {12, 440}, !.max_live = 3]

\* Every call to the system may fail.
Failing == [Plain EXCEPT !.mmap_threshold = 400, !.mmap_bases = {2560, 3072},
                         !.may_fail = {"sbrk", "mmap", "munmap"},
                         !.calls = @ \cup {"trim"}, !.pads = {0}]

\* A limit on the footprint, set and lifted while blocks are held.
Limited == [Plain EXCEPT !.mmap_bases = {2560, 3328}, !.calls = @ \cup {"realloc", "limit"},
                         !.limits = {65535, 1, 1000}]

\* The same with mremap; requests below and above the threshold of mmap.
LimitedRemapping == [Limited EXCEPT !.have_mremap = TRUE, !.requests = {280, 400, 600},
                                    !.limits = {65535, 1200}]

\* Chunks in mappings of their own; memalign and realloc of them.
Direct == [Plain EXCEPT !.have_morecore = FALSE, !.break_end = 1000, !.mmap_bases = {1024, 1536},
                        !.calls = @ \cup {"realloc", "memalign"}, !.alignments = {64}]

\* realloc by mremap.
Remapping == [Plain EXCEPT !.have_morecore = FALSE, !.have_mremap = TRUE, !.break_end = 1000,
                           !.mmap_bases = {1024, 1536}, !.requests = {12, 400, 492},
                           !.calls = @ \cup {"realloc", "realloc_in_place"}]

\* The independent_ functions and bulk_free.
Independent == [Plain EXCEPT !.mmap_threshold = 256, !.break_end = 2048, !.mmap_bases = {2560},
                             !.calls = {"independent", "free", "bulk_free"},
                             !.elements = {<<12, 300>>}, !.max_live = 4]

\* Two threads: realloc and memalign take the lock twice.
TwoThreads == [Plain EXCEPT !.have_mmap = FALSE, !.break_end = 1600, !.mmap_threshold = 800,
                            !.requests = {60, 300}, !.calls = @ \cup {"realloc", "memalign"},
                            !.alignments = {64}, !.max_busy = 2]

\* What the client asks of independent_comalloc while another thread frees.
Splitting == [Plain EXCEPT !.mmap_threshold = 800, !.break_end = 2048, !.have_mmap = FALSE,
                           !.requests = {12}, !.calls = {"malloc", "independent", "free"},
                           !.elements = {<<12, 40>>}, !.max_busy = 2, !.max_live = 4]

MCScenarios == {Break, Racing, Maps, Failing, Limited, LimitedRemapping, Direct, Remapping, Independent,
                TwoThreads}
\* Two threads ask for elements that are large enough, taken together, to be mapped.
Doubly == [Splitting EXCEPT !.have_mmap = TRUE, !.mmap_threshold = 300, !.mmap_bases = {2560},
                            !.calls = {"independent"}, !.elements = {<<300>>}]

\* mremap of chunks that memalign has moved up in their mapping.
Shifted == [Remapping EXCEPT !.requests = {400, 720}, !.calls = @ \cup {"memalign"},
                             !.alignments = {64}]

MCSplitting == {Splitting}
MCDoubly == {Doubly}
MCShifted == {Shifted}
MCLimited == {LimitedRemapping}
ThreadsAlike == Permutations(Threads)
=============================================================================
