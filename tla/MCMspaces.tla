----------------------------- MODULE MCMspaces -----------------------------
(* Scenarios for Mspaces. *)
EXTENDS Mspaces

\* Two spaces on mapped memory; with FOOTERS either handle will do.
Two == [have_morecore |-> FALSE, have_mmap |-> TRUE, have_mremap |-> FALSE,
        max_release_check_rate |-> 1, mmap_threshold |-> 300, break_end |-> 1000,
        mmap_bases |-> {1024, 1536, 2560}, may_fail |-> {}, foreigners |-> 0, races |-> FALSE,
        calls |-> {"create", "destroy", "malloc", "free", "bulk_free", "track"},
        ids |-> {1, 2}, capacities |-> {0}, bases |-> {}, base_sizes |-> {}, client_pages |-> {},
        requests |-> {12, 400}, alignments |-> {}, elements |-> {}, pads |-> {}, max_live |-> 2]

\* A space on the client's memory, or one whose capacity wraps.
OnBase == [Two EXCEPT !.mmap_threshold = 1000, !.ids = {1}, !.capacities = {0, 65200},
                      !.bases = {2048}, !.base_sizes = {512}, !.client_pages = {2048, 2304},
                      !.calls = {"with_base", "create", "destroy", "malloc", "free", "realloc",
                                 "memalign", "independent", "bulk_free", "trim"},
                      !.requests = {12, 300}, !.alignments = {64}, !.elements = {<<12, 40>>},
                      !.pads = {0}]

MCScenarios == {Two, OnBase}
=============================================================================
