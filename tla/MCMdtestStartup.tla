-------------------------- MODULE MCMdtestStartup ---------------------------
(* Requests for TLC: every small tree, with -n or -I or both, and option
   combinations that md_validate_tests tells apart. *)
EXTENDS MdtestStartup

TreeRequests ==
  {[DefaultOptions EXCEPT !.depth = z, !.branch_factor = b, !.items = count,
                          !.items_per_dir = per, !.leaf_only = leaf] :
     z \in 0 .. 3, b \in 1 .. 3, count \in {0, 6, 13}, per \in 0 .. 2,
     leaf \in BOOLEAN}

RandomRequests ==
  {[DefaultOptions EXCEPT !.items_per_dir = per, !.depth = z, !.leaf_only = leaf,
                          !.branch_factor = 2, !.randomize = TRUE] :
     z \in 0 .. 1, per \in 1 .. 2, leaf \in BOOLEAN}

OptionRequests ==
  {[DefaultOptions EXCEPT !.items_per_dir = 1, !.no_barriers = nb,
                          !.nstride = stride, !.shared_file = sh,
                          !.collective_creates = coll,
                          !.unique_dir_per_task = uniq,
                          !.path_count = paths] :
     nb \in BOOLEAN, stride \in 0 .. 1, sh \in BOOLEAN, coll \in BOOLEAN,
     uniq \in BOOLEAN, paths \in 1 .. 3}

AllRequests == TreeRequests \cup RandomRequests \cup OptionRequests
=============================================================================
