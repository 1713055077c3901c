------------------------------ MODULE MCMdtest ------------------------------
(* Small jobs for TLC: the scripts each configuration chooses from. *)
EXTENDS Mdtest

Base == [DefaultOptions EXCEPT !.items_per_dir = 1]
Deep == [Base EXCEPT !.depth = 1, !.branch_factor = 2]

\* The shapes the benchmark scripts use (-z -b -I, with and without -u), and the
\* options that change who works where: -c, -L, -S, -n.
PlainScripts ==
  { << [Base EXCEPT !.depth = 1, !.unique_dir_per_task = TRUE] >>,
    << [Deep EXCEPT !.files_only = TRUE] >>,
    << [Base EXCEPT !.collective_creates = TRUE, !.depth = 1] >>,
    << [Deep EXCEPT !.leaf_only = TRUE] >>,
    << [Base EXCEPT !.shared_file = TRUE, !.depth = 1] >>,
    << [Base EXCEPT !.items_per_dir = 0, !.items = 2, !.depth = 1] >>,
    << [Base EXCEPT !.make_node = TRUE] >> }

\* Only(o, phases): an invocation with some of -C, -T, -E, -r.
Only(o, phases) ==
  [o EXCEPT !.create_only = "C" \in phases, !.stat_only = "T" \in phases,
            !.read_only = "E" \in phases, !.remove_only = "r" \in phases]

Phased(o) == << Only(o, {"C"}), Only(o, {"T"}), Only(o, {"E"}), Only(o, {"r"}) >>

\* -N 1: in a shared tree, and with a directory per task when it has no subtree;
\* in one invocation and phase by phase.
Strided == [Base EXCEPT !.nstride = 1]
StrideScripts ==
  { << [Strided EXCEPT !.unique_dir_per_task = TRUE, !.items_per_dir = 2,
                       !.files_only = TRUE] >>,
    << [Strided EXCEPT !.depth = 1] >>,
    Phased([Strided EXCEPT !.depth = 1, !.files_only = TRUE]) }

InBuild(scripts, build) ==
  {[run \in DOMAIN s |-> [s[run] EXCEPT !.build = build]] : s \in scripts}

\* The build that removes the tree: two iterations, a collective run with a tree
\* per task, phase by phase, and the -D -C -r run of the rmdir measurements.
RemovalScripts ==
  { << [Deep EXCEPT !.iterations = 2, !.unique_dir_per_task = TRUE,
                    !.files_only = TRUE] >>,
    << [Deep EXCEPT !.unique_dir_per_task = TRUE,
                    !.collective_creates = TRUE] >>,
    << Only([Deep EXCEPT !.unique_dir_per_task = TRUE, !.dirs_only = TRUE,
                         !.depth = 2, !.branch_factor = 1], {"C", "r"}) >>,
    Phased(Deep) }

\* The jobs of the three builds.
AllScripts ==
  PlainScripts \cup StrideScripts \cup InBuild(PlainScripts, "iops")
    \cup InBuild(RemovalScripts, "nodir")

\* The same job twice in one invocation.
TwoIterations == { << [Base EXCEPT !.depth = 1, !.iterations = 2] >> }
=============================================================================
