--------------------------- MODULE MdtestOptions ---------------------------
(***************************************************************************)
(* The options of one mdtest invocation and what mdtest_run makes of them  *)
(* before any test starts: which option combinations md_validate_tests     *)
(* accepts, the defaults it fills in, and the item counts derived from     *)
(* -n, -I, -b, -z and -L.  An option record carries the names of the C     *)
(* struct mdtest_options_t, flags are Booleans, and `build` says which of  *)
(* the copies of mdtest.c is run: "lat" measures latencies, "iops" makes   *)
(* no rmdir call, "nodir" removes the tree.                                *)
(***************************************************************************)
EXTENDS Integers

CONSTANTS
  NTasks,     \* o.size: the number of MPI ranks
  NodeShift   \* numTasksOnNode0 when ranks are placed in blocks on several
              \* nodes, and 1 otherwise: the factor applied to -N

ASSUME NTasksAssumption == NTasks \in Nat \ {0}
ASSUME NodeShiftAssumption == NodeShift \in Nat \ {0}

Ranks == 0 .. NTasks - 1

\* mdtest_init_args and the locals of mdtest_run: one level, branching factor
\* 1, barriers on, every other option off.
DefaultOptions ==
  [ build |-> "lat", depth |-> 0, branch_factor |-> 1, items |-> 0,
    items_per_dir |-> 0, leaf_only |-> FALSE, unique_dir_per_task |-> FALSE,
    collective_creates |-> FALSE, shared_file |-> FALSE, nstride |-> 0,
    dirs_only |-> FALSE, files_only |-> FALSE, make_node |-> FALSE,
    create_only |-> FALSE, stat_only |-> FALSE, read_only |-> FALSE,
    remove_only |-> FALSE, iterations |-> 1, no_barriers |-> FALSE,
    stone_wall_timer_seconds |-> 0, path_count |-> 1, verify_read |-> FALSE,
    read_bytes |-> 0, write_bytes |-> 0, randomize |-> FALSE,
    directory_loops |-> 1, num_dirs_in_tree_calc |-> 0 ]

Builds == {"lat", "iops", "nodir"}

\* What the option parser can make of a command line: every field is set, and has the
\* range of its C type (the item counts, sizes and -b are unsigned).
Options ==
  [ build : Builds, depth : Int, branch_factor : Nat, items : Nat,
    items_per_dir : Nat, leaf_only : BOOLEAN, unique_dir_per_task : BOOLEAN,
    collective_creates : BOOLEAN, shared_file : BOOLEAN, nstride : Int,
    dirs_only : BOOLEAN, files_only : BOOLEAN, make_node : BOOLEAN,
    create_only : BOOLEAN, stat_only : BOOLEAN, read_only : BOOLEAN,
    remove_only : BOOLEAN, iterations : Int, no_barriers : BOOLEAN,
    stone_wall_timer_seconds : Int, path_count : Int, verify_read : BOOLEAN,
    read_bytes : Nat, write_bytes : Nat, randomize : BOOLEAN,
    directory_loops : Int, num_dirs_in_tree_calc : Nat ]

-----------------------------------------------------------------------------
\* md_validate_tests: no phase option means all phases, neither -D nor -F means
\* both, and -S switches the directory tests off.
WithDefaults(o) ==
  LET anyPhase == o.create_only \/ o.stat_only \/ o.read_only \/ o.remove_only
      anyKind  == o.dirs_only \/ o.files_only
  IN  [o EXCEPT !.create_only = @ \/ ~anyPhase,
                !.stat_only   = @ \/ ~anyPhase,
                !.read_only   = @ \/ ~anyPhase,
                !.remove_only = @ \/ ~anyPhase,
                !.dirs_only   = (@ \/ ~anyKind) /\ ~o.shared_file,
                !.files_only  = @ \/ ~anyKind]

\* Mutant: md_validate_tests without the check that -n is a multiple of -I.
AcceptedAnyCount(o) ==
  /\ ~o.no_barriers
  /\ o.items > 0 /\ o.items_per_dir > 0 => ~o.unique_dir_per_task

\* The checks of md_validate_tests on options that already have their defaults;
\* any check that does not hold is a FAIL, which aborts all ranks.
Accepted(o) ==
  /\ ~(o.stone_wall_timer_seconds > 0 /\ o.branch_factor > 1)
  /\ ~o.no_barriers
  /\ ~(o.shared_file /\ o.collective_creates)
  /\ ~(o.path_count > 1 /\ o.collective_creates)
  /\ ~(o.unique_dir_per_task /\ o.shared_file)
  /\ ~(o.path_count > 1 /\ o.nstride > 0)
  /\ ~(o.path_count > 1 /\ ~o.unique_dir_per_task)
  /\ o.path_count <= NTasks
  /\ o.depth >= 0
  /\ ~(o.branch_factor < 1 /\ o.depth > 0)
  /\ o.items > 0 /\ o.items_per_dir > 0 =>
       ~o.unique_dir_per_task /\ o.items % o.items_per_dir = 0
  /\ ~(o.write_bytes > 0 /\ o.make_node)
  /\ o.verify_read => o.read_only /\ o.read_bytes > 0
  /\ o.create_only /\ o.read_only => o.read_bytes <= o.write_bytes

Valid(o) == Accepted(WithDefaults(o))

-----------------------------------------------------------------------------
\* pow(b, n).
Power(b, n) ==
  LET power[i \in 0 .. n] == IF i = 0 THEN 1 ELSE b * power[i - 1]
  IN  power[n]

\* Mutant: the geometric sum taken one level short.
NumDirsShort(o) ==
  IF o.depth <= 0 \/ o.branch_factor < 1 THEN 1
  ELSE IF o.branch_factor = 1 THEN o.depth + 1
  ELSE (Power(o.branch_factor, o.depth) - 1) \div (o.branch_factor - 1)

\* num_dirs_in_tree: 1 + b + ... + b^depth, in the closed form of mdtest_run.
NumDirs(o) ==
  IF o.depth <= 0 \/ o.branch_factor < 1 THEN 1
  ELSE IF o.branch_factor = 1 THEN o.depth + 1
  ELSE (Power(o.branch_factor, o.depth + 1) - 1) \div (o.branch_factor - 1)

\* The number of directories at the deepest level of the tree.
NumLeaves(o) == Power(o.branch_factor, o.depth)

\* directory_loops: with both -n and -I the tests are repeated n / I times.
DirectoryLoops(o) ==
  IF o.items > 0 /\ o.items_per_dir > 0 /\ ~o.unique_dir_per_task
  THEN o.items \div o.items_per_dir
  ELSE 1

\* num_dirs_in_tree_calc: nonzero only when -n and -I were both given.
CalcFactor(o) ==
  IF o.items_per_dir > 0 /\ o.items > 0 THEN NumDirs(o) ELSE 0

\* Items each rank handles in one directory, and in all of them, after the
\* roundings of mdtest_run.
ItemsPerDir(o) ==
  IF o.items_per_dir > 0 THEN o.items_per_dir
  ELSE IF ~o.leaf_only THEN o.items \div NumDirs(o)
  ELSE IF o.branch_factor <= 1 THEN o.items
  ELSE o.items \div NumLeaves(o)

\* Mutant: -n kept as it was asked for, not rounded to the tree.
ItemsUnrounded(o) ==
  IF o.items > 0 THEN o.items
  ELSE ItemsPerDir(o) * (IF o.leaf_only THEN NumLeaves(o) ELSE NumDirs(o))

Items(o) ==
  IF o.items_per_dir > 0 /\ o.items > 0 THEN o.items
  ELSE IF o.items_per_dir = 0 /\ o.leaf_only /\ o.branch_factor <= 1 THEN o.items
  ELSE ItemsPerDir(o) * (IF o.leaf_only THEN NumLeaves(o) ELSE NumDirs(o))

\* The options the tests run with: defaults filled in, counts derived, and -N
\* scaled by the number of ranks per node.
Prepared(raw) ==
  LET o == WithDefaults(raw)
  IN  [o EXCEPT !.items = Items(o), !.items_per_dir = ItemsPerDir(o),
                !.directory_loops = DirectoryLoops(o),
                !.num_dirs_in_tree_calc = CalcFactor(o),
                !.nstride = @ * NodeShift]
=============================================================================
