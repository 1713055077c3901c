----------------------------- MODULE MdtestPlan -----------------------------
(***************************************************************************)
(* The calls an mdtest rank makes, stage by stage.  mdtest is a straight   *)
(* line of stages cut by MPI barriers: mdtest_iteration builds the tree,   *)
(* directory_test and file_test create, stat, read and remove the items,   *)
(* and one of the builds takes the tree down again.  This module says      *)
(* which stages a run has and which paths each rank works on in each.      *)
(***************************************************************************)
EXTENDS MdtestTree, TLC

Shared == -1     \* the owner in names that carry no rank ("mdtest.shared.")

\* prep_testdir formats the name of a test directory for the iteration and then
\* truncates it: every iteration and directory loop works below the root.
TestDir == <<>>

\* base_tree_name: the tree a rank builds and whose subdirectories it names.
BaseTree(o, r) == IF o.unique_dir_per_task THEN r ELSE Shared

\* Mutant: a read phase that is not shifted.
ItemOwnerReadsOwn(o, r, k) ==
  IF o.shared_file THEN Shared
  ELSE IF k = 2 THEN r ELSE (r + k * o.nstride) % NTasks

\* mk_name, stat_name, read_name, rm_name (k = 0 .. 3): rank r uses the items of
\* the rank k strides further on.
ItemOwner(o, r, k) ==
  IF o.shared_file THEN Shared ELSE (r + k * o.nstride) % NTasks

\* unique_mk_dir, unique_chdir_dir, .. unique_rm_dir (k = 0 .. 4): the top
\* directory in which rank r works.
TopDir(o, r, k) ==
  IF o.unique_dir_per_task THEN (r + k * o.nstride) % NTasks ELSE Shared

DirPath(top, base, place) ==
  TestDir \o << <<"tree", top, 0>> >>
          \o [i \in DOMAIN place |-> <<"tree", base, place[i]>>]

ItemPath(top, base, kind, owner, item) ==
  Append(DirPath(top, base, item[1]), <<kind, owner, item[2]>>)

Calls(op, paths) == [i \in DOMAIN paths |-> [op |-> op, path |-> paths[i]]]

\* The loop over directory_loops, whose rounds are all alike: TestDir is the same.
Repeat(o, calls) == FlattenSeq([l \in 1 .. o.directory_loops |-> calls])

AllRanks == [i \in 1 .. NTasks |-> i - 1]

-----------------------------------------------------------------------------
\* The trees rank r builds: its own with -u, all of them by rank 0 with -u -c,
\* the shared one by rank 0 otherwise.
TreesBuiltBy(o, r) ==
  IF o.unique_dir_per_task /\ ~o.collective_creates THEN <<r>>
  ELSE IF r # 0 THEN <<>>
  ELSE IF o.unique_dir_per_task THEN AllRanks ELSE <<Shared>>

\* create_remove_directory_tree with create set, and with create clear.
MakeTree(o, base) ==
  LET places == << <<>> >> \o TopDown(o)
  IN  Calls("mkdir", [i \in DOMAIN places |-> DirPath(base, base, places[i])])

\* Mutants: a tree removed from the top, and one whose top is left behind.
RemoveTreeTopDown(o, base) ==
  LET places == TopDown(o) \o << <<>> >>
  IN  Calls("rmdir", [i \in DOMAIN places |-> DirPath(base, base, places[i])])

RemoveTreeBelowTop(o, base) ==
  LET places == BottomUp(o)
  IN  Calls("rmdir", [i \in DOMAIN places |-> DirPath(base, base, places[i])])

RemoveTree(o, base) ==
  LET places == BottomUp(o) \o << <<>> >>
  IN  Calls("rmdir", [i \in DOMAIN places |-> DirPath(base, base, places[i])])

TreeCreation(o, r) ==
  LET trees == TreesBuiltBy(o, r)
  IN  Repeat(o, FlattenSeq([i \in DOMAIN trees |-> MakeTree(o, trees[i])]))

TreeRemoval(o, r) ==
  LET trees == TreesBuiltBy(o, r)
  IN  Repeat(o, FlattenSeq([i \in DOMAIN trees |-> RemoveTree(o, trees[i])]))

-----------------------------------------------------------------------------
\* create_remove_items from a top directory.
Walk(o, op, kind, top, base, owner) ==
  LET items == WalkedItems(o)
  IN  Calls(op, [i \in DOMAIN items |->
                  ItemPath(top, base, kind, owner, items[i])])

\* collective_create_remove: rank 0 walks every rank's tree, with the names that
\* rank would use.
CollectiveWalk(o, op, kind, k) ==
  FlattenSeq([i \in 1 .. NTasks |->
    Walk(o, op, kind, BaseTree(o, i - 1), BaseTree(o, i - 1),
         ItemOwner(o, i - 1, k))])

\* mdtest_stat (k = 1) and mdtest_read (k = 2).
LookUp(o, op, kind, r, k, items) ==
  LET found == LookedUpItems(o, items)
  IN  Calls(op, [i \in DOMAIN found |->
        ItemPath(TopDir(o, r, k + 1), BaseTree(o, r), kind,
                 ItemOwner(o, r, k), found[i])])

\* directory_test, create and remove phases.  The iops build has the rmdir of
\* create_remove_dirs commented out.
DirCreation(o, r) ==
  Repeat(o, IF ~o.collective_creates
            THEN Walk(o, "mkdir", "dir", TopDir(o, r, 1), BaseTree(o, r),
                      ItemOwner(o, r, 0))
            ELSE IF r = 0 THEN CollectiveWalk(o, "mkdir", "dir", 0) ELSE <<>>)

\* Mutants: the rmdir of create_remove_dirs commented out in every build, and in none.
DirRemovalNever(o, r) == <<>>
DirRemovalAlways(o, r) ==
  Repeat(o, IF ~o.collective_creates
            THEN Walk(o, "rmdir", "dir", TopDir(o, r, 4), BaseTree(o, r),
                      ItemOwner(o, r, 3))
            ELSE IF r = 0 THEN CollectiveWalk(o, "rmdir", "dir", 3) ELSE <<>>)

DirRemoval(o, r) ==
  Repeat(o, IF o.build = "iops" THEN <<>>
            ELSE IF ~o.collective_creates
            THEN Walk(o, "rmdir", "dir", TopDir(o, r, 4), BaseTree(o, r),
                      ItemOwner(o, r, 3))
            ELSE IF r = 0 THEN CollectiveWalk(o, "rmdir", "dir", 3) ELSE <<>>)

\* create_file: mknod with -k, otherwise open or create with O_CREAT.
OwnFiles(o, r) ==
  Walk(o, IF o.make_node THEN "mknod" ELSE "create", "file",
       TopDir(o, r, 1), BaseTree(o, r), ItemOwner(o, r, 0))

\* Mutant: only rank 0 deleting, whether or not the files are shared.
FileRemovalRankZero(o, r) ==
  Repeat(o, IF r # 0 THEN <<>>
            ELSE Walk(o, "delete", "file", TopDir(o, r, 4), BaseTree(o, r),
                      ItemOwner(o, r, 3)))

\* remove_file and collective_helper: with -S only rank 0 deletes.
FileRemoval(o, r) ==
  Repeat(o, IF o.shared_file /\ r # 0 THEN <<>>
            ELSE IF ~o.collective_creates
            THEN Walk(o, "delete", "file", TopDir(o, r, 4), BaseTree(o, r),
                      ItemOwner(o, r, 3))
            ELSE IF r = 0 THEN CollectiveWalk(o, "delete", "file", 3) ELSE <<>>)

\* file_test_create: with -c, rank 0 makes everybody's files, then (after a
\* barrier) every rank goes on to make its own.  Stage `round` of a collective
\* creation holds the own files of the round before and the files made by rank 0.
CollectiveFiles(o, r, round) ==
  (IF round = 1 THEN <<>> ELSE OwnFiles(o, r))
    \o (IF r = 0 THEN CollectiveWalk(o, "create", "file", 0) ELSE <<>>)

FileCreation(o, r) ==
  IF o.collective_creates THEN OwnFiles(o, r) ELSE Repeat(o, OwnFiles(o, r))

-----------------------------------------------------------------------------
Names(cond, names) == IF cond THEN names ELSE <<>>

\* The barrier on entry to directory_test / file_test, the one of MK_UNI_DIR,
\* and the four phases that phase_end closes.
DirStages(o) ==
  <<"dir_enter">>
    \o Names(o.create_only /\ o.unique_dir_per_task, <<"dir_chdir">>)
    \o <<"dir_create", "dir_stat", "dir_read", "dir_remove">>

FileStages(o) ==
  <<"file_enter">>
    \o Names(o.create_only /\ o.unique_dir_per_task, <<"file_chdir">>)
    \o Names(o.create_only /\ o.collective_creates,
             [l \in 1 .. o.directory_loops |-> "file_collective"])
    \o <<"file_create", "file_stat", "file_read", "file_remove">>

\* mdtest_iteration: the stages of one iteration; every stage ends in a barrier.
StageNames(o) ==
  Names(o.create_only, <<"tree_enter", "tree_create">>)
    \o Names(o.dirs_only, DirStages(o))
    \o Names(o.files_only, FileStages(o))

\* The build that removes the tree: two more barriers around the removal.
RemovalStageNames(o) ==
  Names(o.build = "nodir", <<"untree_enter">>)
    \o Names(o.build = "nodir" /\ o.remove_only, <<"tree_remove">>)

\* The calls of rank r in a stage.  `round` counts the collective stages so far;
\* `items` is the current value of o.items.
Work(o, r, name, round, items) ==
  CASE name = "tree_create" -> TreeCreation(o, r)
    [] name = "dir_create" /\ o.create_only -> DirCreation(o, r)
    [] name = "dir_stat" /\ o.stat_only ->
         Repeat(o, LookUp(o, "stat", "dir", r, 1, items))
    [] name = "dir_remove" /\ o.remove_only -> DirRemoval(o, r)
    [] name = "file_collective" -> CollectiveFiles(o, r, round)
    [] name = "file_create" /\ o.create_only -> FileCreation(o, r)
    [] name = "file_stat" /\ o.stat_only ->
         Repeat(o, LookUp(o, "stat", "file", r, 1, items))
    [] name = "file_read" /\ o.read_only ->
         Repeat(o, LookUp(o, "open", "file", r, 2, items))
    [] name = "file_remove" /\ o.remove_only -> FileRemoval(o, r)
    [] name = "tree_remove" -> TreeRemoval(o, r)
    [] OTHER -> <<>>

\* o.items in the given iteration: file_test multiplies it on its way out when both
\* -n and -I were given.
ItemsIn(o, iteration) ==
  IF o.num_dirs_in_tree_calc # 0 /\ o.files_only
  THEN o.items * Power(o.num_dirs_in_tree_calc, iteration - 1)
  ELSE o.items

\* mdtest_run: the stages of all the iterations of one invocation, with the calls
\* each rank makes in them.
RunStages(o, run) ==
  LET names == StageNames(o) \o RemovalStageNames(o)
      round(k) == Cardinality({j \in 1 .. k : names[j] = "file_collective"})
  IN  FlattenSeq([iteration \in 1 .. o.iterations |->
        [k \in DOMAIN names |->
          [run |-> run, name |-> names[k],
           calls |-> [r \in Ranks |->
             Work(o, r, names[k], round(k), ItemsIn(o, iteration))]]]])
=============================================================================
