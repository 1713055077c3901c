------------------------------ MODULE CephPlan -------------------------------
(***************************************************************************)
(* The mdtest that measures CephFS: an older program than the copies for   *)
(* HopsFS, over a path-based client.  This module says what its options    *)
(* become, which stages a run has, who takes part in each, which stages    *)
(* end in a barrier, and which calls every rank makes in them.             *)
(*                                                                         *)
(* Unlike the HopsFS copies it runs on the first i ranks for i = -f .. -l  *)
(* in steps of -s, gives every iteration a directory of its own, accepts   *)
(* -B, which takes the barriers between the phases away, and treats every  *)
(* failing call as fatal.                                                  *)
(***************************************************************************)
EXTENDS MdtestTree, TLC

Shared == -1       \* the owner in names that carry no rank

\* The globals of the program and the locals of main: one level, barriers on, all the
\* ranks, every other option off.  `mdts` is what `lfs mdts` lists for -M.
CephDefaults ==
  [ depth |-> 0, branch_factor |-> 1, items |-> 0, items_per_dir |-> 0,
    leaf_only |-> FALSE, unique_dir_per_task |-> FALSE,
    collective_creates |-> FALSE, shared_file |-> FALSE, nstride |-> 0,
    dirs_only |-> FALSE, files_only |-> FALSE, create_only |-> FALSE,
    stat_only |-> FALSE, read_only |-> FALSE, remove_only |-> FALSE,
    iterations |-> 1, barriers |-> TRUE, path_count |-> 1, pre_delay |-> 0,
    mdts |-> {}, first |-> 1, last |-> 0, stride |-> 1 ]

\* The letters of the getopt loop whose options matter here.
OptionField ==
  [ b |-> "branch_factor", B |-> "barriers", c |-> "collective_creates",
    C |-> "create_only", d |-> "path_count", D |-> "dirs_only",
    E |-> "read_only", f |-> "first", F |-> "files_only", i |-> "iterations",
    I |-> "items_per_dir", l |-> "last", L |-> "leaf_only", M |-> "mdts",
    n |-> "items", N |-> "nstride", p |-> "pre_delay", r |-> "remove_only",
    s |-> "stride", S |-> "shared_file", T |-> "stat_only",
    u |-> "unique_dir_per_task", z |-> "depth" ]

\* A command line, as a record from letters to arguments; a letter without one is
\* TRUE, and -d stands for its number of paths.
Parsed(args) ==
  [field \in DOMAIN CephDefaults |->
    LET given == {x \in DOMAIN args : OptionField[x] = field}
    IN  IF given = {} THEN CephDefaults[field]
        ELSE IF field = "barriers" THEN FALSE
        ELSE args[CHOOSE x \in given : TRUE]]

\* -M: rank 0 lists the metadata servers and broadcasts them.  An empty list is
\* the end of it; otherwise every rank works in a tree of its own.
Striped(o) == [o EXCEPT !.unique_dir_per_task = @ \/ o.mdts # {}]

\* No phase option means all phases.
AllPhases(o) ==
  LET any == o.create_only \/ o.stat_only \/ o.read_only \/ o.remove_only
  IN  [o EXCEPT !.create_only = @ \/ ~any, !.stat_only = @ \/ ~any,
                !.read_only = @ \/ ~any, !.remove_only = @ \/ ~any]

\* The defaults valid_tests fills in: neither -D nor -F means both, and -S means no
\* directory tests.
BothKinds(o) ==
  LET any == o.dirs_only \/ o.files_only
  IN  [o EXCEPT !.dirs_only = (@ \/ ~any) /\ ~o.shared_file,
                !.files_only = @ \/ ~any]

\* The checks of valid_tests; one that does not hold is a FAIL.
CephAccepts(o) ==
  /\ ~(~o.barriers /\ o.nstride # 0)
  /\ ~(o.shared_file /\ o.collective_creates)
  /\ ~(o.path_count > 1 /\ o.collective_creates)
  /\ ~(o.collective_creates /\ ~o.barriers)
  /\ ~(o.unique_dir_per_task /\ o.shared_file)
  /\ ~(o.path_count > 1 /\ o.nstride > 0)
  /\ ~(o.path_count > 1 /\ ~o.unique_dir_per_task)
  /\ o.path_count <= NTasks
  /\ o.depth >= 0
  /\ ~(o.branch_factor < 1 /\ o.depth > 0)
  /\ ~(o.items > 0 /\ o.items_per_dir > 0)

\* The number of items: -I is multiplied by all the directories, -L or not, while -n
\* is rounded down to the directories that get items.
CephCounts(o) ==
  LET dirs == IF o.leaf_only THEN NumLeaves(o) ELSE NumDirs(o)
      per  == IF o.leaf_only /\ o.branch_factor <= 1 THEN o.items
              ELSE o.items \div dirs
  IN  IF o.items_per_dir > 0
      THEN [o EXCEPT !.items = o.items_per_dir * NumDirs(o)]
      ELSE [o EXCEPT !.items_per_dir = per,
                     !.items = IF o.leaf_only /\ o.branch_factor <= 1 THEN @
                               ELSE per * dirs]

\* Without -l all the ranks run the tests, once.
TaskRange(o) ==
  IF o.last = 0 THEN [o EXCEPT !.first = NTasks, !.last = NTasks] ELSE o

Checked(raw) == BothKinds(AllPhases(Striped(raw)))
CephValid(raw) == CephAccepts(Checked(raw))
CephPrepared(raw) == TaskRange(CephCounts(Checked(raw)))

\* The numbers of tasks of the outer loop: from -f to -l in steps of -s, where the
\* step after 1 counts from 0.
TaskCounts(o) ==
  LET after(i) == (IF i = 1 /\ o.stride > 1 THEN 0 ELSE i) + o.stride
      from[i \in 1 .. NTasks + o.stride] ==
        IF i > o.last \/ i > NTasks THEN <<>> ELSE <<i>> \o from[after(i)]
  IN  from[o.first]

-----------------------------------------------------------------------------
(* Names.  i is the number of tasks the test runs on, j the iteration. *)

\* Mutant: the shifts taken modulo all the ranks.
ItemOwnerOfAll(o, i, r, k) ==
  IF o.shared_file THEN Shared ELSE (r + k * o.nstride) % NTasks

\* mk_name, stat_name, read_name, rm_name (k = 0 .. 3).
ItemOwner(o, i, r, k) ==
  IF o.shared_file THEN Shared ELSE (r + k * o.nstride) % i

\* unique_mk_dir, unique_chdir_dir, .. unique_rm_dir (k = 0 .. 4).
TopDir(o, i, r, k) ==
  IF o.unique_dir_per_task THEN (r + k * o.nstride) % i ELSE Shared

\* The directory of an iteration, below the -d path of the rank.
TestDir(o, r, j) == << <<"test-dir", r % o.path_count, j>> >>

\* base_tree_name before the first stage of an iteration.
BaseTree(o, r) == IF o.unique_dir_per_task THEN r ELSE Shared

\* base_tree_name where a stat or read phase uses it.  Making or removing all the
\* trees leaves rank 0 with the name of the last one, which only a collective walk
\* puts back; an iteration without creation starts with what the removal left.
BaseTreeFor(o, r, j, kind) ==
  IF /\ o.unique_dir_per_task /\ o.collective_creates /\ r = 0
     /\ ~o.create_only /\ o.remove_only /\ j > 1
     /\ kind = "file" => ~o.dirs_only
  THEN NTasks - 1
  ELSE BaseTree(o, r)

DirPath(dir, top, base, place) ==
  dir \o << <<"tree", top, 0>> >>
      \o [n \in DOMAIN place |-> <<"tree", base, place[n]>>]

ItemPath(dir, kind, owner, number) == Append(dir, <<kind, owner, number>>)

Call(op, path) == [op |-> op, path |-> path]
Calls(op, paths) == [n \in DOMAIN paths |-> Call(op, paths[n])]

-----------------------------------------------------------------------------
(* The test directory and the trees *)

AllRanks == [n \in 1 .. NTasks |-> n - 1]

\* Ranks below the number of -d paths look for the test directory, and make it.
TestDirCreation(o, r, j) ==
  IF r < o.path_count THEN Calls("mkdir_unless", <<TestDir(o, r, j)>>) ELSE <<>>

\* Mutant: rank 0 alone takes its test directory away.
TestDirRemovalByZero(o, r, j) ==
  IF r = 0 THEN Calls("rmdir_if", <<TestDir(o, r, j)>>) ELSE <<>>

TestDirRemoval(o, r, j) ==
  IF r < o.path_count THEN Calls("rmdir_if", <<TestDir(o, r, j)>>) ELSE <<>>

\* create_remove_directory_tree, with create set and with create clear.
MakeTree(o, dir, base) ==
  LET places == << <<>> >> \o TopDown(o)
  IN  Calls("mkdir", [n \in DOMAIN places |-> DirPath(dir, base, base, places[n])])

RemoveTree(o, dir, base) ==
  LET places == BottomUp(o) \o << <<>> >>
  IN  Calls("rmdir", [n \in DOMAIN places |-> DirPath(dir, base, base, places[n])])

\* Every rank its own tree with -u, also the ranks that do not take part in the
\* tests; rank 0 all of them with -u -c; rank 0 the one tree otherwise.
TreesOf(o, r) ==
  IF o.unique_dir_per_task /\ ~o.collective_creates THEN <<r>>
  ELSE IF r # 0 THEN <<>>
  ELSE IF o.unique_dir_per_task THEN AllRanks ELSE <<Shared>>

TreeCreation(o, r, j) ==
  FlattenSeq([n \in DOMAIN TreesOf(o, r) |->
               MakeTree(o, TestDir(o, r, j), TreesOf(o, r)[n])])

TreeRemoval(o, r, j) ==
  FlattenSeq([n \in DOMAIN TreesOf(o, r) |->
               RemoveTree(o, TestDir(o, r, j), TreesOf(o, r)[n])])

-----------------------------------------------------------------------------
(* Items *)

\* create_remove_items_helper, one directory: with -S only rank 0 unlinks.
OwnItems(o, r, op, dir, kind, owner, first) ==
  IF op = "unlink" /\ o.shared_file /\ r # 0 THEN <<>>
  ELSE Calls(op, [n \in 1 .. o.items_per_dir |->
                   ItemPath(dir, kind, owner, first + n - 1)])

\* collective_helper, one directory, on rank 0.
CollectiveItems(o, op, dir, kind, owner, first) ==
  Calls(op, [n \in 1 .. o.items_per_dir |->
              ItemPath(dir, kind, owner, first + n - 1)])

\* create_remove_items: the directories below a top directory that get items.
PlacesBelow(o, dir, top, base) ==
  [n \in DOMAIN ItemPlaces(o) |->
    [path  |-> DirPath(dir, top, base, ItemPlaces(o)[n]),
     first |-> DirNumber(ItemPlaces(o)[n]) * o.items_per_dir]]

\* Rank r works on the items of the names k strides on, in top directory t.
OwnWalk(o, i, r, j, op, kind, k, t) ==
  LET places == PlacesBelow(o, TestDir(o, r, j), TopDir(o, i, r, t), BaseTree(o, r))
  IN  FlattenSeq([n \in DOMAIN places |->
        OwnItems(o, r, op, places[n].path, kind, ItemOwner(o, i, r, k),
                 places[n].first)])

\* collective_create_remove: rank 0 does it for each of the i tasks, in its tree.
CollectiveWalk(o, i, j, op, kind, k) ==
  FlattenSeq([task \in 1 .. i |->
    LET base   == BaseTree(o, task - 1)
        places == PlacesBelow(o, TestDir(o, 0, j), base, base)
    IN  FlattenSeq([n \in DOMAIN places |->
          CollectiveItems(o, op, places[n].path, kind,
                          ItemOwner(o, i, task - 1, k), places[n].first)])])

\* How many items a stat or read phase looks for.
SoughtCount(o) ==
  IF o.leaf_only THEN o.items_per_dir * NumLeaves(o) ELSE o.items

\* The paths mdtest_stat and mdtest_read rebuild from the item numbers.
Sought(o, i, r, j, kind, k) ==
  [n \in 1 .. SoughtCount(o) |->
    LET num == n - 1 + LeafOffset(o)
    IN  ItemPath(DirPath(TestDir(o, r, j), TopDir(o, i, r, k + 1),
                         BaseTreeFor(o, r, j, kind),
                         Rebuilt(o, num \div o.items_per_dir)),
                 kind, ItemOwner(o, i, r, k), num)]

\* mdtest_stat, and mdtest_read, whose open, read and close are one call here.
StatAll(o, i, r, j, kind) == Calls("stat", Sought(o, i, r, j, kind, 1))
ReadAll(o, i, r, j) == Calls("read", Sought(o, i, r, j, "file", 2))

-----------------------------------------------------------------------------
(* The phases of directory_test and file_test *)

DirCreation(o, i, r, j) ==
  IF ~o.collective_creates THEN OwnWalk(o, i, r, j, "mkdir", "dir", 0, 1)
  ELSE IF r = 0 THEN CollectiveWalk(o, i, j, "mkdir", "dir", 0) ELSE <<>>

DirRemoval(o, i, r, j) ==
  IF ~o.collective_creates THEN OwnWalk(o, i, r, j, "rmdir", "dir", 3, 4)
  ELSE IF r = 0 THEN CollectiveWalk(o, i, j, "rmdir", "dir", 3) ELSE <<>>

\* With -c the files are made by rank 0 and by nobody else.
FileCollection(o, i, r, j) ==
  IF r = 0 THEN CollectiveWalk(o, i, j, "create", "file", 0) ELSE <<>>

FileCreation(o, i, r, j) ==
  IF o.collective_creates THEN <<>> ELSE OwnWalk(o, i, r, j, "create", "file", 0, 1)

FileRemoval(o, i, r, j) ==
  IF ~o.collective_creates THEN OwnWalk(o, i, r, j, "unlink", "file", 3, 4)
  ELSE IF r = 0 THEN CollectiveWalk(o, i, j, "unlink", "file", 3) ELSE <<>>

\* The calls of rank r in a stage of iteration j on i tasks.
Work(o, i, r, j, name) ==
  CASE name = "testdir" -> TestDirCreation(o, r, j)
    [] name = "tree_create" -> TreeCreation(o, r, j)
    [] name = "dir_create" /\ o.create_only -> DirCreation(o, i, r, j)
    [] name = "dir_stat" /\ o.stat_only -> StatAll(o, i, r, j, "dir")
    [] name = "dir_remove" /\ o.remove_only -> DirRemoval(o, i, r, j)
    [] name = "file_collective" -> FileCollection(o, i, r, j)
    [] name = "file_create" /\ o.create_only -> FileCreation(o, i, r, j)
    [] name = "file_stat" /\ o.stat_only -> StatAll(o, i, r, j, "file")
    [] name = "file_read" /\ o.read_only -> ReadAll(o, i, r, j)
    [] name = "file_remove" /\ o.remove_only -> FileRemoval(o, i, r, j)
    [] name = "tree_remove" -> TreeRemoval(o, r, j)
    [] name = "testdir_remove" -> TestDirRemoval(o, r, j)
    [] OTHER -> <<>>

-----------------------------------------------------------------------------
(* The stages: their names, who takes part, and which end in a barrier *)

Names(cond, names) == IF cond THEN names ELSE <<>>

\* -p delays a test behind a barrier, both tests begin with one, and MK_UNI_DIR is
\* another.
DirStages(o) ==
  Names(o.pre_delay > 0, <<"dir_delay">>)
    \o <<"dir_enter">>
    \o Names(o.create_only /\ o.unique_dir_per_task, <<"dir_chdir">>)
    \o <<"dir_create", "dir_stat", "dir_read", "dir_remove">>

FileStages(o) ==
  Names(o.pre_delay > 0, <<"file_delay">>)
    \o <<"file_enter">>
    \o Names(o.create_only /\ o.unique_dir_per_task, <<"file_chdir">>)
    \o Names(o.create_only /\ o.collective_creates, <<"file_collective">>)
    \o <<"file_create", "file_stat", "file_read", "file_remove">>

IterationStages(o) ==
  <<"testdir", "tree_enter">>
    \o Names(o.create_only, <<"tree_create">>)
    \o Names(o.dirs_only, DirStages(o))
    \o Names(o.files_only, FileStages(o))
    \o <<"untree_enter">>
    \o Names(o.remove_only, <<"tree_remove", "testdir_remove">>)

\* The phases that end in a barrier only without -B.
Phases == {"dir_create", "dir_stat", "dir_read", "dir_remove",
           "file_create", "file_stat", "file_read", "file_remove"}

\* The stages of MPI_COMM_WORLD; the others are those of testcomm.
WorldStages ==
  {"connect", "testdir", "tree_enter", "tree_create", "untree_enter",
   "tree_remove", "testdir_remove", "summarize", "disconnect"}

Members(i, name) == IF name \in WorldStages THEN Ranks ELSE 0 .. i - 1

Synced(o, name) ==
  /\ name \notin {"testdir_remove", "disconnect"}
  /\ name \in Phases => o.barriers

Stage(o, run, i, j, name, calls) ==
  [run |-> run, tasks |-> i, iteration |-> j, name |-> name,
   members |-> Members(i, name), sync |-> Synced(o, name), calls |-> calls]

\* Mutant: all of them at once.
ConnectTogether(o, run) ==
  <<Stage(o, run, NTasks, 0, "connect",
          [r \in Ranks |-> <<Call("connect", <<>>)>>])>>

\* The ranks connect one after the other, with a barrier after each.
ConnectStages(o, run) ==
  [n \in 1 .. NTasks |->
    Stage(o, run, NTasks, 0, "connect",
          [r \in Ranks |-> IF r = n - 1 THEN <<Call("connect", <<>>)>> ELSE <<>>])]

TestStages(o, run, i) ==
  FlattenSeq([j \in 1 .. o.iterations |->
    [k \in DOMAIN IterationStages(o) |->
      Stage(o, run, i, j, IterationStages(o)[k],
            [r \in Ranks |-> Work(o, i, r, j, IterationStages(o)[k])])]])

\* main: connect, then for every number of tasks the iterations and the gathering of
\* their results, then disconnect.
RunStages(o, run) ==
  LET counts == TaskCounts(o)
      idle == [r \in Ranks |-> <<>>]
  IN  ConnectStages(o, run)
        \o FlattenSeq([n \in DOMAIN counts |->
             Append(TestStages(o, run, counts[n]),
                    Stage(o, run, counts[n], 0, "summarize", idle))])
        \o <<Stage(o, run, NTasks, 0, "disconnect",
                   [r \in Ranks |-> <<Call("disconnect", <<>>)>>])>>
=============================================================================
