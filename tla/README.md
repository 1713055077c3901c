# Verification of eval_dfs

This directory holds TLA+ modules for eval_dfs, the programs with which the
metadata performance of HopsFS and CephFS is measured: what the modules say,
what TLC checks on small instances and what TLAPS proves for all of them.
Line numbers are those of `src/hopsfs/ior/lat/mdtest.c` unless a file is named;
`no@testdir` is `src/hopsfs/ior/iops/mdtest-no@testdir.c`.

## 1. The system

### Components

| component | state it keeps | operations | talks to |
|---|---|---|---|
| **mdtest, set-up** (`mdtest_run` up to 2407, `md_validate_tests`) | the options `o`, the derived counts `items`, `items_per_dir`, `num_dirs_in_tree`, `directory_loops`, the array of `-R` | parse, validate (`FAIL` aborts all ranks), count, shuffle | fixes everything the tests use |
| **mdtest, iteration** (`mdtest_iteration`, `directory_test`, `file_test`, the tree walks) | the names of the phase, `base_tree_name`, `rank_progress_t`, the name space of the file system | make the tree; create, stat, read, remove the items; remove the tree | the other ranks through MPI barriers and through the name space; the backend through `aiori` |
| **stone wall** (`CHECK_STONE_WALL`, `updateStoneWallIterations`, `file_test_create`) | timer, `items_start`, `items_done`, `items_per_dir` of each rank, `o.items` | stop at the timer, reduce, catch up | all ranks through `MPI_Allreduce` and `MPI_Reduce`; the later phases through `o.items` and `progress` |
| **task loop** (2409-2448) | `testComm`, `testgroup` | run the tests on `-f` to `-l` ranks in steps of `-s` | MPI communicators |
| **timers and summary** (`GetTimeStamp`, `offset_timers`, `summarize_results`) | the stamps of each rank, `summary_table` | stamp, shift, reduce rates and times over ranks and iterations | MPI collectives |
| **data** (`create_file`, `mdtest_read`, `mdtest_verify_data`) | the write buffer, the read buffer, `verification_error` | write the pattern, read it back, compare | the backend |
| **mdtest for CephFS** (`cephfs/mdtest.cpp`) | as above, an older version with its own communicators and a working `-B` | as above, without stone wall and directory loops | libcephfs |
| **CephFS backend** (`cephfs/aiori-CEPHFS.c`) | the mount handle `cmount`, file descriptors | initialize, finalize, create, open, xfer, close, delete, mkdir, rmdir, access, stat | libcephfs |
| **path resolution and subtree experiments** (`test_path_resolution*.cpp`, `test_subtree.cpp`) | one client, one chain of directories per round | mkdir, create, rename, chown, chmod | libcephfs or libhdfs |
| **campaign scripts** (`test_*.py`) | the cluster, the latency files | restart, run mdtest, copy and delete the latency files | a shell, exit statuses ignored |

There are four copies of `mdtest.c` for HopsFS:

| copy | difference that matters | field `build` |
|---|---|---|
| `hopsfs/ior/lat/mdtest.c` | measures the latency of each call; removes items, keeps the tree | `"lat"` |
| `hopsfs/ior/iops/mdtest.c` | the same with every `rmdir` commented out | `"iops"` |
| `hopsfs/ior/iops/mdtest-no@testdir.c`, `hopsfs/script/mdtest/mdtest-no#testdir.c` (and `-normdir.c`, which is the same file) | also takes the tree down | `"nodir"` |

The rest of the text of these copies is the same but for time measurements and
messages. Each module is mapped to the copy whose lines it was written from: set-up
and stone wall to `iops`, the job to `lat`, the removal of the tree to
`no#testdir`, clocks and data to `no@testdir`.

CephFS is measured in two ways: with `cephfs/mdtest.cpp`, which calls the client
itself, and, as `cephfs/CephFS.md:141-148` describes, with the mdtest of another ior
in which `aiori-CEPHFS.c` is put in place. That other mdtest is not in the repository;
`FileData` composes the backend with the file path of the copy that is. (As they are,
the two would not run together: `cephfs_aiori` does not set `enable_mdtest`, which
`no@testdir` 2025 asks for, and its functions have the older signatures.)

### What is hard

* The ranks run without any lock. Barriers are all that keeps a creating rank
  and a removing rank apart, and they are spread over several functions and
  conditions; in the CephFS copy over two communicators, one of which leaves
  ranks out.
* A rank works on the names of other ranks (`-N`), and rank 0 on behalf of all
  of them (`-c`). What one phase leaves must be exactly what the next one uses,
  under names that each computes on its own.
* The same item is named in two ways: from the root down when it is created and
  removed, from its number up when it is looked up. The counts come from
  integer divisions of the options.
* Every rank has its own clock: with `-W` the ranks must still do equal work, and the
  time reported must cover the slowest rank although the ranks take their stamps
  when they get to it, and shift them afterwards.
* State outlives the phase that made it: `o.items`, `progress`, the directory
  names, `testComm`, the write buffer, and the name space between iterations and
  between invocations.
* Some failures abort all the ranks, some are printed, some are not looked at, and
  the backend and its caller do not agree which are which.

`PROJECT.json` lists these hazards line by line, with the properties aimed at
each of them.

### What makes each component correct

* Set-up: what it accepts runs to its end (`NeverAborts`); the counts it derives
  are those of the walk (`ItemsIsWorkDone`, `NumDirsIsTree`, `LoopsCoverItems`);
  what is looked up is what was made (`LookUpMatchesWalk`).
* Job, for HopsFS and for CephFS: phases do not overlap (`PhaseSeparation`), what is
  being read does not change (`StableWhileRead`), readers see the whole population
  (`ReadersSeeAll`) and look at all of it (`StatCoversAll`), the items live through an
  abstract life cycle (`FileLifecycle`, `DirLifecycle`), nothing is left
  (`LeavesNothing`), nobody waits for ever (`Terminates`).
* Stone wall: equal work (`SameWork`, as far as the code goes `SameWorkWhenFlat`),
  a count that tells the truth (`ReportedIsDone`), later phases that find and
  remove what was made (`NeverFails`, as far as the code goes
  `FirstIterationFindsFiles`; `CleanedUp`).
* Clocks: the reported time of a phase covers all the work in it (`SpanCovered`), a
  shift does not change what has been measured (`DurationsStand`), and the summary is
  about every rank and iteration once when all ranks are tasks (`SummaryRight`).
* Data: files are complete when a create phase ends (`FilesComplete`), intact data are
  never reported as wrong (`NoFalseAlarm`) and wrong data are counted
  (`DamageCounted`) and reported (`DamageReported`, which the code does not keep).

## 2. The modules

| module | what it is |
|---|---|
| `MdtestOptions` | the option record, the defaults and checks of `md_validate_tests`, the counts of `mdtest_run`; operators only |
| `MdtestTree` | directory numbering; the walk down (`TopDown`, `BottomUp`, `WalkedItems`) and the path up (`Rebuilt`, `LookedUpItems`) |
| `Namespace` | the file system as mdtest's calls rely on it; external |
| `MdtestPlan` | the stages of an iteration and the calls of each rank in each of them, for the three builds |
| `Mdtest` | the job: every rank makes its calls one at a time, interleaved with the others, and meets them in a barrier after each stage |
| `Lifecycle` | abstract: a population that is built, used and cleared |
| `MdtestStartup` | the set-up as a state machine, shuffle included |
| `Stonewall` | creation under a timer, reduction, catch-up, and the phases after it |
| `CephPlan` | options, counts, names, stages and calls of the CephFS copy |
| `CephMdtest` | the job of the CephFS copy: stages with members, with or without a barrier |
| `Timing` | stamps, shifts and summary, the loop over the numbers of tasks |
| `CephBackend` | the functions of `aiori-CEPHFS.c` over a libcephfs whose calls may fail |
| `FileData` | what is written, read back and verified, over `CephBackend` |
| `CommonLemmas` | facts about division, sums, sequences and recursive functions that several of the proofs need |
| `TreeLemmas` | facts about the operators of `MdtestOptions` and `MdtestTree`: counts, walks, rebuilt paths |
| `MdtestProofs`, `CephProofs`, `StartupProofs`, `StonewallProofs`, `TimingProofs`, `FileDataProofs` | theorems about `Mdtest`, `CephMdtest`, `MdtestStartup`, `Stonewall`, `Timing` and `FileData` |
| `MCMdtest`, `MCMdtestStartup`, `MCStonewall`, `MCCephMdtest`, `MCTiming`, `MCFileData` | the instances for TLC |

`MdtestOptions` < `MdtestTree` < `MdtestPlan` < `Mdtest` extend one another, and
`MdtestTree` < `CephPlan` < `CephMdtest`, since both programs number their trees the
same way. `Mdtest` and `CephMdtest` extend `Namespace` and instantiate `Lifecycle`.
`MdtestStartup` extends `MdtestTree`, `FileData` extends `CephBackend`; `Stonewall`
and `Timing` stand alone.

### Mdtest

A *stage* is what lies between two `MPI_Barrier` calls. `RunStages` writes down
the stages of one invocation, with the calls of every rank, from the functions
that make them (`create_remove_directory_tree`, `create_remove_items`,
`collective_create_remove`, `mdtest_stat`, `mdtest_read`); the order of calls is
that of the code. The options are read once per stage and no call's result
changes the control flow except by `FAIL`, so this plan is a faithful image of
the code's control, and the interleaving is left to the state machine:

| variable | code |
|---|---|
| `script` | `o`, one record per invocation (`mdtest_run` prepares it) |
| `program` | the text of `mdtest_iteration`, unrolled |
| `pos[r]`, `next[r]` | where rank r is: the stage, and the call in it |
| `waiting[r]` | r has called `MPI_Barrier` |
| `fs` | the name space, with the rank that made each path (its client) |
| `aborted` | `FAIL`, that is `MPI_Abort` |

One action per kind of call (`MakeTreeDir`, `MakeDir`, `CreateFile`, `MakeNode`,
`StatItem`, `ReadFile`, `RemoveDir`, `RemoveFile`, `RemoveTreeDir`), each with
the outcome the code gives a failure: `Perform` where it says `FAIL`, `Attempt`
where it prints or ignores it. `EnterBarrier` and `LeaveBarrier` are the two
halves of `MPI_Barrier`.

`TestDir` is the root: `prep_testdir` formats a name per iteration and directory
loop and then clears it (292), which the models keep.

### CephMdtest

The variables are those of `Mdtest`, and `connected`, the ranks whose client is
connected. `program` is worked out once, from `script`. A stage of this program has
`members`: all the ranks for the stages of `MPI_COMM_WORLD`, the first i for those of
`testcomm`; the others pass it by (`SkipStage`). Only a stage with `sync` ends in a
barrier; the others are left by `PassOn`, which is what `-B` makes of every phase.
Every failing call is fatal, so there is `Perform` and no `Attempt`. The test
directory is looked for and made by the first ranks (`MakeTestDir`) and removed by them
(`RemoveTestDir`). `Standings` says, for every place of a job, which round it is in
(number of tasks and iteration), which items the round asks for and which phase of
the life cycle it has reached; the population is that of the current iteration's test
directory, and `Lifecycle` is implemented round by round.

Two details of the C text are kept as what they do: the `sprintf` that formats
`testdir` onto itself (`cephfs/mdtest.cpp:2556`), which has undefined behaviour, is the
append that every build makes of it, and `base_tree_name` stays what the last walk
over all trees left in it (`BaseTreeFor`).

### MdtestStartup

`Validate`, `Count`, `FillRandArray` and `Swap` follow `mdtest_run` in order. The
value `rand()` returns is any, so every permutation the code can reach is
explored.

### Stonewall

`job` holds the options that matter here and is chosen at the start from the
constant `Jobs`: one directory chain, since `md_validate_tests` accepts `-W` with
one branch only, with its depth, its items per directory, the stride, the
directory loops and the iterations. The other variables are `progress[r]`
(`rank_progress_t`), `oitems[r]` (`o.items`), where the rank is in its loops
(`pc`, `dir`, `i`), the clock (`late[r]`), and the items there are.

`Expire(r)` is the clock of rank r and may happen at any time in the create
phase or never; `CreateItem` is one round of `create_remove_items_helper` with
the test of the timer at its end; `Reduce` is `updateStoneWallIterations` with
its three collective calls, which return on no rank before all have called them,
and `MPI_Reduce` gives its result to rank 0 only; `CreateItem` and `DirComplete`
are used again for the catch-up. `StatItems` stands for the stat phase of one
rank, all its items at once: in that phase nothing changes the name space, so
splitting it would show no more. The read phase looks up the same numbers with
another shift and is left out. `RemoveItems` is the remove phase of one rank;
the ranks remove disjoint sets of items.

### Timing

The code a rank runs from `testComm` to `summarize_results` is laid out as a sequence
of instructions (`CodeOf`): a stamp, a shift (`offset_timers`), a barrier, the work of a
phase, the recording of the durations, a gathering. `pos[r]` is the instruction of rank
r and `comm[r]` its `testComm`, empty for `MPI_COMM_NULL`. `Tick` is time passing, at any
moment: between a barrier and the stamp after it as well. `Begin` and `End` mark the
file system calls of a phase in `span`, which is what the reported times are compared
with. Barriers and gatherings are matched by counting calls per rank, as MPI matches
them, and a collective call on `MPI_COMM_NULL`, or `MPI_Comm_create` for a group the
communicator does not hold, aborts. `all` is the array in which rank 0 gathers the tables.
The code does not initialize it (1312), so its contents at the start are any element of
the constant `Memory`; a gathering writes the rows of the members of `comm[0]` and leaves the
others, and the summary reads them all.

A rate is the number of items divided by a duration. The modules keep the duration: the
smallest rate of `summarize_results` is the largest duration here.

### CephBackend and FileData

`CephBackend` has one operator per function of the table `cephfs_aiori` that mdtest
uses. A call to libcephfs returns what it would, or, as long as `MaxFaults` allows,
`-EPERM` (the one that equals -1) or `-EIO`; writes may be cut short. `CEPHFS_ERR` aborts
on a negative result; `CEPHFS_MkDir`, `CEPHFS_RmDir` and `CEPHFS_Stat` hand it on, and
`FailOnMinusOne` is what mdtest does with it.

`FileData` is the life of the items in one directory: every rank opens, writes and closes
its files, opens, reads, compares and closes those of the rank two strides on, and
deletes those three strides on, one call at a time. `item[r]` and `step[r]` are the loop
counter and the call in it, `errors[r]` is `o.verification_error`. A file is its bytes:
the item number in front (a word, or one byte when the buffer is shorter than a word) and
the pattern `i % 256` behind. `Damage` is storage that lets a byte go bad between the
create and the read phase.

## 3. What TLC checks

| run | instance | shows |
|---|---|---|
| `mdtest` | 3 ranks, 21 scripts: 7 shapes (`-u`, files only in a binary tree, `-c`, `-L`, `-S`, `-n`, `-k`) with the `lat` and the `iops` build; 3 with `-N 1`; 4 with the build that removes the tree (two iterations, `-u -c`, `-u -D -C -r` in a chain, split phases) | separation of the phases, no call that fails, full and foreign populations, the life cycles of files and directories (refinement), nothing left, no directory lost by `iops`, and `Terminates` |
| `startup` | all `-z` 0..3, `-b` 1..3, `-n` 0, 6, 13, `-I` 0..2, `-L`; option combinations; shuffles of up to 6 items | counts, numbering and shuffle |
| `stonewall` | 3 ranks, `-N 1`, 5 jobs: 3 items in one directory, 2 in each of 2, 1 in each of 3, 3 items in two iterations, `-n 6 -I 3` | the promises of `-W` as far as the code keeps them, a remove phase that leaves nothing in any of them, and `Terminates` |
| `ceph` | 3 ranks, 15 scripts: `-u` with two `-d` paths and a delay, `-u -c`, `-c`, `-S`, `-L`, `-n`, `-N` with and without `-M`, `-i 2`, split phases with and without `-c`, 1 to 3 tasks, and `-B` where every rank has its own items | the same promises for the CephFS copy, round by round, with idle ranks and missing barriers; clients connect in order |
| `timing` | 2 ranks, clock up to 2, 8 jobs: `-u` with its overhead left out and counted (`-t`), two iterations, `-c`, `-Y` with two directory loops, `-D`, numbers of tasks that give one round or none, one task of two; two contents of the array | times that cover the work, stable durations, an honest summary when all ranks are tasks, and `Terminates` |
| `data` | 2 ranks, one fault, two bad bytes, 7 jobs: empty files, 2, 9 and 10 bytes with and without `-X` and `-y`, less read than written, `-S`, directories, `-Y` | complete files, no false alarm, damage counted, and a clean end without faults |

Every property of these runs has a mutant in `PROJECT.json`: a definition that
models code, changed in the way a slip in that code would change it, under which
TLC finds the property violated.

### Disagreements between code and documentation

Each of these runs checks one statement of a comment, a message or an option text and
TLC finds a behaviour of the code against it; `PROJECT.json` quotes the lines.

| run | property | what happens |
|---|---|---|
| `bad_iterations` | `NeverAborts` | `-i 2 -z 1` aborts in the second iteration |
| `bad_stonewall_again` | `SameWork` | `-W -i 2`: rank 0 does not catch up; with `NeverFails` in place of `SameWork` the same instance aborts in the stat phase |
| `bad_stonewall_dirs` | `NeverFails` | `-W -D`: directories are stopped too, and stat aborts |
| `bad_tasks` | `NeverAborts` | `-f 1 -l 2`: `testComm` is overwritten by the first round, and the rank left out calls a barrier on `MPI_COMM_NULL` |
| `bad_verify` | `DamageReported` | a rank other than 0 finds wrong data, and nobody is told |
| `bad_backend` | `DirectoriesMade` | a `mkdir` that fails with anything but `EPERM` passes for a success |

More follow from the text of the code, as the modules render it, and have no run of
their own:

* `-B` is rejected in every combination (1589), although the options list it (2102) and
  1610 goes on to check what it may be combined with; so no script may have it
  (`Valid` in `MdtestOptions`).
* `-u -N 1` with a subdirectory aborts in the create phase (1926): the top directory is
  the neighbour's and the subdirectories are named after the rank's own tree.
* `-N 1` with two ranks reads the rank's own files (1920): twice the stride is no shift.
* `-n 2 -I 1` makes one item per process, half of what was asked for (292).
* `-W` with a second directory gives unequal work (488): after the timer one item is
  made in each further directory.
* `-W -n 6 -I 3` leaves the directory loop after its first round (1151) while the stat
  phase goes on from `-n`, and aborts.
* `hopsfs/script/mdtest/mdtest-normdir.c` is byte for byte the copy that takes the tree
  down, although `hopsfs/HopsFS.md:273` describes it as the one with all `rmdir`
  commented out; that promise, `DirectoriesStay`, holds of the `iops` build.
* With `-X`, `-w` and `-e` on different sides of 8 bytes report intact data as wrong
  (`no@testdir` 357), which is why `NoFalseAlarm` has its precondition. `DamageCounted` has
  the same one: where the two layouts differ, a byte that has gone bad can become just the
  one that the reader expects, and nothing is counted.
* With fewer tasks than ranks (`-f 1 -l 1`) the table that `summarize_results` reads is in part
  uninitialized (`no@testdir` 1312): the gathering fills the rows of the tasks (1319), the
  loops go over `o.size` rows (1392, 1422). Rank 0 may print such lines before the other
  ranks' barrier on `MPI_COMM_NULL` aborts the job (`bad_tasks`), and `SummaryRight` without
  its first condition fails in `timing`.

In `cephfs/mdtest.cpp`: `-S -B` lets rank 0 unlink the file that others still stat, which
is fatal; `-c -u -N` always aborts, and `-u -N` does with `-z 1` or more; `-T -r -c -u -i 2`
with `-z 1` or more aborts on the stale `base_tree_name`; `-C -f 1 -l 2` aborts on the
tree of the first round; `-L -I` multiplies by all the directories, not by the leaves
that get items; with `-f` below the number of ranks the summary also gathers the rows,
never filled, of the idle ranks; `-s 0` does not end; with `-M` and a failing `popen` rank 0
divides by zero; the rate of an iteration is the largest of the ranks, so that its
time need not cover the slowest one.
In `aiori-CEPHFS.c` a second initialization after `CEPHFS_Final` would go on with a handle
that is gone (128, 166); mdtest initializes once. The tree lines of the summary of the HopsFS
copies hold rank 0's own times, which with `-u` need not cover the other trees
(`SpanCovered` says so).

### The bounds, and why they are enough

* *Ranks*: 3 in the jobs. With two ranks a shift of 2 and a shift of 0 are the same; with
  three ranks the shifts 0 to 3 give three different neighbours and one wrap-around, and
  in `ceph` there can be an idle rank while two are working together. Two ranks serve in `timing`
  and `data`, where what matters is one rank that is behind another, and where a
  counterexample needs no more.
* *Tree*: `-z 2 -b 1` and `-z 1 -b 2` in the jobs, which have a parent that is
  not the root and siblings; `startup` covers the arithmetic up to `-z 3 -b 3`
  (40 directories), where both the closed form and the path of three steps up
  are exercised.
* *Items*: one or two per directory in the jobs. Items of one rank in one
  directory are alike; it is their number, not their names, that matters, and
  the numbering itself is checked by `startup`.
* *Stone wall*: three items in the flat jobs, so that the average over the ranks
  can equal an earlier maximum without the ranks being equal; in chains two items
  by two directories and one by three, which have directories before, at and after
  the one in which the timer runs out.
* *Clock* (`MaxClock`): two ticks, so that a rank can be late once before a phase and once
  in it. The durations are differences of stamps, and a lost or a doubled shift shows with
  one tick.
* *Faults* (`MaxFaults`): one. A fault either aborts or leaves a state from which the rest
  goes on as before; two items per rank let a fault meet the first and the last.
* *Damage* (`MaxDamage`): two bytes, in one file or in two, so that one of them may be
  out of the window, or lie before the other. Files of 2, 9 and 10 bytes have a short head, a
  full word with a byte behind it, and a byte more than is read.
* *Contents of the array* (`Memory`): zeros, and numbers larger than any duration of the run
  that differ from place to place, so that a row that was not gathered shows in the smallest
  time or in the largest.
* *Scripts*: an invocation is finite by nature; the only counters are the stage
  and the call, which the plan bounds.

### Fairness

`Mdtest`, `CephMdtest`, `Stonewall` and `Timing` assume weak fairness of each rank's next
step, and of the collective calls. A rank is an operating-system process that nothing
in the program suspends, its file system calls return, and MPI guarantees that a
collective call completes once every rank has made it. Nothing is assumed of the
clocks: `Expire` and `Tick` are never forced. Safety properties are checked without
fairness. `timing` and `bad_tasks` switch the deadlock check off: a job of `Timing`
stops for good when it is over, and `Terminates` is what shows that it stops nowhere
else. In the other modules a finished or aborted job stutters in `Stop`, so a deadlock
would be a job that is stuck anywhere else.

## 4. What is proved

| module | theorem | statement |
|---|---|---|
| `MdtestProofs` | `TypeCorrect` | `Spec => []TypeOK` |
| | `PhasesSeparate` | `Spec => []PhaseSeparation`: ranks that execute calls are in the same stage |
| | `StableReads` | `Spec => StableWhileRead`: no step changes the name space while a rank stats or reads |
| | `DirectoriesKept` | `Spec => DirectoriesStay`: the build without `rmdir` calls loses no directory |
| `CephProofs` | `CephTypeCorrect` | `Spec => []TypeOK` |
| | `CephPhasesSeparate` | `Spec => []PhaseSeparation`: two ranks that execute are not on different sides of a barrier in which both take part |
| | `ConnectionsInOrder` | `Spec => []ConnectInOrder`: clients connect in rank order, and no rank makes a call before the last has connected or after one has disconnected |
| `StartupProofs` | `StartupTypeCorrect` | `Spec => []TypeOK`: the shuffle stays inside the array |
| | `ShuffleKeepsItems` | `Spec => []RandIsPermutation` |
| | `LoopsAddUp` | `Spec => []LoopsCoverItems`: with `-n` and `-I` the directory loops add up to `-n` |
| | `ClosedFormIsTree` | `Spec => []NumDirsIsTree`: the closed form of `num_dirs_in_tree` is the number of directories the walk makes |
| | `ItemsAreDone` | `Spec => []ItemsIsWorkDone`: `o.items` is the number of items the walk works on |
| | `LookUpFindsItems` | `Spec => []LookUpMatchesWalk`: stat and read look up exactly the items that were made, each once, where they were made |
| `StonewallProofs` | `StonewallTypeCorrect` | `Spec => []TypeOK` |
| | `StonewallCleansUp` | `Spec => []CleanedUp`: the remove phase leaves nothing, wherever the timers cut the ranks off |
| | `StonewallSameWork` | `Spec => []SameWorkWhenFlat`: equal work in a first iteration with one directory |
| | `StonewallReports` | `Spec => []ReportedIsDone`: `o.items` is what the rank has made |
| | `StonewallFindsFiles` | `Spec => []FirstIterationFindsFiles`: no stat of a first iteration misses its file |
| `TimingProofs` | `ShiftsKeepDurations` | `Spec => DurationsStand`: `offset_timers` changes no duration of a finished phase |
| | `DeviationSeesAll` | the loops for the deviation visit the entries of the gathered table that the loops for the mean visit |
| | `SummaryIsRight` | `Spec => []SummaryRight`: when all ranks are tasks, each line rank 0 prints of a test is about every rank and every iteration, once, whatever the array held before |
| | `TimesCoverWork` | `Spec => []SpanCovered`: the time reported of a phase is never shorter than its work |
| `FileDataProofs` | `NeverMisled` | `Spec => []NoFalseAlarm` |
| | `CreatedFilesComplete` | `Spec => []FilesComplete` |
| | `DamageNeverMissed` | `Spec => []DamageCounted`: a bad byte in what mdtest looks at has been counted by some rank when the read phase is over |
| | `JobsEndClean` | `Spec => []CleanWithoutFaults`: without a failing call no job aborts, and none leaves anything |

All of them hold for any number of ranks and any jobs or scripts; those of `FileData` for
any number of items, bytes, faults and bad bytes as well, those of `MdtestStartup` for trees of
any depth and branching factor.

*Assumptions*, all named `ASSUME`s that TLC evaluates in the runs: there is at least one
rank and one node per shift; the requests of the set-up are records of all the options, each in
the range of its C type (`Options`), and nothing else is asked of them; the scripts of `Mdtest`
are sequences of such records that `md_validate_tests` accepts, those of `CephMdtest` of
set-ups that `valid_tests` accepts, with all the fields of the options and no others, a natural
number of iterations, a positive `-s` and `-f` among the ranks (`CephScriptsAssumption`); the
jobs of `Stonewall`, `Timing` and `FileData` have fields of their types, `-e` no larger than
`-w`; a job of `Timing` with `-u` has one directory loop, since `-n` with `-I`, which alone makes
several (2075), is refused with `-u` (1578); the memory of its array holds numbers, of which
nothing more is asked (`MemoryAssumption`).

### The arguments

*Mdtest.* Phase separation is not inductive. From a state in which one
rank waits two stages behind another, which satisfies it, `LeaveBarrier` could
bring the first to a stage it then shares with nobody. `IInv` adds `Adjacent`: a
rank that is behind another has called its barrier, and the other is exactly one
stage ahead. `CallStepFrame` shows that no call touches what `Adjacent` speaks
of; for `LeaveBarrier` the guard `AllArrived` gives the missing fact, that nobody
is behind the rank that leaves. `StableReads` then needs only that a step which
changes `fs` is a call in a stage that is not a stat or read stage
(`ChangeOutsideReads`), and that by `Adjacent` a running reader is in the same
stage. `DirectoriesKept` is about the text of a program: every stage has the calls its
invocation's options ask for (`StagesAre`), so that of the calls that take something away
only those of `FileRemoval` are left in that build, and their paths end in the name of a
file (`ItemPathEnds`), given that the walk names each item with a place of the tree.

*CephMdtest.* Here `Adjacent` is false: an idle rank, or any rank with `-B`, can be many
stages ahead. `BarriersHold` says of every barrier separately that when one of its
members has passed it every member has passed it or waits in it. Passing a stage by or
going on without a barrier cannot break that, because the stage left is then not a
barrier the rank is a member of.

That the clients connect in order is a matter of the whole program, not of one barrier.
`Shape` says how a program is laid out around each place: a rank connects in a stage of
its own that all ranks close with a barrier (`ConnectShape`), and before a stage of the
tests there is a block in which all of them have connected, with no disconnect between it
and the next barrier of all ranks (`WorkShape`). One round of `-i` and of the task counts is
laid out like that, and a program, which is the concatenation of such rounds, inherits it
(`FlattenCopies`, `ShapeOfCopy`): this is where the induction over the number of rounds is.
Over time, `CInv` adds `Joining` (who has made its connecting call and no disconnecting one
after it is connected), `Ordered` and `CallsMade`. With `BarriersHold` a rank in a test stage
has all the others past their connecting stage and none in a disconnecting one.

*MdtestStartup.* The shuffle exchanges two places. That the array stays a permutation
(`ExchangeKeepsPermutation`) is easy once both places are known to lie in it, which is
what the invariant adds: the loop variable does not exceed `o.items`, and the array has
that length. `LoopsAddUp` needs to remember that the options have been accepted (`Derived`);
`LoopsDivide` is then the arithmetic: what the checks refuse is what the two divisions
would round.

The other three theorems are about operators only: the invariant says that the tests run with
the prepared options of an accepted request (`Ready`), and `TreeLemmas` does the rest. Its
functions over levels and numbers (`Power`, `LevelSizes`, `Rebuilt`, `TopDown`) are recursive
functions inside a `LET`, so each first gets a lemma that the function exists and satisfies
its equation. `ClosedForm` is the geometric sum; it bounds the numbers level by level, so that
a directory whose number is in level k has children in level k + 1 (`LevelOfChild`) and the path
rebuilt from its number upwards has as many parts as its level (`ChainIsRebuilt`).
`TopDownCovers` says of the walk that it meets every number of the tree below a directory, at
the place that `Rebuilt` gives for it. Its length is the number of directories there are, and a
sequence of that length that meets each of them meets none twice (`OntoOnce`), which spares a
comparison of the subtrees with one another. `WalkedItemsAre` adds the items of each directory
(`ItemPlacesAre` leaves out all but the leaves with `-L`), and `NumbersLookedUp` shows that the
item numbers, divided by the items of a directory and shifted to the leaves, run through these
directories and items once.

*Stonewall.* That nothing is left does not follow from what the ranks have made, but from
facts about it. `Placed`: every item lies below the limit of the rank that made it; for a
rank that was stopped this rests on `Cut`, that it records the first directory it gave
up, and makes one item in each after that. `OneLimit`: the reduction gives all ranks the
same limit, no smaller than what any has recorded, so that a neighbour who removes up to
its own limit removes everything. `InOrder` and `Gone`: nobody creates when a rank
removes, so removed items do not come back. At the end every rank's items have been removed by
the rank three strides before, which exists because the shift modulo the number of
ranks reaches all of them (`ShiftReaches`).

The theorems about what the catch-up achieves have an invariant on top of that. `Made`: a
rank has made all the files of directory 0 up to its count. `Recorded`: what it has recorded
and what it goes on with agree with that count. The step that needs work is the
reduction. Rank 0 alone may find that the average over the ranks equals the maximum and
skip the catch-up; it must then have nothing to catch up. `MPI_Reduce` gives a sum, so the
proof is that a sum of numbers, none above b, whose quotient by their number is b can only
be made of b's (`SumBound`, `QuotientBound`), and that the maximum is what every rank was
asked for. `StonewallFindsFiles` is that a stat looks for no number above the one
limit, and a neighbour has made all up to it.

*Timing.* `DurationsStand` is a property of each step. A shift moves the stamps from a number
on by the same amount; the two stamps of a finished phase are either both moved or both not,
unless the shift comes between them. That no instruction of the code shifts from such a
number is a fact about the code of a job (`Instructions`), shown of each of the pieces that
the code is a concatenation of. `AtTheCall` ties who waits in a collective call to the place
in its code. For `DeviationSeesAll` the two ways to number the entries of the table,
by rank and then by iteration or the other way round, both go once through
0 .. NTasks * iterations - 1 (`RowByRow`).

`SummaryIsRight` is about the whole run. `CodeLayout` says where the instructions are: the
first round is a `comm`, B - 1 instructions of the iterations, one gather for each of the
I iterations and the summary; behind it the code ends or a round with more tasks begins.
The inductive invariant `SInv` follows the ranks through that round: nobody gets past the
next `comm`, since `MPI_Comm_create` fails there for a group that the communicator does not
hold (`Members`); a rank that is no task of the round gets past no barrier, and every one of
them has a barrier before the first instruction that fills in its table; `calls[r]` is the
number of collective instructions before `pos[r]` (`CallsCounted`), so that rank 0, which
gathers when the others have made more calls than it has, has the rows of all tasks
(`Gathered`). The rows that nobody has sent hold numbers of which nothing is known; when all
ranks are tasks there are none. Then the places of the entries
are all different (`PlaceUnique`), and a sum over the places is the sum over the ranks and
iterations because a sum may be taken in any order (`AnyOrder`, `SumsAgree`), for which
`Sum` takes a function.

`TimesCoverWork` follows one measurement at a time, a row of the table in one iteration
(`Measured`, with the ranks that work for it). It has a frame in the code of the round (`Frame`,
found by `FrameFound` in the code of every job): the first stamp at S, then the work, then a
barrier at C, the last stamp and the record at R; between stamp and barrier nothing but calls
and barriers, and between the last stamp and the record no shift that moves one of the two
stamps without the other. The inductive invariant `XInv` is `TInv`, `InRound` (that of
`SummaryIsRight`) and `Measuring`, which says of every measurement:

* a rank between its first stamp and the barrier holds a time that is not after now (`Early`),
  since the instruction that opens the frame, a stamp or a shift, sets it to now, and nothing
  moves it until the barrier; so the first of the ranks to work holds one that is not after its
  work;
* no rank is past the barrier while another is before it (`InStep`), so that the last stamp of
  any rank is after the work of all of them;
* from the first call on, one of the ranks covers what has been done so far (`Kept`, `Covers`):
  before its last stamp by its first stamp, then by the difference of the two, which shifts
  leave as it is, and after the record by its entry of the table, which nobody writes again.

At the summary the frame is behind every rank (`SummaryAfterGather`), and the line of a test has
the largest of the entries, which is no smaller than that of the one that covers
(`Greatest`, `AllGathered`), and the rows that nobody has sent can only make it larger; the
line of the tree has rank 0's, who alone works there.

*FileData.* All four theorems rest on what is in the files at any time, half-written ones
included: `Faithful`, a prefix of the pattern of the item in the name. A write keeps that
only if it goes to the item its rank believes, in a file that still exists: `Held`, about
the descriptor, and `Adjacent`, which keeps those who delete from those who write or read.
A whole read of a prefix passes the check (`PrefixVerified`). For `FilesComplete`, `Made`
says which files are complete while the create phase runs, and `Waited` that a rank in the
barrier has been through its loop; from prefix to whole file it takes that a write which
did not abort was not cut short.

For the damage (`DamageNeverMissed`), the barrier before the read phase has all files whole
(`FilesComplete`), so that from then on a file is the pattern with the damaged bytes changed
(`Altered`; `Known` and `Kept` say which files there are and when bytes go bad), and no rank
has read before the last byte has gone bad. `AllRead` is the claim item by item: who is done
with an item that has a bad byte in its window has counted an error. It rests on
`AlteredFound`, that a changed byte is never what the pattern has there, whichever of the two
layouts applies, and on `SomebodyHas`, that the shift brings a rank to every file.

For the clean end (`JobsEndClean`), `Population` says in terms of how far each rank has come
what there is: what has been made and not been removed is there (`There`), what has been removed is not
(`Gone`), and nothing else is (`Fresh`, `Placed`, `Tops`). `Books` adds the open descriptors and
the mounts. Each call moves one rank by one item or one step (`OwnProgress`, `QuietProgress`,
`BarrierProgress`), and every call finds what it needs because the barriers say how far the
others are (`SoFar`): who makes an item has nobody removing yet, who reads has everybody's
items complete (`EnoughToRead`), who removes the top directory has nothing left in it
(`NothingLeft`). All this holds as long as no call has failed of its own account, so the
invariant is `faults = 0 => Clean`, and no step takes `faults` back.

*CommonLemmas.* The folds of the community modules are recursive functions inside a `LET`,
that is, choices among the functions that satisfy an equation. What is needed of them is
shown by induction over the size (`NatSetInduction` and `StrongInduction`, for a set of numbers
instead of a predicate): that such a function exists (`Recursion`, `SumsExist`, `JoinsExist`), and
what any such function is worth (`SumBound`, `AnyOrder`, `SumsAgree`, `FlattenCopies`,
`FlattenPieces`, `FlattenIs`, `FlattenFirst`, `FlattenKeeps`, `FlattenFrom`, `FlattenLength`).

### What is only model-checked

* What the calls do to the name space in `Mdtest` and `CephMdtest`: `NeverAborts`,
  `ReadersSeeAll`, `StatCoversAll`, `ForeignItems`, `LeavesNothing` and the
  refinements of `Lifecycle`. Most of them have no theorem for all scripts because they do not
  hold for all scripts that the code accepts: `-i 2` and `-C -f 1 -l 2` abort (above), and with
  `-c -N` or `-S` the items of a rank are not the ones made under another's name. They hold
  for the scripts of the runs, and a theorem would have to single out the right ones.
* Liveness: fairness and `ENABLED` are out of reach of the prover used here.

## 5. What is not modelled

* The status file of `-x` and, with it, a stone wall split over invocations; `-c` under a
  timer; `-R` in a stone-walled job and in the CephFS copy.
* `--verify-write`, which reads through a descriptor opened for writing; item numbers of
  2^24 and more in the pattern; several top directories of the HopsFS copies (`-d a@b`);
  the delays themselves, of which only the barriers are kept.
* Widths: `int item` beside `uint64_t` counts. The jobs measured stay far below 2^31 items.
* The floating-point mean, deviation and rates of the summary, the stone wall line of it, and
  what is printed. The summary of the CephFS copy.
* In the CephFS copy: `count_tasks_per_node`, `display_freespace`, the layout of paths as
  text, the data written and read. In the backend: access, statfs, the file size.
* Ranks and servers that die: mdtest has no answer to either but `FAIL`, which ends the
  job. Storage that loses more than bytes.
* The path resolution and subtree programs: one client, calls in sequence, every failure
  printed and none acted upon; there is no interleaving and no state but the chain. The
  campaign scripts, whose state is the cluster's, and `test_hopsfs.java`, which has none.
* HopsFS, CephFS and IndexFS themselves, which are not in the repository, and the
  configuration of their clusters. `Namespace` makes every call atomic, which is what
  the programs expect of them.

## 6. Plan

What could be added, the most useful first:

1. `StatusFile`: `-x` over invocations, added to `Stonewall`, with a crash between the
   create phase and the write; with `-R`, whose array outlives the smaller `o.items`.
2. `PathResolution`: the renamed chains. Property: after round R the file lies
   below exactly R moved directories and every call has succeeded; and the
   condition the FIXME states on depth, length and number.
3. `Campaign`: restart, run, copy, delete, with the exit statuses ignored.
4. Theorems: in `Mdtest`, that the name space holds only what the ranks were told to make.
