------------------------------- MODULE Mdtest -------------------------------
(***************************************************************************)
(* An mdtest job: NTasks MPI ranks run the same stages over one shared     *)
(* name space, one file system call at a time and interleaved in any       *)
(* order, and meet in an MPI barrier at the end of every stage.  A script  *)
(* is a sequence of invocations over the same file system, such as the     *)
(* separate -C, -T, -E and -r runs of the benchmark scripts.  A call that  *)
(* fails where the code says FAIL aborts all the ranks (MPI_Abort).        *)
(***************************************************************************)
EXTENDS MdtestPlan, Namespace

CONSTANT Scripts   \* the scripts to choose from: sequences of option records

ASSUME ScriptsAssumption ==
  \A s \in Scripts : s \in Seq(Options) /\ \A run \in DOMAIN s : Valid(s[run])

VARIABLES
  script,    \* the invocations of this behaviour, with the options they run with
  program,   \* the stages of all of them, in order
  pos,       \* pos[r]: the stage rank r is in, an index of program
  next,      \* next[r]: the next call of the stage, an index of CallsOf(r)
  waiting,   \* waiting[r]: r has called the barrier that ends its stage
  fs,        \* the name space: path -> rank that made it
  aborted    \* some rank has called MPI_Abort

vars == <<script, program, pos, next, waiting, fs, aborted>>

\* The script with the options as mdtest_run prepares them, and its stages, one
\* invocation and one iteration after the other.
WithOptions(s) == [run \in DOMAIN s |-> Prepared(s[run])]
ProgramOf(s) == FlattenSeq([run \in DOMAIN s |-> RunStages(s[run], run)])

Finished(r) == pos[r] > Len(program)
StageOf(r) == program[pos[r]]
OptOf(r) == script[StageOf(r).run]
CallsOf(r) == StageOf(r).calls[r]
CallOf(r) == CallsOf(r)[next[r]]

\* Rank r is executing a stage, that is, not in a barrier.
Running(r) == ~aborted /\ ~waiting[r] /\ ~Finished(r)

Init ==
  /\ script \in {WithOptions(s) : s \in Scripts}
  /\ program = ProgramOf(script)
  /\ pos = [r \in Ranks |-> 1]
  /\ next = [r \in Ranks |-> 1]
  /\ waiting = [r \in Ranks |-> FALSE]
  /\ fs = NoNodes
  /\ aborted = FALSE

-----------------------------------------------------------------------------
\* Rank r is about to make call `op` in one of the given stages.
At(r, stages, op) ==
  /\ Running(r)
  /\ StageOf(r).name \in stages
  /\ next[r] <= Len(CallsOf(r))
  /\ CallOf(r).op = op

\* The call succeeds and leaves the name space as fsAfter ...
Succeed(r, fsAfter) ==
  /\ fs' = fsAfter
  /\ next' = [next EXCEPT ![r] = @ + 1]
  /\ UNCHANGED <<script, program, pos, waiting, aborted>>

\* ... or it fails and the rank calls FAIL.
Fail ==
  /\ aborted' = TRUE
  /\ UNCHANGED <<script, program, pos, next, waiting, fs>>

\* A call whose failure is fatal.
Perform(r, possible, fsAfter) ==
  \/ possible /\ Succeed(r, fsAfter)
  \/ ~possible /\ Fail

\* A call whose failure is only reported, or ignored.
Attempt(r, possible, fsAfter) ==
  Succeed(r, IF possible THEN fsAfter ELSE fs)

Path(r) == CallOf(r).path
IsTreeTop(path) == Last(path)[1] = "tree" /\ Last(path)[3] = 0

\* create_remove_directory_tree: failing to make the top directory of a tree is
\* printed, failing to make one below it is fatal.
MakeTreeDir(r) ==
  /\ At(r, {"tree_create"}, "mkdir")
  /\ LET possible == CanAdd(fs, Path(r))
         after == With(fs, Path(r), r)
     IN  IF IsTreeTop(Path(r)) THEN Attempt(r, possible, after)
                               ELSE Perform(r, possible, after)

\* create_remove_dirs with create set.
MakeDir(r) ==
  /\ At(r, {"dir_create"}, "mkdir")
  /\ Perform(r, CanAdd(fs, Path(r)), With(fs, Path(r), r))

\* create_file and collective_helper, open or create with O_CREAT.
CreateFile(r) ==
  /\ At(r, {"file_collective", "file_create"}, "create")
  /\ Perform(r, CanCreate(fs, Path(r)), With(fs, Path(r), r))

\* create_file with -k.
MakeNode(r) ==
  /\ At(r, {"file_collective", "file_create"}, "mknod")
  /\ Perform(r, CanAdd(fs, Path(r)), With(fs, Path(r), r))

\* mdtest_stat, one item.
StatItem(r) ==
  /\ At(r, {"dir_stat", "file_stat"}, "stat")
  /\ Perform(r, Exists(fs, Path(r)), fs)

\* mdtest_read, one item: open, read, close.
ReadFile(r) ==
  /\ At(r, {"file_read"}, "open")
  /\ Perform(r, Exists(fs, Path(r)), fs)

\* create_remove_dirs with create clear.
RemoveDir(r) ==
  /\ At(r, {"dir_remove"}, "rmdir")
  /\ Perform(r, CanRmdir(fs, Path(r)), Without(fs, Path(r)))

\* remove_file and collective_helper: the result of delete is not looked at.
RemoveFile(r) ==
  /\ At(r, {"file_remove"}, "delete")
  /\ Attempt(r, Exists(fs, Path(r)), Without(fs, Path(r)))

\* create_remove_directory_tree with create clear, in the build that calls it.
RemoveTreeDir(r) ==
  /\ At(r, {"tree_remove"}, "rmdir")
  /\ LET possible == CanRmdir(fs, Path(r))
         after == Without(fs, Path(r))
     IN  IF IsTreeTop(Path(r)) THEN Attempt(r, possible, after)
                               ELSE Perform(r, possible, after)

-----------------------------------------------------------------------------
\* Mutant: a rank goes to the barrier before its loop over the items is done.
EnterBarrierEarly(r) ==
  /\ Running(r)
  /\ waiting' = [waiting EXCEPT ![r] = TRUE]
  /\ UNCHANGED <<script, program, pos, next, fs, aborted>>

\* The rank has made all the calls of the stage and calls the barrier.
EnterBarrier(r) ==
  /\ Running(r)
  /\ next[r] > Len(CallsOf(r))
  /\ waiting' = [waiting EXCEPT ![r] = TRUE]
  /\ UNCHANGED <<script, program, pos, next, fs, aborted>>

\* MPI_Barrier: nobody returns before everybody has called it.
AllArrived(p) ==
  \A q \in Ranks : pos[q] > p \/ (pos[q] = p /\ waiting[q])

\* Mutants: a phase_end without its MPI_Barrier, a next phase that starts at item 0 of
\* loops that count from 1, and a loop over the phases that is not advanced.
LeaveBarrierAlone(r) ==
  /\ ~aborted
  /\ waiting[r]
  /\ waiting' = [waiting EXCEPT ![r] = FALSE]
  /\ pos' = [pos EXCEPT ![r] = @ + 1]
  /\ next' = [next EXCEPT ![r] = 1]
  /\ UNCHANGED <<script, program, fs, aborted>>

LeaveBarrierAtZero(r) ==
  /\ ~aborted
  /\ waiting[r]
  /\ AllArrived(pos[r])
  /\ waiting' = [waiting EXCEPT ![r] = FALSE]
  /\ pos' = [pos EXCEPT ![r] = @ + 1]
  /\ next' = [next EXCEPT ![r] = 0]
  /\ UNCHANGED <<script, program, fs, aborted>>

LeaveBarrierInPlace(r) ==
  /\ ~aborted
  /\ waiting[r]
  /\ AllArrived(pos[r])
  /\ waiting' = [waiting EXCEPT ![r] = FALSE]
  /\ next' = [next EXCEPT ![r] = 1]
  /\ UNCHANGED <<script, program, pos, fs, aborted>>

LeaveBarrier(r) ==
  /\ ~aborted
  /\ waiting[r]
  /\ AllArrived(pos[r])
  /\ waiting' = [waiting EXCEPT ![r] = FALSE]
  /\ pos' = [pos EXCEPT ![r] = @ + 1]
  /\ next' = [next EXCEPT ![r] = 1]
  /\ UNCHANGED <<script, program, fs, aborted>>

\* The job is over: every rank has returned from mdtest_run, or all were aborted.
Terminated == aborted \/ \A r \in Ranks : Finished(r)
Stop == Terminated /\ UNCHANGED vars

CallStep(r) ==
  \/ MakeTreeDir(r) \/ MakeDir(r) \/ CreateFile(r) \/ MakeNode(r)
  \/ StatItem(r) \/ ReadFile(r)
  \/ RemoveDir(r) \/ RemoveFile(r) \/ RemoveTreeDir(r)

RankStep(r) == CallStep(r) \/ EnterBarrier(r) \/ LeaveBarrier(r)

Next == (\E r \in Ranks : RankStep(r)) \/ Stop

Spec == Init /\ [][Next]_vars

\* Every rank is a process of its own that the operating system keeps running,
\* and the calls it makes return.
Fairness == \A r \in Ranks : WF_vars(RankStep(r))
FairSpec == Spec /\ Fairness

-----------------------------------------------------------------------------
(* What the job promises *)

\* The control state has the shape the actions rely on.
TypeOK ==
  /\ script \in {WithOptions(s) : s \in Scripts}
  /\ pos \in [Ranks -> Nat \ {0}]
  /\ next \in [Ranks -> Nat \ {0}]
  /\ waiting \in [Ranks -> BOOLEAN]
  /\ aborted \in BOOLEAN

\* Barrier separation, the premise of every number mdtest reports: two ranks that
\* are both executing calls are in the same stage, so no rank creates, stats or
\* removes while another is still busy with an earlier phase.
PhaseSeparation ==
  \A r, q \in Ranks : Running(r) /\ Running(q) => pos[r] = pos[q]

\* A set-up that md_validate_tests accepts runs to its end: no call of any phase
\* fails, whatever the interleaving of the ranks.
NeverAborts == ~aborted

\* The items of one kind that a creation phase leaves behind, defined from the
\* numbering alone and not from the walk: the items of every owner, in the top
\* directory the owner creates in, at the place rebuilt from the item's number.
Population(o, kind) ==
  LET owners == {ItemOwner(o, r, 0) : r \in Ranks}
      top(m) == IF o.unique_dir_per_task /\ ~o.collective_creates
                THEN (m + o.nstride) % NTasks ELSE BaseTree(o, m)
      count  == o.items_per_dir *
                  (IF o.leaf_only THEN NumLeaves(o) ELSE NumDirs(o))
      numbers == LeafOffset(o) .. LeafOffset(o) + count - 1
  IN  {ItemPath(top(m), BaseTree(o, m), kind, m,
                <<Rebuilt(o, n \div o.items_per_dir), n>>) :
        m \in owners, n \in numbers}

\* The invocations of a script work on the same items.
Asked(kind) == Population(script[1], kind)

NodesOf(kind) == {p \in DOMAIN fs : Last(p)[1] = kind}

\* Every rank that stats or reads does so among all the items of all the ranks, and
\* no others: none is still to be created, none has been removed already.
ReadersSeeAll ==
  \A r \in Ranks : Running(r) =>
    /\ StageOf(r).name = "dir_stat" => NodesOf("dir") = Asked("dir")
    /\ StageOf(r).name \in {"file_stat", "file_read"} =>
         NodesOf("file") = Asked("file")

\* The paths of the calls rank r has made in its stage.
Made(r) == {CallsOf(r)[i].path : i \in 1 .. next[r] - 1}

\* When the last rank reaches the barrier of a stat phase, the ranks together have
\* looked at every item that exists: the shifted names cover the whole name space.
StatCoversAll ==
  (\A r \in Ranks : waiting[r] /\ StageOf(r).name = "file_stat"
                     /\ OptOf(r).stat_only) =>
    UNION {Made(r) : r \in Ranks} = NodesOf("file")

\* Where a job stands with the items of one kind when the rank that is furthest on
\* is in stage p: `eff` is the latest stage up to there that makes or removes items of
\* that kind.  The build whose rmdir calls are commented out never takes directories
\* down.
Making(kind) ==
  IF kind = "dir" THEN {"dir_create"} ELSE {"file_collective", "file_create"}
Removing(kind) == IF kind = "dir" THEN {"dir_remove"} ELSE {"file_remove"}

LifecyclePhase(kind) ==
  LET p == Max({pos[r] : r \in Ranks})
      makes(k) == /\ program[k].name \in Making(kind)
                  /\ script[program[k].run].create_only
      removes(k) == /\ program[k].name \in Removing(kind)
                    /\ script[program[k].run].remove_only
                    /\ kind = "dir" => script[program[k].run].build # "iops"
      effective == {k \in 1 .. Len(program) : k <= p /\ (makes(k) \/ removes(k))}
      eff == Max(effective)
  IN  IF effective = {} THEN "idle"
      ELSE IF makes(eff) THEN (IF eff = p THEN "build" ELSE "use")
      ELSE IF eff = p THEN "clear" ELSE "idle"

\* The job implements the life cycle of its files, and of its directories: what is
\* built is exactly what was asked for, and nothing is used too early or left over.
Files == INSTANCE Lifecycle WITH
  asked <- Asked("file"),
  present <- NodesOf("file"),
  phase <- LifecyclePhase("file")
FileLifecycle == Files!Spec

Dirs == INSTANCE Lifecycle WITH
  asked <- Asked("dir"),
  present <- NodesOf("dir"),
  phase <- LifecyclePhase("dir")
DirLifecycle == Dirs!Spec

\* With -N the ranks work on items of other ranks, so that no rank finds them in
\* its own client cache.
ForeignItems ==
  \A r \in Ranks :
    Running(r) /\ StageOf(r).name \in {"dir_stat", "file_stat", "file_read"}
      /\ next[r] <= Len(CallsOf(r)) /\ OptOf(r).nstride % NTasks # 0
      /\ Path(r) \in DOMAIN fs
    => fs[Path(r)] # r

\* Where the tree is taken down too, a finished job that was asked to remove leaves
\* the file system as it was found.
LeavesNothing ==
  (\A r \in Ranks : Finished(r))
    /\ Last(script).build = "nodir" /\ Last(script).remove_only =>
  DOMAIN fs = {}

\* While any rank is in a stat or read phase, no step of any rank changes the name
\* space.
StableWhileRead ==
  [][(\E r \in Ranks : Running(r)
        /\ StageOf(r).name \in {"dir_stat", "dir_read", "file_stat", "file_read"})
     => UNCHANGED fs]_vars

\* In the copy whose rmdir calls are all commented out no directory ever disappears.
DirectoriesStay ==
  [][(\A run \in DOMAIN script : script[run].build = "iops") =>
       \A p \in DOMAIN fs : Last(p)[1] # "file" => p \in DOMAIN fs']_vars

\* Every rank comes back from every barrier, until the job is over.
Terminates == <>Terminated
=============================================================================
