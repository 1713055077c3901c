----------------------------- MODULE CephMdtest ------------------------------
(***************************************************************************)
(* A job of the mdtest for CephFS: NTasks MPI ranks go through the stages  *)
(* of CephPlan over one name space, one call of the client at a time and   *)
(* interleaved in any order.  A stage has members, the ranks of its        *)
(* communicator: the others pass it by.  Only some stages end in a         *)
(* barrier; with -B a rank goes on to the next phase when it is done.  Any *)
(* call that fails aborts all the ranks.                                   *)
(***************************************************************************)
EXTENDS CephPlan, Namespace

CONSTANT Scripts   \* the scripts to choose from: sequences of option records

ASSUME CephScriptsAssumption ==
  \A s \in Scripts : s \in Seq(Range(s)) /\ \A run \in DOMAIN s :
    /\ CephValid(s[run]) /\ DOMAIN s[run] = DOMAIN CephDefaults
    /\ s[run].iterations \in Nat
    /\ s[run].stride \in Nat \ {0} /\ s[run].first \in 1 .. NTasks

VARIABLES
  script,     \* the invocations of this behaviour, with the options they run with
  program,    \* the stages of all the invocations, in order
  pos,        \* pos[r]: the stage rank r is in, an index of program
  next,       \* next[r]: the next call of the stage
  waiting,    \* waiting[r]: r has called the barrier that ends its stage
  connected,  \* the ranks whose client is connected
  fs,         \* the name space: path -> rank that made it
  aborted     \* some rank has called MPI_Abort

vars == <<script, program, pos, next, waiting, connected, fs, aborted>>

WithOptions(s) == [run \in DOMAIN s |-> CephPrepared(s[run])]
ProgramOf(s) == FlattenSeq([run \in DOMAIN s |-> RunStages(s[run], run)])

Finished(r) == pos[r] > Len(program)
StageOf(r) == program[pos[r]]
OptOf(r) == script[StageOf(r).run]
CallsOf(r) == StageOf(r).calls[r]
CallOf(r) == CallsOf(r)[next[r]]
Path(r) == CallOf(r).path

\* Rank r executes the program: it is not in a barrier.
Running(r) == ~aborted /\ ~waiting[r] /\ ~Finished(r)

\* It takes part in the stage it is in.
Active(r) == Running(r) /\ r \in StageOf(r).members

Init ==
  /\ script \in {WithOptions(s) : s \in Scripts}
  /\ program = ProgramOf(script)
  /\ pos = [r \in Ranks |-> 1]
  /\ next = [r \in Ranks |-> 1]
  /\ waiting = [r \in Ranks |-> FALSE]
  /\ connected = {}
  /\ fs = NoNodes
  /\ aborted = FALSE

-----------------------------------------------------------------------------
(* Calls *)

\* Rank r is about to make call `op`.
At(r, op) ==
  /\ Active(r)
  /\ next[r] <= Len(CallsOf(r))
  /\ CallOf(r).op = op

Succeed(r, fsAfter) ==
  /\ fs' = fsAfter
  /\ next' = [next EXCEPT ![r] = @ + 1]
  /\ UNCHANGED <<script, program, pos, waiting, connected, aborted>>

Fail ==
  /\ aborted' = TRUE
  /\ UNCHANGED <<script, program, pos, next, waiting, connected, fs>>

\* A call whose failure is fatal: all of them are.
Perform(r, possible, fsAfter) ==
  \/ possible /\ Succeed(r, fsAfter)
  \/ ~possible /\ Fail

\* Client::connect and Client::disconnect.
Connect(r) ==
  /\ At(r, "connect") /\ StageOf(r).name = "connect"
  /\ connected' = connected \cup {r}
  /\ next' = [next EXCEPT ![r] = @ + 1]
  /\ UNCHANGED <<script, program, pos, waiting, fs, aborted>>

Disconnect(r) ==
  /\ At(r, "disconnect") /\ StageOf(r).name = "disconnect"
  /\ connected' = connected \ {r}
  /\ next' = [next EXCEPT ![r] = @ + 1]
  /\ UNCHANGED <<script, program, pos, waiting, fs, aborted>>

\* The test directory of the iteration: accessdir, then mkdir where it is missing.
MakeTestDir(r) ==
  /\ At(r, "mkdir_unless")
  /\ IF Exists(fs, Path(r)) THEN Succeed(r, fs)
     ELSE Perform(r, CanAdd(fs, Path(r)), With(fs, Path(r), r))

\* At the end of the iteration: accessdir, then rmdir where it is there.
RemoveTestDir(r) ==
  /\ At(r, "rmdir_if")
  /\ IF ~Exists(fs, Path(r)) THEN Succeed(r, fs)
     ELSE Perform(r, CanRmdir(fs, Path(r)), Without(fs, Path(r)))

\* mdtest_mkdir, of a tree directory or of a directory item.
MakeDir(r) ==
  /\ At(r, "mkdir")
  /\ Perform(r, CanAdd(fs, Path(r)), With(fs, Path(r), r))

\* Client::create, write and close of one file.
CreateFile(r) ==
  /\ At(r, "create")
  /\ Perform(r, CanCreate(fs, Path(r)), With(fs, Path(r), r))

\* One turn of the loop of mdtest_stat.
StatItem(r) ==
  /\ At(r, "stat")
  /\ Perform(r, Exists(fs, Path(r)), fs)

\* One turn of the loop of mdtest_read: open, read, close.
ReadFile(r) ==
  /\ At(r, "read")
  /\ Perform(r, Exists(fs, Path(r)), fs)

\* Client::rmdir of a directory item or of a tree directory.
RemoveDir(r) ==
  /\ At(r, "rmdir")
  /\ Perform(r, CanRmdir(fs, Path(r)), Without(fs, Path(r)))

\* Client::unlink.
UnlinkFile(r) ==
  /\ At(r, "unlink")
  /\ Perform(r, Path(r) \in DOMAIN fs, Without(fs, Path(r)))

-----------------------------------------------------------------------------
(* Moving from stage to stage *)

\* Mutants: a next stage that starts at item 0 of loops that count from 1, and one that
\* is not reached.
AdvanceAtZero(r) ==
  /\ pos' = [pos EXCEPT ![r] = @ + 1]
  /\ next' = [next EXCEPT ![r] = 0]
  /\ UNCHANGED <<script, program, connected, fs, aborted>>

AdvanceInPlace(r) ==
  /\ next' = [next EXCEPT ![r] = 1]
  /\ UNCHANGED <<script, program, pos, connected, fs, aborted>>

Advance(r) ==
  /\ pos' = [pos EXCEPT ![r] = @ + 1]
  /\ next' = [next EXCEPT ![r] = 1]
  /\ UNCHANGED <<script, program, connected, fs, aborted>>

\* "if (rank < i)": a rank that does not belong to the communicator goes past.
SkipStage(r) ==
  /\ Running(r)
  /\ r \notin StageOf(r).members
  /\ Advance(r)
  /\ UNCHANGED waiting

CallsDone(r) == Active(r) /\ next[r] > Len(CallsOf(r))

\* A stage without a barrier is left when its calls are made.
PassOn(r) ==
  /\ CallsDone(r)
  /\ ~StageOf(r).sync
  /\ Advance(r)
  /\ UNCHANGED waiting

EnterBarrier(r) ==
  /\ CallsDone(r)
  /\ StageOf(r).sync
  /\ waiting' = [waiting EXCEPT ![r] = TRUE]
  /\ UNCHANGED <<script, program, pos, next, connected, fs, aborted>>

\* Mutant: a barrier that counts the members that have come to the stage, done or not.
AllNear(p) == \A q \in program[p].members : pos[q] >= p

\* MPI_Barrier returns on no member before all of them have called it.
AllArrived(p) ==
  \A q \in program[p].members : pos[q] > p \/ (pos[q] = p /\ waiting[q])

\* Mutant: a barrier nobody waits in.
LeaveBarrierAlone(r) ==
  /\ ~aborted
  /\ waiting[r]
  /\ Advance(r)
  /\ waiting' = [waiting EXCEPT ![r] = FALSE]

LeaveBarrier(r) ==
  /\ ~aborted
  /\ waiting[r]
  /\ AllArrived(pos[r])
  /\ Advance(r)
  /\ waiting' = [waiting EXCEPT ![r] = FALSE]

Terminated == aborted \/ \A r \in Ranks : Finished(r)
Stop == Terminated /\ UNCHANGED vars

CallStep(r) ==
  \/ Connect(r) \/ Disconnect(r)
  \/ MakeTestDir(r) \/ RemoveTestDir(r) \/ MakeDir(r) \/ RemoveDir(r)
  \/ CreateFile(r) \/ StatItem(r) \/ ReadFile(r) \/ UnlinkFile(r)

RankStep(r) ==
  \/ CallStep(r)
  \/ SkipStage(r) \/ PassOn(r) \/ EnterBarrier(r) \/ LeaveBarrier(r)

Next == (\E r \in Ranks : RankStep(r)) \/ Stop

Spec == Init /\ [][Next]_vars

\* Every rank is a process that nothing in the program suspends, and its calls return.
Fairness == \A r \in Ranks : WF_vars(RankStep(r))
FairSpec == Spec /\ Fairness

-----------------------------------------------------------------------------
(* What the job promises *)

\* The control state has the shape the actions rely on; only members of a stage with a
\* barrier ever wait.
TypeOK ==
  /\ script \in {WithOptions(s) : s \in Scripts}
  /\ pos \in [Ranks -> Nat \ {0}]
  /\ next \in [Ranks -> Nat \ {0}]
  /\ waiting \in [Ranks -> BOOLEAN]
  /\ connected \subseteq Ranks
  /\ aborted \in BOOLEAN

\* No barrier in which both take part lies between two ranks that execute: with -B this
\* is all that keeps the phases apart, and with fewer tasks than ranks it is what keeps
\* the idle ranks from taking down a tree that is in use.
PhaseSeparation ==
  \A r, q \in Ranks : Running(r) /\ Running(q) =>
    \A k \in 1 .. Len(program) :
      program[k].sync /\ {r, q} \subseteq program[k].members =>
        (pos[r] <= k <=> pos[q] <= k)

\* Every call of every rank succeeds: a set-up valid_tests accepts runs to its end.
NeverAborts == ~aborted

\* The items of one kind that i tasks leave behind in iteration j, from the numbering
\* alone.
Population(o, i, j, kind) ==
  LET owners == {ItemOwner(o, i, r, 0) : r \in 0 .. i - 1}
      top(m) == IF o.unique_dir_per_task /\ ~o.collective_creates
                THEN (m + o.nstride) % i ELSE BaseTree(o, m)
      dir(m) == TestDir(o, IF m = Shared THEN 0 ELSE m, j)
      count  == o.items_per_dir *
                  (IF o.leaf_only THEN NumLeaves(o) ELSE NumDirs(o))
      numbers == LeafOffset(o) .. LeafOffset(o) + count - 1
  IN  {ItemPath(DirPath(dir(m), top(m), BaseTree(o, m),
                        Rebuilt(o, n \div o.items_per_dir)), kind, m, n) :
        m \in owners, n \in numbers}

\* The stage of the rank that is furthest on, of those that take part in the tests; the
\* others go ahead to the barrier after them.
Furthest ==
  LET taking == IF Finished(0) THEN Ranks ELSE 0 .. StageOf(0).tasks - 1
  IN  Max({pos[r] : r \in taking})

\* A stage of the round that stage p belongs to, or comes before: it tells the number of
\* tasks and the iteration.
RoundOf(stages, p) ==
  LET rounds == {k \in DOMAIN stages : stages[k].iteration > 0}
      sofar  == {k \in rounds : k <= p}
  IN  stages[IF sofar = {} THEN Min(rounds) ELSE Max(sofar)]

\* Where a job stands with its files when the furthest rank is in stage p; a job
\* without barriers makes no promise and counts as idle.
PhaseOf(s, stages, p) ==
  LET makes(k)   == /\ stages[k].name \in {"file_collective", "file_create"}
                    /\ s[stages[k].run].create_only
      removes(k) == stages[k].name = "file_remove" /\ s[stages[k].run].remove_only
      effective  == {k \in DOMAIN stages : k <= p /\ (makes(k) \/ removes(k))}
      last       == Max(effective)
  IN  IF (\E run \in DOMAIN s : ~s[run].barriers) \/ effective = {} THEN "idle"
      ELSE IF makes(last) THEN (IF last = p THEN "build" ELSE "use")
      ELSE IF last = p THEN "clear" ELSE "idle"

\* The round, its populations and the phase for every place of a job.
StandingOf(s, stages, p) ==
  LET round == RoundOf(stages, p)
  IN  [iteration |-> round.iteration,
       asked     |-> [kind \in {"dir", "file"} |->
                       Population(s[round.run], round.tasks, round.iteration, kind)],
       phase     |-> PhaseOf(s, stages, p)]

StandingsOf(s, stages) ==
  [p \in 1 .. Len(stages) + 1 |-> StandingOf(s, stages, p)]

Standings ==
  [s \in {WithOptions(t) : t \in Scripts} |-> StandingsOf(s, ProgramOf(s))]

Standing == Standings[script][Furthest]

NodesOf(kind, j) == {p \in DOMAIN fs : Last(p)[1] = kind /\ p[1][3] = j}

WithBarriers == \A run \in DOMAIN script : script[run].barriers

\* With barriers, whoever stats or reads does so among all the items of all the tasks of
\* this round, and no others.
ReadersSeeAll ==
  WithBarriers =>
    \A r \in Ranks : Running(r) /\ StageOf(r).name \in {"dir_stat", "file_stat", "file_read"}
                      /\ r \in StageOf(r).members =>
      LET kind == IF StageOf(r).name = "dir_stat" THEN "dir" ELSE "file"
      IN  NodesOf(kind, StageOf(r).iteration) = Standing.asked[kind]

\* A job whose last invocation removes leaves the file system as it was found, test
\* directories and the trees of the ranks that did not take part included.
LeavesNothing ==
  (\A r \in Ranks : Finished(r)) /\ Last(script).remove_only => DOMAIN fs = {}

\* Clients connect one at a time and in rank order, and nobody makes a call to the file
\* system before the last one has.
ConnectInOrder ==
  \A r \in Ranks : Running(r) =>
    CASE StageOf(r).name = "connect" -> \A q \in connected : q <= pos[r] - 1
      [] StageOf(r).name = "disconnect" -> TRUE
      [] OTHER -> connected = Ranks

\* With barriers the job implements the life cycle of its files, round by round: for
\* every number of tasks and in every iteration.
Files == INSTANCE Lifecycle WITH
  asked <- Standing.asked["file"],
  present <- IF WithBarriers THEN NodesOf("file", Standing.iteration) ELSE {},
  phase <- Standing.phase
FileLifecycle == Files!Spec

\* Every rank comes back from every barrier, also when it takes part in some only.
Terminates == <>Terminated
=============================================================================
