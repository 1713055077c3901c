------------------------------- MODULE Timing --------------------------------
(***************************************************************************)
(* The clocks of an mdtest job, and what its summary makes of them.  Every *)
(* rank times the phases with its own time stamps, shifts them to leave    *)
(* out the overhead of a directory per task, and writes the durations into *)
(* a table; rank 0 gathers the tables and reports one line per test.  The  *)
(* whole is repeated for every number of tasks from -f to -l.  The code a  *)
(* rank runs is laid out as a sequence of instructions; the file system    *)
(* calls of a phase are one interval of work.                              *)
(***************************************************************************)
EXTENDS Integers, Sequences, FiniteSetsExt, SequencesExt, TLC

CONSTANTS
  NTasks,     \* o.size
  Jobs,       \* the jobs to choose from
  MaxClock,   \* bound on the time that passes
  Memory      \* what may be in the memory of the array `all` of summarize_results

Phases == 0 .. 3   \* create, stat, read, remove

\* md_validate_tests refuses -u with -n and -I, and only these give several loops.
IsJob(j) ==
  /\ j.first \in Nat \ {0} /\ j.last \in Nat /\ j.stride \in Nat \ {0}
  /\ j.iterations \in Nat \ {0} /\ j.directory_loops \in Nat \ {0}
  /\ j.phases \subseteq Phases
  /\ \A flag \in {j.dirs_only, j.files_only, j.unique_dir_per_task, j.call_sync,
                  j.time_unique_dir_overhead, j.collective_creates} : flag \in BOOLEAN
  /\ j.unique_dir_per_task => j.directory_loops = 1

ASSUME TimingAssumption ==
  NTasks \in Nat \ {0} /\ MaxClock \in Nat /\ \A j \in Jobs : IsJob(j)

Ranks == 0 .. NTasks - 1

\* The rows of the table: the phases of directory_test from 0, those of file_test from
\* 4, tree creation and tree removal; MDTEST_LAST_NUM of them.
DirTest == 0
FileTest == 4
TreeCreation == 8
TreeRemoval == 9
TableSize == 10
Tests == 0 .. TableSize - 1

\* The places of the array in which rank 0 gathers the tables.
Array(j) == 0 .. j.iterations * NTasks * TableSize - 1

ASSUME MemoryAssumption ==
  \A j \in Jobs : \A memory \in Memory, place \in Array(j) : memory[place] \in Int

\* The time stamps: t[0] .. t[4], startCreate and endCreate.
StartCreate == 5
EndCreate == 6
Stamps == 0 .. 6

-----------------------------------------------------------------------------
(* The code of a job *)

\* An instruction, what it is about, and the ranks that execute it.
Only(cond, code) == IF cond THEN code ELSE <<>>
Ins(do, n, by) == Only(by # {}, << [do |-> do, n |-> n, by |-> by] >>)

\* The calls of one test in one iteration.
Busy(iteration, test, by) ==
  Ins("begin", <<iteration, test>>, by) \o Ins("end", <<iteration, test>>, by)

\* Mutant: the barrier of unique_dir_access on rank 0 only.
EnterDirRankZero(j, k, by) ==
  Only(j.unique_dir_per_task,
    Only(k = 0, Ins("barrier", 0, {0}))
      \o Only(~j.time_unique_dir_overhead, Ins("offset", k, by)))

\* unique_dir_access and the offset_timers after it.
EnterDir(j, k, by) ==
  Only(j.unique_dir_per_task,
    Only(k = 0, Ins("barrier", 0, by))
      \o Only(~j.time_unique_dir_overhead, Ins("offset", k, by)))

\* One directory loop of phase k.  With -c rank 0 creates and removes for all, after
\* which every rank touches its own files; directories are not read.
Loop(j, iteration, test, k, by) ==
  LET workers == IF test = DirTest /\ k = 2 THEN {}
                 ELSE IF j.collective_creates /\ k \in {0, 3} THEN {0} ELSE by
  IN  EnterDir(j, k, by) \o Busy(iteration, test + k, workers)
        \o Only(test = FileTest /\ k = 0 /\ j.collective_creates,
                Ins("barrier", 0, by) \o Busy(iteration, test + k, by))

\* Mutant: the stamp taken before the barrier.
PhaseEndEarly(j, iteration, test, k, by) ==
  Only(j.call_sync, Busy(iteration, test + k, by))
    \o Ins("stamp", k + 1, by) \o Ins("barrier", 0, by)

\* phase_end, with its sync call, and the stamp after it.
PhaseEnd(j, iteration, test, k, by) ==
  Only(j.call_sync, Busy(iteration, test + k, by))
    \o Ins("barrier", 0, by) \o Ins("stamp", k + 1, by)

\* The frame of both tests: a barrier, the four phases with their stamps, the last shift
\* and the times.
TestCode(j, iteration, test, by) ==
  Ins("barrier", 0, by) \o Ins("stamp", 0, by)
    \o FlattenSeq([p \in 1 .. 4 |->
         Only(p - 1 \in j.phases,
              FlattenSeq([l \in 1 .. j.directory_loops |->
                            Loop(j, iteration, test, p - 1, by)]))
           \o PhaseEnd(j, iteration, test, p - 1, by)])
    \o Only(j.unique_dir_per_task /\ ~j.time_unique_dir_overhead, Ins("offset", 4, by))
    \o Ins("record", <<iteration, test>>, by)

directory_test(j, iteration, by) == TestCode(j, iteration, DirTest, by)
file_test(j, iteration, by) == TestCode(j, iteration, FileTest, by)

\* The tree is made and removed by rank 0, with -u by every rank its own.
TreeCode(j, iteration, test) ==
  Ins("stamp", StartCreate, Ranks)
    \o Busy(iteration, test,
            IF j.unique_dir_per_task /\ ~j.collective_creates THEN Ranks ELSE {0})
    \o Ins("barrier", 0, Ranks) \o Ins("stamp", EndCreate, Ranks)
    \o Ins("record", <<iteration, test>>, Ranks)

\* mdtest_iteration with i tasks: all ranks come here, only those below i run the tests.
IterationCode(j, i, iteration) ==
  Only(0 \in j.phases,
       Ins("barrier", 0, Ranks) \o TreeCode(j, iteration, TreeCreation))
    \o Only(j.dirs_only, directory_test(j, iteration, 0 .. i - 1))
    \o Only(j.files_only, file_test(j, iteration, 0 .. i - 1))
    \o Ins("barrier", 0, Ranks)
    \o Only(3 \in j.phases, TreeCode(j, iteration, TreeRemoval))

\* One number of tasks: the communicator, the iterations, and summarize_results.
RoundCode(j, i) ==
  Ins("comm", i, Ranks)
    \o FlattenSeq([it \in 1 .. j.iterations |-> IterationCode(j, i, it - 1)])
    \o Ins("barrier", 0, Ranks)
    \o FlattenSeq([it \in 1 .. j.iterations |-> Ins("gather", it - 1, Ranks)])
    \o Ins("summarize", 0, {0})

\* The loop over the numbers of tasks.  Without -l there is one, all of them; with a
\* stride the loop starts again from 0 after the round with one task.
TaskCounts(j) ==
  IF j.last = 0 THEN {NTasks}
  ELSE {i \in j.first .. (IF j.last < NTasks THEN j.last ELSE NTasks) :
          IF j.first = 1 /\ j.stride > 1 THEN i = 1 \/ i % j.stride = 0
                                         ELSE (i - j.first) % j.stride = 0}

CodeOf(j) ==
  FlattenSeq([i \in 1 .. NTasks |-> Only(i \in TaskCounts(j), RoundCode(j, i))])

\* The code of every job, worked out once.
Programs == [j \in Jobs |-> CodeOf(j)]

-----------------------------------------------------------------------------
VARIABLES
  job,
  pos,       \* pos[r]: the instruction rank r is at
  calls,     \* calls[r]: the collective calls r has made
  waiting,   \* waiting[r]: r is inside a barrier
  comm,      \* comm[r]: the members of r's testComm, none for MPI_COMM_NULL
  t,         \* t[r]: the time stamps of r
  table,     \* table[r][iteration][test]: the time field of o.summary_table
  all,       \* the array in which rank 0 gathers the tables
  summary,   \* summary[test]: what rank 0 prints
  clock,     \* the time of day
  aborted,   \* an MPI call has failed, and MPI_Abort has been called
  span       \* observed: first and last instant of work, by iteration and test

control == <<job, pos, calls, waiting, comm, aborted>>
times == <<t, table, all, summary, span>>
vars == <<control, times, clock>>

Code == Programs[job]
Finished(r) == pos[r] > Len(Code)
Current(r) == Code[pos[r]]
Over == aborted \/ \A r \in Ranks : Finished(r)

Iterations == 0 .. job.iterations - 1

\* Mutant: the order in which the deviation goes through the places.
calc_allreduce_index_by_rank(iteration, r, test) ==
  r * TableSize * job.iterations + iteration * TableSize + test

\* calc_allreduce_index.
calc_allreduce_index(iteration, r, test) ==
  iteration * TableSize * NTasks + r * TableSize + test

\* `all` is not initialised.  Every call of summarize_results has an array of its own; it is
\* part of the state from the start, since no job gets to a second call.
Init ==
  /\ job \in Jobs
  /\ pos = [r \in Ranks |-> 1]
  /\ calls = [r \in Ranks |-> 0]
  /\ waiting = [r \in Ranks |-> FALSE]
  /\ comm = [r \in Ranks |-> Ranks]
  /\ t = [r \in Ranks |-> [s \in Stamps |-> 0]]
  /\ table = [r \in Ranks |-> [it \in Iterations |-> [test \in Tests |-> 0]]]
  /\ \E memory \in Memory : all = [place \in Array(job) |-> memory[place]]
  /\ summary = [test \in {} |-> 0]
  /\ clock = 0
  /\ aborted = FALSE
  /\ span = [key \in {} |-> <<>>]

-----------------------------------------------------------------------------
\* Rank r is about to execute an instruction of its own.
At(r, do) ==
  ~aborted /\ ~Finished(r) /\ r \in Current(r).by /\ Current(r).do = do

Go(r) ==
  /\ pos' = [pos EXCEPT ![r] = @ + 1]
  /\ UNCHANGED <<job, waiting, comm, aborted, clock>>

Alone(r) == Go(r) /\ UNCHANGED calls

\* An instruction for other ranks.
Skip(r) ==
  /\ ~aborted /\ ~Finished(r) /\ r \notin Current(r).by
  /\ Alone(r)
  /\ UNCHANGED times

\* GetTimeStamp.
TakeStamp(r) ==
  /\ At(r, "stamp")
  /\ t' = [t EXCEPT ![r][Current(r).n] = clock]
  /\ Alone(r)
  /\ UNCHANGED <<table, all, summary, span>>

\* Mutant: only the last stamp is moved.
OffsetLast(r) ==
  /\ At(r, "offset")
  /\ t' = [t EXCEPT ![r][Current(r).n] = clock]
  /\ Alone(r)
  /\ UNCHANGED <<table, all, summary, span>>

\* offset_timers: the stamps up to tcount move together, so that t[tcount] is now.
OffsetTimers(r) ==
  /\ At(r, "offset")
  /\ LET tcount == Current(r).n
         toffset == clock - t[r][tcount]
     IN  t' = [t EXCEPT ![r] =
                 [s \in Stamps |-> IF s <= tcount THEN @[s] + toffset ELSE @[s]]]
  /\ Alone(r)
  /\ UNCHANGED <<table, all, summary, span>>

\* The file system calls of a test begin, and end, on rank r.
Begin(r) ==
  /\ At(r, "begin")
  /\ LET key == Current(r).n
     IN  span' = [x \in DOMAIN span \cup {key} |->
                    IF x \in DOMAIN span THEN span[x] ELSE <<clock, clock>>]
  /\ Alone(r)
  /\ UNCHANGED <<t, table, all, summary>>

End(r) ==
  /\ At(r, "end")
  /\ span' = [span EXCEPT ![Current(r).n] = <<@[1], clock>>]
  /\ Alone(r)
  /\ UNCHANGED <<t, table, all, summary>>

\* The times of a test are written into the row of the iteration.
Duration(r, test, base) ==
  IF base \in {TreeCreation, TreeRemoval} THEN t[r][EndCreate] - t[r][StartCreate]
  ELSE t[r][test - base + 1] - t[r][test - base]

Record(r) ==
  /\ At(r, "record")
  /\ LET iteration == Current(r).n[1]
         base == Current(r).n[2]
         rows == IF base \in {TreeCreation, TreeRemoval} THEN {base}
                 ELSE {base + k : k \in job.phases}
     IN  table' = [table EXCEPT ![r][iteration] =
           [test \in Tests |-> IF test \in rows THEN Duration(r, test, base)
                                                ELSE @[test]]]
  /\ Alone(r)
  /\ UNCHANGED <<t, all, summary, span>>

-----------------------------------------------------------------------------
(* Collective calls *)

Abort ==
  /\ aborted' = TRUE
  /\ UNCHANGED <<job, pos, calls, waiting, comm, times, clock>>

\* A rank calls MPI_Barrier or MPI_Comm_create on its testComm; on MPI_COMM_NULL, or for
\* a group that is not in the communicator, that is an error, and errors are fatal.
Arrive(r) ==
  /\ At(r, "barrier") \/ At(r, "comm")
  /\ ~waiting[r]
  /\ IF comm[r] = {} \/ (Current(r).do = "comm" /\ ~(0 .. Current(r).n - 1 \subseteq comm[r]))
     THEN Abort
     ELSE /\ waiting' = [waiting EXCEPT ![r] = TRUE]
          /\ calls' = [calls EXCEPT ![r] = @ + 1]
          /\ UNCHANGED <<job, pos, comm, aborted, times, clock>>

\* Everybody in r's communicator has made as many collective calls as r.
AllArrived(r) == \A q \in comm[r] : calls[q] >= calls[r]

\* MPI_Comm_create overwrites testComm: the ranks outside the group are left with
\* MPI_COMM_NULL.
Leave(r) ==
  /\ waiting[r] /\ ~aborted
  /\ AllArrived(r)
  /\ waiting' = [waiting EXCEPT ![r] = FALSE]
  /\ pos' = [pos EXCEPT ![r] = @ + 1]
  /\ comm' = IF Current(r).do # "comm" THEN comm
             ELSE [comm EXCEPT ![r] = IF r < Current(r).n THEN 0 .. Current(r).n - 1
                                                          ELSE {}]
  /\ UNCHANGED <<job, calls, aborted, times, clock>>

\* MPI_Gather of the row of one iteration: the root waits for all the others.  The rows of
\* ranks that are not in the communicator keep what the memory held.
Gather(r) ==
  /\ At(r, "gather")
  /\ r = 0 => \A q \in comm[r] \ {0} : calls[q] > calls[r]
  /\ calls' = [calls EXCEPT ![r] = @ + 1]
  /\ LET iteration == Current(r).n
         first == iteration * TableSize * NTasks + r * TableSize
         row == first .. first + TableSize - 1
     IN  all' = [i \in DOMAIN all \cup row |->
                   IF i \in row THEN table[r][iteration][i - first] ELSE all[i]]
  /\ Go(r)
  /\ UNCHANGED <<t, table, summary, span>>

-----------------------------------------------------------------------------
(* What rank 0 reports *)

\* The sum of the values of a function.
Sum(f) == MapThenSumSet(LAMBDA x : f[x], DOMAIN f)
Largest(S) == CHOOSE x \in S : \A y \in S : x >= y
Smallest(S) == CHOOSE x \in S : \A y \in S : x <= y

\* icur: the slowest rank stands for the iteration (as the smallest rate, or as the
\* largest time).
IterationTime(test, iteration) ==
  Largest({all[calc_allreduce_index(iteration, r, test)] : r \in Ranks})

\* The places in `all` that the mean of a test is taken over, and those of the deviation,
\* which goes through them in an order of its own.
Places(test) == {calc_allreduce_index(it, r, test) : it \in Iterations, r \in Ranks}
Deviating(test) ==
  {(k * TableSize * job.iterations) + (j * TableSize) + test : k \in Ranks, j \in Iterations}

\* The line of a directory or file test; squares stands for the sum the deviation needs.
TestLine(test) ==
  LET iterationTimes == {IterationTime(test, it) : it \in Iterations}
  IN  [min |-> Smallest({all[p] : p \in Places(test)}),
       max |-> Largest({all[p] : p \in Places(test)}),
       sum |-> Sum([p \in Places(test) |-> all[p]]),
       squares |-> Sum([p \in Deviating(test) |-> all[p] * all[p]]),
       imax |-> Largest(iterationTimes),
       imin |-> Smallest(iterationTimes),
       isum |-> Sum([it \in Iterations |-> IterationTime(test, it)])]

\* The line of the tree: rank 0's own times.
TreeLine(test) ==
  LET own == {table[0][it][test] : it \in Iterations}
  IN  [min |-> Smallest(own), max |-> Largest(own),
       sum |-> Sum([it \in Iterations |-> table[0][it][test]]),
       squares |-> Sum([it \in Iterations |-> table[0][it][test] * table[0][it][test]]),
       imax |-> Largest(own), imin |-> Smallest(own),
       isum |-> Sum([it \in Iterations |-> table[0][it][test]])]

\* The tests of which there is a line.
Reported ==
  (IF job.files_only /\ ~job.dirs_only THEN FileTest ELSE DirTest)
    .. (IF job.dirs_only /\ ~job.files_only THEN FileTest - 1 ELSE TreeCreation - 1)

Summarize(r) ==
  /\ At(r, "summarize")
  /\ summary' = [test \in Reported \cup {TreeCreation, TreeRemoval} |->
                   IF test \in Reported THEN TestLine(test) ELSE TreeLine(test)]
  /\ Alone(r)
  /\ UNCHANGED <<t, table, all, span>>

-----------------------------------------------------------------------------
\* Time passes.
Tick ==
  /\ ~Over
  /\ clock < MaxClock
  /\ clock' = clock + 1
  /\ UNCHANGED <<control, times>>

RankStep(r) ==
  \/ Skip(r) \/ TakeStamp(r) \/ OffsetTimers(r) \/ Begin(r) \/ End(r) \/ Record(r)
  \/ Arrive(r) \/ Leave(r) \/ Gather(r) \/ Summarize(r)

Next == (\E r \in Ranks : RankStep(r)) \/ Tick

Spec == Init /\ [][Next]_vars

\* Every rank is a process that keeps running; nothing is assumed of the clock.
FairSpec == Spec /\ \A r \in Ranks : WF_vars(RankStep(r))

-----------------------------------------------------------------------------
(* What the numbers promise *)

\* The time reported for a phase that was run is never shorter than the span from the
\* first call of any rank to the last, sync calls included: the rate is not too good,
\* however late each rank takes its stamps and however they are shifted.  The line of
\* the tree holds rank 0's own times, which is enough as long as it makes all trees.
\* Rows that no rank has sent can only make it longer.
SpanCovered ==
  \A test \in DOMAIN summary, it \in Iterations :
    LET reported == IF test < TreeCreation THEN IterationTime(test, it)
                                           ELSE table[0][it][test]
    IN  /\ <<it, test>> \in DOMAIN span
        /\ IF test < TreeCreation
           THEN test % 4 \in job.phases
           ELSE job.collective_creates \/ ~job.unique_dir_per_task
        => reported >= span[<<it, test>>][2] - span[<<it, test>>][1]

\* When all the ranks are tasks, the lines are about all the ranks and all the iterations,
\* each counted once, and about nothing else, although the places in `all` are computed in
\* three ways and hold anything before the rows are gathered.  With fewer tasks the lines
\* run over the rows of all the ranks all the same, and say nothing for sure.
SummaryRight ==
  \A test \in DOMAIN summary : comm[0] = Ranks /\ test < TreeCreation =>
    LET entries == Ranks \X Iterations
        time(e) == table[e[1]][e[2]][test]
        times_ == {time(e) : e \in entries}
        slowest(it) == Largest({table[r][it][test] : r \in Ranks})
    IN  summary[test] =
          [min |-> Smallest(times_), max |-> Largest(times_),
           sum |-> Sum([e \in entries |-> time(e)]),
           squares |-> Sum([e \in entries |-> time(e) * time(e)]),
           imax |-> Largest({slowest(it) : it \in Iterations}),
           imin |-> Smallest({slowest(it) : it \in Iterations}),
           isum |-> Sum([it \in Iterations |-> slowest(it)])]

\* Entering a directory of its own shifts a rank's stamps, and leaves the durations of
\* the phases that it has finished as they were.
DurationsStand ==
  [][\A r \in Ranks : At(r, "offset") /\ pos'[r] # pos[r] =>
       \A k \in 1 .. Current(r).n : t'[r][k] - t'[r][k - 1] = t[r][k] - t[r][k - 1]]_vars

\* -f and -l: the job runs on each number of tasks without an error.
NeverAborts == ~aborted

\* Every rank comes back from every collective call.
Terminates == <>Over
=============================================================================
