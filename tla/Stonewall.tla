----------------------------- MODULE Stonewall ------------------------------
(***************************************************************************)
(* Creation against the clock (-W) and the phases that live on what it     *)
(* left.  Every rank creates its items until its own timer runs out; the   *)
(* ranks then agree on the largest number any of them reached, catch up to *)
(* it, and stat and remove that many.  The tree is a chain of directories  *)
(* 0 .. -z (md_validate_tests accepts -W only with one branch), and the    *)
(* items of directory d are numbered from d * items_per_dir.               *)
(***************************************************************************)
EXTENDS Integers, FiniteSets, FiniteSetsExt

CONSTANTS
  NTasks,   \* o.size
  Jobs      \* the jobs to choose from: what they run with besides -W

\* kind is "file" for file_test and "dir" for directory_test; directory_loops is -n
\* divided by -I, and 1 without -n.
IsJob(j) ==
  /\ j.items_per_dir \in Nat \ {0} /\ j.depth \in Nat /\ j.nstride \in Nat
  /\ j.directory_loops \in Nat \ {0} /\ j.iterations \in Nat \ {0}
  /\ j.kind \in {"file", "dir"}
  /\ j.directory_loops > 1 => j.kind = "file" /\ j.iterations = 1

ASSUME StonewallAssumption == NTasks \in Nat \ {0} /\ \A j \in Jobs : IsJob(j)

Ranks == 0 .. NTasks - 1

VARIABLES
  job,
  pc,        \* pc[r]: "create", "reduce", "more", "created", "removing", "removed",
             \* or "failed"
  dir, i,    \* dir[r], i[r]: where create_remove_items has got to
  progress,  \* progress[r]: start, limit, done, timer of rank_progress_t
  late,      \* late[r]: the timer of r has run out
  oitems,    \* oitems[r]: r's o.items
  iteration,
  items      \* the items that exist: <<owner, dir, number>>

vars == <<job, pc, dir, i, progress, late, oitems, iteration, items>>

Dirs == 0 .. job.depth
ItemNumber(d, k) == d * job.items_per_dir + k

\* o.items before the first test.
InitialItems ==
  IF job.directory_loops > 1
  THEN job.directory_loops * job.items_per_dir
  ELSE (job.depth + 1) * job.items_per_dir

\* mdtest_iteration and the first lines of the create phase.
FreshProgress ==
  [start |-> 0, limit |-> job.items_per_dir, done |-> 0, timer |-> TRUE]

Init ==
  /\ job \in Jobs
  /\ pc = [r \in Ranks |-> "create"]
  /\ dir = [r \in Ranks |-> 0]
  /\ i = [r \in Ranks |-> 0]
  /\ progress = [r \in Ranks |-> FreshProgress]
  /\ late = [r \in Ranks |-> FALSE]
  /\ oitems = [r \in Ranks |-> InitialItems]
  /\ iteration = 1
  /\ items = {}

-----------------------------------------------------------------------------
\* The clock of rank r passes start_time + stone_wall_timer_seconds.
Expire(r) ==
  /\ pc[r] = "create"
  /\ ~late[r]
  /\ late' = [late EXCEPT ![r] = TRUE]
  /\ UNCHANGED <<job, pc, dir, i, progress, oitems, iteration, items>>

\* Mutant: the recursion into the next directory without the increment of its number.
NextDirAgain(r, done) ==
  /\ progress' = [progress EXCEPT ![r].done = done]
  /\ i' = [i EXCEPT ![r] = progress[r].start]
  /\ UNCHANGED dir

\* create_remove_items goes on to the next directory of the chain ...
NextDir(r, done) ==
  /\ progress' = [progress EXCEPT ![r].done = done]
  /\ dir' = [dir EXCEPT ![r] = @ + 1]
  /\ i' = [i EXCEPT ![r] = progress[r].start]

\* ... and CHECK_STONE_WALL makes the helper give up the one it is in, keeping the
\* number of items of the first directory that was given up.
StoneWallHit(r) == progress[r].timer /\ late[r]

\* Mutants: the index of the last item taken for the number of items, and an index
\* that has been advanced twice.
DoneWhenHitTwice(r) == IF progress[r].done = 0 THEN i[r] + 2 ELSE progress[r].done
DoneWhenHitIndex(r) == IF progress[r].done = 0 THEN i[r] ELSE progress[r].done

DoneWhenHit(r) == IF progress[r].done = 0 THEN i[r] + 1 ELSE progress[r].done

Creating(r) == pc[r] \in {"create", "more"} /\ dir[r] \in Dirs

\* One item of create_remove_items_helper.
CreateItem(r) ==
  /\ Creating(r)
  /\ i[r] < progress[r].limit
  /\ items' = items \cup {<<r, dir[r], ItemNumber(dir[r], i[r])>>}
  /\ IF StoneWallHit(r)
     THEN NextDir(r, DoneWhenHit(r))
     ELSE i' = [i EXCEPT ![r] = @ + 1] /\ UNCHANGED <<dir, progress>>
  /\ UNCHANGED <<job, pc, late, oitems, iteration>>

\* The end of the helper's loop.
DirComplete(r) ==
  /\ Creating(r)
  /\ i[r] >= progress[r].limit
  /\ NextDir(r, progress[r].limit)
  /\ UNCHANGED <<job, pc, late, oitems, iteration, items>>

\* The walk is over: files go on to the reduction, directories to the barrier.
WalkComplete(r) ==
  /\ pc[r] = "create"
  /\ dir[r] \notin Dirs
  /\ pc' = [pc EXCEPT ![r] = IF job.kind = "file" THEN "reduce" ELSE "created"]
  /\ UNCHANGED <<job, dir, i, progress, late, oitems, iteration, items>>

\* Mutant: MPI_MIN in the reduction that decides how far to catch up.
MinDone == Min({progress[q].done : q \in Ranks})

MaxDone == Max({progress[q].done : q \in Ranks})
SumDone == MapThenSumSet(LAMBDA q : progress[q].done, Ranks)

\* The return value of updateStoneWallIterations: MPI_Reduce leaves the sum on rank 0
\* and nothing on the other ranks.
Hits(r) == oitems[r] # (IF r = 0 THEN SumDone \div NTasks ELSE 0)

\* updateStoneWallIterations: MPI_Allreduce and MPI_Reduce return on no rank before all
\* have called them.  The ranks that continue do so without a timer.
Reduce ==
  /\ \A r \in Ranks : pc[r] = "reduce"
  /\ progress' = [r \in Ranks |->
       [progress[r] EXCEPT !.start = progress[r].done, !.limit = MaxDone,
                           !.timer = FALSE]]
  /\ pc' = [r \in Ranks |-> IF Hits(r) THEN "more" ELSE "created"]
  /\ dir' = [r \in Ranks |-> 0]
  /\ i' = [r \in Ranks |-> progress[r].done]
  /\ UNCHANGED <<job, late, oitems, iteration, items>>

\* Mutant: o.items not set to what was caught up to.
CaughtUpOldItems(r) ==
  /\ pc[r] = "more"
  /\ dir[r] \notin Dirs
  /\ pc' = [pc EXCEPT ![r] = "created"]
  /\ UNCHANGED <<job, dir, i, progress, late, oitems, iteration, items>>

\* The second create_remove_items of file_test_create is over.
CaughtUp(r) ==
  /\ pc[r] = "more"
  /\ dir[r] \notin Dirs
  /\ pc' = [pc EXCEPT ![r] = "created"]
  /\ oitems' = [oitems EXCEPT ![r] = progress[r].done]
  /\ UNCHANGED <<job, dir, i, progress, late, iteration, items>>

-----------------------------------------------------------------------------
\* The names rank r looks for in the stat phase: items of the rank nstride
\* further on.
LookedUp(r) ==
  LET stop == IF job.directory_loops # 1 THEN job.items_per_dir ELSE oitems[r]
  IN  {<<(r + job.nstride) % NTasks, num \div job.items_per_dir, num>> :
         num \in 0 .. stop - 1}

AllPast(phases) == \A r \in Ranks : pc[r] \in phases

\* mdtest_stat; FAIL on the first item that is not there aborts the job.
StatItems(r) ==
  /\ pc[r] = "created"
  /\ AllPast({"created", "removing"})
  /\ pc' = [pc EXCEPT ![r] = IF LookedUp(r) \subseteq items THEN "removing"
                                                          ELSE "failed"]
  /\ UNCHANGED <<job, dir, i, progress, late, oitems, iteration, items>>

\* Mutant: items_start not put back to 0 for the remove phase.
RemovedFromStart(r) ==
  LET m == (r + 3 * job.nstride) % NTasks
  IN  {<<m, d, ItemNumber(d, k)>> :
         d \in Dirs, k \in progress[r].start .. progress[r].limit - 1}

\* The items create_remove_items goes through in the remove phase, from items_start 0.
Removed(r) ==
  LET m == (r + 3 * job.nstride) % NTasks
  IN  {<<m, d, ItemNumber(d, k)>> : d \in Dirs, k \in 0 .. progress[r].limit - 1}

\* A file that is not there is passed over.  A directory that is not there would be a
\* FAIL, but mdtest_stat looks at every directory first.
RemoveItems(r) ==
  /\ pc[r] = "removing"
  /\ AllPast({"removing", "removed"})
  /\ items' = items \ Removed(r)
  /\ pc' = [pc EXCEPT ![r] = "removed"]
  /\ UNCHANGED <<job, dir, i, progress, late, oitems, iteration>>

\* The next iteration has a new progress, and the o.items of the one before.
NextIteration ==
  /\ AllPast({"removed"})
  /\ iteration < job.iterations
  /\ iteration' = iteration + 1
  /\ pc' = [r \in Ranks |-> "create"]
  /\ dir' = [r \in Ranks |-> 0]
  /\ i' = [r \in Ranks |-> 0]
  /\ progress' = [r \in Ranks |-> FreshProgress]
  /\ late' = [r \in Ranks |-> FALSE]
  /\ UNCHANGED <<job, oitems, items>>

\* FAIL on one rank is MPI_Abort for all of them.
Aborted == \E r \in Ranks : pc[r] = "failed"

Over == Aborted \/ (AllPast({"removed"}) /\ iteration = job.iterations)

Stop == Over /\ UNCHANGED vars

RankStep(r) ==
  /\ ~Aborted
  /\ \/ CreateItem(r) \/ DirComplete(r) \/ WalkComplete(r) \/ CaughtUp(r)
     \/ StatItems(r) \/ RemoveItems(r)

Next ==
  \/ \E r \in Ranks : Expire(r) \/ RankStep(r)
  \/ Reduce \/ NextIteration \/ Stop

Spec == Init /\ [][Next]_vars

\* Every rank keeps running and the collective calls complete; nothing is assumed of
\* the clocks.
Fairness ==
  /\ \A r \in Ranks : WF_vars(RankStep(r))
  /\ WF_vars(Reduce) /\ WF_vars(NextIteration)
FairSpec == Spec /\ Fairness

-----------------------------------------------------------------------------
(* What -W promises *)

TypeOK ==
  LET counts == 0 .. job.items_per_dir
  IN  /\ job \in Jobs
      /\ pc \in [Ranks -> {"create", "reduce", "more", "created", "removing",
                            "removed", "failed"}]
      /\ dir \in [Ranks -> 0 .. job.depth + 1]
      /\ i \in [Ranks -> counts]
      /\ progress \in [Ranks -> [start : counts, limit : counts, done : counts,
                                 timer : BOOLEAN]]
      /\ late \in [Ranks -> BOOLEAN]
      /\ oitems \in [Ranks -> 0 .. InitialItems]
      /\ iteration \in 1 .. job.iterations
      /\ items \subseteq Ranks \X Dirs \X (0 .. (job.depth + 1) * job.items_per_dir)

ItemsOf(r) == {it \in items : it[1] = r}
Created == AllPast({"created", "removing"})

\* What -W says: all ranks have done the same number of operations when the create
\* phase is over, however far each had come when its timer ran out.
SameWork ==
  Created => \A r, q \in Ranks : Cardinality(ItemsOf(r)) = Cardinality(ItemsOf(q))

\* The jobs of which it is true: files in one directory, in the first iteration.
Flat ==
  /\ job.kind = "file" /\ job.depth = 0 /\ job.directory_loops = 1
  /\ iteration = 1

\* In those jobs the ranks have done the same work ...
SameWorkWhenFlat == Flat => SameWork

\* ... and the count on which a rank bases its rates, and how much it stats and reads,
\* is the number of items it has made.
ReportedIsDone ==
  Flat /\ Created => \A r \in Ranks : oitems[r] = Cardinality(ItemsOf(r))

\* No stat misses its item, even of a rank that was stopped earlier.
NeverFails == ~Aborted

\* The files of a first iteration are all found, in a chain of directories too.
FirstIterationFindsFiles ==
  job.kind = "file" /\ job.directory_loops = 1 /\ iteration = 1 => ~Aborted

\* Whatever the timers cut off, the remove phase leaves no item behind.
CleanedUp == AllPast({"removed"}) => items = {}

\* Every rank gets through all the phases, whenever its timer runs out, if ever.
Terminates == <>Over
=============================================================================
