------------------------------ MODULE MCTiming -------------------------------
(* Small jobs for TLC. *)
EXTENDS Timing

Plain == [first |-> 1, last |-> 0, stride |-> 1, iterations |-> 1,
          directory_loops |-> 1, phases |-> Phases, dirs_only |-> FALSE,
          files_only |-> TRUE, unique_dir_per_task |-> FALSE,
          time_unique_dir_overhead |-> FALSE, collective_creates |-> FALSE,
          call_sync |-> FALSE]

\* A directory per task with its overhead left out, and with its overhead counted; two
\* iterations; -c; -Y and two directory loops; -D; numbers of tasks that come to one
\* round, or to none; one task of two, which rank 0 reports while rank 1 aborts the job.
SoundJobs ==
  { [Plain EXCEPT !.unique_dir_per_task = TRUE, !.phases = {0, 1}],
    [Plain EXCEPT !.unique_dir_per_task = TRUE, !.phases = {0},
                  !.time_unique_dir_overhead = TRUE],
    [Plain EXCEPT !.iterations = 2, !.phases = {1}],
    [Plain EXCEPT !.collective_creates = TRUE, !.phases = {0, 3}],
    [Plain EXCEPT !.call_sync = TRUE, !.directory_loops = 2, !.phases = {1}],
    [Plain EXCEPT !.files_only = FALSE, !.dirs_only = TRUE, !.phases = {2, 3},
                  !.first = NTasks, !.last = NTasks + 1],
    [Plain EXCEPT !.first = 3, !.last = 2],
    [Plain EXCEPT !.last = 1, !.phases = {1}] }

\* -f 1 -l 2.
GrowingJobs == { [Plain EXCEPT !.last = 2, !.phases = {0}] }

\* Memory that holds small numbers, and memory that holds large ones, different everywhere.
Contents == { [place \in 0 .. 39 |-> 0], [place \in 0 .. 39 |-> 7 + place] }
=============================================================================
