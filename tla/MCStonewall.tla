---------------------------- MODULE MCStonewall -----------------------------
(* Small jobs for TLC. *)
EXTENDS Stonewall

Plain == [items_per_dir |-> 3, depth |-> 0, nstride |-> 1, directory_loops |-> 1,
          iterations |-> 1, kind |-> "file"]

\* One directory, a chain of two and of three, two iterations of one directory, and
\* -n 6 -I 3.
TimedJobs ==
  { Plain,
    [Plain EXCEPT !.items_per_dir = 2, !.depth = 1],
    [Plain EXCEPT !.items_per_dir = 1, !.depth = 2],
    [Plain EXCEPT !.iterations = 2],
    [Plain EXCEPT !.directory_loops = 2] }

\* A second iteration; directories.
RepeatedJobs == { [Plain EXCEPT !.iterations = 2] }
DirectoryJobs == { [Plain EXCEPT !.kind = "dir"] }
=============================================================================
