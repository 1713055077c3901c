---------------------------- MODULE MCCephMdtest -----------------------------
(* Small jobs for TLC: the scripts each configuration chooses from. *)
EXTENDS CephMdtest

\* An invocation with some of -C, -T, -E, -r only.
Phased(args) == << Parsed(args @@ [C |-> TRUE]),
                   Parsed(args @@ [T |-> TRUE, E |-> TRUE]),
                   Parsed(args @@ [r |-> TRUE]) >>

\* The shapes of the benchmark scripts and the options that change who works where:
\* -u, -u -c, -c, -S, -L, -n, -N 1, -M, two -d paths, two iterations, a delay, split
\* phases, and one to three tasks.
Sound ==
  { << Parsed([I |-> 1, z |-> 1, u |-> TRUE, F |-> TRUE, d |-> 2, p |-> 1]) >>,
    << Parsed([I |-> 1, z |-> 1, u |-> TRUE, c |-> TRUE]) >>,
    << Parsed([I |-> 1, c |-> TRUE]) >>,
    << Parsed([I |-> 1, z |-> 1, S |-> TRUE]) >>,
    << Parsed([I |-> 1, z |-> 1, b |-> 2, L |-> TRUE, F |-> TRUE]) >>,
    << Parsed([n |-> 2, z |-> 1, D |-> TRUE, p |-> 1]) >>,
    << Parsed([I |-> 1, N |-> 1, M |-> {0, 1}, F |-> TRUE]) >>,
    << Parsed([I |-> 1, z |-> 1, N |-> 1, F |-> TRUE]) >>,
    << Parsed([I |-> 1, i |-> 2, F |-> TRUE]) >>,
    Phased([I |-> 1, z |-> 1, u |-> TRUE, F |-> TRUE]),
    Phased([I |-> 1, z |-> 1, u |-> TRUE, F |-> TRUE, c |-> TRUE]),
    << Parsed([I |-> 1, l |-> 3, u |-> TRUE, F |-> TRUE]) >>,
    << Parsed([I |-> 1, l |-> 3, s |-> 2, N |-> 1, F |-> TRUE]) >> }

\* -B where it is harmless: every rank works on items of its own.
NoBarriers ==
  { << Parsed([I |-> 1, B |-> TRUE, u |-> TRUE]) >>,
    << Parsed([I |-> 1, B |-> TRUE, F |-> TRUE]) >> }

AllScripts == Sound \cup NoBarriers
=============================================================================
