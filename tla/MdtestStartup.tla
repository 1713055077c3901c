--------------------------- MODULE MdtestStartup ----------------------------
(***************************************************************************)
(* mdtest_run between option parsing and the first test: the set-up is     *)
(* validated, the item counts are derived, and with -R the order in which  *)
(* items are looked up is shuffled.  The tests then create the items of    *)
(* WalkedItems and look up those of the shuffled array, so the arithmetic  *)
(* done here decides whether the two agree.                                *)
(***************************************************************************)
EXTENDS MdtestTree

CONSTANT Requests   \* the option records a user may ask for

ASSUME RequestsAssumption == Requests \subseteq Options

VARIABLES
  raw,    \* the options asked for
  o,      \* the options after validation and counting
  step,   \* "validate", "count", "fill", "shuffle", "ready" or "failed"
  rand,   \* rand_array: positions 0 .. o.items - 1
  n       \* the loop variable of the shuffle

vars == <<raw, o, step, rand, n>>

Init ==
  /\ raw \in Requests
  /\ o = raw
  /\ step = "validate"
  /\ rand = [s \in {} |-> 0]
  /\ n = 0

Validate ==
  /\ step = "validate"
  /\ o' = WithDefaults(raw)
  /\ step' = IF Accepted(o') THEN "count" ELSE "failed"
  /\ UNCHANGED <<raw, rand, n>>

Count ==
  /\ step = "count"
  /\ o' = Prepared(raw)
  /\ step' = IF raw.randomize THEN "fill" ELSE "ready"
  /\ UNCHANGED <<raw, rand, n>>

\* Mutant: the array filled with 1, 2, 3, ..
FillFromOne ==
  /\ step = "fill"
  /\ rand' = [s \in 0 .. o.items - 1 |-> s + 1]
  /\ n' = o.items
  /\ step' = "shuffle"
  /\ UNCHANGED <<raw, o>>

\* rand_array starts as 0, 1, 2, ..
FillRandArray ==
  /\ step = "fill"
  /\ rand' = [s \in 0 .. o.items - 1 |-> s]
  /\ n' = o.items
  /\ step' = "shuffle"
  /\ UNCHANGED <<raw, o>>

\* Mutant: a round that copies and does not exchange.
CopyOnly(k) ==
  /\ step = "shuffle"
  /\ n > 1
  /\ k \in 0 .. n - 1
  /\ n' = n - 1
  /\ rand' = [rand EXCEPT ![k] = rand[n - 1]]
  /\ UNCHANGED <<raw, o, step>>

\* One round: n is decremented, k is drawn from 0 .. n (n itself when rand() returns
\* RAND_MAX), and the two places are exchanged.
Swap(k) ==
  /\ step = "shuffle"
  /\ n > 1
  /\ k \in 0 .. n - 1
  /\ n' = n - 1
  /\ rand' = [rand EXCEPT ![k] = rand[n - 1], ![n - 1] = rand[k]]
  /\ UNCHANGED <<raw, o, step>>

Shuffled ==
  /\ step = "shuffle"
  /\ n <= 1
  /\ step' = "ready"
  /\ UNCHANGED <<raw, o, rand, n>>

\* The tests start, or FAIL has aborted the job.
Started == step \in {"ready", "failed"} /\ UNCHANGED vars

Next ==
  \/ Validate \/ Count \/ FillRandArray
  \/ \E k \in 0 .. n : Swap(k)
  \/ Shuffled \/ Started

Spec == Init /\ [][Next]_vars

-----------------------------------------------------------------------------
\* The item a lookup loop of mdtest_stat or mdtest_read takes at turn i.
LookedUp(i) ==
  LET num == (IF raw.randomize THEN rand[i] ELSE i) + LeafOffset(o)
  IN  <<Rebuilt(o, num \div o.items_per_dir), num>>

\* One invocation that is not repeated over directory_loops.
Single == step = "ready" /\ o.num_dirs_in_tree_calc = 0

\* The array of -R is in use.
Ordering == step = "shuffle" \/ (step = "ready" /\ raw.randomize)

TypeOK ==
  /\ raw \in Requests
  /\ step \in {"validate", "count", "fill", "shuffle", "ready", "failed"}
  /\ n \in Nat
  /\ Ordering => rand \in [0 .. o.items - 1 -> 0 .. o.items - 1]

\* Whatever -z, -b, -n, -I, -L and -R are, the items that are looked up (numbered, and
\* found again by following (d - 1) / b upwards) are the items that the walk creates
\* on its way down: every one of them, at the same place, and none twice.
LookUpMatchesWalk ==
  Single => LET walked == ToSet(WalkedItems(o))
                looked == {LookedUp(i) : i \in 0 .. o.items - 1}
            IN  looked = walked /\ Cardinality(looked) = o.items

\* o.items, on which every reported rate is based, is the number of items created.
ItemsIsWorkDone == Single => Len(WalkedItems(o)) = o.items

\* num_dirs_in_tree, computed in closed form, is the number of directories made.
NumDirsIsTree == step = "ready" => NumDirs(o) = 1 + Len(TopDown(o))

\* The shuffle never loses or duplicates an item, at any of its rounds.
RandIsPermutation ==
  Ordering => {rand[s] : s \in DOMAIN rand} = 0 .. o.items - 1

\* -n with -I repeats the tests over directory_loops: rounding never loses an item.
LoopsCoverItems ==
  step = "ready" /\ o.num_dirs_in_tree_calc # 0 =>
    o.directory_loops * o.items_per_dir = raw.items
=============================================================================
