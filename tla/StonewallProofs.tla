-------------------------- MODULE StonewallProofs ---------------------------
(***************************************************************************)
(* Proofs about Stonewall for any number of ranks and any jobs: the state  *)
(* keeps its type; the remove phase leaves no item behind, wherever the    *)
(* timers cut the ranks off; and in the first iteration of a job that      *)
(* makes files, the catch-up gives all ranks the same work, o.items says   *)
(* how much, and no stat misses its file.                                  *)
(*                                                                         *)
(* That nothing is left does not follow from what the ranks have made, but *)
(* from three facts about it.  Every item lies below the limit of the rank *)
(* that made it (Placed), which for a rank that was stopped rests on       *)
(* having recorded the first directory it gave up, and one item in each    *)
(* directory after that (Cut).  The reduction gives all ranks one limit,   *)
(* which is no less than what any of them recorded (OneLimit).  And a rank *)
(* removes the items of another one only when nobody creates any more      *)
(* (InOrder), so that they do not come back (Gone).                        *)
(*                                                                         *)
(* The second part needs the opposite bound: every rank has made all of    *)
(* its files below the common limit (Made), and that limit is the o.items  *)
(* it goes on with (Recorded).  The difficult step is the reduction: rank  *)
(* 0 does not catch up if the average of what the ranks have recorded is   *)
(* o.items, and then all of them have recorded everything there is         *)
(* (NoHitMeansDone), which is a fact about sums over any number of ranks.  *)
(***************************************************************************)
EXTENDS Stonewall, CommonLemmas

-----------------------------------------------------------------------------
(* Numbers *)

\* Max is what its name says on sets that have a largest element.
LEMMA MaxIsLargest ==
  ASSUME NEW bound \in Nat, NEW S, S \subseteq 0 .. bound, S # {}
  PROVE  Max(S) \in S /\ \A y \in S : Max(S) >= y
<1> DEFINE T == {t \in 0 .. bound : bound - t \in S}
           R == {ss \in Nat \X Nat : ss[1] < ss[2]}
<1>1. T \subseteq Nat
  OBVIOUS
<1>2. T # {}
  <2>1. PICK x \in S : x \in 0 .. bound
    OBVIOUS
  <2>2. bound - x \in T
    BY <2>1
  <2>3. QED
    BY <2>2
<1>3. PICK least \in T : \A y \in T : ~(<<y, least>> \in R)
  <2> HIDE DEF T, R
  <2>1. IsWellFoundedOn(R, Nat)
    BY LessIsWellFounded DEF R
  <2>2. QED
    BY <2>1, <1>1, <1>2, WFMin
<1>4. least \in 0 .. bound /\ bound - least \in S
  OBVIOUS
<1>5. ASSUME NEW y \in S
      PROVE  bound - least >= y
  <2>1. y \in 0 .. bound /\ bound - y \in 0 .. bound /\ bound - (bound - y) = y
    OBVIOUS
  <2>2. bound - y \in T
    BY <2>1
  <2>3. ~(<<bound - y, least>> \in R)
    BY <1>3, <2>2
  <2>4. ~(bound - y < least)
    BY <1>4, <2>1, <2>3
  <2>5. QED
    BY <1>4, <2>1, <2>4
<1>6. QED
  BY <1>4, <1>5 DEF Max

-----------------------------------------------------------------------------
(* The invariant *)

\* What a rank that creates against the clock has recorded: nothing, a whole directory,
\* or the first directory it gave up, and then it is late and gives up the next ones at
\* once.
Cut ==
  \A r \in Ranks : pc[r] = "create" =>
    /\ progress[r].start = 0 /\ progress[r].limit = job.items_per_dir
    /\ progress[r].timer
    /\ progress[r].done \in {0, job.items_per_dir} \/ (late[r] /\ i[r] = 0)

OneLimit == \A r, q \in Ranks : progress[r].limit = progress[q].limit

\* Item k of directory d lies behind the place that rank m has come to.
Behind(m, d, k) ==
  pc[m] \in {"create", "reduce"} =>
    \/ d < dir[m] /\ k < progress[m].done
    \/ d = dir[m] /\ k < i[m] /\ pc[m] = "create"

PlacedAt(it, m, d, k) == it = <<m, d, ItemNumber(d, k)>> /\ Behind(m, d, k)

Placed ==
  \A it \in items :
    \E m \in Ranks, d \in Dirs : \E k \in 0 .. progress[m].limit - 1 : PlacedAt(it, m, d, k)

Later == {"removing", "removed"}

\* Nobody creates once somebody may remove, and nobody looks once somebody has removed.
InOrder ==
  \A r, q \in Ranks :
    /\ pc[r] \in Later => pc[q] \in {"created", "failed"} \cup Later
    /\ pc[r] = "removed" => pc[q] \in Later

Gone ==
  \A r \in Ranks : pc[r] = "removed" =>
    \A it \in items : it[1] # (r + 3 * job.nstride) % NTasks

IInv == TypeOK /\ Cut /\ OneLimit /\ Placed /\ InOrder /\ Gone

LEMMA JobType ==
  ASSUME job \in Jobs
  PROVE  /\ job.items_per_dir \in Nat \ {0} /\ job.depth \in Nat /\ job.nstride \in Nat
         /\ job.iterations \in Nat \ {0} /\ job.directory_loops \in Nat \ {0}
  BY StonewallAssumption DEF IsJob

LEMMA InitialItemsType ==
  ASSUME job \in Jobs
  PROVE  InitialItems \in Nat /\ job.items_per_dir <= InitialItems
<1> DEFINE b == job.items_per_dir
<1>1. b \in Nat \ {0} /\ job.depth \in Nat /\ job.directory_loops \in Nat \ {0}
  BY JobType
<1> HIDE DEF b
<1>2. \A f \in Nat \ {0} : f * b \in Nat /\ b <= f * b
  BY <1>1
<1>3. QED
  BY <1>1, <1>2 DEF InitialItems, b

LEMMA NumberType ==
  ASSUME job \in Jobs, NEW d \in Dirs, NEW k \in 0 .. job.items_per_dir
  PROVE  ItemNumber(d, k) \in 0 .. (job.depth + 1) * job.items_per_dir
<1> DEFINE b == job.items_per_dir
           A == job.depth
<1>1. b \in Nat /\ A \in Nat /\ d \in 0 .. A /\ k \in 0 .. b
  BY JobType DEF Dirs
<1> HIDE DEF b, A
<1>2. d * b <= A * b /\ d * b \in Nat /\ A * b \in Nat /\ (A + 1) * b = A * b + b
  BY <1>1
<1>3. d * b + k \in 0 .. (A + 1) * b
  BY <1>1, <1>2
<1>4. QED
  BY <1>3 DEF ItemNumber, b, A

-----------------------------------------------------------------------------
(* The steps *)

LEMMA NothingLeft == IInv /\ AllPast({"removed"}) => items = {}
<1> SUFFICES ASSUME IInv, AllPast({"removed"}), NEW it \in items
             PROVE  FALSE
  OBVIOUS
<1>1. PICK m \in Ranks : it[1] = m
  BY DEF IInv, TypeOK
<1>2. 3 * job.nstride \in Nat
  BY JobType DEF IInv, TypeOK
<1>3. PICK r \in Ranks : (r + 3 * job.nstride) % NTasks = m
  BY <1>1, <1>2, StonewallAssumption, ShiftReaches DEF Ranks
<1>4. QED
  BY <1>1, <1>3 DEF IInv, Gone, AllPast

LEMMA InitIInv == Init => IInv
<1> SUFFICES ASSUME Init
             PROVE  IInv
  OBVIOUS
<1>1. job \in Jobs
  BY DEF Init
<1>2. TypeOK
  BY <1>1, JobType, InitialItemsType DEF Init, TypeOK, FreshProgress
<1>3. QED
  BY <1>1, <1>2, JobType
     DEF Init, IInv, Cut, OneLimit, Placed, InOrder, Later, Gone, FreshProgress

\* A rank's clock touches nothing but its flag.
LEMMA ExpireStep ==
  ASSUME IInv, NEW r \in Ranks, Expire(r)
  PROVE  IInv'
<1>1. UNCHANGED <<job, pc, dir, i, progress, oitems, iteration, items>>
  BY DEF Expire
<1>2. late' \in [Ranks -> BOOLEAN] /\ \A q \in Ranks : late[q] => late'[q]
  BY DEF Expire, IInv, TypeOK
<1>3. TypeOK'
  BY <1>1, <1>2 DEF IInv, TypeOK, InitialItems, Dirs
<1>4. Cut'
  BY <1>1, <1>2 DEF IInv, Cut
<1>5. OneLimit' /\ Placed' /\ InOrder' /\ Gone'
  BY <1>1 DEF IInv, OneLimit, Placed, PlacedAt, Behind, ItemNumber, Dirs, InOrder, Gone
<1>6. QED
  BY <1>3, <1>4, <1>5 DEF IInv

\* What going on to the next directory does to the types.
LEMMA NextDirFrame ==
  ASSUME TypeOK, NEW r \in Ranks, dir[r] \in Dirs,
         NEW done \in 0 .. job.items_per_dir, NextDir(r, done)
  PROVE  /\ progress' = [progress EXCEPT ![r].done = done]
         /\ dir' = [dir EXCEPT ![r] = dir[r] + 1]
         /\ i' = [i EXCEPT ![r] = progress[r].start]
         /\ progress' \in [Ranks -> [start : 0 .. job.items_per_dir,
                                     limit : 0 .. job.items_per_dir,
                                     done : 0 .. job.items_per_dir, timer : BOOLEAN]]
         /\ dir' \in [Ranks -> 0 .. job.depth + 1]
         /\ i' \in [Ranks -> 0 .. job.items_per_dir]
         /\ \A q \in Ranks : /\ progress'[q].limit = progress[q].limit
                             /\ progress'[q].start = progress[q].start
                             /\ progress'[q].timer = progress[q].timer
                             /\ q # r => progress'[q] = progress[q]
         /\ progress'[r].done = done
<1>1. job.depth \in Nat
  BY JobType DEF TypeOK
<1>2. /\ progress' = [progress EXCEPT ![r].done = done]
      /\ dir' = [dir EXCEPT ![r] = dir[r] + 1]
      /\ i' = [i EXCEPT ![r] = progress[r].start]
  BY DEF NextDir
<1>3. progress \in [Ranks -> [start : 0 .. job.items_per_dir,
                              limit : 0 .. job.items_per_dir,
                              done : 0 .. job.items_per_dir, timer : BOOLEAN]]
  BY DEF TypeOK
<1>4. dir' \in [Ranks -> 0 .. job.depth + 1]
  BY <1>1, <1>2 DEF TypeOK, Dirs
<1>5. i' \in [Ranks -> 0 .. job.items_per_dir]
  BY <1>2, <1>3 DEF TypeOK
<1>6. progress' \in [Ranks -> [start : 0 .. job.items_per_dir,
                               limit : 0 .. job.items_per_dir,
                               done : 0 .. job.items_per_dir, timer : BOOLEAN]]
  BY <1>2, <1>3
<1>7. QED
  BY <1>2, <1>3, <1>4, <1>5, <1>6

\* Where items are not touched, an item stays where it is as long as it stays behind.
LEMMA PlacedKept ==
  ASSUME IInv, job' = job, items' \subseteq items,
         \A q \in Ranks : progress'[q].limit = progress[q].limit,
         ASSUME NEW m \in Ranks, NEW d \in Dirs, NEW k \in 0 .. progress[m].limit - 1,
                Behind(m, d, k)
         PROVE  Behind(m, d, k)'
  PROVE  Placed'
<1> SUFFICES ASSUME NEW it \in items'
             PROVE  (\E m \in Ranks, d \in Dirs :
                       \E k \in 0 .. progress[m].limit - 1 : PlacedAt(it, m, d, k))'
  BY DEF Placed
<1>1. PICK m \in Ranks, d \in Dirs : \E k \in 0 .. progress[m].limit - 1 : PlacedAt(it, m, d, k)
  BY DEF IInv, Placed
<1>2. PICK k \in 0 .. progress[m].limit - 1 : PlacedAt(it, m, d, k)
  BY <1>1
<1>3. Dirs' = Dirs /\ ItemNumber(d, k)' = ItemNumber(d, k)
  BY DEF Dirs, ItemNumber
<1>4. PlacedAt(it, m, d, k)'
  BY <1>2, <1>3 DEF PlacedAt
<1>5. QED
  BY <1>3, <1>4

\* Nobody is removing when somebody creates.
LEMMA CreatingIsAlone ==
  ASSUME IInv, NEW r \in Ranks, pc[r] \in {"create", "reduce", "more"}
  PROVE  \A q \in Ranks : pc[q] \notin Later
  BY DEF IInv, InOrder, Later

LEMMA DirCompleteStep ==
  ASSUME IInv, NEW r \in Ranks, DirComplete(r)
  PROVE  IInv'
<1>1. /\ UNCHANGED <<job, pc, late, oitems, iteration, items>>
      /\ dir[r] \in Dirs /\ i[r] >= progress[r].limit
      /\ NextDir(r, progress[r].limit)
  BY DEF DirComplete, Creating
<1>2. progress[r].limit \in 0 .. job.items_per_dir
  BY DEF IInv, TypeOK
<1>3. TypeOK
  BY DEF IInv
<1>4. TypeOK'
  BY <1>1, <1>2, <1>3, NextDirFrame DEF TypeOK, InitialItems, Dirs
<1>5. Cut'
  <2> SUFFICES ASSUME NEW q \in Ranks, pc'[q] = "create"
               PROVE  /\ progress'[q].start = 0 /\ progress'[q].limit = job'.items_per_dir
                      /\ progress'[q].timer
                      /\ \/ progress'[q].done \in {0, job'.items_per_dir}
                         \/ late'[q] /\ i'[q] = 0
    BY DEF Cut
  <2>1. /\ progress[q].start = 0 /\ progress[q].limit = job.items_per_dir
        /\ progress[q].timer
        /\ progress[q].done \in {0, job.items_per_dir} \/ (late[q] /\ i[q] = 0)
    BY <1>1 DEF IInv, Cut
  <2>2. CASE q = r
    BY <1>1, <1>2, <1>3, <2>1, <2>2, NextDirFrame
  <2>3. CASE q # r
    <3>1. progress'[q] = progress[q]
      BY <1>1, <1>2, <1>3, <2>3, NextDirFrame
    <3>2. i'[q] = i[q]
      BY <1>1, <1>2, <1>3, <2>3, NextDirFrame DEF TypeOK
    <3>3. QED
      BY <1>1, <2>1, <3>1, <3>2
  <2>4. QED
    BY <2>2, <2>3
<1>6. OneLimit'
  BY <1>1, <1>2, <1>3, NextDirFrame DEF IInv, OneLimit
<1>7. ASSUME NEW m \in Ranks, NEW d \in Dirs, NEW k \in 0 .. progress[m].limit - 1,
             Behind(m, d, k)
      PROVE  Behind(m, d, k)'
  <2>1. CASE m = r
    <3>1. k < progress'[m].done
      BY <1>1, <1>2, <1>3, <2>1, NextDirFrame DEF TypeOK
    <3>2. pc[m] \in {"create", "reduce"} => d < dir'[m]
      BY <1>1, <1>2, <1>3, <1>7, <2>1, NextDirFrame DEF Behind, TypeOK, Dirs
    <3>3. QED
      BY <1>1, <3>1, <3>2 DEF Behind
  <2>2. CASE m # r
    BY <1>1, <1>2, <1>3, <1>7, <2>2, NextDirFrame DEF Behind, TypeOK
  <2>3. QED
    BY <2>1, <2>2
<1>8. Placed'
  BY <1>1, <1>2, <1>3, <1>7, NextDirFrame, PlacedKept
<1>9. InOrder' /\ Gone'
  BY <1>1 DEF IInv, InOrder, Gone
<1>10. QED
  BY <1>4, <1>5, <1>6, <1>8, <1>9 DEF IInv

\* An item that is made lies below the limit: behind, if the rank goes on in the same
\* directory, and below what it records, if the stone wall stops it.
LEMMA CreateItemStep ==
  ASSUME IInv, NEW r \in Ranks, CreateItem(r)
  PROVE  IInv'
<1> DEFINE new == <<r, dir[r], ItemNumber(dir[r], i[r])>>
           done == DoneWhenHit(r)
<1>1. /\ UNCHANGED <<job, pc, late, oitems, iteration>>
      /\ pc[r] \in {"create", "more"} /\ dir[r] \in Dirs
      /\ i[r] < progress[r].limit /\ items' = items \cup {new}
  BY DEF CreateItem, Creating
<1>2. TypeOK
  BY DEF IInv
<1> SUFFICES ASSUME NEW here \in Dirs, here = dir[r], NEW now, now = i[r]
             PROVE  IInv'
  BY <1>1
<1>3. /\ progress[r].limit \in 0 .. job.items_per_dir /\ job.items_per_dir \in Nat
      /\ i[r] \in 0 .. progress[r].limit - 1 /\ progress[r].done \in 0 .. job.items_per_dir
  BY <1>1, <1>2, JobType DEF TypeOK
<1>4. items' \subseteq Ranks \X Dirs \X (0 .. (job.depth + 1) * job.items_per_dir)
  <2>1. i[r] \in 0 .. job.items_per_dir
    BY <1>3
  <2>2. ItemNumber(dir[r], i[r]) \in 0 .. (job.depth + 1) * job.items_per_dir
    BY <1>1, <1>2, <2>1, NumberType DEF TypeOK
  <2>3. QED
    BY <1>1, <1>2, <2>2 DEF TypeOK
<1>5. /\ done \in 0 .. job.items_per_dir
      /\ pc[r] = "create" => i[r] < done /\ (done = progress[r].done \/ progress[r].done = 0)
  <2>1. CASE progress[r].done = 0
    BY <1>3, <2>1 DEF DoneWhenHit
  <2>2. CASE progress[r].done # 0
    <3>1. done = progress[r].done
      BY <2>2 DEF DoneWhenHit
    <3>2. pc[r] = "create" => i[r] < progress[r].done
      BY <1>3, <2>2 DEF IInv, Cut
    <3>3. QED
      BY <1>3, <3>1, <3>2
  <2>3. QED
    BY <2>1, <2>2
<1> DEFINE Keeps == \A m \in Ranks, d \in Dirs : \A k \in 0 .. progress[m].limit - 1 :
                      Behind(m, d, k) => Behind(m, d, k)'
           Goal == /\ TypeOK' /\ Cut' /\ Keeps /\ Behind(r, here, now)'
                   /\ \A q \in Ranks : progress'[q].limit = progress[q].limit
<1>6. ASSUME StoneWallHit(r)
      PROVE  Goal
  <2>1. NextDir(r, done)
    BY <1>6 DEF CreateItem
  <2> HIDE DEF done
  <2>2. TypeOK'
    BY <1>1, <1>2, <1>4, <1>5, <2>1, NextDirFrame DEF TypeOK, InitialItems, Dirs
  <2>3. Cut'
    <3> SUFFICES ASSUME NEW q \in Ranks, pc[q] = "create"
                 PROVE  /\ progress'[q].start = 0 /\ progress'[q].limit = job.items_per_dir
                        /\ progress'[q].timer
                        /\ \/ progress'[q].done \in {0, job.items_per_dir}
                           \/ late[q] /\ i'[q] = 0
      BY <1>1 DEF Cut
    <3>1. /\ progress[q].start = 0 /\ progress[q].limit = job.items_per_dir
          /\ progress[q].timer
          /\ progress[q].done \in {0, job.items_per_dir} \/ (late[q] /\ i[q] = 0)
      BY DEF IInv, Cut
    <3>2. CASE q = r
      <4>1. late[q] /\ i'[q] = 0
        BY <1>1, <1>2, <1>5, <1>6, <2>1, <3>1, <3>2, NextDirFrame DEF StoneWallHit, TypeOK
      <4>2. QED
        BY <1>1, <1>2, <1>5, <2>1, <3>1, <3>2, <4>1, NextDirFrame
    <3>3. CASE q # r
      <4>1. progress'[q] = progress[q]
        BY <1>1, <1>2, <1>5, <2>1, <3>3, NextDirFrame
      <4>2. i'[q] = i[q]
        BY <1>1, <1>2, <1>5, <2>1, <3>3, NextDirFrame DEF TypeOK
      <4>3. QED
        BY <3>1, <4>1, <4>2
    <3>4. QED
      BY <3>2, <3>3
  <2>4. Behind(r, here, now)'
    <3>1. progress'[r].done = done /\ dir'[r] = dir[r] + 1
      BY <1>1, <1>2, <1>5, <2>1, NextDirFrame DEF TypeOK
    <3>2. dir[r] < dir'[r]
      BY <1>1, <1>2, <3>1, JobType DEF Dirs, TypeOK
    <3>3. QED
      BY <1>1, <1>5, <3>1, <3>2 DEF Behind
  <2>5. Keeps
    <3> SUFFICES ASSUME NEW m \in Ranks, NEW d \in Dirs, NEW k \in 0 .. progress[m].limit - 1,
                        Behind(m, d, k)
                 PROVE  Behind(m, d, k)'
      OBVIOUS
    <3>1. CASE m = r
      <4>1. progress'[r].done = done /\ dir'[r] = dir[r] + 1 /\ pc'[r] = pc[r] /\ pc[r] # "reduce"
        BY <1>1, <1>2, <1>5, <2>1, NextDirFrame DEF TypeOK
      <4>2. dir[r] \in Nat /\ d \in Nat /\ i[r] \in Nat /\ progress[r].done \in Nat /\ k \in Nat
        BY <1>1, <1>2, <1>3, <3>1, JobType DEF Dirs, TypeOK
      <4>3. pc[r] = "create" => d < dir[r] + 1 /\ k < done
        BY <1>3, <1>5, <3>1, <4>2 DEF Behind
      <4>4. QED
        BY <3>1, <4>1, <4>3 DEF Behind
    <3>2. CASE m # r
      <4>1. progress'[m] = progress[m]
        BY <1>1, <1>2, <1>5, <2>1, <3>2, NextDirFrame
      <4>2. i'[m] = i[m] /\ dir'[m] = dir[m]
        BY <1>1, <1>2, <1>5, <2>1, <3>2, NextDirFrame DEF TypeOK
      <4>3. QED
        BY <1>1, <4>1, <4>2 DEF Behind
    <3>3. QED
      BY <3>1, <3>2
  <2>6. QED
    BY <1>1, <1>2, <1>5, <2>1, <2>2, <2>3, <2>4, <2>5, NextDirFrame
<1>7. ASSUME ~StoneWallHit(r)
      PROVE  Goal
  <2>1. i' = [i EXCEPT ![r] = i[r] + 1] /\ UNCHANGED <<dir, progress>>
    BY <1>7 DEF CreateItem
  <2>2. i' \in [Ranks -> 0 .. job.items_per_dir] /\ i'[r] = i[r] + 1
    BY <1>2, <1>3, <2>1 DEF TypeOK
  <2>3. TypeOK'
    BY <1>1, <1>2, <1>4, <2>1, <2>2 DEF TypeOK, InitialItems, Dirs
  <2>4. \A q \in Ranks : q # r => i'[q] = i[q]
    BY <1>2, <2>1 DEF TypeOK
  <2>5. pc[r] = "create" => ~late[r]
    BY <1>7 DEF IInv, Cut, StoneWallHit
  <2>6. Cut'
    BY <1>1, <2>1, <2>4, <2>5 DEF IInv, Cut
  <2>7. Behind(r, here, now)'
    BY <1>1, <1>3, <2>1, <2>2 DEF Behind
  <2>8. ASSUME NEW m \in Ranks, NEW d \in Dirs, NEW k \in 0 .. progress[m].limit - 1,
               Behind(m, d, k)
        PROVE  Behind(m, d, k)'
    <3>1. CASE m = r
      BY <1>1, <1>3, <2>1, <2>2, <2>8, <3>1 DEF Behind
    <3>2. CASE m # r
      BY <1>1, <2>1, <2>4, <2>8, <3>2 DEF Behind
    <3>3. QED
      BY <3>1, <3>2
  <2>9. QED
    BY <2>1, <2>3, <2>6, <2>7, <2>8
<1>8. Goal
  BY <1>6, <1>7
<1> HIDE DEF Keeps
<1>9. Dirs' = Dirs /\ \A d, k : ItemNumber(d, k)' = ItemNumber(d, k)
  BY <1>1 DEF Dirs, ItemNumber
<1>10. Placed'
  <2> SUFFICES ASSUME NEW it \in items'
               PROVE  \E m \in Ranks, d \in Dirs :
                        \E k \in 0 .. progress[m].limit - 1 : PlacedAt(it, m, d, k)'
    BY <1>8, <1>9 DEF Placed
  <2>1. CASE it \in items
    <3>1. PICK m \in Ranks, d \in Dirs :
                 \E k \in 0 .. progress[m].limit - 1 : PlacedAt(it, m, d, k)
      BY <2>1 DEF IInv, Placed
    <3>2. PICK k \in 0 .. progress[m].limit - 1 : PlacedAt(it, m, d, k)
      BY <3>1
    <3>3. PlacedAt(it, m, d, k)'
      BY <1>8, <1>9, <3>2 DEF PlacedAt, Keeps
    <3>4. QED
      BY <3>3
  <2>2. CASE it = new
    <3>1. PlacedAt(it, r, here, now)'
      BY <1>8, <1>9, <2>2 DEF PlacedAt
    <3>2. QED
      BY <1>1, <1>3, <3>1
  <2>3. QED
    BY <1>1, <2>1, <2>2
<1>11. OneLimit' /\ InOrder'
  BY <1>1, <1>8 DEF IInv, OneLimit, InOrder
<1>12. Gone'
  BY <1>1, CreatingIsAlone DEF Gone, Later
<1>13. QED
  BY <1>8, <1>10, <1>11, <1>12 DEF IInv

\* The steps that only move a rank on to its next phase.
LEMMA PhaseStep ==
  ASSUME IInv, NEW r \in Ranks, NEW phase, pc' = [pc EXCEPT ![r] = phase],
         phase \in {"reduce", "created", "removing", "failed"},
         phase = "reduce" => pc[r] = "create",
         phase \in {"removing", "failed"} => AllPast({"created", "removing"}),
         phase = "created" => pc[r] \in {"create", "more"},
         pc[r] = "create" => dir[r] \notin Dirs,
         UNCHANGED <<job, dir, i, progress, late, iteration, items>>,
         oitems' \in [Ranks -> 0 .. InitialItems]
  PROVE  IInv'
<1>1. /\ pc'[r] = phase /\ \A q \in Ranks : q # r => pc'[q] = pc[q]
      /\ Dirs' = Dirs
  BY DEF IInv, TypeOK, Dirs
<1>2. TypeOK'
  BY DEF IInv, TypeOK, InitialItems, Dirs
<1>3. Cut' /\ OneLimit'
  BY <1>1 DEF IInv, Cut, OneLimit
<1>4. ASSUME NEW m \in Ranks, NEW d \in Dirs, NEW k \in 0 .. progress[m].limit - 1,
             Behind(m, d, k)
      PROVE  Behind(m, d, k)'
  BY <1>1, <1>4 DEF Behind
<1>5. Placed'
  BY <1>4, PlacedKept
<1>6. InOrder'
  BY <1>1 DEF IInv, InOrder, Later, AllPast
<1>7. Gone'
  BY <1>1 DEF IInv, Gone
<1>8. QED
  BY <1>2, <1>3, <1>5, <1>6, <1>7 DEF IInv

LEMMA WalkCompleteStep ==
  ASSUME IInv, NEW r \in Ranks, WalkComplete(r)
  PROVE  IInv'
<1>1. oitems' \in [Ranks -> 0 .. InitialItems]
  BY DEF WalkComplete, IInv, TypeOK
<1>2. PICK phase \in {"reduce", "created"} : pc' = [pc EXCEPT ![r] = phase]
  BY DEF WalkComplete
<1>3. QED
  BY <1>1, <1>2, PhaseStep DEF WalkComplete

LEMMA CaughtUpStep ==
  ASSUME IInv, NEW r \in Ranks, CaughtUp(r)
  PROVE  IInv'
<1>1. progress[r].done \in 0 .. InitialItems
  BY InitialItemsType, JobType DEF IInv, TypeOK
<1>2. oitems' \in [Ranks -> 0 .. InitialItems]
  BY <1>1 DEF CaughtUp, IInv, TypeOK
<1>3. QED
  BY <1>2, PhaseStep DEF CaughtUp

LEMMA StatItemsStep ==
  ASSUME IInv, NEW r \in Ranks, StatItems(r)
  PROVE  IInv'
<1>1. oitems' \in [Ranks -> 0 .. InitialItems]
  BY DEF StatItems, IInv, TypeOK
<1>2. PICK phase \in {"removing", "failed"} : pc' = [pc EXCEPT ![r] = phase]
  BY DEF StatItems
<1>3. QED
  BY <1>1, <1>2, PhaseStep DEF StatItems

\* What a rank removes is all that its neighbour has made, for they have one limit.
LEMMA RemoveItemsStep ==
  ASSUME IInv, NEW r \in Ranks, RemoveItems(r)
  PROVE  IInv'
<1> DEFINE m == (r + 3 * job.nstride) % NTasks
<1>1. /\ UNCHANGED <<job, dir, i, progress, late, oitems, iteration>>
      /\ pc' = [pc EXCEPT ![r] = "removed"] /\ items' = items \ Removed(r)
      /\ AllPast({"removing", "removed"})
  BY DEF RemoveItems
<1>2. /\ pc'[r] = "removed" /\ \A q \in Ranks : q # r => pc'[q] = pc[q]
      /\ Dirs' = Dirs
  BY <1>1 DEF IInv, TypeOK, Dirs
<1>3. TypeOK'
  BY <1>1 DEF IInv, TypeOK, InitialItems, Dirs
<1>4. Cut' /\ OneLimit'
  BY <1>1, <1>2 DEF IInv, Cut, OneLimit
<1>5. Placed'
  <2>1. ASSUME NEW q \in Ranks, NEW d \in Dirs, NEW k \in 0 .. progress[q].limit - 1,
               Behind(q, d, k)
        PROVE  Behind(q, d, k)'
    BY <1>1, <1>2, <2>1 DEF Behind
  <2>2. QED
    BY <1>1, <2>1, PlacedKept
<1>6. InOrder'
  BY <1>1, <1>2 DEF InOrder, Later, AllPast
<1>7. ASSUME NEW it \in items, it[1] = m
      PROVE  it \in Removed(r)
  <2>1. PICK q \in Ranks, d \in Dirs :
               \E k \in 0 .. progress[q].limit - 1 : PlacedAt(it, q, d, k)
    BY DEF IInv, Placed
  <2>2. PICK k \in 0 .. progress[q].limit - 1 : PlacedAt(it, q, d, k)
    BY <2>1
  <2>3. q = m /\ progress[q].limit = progress[r].limit
    BY <1>7, <2>2 DEF PlacedAt, IInv, OneLimit
  <2>4. QED
    BY <2>2, <2>3 DEF PlacedAt, Removed
<1>8. Gone'
  BY <1>1, <1>2, <1>7 DEF IInv, Gone
<1>9. QED
  BY <1>3, <1>4, <1>5, <1>6, <1>8 DEF IInv

\* The limit that the ranks agree on is beyond what any of them has recorded.
LEMMA ReduceStep ==
  ASSUME IInv, Reduce
  PROVE  IInv'
<1> DEFINE S == {progress[q].done : q \in Ranks}
           b == job.items_per_dir
<1>1. /\ UNCHANGED <<job, late, oitems, iteration, items>>
      /\ \A r \in Ranks : pc[r] = "reduce"
      /\ progress' = [r \in Ranks |->
           [progress[r] EXCEPT !.start = progress[r].done, !.limit = MaxDone, !.timer = FALSE]]
      /\ pc' = [r \in Ranks |-> IF Hits(r) THEN "more" ELSE "created"]
      /\ dir' = [r \in Ranks |-> 0]
      /\ i' = [r \in Ranks |-> progress[r].done]
  BY DEF Reduce
<1>2. b \in Nat /\ job.depth \in Nat
  BY JobType DEF IInv, TypeOK
<1>3. /\ MaxDone \in 0 .. b
      /\ \A q \in Ranks : progress[q].done <= MaxDone /\ progress[q].done \in 0 .. b
  <2>1. \A q \in Ranks : progress[q].done \in 0 .. b
    BY DEF IInv, TypeOK
  <2>2. 0 \in Ranks
    BY StonewallAssumption DEF Ranks
  <2>3. S \subseteq 0 .. b /\ S # {}
    BY <2>1, <2>2
  <2> HIDE DEF b, S
  <2>4. Max(S) \in S /\ \A y \in S : Max(S) >= y
    BY <1>2, <2>3, MaxIsLargest
  <2>5. QED
    BY <2>1, <2>3, <2>4, <1>2 DEF MaxDone, S
<1>4. \A q \in Ranks : pc'[q] \in {"more", "created"} /\ progress'[q].limit = MaxDone
  BY <1>1 DEF IInv, TypeOK
<1>5. TypeOK'
  <2> HIDE DEF b
  <2>1. progress' \in [Ranks -> [start : 0 .. b, limit : 0 .. b, done : 0 .. b,
                                 timer : BOOLEAN]]
    <3>1. progress \in [Ranks -> [start : 0 .. b, limit : 0 .. b, done : 0 .. b,
                                  timer : BOOLEAN]]
      BY DEF IInv, TypeOK, b
    <3> DEFINE Moved(r) == [progress[r] EXCEPT !.start = progress[r].done, !.limit = MaxDone,
                                               !.timer = FALSE]
    <3>2. \A r \in Ranks : Moved(r) \in [start : 0 .. b, limit : 0 .. b, done : 0 .. b,
                                        timer : BOOLEAN]
      BY <1>3, <3>1
    <3>3. progress' = [r \in Ranks |-> Moved(r)]
      BY <1>1
    <3> HIDE DEF Moved
    <3>4. QED
      BY <3>2, <3>3
  <2>2. dir' \in [Ranks -> 0 .. job.depth + 1]
    <3>1. dir' = [r \in Ranks |-> 0]
      BY <1>1
    <3>2. 0 \in 0 .. job.depth + 1
      BY <1>2
    <3>3. QED
      BY <3>1, <3>2
  <2>3. i' \in [Ranks -> 0 .. b]
    BY <1>1, <1>3
  <2>4. pc' \in [Ranks -> {"create", "reduce", "more", "created", "removing", "removed",
                            "failed"}]
    BY <1>1
  <2>5. QED
    BY <1>1, <2>1, <2>2, <2>3, <2>4 DEF IInv, TypeOK, InitialItems, Dirs, b
<1>6. Cut' /\ OneLimit' /\ InOrder' /\ Gone'
  BY <1>4 DEF Cut, OneLimit, InOrder, Gone, Later
<1>7. Placed'
  <2> SUFFICES ASSUME NEW it \in items
               PROVE  \E m \in Ranks, d \in Dirs :
                        \E k \in 0 .. progress'[m].limit - 1 : PlacedAt(it, m, d, k)'
    BY <1>1 DEF Placed, Dirs
  <2>1. PICK m \in Ranks, d \in Dirs :
               \E k \in 0 .. progress[m].limit - 1 : PlacedAt(it, m, d, k)
    BY DEF IInv, Placed
  <2>2. PICK k \in 0 .. progress[m].limit - 1 : PlacedAt(it, m, d, k)
    BY <2>1
  <2>3. k < progress[m].done
    BY <1>1, <2>2 DEF PlacedAt, Behind
  <2>4. k \in 0 .. progress'[m].limit - 1
    <3>1. progress[m].limit \in Int
      BY DEF IInv, TypeOK
    <3>2. QED
      BY <1>3, <1>4, <2>3, <3>1
  <2>5. PlacedAt(it, m, d, k)'
    BY <1>1, <1>4, <2>2 DEF PlacedAt, Behind, ItemNumber
  <2>6. QED
    BY <2>4, <2>5
<1>8. QED
  BY <1>5, <1>6, <1>7 DEF IInv

LEMMA NextIterationStep ==
  ASSUME IInv, NextIteration
  PROVE  IInv'
<1>1. /\ UNCHANGED <<job, oitems, items>> /\ items = {}
      /\ iteration' = iteration + 1 /\ iteration < job.iterations
      /\ pc' = [r \in Ranks |-> "create"] /\ dir' = [r \in Ranks |-> 0]
      /\ i' = [r \in Ranks |-> 0] /\ progress' = [r \in Ranks |-> FreshProgress]
      /\ late' = [r \in Ranks |-> FALSE]
  BY NothingLeft DEF NextIteration
<1>2. job.items_per_dir \in Nat /\ job.depth \in Nat /\ job.iterations \in Nat
  BY JobType DEF IInv, TypeOK
<1>3. TypeOK'
  BY <1>1, <1>2 DEF IInv, TypeOK, InitialItems, Dirs, FreshProgress
<1>4. QED
  BY <1>1, <1>3 DEF IInv, Cut, OneLimit, Placed, InOrder, Later, Gone, FreshProgress

LEMMA NextIInv == IInv /\ [Next]_vars => IInv'
<1> SUFFICES ASSUME IInv, [Next]_vars
             PROVE  IInv'
  OBVIOUS
<1>1. ASSUME NEW r \in Ranks, Expire(r)
      PROVE  IInv'
  BY <1>1, ExpireStep
<1>2. ASSUME NEW r \in Ranks, RankStep(r)
      PROVE  IInv'
  BY <1>2, CreateItemStep, DirCompleteStep, WalkCompleteStep, CaughtUpStep, StatItemsStep,
     RemoveItemsStep DEF RankStep
<1>3. CASE UNCHANGED vars
  BY <1>3 DEF vars, IInv, TypeOK, InitialItems, Dirs, Cut, OneLimit, Placed, PlacedAt, Behind,
     ItemNumber, InOrder, Gone
<1>4. CASE Stop
  BY <1>3, <1>4 DEF Stop
<1>5. QED
  BY <1>1, <1>2, <1>3, <1>4, ReduceStep, NextIterationStep DEF Next

LEMMA IInvAlways == Spec => []IInv
<1>1. Init => IInv
  BY InitIInv
<1>2. IInv /\ [Next]_vars => IInv'
  BY NextIInv
<1>3. QED
  BY <1>1, <1>2, PTL DEF Spec

-----------------------------------------------------------------------------
(* The theorems *)

\* No rank of create_remove_items counts beyond items_per_dir, nor do the reduction and
\* the catch-up set o.items or a limit beyond what was asked for.
THEOREM StonewallTypeCorrect == Spec => []TypeOK
<1>1. IInv => TypeOK
  BY DEF IInv
<1>2. QED
  BY <1>1, IInvAlways, PTL

\* Wherever the timers of -W cut the ranks off, the remove phase of file_test and
\* directory_test leaves no item behind.
THEOREM StonewallCleansUp == Spec => []CleanedUp
<1>1. IInv => CleanedUp
  BY NothingLeft DEF CleanedUp
<1>2. QED
  BY <1>1, IInvAlways, PTL

-----------------------------------------------------------------------------
(* The reduction *)

Done == [q \in Ranks |-> progress[q].done]

\* SumDone is a sum of what SumBound is about.
LEMMA SumDoneIsSum ==
  \E g : Sums(g, Done, SUBSET Ranks) /\ SumDone = g[Ranks]
<1> DEFINE It(g) == g = [s \in SUBSET Ranks |->
                           IF s = {} THEN 0
                           ELSE LET x == CHOOSE y \in s : TRUE
                                IN  progress[x].done + g[s \ {x}]]
<1>1. SumDone = (CHOOSE g : It(g))[Ranks]
  BY DEF SumDone, MapThenSumSet, MapThenFoldSet
<1>2. IsFiniteSet(Ranks)
  BY StonewallAssumption, FS_Interval DEF Ranks
<1>3. \A g : It(g) <=> Sums(g, Done, SUBSET Ranks)
  <2> SUFFICES ASSUME NEW g
               PROVE  It(g) <=> Sums(g, Done, SUBSET Ranks)
    OBVIOUS
  <2>1. \A s \in SUBSET Ranks : s # {} => Pick(s) \in Ranks
    BY DEF Pick
  <2>2. \A s \in SUBSET Ranks : s # {} => Done[Pick(s)] = progress[Pick(s)].done
    BY <2>1 DEF Done
  <2>3. QED
    BY <2>2 DEF Sums, Pick
<1>4. \E g : It(g)
  <2>1. PICK g : Sums(g, Done, SUBSET Ranks)
    BY <1>2, SumsExist
  <2> HIDE DEF It
  <2>2. QED
    BY <1>3, <2>1
<1>5. It(CHOOSE g : It(g))
  <2> HIDE DEF It
  <2>1. QED
    BY <1>4
<1> HIDE DEF It
<1>6. QED
  BY <1>1, <1>3, <1>5

\* A floor division by N that is at least b.
LEMMA QuotientBound ==
  ASSUME NEW N \in Nat \ {0}, NEW b \in Nat, NEW x \in Nat, x <= N * b, x \div N >= b
  PROVE  x = N * b /\ x \div N = b
<1>1. x \div N \in Int /\ x % N \in 0 .. N - 1 /\ x = N * (x \div N) + (x % N)
  BY Division
<1> SUFFICES ASSUME NEW q \in Int, NEW m \in 0 .. N - 1, x = N * q + m, q >= b
             PROVE  x = N * b /\ q = b
  BY <1>1
<1>2. N * q = N * b + N * (q - b)
  OBVIOUS
<1>3. q > b => N * (q - b) >= N
  OBVIOUS
<1>4. ~(q > b)
  BY <1>2, <1>3
<1>5. QED
  BY <1>4

LEMMA NoHitMeansDone ==
  ASSUME TypeOK, NEW r \in Ranks, oitems[r] = InitialItems, ~Hits(r)
  PROVE  /\ InitialItems = job.items_per_dir
         /\ \A q \in Ranks : progress[q].done = job.items_per_dir
<1> DEFINE b == job.items_per_dir
<1>1. b \in Nat \ {0} /\ InitialItems \in Nat /\ b <= InitialItems
  BY JobType, InitialItemsType DEF TypeOK
<1>2. SumDone \div NTasks = InitialItems
  BY <1>1 DEF Hits
<1>3. PICK g : Sums(g, Done, SUBSET Ranks) /\ SumDone = g[Ranks]
  BY SumDoneIsSum
<1>4. NTasks \in Nat \ {0} /\ IsFiniteSet(Ranks) /\ Cardinality(Ranks) = NTasks
  BY StonewallAssumption, FS_Interval DEF Ranks
<1>5. \A q \in Ranks : Done[q] = progress[q].done /\ Done[q] \in 0 .. b
  BY DEF TypeOK, Done
<1> HIDE DEF b
<1>6. /\ g[Ranks] \in 0 .. NTasks * b
      /\ g[Ranks] = NTasks * b => \A q \in Ranks : Done[q] = b
  <2>1. /\ g[Ranks] \in 0 .. Cardinality(Ranks) * b
        /\ g[Ranks] = Cardinality(Ranks) * b => \A q \in Ranks : Done[q] = b
    <3>1. IsFiniteSet(Ranks) /\ b \in Nat /\ Sums(g, Done, SUBSET Ranks)
          /\ \A q \in Ranks : Done[q] \in 0 .. b
      BY <1>1, <1>3, <1>4, <1>5
    <3>2. QED
      BY <3>1, SumBound
  <2>2. QED
    BY <1>4, <2>1
<1>7. SumDone = NTasks * b /\ SumDone \div NTasks = b
  <2>1. NTasks * b \in Nat
    BY <1>1, <1>4
  <2>2. SumDone \in Nat /\ SumDone <= NTasks * b
    BY <1>3, <1>6, <2>1
  <2>3. SumDone \div NTasks >= b
    BY <1>1, <1>2
  <2>4. QED
    BY <1>1, <1>4, <2>2, <2>3, QuotientBound
<1>8. QED
  BY <1>2, <1>3, <1>5, <1>6, <1>7 DEF b

-----------------------------------------------------------------------------
(* What the catch-up achieves *)

\* What is claimed is about files, in a first iteration, whose create phase is one walk.
First == job.kind = "file" /\ job.directory_loops = 1 /\ iteration = 1

\* How many files of directory 0 rank m has made at least.
Count(m) ==
  IF pc[m] \in {"create", "more"} /\ dir[m] = 0 THEN i[m]
  ELSE IF pc[m] \in {"create", "reduce"} THEN progress[m].done
  ELSE progress[m].limit

NoneRemoved == \A r \in Ranks : pc[r] # "removed"

MadeBy(m) == \A k \in 0 .. Count(m) - 1 : <<m, 0, k>> \in items

Made == First /\ NoneRemoved => \A m \in Ranks : MadeBy(m)

RecordedBy(m) ==
  /\ pc[m] = "create" => oitems[m] = InitialItems /\ (dir[m] = 0 <=> progress[m].done = 0)
  /\ pc[m] = "reduce" => oitems[m] = InitialItems /\ dir[m] # 0
  /\ pc[m] = "more" => /\ ~progress[m].timer
                       /\ dir[m] # 0 => progress[m].done = progress[m].limit
  /\ pc[m] \in {"created", "removing"} => oitems[m] = progress[m].limit
  /\ pc[m] # "failed"

Recorded == First => \A m \in Ranks : RecordedBy(m)

WInv == IInv /\ Made /\ Recorded

LEMMA InitWInv == Init => WInv
<1> SUFFICES ASSUME Init
             PROVE  Made /\ Recorded
  BY InitIInv DEF WInv
<1>1. Made
  BY DEF Init, Made, MadeBy, Count
<1>2. Recorded
  BY DEF Init, Recorded, RecordedBy, FreshProgress
<1>3. QED
  BY <1>1, <1>2

\* What the bounds are worth in the steps.
LEMMA Bounds ==
  ASSUME IInv, NEW r \in Ranks
  PROVE  /\ job.items_per_dir \in Nat \ {0}
         /\ progress[r].limit \in 0 .. job.items_per_dir
         /\ progress[r].done \in 0 .. job.items_per_dir
         /\ progress[r].start \in 0 .. job.items_per_dir
         /\ i[r] \in 0 .. job.items_per_dir
         /\ dir[r] \in Nat
         /\ ItemNumber(0, i[r]) = i[r]
         /\ 0 \in Dirs
<1>1. job.items_per_dir \in Nat \ {0} /\ job.depth \in Nat
  BY JobType DEF IInv, TypeOK
<1>2. i[r] \in 0 .. job.items_per_dir
  BY DEF IInv, TypeOK
<1>3. ItemNumber(0, i[r]) = i[r]
  BY <1>1, <1>2 DEF ItemNumber
<1>4. QED
  BY <1>1, <1>2, <1>3 DEF IInv, TypeOK, Dirs

\* Steps that take away nothing and move one rank.
LEMMA OthersStay ==
  ASSUME WInv, First, NEW r \in Ranks, UNCHANGED <<job, iteration>>, items \subseteq items',
         \A q \in Ranks : q # r =>
           /\ pc'[q] = pc[q] /\ dir'[q] = dir[q] /\ i'[q] = i[q]
           /\ progress'[q] = progress[q] /\ oitems'[q] = oitems[q],
         pc[r] # "removed" \/ pc'[r] = "removed",
         NoneRemoved => MadeBy(r)', RecordedBy(r)'
  PROVE  Made' /\ Recorded'
<1>1. NoneRemoved' => NoneRemoved
  BY DEF NoneRemoved
<1>2. ASSUME NEW q \in Ranks, q # r
      PROVE  (NoneRemoved => MadeBy(q)') /\ RecordedBy(q)'
  <2>1. MadeBy(q) => MadeBy(q)'
    <3>1. Count(q)' = Count(q)
      BY <1>2 DEF Count
    <3>2. QED
      BY <3>1 DEF MadeBy
  <2>2. RecordedBy(q) => RecordedBy(q)'
    BY <1>2 DEF RecordedBy, InitialItems
  <2>3. QED
    BY <2>1, <2>2 DEF WInv, Made, Recorded
<1>3. QED
  BY <1>1, <1>2 DEF Made, Recorded

LEMMA ExpireWork ==
  ASSUME WInv, NEW r \in Ranks, Expire(r)
  PROVE  Made' /\ Recorded'
<1>1. UNCHANGED <<job, pc, dir, i, progress, oitems, iteration, items>>
  BY DEF Expire
<1>2. QED
  BY <1>1 DEF WInv, Made, MadeBy, Count, First, NoneRemoved, Recorded, RecordedBy, InitialItems

\* What the two steps of a walk have in common.
LEMMA NextDirWork ==
  ASSUME WInv, First, NEW r \in Ranks, Creating(r), NEW done \in 0 .. job.items_per_dir,
         NextDir(r, done), UNCHANGED <<job, pc, oitems, iteration>>, items \subseteq items',
         NoneRemoved => \A k \in 0 .. done - 1 : <<r, 0, k>> \in items',
         pc[r] = "create" => done > 0,
         pc[r] = "more" => done = progress[r].limit
  PROVE  Made' /\ Recorded'
<1>1. TypeOK /\ dir[r] \in Dirs /\ pc[r] \in {"create", "more"}
  BY DEF WInv, IInv, Creating
<1>2. /\ progress'[r].done = done /\ progress'[r].limit = progress[r].limit
      /\ progress'[r].timer = progress[r].timer
      /\ \A q \in Ranks : q # r => progress'[q] = progress[q]
  BY <1>1, NextDirFrame
<1>3. /\ dir' = [dir EXCEPT ![r] = dir[r] + 1] /\ i' = [i EXCEPT ![r] = progress[r].start]
  BY DEF NextDir
<1>4. dir'[r] = dir[r] + 1 /\ \A q \in Ranks : q # r => dir'[q] = dir[q] /\ i'[q] = i[q]
  BY <1>1, <1>3 DEF TypeOK
<1>5. dir'[r] # 0
  BY <1>4, Bounds DEF WInv
<1>6. Count(r)' = done
  BY <1>1, <1>2, <1>5 DEF Count
<1>7. NoneRemoved => MadeBy(r)'
  BY <1>6 DEF MadeBy
<1>8. RecordedBy(r)'
  BY <1>1, <1>2, <1>5 DEF WInv, Recorded, RecordedBy, InitialItems
<1>9. QED
  BY <1>1, <1>2, <1>4, <1>7, <1>8, OthersStay

LEMMA DirCompleteWork ==
  ASSUME WInv, First, NEW r \in Ranks, DirComplete(r)
  PROVE  Made' /\ Recorded'
<1> DEFINE limit == progress[r].limit
<1>1. /\ UNCHANGED <<job, pc, late, oitems, iteration, items>>
      /\ Creating(r) /\ i[r] >= limit /\ NextDir(r, limit)
      /\ pc[r] \in {"create", "more"}
  BY DEF DirComplete, Creating
<1>2. /\ job.items_per_dir \in Nat \ {0} /\ limit \in 0 .. job.items_per_dir
      /\ i[r] \in 0 .. job.items_per_dir
  BY Bounds DEF WInv
<1>3. pc[r] = "create" => limit = job.items_per_dir
  BY DEF WInv, IInv, Cut
<1>4. limit <= Count(r)
  <2>1. CASE dir[r] = 0
    BY <1>1, <1>2, <2>1 DEF Count
  <2>2. CASE dir[r] # 0 /\ pc[r] = "create"
    <3>1. progress[r].done \in {0, job.items_per_dir}
      BY <1>1, <1>2, <1>3, <2>2 DEF WInv, IInv, Cut
    <3>2. progress[r].done # 0
      BY <2>2 DEF WInv, Recorded, RecordedBy
    <3>3. QED
      BY <1>2, <1>3, <2>2, <3>1, <3>2 DEF Count
  <2>3. CASE dir[r] # 0 /\ pc[r] = "more"
    BY <1>2, <2>3 DEF Count
  <2>4. QED
    BY <1>1, <2>1, <2>2, <2>3
<1>5. NoneRemoved => \A k \in 0 .. limit - 1 : <<r, 0, k>> \in items'
  <2>1. Count(r) \in Int
    BY Bounds DEF WInv, Count
  <2>2. QED
    BY <1>1, <1>2, <1>4, <2>1 DEF WInv, Made, MadeBy
<1>6. QED
  BY <1>1, <1>2, <1>3, <1>5, NextDirWork

LEMMA CreateItemWork ==
  ASSUME WInv, First, NEW r \in Ranks, CreateItem(r)
  PROVE  Made' /\ Recorded'
<1>1. /\ UNCHANGED <<job, pc, late, oitems, iteration>>
      /\ Creating(r) /\ pc[r] \in {"create", "more"} /\ dir[r] \in Dirs
      /\ i[r] < progress[r].limit
      /\ items' = items \cup {<<r, dir[r], ItemNumber(dir[r], i[r])>>}
  BY DEF CreateItem, Creating
<1>2. /\ job.items_per_dir \in Nat \ {0} /\ progress[r].limit \in 0 .. job.items_per_dir
      /\ i[r] \in 0 .. job.items_per_dir /\ progress[r].done \in 0 .. job.items_per_dir
      /\ dir[r] \in Nat /\ ItemNumber(0, i[r]) = i[r]
  BY Bounds DEF WInv
<1>3. RecordedBy(r) /\ (NoneRemoved => MadeBy(r))
  BY DEF WInv, Recorded, Made
<1>4. CASE StoneWallHit(r)
  <2> DEFINE done == DoneWhenHit(r)
  <2>1. NextDir(r, done)
    BY <1>4 DEF CreateItem
  <2>2. pc[r] = "create"
    BY <1>1, <1>3, <1>4 DEF StoneWallHit, RecordedBy
  <2>3. /\ dir[r] = 0 => done = i[r] + 1
        /\ dir[r] # 0 => done = progress[r].done
        /\ done > 0 /\ done \in 0 .. job.items_per_dir
    BY <1>1, <1>2, <1>3, <2>2 DEF DoneWhenHit, RecordedBy
  <2> HIDE DEF done
  <2>4. NoneRemoved => \A k \in 0 .. done - 1 : <<r, 0, k>> \in items'
    <3> SUFFICES ASSUME NoneRemoved, NEW k \in 0 .. done - 1
                 PROVE  <<r, 0, k>> \in items'
      OBVIOUS
    <3>1. CASE dir[r] = 0
      <4>1. Count(r) = i[r]
        BY <2>2, <3>1 DEF Count
      <4>2. k < i[r] \/ k = i[r]
        BY <1>2, <2>3, <3>1
      <4>3. QED
        BY <1>1, <1>2, <1>3, <3>1, <4>1, <4>2 DEF MadeBy
    <3>2. CASE dir[r] # 0
      <4>1. Count(r) = done
        BY <2>2, <2>3, <3>2 DEF Count
      <4>2. QED
        BY <1>1, <1>3, <4>1 DEF MadeBy
    <3>3. QED
      BY <3>1, <3>2
  <2>5. QED
    BY <1>1, <2>1, <2>2, <2>3, <2>4, NextDirWork
<1>5. CASE ~StoneWallHit(r)
  <2>1. i' = [i EXCEPT ![r] = i[r] + 1] /\ UNCHANGED <<dir, progress>>
    BY <1>5 DEF CreateItem
  <2>2. i'[r] = i[r] + 1 /\ \A q \in Ranks : q # r => i'[q] = i[q]
    BY <2>1 DEF WInv, IInv, TypeOK
  <2>3. NoneRemoved => MadeBy(r)'
    <3> SUFFICES ASSUME NoneRemoved, NEW k \in 0 .. Count(r)' - 1
                 PROVE  <<r, 0, k>> \in items'
      BY DEF MadeBy
    <3>1. CASE dir[r] = 0
      <4>1. Count(r) = i[r] /\ Count(r)' = i[r] + 1
        BY <1>1, <2>1, <2>2, <3>1 DEF Count
      <4>2. k < i[r] \/ k = i[r]
        BY <1>2, <4>1
      <4>3. QED
        BY <1>1, <1>2, <1>3, <3>1, <4>1, <4>2 DEF MadeBy
    <3>2. CASE dir[r] # 0
      <4>1. Count(r)' = Count(r)
        BY <1>1, <2>1, <3>2 DEF Count
      <4>2. QED
        BY <1>1, <1>3, <4>1 DEF MadeBy
    <3>3. QED
      BY <3>1, <3>2
  <2>4. RecordedBy(r)'
    BY <1>1, <1>3, <2>1 DEF RecordedBy, InitialItems
  <2>5. QED
    BY <1>1, <2>1, <2>2, <2>3, <2>4, OthersStay
<1>6. QED
  BY <1>4, <1>5

LEMMA WalkCompleteWork ==
  ASSUME WInv, First, NEW r \in Ranks, WalkComplete(r)
  PROVE  Made' /\ Recorded'
<1>1. /\ UNCHANGED <<job, dir, i, progress, late, oitems, iteration, items>>
      /\ pc[r] = "create" /\ dir[r] \notin Dirs /\ pc' = [pc EXCEPT ![r] = "reduce"]
  BY DEF WalkComplete, First
<1>2. pc'[r] = "reduce" /\ \A q \in Ranks : q # r => pc'[q] = pc[q]
  BY <1>1 DEF WInv, IInv, TypeOK
<1>3. dir[r] # 0
  BY <1>1, Bounds DEF WInv
<1>4. Count(r)' = Count(r)
  BY <1>1, <1>2, <1>3 DEF Count
<1>5. NoneRemoved => MadeBy(r)'
  BY <1>1, <1>4 DEF WInv, Made, MadeBy
<1>6. RecordedBy(r)'
  BY <1>1, <1>2, <1>3 DEF WInv, Recorded, RecordedBy, InitialItems
<1>7. QED
  BY <1>1, <1>2, <1>5, <1>6, OthersStay

LEMMA CaughtUpWork ==
  ASSUME WInv, First, NEW r \in Ranks, CaughtUp(r)
  PROVE  Made' /\ Recorded'
<1>1. /\ UNCHANGED <<job, dir, i, progress, late, iteration, items>>
      /\ pc[r] = "more" /\ dir[r] \notin Dirs /\ pc' = [pc EXCEPT ![r] = "created"]
      /\ oitems' = [oitems EXCEPT ![r] = progress[r].done]
  BY DEF CaughtUp
<1>2. /\ pc'[r] = "created" /\ oitems'[r] = progress[r].done
      /\ \A q \in Ranks : q # r => pc'[q] = pc[q] /\ oitems'[q] = oitems[q]
  BY <1>1 DEF WInv, IInv, TypeOK
<1>3. dir[r] # 0
  BY <1>1, Bounds DEF WInv
<1>4. progress[r].done = progress[r].limit
  BY <1>1, <1>3 DEF WInv, Recorded, RecordedBy
<1>5. Count(r)' = Count(r)
  BY <1>1, <1>2, <1>3 DEF Count
<1>6. NoneRemoved => MadeBy(r)'
  BY <1>1, <1>5 DEF WInv, Made, MadeBy
<1>7. RecordedBy(r)'
  BY <1>1, <1>2, <1>4 DEF RecordedBy
<1>8. QED
  BY <1>1, <1>2, <1>6, <1>7, OthersStay

\* A rank that does not catch up has everything, and so have all the others.
LEMMA ReduceWork ==
  ASSUME WInv, First, Reduce
  PROVE  Made' /\ Recorded'
<1> DEFINE b == job.items_per_dir
<1>1. /\ UNCHANGED <<job, late, oitems, iteration, items>>
      /\ \A r \in Ranks : pc[r] = "reduce"
      /\ progress' = [r \in Ranks |->
           [progress[r] EXCEPT !.start = progress[r].done, !.limit = MaxDone, !.timer = FALSE]]
      /\ pc' = [r \in Ranks |-> IF Hits(r) THEN "more" ELSE "created"]
      /\ dir' = [r \in Ranks |-> 0]
      /\ i' = [r \in Ranks |-> progress[r].done]
  BY DEF Reduce
<1>2. TypeOK /\ NoneRemoved
  BY <1>1 DEF WInv, IInv, NoneRemoved
<1> SUFFICES ASSUME NEW m \in Ranks
             PROVE  MadeBy(m)' /\ RecordedBy(m)'
  BY DEF Made, Recorded
<1>3. oitems[m] = InitialItems /\ oitems'[m] = oitems[m]
  BY <1>1 DEF WInv, Recorded, RecordedBy
<1>4. /\ pc'[m] = (IF Hits(m) THEN "more" ELSE "created")
      /\ dir'[m] = 0 /\ i'[m] = progress[m].done
  BY <1>1
<1>5. /\ progress'[m].limit = MaxDone /\ progress'[m].timer = FALSE
  BY ZenonT(30), <1>1, <1>2 DEF TypeOK
<1>6. MadeBy(m) /\ Count(m) = progress[m].done
  BY <1>1, <1>2 DEF WInv, Made, Count
<1>7. CASE Hits(m)
  <2>1. Count(m)' = Count(m)
    BY <1>4, <1>6, <1>7 DEF Count
  <2>2. QED
    BY <1>1, <1>4, <1>5, <1>6, <1>7, <2>1 DEF MadeBy, RecordedBy
<1>8. CASE ~Hits(m)
  <2>1. InitialItems = b /\ \A q \in Ranks : progress[q].done = b
    BY <1>2, <1>3, <1>8, NoHitMeansDone
  <2>2. MaxDone = b
    <3> DEFINE S == {progress[q].done : q \in Ranks}
    <3>1. S = {b} /\ b \in Nat
      BY <2>1, Bounds DEF WInv
    <3> HIDE DEF S, b
    <3>2. S \subseteq 0 .. b /\ S # {}
      BY <3>1
    <3>3. Max(S) \in S
      BY <3>1, <3>2, MaxIsLargest
    <3>4. QED
      BY <3>1, <3>3 DEF MaxDone, S
  <2>3. Count(m)' = Count(m)
    BY <1>4, <1>5, <1>6, <1>8, <2>1, <2>2 DEF Count
  <2>4. QED
    BY <1>1, <1>3, <1>4, <1>5, <1>6, <1>8, <2>1, <2>2, <2>3 DEF MadeBy, RecordedBy
<1>9. QED
  BY <1>7, <1>8

\* A rank looks only for files that its neighbour has made: they have one limit.
LEMMA AllFound ==
  ASSUME WInv, First, NEW r \in Ranks, StatItems(r)
  PROVE  LookedUp(r) \subseteq items
<1> DEFINE b == job.items_per_dir
           m == (r + job.nstride) % NTasks
<1>1. pc[r] = "created" /\ NoneRemoved /\ \A q \in Ranks : pc[q] \in {"created", "removing"}
  BY DEF StatItems, AllPast, NoneRemoved
<1>2. b \in Nat \ {0} /\ progress[r].limit \in 0 .. b
  BY Bounds DEF WInv
<1>3. m \in Ranks
  <2>1. NTasks \in Nat \ {0} /\ r + job.nstride \in Int
    <3>1. job.nstride \in Nat
      BY JobType DEF WInv, IInv, TypeOK
    <3>2. QED
      BY <3>1, StonewallAssumption DEF Ranks
  <2>2. QED
    BY <2>1, Division DEF Ranks
<1>4. oitems[r] = progress[r].limit
  BY <1>1 DEF WInv, Recorded, RecordedBy
<1>5. Count(m) = progress[r].limit
  <2>1. progress[m].limit = progress[r].limit
    BY <1>3 DEF WInv, IInv, OneLimit
  <2>2. pc[m] \in {"created", "removing"}
    BY <1>1, <1>3
  <2>3. QED
    BY <2>1, <2>2 DEF Count
<1>6. MadeBy(m)
  BY <1>1, <1>3 DEF WInv, Made
<1> SUFFICES ASSUME NEW num \in 0 .. oitems[r] - 1
             PROVE  <<m, num \div b, num>> \in items
  BY DEF LookedUp, First
<1> HIDE DEF b, m
<1>7. num \in 0 .. b - 1
  BY <1>2, <1>4
<1>8. num \div b = 0
  BY <1>2, <1>7
<1>9. QED
  BY <1>4, <1>5, <1>6, <1>8 DEF MadeBy

LEMMA StatItemsWork ==
  ASSUME WInv, First, NEW r \in Ranks, StatItems(r)
  PROVE  Made' /\ Recorded'
<1>1. /\ UNCHANGED <<job, dir, i, progress, late, oitems, iteration, items>>
      /\ pc[r] = "created" /\ pc' = [pc EXCEPT ![r] = "removing"]
  BY AllFound DEF StatItems
<1>2. pc'[r] = "removing" /\ \A q \in Ranks : q # r => pc'[q] = pc[q]
  BY <1>1 DEF WInv, IInv, TypeOK
<1>3. Count(r)' = Count(r)
  BY <1>1, <1>2 DEF Count
<1>4. NoneRemoved => MadeBy(r)'
  BY <1>1, <1>3 DEF WInv, Made, MadeBy
<1>5. RecordedBy(r)'
  BY <1>1, <1>2 DEF WInv, Recorded, RecordedBy
<1>6. QED
  BY <1>1, <1>2, <1>4, <1>5, OthersStay

LEMMA RemoveItemsWork ==
  ASSUME WInv, First, NEW r \in Ranks, RemoveItems(r)
  PROVE  Made' /\ Recorded'
<1>1. /\ UNCHANGED <<job, dir, i, progress, late, oitems, iteration>>
      /\ pc' = [pc EXCEPT ![r] = "removed"]
  BY DEF RemoveItems
<1>2. pc'[r] = "removed" /\ \A q \in Ranks : q # r => pc'[q] = pc[q]
  BY <1>1 DEF WInv, IInv, TypeOK
<1>3. Made'
  BY <1>2 DEF Made, NoneRemoved
<1>4. ASSUME NEW q \in Ranks
      PROVE  RecordedBy(q)'
  BY <1>1, <1>2 DEF WInv, Recorded, RecordedBy, InitialItems
<1>5. QED
  BY <1>3, <1>4 DEF Recorded

LEMMA NextWInv == WInv /\ [Next]_vars => WInv'
<1> SUFFICES ASSUME WInv, [Next]_vars
             PROVE  Made' /\ Recorded'
  BY NextIInv DEF WInv
<1>1. CASE UNCHANGED vars
  BY <1>1 DEF vars, WInv, Made, MadeBy, Count, First, NoneRemoved, Recorded, RecordedBy,
     InitialItems
<1>2. CASE Stop
  BY <1>1, <1>2 DEF Stop
<1>3. CASE NextIteration
  <2>1. iteration' # 1
    BY <1>3 DEF NextIteration, WInv, IInv, TypeOK
  <2>2. QED
    BY <2>1 DEF Made, Recorded, First
<1>4. CASE ~First /\ ~NextIteration /\ [Next]_vars
  <2>1. UNCHANGED <<job, iteration>>
    <3>1. ASSUME NEW r \in Ranks, Expire(r) \/ RankStep(r)
          PROVE  UNCHANGED <<job, iteration>>
      BY <3>1 DEF Expire, RankStep, CreateItem, DirComplete, WalkComplete, CaughtUp,
         StatItems, RemoveItems
    <3>2. Reduce \/ Stop \/ UNCHANGED vars => UNCHANGED <<job, iteration>>
      BY DEF Reduce, Stop, vars
    <3>3. QED
      BY <1>4, <3>1, <3>2 DEF Next
  <2>2. QED
    BY <1>4, <2>1 DEF Made, Recorded, First
<1>5. ASSUME First, NEW r \in Ranks, RankStep(r)
      PROVE  Made' /\ Recorded'
  BY <1>5, CreateItemWork, DirCompleteWork, WalkCompleteWork, CaughtUpWork, StatItemsWork,
     RemoveItemsWork DEF RankStep
<1>6. QED
  BY <1>1, <1>2, <1>3, <1>4, <1>5, ExpireWork, ReduceWork DEF Next

LEMMA WInvAlways == Spec => []WInv
<1>1. Init => WInv
  BY InitWInv
<1>2. WInv /\ [Next]_vars => WInv'
  BY NextWInv
<1>3. QED
  BY <1>1, <1>2, PTL DEF Spec

-----------------------------------------------------------------------------
(* What a rank has made, to the last item *)

\* Where there is one directory, the items of a rank are those below its limit.
LEMMA ExactlyTheLimit ==
  ASSUME WInv, Flat, Created, NEW r \in Ranks
  PROVE  Cardinality(ItemsOf(r)) = progress[r].limit
<1> DEFINE limit == progress[r].limit
           Below == 0 .. limit - 1
           f == [k \in Below |-> <<r, 0, k>>]
<1>1. First /\ NoneRemoved /\ pc[r] \in {"created", "removing"}
  BY DEF Flat, First, Created, AllPast, NoneRemoved
<1>2. limit \in Nat /\ job.depth = 0
  BY Bounds DEF WInv, Flat
<1>3. \A k \in Below : <<r, 0, k>> \in ItemsOf(r)
  <2>1. Count(r) = limit /\ MadeBy(r)
    BY <1>1 DEF Count, WInv, Made
  <2>2. QED
    BY <2>1 DEF MadeBy, ItemsOf
<1>4. ASSUME NEW it \in ItemsOf(r)
      PROVE  \E k \in Below : it = <<r, 0, k>>
  <2>1. it \in items /\ it[1] = r
    BY DEF ItemsOf
  <2>2. PICK m \in Ranks, d \in Dirs :
               \E k \in 0 .. progress[m].limit - 1 : PlacedAt(it, m, d, k)
    BY <2>1 DEF WInv, IInv, Placed
  <2>3. PICK k \in 0 .. progress[m].limit - 1 : PlacedAt(it, m, d, k)
    BY <2>2
  <2>4. m = r /\ d = 0
    BY <1>2, <2>1, <2>3 DEF PlacedAt, Dirs
  <2>5. ItemNumber(d, k) = k
    BY <1>2, <2>4, Bounds DEF ItemNumber, WInv
  <2>6. QED
    BY <2>3, <2>4, <2>5 DEF PlacedAt
<1> HIDE DEF limit
<1>5. f \in Bijection(Below, ItemsOf(r))
  <2>1. f \in [Below -> ItemsOf(r)]
    BY <1>3
  <2>2. \A k, l \in Below : f[k] = f[l] => k = l
    OBVIOUS
  <2>3. \A it \in ItemsOf(r) : \E k \in Below : f[k] = it
    BY <1>4
  <2> HIDE DEF f, Below
  <2>4. QED
    BY <2>1, <2>2, <2>3 DEF Bijection, Injection, Surjection, IsInjective
<1>6. IsFiniteSet(Below) /\ Cardinality(Below) = limit
  BY <1>2, FS_Interval
<1>7. ExistsBijection(Below, ItemsOf(r))
  BY <1>5 DEF ExistsBijection
<1> HIDE DEF Below
<1>8. QED
  BY <1>6, <1>7, FS_Bijection DEF limit

-----------------------------------------------------------------------------
(* The theorems about the catch-up *)

\* When the create phase of file_test against the clock is over, every rank has made as
\* many files of one directory as every other.
THEOREM StonewallSameWork == Spec => []SameWorkWhenFlat
<1>1. WInv => SameWorkWhenFlat
  <2>1. WInv => OneLimit
    BY DEF WInv, IInv
  <2>2. QED
    BY <2>1, ExactlyTheLimit DEF SameWorkWhenFlat, SameWork, OneLimit
<1>2. QED
  BY <1>1, WInvAlways, PTL

\* o.items, on which a rank bases its rates and what it stats, is then the number of
\* files it has made.
THEOREM StonewallReports == Spec => []ReportedIsDone
<1>1. WInv => ReportedIsDone
  <2> SUFFICES ASSUME WInv, Flat, Created, NEW r \in Ranks
               PROVE  oitems[r] = Cardinality(ItemsOf(r))
    BY DEF ReportedIsDone
  <2>1. First /\ pc[r] \in {"created", "removing"}
    BY DEF Flat, First, Created, AllPast
  <2>2. oitems[r] = progress[r].limit
    BY <2>1 DEF WInv, Recorded, RecordedBy
  <2>3. QED
    BY <2>2, ExactlyTheLimit
<1>2. QED
  BY <1>1, WInvAlways, PTL

\* In a first iteration without -n and -I together, mdtest_stat finds every file it looks
\* for, also those of a rank that was stopped earlier, in a chain of directories too.
THEOREM StonewallFindsFiles == Spec => []FirstIterationFindsFiles
<1>1. WInv => FirstIterationFindsFiles
  BY DEF WInv, Recorded, RecordedBy, First, FirstIterationFindsFiles, Aborted
<1>2. QED
  BY <1>1, WInvAlways, PTL
=============================================================================
