---------------------------- MODULE TimingProofs -----------------------------
(***************************************************************************)
(* Proofs about Timing, for any set of jobs, any number of ranks and any   *)
(* bound on the clock: leaving out the overhead of a directory per task    *)
(* never changes the duration of a phase that is over, the deviation is    *)
(* computed from the same entries as the means, the lines of the summary   *)
(* are about every rank and every iteration once, and the time reported of *)
(* a phase is never shorter than its work.                                 *)
(*                                                                         *)
(* All of them rest on where the instructions are in the code of a job,    *)
(* which is put together with FlattenSeq: the first round is a             *)
(* communicator, the iterations, one gather for each, and the summary, and *)
(* what follows is a round with more tasks, if there is one.  The ranks    *)
(* are then followed through the first round: none gets into a second one, *)
(* since MPI_Comm_create fails there, and rank 0 gets past the gather of   *)
(* an iteration after all the others, since it waits for as many           *)
(* collective calls as it has made itself.                                 *)
(*                                                                         *)
(* For the last one every measurement gets a frame in the code of the      *)
(* round: its first stamp, the work, a barrier, the last stamp and the     *)
(* record, with nothing between that touches its stamps unless it moves    *)
(* both.  Past its stamp a rank holds a time before the work it will do;   *)
(* no rank is past the barrier while another works, so the last stamp is   *)
(* after all of the work; and what the first to work holds, shifted or     *)
(* not, gets into its table and from there into the line.                  *)
(***************************************************************************)
EXTENDS Timing, CommonLemmas

-----------------------------------------------------------------------------
(* The instructions of a job *)

Inside == {"stamp", "offset", "begin", "end", "record", "barrier"}
Outside == {"comm", "gather", "summarize"}
Collective == {"barrier", "comm", "gather"}

\* What an instruction may be about.
Subject == Nat \cup (Nat \X Nat)

\* Inside an iteration with i tasks, of which only ranks in W fill in their tables: only
\* stamps of the phases are shifted, and all the tasks take part in every barrier.
Instructions(i, W) ==
  {x \in [do : Inside, n : Subject, by : SUBSET Ranks] :
     /\ x.do = "offset" => x.n \in 0 .. 4
     /\ x.do = "record" => /\ x.n \in Nat \X {DirTest, FileTest, TreeCreation, TreeRemoval}
                           /\ x.by \subseteq W
     /\ x.do = "barrier" => 0 .. i - 1 \subseteq x.by}

AllInstructions ==
  Instructions(0, Ranks) \cup [do : Outside, n : Subject, by : SUBSET Ranks]

LEMMA InstructionsGrow ==
  ASSUME NEW i \in Nat, NEW W, NEW V, W \subseteq V
  PROVE  /\ Instructions(i, W) \subseteq Instructions(i, V)
         /\ V \subseteq Ranks => Instructions(i, W) \subseteq AllInstructions
<1>1. 0 .. 0 - 1 = {}
  OBVIOUS
<1>2. Instructions(i, W) \subseteq Instructions(i, V)
  BY DEF Instructions
<1>3. V \subseteq Ranks => Instructions(i, W) \subseteq Instructions(0, Ranks)
  BY <1>1 DEF Instructions
<1>4. QED
  BY <1>2, <1>3 DEF AllInstructions

LEMMA OnlyIn ==
  ASSUME NEW F, NEW cond, NEW e, cond => e \in Seq(F)
  PROVE  Only(cond, e) \in Seq(F)
<1>1. <<>> \in Seq(F)
  OBVIOUS
<1>2. QED
  BY <1>1 DEF Only

LEMMA InsIn ==
  ASSUME NEW F, NEW do, NEW n, NEW by, [do |-> do, n |-> n, by |-> by] \in F
  PROVE  Ins(do, n, by) \in Seq(F)
<1> DEFINE x == [do |-> do, n |-> n, by |-> by]
<1> HIDE DEF x
<1>1. x \in F
  BY DEF x
<1>2. <<x>> \in Seq(F)
  BY <1>1
<1>3. QED
  BY <1>2, OnlyIn DEF Ins, x

LEMMA FlattenIn ==
  ASSUME NEW F, NEW m \in Nat, NEW f, f = [l \in 1 .. m |-> f[l]],
         \A l \in 1 .. m : f[l] \in Seq(F)
  PROVE  FlattenSeq(f) \in Seq(F)
<1>1. f \in Seq(Seq(F))
  OBVIOUS
<1>2. QED
  BY <1>1, FlattenCopies

\* Stamps and work need nothing of those who execute them.
LEMMA PlainIn ==
  ASSUME NEW i, NEW W, NEW do \in {"stamp", "begin", "end"}, NEW n \in Subject,
         NEW by \in SUBSET Ranks
  PROVE  Ins(do, n, by) \in Seq(Instructions(i, W))
<1>1. [do |-> do, n |-> n, by |-> by] \in Instructions(i, W)
  BY DEF Instructions, Inside
<1>2. QED
  BY <1>1, InsIn

LEMMA BarrierIn ==
  ASSUME NEW i, NEW W, NEW by \in SUBSET Ranks, 0 .. i - 1 \subseteq by
  PROVE  Ins("barrier", 0, by) \in Seq(Instructions(i, W))
<1>1. 0 \in Subject
  BY DEF Subject
<1>2. [do |-> "barrier", n |-> 0, by |-> by] \in Instructions(i, W)
  BY <1>1 DEF Instructions, Inside
<1>3. QED
  BY <1>2, InsIn

LEMMA RecordIn ==
  ASSUME NEW i, NEW W, NEW iteration \in Nat,
         NEW test \in {DirTest, FileTest, TreeCreation, TreeRemoval},
         NEW by \in SUBSET Ranks, by \subseteq W
  PROVE  Ins("record", <<iteration, test>>, by) \in Seq(Instructions(i, W))
<1>1. <<iteration, test>> \in Nat \X {DirTest, FileTest, TreeCreation, TreeRemoval}
  OBVIOUS
<1>2. <<iteration, test>> \in Subject
  BY DEF Subject, DirTest, FileTest, TreeCreation, TreeRemoval
<1>3. [do |-> "record", n |-> <<iteration, test>>, by |-> by] \in Instructions(i, W)
  BY <1>1, <1>2 DEF Instructions, Inside
<1>4. QED
  BY <1>3, InsIn

LEMMA BusyIn ==
  ASSUME NEW i, NEW W, NEW iteration \in Nat, NEW test \in Nat, NEW by \in SUBSET Ranks
  PROVE  Busy(iteration, test, by) \in Seq(Instructions(i, W))
<1>1. <<iteration, test>> \in Subject
  BY DEF Subject
<1>2. /\ Ins("begin", <<iteration, test>>, by) \in Seq(Instructions(i, W))
      /\ Ins("end", <<iteration, test>>, by) \in Seq(Instructions(i, W))
  BY <1>1, PlainIn
<1>3. QED
  BY <1>2, Joined DEF Busy

\* The tasks of a round.
Tasks(i) == 0 .. i - 1

LEMMA TasksAreRanks ==
  ASSUME NEW i \in 1 .. NTasks
  PROVE  Tasks(i) \in SUBSET Ranks /\ 0 \in Tasks(i) /\ i \in Nat
  BY TimingAssumption DEF Tasks, Ranks

-----------------------------------------------------------------------------
(* The code of a test, for any kind of instruction it may be made of *)

\* Pieces of code that are put together in either order.
Three(F, a, b, c) == a \in Seq(F) /\ b \in Seq(F) /\ c \in Seq(F)

LEMMA ThreeRegrouped ==
  ASSUME NEW F, NEW a, NEW b, NEW c, Three(F, a, b, c)
  PROVE  (a \o b) \o c = a \o (b \o c)
  BY Regrouped DEF Three

Do(do, n, by) == [do |-> do, n |-> n, by |-> by]

\* Entering a directory of its own shifts a rank's stamps.
Shifting(j) == j.unique_dir_per_task /\ ~j.time_unique_dir_overhead

\* The barriers, the calls and the shifts of a test.
Meets(F, by) == Do("barrier", 0, by) \in F
Calls(F, iteration, test, by) ==
  \A do \in {"begin", "end"}, V \in {{0}, by} : Do(do, <<iteration, test>>, V) \in F
Shifts(F, j, k, by) == Shifting(j) => Do("offset", k, by) \in F

LEMMA DoIn ==
  ASSUME NEW F, NEW do, NEW n, NEW by, Do(do, n, by) \in F
  PROVE  Ins(do, n, by) \in Seq(F)
  BY InsIn DEF Do

LEMMA NoneIn ==
  ASSUME NEW F, NEW do, NEW n
  PROVE  Ins(do, n, {}) \in Seq(F)
<1>1. <<>> \in Seq(F)
  OBVIOUS
<1>2. QED
  BY <1>1 DEF Ins, Only

LEMMA BusyMade ==
  ASSUME NEW F, NEW iteration, NEW test, NEW by, Calls(F, iteration, test, by),
         NEW V \in {{}, {0}, by}
  PROVE  Busy(iteration, test, V) \in Seq(F)
<1> DEFINE key == <<iteration, test>>
<1> HIDE DEF key
<1>1. ASSUME NEW do \in {"begin", "end"}
      PROVE  Ins(do, key, V) \in Seq(F)
  <2>1. CASE V = {}
    BY <2>1, NoneIn
  <2>2. CASE V # {}
    <3>1. V \in {{0}, by}
      BY <2>2
    <3>2. Do(do, key, V) \in F
      BY <3>1 DEF Calls, key
    <3>3. QED
      BY <3>2, DoIn
  <2>3. QED
    BY <2>1, <2>2
<1>2. Ins("begin", key, V) \in Seq(F) /\ Ins("end", key, V) \in Seq(F)
  BY <1>1
<1>3. Ins("begin", key, V) \o Ins("end", key, V) \in Seq(F)
  BY <1>2, Joined
<1>4. QED
  BY <1>3 DEF Busy, key

LEMMA EnterDirIn ==
  ASSUME NEW F, NEW j, NEW k, NEW by, Meets(F, by), Shifts(F, j, k, by)
  PROVE  EnterDir(j, k, by) \in Seq(F)
<1> DEFINE meet == Only(k = 0, Ins("barrier", 0, by))
           shift == Only(~j.time_unique_dir_overhead, Ins("offset", k, by))
<1>1. meet \in Seq(F)
  BY DoIn, OnlyIn DEF Meets
<1>2. j.unique_dir_per_task => shift \in Seq(F)
  <2>1. Shifting(j) => Ins("offset", k, by) \in Seq(F)
    BY DoIn DEF Shifts
  <2>2. QED
    BY <2>1, OnlyIn DEF Shifting
<1>3. EnterDir(j, k, by) = Only(j.unique_dir_per_task, meet \o shift)
  BY DEF EnterDir
<1> HIDE DEF meet, shift
<1>4. j.unique_dir_per_task => meet \o shift \in Seq(F)
  BY <1>1, <1>2, Joined
<1>5. Only(j.unique_dir_per_task, meet \o shift) \in Seq(F)
  BY <1>4, OnlyIn
<1>6. QED
  BY <1>3, <1>5

\* What a loop does once the directory is entered: with -c every rank then touches the
\* files that rank 0 has created.
Workers(j, test, k, by) ==
  IF test = DirTest /\ k = 2 THEN {}
  ELSE IF j.collective_creates /\ k \in {0, 3} THEN {0} ELSE by
Touch(j, iteration, test, k, by) ==
  Only(test = FileTest /\ k = 0 /\ j.collective_creates,
       Ins("barrier", 0, by) \o Busy(iteration, test + k, by))
Work(j, iteration, test, k, by) ==
  Busy(iteration, test + k, Workers(j, test, k, by)) \o Touch(j, iteration, test, k, by)

LEMMA WorkIn ==
  ASSUME NEW F, NEW j, NEW iteration, NEW test, NEW k, NEW by, Meets(F, by),
         Calls(F, iteration, test + k, by)
  PROVE  /\ Busy(iteration, test + k, Workers(j, test, k, by)) \in Seq(F)
         /\ Touch(j, iteration, test, k, by) \in Seq(F)
         /\ Work(j, iteration, test, k, by) \in Seq(F)
<1> DEFINE workers == Workers(j, test, k, by)
           row == test + k
           touch == Touch(j, iteration, test, k, by)
<1>1. workers \in {{}, {0}, by}
  BY DEF Workers
<1>2. Calls(F, iteration, row, by)
  OBVIOUS
<1>3. touch = Only(test = FileTest /\ k = 0 /\ j.collective_creates,
                   Ins("barrier", 0, by) \o Busy(iteration, row, by))
  BY DEF Touch
<1>4. Work(j, iteration, test, k, by) = Busy(iteration, row, workers) \o touch
  BY DEF Work
<1> HIDE DEF workers, row, touch
<1>5. Busy(iteration, row, workers) \in Seq(F) /\ Busy(iteration, row, by) \in Seq(F)
  BY <1>1, <1>2, BusyMade
<1>6. Ins("barrier", 0, by) \in Seq(F)
  BY DoIn DEF Meets
<1>7. Ins("barrier", 0, by) \o Busy(iteration, row, by) \in Seq(F)
  BY <1>5, <1>6, Joined
<1>8. touch \in Seq(F)
  BY <1>3, <1>7, OnlyIn
<1>9. Busy(iteration, row, workers) \o touch \in Seq(F)
  BY <1>5, <1>8, Joined
<1>10. QED
  BY <1>4, <1>5, <1>8, <1>9 DEF workers, row, touch

LEMMA LoopIs ==
  ASSUME NEW F, NEW j, NEW iteration, NEW test, NEW k, NEW by, Meets(F, by),
         Shifts(F, j, k, by), Calls(F, iteration, test + k, by)
  PROVE  /\ Loop(j, iteration, test, k, by) =
              EnterDir(j, k, by) \o Work(j, iteration, test, k, by)
         /\ Loop(j, iteration, test, k, by) \in Seq(F)
<1> DEFINE enter == EnterDir(j, k, by)
           busy == Busy(iteration, test + k, Workers(j, test, k, by))
           touch == Touch(j, iteration, test, k, by)
           work == Work(j, iteration, test, k, by)
<1>1. Loop(j, iteration, test, k, by) = (enter \o busy) \o touch /\ work = busy \o touch
  BY DEF Loop, Work, Workers, Touch
<1>2. enter \in Seq(F)
  BY EnterDirIn
<1>3. busy \in Seq(F) /\ touch \in Seq(F) /\ work \in Seq(F)
  BY WorkIn
<1> HIDE DEF enter, busy, touch, work
<1>4. (enter \o busy) \o touch = enter \o (busy \o touch)
  <2>1. Three(F, enter, busy, touch)
    BY <1>2, <1>3 DEF Three
  <2>2. QED
    BY <2>1, ThreeRegrouped
<1>5. enter \o work \in Seq(F)
  BY <1>2, <1>3, Joined
<1>6. QED
  BY <1>1, <1>4, <1>5 DEF enter, work

\* A phase up to the barrier of phase_end, and the whole of it.
Loops(j, iteration, test, k, by) ==
  Only(k \in j.phases,
       FlattenSeq([l \in 1 .. j.directory_loops |-> Loop(j, iteration, test, k, by)]))
Sync(j, iteration, test, k, by) == Only(j.call_sync, Busy(iteration, test + k, by))
Body(j, iteration, test, k, by) ==
  Loops(j, iteration, test, k, by) \o Sync(j, iteration, test, k, by)
PhaseCode(j, iteration, test, k, by) ==
  Body(j, iteration, test, k, by) \o (Ins("barrier", 0, by) \o Ins("stamp", k + 1, by))

LEMMA LoopsIn ==
  ASSUME NEW F, NEW j \in Jobs, NEW iteration, NEW test, NEW k, NEW by, Meets(F, by),
         Shifts(F, j, k, by), Calls(F, iteration, test + k, by)
  PROVE  Loops(j, iteration, test, k, by) \in Seq(F)
<1> DEFINE n == j.directory_loops
           L == [l \in 1 .. n |-> Loop(j, iteration, test, k, by)]
<1>1. n \in Nat
  BY TimingAssumption DEF IsJob
<1>2. Loop(j, iteration, test, k, by) \in Seq(F)
  BY LoopIs
<1>3. L = [l \in 1 .. n |-> L[l]] /\ \A l \in 1 .. n : L[l] \in Seq(F)
  BY <1>2
<1>4. Loops(j, iteration, test, k, by) = Only(k \in j.phases, FlattenSeq(L))
  BY DEF Loops
<1> HIDE DEF n, L
<1>5. FlattenSeq(L) \in Seq(F)
  BY <1>1, <1>3, FlattenIn
<1>6. QED
  BY <1>4, <1>5, OnlyIn

LEMMA SyncIn ==
  ASSUME NEW F, NEW j, NEW iteration, NEW test, NEW k, NEW by,
         Calls(F, iteration, test + k, by)
  PROVE  Sync(j, iteration, test, k, by) \in Seq(F)
<1> DEFINE row == test + k
<1>1. Calls(F, iteration, row, by)
  OBVIOUS
<1>2. Sync(j, iteration, test, k, by) = Only(j.call_sync, Busy(iteration, row, by))
  BY DEF Sync
<1> HIDE DEF row
<1>3. Busy(iteration, row, by) \in Seq(F)
  BY <1>1, BusyMade
<1>4. QED
  BY <1>2, <1>3, OnlyIn

LEMMA BodyIn ==
  ASSUME NEW F, NEW j \in Jobs, NEW iteration, NEW test, NEW k, NEW by, Meets(F, by),
         Shifts(F, j, k, by), Calls(F, iteration, test + k, by)
  PROVE  Body(j, iteration, test, k, by) \in Seq(F)
<1>1. /\ Loops(j, iteration, test, k, by) \in Seq(F)
      /\ Sync(j, iteration, test, k, by) \in Seq(F)
  BY LoopsIn, SyncIn
<1>2. QED
  BY <1>1, Joined DEF Body

\* Phase k in the code of a test.
LEMMA PhaseIs ==
  ASSUME NEW F, NEW j \in Jobs, NEW iteration, NEW test, NEW k, NEW by, Meets(F, by),
         Shifts(F, j, k, by), Calls(F, iteration, test + k, by),
         Do("stamp", k + 1, by) \in F
  PROVE  /\ Loops(j, iteration, test, k, by) \o PhaseEnd(j, iteration, test, k, by) =
              PhaseCode(j, iteration, test, k, by)
         /\ PhaseCode(j, iteration, test, k, by) \in Seq(F)
<1> DEFINE loops == Loops(j, iteration, test, k, by)
           sync == Sync(j, iteration, test, k, by)
           body == Body(j, iteration, test, k, by)
           b == Ins("barrier", 0, by)
           n == Ins("stamp", k + 1, by)
<1>1. loops \in Seq(F) /\ sync \in Seq(F) /\ b \in Seq(F) /\ n \in Seq(F)
  BY LoopsIn, SyncIn, DoIn DEF Meets
<1>2. /\ PhaseEnd(j, iteration, test, k, by) = (sync \o b) \o n
      /\ PhaseCode(j, iteration, test, k, by) = body \o (b \o n)
      /\ body = loops \o sync
  BY DEF PhaseEnd, PhaseCode, Body, Sync
<1> HIDE DEF loops, sync, body, b, n
<1>3. b \o n \in Seq(F) /\ body \in Seq(F)
  BY <1>1, <1>2, Joined
<1>4. body \o (b \o n) \in Seq(F)
  BY <1>3, Joined
<1> DEFINE bn == b \o n
<1>5. (sync \o b) \o n = sync \o bn
  <2>1. Three(F, sync, b, n)
    BY <1>1 DEF Three
  <2>2. QED
    BY <2>1, ThreeRegrouped
<1>6. bn \in Seq(F)
  BY <1>3
<1> HIDE DEF bn
<1>7. (loops \o sync) \o bn = loops \o (sync \o bn)
  <2>1. Three(F, loops, sync, bn)
    BY <1>1, <1>6 DEF Three
  <2>2. QED
    BY <2>1, ThreeRegrouped
<1>8. QED
  BY <1>2, <1>4, <1>5, <1>7 DEF loops, bn

\* The phases of a test one after another.
PhasesCode(j, iteration, test, by) ==
  [p \in 1 .. 4 |-> PhaseCode(j, iteration, test, p - 1, by)]
LastShift(j, by) ==
  Only(j.unique_dir_per_task /\ ~j.time_unique_dir_overhead, Ins("offset", 4, by))

\* Everything that the code of a test does.
Tested(F, j, iteration, test, by) ==
  /\ Meets(F, by)
  /\ \A k \in 0 .. 4 : Do("stamp", k, by) \in F /\ Shifts(F, j, k, by)
  /\ \A k \in 0 .. 3 : Calls(F, iteration, test + k, by)
  /\ Do("record", <<iteration, test>>, by) \in F

TestStart(by) == Ins("barrier", 0, by) \o Ins("stamp", 0, by)
TestShape(F, j, iteration, test, by) ==
  LET P == PhasesCode(j, iteration, test, by)
  IN  /\ P \in Seq(Seq(F)) /\ Len(P) = 4
      /\ TestCode(j, iteration, test, by) =
           ((TestStart(by) \o FlattenSeq(P)) \o LastShift(j, by))
             \o Ins("record", <<iteration, test>>, by)

LEMMA TestIs ==
  ASSUME NEW F, NEW j \in Jobs, NEW iteration, NEW test, NEW by,
         Tested(F, j, iteration, test, by)
  PROVE  /\ TestShape(F, j, iteration, test, by)
         /\ TestCode(j, iteration, test, by) \in Seq(F)
<1> DEFINE P == PhasesCode(j, iteration, test, by)
           Q == [p \in 1 .. 4 |->
                   Only(p - 1 \in j.phases,
                        FlattenSeq([l \in 1 .. j.directory_loops |->
                                      Loop(j, iteration, test, p - 1, by)]))
                     \o PhaseEnd(j, iteration, test, p - 1, by)]
           b == Ins("barrier", 0, by)
           s == Ins("stamp", 0, by)
           z == LastShift(j, by)
           r == Ins("record", <<iteration, test>>, by)
<1>1. ASSUME NEW p \in 1 .. 4
      PROVE  Q[p] = P[p] /\ P[p] \in Seq(F)
  <2> DEFINE k == p - 1
  <2>1. k \in 0 .. 3 /\ k + 1 \in 0 .. 4 /\ k \in 0 .. 4
    OBVIOUS
  <2>2. /\ Q[p] = Loops(j, iteration, test, k, by) \o PhaseEnd(j, iteration, test, k, by)
        /\ P[p] = PhaseCode(j, iteration, test, k, by)
    BY DEF Loops, PhasesCode
  <2> HIDE DEF k, P, Q
  <2>3. /\ Meets(F, by) /\ Shifts(F, j, k, by) /\ Calls(F, iteration, test + k, by)
        /\ Do("stamp", k + 1, by) \in F
    BY <2>1 DEF Tested
  <2>4. QED
    BY <2>2, <2>3, PhaseIs
<1>2. Q = P /\ P = [p \in 1 .. 4 |-> P[p]]
  BY <1>1 DEF PhasesCode
<1>3. TestCode(j, iteration, test, by) = (((b \o s) \o FlattenSeq(Q)) \o z) \o r
  BY DEF TestCode, LastShift
<1> HIDE DEF P, Q
<1>4. P \in Seq(Seq(F)) /\ Len(P) = 4
  BY <1>1, <1>2
<1>5. FlattenSeq(P) \in Seq(F)
  BY <1>4, FlattenCopies
<1>6. b \in Seq(F) /\ s \in Seq(F) /\ r \in Seq(F)
  <2>1. Do("barrier", 0, by) \in F /\ Do("stamp", 0, by) \in F
        /\ Do("record", <<iteration, test>>, by) \in F
    BY DEF Tested, Meets
  <2>2. QED
    BY <2>1, DoIn
<1>7. z \in Seq(F)
  <2>1. Shifting(j) => Ins("offset", 4, by) \in Seq(F)
    BY DoIn DEF Tested, Shifts
  <2>2. QED
    BY <2>1, OnlyIn DEF LastShift, Shifting
<1> HIDE DEF b, s, z, r
<1> DEFINE f == FlattenSeq(P)
<1>8. f \in Seq(F)
  BY <1>5
<1> HIDE DEF f
<1>9. b \o s \in Seq(F)
  BY <1>6, Joined
<1>10. (b \o s) \o f \in Seq(F)
  BY <1>8, <1>9, Joined
<1>11. ((b \o s) \o f) \o z \in Seq(F)
  BY <1>7, <1>10, Joined
<1>12. (((b \o s) \o f) \o z) \o r \in Seq(F)
  BY <1>6, <1>11, Joined
<1>13. TestCode(j, iteration, test, by) = (((b \o s) \o f) \o z) \o r
  BY <1>2, <1>3 DEF f
<1>14. QED
  BY <1>4, <1>12, <1>13 DEF P, b, s, z, r, f, TestShape, TestStart

LEMMA TestIn ==
  ASSUME NEW j \in Jobs, NEW iteration \in Nat, NEW test \in {DirTest, FileTest},
         NEW i \in 1 .. NTasks
  PROVE  TestCode(j, iteration, test, Tasks(i)) \in Seq(Instructions(i, Tasks(i)))
<1> DEFINE F == Instructions(i, Tasks(i))
           T == Tasks(i)
<1>1. T \in SUBSET Ranks /\ {0} \in SUBSET Ranks
  BY TasksAreRanks
<1>2. Meets(F, T)
  BY <1>1 DEF Meets, Do, Instructions, Inside, Subject, Tasks
<1>3. \A k \in 0 .. 4 : Do("stamp", k, T) \in F /\ Do("offset", k, T) \in F
  BY <1>1 DEF Do, Instructions, Inside, Subject
<1>4. ASSUME NEW k \in 0 .. 3
      PROVE  Calls(F, iteration, test + k, T)
  <2>1. <<iteration, test + k>> \in Subject
    BY DEF DirTest, FileTest, Subject
  <2>2. QED
    BY <1>1, <2>1 DEF Calls, Do, Instructions, Inside
<1>5. Do("record", <<iteration, test>>, T) \in F
  <2>1. <<iteration, test>> \in Nat \X {DirTest, FileTest, TreeCreation, TreeRemoval}
        /\ <<iteration, test>> \in Subject
    BY DEF DirTest, FileTest, Subject
  <2>2. QED
    BY <1>1, <2>1 DEF Do, Instructions, Inside
<1> HIDE DEF F, T
<1>6. Tested(F, j, iteration, test, T)
  BY <1>2, <1>3, <1>4, <1>5 DEF Tested, Shifts
<1>7. QED
  BY <1>6, TestIs DEF F, T

LEMMA TreeIn ==
  ASSUME NEW j, NEW iteration \in Nat, NEW test \in {TreeCreation, TreeRemoval},
         NEW i \in 1 .. NTasks
  PROVE  /\ Ins("barrier", 0, Ranks) \in Seq(Instructions(i, Ranks))
         /\ TreeCode(j, iteration, test) \in Seq(Instructions(i, Ranks))
<1> DEFINE F == Instructions(i, Ranks)
           W == IF j.unique_dir_per_task /\ ~j.collective_creates THEN Ranks ELSE {0}
<1>1. test \in Nat /\ StartCreate \in Subject /\ EndCreate \in Subject
  BY DEF TreeCreation, TreeRemoval, StartCreate, EndCreate, Subject
<1>2. Ranks \in SUBSET Ranks /\ W \in SUBSET Ranks /\ Tasks(i) \subseteq Ranks
  BY TasksAreRanks
<1>3. /\ Ins("stamp", StartCreate, Ranks) \in Seq(F)
      /\ Ins("stamp", EndCreate, Ranks) \in Seq(F)
  BY <1>1, <1>2, PlainIn
<1>4. Ins("barrier", 0, Ranks) \in Seq(F)
  BY <1>2, BarrierIn DEF Tasks
<1>5. Ins("record", <<iteration, test>>, Ranks) \in Seq(F)
  BY <1>2, RecordIn
<1>6. Busy(iteration, test, W) \in Seq(F)
  BY <1>1, <1>2, BusyIn
<1>7. TreeCode(j, iteration, test) =
        Ins("stamp", StartCreate, Ranks) \o Busy(iteration, test, W)
          \o Ins("barrier", 0, Ranks) \o Ins("stamp", EndCreate, Ranks)
          \o Ins("record", <<iteration, test>>, Ranks)
  BY DEF TreeCode
<1> HIDE DEF F, W
<1>8. Ins("stamp", StartCreate, Ranks) \o Busy(iteration, test, W)
        \o Ins("barrier", 0, Ranks) \o Ins("stamp", EndCreate, Ranks)
        \o Ins("record", <<iteration, test>>, Ranks) \in Seq(F)
  BY <1>3, <1>4, <1>5, <1>6, Joined
<1>9. QED
  BY <1>4, <1>7, <1>8 DEF F

-----------------------------------------------------------------------------
(* How a round is laid out *)

\* Rank q comes to a barrier before it fills in anything.
Stops(e, q) ==
  \E b \in 1 .. Len(e) :
    /\ e[b].do = "barrier" /\ q \in e[b].by
    /\ \A k \in 1 .. b : e[k].do = "record" => q \notin e[k].by

LEMMA IterationIn ==
  ASSUME NEW j \in Jobs, NEW i \in 1 .. NTasks, NEW iteration \in Nat
  PROVE  LET e == IterationCode(j, i, iteration)
         IN  /\ e \in Seq(Instructions(i, Ranks)) /\ Len(e) # 0
             /\ \A q \in Ranks \ Tasks(i) : Stops(e, q)
<1> DEFINE F == Instructions(i, Ranks)
           D == Instructions(i, Tasks(i))
           gate == Ins("barrier", 0, Ranks)
           first == Only(0 \in j.phases, gate \o TreeCode(j, iteration, TreeCreation))
           dirs == Only(j.dirs_only, directory_test(j, iteration, Tasks(i)))
           files == Only(j.files_only, file_test(j, iteration, Tasks(i)))
           tree == Only(3 \in j.phases, TreeCode(j, iteration, TreeRemoval))
           x == [do |-> "barrier", n |-> 0, by |-> Ranks]
           e == IterationCode(j, i, iteration)
<1>1. e = first \o dirs \o files \o gate \o tree
  BY DEF IterationCode, Tasks
<1>2. gate = <<x>> /\ x.do = "barrier" /\ x.by = Ranks
  <2>1. Ranks # {}
    BY TasksAreRanks DEF Tasks
  <2>2. QED
    BY <2>1 DEF Ins, Only
<1>3. /\ gate \in Seq(F) /\ TreeCode(j, iteration, TreeCreation) \in Seq(F)
      /\ TreeCode(j, iteration, TreeRemoval) \in Seq(F)
  BY TreeIn
<1>4. /\ directory_test(j, iteration, Tasks(i)) \in Seq(D)
      /\ file_test(j, iteration, Tasks(i)) \in Seq(D)
  BY TestIn DEF directory_test, file_test
<1>5. D \subseteq F /\ \A y \in D : y.do = "record" => y.by \subseteq Tasks(i)
  <2>1. D \subseteq F
    BY TasksAreRanks, InstructionsGrow
  <2>2. QED
    BY <2>1 DEF Instructions
<1> HIDE DEF F, D, gate, x
<1>6. dirs \in Seq(D) /\ files \in Seq(D) /\ tree \in Seq(F)
  BY <1>3, <1>4, OnlyIn
<1>7. first \in Seq(F)
  BY <1>3, Joined, OnlyIn
<1>8. dirs \o files \in Seq(D)
  BY <1>6, Joined
<1> DEFINE u == dirs \o files
<1>9. u \in Seq(D) /\ u \in Seq(F)
  BY <1>5, <1>8
<1>10. e = first \o (u \o (gate \o tree))
  <2>1. dirs \in Seq(F) /\ files \in Seq(F)
    BY <1>5, <1>6
  <2> HIDE DEF first, dirs, files, tree, e
  <2>2. (first \o dirs) \o files = first \o u
    BY SMTT(30), <1>7, <2>1, Regrouped DEF u
  <2> HIDE DEF u
  <2> DEFINE fu == first \o u
  <2>6. fu \in Seq(F)
    BY <1>7, <1>9, Joined
  <2> HIDE DEF fu
  <2>7. gate \o tree \in Seq(F)
    BY <1>3, <1>6, Joined
  <2>3. (fu \o gate) \o tree = fu \o (gate \o tree)
    <3>1. gate \in Seq(F) /\ tree \in Seq(F)
      BY <1>3, <1>6
    <3>2. QED
      BY SMTT(30), <2>6, <3>1, Regrouped
  <2>4. fu \o (gate \o tree) = first \o (u \o (gate \o tree))
    BY SMTT(30), <1>7, <1>9, <2>7, Regrouped DEF fu
  <2>5. QED
    BY <1>1, <2>2, <2>3, <2>4 DEF fu
<1> HIDE DEF u, e, dirs, files, tree
<1>11. e \in Seq(F)
  BY <1>3, <1>6, <1>7, <1>9, <1>10, Joined
<1>12. CASE 0 \in j.phases
  <2> DEFINE v == TreeCode(j, iteration, TreeCreation)
             w == u \o (gate \o tree)
  <2>1. first = gate \o v
    BY <1>12 DEF Only
  <2> HIDE DEF first, v
  <2>2. v \in Seq(F) /\ w \in Seq(F)
    BY <1>3, <1>6, <1>9, Joined DEF v
  <2> HIDE DEF w
  <2>3. e = (gate \o v) \o w
    BY <1>10, <2>1 DEF w
  <2>4. Len(e) # 0 /\ e[1] = x
    BY <1>2, <1>3, <2>2, <2>3
  <2>5. \A q \in Ranks : Stops(e, q)
    <3> SUFFICES ASSUME NEW q \in Ranks
                 PROVE  Stops(e, q)
      OBVIOUS
    <3>1. 1 \in 1 .. Len(e)
      BY <1>11, <2>4
    <3>2. \A k \in 1 .. 1 : k = 1
      OBVIOUS
    <3>3. QED
      BY <1>2, <2>4, <3>1, <3>2 DEF Stops
  <2>6. QED
    BY <1>11, <2>4, <2>5 DEF e, F
<1>13. CASE 0 \notin j.phases
  <2>1. first = <<>>
    BY <1>13 DEF Only
  <2> HIDE DEF first
  <2>2. e = u \o (gate \o tree)
    <3>1. u \o (gate \o tree) \in Seq(F)
      BY <1>3, <1>6, <1>9, Joined
    <3>2. QED
      BY <1>10, <2>1, <3>1
  <2> DEFINE b == Len(u) + 1
  <2>3. /\ Len(u) \in Nat /\ b \in 1 .. Len(e) /\ e[b] = x
        /\ \A k \in 1 .. Len(u) : e[k] = u[k] /\ u[k] \in D
    BY <1>2, <1>3, <1>6, <1>9, <2>2
  <2>4. ASSUME NEW q \in Ranks \ Tasks(i)
        PROVE  Stops(e, q)
    <3>1. ASSUME NEW k \in 1 .. b, e[k].do = "record"
          PROVE  q \notin e[k].by
      <4>1. k # b
        BY <1>2, <2>3, <3>1
      <4>2. k \in 1 .. Len(u)
        BY <2>3, <4>1
      <4>3. QED
        BY <1>5, <2>3, <3>1, <4>2
    <3> HIDE DEF b
    <3>2. QED
      BY <1>2, <2>3, <3>1 DEF Stops
  <2>5. QED
    BY <1>11, <2>3, <2>4 DEF e, F
<1>14. QED
  BY <1>12, <1>13

\* The code begins with the round with i tasks: after B - 1 instructions of the iterations
\* come the gathers and the summary.  What follows is a round with more tasks, and a rank
\* that is no task meets a barrier before it fills in anything.
Layout(P, i, B, I) ==
  /\ P \in Seq(AllInstructions)
  /\ B \in Nat \ {0} /\ Len(P) >= B + I + 1
  /\ P[1] = [do |-> "comm", n |-> i, by |-> Ranks]
  /\ \A p \in 2 .. B : P[p] \in Instructions(i, Ranks)
  /\ \A it \in 0 .. I - 1 : P[B + it + 1] = [do |-> "gather", n |-> it, by |-> Ranks]
  /\ P[B + I + 1] = [do |-> "summarize", n |-> 0, by |-> {0}]
  /\ \/ Len(P) = B + I + 1
     \/ \E n \in i + 1 .. NTasks :
          P[B + I + 2] = [do |-> "comm", n |-> n, by |-> Ranks]
  /\ \A q \in Ranks \ Tasks(i) :
       \E b \in 2 .. B :
         /\ P[b].do = "barrier" /\ q \in P[b].by
         /\ \A k \in 2 .. b : P[k].do = "record" => q \notin P[k].by

\* The instructions of the iterations are those from 2 to z - 1, and z is a barrier.
Iterated(j, i) ==
  FlattenSeq([it \in 1 .. j.iterations |-> IterationCode(j, i, it - 1)])
Opening(P, e, z) ==
  /\ Len(e) \in Nat /\ z = Len(e) + 2
  /\ P[z] = [do |-> "barrier", n |-> 0, by |-> Ranks]
  /\ \A x \in 1 .. Len(e) : P[1 + x] = e[x]

LEMMA JoinedPlaces ==
  ASSUME NEW F, NEW a \in Seq(F), NEW b \in Seq(F)
  PROVE  /\ a \o b \in Seq(F) /\ Len(a \o b) = Len(a) + Len(b)
         /\ Len(a) \in Nat /\ Len(b) \in Nat
         /\ \A k \in 1 .. Len(a) : (a \o b)[k] = a[k]
         /\ \A k \in 1 .. Len(b) : (a \o b)[Len(a) + k] = b[k]
  OBVIOUS

LEMMA InsIs ==
  ASSUME NEW do, NEW n, NEW by, by # {}
  PROVE  Ins(do, n, by) = << [do |-> do, n |-> n, by |-> by] >>
  BY DEF Ins, Only

LEMMA OneOf ==
  ASSUME NEW F, NEW x \in F
  PROVE  <<x>> \in Seq(F) /\ Len(<<x>>) = 1 /\ <<x>>[1] = x
  OBVIOUS

\* The iterations of a round, one after another.
LEMMA IterationsIn ==
  ASSUME NEW j \in Jobs, NEW i \in 1 .. NTasks
  PROVE  LET e == FlattenSeq([it \in 1 .. j.iterations |-> IterationCode(j, i, it - 1)])
         IN  /\ e \in Seq(Instructions(i, Ranks))
             /\ \A q \in Ranks \ Tasks(i) : Stops(e, q)
<1> DEFINE F == Instructions(i, Ranks)
           s == [it \in 1 .. j.iterations |-> IterationCode(j, i, it - 1)]
           e == FlattenSeq(s)
           d == IterationCode(j, i, 0)
<1>1. j.iterations \in Nat \ {0}
  BY TimingAssumption DEF IsJob
<1>2. \A it \in 1 .. j.iterations : s[it] \in Seq(F)
  <2>1. \A it \in 1 .. j.iterations : it - 1 \in Nat
    BY <1>1
  <2>2. QED
    BY <2>1, IterationIn
<1>3. d \in Seq(F) /\ Len(d) # 0 /\ \A q \in Ranks \ Tasks(i) : Stops(d, q)
  BY IterationIn
<1>4. s = [it \in 1 .. j.iterations |-> s[it]] /\ s[1] = d
  BY <1>1
<1> HIDE DEF s, d, F
<1>5. s \in Seq(Seq(F)) /\ Len(s) = j.iterations
  BY <1>1, <1>2, <1>4
<1>6. e \in Seq(F)
  BY <1>5, FlattenCopies
<1>7. Len(e) >= Len(d) /\ \A x \in 1 .. Len(d) : e[x] = d[x]
  <2>1. 1 \in 1 .. Len(s) /\ Len(s[1]) # 0
    BY <1>1, <1>3, <1>4, <1>5
  <2>2. \A x \in 1 .. 1 - 1 : Len(s[x]) = 0
    OBVIOUS
  <2>3. QED
    BY <1>4, <1>5, <2>1, <2>2, FlattenFirst
<1> HIDE DEF e
<1>8. ASSUME NEW q \in Ranks \ Tasks(i)
      PROVE  Stops(e, q)
  <2>1. PICK b \in 1 .. Len(d) :
          /\ d[b].do = "barrier" /\ q \in d[b].by
          /\ \A k \in 1 .. b : d[k].do = "record" => q \notin d[k].by
    BY <1>3 DEF Stops
  <2>2. b \in 1 .. Len(e) /\ \A k \in 1 .. b : k \in 1 .. Len(d)
    BY <1>3, <1>6, <1>7
  <2>3. QED
    BY <1>7, <2>1, <2>2 DEF Stops
<1>9. QED
  BY <1>6, <1>8 DEF e, F, s

\* What rank 0 gathers, one instruction for each iteration.
LEMMA GathersAre ==
  ASSUME NEW I \in Nat
  PROVE  LET h == FlattenSeq([m \in 1 .. I |-> Ins("gather", m - 1, Ranks)])
         IN  /\ h \in Seq(AllInstructions) /\ Len(h) = I
             /\ \A m \in 1 .. I : h[m] = [do |-> "gather", n |-> m - 1, by |-> Ranks]
<1> DEFINE x(m) == [do |-> "gather", n |-> m - 1, by |-> Ranks]
           f == [m \in 1 .. I |-> x(m)]
<1>1. Ranks # {}
  BY TimingAssumption DEF Ranks
<1>2. \A m \in 1 .. I : x(m) \in AllInstructions
  BY DEF AllInstructions, Outside, Subject
<1>3. f \in Seq(AllInstructions) /\ Len(f) = I /\ \A m \in 1 .. I : f[m] = x(m)
  <2> HIDE DEF x
  <2>1. QED
    BY <1>2
<1>4. [m \in 1 .. I |-> Ins("gather", m - 1, Ranks)] = [m \in 1 .. Len(f) |-> <<f[m]>>]
  BY <1>1, <1>3, InsIs
<1> HIDE DEF f
<1>5. FlattenSeq([m \in 1 .. Len(f) |-> <<f[m]>>]) = f
  BY <1>3, FlattenUnits
<1>6. QED
  BY <1>3, <1>4, <1>5

LEMMA RoundLayout ==
  ASSUME NEW j \in Jobs, NEW i \in 1 .. NTasks
  PROVE  \E B : /\ Layout(RoundCode(j, i), i, B, j.iterations)
                /\ Opening(RoundCode(j, i), Iterated(j, i), B)
                /\ Len(RoundCode(j, i)) = B + j.iterations + 1
<1> DEFINE I == j.iterations
           F == AllInstructions
           e == Iterated(j, i)
           h == FlattenSeq([m \in 1 .. I |-> Ins("gather", m - 1, Ranks)])
           x == [do |-> "comm", n |-> i, by |-> Ranks]
           y == [do |-> "barrier", n |-> 0, by |-> Ranks]
           z == [do |-> "summarize", n |-> 0, by |-> {0}]
           P == RoundCode(j, i)
<1>0. Ranks # {}
  BY TasksAreRanks
<1>1. I \in Nat \ {0} /\ i \in Nat /\ Ranks # {}
  BY <1>0, TimingAssumption DEF IsJob
<1>2. e \in Seq(Instructions(i, Ranks)) /\ \A q \in Ranks \ Tasks(i) : Stops(e, q)
  BY IterationsIn DEF Iterated
<1>3. h \in Seq(F) /\ Len(h) = I
      /\ \A m \in 1 .. I : h[m] = [do |-> "gather", n |-> m - 1, by |-> Ranks]
  BY <1>1, GathersAre
<1>4. P = <<x>> \o e \o <<y>> \o h \o <<z>>
  BY <1>1, InsIs DEF RoundCode, Iterated
<1>5. Instructions(i, Ranks) \subseteq F
  BY <1>1, InstructionsGrow
<1>6. x \in F /\ z \in F
  <2>1. 0 \in Ranks
    BY TimingAssumption DEF Ranks
  <2>2. QED
    BY <1>1, <2>1 DEF AllInstructions, Outside, Subject
<1>7. y \in Instructions(i, Ranks)
  BY TasksAreRanks DEF Instructions, Inside, Subject, Tasks
<1> HIDE DEF F, e, h, P, I
<1> DEFINE a1 == <<x>> \o e
           a2 == a1 \o <<y>>
           a3 == a2 \o h
           B == Len(e) + 2
<1>8. e \in Seq(F) /\ y \in F /\ Len(e) \in Nat
  BY <1>2, <1>5, <1>7
<1>9. /\ <<x>> \in Seq(F) /\ Len(<<x>>) = 1 /\ <<x>>[1] = x
      /\ <<y>> \in Seq(F) /\ Len(<<y>>) = 1 /\ <<y>>[1] = y
      /\ <<z>> \in Seq(F) /\ Len(<<z>>) = 1 /\ <<z>>[1] = z
  BY <1>6, <1>8, OneOf
<1> DEFINE sx == <<x>>
           sy == <<y>>
           sz == <<z>>
<1> HIDE DEF sx, sy, sz, x, y, z
<1>10. P = a3 \o sz
  BY <1>4 DEF sx, sy, sz
<1>11. /\ a1 \in Seq(F) /\ Len(a1) = 1 + Len(e)
       /\ a1[1] = x /\ \A k \in 1 .. Len(e) : a1[1 + k] = e[k]
  <2>1. Len(sx) = 1 /\ sx[1] = x
    BY <1>9 DEF sx
  <2>2. sx \in Seq(F) /\ e \in Seq(F)
    BY <1>8, <1>9 DEF sx
  <2>3. a1 = sx \o e
    BY DEF sx
  <2> HIDE DEF a1
  <2>4. /\ a1 \in Seq(F) /\ Len(a1) = Len(sx) + Len(e)
        /\ \A k \in 1 .. Len(sx) : a1[k] = sx[k]
        /\ \A k \in 1 .. Len(e) : a1[Len(sx) + k] = e[k]
    BY <2>2, <2>3, JoinedPlaces
  <2>5. QED
    BY <2>1, <2>4
<1> HIDE DEF a1
<1>12. /\ a2 \in Seq(F) /\ Len(a2) = B /\ a2[B] = y
       /\ \A k \in 1 .. Len(e) + 1 : a2[k] = a1[k]
  <2>1. Len(sy) = 1 /\ sy[1] = y
    BY <1>9 DEF sy
  <2>2. a1 \in Seq(F) /\ sy \in Seq(F)
    BY <1>9, <1>11 DEF sy
  <2>3. a2 = a1 \o sy
    BY DEF sy
  <2> HIDE DEF a2
  <2>4. /\ a2 \in Seq(F) /\ Len(a2) = Len(a1) + Len(sy)
        /\ \A k \in 1 .. Len(a1) : a2[k] = a1[k]
        /\ \A k \in 1 .. Len(sy) : a2[Len(a1) + k] = sy[k]
    BY <2>2, <2>3, JoinedPlaces
  <2>5. 1 \in 1 .. Len(sy) /\ Len(a1) + 1 = B
    BY <1>8, <1>11, <2>1
  <2>6. a2[B] = y
    BY <2>1, <2>4, <2>5
  <2> HIDE DEF B
  <2>7. Len(a2) = B /\ 1 .. Len(e) + 1 = 1 .. Len(a1)
    BY <1>8, <1>11, <2>1, <2>4, <2>5
  <2>8. QED
    BY <2>4, <2>6, <2>7
<1> HIDE DEF a2
<1>13. B \in Nat /\ B >= 2 /\ B = Len(e) + 2
  BY <1>8
<1> HIDE DEF B
<1>14. /\ a3 \in Seq(F) /\ Len(a3) = B + I
       /\ \A k \in 1 .. B : a3[k] = a2[k]
       /\ \A m \in 1 .. I : a3[B + m] = h[m]
  <2>1. a3 = a2 \o h
    OBVIOUS
  <2>4. Len(a2) = B /\ Len(h) = I
    BY <1>3, <1>12
  <2>0. a2 \in Seq(F) /\ h \in Seq(F)
    BY <1>3, <1>12
  <2> HIDE DEF a3
  <2>2. /\ a3 \in Seq(F) /\ Len(a3) = Len(a2) + Len(h)
        /\ \A k \in 1 .. Len(a2) : a3[k] = a2[k]
        /\ \A k \in 1 .. Len(h) : a3[Len(a2) + k] = h[k]
    BY <2>0, <2>1, JoinedPlaces
  <2>3. Len(a3) = B + I /\ \A k \in 1 .. B : a3[k] = a2[k]
    BY <2>2, <2>4
  <2>5. \A m \in 1 .. I : a3[B + m] = h[m]
    BY <2>2, <2>4
  <2>6. QED
    BY <2>2, <2>3, <2>5
<1> HIDE DEF a3
<1>15. /\ P \in Seq(F) /\ Len(P) = B + I + 1 /\ P[B + I + 1] = z
       /\ \A k \in 1 .. B + I : P[k] = a3[k]
  <2>1. Len(sz) = 1 /\ sz[1] = z
    BY <1>9 DEF sz
  <2>2. a3 \in Seq(F) /\ sz \in Seq(F)
    BY <1>9, <1>14 DEF sz
  <2>7. Len(a3) = B + I
    BY <1>14
  <2>3. /\ P \in Seq(F) /\ Len(P) = Len(a3) + Len(sz)
        /\ \A k \in 1 .. Len(a3) : P[k] = a3[k]
        /\ \A k \in 1 .. Len(sz) : P[Len(a3) + k] = sz[k]
    BY <1>10, <2>2, JoinedPlaces
  <2>4. 1 \in 1 .. Len(sz)
    BY <2>1
  <2>5. P[Len(a3) + 1] = sz[1]
    BY <2>3, <2>4
  <2>6. QED
    BY <2>1, <2>3, <2>5, <2>7
<1>16. P[1] = x
  BY <1>1, <1>11, <1>12, <1>13, <1>14, <1>15
<1>17. \A k \in 1 .. Len(e) : P[1 + k] = e[k]
  <2> SUFFICES ASSUME NEW k \in 1 .. Len(e)
               PROVE  P[1 + k] = e[k]
    OBVIOUS
  <2>1. 1 + k \in 1 .. Len(e) + 1 /\ 1 + k \in 1 .. B /\ 1 + k \in 1 .. B + I
    BY <1>1, <1>8, <1>13
  <2>2. QED
    BY <1>11, <1>12, <1>14, <1>15, <2>1
<1>18. P[B] = y
  <2>1. B \in 1 .. B /\ B \in 1 .. B + I
    BY <1>1, <1>13
  <2>2. QED
    BY <1>12, <1>14, <1>15, <2>1
<1>19. ASSUME NEW p \in 2 .. B
       PROVE  P[p] \in Instructions(i, Ranks)
  <2>1. CASE p = B
    BY <1>7, <1>18, <2>1
  <2>2. CASE p # B
    <3> DEFINE k == p - 1
    <3>1. k \in 1 .. Len(e) /\ 1 + k = p
      BY <1>8, <1>13, <2>2
    <3> HIDE DEF k
    <3>2. P[p] = e[k] /\ e[k] \in Instructions(i, Ranks)
      BY <1>2, <1>17, <3>1
    <3>3. QED
      BY <3>2
  <2>3. QED
    BY <2>1, <2>2
<1>20. ASSUME NEW it \in 0 .. I - 1
       PROVE  P[B + it + 1] = [do |-> "gather", n |-> it, by |-> Ranks]
  <2> DEFINE m == it + 1
  <2>1. m \in 1 .. I /\ B + it + 1 = B + m /\ B + m \in 1 .. B + I /\ m - 1 = it
    BY <1>1, <1>13
  <2> HIDE DEF m
  <2>2. P[B + m] = h[m]
    BY <1>14, <1>15, <2>1
  <2>3. QED
    BY <1>3, <2>1, <2>2
<1>21. ASSUME NEW q \in Ranks \ Tasks(i)
       PROVE  \E b \in 2 .. B : /\ P[b].do = "barrier" /\ q \in P[b].by
                                /\ \A k \in 2 .. b : P[k].do = "record" => q \notin P[k].by
  <2>1. PICK c \in 1 .. Len(e) :
          /\ e[c].do = "barrier" /\ q \in e[c].by
          /\ \A k \in 1 .. c : e[k].do = "record" => q \notin e[k].by
    BY <1>2 DEF Stops
  <2> DEFINE b == 1 + c
  <2>2. b \in 2 .. B /\ P[b] = e[c]
    BY <1>8, <1>13, <1>17
  <2>3. ASSUME NEW k \in 2 .. b, P[k].do = "record"
        PROVE  q \notin P[k].by
    <3> DEFINE m == k - 1
    <3>1. m \in 1 .. c /\ m \in 1 .. Len(e) /\ 1 + m = k
      BY <1>8
    <3> HIDE DEF m
    <3>2. P[k] = e[m]
      BY <1>17, <3>1
    <3>3. QED
      BY <2>1, <2>3, <3>1, <3>2
  <2> HIDE DEF b
  <2>4. QED
    BY <2>1, <2>2, <2>3
<1>22. B \in Nat \ {0} /\ Len(P) >= B + I + 1
  BY <1>1, <1>13, <1>15
<1>23. Layout(P, i, B, I)
  BY <1>15, <1>16, <1>19, <1>20, <1>21, <1>22 DEF Layout, F, x, z
<1>24. Opening(P, e, B)
  BY <1>8, <1>13, <1>17, <1>18 DEF Opening, y
<1>25. QED
  BY <1>15, <1>23, <1>24 DEF P, I, e

LEMMA CodeLayout ==
  ASSUME NEW j \in Jobs
  PROVE  /\ Programs[j] \in Seq(AllInstructions)
         /\ \/ Len(Programs[j]) = 0
            \/ \E i \in 1 .. NTasks, B \in Nat :
                 /\ Layout(Programs[j], i, B, j.iterations)
                 /\ Opening(Programs[j], Iterated(j, i), B)
<1> DEFINE I == j.iterations
           s == [i \in 1 .. NTasks |-> Only(i \in TaskCounts(j), RoundCode(j, i))]
           P == Programs[j]
           C == {i \in 1 .. NTasks : i \in TaskCounts(j)}
           F == AllInstructions
<1>1. P = FlattenSeq(s)
  BY DEF Programs, CodeOf
<1>2. I \in Nat \ {0} /\ NTasks \in Nat
  BY TimingAssumption DEF IsJob
<1>3. ASSUME NEW i \in 1 .. NTasks
      PROVE  /\ s[i] \in Seq(F)
             /\ i \in C => s[i] = RoundCode(j, i)
             /\ i \notin C => Len(s[i]) = 0
  <2>1. PICK B : Layout(RoundCode(j, i), i, B, I)
    BY RoundLayout
  <2>2. RoundCode(j, i) \in Seq(F)
    BY <2>1 DEF Layout
  <2>3. s[i] = Only(i \in TaskCounts(j), RoundCode(j, i))
    OBVIOUS
  <2> HIDE DEF s, F
  <2>4. s[i] \in Seq(F)
    BY <2>2, <2>3, OnlyIn
  <2>5. QED
    BY <2>3, <2>4 DEF Only
<1>4. s \in Seq(Seq(F)) /\ Len(s) = NTasks
  <2>1. s = [i \in 1 .. NTasks |-> s[i]]
    OBVIOUS
  <2> HIDE DEF s, F
  <2>2. QED
    BY <1>2, <1>3, <2>1
<1> HIDE DEF s, P, I, C, F
<1>5. P \in Seq(F)
  BY <1>1, <1>4, FlattenCopies
<1>6. CASE C = {}
  <2>1. \A i \in 1 .. Len(s) : Len(s[i]) = 0
    BY <1>3, <1>4, <1>6
  <2>2. Len(P) = 0
    BY <1>1, <1>4, <2>1, FlattenNothing
  <2>3. QED
    BY <1>5, <2>2 DEF P, F
<1>7. CASE C # {}
  <2>1. C \subseteq 1 .. NTasks
    BY DEF C
  <2>2. C \in SUBSET Nat
    BY <1>2, <2>1
  <2>3. PICK i \in C : \A m \in C : i <= m
    BY <1>7, <2>2, LeastOf
  <2>4. i \in 1 .. NTasks
    BY <2>1
  <2>5. PICK B : /\ Layout(RoundCode(j, i), i, B, I)
                 /\ Opening(RoundCode(j, i), Iterated(j, i), B)
                 /\ Len(RoundCode(j, i)) = B + I + 1
    BY <2>4, RoundLayout DEF I
  <2> DEFINE R == RoundCode(j, i)
             L == B + I + 1
  <2>6. R \in Seq(F) /\ B \in Nat \ {0} /\ Len(R) = L
    BY <2>5 DEF Layout, F
  <2>7. s[i] = R /\ i \in 1 .. Len(s) /\ Len(s[i]) # 0
    BY <1>2, <1>3, <1>4, <2>4, <2>6
  <2>8. \A m \in 1 .. i - 1 : Len(s[m]) = 0
    <3> SUFFICES ASSUME NEW m \in 1 .. i - 1
                 PROVE  Len(s[m]) = 0
      OBVIOUS
    <3>1. m \in 1 .. NTasks /\ m < i /\ m \in Nat /\ i \in Nat
      BY <1>2, <2>4
    <3>2. m \notin C
      BY <2>3, <3>1
    <3>3. QED
      BY <1>3, <3>1, <3>2
  <2> HIDE DEF R, L
  <2>9. /\ Len(P) >= L /\ \A x \in 1 .. L : P[x] = R[x]
        /\ \/ Len(P) = L
           \/ \E b \in i + 1 .. Len(s) : Len(s[b]) # 0 /\ P[L + 1] = s[b][1]
    BY <1>1, <1>4, <2>6, <2>7, <2>8, FlattenFirst
  <2>10. \/ Len(P) = L
         \/ \E n \in i + 1 .. NTasks : P[L + 1] = [do |-> "comm", n |-> n, by |-> Ranks]
    <3> SUFFICES ASSUME NEW b \in i + 1 .. NTasks, Len(s[b]) # 0
                 PROVE  s[b][1] = [do |-> "comm", n |-> b, by |-> Ranks]
      BY <1>4, <2>9
    <3>1. b \in 1 .. NTasks
      BY <1>2, <2>4
    <3>2. s[b] = RoundCode(j, b)
      BY <1>3, <3>1
    <3>3. PICK D : Layout(RoundCode(j, b), b, D, I)
      BY <3>1, RoundLayout DEF I
    <3>4. QED
      BY <3>2, <3>3 DEF Layout
  <2>11. Layout(P, i, B, I)
    <3>1. L = B + I + 1 /\ B + I + 2 = L + 1 /\ B + I \in Nat
      BY <1>2, <2>6 DEF L
    <3>2. \A p \in 2 .. B : p \in 1 .. L
      BY <1>2, <2>6, <3>1
    <3>3. Layout(R, i, B, I)
      BY <2>5 DEF R
    <3>4. P[1] = [do |-> "comm", n |-> i, by |-> Ranks]
      <4>1. 1 \in 1 .. L
        BY <3>1
      <4>2. QED
        BY <2>9, <3>3, <4>1 DEF Layout
    <3>5. \A p \in 2 .. B : P[p] \in Instructions(i, Ranks)
      BY <2>9, <3>2, <3>3 DEF Layout
    <3>6. ASSUME NEW it \in 0 .. I - 1
          PROVE  P[B + it + 1] = [do |-> "gather", n |-> it, by |-> Ranks]
      <4>1. B + it + 1 \in 1 .. L
        BY <1>2, <2>6, <3>1
      <4>2. R[B + it + 1] = [do |-> "gather", n |-> it, by |-> Ranks]
        BY <3>3 DEF Layout
      <4>3. QED
        BY <2>9, <4>1, <4>2
    <3>7. P[L] = [do |-> "summarize", n |-> 0, by |-> {0}]
      <4>1. L \in 1 .. L
        BY <3>1
      <4>2. R[L] = [do |-> "summarize", n |-> 0, by |-> {0}]
        BY <3>1, <3>3 DEF Layout
      <4>3. QED
        BY <2>9, <4>1, <4>2
    <3>8. ASSUME NEW q \in Ranks \ Tasks(i)
          PROVE  \E b \in 2 .. B :
                   /\ P[b].do = "barrier" /\ q \in P[b].by
                   /\ \A k \in 2 .. b : P[k].do = "record" => q \notin P[k].by
      <4>1. PICK b \in 2 .. B :
              /\ R[b].do = "barrier" /\ q \in R[b].by
              /\ \A k \in 2 .. b : R[k].do = "record" => q \notin R[k].by
        BY <3>3 DEF Layout
      <4>2. \A k \in 2 .. b : k \in 2 .. B
        BY <2>6
      <4>3. \A k \in 2 .. b : P[k] = R[k]
        BY <2>9, <3>2, <4>2
      <4>4. P[b] = R[b]
        BY <2>9, <3>2
      <4>5. QED
        BY <4>1, <4>3, <4>4
    <3>9. QED
      BY <1>5, <2>6, <2>9, <2>10, <3>1, <3>4, <3>5, <3>6, <3>7, <3>8 DEF Layout, F
  <2>12. B \in Nat /\ i \in 1 .. NTasks
    BY <2>4, <2>6
  <2>13. Opening(P, Iterated(j, i), B)
    <3> DEFINE e == Iterated(j, i)
    <3>1. Opening(R, e, B)
      BY <2>5 DEF R
    <3> HIDE DEF e
    <3>2. /\ Len(e) \in Nat /\ B = Len(e) + 2 /\ B \in 1 .. L
          /\ \A x \in 1 .. Len(e) : 1 + x \in 1 .. L
      BY <1>2, <3>1 DEF Opening, L
    <3>3. QED
      BY <2>9, <3>1, <3>2 DEF Opening, e
  <2>14. QED
    BY <1>5, <2>11, <2>12, <2>13 DEF P, I, F
<1>8. QED
  BY <1>6, <1>7

-----------------------------------------------------------------------------
(* Where the ranks are *)

Types ==
  /\ job \in Jobs
  /\ pos \in [Ranks -> Nat \ {0}]
  /\ waiting \in [Ranks -> BOOLEAN]
  /\ t \in [Ranks -> [Stamps -> Int]]
  /\ clock \in Int

\* A rank that is inside a collective call is at that call in its code.
AtTheCall ==
  \A r \in Ranks : waiting[r] =>
    /\ ~Finished(r) /\ r \in Current(r).by
    /\ Current(r).do \in {"barrier", "comm"}

TInv == Types /\ AtTheCall

LEMMA InitTInv == Init => TInv
  BY DEF Init, TInv, Types, AtTheCall

\* Only the rank itself leaves its place in the code, and it is not in a call then.
LEMMA GoKeepsCalls ==
  ASSUME TInv, NEW r \in Ranks, Go(r), ~waiting[r]
  PROVE  AtTheCall' /\ job' \in Jobs /\ pos' \in [Ranks -> Nat \ {0}]
         /\ waiting' \in [Ranks -> BOOLEAN] /\ clock' \in Int
<1>1. pos' = [pos EXCEPT ![r] = @ + 1] /\ UNCHANGED <<job, waiting, clock>>
  BY DEF Go
<1>2. job \in Jobs /\ pos \in [Ranks -> Nat \ {0}]
      /\ waiting \in [Ranks -> BOOLEAN] /\ clock \in Int
  BY DEF TInv, Types
<1>3. pos' \in [Ranks -> Nat \ {0}] /\ \A q \in Ranks : q # r => pos'[q] = pos[q]
  BY <1>1, <1>2
<1>4. ASSUME NEW q \in Ranks, waiting'[q]
      PROVE  /\ ~Finished(q)' /\ q \in Current(q).by'
             /\ Current(q).do' \in {"barrier", "comm"}
  <2>1. q # r /\ waiting[q] /\ pos'[q] = pos[q] /\ job' = job
    BY <1>1, <1>3, <1>4
  <2>2. /\ ~Finished(q) /\ q \in Current(q).by
        /\ Current(q).do \in {"barrier", "comm"}
    BY <2>1 DEF TInv, AtTheCall
  <2>3. QED
    BY <2>1, <2>2 DEF Finished, Current, Code
<1>5. QED
  BY <1>1, <1>2, <1>3, <1>4 DEF AtTheCall

\* offset_timers is called for the stamps of the phases only.
LEMMA OffsetInRange ==
  ASSUME job \in Jobs, pos \in [Ranks -> Nat \ {0}], NEW r \in Ranks, At(r, "offset")
  PROVE  Current(r).n \in 0 .. 4
<1>1. Code \in Seq(AllInstructions)
  BY CodeLayout DEF Code
<1>2. pos[r] \in Nat \ {0} /\ ~(pos[r] > Len(Code)) /\ Current(r).do = "offset"
  BY DEF At, Finished
<1>3. pos[r] \in 1 .. Len(Code)
  BY <1>1, <1>2
<1>4. Current(r) \in AllInstructions
  BY <1>1, <1>3 DEF Current
<1>5. QED
  BY <1>2, <1>4 DEF AllInstructions, Instructions, Outside

LEMMA NotInACall ==
  ASSUME TInv, NEW r \in Ranks, NEW do, do \notin {"barrier", "comm"}, At(r, do)
  PROVE  ~waiting[r]
  BY DEF TInv, AtTheCall, At

LEMMA NextTInv == TInv /\ [Next]_vars => TInv'
<1> SUFFICES ASSUME TInv, [Next]_vars
             PROVE  TInv'
  OBVIOUS
<1>0. /\ job \in Jobs /\ pos \in [Ranks -> Nat \ {0}] /\ waiting \in [Ranks -> BOOLEAN]
      /\ t \in [Ranks -> [Stamps -> Int]] /\ clock \in Int
  BY DEF TInv, Types
<1>1. ASSUME NEW r \in Ranks, Go(r), ~waiting[r],
             t' \in [Ranks -> [Stamps -> Int]]
      PROVE  TInv'
  BY <1>1, GoKeepsCalls DEF TInv, Types
<1>2. ASSUME NEW r \in Ranks, Skip(r)
      PROVE  TInv'
  <2>1. Go(r) /\ t' = t
    BY <1>2 DEF Skip, Alone, times
  <2>2. ~waiting[r]
    BY <1>2 DEF Skip, TInv, AtTheCall
  <2>3. QED
    BY <1>0, <1>1, <2>1, <2>2
<1>3. ASSUME NEW r \in Ranks, TakeStamp(r)
      PROVE  TInv'
  <2>1. Go(r) /\ At(r, "stamp") /\ t' = [t EXCEPT ![r][Current(r).n] = clock]
    BY <1>3 DEF TakeStamp, Alone
  <2>2. ~waiting[r]
    BY <2>1, NotInACall
  <2>3. t' \in [Ranks -> [Stamps -> Int]]
    BY <1>0, <2>1
  <2>4. QED
    BY <1>1, <2>1, <2>2, <2>3
<1>4. ASSUME NEW r \in Ranks, OffsetTimers(r)
      PROVE  TInv'
  <2> DEFINE k == Current(r).n
             off == clock - t[r][k]
             row == [s \in Stamps |-> IF s <= k THEN t[r][s] + off ELSE t[r][s]]
  <2>1. Go(r) /\ At(r, "offset") /\ t' = [t EXCEPT ![r] = row]
    BY <1>4 DEF OffsetTimers, Alone
  <2>2. ~waiting[r]
    BY <2>1, NotInACall
  <2>3. t' \in [Ranks -> [Stamps -> Int]]
    <3>1. k \in 0 .. 4
      BY <1>0, <2>1, OffsetInRange
    <3>2. off \in Int
      BY <1>0, <3>1 DEF Stamps
    <3>3. row \in [Stamps -> Int]
      <4> HIDE DEF off, k
      <4>1. QED
        BY <1>0, <3>1, <3>2 DEF Stamps
    <3> HIDE DEF row
    <3>4. QED
      BY <1>0, <2>1, <3>3
  <2>4. QED
    BY <1>1, <2>1, <2>2, <2>3
<1>5. ASSUME NEW r \in Ranks, NEW do \in {"begin", "end", "record", "gather", "summarize"},
             At(r, do), Go(r), t' = t
      PROVE  TInv'
  <2>1. ~waiting[r]
    BY <1>5, NotInACall
  <2>2. QED
    BY <1>0, <1>1, <1>5, <2>1
<1>6. ASSUME NEW r \in Ranks, Arrive(r)
      PROVE  TInv'
  <2>1. (At(r, "barrier") \/ At(r, "comm")) /\ UNCHANGED <<job, pos, t, clock>>
    BY <1>6 DEF Arrive, Abort, times
  <2>2. waiting' = waiting \/ waiting' = [waiting EXCEPT ![r] = TRUE]
    BY <1>6 DEF Arrive, Abort
  <2>3. waiting' \in [Ranks -> BOOLEAN] /\ \A q \in Ranks : q # r => waiting'[q] = waiting[q]
    BY <1>0, <2>2
  <2>4. /\ ~Finished(r) /\ r \in Current(r).by /\ Current(r).do \in {"barrier", "comm"}
    BY <2>1 DEF At
  <2>5. \A q \in Ranks : /\ Finished(q)' = Finished(q)
                         /\ Current(q).by' = Current(q).by /\ Current(q).do' = Current(q).do
    BY <2>1 DEF Finished, Current, Code
  <2>6. AtTheCall'
    BY <2>3, <2>4, <2>5 DEF TInv, AtTheCall
  <2>7. QED
    BY <1>0, <2>1, <2>3, <2>6 DEF TInv, Types
<1>7. ASSUME NEW r \in Ranks, Leave(r)
      PROVE  TInv'
  <2>1. /\ waiting' = [waiting EXCEPT ![r] = FALSE] /\ pos' = [pos EXCEPT ![r] = @ + 1]
        /\ UNCHANGED <<job, t, clock>>
    BY <1>7 DEF Leave, times
  <2>2. /\ waiting' \in [Ranks -> BOOLEAN] /\ ~waiting'[r]
        /\ pos' \in [Ranks -> Nat \ {0}]
        /\ \A q \in Ranks : q # r => waiting'[q] = waiting[q] /\ pos'[q] = pos[q]
    BY <1>0, <2>1
  <2>3. ASSUME NEW q \in Ranks, q # r
        PROVE  /\ Finished(q)' = Finished(q) /\ Current(q).by' = Current(q).by
               /\ Current(q).do' = Current(q).do
    BY <2>1, <2>2, <2>3 DEF Finished, Current, Code
  <2>4. AtTheCall'
    BY <2>2, <2>3 DEF TInv, AtTheCall
  <2>5. QED
    BY <1>0, <2>1, <2>2, <2>4 DEF TInv, Types
<1>8. ASSUME UNCHANGED <<job, pos, waiting, t>>, clock' \in Int
      PROVE  TInv'
  <2>1. AtTheCall'
    BY <1>8 DEF TInv, AtTheCall, Finished, Current, Code
  <2>2. QED
    BY <1>0, <1>8, <2>1 DEF TInv, Types
<1>9. CASE Tick
  <2>1. UNCHANGED <<job, pos, waiting, t>> /\ clock' = clock + 1
    BY <1>9 DEF Tick, control, times
  <2>2. QED
    BY <1>0, <1>8, <2>1
<1>10. CASE UNCHANGED vars
  BY <1>0, <1>8, <1>10 DEF vars, control, times
<1>11. ASSUME NEW r \in Ranks, RankStep(r)
       PROVE  TInv'
  <2>1. CASE Begin(r) \/ End(r) \/ Record(r) \/ Summarize(r)
    BY <1>5, <2>1 DEF Begin, End, Record, Summarize, Alone
  <2>2. CASE Gather(r)
    BY <1>5, <2>2 DEF Gather
  <2>3. QED
    BY <1>2, <1>3, <1>4, <1>6, <1>7, <1>11, <2>1, <2>2 DEF RankStep
<1>12. QED
  BY <1>9, <1>10, <1>11 DEF Next

LEMMA TInvAlways == Spec => []TInv
  BY InitTInv, NextTInv, PTL DEF Spec

-----------------------------------------------------------------------------
(* What a shift leaves as it was *)

LEMMA ShiftKeepsDurations ==
  ASSUME TInv, NEW r \in Ranks, OffsetTimers(r), NEW k \in 1 .. Current(r).n
  PROVE  t'[r][k] - t'[r][k - 1] = t[r][k] - t[r][k - 1]
<1> DEFINE n == Current(r).n
           off == clock - t[r][n]
           row == [s \in Stamps |-> IF s <= n THEN t[r][s] + off ELSE t[r][s]]
<1>1. At(r, "offset") /\ t' = [t EXCEPT ![r] = row]
  BY DEF OffsetTimers
<1>2. n \in 0 .. 4
  BY <1>1, OffsetInRange DEF TInv, Types
<1>3. t \in [Ranks -> [Stamps -> Int]] /\ clock \in Int
  BY DEF TInv, Types
<1>4. off \in Int
  BY <1>2, <1>3 DEF Stamps
<1>5. t'[r] = row
  <2> HIDE DEF row
  <2>1. QED
    BY <1>1, <1>3
<1> HIDE DEF off, n
<1>6. k \in 1 .. n
  BY DEF n
<1>7. k \in Stamps /\ k - 1 \in Stamps /\ k <= n /\ k - 1 <= n
  BY <1>2, <1>6 DEF Stamps
<1>8. row[k] = t[r][k] + off /\ row[k - 1] = t[r][k - 1] + off
  BY <1>7
<1>9. t[r][k] \in Int /\ t[r][k - 1] \in Int
  BY <1>3, <1>7
<1> HIDE DEF row
<1>10. QED
  BY <1>4, <1>5, <1>8, <1>9

\* A rank at an offset_timers call goes on by that call, and by nothing else.
LEMMA OnlyTheShift ==
  ASSUME TInv, NEW r \in Ranks, At(r, "offset"), Next, pos'[r] # pos[r]
  PROVE  OffsetTimers(r)
<1>1. pos \in [Ranks -> Nat \ {0}] /\ waiting \in [Ranks -> BOOLEAN]
  BY DEF TInv, Types
<1>2. ~waiting[r]
  BY NotInACall
<1>3. PICK q \in Ranks : RankStep(q)
  BY DEF Next, Tick, control
<1>4. q = r
  <2> SUFFICES ASSUME q # r
               PROVE  pos'[r] = pos[r]
    OBVIOUS
  <2>1. pos' = pos \/ pos' = [pos EXCEPT ![q] = @ + 1]
    BY <1>3 DEF RankStep, Skip, TakeStamp, OffsetTimers, Begin, End, Record, Arrive, Abort,
                Leave, Gather, Summarize, Alone, Go
  <2>2. QED
    BY <1>1, <2>1
<1>5. QED
  BY <1>2, <1>3, <1>4 DEF RankStep, Skip, TakeStamp, Begin, End, Record, Arrive, Leave,
                          Gather, Summarize, At

\* However the clock moves and however the ranks are interleaved: offset_timers changes
\* no duration of a phase that the rank has finished, so that the time of a directory
\* per task is left out of one phase only.
THEOREM ShiftsKeepDurations == Spec => DurationsStand
<1> DEFINE A == \A r \in Ranks : At(r, "offset") /\ pos'[r] # pos[r] =>
                  \A k \in 1 .. Current(r).n :
                    t'[r][k] - t'[r][k - 1] = t[r][k] - t[r][k - 1]
<1>1. TInv /\ [Next]_vars => [A]_vars
  <2> SUFFICES ASSUME TInv, Next
               PROVE  A
    OBVIOUS
  <2>1. QED
    BY OnlyTheShift, ShiftKeepsDurations
<1> HIDE DEF A
<1>2. Spec => [][A]_vars
  BY TInvAlways, <1>1, PTL DEF Spec
<1>3. QED
  BY <1>2 DEF A, DurationsStand

-----------------------------------------------------------------------------
(* The first round, instruction by instruction *)

Cells == [Ranks -> [Iterations -> [Tests -> Int]]]

Amounts ==
  /\ calls \in [Ranks -> Nat]
  /\ comm \in [Ranks -> SUBSET Ranks]
  /\ table \in Cells

\* The communicators: everybody until the first instruction, then the tasks.  The ranks
\* outside get past no barrier, and nobody gets into a second round.
Members(i, B) ==
  \A r \in Ranks :
    /\ comm[r] = IF pos[r] = 1 THEN Ranks ELSE IF r \in Tasks(i) THEN Tasks(i) ELSE {}
    /\ pos[r] <= B + job.iterations + 2
    /\ waiting[r] => pos[r] <= B
    /\ waiting[r] /\ pos[r] # 1 => r \in Tasks(i)
    /\ r \notin Tasks(i) =>
         /\ \A p \in 2 .. pos[r] - 1 : ~(Code[p].do = "barrier" /\ r \in Code[p].by)
         /\ table[r] = [it \in Iterations |-> [test \in Tests |-> 0]]

\* The collective calls before place p.
Passed(p) == {k \in 1 .. p - 1 : Code[k].do \in Collective}

CallsCounted(i) ==
  \A r \in Tasks(i) :
    calls[r] = Cardinality(Passed(pos[r])) + (IF waiting[r] THEN 1 ELSE 0)

\* What rank 0 has gathered is what has been sent, by all the tasks when rank 0 has it; in
\* the rows that have not been sent there are numbers, and no more is known of them.
Gathered(i, B) ==
  /\ DOMAIN all = Array(job)
  /\ \A it \in Iterations, r \in Ranks, test \in Tests :
       LET place == calc_allreduce_index(it, r, test)
       IN  /\ all[place] \in Int
           /\ pos[r] > B + it + 1 => all[place] = table[r][it][test]
  /\ \A it \in Iterations :
       pos[0] > B + it + 1 => \A r \in Tasks(i) : pos[r] > B + it + 1

Reporting(B) ==
  \A test \in DOMAIN summary :
    /\ pos[0] > B + job.iterations + 1
    /\ test < TreeCreation => test \in Tests /\ summary[test] = TestLine(test)

InRound(i, B) ==
  /\ Layout(Code, i, B, job.iterations)
  /\ Amounts /\ Members(i, B) /\ CallsCounted(i) /\ Gathered(i, B) /\ Reporting(B)

SInv ==
  /\ TInv
  /\ \/ Len(Code) = 0 /\ DOMAIN summary = {}
     \/ \E i \in 1 .. NTasks, B \in Nat : InRound(i, B)

LEMMA WhatIsWhere ==
  ASSUME NEW P, NEW i \in 1 .. NTasks, NEW B \in Nat, NEW I \in Nat \ {0}, Layout(P, i, B, I),
         NEW p \in 1 .. B + I + 2, p <= Len(P)
  PROVE  /\ B # 0 /\ P[p].do \in Inside \cup Outside
         /\ P[p].do = "comm" => P[p].by = Ranks /\ P[p].n \in Nat /\ p \in {1, B + I + 2}
         /\ p = 1 => P[p].do = "comm" /\ P[p].n = i
         /\ p = B + I + 2 => P[p].do = "comm" /\ P[p].n > i
         /\ P[p].do \in {"barrier", "record"} => p \in 2 .. B
         /\ P[p].do = "gather" =>
              /\ P[p].by = Ranks /\ P[p].n \in 0 .. I - 1 /\ p = B + P[p].n + 1
         /\ p \in B + 1 .. B + I => P[p].do = "gather"
         /\ P[p].do = "summarize" => p = B + I + 1 /\ P[p].by = {0}
         /\ P[p].do \in Collective => Tasks(i) \subseteq P[p].by
         /\ P[p].do = "record" =>
              P[p].n \in Nat \X {DirTest, FileTest, TreeCreation, TreeRemoval}
<1>1. i \in Nat /\ Tasks(i) \subseteq Ranks /\ B # 0 /\ B \in Nat /\ NTasks \in Nat
  BY TasksAreRanks, TimingAssumption DEF Layout
<1>2. CASE p = 1
  <2>1. P[p] = [do |-> "comm", n |-> i, by |-> Ranks]
    BY <1>2 DEF Layout
  <2>2. QED
    BY <1>1, <1>2, <2>1 DEF Inside, Outside, Collective
<1>3. CASE p \in 2 .. B
  <2>1. P[p] \in Instructions(i, Ranks)
    BY <1>3 DEF Layout
  <2>2. /\ P[p].do \in Inside
        /\ P[p].do = "barrier" => Tasks(i) \subseteq P[p].by
        /\ P[p].do = "record" =>
             P[p].n \in Nat \X {DirTest, FileTest, TreeCreation, TreeRemoval}
    BY <2>1 DEF Instructions, Tasks
  <2>3. /\ P[p].do \notin {"comm", "gather", "summarize"}
        /\ P[p].do \in Collective => P[p].do = "barrier"
    BY <2>2 DEF Inside, Collective
  <2>4. p # 1 /\ p # B + I + 2 /\ p \notin B + 1 .. B + I /\ p # B + I + 1
    BY <1>1, <1>3
  <2>5. QED
    BY <1>1, <1>3, <2>2, <2>3, <2>4
<1>4. CASE p \in B + 1 .. B + I
  <2> DEFINE it == p - B - 1
  <2>1. it \in 0 .. I - 1 /\ p = B + it + 1
    BY <1>4
  <2> HIDE DEF it
  <2>2. P[p] = [do |-> "gather", n |-> it, by |-> Ranks]
    BY <2>1 DEF Layout
  <2>3. p # 1 /\ p # B + I + 2 /\ p # B + I + 1
    BY <1>1, <1>4
  <2>4. QED
    BY <1>1, <2>1, <2>2, <2>3 DEF Inside, Outside, Collective
<1>5. CASE p = B + I + 1
  <2>1. P[p] = [do |-> "summarize", n |-> 0, by |-> {0}]
    BY <1>5 DEF Layout
  <2>2. p # 1 /\ p # B + I + 2 /\ p \notin B + 1 .. B + I
    BY <1>1, <1>5
  <2>3. QED
    BY <1>1, <1>5, <2>1, <2>2 DEF Inside, Outside, Collective
<1>6. CASE p = B + I + 2
  <2>1. Len(P) # B + I + 1
    BY <1>6
  <2>2. PICK n \in i + 1 .. NTasks : P[p] = [do |-> "comm", n |-> n, by |-> Ranks]
    BY <1>6, <2>1 DEF Layout
  <2>3. p # 1 /\ p \notin B + 1 .. B + I /\ p # B + I + 1 /\ n \in Nat /\ n > i
    BY <1>1, <1>6
  <2>4. QED
    BY <1>1, <1>6, <2>2, <2>3 DEF Inside, Outside, Collective
<1>7. QED
  BY <1>1, <1>2, <1>3, <1>4, <1>5, <1>6

-----------------------------------------------------------------------------
(* The steps of a round *)

\* What a rank does that is not collective and fills in nothing.
Quiet(r) ==
  /\ ~waiting[r] /\ ~Finished(r)
  /\ r \notin Current(r).by \/ Current(r).do \in {"stamp", "offset", "begin", "end"}
  /\ Go(r)
  /\ UNCHANGED <<calls, table, all, summary>>

LEMMA KindsOfSteps ==
  ASSUME TInv, NEW r \in Ranks, RankStep(r)
  PROVE  Quiet(r) \/ Record(r) \/ Arrive(r) \/ Leave(r) \/ Gather(r) \/ Summarize(r)
<1>1. CASE Skip(r)
  <2>1. ~waiting[r]
    BY <1>1 DEF Skip, TInv, AtTheCall
  <2>2. QED
    BY <1>1, <2>1 DEF Skip, Quiet, Alone, times
<1>2. CASE TakeStamp(r)
  <2>1. ~waiting[r]
    BY <1>2, NotInACall DEF TakeStamp
  <2>2. QED
    BY <1>2, <2>1 DEF TakeStamp, Quiet, Alone, At
<1>3. CASE OffsetTimers(r)
  <2>1. ~waiting[r]
    BY <1>3, NotInACall DEF OffsetTimers
  <2>2. QED
    BY <1>3, <2>1 DEF OffsetTimers, Quiet, Alone, At
<1>4. CASE Begin(r)
  <2>1. ~waiting[r]
    BY <1>4, NotInACall DEF Begin
  <2>2. QED
    BY <1>4, <2>1 DEF Begin, Quiet, Alone, At
<1>5. CASE End(r)
  <2>1. ~waiting[r]
    BY <1>5, NotInACall DEF End
  <2>2. QED
    BY <1>5, <2>1 DEF End, Quiet, Alone, At
<1>6. QED
  BY <1>1, <1>2, <1>3, <1>4, <1>5 DEF RankStep

\* Where a rank is, in a round.
LEMMA Here ==
  ASSUME TInv, NEW i \in 1 .. NTasks, NEW B \in Nat, InRound(i, B), NEW r \in Ranks,
         ~Finished(r)
  PROVE  LET I == job.iterations
             p == pos[r]
         IN  /\ I \in Nat \ {0} /\ Layout(Code, i, B, I)
             /\ p \in 1 .. B + I + 2 /\ p \in Nat /\ p <= Len(Code) /\ Current(r) = Code[p]
<1>1. job.iterations \in Nat \ {0} /\ pos[r] \in Nat \ {0}
  BY TimingAssumption DEF IsJob, TInv, Types
<1>2. Layout(Code, i, B, job.iterations) /\ pos[r] <= B + job.iterations + 2
  BY DEF InRound, Members
<1>3. Len(Code) \in Nat
  BY <1>2 DEF Layout
<1>4. QED
  BY <1>1, <1>2, <1>3 DEF Finished, Current

LEMMA WhereNow ==
  ASSUME TInv, NEW i \in 1 .. NTasks, NEW B \in Nat, InRound(i, B), NEW r \in Ranks,
         ~Finished(r)
  PROVE  LET I == job.iterations
             p == pos[r]
             x == Current(r)
         IN  /\ x.do = "comm" => x.by = Ranks /\ x.n \in Nat /\ p \in {1, B + I + 2}
             /\ p = 1 => x.do = "comm" /\ x.n = i
             /\ p = B + I + 2 => x.do = "comm" /\ x.n > i
             /\ x.do \in {"barrier", "record"} => p \in 2 .. B
             /\ x.do = "gather" =>
                  /\ x.by = Ranks /\ x.n \in 0 .. I - 1 /\ p = B + x.n + 1
             /\ p \in B + 1 .. B + I => x.do = "gather"
             /\ x.do = "summarize" => p = B + I + 1 /\ x.by = {0}
             /\ x.do \in Collective => Tasks(i) \subseteq x.by
             /\ x.do = "record" =>
                  x.n \in Nat \X {DirTest, FileTest, TreeCreation, TreeRemoval}
<1> DEFINE I == job.iterations
           p == pos[r]
           P == Code
<1>1. /\ I \in Nat \ {0} /\ Layout(P, i, B, I)
      /\ p \in 1 .. B + I + 2 /\ p <= Len(P)
  BY Here
<1>2. Current(r) = P[p]
  BY Here
<1> HIDE DEF I, p, P
<1>3. /\ P[p].do = "comm" => P[p].by = Ranks /\ P[p].n \in Nat /\ p \in {1, B + I + 2}
      /\ p = 1 => P[p].do = "comm" /\ P[p].n = i
      /\ p = B + I + 2 => P[p].do = "comm" /\ P[p].n > i
      /\ P[p].do \in {"barrier", "record"} => p \in 2 .. B
      /\ P[p].do = "gather" =>
           /\ P[p].by = Ranks /\ P[p].n \in 0 .. I - 1 /\ p = B + P[p].n + 1
      /\ p \in B + 1 .. B + I => P[p].do = "gather"
      /\ P[p].do = "summarize" => p = B + I + 1 /\ P[p].by = {0}
      /\ P[p].do \in Collective => Tasks(i) \subseteq P[p].by
      /\ P[p].do = "record" =>
           P[p].n \in Nat \X {DirTest, FileTest, TreeCreation, TreeRemoval}
  BY SMTT(30), <1>1, WhatIsWhere
<1>4. QED
  BY ZenonT(30), <1>2, <1>3 DEF I, p

\* A rank outside the tasks fills in, sends and reports nothing.
LEMMA OutsidersIdle ==
  ASSUME TInv, NEW i \in 1 .. NTasks, NEW B \in Nat, InRound(i, B), NEW r \in Ranks \ Tasks(i),
         ~Finished(r), r \in Current(r).by
  PROVE  Current(r).do \notin {"record", "gather", "summarize"}
<1> DEFINE I == job.iterations
           p == pos[r]
<1>1. /\ I \in Nat \ {0} /\ Layout(Code, i, B, I)
      /\ p \in 1 .. B + I + 2 /\ p \in Nat /\ p <= Len(Code) /\ Current(r) = Code[p]
  BY Here
<1> HIDE DEF I, p
<1>2. PICK b \in 2 .. B : /\ Code[b].do = "barrier" /\ r \in Code[b].by
                          /\ \A k \in 2 .. b : Code[k].do = "record" => r \notin Code[k].by
  BY <1>1 DEF Layout
<1>3. ~(b \in 2 .. p - 1)
  <2>1. \A k \in 2 .. p - 1 : ~(Code[k].do = "barrier" /\ r \in Code[k].by)
    BY DEF InRound, Members, p
  <2>2. QED
    BY <1>2, <2>1
<1>4. p <= b
  BY <1>1, <1>3
<1>5. Current(r).do # "record"
  <2>1. Code[p].do \in {"barrier", "record"} => p \in 2 .. B
    BY <1>1, WhatIsWhere
  <2>2. p \in 2 .. B => p \in 2 .. b
    BY <1>1, <1>4
  <2>3. QED
    BY <1>1, <1>2, <2>1, <2>2
<1>6. Current(r).do # "gather"
  <2>1. Current(r).do = "gather" => Current(r).n \in 0 .. I - 1 /\ p = B + Current(r).n + 1
    BY <1>1, WhatIsWhere
  <2>2. QED
    BY <1>1, <1>4, <2>1
<1>7. Current(r).do # "summarize"
  <2>1. 0 \in Tasks(i)
    BY TasksAreRanks
  <2>2. Current(r).do = "summarize" => Current(r).by = {0}
    BY <1>1, WhatIsWhere
  <2>3. QED
    BY <2>1, <2>2
<1>8. QED
  BY <1>5, <1>6, <1>7

\* One rank goes one instruction further.
LEMMA OneFurther ==
  ASSUME TInv, NEW r \in Ranks, pos' = [pos EXCEPT ![r] = @ + 1]
  PROVE  /\ pos[r] \in Nat \ {0} /\ pos'[r] = pos[r] + 1
         /\ \A q \in Ranks : /\ q # r => pos'[q] = pos[q]
                             /\ pos[q] \in Nat \ {0} /\ pos'[q] \in Nat \ {0}
                             /\ pos[q] <= pos'[q]
<1>1. pos \in [Ranks -> Nat \ {0}]
  BY DEF TInv, Types
<1>2. pos'[r] = pos[r] + 1 /\ \A q \in Ranks : q # r => pos'[q] = pos[q]
  BY <1>1
<1>3. \A q \in Ranks : pos[q] \in Nat \ {0}
  BY <1>1
<1>4. QED
  BY <1>2, <1>3

LEMMA MembersMove ==
  ASSUME TInv, NEW i \in 1 .. NTasks, NEW B \in Nat, InRound(i, B), NEW r \in Ranks,
         ~Finished(r), pos[r] # B + job.iterations + 2,
         pos[r] = 1 \/ r \in Tasks(i) \/ ~(Current(r).do = "barrier" /\ r \in Current(r).by),
         job' = job, pos' = [pos EXCEPT ![r] = @ + 1],
         ~waiting'[r], \A q \in Ranks : q # r => waiting'[q] = waiting[q],
         comm'[r] = (IF r \in Tasks(i) THEN Tasks(i) ELSE {}),
         \A q \in Ranks : q # r => comm'[q] = comm[q],
         \A q \in Ranks \ Tasks(i) : table'[q] = table[q]
  PROVE  Members(i, B)'
<1> DEFINE I == job.iterations
           L == B + I + 2
           zero == [it \in Iterations |-> [test \in Tests |-> 0]]
           barred(q, p) == Code[p].do = "barrier" /\ q \in Code[p].by
<1>1. /\ I \in Nat \ {0} /\ pos[r] \in 1 .. L /\ Current(r) = Code[pos[r]]
  BY Here
<1>2. /\ pos[r] \in Nat \ {0} /\ pos'[r] = pos[r] + 1
      /\ \A q \in Ranks : q # r => pos'[q] = pos[q]
  BY ZenonT(30), OneFurther
<1>3. Code' = Code /\ I' = I /\ zero' = zero
  BY DEF Code, Iterations
<1>4. \A q \in Ranks :
        /\ comm[q] = IF pos[q] = 1 THEN Ranks ELSE IF q \in Tasks(i) THEN Tasks(i) ELSE {}
        /\ pos[q] <= L
        /\ waiting[q] => pos[q] <= B
        /\ waiting[q] /\ pos[q] # 1 => q \in Tasks(i)
        /\ q \notin Tasks(i) => /\ \A p \in 2 .. pos[q] - 1 : ~barred(q, p)
                                /\ table[q] = zero
  BY DEF InRound, Members
<1> HIDE DEF I, zero
<1>5. ASSUME NEW q \in Ranks
      PROVE  /\ comm'[q] = IF pos'[q] = 1 THEN Ranks ELSE IF q \in Tasks(i) THEN Tasks(i) ELSE {}
             /\ pos'[q] <= L
             /\ waiting'[q] => pos'[q] <= B
             /\ waiting'[q] /\ pos'[q] # 1 => q \in Tasks(i)
             /\ q \notin Tasks(i) => /\ \A p \in 2 .. pos'[q] - 1 : ~barred(q, p)
                                     /\ table'[q] = zero
  <2>1. CASE q # r
    BY <1>2, <1>4, <2>1
  <2>2. CASE q = r
    <3>1. pos'[r] # 1 /\ pos'[r] <= L
      BY <1>1, <1>2 DEF I
    <3>2. r \notin Tasks(i) => table'[r] = zero
      BY <1>4
    <3>3. ASSUME r \notin Tasks(i), NEW p \in 2 .. pos'[r] - 1
          PROVE  ~barred(r, p)
      <4>1. p \in 2 .. pos[r] - 1 \/ (p = pos[r] /\ pos[r] # 1)
        BY <1>2
      <4>2. QED
        BY <1>1, <1>4, <3>3, <4>1
    <3>4. QED
      BY <2>2, <3>1, <3>2, <3>3
  <2>3. QED
    BY <2>1, <2>2
<1>6. QED
  BY <1>3, <1>5 DEF Members, I, zero

\* Counting the collective calls on the way.
LEMMA PassedFinite ==
  ASSUME NEW p \in Nat
  PROVE  IsFiniteSet(Passed(p)) /\ Cardinality(Passed(p)) \in Nat
<1>1. IsFiniteSet(1 .. p - 1) /\ Passed(p) \subseteq 1 .. p - 1
  BY FS_Interval DEF Passed
<1>2. QED
  BY <1>1, FS_Subset, FS_CardinalityType

LEMMA PassedOne ==
  ASSUME NEW p \in Nat \ {0}
  PROVE  Cardinality(Passed(p + 1)) =
           Cardinality(Passed(p)) + (IF Code[p].do \in Collective THEN 1 ELSE 0)
<1>1. IsFiniteSet(Passed(p)) /\ Cardinality(Passed(p)) \in Nat
  BY PassedFinite
<1>2. CASE Code[p].do \in Collective
  <2>1. Passed(p + 1) = Passed(p) \cup {p} /\ p \notin Passed(p)
    BY <1>2 DEF Passed
  <2>2. Cardinality(Passed(p) \cup {p}) = Cardinality(Passed(p)) + 1
    BY <1>1, <2>1, FS_AddElement
  <2>3. QED
    BY <1>2, <2>1, <2>2
<1>3. CASE Code[p].do \notin Collective
  <2>1. Passed(p + 1) = Passed(p)
    BY <1>3 DEF Passed
  <2>2. QED
    BY <1>1, <1>3, <2>1
<1>4. QED
  BY <1>2, <1>3

LEMMA PassedMore ==
  ASSUME NEW p \in Nat, NEW q \in Nat, p <= q
  PROVE  Cardinality(Passed(p)) <= Cardinality(Passed(q))
<1>1. Passed(p) \subseteq Passed(q)
  BY DEF Passed
<1>2. QED
  BY <1>1, PassedFinite, FS_Subset

\* One rank goes on: a collective call has been counted when it was made, or is made now.
LEMMA CallsMove ==
  ASSUME TInv, NEW i \in 1 .. NTasks, NEW B \in Nat, InRound(i, B), NEW r \in Ranks,
         ~Finished(r), job' = job, pos' = [pos EXCEPT ![r] = @ + 1],
         ~waiting'[r], \A q \in Ranks : q # r => waiting'[q] = waiting[q] /\ calls'[q] = calls[q],
         r \in Tasks(i) =>
           calls'[r] + (IF waiting[r] THEN 1 ELSE 0) =
             calls[r] + (IF Current(r).do \in Collective THEN 1 ELSE 0),
         calls' \in [Ranks -> Nat]
  PROVE  CallsCounted(i)'
<1>1. /\ pos[r] \in Nat \ {0} /\ pos'[r] = pos[r] + 1
      /\ \A q \in Ranks : q # r => pos'[q] = pos[q]
  BY OneFurther
<1>2. Current(r) = Code[pos[r]]
  BY DEF Current
<1>3. Code' = Code
  BY DEF Code
<1>4. \A q \in Tasks(i) :
        calls[q] = Cardinality(Passed(pos[q])) + (IF waiting[q] THEN 1 ELSE 0)
  BY DEF InRound, CallsCounted
<1>5. Tasks(i) \subseteq Ranks
  BY TasksAreRanks
<1> DEFINE c(p) == Cardinality(Passed(p))
<1>6. c(pos[r] + 1) = c(pos[r]) + (IF Current(r).do \in Collective THEN 1 ELSE 0)
      /\ c(pos[r]) \in Nat
  BY <1>1, <1>2, PassedOne, PassedFinite
<1>7. ASSUME NEW q \in Tasks(i)
      PROVE  calls'[q] = c(pos'[q]) + (IF waiting'[q] THEN 1 ELSE 0)
  <2>1. CASE q # r
    BY <1>1, <1>4, <1>5, <2>1
  <2>2. CASE q = r
    <3> HIDE DEF c
    <3>1. calls[r] = c(pos[r]) + (IF waiting[r] THEN 1 ELSE 0)
      BY <1>4, <2>2 DEF c
    <3>2. calls'[r] + (IF waiting[r] THEN 1 ELSE 0) =
             calls[r] + (IF Current(r).do \in Collective THEN 1 ELSE 0)
      BY <2>2
    <3>3. calls'[r] \in Nat
      OBVIOUS
    <3>4. calls'[r] = c(pos[r] + 1)
      BY <1>6, <3>1, <3>2, <3>3
    <3>5. QED
      BY <1>1, <2>2, <3>4
  <2>3. QED
    BY <2>1, <2>2
<1>8. QED
  BY <1>3, <1>7 DEF CallsCounted, Passed

LEMMA LineStands ==
  ASSUME job' = job, all' = all, NEW test
  PROVE  TestLine(test)' = TestLine(test)
  BY DEF TestLine, IterationTime, Places, Deviating, Iterations, Sum, Largest, Smallest,
         MapThenSumSet, MapThenFoldSet

\* What the gathering needs of a step that sends nothing ...
LEMMA GatheredMove ==
  ASSUME TInv, NEW i \in 1 .. NTasks, NEW B \in Nat, InRound(i, B), NEW r \in Ranks,
         ~Finished(r), Current(r).do # "gather",
         job' = job, all' = all, pos' = [pos EXCEPT ![r] = @ + 1],
         \A q \in Ranks : table'[q] = table[q] \/ (q = r /\ pos[r] <= B)
  PROVE  Gathered(i, B)'
<1> DEFINE I == job.iterations
           T(it) == B + it + 1
           idx(it, q, test) == calc_allreduce_index(it, q, test)
<1>1. /\ I \in Nat \ {0} /\ Layout(Code, i, B, I)
      /\ pos[r] \in 1 .. B + I + 2 /\ pos[r] \in Nat /\ pos[r] <= Len(Code)
      /\ Current(r) = Code[pos[r]]
  BY Here
<1>2. /\ pos[r] \in Nat \ {0} /\ pos'[r] = pos[r] + 1
      /\ \A q \in Ranks : q # r => pos'[q] = pos[q]
  BY OneFurther
<1>3. Iterations = 0 .. I - 1 /\ Iterations' = Iterations /\ I' = I
  BY DEF Iterations
<1>4. /\ DOMAIN all = Array(job)
      /\ \A it \in Iterations, q \in Ranks, test \in Tests :
           /\ all[idx(it, q, test)] \in Int
           /\ pos[q] > T(it) => all[idx(it, q, test)] = table[q][it][test]
      /\ \A it \in Iterations : pos[0] > T(it) => \A q \in Tasks(i) : pos[q] > T(it)
  BY DEF InRound, Gathered
<1> HIDE DEF I, idx
<1>5. ASSUME NEW it \in Iterations, NEW q \in Ranks
      PROVE  (pos'[q] > T(it)) <=> (pos[q] > T(it))
  <2>1. CASE q # r
    BY <1>2, <2>1
  <2>2. CASE q = r
    <3>1. it \in 0 .. I - 1 /\ B + it + 1 \in B + 1 .. B + I
      BY SMTT(30), <1>1, <1>3
    <3>2. pos[r] \in B + 1 .. B + I => Code[pos[r]].do = "gather"
      BY <1>1, WhatIsWhere
    <3>3. pos[r] # B + it + 1
      BY <1>1, <3>1, <3>2
    <3>4. QED
      BY <1>2, <2>2, <3>1, <3>3
  <2>3. QED
    BY <2>1, <2>2
<1>6. ASSUME NEW it \in Iterations, NEW q \in Ranks, NEW test \in Tests
      PROVE  /\ all[idx(it, q, test)] \in Int
             /\ pos'[q] > T(it) => all[idx(it, q, test)] = table'[q][it][test]
  <2>1. pos[q] > T(it) => table'[q] = table[q]
    <3>1. it \in Nat
      BY <1>1, <1>3
    <3>2. QED
      BY <1>2, <3>1
  <2> HIDE DEF T
  <2>2. QED
    BY <1>4, <1>5, <2>1
<1>7. ASSUME NEW it \in Iterations, pos'[0] > T(it), NEW q \in Tasks(i)
      PROVE  pos'[q] > T(it)
  <2>1. q \in Ranks /\ 0 \in Ranks
    BY TasksAreRanks
  <2> HIDE DEF T
  <2>2. QED
    BY <1>4, <1>5, <1>7, <2>1
<1>8. QED
  BY <1>3, <1>4, <1>6, <1>7 DEF Gathered, Array, I, idx, calc_allreduce_index

\* ... and the summary, once it is there, of any step.
LEMMA ReportingMove ==
  ASSUME TInv, NEW i \in 1 .. NTasks, NEW B \in Nat, InRound(i, B), job' = job,
         summary' = summary, pos[0] <= pos'[0], pos[0] \in Nat, pos'[0] \in Nat,
         (\E test \in DOMAIN summary : TRUE) => all' = all
  PROVE  Reporting(B)'
<1>0. job.iterations \in Nat
  BY TimingAssumption DEF IsJob, TInv, Types
<1>1. SUFFICES ASSUME NEW test \in DOMAIN summary
               PROVE  /\ pos'[0] > B + job.iterations + 1
                      /\ test < TreeCreation =>
                           test \in Tests /\ summary[test] = TestLine(test)'
  BY DEF Reporting, Tests, TreeCreation, TableSize
<1>2. /\ pos[0] > B + job.iterations + 1
      /\ test < TreeCreation => test \in Tests /\ summary[test] = TestLine(test)
  BY DEF InRound, Reporting
<1>3. TestLine(test)' = TestLine(test)
  BY LineStands
<1>4. QED
  BY <1>0, <1>2, <1>3

\* When there is a summary everything has been gathered.
LEMMA SummaryAfterGather ==
  ASSUME TInv, NEW i \in 1 .. NTasks, NEW B \in Nat, InRound(i, B),
         pos[0] > B + job.iterations
  PROVE  \A r \in Tasks(i) : pos[r] > B + job.iterations
<1> DEFINE it == job.iterations - 1
<1>1. job.iterations \in Nat \ {0}
  BY TimingAssumption DEF IsJob, TInv, Types
<1>2. it \in Iterations /\ B + it + 1 = B + job.iterations
  BY <1>1 DEF Iterations
<1> HIDE DEF it
<1>3. pos[0] > B + it + 1 => \A r \in Tasks(i) : pos[r] > B + it + 1
  BY <1>2 DEF InRound, Gathered
<1>4. QED
  BY <1>2, <1>3

LEMMA RoundStays ==
  ASSUME NEW i \in 1 .. NTasks, NEW B \in Nat, InRound(i, B),
         UNCHANGED <<job, pos, calls, waiting, comm, table, all, summary>>
  PROVE  InRound(i, B)'
<1>1. Layout(Code, i, B, job.iterations)'
  BY DEF InRound, Code
<1>2. Amounts' /\ Members(i, B)'
  BY DEF InRound, Amounts, Cells, Members, Code, Iterations
<1>3. CallsCounted(i)'
  BY DEF InRound, CallsCounted, Passed, Code
<1>4. Gathered(i, B)'
  BY DEF InRound, Gathered, Iterations, calc_allreduce_index
<1>5. Reporting(B)'
  BY LineStands DEF InRound, Reporting, Tests, TreeCreation, TableSize
<1>6. QED
  BY <1>1, <1>2, <1>3, <1>4, <1>5 DEF InRound

\* A rank goes on without a collective call.
LEMMA GoOn ==
  ASSUME TInv, NEW i \in 1 .. NTasks, NEW B \in Nat, InRound(i, B), NEW r \in Ranks,
         ~waiting[r], ~Finished(r), r \notin Current(r).by \/ Current(r).do \notin Collective,
         Go(r), UNCHANGED <<calls, all>>, table' \in Cells,
         \A q \in Ranks :
           table'[q] = table[q] \/ (q = r /\ r \in Tasks(i) /\ pos[r] <= B)
  PROVE  /\ Layout(Code, i, B, job.iterations)' /\ Amounts'
         /\ Members(i, B)' /\ CallsCounted(i)' /\ Gathered(i, B)'
<1> DEFINE I == job.iterations
<1>1. /\ I \in Nat \ {0} /\ Layout(Code, i, B, I)
      /\ pos[r] \in 1 .. B + I + 2 /\ pos[r] \in Nat /\ pos[r] <= Len(Code)
      /\ Current(r) = Code[pos[r]]
  BY Here
<1>2. pos' = [pos EXCEPT ![r] = @ + 1] /\ UNCHANGED <<job, waiting, comm>>
  BY DEF Go
<1>3. Current(r).do # "gather" /\ Current(r).do # "comm"
  <2>1. Current(r).do \in {"gather", "comm"} => Current(r).by = Ranks
    BY WhereNow
  <2>2. QED
    BY <2>1 DEF Collective
<1>4. pos[r] # 1 /\ pos[r] # B + I + 2
  <2>1. pos[r] \in {1, B + I + 2} => Current(r).do = "comm"
    BY WhereNow
  <2>2. QED
    BY <1>3, <2>1
<1>5. r \in Tasks(i) => Current(r).do \notin Collective
  <2>1. Current(r).do \in Collective => Tasks(i) \subseteq Current(r).by
    BY WhereNow
  <2>2. QED
    BY <2>1
<1>6. Layout(Code, i, B, job.iterations)'
  BY <1>1, <1>2 DEF Code
<1>7. Amounts'
  BY <1>2 DEF InRound, Amounts, Cells, Iterations
<1>8. Members(i, B)'
  <2>1. comm'[r] = (IF r \in Tasks(i) THEN Tasks(i) ELSE {})
    BY <1>2, <1>4 DEF InRound, Members
  <2>2. pos[r] = 1 \/ r \in Tasks(i) \/ ~(Current(r).do = "barrier" /\ r \in Current(r).by)
    BY DEF Collective
  <2>3. \A q \in Ranks \ Tasks(i) : table'[q] = table[q]
    OBVIOUS
  <2>4. /\ ~waiting'[r] /\ \A q \in Ranks : q # r => waiting'[q] = waiting[q]
        /\ \A q \in Ranks : q # r => comm'[q] = comm[q]
    BY <1>2
  <2>5. QED
    BY <1>2, <1>4, <2>1, <2>2, <2>3, <2>4, MembersMove
<1>9. CallsCounted(i)'
  <2>1. calls' \in [Ranks -> Nat] /\ calls[r] \in Nat
    BY DEF InRound, Amounts
  <2>2. r \in Tasks(i) =>
           calls'[r] + (IF waiting[r] THEN 1 ELSE 0) =
             calls[r] + (IF Current(r).do \in Collective THEN 1 ELSE 0)
    BY <1>5, <2>1
  <2>3. ~waiting'[r] /\ \A q \in Ranks : q # r => waiting'[q] = waiting[q] /\ calls'[q] = calls[q]
    BY <1>2
  <2>4. QED
    BY <1>2, <2>1, <2>2, <2>3, CallsMove
<1>10. Gathered(i, B)'
  <2>1. \A q \in Ranks : table'[q] = table[q] \/ (q = r /\ pos[r] <= B)
    OBVIOUS
  <2>2. QED
    BY <1>2, <1>3, <2>1, GatheredMove
<1>11. QED
  BY <1>6, <1>7, <1>8, <1>9, <1>10

LEMMA ZeroGoesOn ==
  ASSUME TInv, NEW r \in Ranks, pos' = [pos EXCEPT ![r] = @ + 1] \/ pos' = pos
  PROVE  pos[0] <= pos'[0] /\ pos[0] \in Nat /\ pos'[0] \in Nat
<1>1. 0 \in Ranks
  BY TimingAssumption DEF Ranks
<1>2. pos \in [Ranks -> Nat \ {0}]
  BY DEF TInv, Types
<1>3. CASE pos' = pos
  BY <1>1, <1>2, <1>3
<1>4. CASE pos' = [pos EXCEPT ![r] = @ + 1]
  BY <1>1, <1>4, OneFurther
<1>5. QED
  BY <1>3, <1>4

LEMMA QuietInRound ==
  ASSUME TInv, NEW i \in 1 .. NTasks, NEW B \in Nat, InRound(i, B), NEW r \in Ranks, Quiet(r)
  PROVE  InRound(i, B)'
<1>1. /\ ~waiting[r] /\ ~Finished(r) /\ Go(r)
      /\ r \notin Current(r).by \/ Current(r).do \notin Collective
      /\ UNCHANGED <<calls, table, all, summary>>
  BY DEF Quiet, Collective
<1>2. table' \in Cells /\ \A q \in Ranks : table'[q] = table[q]
  BY <1>1 DEF InRound, Amounts
<1>3. /\ Layout(Code, i, B, job.iterations)' /\ Amounts'
      /\ Members(i, B)' /\ CallsCounted(i)' /\ Gathered(i, B)'
  BY <1>1, <1>2, GoOn
<1>4. Reporting(B)'
  <2>1. pos' = [pos EXCEPT ![r] = @ + 1] /\ job' = job
    BY <1>1 DEF Go
  <2>2. QED
    BY <1>1, <2>1, ZeroGoesOn, ReportingMove
<1>5. QED
  BY <1>3, <1>4 DEF InRound

LEMMA DurationInt ==
  ASSUME TInv, NEW r \in Ranks, NEW base \in {DirTest, FileTest}, NEW k \in 0 .. 3
  PROVE  Duration(r, base + k, base) \in Int
<1>1. t[r] \in [Stamps -> Int]
  BY DEF TInv, Types
<1> DEFINE test == base + k
<1>2. test - base = k /\ test - base + 1 = k + 1
  BY DEF DirTest, FileTest
<1> HIDE DEF test
<1>3. k \in Stamps /\ k + 1 \in Stamps
  BY DEF Stamps
<1>4. base \notin {TreeCreation, TreeRemoval}
  BY DEF DirTest, FileTest, TreeCreation, TreeRemoval
<1>5. Duration(r, test, base) = t[r][k + 1] - t[r][k]
  BY <1>2, <1>4 DEF Duration
<1>6. Duration(r, test, base) \in Int
  BY <1>1, <1>3, <1>5
<1>7. QED
  BY <1>6 DEF test

LEMMA RecordInRound ==
  ASSUME TInv, NEW i \in 1 .. NTasks, NEW B \in Nat, InRound(i, B), NEW r \in Ranks, Record(r)
  PROVE  InRound(i, B)'
<1> DEFINE it == Current(r).n[1]
           base == Current(r).n[2]
           rows == IF base \in {TreeCreation, TreeRemoval} THEN {base}
                   ELSE {base + k : k \in job.phases}
           row == [test \in Tests |-> IF test \in rows THEN Duration(r, test, base)
                                                       ELSE table[r][it][test]]
           I == job.iterations
<1>1. /\ At(r, "record") /\ Go(r) /\ UNCHANGED <<calls, t, all, summary>>
      /\ table' = [table EXCEPT ![r][it] = row]
  BY DEF Record, Alone
<1>2. ~waiting[r] /\ ~Finished(r) /\ r \in Current(r).by /\ Current(r).do = "record"
  BY <1>1, NotInACall DEF At
<1>3. /\ I \in Nat \ {0} /\ Layout(Code, i, B, I)
      /\ pos[r] \in 1 .. B + I + 2 /\ pos[r] \in Nat /\ pos[r] <= Len(Code)
      /\ Current(r) = Code[pos[r]]
  BY <1>2, Here
<1>4. /\ pos[r] <= B
      /\ Current(r).n \in Nat \X {DirTest, FileTest, TreeCreation, TreeRemoval}
  <2>1. pos[r] \in 2 .. B
    BY <1>2, WhereNow
  <2>2. Current(r).n \in Nat \X {DirTest, FileTest, TreeCreation, TreeRemoval}
    BY <1>2, WhereNow
  <2>3. QED
    BY <2>1, <2>2
<1>5. r \in Tasks(i)
  BY <1>2, OutsidersIdle
<1>6. table \in Cells
  BY DEF InRound, Amounts
<1>7. it \in Iterations => row \in [Tests -> Int]
  <2> SUFFICES ASSUME it \in Iterations, NEW test \in Tests
               PROVE  row[test] \in Int
    OBVIOUS
  <2>1. table[r][it][test] \in Int
    BY <1>6 DEF Cells
  <2>2. ASSUME test \in rows
        PROVE  Duration(r, test, base) \in Int
    <3>1. CASE base \in {TreeCreation, TreeRemoval}
      <4>1. t[r] \in [Stamps -> Int] /\ StartCreate \in Stamps /\ EndCreate \in Stamps
        BY DEF TInv, Types, StartCreate, EndCreate, Stamps
      <4> HIDE DEF base
      <4>2. QED
        BY <3>1, <4>1 DEF Duration
    <3>2. CASE base \notin {TreeCreation, TreeRemoval}
      <4>1. base \in {DirTest, FileTest} /\ job.phases \subseteq 0 .. 3
        BY <1>4, <3>2, TimingAssumption DEF IsJob, Phases, TInv, Types
      <4>2. PICK k \in job.phases : test = base + k
        BY <2>2, <3>2
      <4>3. k \in 0 .. 3
        BY <4>1
      <4> HIDE DEF base, rows
      <4>4. QED
        BY <4>1, <4>2, <4>3, DurationInt
    <3>3. QED
      BY <3>1, <3>2
  <2> HIDE DEF rows, base, it
  <2>3. QED
    BY <2>1, <2>2
<1> HIDE DEF it, base, row, I
<1>8. /\ table' \in Cells'
      /\ \A q \in Ranks : table'[q] = table[q] \/ (q = r /\ r \in Tasks(i) /\ pos[r] <= B)
  <2>1. Cells' = Cells
    BY <1>1 DEF Cells, Iterations, Go
  <2>2. table[r] \in [Iterations -> [Tests -> Int]]
    BY <1>6 DEF Cells
  <2> DEFINE new == [table[r] EXCEPT ![it] = row]
  <2>3. new \in [Iterations -> [Tests -> Int]]
    BY <1>7, <2>2
  <2>4. table' = [table EXCEPT ![r] = new]
    BY <1>1
  <2> HIDE DEF new
  <2>5. table' \in Cells /\ \A q \in Ranks : q # r => table'[q] = table[q]
    BY <1>6, <2>3, <2>4 DEF Cells
  <2>6. QED
    BY <1>4, <1>5, <2>1, <2>5
<1>9. table' \in Cells
  <2>1. Cells' = Cells
    BY <1>1 DEF Cells, Iterations, Go
  <2>2. QED
    BY <1>8, <2>1
<1>10. r \notin Current(r).by \/ Current(r).do \notin Collective
  BY <1>2 DEF Collective
<1>11. UNCHANGED <<calls, all>>
  BY <1>1
<1>12. /\ Layout(Code, i, B, job.iterations)' /\ Amounts'
       /\ Members(i, B)' /\ CallsCounted(i)' /\ Gathered(i, B)'
  BY <1>1, <1>2, <1>8, <1>9, <1>10, <1>11, GoOn
<1>13. Reporting(B)'
  <2>1. pos' = [pos EXCEPT ![r] = @ + 1] /\ job' = job
    BY <1>1 DEF Go
  <2>2. QED
    BY <1>1, <2>1, ZeroGoesOn, ReportingMove
<1>14. QED
  BY <1>12, <1>13 DEF InRound

LEMMA ArriveInRound ==
  ASSUME TInv, NEW i \in 1 .. NTasks, NEW B \in Nat, InRound(i, B), NEW r \in Ranks, Arrive(r)
  PROVE  InRound(i, B)'
<1> DEFINE I == job.iterations
           p == pos[r]
           n == Current(r).n
<1>1. CASE Abort
  <2>1. UNCHANGED <<job, pos, calls, waiting, comm, table, all, summary>>
    BY <1>1 DEF Abort, times
  <2>2. QED
    BY <2>1, RoundStays
<1>2. CASE ~Abort
  <2>1. /\ At(r, "barrier") \/ At(r, "comm")
        /\ ~waiting[r] /\ comm[r] # {}
        /\ Current(r).do = "comm" => 0 .. n - 1 \subseteq comm[r]
        /\ waiting' = [waiting EXCEPT ![r] = TRUE]
        /\ calls' = [calls EXCEPT ![r] = @ + 1]
        /\ UNCHANGED <<job, pos, comm, table, all, summary>>
    BY <1>2 DEF Arrive, times
  <2>2. ~Finished(r) /\ Current(r).do \in {"barrier", "comm"}
    BY <2>1 DEF At
  <2>3. I \in Nat \ {0} /\ Layout(Code, i, B, I) /\ p \in Nat \ {0}
    BY <2>2, Here
  <2>4. comm[r] = IF p = 1 THEN Ranks ELSE IF r \in Tasks(i) THEN Tasks(i) ELSE {}
    BY DEF InRound, Members
  <2>5. p <= B
    <3>1. Current(r).do = "barrier" => p \in 2 .. B
      BY <2>2, WhereNow
    <3>2. Current(r).do = "comm" => p \in {1, B + I + 2}
      BY <2>2, WhereNow
    <3>3. B # 0
      BY <2>3 DEF Layout
    <3>4. ASSUME p = B + I + 2
          PROVE  FALSE
      <4>1. Current(r).do = "comm" /\ n > i
        BY <2>2, <3>4, WhereNow
      <4>2. n \in Nat
        BY <2>2, <4>1, WhereNow
      <4>3. i \in 0 .. n - 1 /\ i \notin Tasks(i) /\ p # 1
        BY <2>3, <3>4, <4>1, <4>2 DEF Tasks
      <4>4. QED
        BY <2>1, <2>4, <4>1, <4>3
    <3>5. QED
      BY <2>2, <2>3, <3>1, <3>2, <3>3, <3>4
  <2>6. p # 1 => r \in Tasks(i)
    BY <2>1, <2>4
  <2>7. waiting \in [Ranks -> BOOLEAN] /\ calls \in [Ranks -> Nat]
    BY DEF TInv, Types, InRound, Amounts
  <2>8. /\ waiting'[r] /\ \A q \in Ranks : q # r => waiting'[q] = waiting[q]
    BY <2>1, <2>7
  <2>9. /\ calls' \in [Ranks -> Nat] /\ calls'[r] = calls[r] + 1
        /\ \A q \in Ranks : q # r => calls'[q] = calls[q]
    BY <2>1, <2>7
  <2> HIDE DEF p, I, n
  <2>10. Layout(Code, i, B, job.iterations)'
    BY <2>1 DEF InRound, Code
  <2>11. Amounts'
    BY <2>1, <2>9 DEF InRound, Amounts, Cells, Iterations
  <2>12. Members(i, B)'
    <3>1. ASSUME NEW q \in Ranks, waiting'[q]
          PROVE  pos[q] <= B /\ (pos[q] # 1 => q \in Tasks(i))
      <4>1. CASE q = r
        BY <2>5, <2>6, <4>1 DEF p
      <4>2. CASE q # r
        BY <2>8, <3>1, <4>2 DEF InRound, Members
      <4>3. QED
        BY <4>1, <4>2
    <3>2. Code' = Code /\ Iterations' = Iterations /\ job' = job /\ pos' = pos /\ comm' = comm
          /\ table' = table
      BY <2>1 DEF Code, Iterations
    <3>3. ASSUME NEW q \in Ranks
          PROVE  /\ comm[q] = IF pos[q] = 1 THEN Ranks
                              ELSE IF q \in Tasks(i) THEN Tasks(i) ELSE {}
                 /\ pos[q] <= B + job.iterations + 2
                 /\ q \notin Tasks(i) =>
                      /\ \A k \in 2 .. pos[q] - 1 :
                           ~(Code[k].do = "barrier" /\ q \in Code[k].by)
                      /\ table[q] = [it \in Iterations |-> [test \in Tests |-> 0]]
      BY DEF InRound, Members
    <3>4. QED
      BY <3>1, <3>2, <3>3 DEF Members
  <2>13. CallsCounted(i)'
    <3>1. \A q \in Tasks(i) :
            calls[q] = Cardinality(Passed(pos[q])) + (IF waiting[q] THEN 1 ELSE 0)
      BY DEF InRound, CallsCounted
    <3>2. \A q \in Ranks : Cardinality(Passed(pos[q])) \in Nat
      BY PassedFinite DEF TInv, Types
    <3>3. Tasks(i) \subseteq Ranks
      BY TasksAreRanks
    <3>4. ASSUME NEW q \in Tasks(i)
          PROVE  calls'[q] = Cardinality(Passed(pos[q])) + (IF waiting'[q] THEN 1 ELSE 0)
      <4>1. CASE q = r
        BY <2>1, <2>8, <2>9, <3>1, <3>2, <4>1
      <4>2. CASE q # r
        BY <2>8, <2>9, <3>1, <3>3, <4>2
      <4>3. QED
        BY <4>1, <4>2
    <3>5. Code' = Code /\ pos' = pos
      BY <2>1 DEF Code
    <3>6. QED
      BY <3>4, <3>5 DEF CallsCounted, Passed
  <2>14. Gathered(i, B)'
    BY <2>1 DEF InRound, Gathered, Iterations, calc_allreduce_index
  <2>15. Reporting(B)'
    BY <2>1, LineStands DEF InRound, Reporting, Tests, TreeCreation, TableSize
  <2>16. QED
    BY <2>10, <2>11, <2>12, <2>13, <2>14, <2>15 DEF InRound
<1>3. QED
  BY <1>1, <1>2

LEMMA LeaveInRound ==
  ASSUME TInv, NEW i \in 1 .. NTasks, NEW B \in Nat, InRound(i, B), NEW r \in Ranks, Leave(r)
  PROVE  InRound(i, B)'
<1> DEFINE I == job.iterations
           p == pos[r]
           n == Current(r).n
<1>1. /\ waiting[r] /\ waiting' = [waiting EXCEPT ![r] = FALSE]
      /\ pos' = [pos EXCEPT ![r] = @ + 1]
      /\ comm' = IF Current(r).do # "comm" THEN comm
                 ELSE [comm EXCEPT ![r] = IF r < n THEN 0 .. n - 1 ELSE {}]
      /\ UNCHANGED <<job, calls, table, all, summary>>
  BY DEF Leave, times
<1>2. ~Finished(r) /\ Current(r).do \in {"barrier", "comm"}
  BY <1>1 DEF TInv, AtTheCall
<1>3. I \in Nat \ {0} /\ Layout(Code, i, B, I) /\ p \in Nat \ {0}
  BY <1>2, Here
<1>4. /\ p <= B /\ (p # 1 => r \in Tasks(i))
      /\ comm[r] = IF p = 1 THEN Ranks ELSE IF r \in Tasks(i) THEN Tasks(i) ELSE {}
  BY <1>1 DEF InRound, Members
<1>5. p # B + I + 2
  BY <1>3, <1>4
<1>6. /\ Current(r).do = "comm" => p = 1 /\ n = i
      /\ Current(r).do # "comm" => p # 1
  <2>1. Current(r).do = "comm" => p \in {1, B + I + 2}
    BY <1>2, WhereNow
  <2>2. p = 1 => Current(r).do = "comm" /\ n = i
    BY <1>2, WhereNow
  <2>3. QED
    BY <1>5, <2>1, <2>2
<1>7. waiting \in [Ranks -> BOOLEAN] /\ comm \in [Ranks -> SUBSET Ranks]
  BY DEF TInv, Types, InRound, Amounts
<1>8. ~waiting'[r] /\ \A q \in Ranks : q # r => waiting'[q] = waiting[q]
  BY <1>1, <1>7
<1>9. Tasks(i) \in SUBSET Ranks /\ i \in Nat
  BY TasksAreRanks
<1>10. r < i <=> r \in Tasks(i)
  BY <1>9, TimingAssumption DEF Tasks, Ranks
<1> HIDE DEF p, n
<1>11. /\ comm' \in [Ranks -> SUBSET Ranks]
       /\ comm'[r] = (IF r \in Tasks(i) THEN Tasks(i) ELSE {})
       /\ \A q \in Ranks : q # r => comm'[q] = comm[q]
  <2>1. CASE Current(r).do # "comm"
    BY <1>1, <1>4, <1>6, <1>7, <2>1
  <2>2. CASE Current(r).do = "comm"
    <3> DEFINE new == IF r \in Tasks(i) THEN Tasks(i) ELSE {}
    <3>1. comm' = [comm EXCEPT ![r] = new]
      BY <1>1, <1>6, <1>10, <2>2 DEF Tasks
    <3>2. new \in SUBSET Ranks
      BY <1>9
    <3> HIDE DEF new
    <3>3. /\ comm' \in [Ranks -> SUBSET Ranks] /\ comm'[r] = new
          /\ \A q \in Ranks : q # r => comm'[q] = comm[q]
      BY <1>7, <3>1, <3>2
    <3>4. QED
      BY <3>3 DEF new
  <2>3. QED
    BY <2>1, <2>2
<1>12. Layout(Code, i, B, job.iterations)'
  BY <1>1, <1>3 DEF Code
<1>13. Amounts'
  BY <1>1, <1>11 DEF InRound, Amounts, Cells, Iterations
<1>14. Members(i, B)'
  <2>1. pos[r] = 1 \/ r \in Tasks(i) \/ ~(Current(r).do = "barrier" /\ r \in Current(r).by)
    BY <1>4 DEF p
  <2>2. pos[r] # B + job.iterations + 2
    BY <1>5 DEF p
  <2>3. \A q \in Ranks \ Tasks(i) : table'[q] = table[q]
    BY <1>1
  <2>4. job' = job /\ pos' = [pos EXCEPT ![r] = @ + 1]
    BY <1>1
  <2>5. QED
    BY <1>2, <1>8, <1>11, <2>1, <2>2, <2>3, <2>4, MembersMove
<1>15. CallsCounted(i)'
  <2>1. calls' \in [Ranks -> Nat] /\ calls[r] \in Nat
    BY <1>1 DEF InRound, Amounts
  <2>2. r \in Tasks(i) =>
           calls'[r] + (IF waiting[r] THEN 1 ELSE 0) =
             calls[r] + (IF Current(r).do \in Collective THEN 1 ELSE 0)
    BY <1>1, <1>2, <2>1 DEF Collective
  <2>3. \A q \in Ranks : q # r => waiting'[q] = waiting[q] /\ calls'[q] = calls[q]
    BY <1>1, <1>8
  <2>4. job' = job /\ pos' = [pos EXCEPT ![r] = @ + 1]
    BY <1>1
  <2>5. QED
    BY <1>2, <1>8, <2>1, <2>2, <2>3, <2>4, CallsMove
<1>16. Gathered(i, B)'
  <2>1. \A q \in Ranks : table'[q] = table[q] \/ (q = r /\ pos[r] <= B)
    BY <1>1
  <2>2. job' = job /\ all' = all /\ pos' = [pos EXCEPT ![r] = @ + 1]
    BY <1>1
  <2>3. Current(r).do # "gather"
    BY <1>2
  <2>4. QED
    BY <1>2, <2>1, <2>2, <2>3, GatheredMove
<1>17. Reporting(B)'
  BY <1>1, ZeroGoesOn, ReportingMove
<1>18. QED
  BY <1>12, <1>13, <1>14, <1>15, <1>16, <1>17 DEF InRound

LEMMA SummarizeInRound ==
  ASSUME TInv, NEW i \in 1 .. NTasks, NEW B \in Nat, InRound(i, B), NEW r \in Ranks,
         Summarize(r)
  PROVE  InRound(i, B)'
<1>1. /\ At(r, "summarize") /\ Go(r) /\ UNCHANGED <<calls, table, all>>
      /\ summary' = [test \in Reported \cup {TreeCreation, TreeRemoval} |->
                       IF test \in Reported THEN TestLine(test) ELSE TreeLine(test)]
  BY DEF Summarize, Alone
<1>2. ~waiting[r] /\ ~Finished(r) /\ r \in Current(r).by /\ Current(r).do = "summarize"
  BY <1>1, NotInACall DEF At
<1>3. table' \in Cells /\ \A q \in Ranks : table'[q] = table[q]
  BY <1>1 DEF InRound, Amounts
<1>4. /\ Layout(Code, i, B, job.iterations)' /\ Amounts'
      /\ Members(i, B)' /\ CallsCounted(i)' /\ Gathered(i, B)'
  <2>1. r \notin Current(r).by \/ Current(r).do \notin Collective
    BY <1>2 DEF Collective
  <2>2. UNCHANGED <<calls, all>>
    BY <1>1
  <2>3. QED
    BY <1>1, <1>2, <1>3, <2>1, <2>2, GoOn
<1>5. Reporting(B)'
  <2>1. r = 0 /\ pos[r] = B + job.iterations + 1
    <3>1. Current(r).by = {0} /\ pos[r] = B + job.iterations + 1
      BY <1>2, WhereNow
    <3>2. QED
      BY <1>2, <3>1
  <2>2. job' = job /\ pos' = [pos EXCEPT ![r] = @ + 1]
    BY <1>1 DEF Go
  <2>3. pos'[0] = B + job.iterations + 2 /\ job.iterations \in Nat
    <3>1. pos'[r] = pos[r] + 1
      BY <2>2, OneFurther
    <3>2. job.iterations \in Nat \ {0}
      BY <1>2, Here
    <3>3. QED
      BY <2>1, <3>1, <3>2
  <2>4. ASSUME NEW test \in DOMAIN summary', test < TreeCreation
        PROVE  test \in Tests /\ summary'[test] = TestLine(test)'
    <3>1. test \in Reported
      BY <1>1, <2>4 DEF TreeCreation, TreeRemoval
    <3>2. summary'[test] = TestLine(test)
      BY <1>1, <3>1
    <3>3. TestLine(test)' = TestLine(test)
      BY <1>1, <2>2, LineStands
    <3>4. test \in Tests
      BY <3>1 DEF Reported, Tests, TableSize, FileTest, DirTest, TreeCreation
    <3>5. QED
      BY <3>2, <3>3, <3>4
  <2>5. job' = job /\ pos'[0] > B + job.iterations + 1
    BY <2>2, <2>3
  <2>6. QED
    BY <2>4, <2>5 DEF Reporting, Tests, TreeCreation, TableSize
<1>6. QED
  BY <1>4, <1>5 DEF InRound

\* The places of what is gathered.
LEMMA PlaceIs ==
  ASSUME NEW it \in Int, NEW r \in Int, NEW test \in Int
  PROVE  calc_allreduce_index(it, r, test) = TableSize * (it * NTasks + r) + test
<1>1. NTasks \in Nat
  BY TimingAssumption
<1>2. it * NTasks \in Int
  BY <1>1
<1>3. it * TableSize * NTasks = TableSize * (it * NTasks)
  BY <1>1 DEF TableSize
<1>4. QED
  BY <1>2, <1>3 DEF calc_allreduce_index, TableSize

LEMMA PlaceIn ==
  ASSUME NEW I \in Nat, NEW it \in 0 .. I - 1, NEW r \in Ranks, NEW test \in Tests
  PROVE  calc_allreduce_index(it, r, test) \in 0 .. I * NTasks * TableSize - 1
<1> DEFINE m == it * NTasks + r
           M == I * NTasks
<1>1. NTasks \in Nat \ {0} /\ Ranks = 0 .. NTasks - 1
  BY TimingAssumption DEF Ranks
<1>2. m \in 0 .. M - 1
  BY <1>1, RowByRow
<1>3. M \in Nat
  BY <1>1
<1>4. calc_allreduce_index(it, r, test) = TableSize * m + test
  BY <1>1, PlaceIs DEF Tests, TableSize
<1> HIDE DEF m, M
<1>5. TableSize * m + test \in 0 .. M * TableSize - 1
  BY <1>2, <1>3 DEF Tests, TableSize
<1>6. QED
  BY <1>4, <1>5 DEF M

LEMMA PlaceUnique ==
  ASSUME NEW it \in Int, NEW jt \in Int, NEW r \in Ranks, NEW q \in Ranks,
         NEW test \in Tests, NEW other \in Tests,
         calc_allreduce_index(it, r, test) = calc_allreduce_index(jt, q, other)
  PROVE  it = jt /\ r = q /\ test = other
<1> DEFINE m == it * NTasks + r
           k == jt * NTasks + q
<1>1. NTasks \in Nat \ {0} /\ Ranks = 0 .. NTasks - 1
  BY TimingAssumption DEF Ranks
<1>2. m \in Int /\ k \in Int
  BY <1>1
<1>3. /\ calc_allreduce_index(it, r, test) = TableSize * m + test
      /\ calc_allreduce_index(jt, q, other) = TableSize * k + other
  BY <1>1, PlaceIs DEF Tests, TableSize
<1>4. m = it * NTasks + r /\ k = jt * NTasks + q
  OBVIOUS
<1> HIDE DEF m, k
<1>5. TableSize * m + test = TableSize * k + other
  BY <1>3
<1>6. test = other
  BY <1>2, <1>5 DEF Tests, TableSize
<1>7. m = k
  BY <1>2, <1>5, <1>6 DEF Tests, TableSize
<1>8. NTasks * it + r = NTasks * jt + q
  <2>1. it * NTasks = NTasks * it /\ jt * NTasks = NTasks * jt
    BY <1>1
  <2>2. QED
    BY <1>4, <1>7, <2>1
<1>9. r = q
  BY <1>1, <1>8, RemainderUnique
<1>10. it = jt
  <2> DEFINE a == NTasks * it
             b == NTasks * jt
             d == it - jt
  <2>1. a \in Int /\ b \in Int /\ r \in Int /\ d \in Int /\ NTasks * d = a - b
    BY <1>1
  <2>2. a + r = b + r
    BY <1>8, <1>9
  <2> HIDE DEF a, b, d
  <2>3. NTasks * d = 0
    BY <2>1, <2>2
  <2>4. (d > 0 => NTasks * d > 0) /\ (d < 0 => NTasks * d < 0)
    BY <1>1, <2>1
  <2>5. d = 0
    BY <2>1, <2>3, <2>4
  <2>6. QED
    BY <2>5 DEF d
<1>11. QED
  BY <1>6, <1>9, <1>10

\* A rank that has made more collective calls than rank 0 has sent what rank 0 gathers.
LEMMA MoreCallsFurther ==
  ASSUME TInv, NEW i \in 1 .. NTasks, NEW B \in Nat, InRound(i, B), NEW r \in Tasks(i),
         NEW q \in Tasks(i), ~waiting[r], calls[q] > calls[r], pos[r] > B
  PROVE  pos[q] > pos[r]
<1> DEFINE c(p) == Cardinality(Passed(p))
<1>1. r \in Ranks /\ q \in Ranks
  BY TasksAreRanks
<1>2. pos[r] \in Nat \ {0} /\ pos[q] \in Nat \ {0}
  BY <1>1 DEF TInv, Types
<1>3. calls[r] = c(pos[r]) /\ calls[q] = c(pos[q]) + (IF waiting[q] THEN 1 ELSE 0)
  BY PassedFinite, <1>2 DEF InRound, CallsCounted
<1>4. c(pos[r]) \in Nat /\ c(pos[q]) \in Nat
  BY <1>2, PassedFinite
<1> SUFFICES ASSUME pos[q] <= pos[r]
             PROVE  FALSE
  BY <1>2
<1>5. c(pos[q]) <= c(pos[r])
  BY <1>2, PassedMore
<1>6. waiting[q]
  <2> HIDE DEF c
  <2>1. QED
    BY <1>3, <1>4, <1>5
<1>7. pos[q] <= B /\ Current(q).do \in Collective
  BY <1>1, <1>6 DEF InRound, Members, TInv, AtTheCall, Collective
<1>8. c(pos[q] + 1) = c(pos[q]) + 1
  BY <1>2, <1>4, <1>7, PassedOne DEF Current
<1>9. c(pos[q] + 1) <= c(pos[r])
  <2>1. pos[q] + 1 \in Nat /\ pos[q] + 1 <= pos[r]
    BY <1>2, <1>7
  <2>2. QED
    BY <1>2, <2>1, PassedMore
<1> HIDE DEF c
<1>10. QED
  BY <1>3, <1>4, <1>6, <1>8, <1>9

LEMMA GatherInRound ==
  ASSUME TInv, NEW i \in 1 .. NTasks, NEW B \in Nat, InRound(i, B), NEW r \in Ranks, Gather(r)
  PROVE  InRound(i, B)'
<1> DEFINE I == job.iterations
           p == pos[r]
           n == Current(r).n
           first == n * TableSize * NTasks + r * TableSize
           row == first .. first + TableSize - 1
           idx(it, q, test) == calc_allreduce_index(it, q, test)
<1>1. /\ At(r, "gather") /\ Go(r) /\ UNCHANGED <<table, summary>>
      /\ r = 0 => \A q \in comm[r] \ {0} : calls[q] > calls[r]
      /\ calls' = [calls EXCEPT ![r] = @ + 1]
      /\ all' = [m \in DOMAIN all \cup row |->
                   IF m \in row THEN table[r][n][m - first] ELSE all[m]]
  BY DEF Gather
<1>2. ~waiting[r] /\ ~Finished(r) /\ r \in Current(r).by /\ Current(r).do = "gather"
  BY <1>1, NotInACall DEF At
<1>3. UNCHANGED <<job, waiting, comm>> /\ pos' = [pos EXCEPT ![r] = @ + 1]
  BY <1>1 DEF Go
<1>4. I \in Nat \ {0} /\ Layout(Code, i, B, I) /\ p \in Nat \ {0}
  BY <1>2, Here
<1>5. n \in 0 .. I - 1 /\ p = B + n + 1 /\ B # 0
  <2>1. n \in 0 .. I - 1 /\ p = B + n + 1
    BY <1>2, WhereNow
  <2>2. QED
    BY <1>4, <2>1 DEF Layout
<1>6. r \in Tasks(i)
  BY <1>2, OutsidersIdle
<1>7. /\ p # 1 /\ p # B + I + 2 /\ p > B /\ p <= B + I
  BY <1>4, <1>5
<1>8. /\ pos'[r] = p + 1 /\ \A q \in Ranks : q # r => pos'[q] = pos[q]
      /\ \A q \in Ranks : pos[q] \in Nat \ {0} /\ pos[q] <= pos'[q] /\ pos'[q] \in Nat \ {0}
  BY <1>3, OneFurther
<1> HIDE DEF n, p, I, first, row, idx
<1>9. Layout(Code, i, B, job.iterations)'
  BY <1>3, <1>4 DEF Code, I
<1>10. calls \in [Ranks -> Nat]
  BY DEF InRound, Amounts
<1>11. /\ calls' \in [Ranks -> Nat] /\ calls'[r] = calls[r] + 1
       /\ \A q \in Ranks : q # r => calls'[q] = calls[q]
  BY <1>1, <1>10
<1>12. Amounts'
  BY <1>1, <1>3, <1>11 DEF InRound, Amounts, Cells, Iterations
<1>13. Members(i, B)'
  <2>1. pos[r] # B + job.iterations + 2 /\ pos[r] # 1
    BY <1>7 DEF p, I
  <2>2. comm'[r] = (IF r \in Tasks(i) THEN Tasks(i) ELSE {})
    BY <1>3, <2>1 DEF InRound, Members
  <2>3. pos[r] = 1 \/ r \in Tasks(i) \/ ~(Current(r).do = "barrier" /\ r \in Current(r).by)
    BY <1>6
  <2>4. ~waiting'[r] /\ \A q \in Ranks : q # r => waiting'[q] = waiting[q]
    BY <1>2, <1>3
  <2>5. /\ \A q \in Ranks : q # r => comm'[q] = comm[q]
        /\ \A q \in Ranks \ Tasks(i) : table'[q] = table[q]
    BY <1>1, <1>3
  <2>6. QED
    BY <1>2, <1>3, <2>1, <2>2, <2>3, <2>4, <2>5, MembersMove
<1>14. CallsCounted(i)'
  <2>1. calls[r] \in Nat
    BY <1>10
  <2>2. r \in Tasks(i) =>
           calls'[r] + (IF waiting[r] THEN 1 ELSE 0) =
             calls[r] + (IF Current(r).do \in Collective THEN 1 ELSE 0)
    BY <1>2, <1>11, <2>1 DEF Collective
  <2>3. ~waiting'[r] /\ \A q \in Ranks : q # r => waiting'[q] = waiting[q] /\ calls'[q] = calls[q]
    BY <1>2, <1>3, <1>11
  <2>4. QED
    BY <1>2, <1>3, <1>11, <2>2, <2>3, CallsMove
<1>15. Iterations = 0 .. I - 1 /\ Iterations' = Iterations /\ job' = job
  BY <1>3 DEF Iterations, I
<1>16. /\ DOMAIN all = 0 .. I * NTasks * TableSize - 1
       /\ \A it \in Iterations, q \in Ranks, test \in Tests :
            /\ all[idx(it, q, test)] \in Int
            /\ pos[q] > B + it + 1 => all[idx(it, q, test)] = table[q][it][test]
       /\ \A it \in Iterations :
            pos[0] > B + it + 1 => \A q \in Tasks(i) : pos[q] > B + it + 1
  BY DEF InRound, Gathered, Array, I, idx
<1>17. \A m : m \in row <=> \E test \in Tests : m = idx(n, r, test)
  <2>1. first \in Int
    <3>1. NTasks \in Nat /\ n \in Int /\ r \in Int
      BY <1>4, <1>5, TimingAssumption DEF Ranks
    <3>2. n * TableSize * NTasks \in Int /\ r * TableSize \in Int
      BY <3>1 DEF TableSize
    <3>3. QED
      BY <3>2 DEF first
  <2>2. \A test : idx(n, r, test) = first + test
    BY DEF idx, calc_allreduce_index, first
  <2>3. ASSUME NEW m \in row
        PROVE  m - first \in Tests /\ m = first + (m - first)
    BY <2>1 DEF Tests, TableSize, row
  <2>4. ASSUME NEW test \in Tests
        PROVE  first + test \in row
    BY <2>1 DEF Tests, TableSize, row
  <2>5. QED
    BY <2>2, <2>3, <2>4
<1>18. \A it \in Iterations, q \in Ranks, test \in Tests : idx(it, q, test) \in DOMAIN all
  BY <1>4, <1>15, <1>16, PlaceIn DEF idx
<1>19. row \subseteq DOMAIN all
  BY <1>5, <1>15, <1>17, <1>18
<1>20. /\ DOMAIN all' = DOMAIN all
       /\ \A m \in DOMAIN all :
            all'[m] = IF m \in row THEN table[r][n][m - first] ELSE all[m]
  BY <1>1, <1>19
<1>21. ASSUME NEW it \in Iterations, NEW q \in Ranks, NEW test \in Tests
       PROVE  /\ all'[idx(it, q, test)] \in Int
              /\ pos'[q] > B + it + 1 => all'[idx(it, q, test)] = table'[q][it][test]
  <2> DEFINE m == idx(it, q, test)
  <2>0. it \in Nat /\ n \in Nat
    BY <1>4, <1>5, <1>15
  <2>1. all'[m] = IF m \in row THEN table[r][n][m - first] ELSE all[m]
    BY <1>18, <1>20
  <2>2. CASE it = n /\ q = r
    <3>1. m \in row /\ m - first = test
      <4>1. m \in row
        BY <1>17, <2>2
      <4>2. m = first + test
        BY <2>2 DEF idx, calc_allreduce_index, first
      <4>3. first \in Int /\ test \in Int
        <5>1. NTasks \in Nat /\ n \in Int /\ r \in Int
          BY <1>4, <1>5, TimingAssumption DEF Ranks
        <5>2. n * TableSize * NTasks \in Int /\ r * TableSize \in Int
          BY <5>1 DEF TableSize
        <5>3. QED
          BY <5>2 DEF first, Tests, TableSize
      <4>4. m - first = test
        BY <4>2, <4>3
      <4>5. QED
        BY <4>1, <4>4
    <3> HIDE DEF m
    <3>2. all'[m] = table[r][n][test]
      BY <2>1, <3>1
    <3>3. table[r][n][test] \in Int
      <4>1. table \in Cells
        BY DEF InRound, Amounts
      <4>2. n \in Iterations
        BY <1>5, <1>15
      <4>3. QED
        BY <4>1, <4>2 DEF Cells
    <3>4. QED
      BY <1>1, <2>2, <3>2, <3>3 DEF m
  <2>3. CASE ~(it = n /\ q = r)
    <3>1. m \notin row
      <4> SUFFICES ASSUME m \in row
                   PROVE  FALSE
        OBVIOUS
      <4>1. PICK other \in Tests : m = idx(n, r, other)
        BY <1>17
      <4>2. it = n /\ q = r
        BY <2>0, <4>1, PlaceUnique DEF idx
      <4>3. QED
        BY <2>3, <4>2
    <3>2. all'[m] = all[m]
      BY <2>1, <3>1
    <3>3. (pos'[q] > B + it + 1) <=> (pos[q] > B + it + 1)
      <4>1. CASE q # r
        BY <1>8, <4>1
      <4>2. CASE q = r
        <5>1. it # n /\ pos[r] = B + n + 1 /\ pos'[r] = B + n + 2
          BY <1>5, <1>8, <2>0, <2>3, <4>2 DEF p
        <5>2. QED
          BY <2>0, <4>2, <5>1
      <4>3. QED
        BY <4>1, <4>2
    <3>4. QED
      BY <1>1, <1>16, <3>2, <3>3
  <2>4. QED
    BY <2>2, <2>3
<1>22. ASSUME NEW it \in Iterations, pos'[0] > B + it + 1, NEW q \in Tasks(i)
       PROVE  pos'[q] > B + it + 1
  <2>0. it \in Nat /\ n \in Nat
    BY <1>4, <1>5, <1>15
  <2>1. q \in Ranks /\ 0 \in Ranks /\ 0 \in Tasks(i)
    BY TasksAreRanks
  <2>2. CASE pos[0] > B + it + 1
    <3>1. pos[q] > B + it + 1
      BY <1>16, <2>2
    <3>2. QED
      BY <1>8, <2>0, <2>1, <3>1
  <2>3. CASE ~(pos[0] > B + it + 1)
    <3>1. r = 0
      BY <1>8, <1>22, <2>1, <2>3
    <3>2. pos[r] = B + it + 1 /\ pos'[r] = B + it + 2
      BY <1>5, <1>8, <1>22, <2>0, <2>3, <3>1 DEF p
    <3>3. CASE q = r
      BY <2>0, <3>2, <3>3
    <3>4. CASE q # r
      <4>1. comm[r] = Tasks(i)
        BY <1>6, <1>7 DEF InRound, Members, p
      <4>2. calls[q] > calls[r]
        BY <1>1, <3>1, <3>4, <4>1
      <4>3. pos[r] > B
        BY <1>7 DEF p
      <4>4. pos[q] > pos[r]
        BY <1>2, <1>6, <4>2, <4>3, MoreCallsFurther
      <4>5. QED
        BY <1>8, <2>0, <2>1, <3>2, <3>4, <4>4
    <3>5. QED
      BY <3>3, <3>4
  <2>4. QED
    BY <2>2, <2>3
<1>23. Gathered(i, B)'
  BY <1>15, <1>16, <1>20, <1>21, <1>22 DEF Gathered, Array, I, idx, calc_allreduce_index
<1>24. Reporting(B)'
  <2>1. ASSUME NEW test \in DOMAIN summary
        PROVE  FALSE
    <3>1. pos[0] > B + job.iterations + 1
      BY DEF InRound, Reporting
    <3>2. pos[0] \in Nat /\ job.iterations \in Nat
      BY <1>4, <1>8, TasksAreRanks DEF I
    <3>3. pos[r] > B + job.iterations
      BY <1>6, <3>1, <3>2, SummaryAfterGather
    <3>4. B + job.iterations \in Nat /\ pos[r] \in Nat /\ pos[r] <= B + job.iterations
      BY <1>4, <1>7, <3>2 DEF p, I
    <3>5. QED
      BY <3>3, <3>4
  <2>2. summary' = summary
    BY <1>1
  <2>3. QED
    BY <2>1, <2>2 DEF Reporting
<1>25. QED
  BY <1>9, <1>12, <1>13, <1>14, <1>23, <1>24 DEF InRound

\* Nobody has done anything, whatever the first round is.
LEMMA InitInRound ==
  ASSUME Init, NEW i \in 1 .. NTasks, NEW B \in Nat, Layout(Code, i, B, job.iterations)
  PROVE  InRound(i, B)
<1>1. B # 0 /\ job.iterations \in Nat \ {0}
  BY TimingAssumption DEF Init, Layout, IsJob
<1>2. Amounts
  BY DEF Init, Amounts, Cells
<1>3. Members(i, B)
  <2>1. \A r \in Ranks : pos[r] = 1 /\ ~waiting[r] /\ comm[r] = Ranks
                         /\ table[r] = [it \in Iterations |-> [test \in Tests |-> 0]]
    BY DEF Init
  <2>2. 1 <= B + job.iterations + 2 /\ 2 .. 1 - 1 = {}
    BY <1>1
  <2>3. QED
    BY <2>1, <2>2 DEF Members
<1>4. CallsCounted(i)
  <2>1. \A r \in Tasks(i) : pos[r] = 1 /\ ~waiting[r] /\ calls[r] = 0
    BY TasksAreRanks DEF Init
  <2>2. Cardinality(Passed(1)) = 0
    <3>1. Passed(1) = {}
      BY DEF Passed
    <3>2. QED
      BY <3>1, FS_EmptySet
  <2>3. QED
    BY <2>1, <2>2 DEF CallsCounted
<1>5. Gathered(i, B)
  <2>1. DOMAIN all = Array(job) /\ \A place \in Array(job) : all[place] \in Int
    <3>1. PICK memory \in Memory : all = [place \in Array(job) |-> memory[place]]
      BY DEF Init
    <3>2. job \in Jobs
      BY DEF Init
    <3>3. QED
      BY <3>1, <3>2, MemoryAssumption
  <2>2. Iterations = 0 .. job.iterations - 1
    BY DEF Iterations
  <2>3. ASSUME NEW it \in Iterations
        PROVE  \A r \in Ranks : ~(pos[r] > B + it + 1)
    <3>1. \A r \in Ranks : pos[r] = 1
      BY DEF Init
    <3>2. it \in Nat
      BY <1>1, <2>2
    <3>3. QED
      BY <1>1, <3>1, <3>2
  <2>4. ASSUME NEW it \in Iterations, NEW r \in Ranks, NEW test \in Tests
        PROVE  all[calc_allreduce_index(it, r, test)] \in Int
    <3>1. it \in 0 .. job.iterations - 1 /\ job.iterations \in Nat
      BY <1>1, <2>2
    <3>2. calc_allreduce_index(it, r, test) \in Array(job)
      BY <3>1, PlaceIn DEF Array
    <3>3. QED
      BY <2>1, <3>2
  <2>5. 0 \in Ranks
    BY TasksAreRanks
  <2>6. QED
    BY <2>1, <2>3, <2>4, <2>5 DEF Gathered
<1>6. Reporting(B)
  BY DEF Init, Reporting
<1>7. QED
  BY <1>2, <1>3, <1>4, <1>5, <1>6 DEF InRound

LEMMA InitSInv == Init => SInv
<1> SUFFICES ASSUME Init
             PROVE  SInv
  OBVIOUS
<1>1. TInv /\ job \in Jobs /\ DOMAIN summary = {}
  BY InitTInv DEF Init
<1>2. QED
  BY <1>1, InitInRound, CodeLayout DEF SInv, Code

\* A step in a round leaves it the same round.
LEMMA NextInRound ==
  ASSUME TInv, NEW i \in 1 .. NTasks, NEW B \in Nat, InRound(i, B), [Next]_vars
  PROVE  InRound(i, B)'
<1>1. CASE Tick \/ UNCHANGED vars
  BY <1>1, RoundStays DEF Tick, vars, control, times
<1>2. ASSUME NEW r \in Ranks, RankStep(r)
      PROVE  InRound(i, B)'
  <2>1. Quiet(r) \/ Record(r) \/ Arrive(r) \/ Leave(r) \/ Gather(r) \/ Summarize(r)
    BY <1>2, KindsOfSteps
  <2>2. TInv'
    BY NextTInv
  <2>3. CASE Quiet(r)
    BY <2>2, <2>3, QuietInRound
  <2>4. CASE Record(r)
    BY <2>2, <2>4, RecordInRound
  <2>5. CASE Arrive(r)
    BY <2>2, <2>5, ArriveInRound
  <2>6. CASE Leave(r)
    BY <2>2, <2>6, LeaveInRound
  <2>7. CASE Gather(r)
    BY <2>2, <2>7, GatherInRound
  <2>8. CASE Summarize(r)
    BY <2>2, <2>8, SummarizeInRound
  <2>9. QED
    BY <2>1, <2>3, <2>4, <2>5, <2>6, <2>7, <2>8
<1>3. QED
  BY <1>1, <1>2 DEF Next

\* Where the job has nothing to do nothing happens to the summary.
LEMMA NothingToDo ==
  ASSUME TInv, [Next]_vars, Len(Code) = 0 /\ DOMAIN summary = {}
  PROVE  (Len(Code) = 0 /\ DOMAIN summary = {})'
<1>1. CASE Tick \/ UNCHANGED vars
  BY <1>1 DEF Tick, vars, control, times, Code
<1>2. ASSUME NEW r \in Ranks, RankStep(r)
      PROVE  FALSE
  <2>1. pos[r] \in Nat \ {0}
    BY DEF TInv, Types
  <2>2. Finished(r)
    BY <2>1 DEF Finished
  <2>3. ~waiting[r]
    BY <2>2 DEF TInv, AtTheCall
  <2>4. QED
    BY <1>2, <2>2, <2>3 DEF RankStep, Skip, TakeStamp, OffsetTimers, Begin, End, Record,
                            Arrive, Leave, Gather, Summarize, At
<1>3. QED
  BY <1>1, <1>2 DEF Next

LEMMA NextSInv == SInv /\ [Next]_vars => SInv'
  BY NextTInv, NextInRound, NothingToDo DEF SInv

LEMMA SInvAlways == Spec => []SInv
  BY InitSInv, NextSInv, PTL DEF Spec

-----------------------------------------------------------------------------
(* Sums over the gathered table *)

LEMMA SumIs ==
  ASSUME NEW f, IsFiniteSet(DOMAIN f)
  PROVE  \E g : Sums(g, f, SUBSET DOMAIN f) /\ Sum(f) = g[DOMAIN f]
<1> DEFINE S == DOMAIN f
           It(g) == g = [s \in SUBSET S |->
                           IF s = {} THEN 0
                           ELSE LET x == CHOOSE y \in s : TRUE
                                IN  f[x] + g[s \ {x}]]
<1>1. Sum(f) = (CHOOSE g : It(g))[S]
  BY DEF Sum, MapThenSumSet, MapThenFoldSet
<1> HIDE DEF S
<1>2. \A g : It(g) <=> Sums(g, f, SUBSET S)
  BY DEF Sums, Pick
<1>3. \E g : It(g)
  <2>1. PICK g : Sums(g, f, SUBSET S)
    BY SumsExist DEF S
  <2> HIDE DEF It
  <2>2. QED
    BY <1>2, <2>1
<1>4. It(CHOOSE g : It(g))
  <2> HIDE DEF It
  <2>1. QED
    BY <1>3
<1> HIDE DEF It
<1>5. QED
  BY <1>1, <1>2, <1>4 DEF S

LEMMA SameSum ==
  ASSUME NEW f, IsFiniteSet(DOMAIN f), NEW h, IsFiniteSet(DOMAIN h),
         NEW b, Paired(b, DOMAIN f, f, DOMAIN h, h)
  PROVE  Sum(f) = Sum(h)
<1> DEFINE S == DOMAIN f
           T == DOMAIN h
<1>1. PICK g : Sums(g, f, SUBSET S) /\ Sum(f) = g[S]
  BY SumIs
<1>2. PICK k : Sums(k, h, SUBSET T) /\ Sum(h) = k[T]
  BY SumIs
<1>3. IsFiniteSet(S) /\ IsFiniteSet(T) /\ Paired(b, S, f, T, h)
  OBVIOUS
<1> HIDE DEF S, T
<1>4. PairedSums(b, S, f, g, T, h, k)
  BY <1>1, <1>2, <1>3 DEF PairedSums
<1>5. g[S] = k[T]
  BY <1>4, SumsAgree
<1>6. QED
  BY <1>1, <1>2, <1>5

\* When there is a summary the rows of all the tasks have been gathered.
LEMMA AllGathered ==
  ASSUME TInv, NEW i \in 1 .. NTasks, NEW B \in Nat, InRound(i, B),
         NEW test \in DOMAIN summary, test < TreeCreation
  PROVE  /\ test \in Tests /\ summary[test] = TestLine(test) /\ table \in Cells
         /\ comm[0] = Tasks(i)
         /\ \A it \in Iterations, r \in Ranks :
              LET place == calc_allreduce_index(it, r, test)
              IN  /\ all[place] \in Int
                  /\ r \in Tasks(i) => all[place] = table[r][it][test]
<1>1. InRound(i, B)
  OBVIOUS
<1>2. TInv
  OBVIOUS
<1>3. job.iterations \in Nat \ {0} /\ Iterations = 0 .. job.iterations - 1
  BY <1>2, TimingAssumption DEF IsJob, TInv, Types, Iterations
<1>4. \A r \in Ranks : pos[r] \in Nat
  BY <1>2 DEF TInv, Types
<1>5. /\ pos[0] > B + job.iterations + 1
      /\ test \in Tests /\ summary[test] = TestLine(test)
  BY <1>1 DEF InRound, Reporting
<1>6. \A r \in Tasks(i) : pos[r] > B + job.iterations
  <2>1. pos[0] > B + job.iterations
    BY <1>3, <1>4, <1>5, TasksAreRanks
  <2>2. QED
    BY <1>1, <1>2, <2>1, SummaryAfterGather
<1>7. table \in Cells
  BY <1>1 DEF InRound, Amounts
<1>8. ASSUME NEW it \in Iterations, NEW r \in Ranks
      PROVE  LET place == calc_allreduce_index(it, r, test)
             IN  /\ all[place] \in Int
                 /\ r \in Tasks(i) => all[place] = table[r][it][test]
  <2>1. LET place == calc_allreduce_index(it, r, test)
        IN  /\ all[place] \in Int
            /\ pos[r] > B + it + 1 => all[place] = table[r][it][test]
    BY <1>1, <1>5 DEF InRound, Gathered
  <2>2. CASE r \in Tasks(i)
    <3>1. pos[r] > B + it + 1
      <4>1. it \in Nat /\ it <= job.iterations - 1
        BY <1>3
      <4>2. pos[r] > B + job.iterations /\ pos[r] \in Nat
        BY <1>4, <1>6, <2>2
      <4>3. QED
        BY <1>3, <4>1, <4>2
    <3>2. QED
      BY <2>1, <3>1
  <2>3. QED
    BY <2>1, <2>2
<1>9. comm[0] = Tasks(i)
  <2>1. 0 \in Ranks /\ 0 \in Tasks(i)
    BY TasksAreRanks
  <2>2. pos[0] # 1
    BY <1>3, <1>4, <1>5, <2>1
  <2>3. QED
    BY <1>1, <2>1, <2>2 DEF InRound, Members
<1>10. QED
  BY <1>5, <1>7, <1>8, <1>9

\* The terms of the two sums are paired off by the place of an entry.
LEMMA EntriesAtPlaces ==
  ASSUME job \in Jobs, NEW test \in Tests
  PROVE  LET entries == Ranks \X Iterations
             b == [e \in entries |-> calc_allreduce_index(e[2], e[1], test)]
         IN  /\ IsFiniteSet(entries) /\ IsFiniteSet(Iterations) /\ IsFiniteSet(Places(test))
             /\ Places(test) = {b[e] : e \in entries}
             /\ \A e \in entries, d \in entries : b[e] = b[d] => e = d
<1> DEFINE entries == Ranks \X Iterations
           at(e) == calc_allreduce_index(e[2], e[1], test)
           b == [e \in entries |-> at(e)]
           I == job.iterations
<1>1. I \in Nat \ {0} /\ Iterations = 0 .. I - 1 /\ NTasks \in Nat \ {0}
  BY TimingAssumption DEF IsJob, Iterations
<1>2. IsFiniteSet(Iterations) /\ IsFiniteSet(Ranks)
  <2>1. I - 1 \in Int /\ NTasks - 1 \in Int /\ 0 \in Int
    BY <1>1
  <2> HIDE DEF I
  <2>2. QED
    BY <1>1, <2>1, FS_Interval DEF Ranks
<1>3. IsFiniteSet(entries)
  BY <1>2, FS_Product
<1>4. \A e \in entries : b[e] = at(e) /\ e[1] \in Ranks /\ e[2] \in Iterations
  OBVIOUS
<1>5. Places(test) = {b[e] : e \in entries}
  <2>1. ASSUME NEW it \in Iterations, NEW r \in Ranks
        PROVE  \E e \in entries : calc_allreduce_index(it, r, test) = b[e]
    <3>1. <<r, it>> \in entries /\ b[<<r, it>>] = calc_allreduce_index(it, r, test)
      OBVIOUS
    <3> HIDE DEF b
    <3>2. QED
      BY <3>1
  <2> HIDE DEF b, entries
  <2>2. QED
    BY <1>4, <2>1 DEF Places
<1>6. IsFiniteSet(Places(test))
  <2> DEFINE top == I * NTasks * TableSize - 1
  <2>1. top \in Int
    <3>1. I * NTasks \in Int
      BY <1>1
    <3>2. QED
      BY <3>1 DEF TableSize
  <2>2. \A it \in Iterations, r \in Ranks : calc_allreduce_index(it, r, test) \in 0 .. top
    BY <1>1, PlaceIn
  <2> HIDE DEF top
  <2>3. Places(test) \in SUBSET (0 .. top)
    BY <2>2 DEF Places
  <2>4. QED
    <3>1. IsFiniteSet(0 .. top)
      BY <2>1, FS_Interval
    <3>2. QED
      BY <2>3, <3>1, FS_Subset
<1>7. ASSUME NEW e \in entries, NEW d \in entries, b[e] = b[d]
      PROVE  e = d
  <2>1. e[1] \in Ranks /\ e[2] \in Iterations /\ d[1] \in Ranks /\ d[2] \in Iterations
    OBVIOUS
  <2>2. e[2] \in Int /\ d[2] \in Int
    BY <1>1, <2>1
  <2>3. at(e) = at(d)
    BY <1>4, <1>7
  <2>4. e[1] = d[1] /\ e[2] = d[2]
    BY <2>1, <2>2, <2>3, PlaceUnique
  <2>5. QED
    BY <2>4
<1> HIDE DEF b, entries
<1>8. QED
  BY <1>2, <1>3, <1>5, <1>6, <1>7 DEF b, entries

\* The deviation goes through the entries rank by rank, in an order that is not the one
\* of calc_allreduce_index: it meets the same entries.
THEOREM DeviationSeesAll ==
  ASSUME job \in Jobs, NEW test \in Tests
  PROVE  Deviating(test) = Places(test)
<1> DEFINE I == job.iterations
           N == NTasks
           c(it, r) == calc_allreduce_index(it, r, test)
           d(k, j) == (k * TableSize * I) + (j * TableSize) + test
           g(m) == TableSize * m + test
<1>1. I \in Nat \ {0} /\ N \in Nat \ {0} /\ TableSize \in Nat /\ test \in Int
  BY TimingAssumption DEF IsJob, TableSize, Tests
<1>2. Iterations = 0 .. I - 1 /\ Ranks = 0 .. N - 1
  BY DEF Iterations, Ranks
<1>3. ASSUME NEW it \in Iterations, NEW r \in Ranks
      PROVE  c(it, r) = g(it * N + r)
  <2> HIDE DEF I, N
  <2>1. it \in Int /\ r \in Int
    BY <1>1, <1>2
  <2>2. QED
    BY <1>1, <2>1 DEF calc_allreduce_index, TableSize, N
<1>4. ASSUME NEW k \in Ranks, NEW j \in Iterations
      PROVE  d(k, j) = g(k * I + j)
  <2> HIDE DEF I, N
  <2>1. k \in Int /\ j \in Int
    BY <1>1, <1>2
  <2>2. QED
    BY <1>1, <2>1 DEF TableSize
<1>5. I * N = N * I
  <2> HIDE DEF I, N
  <2>1. QED
    BY <1>1
<1> HIDE DEF g, d, c, I, N
<1>6. ASSUME NEW it \in Iterations, NEW r \in Ranks
      PROVE  \E k \in Ranks, j \in Iterations : c(it, r) = d(k, j)
  <2>1. it * N + r \in 0 .. N * I - 1
    BY <1>1, <1>2, <1>5, RowByRow
  <2> DEFINE m == it * N + r
  <2>0. m \in 0 .. N * I - 1
    BY <2>1
  <2> HIDE DEF m
  <2>2. PICK k \in 0 .. N - 1, j \in 0 .. I - 1 : m = k * I + j
    BY ZenonT(30), <1>1, <2>0, RowByRow
  <2>3. QED
    BY <1>2, <1>3, <1>4, <2>2 DEF m
<1>7. ASSUME NEW k \in Ranks, NEW j \in Iterations
      PROVE  \E it \in Iterations, r \in Ranks : d(k, j) = c(it, r)
  <2>1. k * I + j \in 0 .. I * N - 1
    BY <1>1, <1>2, <1>5, RowByRow
  <2> DEFINE m == k * I + j
  <2>0. m \in 0 .. I * N - 1
    BY <2>1
  <2> HIDE DEF m
  <2>2. PICK it \in 0 .. I - 1, r \in 0 .. N - 1 : m = it * N + r
    BY <1>1, <2>0, RowByRow
  <2>3. QED
    BY <1>2, <1>3, <1>4, <2>2 DEF m
<1>8. ASSUME NEW p \in Places(test)
      PROVE  p \in Deviating(test)
  <2>1. PICK it \in Iterations, r \in Ranks : p = c(it, r)
    BY DEF Places, c
  <2>2. PICK k \in Ranks, j \in Iterations : p = d(k, j)
    BY <1>6, <2>1
  <2>3. QED
    BY <2>2 DEF Deviating, d, I
<1>9. ASSUME NEW p \in Deviating(test)
      PROVE  p \in Places(test)
  <2>1. PICK k \in Ranks, j \in Iterations : p = d(k, j)
    BY DEF Deviating, d, I
  <2>2. PICK it \in Iterations, r \in Ranks : p = c(it, r)
    BY <1>7, <2>1
  <2>3. QED
    BY <2>2 DEF Places, c
<1>10. QED
  BY <1>8, <1>9

\* The lines hold what they are meant to.
LEMMA LinesRight == SInv => SummaryRight
<1> SUFFICES ASSUME SInv, NEW test \in DOMAIN summary, comm[0] = Ranks, test < TreeCreation
             PROVE  LET entries == Ranks \X Iterations
                        time(e) == table[e[1]][e[2]][test]
                        times_ == {time(e) : e \in entries}
                        slowest(it) == Largest({table[r][it][test] : r \in Ranks})
                    IN  summary[test] =
                          [min |-> Smallest(times_), max |-> Largest(times_),
                           sum |-> Sum([e \in entries |-> time(e)]),
                           squares |-> Sum([e \in entries |-> time(e) * time(e)]),
                           imax |-> Largest({slowest(it) : it \in Iterations}),
                           imin |-> Smallest({slowest(it) : it \in Iterations}),
                           isum |-> Sum([it \in Iterations |-> slowest(it)])]
  BY DEF SummaryRight
<1> DEFINE entries == Ranks \X Iterations
           time(e) == table[e[1]][e[2]][test]
           slowest(it) == Largest({table[r][it][test] : r \in Ranks})
           b == [e \in entries |-> calc_allreduce_index(e[2], e[1], test)]
           f == [e \in entries |-> time(e)]
           f2 == [e \in entries |-> time(e) * time(e)]
           h == [p \in Places(test) |-> all[p]]
           h2 == [p \in Places(test) |-> all[p] * all[p]]
<1>1. /\ test \in Tests /\ summary[test] = TestLine(test) /\ table \in Cells
      /\ \A it \in Iterations, r \in Ranks :
           all[calc_allreduce_index(it, r, test)] = table[r][it][test]
  <2>1. PICK i \in 1 .. NTasks, B \in Nat : InRound(i, B)
    BY DEF SInv
  <2>2. TInv
    BY DEF SInv
  <2>3. Tasks(i) = Ranks
    BY <2>1, <2>2, AllGathered
  <2>4. QED
    BY <2>1, <2>2, <2>3, AllGathered
<1>2. job \in Jobs
  BY DEF SInv, TInv, Types
<1>3. /\ IsFiniteSet(entries) /\ IsFiniteSet(Places(test))
      /\ Places(test) = {b[e] : e \in entries}
      /\ \A e \in entries, d \in entries : b[e] = b[d] => e = d
  BY <1>1, <1>2, EntriesAtPlaces
<1>4. \A e \in entries : e[1] \in Ranks /\ e[2] \in Iterations /\ time(e) \in Int
  BY <1>1 DEF Cells
<1>5. \A e \in entries : all[b[e]] = time(e)
  BY <1>1, <1>4
<1>6. {all[p] : p \in Places(test)} = {time(e) : e \in entries}
  <2> HIDE DEF b, time, entries
  <2>1. QED
    BY <1>3, <1>5
<1>7. \A it \in Iterations : IterationTime(test, it) = slowest(it)
  <2> SUFFICES ASSUME NEW it \in Iterations
               PROVE  IterationTime(test, it) = slowest(it)
    OBVIOUS
  <2>1. {all[calc_allreduce_index(it, r, test)] : r \in Ranks} = {table[r][it][test] : r \in Ranks}
    BY <1>1
  <2>2. QED
    BY <2>1 DEF IterationTime
<1> HIDE DEF b, time, entries, slowest
<1>8. /\ {IterationTime(test, it) : it \in Iterations} = {slowest(it) : it \in Iterations}
      /\ [it \in Iterations |-> IterationTime(test, it)] = [it \in Iterations |-> slowest(it)]
  BY <1>7
<1>9. DOMAIN f = entries /\ DOMAIN f2 = entries /\ DOMAIN h = Places(test)
      /\ DOMAIN h2 = Places(test)
  OBVIOUS
<1>10. \A e \in entries : b[e] \in Places(test)
  BY <1>3
<1>11. Sum(f) = Sum(h)
  <2>1. \A e \in entries : f[e] = h[b[e]] /\ f[e] \in Int
    BY <1>4, <1>5, <1>10
  <2> HIDE DEF f, h
  <2>2. Paired(b, DOMAIN f, f, DOMAIN h, h)
    BY <1>3, <1>9, <2>1 DEF Paired
  <2>3. IsFiniteSet(DOMAIN f) /\ IsFiniteSet(DOMAIN h)
    BY <1>3, <1>9
  <2>4. QED
    BY <2>2, <2>3, SameSum
<1>12. Sum(f2) = Sum(h2)
  <2>1. \A e \in entries : f2[e] = h2[b[e]] /\ f2[e] \in Int
    <3> SUFFICES ASSUME NEW e \in entries
                 PROVE  f2[e] = h2[b[e]] /\ f2[e] \in Int
      OBVIOUS
    <3>1. f2[e] = time(e) * time(e) /\ h2[b[e]] = all[b[e]] * all[b[e]]
      BY <1>10
    <3>2. QED
      BY <1>4, <1>5, <3>1
  <2> HIDE DEF f2, h2
  <2>2. Paired(b, DOMAIN f2, f2, DOMAIN h2, h2)
    BY <1>3, <1>9, <2>1 DEF Paired
  <2>3. IsFiniteSet(DOMAIN f2) /\ IsFiniteSet(DOMAIN h2)
    BY <1>3, <1>9
  <2>4. QED
    BY <2>2, <2>3, SameSum
<1>13. Deviating(test) = Places(test)
  BY <1>1, <1>2, DeviationSeesAll
<1>14. TestLine(test) =
         [min |-> Smallest({time(e) : e \in entries}),
          max |-> Largest({time(e) : e \in entries}),
          sum |-> Sum(f), squares |-> Sum(f2),
          imax |-> Largest({slowest(it) : it \in Iterations}),
          imin |-> Smallest({slowest(it) : it \in Iterations}),
          isum |-> Sum([it \in Iterations |-> slowest(it)])]
  BY Zenon, <1>6, <1>8, <1>11, <1>12, <1>13 DEF TestLine
<1>15. QED
  BY <1>1, <1>14 DEF f, f2, entries, time, slowest

\* Whatever the ranks' clocks read, in whatever order the ranks send and whatever the memory
\* of the array held: if all the ranks are tasks, the line of a test is about every rank and
\* every iteration once, and says of their times what its columns say.
THEOREM SummaryIsRight == Spec => []SummaryRight
  BY SInvAlways, LinesRight, PTL

-----------------------------------------------------------------------------
(* What is measured *)

\* What is measured: a test of an iteration with i tasks, the instructions that record it,
\* its first stamp, and the ranks whose work it is about.
Measured(i, it, test) ==
  LET base == IF test < FileTest THEN DirTest
              ELSE IF test < TreeCreation THEN FileTest ELSE test
  IN  [it |-> it, test |-> test, base |-> base,
       k |-> IF test < TreeCreation THEN test - base ELSE StartCreate,
       W |-> IF test < TreeCreation THEN Tasks(i) ELSE {0}]

Bases == {DirTest, FileTest, TreeCreation, TreeRemoval}
RowsOf(base) ==
  IF base \in {TreeCreation, TreeRemoval} THEN {base} ELSE {base + k : k \in 0 .. 3}

IsMeasure(m) ==
  /\ m.it \in Nat /\ m.base \in Bases /\ m.test \in RowsOf(m.base)
  /\ m.W \in SUBSET Ranks /\ 0 \in m.W
  /\ m.k = IF m.base \in {TreeCreation, TreeRemoval} THEN StartCreate ELSE m.test - m.base

LEMMA MeasuredIs ==
  ASSUME NEW i \in 1 .. NTasks, NEW it \in Nat, NEW test \in Tests
  PROVE  IsMeasure(Measured(i, it, test)) /\ Measured(i, it, test).W \subseteq Tasks(i)
<1> DEFINE m == Measured(i, it, test)
<1>1. Tasks(i) \in SUBSET Ranks /\ 0 \in Tasks(i)
  BY TasksAreRanks
<1>2. /\ m.it = it /\ m.test = test
      /\ m.base = (IF test < FileTest THEN DirTest
                   ELSE IF test < TreeCreation THEN FileTest ELSE test)
      /\ m.k = (IF test < TreeCreation THEN test - m.base ELSE StartCreate)
      /\ m.W = (IF test < TreeCreation THEN Tasks(i) ELSE {0})
  BY DEF Measured
<1> HIDE DEF m
<1>3. test \in 0 .. 9
  BY DEF Tests, TableSize
<1>4. m.W \in SUBSET Ranks /\ 0 \in m.W /\ m.W \subseteq Tasks(i)
  BY <1>1, <1>2
<1>5. CASE test < 4
  <2>1. m.base = 0 /\ m.test - 0 \in 0 .. 3 /\ m.test = 0 + (m.test - 0) /\ m.k = m.test - 0
    BY <1>2, <1>3, <1>5 DEF FileTest, DirTest, TreeCreation
  <2>2. m.test \in RowsOf(m.base)
    BY <2>1 DEF RowsOf, TreeCreation, TreeRemoval
  <2>3. QED
    BY <1>2, <1>4, <2>1, <2>2 DEF IsMeasure, m, Bases, DirTest, TreeCreation, TreeRemoval
<1>6. CASE test >= 4 /\ test < 8
  <2>1. m.base = 4 /\ m.test - 4 \in 0 .. 3 /\ m.test = 4 + (m.test - 4) /\ m.k = m.test - 4
    BY <1>2, <1>3, <1>6 DEF FileTest, DirTest, TreeCreation
  <2>2. m.test \in RowsOf(m.base)
    BY <2>1 DEF RowsOf, TreeCreation, TreeRemoval
  <2>3. QED
    BY <1>2, <1>4, <2>1, <2>2 DEF IsMeasure, m, Bases, FileTest, TreeCreation, TreeRemoval
<1>7. CASE test >= 8
  <2>1. m.base = m.test /\ m.test \in {8, 9} /\ m.k = StartCreate
    BY <1>2, <1>3, <1>7 DEF FileTest, DirTest, TreeCreation
  <2>2. QED
    BY <1>2, <1>4, <2>1 DEF IsMeasure, m, Bases, RowsOf, TreeCreation, TreeRemoval
<1>8. QED
  BY <1>3, <1>5, <1>6, <1>7

-----------------------------------------------------------------------------
(* The frame of a measurement *)

\* Instructions of an iteration: those that have nothing to do with a measurement, those
\* between its first stamp and the barrier, and those between the last stamp and the record.
Plain == [do : Inside, n : Subject, by : SUBSET Ranks]
Else(m) ==
  {x \in Plain : /\ x.do \in {"begin", "end"} => x.n # <<m.it, m.test>>
                 /\ x.do = "record" => x.n # <<m.it, m.base>>}
Lap(m) ==
  {x \in Plain : /\ x.do \in {"barrier", "begin", "end"}
                 /\ x.do \in {"begin", "end"} => x.by \subseteq m.W}
Rest(m) ==
  {x \in Else(m) : /\ x.do = "stamp" => x.n # m.k /\ x.n # m.k + 1
                   /\ x.do = "offset" => x.n # m.k}

\* A measurement: the first stamp of all who work, the work, a barrier, the last stamp, and
\* the record.
Ends(s, b, n, r, m) ==
  /\ s \in Plain /\ s.do \in {"stamp", "offset"} /\ s.n = m.k /\ m.W \subseteq s.by
  /\ b \in Plain /\ b.do = "barrier"
  /\ n \in Plain /\ n.do = "stamp" /\ n.n = m.k + 1 /\ m.W \subseteq n.by
  /\ r \in Plain /\ r.do = "record" /\ r.n = <<m.it, m.base>> /\ m.W \subseteq r.by

Core(s, L, b, n, Z, r) == <<s>> \o (L \o (<<b>> \o (<<n>> \o (Z \o <<r>>))))

IsCore(h, m) ==
  /\ h \in Seq(Plain)
  /\ \E s, b, n, r \in Plain : \E L \in Seq(Lap(m)), Z \in Seq(Rest(m)) :
       Ends(s, b, n, r, m) /\ h = Core(s, L, b, n, Z, r)

\* A piece of the code with one measurement in it, and nothing else about it.
Framed(e, m) ==
  \E a, y \in Seq(Else(m)) : \E h : IsCore(h, m) /\ e = a \o (h \o y)

LEMMA KindsArePlain ==
  ASSUME NEW m
  PROVE  /\ Else(m) \in SUBSET Plain /\ Lap(m) \in SUBSET Plain
         /\ Rest(m) \in SUBSET Plain /\ Rest(m) \in SUBSET Else(m)
  BY DEF Else, Lap, Rest

LEMMA FramedJoined ==
  ASSUME NEW m, NEW e, Framed(e, m), NEW x \in Seq(Else(m))
  PROVE  e \in Seq(Plain) /\ Framed(x \o e, m) /\ Framed(e \o x, m)
<1> DEFINE F == Else(m)
<1>0. PICK a \in Seq(F), y \in Seq(F) : \E h : IsCore(h, m) /\ e = a \o (h \o y)
  BY DEF Framed
<1>1. PICK h : IsCore(h, m) /\ e = a \o (h \o y)
  BY <1>0
<1>2. F \in SUBSET Plain /\ x \in Seq(F)
  BY KindsArePlain
<1> HIDE DEF F
<1>3. a \in Seq(Plain) /\ y \in Seq(Plain) /\ x \in Seq(Plain) /\ h \in Seq(Plain)
  BY <1>1, <1>2, SeqGrows DEF IsCore
<1> DEFINE hy == h \o y
           yx == y \o x
           xa == x \o a
<1>4. hy \in Seq(Plain)
  BY <1>3, Joined
<1>5. yx \in Seq(F) /\ xa \in Seq(F)
  BY <1>2, Joined
<1>6. hy \o x = h \o yx
  <2>1. Three(Plain, h, y, x)
    BY <1>3 DEF Three
  <2>2. QED
    BY <2>1, ThreeRegrouped
<1> HIDE DEF hy
<1>7. xa \o hy = x \o (a \o hy)
  <2>1. Three(Plain, x, a, hy)
    BY <1>3, <1>4 DEF Three
  <2>2. QED
    BY <2>1, ThreeRegrouped
<1>8. (a \o hy) \o x = a \o (hy \o x)
  <2>1. Three(Plain, a, hy, x)
    BY <1>3, <1>4 DEF Three
  <2>2. QED
    BY <2>1, ThreeRegrouped
<1>9. e = a \o hy
  BY <1>1 DEF hy
<1>10. e \in Seq(Plain)
  BY <1>3, <1>4, <1>9, Joined
<1> HIDE DEF yx, xa
<1>11. x \o e = xa \o (h \o y)
  BY <1>7, <1>9 DEF hy
<1>12. e \o x = a \o (h \o yx)
  BY <1>6, <1>8, <1>9
<1>13. Framed(x \o e, m)
  BY <1>1, <1>5, <1>11 DEF Framed, F
<1>14. Framed(e \o x, m)
  BY <1>1, <1>5, <1>12 DEF Framed, F
<1>15. QED
  BY <1>10, <1>13, <1>14

\* The calls and the record of the tests of an iteration are their own.
Owned(it, base) ==
  {x \in Plain : /\ x.do \in {"begin", "end"} => \E row \in RowsOf(base) : x.n = <<it, row>>
                 /\ x.do = "record" => x.n = <<it, base>>}

LEMMA OwnedElsewhere ==
  ASSUME NEW it \in Nat, NEW base \in Bases, NEW m, IsMeasure(m), m.it # it \/ m.base # base
  PROVE  Owned(it, base) \subseteq Else(m)
<1>1. m.base # base => m.test \notin RowsOf(base)
  BY DEF IsMeasure, Bases, RowsOf, DirTest, FileTest, TreeCreation, TreeRemoval
<1>2. QED
  BY <1>1 DEF Owned, Else

LEMMA PlainDo ==
  ASSUME NEW do \in Inside, NEW n \in Subject, NEW by \in SUBSET Ranks
  PROVE  Do(do, n, by) \in Plain
  BY DEF Do, Plain

LEMMA SubjectsAre ==
  ASSUME NEW it \in Nat, NEW base \in Bases
  PROVE  /\ Nat \subseteq Subject
         /\ <<it, base>> \in Subject
         /\ \A row \in RowsOf(base) : <<it, row>> \in Subject
         /\ base \in {DirTest, FileTest} =>
              /\ RowsOf(base) = {base + k : k \in 0 .. 3}
              /\ \A k \in 0 .. 3 : base + k \in Nat
<1>1. base \in Nat /\ RowsOf(base) \subseteq Nat
  BY DEF Bases, RowsOf, DirTest, FileTest, TreeCreation, TreeRemoval
<1>2. QED
  BY <1>1 DEF Subject, Bases, RowsOf, DirTest, FileTest, TreeCreation, TreeRemoval

\* What a kind of instruction needs to cover the code of a test.
LEMMA TestTested ==
  ASSUME NEW j, NEW it \in Nat, NEW base \in {DirTest, FileTest}, NEW by \in SUBSET Ranks,
         0 \in by
  PROVE  Tested(Owned(it, base), j, it, base, by)
<1> DEFINE F == Owned(it, base)
<1>1. base \in Bases
  BY DEF Bases
<1>2. /\ Nat \subseteq Subject /\ <<it, base>> \in Subject /\ {0} \in SUBSET Ranks
      /\ \A k \in 0 .. 3 : base + k \in RowsOf(base) /\ <<it, base + k>> \in Subject
  BY <1>1, SubjectsAre
<1>3. Meets(F, by)
  <2>1. Do("barrier", 0, by) \in Plain
    BY <1>2, PlainDo DEF Inside
  <2>2. QED
    BY <2>1 DEF Meets, Owned, Do
<1>4. ASSUME NEW k \in 0 .. 4
      PROVE  Do("stamp", k, by) \in F /\ Do("offset", k, by) \in F
  <2>1. k \in Subject
    BY <1>2
  <2>2. Do("stamp", k, by) \in Plain /\ Do("offset", k, by) \in Plain
    BY <2>1, PlainDo DEF Inside
  <2>3. QED
    BY <2>2 DEF Owned, Do
<1>5. ASSUME NEW k \in 0 .. 3, NEW do \in {"begin", "end"}, NEW V \in {{0}, by}
      PROVE  Do(do, <<it, base + k>>, V) \in F
  <2> DEFINE row == base + k
  <2>1. row \in RowsOf(base) /\ <<it, row>> \in Subject /\ V \in SUBSET Ranks
    BY <1>2
  <2> HIDE DEF row
  <2>2. Do(do, <<it, row>>, V) \in Plain
    BY <2>1, PlainDo DEF Inside
  <2>3. Do(do, <<it, row>>, V) \in F
    BY <2>1, <2>2 DEF Owned, Do
  <2>4. QED
    BY <2>3 DEF row
<1>6. Do("record", <<it, base>>, by) \in F
  <2>1. Do("record", <<it, base>>, by) \in Plain
    BY <1>2, PlainDo DEF Inside
  <2>2. QED
    BY <2>1 DEF Owned, Do
<1>7. QED
  BY <1>3, <1>4, <1>5, <1>6 DEF Tested, Shifts, Calls

LEMMA TestOwned ==
  ASSUME NEW j \in Jobs, NEW it \in Nat, NEW base \in {DirTest, FileTest},
         NEW i \in 1 .. NTasks
  PROVE  TestCode(j, it, base, Tasks(i)) \in Seq(Owned(it, base))
  BY TasksAreRanks, TestTested, TestIs

\* The code of a tree: the stamps of all, and the work of those who make it.
Growers(j) == IF j.unique_dir_per_task /\ ~j.collective_creates THEN Ranks ELSE {0}

LEMMA TreeIs ==
  ASSUME NEW j, NEW it \in Nat, NEW test \in {TreeCreation, TreeRemoval}
  PROVE  LET s == Do("stamp", StartCreate, Ranks)
             b == Do("barrier", 0, Ranks)
             n == Do("stamp", EndCreate, Ranks)
             r == Do("record", <<it, test>>, Ranks)
         IN  /\ {s, b, n, r} \subseteq Owned(it, test)
             /\ Busy(it, test, Growers(j)) \in Seq(Owned(it, test))
             /\ Busy(it, test, {0}) \in Seq(Lap(Measured(1, it, test)))
             /\ TreeCode(j, it, test) = Core(s, Busy(it, test, Growers(j)), b, n, <<>>, r)
             /\ TreeCode(j, it, test) \in Seq(Owned(it, test))
<1> DEFINE F == Owned(it, test)
           s == Do("stamp", StartCreate, Ranks)
           b == Do("barrier", 0, Ranks)
           n == Do("stamp", EndCreate, Ranks)
           r == Do("record", <<it, test>>, Ranks)
           w == Busy(it, test, Growers(j))
           none == <<>>
<1>1. /\ StartCreate \in Subject /\ EndCreate \in Subject /\ 0 \in Subject
      /\ test \in Bases /\ RowsOf(test) = {test} /\ <<it, test>> \in Subject
      /\ Ranks \in SUBSET Ranks /\ {0} \in SUBSET Ranks /\ Ranks # {}
  BY TimingAssumption DEF Subject, StartCreate, EndCreate, Bases, RowsOf, TreeCreation,
     TreeRemoval, Ranks
<1>2. {s, b, n, r} \subseteq F
  <2>1. s \in Plain /\ b \in Plain /\ n \in Plain /\ r \in Plain
    BY <1>1, PlainDo DEF Inside
  <2>2. QED
    BY <2>1 DEF Owned, Do
<1>3. ASSUME NEW do \in {"begin", "end"}, NEW V \in SUBSET Ranks
      PROVE  Do(do, <<it, test>>, V) \in F
  <2>1. Do(do, <<it, test>>, V) \in Plain
    BY <1>1, PlainDo DEF Inside
  <2>2. QED
    BY <1>1, <2>1 DEF Owned, Do
<1>4. w \in Seq(F)
  <2>1. Growers(j) \in SUBSET Ranks
    BY <1>1 DEF Growers
  <2> DEFINE V == Growers(j)
  <2> HIDE DEF V
  <2>2. Calls(F, it, test, V)
    BY <1>1, <1>3, <2>1 DEF Calls, V
  <2> HIDE DEF F
  <2>3. Busy(it, test, V) \in Seq(F)
    BY <2>2, BusyMade
  <2>4. QED
    BY <2>3 DEF V
<1>5. Busy(it, test, {0}) \in Seq(Lap(Measured(1, it, test)))
  <2> DEFINE G == Lap(Measured(1, it, test))
             V == {0}
  <2>1. Measured(1, it, test).W = {0}
    BY DEF Measured, TreeCreation, TreeRemoval
  <2>2. ASSUME NEW do \in {"begin", "end"}
        PROVE  Do(do, <<it, test>>, V) \in G
    <3>1. Do(do, <<it, test>>, V) \in Plain
      BY <1>1, PlainDo DEF Inside
    <3>2. QED
      BY <2>1, <3>1 DEF Lap, Do
  <2> HIDE DEF G
  <2>3. Calls(G, it, test, V)
    BY <2>2 DEF Calls
  <2> HIDE DEF V
  <2>4. Busy(it, test, V) \in Seq(G)
    BY <2>3, BusyMade
  <2>5. QED
    BY <2>4 DEF G, V
<1>6. TreeCode(j, it, test) = (((<<s>> \o w) \o <<b>>) \o <<n>>) \o <<r>>
  BY <1>1, InsIs DEF TreeCode, Growers, Do
<1> DEFINE ss == <<s>>
           bb == <<b>>
           nn == <<n>>
           rr == <<r>>
<1>7. ss \in Seq(F) /\ bb \in Seq(F) /\ nn \in Seq(F) /\ rr \in Seq(F)
  <2> HIDE DEF s, b, n, r, F
  <2>1. QED
    BY <1>2
<1> HIDE DEF w, F, ss, bb, nn, rr
<1> DEFINE nr == nn \o rr
           bnr == bb \o nr
           sw == ss \o w
<1>8. nr \in Seq(F) /\ sw \in Seq(F)
  BY <1>4, <1>7, Joined
<1>9. (ss \o w) \o bnr = ss \o (w \o bnr)
  <2>1. bnr \in Seq(F)
    BY <1>7, <1>8, Joined
  <2> HIDE DEF bnr
  <2>2. Three(F, ss, w, bnr)
    BY <1>4, <1>7, <2>1 DEF Three
  <2>3. QED
    BY <2>2, ThreeRegrouped
<1>10. ((sw \o bb) \o nn) \o rr = sw \o bnr
  <2> HIDE DEF sw
  <2> DEFINE swb == sw \o bb
  <2>1. swb \in Seq(F)
    BY <1>7, <1>8, Joined
  <2> HIDE DEF swb
  <2>2. (swb \o nn) \o rr = swb \o nr
    <3>1. Three(F, swb, nn, rr)
      BY <1>7, <2>1 DEF Three
    <3>2. QED
      BY <3>1, ThreeRegrouped
  <2> HIDE DEF nr
  <2>3. (sw \o bb) \o nr = sw \o (bb \o nr)
    <3>1. Three(F, sw, bb, nr)
      BY <1>7, <1>8 DEF Three
    <3>2. QED
      BY <3>1, ThreeRegrouped
  <2>4. QED
    BY <2>2, <2>3 DEF swb
<1>11. none \o rr = rr
  BY <1>7, NothingJoined
<1>12. Core(s, w, b, n, none, r) = ss \o (w \o (bb \o (nn \o (none \o rr))))
  BY DEF Core, ss, bb, nn, rr
<1>13. TreeCode(j, it, test) = Core(s, w, b, n, none, r)
  BY <1>6, <1>9, <1>10, <1>11, <1>12 DEF ss, bb, nn, rr
<1>14. TreeCode(j, it, test) \in Seq(F)
  <2> HIDE DEF sw
  <2>1. sw \o bb \in Seq(F)
    BY <1>7, <1>8, Joined
  <2>2. (sw \o bb) \o nn \in Seq(F)
    BY <1>7, <2>1, Joined
  <2>3. ((sw \o bb) \o nn) \o rr \in Seq(F)
    BY <1>7, <2>2, Joined
  <2>4. QED
    BY <1>6, <2>3 DEF sw, ss, bb, nn, rr
<1>15. QED
  BY <1>2, <1>4, <1>5, <1>13, <1>14 DEF F, w

\* A measurement of a directory or file test with i tasks.
OfTest(m, i) ==
  /\ IsMeasure(m) /\ m.base \in {DirTest, FileTest} /\ m.W = Tasks(i)
  /\ m.k \in 0 .. 3 /\ m.test = m.base + m.k

\* Which instructions of a test are before, within and after the frame of one phase.
LEMMA KindsOfTest ==
  ASSUME NEW j, NEW i \in 1 .. NTasks, NEW m, OfTest(m, i)
  PROVE  LET T == Tasks(i)
         IN  /\ Meets(Else(m), T) /\ Meets(Rest(m), T) /\ Meets(Lap(m), T)
             /\ Calls(Lap(m), m.it, m.test, T)
             /\ \A k \in 0 .. 4 : Do("stamp", k, T) \in Else(m) /\ Do("offset", k, T) \in Else(m)
             /\ \A k \in 0 .. 4 : k # m.k => Do("offset", k, T) \in Rest(m)
             /\ \A k \in 0 .. 4 : k > m.k + 1 => Do("stamp", k, T) \in Rest(m)
             /\ \A k \in 0 .. 3 : k # m.k => /\ Calls(Else(m), m.it, m.base + k, T)
                                             /\ Calls(Rest(m), m.it, m.base + k, T)
<1> DEFINE T == Tasks(i)
<1>1. T \in SUBSET Ranks /\ {0} \in SUBSET Ranks /\ {0} \subseteq T
  BY TasksAreRanks
<1>2. /\ m.it \in Nat /\ m.k \in 0 .. 3 /\ m.test = m.base + m.k /\ m.W = T
      /\ m.base \in Nat /\ m.test \in Nat
  BY DEF OfTest, IsMeasure, DirTest, FileTest
<1> HIDE DEF T
<1>3. Nat \subseteq Subject /\ \A row \in Nat : <<m.it, row>> \in Subject
  BY <1>2 DEF Subject
<1>4. Do("barrier", 0, T) \in Plain
  BY <1>1, <1>3, PlainDo DEF Inside
<1>5. Meets(Else(m), T) /\ Meets(Rest(m), T) /\ Meets(Lap(m), T)
  BY <1>4 DEF Meets, Else, Rest, Lap, Do
<1>6. ASSUME NEW do \in {"begin", "end"}, NEW V \in {{0}, T}, NEW row \in Nat
      PROVE  /\ Do(do, <<m.it, row>>, V) \in Plain
             /\ Do(do, <<m.it, row>>, V) \in Lap(m)
             /\ row # m.test => /\ Do(do, <<m.it, row>>, V) \in Else(m)
                                /\ Do(do, <<m.it, row>>, V) \in Rest(m)
  <2>1. V \in SUBSET Ranks /\ V \subseteq m.W
    BY <1>1, <1>2
  <2>2. Do(do, <<m.it, row>>, V) \in Plain
    BY <1>3, <2>1, PlainDo DEF Inside
  <2>3. Do(do, <<m.it, row>>, V) \in Lap(m)
    BY <2>1, <2>2 DEF Lap, Do
  <2>4. ASSUME row # m.test
        PROVE  Do(do, <<m.it, row>>, V) \in Else(m)
    BY <2>2, <2>4 DEF Else, Do
  <2>5. ASSUME row # m.test
        PROVE  Do(do, <<m.it, row>>, V) \in Rest(m)
    BY <2>4, <2>5 DEF Rest, Do
  <2>6. QED
    BY <2>2, <2>3, <2>4, <2>5
<1>7. Calls(Lap(m), m.it, m.test, T)
  BY <1>2, <1>6 DEF Calls
<1>8. ASSUME NEW k \in 0 .. 4
      PROVE  /\ Do("stamp", k, T) \in Else(m) /\ Do("offset", k, T) \in Else(m)
             /\ k # m.k => Do("offset", k, T) \in Rest(m)
             /\ k > m.k + 1 => Do("stamp", k, T) \in Rest(m)
  <2>1. k \in Subject
    BY <1>3
  <2>2. Do("stamp", k, T) \in Plain /\ Do("offset", k, T) \in Plain
    BY <1>1, <2>1, PlainDo DEF Inside
  <2>3. Do("stamp", k, T) \in Else(m) /\ Do("offset", k, T) \in Else(m)
    BY <2>2 DEF Else, Do
  <2>4. k > m.k + 1 => k # m.k /\ k # m.k + 1
    BY <1>2
  <2>5. QED
    BY <2>3, <2>4 DEF Rest, Do
<1>9. ASSUME NEW k \in 0 .. 3, k # m.k
      PROVE  Calls(Else(m), m.it, m.base + k, T) /\ Calls(Rest(m), m.it, m.base + k, T)
  <2> DEFINE row == m.base + k
  <2>1. row \in Nat /\ row # m.test
    BY <1>2, <1>9
  <2> HIDE DEF row
  <2>2. Calls(Else(m), m.it, row, T) /\ Calls(Rest(m), m.it, row, T)
    BY <1>6, <2>1 DEF Calls
  <2>3. QED
    BY <2>2 DEF row
<1>10. QED
  BY <1>5, <1>7, <1>8, <1>9 DEF T

\* The phases before the measured one, and those after it.
LEMMA PhasesAround ==
  ASSUME NEW j \in Jobs, NEW i \in 1 .. NTasks, NEW m, OfTest(m, i), NEW k \in 0 .. 3
  PROVE  LET T == Tasks(i)
         IN  /\ k < m.k => /\ PhaseCode(j, m.it, m.base, k, T) \in Seq(Else(m))
                           /\ Body(j, m.it, m.base, k, T) \in Seq(Else(m))
             /\ k > m.k => PhaseCode(j, m.it, m.base, k, T) \in Seq(Rest(m))
<1> DEFINE T == Tasks(i)
<1>1. /\ k \in 0 .. 4 /\ k + 1 \in 0 .. 4 /\ m.k \in 0 .. 3
      /\ k > m.k => k + 1 > m.k + 1 /\ k # m.k
      /\ k < m.k => k # m.k
  BY DEF OfTest
<1>2. ASSUME k < m.k
      PROVE  /\ Meets(Else(m), T) /\ Shifts(Else(m), j, k, T)
             /\ Calls(Else(m), m.it, m.base + k, T) /\ Do("stamp", k + 1, T) \in Else(m)
  BY <1>1, <1>2, KindsOfTest DEF Shifts
<1>3. ASSUME k > m.k
      PROVE  /\ Meets(Rest(m), T) /\ Shifts(Rest(m), j, k, T)
             /\ Calls(Rest(m), m.it, m.base + k, T) /\ Do("stamp", k + 1, T) \in Rest(m)
  BY <1>1, <1>3, KindsOfTest DEF Shifts
<1> HIDE DEF T
<1>4. k < m.k => /\ PhaseCode(j, m.it, m.base, k, T) \in Seq(Else(m))
                 /\ Body(j, m.it, m.base, k, T) \in Seq(Else(m))
  BY <1>2, PhaseIs, BodyIn
<1>5. k > m.k => PhaseCode(j, m.it, m.base, k, T) \in Seq(Rest(m))
  BY <1>3, PhaseIs
<1>6. QED
  BY <1>4, <1>5 DEF T

LEMMA FlattenOne ==
  ASSUME NEW S, NEW x \in Seq(S)
  PROVE  FlattenSeq(<<x>>) = x
<1> DEFINE s == <<x>>
<1>1. s \in Seq(Seq(S)) /\ Len(s) = 1 /\ s[1] = x
  OBVIOUS
<1> HIDE DEF s
<1>2. PICK g : /\ FlattenSeq(s) = g[Len(s)]
               /\ \A n \in 1 .. Len(s) :
                    /\ g[n] \in Seq(S)
                    /\ g[n] = IF n = 1 THEN s[n] ELSE g[n - 1] \o s[n]
  <2>1. s # << >>
    BY <1>1
  <2>2. PICK g : Flattening(s, g, S)
    BY <1>1, <2>1, FlattenJoins
  <2>3. QED
    BY <2>2 DEF Flattening
<1>3. QED
  BY <1>1, <1>2 DEF s

\* Where a rank's stamps are shifted, the one loop of a phase starts with the shift.
LEMMA ShiftedBody ==
  ASSUME NEW j \in Jobs, NEW i \in 1 .. NTasks, NEW m, OfTest(m, i), Shifting(j),
         m.k \in j.phases
  PROVE  \E g \in Seq(Else(m)), L \in Seq(Lap(m)) :
           Body(j, m.it, m.base, m.k, Tasks(i)) = g \o (<<Do("offset", m.k, Tasks(i))>> \o L)
<1> DEFINE T == Tasks(i)
           k == m.k
           o == Do("offset", k, T)
           g == Only(k = 0, Ins("barrier", 0, T))
           work == Work(j, m.it, m.base, k, T)
           sync == Sync(j, m.it, m.base, k, T)
           loop == Loop(j, m.it, m.base, k, T)
           body == Body(j, m.it, m.base, k, T)
<1>0. T # {} /\ k \in 0 .. 4 /\ m.test = m.base + k
  BY TasksAreRanks DEF OfTest
<1>1. /\ Meets(Else(m), T) /\ Meets(Lap(m), T) /\ Calls(Lap(m), m.it, m.base + k, T)
      /\ o \in Else(m)
  BY <1>0, KindsOfTest
<1>2. work \in Seq(Lap(m)) /\ sync \in Seq(Lap(m))
  BY <1>1, WorkIn, SyncIn
<1>3. g \in Seq(Else(m))
  <2>1. Ins("barrier", 0, T) \in Seq(Else(m))
    BY <1>1, DoIn DEF Meets
  <2>2. QED
    BY <2>1, OnlyIn
<1>4. EnterDir(j, k, T) = g \o <<o>>
  <2>1. Ins("offset", k, T) = <<o>>
    BY <1>0, InsIs DEF Do
  <2>2. QED
    BY <2>1 DEF EnterDir, Only, Shifting
<1>5. loop = EnterDir(j, k, T) \o work /\ loop \in Seq(Plain)
  <2>1. Calls(Plain, m.it, m.base + k, T) /\ Meets(Plain, T) /\ Shifts(Plain, j, k, T)
    BY <1>1, KindsArePlain DEF Calls, Meets, Shifts
  <2>2. QED
    BY <2>1, LoopIs
<1>6. Loops(j, m.it, m.base, k, T) = loop
  <2>1. [l \in 1 .. j.directory_loops |-> loop] = <<loop>>
    <3>1. j.directory_loops = 1
      BY TimingAssumption DEF IsJob, Shifting
    <3> HIDE DEF loop
    <3>2. QED
      BY <3>1
  <2>2. Loops(j, m.it, m.base, k, T) = FlattenSeq([l \in 1 .. j.directory_loops |-> loop])
    BY DEF Loops, Only
  <2> HIDE DEF loop
  <2>3. FlattenSeq(<<loop>>) = loop
    BY <1>5, FlattenOne
  <2>4. QED
    BY <2>1, <2>2, <2>3
<1>7. body = loop \o sync
  BY <1>6 DEF Body
<1> HIDE DEF g, work, sync, loop, body, o
<1> DEFINE oo == <<o>>
           L == work \o sync
<1>8. L \in Seq(Lap(m))
  BY <1>2, Joined
<1>9. /\ g \in Seq(Plain) /\ oo \in Seq(Plain) /\ work \in Seq(Plain) /\ sync \in Seq(Plain)
  <2>1. o \in Plain
    BY <1>1, KindsArePlain
  <2>2. oo \in Seq(Plain)
    BY <2>1
  <2>3. QED
    BY <1>2, <1>3, <2>2, KindsArePlain, SeqGrows
<1> HIDE DEF oo
<1>10. body = ((g \o oo) \o work) \o sync
  BY <1>4, <1>5, <1>7 DEF oo
<1> DEFINE go == g \o oo
<1>11. Three(Plain, go, work, sync) /\ Three(Plain, g, oo, L)
  <2>1. go \in Seq(Plain) /\ L \in Seq(Plain)
    BY <1>9, Joined
  <2>2. QED
    BY <1>9, <2>1 DEF Three
<1> HIDE DEF go
<1>12. (go \o work) \o sync = go \o L
  BY <1>11, ThreeRegrouped
<1> HIDE DEF L
<1>13. (g \o oo) \o L = g \o (oo \o L)
  BY <1>11, ThreeRegrouped
<1>14. body = g \o (oo \o L)
  BY <1>10, <1>12, <1>13 DEF go
<1>15. QED
  BY <1>3, <1>8, <1>14 DEF body, oo, o

\* Pieces put in order.
Five(F, p, u, c, q, v) == Three(F, p, u, c) /\ q \in Seq(F) /\ v \in Seq(F)
Eight(F, a, s, L, b, n, v, z, r) == Three(F, a, s, L) /\ Five(F, b, n, v, z, r)

LeftFirst(p, u, c, q, v) ==
  p \o (u \o ((c \o q) \o v)) = (p \o (u \o c)) \o (q \o v)
RightFirst(a, s, L, b, n, v, z, r) ==
  (((a \o (s \o L)) \o ((b \o n) \o v)) \o z) \o r =
    a \o (s \o (L \o (b \o (n \o ((v \o z) \o r)))))

LEMMA Reordered ==
  ASSUME NEW F, NEW p, NEW u, NEW c, NEW q, NEW v,
         Five(F, p, u, c, q, v)
  PROVE  LeftFirst(p, u, c, q, v)
<1> DEFINE qv == q \o v
           uc == u \o c
<1>0. p \in Seq(F) /\ u \in Seq(F) /\ c \in Seq(F) /\ q \in Seq(F) /\ v \in Seq(F)
  BY DEF Five, Three
<1>1. qv \in Seq(F) /\ uc \in Seq(F) /\ Three(F, c, q, v)
  BY <1>0, Joined DEF Three
<1>2. (c \o q) \o v = c \o qv
  BY <1>1, ThreeRegrouped
<1> HIDE DEF qv
<1>3. Three(F, u, c, qv)
  BY <1>0, <1>1 DEF Three
<1>4. (u \o c) \o qv = u \o (c \o qv)
  BY <1>3, ThreeRegrouped
<1> HIDE DEF uc
<1>5. Three(F, p, uc, qv)
  BY <1>0, <1>1 DEF Three
<1>6. (p \o uc) \o qv = p \o (uc \o qv)
  BY <1>5, ThreeRegrouped
<1>7. QED
  BY <1>2, <1>4, <1>6 DEF qv, uc, LeftFirst

LEMMA Ordered ==
  ASSUME NEW F, NEW a, NEW s, NEW L, NEW b, NEW n, NEW v, NEW z, NEW r,
         Eight(F, a, s, L, b, n, v, z, r)
  PROVE  RightFirst(a, s, L, b, n, v, z, r)
<1> DEFINE sL == s \o L
           vz == v \o z
           vzr == vz \o r
           bn == b \o n
           nvzr == n \o vzr
           bnvzr == b \o nvzr
           Lx == L \o bnvzr
           sLx == s \o Lx
<1>0. /\ a \in Seq(F) /\ s \in Seq(F) /\ L \in Seq(F) /\ b \in Seq(F)
      /\ n \in Seq(F) /\ v \in Seq(F) /\ z \in Seq(F) /\ r \in Seq(F)
  BY DEF Eight, Five, Three
<1>1. sL \in Seq(F) /\ vz \in Seq(F) /\ bn \in Seq(F)
  BY <1>0, Joined
<1>2. a \o sL \in Seq(F) /\ bn \o v \in Seq(F) /\ vzr \in Seq(F)
  <2> HIDE DEF sL, vz, bn
  <2>1. QED
    BY <1>0, <1>1, Joined
<1> DEFINE y == a \o sL
           x == bn \o v
<1>3. nvzr \in Seq(F) /\ y \in Seq(F) /\ x \in Seq(F)
  <2>1. y \in Seq(F) /\ x \in Seq(F)
    BY <1>2
  <2> HIDE DEF vzr
  <2>2. QED
    BY <1>0, <1>2, <2>1, Joined
<1>4. bnvzr \in Seq(F)
  <2> HIDE DEF nvzr
  <2>1. QED
    BY <1>0, <1>3, Joined
<1>5. x \o z = bn \o vz
  <2> HIDE DEF bn
  <2>1. Three(F, bn, v, z)
    BY <1>0, <1>1 DEF Three
  <2>2. QED
    BY <2>1, ThreeRegrouped
<1>6. (y \o x) \o z = y \o (x \o z)
  <2> HIDE DEF y, x
  <2>1. Three(F, y, x, z)
    BY <1>0, <1>3 DEF Three
  <2>2. QED
    BY <2>1, ThreeRegrouped
<1>7. (y \o (bn \o vz)) \o r = y \o ((bn \o vz) \o r)
  <2> DEFINE w == bn \o vz
  <2>1. w \in Seq(F)
    <3> HIDE DEF bn, vz
    <3>1. QED
      BY <1>0, <1>1, Joined
  <2> HIDE DEF w, y
  <2>2. Three(F, y, w, r)
    BY <1>0, <1>3, <2>1 DEF Three
  <2>3. (y \o w) \o r = y \o (w \o r)
    BY <2>2, ThreeRegrouped
  <2>4. QED
    BY <2>3 DEF w
<1>8. (bn \o vz) \o r = bn \o vzr
  <2> HIDE DEF bn, vz
  <2>1. Three(F, bn, vz, r)
    BY <1>0, <1>1 DEF Three
  <2>2. QED
    BY <2>1, ThreeRegrouped
<1>9. bn \o vzr = bnvzr
  <2> HIDE DEF vzr
  <2>1. Three(F, b, n, vzr)
    BY <1>0, <1>2 DEF Three
  <2>2. QED
    BY <2>1, ThreeRegrouped
<1>10. y \o bnvzr = a \o (sL \o bnvzr)
  <2> HIDE DEF sL, bnvzr
  <2>1. Three(F, a, sL, bnvzr)
    BY <1>0, <1>1, <1>4 DEF Three
  <2>2. QED
    BY <2>1, ThreeRegrouped
<1>11. sL \o bnvzr = sLx
  <2> HIDE DEF bnvzr
  <2>1. Three(F, s, L, bnvzr)
    BY <1>0, <1>4 DEF Three
  <2>2. QED
    BY <2>1, ThreeRegrouped
<1> HIDE DEF y, x, bn, vz, vzr, sL, bnvzr, sLx
<1>12. ((y \o x) \o z) \o r = a \o sLx
  BY <1>5, <1>6, <1>7, <1>8, <1>9, <1>10, <1>11
<1>13. QED
  BY <1>12 DEF y, x, bn, vz, vzr, sL, bnvzr, sLx, RightFirst

\* The phases before the measured one.
PhasesBefore(j, m, by, u) ==
  /\ m.k = 0 => u = <<>>
  /\ m.k # 0 => \E w \in Seq(Else(m)) : u = w \o PhaseCode(j, m.it, m.base, m.k - 1, by)

\* Where no stamps are shifted, the phase starts at the last stamp of the one before.
LEMMA FirstStamp ==
  ASSUME NEW j \in Jobs, NEW i \in 1 .. NTasks, NEW m, OfTest(m, i),
         NEW u \in Seq(Else(m)),
         PhasesBefore(j, m, Tasks(i), u)
  PROVE  \E a \in Seq(Else(m)) :
           TestStart(Tasks(i)) \o u = a \o <<Do("stamp", m.k, Tasks(i))>>
<1> DEFINE F == Else(m)
           T == Tasks(i)
           k == m.k
           b == Ins("barrier", 0, T)
           s == Ins("stamp", 0, T)
           n == Ins("stamp", k, T)
<1>1. T # {} /\ k \in 0 .. 3
  BY TasksAreRanks DEF OfTest
<1>2. /\ b \in Seq(F) /\ s \in Seq(F) /\ n \in Seq(F)
      /\ n = <<Do("stamp", k, T)>>
  <2>1. Do("barrier", 0, T) \in F /\ Do("stamp", 0, T) \in F /\ Do("stamp", k, T) \in F
    BY <1>1, KindsOfTest DEF Meets
  <2>2. n = <<Do("stamp", k, T)>>
    BY <1>1, InsIs DEF Do
  <2>3. QED
    BY <2>1, <2>2, DoIn
<1>3. CASE k = 0
  <2>1. s = n
    BY <1>3
  <2> HIDE DEF b, s, n, F
  <2>2. b \o s \in Seq(F)
    BY <1>2, Joined
  <2>3. (b \o s) \o <<>> = b \o s
    BY <2>2, NothingJoined
  <2>4. QED
    BY <1>2, <1>3, <2>1, <2>3 DEF b, s, n, F, PhasesBefore, TestStart
<1>4. CASE k # 0
  <2> DEFINE body == Body(j, m.it, m.base, k - 1, T)
             bn == b \o n
             p == b \o s
  <2>1. PICK w \in Seq(F) : u = w \o PhaseCode(j, m.it, m.base, k - 1, T)
    BY <1>4 DEF PhasesBefore
  <2>2. k - 1 \in 0 .. 3 /\ k - 1 < k /\ (k - 1) + 1 = k
    BY <1>1, <1>4
  <2>3. body \in Seq(F)
    BY <2>2, PhasesAround
  <2>4. PhaseCode(j, m.it, m.base, k - 1, T) = body \o bn
    BY <2>2 DEF PhaseCode
  <2> HIDE DEF b, s, n, F, body
  <2>5. bn \in Seq(F) /\ p \in Seq(F) /\ body \o b \in Seq(F)
    BY <1>2, <2>3, Joined
  <2> DEFINE c == body \o b
             wc == w \o c
             a == p \o wc
  <2>6. c \in Seq(F)
    BY <2>5
  <2>7. c \o n = body \o bn
    <3>1. Three(F, body, b, n)
      BY <1>2, <2>3 DEF Three
    <3>2. QED
      BY <3>1, ThreeRegrouped
  <2> HIDE DEF c, bn, p
  <2>8. wc \in Seq(F)
    BY <2>6, Joined
  <2>9. wc \o n = w \o (c \o n)
    <3>1. Three(F, w, c, n)
      BY <1>2, <2>6 DEF Three
    <3>2. QED
      BY <3>1, ThreeRegrouped
  <2> HIDE DEF wc
  <2>10. a \o n = p \o (wc \o n)
    <3>1. Three(F, p, wc, n)
      BY <1>2, <2>5, <2>8 DEF Three
    <3>2. QED
      BY <3>1, ThreeRegrouped
  <2>11. a \in Seq(F)
    BY <2>5, <2>8, Joined
  <2> HIDE DEF a
  <2>12. p \o u = a \o n
    BY <2>1, <2>4, <2>7, <2>9, <2>10
  <2>13. QED
    BY <1>2, <2>11, <2>12 DEF p, b, s, n, F, TestStart
<1>5. QED
  BY <1>3, <1>4

\* The code of a test has a frame for each of its phases.
LEMMA TestFramed ==
  ASSUME NEW j \in Jobs, NEW i \in 1 .. NTasks, NEW m, OfTest(m, i), m.k \in j.phases
  PROVE  Framed(TestCode(j, m.it, m.base, Tasks(i)), m)
<1> DEFINE T == Tasks(i)
           F == Else(m)
           k == m.k
           b == k + 1
           P == PhasesCode(j, m.it, m.base, T)
           bar == Do("barrier", 0, T)
           st == Do("stamp", k + 1, T)
           re == Do("record", <<m.it, m.base>>, T)
           pre == TestStart(T)
           body == Body(j, m.it, m.base, k, T)
           last == LastShift(j, T)
           code == TestCode(j, m.it, m.base, T)
<1>0. /\ T # {} /\ T \in SUBSET Ranks /\ 0 \in T /\ m.it \in Nat
      /\ m.base \in {DirTest, FileTest} /\ m.W = T
      /\ k \in 0 .. 3 /\ b \in 1 .. 4 /\ m.test = m.base + k /\ b - 1 = k
  BY TasksAreRanks DEF OfTest, IsMeasure
<1>1. Tested(Plain, j, m.it, m.base, T)
  <2>1. Tested(Owned(m.it, m.base), j, m.it, m.base, T)
    BY <1>0, TestTested
  <2>2. Owned(m.it, m.base) \subseteq Plain
    BY DEF Owned
  <2>3. QED
    BY <2>1, <2>2 DEF Tested, Meets, Shifts, Calls
<1>2. /\ P \in Seq(Seq(Plain)) /\ Len(P) = 4
      /\ code = ((pre \o FlattenSeq(P)) \o last) \o Ins("record", <<m.it, m.base>>, T)
  <2>1. TestShape(Plain, j, m.it, m.base, T)
    BY <1>1, TestIs
  <2>2. QED
    BY <2>1 DEF TestShape
<1>3. bar \in Plain /\ st \in Plain /\ re \in Plain
  <2>1. 0 .. 4 \subseteq Nat /\ k + 1 \in 0 .. 4
    BY <1>0
  <2>2. QED
    BY <1>1, <2>1 DEF Tested, Meets
<1>4. /\ Ins("record", <<m.it, m.base>>, T) = <<re>>
      /\ Ins("barrier", 0, T) = <<bar>> /\ Ins("stamp", k + 1, T) = <<st>>
  BY <1>0, InsIs DEF Do
<1>5. AllIn(P, 1, b - 1, F) /\ AllIn(P, b + 1, Len(P), Rest(m))
  <2>1. ASSUME NEW x \in 1 .. b - 1
        PROVE  P[x] \in Seq(F)
    <3>1. x - 1 \in 0 .. 3 /\ x - 1 < k /\ x \in 1 .. 4
      BY <1>0
    <3>2. P[x] = PhaseCode(j, m.it, m.base, x - 1, T)
      BY <3>1 DEF PhasesCode
    <3>3. QED
      BY <3>1, <3>2, PhasesAround
  <2>2. ASSUME NEW x \in b + 1 .. 4
        PROVE  P[x] \in Seq(Rest(m))
    <3>1. x - 1 \in 0 .. 3 /\ x - 1 > k /\ x \in 1 .. 4
      BY <1>0
    <3>2. P[x] = PhaseCode(j, m.it, m.base, x - 1, T)
      BY <3>1 DEF PhasesCode
    <3>3. QED
      BY <3>1, <3>2, PhasesAround
  <2> HIDE DEF P, F, b
  <2>3. QED
    BY <1>2, <2>1, <2>2 DEF AllIn
<1>6. P[b] = body \o (<<bar>> \o <<st>>)
  <2>1. P[b] = PhaseCode(j, m.it, m.base, b - 1, T)
    BY <1>0 DEF PhasesCode
  <2>2. QED
    BY <1>0, <1>4, <2>1 DEF PhaseCode
<1>7. b > 1 => P[b - 1] = PhaseCode(j, m.it, m.base, k - 1, T)
  <2> SUFFICES ASSUME b > 1
               PROVE  P[b - 1] = PhaseCode(j, m.it, m.base, k - 1, T)
    OBVIOUS
  <2>1. b - 1 \in 1 .. 4 /\ (b - 1) - 1 = k - 1
    BY <1>0
  <2>2. QED
    BY <2>1 DEF PhasesCode
<1>8. last \in Seq(Rest(m)) /\ last \in Seq(Plain)
  <2>1. Do("offset", 4, T) \in Rest(m)
    BY <1>0, KindsOfTest
  <2>2. Ins("offset", 4, T) \in Seq(Rest(m))
    BY <2>1, DoIn
  <2>3. last \in Seq(Rest(m))
    BY <2>2, OnlyIn DEF LastShift
  <2>4. QED
    BY <2>3, KindsArePlain, SeqGrows
<1>9. pre \in Seq(F) /\ pre \in Seq(Plain)
  <2>1. Do("barrier", 0, T) \in F /\ Do("stamp", 0, T) \in F
    BY KindsOfTest DEF Meets
  <2>2. Ins("barrier", 0, T) \in Seq(F) /\ Ins("stamp", 0, T) \in Seq(F)
    BY <2>1, DoIn
  <2> HIDE DEF F
  <2>3. pre \in Seq(F)
    BY <2>2, Joined DEF TestStart
  <2>4. QED
    BY <2>3, KindsArePlain, SeqGrows DEF F
<1>10. body \in Seq(Plain)
  <2>1. Meets(Plain, T) /\ Shifts(Plain, j, k, T) /\ Calls(Plain, m.it, m.base + k, T)
    BY <1>0, <1>1 DEF Tested
  <2>2. QED
    BY <2>1, BodyIn
<1>11. PICK u \in Seq(F), v \in Seq(Rest(m)) : SplitAt(P, b, u, v, F)
  <2>1. F \in SUBSET Plain /\ Rest(m) \in SUBSET Plain
    BY KindsArePlain
  <2>2. b \in 1 .. Len(P)
    BY <1>0, <1>2
  <2> HIDE DEF P, F, b
  <2>3. QED
    BY <1>2, <1>5, <2>1, <2>2, FlattenSplit
\* The first stamp, and the work after it.
<1> DEFINE Begins(a, s, L) ==
             /\ pre \o (u \o body) = a \o (<<s>> \o L)
             /\ s \in Plain /\ s.do \in {"stamp", "offset"} /\ s.n = k /\ T \subseteq s.by
<1>12. \E a \in Seq(F), s \in Plain, L \in Seq(Lap(m)) : Begins(a, s, L)
  <2>1. u \in Seq(Plain)
    BY KindsArePlain, SeqGrows
  <2>2. CASE ~Shifting(j)
    <3> DEFINE s == Do("stamp", k, T)
    <3>1. PICK a \in Seq(F) : pre \o u = a \o <<s>>
      <4>1. k = 0 => u = <<>>
        BY <1>11 DEF SplitAt
      <4>2. k # 0 => \E w \in Seq(F) : u = w \o PhaseCode(j, m.it, m.base, k - 1, T)
        <5> SUFFICES ASSUME k # 0
                     PROVE  \E w \in Seq(F) : u = w \o PhaseCode(j, m.it, m.base, k - 1, T)
          OBVIOUS
        <5>1. b > 1
          BY <1>0
        <5>2. \E w \in Seq(F) : u = w \o P[b - 1]
          BY <1>11, <5>1 DEF SplitAt
        <5>3. P[b - 1] = PhaseCode(j, m.it, m.base, k - 1, T)
          BY <1>7, <5>1
        <5> HIDE DEF P, F, b
        <5>4. QED
          BY <5>2, <5>3
      <4>3. PhasesBefore(j, m, T, u)
        BY <4>1, <4>2 DEF PhasesBefore
      <4>4. QED
        BY <4>3, FirstStamp
    <3>2. body \in Seq(Lap(m))
      <4>1. /\ Meets(Lap(m), T) /\ Shifts(Lap(m), j, k, T)
            /\ Calls(Lap(m), m.it, m.base + k, T)
        BY <1>0, <2>2, KindsOfTest DEF Shifts
      <4>2. QED
        BY <4>1, BodyIn
    <3>3. s \in Plain /\ s.do = "stamp" /\ s.n = k /\ s.by = T
      <4>1. k \in 0 .. 4
        BY <1>0
      <4>2. s \in F
        BY <4>1, KindsOfTest
      <4>3. s \in Plain
        BY <4>2, KindsArePlain
      <4>4. QED
        BY <4>3 DEF Do
    <3> HIDE DEF pre, body, s, F
    <3> DEFINE ss == <<s>>
    <3>4. ss \in Seq(Plain) /\ a \in Seq(Plain)
      BY <3>1, <3>3, KindsArePlain, SeqGrows DEF F
    <3> HIDE DEF ss
    <3>5. Three(Plain, pre, u, body) /\ Three(Plain, a, ss, body)
      BY <1>9, <1>10, <2>1, <3>4 DEF Three
    <3>6. pre \o (u \o body) = (pre \o u) \o body
      BY <3>5, ThreeRegrouped
    <3>7. (a \o ss) \o body = a \o (ss \o body)
      BY <3>5, ThreeRegrouped
    <3>8. Begins(a, s, body)
      BY <3>1, <3>3, <3>6, <3>7 DEF ss
    <3>9. QED
      BY <3>1, <3>2, <3>3, <3>8
  <2>3. CASE Shifting(j)
    <3> DEFINE s == Do("offset", k, T)
    <3>1. PICK g \in Seq(F), L \in Seq(Lap(m)) : body = g \o (<<s>> \o L)
      BY <2>3, ShiftedBody
    <3>2. s \in Plain /\ s.do = "offset" /\ s.n = k /\ s.by = T
      <4>1. k \in 0 .. 4
        BY <1>0
      <4>2. s \in F
        BY <4>1, KindsOfTest
      <4>3. s \in Plain
        BY <4>2, KindsArePlain
      <4>4. QED
        BY <4>3 DEF Do
    <3> HIDE DEF pre, body, s, F
    <3> DEFINE ss == <<s>>
               ssL == ss \o L
               ug == u \o g
               a == pre \o ug
    <3>3. ss \in Seq(Plain) /\ g \in Seq(Plain) /\ L \in Seq(Plain)
      BY <3>1, <3>2, KindsArePlain, SeqGrows DEF F
    <3> HIDE DEF ss
    <3>4. ssL \in Seq(Plain) /\ ug \in Seq(Plain) /\ ug \in Seq(F)
      BY <2>1, <3>1, <3>3, Joined
    <3>5. body = g \o ssL
      BY <3>1 DEF ss
    <3> HIDE DEF ssL
    <3>6. Three(Plain, u, g, ssL)
      BY <2>1, <3>3, <3>4 DEF Three
    <3>7. (u \o g) \o ssL = u \o (g \o ssL)
      BY <3>6, ThreeRegrouped
    <3> HIDE DEF ug
    <3>8. Three(Plain, pre, ug, ssL)
      BY <1>9, <3>4 DEF Three
    <3>9. (pre \o ug) \o ssL = pre \o (ug \o ssL)
      BY <3>8, ThreeRegrouped
    <3>10. a \in Seq(F)
      BY <1>9, <3>4, Joined
    <3>11. pre \o (u \o body) = a \o ssL
      BY <3>5, <3>7, <3>9 DEF ug
    <3> HIDE DEF a
    <3>12. Begins(a, s, L)
      BY <3>2, <3>11 DEF ssL, ss
    <3>13. QED
      BY <3>1, <3>2, <3>10, <3>12
  <2>4. QED
    BY <2>2, <2>3
<1>13. PICK a \in Seq(F), s \in Plain, L \in Seq(Lap(m)) : Begins(a, s, L)
  BY <1>12
<1> DEFINE Z == v \o last
           h == Core(s, L, bar, st, Z, re)
<1>14. Z \in Seq(Rest(m))
  BY <1>8, <1>11, Joined
<1>15. Ends(s, bar, st, re, m)
  BY <1>0, <1>3, <1>13 DEF Ends, Do
<1> DEFINE ss == <<s>>
           bb == <<bar>>
           nn == <<st>>
           rr == <<re>>
           none == <<>>
<1>16. ss \in Seq(Plain) /\ bb \in Seq(Plain) /\ nn \in Seq(Plain) /\ rr \in Seq(Plain)
  <2> HIDE DEF bar, st, re
  <2>1. QED
    BY <1>3, <1>13
<1>17. /\ a \in Seq(Plain) /\ u \in Seq(Plain) /\ v \in Seq(Plain) /\ L \in Seq(Plain)
       /\ Z \in Seq(Plain)
  BY <1>11, <1>13, <1>14, KindsArePlain, SeqGrows
<1>18. code = ((pre \o (u \o ((body \o (bb \o nn)) \o v))) \o last) \o rr
  BY <1>2, <1>4, <1>6, <1>11 DEF SplitAt
<1>19. h = ss \o (L \o (bb \o (nn \o (Z \o rr))))
  BY DEF Core
<1>20. pre \o (u \o body) = a \o (ss \o L)
  BY <1>13
<1> HIDE DEF bar, st, re, ss, bb, nn, rr, F, P, pre, body, last, code, h
<1>21. bb \o nn \in Seq(Plain)
  BY <1>16, Joined
<1> DEFINE q == bb \o nn
<1>22. Five(Plain, pre, u, body, q, v)
  BY <1>9, <1>10, <1>17, <1>21 DEF Five, Three
<1>23. pre \o (u \o ((body \o q) \o v)) = (pre \o (u \o body)) \o (q \o v)
  <2> HIDE DEF q
  <2>1. LeftFirst(pre, u, body, q, v)
    BY <1>22, Reordered
  <2>2. QED
    BY <2>1 DEF LeftFirst
<1>24. Eight(Plain, a, ss, L, bb, nn, v, last, rr)
  BY <1>8, <1>16, <1>17 DEF Eight, Five, Three
<1>25. (((a \o (ss \o L)) \o ((bb \o nn) \o v)) \o last) \o rr = a \o h
  <2>1. RightFirst(a, ss, L, bb, nn, v, last, rr)
    BY <1>24, Ordered
  <2>2. QED
    BY <1>19, <2>1 DEF RightFirst
<1>26. code = a \o h
  BY <1>18, <1>20, <1>23, <1>25
<1>27. h \in Seq(Plain)
  <2> HIDE DEF Z
  <2>1. Z \o rr \in Seq(Plain)
    BY <1>16, <1>17, Joined
  <2>2. nn \o (Z \o rr) \in Seq(Plain)
    BY <1>16, <2>1, Joined
  <2>3. bb \o (nn \o (Z \o rr)) \in Seq(Plain)
    BY <1>16, <2>2, Joined
  <2>4. L \o (bb \o (nn \o (Z \o rr))) \in Seq(Plain)
    BY <1>17, <2>3, Joined
  <2>5. QED
    BY <1>16, <1>19, <2>4, Joined
<1>28. IsCore(h, m)
  BY <1>3, <1>14, <1>15, <1>27 DEF IsCore, h
<1>29. none \in Seq(F) /\ h \o none = h
  BY <1>27, NothingJoined
<1>30. QED
  BY <1>26, <1>28, <1>29 DEF Framed, code, F

\* What is measured in a round with i tasks, and when a measurement is sound: the phase is
\* run, or rank 0 makes all the trees.
MeasureOf(m, i) ==
  /\ IsMeasure(m)
  /\ m.base \in {DirTest, FileTest} => OfTest(m, i)
  /\ m.base \in {TreeCreation, TreeRemoval} => m.W = {0} /\ m.test = m.base
Sound(j, m) ==
  IF m.base \in {DirTest, FileTest}
  THEN m.k \in j.phases
  ELSE Growers(j) = {0}

\* A piece of the code with one measurement in it, or none.
Held(e, m) == e \in Seq(Else(m)) \/ Framed(e, m)

LEMMA HeldOnly ==
  ASSUME NEW m, NEW cond, NEW e, cond => Held(e, m)
  PROVE  Held(Only(cond, e), m)
<1> DEFINE F == Else(m)
<1>1. <<>> \in Seq(F)
  OBVIOUS
<1>2. QED
  BY <1>1 DEF Held, Only, F

LEMMA HeldJoined ==
  ASSUME NEW m, NEW a, NEW b, Held(a, m), Held(b, m),
         a \in Seq(Else(m)) \/ b \in Seq(Else(m))
  PROVE  Held(a \o b, m)
<1>1. CASE a \in Seq(Else(m)) /\ b \in Seq(Else(m))
  BY <1>1, Joined DEF Held
<1>2. CASE a \in Seq(Else(m)) /\ Framed(b, m)
  BY <1>2, FramedJoined DEF Held
<1>3. CASE Framed(a, m) /\ b \in Seq(Else(m))
  BY <1>3, FramedJoined DEF Held
<1>4. QED
  BY <1>1, <1>2, <1>3 DEF Held

LEMMA TestHeld ==
  ASSUME NEW j \in Jobs, NEW i \in 1 .. NTasks, NEW m, MeasureOf(m, i), NEW it \in Nat,
         NEW base \in {DirTest, FileTest},
         m.it = it /\ m.base = base => Sound(j, m)
  PROVE  /\ Held(TestCode(j, it, base, Tasks(i)), m)
         /\ m.it # it \/ m.base # base => TestCode(j, it, base, Tasks(i)) \in Seq(Else(m))
<1>1. ASSUME m.it # it \/ m.base # base
      PROVE  TestCode(j, it, base, Tasks(i)) \in Seq(Else(m))
  <2>1. base \in Bases /\ IsMeasure(m)
    BY DEF Bases, MeasureOf
  <2>2. Owned(it, base) \subseteq Else(m)
    BY <1>1, <2>1, OwnedElsewhere
  <2>3. TestCode(j, it, base, Tasks(i)) \in Seq(Owned(it, base))
    BY TestOwned
  <2>4. QED
    BY <2>2, <2>3, SeqGrows
<1>2. ASSUME m.it = it, m.base = base
      PROVE  Framed(TestCode(j, it, base, Tasks(i)), m)
  <2>1. OfTest(m, i) /\ m.k \in j.phases
    BY <1>2 DEF MeasureOf, Sound
  <2>2. QED
    BY <1>2, <2>1, TestFramed
<1>3. QED
  BY <1>1, <1>2 DEF Held

LEMMA TreeHeld ==
  ASSUME NEW j \in Jobs, NEW i \in 1 .. NTasks, NEW m, MeasureOf(m, i), NEW it \in Nat,
         NEW test \in {TreeCreation, TreeRemoval},
         m.it = it /\ m.base = test => Sound(j, m)
  PROVE  /\ Held(TreeCode(j, it, test), m)
         /\ m.it # it \/ m.base # test => TreeCode(j, it, test) \in Seq(Else(m))
<1> DEFINE s == Do("stamp", StartCreate, Ranks)
           b == Do("barrier", 0, Ranks)
           n == Do("stamp", EndCreate, Ranks)
           r == Do("record", <<it, test>>, Ranks)
           code == TreeCode(j, it, test)
           none == <<>>
<1>1. /\ {s, b, n, r} \subseteq Owned(it, test)
      /\ Busy(it, test, {0}) \in Seq(Lap(Measured(1, it, test)))
      /\ code = Core(s, Busy(it, test, Growers(j)), b, n, none, r)
      /\ code \in Seq(Owned(it, test))
  BY TreeIs
<1>2. ASSUME m.it # it \/ m.base # test
      PROVE  code \in Seq(Else(m))
  <2>1. test \in Bases /\ IsMeasure(m)
    BY DEF Bases, MeasureOf
  <2>2. Owned(it, test) \subseteq Else(m)
    BY <1>2, <2>1, OwnedElsewhere
  <2> HIDE DEF code
  <2>3. QED
    BY <1>1, <2>2, SeqGrows
<1>3. ASSUME m.it = it, m.base = test
      PROVE  Framed(code, m)
  <2>1. /\ m.test = test /\ m.W = {0} /\ m.k = StartCreate /\ Growers(j) = {0}
        /\ {0} \subseteq Ranks
    <3>1. m.base \in {TreeCreation, TreeRemoval} /\ m.base \notin {DirTest, FileTest}
      BY <1>3 DEF TreeCreation, TreeRemoval, DirTest, FileTest
    <3>2. m.test = test /\ m.W = {0} /\ m.k = StartCreate
      BY <1>3, <3>1 DEF MeasureOf, IsMeasure
    <3>3. Growers(j) = {0}
      BY <1>3, <3>1 DEF Sound
    <3>4. QED
      BY <3>2, <3>3, TimingAssumption DEF Ranks
  <2>2. Lap(Measured(1, it, test)) = Lap(m)
    <3>1. Measured(1, it, test).W = {0}
      BY DEF Measured, TreeCreation, TreeRemoval
    <3>2. QED
      BY <2>1, <3>1 DEF Lap
  <2> DEFINE L == Busy(it, test, {0})
  <2>3. L \in Seq(Lap(m))
    BY <1>1, <2>2
  <2>4. s \in Plain /\ b \in Plain /\ n \in Plain /\ r \in Plain
    BY <1>1 DEF Owned
  <2>5. Ends(s, b, n, r, m)
    BY <1>3, <2>1, <2>4 DEF Ends, Do, StartCreate, EndCreate
  <2>6. code \in Seq(Plain)
    <3>1. Owned(it, test) \subseteq Plain
      BY DEF Owned
    <3> HIDE DEF code
    <3>2. QED
      BY <1>1, <3>1, SeqGrows
  <2>7. code = Core(s, L, b, n, none, r)
    BY <1>1, <2>1
  <2> HIDE DEF s, b, n, r, code, L
  <2> DEFINE F == Else(m)
             G == Rest(m)
  <2>8. none \in Seq(F) /\ none \in Seq(G)
    OBVIOUS
  <2>9. IsCore(code, m)
    BY <2>3, <2>4, <2>5, <2>6, <2>7, <2>8 DEF IsCore
  <2>10. code = none \o (code \o none)
    <3>1. code \o none = code /\ none \o code = code
      BY <2>6, NothingJoined
    <3>2. QED
      BY <3>1
  <2> HIDE DEF none
  <2>11. QED
    BY <2>8, <2>9, <2>10 DEF Framed
<1>4. QED
  BY <1>2, <1>3 DEF Held, code

LEMMA IterationHeld ==
  ASSUME NEW j \in Jobs, NEW i \in 1 .. NTasks, NEW m, MeasureOf(m, i), NEW it \in Nat,
         m.it = it => Sound(j, m)
  PROVE  /\ Held(IterationCode(j, i, it), m)
         /\ m.it # it => IterationCode(j, i, it) \in Seq(Else(m))
<1> DEFINE F == Else(m)
           gate == Ins("barrier", 0, Ranks)
           made == TreeCode(j, it, TreeCreation)
           gone == TreeCode(j, it, TreeRemoval)
           first == Only(0 \in j.phases, gate \o made)
           dirs == Only(j.dirs_only, directory_test(j, it, Tasks(i)))
           files == Only(j.files_only, file_test(j, it, Tasks(i)))
           tree == Only(3 \in j.phases, gone)
           Away(base) == m.it # it \/ m.base # base
<1>1. IterationCode(j, i, it) = (((first \o dirs) \o files) \o gate) \o tree
  BY DEF IterationCode, Tasks
<1>2. gate \in Seq(F)
  <2>1. Do("barrier", 0, Ranks) \in Plain
    BY PlainDo DEF Inside, Subject
  <2>2. Do("barrier", 0, Ranks) \in F
    BY <2>1 DEF Else, Do
  <2> HIDE DEF F
  <2>3. QED
    BY <2>2, DoIn
<1>3. /\ Held(made, m) /\ (Away(TreeCreation) => made \in Seq(F))
      /\ Held(gone, m) /\ (Away(TreeRemoval) => gone \in Seq(F))
  BY TreeHeld
<1>4. /\ Held(directory_test(j, it, Tasks(i)), m)
      /\ Away(DirTest) => directory_test(j, it, Tasks(i)) \in Seq(F)
      /\ Held(file_test(j, it, Tasks(i)), m)
      /\ Away(FileTest) => file_test(j, it, Tasks(i)) \in Seq(F)
  BY TestHeld DEF directory_test, file_test
<1>5. /\ TreeCreation # DirTest /\ TreeCreation # FileTest /\ TreeCreation # TreeRemoval
      /\ DirTest # FileTest /\ TreeRemoval # DirTest /\ TreeRemoval # FileTest
  BY DEF TreeCreation, TreeRemoval, DirTest, FileTest
<1> HIDE DEF F, gate, made, gone
<1>6. Held(gate, m)
  BY <1>2 DEF Held, F
<1>7. Held(first, m) /\ (Away(TreeCreation) => first \in Seq(F))
  <2>1. Held(gate \o made, m)
    BY <1>2, <1>3, <1>6, HeldJoined DEF F
  <2>2. Away(TreeCreation) => gate \o made \in Seq(F)
    BY <1>2, <1>3, Joined
  <2>3. QED
    BY <2>1, <2>2, HeldOnly, OnlyIn
<1>8. /\ Held(dirs, m) /\ (Away(DirTest) => dirs \in Seq(F))
      /\ Held(files, m) /\ (Away(FileTest) => files \in Seq(F))
      /\ Held(tree, m) /\ (Away(TreeRemoval) => tree \in Seq(F))
  BY <1>3, <1>4, HeldOnly, OnlyIn
<1> HIDE DEF first, dirs, files, tree
<1> DEFINE x1 == first \o dirs
           x2 == x1 \o files
           x3 == x2 \o gate
           x4 == x3 \o tree
<1>9. Held(x1, m) /\ (Away(TreeCreation) /\ Away(DirTest) => x1 \in Seq(F))
  <2>1. Away(TreeCreation) \/ Away(DirTest)
    BY <1>5
  <2> HIDE DEF Away
  <2>2. QED
    BY <1>7, <1>8, <2>1, HeldJoined, Joined DEF F
<1> HIDE DEF x1
<1>10. /\ Held(x2, m)
       /\ Away(TreeCreation) /\ Away(DirTest) /\ Away(FileTest) => x2 \in Seq(F)
  <2>1. (Away(TreeCreation) /\ Away(DirTest)) \/ Away(FileTest)
    BY <1>5
  <2> HIDE DEF Away
  <2>2. QED
    BY <1>8, <1>9, <2>1, HeldJoined, Joined DEF F
<1> HIDE DEF x2
<1>11. /\ Held(x3, m)
       /\ Away(TreeCreation) /\ Away(DirTest) /\ Away(FileTest) => x3 \in Seq(F)
  <2> HIDE DEF Away
  <2>1. QED
    BY <1>2, <1>6, <1>10, HeldJoined, Joined DEF F
<1> HIDE DEF x3
<1>12. Held(x4, m) /\ (m.it # it => x4 \in Seq(F))
  <2>1. (Away(TreeCreation) /\ Away(DirTest) /\ Away(FileTest)) \/ Away(TreeRemoval)
    BY <1>5
  <2>2. m.it # it => /\ Away(TreeCreation) /\ Away(DirTest) /\ Away(FileTest)
                     /\ Away(TreeRemoval)
    OBVIOUS
  <2> HIDE DEF Away
  <2>3. QED
    BY <1>8, <1>11, <2>1, <2>2, HeldJoined, Joined DEF F
<1>13. QED
  BY <1>1, <1>12 DEF x1, x2, x3, F

LEMMA IterationsHeld ==
  ASSUME NEW j \in Jobs, NEW i \in 1 .. NTasks, NEW m, MeasureOf(m, i), Sound(j, m),
         m.it \in 0 .. j.iterations - 1
  PROVE  Held(Iterated(j, i), m)
<1> DEFINE F == Else(m)
           s == [it \in 1 .. j.iterations |-> IterationCode(j, i, it - 1)]
           b == m.it + 1
<1>1. j.iterations \in Nat /\ m.it \in Nat /\ b \in 1 .. j.iterations
  BY TimingAssumption DEF IsJob
<1>2. ASSUME NEW x \in 1 .. j.iterations
      PROVE  Held(s[x], m) /\ (x # b => s[x] \in Seq(F))
  <2> DEFINE it == x - 1
  <2>1. it \in Nat /\ (x # b => m.it # it) /\ s[x] = IterationCode(j, i, it)
    BY <1>1
  <2> HIDE DEF it, s
  <2>2. QED
    BY <2>1, IterationHeld
<1>3. s = [x \in 1 .. j.iterations |-> s[x]]
  OBVIOUS
<1> HIDE DEF s, b
<1>4. ASSUME NEW x \in 1 .. j.iterations
      PROVE  s[x] \in Seq(Plain)
  <2>1. CASE s[x] \in Seq(F)
    BY <2>1, KindsArePlain, SeqGrows
  <2>2. CASE Framed(s[x], m)
    <3> DEFINE G == Else(m)
               none == <<>>
    <3>1. none \in Seq(G)
      OBVIOUS
    <3> HIDE DEF none
    <3>2. QED
      BY <2>2, <3>1, FramedJoined
  <2>3. QED
    BY <1>2, <2>1, <2>2 DEF Held
<1>5. s \in Seq(Seq(Plain)) /\ Len(s) = j.iterations
  <2> DEFINE X == Seq(Plain)
  <2>1. \A x \in 1 .. j.iterations : s[x] \in X
    BY <1>4
  <2> HIDE DEF X
  <2>2. s \in Seq(X) /\ Len(s) = j.iterations
    BY <1>1, <1>3, <2>1
  <2>3. QED
    BY <2>2 DEF X
<1>6. b \in 1 .. Len(s) /\ b \in Nat
  BY <1>1, <1>5
<1>7. AllIn(s, 1, b - 1, F) /\ AllIn(s, b + 1, Len(s), F)
  <2>1. \A x \in 1 .. b - 1 : x \in 1 .. j.iterations /\ x # b
    BY <1>5, <1>6
  <2>2. \A x \in b + 1 .. Len(s) : x \in 1 .. j.iterations /\ x # b
    BY <1>5, <1>6
  <2>3. QED
    BY <1>2, <2>1, <2>2 DEF AllIn
<1>8. PICK u \in Seq(F), v \in Seq(F) : SplitAt(s, b, u, v, F)
  <2>1. F \in SUBSET Plain
    BY KindsArePlain
  <2> HIDE DEF F
  <2>2. QED
    BY <1>5, <1>6, <1>7, <2>1, FlattenSplit
<1> DEFINE x == s[b]
<1>9. Held(x, m) /\ FlattenSeq(s) = u \o (x \o v)
  BY <1>2, <1>5, <1>6, <1>8 DEF SplitAt
<1> HIDE DEF x
<1>10. Held(u, m) /\ Held(v, m)
  BY DEF Held
<1>11. Held(x \o v, m)
  BY <1>9, <1>10, HeldJoined
<1>12. Held(u \o (x \o v), m)
  BY <1>10, <1>11, HeldJoined
<1>13. QED
  BY <1>9, <1>12 DEF s, Iterated

-----------------------------------------------------------------------------
(* Where a measurement is in a round *)

\* The first stamp of a measurement is at S, its barrier at C, its record at R.
Frame(P, z, m, S, C, R) ==
  /\ S \in 2 .. z /\ C \in 2 .. z /\ R \in 2 .. z /\ S < C /\ C + 1 < R
  /\ Ends(P[S], P[C], P[C + 1], P[R], m)
  /\ \A p \in 2 .. S - 1 : P[p] \in Else(m)
  /\ \A p \in S + 1 .. C - 1 : P[p] \in Lap(m)
  /\ \A p \in C + 2 .. R - 1 : P[p] \in Rest(m)
  /\ \A p \in R + 1 .. z : P[p] \in Else(m)
Frameless(P, z, m) == \A p \in 2 .. z : P[p] \in Else(m)

LEMMA FirstAndRest ==
  ASSUME NEW F, NEW x \in F, NEW b \in Seq(F)
  PROVE  /\ <<x>> \o b \in Seq(F) /\ Len(<<x>> \o b) = Len(b) + 1
         /\ Len(b) \in Nat /\ (<<x>> \o b)[1] = x
         /\ \A k \in 1 .. Len(b) : (<<x>> \o b)[k + 1] = b[k]
  OBVIOUS

Parts(h, s, L, b, n, Z, r) ==
  LET C == Len(L) + 2
      R == C + Len(Z) + 2
  IN  /\ Len(L) \in Nat /\ Len(Z) \in Nat /\ Len(h) = R
      /\ h[1] = s /\ h[C] = b /\ h[C + 1] = n /\ h[R] = r
      /\ \A k \in 1 .. Len(L) : h[k + 1] = L[k]
      /\ \A k \in 1 .. Len(Z) : h[C + 1 + k] = Z[k]

LEMMA CorePlaces ==
  ASSUME NEW F, NEW s \in F, NEW b \in F, NEW n \in F, NEW r \in F, NEW L \in Seq(F),
         NEW Z \in Seq(F)
  PROVE  Parts(Core(s, L, b, n, Z, r), s, L, b, n, Z, r)
<1> DEFINE rr == <<r>>
           h1 == Z \o rr
           h2 == <<n>> \o h1
           h3 == <<b>> \o h2
           h4 == L \o h3
           h5 == <<s>> \o h4
<1>1. rr \in Seq(F) /\ Len(rr) = 1 /\ rr[1] = r
  OBVIOUS
<1> HIDE DEF rr
<1>2. /\ h1 \in Seq(F) /\ Len(h1) = Len(Z) + 1 /\ Len(Z) \in Nat
      /\ \A k \in 1 .. Len(Z) : h1[k] = Z[k]
      /\ h1[Len(Z) + 1] = r
  <2>1. h1 = Z \o rr /\ Z \in Seq(F) /\ rr \in Seq(F)
    BY <1>1
  <2> HIDE DEF h1
  <2>2. /\ h1 \in Seq(F) /\ Len(h1) = Len(Z) + Len(rr) /\ Len(Z) \in Nat
        /\ \A k \in 1 .. Len(Z) : h1[k] = Z[k]
        /\ \A k \in 1 .. Len(rr) : h1[Len(Z) + k] = rr[k]
    BY <2>1, JoinedPlaces
  <2>3. QED
    BY <1>1, <2>2
<1> HIDE DEF h1
<1>3. /\ h2 \in Seq(F) /\ Len(h2) = Len(Z) + 2 /\ h2[1] = n
      /\ \A k \in 1 .. Len(h1) : h2[k + 1] = h1[k]
  <2>1. /\ h2 \in Seq(F) /\ Len(h2) = Len(h1) + 1 /\ h2[1] = n
        /\ \A k \in 1 .. Len(h1) : h2[k + 1] = h1[k]
    BY <1>2, FirstAndRest
  <2> HIDE DEF h2
  <2>2. QED
    BY <1>2, <2>1
<1> HIDE DEF h2
<1>4. /\ h3 \in Seq(F) /\ Len(h3) = Len(Z) + 3 /\ h3[1] = b
      /\ \A k \in 1 .. Len(h2) : h3[k + 1] = h2[k]
  <2>1. /\ h3 \in Seq(F) /\ Len(h3) = Len(h2) + 1 /\ h3[1] = b
        /\ \A k \in 1 .. Len(h2) : h3[k + 1] = h2[k]
    BY <1>3, FirstAndRest
  <2> HIDE DEF h3
  <2>2. QED
    BY <1>2, <1>3, <2>1
<1> HIDE DEF h3
<1>5. /\ h4 \in Seq(F) /\ Len(h4) = Len(L) + Len(h3) /\ Len(L) \in Nat
      /\ \A k \in 1 .. Len(L) : h4[k] = L[k]
      /\ \A k \in 1 .. Len(h3) : h4[Len(L) + k] = h3[k]
  <2>1. h4 = L \o h3 /\ L \in Seq(F) /\ h3 \in Seq(F)
    BY <1>4
  <2> HIDE DEF h4
  <2>2. QED
    BY <2>1, JoinedPlaces
<1> HIDE DEF h4
<1>6. /\ h5 \in Seq(F) /\ Len(h5) = Len(h4) + 1 /\ h5[1] = s
      /\ \A k \in 1 .. Len(h4) : h5[k + 1] = h4[k]
  BY <1>5, FirstAndRest
<1> HIDE DEF h5
<1>7. h5 = Core(s, L, b, n, Z, r)
  BY DEF Core, h5, h4, h3, h2, h1, rr
<1>8. Len(h5) = Len(L) + Len(Z) + 4
  BY <1>2, <1>4, <1>5, <1>6
<1>9. \A k \in 1 .. Len(L) : h5[k + 1] = L[k]
  <2>1. \A k \in 1 .. Len(L) : k \in 1 .. Len(h4)
    BY <1>2, <1>4, <1>5
  <2>2. QED
    BY <1>5, <1>6, <2>1
<1>10. \A k \in 1 .. Len(Z) + 3 : h5[Len(L) + 1 + k] = h3[k]
  <2> SUFFICES ASSUME NEW k \in 1 .. Len(Z) + 3
               PROVE  h5[Len(L) + 1 + k] = h3[k]
    OBVIOUS
  <2>1. /\ k \in 1 .. Len(h3) /\ Len(L) + k \in 1 .. Len(h4)
        /\ Len(L) + 1 + k = (Len(L) + k) + 1
    BY <1>2, <1>4, <1>5
  <2>2. QED
    BY <1>5, <1>6, <2>1
<1>11. h5[Len(L) + 2] = b
  <2>1. 1 \in 1 .. Len(Z) + 3 /\ Len(L) + 1 + 1 = Len(L) + 2
    BY <1>2, <1>5
  <2>2. QED
    BY <1>4, <1>10, <2>1
<1>12. h5[Len(L) + 3] = n
  <2>1. /\ 2 \in 1 .. Len(Z) + 3 /\ Len(L) + 1 + 2 = Len(L) + 3
        /\ 1 \in 1 .. Len(h2) /\ 2 = 1 + 1
    BY <1>2, <1>3, <1>5
  <2>2. h3[2] = h2[1]
    BY <1>4, <2>1
  <2>3. QED
    BY <1>3, <1>10, <2>1, <2>2
<1>13. \A k \in 1 .. Len(Z) + 1 : h5[Len(L) + 3 + k] = h1[k]
  <2> SUFFICES ASSUME NEW k \in 1 .. Len(Z) + 1
               PROVE  h5[Len(L) + 3 + k] = h1[k]
    OBVIOUS
  <2>1. /\ k \in 1 .. Len(h1) /\ k + 1 \in 1 .. Len(h2) /\ (k + 1) + 1 \in 1 .. Len(Z) + 3
        /\ Len(L) + 3 + k = Len(L) + 1 + ((k + 1) + 1)
    BY <1>2, <1>3, <1>5
  <2>2. h3[(k + 1) + 1] = h2[k + 1] /\ h2[k + 1] = h1[k]
    BY <1>3, <1>4, <2>1
  <2>3. QED
    BY <1>10, <2>1, <2>2
<1>14. \A k \in 1 .. Len(Z) : h5[Len(L) + 3 + k] = Z[k]
  <2>1. \A k \in 1 .. Len(Z) : k \in 1 .. Len(Z) + 1
    BY <1>2
  <2>2. QED
    BY <1>2, <1>13, <2>1
<1>15. h5[Len(L) + Len(Z) + 4] = r
  <2>1. Len(Z) + 1 \in 1 .. Len(Z) + 1 /\ Len(L) + 3 + (Len(Z) + 1) = Len(L) + Len(Z) + 4
    BY <1>2, <1>5
  <2>2. QED
    BY <1>2, <1>13, <2>1
<1>16. /\ Len(L) + 2 + 1 = Len(L) + 3
       /\ Len(L) + 2 + Len(Z) + 2 = Len(L) + Len(Z) + 4
  BY <1>2, <1>5
<1>17. Parts(h5, s, L, b, n, Z, r)
  BY <1>2, <1>5, <1>6, <1>8, <1>9, <1>11, <1>12, <1>14, <1>15, <1>16 DEF Parts
<1>18. QED
  BY <1>7, <1>17

LEMMA FrameFound ==
  ASSUME NEW P, NEW e, NEW z, Opening(P, e, z), NEW m, Held(e, m)
  PROVE  \/ Frameless(P, z, m)
         \/ \E S, C, R \in Int : Frame(P, z, m, S, C, R)
<1> DEFINE F == Else(m)
<1>0. P[z] \in F
  <2>1. Do("barrier", 0, Ranks) \in Plain
    BY PlainDo DEF Inside, Subject
  <2>2. QED
    BY <2>1 DEF Opening, Else, Do
<1>1. Len(e) \in Nat /\ z = Len(e) + 2 /\ \A x \in 1 .. Len(e) : P[1 + x] = e[x]
  BY DEF Opening
<1>2. CASE e \in Seq(F)
  <2> SUFFICES ASSUME NEW p \in 2 .. z
               PROVE  P[p] \in F
    BY DEF Frameless
  <2>1. CASE p = z
    BY <1>0, <2>1
  <2>2. CASE p # z
    <3> DEFINE x == p - 1
    <3>1. x \in 1 .. Len(e) /\ p = 1 + x
      BY <1>1, <2>2
    <3> HIDE DEF x, F
    <3>2. e[x] \in F
      BY <1>2, <3>1
    <3>3. QED
      BY <1>1, <3>1, <3>2
  <2>3. QED
    BY <2>1, <2>2
<1>3. CASE Framed(e, m)
  <2>0. PICK a \in Seq(F), y \in Seq(F) : \E h : IsCore(h, m) /\ e = a \o (h \o y)
    BY <1>3 DEF Framed
  <2>1. PICK h : IsCore(h, m) /\ e = a \o (h \o y)
    BY <2>0
  <2>2. PICK s, b, n, r \in Plain, L \in Seq(Lap(m)), Z \in Seq(Rest(m)) :
          Ends(s, b, n, r, m) /\ h = Core(s, L, b, n, Z, r)
    BY <2>1 DEF IsCore
  <2>3. /\ a \in Seq(Plain) /\ y \in Seq(Plain) /\ h \in Seq(Plain)
        /\ L \in Seq(Plain) /\ Z \in Seq(Plain)
    BY <2>1, KindsArePlain, SeqGrows DEF IsCore
  <2> DEFINE lc == Len(L) + 2
             lr == lc + Len(Z) + 2
  <2>4. /\ Len(L) \in Nat /\ Len(Z) \in Nat /\ Len(h) = lr
        /\ h[1] = s /\ h[lc] = b /\ h[lc + 1] = n /\ h[lr] = r
        /\ \A k \in 1 .. Len(L) : h[k + 1] = L[k]
        /\ \A k \in 1 .. Len(Z) : h[lc + 1 + k] = Z[k]
    <3>1. Parts(h, s, L, b, n, Z, r)
      BY <2>2, <2>3, CorePlaces
    <3>2. QED
      BY <3>1 DEF Parts
  <2> DEFINE hy == h \o y
  <2>5. /\ hy \in Seq(Plain) /\ Len(hy) = Len(h) + Len(y) /\ Len(y) \in Nat
        /\ \A k \in 1 .. Len(h) : hy[k] = h[k]
        /\ \A k \in 1 .. Len(y) : hy[Len(h) + k] = y[k]
    BY <2>3, JoinedPlaces
  <2> HIDE DEF hy
  <2>6. /\ Len(e) = Len(a) + Len(hy) /\ Len(a) \in Nat
        /\ \A k \in 1 .. Len(a) : e[k] = a[k]
        /\ \A k \in 1 .. Len(hy) : e[Len(a) + k] = hy[k]
    BY <2>1, <2>3, <2>5, JoinedPlaces DEF hy
  <2> DEFINE na == Len(a)
             S == na + 2
             C == na + 1 + lc
             R == na + 1 + lr
  <2>7. /\ na \in Nat /\ lc \in Nat /\ lr \in Nat /\ lc >= 2 /\ lr >= lc + 2
        /\ Len(L) = lc - 2 /\ Len(Z) = lr - lc - 2 /\ Len(y) \in Nat
        /\ z = na + lr + Len(y) + 2
    BY <1>1, <2>4, <2>5, <2>6
  <2>8. \A k \in 1 .. lr : P[na + 1 + k] = h[k]
    <3> SUFFICES ASSUME NEW k \in 1 .. lr
                 PROVE  P[na + 1 + k] = h[k]
      OBVIOUS
    <3>1. k \in 1 .. Len(h) /\ k \in 1 .. Len(hy)
      BY <2>4, <2>5
    <3>2. na + k \in 1 .. Len(e) /\ 1 + (na + k) = na + 1 + k
      BY <2>4, <2>5, <2>6
    <3>3. QED
      BY <1>1, <2>5, <2>6, <3>1, <3>2
  <2>9. \A k \in 1 .. na : P[1 + k] \in F
    <3> SUFFICES ASSUME NEW k \in 1 .. na
                 PROVE  P[1 + k] \in F
      OBVIOUS
    <3>1. k \in 1 .. Len(e) /\ a[k] \in F
      <4> HIDE DEF F
      <4>1. QED
        BY <2>5, <2>6
    <3>2. QED
      BY <1>1, <2>6, <3>1
  <2>10. \A k \in 1 .. Len(y) : P[R + k] \in F
    <3> SUFFICES ASSUME NEW k \in 1 .. Len(y)
                 PROVE  P[R + k] \in F
      OBVIOUS
    <3> DEFINE c == Len(h) + k
               d == na + c
    <3>1. y[k] \in F
      <4> HIDE DEF F
      <4>1. QED
        BY <2>1
    <3>2. c \in 1 .. Len(hy) /\ d \in 1 .. Len(e) /\ 1 + d = R + k
      BY <2>4, <2>5, <2>6, <2>7
    <3>3. hy[c] = y[k]
      BY <2>5
    <3>4. e[d] = hy[c]
      BY <2>6, <3>2
    <3>5. P[1 + d] = e[d]
      <4> HIDE DEF d
      <4>1. QED
        BY <1>1, <3>2
    <3>6. QED
      BY <3>1, <3>2, <3>3, <3>4, <3>5
  <2> HIDE DEF lc, lr, na, F
  <2>11. /\ S \in Int /\ C \in Int /\ R \in Int /\ C + 1 \in Int
         /\ S \in 2 .. z /\ C \in 2 .. z /\ R \in 2 .. z /\ S < C /\ C + 1 < R
    BY <2>7
  <2>12. P[S] = s /\ P[C] = b /\ P[C + 1] = n /\ P[R] = r
    <3>1. /\ 1 \in 1 .. lr /\ na + 1 + 1 = S
          /\ lc \in 1 .. lr /\ lc + 1 \in 1 .. lr /\ na + 1 + (lc + 1) = C + 1
          /\ lr \in 1 .. lr
      BY <2>7
    <3>2. P[na + 1 + 1] = h[1] /\ P[na + 1 + lc] = h[lc] /\ P[na + 1 + (lc + 1)] = h[lc + 1]
          /\ P[na + 1 + lr] = h[lr]
      BY <2>8, <3>1
    <3>3. QED
      BY <2>4, <3>1, <3>2
  <2>13. ASSUME NEW p \in 2 .. S - 1
         PROVE  P[p] \in F
    <3>1. p - 1 \in 1 .. na /\ 1 + (p - 1) = p
      BY <2>7
    <3>2. QED
      BY <2>9, <3>1
  <2>14. ASSUME NEW p \in S + 1 .. C - 1
         PROVE  P[p] \in Lap(m)
    <3> DEFINE k == p - S
    <3>1. /\ k \in 1 .. Len(L) /\ k + 1 \in 1 .. lr /\ na + 1 + (k + 1) = p
      BY <2>7
    <3> HIDE DEF k, S, C
    <3>2. P[p] = L[k]
      BY <2>4, <2>8, <3>1
    <3> DEFINE G == Lap(m)
    <3> HIDE DEF G
    <3>3. L[k] \in G
      BY <2>2, <3>1 DEF G
    <3>4. QED
      BY <3>2, <3>3 DEF G
  <2>15. ASSUME NEW p \in C + 2 .. R - 1
         PROVE  P[p] \in Rest(m)
    <3> DEFINE k == p - (C + 1)
    <3>1. /\ k \in 1 .. Len(Z) /\ lc + 1 + k \in 1 .. lr /\ na + 1 + (lc + 1 + k) = p
      BY <2>7
    <3> HIDE DEF k, C, R
    <3>2. P[p] = Z[k]
      BY <2>4, <2>8, <3>1
    <3> DEFINE G == Rest(m)
    <3> HIDE DEF G
    <3>3. Z[k] \in G
      BY <2>2, <3>1 DEF G
    <3>4. QED
      BY <3>2, <3>3 DEF G
  <2>16. ASSUME NEW p \in R + 1 .. z
         PROVE  P[p] \in F
    <3>1. CASE p = z
      BY <1>0, <3>1 DEF F
    <3>2. CASE p # z
      <4> DEFINE k == p - R
      <4>1. k \in 1 .. Len(y) /\ R + k = p
        BY <2>7, <3>2
      <4> HIDE DEF k, R
      <4>2. QED
        BY <2>10, <4>1
    <3>3. QED
      BY <3>1, <3>2
  <2> HIDE DEF S, C, R
  <2>17. Ends(P[S], P[C], P[C + 1], P[R], m)
    BY <2>2, <2>12
  <2>18. Frame(P, z, m, S, C, R)
    BY <2>11, <2>13, <2>14, <2>15, <2>16, <2>17 DEF Frame, F
  <2>19. QED
    BY <2>11, <2>18
<1>4. QED
  BY <1>2, <1>3 DEF Held

-----------------------------------------------------------------------------
(* The steps of a rank, as the measurements see them *)

\* What a step does to the place, the stamps and the table of rank q.
Standing(q) == t'[q] = t[q] /\ table'[q] = table[q]
Onward(q) == pos'[q] = pos[q] + 1 /\ ~Finished(q)
Doing(q, do) == q \in Current(q).by /\ Current(q).do = do

Resting(q) == pos'[q] = pos[q] /\ Standing(q)
Passing(q) ==
  /\ Onward(q) /\ Standing(q)
  /\ \A do \in {"stamp", "offset", "record"} : ~Doing(q, do)
Stamped(q) ==
  /\ Onward(q) /\ Doing(q, "stamp") /\ table'[q] = table[q]
  /\ \A s \in Stamps : t'[q][s] = IF s = Current(q).n THEN clock ELSE t[q][s]
Shifted(q) ==
  /\ Onward(q) /\ Doing(q, "offset") /\ table'[q] = table[q] /\ Current(q).n \in 0 .. 4
  /\ \A s \in Stamps :
       t'[q][s] = IF s <= Current(q).n THEN t[q][s] + (clock - t[q][Current(q).n])
                                       ELSE t[q][s]
Filled(q) ==
  /\ Onward(q) /\ Doing(q, "record") /\ t'[q] = t[q]
  /\ \E it, base \in Nat :
       LET rows == IF base \in {TreeCreation, TreeRemoval} THEN {base}
                   ELSE {base + k : k \in job.phases}
       IN  /\ Current(q).n = <<it, base>> /\ base \in Bases
           /\ \A jt \in Iterations, test \in Tests :
                table'[q][jt][test] = IF jt = it /\ test \in rows
                                      THEN Duration(q, test, base) ELSE table[q][jt][test]

LEMMA OthersRest ==
  ASSUME TInv, NEW r \in Ranks, pos' = [pos EXCEPT ![r] = @ + 1],
         \A q \in Ranks : q # r => Standing(q)
  PROVE  \A q \in Ranks : q # r => Resting(q)
<1>1. \A q \in Ranks : q # r => pos'[q] = pos[q]
  BY OneFurther
<1>2. QED
  BY <1>1 DEF Resting

LEMMA StampMoves ==
  ASSUME TInv, NEW r \in Ranks, TakeStamp(r), NEW q \in Ranks
  PROVE  Resting(q) \/ Stamped(q)
<1>1. /\ At(r, "stamp") /\ table' = table /\ pos' = [pos EXCEPT ![r] = @ + 1]
      /\ t' = [t EXCEPT ![r][Current(r).n] = clock]
  BY DEF TakeStamp, Alone, Go
<1> DEFINE n == Current(r).n
<1> HIDE DEF n
<1>2. t \in [Ranks -> [Stamps -> Int]]
  BY DEF TInv, Types
<1>3. t'[r] = [t[r] EXCEPT ![n] = clock] /\ \A p \in Ranks : p # r => t'[p] = t[p]
  <2>1. t' = [t EXCEPT ![r] = [t[r] EXCEPT ![n] = clock]]
    BY <1>1 DEF n
  <2>2. QED
    BY <1>2, <2>1
<1>4. \A s \in Stamps : t'[r][s] = IF s = n THEN clock ELSE t[r][s]
  <2>1. t[r] \in [Stamps -> Int]
    BY <1>2
  <2>2. QED
    BY <1>3, <2>1
<1>5. CASE q = r
  <2>1. pos'[r] = pos[r] + 1
    BY <1>1, OneFurther
  <2>2. Onward(r) /\ Doing(r, "stamp")
    BY <1>1, <2>1 DEF Onward, Doing, At
  <2>3. QED
    BY <1>1, <1>4, <1>5, <2>2 DEF Stamped, n
<1>6. CASE q # r
  <2>1. \A p \in Ranks : p # r => Standing(p)
    BY <1>1, <1>3 DEF Standing
  <2>2. QED
    BY <1>1, <1>6, <2>1, OthersRest
<1>7. QED
  BY <1>5, <1>6

LEMMA ShiftMoves ==
  ASSUME TInv, NEW r \in Ranks, OffsetTimers(r), NEW q \in Ranks
  PROVE  Resting(q) \/ Shifted(q)
<1> DEFINE n == Current(r).n
           d == clock - t[r][n]
<1>1. /\ At(r, "offset") /\ table' = table /\ pos' = [pos EXCEPT ![r] = @ + 1]
      /\ t' = [t EXCEPT ![r] = [s \in Stamps |-> IF s <= n THEN @[s] + d ELSE @[s]]]
  BY DEF OffsetTimers, Alone, Go
<1>2. t \in [Ranks -> [Stamps -> Int]] /\ n \in 0 .. 4
  BY <1>1, OffsetInRange DEF TInv, Types
<1> HIDE DEF n, d
<1>3. /\ t'[r] = [s \in Stamps |-> IF s <= n THEN t[r][s] + d ELSE t[r][s]]
      /\ \A p \in Ranks : p # r => t'[p] = t[p]
  BY <1>1, <1>2
<1>4. \A s \in Stamps : t'[r][s] = IF s <= n THEN t[r][s] + d ELSE t[r][s]
  BY <1>3
<1>5. CASE q = r
  <2>1. pos'[r] = pos[r] + 1
    BY <1>1, OneFurther
  <2>2. Onward(r) /\ Doing(r, "offset")
    BY <1>1, <2>1 DEF Onward, Doing, At
  <2>3. QED
    BY <1>1, <1>2, <1>4, <1>5, <2>2 DEF Shifted, n, d
<1>6. CASE q # r
  <2>1. \A p \in Ranks : p # r => Standing(p)
    BY <1>1, <1>3 DEF Standing
  <2>2. QED
    BY <1>1, <1>6, <2>1, OthersRest
<1>7. QED
  BY <1>5, <1>6

LEMMA RecordMoves ==
  ASSUME TInv, NEW i \in 1 .. NTasks, NEW B \in Nat, InRound(i, B), NEW r \in Ranks, Record(r),
         NEW q \in Ranks
  PROVE  Resting(q) \/ Filled(q)
<1> DEFINE it == Current(r).n[1]
           base == Current(r).n[2]
           rows == IF base \in {TreeCreation, TreeRemoval} THEN {base}
                   ELSE {base + k : k \in job.phases}
           row == [test \in Tests |-> IF test \in rows THEN Duration(r, test, base)
                                                       ELSE table[r][it][test]]
<1>1. /\ At(r, "record") /\ t' = t /\ pos' = [pos EXCEPT ![r] = @ + 1]
      /\ table' = [table EXCEPT ![r][it] = row]
  BY DEF Record, Alone, Go
<1>2. table \in [Ranks -> [Iterations -> [Tests -> Int]]]
  BY DEF InRound, Amounts, Cells
<1>3. /\ Current(r).n \in Nat \X {DirTest, FileTest, TreeCreation, TreeRemoval}
      /\ ~Finished(r)
  BY <1>1, WhereNow DEF At
<1>4. Current(r).n = <<it, base>> /\ it \in Nat /\ base \in Nat /\ base \in Bases
  <2>1. Current(r).n = <<it, base>> /\ it \in Nat
        /\ base \in {DirTest, FileTest, TreeCreation, TreeRemoval}
    BY <1>3
  <2>2. QED
    BY <2>1 DEF Bases, DirTest, FileTest, TreeCreation, TreeRemoval
<1> HIDE DEF it, base, rows, row
<1>5. table'[r] = [table[r] EXCEPT ![it] = row] /\ \A p \in Ranks : p # r => table'[p] = table[p]
  <2>1. table' = [table EXCEPT ![r] = [table[r] EXCEPT ![it] = row]]
    BY <1>1
  <2>2. QED
    BY <1>2, <2>1
<1>6. \A jt \in Iterations : table'[r][jt] = IF jt = it THEN row ELSE table[r][jt]
  <2>1. table[r] \in [Iterations -> [Tests -> Int]]
    BY <1>2
  <2>2. QED
    BY <1>5, <2>1
<1>7. \A jt \in Iterations, test \in Tests :
        table'[r][jt][test] = IF jt = it /\ test \in rows
                              THEN Duration(r, test, base) ELSE table[r][jt][test]
  <2>1. \A test \in Tests : row[test] = IF test \in rows THEN Duration(r, test, base)
                                                        ELSE table[r][it][test]
    BY DEF row
  <2>2. QED
    BY <1>6, <2>1
<1>8. CASE q = r
  <2>1. pos'[r] = pos[r] + 1
    BY <1>1, OneFurther
  <2>2. Onward(r) /\ Doing(r, "record")
    BY <1>1, <2>1 DEF Onward, Doing, At
  <2>3. QED
    BY <1>1, <1>4, <1>7, <1>8, <2>2 DEF Filled, rows
<1>9. CASE q # r
  <2>1. \A p \in Ranks : p # r => Standing(p)
    BY <1>1, <1>5 DEF Standing
  <2>2. QED
    BY <1>1, <1>9, <2>1, OthersRest
<1>10. QED
  BY <1>8, <1>9

\* Every step is one of these for every rank.
Moves(q) == Resting(q) \/ Passing(q) \/ Stamped(q) \/ Shifted(q) \/ Filled(q)

LEMMA EveryMove ==
  ASSUME TInv, NEW i \in 1 .. NTasks, NEW B \in Nat, InRound(i, B), [Next]_vars,
         NEW q \in Ranks
  PROVE  Moves(q) /\ clock' \in Int /\ clock <= clock' /\ job' = job
<1>1. clock \in Int /\ pos \in [Ranks -> Nat \ {0}]
  BY DEF TInv, Types
<1>2. CASE Tick \/ UNCHANGED vars
  <2>1. UNCHANGED <<job, pos, t, table>> /\ (clock' = clock + 1 \/ clock' = clock)
    BY <1>2 DEF Tick, vars, control, times
  <2>2. QED
    BY <1>1, <2>1 DEF Moves, Resting, Standing
<1>3. ASSUME NEW r \in Ranks, Go(r), t' = t, table' = table, ~Finished(r),
             \A do \in {"stamp", "offset", "record"} : ~Doing(r, do)
      PROVE  Moves(q)
  <2>1. pos' = [pos EXCEPT ![r] = @ + 1]
    BY <1>3 DEF Go
  <2>2. \A p \in Ranks : Standing(p)
    BY <1>3 DEF Standing
  <2>3. CASE q = r
    <3>1. pos'[r] = pos[r] + 1
      BY <2>1, OneFurther
    <3>2. QED
      BY <1>3, <2>2, <2>3, <3>1 DEF Moves, Passing, Onward
  <2>4. CASE q # r
    BY <2>1, <2>2, <2>4, OthersRest DEF Moves
  <2>5. QED
    BY <2>3, <2>4
<1>4. ASSUME NEW r \in Ranks, RankStep(r)
      PROVE  Moves(q) /\ clock' = clock /\ job' = job
  <2>1. CASE Skip(r)
    BY <1>3, <2>1 DEF Skip, Alone, Go, times, Doing
  <2>2. CASE TakeStamp(r)
    BY <2>2, StampMoves DEF TakeStamp, Alone, Go, Moves
  <2>3. CASE OffsetTimers(r)
    BY <2>3, ShiftMoves DEF OffsetTimers, Alone, Go, Moves
  <2>4. CASE Begin(r)
    BY <1>3, <2>4 DEF Begin, Alone, Go, At, Doing
  <2>5. CASE End(r)
    BY <1>3, <2>5 DEF End, Alone, Go, At, Doing
  <2>6. CASE Record(r)
    BY <2>6, RecordMoves DEF Record, Alone, Go, Moves
  <2>7. CASE Arrive(r)
    <3>1. UNCHANGED <<job, pos, t, table, clock>>
      BY <2>7 DEF Arrive, Abort, times
    <3>2. QED
      BY <3>1 DEF Moves, Resting, Standing
  <2>8. CASE Leave(r)
    <3>1. /\ waiting[r] /\ t' = t /\ table' = table /\ clock' = clock /\ job' = job
          /\ pos' = [pos EXCEPT ![r] = @ + 1]
      BY <2>8 DEF Leave, times
    <3>2. ~Finished(r) /\ Current(r).do \in {"barrier", "comm"}
      BY <3>1 DEF TInv, AtTheCall
    <3>3. \A p \in Ranks : Standing(p)
      BY <3>1 DEF Standing
    <3>4. CASE q = r
      <4>1. pos'[r] = pos[r] + 1
        BY <3>1, OneFurther
      <4>2. QED
        BY <3>1, <3>2, <3>3, <3>4, <4>1 DEF Moves, Passing, Onward, Doing
    <3>5. CASE q # r
      BY <3>1, <3>3, <3>5, OthersRest DEF Moves
    <3>6. QED
      BY <3>1, <3>4, <3>5
  <2>9. CASE Gather(r)
    <3>1. At(r, "gather") /\ Go(r) /\ UNCHANGED <<t, table>>
      BY <2>9 DEF Gather
    <3>2. QED
      BY <1>3, <3>1 DEF Go, At, Doing
  <2>10. CASE Summarize(r)
    BY <1>3, <2>10 DEF Summarize, Alone, Go, At, Doing
  <2>11. QED
    BY <1>4, <2>1, <2>2, <2>3, <2>4, <2>5, <2>6, <2>7, <2>8, <2>9, <2>10 DEF RankStep
<1>5. QED
  BY <1>1, <1>2, <1>4 DEF Next

-----------------------------------------------------------------------------
(* The measurements on the way *)

\* A measurement of the round, and its frame in the code.
Watched(i, m) == MeasureOf(m, i) /\ m.it \in Iterations /\ Sound(job, m)
FrameOf(i, B, m, S, C, R) ==
  /\ Watched(i, m) /\ S \in Int /\ C \in Int /\ R \in Int /\ Frame(Code, B, m, S, C, R)

LEMMA WatchedIs ==
  ASSUME NEW i \in 1 .. NTasks, NEW m, Watched(i, m)
  PROVE  /\ m.k \in Stamps /\ m.k + 1 \in Stamps /\ m.k \in Nat /\ m.test \in Tests
         /\ m.it \in Iterations /\ m.it \in Nat /\ m.base \in Bases /\ m.base \in Nat
         /\ m.W \subseteq Tasks(i) /\ m.W \subseteq Ranks /\ 0 \in m.W
         /\ m.k \in 0 .. 3 \/ m.k = 5
<1>1. /\ IsMeasure(m) /\ m.it \in Iterations
      /\ m.base \in {DirTest, FileTest} => OfTest(m, i)
      /\ m.base \in {TreeCreation, TreeRemoval} => m.W = {0} /\ m.test = m.base
  BY DEF Watched, MeasureOf
<1>2. m.it \in Nat /\ m.base \in Bases /\ 0 \in m.W
  BY <1>1 DEF IsMeasure
<1>3. 0 \in Tasks(i) /\ Tasks(i) \subseteq Ranks
  BY TasksAreRanks
<1>4. CASE m.base \in {DirTest, FileTest}
  <2>1. m.W = Tasks(i) /\ m.k \in 0 .. 3 /\ m.test = m.base + m.k /\ m.base \in {0, 4}
    BY <1>1, <1>4 DEF OfTest, DirTest, FileTest
  <2>2. m.k \in Stamps /\ m.k + 1 \in Stamps /\ m.k \in Nat /\ m.test \in Tests
        /\ m.base \in Nat
    BY <2>1 DEF Stamps, Tests, TableSize
  <2>3. QED
    BY <1>1, <1>2, <1>3, <2>1, <2>2
<1>5. CASE m.base \in {TreeCreation, TreeRemoval}
  <2>1. m.W = {0} /\ m.test = m.base /\ m.k = 5 /\ m.base \in {8, 9}
    BY <1>1, <1>5 DEF IsMeasure, TreeCreation, TreeRemoval, StartCreate
  <2>2. m.k \in Stamps /\ m.k + 1 \in Stamps /\ m.k \in Nat /\ m.test \in Tests
        /\ m.base \in Nat
    BY <2>1 DEF Stamps, Tests, TableSize
  <2>3. QED
    BY <1>1, <1>2, <1>3, <2>1, <2>2
<1>6. QED
  BY <1>2, <1>4, <1>5 DEF Bases

\* What a rank that works for the measurement does at each place.
LEMMA InFrame ==
  ASSUME NEW P, NEW z \in Int, NEW m, NEW S \in Int, NEW C \in Int, NEW R \in Int,
         Frame(P, z, m, S, C, R), NEW p \in 2 .. z
  PROVE  /\ S < C /\ C + 1 < R /\ S \in 2 .. z /\ C \in 2 .. z /\ R \in 2 .. z
         /\ p = S => P[p].do \in {"stamp", "offset"} /\ P[p].n = m.k /\ m.W \subseteq P[p].by
         /\ p \in S + 1 .. C => P[p].do \notin {"stamp", "offset", "record"}
         /\ p = C => P[p].do = "barrier"
         /\ p = C + 1 => P[p].do = "stamp" /\ P[p].n = m.k + 1 /\ m.W \subseteq P[p].by
         /\ p \in C + 2 .. R - 1 =>
              /\ P[p].do = "stamp" => P[p].n # m.k /\ P[p].n # m.k + 1
              /\ P[p].do = "offset" => P[p].n # m.k
         /\ p = R => /\ P[p].do = "record" /\ P[p].n = <<m.it, m.base>>
                     /\ m.W \subseteq P[p].by
         /\ P[p].do = "record" /\ P[p].n = <<m.it, m.base>> => p = R
         /\ P[p].do \in {"begin", "end"} /\ P[p].n = <<m.it, m.test>> =>
              p \in S + 1 .. C - 1 /\ P[p].by \subseteq m.W
<1>1. /\ S < C /\ C + 1 < R /\ S \in 2 .. z /\ C \in 2 .. z /\ R \in 2 .. z
      /\ Ends(P[S], P[C], P[C + 1], P[R], m)
  BY DEF Frame
<1>2. p \in 2 .. S - 1 \/ p \in R + 1 .. z => P[p] \in Else(m)
  BY DEF Frame
<1>3. p \in S + 1 .. C - 1 => P[p] \in Lap(m)
  BY DEF Frame
<1>4. p \in C + 2 .. R - 1 => P[p] \in Rest(m)
  BY DEF Frame
<1>5. CASE p \in 2 .. S - 1 \/ p \in R + 1 .. z
  <2>1. /\ p # S /\ p # C /\ p # C + 1 /\ p # R
        /\ p \notin S + 1 .. C /\ p \notin C + 2 .. R - 1
    BY <1>1, <1>5
  <2>2. /\ P[p].do \in {"begin", "end"} => P[p].n # <<m.it, m.test>>
        /\ P[p].do = "record" => P[p].n # <<m.it, m.base>>
    BY <1>2, <1>5 DEF Else
  <2>3. QED
    BY <1>1, <2>1, <2>2
<1>6. CASE p = S
  <2>1. p # C /\ p # C + 1 /\ p # R /\ p \notin S + 1 .. C /\ p \notin C + 2 .. R - 1
    BY <1>1, <1>6
  <2>2. P[p].do \in {"stamp", "offset"} /\ P[p].n = m.k /\ m.W \subseteq P[p].by
    BY <1>1, <1>6 DEF Ends
  <2>3. QED
    BY <1>1, <2>1, <2>2
<1>7. CASE p \in S + 1 .. C - 1
  <2>1. p # S /\ p # C /\ p # C + 1 /\ p # R /\ p \notin C + 2 .. R - 1
    BY <1>1, <1>7
  <2>2. /\ P[p].do \in {"barrier", "begin", "end"}
        /\ P[p].do \in {"begin", "end"} => P[p].by \subseteq m.W
    BY <1>3, <1>7 DEF Lap
  <2>3. QED
    BY <1>1, <1>7, <2>1, <2>2
<1>8. CASE p = C
  <2>1. p # S /\ p # C + 1 /\ p # R /\ p \notin C + 2 .. R - 1
    BY <1>1, <1>8
  <2>2. P[p].do = "barrier"
    BY <1>1, <1>8 DEF Ends
  <2>3. QED
    BY <1>1, <2>1, <2>2
<1>9. CASE p = C + 1
  <2>1. p # S /\ p # C /\ p # R /\ p \notin S + 1 .. C /\ p \notin C + 2 .. R - 1
    BY <1>1, <1>9
  <2>2. P[p].do = "stamp" /\ P[p].n = m.k + 1 /\ m.W \subseteq P[p].by
    BY <1>1, <1>9 DEF Ends
  <2>3. QED
    BY <1>1, <2>1, <2>2
<1>10. CASE p \in C + 2 .. R - 1
  <2>1. p # S /\ p # C /\ p # C + 1 /\ p # R /\ p \notin S + 1 .. C
    BY <1>1, <1>10
  <2>2. /\ P[p].do = "stamp" => P[p].n # m.k /\ P[p].n # m.k + 1
        /\ P[p].do = "offset" => P[p].n # m.k
        /\ P[p].do \in {"begin", "end"} => P[p].n # <<m.it, m.test>>
        /\ P[p].do = "record" => P[p].n # <<m.it, m.base>>
    BY <1>4, <1>10 DEF Rest, Else
  <2>3. QED
    BY <1>1, <2>1, <2>2
<1>11. CASE p = R
  <2>1. p # S /\ p # C /\ p # C + 1 /\ p \notin S + 1 .. C /\ p \notin C + 2 .. R - 1
    BY <1>1, <1>11
  <2>2. P[p].do = "record" /\ P[p].n = <<m.it, m.base>> /\ m.W \subseteq P[p].by
    BY <1>1, <1>11 DEF Ends
  <2>3. QED
    BY <1>1, <1>11, <2>1, <2>2
<1>12. QED
  BY <1>1, <1>5, <1>6, <1>7, <1>8, <1>9, <1>10, <1>11

\* The first stamp of the work lies before the work, and the duration the rank is about to
\* report, or has reported, is at least d.
Early(m, S, C, q) == S < pos[q] /\ pos[q] <= C + 1 => t[q][m.k] <= clock
Covers(m, S, C, R, q, a, b) ==
  /\ pos[q] > S
  /\ pos[q] <= C + 1 => t[q][m.k] <= a
  /\ C + 1 < pos[q] /\ pos[q] <= R => t[q][m.k + 1] - t[q][m.k] >= b - a
  /\ R < pos[q] => table[q][m.it][m.test] >= b - a

\* The places of a rank in a round, and what it is about to do there.
LEMMA PlaceOf ==
  ASSUME TInv, NEW i \in 1 .. NTasks, NEW B \in Nat, InRound(i, B), NEW m, NEW S, NEW C, NEW R,
         FrameOf(i, B, m, S, C, R), NEW q \in m.W
  PROVE  /\ q \in Ranks /\ q \in Tasks(i) /\ pos[q] \in Nat \ {0} /\ pos[q] \in Int
         /\ t[q] \in [Stamps -> Int] /\ t[q][m.k] \in Int /\ t[q][m.k + 1] \in Int
         /\ table[q][m.it][m.test] \in Int /\ clock \in Int
<1>1. q \in Ranks /\ q \in Tasks(i) /\ m.k \in Stamps /\ m.k + 1 \in Stamps /\ m.it \in Iterations
      /\ m.test \in Tests
  BY WatchedIs DEF FrameOf
<1>2. /\ pos \in [Ranks -> Nat \ {0}] /\ t \in [Ranks -> [Stamps -> Int]] /\ clock \in Int
      /\ table \in [Ranks -> [Iterations -> [Tests -> Int]]]
  BY DEF TInv, Types, InRound, Amounts, Cells
<1>3. t[q] \in [Stamps -> Int] /\ table[q] \in [Iterations -> [Tests -> Int]]
      /\ pos[q] \in Nat \ {0}
  BY <1>1, <1>2
<1>4. t[q][m.k] \in Int /\ t[q][m.k + 1] \in Int
  BY <1>1, <1>3
<1>5. table[q][m.it][m.test] \in Int
  <2>1. table[q][m.it] \in [Tests -> Int]
    BY <1>1, <1>3
  <2>2. QED
    BY <1>1, <2>1
<1>6. QED
  BY <1>1, <1>2, <1>3, <1>4, <1>5

\* What an instruction p of a frame may be.
Seen(P, m, S, C, R, p) ==
  /\ p = S => P[p].do \in {"stamp", "offset"} /\ P[p].n = m.k /\ m.W \subseteq P[p].by
  /\ p \in S + 1 .. C => P[p].do \notin {"stamp", "offset", "record"}
  /\ p = C + 1 => P[p].do = "stamp" /\ P[p].n = m.k + 1 /\ m.W \subseteq P[p].by
  /\ p \in C + 2 .. R - 1 => /\ P[p].do = "stamp" => P[p].n # m.k /\ P[p].n # m.k + 1
                             /\ P[p].do = "offset" => P[p].n # m.k
  /\ p = R => P[p].do = "record" /\ P[p].n = <<m.it, m.base>> /\ m.W \subseteq P[p].by
  /\ P[p].do = "record" /\ P[p].n = <<m.it, m.base>> => p = R

LEMMA FrameSeen ==
  ASSUME NEW P, NEW z \in Int, NEW m, NEW S \in Int, NEW C \in Int, NEW R \in Int,
         Frame(P, z, m, S, C, R), NEW p \in 2 .. z
  PROVE  Seen(P, m, S, C, R, p)
  BY InFrame DEF Seen

\* Up to the record, the code under rank q is that of the frame.
LEMMA FrameHere ==
  ASSUME TInv, NEW i \in 1 .. NTasks, NEW B \in Nat, InRound(i, B), NEW m, NEW S, NEW C, NEW R,
         FrameOf(i, B, m, S, C, R), NEW q \in m.W, ~Finished(q)
  PROVE  LET p == pos[q]
             x == Current(q)
         IN  /\ S < C /\ C + 1 < R /\ S >= 2 /\ R <= B
             /\ p = S => x.do \in {"stamp", "offset"} /\ x.n = m.k /\ q \in x.by
             /\ p \in S + 1 .. C => x.do \notin {"stamp", "offset", "record"}
             /\ p = C + 1 => x.do = "stamp" /\ x.n = m.k + 1 /\ q \in x.by
             /\ p \in C + 2 .. R - 1 => /\ x.do = "stamp" => x.n # m.k /\ x.n # m.k + 1
                                        /\ x.do = "offset" => x.n # m.k
             /\ p = R => x.do = "record" /\ x.n = <<m.it, m.base>> /\ q \in x.by
             /\ x.do = "record" /\ x.n = <<m.it, m.base>> => p = R
<1> DEFINE p == pos[q]
<1>1. q \in Ranks /\ p \in Nat \ {0} /\ S \in Int /\ C \in Int /\ R \in Int
      /\ Frame(Code, B, m, S, C, R)
  BY PlaceOf DEF FrameOf
<1>2. Current(q) = Code[p] /\ (Current(q).do = "record" => p \in 2 .. B)
  BY <1>1, Here, WhereNow
<1> HIDE DEF p
<1>3. S < C /\ C + 1 < R /\ S \in 2 .. B /\ R \in 2 .. B
  BY <1>1 DEF Frame
<1>4. CASE p \in 2 .. B
  <2>1. B \in Int
    OBVIOUS
  <2> DEFINE P == Code
  <2> HIDE DEF P
  <2>2. Frame(P, B, m, S, C, R) /\ S \in Int /\ C \in Int /\ R \in Int
    BY <1>1 DEF P
  <2>3. Seen(P, m, S, C, R, p)
    BY <1>4, <2>1, <2>2, FrameSeen
  <2>4. Current(q) = P[p]
    BY <1>2 DEF P
  <2>5. QED
    BY <1>3, <2>3, <2>4 DEF p, Seen
<1>5. CASE p \notin 2 .. B
  <2>1. /\ p # S /\ p \notin S + 1 .. C /\ p # C + 1 /\ p \notin C + 2 .. R - 1 /\ p # R
        /\ Current(q).do # "record"
    BY <1>1, <1>2, <1>3, <1>5
  <2>2. QED
    BY <1>3, <2>1 DEF p
<1>6. QED
  BY <1>4, <1>5

LEMMA EarlyMoves ==
  ASSUME TInv, NEW i \in 1 .. NTasks, NEW B \in Nat, InRound(i, B), [Next]_vars,
         NEW m, NEW S, NEW C, NEW R, FrameOf(i, B, m, S, C, R), NEW q \in m.W,
         Early(m, S, C, q)
  PROVE  Early(m, S, C, q)'
<1> DEFINE p == pos[q]
           x == Current(q)
           k == m.k
           v == t[q][k]
           w == t'[q][k]
<1>1. q \in Ranks /\ p \in Nat /\ v \in Int /\ clock \in Int /\ S \in Int /\ C \in Int /\ R \in Int
      /\ k \in Stamps
  BY PlaceOf, WatchedIs DEF FrameOf
<1>2. Moves(q) /\ clock' \in Int /\ clock <= clock'
  BY <1>1, EveryMove
<1>3. S < p /\ p <= C + 1 => v <= clock
  BY DEF Early
<1>4. SUFFICES ASSUME S < pos'[q], pos'[q] <= C + 1
               PROVE  w <= clock'
  BY DEF Early
<1>5. CASE Resting(q)
  <2>1. pos'[q] = p /\ w = v
    BY <1>5 DEF Resting, Standing
  <2> HIDE DEF p, v, w
  <2>2. QED
    BY <1>1, <1>2, <1>3, <1>4, <2>1
<1>6. CASE ~Resting(q)
  <2>1. pos'[q] = p + 1 /\ ~Finished(q) /\ (Passing(q) \/ Stamped(q) \/ Shifted(q) \/ Filled(q))
    BY <1>2, <1>6 DEF Moves, Passing, Stamped, Shifted, Filled, Onward
  <2>2. /\ S < C /\ C + 1 < R
        /\ p = S => x.do \in {"stamp", "offset"} /\ x.n = k /\ q \in x.by
        /\ p \in S + 1 .. C => x.do \notin {"stamp", "offset", "record"}
    BY <2>1, FrameHere
  <2>3. CASE p = S
    <3>1. x.do \in {"stamp", "offset"} /\ x.n = k /\ q \in x.by
      BY <2>2, <2>3
    <3>2. Stamped(q) \/ Shifted(q)
      BY <2>1, <3>1 DEF Passing, Filled, Doing
    <3>3. w = clock
      <4>1. CASE Stamped(q)
        BY <1>1, <3>1, <4>1 DEF Stamped
      <4>2. CASE Shifted(q)
        <5>1. k \in 0 .. 4 /\ k <= k /\ w = v + (clock - v)
          BY <1>1, <3>1, <4>2 DEF Shifted
        <5> HIDE DEF v, w
        <5>2. QED
          BY <1>1, <5>1
      <4>3. QED
        BY <3>2, <4>1, <4>2
    <3> HIDE DEF w
    <3>4. QED
      BY <1>1, <1>2, <3>3
  <2>4. CASE p # S
    <3>1. S < p /\ p <= C /\ p \in S + 1 .. C
      BY <1>1, <1>4, <2>1, <2>4
    <3>2. Passing(q)
      BY <2>1, <2>2, <3>1 DEF Stamped, Shifted, Filled, Doing
    <3>3. w = v
      BY <3>2 DEF Passing, Standing
    <3> HIDE DEF p, v, w
    <3>4. v <= clock
      BY <1>1, <1>3, <3>1
    <3>5. QED
      BY <1>1, <1>2, <3>3, <3>4
  <2>5. QED
    BY <2>3, <2>4
<1>7. QED
  BY <1>5, <1>6

\* What is written into the table is the difference of the stamps around the work.
LEMMA WrittenIs ==
  ASSUME TInv, NEW i \in 1 .. NTasks, NEW B \in Nat, InRound(i, B),
         NEW m, NEW S, NEW C, NEW R, FrameOf(i, B, m, S, C, R), NEW q \in m.W,
         Filled(q)
  PROVE  table'[q][m.it][m.test] =
           IF Current(q).n = <<m.it, m.base>> THEN t[q][m.k + 1] - t[q][m.k]
           ELSE table[q][m.it][m.test]
<1> DEFINE Rows(base) == IF base \in {TreeCreation, TreeRemoval} THEN {base}
                         ELSE {base + k : k \in job.phases}
<1>1. PICK it \in Nat, base \in Nat :
        /\ Current(q).n = <<it, base>> /\ base \in Bases
        /\ \A jt \in Iterations, test \in Tests :
             table'[q][jt][test] = IF jt = it /\ test \in Rows(base)
                                   THEN Duration(q, test, base) ELSE table[q][jt][test]
  BY DEF Filled
<1>2. /\ m.it \in Iterations /\ m.test \in Tests /\ m.base \in Bases
      /\ IsMeasure(m) /\ Sound(job, m) /\ MeasureOf(m, i)
  BY WatchedIs DEF FrameOf, Watched, MeasureOf
<1>3. table'[q][m.it][m.test] = IF m.it = it /\ m.test \in Rows(base)
                                THEN Duration(q, m.test, base) ELSE table[q][m.it][m.test]
  BY <1>1, <1>2
<1>4. m.test \in Rows(m.base)
  <2>1. CASE m.base \in {DirTest, FileTest}
    <3>1. m.k \in job.phases /\ m.test = m.base + m.k
      BY <1>2, <2>1 DEF Sound, MeasureOf, OfTest
    <3>2. m.base \notin {TreeCreation, TreeRemoval}
      BY <2>1 DEF DirTest, FileTest, TreeCreation, TreeRemoval
    <3>3. QED
      BY <3>1, <3>2
  <2>2. CASE m.base \in {TreeCreation, TreeRemoval}
    BY <1>2, <2>2 DEF MeasureOf
  <2>3. QED
    BY <1>2, <2>1, <2>2 DEF Bases
<1>5. base # m.base => m.test \notin Rows(base)
  <2>1. job.phases \subseteq 0 .. 3
    BY TimingAssumption DEF TInv, Types, IsJob, Phases
  <2>2. Rows(base) \subseteq RowsOf(base)
    BY <2>1 DEF RowsOf
  <2>3. m.test \in RowsOf(m.base)
    BY <1>2 DEF IsMeasure
  <2> HIDE DEF Rows
  <2>4. base # m.base => m.test \notin RowsOf(base)
    BY <1>1, <1>2, <2>3 DEF Bases, RowsOf, DirTest, FileTest, TreeCreation, TreeRemoval
  <2>5. QED
    BY <2>2, <2>4
<1>6. Duration(q, m.test, m.base) = t[q][m.k + 1] - t[q][m.k]
  <2>1. CASE m.base \in {DirTest, FileTest}
    <3>1. m.k \in 0 .. 3 /\ m.test = m.base + m.k /\ m.base \in {0, 4}
          /\ m.base \notin {TreeCreation, TreeRemoval}
      BY <1>2, <2>1 DEF MeasureOf, OfTest, DirTest, FileTest, TreeCreation, TreeRemoval
    <3>2. m.test - m.base = m.k /\ m.test - m.base + 1 = m.k + 1
      BY <3>1
    <3>3. QED
      BY <3>1, <3>2 DEF Duration
  <2>2. CASE m.base \in {TreeCreation, TreeRemoval}
    <3>1. m.k = StartCreate /\ m.k + 1 = EndCreate
      BY <1>2, <2>2 DEF IsMeasure, StartCreate, EndCreate
    <3>2. QED
      BY <2>2, <3>1 DEF Duration
  <2>3. QED
    BY <1>2, <2>1, <2>2 DEF Bases
<1> HIDE DEF Rows
<1>7. CASE it = m.it /\ base = m.base
  BY <1>1, <1>3, <1>4, <1>6, <1>7
<1>8. CASE ~(it = m.it /\ base = m.base)
  <2>1. Current(q).n # <<m.it, m.base>>
    BY <1>1, <1>8
  <2>2. ~(m.it = it /\ m.test \in Rows(base))
    BY <1>5, <1>8
  <2>3. QED
    BY <1>3, <2>1, <2>2
<1>9. QED
  BY <1>7, <1>8

\* A step leaves a rank's duration long enough.
LEMMA CoversMoves ==
  ASSUME TInv, NEW i \in 1 .. NTasks, NEW B \in Nat, InRound(i, B), [Next]_vars,
         NEW m, NEW S, NEW C, NEW R, FrameOf(i, B, m, S, C, R), NEW q \in m.W,
         NEW a \in Int, NEW b \in Int, b <= clock, Covers(m, S, C, R, q, a, b)
  PROVE  /\ pos'[q] > S
         /\ pos'[q] <= C + 1 => t'[q][m.k] <= a
         /\ C + 1 < pos'[q] /\ pos'[q] <= R => t'[q][m.k + 1] - t'[q][m.k] >= b - a
         /\ R < pos'[q] => table'[q][m.it][m.test] >= b - a
<1> DEFINE p == pos[q]
           o == pos'[q]
           x == Current(q)
           k == m.k
           u == t[q][k]
           v == t[q][k + 1]
           d == table[q][m.it][m.test]
           uu == t'[q][k]
           vv == t'[q][k + 1]
           dd == table'[q][m.it][m.test]
<1>1. q \in Ranks /\ p \in Nat /\ u \in Int /\ v \in Int /\ d \in Int /\ clock \in Int
      /\ S \in Int /\ C \in Int /\ R \in Int
  BY PlaceOf DEF FrameOf
<1>2. k \in Stamps /\ k + 1 \in Stamps /\ k + 1 # k /\ (k \in 0 .. 3 \/ k = 5)
  <2>1. k \in Stamps /\ k + 1 \in Stamps /\ k \in Nat /\ (k \in 0 .. 3 \/ k = 5)
    BY WatchedIs DEF FrameOf
  <2>2. QED
    BY <2>1
<1>3. Moves(q)
  BY <1>1, EveryMove
<1>4. /\ p > S
      /\ p <= C + 1 => u <= a
      /\ C + 1 < p /\ p <= R => v - u >= b - a
      /\ R < p => d >= b - a
  BY DEF Covers
<1> DEFINE Goal == /\ o > S
                   /\ o <= C + 1 => uu <= a
                   /\ C + 1 < o /\ o <= R => vv - uu >= b - a
                   /\ R < o => dd >= b - a
<1>5. CASE Resting(q)
  <2>1. o = p /\ uu = u /\ vv = v /\ dd = d
    BY <1>5 DEF Resting, Standing
  <2> HIDE DEF p, o, u, v, d, uu, vv, dd
  <2>2. Goal
    BY <1>4, <2>1
  <2>3. QED
    BY <2>2 DEF p, o, u, v, d, uu, vv, dd
<1>6. CASE ~Resting(q)
  <2>1. o = p + 1 /\ ~Finished(q) /\ (Passing(q) \/ Stamped(q) \/ Shifted(q) \/ Filled(q))
    BY <1>3, <1>6 DEF Moves, Passing, Stamped, Shifted, Filled, Onward
  <2>2. /\ S < C /\ C + 1 < R
        /\ p \in S + 1 .. C => x.do \notin {"stamp", "offset", "record"}
        /\ p = C + 1 => x.do = "stamp" /\ x.n = k + 1 /\ q \in x.by
        /\ p \in C + 2 .. R - 1 => /\ x.do = "stamp" => x.n # k /\ x.n # k + 1
                                   /\ x.do = "offset" => x.n # k
        /\ p = R => x.do = "record" /\ x.n = <<m.it, m.base>> /\ q \in x.by
        /\ x.do = "record" /\ x.n = <<m.it, m.base>> => p = R
    BY <2>1, FrameHere
  <2>3. CASE p \in S + 1 .. C
    <3>1. Passing(q)
      BY <2>1, <2>2, <2>3 DEF Stamped, Shifted, Filled, Doing
    <3>2. uu = u
      BY <3>1 DEF Passing, Standing
    <3> HIDE DEF p, o, u, v, d, uu, vv, dd, k
    <3>3. Goal
      BY <1>1, <1>4, <2>1, <2>2, <2>3, <3>2
    <3>4. QED
      BY <3>3 DEF p, o, u, v, d, uu, vv, dd, k
  <2>4. CASE p = C + 1
    <3>1. x.do = "stamp" /\ x.n = k + 1 /\ q \in x.by
      BY <2>2, <2>4
    <3>2. Stamped(q)
      BY <2>1, <3>1 DEF Passing, Shifted, Filled, Doing
    <3>3. uu = u /\ vv = clock
      BY <1>2, <3>1, <3>2 DEF Stamped
    <3> HIDE DEF p, o, u, v, d, uu, vv, dd, k
    <3>4. Goal
      BY <1>1, <1>4, <2>1, <2>2, <2>4, <3>3
    <3>5. QED
      BY <3>4 DEF p, o, u, v, d, uu, vv, dd, k
  <2>5. CASE p \in C + 2 .. R - 1
    <3>1. vv - uu = v - u
      <4>1. CASE Passing(q) \/ Filled(q)
        BY <4>1 DEF Passing, Standing, Filled
      <4>2. CASE Stamped(q)
        <5>1. x.n # k /\ x.n # k + 1
          BY <2>2, <2>5, <4>2 DEF Stamped, Doing
        <5>2. uu = u /\ vv = v
          BY <1>2, <4>2, <5>1 DEF Stamped
        <5>3. QED
          BY <5>2
      <4>3. CASE Shifted(q)
        <5> DEFINE n == x.n
                   e == clock - t[q][n]
        <5>1. n # k /\ n \in 0 .. 4
          BY <2>2, <2>5, <4>3 DEF Shifted, Doing
        <5>2. /\ uu = IF k <= n THEN u + e ELSE u
              /\ vv = IF k + 1 <= n THEN v + e ELSE v
          BY <1>2, <4>3 DEF Shifted
        <5>3. e \in Int
          <6>1. n \in Stamps /\ t[q] \in [Stamps -> Int]
            BY <5>1, PlaceOf DEF Stamps
          <6>2. t[q][n] \in Int
            BY <6>1
          <6>3. QED
            BY <1>1, <6>2
        <5> HIDE DEF n, e, u, v, uu, vv, k
        <5>4. (k <= n) <=> (k + 1 <= n)
          BY <1>2, <5>1
        <5>5. QED
          BY <1>1, <5>2, <5>3, <5>4
      <4>4. QED
        BY <2>1, <4>1, <4>2, <4>3
    <3> HIDE DEF p, o, u, v, d, uu, vv, dd, k
    <3>2. Goal
      BY <1>1, <1>4, <2>1, <2>2, <2>5, <3>1
    <3>3. QED
      BY <3>2 DEF p, o, u, v, d, uu, vv, dd, k
  <2>6. CASE p = R
    <3>1. x.do = "record" /\ x.n = <<m.it, m.base>> /\ q \in x.by
      BY <2>2, <2>6
    <3>2. Filled(q)
      BY <2>1, <3>1 DEF Passing, Stamped, Shifted, Doing
    <3>3. dd = v - u
      BY <3>1, <3>2, WrittenIs
    <3> HIDE DEF p, o, u, v, d, uu, vv, dd, k
    <3>4. Goal
      BY <1>1, <1>4, <2>1, <2>2, <2>6, <3>3
    <3>5. QED
      BY <3>4 DEF p, o, u, v, d, uu, vv, dd, k
  <2>7. CASE p > R
    <3>1. dd = d
      <4>1. CASE Filled(q)
        <5>1. x.n # <<m.it, m.base>>
          <6>1. x.do = "record"
            BY <4>1 DEF Filled, Doing
          <6>2. p # R
            BY <1>1, <2>7
          <6>3. QED
            BY <2>2, <6>1, <6>2
        <5>2. QED
          BY <4>1, <5>1, WrittenIs
      <4>2. CASE ~Filled(q)
        BY <2>1, <4>2 DEF Passing, Stamped, Shifted, Standing
      <4>3. QED
        BY <4>1, <4>2
    <3> HIDE DEF p, o, u, v, d, uu, vv, dd, k
    <3>2. Goal
      BY <1>1, <1>4, <2>1, <2>2, <2>7, <3>1
    <3>3. QED
      BY <3>2 DEF p, o, u, v, d, uu, vv, dd, k
  <2>8. p \in S + 1 .. C \/ p = C + 1 \/ p \in C + 2 .. R - 1 \/ p = R \/ p > R
    <3>1. S < C /\ C + 1 < R /\ p > S
      BY <1>4, <2>2
    <3> HIDE DEF p
    <3>2. QED
      BY <1>1, <3>1
  <2>9. QED
    BY <2>3, <2>4, <2>5, <2>6, <2>7, <2>8
<1>7. QED
  BY <1>5, <1>6

\* Between two barriers the tasks are never more than one call apart.
InStep(i, B) ==
  \A C \in 2 .. B, q, r \in Tasks(i) :
    Code[C].do = "barrier" /\ pos[q] > C => pos[r] > C \/ (pos[r] = C /\ waiting[r])

LEMMA CallMoves ==
  ASSUME TInv, [Next]_vars, NEW q \in Ranks
  PROVE  /\ pos'[q] = pos[q] \/ pos'[q] = pos[q] + 1
         /\ waiting[q] /\ pos'[q] = pos[q] => waiting'[q]
         /\ pos'[q] # pos[q] /\ Doing(q, "barrier") => Leave(q)
         /\ job' = job
<1>1. pos \in [Ranks -> Nat \ {0}] /\ waiting \in [Ranks -> BOOLEAN]
  BY DEF TInv, Types
<1>2. CASE Tick \/ UNCHANGED vars
  BY <1>2 DEF Tick, vars, control
<1>3. ASSUME NEW r \in Ranks, Go(r), ~(Doing(r, "barrier"))
      PROVE  /\ pos'[q] = pos[q] \/ pos'[q] = pos[q] + 1
             /\ waiting[q] /\ pos'[q] = pos[q] => waiting'[q]
             /\ pos'[q] # pos[q] => q = r
             /\ job' = job
  <2>1. pos' = [pos EXCEPT ![r] = @ + 1] /\ waiting' = waiting /\ job' = job
    BY <1>3 DEF Go
  <2>2. pos'[r] = pos[r] + 1 /\ (q # r => pos'[q] = pos[q])
    BY <2>1, OneFurther
  <2>3. QED
    BY <2>1, <2>2
<1>4. ASSUME NEW r \in Ranks, RankStep(r), ~Arrive(r), ~Leave(r)
      PROVE  Go(r) /\ ~Doing(r, "barrier")
  BY <1>4 DEF RankStep, Skip, TakeStamp, OffsetTimers, Begin, End, Record, Gather, Summarize,
              Alone, At, Doing
<1>5. ASSUME NEW r \in Ranks, Arrive(r)
      PROVE  pos'[q] = pos[q] /\ (waiting[q] => waiting'[q]) /\ job' = job
  <2>1. pos' = pos /\ job' = job
        /\ (waiting' = waiting \/ waiting' = [waiting EXCEPT ![r] = TRUE])
    BY <1>5 DEF Arrive, Abort
  <2>2. QED
    BY <1>1, <2>1
<1>6. ASSUME NEW r \in Ranks, Leave(r)
      PROVE  /\ pos'[r] = pos[r] + 1 /\ job' = job
             /\ q # r => pos'[q] = pos[q] /\ waiting'[q] = waiting[q]
  <2>1. pos' = [pos EXCEPT ![r] = @ + 1] /\ waiting' = [waiting EXCEPT ![r] = FALSE] /\ job' = job
    BY <1>6 DEF Leave
  <2>2. pos'[r] = pos[r] + 1 /\ (q # r => pos'[q] = pos[q])
    BY <2>1, OneFurther
  <2>3. QED
    BY <1>1, <2>1, <2>2
<1>7. CASE \E r \in Ranks : RankStep(r)
  <2>1. PICK r \in Ranks : RankStep(r)
    BY <1>7
  <2>2. CASE Arrive(r)
    BY <1>5, <2>2
  <2>3. CASE Leave(r)
    <3>1. CASE q = r
      <4>1. pos[r] \in Nat /\ pos'[r] # pos[r]
        BY <1>1, <1>6, <2>3
      <4>2. QED
        BY <1>6, <2>3, <3>1, <4>1
    <3>2. CASE q # r
      BY <1>6, <2>3, <3>2
    <3>3. QED
      BY <3>1, <3>2
  <2>4. CASE ~Arrive(r) /\ ~Leave(r)
    <3>1. Go(r) /\ ~Doing(r, "barrier")
      BY <1>4, <2>1, <2>4
    <3>2. QED
      BY <1>3, <3>1
  <2>5. QED
    BY <2>2, <2>3, <2>4
<1>8. QED
  BY <1>2, <1>7 DEF Next

\* Who leaves a barrier has seen everybody come to it.
LEMMA ArrivedTogether ==
  ASSUME TInv, NEW i \in 1 .. NTasks, NEW B \in Nat, InRound(i, B), NEW q \in Tasks(i),
         Leave(q), Current(q).do = "barrier", NEW r \in Tasks(i)
  PROVE  pos[r] > pos[q] \/ (pos[r] = pos[q] /\ waiting[r])
<1> DEFINE c(p) == Cardinality(Passed(p))
<1>1. r \in Ranks /\ q \in Ranks
  BY TasksAreRanks
<1>2. pos[r] \in Nat \ {0} /\ pos[q] \in Nat \ {0}
  BY <1>1 DEF TInv, Types
<1>3. waiting[q] /\ AllArrived(q) /\ ~Finished(q)
  BY <1>1 DEF Leave, TInv, AtTheCall
<1>4. calls[r] >= calls[q]
  <2>1. pos[q] = 1 => Current(q).do = "comm"
    BY <1>1, <1>3, WhereNow
  <2>2. comm[q] = Tasks(i)
    BY <1>1, <2>1 DEF InRound, Members
  <2>3. QED
    BY <1>3, <2>2 DEF AllArrived
<1>5. calls[q] = c(pos[q]) + 1 /\ calls[r] = c(pos[r]) + (IF waiting[r] THEN 1 ELSE 0)
  BY <1>3 DEF InRound, CallsCounted
<1>6. c(pos[r]) \in Nat /\ c(pos[q]) \in Nat
  BY <1>2, PassedFinite
<1> SUFFICES ASSUME pos[r] <= pos[q]
             PROVE  pos[r] = pos[q] /\ waiting[r]
  BY <1>2
<1>7. c(pos[r]) <= c(pos[q])
  BY <1>2, PassedMore
<1>8. waiting[r]
  <2> HIDE DEF c
  <2>1. QED
    BY <1>4, <1>5, <1>6, <1>7
<1>9. Current(r).do \in Collective
  BY <1>1, <1>8 DEF TInv, AtTheCall, Collective
<1>10. c(pos[r] + 1) = c(pos[r]) + 1
  BY <1>2, <1>6, <1>9, PassedOne DEF Current
<1>11. ~(pos[r] < pos[q])
  <2> SUFFICES ASSUME pos[r] < pos[q]
               PROVE  FALSE
    OBVIOUS
  <2>1. pos[r] + 1 \in Nat /\ pos[r] + 1 <= pos[q]
    BY <1>2
  <2>2. c(pos[r] + 1) <= c(pos[q])
    BY <1>2, <2>1, PassedMore
  <2> HIDE DEF c
  <2>3. QED
    BY <1>4, <1>5, <1>6, <1>8, <1>10, <2>2
<1>12. QED
  BY <1>2, <1>8, <1>11

LEMMA InStepMoves ==
  ASSUME TInv, NEW i \in 1 .. NTasks, NEW B \in Nat, InRound(i, B), [Next]_vars, InStep(i, B)
  PROVE  InStep(i, B)'
<1>0. Code' = Code
  <2>1. 0 \in Ranks
    BY TimingAssumption DEF Ranks
  <2>2. job' = job
    BY <2>1, CallMoves
  <2>3. QED
    BY <2>2 DEF Code
<1>1. ASSUME NEW C \in 2 .. B, NEW q \in Tasks(i), NEW r \in Tasks(i), Code[C].do = "barrier",
             pos'[q] > C
      PROVE  pos'[r] > C \/ (pos'[r] = C /\ waiting'[r])
  <2>1. q \in Ranks /\ r \in Ranks
    BY TasksAreRanks
  <2>2. pos[q] \in Nat \ {0} /\ pos[r] \in Nat \ {0} /\ C \in Nat
    BY <2>1 DEF TInv, Types
  <2>3. /\ pos'[q] = pos[q] \/ pos'[q] = pos[q] + 1
        /\ pos'[r] = pos[r] \/ pos'[r] = pos[r] + 1
        /\ waiting[r] /\ pos'[r] = pos[r] => waiting'[r]
    BY <2>1, CallMoves
  <2>4. pos[r] > C \/ (pos[r] = C /\ waiting[r]) =>
          pos'[r] > C \/ (pos'[r] = C /\ waiting'[r])
    <3>1. CASE pos[r] > C
      BY <2>2, <2>3, <3>1
    <3>2. CASE pos[r] = C /\ waiting[r] /\ pos'[r] = pos[r]
      BY <2>3, <3>2
    <3>3. CASE pos[r] = C /\ pos'[r] = pos[r] + 1
      BY <2>2, <3>3
    <3>4. QED
      BY <2>3, <3>1, <3>2, <3>3
  <2>5. CASE pos[q] > C
    BY <1>1, <2>4, <2>5 DEF InStep
  <2>6. CASE ~(pos[q] > C)
    <3>1. pos[q] = C /\ pos'[q] # pos[q]
      BY <1>1, <2>2, <2>3, <2>6
    <3>2. Leave(q) /\ Current(q).do = "barrier"
      <4>1. Current(q).do = "barrier"
        BY <1>1, <3>1 DEF Current
      <4>2. ~Finished(q)
        <5>1. Len(Code) \in Nat /\ B <= Len(Code)
          <6>1. job.iterations \in Nat
            BY TimingAssumption DEF IsJob, TInv, Types
          <6>2. QED
            BY <6>1 DEF InRound, Layout
        <5>2. QED
          BY <2>2, <3>1, <5>1 DEF Finished
      <4>3. Tasks(i) \subseteq Current(q).by
        BY <2>1, <4>1, <4>2, WhereNow DEF Collective
      <4>4. QED
        BY <2>1, <3>1, <4>1, <4>3, CallMoves DEF Doing
    <3>3. pos[r] > C \/ (pos[r] = C /\ waiting[r])
      BY <3>1, <3>2, ArrivedTogether
    <3>4. QED
      BY <2>4, <3>3
  <2>7. QED
    BY <2>5, <2>6
<1>2. QED
  BY <1>0, <1>1 DEF InStep

\* What has been observed of the work is in the durations of a rank that worked.
Kept(m, S, C, R) ==
  <<m.it, m.test>> \in DOMAIN span =>
    \E a, b \in Int : /\ span[<<m.it, m.test>>] = <<a, b>> /\ b <= clock
                      /\ \E q \in m.W : Covers(m, S, C, R, q, a, b)

\* Only the tests that the round has calls of have been observed.
SpanKeys(B) ==
  \A key \in DOMAIN span : \E p \in 2 .. B : Code[p].do = "begin" /\ Code[p].n = key

LEMMA SpanMoves ==
  ASSUME [Next]_vars
  PROVE  span' = span \/ \E r \in Ranks : Begin(r) \/ End(r)
<1>1. CASE Tick \/ UNCHANGED vars
  BY <1>1 DEF Tick, vars, times
<1>2. ASSUME NEW r \in Ranks, RankStep(r), ~Begin(r), ~End(r)
      PROVE  span' = span
  BY <1>2 DEF RankStep, Skip, TakeStamp, OffsetTimers, Record, Arrive, Leave, Gather, Summarize,
              Abort, times
<1>3. QED
  BY <1>1, <1>2 DEF Next

LEMMA WorkPlace ==
  ASSUME TInv, NEW i \in 1 .. NTasks, NEW B \in Nat, InRound(i, B), NEW r \in Ranks,
         ~Finished(r), Current(r).do \in {"begin", "end"}
  PROVE  pos[r] \in 2 .. B /\ Current(r) = Code[pos[r]]
<1> DEFINE I == job.iterations
           p == pos[r]
<1>1. /\ I \in Nat \ {0} /\ Layout(Code, i, B, I)
      /\ p \in 1 .. B + I + 2 /\ p \in Nat /\ Current(r) = Code[p]
  BY Here
<1>2. p # 1 /\ p # B + I + 2 /\ p \notin B + 1 .. B + I
  BY WhereNow
<1>3. p # B + I + 1
  BY <1>1 DEF Layout
<1> HIDE DEF I, p
<1>4. p \in 2 .. B
  BY <1>1, <1>2, <1>3
<1>5. QED
  BY <1>1, <1>4 DEF p

\* A rank that works for a measurement is in its frame.
LEMMA WorkInFrame ==
  ASSUME TInv, NEW i \in 1 .. NTasks, NEW B \in Nat, InRound(i, B), NEW m, NEW S, NEW C, NEW R,
         FrameOf(i, B, m, S, C, R), NEW r \in Ranks, ~Finished(r), r \in Current(r).by,
         Current(r).do \in {"begin", "end"}, Current(r).n = <<m.it, m.test>>
  PROVE  r \in m.W /\ pos[r] \in S + 1 .. C - 1 /\ C \in 2 .. B /\ Code[C].do = "barrier"
<1> DEFINE p == pos[r]
           P == Code
<1>1. p \in 2 .. B /\ Current(r) = P[p]
  BY WorkPlace
<1>2. S \in Int /\ C \in Int /\ R \in Int /\ Frame(P, B, m, S, C, R) /\ B \in Int
  BY DEF FrameOf
<1>3. C \in 2 .. B /\ P[C].do = "barrier"
  <2> HIDE DEF P
  <2>1. C \in 2 .. B
    BY <1>2 DEF Frame
  <2>2. QED
    BY <1>2, <2>1, InFrame
<1>4. P[p].do \in {"begin", "end"} /\ P[p].n = <<m.it, m.test>> /\ r \in P[p].by
  BY <1>1
<1> HIDE DEF p, P
<1>5. p \in S + 1 .. C - 1 /\ P[p].by \subseteq m.W
  BY <1>1, <1>2, <1>4, InFrame
<1>6. QED
  BY <1>3, <1>4, <1>5 DEF p, P

LEMMA KeptBy ==
  ASSUME TInv, NEW i \in 1 .. NTasks, NEW B \in Nat, InRound(i, B), [Next]_vars,
         NEW m, NEW S, NEW C, NEW R, FrameOf(i, B, m, S, C, R), NEW q \in m.W,
         NEW a \in Int, NEW b \in Int, b <= clock, Covers(m, S, C, R, q, a, b),
         span'[<<m.it, m.test>>] = <<a, b>>
  PROVE  Kept(m, S, C, R)'
<1>1. q \in Ranks /\ clock \in Int
  BY PlaceOf
<1>2. clock' \in Int /\ clock <= clock'
  BY <1>1, EveryMove
<1>3. b <= clock'
  BY <1>1, <1>2
<1>4. Covers(m, S, C, R, q, a, b)'
  BY CoversMoves DEF Covers
<1>5. QED
  BY <1>3, <1>4 DEF Kept

LEMMA KeptMoves ==
  ASSUME TInv, NEW i \in 1 .. NTasks, NEW B \in Nat, InRound(i, B), [Next]_vars, InStep(i, B),
         NEW m, NEW S, NEW C, NEW R, FrameOf(i, B, m, S, C, R),
         \A q \in m.W : Early(m, S, C, q), Kept(m, S, C, R)
  PROVE  Kept(m, S, C, R)'
<1> DEFINE key == <<m.it, m.test>>
<1>1. clock \in Int /\ pos \in [Ranks -> Nat \ {0}]
  BY DEF TInv, Types
<1>2. CASE key \notin DOMAIN span'
  BY <1>2 DEF Kept
<1>3. CASE key \in DOMAIN span /\ span'[key] = span[key]
  <2>1. PICK a \in Int, b \in Int : /\ span[key] = <<a, b>> /\ b <= clock
                                    /\ \E q \in m.W : Covers(m, S, C, R, q, a, b)
    BY <1>3 DEF Kept
  <2>2. PICK q \in m.W : Covers(m, S, C, R, q, a, b)
    BY <2>1
  <2>3. span'[key] = <<a, b>>
    BY <1>3, <2>1
  <2>4. QED
    BY <2>1, <2>2, <2>3, KeptBy
<1>4. ASSUME NEW r \in Ranks, Begin(r), key \notin DOMAIN span, key \in DOMAIN span'
      PROVE  Kept(m, S, C, R)'
  <2>1. /\ ~Finished(r) /\ r \in Current(r).by /\ Current(r).do = "begin"
        /\ span' = [x \in DOMAIN span \cup {Current(r).n} |->
                      IF x \in DOMAIN span THEN span[x] ELSE <<clock, clock>>]
    BY <1>4 DEF Begin, At
  <2>2. Current(r).n = key /\ span'[key] = <<clock, clock>>
    BY <1>4, <2>1
  <2>3. r \in m.W /\ pos[r] \in S + 1 .. C - 1
    BY <2>1, <2>2, WorkInFrame
  <2>4. Covers(m, S, C, R, r, clock, clock)
    <3>1. S \in Int /\ C \in Int /\ R \in Int /\ S < C /\ C + 1 < R
      BY DEF FrameOf, Frame
    <3>2. pos[r] > S /\ ~(C + 1 < pos[r]) /\ ~(R < pos[r])
      BY <2>3, <3>1
    <3>3. pos[r] <= C + 1 => t[r][m.k] <= clock
      BY <2>3, <3>2 DEF Early
    <3>4. QED
      BY <3>2, <3>3 DEF Covers
  <2>5. clock <= clock
    BY <1>1
  <2>6. QED
    BY <1>1, <2>2, <2>3, <2>4, <2>5, KeptBy
<1>5. ASSUME NEW r \in Ranks, End(r), key \in DOMAIN span, span'[key] # span[key]
      PROVE  Kept(m, S, C, R)'
  <2>1. /\ ~Finished(r) /\ r \in Current(r).by /\ Current(r).do = "end"
        /\ span' = [span EXCEPT ![Current(r).n] = <<span[Current(r).n][1], clock>>]
    BY <1>5 DEF End, At
  <2>2. Current(r).n = key /\ span'[key] = <<span[key][1], clock>>
    BY <1>5, <2>1
  <2>3. r \in m.W /\ pos[r] \in S + 1 .. C - 1 /\ C \in 2 .. B /\ Code[C].do = "barrier"
    BY <2>1, <2>2, WorkInFrame
  <2>4. PICK a \in Int, b \in Int : /\ span[key] = <<a, b>> /\ b <= clock
                                    /\ \E q \in m.W : Covers(m, S, C, R, q, a, b)
    BY <1>5 DEF Kept
  <2>5. PICK q \in m.W : Covers(m, S, C, R, q, a, b)
    BY <2>4
  <2>6. pos[q] <= C
    <3>1. q \in Tasks(i) /\ r \in Tasks(i) /\ pos[q] \in Nat
      BY <2>3, PlaceOf
    <3>2. ~(pos[r] > C \/ (pos[r] = C /\ waiting[r])) /\ C \in Int
      BY <2>3 DEF FrameOf
    <3>3. ~(pos[q] > C)
      BY <2>3, <3>1, <3>2 DEF InStep
    <3>4. QED
      BY <3>1, <3>2, <3>3
  <2>7. Covers(m, S, C, R, q, a, clock)
    <3>1. S \in Int /\ C \in Int /\ R \in Int /\ S < C /\ C + 1 < R
      BY DEF FrameOf, Frame
    <3>2. pos[q] \in Int
      BY PlaceOf
    <3>3. ~(C + 1 < pos[q]) /\ ~(R < pos[q])
      BY <2>6, <3>1, <3>2
    <3>4. QED
      BY <2>5, <3>3 DEF Covers
  <2>8. span'[key] = <<a, clock>> /\ clock <= clock
    BY <1>1, <2>2, <2>4
  <2>9. QED
    BY <1>1, <2>7, <2>8, KeptBy
<1>6. ASSUME NEW r \in Ranks, Begin(r), key \in DOMAIN span
      PROVE  span'[key] = span[key]
  BY <1>6 DEF Begin
<1>7. ASSUME NEW r \in Ranks, End(r)
      PROVE  DOMAIN span' = DOMAIN span
  BY <1>7 DEF End
<1> HIDE DEF key
<1>8. CASE span' = span
  BY <1>2, <1>3, <1>8
<1>9. CASE \E r \in Ranks : Begin(r)
  BY <1>2, <1>3, <1>4, <1>6, <1>9
<1>10. CASE \E r \in Ranks : End(r)
  BY <1>2, <1>3, <1>5, <1>7, <1>10
<1>11. QED
  BY <1>8, <1>9, <1>10, SpanMoves

LEMMA KeysMove ==
  ASSUME TInv, NEW i \in 1 .. NTasks, NEW B \in Nat, InRound(i, B), [Next]_vars, SpanKeys(B)
  PROVE  SpanKeys(B)'
<1>1. 0 \in Ranks
  BY TimingAssumption DEF Ranks
<1>2. Code' = Code
  BY <1>1, CallMoves DEF Code
<1>3. ASSUME NEW r \in Ranks, Begin(r), NEW key \in DOMAIN span'
      PROVE  key \in DOMAIN span \/ key = Current(r).n
  BY <1>3 DEF Begin
<1>4. ASSUME NEW r \in Ranks, Begin(r)
      PROVE  \E p \in 2 .. B : Code[p].do = "begin" /\ Code[p].n = Current(r).n
  <2>1. ~Finished(r) /\ Current(r).do = "begin"
    BY <1>4 DEF Begin, At
  <2>2. pos[r] \in 2 .. B /\ Current(r) = Code[pos[r]]
    BY <2>1, WorkPlace
  <2>3. QED
    BY <2>1, <2>2
<1>5. ASSUME NEW r \in Ranks, End(r)
      PROVE  DOMAIN span' = DOMAIN span
  BY <1>5 DEF End
<1>6. ASSUME NEW key \in DOMAIN span'
      PROVE  \E p \in 2 .. B : Code[p].do = "begin" /\ Code[p].n = key
  BY <1>3, <1>4, <1>5, <1>6, SpanMoves DEF SpanKeys
<1>7. QED
  BY <1>2, <1>6 DEF SpanKeys

\* The measurements of a round: wherever one has its frame in the code, its first stamp is
\* early enough, and what has been observed of its work is in a duration.
Measurements(i) == {Measured(i, it, test) : it \in Iterations, test \in Tests}

Measuring(i, B) ==
  /\ Opening(Code, Iterated(job, i), B)
  /\ InStep(i, B) /\ SpanKeys(B) /\ DOMAIN summary \subseteq Tests
  /\ \A m \in Measurements(i), S \in 2 .. B, C \in 2 .. B, R \in 2 .. B :
       FrameOf(i, B, m, S, C, R) => Kept(m, S, C, R) /\ \A q \in m.W : Early(m, S, C, q)

XInv ==
  /\ TInv
  /\ \/ Len(Code) = 0 /\ DOMAIN summary = {}
     \/ \E i \in 1 .. NTasks, B \in Nat : InRound(i, B) /\ Measuring(i, B)

LEMMA InitXInv == Init => XInv
<1> SUFFICES ASSUME Init
             PROVE  XInv
  OBVIOUS
<1>1. TInv /\ job \in Jobs /\ DOMAIN summary = {} /\ DOMAIN span = {}
  BY InitTInv DEF Init
<1>2. \A r \in Ranks : pos[r] = 1
  BY DEF Init
<1>3. ASSUME NEW i \in 1 .. NTasks, NEW B \in Nat, Layout(Code, i, B, job.iterations),
             Opening(Code, Iterated(job, i), B)
      PROVE  InRound(i, B) /\ Measuring(i, B)
  <2>1. InRound(i, B)
    BY <1>3, InitInRound
  <2>2. InStep(i, B)
    <3>1. \A C \in 2 .. B, q \in Tasks(i) : ~(pos[q] > C)
      BY <1>2, TasksAreRanks
    <3>2. QED
      BY <3>1 DEF InStep
  <2>3. SpanKeys(B) /\ DOMAIN summary \subseteq Tests
    BY <1>1 DEF SpanKeys
  <2>4. ASSUME NEW m, NEW S, NEW C, NEW R, FrameOf(i, B, m, S, C, R)
        PROVE  Kept(m, S, C, R) /\ \A q \in m.W : Early(m, S, C, q)
    <3>1. S \in 2 .. B /\ m.W \subseteq Ranks
      BY <2>4, WatchedIs DEF FrameOf, Frame
    <3>2. \A q \in m.W : ~(S < pos[q])
      BY <1>2, <3>1
    <3>3. QED
      BY <1>1, <3>2 DEF Kept, Early
  <2>5. QED
    BY <1>3, <2>1, <2>2, <2>3, <2>4 DEF Measuring
<1>4. QED
  BY <1>1, <1>3, CodeLayout DEF XInv, Code

LEMMA ReportedTests ==
  ASSUME [Next]_vars, DOMAIN summary \subseteq Tests
  PROVE  DOMAIN summary' \subseteq Tests
<1>1. CASE Tick \/ UNCHANGED vars
  BY <1>1 DEF Tick, vars, times
<1>2. ASSUME NEW r \in Ranks, RankStep(r), ~Summarize(r)
      PROVE  summary' = summary
  BY <1>2 DEF RankStep, Skip, TakeStamp, OffsetTimers, Begin, End, Record, Arrive, Leave,
              Gather, Abort, times
<1>3. ASSUME NEW r \in Ranks, Summarize(r)
      PROVE  DOMAIN summary' \subseteq Tests
  <2>1. DOMAIN summary' = Reported \cup {TreeCreation, TreeRemoval}
    BY <1>3 DEF Summarize
  <2>2. Reported \subseteq Tests
    BY DEF Reported, Tests, TableSize, TreeCreation, FileTest, DirTest
  <2>3. TreeCreation \in Tests /\ TreeRemoval \in Tests
    BY DEF Tests, TableSize, TreeCreation, TreeRemoval
  <2>4. QED
    BY <2>1, <2>2, <2>3
<1>4. QED
  BY <1>1, <1>2, <1>3 DEF Next

LEMMA NextMeasuring ==
  ASSUME TInv, NEW i \in 1 .. NTasks, NEW B \in Nat, InRound(i, B), Measuring(i, B), [Next]_vars
  PROVE  Measuring(i, B)'
<1>1. 0 \in Ranks
  BY TimingAssumption DEF Ranks
<1>2. job' = job
  BY <1>1, CallMoves
<1>3. Opening(Code, Iterated(job, i), B)'
  BY <1>2 DEF Measuring, Code
<1>4. InStep(i, B)' /\ SpanKeys(B)' /\ DOMAIN summary' \subseteq Tests
  BY InStepMoves, KeysMove, ReportedTests DEF Measuring
<1>5. ASSUME NEW m, NEW S, NEW C, NEW R, FrameOf(i, B, m, S, C, R),
             Kept(m, S, C, R) /\ \A q \in m.W : Early(m, S, C, q)
      PROVE  Kept(m, S, C, R)' /\ \A q \in m.W : Early(m, S, C, q)'
  <2>1. Kept(m, S, C, R)'
    BY <1>5, KeptMoves DEF Measuring
  <2>2. \A q \in m.W : Early(m, S, C, q)'
    BY <1>5, EarlyMoves
  <2>3. QED
    BY <2>1, <2>2
<1>6. Measurements(i)' = Measurements(i)
  BY <1>2 DEF Measurements, Iterations
<1>7. ASSUME NEW m, NEW S, NEW C, NEW R
      PROVE  FrameOf(i, B, m, S, C, R)' <=> FrameOf(i, B, m, S, C, R)
  BY <1>2 DEF FrameOf, Watched, Iterations, Code
<1>8. \A m \in Measurements(i)', S \in 2 .. B, C \in 2 .. B, R \in 2 .. B :
        FrameOf(i, B, m, S, C, R)' => Kept(m, S, C, R)' /\ \A q \in m.W : Early(m, S, C, q)'
  BY <1>5, <1>6, <1>7 DEF Measuring
<1>9. QED
  BY <1>3, <1>4, <1>8 DEF Measuring

LEMMA NextXInv == XInv /\ [Next]_vars => XInv'
  BY NextTInv, NextInRound, NextMeasuring, NothingToDo DEF XInv

LEMMA XInvAlways == Spec => []XInv
  BY InitXInv, NextXInv, PTL DEF Spec

-----------------------------------------------------------------------------
(* The line of a test *)

\* Of finitely many numbers one is the greatest.
LEMMA Greatest ==
  ASSUME NEW n \in Nat, NEW f \in [0 .. n -> Int]
  PROVE  \E x \in 0 .. n : \A y \in 0 .. n : f[x] >= f[y]
<1> DEFINE Top(k) == \E x \in 0 .. k : \A y \in 0 .. k : f[x] >= f[y]
           S == {k \in Nat : k <= n => Top(k)}
<1>1. 0 \in S
  <2>1. f[0] \in Int
    OBVIOUS
  <2>2. f[0] >= f[0]
    BY <2>1
  <2>3. \A y \in 0 .. 0 : y = 0
    OBVIOUS
  <2>4. Top(0)
    BY <2>2, <2>3
  <2> HIDE DEF Top
  <2>5. QED
    BY <2>4
<1>2. ASSUME NEW k \in Nat, k \in S, k + 1 <= n
      PROVE  Top(k + 1)
  <2>1. PICK x \in 0 .. k : \A y \in 0 .. k : f[x] >= f[y]
    BY <1>2
  <2>2. \A y \in 0 .. k + 1 : y \in 0 .. k \/ y = k + 1
    BY <1>2
  <2>3. k + 1 \in 0 .. k + 1 /\ x \in 0 .. k + 1 /\ k + 1 \in 0 .. n
        /\ \A y \in 0 .. k : y \in 0 .. n
    BY <1>2
  <2>4. \A y \in 0 .. n : f[y] \in Int
    OBVIOUS
  <2>5. CASE f[x] >= f[k + 1]
    <3>1. \A y \in 0 .. k + 1 : f[x] >= f[y]
      BY <2>1, <2>2, <2>5
    <3>2. QED
      BY <2>3, <3>1
  <2>6. CASE ~(f[x] >= f[k + 1])
    <3>1. f[x] \in Int /\ f[k + 1] \in Int /\ f[k + 1] >= f[x] /\ f[k + 1] >= f[k + 1]
      BY <2>3, <2>4, <2>6
    <3>2. \A y \in 0 .. k : f[k + 1] >= f[y]
      BY <2>1, <2>3, <2>4, <3>1
    <3>3. \A y \in 0 .. k + 1 : f[k + 1] >= f[y]
      BY <2>2, <3>1, <3>2
    <3>4. QED
      BY <2>3, <3>3
  <2>7. QED
    BY <2>5, <2>6
<1> HIDE DEF Top
<1>3. \A k \in Nat : k \in S => k + 1 \in S
  BY <1>2
<1> HIDE DEF S
<1>4. n \in S
  BY <1>1, <1>3, NatSetInduction
<1>5. Top(n)
  BY <1>4 DEF S
<1>6. QED
  BY <1>5 DEF Top

LEMMA MeasuredOf ==
  ASSUME NEW i \in 1 .. NTasks, NEW it \in Nat, NEW test \in Tests
  PROVE  LET m == Measured(i, it, test)
         IN  /\ MeasureOf(m, i) /\ m.it = it /\ m.test = test
             /\ test < TreeCreation => /\ m.base \in {DirTest, FileTest} /\ m.k = test % 4
                                       /\ m.W = Tasks(i)
             /\ ~(test < TreeCreation) => m.base \in {TreeCreation, TreeRemoval} /\ m.W = {0}
<1> DEFINE m == Measured(i, it, test)
<1>1. /\ m.it = it /\ m.test = test
      /\ m.base = (IF test < FileTest THEN DirTest
                   ELSE IF test < TreeCreation THEN FileTest ELSE test)
      /\ m.k = (IF test < TreeCreation THEN test - m.base ELSE StartCreate)
      /\ m.W = (IF test < TreeCreation THEN Tasks(i) ELSE {0})
  BY DEF Measured
<1>2. IsMeasure(m)
  BY MeasuredIs
<1> HIDE DEF m
<1>3. test \in 0 .. 9 /\ TreeCreation = 8 /\ TreeRemoval = 9 /\ DirTest = 0 /\ FileTest = 4
  BY DEF Tests, TableSize, TreeCreation, TreeRemoval, DirTest, FileTest
<1>4. CASE test < 4
  <2>1. m.base = DirTest /\ m.test = test /\ m.k = test - DirTest /\ m.W = Tasks(i)
    BY <1>1, <1>3, <1>4
  <2>2. test \in {0, 1, 2, 3}
    BY <1>3, <1>4
  <2>3. 0 % 4 = 0 /\ 1 % 4 = 1 /\ 2 % 4 = 2 /\ 3 % 4 = 3
    OBVIOUS
  <2>4. m.k = test % 4
    BY <1>3, <2>1, <2>2, <2>3
  <2>5. m.k \in 0 .. 3 /\ m.test = m.base + m.k
    BY <1>3, <2>1, <2>2
  <2>6. OfTest(m, i)
    BY <1>2, <2>1, <2>5 DEF OfTest
  <2>7. test < TreeCreation /\ m.base \notin {TreeCreation, TreeRemoval}
    BY <1>3, <1>4, <2>1
  <2>8. QED
    BY <1>1, <1>2, <2>1, <2>4, <2>6, <2>7 DEF MeasureOf, m
<1>5. CASE ~(test < 4) /\ test < 8
  <2>1. m.base = FileTest /\ m.test = test /\ m.k = test - FileTest /\ m.W = Tasks(i)
    BY <1>1, <1>3, <1>5
  <2>2. test \in {4, 5, 6, 7}
    BY <1>3, <1>5
  <2>3. 4 % 4 = 0 /\ 5 % 4 = 1 /\ 6 % 4 = 2 /\ 7 % 4 = 3
    OBVIOUS
  <2>4. m.k = test % 4
    BY <1>3, <2>1, <2>2, <2>3
  <2>5. m.k \in 0 .. 3 /\ m.test = m.base + m.k
    BY <1>3, <2>1, <2>2
  <2>6. OfTest(m, i)
    BY <1>2, <2>1, <2>5 DEF OfTest
  <2>7. test < TreeCreation /\ m.base \notin {TreeCreation, TreeRemoval}
    BY <1>3, <1>5, <2>1
  <2>8. QED
    BY <1>1, <1>2, <2>1, <2>4, <2>6, <2>7 DEF MeasureOf, m
<1>6. CASE ~(test < 8)
  <2>1. m.base = test /\ m.W = {0} /\ test \in {8, 9}
    BY <1>1, <1>3, <1>6
  <2>2. QED
    BY <1>1, <1>2, <1>3, <1>6, <2>1 DEF MeasureOf, m
<1>7. QED
  BY <1>4, <1>5, <1>6

\* When all who work are through the iterations, one of them has a duration as long as the
\* work.
LEMMA WorkCovered ==
  ASSUME TInv, NEW i \in 1 .. NTasks, NEW B \in Nat, InRound(i, B), Measuring(i, B),
         NEW m \in Measurements(i), Watched(i, m), <<m.it, m.test>> \in DOMAIN span,
         \A q \in m.W : pos[q] > B
  PROVE  \E a, b \in Int, q \in m.W :
           span[<<m.it, m.test>>] = <<a, b>> /\ table[q][m.it][m.test] >= b - a
<1> DEFINE key == <<m.it, m.test>>
           e == Iterated(job, i)
           P == Code
<1>1. Opening(P, e, B) /\ Held(e, m)
  <2>1. job \in Jobs /\ MeasureOf(m, i) /\ Sound(job, m) /\ m.it \in 0 .. job.iterations - 1
    BY DEF TInv, Types, Watched, Iterations
  <2>2. QED
    BY <2>1, IterationsHeld DEF Measuring
<1>2. PICK p \in 2 .. B : P[p].do = "begin" /\ P[p].n = key
  BY DEF Measuring, SpanKeys
<1>3. ~Frameless(P, B, m)
  BY <1>2 DEF Frameless, Else
<1> HIDE DEF e, P
<1>4. PICK S \in Int, C \in Int, R \in Int : Frame(P, B, m, S, C, R)
  BY <1>1, <1>3, FrameFound
<1>5. FrameOf(i, B, m, S, C, R) /\ S \in 2 .. B /\ C \in 2 .. B /\ R \in 2 .. B
  BY <1>4 DEF FrameOf, Frame, P
<1>6. Kept(m, S, C, R)
  BY <1>5 DEF Measuring
<1>7. PICK a \in Int, b \in Int : /\ span[key] = <<a, b>>
                                  /\ \E q \in m.W : Covers(m, S, C, R, q, a, b)
  BY <1>6 DEF Kept
<1>8. PICK q \in m.W : Covers(m, S, C, R, q, a, b)
  BY <1>7
<1>9. R < pos[q]
  <2>1. pos[q] \in Int /\ pos[q] > B
    BY <1>5, PlaceOf
  <2>2. QED
    BY <1>5, <2>1
<1>10. QED
  BY <1>7, <1>8, <1>9 DEF Covers

LEMMA CoveredNow == XInv => SpanCovered
<1> SUFFICES ASSUME XInv, NEW test \in DOMAIN summary, NEW it \in Iterations,
                    <<it, test>> \in DOMAIN span,
                    IF test < TreeCreation THEN test % 4 \in job.phases
                    ELSE job.collective_creates \/ ~job.unique_dir_per_task
             PROVE  (IF test < TreeCreation THEN IterationTime(test, it)
                                            ELSE table[0][it][test])
                      >= span[<<it, test>>][2] - span[<<it, test>>][1]
  BY DEF SpanCovered
<1>1. TInv
  BY DEF XInv
<1>2. PICK i \in 1 .. NTasks, B \in Nat : InRound(i, B) /\ Measuring(i, B)
  BY DEF XInv
<1> DEFINE m == Measured(i, it, test)
<1>4. test \in Tests /\ it \in Nat
  <2>1. job.iterations \in Nat
    BY <1>1, TimingAssumption DEF TInv, Types, IsJob
  <2>2. QED
    BY <1>2, <2>1 DEF Measuring, Iterations
<1>5. /\ MeasureOf(m, i) /\ m.it = it /\ m.test = test
      /\ test < TreeCreation => /\ m.base \in {DirTest, FileTest} /\ m.k = test % 4
                                /\ m.W = Tasks(i)
      /\ ~(test < TreeCreation) => m.base \in {TreeCreation, TreeRemoval} /\ m.W = {0}
  BY <1>4, MeasuredOf
<1>6. m \in Measurements(i)
  BY <1>4 DEF Measurements
<1> HIDE DEF m
<1>7. Watched(i, m)
  <2>1. Sound(job, m)
    <3>1. CASE test < TreeCreation
      BY <1>5, <3>1 DEF Sound
    <3>2. CASE ~(test < TreeCreation)
      <4>1. m.base \notin {DirTest, FileTest}
        BY <1>5, <3>2 DEF DirTest, FileTest, TreeCreation, TreeRemoval
      <4>2. job \in Jobs
        BY <1>1 DEF TInv, Types
      <4>3. QED
        BY <3>2, <4>1, <4>2 DEF Sound, Growers
    <3>3. QED
      BY <3>1, <3>2
  <2>2. QED
    BY <1>5, <2>1 DEF Watched
<1>8. \A q \in m.W : pos[q] > B
  <2>1. job.iterations \in Nat \ {0} /\ pos \in [Ranks -> Nat \ {0}]
    BY <1>1, TimingAssumption DEF TInv, Types, IsJob
  <2>2. pos[0] > B + job.iterations + 1
    BY <1>2 DEF InRound, Reporting
  <2>3. \A r \in Ranks : pos[r] \in Nat
    BY <2>1
  <2>4. m.W \subseteq Tasks(i) /\ Tasks(i) \subseteq Ranks /\ 0 \in Ranks
    BY <1>5, TasksAreRanks
  <2>5. pos[0] > B + job.iterations
    BY <2>1, <2>2, <2>3, <2>4
  <2>6. \A r \in Tasks(i) : pos[r] > B + job.iterations
    BY <1>1, <1>2, <2>5, SummaryAfterGather
  <2>7. QED
    BY <2>1, <2>3, <2>4, <2>6
<1>9. PICK a \in Int, b \in Int, q \in m.W :
        span[<<it, test>>] = <<a, b>> /\ table[q][it][test] >= b - a
  BY <1>1, <1>2, <1>5, <1>6, <1>7, <1>8, WorkCovered
<1>10. CASE ~(test < TreeCreation)
  BY <1>5, <1>9, <1>10
<1>11. CASE test < TreeCreation
  <2> DEFINE f == [r \in 0 .. NTasks - 1 |-> all[calc_allreduce_index(it, r, test)]]
             V == {all[calc_allreduce_index(it, r, test)] : r \in Ranks}
  <2>1. \A r \in Ranks :
          /\ all[calc_allreduce_index(it, r, test)] \in Int
          /\ r \in Tasks(i) => all[calc_allreduce_index(it, r, test)] = table[r][it][test]
    BY <1>1, <1>2, <1>11, AllGathered
  <2>2. V = {f[r] : r \in 0 .. NTasks - 1}
    BY DEF Ranks
  <2>3. \A r \in Ranks : all[calc_allreduce_index(it, r, test)] \in Int
    BY <2>1
  <2>4. f \in [0 .. NTasks - 1 -> Int]
    BY <2>3 DEF Ranks
  <2>5. NTasks - 1 \in Nat /\ q \in 0 .. NTasks - 1 /\ q \in Tasks(i)
    BY <1>5, <1>11, TasksAreRanks, TimingAssumption DEF Ranks
  <2>6. f[q] = table[q][it][test]
    BY <2>1, <2>5 DEF Ranks
  <2> HIDE DEF f
  <2>7. \E x \in 0 .. NTasks - 1 : \A y \in 0 .. NTasks - 1 : f[x] >= f[y]
    BY <2>4, <2>5, Greatest
  <2>8. \E x \in V : \A y \in V : x >= y
    BY <2>2, <2>7
  <2>9. f[q] \in V
    BY <2>2, <2>5
  <2>10. IterationTime(test, it) = Largest(V)
    BY DEF IterationTime
  <2>11. Largest(V) \in V /\ \A y \in V : Largest(V) >= y
    <3> HIDE DEF V
    <3>1. QED
      BY <2>8 DEF Largest
  <2>12. V \subseteq Int
    BY <2>2, <2>4
  <2> HIDE DEF V
  <2>13. Largest(V) >= f[q] /\ Largest(V) \in Int /\ f[q] \in Int
    BY <2>9, <2>11, <2>12
  <2>14. span[<<it, test>>][2] - span[<<it, test>>][1] = b - a
    BY <1>9
  <2>15. f[q] >= b - a
    BY <1>9, <2>6
  <2>16. Largest(V) >= b - a
    BY <2>13, <2>15
  <2>17. QED
    BY <1>11, <2>10, <2>14, <2>16
<1>12. QED
  BY <1>10, <1>11

\* However late each rank takes its stamps and whoever shifts them, the time reported of a
\* phase is at least as long as all its work, from the first call of a rank to the last.
THEOREM TimesCoverWork == Spec => []SpanCovered
  BY XInvAlways, CoveredNow, PTL
==============================================================================
