----------------------------- MODULE CephProofs ------------------------------
(***************************************************************************)
(* Proofs about CephMdtest for any number of ranks and any scripts: the    *)
(* control state keeps its type, the barriers that are there separate      *)
(* their members, whatever the options, with -B and with idle ranks, and   *)
(* the clients are connected one by one before anything else is done.      *)
(*                                                                         *)
(* In contrast to Mdtest, where all the ranks meet after every stage, a    *)
(* rank can be many stages ahead of another.  BarriersHold says of every   *)
(* barrier separately that a member is past it only if all the members     *)
(* have come to it.  ConnectInOrder also needs to know where in a program  *)
(* the stages that connect are (Shape), and who must be connected at a     *)
(* given place of it (Joining).                                            *)
(***************************************************************************)
EXTENDS CephMdtest, CommonLemmas

BarriersHold ==
  \A k \in 1 .. Len(program) :
    program[k].sync =>
      \A q, r \in program[k].members \cap Ranks :
        pos[q] > k => pos[r] > k \/ (pos[r] = k /\ waiting[r])

IInv == TypeOK /\ BarriersHold

\* A call moves nothing but the place in the stage, the name space, the connections and
\* the abort flag.
LEMMA CallFrame ==
  ASSUME TypeOK, NEW r \in Ranks, CallStep(r)
  PROVE  /\ UNCHANGED <<script, program, pos, waiting>>
         /\ next' \in [Ranks -> Nat \ {0}]
         /\ connected' \subseteq Ranks
         /\ aborted' \in BOOLEAN
<1>1. ASSUME NEW after, Succeed(r, after)
      PROVE  /\ UNCHANGED <<script, program, pos, waiting, connected, aborted>>
             /\ next' \in [Ranks -> Nat \ {0}]
  BY <1>1 DEF Succeed, TypeOK
<1>2. ASSUME Fail
      PROVE  /\ UNCHANGED <<script, program, pos, waiting, next, connected>>
             /\ aborted' = TRUE
  BY <1>2 DEF Fail
<1>3. ASSUME NEW possible, NEW after,
             Succeed(r, after) \/ Perform(r, possible, after)
      PROVE  /\ UNCHANGED <<script, program, pos, waiting, connected>>
             /\ next' \in [Ranks -> Nat \ {0}]
             /\ aborted' \in BOOLEAN
  BY <1>1, <1>2, <1>3 DEF Perform, TypeOK
<1>4. CASE Connect(r)
  BY <1>4 DEF Connect, TypeOK
<1>5. CASE Disconnect(r)
  BY <1>5 DEF Disconnect, TypeOK
<1>6. CASE MakeTestDir(r)
  BY <1>1, <1>3, <1>6 DEF MakeTestDir, TypeOK
<1>7. CASE RemoveTestDir(r)
  BY <1>1, <1>3, <1>7 DEF RemoveTestDir, TypeOK
<1>8. CASE MakeDir(r)
  BY <1>3, <1>8 DEF MakeDir, TypeOK
<1>9. CASE RemoveDir(r)
  BY <1>3, <1>9 DEF RemoveDir, TypeOK
<1>10. CASE CreateFile(r)
  BY <1>3, <1>10 DEF CreateFile, TypeOK
<1>11. CASE StatItem(r)
  BY <1>3, <1>11 DEF StatItem, TypeOK
<1>12. CASE ReadFile(r)
  BY <1>3, <1>12 DEF ReadFile, TypeOK
<1>13. CASE UnlinkFile(r)
  BY <1>3, <1>13 DEF UnlinkFile, TypeOK
<1>14. QED
  BY <1>4, <1>5, <1>6, <1>7, <1>8, <1>9, <1>10, <1>11, <1>12, <1>13 DEF CallStep

\* Going on to the next stage.
LEMMA AdvanceFrame ==
  ASSUME TypeOK, NEW r \in Ranks, Advance(r)
  PROVE  /\ UNCHANGED <<script, program, connected, aborted>>
         /\ pos' = [pos EXCEPT ![r] = pos[r] + 1]
         /\ pos' \in [Ranks -> Nat \ {0}]
         /\ next' \in [Ranks -> Nat \ {0}]
  BY DEF Advance, TypeOK

LEMMA InitIInv == Init => IInv
<1> SUFFICES ASSUME Init
             PROVE  IInv
  OBVIOUS
<1>1. pos \in [Ranks -> Nat \ {0}] /\ next \in [Ranks -> Nat \ {0}]
  BY DEF Init
<1>2. waiting \in [Ranks -> BOOLEAN]
  BY Zenon DEF Init
<1>3. BarriersHold
  BY DEF Init, BarriersHold
<1>4. QED
  BY <1>1, <1>2, <1>3 DEF IInv, TypeOK, Init

LEMMA NextIInv == IInv /\ [Next]_vars => IInv'
<1> SUFFICES ASSUME IInv, [Next]_vars
             PROVE  IInv'
  OBVIOUS
<1> USE DEF IInv
<1>1. ASSUME NEW r \in Ranks, CallStep(r)
      PROVE  IInv'
  BY <1>1, CallFrame DEF TypeOK, BarriersHold
<1>2. ASSUME NEW r \in Ranks, EnterBarrier(r)
      PROVE  IInv'
  BY <1>2 DEF EnterBarrier, TypeOK, BarriersHold
<1>3. ASSUME NEW r \in Ranks, Advance(r), UNCHANGED waiting, Running(r),
             ~(StageOf(r).sync /\ r \in StageOf(r).members)
      PROVE  IInv'
  <2>1. TypeOK'
    BY <1>3, AdvanceFrame DEF TypeOK
  <2>2. ~waiting[r] /\ program' = program
    BY <1>3, AdvanceFrame DEF Running
  <2>3. ASSUME NEW k \in 1 .. Len(program), program[k].sync,
               NEW p \in program[k].members \cap Ranks,
               NEW q \in program[k].members \cap Ranks, pos'[p] > k
        PROVE  pos'[q] > k \/ (pos'[q] = k /\ waiting'[q])
    <3>1. ~(p = r /\ k = pos[r])
      BY <1>3, <2>3 DEF StageOf
    <3>2. pos[p] > k
      BY SMTT(30), <1>3, <2>3, <3>1, AdvanceFrame DEF TypeOK
    <3>3. pos[q] > k \/ (pos[q] = k /\ waiting[q])
      BY <2>3, <3>2 DEF BarriersHold
    <3>4. CASE q = r
      BY <1>3, <2>2, <3>3, <3>4, AdvanceFrame DEF TypeOK
    <3>5. CASE q # r
      <4>1. pos'[q] = pos[q] /\ waiting' = waiting
        BY <1>3, <3>5, AdvanceFrame DEF TypeOK
      <4>2. QED
        BY <3>3, <4>1
    <3>6. QED
      BY <3>4, <3>5
  <2>4. QED
    BY <2>1, <2>2, <2>3 DEF BarriersHold
<1>4. ASSUME NEW r \in Ranks, LeaveBarrier(r)
      PROVE  IInv'
  <2>1. Advance(r) /\ AllArrived(pos[r]) /\ waiting' = [waiting EXCEPT ![r] = FALSE]
    BY <1>4 DEF LeaveBarrier
  <2>2. TypeOK' /\ program' = program
    BY <2>1, AdvanceFrame DEF TypeOK
  <2>3. ASSUME NEW k \in 1 .. Len(program), program[k].sync,
               NEW p \in program[k].members \cap Ranks,
               NEW q \in program[k].members \cap Ranks, pos'[p] > k
        PROVE  pos'[q] > k \/ (pos'[q] = k /\ waiting'[q])
    <3>1. CASE p = r /\ k = pos[r]
      <4>1. pos[q] > k \/ (pos[q] = k /\ waiting[q])
        BY <2>1, <3>1 DEF AllArrived
      <4>2. QED
        BY SMTT(30), <2>1, <4>1, AdvanceFrame DEF TypeOK
    <3>2. CASE ~(p = r /\ k = pos[r])
      <4>1. pos[p] > k
        BY <2>1, <2>3, <3>2, AdvanceFrame DEF TypeOK
      <4>2. pos[q] > k \/ (pos[q] = k /\ waiting[q])
        BY <2>3, <4>1 DEF BarriersHold
      <4>3. QED
        BY SMTT(30), <2>1, <4>2, AdvanceFrame DEF TypeOK
    <3>3. QED
      BY <3>1, <3>2
  <2>4. QED
    BY <2>2, <2>3 DEF BarriersHold
<1>5. ASSUME NEW r \in Ranks, SkipStage(r) \/ PassOn(r)
      PROVE  IInv'
  BY <1>3, <1>5 DEF SkipStage, PassOn, CallsDone, Active
<1>6. CASE UNCHANGED vars
  BY <1>6 DEF vars, TypeOK, BarriersHold
<1>7. QED
  BY <1>1, <1>2, <1>4, <1>5, <1>6 DEF Next, RankStep, Stop

LEMMA IInvAlways == Spec => []IInv
  BY InitIInv, NextIInv, PTL DEF Spec

\* The control state of the CephFS job keeps its type in every reachable state.
THEOREM CephTypeCorrect == Spec => []TypeOK
<1>1. IInv => TypeOK
  BY DEF IInv
<1>2. QED
  BY IInvAlways, <1>1, PTL

\* No barrier that two ranks take part in lies between them while both execute: the
\* MPI_Barrier calls of main, directory_test and file_test separate what they stand
\* between, also when some ranks are idle and when -B leaves most of them out.
THEOREM CephPhasesSeparate == Spec => []PhaseSeparation
<1>1. IInv => PhaseSeparation
  <2> SUFFICES ASSUME IInv, NEW r \in Ranks, NEW q \in Ranks, Running(r), Running(q),
                      NEW k \in 1 .. Len(program), program[k].sync,
                      {r, q} \subseteq program[k].members
               PROVE  pos[r] <= k <=> pos[q] <= k
    BY DEF PhaseSeparation
  <2>1. ~waiting[r] /\ ~waiting[q]
    BY DEF Running
  <2>2. pos[q] > k => pos[r] > k
    BY <2>1 DEF IInv, BarriersHold
  <2>3. pos[r] > k => pos[q] > k
    BY <2>1 DEF IInv, BarriersHold
  <2>4. QED
    BY <2>2, <2>3 DEF IInv, TypeOK
<1>2. QED
  BY IInvAlways, <1>1, PTL

-----------------------------------------------------------------------------
(* The stages of a job *)

\* The stages between connecting and disconnecting.
WorkNames ==
  {"testdir", "tree_enter", "tree_create", "untree_enter", "tree_remove",
   "testdir_remove", "summarize", "dir_delay", "dir_enter", "dir_chdir",
   "dir_create", "dir_stat", "dir_read", "dir_remove", "file_delay", "file_enter",
   "file_chdir", "file_collective", "file_create", "file_stat", "file_read",
   "file_remove"}

LEMMA WorkNamesAreOthers == WorkNames \cap {"connect", "disconnect"} = {}
  BY DEF WorkNames

LEMMA IterationNames ==
  ASSUME NEW o
  PROVE  IterationStages(o) \in Seq(WorkNames)
<1>2. /\ <<"testdir", "tree_enter">> \in Seq(WorkNames)
      /\ <<"tree_create">> \in Seq(WorkNames)
      /\ <<"untree_enter">> \in Seq(WorkNames)
      /\ <<"tree_remove", "testdir_remove">> \in Seq(WorkNames)
  BY DEF WorkNames
<1>3. /\ <<"dir_delay">> \in Seq(WorkNames) /\ <<"dir_enter">> \in Seq(WorkNames)
      /\ <<"dir_chdir">> \in Seq(WorkNames)
      /\ <<"dir_create", "dir_stat", "dir_read", "dir_remove">> \in Seq(WorkNames)
  BY DEF WorkNames
<1>4. /\ <<"file_delay">> \in Seq(WorkNames) /\ <<"file_enter">> \in Seq(WorkNames)
      /\ <<"file_chdir">> \in Seq(WorkNames) /\ <<"file_collective">> \in Seq(WorkNames)
      /\ <<"file_create", "file_stat", "file_read", "file_remove">> \in Seq(WorkNames)
  BY DEF WorkNames
<1>5. \A cond, names : names \in Seq(WorkNames) => Names(cond, names) \in Seq(WorkNames)
  BY DEF Names
<1>6. DirStages(o) \in Seq(WorkNames)
  BY <1>3, <1>5, Joined DEF DirStages
<1>7. FileStages(o) \in Seq(WorkNames)
  BY <1>4, <1>5, Joined DEF FileStages
<1>8. QED
  BY <1>2, <1>5, <1>6, <1>7, Joined DEF IterationStages

\* The step of the loop over the numbers of tasks, and the table of what is left of the
\* loop from every number on.
After(o, i) == (IF i = 1 /\ o.stride > 1 THEN 0 ELSE i) + o.stride
Horizon(o) == NTasks + o.stride
From(o, g, first) ==
  g = [i \in first .. Horizon(o) |->
         IF i > o.last \/ i > NTasks THEN <<>> ELSE <<i>> \o g[After(o, i)]]

LEMMA AfterIsLater ==
  ASSUME NEW o, o.stride \in Nat \ {0}, NEW i \in 1 .. NTasks
  PROVE  After(o, i) \in i + 1 .. Horizon(o) /\ Horizon(o) \in Nat
  BY NTasksAssumption DEF After, Horizon

LEMMA FromExists ==
  ASSUME NEW o, o.stride \in Nat \ {0}
  PROVE  \E g : From(o, g, 1)
<1> DEFINE M == Horizon(o)
           N == {m \in Nat : m <= M => \E g : From(o, g, M - m + 1)}
<1>0. M \in Nat /\ NTasks \in Nat
  BY NTasksAssumption DEF Horizon
<1>1. 0 \in N
  <2> DEFINE g == [i \in M + 1 .. M |-> 0]
             h == [i \in M + 1 .. M |->
                     IF i > o.last \/ i > NTasks THEN <<>> ELSE <<i>> \o g[After(o, i)]]
  <2>1. M + 1 .. M = {}
    BY <1>0
  <2>2. g = h
    BY <2>1
  <2>3. From(o, g, M + 1)
    <3> HIDE DEF g
    <3>1. QED
      BY <2>2 DEF From
  <2>4. M - 0 + 1 = M + 1
    BY <1>0
  <2>5. QED
    BY <2>3, <2>4
<1>2. ASSUME NEW m \in Nat, m \in N
      PROVE  m + 1 \in N
  <2> SUFFICES ASSUME m + 1 <= M
               PROVE  \E g : From(o, g, M - (m + 1) + 1)
    OBVIOUS
  <2> DEFINE k == M - (m + 1) + 1
  <2>1. k \in Nat \ {0} /\ k <= M /\ M - m + 1 = k + 1 /\ m <= M
    BY <1>0
  <2>2. PICK g : From(o, g, k + 1)
    BY <1>2, <2>1
  <2> HIDE DEF k, M
  <2> DEFINE f(q) == [i \in k .. M |->
                       IF i > o.last \/ i > NTasks THEN <<>> ELSE <<i>> \o q[After(o, i)]]
             h == f(g)
  <2>3. \A i \in k + 1 .. M : h[i] = g[i]
    <3>1. \A i \in k + 1 .. M : i \in k .. M
      BY <1>0, <2>1
    <3>2. \A i \in k + 1 .. M :
            g[i] = IF i > o.last \/ i > NTasks THEN <<>> ELSE <<i>> \o g[After(o, i)]
      BY <2>2 DEF From, M
    <3>3. QED
      BY <3>1, <3>2
  <2>4. ASSUME NEW i \in k .. M
        PROVE  h[i] = f(h)[i]
    <3>1. h[i] = IF i > o.last \/ i > NTasks THEN <<>> ELSE <<i>> \o g[After(o, i)]
      OBVIOUS
    <3> HIDE DEF h
    <3>2. f(h)[i] = IF i > o.last \/ i > NTasks THEN <<>> ELSE <<i>> \o h[After(o, i)]
      OBVIOUS
    <3>3. ~(i > NTasks) => h[After(o, i)] = g[After(o, i)]
      <4> SUFFICES ASSUME ~(i > NTasks)
                   PROVE  h[After(o, i)] = g[After(o, i)]
        OBVIOUS
      <4>1. i \in 1 .. NTasks
        BY <1>0, <2>1
      <4>2. After(o, i) \in i + 1 .. M
        BY <4>1, AfterIsLater DEF M
      <4>3. After(o, i) \in k + 1 .. M
        BY <1>0, <2>1, <4>2
      <4>4. QED
        BY <2>3, <4>3
    <3> HIDE DEF f
    <3>4. QED
      BY <3>1, <3>2, <3>3
  <2>5. h = f(h)
    <3>1. h = [i \in k .. M |-> h[i]] /\ f(h) = [i \in k .. M |-> f(h)[i]]
      OBVIOUS
    <3> HIDE DEF h, f
    <3>2. QED
      BY <2>4, <3>1
  <2>6. From(o, h, k)
    <3> HIDE DEF h
    <3>1. QED
      BY <2>5 DEF From, M
  <2>7. QED
    BY <2>6 DEF k
<1>3. \A m \in Nat : m \in N
  <2> HIDE DEF N
  <2>1. QED
    BY <1>1, <1>2, NatSetInduction
<1>4. M - M + 1 = 1
  BY <1>0
<1>5. QED
  BY <1>0, <1>3, <1>4

\* The loop goes through a sequence of numbers.
LEMMA TaskCountsType ==
  ASSUME NEW o, o.stride \in Nat \ {0}, o.first \in 1 .. NTasks
  PROVE  TaskCounts(o) \in Seq(Int)
<1> DEFINE M == Horizon(o)
           F == CHOOSE g : From(o, g, 1)
           N == {m \in Nat : \A i \in 1 .. M : i + m > M => F[i] \in Seq(Int)}
<1>0. M \in Nat /\ NTasks \in Nat
  BY NTasksAssumption DEF Horizon
<1>1. TaskCounts(o) = F[o.first]
  BY DEF TaskCounts, From, After, Horizon
<1>2. From(o, F, 1)
  BY FromExists
<1>3. \A i \in 1 .. M :
        F[i] = IF i > o.last \/ i > NTasks THEN <<>> ELSE <<i>> \o F[After(o, i)]
  <2> HIDE DEF F
  <2>1. QED
    BY <1>2 DEF From
<1> HIDE DEF F
<1>4. 0 \in N
  BY <1>0
<1>5. ASSUME NEW m \in Nat, m \in N
      PROVE  m + 1 \in N
  <2> SUFFICES ASSUME NEW i \in 1 .. M, i + (m + 1) > M
               PROVE  F[i] \in Seq(Int)
    OBVIOUS
  <2>1. F[i] = IF i > o.last \/ i > NTasks THEN <<>> ELSE <<i>> \o F[After(o, i)]
    BY <1>3
  <2>2. ~(i > NTasks) => F[After(o, i)] \in Seq(Int)
    <3> SUFFICES ASSUME ~(i > NTasks)
                 PROVE  F[After(o, i)] \in Seq(Int)
      OBVIOUS
    <3>1. i \in 1 .. NTasks
      BY <1>0
    <3>2. After(o, i) \in i + 1 .. M
      BY <3>1, AfterIsLater
    <3> HIDE DEF M
    <3>3. After(o, i) \in 1 .. M /\ After(o, i) + m > M
      BY <1>0, <3>2
    <3>4. QED
      BY <1>5, <3>3
  <2>3. <<i>> \in Seq(Int) /\ <<>> \in Seq(Int)
    OBVIOUS
  <2>4. QED
    BY <2>1, <2>2, <2>3, Joined
<1>6. \A m \in Nat : m \in N
  <2> HIDE DEF N
  <2>1. QED
    BY <1>4, <1>5, NatSetInduction
<1>7. o.first \in 1 .. M /\ o.first + M > M
  BY <1>0 DEF Horizon
<1>8. QED
  BY <1>0, <1>1, <1>6, <1>7

-----------------------------------------------------------------------------
(* Where the ranks connect and disconnect in a program *)

\* A rank connects in a stage of its own, which is not among the first `rank`.
ConnectShape(P, k) ==
  /\ P[k].sync /\ P[k].members = Ranks
  /\ \A r \in Ranks :
       P[k].calls[r] = <<>> \/ (P[k].calls[r] = <<Call("connect", <<>>)>> /\ r < k)

\* Before a stage of the tests all the ranks have connected, and none disconnects before
\* the next barrier of all.
WorkShape(P, k) ==
  \E a \in Nat, b \in Nat :
    /\ a + NTasks < k /\ k <= b /\ b <= Len(P)
    /\ P[b].sync /\ P[b].members = Ranks
    /\ \A r \in Ranks : /\ P[a + r + 1].name = "connect"
                        /\ P[a + r + 1].calls[r] = <<Call("connect", <<>>)>>
    /\ \A d \in a + 1 .. b : P[d].name # "disconnect"

Shape(P, k) ==
  /\ P[k].name = "connect" => ConnectShape(P, k)
  /\ P[k].name = "disconnect" => P[k].members = Ranks
  /\ P[k].name \notin {"connect", "disconnect"} => WorkShape(P, k)

\* A program that is made of copies of well-shaped ones is well-shaped.
LEMMA ShapeOfCopy ==
  ASSUME NEW P, NEW e, NEW c, NEW p \in Nat, InCopy(P, p, e, c),
         Len(P) \in Nat, Len(e) \in Nat, \A k \in 1 .. Len(e) : Shape(e, k)
  PROVE  Shape(P, p)
<1> DEFINE k == p - c
<1>1. /\ c \in Nat /\ k \in 1 .. Len(e) /\ p = c + k /\ c + Len(e) <= Len(P)
      /\ \A x \in 1 .. Len(e) : P[c + x] = e[x]
  BY DEF InCopy
<1> HIDE DEF k
<1>2. Shape(e, k) /\ P[p] = e[k]
  BY <1>1
<1>3. ConnectShape(e, k) => ConnectShape(P, p)
  <2>1. \A r \in Ranks : r < k => r < p
    BY <1>1, NTasksAssumption DEF Ranks
  <2>2. QED
    BY <1>2, <2>1 DEF ConnectShape
<1>4. WorkShape(e, k) => WorkShape(P, p)
  <2> SUFFICES ASSUME WorkShape(e, k)
               PROVE  WorkShape(P, p)
    OBVIOUS
  <2>1. PICK a \in Nat, b \in Nat :
          /\ a + NTasks < k /\ k <= b /\ b <= Len(e)
          /\ e[b].sync /\ e[b].members = Ranks
          /\ \A r \in Ranks : /\ e[a + r + 1].name = "connect"
                              /\ e[a + r + 1].calls[r] = <<Call("connect", <<>>)>>
          /\ \A d \in a + 1 .. b : e[d].name # "disconnect"
    BY DEF WorkShape
  <2>2. NTasks \in Nat /\ \A r \in Ranks : r \in Nat /\ r + 1 <= NTasks
    BY NTasksAssumption DEF Ranks
  <2>3. c + a \in Nat /\ c + b \in Nat /\ (c + a) + NTasks < p /\ p <= c + b
        /\ c + b <= Len(P) /\ P[c + b] = e[b]
    BY <1>1, <2>1, <2>2
  <2>4. ASSUME NEW r \in Ranks
        PROVE  P[(c + a) + r + 1] = e[a + r + 1]
    <3>1. /\ a + NTasks < k /\ k <= b /\ b <= Len(e) /\ k \in Nat /\ c \in Nat /\ Len(e) \in Nat
          /\ r \in Nat /\ r + 1 <= NTasks /\ NTasks \in Nat
      BY <1>1, <2>1, <2>2
    <3>2. a + r + 1 \in 1 .. Len(e) /\ (c + a) + r + 1 = c + (a + r + 1)
      BY <3>1
    <3>3. QED
      BY <1>1, <3>2
  <2>5. ASSUME NEW d \in (c + a) + 1 .. c + b
        PROVE  P[d].name # "disconnect"
    <3>1. d - c \in a + 1 .. b /\ d - c \in 1 .. Len(e) /\ d = c + (d - c)
      BY <1>1, <2>1
    <3>2. P[d] = e[d - c]
      BY <1>1, <3>1
    <3>3. QED
      BY <2>1, <3>1, <3>2
  <2> DEFINE a2 == c + a
             b2 == c + b
  <2>6. /\ a2 \in Nat /\ b2 \in Nat /\ a2 + NTasks < p /\ p <= b2 /\ b2 <= Len(P)
        /\ P[b2].sync /\ P[b2].members = Ranks
        /\ \A r \in Ranks : /\ P[a2 + r + 1].name = "connect"
                            /\ P[a2 + r + 1].calls[r] = <<Call("connect", <<>>)>>
        /\ \A d \in a2 + 1 .. b2 : P[d].name # "disconnect"
    BY <2>1, <2>3, <2>4, <2>5
  <2> HIDE DEF a2, b2
  <2>7. QED
    BY <2>6 DEF WorkShape
<1>5. QED
  BY <1>2, <1>3, <1>4 DEF Shape

\* The stages of one number of tasks have names of the tests only, and end with the
\* barrier of all the ranks at which the results are gathered.
RoundStages(o, run, i) ==
  Append(TestStages(o, run, i), Stage(o, run, i, 0, "summarize", [r \in Ranks |-> <<>>]))

LEMMA RoundShape ==
  ASSUME NEW o, o.iterations \in Nat, NEW run, NEW i
  PROVE  LET round == RoundStages(o, run, i)
         IN  /\ IsASeq(round) /\ Len(round) \in Nat \ {0}
             /\ \A k \in 1 .. Len(round) : round[k].name \in WorkNames
             /\ round[Len(round)].sync /\ round[Len(round)].members = Ranks
<1> DEFINE names == IterationStages(o)
           W(j, k) == Stage(o, run, i, j, names[k], [r \in Ranks |-> Work(o, i, r, j, names[k])])
           f == [j \in 1 .. o.iterations |-> [k \in DOMAIN names |-> W(j, k)]]
           T == TestStages(o, run, i)
           last == Stage(o, run, i, 0, "summarize", [r \in Ranks |-> <<>>])
<1>1. names \in Seq(WorkNames) /\ Len(names) \in Nat /\ DOMAIN names = 1 .. Len(names)
  BY IterationNames
<1> HIDE DEF names
<1>2. \A j, k : W(j, k).name = names[k]
  BY DEF Stage
<1> HIDE DEF W
<1>3. IsASeq(f) /\ Len(f) = o.iterations
  BY FunctionSeq
<1>4. ASSUME NEW j \in 1 .. o.iterations
      PROVE  /\ IsASeq(f[j]) /\ Len(f[j]) \in Nat
             /\ \A k \in 1 .. Len(f[j]) : f[j][k].name \in WorkNames
  <2>1. f[j] = [k \in 1 .. Len(names) |-> W(j, k)]
    BY <1>1
  <2>2. f[j] = [k \in 1 .. Len(names) |-> f[j][k]]
    BY <2>1
  <2>3. IsASeq(f[j]) /\ Len(f[j]) = Len(names)
    <3> HIDE DEF f
    <3>1. QED
      BY <1>1, <2>2, FunctionSeq
  <2>4. QED
    BY <1>1, <1>2, <2>1, <2>3
<1>5. T = FlattenSeq(f)
  BY DEF TestStages, W, names
<1> HIDE DEF f
<1>6. /\ IsASeq(T)
      /\ \A p \in 1 .. Len(T) : \E j \in 1 .. o.iterations : \E c \in Nat : InCopy(T, p, f[j], c)
  BY <1>3, <1>4, <1>5, FlattenPieces
<1> HIDE DEF T
<1>7. ASSUME NEW p \in 1 .. Len(T)
      PROVE  T[p].name \in WorkNames
  <2>1. PICK j \in 1 .. o.iterations, c \in Nat : InCopy(T, p, f[j], c)
    BY <1>6
  <2>2. p \in Nat /\ Len(T) \in Nat
    BY <1>6 DEF IsASeq
  <2>3. p - c \in 1 .. Len(f[j]) /\ T[c + (p - c)] = f[j][p - c] /\ c + (p - c) = p
    BY <1>4, <2>1, <2>2 DEF InCopy
  <2>4. QED
    BY <1>4, <2>3
<1>8. last.name \in WorkNames /\ last.sync /\ last.members = Ranks
  BY DEF Stage, WorkNames, Synced, Members, WorldStages, Phases
<1> HIDE DEF last
<1> DEFINE R == Append(T, last)
<1>9. /\ IsASeq(R) /\ Len(R) = Len(T) + 1 /\ Len(T) \in Nat
      /\ R[Len(T) + 1] = last /\ \A p \in 1 .. Len(T) : R[p] = T[p]
  <2> DEFINE S == {T[x] : x \in DOMAIN T} \cup {last}
             S0 == {T[x] : x \in DOMAIN T}
  <2>1. T \in Seq(S)
    <3>1. T \in Seq(S0) /\ \A x \in S0 : x \in S
      BY <1>6 DEF IsASeq
    <3> HIDE DEF S, S0
    <3>2. QED
      BY <3>1
  <2>2. last \in S
    OBVIOUS
  <2> HIDE DEF S
  <2>3. Append(T, last) \in Seq(S)
    BY <2>1, <2>2
  <2>4. IsASeq(R)
    BY <2>3, AnySeq
  <2>5. Len(T) \in Nat
    BY <2>1
  <2>6. /\ Len(Append(T, last)) = Len(T) + 1 /\ Append(T, last)[Len(T) + 1] = last
        /\ \A p \in 1 .. Len(T) : Append(T, last)[p] = T[p]
    BY <2>1, <2>2
  <2>7. QED
    BY <2>4, <2>5, <2>6
<1>10. RoundStages(o, run, i) = R
  BY DEF RoundStages, T, last
<1> HIDE DEF R
<1>11. \A k \in 1 .. Len(R) : R[k].name \in WorkNames
  BY <1>7, <1>8, <1>9
<1>12. Len(R) \in Nat \ {0} /\ R[Len(R)] = last
  BY <1>9
<1>13. QED
  BY <1>8, <1>9, <1>10, <1>11, <1>12

\* The stages of one invocation.
LEMMA RunShape ==
  ASSUME NEW o, o.iterations \in Nat, o.stride \in Nat \ {0}, o.first \in 1 .. NTasks,
         NEW run
  PROVE  LET stages == RunStages(o, run)
         IN  /\ IsASeq(stages) /\ Len(stages) \in Nat
             /\ \A k \in 1 .. Len(stages) : Shape(stages, k)
<1> DEFINE counts == TaskCounts(o)
           f == [n \in DOMAIN counts |-> RoundStages(o, run, counts[n])]
           C == ConnectStages(o, run)
           X == FlattenSeq(f)
           last == Stage(o, run, NTasks, 0, "disconnect",
                         [r \in Ranks |-> <<Call("disconnect", <<>>)>>])
           S == {C[x] : x \in DOMAIN C} \cup {X[x] : x \in DOMAIN X} \cup {last}
           R == C \o X \o <<last>>
<1>0. NTasks \in Nat \ {0} /\ \A r \in Ranks : r \in Nat /\ r + 1 <= NTasks
  BY NTasksAssumption DEF Ranks
<1>1. IsASeq(C) /\ Len(C) = NTasks
  <2>1. C = [n \in 1 .. NTasks |-> C[n]]
    BY DEF ConnectStages
  <2> HIDE DEF C
  <2>2. QED
    BY <1>0, <2>1, FunctionSeq
<1>2. ASSUME NEW n \in 1 .. NTasks
      PROVE  /\ C[n].name = "connect" /\ C[n].sync /\ C[n].members = Ranks
             /\ \A r \in Ranks : C[n].calls[r] =
                  IF r = n - 1 THEN <<Call("connect", <<>>)>> ELSE <<>>
  BY DEF ConnectStages, Stage, Synced, Members, WorldStages, Phases
<1>3. counts \in Seq(Int) /\ Len(counts) \in Nat /\ DOMAIN counts = 1 .. Len(counts)
  BY TaskCountsType
<1>4. RunStages(o, run) = R
  BY DEF RunStages, RoundStages
<1> HIDE DEF counts
<1>5. IsASeq(f) /\ Len(f) = Len(counts)
  BY <1>3, FunctionSeq
<1>6. \A n \in 1 .. Len(f) : f[n] = RoundStages(o, run, counts[n])
  BY <1>3, <1>5
<1>7. last.name = "disconnect" /\ last.members = Ranks
  BY DEF Stage, Members, WorldStages
<1> HIDE DEF f, C, last
<1>8. ASSUME NEW n \in 1 .. Len(f)
      PROVE  /\ IsASeq(f[n]) /\ Len(f[n]) \in Nat \ {0}
             /\ \A k \in 1 .. Len(f[n]) : f[n][k].name \in WorkNames
             /\ f[n][Len(f[n])].sync /\ f[n][Len(f[n])].members = Ranks
  BY <1>6, RoundShape
<1>9. /\ IsASeq(X)
      /\ \A p \in 1 .. Len(X) : \E n \in 1 .. Len(f) : \E c \in Nat : InCopy(X, p, f[n], c)
  BY <1>5, <1>8, FlattenPieces
<1> HIDE DEF X
<1> DEFINE N == NTasks
           L == Len(X)
<1>10. C \in Seq(S) /\ X \in Seq(S) /\ <<last>> \in Seq(S)
  <2> DEFINE SC == {C[x] : x \in DOMAIN C}
             SX == {X[x] : x \in DOMAIN X}
  <2>1. C \in Seq(SC) /\ X \in Seq(SX)
    BY <1>1, <1>9 DEF IsASeq
  <2>2. SC \subseteq S /\ SX \subseteq S /\ last \in S
    OBVIOUS
  <2> HIDE DEF S, SC, SX
  <2>3. QED
    BY <2>1, <2>2
<1> HIDE DEF S
<1>11. /\ R \in Seq(S) /\ L \in Nat /\ Len(R) = N + L + 1
       /\ \A p \in 1 .. N : R[p] = C[p]
       /\ \A p \in 1 .. L : R[N + p] = X[p]
       /\ R[N + L + 1] = last
  <2>1. Len(C) = N /\ Len(X) = L /\ N \in Nat /\ L \in Nat
    BY <1>0, <1>1, <1>10
  <2> DEFINE D == C \o X
  <2>2. /\ D \in Seq(S) /\ Len(D) = N + L
        /\ \A p \in 1 .. N : D[p] = C[p]
        /\ \A p \in 1 .. L : D[N + p] = X[p]
    <3> HIDE DEF N, L
    <3>1. QED
      BY <1>10, <2>1
  <2>3. /\ \A p \in 1 .. N : p \in 1 .. N + L
        /\ \A p \in 1 .. L : N + p \in 1 .. N + L
    BY <2>1
  <2> HIDE DEF D, N, L
  <2>4. /\ D \o <<last>> \in Seq(S) /\ Len(D \o <<last>>) = Len(D) + 1
        /\ \A p \in 1 .. Len(D) : (D \o <<last>>)[p] = D[p]
        /\ (D \o <<last>>)[Len(D) + 1] = last
    BY <1>10, <2>2
  <2>5. R = D \o <<last>>
    BY DEF D
  <2> HIDE DEF R
  <2>6. QED
    BY <2>1, <2>2, <2>3, <2>4, <2>5
<1> HIDE DEF R
<1>12. ASSUME NEW k \in 1 .. N
       PROVE  Shape(R, k)
  <2>1. R[k] = C[k]
    BY <1>11
  <2>2. ConnectShape(R, k)
    <3>1. \A r \in Ranks : r = k - 1 => r < k
      BY <1>0
    <3>2. QED
      BY <1>2, <2>1, <3>1 DEF ConnectShape
  <2>3. R[k].name = "connect"
    BY <1>2, <2>1
  <2>4. QED
    BY <2>2, <2>3 DEF Shape
<1>13. ASSUME NEW n \in 1 .. Len(f), NEW c, NEW p \in 1 .. L, InCopy(X, p, f[n], c)
       PROVE  LET m == Len(f[n])
              IN  /\ c \in Nat /\ m \in Nat \ {0} /\ c + m <= L /\ p <= c + m
                  /\ p - c \in 1 .. m /\ X[p] = f[n][p - c] /\ X[c + m] = f[n][m]
  <2> DEFINE e == f[n]
             m == Len(e)
  <2>1. m \in Nat \ {0} /\ InCopy(X, p, e, c)
    BY <1>8, <1>13
  <2> HIDE DEF e
  <2>2. /\ c \in Nat /\ c < p /\ p <= c + m /\ c + m <= L
        /\ \A x \in 1 .. m : X[c + x] = e[x]
    BY <2>1 DEF InCopy
  <2> HIDE DEF m, L
  <2>3. p - c \in 1 .. m /\ m \in 1 .. m /\ c + (p - c) = p
    BY <1>11, <2>1, <2>2
  <2>4. X[p] = e[p - c] /\ X[c + m] = e[m]
    BY <2>2, <2>3
  <2>5. QED
    BY <2>1, <2>2, <2>3, <2>4 DEF m, e
<1>14. ASSUME NEW p \in 1 .. L
       PROVE  X[p].name \in WorkNames
  <2>1. PICK n \in 1 .. Len(f), c \in Nat : InCopy(X, p, f[n], c)
    BY <1>9
  <2>2. QED
    BY <1>8, <1>13, <2>1
<1>15. ASSUME NEW p \in 1 .. L
       PROVE  Shape(R, N + p)
  <2>1. PICK n \in 1 .. Len(f), c \in Nat : InCopy(X, p, f[n], c)
    BY <1>9
  <2> DEFINE m == Len(f[n])
             x == c + m
             b == N + x
  <2>2. /\ m \in Nat \ {0} /\ x \in 1 .. L /\ p <= x /\ X[x] = f[n][m]
    <3>1. c \in Nat /\ m \in Nat \ {0} /\ c + m <= L /\ p <= c + m /\ X[c + m] = f[n][m]
      BY <1>13, <2>1
    <3> HIDE DEF m, L
    <3>2. QED
      BY <1>11, <3>1
  <2>3. X[x].sync /\ X[x].members = Ranks
    BY <1>8, <2>2
  <2>4. \A d \in 1 .. N : R[d].name = "connect"
    BY <1>2, <1>11
  <2> HIDE DEF m, x
  <2>5. 0 \in Nat /\ 0 + N < N + p /\ N + p <= b /\ b <= Len(R) /\ b \in Nat
    BY <1>0, <1>11, <2>2
  <2>6. R[b].sync /\ R[b].members = Ranks
    BY <1>11, <2>2, <2>3
  <2>7. ASSUME NEW r \in Ranks
        PROVE  R[0 + r + 1].name = "connect" /\ R[0 + r + 1].calls[r] = <<Call("connect", <<>>)>>
    <3>1. 0 + r + 1 \in 1 .. N /\ r = (0 + r + 1) - 1
      BY <1>0
    <3>2. QED
      BY <1>2, <1>11, <3>1
  <2>8. ASSUME NEW d \in 0 + 1 .. b
        PROVE  R[d].name # "disconnect"
    <3>1. CASE d <= N
      <4>1. d \in 1 .. N
        BY <1>0, <3>1
      <4>2. QED
        BY <2>4, <4>1
    <3>2. CASE d > N
      <4> DEFINE y == d - N
      <4>1. y \in 1 .. L /\ d = N + y
        BY <1>0, <1>11, <2>2, <3>2
      <4> HIDE DEF y, L, N
      <4>2. R[d] = X[y]
        BY <1>11, <4>1
      <4>3. X[y].name \in WorkNames
        BY <1>14, <4>1
      <4>4. QED
        BY <4>2, <4>3, WorkNamesAreOthers
    <3>3. QED
      BY <1>0, <3>1, <3>2
  <2> HIDE DEF b
  <2>9. WorkShape(R, N + p)
    BY <2>5, <2>6, <2>7, <2>8 DEF WorkShape
  <2>10. R[N + p].name \in WorkNames
    BY <1>11, <1>14
  <2>11. QED
    BY <2>9, <2>10, WorkNamesAreOthers DEF Shape
<1>16. Shape(R, N + L + 1)
  BY <1>7, <1>11 DEF Shape
<1>17. ASSUME NEW k \in 1 .. Len(R)
       PROVE  Shape(R, k)
  <2>1. k \in 1 .. N \/ k = N + L + 1 \/ k - N \in 1 .. L
    <3>1. N \in Nat /\ L \in Nat /\ k \in 1 .. N + L + 1
      BY <1>0, <1>11
    <3> HIDE DEF N, L
    <3>2. QED
      BY <3>1
  <2>2. CASE k - N \in 1 .. L
    <3>1. Shape(R, N + (k - N)) /\ N + (k - N) = k
      BY <1>0, <1>15, <2>2
    <3>2. QED
      BY <3>1
  <2>3. QED
    BY <1>12, <1>16, <2>1, <2>2
<1>18. IsASeq(R) /\ Len(R) \in Nat
  <2>1. IsASeq(R)
    BY <1>11, AnySeq
  <2>2. QED
    BY <1>0, <1>11, <2>1
<1>19. QED
  BY <1>4, <1>17, <1>18

-----------------------------------------------------------------------------
(* Who is connected *)

\* Rank r connects in stage k.
ConnectsIn(r, k) ==
  program[k].name = "connect" /\ program[k].calls[r] = <<Call("connect", <<>>)>>

\* r has made its call in stage k, or has left the stage behind.
HasMade(r, k) == pos[r] > k \/ (pos[r] = k /\ next[r] > 1)

\* Who has connected stays connected up to the next stage in which it disconnects.
Joining ==
  \A r \in Ranks : \A k \in 1 .. Len(program) :
    /\ ConnectsIn(r, k) /\ HasMade(r, k)
    /\ \A d \in k .. Len(program) : program[d].name = "disconnect" => ~HasMade(r, d)
    => r \in connected

\* Nobody is connected before the stage of its own.
Ordered == \A r \in connected : pos[r] >= r + 1

\* Who waits at the end of a stage has made its calls.
CallsMade ==
  \A r \in Ranks : waiting[r] /\ pos[r] \in 1 .. Len(program) => next[r] > Len(CallsOf(r))

Shapes == Len(program) \in Nat /\ \A k \in 1 .. Len(program) : Shape(program, k)

CInv == IInv /\ Shapes /\ Joining /\ Ordered /\ CallsMade

\* The options that TaskCounts and the stages depend on come through the preparation.
LEMMA PreparedOptions ==
  ASSUME NEW raw, DOMAIN raw = DOMAIN CephDefaults, raw.iterations \in Nat,
         raw.stride \in Nat \ {0}, raw.first \in 1 .. NTasks
  PROVE  LET o == CephPrepared(raw)
         IN  /\ o.iterations \in Nat /\ o.stride \in Nat \ {0}
             /\ o.first \in 1 .. NTasks
<1> DEFINE Kept(o) == /\ DOMAIN o = DOMAIN CephDefaults
                      /\ o.iterations = raw.iterations
                      /\ o.stride = raw.stride /\ o.first = raw.first
<1>0. {"iterations", "stride", "first", "last"} \subseteq DOMAIN CephDefaults
  BY DEF CephDefaults
<1>1. Kept(raw)
  OBVIOUS
<1>2. \A o : Kept(o) => Kept(Striped(o))
  BY <1>0 DEF Striped
<1>3. \A o : Kept(o) => Kept(AllPhases(o))
  BY <1>0 DEF AllPhases
<1>4. \A o : Kept(o) => Kept(BothKinds(o))
  BY <1>0 DEF BothKinds
<1>5. \A o : Kept(o) => Kept(CephCounts(o))
  BY <1>0 DEF CephCounts
<1>6. Kept(CephCounts(Checked(raw)))
  BY <1>1, <1>2, <1>3, <1>4, <1>5 DEF Checked
<1> DEFINE o == CephCounts(Checked(raw))
<1> HIDE DEF o
<1>7. Kept(o)
  BY <1>6 DEF o
<1>8. TaskRange(o).iterations = raw.iterations /\ TaskRange(o).stride = raw.stride
  BY <1>0, <1>7 DEF TaskRange
<1>9. TaskRange(o).first \in {raw.first, NTasks}
  BY <1>0, <1>7 DEF TaskRange
<1>10. CephPrepared(raw) = TaskRange(o)
  BY DEF CephPrepared, o
<1>11. QED
  BY <1>8, <1>9, <1>10, NTasksAssumption

LEMMA InitShapes == Init => Shapes
<1> SUFFICES ASSUME Init
             PROVE  Shapes
  OBVIOUS
<1>1. PICK s \in Scripts : script = WithOptions(s)
  BY DEF Init
<1>2. s \in Seq(Range(s)) /\ Len(s) \in Nat /\ DOMAIN s = 1 .. Len(s)
  BY CephScriptsAssumption
<1> DEFINE f == [run \in 1 .. Len(s) |-> RunStages(script[run], run)]
<1>3. program = FlattenSeq(f)
  <2>1. DOMAIN script = 1 .. Len(s)
    BY <1>1, <1>2 DEF WithOptions
  <2>2. QED
    BY <2>1 DEF Init, ProgramOf
<1>4. ASSUME NEW run \in 1 .. Len(s)
      PROVE  /\ IsASeq(f[run]) /\ Len(f[run]) \in Nat
             /\ \A k \in 1 .. Len(f[run]) : Shape(f[run], k)
  <2>1. script[run] = CephPrepared(s[run])
    BY <1>1, <1>2 DEF WithOptions
  <2>2. /\ DOMAIN s[run] = DOMAIN CephDefaults /\ s[run].iterations \in Nat
        /\ s[run].stride \in Nat \ {0} /\ s[run].first \in 1 .. NTasks
    BY <1>2, CephScriptsAssumption
  <2>3. QED
    BY <2>1, <2>2, PreparedOptions, RunShape
<1>5. IsASeq(f) /\ Len(f) = Len(s)
  BY <1>2, FunctionSeq
<1> HIDE DEF f
<1>6. /\ IsASeq(program)
      /\ \A p \in 1 .. Len(program) :
           \E run \in 1 .. Len(f) : \E c \in Nat : InCopy(program, p, f[run], c)
  BY <1>3, <1>4, <1>5, FlattenPieces
<1>7. Len(program) \in Nat
  BY <1>6 DEF IsASeq
<1>8. ASSUME NEW p \in 1 .. Len(program)
      PROVE  Shape(program, p)
  <2>1. PICK run \in 1 .. Len(f), c \in Nat : InCopy(program, p, f[run], c)
    BY <1>6
  <2>2. p \in Nat
    BY <1>7
  <2>3. QED
    BY <1>4, <1>5, <1>7, <2>1, <2>2, ShapeOfCopy
<1>9. QED
  BY <1>7, <1>8 DEF Shapes

LEMMA InitCInv == Init => CInv
<1> SUFFICES ASSUME Init
             PROVE  CInv
  OBVIOUS
<1>1. Joining
  <2>1. \A r \in Ranks, k \in 1 .. Len(program) : ~HasMade(r, k)
    BY DEF Init, HasMade
  <2>2. QED
    BY <2>1 DEF Joining
<1>2. Ordered /\ CallsMade
  BY DEF Init, Ordered, CallsMade
<1>3. QED
  BY <1>1, <1>2, InitIInv, InitShapes DEF CInv

\* What a call does to the connections.
LEMMA CallEffect ==
  ASSUME TypeOK, NEW r \in Ranks, CallStep(r)
  PROVE  /\ Active(r) /\ UNCHANGED <<script, program, pos, waiting>>
         /\ \/ UNCHANGED <<next, connected>>
            \/ /\ next' = [next EXCEPT ![r] = @ + 1]
               /\ next[r] <= Len(CallsOf(r))
               /\ \/ StageOf(r).name = "connect" /\ connected' = connected \cup {r}
                  \/ StageOf(r).name = "disconnect" /\ connected' = connected \ {r}
                  \/ CallOf(r).op # "connect" /\ connected' = connected
<1> DEFINE Effect == /\ UNCHANGED <<script, program, pos, waiting, connected>>
                     /\ next' = next \/ next' = [next EXCEPT ![r] = @ + 1]
<1>1. ASSUME NEW possible, NEW after,
             Succeed(r, after) \/ Perform(r, possible, after)
      PROVE  Effect
  BY <1>1 DEF Perform, Succeed, Fail
<1>2. ASSUME NEW op, At(r, op), op # "connect", Effect
      PROVE  /\ Active(r) /\ next[r] <= Len(CallsOf(r)) /\ CallOf(r).op # "connect"
             /\ Effect
  BY <1>2 DEF At
<1>3. CASE Connect(r)
  BY <1>3 DEF Connect, At
<1>4. CASE Disconnect(r)
  BY <1>4 DEF Disconnect, At
<1>5. ASSUME MakeTestDir(r) \/ RemoveTestDir(r)
      PROVE  Effect /\ \E op : At(r, op) /\ op # "connect"
  BY <1>1, <1>5 DEF MakeTestDir, RemoveTestDir
<1>6. ASSUME \/ MakeDir(r) \/ RemoveDir(r) \/ CreateFile(r)
             \/ StatItem(r) \/ ReadFile(r) \/ UnlinkFile(r)
      PROVE  Effect /\ \E op : At(r, op) /\ op # "connect"
  BY <1>1, <1>6 DEF MakeDir, RemoveDir, CreateFile, StatItem, ReadFile, UnlinkFile
<1>7. CASE Effect /\ \E op : At(r, op) /\ op # "connect"
  BY <1>2, <1>7
<1>8. QED
  BY <1>3, <1>4, <1>5, <1>6, <1>7 DEF CallStep

LEMMA CallKeepsConnections ==
  ASSUME CInv, NEW r \in Ranks, CallStep(r)
  PROVE  (Joining /\ Ordered /\ CallsMade)'
<1>1. /\ TypeOK /\ Active(r) /\ UNCHANGED <<script, program, pos, waiting>>
      /\ \/ UNCHANGED <<next, connected>>
         \/ /\ next' = [next EXCEPT ![r] = @ + 1]
            /\ next[r] <= Len(CallsOf(r))
            /\ \/ StageOf(r).name = "connect" /\ connected' = connected \cup {r}
               \/ StageOf(r).name = "disconnect" /\ connected' = connected \ {r}
               \/ CallOf(r).op # "connect" /\ connected' = connected
  BY CallEffect DEF CInv, IInv
<1>2. /\ Running(r) /\ ~waiting[r] /\ pos[r] \in 1 .. Len(program)
      /\ Len(program) \in Nat /\ Shape(program, pos[r])
  <2>1. Running(r) /\ ~waiting[r] /\ ~(pos[r] > Len(program)) /\ Len(program) \in Nat
    BY <1>1 DEF Active, Running, Finished, CInv, Shapes
  <2>2. pos[r] \in Nat \ {0}
    BY <1>1 DEF TypeOK
  <2>3. QED
    BY <2>1, <2>2 DEF CInv, Shapes
<1>3. CASE UNCHANGED <<next, connected>>
  BY <1>1, <1>3 DEF CInv, Joining, Ordered, CallsMade, ConnectsIn, HasMade, CallsOf, StageOf
<1>4. CASE /\ next' = [next EXCEPT ![r] = @ + 1]
           /\ next[r] <= Len(CallsOf(r))
           /\ \/ StageOf(r).name = "connect" /\ connected' = connected \cup {r}
              \/ StageOf(r).name = "disconnect" /\ connected' = connected \ {r}
              \/ CallOf(r).op # "connect" /\ connected' = connected
  <2>1. /\ next'[r] = next[r] + 1 /\ next[r] \in Nat \ {0}
        /\ \A q \in Ranks : q # r => next'[q] = next[q]
        /\ \A q \in Ranks : pos[q] \in Nat \ {0} /\ next[q] \in Nat \ {0}
    BY <1>1, <1>4 DEF TypeOK
  <2>2. ASSUME NEW q \in Ranks, NEW k, HasMade(q, k)
        PROVE  HasMade(q, k)'
    BY <1>1, <2>1, <2>2 DEF HasMade
  <2>3. ASSUME ConnectsIn(r, pos[r]), next[r] = 1
        PROVE  r \in connected'
    <3>1. /\ StageOf(r).name = "connect" /\ CallsOf(r) = <<Call("connect", <<>>)>>
          /\ CallOf(r) = CallsOf(r)[1]
      BY <2>3 DEF ConnectsIn, StageOf, CallsOf, CallOf
    <3>2. CallOf(r).op = "connect"
      BY <3>1 DEF Call
    <3>3. QED
      BY <1>4, <3>1, <3>2
  <2>4. ASSUME NEW q \in Ranks, NEW k \in 1 .. Len(program),
               ConnectsIn(q, k)', HasMade(q, k)',
               \A d \in k .. Len(program) : program[d].name = "disconnect" => ~HasMade(q, d)'
        PROVE  q \in connected'
    <3>1. ConnectsIn(q, k)
      BY <1>1, <2>4 DEF ConnectsIn
    <3>2. CASE HasMade(q, k)
      <4>1. q \in connected
        BY <2>2, <2>4, <3>1, <3>2 DEF CInv, Joining
      <4>2. ASSUME q = r, StageOf(r).name = "disconnect"
            PROVE  FALSE
        <5>1. PICK d \in Int : d = pos[r]
          BY <2>1
        <5>2. d \in k .. Len(program) /\ program[d].name = "disconnect"
          BY <1>2, <3>2, <4>2, <5>1 DEF HasMade, StageOf
        <5>3. ~HasMade(q, d)'
          BY <2>4, <5>2
        <5>4. pos'[q] = d /\ next'[q] > 1
          BY <1>1, <2>1, <4>2, <5>1
        <5>5. QED
          BY <5>3, <5>4 DEF HasMade
      <4>3. QED
        BY <1>4, <4>1, <4>2
    <3>3. CASE ~HasMade(q, k)
      <4>1. q = r /\ pos[r] = k /\ next[r] = 1
        BY <1>1, <2>1, <2>4, <3>3 DEF HasMade
      <4>2. QED
        BY <2>3, <3>1, <4>1
    <3>4. QED
      BY <3>2, <3>3
  <2>5. Joining'
    BY <1>1, <2>4 DEF Joining
  <2>6. Ordered'
    <3>1. ASSUME StageOf(r).name = "connect"
          PROVE  pos[r] >= r + 1
      <4>1. ConnectShape(program, pos[r])
        BY <1>2, <3>1 DEF Shape, StageOf
      <4>2. CallsOf(r) # <<>>
        BY <1>4, <2>1
      <4>3. r < pos[r]
        BY <4>1, <4>2 DEF ConnectShape, CallsOf, StageOf
      <4>4. QED
        BY <2>1, <4>3 DEF Ranks
    <3>2. \A q \in connected : pos'[q] >= q + 1
      BY <1>1 DEF CInv, Ordered
    <3>3. QED
      BY <1>1, <1>4, <3>1, <3>2 DEF Ordered
  <2>7. CallsMade'
    BY <1>1, <1>2, <2>1 DEF CInv, CallsMade, CallsOf, StageOf
  <2>8. QED
    BY <2>5, <2>6, <2>7
<1>5. QED
  BY <1>1, <1>3, <1>4

LEMMA AdvanceKeepsConnections ==
  ASSUME CInv, NEW r \in Ranks, Advance(r),
         pos[r] \in 1 .. Len(program) =>
           next[r] > Len(CallsOf(r)) \/ r \notin StageOf(r).members,
         (UNCHANGED waiting /\ ~waiting[r]) \/ waiting' = [waiting EXCEPT ![r] = FALSE]
  PROVE  (Joining /\ Ordered /\ CallsMade)'
<1>1. /\ TypeOK /\ UNCHANGED <<program, connected>>
      /\ pos'[r] = pos[r] + 1 /\ next'[r] = 1
      /\ \A q \in Ranks : q # r => pos'[q] = pos[q] /\ next'[q] = next[q]
      /\ \A q \in Ranks : pos[q] \in Nat \ {0} /\ next[q] \in Nat \ {0}
      /\ Len(program) \in Nat
  BY DEF CInv, IInv, Shapes, Advance, TypeOK
<1>2. ~waiting'[r] /\ \A q \in Ranks : q # r => waiting'[q] = waiting[q]
  BY <1>1 DEF TypeOK
<1>3. ASSUME NEW q \in Ranks, NEW k \in Int, HasMade(q, k)
      PROVE  HasMade(q, k)'
  BY <1>1, <1>3 DEF HasMade
<1>4. ASSUME NEW k \in 1 .. Len(program), ConnectsIn(r, k), HasMade(r, k)'
      PROVE  HasMade(r, k)
  <2>1. k <= pos[r]
    BY <1>1, <1>4 DEF HasMade
  <2>2. CASE k = pos[r]
    <3>1. CallsOf(r) = <<Call("connect", <<>>)>> /\ StageOf(r).members = Ranks
      BY <1>4, <2>2 DEF ConnectsIn, CInv, Shapes, Shape, ConnectShape, CallsOf, StageOf
    <3>2. Len(CallsOf(r)) = 1
      BY <3>1
    <3>3. next[r] > 1
      BY <2>2, <3>1, <3>2
    <3>4. QED
      BY <2>2, <3>3 DEF HasMade
  <2>3. CASE k # pos[r]
    BY <1>1, <2>1, <2>3 DEF HasMade
  <2>4. QED
    BY <2>2, <2>3
<1>5. ASSUME NEW q \in Ranks, NEW k \in 1 .. Len(program),
             ConnectsIn(q, k)', HasMade(q, k)',
             \A d \in k .. Len(program) : program[d].name = "disconnect" => ~HasMade(q, d)'
      PROVE  q \in connected'
  <2>1. ConnectsIn(q, k)
    BY <1>1, <1>5 DEF ConnectsIn
  <2>2. HasMade(q, k)
    BY <1>1, <1>4, <1>5, <2>1 DEF HasMade
  <2>3. \A d \in k .. Len(program) : program[d].name = "disconnect" => ~HasMade(q, d)
    BY <1>3, <1>5
  <2>4. QED
    BY <1>1, <2>1, <2>2, <2>3 DEF CInv, Joining
<1>6. Joining'
  BY <1>1, <1>5 DEF Joining
<1>7. Ordered'
  <2>1. \A q \in Ranks : pos'[q] >= pos[q] /\ pos'[q] \in Nat /\ q \in Int
    BY <1>1 DEF Ranks
  <2>2. \A q \in connected : q \in Ranks /\ pos[q] >= q + 1
    BY <1>1 DEF CInv, Ordered, TypeOK
  <2>3. QED
    BY <1>1, <2>1, <2>2 DEF Ordered
<1>8. CallsMade'
  BY <1>1, <1>2 DEF CInv, CallsMade, CallsOf, StageOf
<1>9. QED
  BY <1>6, <1>7, <1>8

LEMMA NextCInv == CInv /\ [Next]_vars => CInv'
<1> SUFFICES ASSUME CInv, [Next]_vars
             PROVE  CInv'
  OBVIOUS
<1>1. IInv'
  BY NextIInv DEF CInv
<1>2. ASSUME NEW r \in Ranks, RankStep(r)
      PROVE  program' = program /\ (Joining /\ Ordered /\ CallsMade)'
  <2>1. CASE CallStep(r)
    BY <2>1, CallKeepsConnections, CallFrame DEF CInv, IInv
  <2>2. CASE SkipStage(r)
    BY <2>2, AdvanceKeepsConnections DEF SkipStage, Running, Advance
  <2>3. CASE PassOn(r)
    BY <2>3, AdvanceKeepsConnections DEF PassOn, CallsDone, Active, Running, Advance
  <2>4. CASE EnterBarrier(r)
    <3>1. /\ UNCHANGED <<program, pos, next, connected>> /\ next[r] > Len(CallsOf(r))
          /\ waiting' = [waiting EXCEPT ![r] = TRUE]
      BY <2>4 DEF EnterBarrier, CallsDone
    <3>2. \A q \in Ranks : q # r => waiting'[q] = waiting[q]
      BY <3>1 DEF CInv, IInv, TypeOK
    <3>3. CallsMade'
      BY <3>1, <3>2 DEF CInv, CallsMade, CallsOf, StageOf
    <3>4. Joining' /\ Ordered'
      BY <3>1 DEF CInv, Joining, Ordered, ConnectsIn, HasMade
    <3>5. QED
      BY <3>1, <3>3, <3>4
  <2>5. CASE LeaveBarrier(r)
    <3>1. /\ Advance(r) /\ waiting[r] /\ waiting' = [waiting EXCEPT ![r] = FALSE]
          /\ program' = program
      BY <2>5 DEF LeaveBarrier, Advance
    <3>2. pos[r] \in 1 .. Len(program) => next[r] > Len(CallsOf(r))
      BY <3>1 DEF CInv, CallsMade
    <3>3. QED
      BY <3>1, <3>2, AdvanceKeepsConnections
  <2>6. QED
    BY <1>2, <2>1, <2>2, <2>3, <2>4, <2>5 DEF RankStep
<1>3. CASE UNCHANGED vars
  BY <1>1, <1>3 DEF vars, CInv, Shapes, Joining, Ordered, CallsMade, ConnectsIn, HasMade,
                    CallsOf, StageOf
<1>4. CASE program' = program /\ (Joining /\ Ordered /\ CallsMade)'
  BY <1>1, <1>4 DEF CInv, Shapes
<1>5. QED
  BY <1>2, <1>3, <1>4 DEF Next, Stop

LEMMA CInvAlways == Spec => []CInv
  BY InitCInv, NextCInv, PTL DEF Spec

\* The clients connect one at a time, in the order of their ranks, and nobody makes a
\* call to the file system before all the clients are connected or after one of them
\* has disconnected, in each invocation of a script and for any numbers of tasks.
THEOREM ConnectionsInOrder == Spec => []ConnectInOrder
<1>1. ASSUME CInv
      PROVE  ConnectInOrder
  <2> SUFFICES ASSUME NEW r \in Ranks, Running(r)
               PROVE  CASE StageOf(r).name = "connect" -> \A q \in connected : q <= pos[r] - 1
                        [] StageOf(r).name = "disconnect" -> TRUE
                        [] OTHER -> connected = Ranks
    BY DEF ConnectInOrder
  <2> USE <1>1
  <2> DEFINE p == pos[r]
  <2>1. /\ TypeOK /\ BarriersHold /\ ~waiting[r] /\ p \in 1 .. Len(program)
        /\ Len(program) \in Nat /\ Shape(program, p)
    <3>1. TypeOK /\ BarriersHold /\ ~waiting[r] /\ ~(p > Len(program)) /\ Len(program) \in Nat
      BY DEF CInv, IInv, Shapes, Running, Finished
    <3>2. p \in Nat \ {0}
      BY <3>1 DEF TypeOK
    <3>3. QED
      BY <3>1, <3>2 DEF CInv, Shapes
  <2>2. \A q \in Ranks : pos[q] \in Nat \ {0} /\ q \in Nat
    BY <2>1 DEF TypeOK, Ranks
  <2>3. StageOf(r) = program[p]
    BY DEF StageOf
  <2> HIDE DEF p
  <2>4. ASSUME NEW k \in 1 .. Len(program), program[k].sync, program[k].members = Ranks,
               NEW q \in Ranks
        PROVE  /\ p <= k => pos[q] <= k
               /\ p > k => pos[q] > k \/ (pos[q] = k /\ waiting[q])
    BY <2>1, <2>2, <2>4 DEF BarriersHold, p
  <2>5. ASSUME program[p].name = "connect", NEW q \in connected
        PROVE  q <= p - 1
    <3>1. q \in Ranks /\ pos[q] >= q + 1
      BY <2>1 DEF CInv, Ordered, TypeOK
    <3>2. pos[q] <= p
      BY <2>1, <2>4, <2>5, <3>1 DEF Shape, ConnectShape
    <3>3. QED
      BY <2>1, <2>2, <3>1, <3>2
  <2>6. ASSUME program[p].name \notin {"connect", "disconnect"}
        PROVE  connected = Ranks
    <3>1. PICK a \in Nat, b \in Nat :
            /\ a + NTasks < p /\ p <= b /\ b <= Len(program)
            /\ program[b].sync /\ program[b].members = Ranks
            /\ \A q \in Ranks : /\ program[a + q + 1].name = "connect"
                                /\ program[a + q + 1].calls[q] = <<Call("connect", <<>>)>>
            /\ \A d \in a + 1 .. b : program[d].name # "disconnect"
      BY <2>1, <2>6 DEF Shape, WorkShape
    <3>2. ASSUME NEW q \in Ranks
          PROVE  q \in connected
      <4> DEFINE k == a + q + 1
      <4>1. k \in 1 .. Len(program) /\ k >= a + 1 /\ k < p /\ b \in 1 .. Len(program)
        BY SMTT(30), <2>1, <3>1, NTasksAssumption DEF Ranks
      <4>2. ConnectsIn(q, k)
        BY <3>1 DEF ConnectsIn
      <4> HIDE DEF k
      <4>3. ConnectShape(program, k)
        BY <4>1, <4>2 DEF CInv, Shapes, Shape, ConnectsIn
      <4>4. pos[q] > k \/ (pos[q] = k /\ waiting[q])
        BY <2>4, <4>1, <4>3 DEF ConnectShape
      <4>5. HasMade(q, k)
        <5>1. CASE pos[q] = k /\ waiting[q]
          <6>1. next[q] > Len(CallsOf(q)) /\ CallsOf(q) = <<Call("connect", <<>>)>>
            BY <4>1, <4>2, <5>1 DEF CInv, CallsMade, ConnectsIn, CallsOf, StageOf
          <6>2. next[q] > 1
            BY <6>1
          <6>3. QED
            BY <5>1, <6>2 DEF HasMade
        <5>2. QED
          BY <4>4, <5>1 DEF HasMade
      <4>6. pos[q] <= b
        BY <2>4, <3>1, <4>1
      <4>7. ASSUME NEW d \in k .. Len(program), program[d].name = "disconnect"
            PROVE  ~HasMade(q, d)
        <5>1. d > b
          BY <3>1, <4>1, <4>7
        <5>2. QED
          BY <2>2, <4>6, <5>1 DEF HasMade
      <4>8. QED
        BY <4>1, <4>2, <4>5, <4>7 DEF CInv, Joining
    <3>3. QED
      BY <2>1, <3>2 DEF TypeOK
  <2>7. QED
    BY <2>3, <2>5, <2>6 DEF p
<1>2. QED
  BY CInvAlways, <1>1, PTL
=============================================================================
