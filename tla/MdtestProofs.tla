---------------------------- MODULE MdtestProofs ----------------------------
(***************************************************************************)
(* Proofs about Mdtest for any number of ranks, any scripts and any build: *)
(* the control state keeps its type, two ranks that execute calls are in   *)
(* the same stage, the name space does not change under a rank that stats  *)
(* or reads, and the build without rmdir calls loses no directory.         *)
(*                                                                         *)
(* The invariant that carries the argument is Adjacent: a rank that is     *)
(* behind another one has called the barrier of its stage and the other    *)
(* one is exactly one stage ahead.  PhaseSeparation alone is not           *)
(* inductive, since it says nothing of ranks that wait.  The last theorem  *)
(* is about what a program holds: every stage of it has the calls that the *)
(* options of its invocation ask for (StagesAre), and the paths of a file  *)
(* removal end in the name of a file, since the walk gives each item a     *)
(* place in the tree.                                                      *)
(***************************************************************************)
EXTENDS Mdtest, TreeLemmas

Adjacent ==
  \A r, q \in Ranks : pos[r] < pos[q] => waiting[r] /\ pos[q] = pos[r] + 1

IInv == TypeOK /\ Adjacent

\* A call moves nothing but the rank's place in its stage, the name space and the
\* abort flag.
LEMMA CallStepFrame ==
  ASSUME TypeOK, NEW r \in Ranks, CallStep(r)
  PROVE  /\ UNCHANGED <<script, program, pos, waiting>>
         /\ Running(r)
         /\ next' \in [Ranks -> Nat \ {0}]
         /\ aborted' \in BOOLEAN
<1>1. ASSUME NEW after, Succeed(r, after)
      PROVE  /\ UNCHANGED <<script, program, pos, waiting, aborted>>
             /\ next' \in [Ranks -> Nat \ {0}]
  BY <1>1 DEF Succeed, TypeOK
<1>2. ASSUME Fail
      PROVE  /\ UNCHANGED <<script, program, pos, waiting, next>>
             /\ aborted' = TRUE
  BY <1>2 DEF Fail
<1>3. ASSUME NEW possible, NEW after, Perform(r, possible, after) \/ Attempt(r, possible, after)
      PROVE  /\ UNCHANGED <<script, program, pos, waiting>>
             /\ next' \in [Ranks -> Nat \ {0}]
             /\ aborted' \in BOOLEAN
  BY <1>1, <1>2, <1>3 DEF Perform, Attempt, TypeOK
<1>4. CASE MakeTreeDir(r)
  BY <1>3, <1>4 DEF MakeTreeDir, At
<1>5. CASE MakeDir(r)
  BY <1>3, <1>5 DEF MakeDir, At
<1>6. CASE CreateFile(r)
  BY <1>3, <1>6 DEF CreateFile, At
<1>7. CASE MakeNode(r)
  BY <1>3, <1>7 DEF MakeNode, At
<1>8. CASE StatItem(r)
  BY <1>3, <1>8 DEF StatItem, At
<1>9. CASE ReadFile(r)
  BY <1>3, <1>9 DEF ReadFile, At
<1>10. CASE RemoveDir(r)
  BY <1>3, <1>10 DEF RemoveDir, At
<1>11. CASE RemoveFile(r)
  BY <1>3, <1>11 DEF RemoveFile, At
<1>12. CASE RemoveTreeDir(r)
  BY <1>3, <1>12 DEF RemoveTreeDir, At
<1>13. QED
  BY <1>4, <1>5, <1>6, <1>7, <1>8, <1>9, <1>10, <1>11, <1>12 DEF CallStep

LEMMA InitIInv == Init => IInv
<1> SUFFICES ASSUME Init
             PROVE  IInv
  OBVIOUS
<1>1. pos \in [Ranks -> Nat \ {0}] /\ next \in [Ranks -> Nat \ {0}]
  BY DEF Init
<1>2. waiting \in [Ranks -> BOOLEAN]
  BY Zenon DEF Init
<1>3. Adjacent
  BY DEF Init, Adjacent
<1>4. QED
  BY <1>1, <1>2, <1>3 DEF IInv, TypeOK, Init

\* Every step keeps the invariant; only LeaveBarrier moves a rank to another stage.
LEMMA NextIInv == IInv /\ [Next]_vars => IInv'
<1> SUFFICES ASSUME IInv, [Next]_vars
             PROVE  IInv'
  OBVIOUS
<1> USE DEF IInv
<1>1. ASSUME NEW r \in Ranks, CallStep(r)
      PROVE  IInv'
  BY <1>1, CallStepFrame DEF TypeOK, Adjacent
<1>2. ASSUME NEW r \in Ranks, EnterBarrier(r)
      PROVE  IInv'
  BY <1>2 DEF EnterBarrier, TypeOK, Adjacent
<1>3. ASSUME NEW r \in Ranks, LeaveBarrier(r)
      PROVE  IInv'
  <2>1. TypeOK'
    BY <1>3 DEF LeaveBarrier, TypeOK
  <2>2. ASSUME NEW p \in Ranks, NEW q \in Ranks, pos'[p] < pos'[q]
        PROVE  waiting'[p] /\ pos'[q] = pos'[p] + 1
    <3>1. p # r
      BY <1>3, <2>2 DEF LeaveBarrier, AllArrived, TypeOK, Adjacent
    <3>2. CASE q = r
      BY <1>3, <2>2, <3>1, <3>2 DEF LeaveBarrier, AllArrived, TypeOK, Adjacent
    <3>3. CASE q # r
      BY <1>3, <2>2, <3>1, <3>3 DEF LeaveBarrier, TypeOK, Adjacent
    <3>4. QED
      BY <3>2, <3>3
  <2>3. QED
    BY <2>1, <2>2 DEF Adjacent
<1>4. CASE UNCHANGED vars
  BY <1>4 DEF vars, TypeOK, Adjacent
<1>5. QED
  BY <1>1, <1>2, <1>3, <1>4 DEF Next, RankStep, Stop

LEMMA IInvAlways == Spec => []IInv
  BY InitIInv, NextIInv, PTL DEF Spec

\* The control state of the job keeps its type in every reachable state.
THEOREM TypeCorrect == Spec => []TypeOK
<1>1. IInv => TypeOK
  BY DEF IInv
<1>2. QED
  BY IInvAlways, <1>1, PTL

\* Two ranks that are both executing calls are in the same stage (what phase_end and
\* the other MPI_Barrier calls are there for).
THEOREM PhasesSeparate == Spec => []PhaseSeparation
<1>1. IInv => PhaseSeparation
  BY DEF IInv, TypeOK, Adjacent, PhaseSeparation, Running
<1>2. QED
  BY IInvAlways, <1>1, PTL

ReadStages == {"dir_stat", "dir_read", "file_stat", "file_read"}

\* A step that changes the name space is a call made in some other kind of stage.
LEMMA ChangeOutsideReads ==
  ASSUME NEW r \in Ranks, RankStep(r), fs' # fs
  PROVE  Running(r) /\ StageOf(r).name \notin ReadStages
<1> USE DEF ReadStages, At
<1>1. ~EnterBarrier(r) /\ ~LeaveBarrier(r) /\ ~Fail
  BY DEF EnterBarrier, LeaveBarrier, Fail
<1>2. ~StatItem(r) /\ ~ReadFile(r)
  BY <1>1 DEF StatItem, ReadFile, Perform, Succeed
<1>3. QED
  BY <1>1, <1>2 DEF RankStep, CallStep, MakeTreeDir, MakeDir, CreateFile,
       MakeNode, RemoveDir, RemoveFile, RemoveTreeDir

\* While a rank stats or reads, no step of any rank changes the name space: stat and
\* read results cannot depend on how far the other ranks have come.
THEOREM StableReads == Spec => StableWhileRead
<1> DEFINE Reading == \E r \in Ranks : Running(r) /\ StageOf(r).name \in ReadStages
<1>1. ASSUME IInv, [Next]_vars, Reading
      PROVE  UNCHANGED fs
  <2>1. PICK q \in Ranks : Running(q) /\ StageOf(q).name \in ReadStages
    BY <1>1
  <2>2. ASSUME NEW r \in Ranks, RankStep(r), fs' # fs
        PROVE  FALSE
    <3>1. Running(r) /\ StageOf(r).name \notin ReadStages
      BY <2>2, ChangeOutsideReads
    <3>2. pos[r] = pos[q]
      BY <1>1, <2>1, <3>1 DEF IInv, TypeOK, Adjacent, Running
    <3>3. QED
      BY <2>1, <3>1, <3>2 DEF StageOf
  <2>3. QED
    BY <1>1, <2>2 DEF Next, Stop, vars
<1>2. IInv /\ [Next]_vars => [Reading => UNCHANGED fs]_vars
  BY <1>1
<1>3. QED
  BY IInvAlways, <1>2, PTL DEF Spec, StableWhileRead, ReadStages

-----------------------------------------------------------------------------
(* What the calls of a program are *)

\* What the set-up makes sure of the options a run works with.
Settled(o) ==
  /\ IsTree(o) /\ o.items_per_dir \in Nat
  /\ o.directory_loops \in Nat /\ o.iterations \in Int

\* Two sequences joined are a sequence of what is in them.
LEMMA JoinedSeq ==
  ASSUME NEW a, NEW b, IsASeq(a), IsASeq(b)
  PROVE  /\ IsASeq(a \o b) /\ Len(a \o b) = Len(a) + Len(b)
         /\ \A i \in 1 .. Len(a \o b) :
              \/ \E x \in 1 .. Len(a) : (a \o b)[i] = a[x]
              \/ \E x \in 1 .. Len(b) : (a \o b)[i] = b[x]
<1> DEFINE S == {a[i] : i \in DOMAIN a} \cup {b[i] : i \in DOMAIN b}
<1>1. a \in Seq({a[i] : i \in DOMAIN a}) /\ b \in Seq({b[i] : i \in DOMAIN b})
  BY DEF IsASeq
<1>2. \A x \in {a[i] : i \in DOMAIN a} : x \in S
  OBVIOUS
<1>3. \A x \in {b[i] : i \in DOMAIN b} : x \in S
  OBVIOUS
<1> HIDE DEF S
<1>4. a \in Seq(S)
  <2> DEFINE T == {a[i] : i \in DOMAIN a}
  <2>1. a \in Seq(T) /\ \A x \in T : x \in S
    BY <1>1, <1>2
  <2> HIDE DEF T
  <2>2. QED
    BY <2>1
<1>5. b \in Seq(S)
  <2> DEFINE T == {b[i] : i \in DOMAIN b}
  <2>1. b \in Seq(T) /\ \A x \in T : x \in S
    BY <1>1, <1>3
  <2> HIDE DEF T
  <2>2. QED
    BY <2>1
<1>6. a \o b \in Seq(S) /\ Len(a \o b) = Len(a) + Len(b)
  BY <1>4, <1>5
<1>7. ASSUME NEW i \in 1 .. Len(a \o b)
      PROVE  \/ \E x \in 1 .. Len(a) : (a \o b)[i] = a[x]
             \/ \E x \in 1 .. Len(b) : (a \o b)[i] = b[x]
  <2>1. CASE i <= Len(a)
    BY <1>4, <1>5, <2>1
  <2>2. CASE i > Len(a)
    <3> DEFINE x == i - Len(a)
    <3>1. x \in 1 .. Len(b) /\ (a \o b)[i] = b[x]
      BY <1>4, <1>5, <1>6, <2>2
    <3>2. QED
      BY <3>1
  <2>3. QED
    BY <1>4, <2>1, <2>2
<1>8. QED
  BY <1>6, <1>7, AnySeq

\* The calls of e are about files.
AllFiles(e) == IsASeq(e) /\ \A i \in 1 .. Len(e) : Last(e[i].path)[1] = "file"

LEMMA FlattenFiles ==
  ASSUME NEW f, IsASeq(f), \A i \in 1 .. Len(f) : AllFiles(f[i])
  PROVE  AllFiles(FlattenSeq(f))
<1> DEFINE e == FlattenSeq(f)
<1>1. \A i \in 1 .. Len(f) : IsASeq(f[i])
  BY DEF AllFiles
<1>2. /\ IsASeq(e)
      /\ \A p \in 1 .. Len(e) : \E b \in 1 .. Len(f) : \E c \in Nat : InCopy(e, p, f[b], c)
  BY <1>1, FlattenPieces
<1> HIDE DEF e
<1>3. ASSUME NEW p \in 1 .. Len(e)
      PROVE  Last(e[p].path)[1] = "file"
  <2>1. PICK b \in 1 .. Len(f) : \E c \in Nat : InCopy(e, p, f[b], c)
    BY <1>2
  <2>2. PICK c \in Nat : InCopy(e, p, f[b], c)
    BY <2>1
  <2> DEFINE g == f[b]
             x == p - c
  <2>3. Len(g) \in Nat
    BY <1>1 DEF IsASeq
  <2> HIDE DEF g
  <2>4. x \in 1 .. Len(g) /\ c + x = p
    BY <2>2, <2>3 DEF InCopy, g
  <2>5. e[p] = g[x]
    BY <2>2, <2>4 DEF InCopy, g
  <2>6. Last(g[x].path)[1] = "file"
    BY <2>4 DEF AllFiles, g
  <2>7. QED
    BY <2>5, <2>6
<1>4. QED
  BY <1>2, <1>3 DEF AllFiles, e

LEMMA LastOfAppend ==
  ASSUME NEW e, IsASeq(e), NEW x
  PROVE  Last(Append(e, x)) = x
<1> DEFINE T == {e[i] : i \in DOMAIN e}
           S == T \cup {x}
<1>1. e \in Seq(T) /\ (\A y \in T : y \in S) /\ x \in S
  BY DEF IsASeq
<1> HIDE DEF T, S
<1>2. e \in Seq(S) /\ x \in S
  BY <1>1
<1>3. QED
  BY <1>2 DEF Last

\* The path of an item ends with its name.
LEMMA ItemPathEnds ==
  ASSUME NEW top, NEW base, NEW kind, NEW owner, NEW item, item[1] \in Seq(Nat)
  PROVE  Last(ItemPath(top, base, kind, owner, item))[1] = kind
<1> DEFINE place == item[1]
           tail == [i \in DOMAIN place |-> <<"tree", base, place[i]>>]
           head == << <<"tree", top, 0>> >>
           front == TestDir \o head
           name == <<kind, owner, item[2]>>
<1>1. IsASeq(tail)
  <2>1. Len(place) \in Nat /\ tail = [i \in 1 .. Len(place) |-> tail[i]]
    OBVIOUS
  <2> HIDE DEF tail
  <2>2. QED
    BY <2>1, FunctionSeq
<1>2. IsASeq(head) /\ IsASeq(TestDir)
  <2> DEFINE x == <<"tree", top, 0>>
  <2>1. x \in {x}
    OBVIOUS
  <2> HIDE DEF x
  <2>2. << x >> \in Seq({x}) /\ << >> \in Seq({x})
    BY <2>1
  <2>3. QED
    BY <2>2, AnySeq DEF x, TestDir
<1> HIDE DEF tail, head, name
<1>3. IsASeq(front)
  BY <1>2, JoinedSeq
<1> HIDE DEF front
<1>4. IsASeq(front \o tail)
  BY <1>1, <1>3, JoinedSeq
<1>5. Last(Append(front \o tail, name)) = name
  BY <1>4, LastOfAppend
<1>6. ItemPath(top, base, kind, owner, item) = Append(front \o tail, name)
  BY DEF ItemPath, DirPath, front, tail, head, name, place
<1>7. QED
  BY <1>5, <1>6 DEF name

LEMMA WalkFiles ==
  ASSUME NEW o, Settled(o), NEW op, NEW top, NEW base, NEW owner
  PROVE  AllFiles(Walk(o, op, "file", top, base, owner))
<1> DEFINE w == WalkedItems(o)
           X == Seq(Nat)
           paths == [i \in DOMAIN w |-> ItemPath(top, base, "file", owner, w[i])]
           e == [i \in DOMAIN paths |-> [op |-> op, path |-> paths[i]]]
<1>1. w \in Seq(X \X Nat)
  BY WalkedItemsAre DEF Settled, ItemsOnce
<1>2. Walk(o, op, "file", top, base, owner) = e
  BY DEF Walk, Calls
<1> HIDE DEF w, X
<1>3. DOMAIN w = 1 .. Len(w) /\ Len(w) \in Nat /\ \A i \in 1 .. Len(w) : w[i][1] \in X
  BY <1>1
<1>4. DOMAIN paths = 1 .. Len(w) /\ \A i \in 1 .. Len(w) : Last(paths[i])[1] = "file"
  BY <1>3, ItemPathEnds DEF X
<1> HIDE DEF paths
<1>5. e = [i \in 1 .. Len(w) |-> e[i]] /\ \A i \in 1 .. Len(w) : e[i].path = paths[i]
  BY <1>4
<1> HIDE DEF e
<1>6. IsASeq(e) /\ Len(e) = Len(w)
  BY <1>3, <1>5, FunctionSeq
<1>7. QED
  BY <1>2, <1>4, <1>5, <1>6 DEF AllFiles

\* The remove phase of file_test unlinks files and nothing else.
LEMMA FileRemovalFiles ==
  ASSUME NEW o, Settled(o), NEW r
  PROVE  AllFiles(FileRemoval(o, r))
<1> DEFINE own == Walk(o, "delete", "file", TopDir(o, r, 4), BaseTree(o, r), ItemOwner(o, r, 3))
           joint == CollectiveWalk(o, "delete", "file", 3)
           once == IF o.shared_file /\ r # 0 THEN <<>>
                   ELSE IF ~o.collective_creates THEN own
                   ELSE IF r = 0 THEN joint ELSE <<>>
           loops == [l \in 1 .. o.directory_loops |-> once]
<1>1. AllFiles(own)
  BY WalkFiles
<1>2. AllFiles(joint)
  <2> DEFINE f == [i \in 1 .. NTasks |->
                     Walk(o, "delete", "file", BaseTree(o, i - 1), BaseTree(o, i - 1),
                          ItemOwner(o, i - 1, 3))]
  <2>1. \A i \in 1 .. NTasks : AllFiles(f[i])
    BY WalkFiles
  <2>2. NTasks \in Nat /\ f = [i \in 1 .. NTasks |-> f[i]] /\ joint = FlattenSeq(f)
    BY NTasksAssumption DEF CollectiveWalk
  <2> HIDE DEF f, joint
  <2>3. IsASeq(f) /\ Len(f) = NTasks
    BY <2>2, FunctionSeq
  <2>4. QED
    BY <2>1, <2>2, <2>3, FlattenFiles
<1>3. AllFiles(<<>>)
  <2> DEFINE E == {}
             none == <<>>
  <2>1. none \in Seq(E) /\ Len(none) = 0
    OBVIOUS
  <2> HIDE DEF E, none
  <2>2. IsASeq(none)
    BY <2>1, AnySeq
  <2>3. AllFiles(none)
    BY <2>1, <2>2 DEF AllFiles
  <2>4. QED
    BY <2>3 DEF none
<1> HIDE DEF own, joint
<1>4. AllFiles(once)
  BY <1>1, <1>2, <1>3
<1>5. FileRemoval(o, r) = FlattenSeq(loops)
  BY DEF FileRemoval, Repeat, own, joint
<1> HIDE DEF once
<1>6. \A l \in 1 .. o.directory_loops : loops[l] = once
  OBVIOUS
<1>7. loops = [l \in 1 .. o.directory_loops |-> loops[l]]
  OBVIOUS
<1> HIDE DEF loops
<1>8. IsASeq(loops) /\ Len(loops) = o.directory_loops
  BY <1>7, FunctionSeq DEF Settled
<1>9. QED
  BY <1>4, <1>5, <1>6, <1>8, FlattenFiles

\* The build with the rmdir calls commented out makes no call in the remove phase of
\* directory_test.
LEMMA NoDirRemoval ==
  ASSUME NEW o, Settled(o), o.build = "iops", NEW r
  PROVE  DirRemoval(o, r) \in Seq({}) /\ Len(DirRemoval(o, r)) = 0
<1> DEFINE loops == [l \in 1 .. o.directory_loops |-> <<>>]
           E == {}
<1>1. DirRemoval(o, r) = FlattenSeq(loops)
  BY DEF DirRemoval, Repeat
<1>2. /\ loops \in Seq(Seq(E)) /\ Len(loops) = o.directory_loops
      /\ \A i \in 1 .. Len(loops) : Len(loops[i]) = 0
  <2> DEFINE none == <<>>
  <2>1. none \in Seq(E) /\ Len(none) = 0
    OBVIOUS
  <2>2. loops = [l \in 1 .. o.directory_loops |-> none]
    OBVIOUS
  <2> DEFINE S == Seq(E)
             k == o.directory_loops
  <2> HIDE DEF none, E, loops
  <2>3. k \in Nat /\ none \in S /\ loops = [l \in 1 .. k |-> none]
    BY <2>1, <2>2 DEF Settled
  <2> HIDE DEF S, k
  <2>4. loops \in Seq(S) /\ Len(loops) = k /\ \A i \in 1 .. k : loops[i] = none
    BY <2>3
  <2>5. QED
    BY <2>1, <2>4 DEF S, k
<1> HIDE DEF loops, E
<1>3. FlattenSeq(loops) \in Seq(E)
  BY <1>2, FlattenCopies
<1>4. Len(FlattenSeq(loops)) = 0
  BY <1>2, FlattenNothing
<1>5. QED
  BY <1>1, <1>3, <1>4 DEF E

\* The stages that an invocation with options o may have.
StagesOf(o) ==
  {"tree_enter", "tree_create", "dir_enter", "dir_chdir", "dir_create", "dir_stat",
   "dir_read", "dir_remove", "file_enter", "file_chdir", "file_collective",
   "file_create", "file_stat", "file_read", "file_remove"}
    \cup (IF o.build = "nodir" THEN {"untree_enter", "tree_remove"} ELSE {})

LEMMA StageNamesIn ==
  ASSUME NEW o, Settled(o)
  PROVE  StageNames(o) \o RemovalStageNames(o) \in Seq(StagesOf(o))
<1> DEFINE S == StagesOf(o)
           loops == [l \in 1 .. o.directory_loops |-> "file_collective"]
<1>1. \A x \in {"tree_enter", "tree_create", "dir_enter", "dir_chdir", "dir_create",
         "dir_stat", "dir_read", "dir_remove", "file_enter", "file_chdir",
         "file_collective", "file_create", "file_stat", "file_read", "file_remove"} : x \in S
  BY DEF StagesOf
<1>2. o.build = "nodir" => "untree_enter" \in S /\ "tree_remove" \in S
  BY DEF StagesOf
<1> HIDE DEF S
<1>3. loops \in Seq(S)
  <2> DEFINE n == o.directory_loops
  <2>1. n \in Nat /\ "file_collective" \in S
    BY <1>1 DEF Settled
  <2> HIDE DEF n
  <2>2. [l \in 1 .. n |-> "file_collective"] \in Seq(S)
    BY <2>1
  <2>3. QED
    BY <2>2 DEF n
<1> HIDE DEF loops
<1>4. DirStages(o) \in Seq(S)
  <2>1. /\ <<"dir_enter">> \in Seq(S) /\ <<"dir_chdir">> \in Seq(S) /\ <<>> \in Seq(S)
        /\ <<"dir_create", "dir_stat", "dir_read", "dir_remove">> \in Seq(S)
    BY <1>1
  <2>2. Names(o.create_only /\ o.unique_dir_per_task, <<"dir_chdir">>) \in Seq(S)
    BY <2>1 DEF Names
  <2>3. QED
    BY <2>1, <2>2 DEF DirStages
<1>5. FileStages(o) \in Seq(S)
  <2>1. /\ <<"file_enter">> \in Seq(S) /\ <<"file_chdir">> \in Seq(S) /\ <<>> \in Seq(S)
        /\ <<"file_create", "file_stat", "file_read", "file_remove">> \in Seq(S)
    BY <1>1
  <2>2. /\ Names(o.create_only /\ o.unique_dir_per_task, <<"file_chdir">>) \in Seq(S)
        /\ Names(o.create_only /\ o.collective_creates, loops) \in Seq(S)
    BY <1>3, <2>1 DEF Names
  <2>3. QED
    BY <2>1, <2>2 DEF FileStages, loops
<1>6. StageNames(o) \in Seq(S)
  <2>1. <<"tree_enter", "tree_create">> \in Seq(S) /\ <<>> \in Seq(S)
    BY <1>1
  <2>2. /\ Names(o.create_only, <<"tree_enter", "tree_create">>) \in Seq(S)
        /\ Names(o.dirs_only, DirStages(o)) \in Seq(S)
        /\ Names(o.files_only, FileStages(o)) \in Seq(S)
    BY <1>4, <1>5, <2>1 DEF Names
  <2>3. QED
    BY <2>2 DEF StageNames
<1>7. RemovalStageNames(o) \in Seq(S)
  <2>1. CASE o.build = "nodir"
    <3>1. <<"untree_enter">> \in Seq(S) /\ <<"tree_remove">> \in Seq(S) /\ <<>> \in Seq(S)
      BY <1>2, <2>1
    <3>2. /\ Names(o.build = "nodir", <<"untree_enter">>) \in Seq(S)
          /\ Names(o.build = "nodir" /\ o.remove_only, <<"tree_remove">>) \in Seq(S)
      BY <3>1 DEF Names
    <3>3. QED
      BY <3>2 DEF RemovalStageNames
  <2>2. CASE o.build # "nodir"
    <3>1. RemovalStageNames(o) = <<>> \o <<>>
      BY <2>2 DEF RemovalStageNames, Names
    <3>2. <<>> \in Seq(S)
      OBVIOUS
    <3>3. QED
      BY <3>1, <3>2
  <2>3. QED
    BY <2>1, <2>2
<1>8. QED
  BY <1>6, <1>7 DEF S

\* A stage belongs to an invocation, which has such stages, and holds the calls that its
\* options ask for.
StageIs(s, e) ==
  /\ e.run \in DOMAIN s /\ e.name \in StagesOf(s[e.run])
  /\ \E round, items : e.calls = [r \in Ranks |-> Work(s[e.run], r, e.name, round, items)]

LEMMA RunStagesAre ==
  ASSUME NEW s, NEW run \in DOMAIN s, Settled(s[run])
  PROVE  LET e == RunStages(s[run], run)
         IN  IsASeq(e) /\ \A p \in 1 .. Len(e) : StageIs(s, e[p])
<1> DEFINE o == s[run]
           names == StageNames(o) \o RemovalStageNames(o)
           round(k) == Cardinality({j \in 1 .. k : names[j] = "file_collective"})
           one(iteration) ==
             [k \in DOMAIN names |->
               [run |-> run, name |-> names[k],
                calls |-> [r \in Ranks |->
                  Work(o, r, names[k], round(k), ItemsIn(o, iteration))]]]
           n == o.iterations
           f == [iteration \in 1 .. n |-> one(iteration)]
           m == IF n >= 0 THEN n ELSE 0
           e == FlattenSeq(f)
<1>1. RunStages(o, run) = e
  BY DEF RunStages
<1>2. names \in Seq(StagesOf(o))
  BY StageNamesIn
<1>3. DOMAIN names = 1 .. Len(names) /\ Len(names) \in Nat
      /\ \A k \in 1 .. Len(names) : names[k] \in StagesOf(o)
  <2> DEFINE S == StagesOf(o)
  <2> HIDE DEF S, names
  <2>1. names \in Seq(S)
    BY <1>2 DEF S
  <2>2. QED
    BY <2>1 DEF S
<1> HIDE DEF names, round
<1>4. ASSUME NEW iteration \in 1 .. n
      PROVE  /\ IsASeq(one(iteration))
             /\ \A k \in 1 .. Len(one(iteration)) : StageIs(s, one(iteration)[k])
  <2> DEFINE g == one(iteration)
  <2>1. g = [k \in 1 .. Len(names) |-> g[k]]
    BY <1>3
  <2>2. ASSUME NEW k \in 1 .. Len(names)
        PROVE  StageIs(s, g[k])
    <3> DEFINE w == [r \in Ranks |-> Work(o, r, names[k], round(k), ItemsIn(o, iteration))]
               stage == [run |-> run, name |-> names[k], calls |-> w]
    <3>1. g[k] = stage
      BY <1>3
    <3>2. stage.run = run /\ stage.name = names[k] /\ stage.calls = w
      OBVIOUS
    <3> HIDE DEF stage, g
    <3>3. QED
      BY <1>3, <3>1, <3>2 DEF StageIs
  <2> HIDE DEF g
  <2>3. IsASeq(g) /\ Len(g) = Len(names)
    BY <1>3, <2>1, FunctionSeq
  <2>4. QED
    BY <2>2, <2>3 DEF g
<1> HIDE DEF one
<1>5. m \in Nat /\ 1 .. m = 1 .. n
  BY DEF Settled
<1>6. f = [i \in 1 .. m |-> f[i]] /\ \A i \in 1 .. m : f[i] = one(i)
  BY <1>5
<1> HIDE DEF f, m
<1>7. IsASeq(f) /\ Len(f) = m
  BY <1>5, <1>6, FunctionSeq
<1>8. \A i \in 1 .. Len(f) : IsASeq(f[i]) /\ \A k \in 1 .. Len(f[i]) : StageIs(s, f[i][k])
  BY <1>4, <1>5, <1>6, <1>7
<1>9. /\ IsASeq(e)
      /\ \A p \in 1 .. Len(e) : \E b \in 1 .. Len(f) : \E c \in Nat : InCopy(e, p, f[b], c)
  BY <1>7, <1>8, FlattenPieces
<1> HIDE DEF e, n
<1>10. ASSUME NEW p \in 1 .. Len(e)
       PROVE  StageIs(s, e[p])
  <2>1. PICK b \in 1 .. Len(f), c \in Nat : InCopy(e, p, f[b], c)
    BY <1>9
  <2> DEFINE g == f[b]
  <2>2. Len(g) \in Nat
    BY <1>8 DEF IsASeq
  <2>3. InCopy(e, p, g, c) /\ \A k \in 1 .. Len(g) : StageIs(s, g[k])
    BY <1>8, <2>1
  <2> HIDE DEF g
  <2> DEFINE x == p - c
  <2>4. c < p /\ p <= c + Len(g) /\ p \in Nat /\ \A y \in 1 .. Len(g) : e[c + y] = g[y]
    BY <2>3 DEF InCopy
  <2>5. x \in 1 .. Len(g) /\ c + x = p
    BY <2>2, <2>4
  <2> HIDE DEF x
  <2>6. e[p] = g[x]
    BY <2>4, <2>5
  <2>7. QED
    BY <2>3, <2>5, <2>6
<1>11. QED
  BY <1>1, <1>9, <1>10 DEF o

\* Every stage of a program is one of an invocation.
LEMMA StagesAre ==
  ASSUME NEW s, NEW n \in Nat, DOMAIN s = 1 .. n, \A run \in DOMAIN s : Settled(s[run])
  PROVE  LET e == ProgramOf(s)
         IN  IsASeq(e) /\ \A p \in 1 .. Len(e) : StageIs(s, e[p])
<1> DEFINE f == [run \in DOMAIN s |-> RunStages(s[run], run)]
           e == FlattenSeq(f)
<1>1. ProgramOf(s) = e
  BY DEF ProgramOf
<1>2. f = [run \in 1 .. n |-> f[run]] /\ \A run \in 1 .. n : f[run] = RunStages(s[run], run)
  OBVIOUS
<1> HIDE DEF f
<1>3. IsASeq(f) /\ Len(f) = n
  BY <1>2, FunctionSeq
<1>4. \A i \in 1 .. Len(f) : IsASeq(f[i]) /\ \A k \in 1 .. Len(f[i]) : StageIs(s, f[i][k])
  BY <1>2, <1>3, RunStagesAre
<1>5. /\ IsASeq(e)
      /\ \A p \in 1 .. Len(e) : \E b \in 1 .. Len(f) : \E c \in Nat : InCopy(e, p, f[b], c)
  BY <1>3, <1>4, FlattenPieces
<1> HIDE DEF e
<1>6. ASSUME NEW p \in 1 .. Len(e)
      PROVE  StageIs(s, e[p])
  <2>1. PICK b \in 1 .. Len(f), c \in Nat : InCopy(e, p, f[b], c)
    BY <1>5
  <2> DEFINE g == f[b]
  <2>2. Len(g) \in Nat
    BY <1>4 DEF IsASeq
  <2>3. InCopy(e, p, g, c) /\ \A k \in 1 .. Len(g) : StageIs(s, g[k])
    BY <1>4, <2>1
  <2> HIDE DEF g
  <2> DEFINE x == p - c
  <2>4. c < p /\ p <= c + Len(g) /\ p \in Nat /\ \A y \in 1 .. Len(g) : e[c + y] = g[y]
    BY <2>3 DEF InCopy
  <2>5. x \in 1 .. Len(g) /\ c + x = p
    BY <2>2, <2>4
  <2> HIDE DEF x
  <2>6. e[p] = g[x]
    BY <2>4, <2>5
  <2>7. QED
    BY <2>3, <2>5, <2>6
<1>7. QED
  BY <1>1, <1>5, <1>6

\* The options of every invocation of a script are settled.
LEMMA ScriptSettled ==
  ASSUME TypeOK
  PROVE  \E n \in Nat : DOMAIN script = 1 .. n /\ \A run \in DOMAIN script : Settled(script[run])
<1>1. PICK s \in Scripts : script = WithOptions(s)
  BY DEF TypeOK
<1>2. s \in Seq(Options) /\ \A run \in DOMAIN s : Valid(s[run])
  BY ScriptsAssumption
<1>3. Len(s) \in Nat /\ DOMAIN s = 1 .. Len(s) /\ \A run \in DOMAIN s : s[run] \in Options
  <2> DEFINE O == Options
  <2>1. s \in Seq(O)
    BY <1>2
  <2> HIDE DEF O
  <2>2. Len(s) \in Nat /\ DOMAIN s = 1 .. Len(s) /\ \A run \in DOMAIN s : s[run] \in O
    BY <2>1
  <2>3. QED
    BY <2>2 DEF O
<1>4. DOMAIN script = DOMAIN s /\ \A run \in DOMAIN s : script[run] = Prepared(s[run])
  BY <1>1 DEF WithOptions
<1>5. ASSUME NEW run \in DOMAIN s
      PROVE  Settled(script[run])
  <2> DEFINE q == s[run]
  <2>1. q \in Options /\ Valid(q) /\ script[run] = Prepared(q)
    BY <1>2, <1>3, <1>4
  <2> HIDE DEF q
  <2>2. QED
    BY <2>1, PreparedIs DEF Settled
<1>6. QED
  BY <1>3, <1>4, <1>5

\* The program is that of the script.
PInv == IInv /\ program = ProgramOf(script)

LEMMA PInvAlways == Spec => []PInv
<1>1. Init => program = ProgramOf(script)
  BY DEF Init
<1>2. IInv /\ program = ProgramOf(script) /\ [Next]_vars => (program = ProgramOf(script))'
  <2> SUFFICES ASSUME IInv, program = ProgramOf(script), [Next]_vars
               PROVE  program' = program /\ script' = script
    BY DEF ProgramOf
  <2>1. ASSUME NEW r \in Ranks, CallStep(r)
        PROVE  program' = program /\ script' = script
    BY <2>1, CallStepFrame DEF IInv
  <2>2. ASSUME NEW r \in Ranks, EnterBarrier(r) \/ LeaveBarrier(r)
        PROVE  program' = program /\ script' = script
    BY <2>2 DEF EnterBarrier, LeaveBarrier
  <2>3. QED
    BY <2>1, <2>2 DEF Next, RankStep, Stop, vars
<1>3. QED
  BY IInvAlways, <1>1, <1>2, PTL DEF Spec, PInv

\* The calls that rank r is making are those of its stage.
LEMMA CallsAre ==
  ASSUME PInv, NEW r \in Ranks, Running(r)
  PROVE  /\ StageOf(r).run \in DOMAIN script /\ Settled(script[StageOf(r).run])
         /\ StageOf(r).name \in StagesOf(script[StageOf(r).run])
         /\ \E round, items :
              CallsOf(r) = Work(script[StageOf(r).run], r, StageOf(r).name, round, items)
<1>1. PICK n \in Nat : DOMAIN script = 1 .. n /\ \A run \in DOMAIN script : Settled(script[run])
  BY ScriptSettled DEF PInv, IInv
<1>2. IsASeq(program) /\ \A p \in 1 .. Len(program) : StageIs(script, program[p])
  BY <1>1, StagesAre DEF PInv
<1>3. pos[r] \in 1 .. Len(program)
  <2>1. pos[r] \in Nat \ {0} /\ ~(pos[r] > Len(program)) /\ Len(program) \in Nat
    BY <1>2 DEF PInv, IInv, TypeOK, Running, Finished, IsASeq
  <2>2. QED
    BY <2>1
<1>4. StageIs(script, StageOf(r))
  BY <1>2, <1>3 DEF StageOf
<1>5. QED
  BY <1>1, <1>4 DEF StageIs, CallsOf

\* Whatever the ranks do, the build whose rmdir calls are commented out loses no
\* directory: the calls of its remove phases are about files, whose names the walk puts
\* at the end of the path.
THEOREM DirectoriesKept == Spec => DirectoriesStay
<1> DEFINE Stays == (\A run \in DOMAIN script : script[run].build = "iops") =>
                      \A p \in DOMAIN fs : Last(p)[1] # "file" => p \in DOMAIN fs'
<1>1. ASSUME PInv, [Next]_vars
      PROVE  Stays
  <2> SUFFICES ASSUME \A run \in DOMAIN script : script[run].build = "iops",
                      NEW p \in DOMAIN fs, Last(p)[1] # "file", p \notin DOMAIN fs'
               PROVE  FALSE
    OBVIOUS
  <2>1. fs' # fs
    OBVIOUS
  <2>2. PICK r \in Ranks : RankStep(r)
    BY <1>1, <2>1 DEF Next, Stop, vars
  <2>3. ~EnterBarrier(r) /\ ~LeaveBarrier(r) /\ ~Fail /\ CallStep(r)
    BY <2>1, <2>2 DEF EnterBarrier, LeaveBarrier, Fail, RankStep
  <2>4. Running(r)
    BY <1>1, <2>3, CallStepFrame DEF PInv, IInv
  <2> DEFINE o == script[StageOf(r).run]
             name == StageOf(r).name
  <2>5. PICK round, items : CallsOf(r) = Work(o, r, name, round, items)
    BY <1>1, <2>4, CallsAre
  <2>6. o.build = "iops" /\ Settled(o) /\ name \in StagesOf(o)
    BY <1>1, <2>4, CallsAre
  <2> HIDE DEF o
  <2>7. \A path, client : DOMAIN With(fs, path, client) = DOMAIN fs \cup {path}
    BY DEF With
  <2>8. ASSUME NEW possible, NEW path, NEW client,
               \/ Perform(r, possible, With(fs, path, client))
               \/ Attempt(r, possible, With(fs, path, client))
               \/ Perform(r, possible, fs)
        PROVE  FALSE
    <3>1. fs' = With(fs, path, client) \/ fs' = fs
      BY <2>3, <2>8 DEF Perform, Attempt, Succeed
    <3>2. fs' = With(fs, path, client)
      BY <2>1, <3>1
    <3>3. DOMAIN fs' = DOMAIN fs \cup {path}
      BY <2>7, <3>2
    <3>4. QED
      BY <3>3
  <2>9. ~MakeTreeDir(r)
    BY <2>8 DEF MakeTreeDir
  <2>10. ~MakeDir(r) /\ ~CreateFile(r) /\ ~MakeNode(r) /\ ~StatItem(r) /\ ~ReadFile(r)
    BY <2>8 DEF MakeDir, CreateFile, MakeNode, StatItem, ReadFile
  <2>11. ~RemoveTreeDir(r)
    <3>1. "tree_remove" \notin StagesOf(o)
      BY <2>6 DEF StagesOf
    <3>2. QED
      BY <2>6, <3>1 DEF RemoveTreeDir, At
  <2>12. ~RemoveDir(r)
    <3> SUFFICES ASSUME name = "dir_remove", next[r] <= Len(CallsOf(r))
                 PROVE  FALSE
      BY DEF RemoveDir, At
    <3>1. CallsOf(r) = IF o.remove_only THEN DirRemoval(o, r) ELSE <<>>
      BY <2>5 DEF Work
    <3>2. Len(CallsOf(r)) = 0
      BY <2>6, <3>1, NoDirRemoval
    <3>3. next[r] \in Nat \ {0}
      BY <1>1 DEF PInv, IInv, TypeOK
    <3>4. QED
      BY <3>2, <3>3
  <2>13. ~RemoveFile(r)
    <3> SUFFICES ASSUME RemoveFile(r)
                 PROVE  FALSE
      OBVIOUS
    <3>1. name = "file_remove" /\ next[r] <= Len(CallsOf(r))
      BY DEF RemoveFile, At
    <3>2. CallsOf(r) = IF o.remove_only THEN FileRemoval(o, r) ELSE <<>>
      BY <2>5, <3>1 DEF Work
    <3>3. next[r] \in Nat \ {0}
      BY <1>1 DEF PInv, IInv, TypeOK
    <3>4. AllFiles(FileRemoval(o, r)) /\ CallsOf(r) = FileRemoval(o, r)
      <4>1. AllFiles(FileRemoval(o, r))
        BY <2>6, FileRemovalFiles
      <4>2. CASE o.remove_only
        BY <3>2, <4>1, <4>2
      <4>3. CASE ~o.remove_only
        <5>1. Len(CallsOf(r)) = 0
          BY <3>2, <4>3
        <5>2. QED
          BY <3>1, <3>3, <5>1
      <4>4. QED
        BY <4>2, <4>3
    <3>5. next[r] \in 1 .. Len(CallsOf(r))
      <4>1. Len(CallsOf(r)) \in Nat
        BY <3>4 DEF AllFiles, IsASeq
      <4>2. QED
        BY <3>1, <3>3, <4>1
    <3>6. Last(Path(r))[1] = "file"
      BY <3>4, <3>5 DEF AllFiles, Path, CallOf
    <3>7. Attempt(r, Exists(fs, Path(r)), Without(fs, Path(r)))
      BY DEF RemoveFile
    <3>8. fs' = Without(fs, Path(r))
      BY <2>1, <3>7 DEF Attempt, Succeed
    <3>9. DOMAIN fs' = DOMAIN fs \ {Path(r)}
      BY <3>8 DEF Without
    <3>10. QED
      BY <3>6, <3>9
  <2>14. QED
    BY <2>3, <2>9, <2>10, <2>11, <2>12, <2>13 DEF CallStep
<1>2. PInv /\ [Next]_vars => [Stays]_vars
  BY <1>1
<1>3. QED
  BY PInvAlways, <1>2, PTL DEF Spec, DirectoriesStay
=============================================================================
