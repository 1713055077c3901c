--------------------------- MODULE StartupProofs ----------------------------
(***************************************************************************)
(* Proofs about MdtestStartup, for any set of requests: the closed form    *)
(* of mdtest_run counts the directories that are made, o.items counts the  *)
(* items that are worked on, stat and read find exactly these, and the     *)
(* shuffle of -R keeps rand_array a permutation of the item numbers,       *)
(* whatever rand() returns and however many items there are.               *)
(*                                                                         *)
(* The invariant of the shuffle bounds the loop variable by the length of  *)
(* the array, or the two places of an exchange might lie outside it, and   *)
(* follows o.items from the validation on, which is where its type comes   *)
(* from.  For the rest it is enough to know that the tests run with        *)
(* Prepared(raw) of an accepted request: TreeLemmas does the arithmetic.   *)
(***************************************************************************)
EXTENDS MdtestStartup, TreeLemmas

-----------------------------------------------------------------------------
(* The array of -R *)

Counted ==
  /\ step = "count" => Valid(raw)
  /\ step = "fill" \/ Ordering => o.items \in Nat
  /\ step = "shuffle" => n <= o.items

IInv == TypeOK /\ Counted /\ RandIsPermutation

\* An array of length m that holds each of 0 .. m - 1.
Permutation(a, m) ==
  /\ a \in [0 .. m - 1 -> 0 .. m - 1]
  /\ {a[s] : s \in DOMAIN a} = 0 .. m - 1

\* Exchanging two places of a permutation leaves a permutation.
LEMMA ExchangeKeepsPermutation ==
  ASSUME NEW m \in Nat, NEW a, Permutation(a, m),
         NEW p \in 0 .. m - 1, NEW q \in 0 .. m - 1
  PROVE  Permutation([a EXCEPT ![p] = a[q], ![q] = a[p]], m)
<1> DEFINE b == [a EXCEPT ![p] = a[q], ![q] = a[p]]
<1>1. a \in [0 .. m - 1 -> 0 .. m - 1] /\ DOMAIN a = 0 .. m - 1
  BY DEF Permutation
<1>2. b \in [0 .. m - 1 -> 0 .. m - 1] /\ DOMAIN b = 0 .. m - 1
  BY <1>1
<1>3. ASSUME NEW v \in 0 .. m - 1
      PROVE  \E s \in DOMAIN b : b[s] = v
  <2>1. PICK s \in 0 .. m - 1 : a[s] = v
    BY <1>1 DEF Permutation
  <2>2. CASE s = p
    <3>1. b[q] = v
      BY <1>1, <2>1, <2>2
    <3>2. QED
      BY <1>2, <3>1
  <2>3. CASE s = q
    <3>1. b[p] = v
      BY <1>1, <2>1, <2>3
    <3>2. QED
      BY <1>2, <3>1
  <2>4. CASE s # p /\ s # q
    <3>1. b[s] = v
      BY <1>1, <2>1, <2>4
    <3>2. QED
      BY <1>2, <3>1
  <2>5. QED
    BY <2>2, <2>3, <2>4
<1>4. \A s \in DOMAIN b : b[s] \in 0 .. m - 1
  BY <1>2
<1> HIDE DEF b
<1>5. {b[s] : s \in DOMAIN b} = 0 .. m - 1
  BY <1>3, <1>4
<1>6. Permutation(b, m)
  BY <1>2, <1>5 DEF Permutation
<1>7. QED
  BY <1>6 DEF b

LEMMA InitIInv == Init => IInv
  BY DEF Init, IInv, TypeOK, Counted, RandIsPermutation, Ordering

LEMMA NextIInv == IInv /\ [Next]_vars => IInv'
<1> SUFFICES ASSUME IInv, [Next]_vars
             PROVE  IInv'
  OBVIOUS
<1> USE DEF IInv
<1>1. CASE Validate
  <2>1. step = "validate" /\ step' \in {"count", "failed"} /\ UNCHANGED <<raw, rand, n>>
    BY <1>1 DEF Validate
  <2>2. step' = "count" => Valid(raw)
    BY <1>1 DEF Validate, Valid
  <2>3. QED
    BY <2>1, <2>2 DEF TypeOK, Counted, RandIsPermutation, Ordering, Valid
<1>2. CASE Count
  <2>1. /\ step = "count" /\ step' = IF raw.randomize THEN "fill" ELSE "ready"
        /\ o' = Prepared(raw) /\ UNCHANGED <<raw, rand, n>>
    BY <1>2 DEF Count
  <2>2. o'.items \in Nat
    <3>1. raw \in Options /\ Valid(raw)
      BY <2>1, RequestsAssumption DEF TypeOK, Counted
    <3>2. QED
      BY <2>1, <3>1, PreparedIs
  <2>3. ~Ordering'
    BY <2>1 DEF Ordering
  <2>4. QED
    BY <2>1, <2>2, <2>3 DEF TypeOK, Counted, RandIsPermutation
<1>3. CASE FillRandArray
  <2>1. /\ step = "fill" /\ step' = "shuffle" /\ UNCHANGED <<raw, o>>
        /\ rand' = [s \in 0 .. o.items - 1 |-> s] /\ n' = o.items
    BY <1>3 DEF FillRandArray
  <2>2. o.items \in Nat
    BY <2>1 DEF Counted
  <2>3. rand' \in [0 .. o.items - 1 -> 0 .. o.items - 1]
    BY <2>1
  <2>4. {rand'[s] : s \in DOMAIN rand'} = 0 .. o.items - 1
    BY <2>1
  <2>5. QED
    BY <2>1, <2>2, <2>3, <2>4 DEF TypeOK, Counted, RandIsPermutation, Ordering
<1>4. ASSUME NEW k \in 0 .. n, Swap(k)
      PROVE  IInv'
  <2>1. /\ step = "shuffle" /\ n > 1 /\ k \in 0 .. n - 1 /\ n' = n - 1
        /\ rand' = [rand EXCEPT ![k] = rand[n - 1], ![n - 1] = rand[k]]
        /\ UNCHANGED <<raw, o, step>>
    BY <1>4 DEF Swap
  <2>2. o.items \in Nat /\ n \in Nat /\ n <= o.items /\ Ordering
    BY <2>1 DEF TypeOK, Counted, Ordering
  <2>3. k \in 0 .. o.items - 1 /\ n - 1 \in 0 .. o.items - 1
    BY <2>1, <2>2
  <2>4. /\ rand' \in [0 .. o.items - 1 -> 0 .. o.items - 1]
        /\ {rand'[s] : s \in DOMAIN rand'} = 0 .. o.items - 1
    <3>1. Permutation(rand, o.items)
      BY <2>2 DEF TypeOK, RandIsPermutation, Permutation
    <3>2. Permutation([rand EXCEPT ![k] = rand[n - 1], ![n - 1] = rand[k]], o.items)
      BY <2>2, <2>3, <3>1, ExchangeKeepsPermutation
    <3>3. Permutation(rand', o.items)
      BY <2>1, <3>2
    <3>4. QED
      BY <3>3 DEF Permutation
  <2>5. n' \in Nat /\ n' <= o.items
    BY <2>1, <2>2
  <2>6. QED
    BY <2>1, <2>2, <2>4, <2>5 DEF TypeOK, Counted, RandIsPermutation, Ordering
<1>5. CASE Shuffled
  <2>1. /\ step = "shuffle" /\ step' = "ready" /\ UNCHANGED <<raw, o, rand, n>>
    BY <1>5 DEF Shuffled
  <2>2. QED
    BY <2>1 DEF TypeOK, Counted, RandIsPermutation, Ordering
<1>6. CASE UNCHANGED vars
  BY <1>6 DEF vars, TypeOK, Counted, RandIsPermutation, Ordering
<1>7. QED
  BY <1>1, <1>2, <1>3, <1>4, <1>5, <1>6 DEF Next, Started

LEMMA IInvAlways == Spec => []IInv
  BY InitIInv, NextIInv, PTL DEF Spec

\* The set-up keeps its type; in particular every entry of the array is the number of
\* an item there is.
THEOREM StartupTypeCorrect == Spec => []TypeOK
<1>1. IInv => TypeOK
  BY DEF IInv
<1>2. QED
  BY IInvAlways, <1>1, PTL

\* At every round of the shuffle, and when the tests start, rand_array holds every item
\* number, so that a stat or read phase under -R misses no item.
THEOREM ShuffleKeepsItems == Spec => []RandIsPermutation
<1>1. IInv => RandIsPermutation
  BY DEF IInv
<1>2. QED
  BY IInvAlways, <1>1, PTL

-----------------------------------------------------------------------------
\* What the tests run with has been derived from options that were accepted.
Derived ==
  /\ step \notin {"validate", "failed"} => Valid(raw)
  /\ step \in {"fill", "shuffle", "ready"} => o = Prepared(raw)

LInv == TypeOK /\ Derived

\* A request with both -n and -I is accepted only if the loops have nothing left over.
LEMMA LoopsDivide ==
  ASSUME NEW q \in Requests, Valid(q), Prepared(q).num_dirs_in_tree_calc # 0
  PROVE  Prepared(q).directory_loops * Prepared(q).items_per_dir = q.items
<1> DEFINE d == WithDefaults(q)
<1>0. q \in Options
  BY RequestsAssumption
<1>1. /\ d.items = q.items /\ d.items_per_dir = q.items_per_dir
      /\ q.items \in Nat /\ q.items_per_dir \in Nat
  <2>1. d.items = q.items /\ d.items_per_dir = q.items_per_dir
    BY <1>0, DefaultsKeep
  <2>2. QED
    BY <1>0, <2>1 DEF Options
<1>2. Accepted(d)
  BY DEF Valid
<1>3. /\ Prepared(q).num_dirs_in_tree_calc = CalcFactor(d)
      /\ Prepared(q).directory_loops = DirectoryLoops(d)
      /\ Prepared(q).items_per_dir = ItemsPerDir(d)
  BY <1>0, PreparedKeeps
<1> HIDE DEF d
<1>4. d.items > 0 /\ d.items_per_dir > 0
  BY <1>3 DEF CalcFactor
<1>5. ~d.unique_dir_per_task /\ d.items % d.items_per_dir = 0
  BY <1>2, <1>4 DEF Accepted
<1>6. DirectoryLoops(d) = d.items \div d.items_per_dir /\ ItemsPerDir(d) = d.items_per_dir
  BY <1>4, <1>5 DEF DirectoryLoops, ItemsPerDir
<1>7. (d.items \div d.items_per_dir) * d.items_per_dir = d.items
  <2> DEFINE k == d.items
             m == d.items_per_dir
  <2>1. k \in Nat /\ m \in Nat \ {0} /\ k % m = 0
    BY <1>1, <1>4, <1>5
  <2> HIDE DEF k, m
  <2>2. (k \div m) * m = k
    BY <2>1
  <2>3. QED
    BY <2>2 DEF k, m
<1>8. QED
  BY <1>1, <1>3, <1>6, <1>7

LEMMA InitLInv == Init => LInv
  BY InitIInv DEF Init, LInv, IInv, Derived

LEMMA NextLInv == IInv /\ LInv /\ [Next]_vars => LInv'
<1> SUFFICES ASSUME IInv, LInv, [Next]_vars
             PROVE  Derived'
  BY NextIInv DEF LInv, IInv
<1> USE DEF LInv, Derived
<1>1. CASE Validate
  BY <1>1 DEF Validate, Valid
<1>2. CASE Count
  <2>1. /\ step = "count" /\ o' = Prepared(raw) /\ raw' = raw
    BY <1>2 DEF Count
  <2>2. QED
    BY <2>1
<1>3. CASE FillRandArray
  BY <1>3 DEF FillRandArray
<1>4. ASSUME NEW k \in 0 .. n, Swap(k)
      PROVE  Derived'
  BY <1>4 DEF Swap
<1>5. CASE Shuffled
  BY <1>5 DEF Shuffled
<1>6. CASE UNCHANGED vars
  BY <1>6 DEF vars
<1>7. QED
  BY <1>1, <1>2, <1>3, <1>4, <1>5, <1>6 DEF Next, Started

\* When the tests start with both -n and -I, the loops over the directories add up to
\* the items asked for: md_validate_tests has refused every count that would not.
THEOREM LoopsAddUp == Spec => []LoopsCoverItems
<1>1. LInv => LoopsCoverItems
  <2> SUFFICES ASSUME LInv, step = "ready", o.num_dirs_in_tree_calc # 0
               PROVE  o.directory_loops * o.items_per_dir = raw.items
    BY DEF LoopsCoverItems
  <2>1. raw \in Requests /\ Valid(raw) /\ o = Prepared(raw)
    BY DEF LInv, Derived, TypeOK
  <2>2. QED
    BY <2>1, LoopsDivide
<1>2. QED
  BY InitIInv, NextIInv, InitLInv, NextLInv, <1>1, PTL DEF Spec

-----------------------------------------------------------------------------
(* Items made and items looked up *)

Ready == step = "ready" => raw \in Options /\ Valid(raw) /\ o = Prepared(raw)

LEMMA ReadyAlways == Spec => []Ready
<1>1. LInv => Ready
  BY RequestsAssumption DEF LInv, TypeOK, Derived, Ready
<1>2. QED
  BY InitIInv, NextIInv, InitLInv, NextLInv, <1>1, PTL DEF Spec

\* num_dirs_in_tree, a closed form, is the number of directories that the recursion of
\* create_remove_directory_tree makes, for every -z and -b.
THEOREM ClosedFormIsTree == Spec => []NumDirsIsTree
<1>1. Ready => NumDirsIsTree
  <2> SUFFICES ASSUME Ready, step = "ready"
               PROVE  NumDirs(o) = 1 + Len(TopDown(o))
    BY DEF NumDirsIsTree
  <2>1. IsTree(o)
    BY PreparedIs DEF Ready
  <2>2. Len(TopDown(o)) = LevelSizes(o.branch_factor, o.depth)
    BY <2>1, TopDownCovers DEF Covers
  <2>3. QED
    BY <2>1, <2>2, NumDirsIs
<1>2. QED
  BY ReadyAlways, <1>1, PTL

\* Every rate is computed from o.items: that is the number of items worked on, after all
\* the roundings of mdtest_run.
THEOREM ItemsAreDone == Spec => []ItemsIsWorkDone
<1>1. Ready => ItemsIsWorkDone
  <2> SUFFICES ASSUME Ready, Single
               PROVE  Len(WalkedItems(o)) = o.items
    BY DEF ItemsIsWorkDone
  <2>1. /\ IsTree(o) /\ o.items_per_dir \in Nat
        /\ o.items = (NumDirs(o) - FirstItemDir(o)) * o.items_per_dir
    BY PreparedIs DEF Ready, Single
  <2>2. ItemsOnce(o)
    BY <2>1, WalkedItemsAre
  <2>3. QED
    BY <2>1, <2>2 DEF ItemsOnce
<1>2. QED
  BY ReadyAlways, <1>1, PTL

\* The numbers the lookup loops run through are those of the items there are.
LEMMA NumbersLookedUp ==
  ASSUME NEW d, IsTree(d), d.items_per_dir \in Nat,
         d.items = (NumDirs(d) - FirstItemDir(d)) * d.items_per_dir
  PROVE  /\ d.items \in Nat /\ LeafOffset(d) \in Nat
         /\ ItemRange(d) = LeafOffset(d) .. LeafOffset(d) + d.items - 1
         /\ IsFiniteSet(ItemRange(d)) /\ Cardinality(ItemRange(d)) = d.items
<1> DEFINE N == NumDirs(d)
           first == FirstItemDir(d)
           I == d.items_per_dir
           off == LeafOffset(d)
           items == d.items
<1>1. N \in Nat \ {0} /\ first \in 0 .. N /\ I \in Nat
  BY PlacesAre, FirstItemDirIs
<1>2. off = IF d.leaf_only THEN I * (N - NumLeaves(d)) ELSE 0
  BY DEF LeafOffset
<1>3. first = IF d.leaf_only THEN N - NumLeaves(d) ELSE 0
  BY DEF FirstItemDir
<1>4. items = (N - first) * I
  OBVIOUS
<1>5. ItemRange(d) = first * I .. N * I - 1
  BY DEF ItemRange
<1> HIDE DEF N, first, I, off, items
<1>6. off = I * first
  <2>1. CASE d.leaf_only
    BY <1>2, <1>3, <2>1
  <2>2. CASE ~d.leaf_only
    <3>1. off = 0 /\ first = 0
      BY <1>2, <1>3, <2>2
    <3>2. QED
      BY <1>1, <3>1
  <2>3. QED
    BY <2>1, <2>2
<1>7. /\ I * first = first * I /\ I * first \in Nat
      /\ (N - first) * I = N * I - first * I /\ (N - first) * I \in Nat /\ N * I \in Nat
  <2>1. N - first \in Nat /\ first \in Nat
    BY <1>1
  <2>2. QED
    BY <1>1, <2>1
<1>8. off \in Nat /\ items \in Nat /\ ItemRange(d) = off .. off + items - 1
  <2> DEFINE a == first * I
             b == N * I
  <2>1. off = a /\ a \in Nat /\ b \in Nat /\ items = b - a /\ items \in Nat
    BY <1>4, <1>6, <1>7
  <2>2. ItemRange(d) = a .. b - 1
    BY <1>5
  <2> HIDE DEF a, b
  <2>3. a + items - 1 = b - 1
    BY <2>1
  <2>4. QED
    BY <2>1, <2>2, <2>3
<1>9. IsFiniteSet(ItemRange(d)) /\ Cardinality(ItemRange(d)) = items
  <2> DEFINE hi == off + items - 1
  <2>1. off \in Int /\ hi \in Int /\ (off > hi => items = 0) /\ hi - off + 1 = items
    BY <1>8
  <2> HIDE DEF hi
  <2>2. IsFiniteSet(off .. hi) /\ Cardinality(off .. hi) = IF off > hi THEN 0 ELSE hi - off + 1
    BY <2>1, FS_Interval
  <2>3. QED
    BY <1>8, <2>1, <2>2 DEF hi
<1>10. QED
  BY <1>8, <1>9 DEF items, off

\* Stat and read, which start from numbers and rebuild the paths, find exactly the items
\* that the walk has made, for every tree and with -L and -R; no item is looked up twice.
THEOREM LookUpFindsItems == Spec => []LookUpMatchesWalk
<1>1. Ready /\ TypeOK /\ RandIsPermutation => LookUpMatchesWalk
  <2> SUFFICES ASSUME Ready, TypeOK, RandIsPermutation, Single
               PROVE  LET walked == ToSet(WalkedItems(o))
                          looked == {LookedUp(i) : i \in 0 .. o.items - 1}
                      IN  looked = walked /\ Cardinality(looked) = o.items
    BY DEF LookUpMatchesWalk
  <2> DEFINE w == WalkedItems(o)
             off == LeafOffset(o)
             M == o.items
             R == ItemRange(o)
             Turn(i) == IF raw.randomize THEN rand[i] ELSE i
             item == [num \in R |-> ItemOf(o, num)]
             looked == {LookedUp(i) : i \in 0 .. M - 1}
  <2>1. /\ IsTree(o) /\ o.items_per_dir \in Nat
        /\ o.items = (NumDirs(o) - FirstItemDir(o)) * o.items_per_dir
    BY PreparedIs DEF Ready, Single
  <2>2. /\ M \in Nat /\ off \in Nat /\ R = off .. off + M - 1
        /\ IsFiniteSet(R) /\ Cardinality(R) = M
    BY <2>1, NumbersLookedUp
  <2>3. /\ DOMAIN w = 1 .. Len(w)
        /\ \A k \in 1 .. Len(w) : \E num \in R : w[k] = ItemOf(o, num)
        /\ \A num \in R : \E k \in 1 .. Len(w) : w[k] = ItemOf(o, num)
    <3>1. ItemsOnce(o)
      BY <2>1, WalkedItemsAre
    <3> HIDE DEF w, R
    <3>2. /\ w \in Seq(Seq(Nat) \X Nat)
          /\ \A k \in 1 .. Len(w) : \E num \in R : w[k] = ItemOf(o, num)
          /\ \A num \in R : \E k \in 1 .. Len(w) : w[k] = ItemOf(o, num)
      BY <3>1 DEF ItemsOnce, w, R
    <3> DEFINE T == Seq(Nat) \X Nat
    <3>3. w \in Seq(T)
      BY <3>2
    <3> HIDE DEF T
    <3>4. DOMAIN w = 1 .. Len(w)
      BY <3>3
    <3>5. QED
      BY <3>2, <3>4
  <2>4. \A i : LookedUp(i) = ItemOf(o, Turn(i) + off)
    BY DEF LookedUp, ItemOf
  <2>5. /\ \A i \in 0 .. M - 1 : Turn(i) \in 0 .. M - 1
        /\ \A m \in 0 .. M - 1 : \E i \in 0 .. M - 1 : Turn(i) = m
    <3>1. CASE raw.randomize
      <4>1. rand \in [0 .. M - 1 -> 0 .. M - 1] /\ {rand[s] : s \in DOMAIN rand} = 0 .. M - 1
        BY <3>1 DEF TypeOK, RandIsPermutation, Ordering, Single
      <4> HIDE DEF M
      <4>2. DOMAIN rand = 0 .. M - 1
        BY <4>1
      <4>3. QED
        BY <3>1, <4>1, <4>2
    <3>2. CASE ~raw.randomize
      BY <3>2
    <3>3. QED
      BY <3>1, <3>2
  <2> HIDE DEF w, off, M, R, Turn
  <2>6. ASSUME NEW i \in 0 .. M - 1
        PROVE  Turn(i) + off \in R
    <3> DEFINE m == Turn(i)
    <3>1. m \in 0 .. M - 1
      BY <2>5
    <3> HIDE DEF m
    <3>2. m + off \in R
      BY <2>2, <3>1
    <3>3. QED
      BY <3>2 DEF m
  <2>7. ASSUME NEW num \in R
        PROVE  \E i \in 0 .. M - 1 : Turn(i) + off = num
    <3>1. num - off \in 0 .. M - 1 /\ (num - off) + off = num
      BY <2>2
    <3>2. PICK i \in 0 .. M - 1 : Turn(i) = num - off
      BY <2>5, <3>1
    <3>3. QED
      BY <3>1, <3>2
  <2>8. looked = {ItemOf(o, num) : num \in R}
    <3>1. \A i \in 0 .. M - 1 : \E num \in R : LookedUp(i) = ItemOf(o, num)
      BY <2>4, <2>6
    <3>2. \A num \in R : \E i \in 0 .. M - 1 : LookedUp(i) = ItemOf(o, num)
      BY <2>4, <2>7
    <3>3. QED
      BY <3>1, <3>2
  <2>9. {w[k] : k \in DOMAIN w} = {ItemOf(o, num) : num \in R}
    BY <2>3
  <2>10. looked = ToSet(w)
    BY <2>8, <2>9 DEF ToSet
  <2>11. Cardinality(looked) = M
    <3>1. item \in [R -> looked] /\ \A x \in looked : \E num \in R : item[num] = x
      BY <2>8
    <3>2. ASSUME NEW x \in R, NEW y \in R, item[x] = item[y]
          PROVE  x = y
      <4>1. item[x] = ItemOf(o, x) /\ item[y] = ItemOf(o, y)
        OBVIOUS
      <4>2. ItemOf(o, x)[2] = x /\ ItemOf(o, y)[2] = y
        BY DEF ItemOf
      <4>3. QED
        BY <3>2, <4>1, <4>2
    <3> HIDE DEF item, looked
    <3>3. \A x \in R, y \in R : item[x] = item[y] => x = y
      BY <3>2
    <3>4. IsFiniteSet(R) /\ item \in [R -> looked] /\ \A x \in looked : \E num \in R : item[num] = x
      BY <2>2, <3>1
    <3>5. Cardinality(looked) = Cardinality(R)
      BY <3>3, <3>4, OntoOnce
    <3>6. QED
      BY <2>2, <3>5
  <2> HIDE DEF looked
  <2>12. QED
    BY <2>10, <2>11 DEF looked, w, M
<1>2. IInv => TypeOK /\ RandIsPermutation
  BY DEF IInv
<1>3. QED
  BY IInvAlways, ReadyAlways, <1>1, <1>2, PTL
=============================================================================
