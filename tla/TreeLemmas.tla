----------------------------- MODULE TreeLemmas ------------------------------
(***************************************************************************)
(* What the tree arithmetic of mdtest computes, for every -z, -b, -I and   *)
(* -L: how many directories and leaves there are, which places a walk      *)
(* reaches, which path is rebuilt from a directory's number, and which     *)
(* items are worked on.                                                    *)
(*                                                                         *)
(* The model defines powers, walks and rebuilt paths as tables filled      *)
(* entry by entry.  Each table is shown to exist and to be the only one,   *)
(* which turns the definition into equations (PowerIs, SizesAre,           *)
(* RebuiltIs), and these are what the inductions use.  LevelSizes, the     *)
(* size of the next h levels, links the two sides: the closed form of      *)
(* mdtest_run computes it, the walk is that long, and a rebuilt path has   *)
(* at most h steps exactly when its number is at most LevelSizes(b, h).    *)
(* A walk of that length that meets every number meets none twice.         *)
(***************************************************************************)
EXTENDS MdtestTree, CommonLemmas

-----------------------------------------------------------------------------
(* Powers, and the sizes of the levels *)

\* Two tables made by the same rule agree where both are defined.
SameRule(w, v, n) == w[0] = v[0] /\ \A h \in 1 .. n : w[h - 1] = v[h - 1] => w[h] = v[h]

LEMMA TablesAgree ==
  ASSUME NEW n \in Nat, NEW w, NEW v, SameRule(w, v, n)
  PROVE  w[n] = v[n]
<1> DEFINE N == {k \in Nat : k <= n => w[k] = v[k]}
<1>1. 0 \in N
  BY DEF SameRule
<1>2. ASSUME NEW k \in Nat, k \in N
      PROVE  k + 1 \in N
  <2> SUFFICES ASSUME k + 1 <= n
               PROVE  w[k + 1] = v[k + 1]
    OBVIOUS
  <2> DEFINE h == k + 1
  <2>1. h \in 1 .. n /\ h - 1 = k /\ k <= n
    OBVIOUS
  <2>2. w[k] = v[k]
    BY <1>2, <2>1
  <2> HIDE DEF h
  <2>3. w[h] = v[h]
    BY <2>1, <2>2 DEF SameRule
  <2>4. QED
    BY <2>3 DEF h
<1>3. \A k \in Nat : k \in N
  <2> HIDE DEF N
  <2>1. QED
    BY <1>1, <1>2, NatSetInduction
<1>4. QED
  BY <1>3

PowerTable(b, w, n) == w = [i \in 0 .. n |-> IF i = 0 THEN 1 ELSE b * w[i - 1]]

LEMMA PowerTableExists ==
  ASSUME NEW b \in Nat, NEW n \in Nat
  PROVE  \E w \in [0 .. n -> Nat] : PowerTable(b, w, n)
<1> DEFINE step == [x \in Nat \X Nat |-> b * x[2]]
<1>1. step \in [Nat \X Nat -> Nat]
  OBVIOUS
<1>2. \A h \in Nat, k \in Nat : step[<<h, k>>] = b * k
  OBVIOUS
<1>3. PICK w \in [0 .. n -> Nat] :
        w[0] = 1 /\ \A h \in 1 .. n : w[h] = step[<<h, w[h - 1]>>]
  <2> DEFINE base == 1
  <2>1. base \in Nat
    OBVIOUS
  <2> HIDE DEF step, base
  <2>2. \E w \in [0 .. n -> Nat] : Stepwise(w, base, step, n)
    BY <1>1, <2>1, Recursion
  <2>3. QED
    BY <2>2 DEF base, Stepwise
<1> HIDE DEF step
<1>4. \A h \in 1 .. n : w[h] = b * w[h - 1]
  <2>1. \A h \in 1 .. n : h \in Nat /\ w[h - 1] \in Nat
    OBVIOUS
  <2>2. QED
    BY <1>2, <1>3, <2>1
<1>5. w = [i \in 0 .. n |-> IF i = 0 THEN 1 ELSE b * w[i - 1]]
  <2>1. ASSUME NEW i \in 0 .. n
        PROVE  w[i] = IF i = 0 THEN 1 ELSE b * w[i - 1]
    BY <1>3, <1>4
  <2>2. w = [i \in 0 .. n |-> w[i]]
    OBVIOUS
  <2>3. QED
    BY <2>1, <2>2
<1>6. QED
  BY <1>5 DEF PowerTable

LEMMA PowerAtTable ==
  ASSUME NEW b \in Nat, NEW n \in Nat, NEW D \in Nat, n <= D, NEW w, PowerTable(b, w, D)
  PROVE  Power(b, n) = w[n]
<1> DEFINE v == CHOOSE u : PowerTable(b, u, n)
<1>1. Power(b, n) = v[n]
  BY DEF Power, PowerTable
<1>2. PowerTable(b, v, n)
  BY PowerTableExists
<1> HIDE DEF v
<1>3. w[0] = 1 /\ \A h \in 1 .. D : w[h] = b * w[h - 1]
  BY DEF PowerTable
<1>4. v[0] = 1 /\ \A h \in 1 .. n : v[h] = b * v[h - 1]
  BY <1>2 DEF PowerTable
<1>5. SameRule(w, v, n)
  BY <1>3, <1>4 DEF SameRule
<1>6. w[n] = v[n]
  BY <1>5, TablesAgree
<1>7. QED
  BY <1>1, <1>6

\* What pow computes.
LEMMA PowerIs ==
  ASSUME NEW b \in Nat, NEW n \in Nat
  PROVE  /\ Power(b, 0) = 1 /\ Power(b, n) \in Nat
         /\ Power(b, n + 1) = b * Power(b, n)
<1> DEFINE D == n + 1
<1>1. D \in Nat /\ n <= D /\ 0 <= D /\ 0 \in Nat /\ n \in 0 .. D /\ 0 \in 0 .. D
  OBVIOUS
<1> HIDE DEF D
<1>2. PICK w \in [0 .. D -> Nat] : PowerTable(b, w, D)
  BY <1>1, PowerTableExists
<1>3. w[0] = 1 /\ w[D] = b * w[n] /\ w[n] \in Nat
  BY <1>1, <1>2 DEF PowerTable, D
<1>4. Power(b, 0) = w[0] /\ Power(b, n) = w[n] /\ Power(b, D) = w[D]
  <2>1. D <= D
    BY <1>1
  <2>2. QED
    BY <1>1, <1>2, <2>1, PowerAtTable
<1>5. QED
  BY <1>3, <1>4 DEF D

\* The directories of the h levels below one directory, level by level.
LevelSizes(b, h) ==
  LET g[i \in 0 .. h] == IF i = 0 THEN 0 ELSE b * (1 + g[i - 1])
  IN  g[h]

SizeTable(b, w, n) == w = [i \in 0 .. n |-> IF i = 0 THEN 0 ELSE b * (1 + w[i - 1])]

LEMMA SizeTableExists ==
  ASSUME NEW b \in Nat, NEW n \in Nat
  PROVE  \E w \in [0 .. n -> Nat] : SizeTable(b, w, n)
<1> DEFINE step == [x \in Nat \X Nat |-> b * (1 + x[2])]
<1>1. step \in [Nat \X Nat -> Nat]
  OBVIOUS
<1>2. \A h \in Nat, k \in Nat : step[<<h, k>>] = b * (1 + k)
  OBVIOUS
<1>3. PICK w \in [0 .. n -> Nat] :
        w[0] = 0 /\ \A h \in 1 .. n : w[h] = step[<<h, w[h - 1]>>]
  <2> DEFINE base == 0
  <2>1. base \in Nat
    OBVIOUS
  <2> HIDE DEF step, base
  <2>2. \E w \in [0 .. n -> Nat] : Stepwise(w, base, step, n)
    BY <1>1, <2>1, Recursion
  <2>3. QED
    BY <2>2 DEF base, Stepwise
<1> HIDE DEF step
<1>4. \A h \in 1 .. n : w[h] = b * (1 + w[h - 1])
  <2>1. \A h \in 1 .. n : h \in Nat /\ w[h - 1] \in Nat
    OBVIOUS
  <2>2. QED
    BY <1>2, <1>3, <2>1
<1>5. w = [i \in 0 .. n |-> IF i = 0 THEN 0 ELSE b * (1 + w[i - 1])]
  <2>1. ASSUME NEW i \in 0 .. n
        PROVE  w[i] = IF i = 0 THEN 0 ELSE b * (1 + w[i - 1])
    BY <1>3, <1>4
  <2>2. w = [i \in 0 .. n |-> w[i]]
    OBVIOUS
  <2>3. QED
    BY <2>1, <2>2
<1>6. QED
  BY <1>5 DEF SizeTable

LEMMA SizeAtTable ==
  ASSUME NEW b \in Nat, NEW n \in Nat, NEW D \in Nat, n <= D, NEW w, SizeTable(b, w, D)
  PROVE  LevelSizes(b, n) = w[n]
<1> DEFINE v == CHOOSE u : SizeTable(b, u, n)
<1>1. LevelSizes(b, n) = v[n]
  BY DEF LevelSizes, SizeTable
<1>2. SizeTable(b, v, n)
  BY SizeTableExists
<1> HIDE DEF v
<1>3. w[0] = 0 /\ \A h \in 1 .. D : w[h] = b * (1 + w[h - 1])
  BY DEF SizeTable
<1>4. v[0] = 0 /\ \A h \in 1 .. n : v[h] = b * (1 + v[h - 1])
  BY <1>2 DEF SizeTable
<1>5. SameRule(w, v, n)
  BY <1>3, <1>4 DEF SameRule
<1>6. w[n] = v[n]
  BY <1>5, TablesAgree
<1>7. QED
  BY <1>1, <1>6

LEMMA SizesAre ==
  ASSUME NEW b \in Nat, NEW n \in Nat
  PROVE  /\ LevelSizes(b, 0) = 0 /\ LevelSizes(b, n) \in Nat
         /\ LevelSizes(b, n + 1) = b * (1 + LevelSizes(b, n))
<1> DEFINE D == n + 1
<1>1. D \in Nat /\ n <= D /\ 0 <= D /\ 0 \in Nat /\ n \in 0 .. D /\ 0 \in 0 .. D
  OBVIOUS
<1> HIDE DEF D
<1>2. PICK w \in [0 .. D -> Nat] : SizeTable(b, w, D)
  BY <1>1, SizeTableExists
<1>3. w[0] = 0 /\ w[D] = b * (1 + w[n]) /\ w[n] \in Nat
  BY <1>1, <1>2 DEF SizeTable, D
<1>4. LevelSizes(b, 0) = w[0] /\ LevelSizes(b, n) = w[n] /\ LevelSizes(b, D) = w[D]
  <2>1. D <= D
    BY <1>1
  <2>2. QED
    BY <1>1, <1>2, <2>1, SizeAtTable
<1>5. QED
  BY <1>3, <1>4 DEF D

-----------------------------------------------------------------------------
(* The closed forms of mdtest_run *)

\* The sum of the levels in closed form.
LEMMA ClosedForm ==
  ASSUME NEW b \in Nat
  PROVE  \A n \in Nat : (b - 1) * (1 + LevelSizes(b, n)) = Power(b, n + 1) - 1
<1> DEFINE N == {n \in Nat : (b - 1) * (1 + LevelSizes(b, n)) = Power(b, n + 1) - 1}
<1>1. 0 \in N
  <2>1. LevelSizes(b, 0) = 0 /\ Power(b, 0 + 1) = b * Power(b, 0) /\ Power(b, 0) = 1
    BY PowerIs, SizesAre
  <2>2. QED
    BY <2>1
<1>2. ASSUME NEW n \in Nat, n \in N
      PROVE  n + 1 \in N
  <2> DEFINE m == n + 1
             G == LevelSizes(b, n)
             P == Power(b, m)
  <2>1. m \in Nat /\ P \in Nat /\ G \in Nat
    BY PowerIs, SizesAre
  <2>2. LevelSizes(b, m) = b * (1 + G) /\ Power(b, m + 1) = b * P
    BY <2>1, PowerIs, SizesAre
  <2>3. (b - 1) * (1 + G) = P - 1
    BY <1>2
  <2> HIDE DEF m, G, P
  <2>4. (b - 1) * (1 + b * (1 + G)) = (b - 1) + b * ((b - 1) * (1 + G))
    BY <2>1
  <2>5. (b - 1) + b * (P - 1) = b * P - 1
    BY <2>1
  <2>6. (b - 1) * (1 + LevelSizes(b, m)) = Power(b, m + 1) - 1
    BY <2>2, <2>3, <2>4, <2>5
  <2>7. QED
    BY <2>1, <2>6 DEF m
<1>3. \A n \in Nat : n \in N
  <2> HIDE DEF N
  <2>1. QED
    BY <1>1, <1>2, NatSetInduction
<1>4. QED
  BY <1>3

\* The deepest level.
LEMMA LastLevel ==
  ASSUME NEW b \in Nat
  PROVE  \A n \in Nat : LevelSizes(b, n + 1) - LevelSizes(b, n) = Power(b, n + 1)
<1> DEFINE N == {n \in Nat : LevelSizes(b, n + 1) - LevelSizes(b, n) = Power(b, n + 1)}
<1>1. 0 \in N
  <2>1. /\ LevelSizes(b, 0) = 0 /\ LevelSizes(b, 0 + 1) = b * (1 + LevelSizes(b, 0))
        /\ Power(b, 0 + 1) = b * Power(b, 0) /\ Power(b, 0) = 1
    BY PowerIs, SizesAre
  <2>2. QED
    BY <2>1
<1>2. ASSUME NEW n \in Nat, n \in N
      PROVE  n + 1 \in N
  <2> DEFINE m == n + 1
             G == LevelSizes(b, n)
             H == LevelSizes(b, m)
             P == Power(b, m)
  <2>0. m \in Nat
    OBVIOUS
  <2> HIDE DEF m
  <2>1. m \in Nat /\ P \in Nat /\ G \in Nat /\ H \in Nat
    BY <2>0, PowerIs, SizesAre
  <2>2. H = b * (1 + G) /\ LevelSizes(b, m + 1) = b * (1 + H) /\ Power(b, m + 1) = b * P
    BY <2>1, PowerIs, SizesAre DEF m
  <2>3. H - G = P
    BY <1>2 DEF m
  <2> HIDE DEF m, G, P, H
  <2>4. b * (1 + H) - b * (1 + G) = b * (H - G)
    BY <2>1
  <2>5. LevelSizes(b, m + 1) - H = Power(b, m + 1)
    BY <2>2, <2>3, <2>4
  <2>6. QED
    BY <2>1, <2>5 DEF m, H
<1>3. \A n \in Nat : n \in N
  <2> HIDE DEF N
  <2>1. QED
    BY <1>1, <1>2, NatSetInduction
<1>4. QED
  BY <1>3

\* With one directory per directory, a level for each.
LEMMA OneEach == \A n \in Nat : LevelSizes(1, n) = n
<1> DEFINE N == {n \in Nat : LevelSizes(1, n) = n}
<1>1. 0 \in N
  BY SizesAre
<1>2. ASSUME NEW n \in Nat, n \in N
      PROVE  n + 1 \in N
  <2>1. LevelSizes(1, n + 1) = 1 * (1 + LevelSizes(1, n))
    BY SizesAre
  <2>2. QED
    BY <1>2, <2>1
<1>3. \A n \in Nat : n \in N
  <2> HIDE DEF N
  <2>1. QED
    BY <1>1, <1>2, NatSetInduction
<1>4. QED
  BY <1>3

\* What the checks of md_validate_tests leave of -z and -b.
IsTree(o) ==
  o.depth \in Nat /\ o.branch_factor \in Nat /\ (o.depth # 0 => o.branch_factor # 0)

\* num_dirs_in_tree is the number of directories of the tree and its root.
LEMMA NumDirsIs ==
  ASSUME NEW o, IsTree(o)
  PROVE  NumDirs(o) = 1 + LevelSizes(o.branch_factor, o.depth)
<1> DEFINE b == o.branch_factor
           D == o.depth
           G == LevelSizes(b, D)
           P == Power(b, D + 1)
<1>1. b \in Nat /\ D \in Nat /\ (D # 0 => b # 0)
  BY DEF IsTree
<1>2. NumDirs(o) = IF D <= 0 \/ b < 1 THEN 1 ELSE IF b = 1 THEN D + 1 ELSE (P - 1) \div (b - 1)
  BY DEF NumDirs
<1> HIDE DEF b, D
<1>3. CASE D = 0
  <2>1. G = 0
    BY <1>1, <1>3, SizesAre
  <2>2. NumDirs(o) = 1
    BY <1>2, <1>3
  <2>3. QED
    BY <2>1, <2>2 DEF b, D
<1>4. CASE D # 0 /\ b = 1
  <2>1. G = D
    BY <1>1, <1>4, OneEach
  <2>2. NumDirs(o) = D + 1
    BY <1>1, <1>2, <1>4
  <2>3. QED
    BY <1>1, <2>1, <2>2 DEF b, D
<1>5. CASE D # 0 /\ b > 1
  <2>1. G \in Nat /\ P - 1 = (b - 1) * (1 + G)
    BY <1>1, SizesAre, ClosedForm
  <2>2. NumDirs(o) = (P - 1) \div (b - 1)
    BY <1>1, <1>2, <1>5
  <2> DEFINE c == b - 1
             s == 1 + G
  <2>3. c \in Nat \ {0} /\ s \in Nat
    BY <1>1, <1>5, <2>1
  <2> HIDE DEF c, s, G, P
  <2>4. (c * s) \div c = s
    BY <2>3
  <2>5. NumDirs(o) = s
    BY <2>1, <2>2, <2>4 DEF c, s
  <2>6. QED
    BY <2>5 DEF s, G, b, D
<1>6. QED
  BY <1>1, <1>3, <1>4, <1>5

\* The directories of the deepest level come last.
LEMMA NumLeavesIs ==
  ASSUME NEW o, IsTree(o)
  PROVE  /\ NumLeaves(o) \in Nat
         /\ o.depth = 0 => NumLeaves(o) = 1 /\ NumDirs(o) = 1
         /\ o.depth # 0 =>
              NumDirs(o) - NumLeaves(o) = 1 + LevelSizes(o.branch_factor, o.depth - 1)
<1> DEFINE b == o.branch_factor
           D == o.depth
<1>1. b \in Nat /\ D \in Nat
  BY DEF IsTree
<1>2. NumLeaves(o) = Power(b, D) /\ NumDirs(o) = 1 + LevelSizes(b, D)
  BY NumDirsIs DEF NumLeaves
<1> HIDE DEF b, D
<1>3. Power(b, D) \in Nat /\ LevelSizes(b, D) \in Nat
  BY <1>1, PowerIs, SizesAre
<1>4. CASE D = 0
  <2>1. Power(b, D) = 1 /\ LevelSizes(b, D) = 0
    BY <1>1, <1>4, PowerIs, SizesAre
  <2>2. QED
    BY <1>2, <1>4, <2>1 DEF D
<1>5. CASE D # 0
  <2> DEFINE n == D - 1
  <2>1. n \in Nat /\ n + 1 = D
    BY <1>1, <1>5
  <2> HIDE DEF n
  <2>2. LevelSizes(b, n) \in Nat /\ LevelSizes(b, n + 1) - LevelSizes(b, n) = Power(b, n + 1)
    BY <1>1, <2>1, SizesAre, LastLevel
  <2>3. NumDirs(o) - NumLeaves(o) = 1 + LevelSizes(b, n)
    BY <1>2, <1>3, <2>1, <2>2
  <2>4. QED
    BY <1>2, <1>3, <1>5, <2>3 DEF n, b, D
<1>6. QED
  BY <1>4, <1>5

\* A tree has leaves, and one when no directory has more than one below it.
LEMMA PowerPositive ==
  ASSUME NEW b \in Nat \ {0}
  PROVE  \A n \in Nat : Power(b, n) \in Nat \ {0}
<1> DEFINE N == {n \in Nat : Power(b, n) \in Nat \ {0}}
<1>1. 0 \in N
  BY PowerIs
<1>2. ASSUME NEW n \in Nat, n \in N
      PROVE  n + 1 \in N
  <2> DEFINE P == Power(b, n)
  <2>1. Power(b, n + 1) = b * P /\ P \in Nat /\ P # 0
    BY <1>2, PowerIs
  <2> HIDE DEF P
  <2>2. b * P \in Nat \ {0}
    BY <2>1
  <2>3. QED
    BY <2>1, <2>2
<1>3. \A n \in Nat : n \in N
  <2> HIDE DEF N
  <2>1. QED
    BY <1>1, <1>2, NatSetInduction
<1>4. QED
  BY <1>3

LEMMA LeavesArePositive ==
  ASSUME NEW o, IsTree(o)
  PROVE  NumLeaves(o) \in Nat \ {0} /\ (o.branch_factor <= 1 => NumLeaves(o) = 1)
<1> DEFINE b == o.branch_factor
           D == o.depth
<1>1. b \in Nat /\ D \in Nat /\ (D # 0 => b # 0)
  BY DEF IsTree
<1>2. NumLeaves(o) = Power(b, D)
  BY DEF NumLeaves
<1> HIDE DEF b, D
<1>3. CASE D = 0
  <2>1. Power(b, D) = 1
    BY <1>1, <1>3, PowerIs
  <2>2. QED
    BY <1>2, <2>1
<1>4. CASE D # 0
  <2>1. b \in Nat \ {0}
    BY <1>1, <1>4
  <2>2. Power(b, D) \in Nat \ {0}
    BY <1>1, <2>1, PowerPositive
  <2>3. b = 1 => Power(b, D) = 1
    <3> SUFFICES ASSUME b = 1
                 PROVE  Power(b, D) = 1
      OBVIOUS
    <3> DEFINE n == D - 1
    <3>1. n \in Nat /\ n + 1 = D
      BY <1>1, <1>4
    <3> HIDE DEF n
    <3>2. LevelSizes(b, n + 1) - LevelSizes(b, n) = Power(b, n + 1)
      BY <1>1, <3>1, LastLevel
    <3>3. LevelSizes(b, n + 1) = n + 1 /\ LevelSizes(b, n) = n
      BY <3>1, OneEach
    <3>4. QED
      BY <3>1, <3>2, <3>3
  <2>4. QED
    BY <1>2, <2>1, <2>2, <2>3 DEF b
<1>5. QED
  BY <1>3, <1>4

-----------------------------------------------------------------------------
(* The path rebuilt from a number *)

\* The paths that stat and read rebuild, for the directories 0 .. n.
PathStep(b, u, d) ==
  IF d = 0 THEN <<>> ELSE IF d <= b THEN <<d>> ELSE Append(u[(d - 1) \div b], d)

PathTable(b, u, n) == u = [i \in 0 .. n |-> PathStep(b, u, i)]

\* Following (d - 1) / b leads upwards.
LEMMA ParentIsAbove ==
  ASSUME NEW b \in Nat \ {0}, NEW d \in Nat, d > b
  PROVE  /\ (d - 1) \div b \in 1 .. d - 1
         /\ d \in b * ((d - 1) \div b) + 1 .. b * ((d - 1) \div b) + b
<1> DEFINE x == d - 1
           m == x \div b
           k == x % b
<1>1. m \in Int /\ k \in 0 .. b - 1 /\ x = b * m + k
  <2>1. x \in Int
    OBVIOUS
  <2> HIDE DEF x
  <2>2. QED
    BY <2>1, Division
<1> HIDE DEF m, k
<1>2. m > 0
  <2> SUFFICES ASSUME m <= 0
               PROVE  FALSE
    BY <1>1
  <2>1. m * b <= 0 * b
    BY <1>1, TimesMonotone
  <2>2. d - 1 <= b - 1
    BY <1>1, <2>1
  <2>3. QED
    BY <2>2
<1>3. b * m >= m
  <2>1. 1 * m <= b * m
    BY <1>1, <1>2, TimesMonotone
  <2>2. QED
    BY <1>1, <2>1
<1>4. QED
  BY <1>1, <1>2, <1>3 DEF m

LEMMA PathTableExists ==
  ASSUME NEW b \in Nat \ {0}
  PROVE  \A n \in Nat : \E u \in [0 .. n -> Seq(Nat)] : PathTable(b, u, n)
<1> DEFINE N == {n \in Nat : \E u \in [0 .. n -> Seq(Nat)] : PathTable(b, u, n)}
<1>1. 0 \in N
  <2> DEFINE u == [d \in 0 .. 0 |-> <<>>]
  <2>1. u \in [0 .. 0 -> Seq(Nat)] /\ u = [d \in 0 .. 0 |-> u[d]]
    OBVIOUS
  <2>2. \A d \in 0 .. 0 : d = 0 /\ u[d] = <<>>
    OBVIOUS
  <2> HIDE DEF u
  <2>3. \A d \in 0 .. 0 : u[d] = PathStep(b, u, d)
    BY <2>2 DEF PathStep
  <2>4. PathTable(b, u, 0)
    BY <2>1, <2>3 DEF PathTable
  <2>5. QED
    BY <2>1, <2>4
<1>2. ASSUME NEW n \in Nat, n \in N
      PROVE  n + 1 \in N
  <2>1. PICK u \in [0 .. n -> Seq(Nat)] : PathTable(b, u, n)
    BY <1>2
  <2> DEFINE m == n + 1
             new == PathStep(b, u, m)
             v == [d \in 0 .. m |-> IF d = m THEN new ELSE u[d]]
  <2>2. m \in Nat \ {0} /\ \A d \in 0 .. m : d # m => d \in 0 .. n
    OBVIOUS
  <2>3. \A d \in 0 .. n : d \in 0 .. m /\ d # m
    OBVIOUS
  <2>4. \A d \in 0 .. m : d > b => (d - 1) \div b \in 0 .. n
    <3>1. ASSUME NEW d \in 0 .. m, d > b
          PROVE  (d - 1) \div b \in 0 .. n
      <4>1. d \in Nat /\ d - 1 <= n
        OBVIOUS
      <4>2. (d - 1) \div b \in 1 .. d - 1
        BY <3>1, <4>1, ParentIsAbove
      <4>3. QED
        BY <4>1, <4>2
    <3>2. QED
      BY <3>1
  <2> HIDE DEF m
  <2>5. new \in Seq(Nat)
    <3>1. CASE m > b
      <4> DEFINE a == u[(m - 1) \div b]
      <4>1. m \in 0 .. m
        BY <2>2
      <4>2. a \in Seq(Nat)
        BY <2>4, <3>1, <4>1
      <4>3. new = Append(a, m)
        BY <2>2, <3>1 DEF PathStep
      <4> HIDE DEF a
      <4>4. QED
        BY <2>2, <4>2, <4>3
    <3>2. CASE ~(m > b)
      <4>1. new = <<m>>
        BY <2>2, <3>2 DEF PathStep
      <4>2. QED
        BY <2>2, <4>1
    <3>3. QED
      BY <3>1, <3>2
  <2> HIDE DEF new
  <2>6. v \in [0 .. m -> Seq(Nat)]
    BY <2>2, <2>5
  <2>7. \A d \in 0 .. n : v[d] = u[d]
    BY <2>3
  <2>8. v[m] = new
    BY <2>2
  <2>9. v = [d \in 0 .. m |-> v[d]]
    OBVIOUS
  <2> HIDE DEF v
  <2>10. ASSUME NEW d \in 0 .. m
         PROVE  PathStep(b, v, d) = PathStep(b, u, d)
    <3>1. d > b => v[(d - 1) \div b] = u[(d - 1) \div b]
      BY <2>4, <2>7
    <3>2. d \in Nat
      BY <2>2
    <3>3. QED
      BY <3>1, <3>2 DEF PathStep
  <2>11. ASSUME NEW d \in 0 .. m
         PROVE  v[d] = PathStep(b, v, d)
    <3>1. CASE d = m
      BY <2>8, <2>10, <3>1 DEF new
    <3>2. CASE d # m
      <4>1. d \in 0 .. n
        BY <2>2, <3>2
      <4>2. u[d] = PathStep(b, u, d)
        BY <2>1, <4>1 DEF PathTable
      <4>3. QED
        BY <2>7, <2>10, <4>1, <4>2
    <3>3. QED
      BY <3>1, <3>2
  <2>12. PathTable(b, v, m)
    BY <2>9, <2>11 DEF PathTable
  <2>13. QED
    BY <2>2, <2>6, <2>12 DEF m
<1>3. \A n \in Nat : n \in N
  <2> HIDE DEF N
  <2>1. QED
    BY <1>1, <1>2, NatSetInduction
<1>4. QED
  BY <1>3

LEMMA PathAtTable ==
  ASSUME NEW o, o.branch_factor \in Nat \ {0}, NEW D \in Nat, NEW u,
         PathTable(o.branch_factor, u, D), NEW n \in 0 .. D
  PROVE  Rebuilt(o, n) = u[n]
<1> DEFINE b == o.branch_factor
           v == CHOOSE f : PathTable(b, f, n)
<1>0. b \in Nat \ {0} /\ n \in Nat
  OBVIOUS
<1>1. Rebuilt(o, n) = v[n]
  BY DEF Rebuilt, PathTable, PathStep
<1>2. PathTable(b, v, n) /\ PathTable(b, u, D)
  <2> HIDE DEF b
  <2>1. \E f : PathTable(b, f, n)
    BY <1>0, PathTableExists
  <2>2. QED
    BY <2>1 DEF b
<1> HIDE DEF b, v
<1> DEFINE S == {d \in Nat : d <= n => u[d] = v[d]}
<1>3. ASSUME NEW d \in Nat, \A m \in 0 .. d - 1 : m \in S
      PROVE  d \in S
  <2> SUFFICES ASSUME d <= n
               PROVE  u[d] = v[d]
    OBVIOUS
  <2>1. d \in 0 .. n /\ d \in 0 .. D
    BY <1>0
  <2>2. v[d] = PathStep(b, v, d) /\ u[d] = PathStep(b, u, d)
    BY <1>2, <2>1 DEF PathTable
  <2>3. d > b => u[(d - 1) \div b] = v[(d - 1) \div b]
    <3> SUFFICES ASSUME d > b
                 PROVE  u[(d - 1) \div b] = v[(d - 1) \div b]
      OBVIOUS
    <3>1. (d - 1) \div b \in 1 .. d - 1
      BY <1>0, ParentIsAbove
    <3> DEFINE m == (d - 1) \div b
    <3>2. m \in 0 .. d - 1 /\ m <= n
      BY <2>1, <3>1
    <3> HIDE DEF m
    <3>3. u[m] = v[m]
      BY <1>3, <3>2
    <3>4. QED
      BY <3>3 DEF m
  <2>4. QED
    BY <1>0, <2>2, <2>3 DEF PathStep
<1>4. \A d \in Nat : d \in S
  <2> HIDE DEF S
  <2>1. QED
    BY <1>3, StrongInduction
<1>5. QED
  BY <1>0, <1>1, <1>4

\* What mdtest_stat and mdtest_read rebuild.
LEMMA RebuiltIs ==
  ASSUME NEW o, o.branch_factor \in Nat \ {0}, NEW d \in Nat
  PROVE  /\ Rebuilt(o, d) \in Seq(Nat)
         /\ d = 0 => Rebuilt(o, d) = <<>>
         /\ d # 0 /\ d <= o.branch_factor => Rebuilt(o, d) = <<d>>
         /\ d > o.branch_factor =>
              Rebuilt(o, d) = Append(Rebuilt(o, (d - 1) \div o.branch_factor), d)
<1> DEFINE b == o.branch_factor
<1>0. b \in Nat \ {0}
  OBVIOUS
<1>1. PICK u \in [0 .. d -> Seq(Nat)] : PathTable(b, u, d)
  <2> HIDE DEF b
  <2>1. QED
    BY <1>0, PathTableExists
<1>2. ASSUME NEW n \in 0 .. d
      PROVE  Rebuilt(o, n) = u[n]
  <2>1. PathTable(o.branch_factor, u, d) /\ o.branch_factor \in Nat \ {0}
    BY <1>1
  <2> HIDE DEF b
  <2>2. QED
    BY <2>1, PathAtTable
<1> HIDE DEF b
<1>3. d \in 0 .. d /\ u[d] = PathStep(b, u, d)
  <2>1. d \in 0 .. d
    OBVIOUS
  <2>2. u = [i \in 0 .. d |-> PathStep(b, u, i)]
    BY <1>1 DEF PathTable
  <2>3. QED
    BY <2>1, <2>2
<1>4. d > b => (d - 1) \div b \in 0 .. d
  <2> SUFFICES ASSUME d > b
               PROVE  (d - 1) \div b \in 0 .. d
    OBVIOUS
  <2>1. (d - 1) \div b \in 1 .. d - 1
    BY <1>0, ParentIsAbove
  <2>2. QED
    BY <2>1
<1> DEFINE m == (d - 1) \div b
<1>5. PathStep(b, u, d) = IF d = 0 THEN <<>> ELSE IF d <= b THEN <<d>> ELSE Append(u[m], d)
  BY DEF PathStep
<1> HIDE DEF m
<1>6. Rebuilt(o, d) = PathStep(b, u, d) /\ Rebuilt(o, d) \in Seq(Nat)
  BY <1>1, <1>2, <1>3
<1>7. d > b => Rebuilt(o, m) = u[m]
  BY <1>2, <1>4 DEF m
<1>8. /\ d = 0 => Rebuilt(o, d) = <<>>
      /\ d # 0 /\ d <= b => Rebuilt(o, d) = <<d>>
      /\ d > b => Rebuilt(o, d) = Append(Rebuilt(o, m), d)
  <2>1. d > b => d # 0 /\ ~(d <= b)
    BY <1>0
  <2>2. QED
    BY <1>5, <1>6, <1>7, <2>1, Zenon
<1>9. QED
  BY <1>6, <1>8 DEF m, b

-----------------------------------------------------------------------------
(* Places as chains of directories *)

\* A place below directory d: each of its directories is a child of the one before.
Child(b, d, x) == x \in Nat /\ b * d + 1 <= x /\ x <= b * d + b

Chain(b, d, p) ==
  /\ p \in Seq(Nat) /\ Len(p) # 0
  /\ Child(b, d, p[1])
  /\ \A i \in 1 .. Len(p) : i + 1 <= Len(p) => Child(b, p[i], p[i + 1])

LEMMA ChainOne ==
  ASSUME NEW b, NEW d, NEW x, Child(b, d, x)
  PROVE  Chain(b, d, <<x>>) /\ Len(<<x>>) = 1
<1> DEFINE p == <<x>>
<1>1. x \in Nat
  BY DEF Child
<1>2. p \in Seq(Nat) /\ Len(p) = 1 /\ p[1] = x
  BY <1>1
<1> HIDE DEF p
<1>3. Chain(b, d, p)
  BY <1>2 DEF Chain
<1>4. QED
  BY <1>2, <1>3 DEF p

LEMMA ChainAhead ==
  ASSUME NEW b, NEW d, NEW x, Child(b, d, x), NEW q, Chain(b, x, q)
  PROVE  Chain(b, d, <<x>> \o q) /\ Len(<<x>> \o q) = Len(q) + 1
<1> DEFINE p == <<x>> \o q
<1>1. x \in Nat /\ q \in Seq(Nat) /\ Len(q) \in Nat
  BY DEF Child, Chain
<1>2. p \in Seq(Nat) /\ Len(p) = Len(q) + 1 /\ p[1] = x
  BY <1>1
<1>3. \A i \in 1 .. Len(q) : p[i + 1] = q[i]
  BY <1>1
<1> HIDE DEF p
<1>4. ASSUME NEW i \in 1 .. Len(p), i + 1 <= Len(p)
      PROVE  Child(b, p[i], p[i + 1])
  <2>1. CASE i = 1
    <3>1. p[i + 1] = q[1] /\ p[i] = x
      BY <1>1, <1>2, <1>3, <1>4, <2>1
    <3>2. QED
      BY <3>1 DEF Chain
  <2>2. CASE i # 1
    <3> DEFINE k == i - 1
    <3>1. k \in 1 .. Len(q) /\ k + 1 \in 1 .. Len(q) /\ k + 1 = i
      BY <1>1, <1>2, <1>4, <2>2
    <3> HIDE DEF k
    <3>2. p[k + 1] = q[k] /\ p[(k + 1) + 1] = q[k + 1]
      BY <1>3, <3>1
    <3>3. Child(b, q[k], q[k + 1])
      BY <1>1, <3>1 DEF Chain
    <3>4. QED
      BY <3>1, <3>2, <3>3
  <2>3. QED
    BY <2>1, <2>2
<1>5. Chain(b, d, p)
  BY <1>1, <1>2, <1>4 DEF Chain
<1>6. QED
  BY <1>2, <1>5 DEF p

LEMMA ChainRest ==
  ASSUME NEW b, NEW d, NEW p, Chain(b, d, p), Len(p) # 1
  PROVE  /\ Child(b, d, p[1]) /\ Chain(b, p[1], Tail(p))
         /\ p = <<p[1]>> \o Tail(p) /\ Len(Tail(p)) = Len(p) - 1
<1> DEFINE q == Tail(p)
           x == p[1]
<1>0. p \in Seq(Nat) /\ Len(p) # 0
  BY DEF Chain
<1>1. p \in Seq(Nat) /\ Len(p) \in Nat /\ Len(p) > 1 /\ p # <<>>
  <2>1. Len(p) \in Nat
    BY <1>0
  <2>2. Len(p) > 1
    <3> DEFINE n == Len(p)
    <3>1. n \in Nat /\ n # 0 /\ n # 1
      BY <1>0, <2>1
    <3> HIDE DEF n
    <3>2. n > 1
      BY <3>1
    <3>3. QED
      BY <3>2 DEF n
  <2>3. p = <<>> => Len(p) = 0
    OBVIOUS
  <2>4. QED
    BY <1>0, <2>1, <2>2, <2>3
<1>2. q \in Seq(Nat) /\ Len(q) = Len(p) - 1 /\ x \in Nat
  BY <1>1
<1>3. \A i \in 1 .. Len(q) : q[i] = p[i + 1]
  BY <1>1
<1>4. p = <<x>> \o q
  BY <1>1
<1> HIDE DEF q
<1>5. Child(b, x, q[1])
  <2>1. 1 \in 1 .. Len(p) /\ 1 + 1 <= Len(p) /\ 1 \in 1 .. Len(q)
    BY <1>1, <1>2
  <2>2. QED
    BY <1>3, <2>1 DEF Chain
<1>6. ASSUME NEW i \in 1 .. Len(q), i + 1 <= Len(q)
      PROVE  Child(b, q[i], q[i + 1])
  <2> DEFINE k == i + 1
  <2>1. k \in 1 .. Len(p) /\ k + 1 <= Len(p) /\ k \in 1 .. Len(q)
    BY <1>1, <1>2, <1>6
  <2>2. q[i] = p[k]
    BY <1>3
  <2> HIDE DEF k
  <2>3. q[k] = p[k + 1] /\ Child(b, p[k], p[k + 1])
    BY <1>3, <2>1 DEF Chain
  <2>4. QED
    BY <2>2, <2>3 DEF k
<1>7. Chain(b, x, q)
  BY <1>1, <1>2, <1>5, <1>6 DEF Chain
<1>8. QED
  BY <1>2, <1>4, <1>7 DEF Chain, q

LEMMA ChainOn ==
  ASSUME NEW b, NEW d, NEW q, Chain(b, d, q), NEW x, Child(b, q[Len(q)], x)
  PROVE  Chain(b, d, Append(q, x)) /\ Len(Append(q, x)) = Len(q) + 1
<1> DEFINE p == Append(q, x)
<1>1. x \in Nat /\ q \in Seq(Nat) /\ Len(q) \in Nat \ {0}
  BY DEF Child, Chain
<1>2. p \in Seq(Nat) /\ Len(p) = Len(q) + 1 /\ p[Len(p)] = x
  BY <1>1
<1>3. \A i \in 1 .. Len(q) : p[i] = q[i]
  BY <1>1
<1> HIDE DEF p
<1>4. p[1] = q[1]
  BY <1>1, <1>3
<1>5. ASSUME NEW i \in 1 .. Len(p), i + 1 <= Len(p)
      PROVE  Child(b, p[i], p[i + 1])
  <2>1. CASE i = Len(q)
    <3>1. p[i] = q[Len(q)] /\ p[i + 1] = x
      BY <1>1, <1>2, <1>3, <2>1
    <3>2. QED
      BY <3>1
  <2>2. CASE i # Len(q)
    <3>1. i \in 1 .. Len(q) /\ i + 1 \in 1 .. Len(q) /\ i + 1 <= Len(q)
      BY <1>1, <1>2, <1>5, <2>2
    <3>2. p[i] = q[i] /\ p[i + 1] = q[i + 1]
      BY <1>3, <3>1
    <3>3. QED
      BY <3>1, <3>2 DEF Chain
  <2>3. QED
    BY <2>1, <2>2
<1>6. Chain(b, d, p)
  BY <1>1, <1>2, <1>4, <1>5 DEF Chain
<1>7. QED
  BY <1>2, <1>6 DEF p

LEMMA ChainShorter ==
  ASSUME NEW b, NEW d, NEW p, Chain(b, d, p), Len(p) # 1
  PROVE  \E q : /\ Chain(b, d, q) /\ Len(q) = Len(p) - 1
                /\ Child(b, q[Len(q)], p[Len(p)]) /\ p = Append(q, p[Len(p)])
<1> DEFINE L == Len(p) - 1
           q == [i \in 1 .. L |-> p[i]]
<1>1. p \in Seq(Nat) /\ Len(p) \in Nat /\ L \in Nat \ {0} /\ Len(p) = L + 1
  BY DEF Chain
<1>2. q \in Seq(Nat) /\ Len(q) = L
  <2> HIDE DEF L
  <2>1. \A i \in 1 .. L : p[i] \in Nat
    BY <1>1
  <2>2. QED
    BY <1>1, <2>1
<1>3. \A i \in 1 .. L : q[i] = p[i]
  OBVIOUS
<1> HIDE DEF q, L
<1>4. p = Append(q, p[Len(p)])
  BY <1>1, <1>2, <1>3
<1>5. Child(b, q[L], p[Len(p)])
  BY <1>1, <1>3 DEF Chain
<1>6. ASSUME NEW i \in 1 .. Len(q), i + 1 <= Len(q)
      PROVE  Child(b, q[i], q[i + 1])
  <2>1. i \in 1 .. L /\ i + 1 \in 1 .. L /\ i \in 1 .. Len(p) /\ i + 1 <= Len(p)
    BY <1>1, <1>2, <1>6
  <2>2. q[i] = p[i] /\ q[i + 1] = p[i + 1] /\ Child(b, p[i], p[i + 1])
    BY <1>3, <2>1 DEF Chain
  <2>3. QED
    BY <2>2
<1>7. Chain(b, d, q)
  BY <1>1, <1>2, <1>3, <1>6 DEF Chain
<1>8. QED
  BY <1>1, <1>2, <1>4, <1>5, <1>7

-----------------------------------------------------------------------------
(* Numbers and places *)

\* A quotient and a remainder put together and taken apart.
LEMMA QuotientIs ==
  ASSUME NEW b \in Nat \ {0}, NEW m \in Nat, NEW k \in 0 .. b - 1
  PROVE  (b * m + k) \div b = m
<1> DEFINE y == b * m + k
           q == y \div b
           r == y % b
<1>0. b * m \in Nat /\ m \in Int
  OBVIOUS
<1>1. y \in Int
  OBVIOUS
<1>2. q \in Int /\ r \in 0 .. b - 1 /\ y = b * q + r
  <2> HIDE DEF y
  <2>1. QED
    BY <1>1, Division
<1> HIDE DEF q, r
<1>3. b * q + r = b * m + k
  BY <1>2
<1>4. r = k
  BY <1>0, <1>2, <1>3, RemainderUnique
<1>5. b * q = b * m
  BY <1>0, <1>2, <1>3, <1>4
<1>6. q = m
  <2>1. CASE q + 1 <= m
    <3>1. (q + 1) * b <= m * b
      BY <1>2, <2>1, TimesMonotone
    <3>2. (q + 1) * b = b * q + b /\ m * b = b * m
      BY <1>2
    <3>3. QED
      BY <1>2, <1>5, <3>1, <3>2
  <2>2. CASE m + 1 <= q
    <3>1. (m + 1) * b <= q * b
      BY <1>2, <2>2, TimesMonotone
    <3>2. (m + 1) * b = b * m + b /\ q * b = b * q
      BY <1>2
    <3>3. QED
      BY <1>0, <1>5, <3>1, <3>2
  <2>3. QED
    BY <1>2, <2>1, <2>2
<1>7. QED
  BY <1>6 DEF q, y

\* The parent of a directory is the only one it is a child of.
LEMMA ParentIs ==
  ASSUME NEW b \in Nat \ {0}, NEW m \in Nat, NEW x, Child(b, m, x)
  PROVE  /\ x \in Nat \ {0} /\ (x - 1) \div b = m
         /\ m = 0 <=> x <= b
<1> DEFINE k == x - (b * m + 1)
<1>1. x \in Nat /\ b * m + 1 <= x /\ x <= b * m + b /\ b * m \in Nat
  BY DEF Child
<1>2. k \in 0 .. b - 1 /\ x - 1 = b * m + k
  BY <1>1
<1> HIDE DEF k
<1>3. (b * m + k) \div b = m
  BY <1>2, QuotientIs
<1>4. m = 0 => x <= b
  BY <1>1
<1>5. m # 0 => x > b
  <2> SUFFICES ASSUME m # 0
               PROVE  x > b
    OBVIOUS
  <2>1. 1 * b <= m * b
    BY TimesMonotone
  <2>2. m * b = b * m
    OBVIOUS
  <2>3. QED
    BY <1>1, <2>1, <2>2
<1>6. QED
  BY <1>1, <1>2, <1>3, <1>4, <1>5

LEMMA ParentOf ==
  ASSUME NEW b \in Nat \ {0}, NEW x \in Nat \ {0}
  PROVE  /\ x <= b => Child(b, 0, x)
         /\ x > b => Child(b, (x - 1) \div b, x)
<1>1. x <= b => Child(b, 0, x)
  BY DEF Child
<1>2. x > b => Child(b, (x - 1) \div b, x)
  <2> SUFFICES ASSUME x > b
               PROVE  Child(b, (x - 1) \div b, x)
    OBVIOUS
  <2> DEFINE m == (x - 1) \div b
  <2>1. m \in 1 .. x - 1 /\ x \in b * m + 1 .. b * m + b
    BY ParentIsAbove
  <2> HIDE DEF m
  <2>2. Child(b, m, x)
    BY <2>1 DEF Child
  <2>3. QED
    BY <2>2 DEF m
<1>3. QED
  BY <1>1, <1>2

\* The sizes of the levels only grow, and a directory is in the first h + 1 levels
\* exactly when its parent is in the first h.
LEMMA LevelOfChild ==
  ASSUME NEW b \in Nat \ {0}, NEW m \in Nat, NEW x, Child(b, m, x), NEW h \in Nat
  PROVE  x <= LevelSizes(b, h + 1) <=> m <= LevelSizes(b, h)
<1> DEFINE G == LevelSizes(b, h)
<1>1. G \in Nat /\ LevelSizes(b, h + 1) = b * (1 + G)
  BY SizesAre
<1>2. x \in Nat /\ b * m + 1 <= x /\ x <= b * m + b
  BY DEF Child
<1> HIDE DEF G
<1>3. b * (1 + G) = b * G + b /\ b * G \in Nat /\ b * m \in Nat
  BY <1>1
<1>4. m <= G => b * m <= b * G
  <2> SUFFICES ASSUME m <= G
               PROVE  b * m <= b * G
    OBVIOUS
  <2>1. m * b <= G * b
    BY <1>1, TimesMonotone
  <2>2. QED
    BY <1>1, <2>1
<1>5. G < m => b * G + b <= b * m
  <2> SUFFICES ASSUME G + 1 <= m
               PROVE  b * G + b <= b * m
    BY <1>1
  <2>1. (G + 1) * b <= m * b
    BY <1>1, TimesMonotone
  <2>2. (G + 1) * b = b * G + b /\ m * b = b * m
    BY <1>1
  <2>3. QED
    BY <2>1, <2>2
<1>6. x <= b * (1 + G) <=> m <= G
  BY <1>1, <1>2, <1>3, <1>4, <1>5
<1>7. QED
  BY <1>1, <1>6 DEF G

\* A rebuilt path leads from the root to its directory, over as many levels as the
\* directory's number says.
IsPlace(o, d) ==
  LET p == Rebuilt(o, d)
  IN  /\ Chain(o.branch_factor, 0, p) /\ p[Len(p)] = d
      /\ \A h \in Nat : Len(p) <= h <=> d <= LevelSizes(o.branch_factor, h)

LEMMA RebuiltIsPlace ==
  ASSUME NEW o, o.branch_factor \in Nat \ {0}
  PROVE  \A d \in Nat \ {0} : IsPlace(o, d)
<1> DEFINE b == o.branch_factor
           S == {d \in Nat : d # 0 => IsPlace(o, d)}
<1>0. b \in Nat \ {0}
  OBVIOUS
<1>1. ASSUME NEW d \in Nat, \A m \in 0 .. d - 1 : m \in S
      PROVE  d \in S
  <2> SUFFICES ASSUME d # 0
               PROVE  IsPlace(o, d)
    OBVIOUS
  <2> DEFINE p == Rebuilt(o, d)
  <2>1. \A h \in Nat : h # 0 => h - 1 \in Nat /\ (h - 1) + 1 = h
    OBVIOUS
  <2>2. CASE d <= b
    <3>1. p = <<d>>
      BY <2>2, RebuiltIs
    <3>2. Child(b, 0, d)
      <4> HIDE DEF b
      <4>1. QED
        BY <1>0, <2>2, ParentOf
    <3>3. Chain(b, 0, p) /\ Len(p) = 1 /\ p[Len(p)] = d
      <4>1. Chain(b, 0, <<d>>) /\ Len(<<d>>) = 1 /\ <<d>>[1] = d
        BY <3>2, ChainOne
      <4>2. QED
        BY <3>1, <4>1
    <3> HIDE DEF p, b
    <3>4. ASSUME NEW h \in Nat
          PROVE  Len(p) <= h <=> d <= LevelSizes(b, h)
      <4>1. CASE h = 0
        <5>1. LevelSizes(b, h) = 0
          BY <1>0, <4>1, SizesAre
        <5>2. QED
          BY <3>3, <4>1, <5>1
      <4>2. CASE h # 0
        <5> DEFINE g == h - 1
        <5>1. g \in Nat /\ g + 1 = h
          BY <4>2
        <5> HIDE DEF g
        <5>2. LevelSizes(b, g) \in Nat
          BY <1>0, <5>1, SizesAre
        <5>3. 0 \in Nat
          OBVIOUS
        <5>4. d <= LevelSizes(b, g + 1) <=> 0 <= LevelSizes(b, g)
          BY <1>0, <3>2, <5>1, <5>3, LevelOfChild
        <5>5. QED
          BY <3>3, <4>2, <5>1, <5>2, <5>4
      <4>3. QED
        BY <4>1, <4>2
    <3>5. QED
      BY <3>3, <3>4 DEF IsPlace, p, b
  <2>3. CASE d > b
    <3> DEFINE m == (d - 1) \div b
               q == Rebuilt(o, m)
    <3>1. m \in 1 .. d - 1 /\ Child(b, m, d)
      <4> HIDE DEF b
      <4>1. m \in 1 .. d - 1
        BY <1>0, <2>3, ParentIsAbove
      <4>2. Child(b, m, d)
        BY <1>0, <2>3, ParentOf
      <4>3. QED
        BY <4>1, <4>2
    <3>2. p = Append(q, d)
      BY <2>3, RebuiltIs
    <3>3. IsPlace(o, m)
      <4> HIDE DEF m
      <4>1. m \in 0 .. d - 1 /\ m # 0
        BY <3>1
      <4>2. QED
        BY <1>1, <4>1
    <3>4. /\ Chain(b, 0, q) /\ q[Len(q)] = m
          /\ \A h \in Nat : Len(q) <= h <=> m <= LevelSizes(b, h)
      <4> HIDE DEF m
      <4>1. QED
        BY <3>3 DEF IsPlace
    <3> HIDE DEF p, b, q, m
    <3>5. Chain(b, 0, p) /\ Len(p) = Len(q) + 1
      BY <3>1, <3>2, <3>4, ChainOn
    <3>6. q \in Seq(Nat) /\ Len(q) \in Nat \ {0} /\ p[Len(p)] = d
      BY <3>2, <3>4 DEF Chain
    <3>7. ASSUME NEW h \in Nat
          PROVE  Len(p) <= h <=> d <= LevelSizes(b, h)
      <4>1. CASE h = 0
        <5>1. LevelSizes(b, h) = 0
          BY <1>0, <4>1, SizesAre
        <5>2. QED
          BY <3>5, <3>6, <4>1, <5>1
      <4>2. CASE h # 0
        <5> DEFINE g == h - 1
        <5>1. g \in Nat /\ g + 1 = h
          BY <4>2
        <5> HIDE DEF g
        <5>2. m \in Nat
          BY <3>1
        <5>3. d <= LevelSizes(b, g + 1) <=> m <= LevelSizes(b, g)
          BY <1>0, <3>1, <5>1, <5>2, LevelOfChild
        <5>4. Len(q) <= g <=> m <= LevelSizes(b, g)
          BY <3>4, <5>1
        <5>5. Len(p) <= h <=> Len(q) <= g
          BY <3>5, <3>6, <5>1
        <5>6. QED
          BY <5>1, <5>3, <5>4, <5>5
      <4>3. QED
        BY <4>1, <4>2
    <3>8. QED
      BY <3>5, <3>6, <3>7 DEF IsPlace, p, b
  <2>4. QED
    BY <1>0, <2>2, <2>3
<1>2. \A d \in Nat : d \in S
  <2> HIDE DEF S
  <2>1. QED
    BY <1>1, StrongInduction
<1>3. QED
  BY <1>2

\* Every path from the root is the one rebuilt from its last directory.
LEMMA ChainIsRebuilt ==
  ASSUME NEW o, o.branch_factor \in Nat \ {0}, NEW p, Chain(o.branch_factor, 0, p)
  PROVE  p[Len(p)] \in Nat \ {0} /\ Rebuilt(o, p[Len(p)]) = p
<1> DEFINE b == o.branch_factor
           Good(q) == q[Len(q)] \in Nat \ {0} /\ Rebuilt(o, q[Len(q)]) = q
           S == {n \in Nat : \A q : Chain(b, 0, q) /\ Len(q) = n + 1 => Good(q)}
<1>0. b \in Nat \ {0}
  OBVIOUS
<1>1. 0 \in S
  <2> SUFFICES ASSUME NEW q, Chain(b, 0, q), Len(q) = 0 + 1
               PROVE  Good(q)
    OBVIOUS
  <2> DEFINE x == q[1]
  <2>1. q \in Seq(Nat) /\ Len(q) = 1 /\ Child(b, 0, x)
    BY DEF Chain
  <2>2. q = <<x>>
    BY <2>1
  <2> HIDE DEF x, b
  <2>3. x \in Nat \ {0} /\ x <= b
    BY <1>0, <2>1, ParentIs
  <2>4. Rebuilt(o, x) = <<x>>
    BY <1>0, <2>3, RebuiltIs DEF b
  <2>5. QED
    BY <2>1, <2>2, <2>3, <2>4 DEF x
<1>2. ASSUME NEW n \in Nat, n \in S
      PROVE  n + 1 \in S
  <2> SUFFICES ASSUME NEW q, Chain(b, 0, q), Len(q) = (n + 1) + 1
               PROVE  Good(q)
    OBVIOUS
  <2> DEFINE x == q[Len(q)]
  <2> HIDE DEF b
  <2>1. PICK f : /\ Chain(b, 0, f) /\ Len(f) = Len(q) - 1
                 /\ Child(b, f[Len(f)], x) /\ q = Append(f, x)
    <3>1. Len(q) # 1
      OBVIOUS
    <3>2. QED
      BY <3>1, ChainShorter
  <2> DEFINE m == f[Len(f)]
  <2>2. m \in Nat \ {0} /\ Rebuilt(o, m) = f
    <3>1. Len(f) = n + 1
      BY <2>1
    <3>2. QED
      BY <1>2, <2>1, <3>1
  <2> HIDE DEF m, x
  <2>3. Child(b, m, x) /\ m \in Nat
    BY <2>1, <2>2 DEF m
  <2>4. x \in Nat \ {0} /\ (x - 1) \div b = m /\ ~(x <= b)
    <3>1. x \in Nat \ {0} /\ (x - 1) \div b = m /\ (m = 0 <=> x <= b)
      BY <1>0, <2>3, ParentIs
    <3>2. QED
      BY <2>2, <3>1
  <2>5. Rebuilt(o, x) = Append(Rebuilt(o, (x - 1) \div b), x)
    <3>1. x \in Nat /\ x > b
      BY <1>0, <2>4
    <3>2. QED
      BY <1>0, <3>1, RebuiltIs DEF b
  <2>6. Rebuilt(o, x) = q
    BY <2>1, <2>2, <2>4, <2>5
  <2>7. QED
    BY <2>4, <2>6 DEF x
<1>3. \A n \in Nat : n \in S
  <2> HIDE DEF S
  <2>1. QED
    BY <1>1, <1>2, NatSetInduction
<1> DEFINE n == Len(p) - 1
<1>4. n \in Nat /\ Len(p) = n + 1
  BY DEF Chain
<1>5. Chain(b, 0, p)
  OBVIOUS
<1> HIDE DEF n, b
<1>6. Good(p)
  BY <1>3, <1>4, <1>5
<1>7. QED
  BY <1>6

-----------------------------------------------------------------------------
(* The walk down *)

\* One piece ahead of a sequence.
LEMMA AheadIs ==
  ASSUME NEW T, NEW x \in T, NEW s \in Seq(T)
  PROVE  /\ <<x>> \o s \in Seq(T) /\ Len(<<x>> \o s) = 1 + Len(s)
         /\ (<<x>> \o s)[1] = x /\ \A k \in 1 .. Len(s) : (<<x>> \o s)[k + 1] = s[k]
  OBVIOUS

\* The pieces of one type are a sequence.
LEMMA PiecesOf ==
  ASSUME NEW T, NEW n \in Nat, NEW f \in [1 .. n -> T]
  PROVE  f \in Seq(T) /\ Len(f) = n
  OBVIOUS

\* The walk below the directories first .. first + b - 1, when u walks the levels below.
TopPieces(b, u, first) ==
  [i \in 1 .. b |-> LET dir == first + i - 1
                    IN  << <<dir>> >> \o Below(dir, u[b * dir + 1])]

TopTable(b, w, D) ==
  w = [h \in 0 .. D |->
        [first \in Nat |-> IF h = 0 THEN <<>> ELSE FlattenSeq(TopPieces(b, w[h - 1], first))]]

Walks == [Nat -> Seq(Seq(Nat))]

LEMMA BelowIs ==
  ASSUME NEW dir \in Nat, NEW s \in Seq(Seq(Nat))
  PROVE  /\ Below(dir, s) \in Seq(Seq(Nat)) /\ Len(Below(dir, s)) = Len(s)
         /\ \A k \in 1 .. Len(s) : Below(dir, s)[k] = <<dir>> \o s[k]
<1>1. Len(s) \in Nat /\ DOMAIN s = 1 .. Len(s) /\ \A k \in 1 .. Len(s) : s[k] \in Seq(Nat)
  OBVIOUS
<1>2. <<dir>> \in Seq(Nat)
  OBVIOUS
<1>3. \A k \in 1 .. Len(s) : <<dir>> \o s[k] \in Seq(Nat)
  BY <1>1, <1>2, Joined
<1>4. Below(dir, s) = [k \in 1 .. Len(s) |-> <<dir>> \o s[k]]
  BY <1>1 DEF Below
<1> DEFINE F(k) == <<dir>> \o s[k]
<1>5. Below(dir, s) = [k \in 1 .. Len(s) |-> F(k)] /\ \A k \in 1 .. Len(s) : F(k) \in Seq(Nat)
  BY <1>3, <1>4
<1> HIDE DEF F
<1>6. /\ Below(dir, s) \in Seq(Seq(Nat)) /\ Len(Below(dir, s)) = Len(s)
      /\ \A k \in 1 .. Len(s) : Below(dir, s)[k] = F(k)
  BY <1>1, <1>5
<1>7. QED
  BY <1>6 DEF F

LEMMA TopPiecesAre ==
  ASSUME NEW b \in Nat, NEW u \in Walks, NEW first \in Nat
  PROVE  LET s == TopPieces(b, u, first)
         IN  /\ s \in Seq(Seq(Seq(Nat))) /\ Len(s) = b
             /\ \A i \in 1 .. b :
                  LET dir == first + i - 1
                      v   == u[b * dir + 1]
                  IN  /\ dir \in Nat /\ v \in Seq(Seq(Nat)) /\ Len(s[i]) = 1 + Len(v)
                      /\ s[i][1] = <<dir>>
                      /\ \A k \in 1 .. Len(v) : s[i][k + 1] = <<dir>> \o v[k]
<1> DEFINE Dir(i) == first + i - 1
           V(i) == u[b * Dir(i) + 1]
           P(i) == << <<Dir(i)>> >> \o Below(Dir(i), V(i))
           s == TopPieces(b, u, first)
<1>1. ASSUME NEW i \in 1 .. b
      PROVE  /\ Dir(i) \in Nat /\ V(i) \in Seq(Seq(Nat))
             /\ P(i) \in Seq(Seq(Nat)) /\ Len(P(i)) = 1 + Len(V(i))
             /\ P(i)[1] = <<Dir(i)>>
             /\ \A k \in 1 .. Len(V(i)) : P(i)[k + 1] = <<Dir(i)>> \o V(i)[k]
  <2> DEFINE dir == Dir(i)
             v == V(i)
             rest == Below(dir, v)
             one == << <<dir>> >>
             p == P(i)
  <2>1. dir \in Nat
    OBVIOUS
  <2>2. v \in Seq(Seq(Nat))
    <3>1. b * dir + 1 \in Nat
      BY <2>1
    <3>2. QED
      BY <3>1 DEF Walks
  <2>3. p = one \o rest
    OBVIOUS
  <2> HIDE DEF dir, v, p
  <2>4. /\ rest \in Seq(Seq(Nat)) /\ Len(rest) = Len(v)
        /\ \A k \in 1 .. Len(v) : rest[k] = <<dir>> \o v[k]
    BY <2>1, <2>2, BelowIs
  <2>5. one \in Seq(Seq(Nat)) /\ Len(one) = 1 /\ one[1] = <<dir>>
    BY <2>1
  <2> HIDE DEF one, rest
  <2>6. rest \in Seq(Seq(Nat)) /\ Len(rest) \in Nat
    BY <2>4
  <2>7. p \in Seq(Seq(Nat))
    BY <2>3, <2>5, <2>6, Joined
  <2>8. /\ Len(p) = 1 + Len(rest) /\ p[1] = <<dir>>
        /\ \A k \in 1 .. Len(rest) : p[k + 1] = rest[k]
    <3> DEFINE T == Seq(Nat)
               x == <<dir>>
    <3>1. x \in T /\ rest \in Seq(T) /\ p = <<x>> \o rest
      BY <2>1, <2>3, <2>6 DEF one
    <3> HIDE DEF T, x
    <3>2. /\ Len(<<x>> \o rest) = 1 + Len(rest) /\ (<<x>> \o rest)[1] = x
          /\ \A k \in 1 .. Len(rest) : (<<x>> \o rest)[k + 1] = rest[k]
      BY <3>1, AheadIs
    <3>3. QED
      BY <3>1, <3>2 DEF x
  <2>9. Len(p) = 1 + Len(v) /\ \A k \in 1 .. Len(v) : p[k + 1] = <<dir>> \o v[k]
    BY <2>4, <2>8
  <2>10. QED
    BY <2>1, <2>2, <2>7, <2>8, <2>9 DEF dir, v, p
<1>2. s = [i \in 1 .. b |-> P(i)]
  BY DEF TopPieces
<1> HIDE DEF P, V, Dir, s
<1>3. s \in Seq(Seq(Seq(Nat))) /\ Len(s) = b /\ \A i \in 1 .. b : s[i] = P(i)
  <2> DEFINE T == Seq(Seq(Nat))
  <2>1. \A i \in 1 .. b : P(i) \in T
    BY <1>1
  <2> HIDE DEF T
  <2>2. s \in [1 .. b -> T] /\ \A i \in 1 .. b : s[i] = P(i)
    BY <1>2, <2>1
  <2>3. s \in Seq(T) /\ Len(s) = b
    BY <2>2, PiecesOf
  <2>4. QED
    BY <2>2, <2>3 DEF T
<1>4. ASSUME NEW i \in 1 .. b
      PROVE  /\ Dir(i) \in Nat /\ V(i) \in Seq(Seq(Nat)) /\ Len(s[i]) = 1 + Len(V(i))
             /\ s[i][1] = <<Dir(i)>>
             /\ \A k \in 1 .. Len(V(i)) : s[i][k + 1] = <<Dir(i)>> \o V(i)[k]
  BY <1>1, <1>3
<1>5. QED
  BY <1>3, <1>4 DEF V, Dir, s

LEMMA TopTableExists ==
  ASSUME NEW b \in Nat, NEW n \in Nat
  PROVE  \E w \in [0 .. n -> Walks] : TopTable(b, w, n)
<1> DEFINE Next1(u) == [first \in Nat |-> FlattenSeq(TopPieces(b, u, first))]
           base == [first \in Nat |-> <<>>]
           step == [x \in Nat \X Walks |-> Next1(x[2])]
<1>1. ASSUME NEW u \in Walks
      PROVE  Next1(u) \in Walks
  <2>1. ASSUME NEW first \in Nat
        PROVE  FlattenSeq(TopPieces(b, u, first)) \in Seq(Seq(Nat))
    <3> DEFINE s == TopPieces(b, u, first)
    <3>1. s \in Seq(Seq(Seq(Nat)))
      BY TopPiecesAre
    <3> HIDE DEF s
    <3>2. FlattenSeq(s) \in Seq(Seq(Nat))
      BY <3>1, FlattenCopies
    <3>3. QED
      BY <3>2 DEF s
  <2>2. QED
    BY <2>1 DEF Walks
<1>2. base \in Walks
  BY DEF Walks
<1> HIDE DEF Next1
<1>3. step \in [Nat \X Walks -> Walks] /\ \A h \in Nat, u \in Walks : step[<<h, u>>] = Next1(u)
  BY <1>1
<1> HIDE DEF step, base
<1>4. PICK w \in [0 .. n -> Walks] : Stepwise(w, base, step, n)
  BY <1>2, <1>3, Recursion
<1>5. \A h \in 1 .. n : w[h] = Next1(w[h - 1])
  <2>1. \A h \in 1 .. n : h \in Nat /\ w[h - 1] \in Walks
    OBVIOUS
  <2>2. QED
    BY <1>3, <1>4, <2>1 DEF Stepwise
<1>6. w[0] = base
  BY <1>4 DEF Stepwise
<1> DEFINE Row(h) == [first \in Nat |->
                        IF h = 0 THEN <<>> ELSE FlattenSeq(TopPieces(b, w[h - 1], first))]
<1>7. ASSUME NEW h \in 0 .. n
      PROVE  w[h] = Row(h)
  <2>1. CASE h = 0
    BY <1>6, <2>1 DEF base
  <2>2. CASE h # 0
    <3>1. w[h] = Next1(w[h - 1])
      BY <1>5, <2>2
    <3>2. QED
      BY <2>2, <3>1 DEF Next1
  <2>3. QED
    BY <2>1, <2>2
<1>8. w = [h \in 0 .. n |-> Row(h)]
  <2>1. w = [h \in 0 .. n |-> w[h]]
    OBVIOUS
  <2> HIDE DEF Row
  <2>2. QED
    BY <1>7, <2>1
<1>9. QED
  BY <1>8 DEF TopTable

\* The walk is complete: these are all the places in the next h levels below d.
Covers(b, d, s, h) ==
  /\ s \in Seq(Seq(Nat)) /\ Len(s) = LevelSizes(b, h)
  /\ \A k \in 1 .. Len(s) : Chain(b, d, s[k]) /\ Len(s[k]) <= h
  /\ \A p : Chain(b, d, p) /\ Len(p) <= h => \E k \in 1 .. Len(s) : s[k] = p

LEMMA CoversStep ==
  ASSUME NEW b \in Nat, NEW u \in Walks, NEW h \in Nat,
         \A d \in Nat : Covers(b, d, u[b * d + 1], h), NEW d \in Nat
  PROVE  Covers(b, d, FlattenSeq(TopPieces(b, u, b * d + 1)), h + 1)
<1> DEFINE first == b * d + 1
           s == TopPieces(b, u, first)
           f == FlattenSeq(s)
           Dir(i) == first + i - 1
           V(i) == u[b * Dir(i) + 1]
           G == LevelSizes(b, h)
<1>1. first \in Nat
  OBVIOUS
<1>2. /\ s \in Seq(Seq(Seq(Nat))) /\ Len(s) = b
      /\ \A i \in 1 .. b :
           /\ Dir(i) \in Nat /\ V(i) \in Seq(Seq(Nat)) /\ Len(s[i]) = 1 + Len(V(i))
           /\ s[i][1] = <<Dir(i)>>
           /\ \A k \in 1 .. Len(V(i)) : s[i][k + 1] = <<Dir(i)>> \o V(i)[k]
  <2> HIDE DEF first
  <2>1. QED
    BY <1>1, TopPiecesAre
<1>3. \A i \in 1 .. b : Child(b, d, Dir(i))
  BY DEF Child
<1>4. \A x : Child(b, d, x) => x - first + 1 \in 1 .. b /\ Dir(x - first + 1) = x
  BY DEF Child
<1>5. \A i \in 1 .. b : Covers(b, Dir(i), V(i), h)
  BY <1>2
<1>6. G \in Nat /\ LevelSizes(b, h + 1) = b * (1 + G)
  BY SizesAre
<1> HIDE DEF first, s, Dir, V, G
<1>7. \A i \in 1 .. b : Len(s[i]) = 1 + G
  BY <1>2, <1>5 DEF Covers, G
<1>8. f \in Seq(Seq(Nat))
  BY <1>2, FlattenCopies
<1>9. Len(f) = LevelSizes(b, h + 1)
  <2>1. 1 + G \in Nat /\ \A i \in 1 .. Len(s) : Len(s[i]) = 1 + G
    BY <1>2, <1>6, <1>7
  <2>2. Len(f) = Len(s) * (1 + G)
    BY <1>2, <2>1, FlattenLength
  <2>3. QED
    BY <1>2, <1>6, <2>2
<1>10. ASSUME NEW k \in 1 .. Len(f)
       PROVE  Chain(b, d, f[k]) /\ Len(f[k]) <= h + 1
  <2>1. PICK i \in 1 .. Len(s) : \E x \in 1 .. Len(s[i]) : f[k] = s[i][x]
    BY <1>2, FlattenFrom
  <2>2. PICK x \in 1 .. Len(s[i]) : f[k] = s[i][x]
    BY <2>1
  <2>3. i \in 1 .. b
    BY <1>2
  <2>4. Child(b, d, Dir(i))
    BY <1>3, <2>3
  <2>5. CASE x = 1
    <3>1. f[k] = <<Dir(i)>>
      BY <1>2, <2>2, <2>3, <2>5
    <3>2. Chain(b, d, f[k]) /\ Len(f[k]) = 1
      BY <2>4, <3>1, ChainOne
    <3>3. QED
      BY <3>2
  <2>6. CASE x # 1
    <3> DEFINE y == x - 1
               q == V(i)[y]
    <3>1. Len(s[i]) = 1 + Len(V(i)) /\ V(i) \in Seq(Seq(Nat))
      BY <1>2, <2>3
    <3>2. y \in 1 .. Len(V(i)) /\ y + 1 = x
      BY <2>6, <3>1
    <3> HIDE DEF y
    <3>3. f[k] = <<Dir(i)>> \o q
      BY <1>2, <2>2, <2>3, <3>2
    <3>4. Chain(b, Dir(i), q) /\ Len(q) <= h
      BY <1>5, <2>3, <3>2 DEF Covers
    <3> HIDE DEF q
    <3>5. Chain(b, d, f[k]) /\ Len(f[k]) = Len(q) + 1
      BY <2>4, <3>3, <3>4, ChainAhead
    <3>6. Len(q) \in Nat
      BY <3>4 DEF Chain
    <3>7. QED
      BY <3>4, <3>5, <3>6
  <2>7. QED
    BY <2>5, <2>6
<1>11. ASSUME NEW p, Chain(b, d, p), Len(p) <= h + 1
       PROVE  \E k \in 1 .. Len(f) : f[k] = p
  <2> DEFINE x == p[1]
             i == x - first + 1
  <2>1. Child(b, d, x) /\ p \in Seq(Nat) /\ Len(p) \in Nat \ {0}
    BY <1>11 DEF Chain
  <2>2. i \in 1 .. b /\ Dir(i) = x
    BY <1>4, <2>1
  <2>3. i \in 1 .. Len(s) /\ Len(s[i]) = 1 + Len(V(i)) /\ Len(V(i)) \in Nat
    <3> HIDE DEF i
    <3>1. Len(s[i]) = 1 + Len(V(i)) /\ V(i) \in Seq(Seq(Nat))
      BY <1>2, <2>2
    <3>2. Len(V(i)) \in Nat
      BY <3>1
    <3>3. QED
      BY <1>2, <2>2, <3>1, <3>2
  <2> HIDE DEF i
  <2>4. \E y \in 1 .. Len(s[i]) : s[i][y] = p
    <3>1. CASE Len(p) = 1
      <4>1. p = <<x>>
        BY <2>1, <3>1
      <4>2. s[i][1] = <<Dir(i)>>
        BY <1>2, <2>2
      <4>3. 1 \in 1 .. Len(s[i])
        BY <2>3
      <4>4. s[i][1] = p
        BY <2>2, <4>1, <4>2
      <4>5. QED
        BY <4>3, <4>4
    <3>2. CASE Len(p) # 1
      <4> DEFINE q == Tail(p)
      <4> HIDE DEF x
      <4>1. Chain(b, x, q) /\ p = <<x>> \o q /\ Len(q) = Len(p) - 1
        BY <1>11, <3>2, ChainRest DEF x
      <4> HIDE DEF q
      <4>2. Len(q) <= h
        BY <1>11, <2>1, <4>1
      <4>3. PICK k \in 1 .. Len(V(i)) : V(i)[k] = q
        BY <1>5, <2>2, <4>1, <4>2 DEF Covers
      <4>4. s[i][k + 1] = <<Dir(i)>> \o V(i)[k]
        BY <1>2, <2>2
      <4>5. k + 1 \in 1 .. Len(s[i])
        BY <2>3
      <4>6. QED
        BY <2>2, <4>1, <4>3, <4>4, <4>5
    <3>3. QED
      BY <3>1, <3>2
  <2>5. PICK y \in 1 .. Len(s[i]) : s[i][y] = p
    BY <2>4
  <2>6. \E k \in 1 .. Len(f) : f[k] = s[i][y]
    <3> DEFINE T == Seq(Nat)
    <3>1. s \in Seq(Seq(T))
      BY <1>2
    <3> HIDE DEF T
    <3>2. QED
      BY <2>3, <3>1, FlattenKeeps
  <2>7. QED
    BY <2>5, <2>6
<1> HIDE DEF f
<1>12. Covers(b, d, f, h + 1)
  BY <1>8, <1>9, <1>10, <1>11 DEF Covers
<1>13. QED
  BY <1>12 DEF f, s, first

\* create_remove_items and create_remove_directory_tree reach every place of the tree.
LEMMA TopDownCovers ==
  ASSUME NEW o, IsTree(o)
  PROVE  Covers(o.branch_factor, 0, TopDown(o), o.depth)
<1> DEFINE b == o.branch_factor
           D == o.depth
           w == CHOOSE v : TopTable(b, v, D)
<1>1. b \in Nat /\ D \in Nat
  BY DEF IsTree
<1>2. TopDown(o) = w[D][1]
  BY DEF TopDown, TopTable, TopPieces
<1> HIDE DEF b, D
<1>3. TopTable(b, w, D)
  BY <1>1, TopTableExists
<1> HIDE DEF w
<1>4. \A d \in Nat : w[0][b * d + 1] = <<>>
  <2>1. 0 \in 0 .. D
    BY <1>1
  <2>2. w[0] = [first \in Nat |-> <<>>]
    BY <1>3, <2>1 DEF TopTable
  <2>3. \A d \in Nat : b * d + 1 \in Nat
    BY <1>1
  <2>4. QED
    BY <2>2, <2>3
<1>5. ASSUME NEW h \in 1 .. D, NEW first \in Nat
      PROVE  w[h][first] = FlattenSeq(TopPieces(b, w[h - 1], first))
  <2>1. h \in 0 .. D /\ h # 0
    BY <1>1
  <2> DEFINE F(x) == FlattenSeq(TopPieces(b, w[h - 1], x))
  <2>2. w[h] = [x \in Nat |-> F(x)]
    BY <1>3, <2>1 DEF TopTable
  <2> HIDE DEF F
  <2>3. w[h][first] = F(first)
    BY <2>2
  <2>4. QED
    BY <2>3 DEF F
<1> DEFINE N == {h \in Nat : h <= D => /\ w[h] \in Walks
                                       /\ \A d \in Nat : Covers(b, d, w[h][b * d + 1], h)}
<1>6. 0 \in N
  <2>1. w[0] \in Walks
    <3>1. 0 \in 0 .. D
      BY <1>1
    <3>2. w[0] = [first \in Nat |-> <<>>]
      BY <1>3, <3>1 DEF TopTable
    <3>3. QED
      BY <3>2 DEF Walks
  <2>2. ASSUME NEW d \in Nat
        PROVE  Covers(b, d, <<>>, 0)
    <3>1. <<>> \in Seq(Seq(Nat)) /\ Len(<<>>) = 0 /\ LevelSizes(b, 0) = 0
      BY <1>1, SizesAre
    <3>2. \A p : Chain(b, d, p) => Len(p) \in Nat \ {0}
      BY DEF Chain
    <3>3. QED
      BY <3>1, <3>2 DEF Covers
  <2>3. QED
    BY <1>4, <2>1, <2>2
<1>7. ASSUME NEW h \in Nat, h \in N
      PROVE  h + 1 \in N
  <2> SUFFICES ASSUME h + 1 <= D
               PROVE  /\ w[h + 1] \in Walks
                      /\ \A d \in Nat : Covers(b, d, w[h + 1][b * d + 1], h + 1)
    OBVIOUS
  <2> DEFINE m == h + 1
             u == w[h]
  <2>1. m \in 1 .. D /\ m - 1 = h
    BY <1>1
  <2>2. u \in Walks /\ \A d \in Nat : Covers(b, d, u[b * d + 1], h)
    BY <1>1, <1>7
  <2>3. ASSUME NEW d \in Nat
        PROVE  Covers(b, d, w[m][b * d + 1], m)
    <3> HIDE DEF u
    <3>1. Covers(b, d, FlattenSeq(TopPieces(b, u, b * d + 1)), m)
      BY <1>1, <2>2, CoversStep
    <3>2. b * d + 1 \in Nat
      BY <1>1
    <3> HIDE DEF m
    <3>3. w[m][b * d + 1] = FlattenSeq(TopPieces(b, w[m - 1], b * d + 1))
      BY <1>5, <2>1, <3>2
    <3>4. QED
      BY <2>1, <3>1, <3>3 DEF u
  <2>4. w[m] \in Walks
    <3> HIDE DEF m, u
    <3>1. m \in 0 .. D /\ m # 0
      BY <2>1
    <3> DEFINE F(first) == FlattenSeq(TopPieces(b, u, first))
    <3>2. w[m] = [first \in Nat |-> F(first)]
      BY <1>3, <2>1, <3>1 DEF TopTable, u
    <3>3. ASSUME NEW first \in Nat
          PROVE  F(first) \in Seq(Seq(Nat))
      <4>1. TopPieces(b, u, first) \in Seq(Seq(Seq(Nat)))
        BY <1>1, <2>2, TopPiecesAre
      <4>2. QED
        BY <4>1, FlattenCopies
    <3> HIDE DEF F
    <3>4. QED
      BY <3>2, <3>3 DEF Walks
  <2>5. QED
    BY <2>3, <2>4
<1>8. \A h \in Nat : h \in N
  <2> HIDE DEF N
  <2>1. QED
    BY <1>6, <1>7, NatSetInduction
<1>9. Covers(b, 0, w[D][b * 0 + 1], D)
  <2>1. D \in N /\ D <= D /\ 0 \in Nat
    BY <1>1, <1>8
  <2>2. QED
    BY <2>1
<1>10. b * 0 + 1 = 1
  BY <1>1
<1>11. QED
  BY <1>2, <1>9, <1>10 DEF b, D

-----------------------------------------------------------------------------
(* Taking every value once *)

\* A function onto a set of the same size takes no value twice ...
LEMMA OntoSameSize ==
  ASSUME NEW S, IsFiniteSet(S), NEW T, Cardinality(S) = Cardinality(T),
         NEW f \in [S -> T], \A t \in T : \E s \in S : f[s] = t
  PROVE  \A x \in S, y \in S : f[x] = f[y] => x = y
<1>1. f \in Surjection(S, T)
  BY DEF Surjection
<1>2. f \in Injection(S, T)
  BY <1>1, FS_SurjSameCardinalityImpliesInj
<1>3. QED
  BY <1>2 DEF Injection, IsInjective

\* ... and one that takes every value once gives the two sets the same size.
LEMMA OntoOnce ==
  ASSUME NEW S, IsFiniteSet(S), NEW T, NEW f \in [S -> T], \A t \in T : \E s \in S : f[s] = t,
         \A x \in S, y \in S : f[x] = f[y] => x = y
  PROVE  IsFiniteSet(T) /\ Cardinality(T) = Cardinality(S)
<1>1. f \in Surjection(S, T)
  BY DEF Surjection
<1>2. f \in Injection(S, T)
  BY DEF Injection, IsInjective
<1>3. QED
  BY <1>1, <1>2, FS_Surjection

\* What is left of a sequence when only some of its places are kept.
Kept(all, keep) ==
  FlattenSeq([k \in 1 .. Len(all) |-> IF k \in keep THEN <<all[k]>> ELSE <<>>])

LEMMA KeptIs ==
  ASSUME NEW S, NEW all \in Seq(S), NEW keep \in SUBSET (1 .. Len(all))
  PROVE  /\ Kept(all, keep) \in Seq(S) /\ Len(Kept(all, keep)) = Cardinality(keep)
         /\ \A p \in 1 .. Len(Kept(all, keep)) : \E k \in keep : Kept(all, keep)[p] = all[k]
         /\ \A k \in keep : \E p \in 1 .. Len(Kept(all, keep)) : Kept(all, keep)[p] = all[k]
<1> DEFINE Part(k) == IF k \in keep THEN <<all[k]>> ELSE <<>>
           n == Len(all)
           s == [k \in 1 .. n |-> Part(k)]
           f == FlattenSeq(s)
<1>1. n \in Nat /\ \A k \in 1 .. n : all[k] \in S
  OBVIOUS
<1>2. s \in Seq(Seq(S)) /\ Len(s) = n /\ \A k \in 1 .. n : s[k] = Part(k)
  <2> HIDE DEF n
  <2>1. \A k \in 1 .. n : Part(k) \in Seq(S)
    BY <1>1
  <2> DEFINE T == Seq(S)
  <2> HIDE DEF Part, T
  <2>2. s \in [1 .. n -> T] /\ \A k \in 1 .. n : s[k] = Part(k)
    BY <2>1 DEF T
  <2> HIDE DEF s
  <2>3. s \in Seq(T) /\ Len(s) = n
    BY <1>1, <2>2, PiecesOf
  <2>4. QED
    BY <2>2, <2>3 DEF T
<1>3. Kept(all, keep) = f
  BY DEF Kept
<1>4. keep \in SUBSET (1 .. n)
  OBVIOUS
<1> HIDE DEF s, n
<1>5. \A k \in keep : s[k] = <<all[k]>>
  BY <1>2, <1>4
<1>6. \A k \in 1 .. n : k \notin keep => s[k] = <<>>
  BY <1>2
<1> HIDE DEF Part
<1>7. f \in Seq(S)
  BY <1>2, FlattenCopies
<1>8. ASSUME NEW p \in 1 .. Len(f)
      PROVE  \E k \in keep : f[p] = all[k]
  <2>1. PICK k \in 1 .. Len(s) : \E x \in 1 .. Len(s[k]) : f[p] = s[k][x]
    BY <1>2, FlattenFrom
  <2>2. PICK x \in 1 .. Len(s[k]) : f[p] = s[k][x]
    BY <2>1
  <2>3. k \in keep
    <3> SUFFICES ASSUME k \notin keep
                 PROVE  FALSE
      OBVIOUS
    <3>1. s[k] = <<>>
      BY <1>2, <1>6
    <3>2. QED
      BY <2>2, <3>1
  <2>4. s[k] = <<all[k]>>
    BY <1>5, <2>3
  <2>5. f[p] = all[k]
    BY <2>2, <2>4
  <2>6. QED
    BY <2>3, <2>5
<1>9. ASSUME NEW k \in keep
      PROVE  \E p \in 1 .. Len(f) : f[p] = all[k]
  <2>1. s[k] = <<all[k]>>
    BY <1>5
  <2>2. k \in 1 .. Len(s) /\ 1 \in 1 .. Len(s[k]) /\ s[k][1] = all[k]
    BY <1>2, <1>4, <2>1
  <2>3. \E p \in 1 .. Len(f) : f[p] = s[k][1]
    BY <1>2, <2>2, FlattenKeeps
  <2>4. QED
    BY <2>2, <2>3
<1>10. Len(f) = Cardinality(keep)
  <2>1. CASE n = 0
    <3>1. keep = {}
      BY <1>4, <2>1
    <3>2. \A i \in 1 .. Len(s) : Len(s[i]) = 0
      BY <1>2, <2>1
    <3>3. Len(f) = 0
      BY <1>2, <3>2, FlattenNothing
    <3>4. QED
      BY <3>1, <3>3, FS_EmptySet
  <2>2. CASE n # 0
    <3>1. PICK g : /\ FlattenSeq(s) = g[Len(s)]
                   /\ \A m \in 1 .. Len(s) :
                        /\ g[m] \in Seq(S)
                        /\ g[m] = IF m = 1 THEN s[m] ELSE g[m - 1] \o s[m]
      <4>1. Len(s) # 0
        BY <1>2, <2>2
      <4>2. s \in Seq(Seq(S))
        BY <1>2
      <4>3. QED
        BY <4>1, <4>2, FlattenIs
    <3> DEFINE Good(m) == /\ IsFiniteSet(keep \cap 1 .. m)
                          /\ Len(g[m]) = Cardinality(keep \cap 1 .. m)
               N == {m \in 1 .. n : Good(m)}
    <3>2. 1 \in N
      <4>1. g[1] = s[1] /\ 1 \in 1 .. n
        BY <1>1, <1>2, <2>2, <3>1
      <4>2. CASE 1 \in keep
        <5>1. keep \cap 1 .. 1 = {1}
          BY <4>2
        <5>2. s[1] = <<all[1]>>
          BY <1>5, <4>2
        <5>3. Len(g[1]) = 1
          BY <4>1, <5>2
        <5>4. IsFiniteSet({1}) /\ Cardinality({1}) = 1
          BY FS_Singleton
        <5>5. QED
          BY <4>1, <5>1, <5>3, <5>4
      <4>3. CASE 1 \notin keep
        <5>1. keep \cap 1 .. 1 = {} /\ Len(g[1]) = 0
          BY <1>6, <4>1, <4>3
        <5>2. QED
          BY <4>1, <5>1, FS_EmptySet
      <4>4. QED
        BY <4>2, <4>3
    <3>3. ASSUME NEW k \in 1 .. n - 1, k \in N
          PROVE  k + 1 \in N
      <4> DEFINE m == k + 1
                 K == keep \cap 1 .. k
                 M == keep \cap 1 .. m
      <4>1. m \in 1 .. n /\ m # 1 /\ m - 1 = k /\ k \in 1 .. n
        BY <1>1
      <4>2. g[m] = g[k] \o s[m] /\ g[k] \in Seq(S) /\ s[m] \in Seq(S)
        <5> HIDE DEF m
        <5>1. m \in 1 .. Len(s) /\ k \in 1 .. Len(s)
          BY <1>2, <4>1
        <5>2. g[m] = g[k] \o s[m]
          BY <3>1, <4>1, <5>1
        <5>3. s[m] \in Seq(S)
          BY <1>2, <5>1
        <5>4. g[k] \in Seq(S)
          BY <3>1, <5>1
        <5>5. QED
          BY <5>2, <5>3, <5>4
      <4>3. Len(g[m]) = Len(g[k]) + Len(s[m])
        BY <4>2
      <4>4. IsFiniteSet(K) /\ Len(g[k]) = Cardinality(K) /\ m \notin K
        BY <3>3
      <4>5. CASE m \in keep
        <5>1. M = K \cup {m}
          BY <4>5
        <5>2. Len(s[m]) = 1
          <6>1. s[m] = <<all[m]>>
            BY <1>5, <4>5
          <6>2. QED
            BY <6>1
        <5> HIDE DEF m, K, M
        <5>3. IsFiniteSet(M) /\ Cardinality(M) = Cardinality(K) + 1
          BY <4>4, <5>1, FS_AddElement
        <5>4. Len(g[m]) = Cardinality(M)
          BY <4>3, <4>4, <5>2, <5>3
        <5>5. QED
          BY <4>1, <5>3, <5>4 DEF M, m
      <4>6. CASE m \notin keep
        <5>1. M = K
          BY <4>6
        <5>2. Len(s[m]) = 0
          <6>1. s[m] = <<>>
            BY <1>6, <4>1, <4>6
          <6>2. QED
            BY <6>1
        <5> HIDE DEF m, K, M
        <5>3. Len(g[k]) \in Nat
          BY <4>2
        <5>4. Len(g[m]) = Cardinality(M)
          BY <4>3, <4>4, <5>1, <5>2, <5>3
        <5>5. QED
          BY <4>1, <4>4, <5>1, <5>4 DEF M, m
      <4>7. QED
        BY <4>5, <4>6
    <3>4. \A m \in 1 .. n : m \in N
      <4> HIDE DEF N
      <4>1. QED
        BY <1>1, <3>2, <3>3, IndexInduction
    <3>5. n \in 1 .. n
      BY <1>1, <2>2
    <3>6. keep \cap 1 .. n = keep
      BY <1>4
    <3>7. Good(n)
      BY <3>4, <3>5
    <3> HIDE DEF N
    <3>8. Len(g[n]) = Cardinality(keep)
      BY <3>6, <3>7
    <3>9. QED
      BY <1>2, <3>1, <3>8
  <2>3. QED
    BY <2>1, <2>2
<1> HIDE DEF f
<1>11. QED
  BY <1>3, <1>7, <1>8, <1>9, <1>10

-----------------------------------------------------------------------------
(* The walk visits every number once *)

\* The root's path.
LEMMA RebuiltRoot ==
  ASSUME NEW o
  PROVE  Rebuilt(o, 0) = <<>>
<1> DEFINE b == o.branch_factor
           v == CHOOSE f : PathTable(b, f, 0)
           u == [d \in 0 .. 0 |-> <<>>]
<1>1. Rebuilt(o, 0) = v[0]
  BY DEF Rebuilt, PathTable, PathStep
<1>2. PathTable(b, u, 0)
  <2>1. u = [d \in 0 .. 0 |-> u[d]] /\ \A d \in 0 .. 0 : d = 0 /\ u[d] = <<>>
    OBVIOUS
  <2> HIDE DEF u, b
  <2>2. \A d \in 0 .. 0 : u[d] = PathStep(b, u, d)
    BY <2>1 DEF PathStep
  <2>3. QED
    BY <2>1, <2>2 DEF PathTable
<1> HIDE DEF b, u
<1>3. PathTable(b, v, 0)
  BY <1>2
<1> HIDE DEF v
<1>4. v[0] = PathStep(b, v, 0)
  <2>1. 0 \in 0 .. 0
    OBVIOUS
  <2>2. v = [i \in 0 .. 0 |-> PathStep(b, v, i)]
    BY <1>3 DEF PathTable
  <2>3. QED
    BY <2>1, <2>2
<1>5. QED
  BY <1>1, <1>4 DEF PathStep

\* The directories of the tree in the order of the walk, each with its number, the
\* path stat and read rebuild from it, and its level.
Places(o) == << <<>> >> \o TopDown(o)

PlaceAt(o, p) ==
  /\ p \in Seq(Nat) /\ DirNumber(p) \in 0 .. NumDirs(o) - 1
  /\ p = Rebuilt(o, DirNumber(p))
  /\ Len(p) = o.depth <=> DirNumber(p) >= NumDirs(o) - NumLeaves(o)

\* The root.
LEMMA RootIsPlace ==
  ASSUME NEW o, IsTree(o)
  PROVE  PlaceAt(o, <<>>) /\ DirNumber(<<>>) = 0
<1> DEFINE D == o.depth
           p == <<>>
<1>1. D \in Nat /\ o.branch_factor \in Nat
  BY DEF IsTree
<1>2. p \in Seq(Nat) /\ Len(p) = 0 /\ DirNumber(p) = 0
  BY DEF DirNumber
<1>3. Rebuilt(o, 0) = p
  BY RebuiltRoot
<1>4. NumDirs(o) = 1 + LevelSizes(o.branch_factor, D) /\ LevelSizes(o.branch_factor, D) \in Nat
  BY <1>1, NumDirsIs, SizesAre
<1>5. NumLeaves(o) \in Nat
  BY NumLeavesIs
<1>6. 0 = D <=> 0 >= NumDirs(o) - NumLeaves(o)
  <2>1. CASE D = 0
    <3>1. NumLeaves(o) = 1 /\ NumDirs(o) = 1
      BY <2>1, NumLeavesIs
    <3>2. QED
      BY <2>1, <3>1
  <2>2. CASE D # 0
    <3> DEFINE G == LevelSizes(o.branch_factor, D - 1)
    <3>1. NumDirs(o) - NumLeaves(o) = 1 + G
      BY <2>2, NumLeavesIs
    <3>2. G \in Nat
      <4>1. D - 1 \in Nat
        BY <1>1, <2>2
      <4> HIDE DEF D
      <4>2. QED
        BY <1>1, <4>1, SizesAre
    <3> HIDE DEF G
    <3>3. QED
      BY <2>2, <3>1, <3>2
  <2>3. QED
    BY <2>1, <2>2
<1> HIDE DEF p, D
<1>7. PlaceAt(o, p)
  BY <1>2, <1>3, <1>4, <1>6 DEF PlaceAt, D
<1>8. QED
  BY <1>2, <1>7 DEF p

\* The places below it.
LEMMA ChainIsPlace ==
  ASSUME NEW o, IsTree(o), NEW p, Chain(o.branch_factor, 0, p), Len(p) <= o.depth
  PROVE  PlaceAt(o, p) /\ DirNumber(p) = p[Len(p)]
<1> DEFINE D == o.depth
           b == o.branch_factor
           d == p[Len(p)]
           G(h) == LevelSizes(b, h)
<1>1. D \in Nat /\ b \in Nat /\ (D # 0 => b # 0)
  BY DEF IsTree
<1>2. p \in Seq(Nat) /\ Len(p) \in Nat /\ Len(p) # 0
  BY DEF Chain
<1>3. D # 0 /\ D - 1 \in Nat /\ b \in Nat \ {0}
  BY <1>1, <1>2
<1>4. p # <<>>
  BY <1>2
<1>5. DirNumber(p) = d
  BY <1>4 DEF DirNumber, Last
<1>6. d \in Nat \ {0} /\ Rebuilt(o, d) = p
  BY <1>3, ChainIsRebuilt
<1> HIDE DEF d
<1>7. IsPlace(o, d)
  BY <1>3, <1>6, RebuiltIsPlace
<1>8. \A h \in Nat : Len(p) <= h <=> d <= G(h)
  BY <1>6, <1>7 DEF IsPlace
<1>9. NumDirs(o) = 1 + G(D)
  BY NumDirsIs
<1>10. NumDirs(o) - NumLeaves(o) = 1 + G(D - 1)
  BY <1>3, NumLeavesIs
<1>11. Len(p) <= D
  OBVIOUS
<1>12. G(D) \in Nat /\ G(D - 1) \in Nat
  BY <1>1, <1>3, SizesAre
<1> HIDE DEF D, b, G
<1>13. d <= G(D) /\ (Len(p) <= D - 1 <=> d <= G(D - 1))
  BY <1>1, <1>3, <1>8, <1>11
<1>14. d \in 0 .. NumDirs(o) - 1
  BY <1>6, <1>9, <1>12, <1>13
<1>15. Len(p) = D <=> d >= 1 + G(D - 1)
  BY <1>1, <1>2, <1>6, <1>11, <1>12, <1>13
<1>16. PlaceAt(o, p)
  BY <1>2, <1>5, <1>6, <1>10, <1>14, <1>15 DEF PlaceAt, D
<1>17. QED
  BY <1>5, <1>16 DEF d

PlacesOnce(o) ==
  LET all == Places(o)
  IN  /\ all \in Seq(Seq(Nat)) /\ Len(all) = NumDirs(o)
      /\ \A k \in 1 .. NumDirs(o) : PlaceAt(o, all[k])
      /\ \A d \in 0 .. NumDirs(o) - 1 : \E k \in 1 .. NumDirs(o) : DirNumber(all[k]) = d
      /\ \A k \in 1 .. NumDirs(o), m \in 1 .. NumDirs(o) :
           DirNumber(all[k]) = DirNumber(all[m]) => k = m

\* The walk visits every directory number once.
LEMMA PlacesAre ==
  ASSUME NEW o, IsTree(o)
  PROVE  PlacesOnce(o) /\ NumDirs(o) \in Nat \ {0}
<1> DEFINE D == o.depth
           b == o.branch_factor
           N == NumDirs(o)
           G == LevelSizes(b, D)
           down == TopDown(o)
           all == Places(o)
<1>1. D \in Nat /\ b \in Nat /\ (D # 0 => b # 0)
  BY DEF IsTree
<1>2. N = 1 + G
  BY NumDirsIs
<1>3. G \in Nat
  BY <1>1, SizesAre
<1>4. /\ down \in Seq(Seq(Nat)) /\ Len(down) = G
      /\ \A k \in 1 .. Len(down) : Chain(b, 0, down[k]) /\ Len(down[k]) <= D
      /\ \A p : Chain(b, 0, p) /\ Len(p) <= D => \E k \in 1 .. Len(down) : down[k] = p
  <2>1. Covers(b, 0, down, D)
    BY TopDownCovers
  <2> HIDE DEF down, b, D
  <2>2. QED
    BY <2>1 DEF Covers, G
<1>5. /\ all \in Seq(Seq(Nat)) /\ Len(all) = N /\ all[1] = <<>>
      /\ \A k \in 1 .. G : all[k + 1] = down[k]
  <2> DEFINE T == Seq(Nat)
             x == <<>>
  <2>1. x \in T /\ down \in Seq(T) /\ Len(down) = G /\ all = <<x>> \o down
    BY <1>4 DEF Places
  <2> HIDE DEF T, x, down, all, G, N
  <2>2. /\ <<x>> \o down \in Seq(T) /\ Len(<<x>> \o down) = 1 + Len(down)
        /\ (<<x>> \o down)[1] = x /\ \A k \in 1 .. Len(down) : (<<x>> \o down)[k + 1] = down[k]
    BY <2>1, AheadIs
  <2>3. /\ all \in Seq(T) /\ Len(all) = N
        /\ all[1] = x /\ \A k \in 1 .. G : all[k + 1] = down[k]
    BY <1>2, <2>1, <2>2
  <2>4. QED
    BY <2>3 DEF T, x
<1> HIDE DEF down, all, N, G
<1>6. ASSUME NEW k \in 1 .. N
      PROVE  PlaceAt(o, all[k])
  <2>1. CASE k = 1
    BY <1>5, <2>1, RootIsPlace
  <2>2. CASE k # 1
    <3> DEFINE m == k - 1
    <3>1. m \in 1 .. G /\ m + 1 = k
      BY <1>2, <1>3, <2>2
    <3> HIDE DEF m
    <3>2. all[k] = down[m] /\ Chain(b, 0, down[m]) /\ Len(down[m]) <= D
      BY <1>4, <1>5, <3>1
    <3>3. QED
      BY <3>2, ChainIsPlace
  <2>3. QED
    BY <2>1, <2>2
<1>7. ASSUME NEW d \in 0 .. N - 1
      PROVE  \E k \in 1 .. N : DirNumber(all[k]) = d
  <2>1. CASE d = 0
    <3>1. 1 \in 1 .. N
      BY <1>2, <1>3
    <3>2. DirNumber(all[1]) = d
      BY <1>5, <2>1, RootIsPlace
    <3>3. QED
      BY <3>1, <3>2
  <2>2. CASE d # 0
    <3> DEFINE p == Rebuilt(o, d)
    <3>1. d \in Nat \ {0} /\ d <= G
      BY <1>2, <1>3, <2>2
    <3>2. D # 0
      <4> SUFFICES ASSUME D = 0
                   PROVE  FALSE
        OBVIOUS
      <4>1. G = 0
        BY <1>1, SizesAre DEF G
      <4>2. QED
        BY <3>1, <4>1
    <3>3. b \in Nat \ {0}
      BY <1>1, <3>2
    <3>4. IsPlace(o, d)
      BY <3>1, <3>3, RebuiltIsPlace
    <3>5. Chain(b, 0, p) /\ p[Len(p)] = d /\ Len(p) <= D
      BY <1>1, <3>1, <3>4 DEF IsPlace, G
    <3> HIDE DEF p
    <3>6. DirNumber(p) = d
      BY <3>5, ChainIsPlace
    <3> HIDE DEF b, D
    <3>7. PICK m \in 1 .. Len(down) : down[m] = p
      BY <1>4, <3>5
    <3>8. m \in 1 .. G
      BY <1>4
    <3>9. all[m + 1] = p /\ m + 1 \in 1 .. N
      BY <1>2, <1>3, <1>5, <3>7, <3>8
    <3>10. QED
      BY <3>6, <3>9
  <2>3. QED
    BY <2>1, <2>2
<1>8. \A k \in 1 .. N, m \in 1 .. N : DirNumber(all[k]) = DirNumber(all[m]) => k = m
  <2> DEFINE f == [k \in 1 .. N |-> DirNumber(all[k])]
             T == 0 .. N - 1
             K == 1 .. N
  <2>0. N \in Nat \ {0}
    BY <1>2, <1>3
  <2>1. \A k \in K : DirNumber(all[k]) \in T
    BY <1>6 DEF PlaceAt, N
  <2>2. f \in [K -> T]
    BY <2>1
  <2>3. \A t \in T : \E k \in K : f[k] = t
    BY <1>7
  <2>4. IsFiniteSet(K) /\ Cardinality(K) = N /\ Cardinality(T) = N
    BY <2>0, FS_Interval
  <2>5. \A k \in K : f[k] = DirNumber(all[k])
    OBVIOUS
  <2> HIDE DEF f, T, K
  <2>6. \A k \in K, m \in K : f[k] = f[m] => k = m
    <3>1. Cardinality(K) = Cardinality(T) /\ IsFiniteSet(K)
      BY <2>4
    <3>2. QED
      BY <2>2, <2>3, <3>1, OntoSameSize
  <2>7. QED
    BY <2>5, <2>6 DEF K
<1>9. PlacesOnce(o)
  BY <1>5, <1>6, <1>7, <1>8 DEF PlacesOnce, all, N
<1>10. QED
  BY <1>2, <1>3, <1>9 DEF N

-----------------------------------------------------------------------------
(* The directories that get items *)

\* The first directory that gets items.
FirstItemDir(o) == IF o.leaf_only THEN NumDirs(o) - NumLeaves(o) ELSE 0

LEMMA FirstItemDirIs ==
  ASSUME NEW o, IsTree(o)
  PROVE  /\ FirstItemDir(o) \in 0 .. NumDirs(o)
         /\ NumDirs(o) - FirstItemDir(o) = IF o.leaf_only THEN NumLeaves(o) ELSE NumDirs(o)
<1>1. NumDirs(o) \in Nat \ {0}
  BY PlacesAre
<1>2. NumLeaves(o) \in Nat
  BY NumLeavesIs
<1>3. NumDirs(o) - NumLeaves(o) >= 0
  <2>1. CASE o.depth = 0
    <3>1. NumLeaves(o) = 1 /\ NumDirs(o) = 1
      BY <2>1, NumLeavesIs
    <3>2. QED
      BY <3>1
  <2>2. CASE o.depth # 0
    <3> DEFINE n == o.depth - 1
               b == o.branch_factor
    <3>1. n \in Nat /\ b \in Nat
      BY <2>2 DEF IsTree
    <3>2. NumDirs(o) - NumLeaves(o) = 1 + LevelSizes(b, n)
      BY <2>2, NumLeavesIs
    <3> HIDE DEF n, b
    <3>3. LevelSizes(b, n) \in Nat
      BY <3>1, SizesAre
    <3>4. QED
      BY <3>2, <3>3
  <2>3. QED
    BY <2>1, <2>2
<1>4. QED
  BY <1>1, <1>2, <1>3 DEF FirstItemDir

ItemDirsOnce(o) ==
  LET places == ItemPlaces(o)
  IN  /\ places \in Seq(Seq(Nat)) /\ Len(places) = NumDirs(o) - FirstItemDir(o)
      /\ \A k \in 1 .. Len(places) :
           PlaceAt(o, places[k]) /\ DirNumber(places[k]) >= FirstItemDir(o)
      /\ \A d \in FirstItemDir(o) .. NumDirs(o) - 1 :
           \E k \in 1 .. Len(places) : DirNumber(places[k]) = d

\* create_remove_items puts items in the directories it should, once each.
LEMMA ItemPlacesAre ==
  ASSUME NEW o, IsTree(o)
  PROVE  ItemDirsOnce(o)
<1> DEFINE all == Places(o)
           N == NumDirs(o)
           first == FirstItemDir(o)
           number == [k \in 1 .. N |-> DirNumber(all[k])]
           keep == {k \in 1 .. N : number[k] >= first}
           places == ItemPlaces(o)
<1>1. /\ N \in Nat \ {0} /\ all \in Seq(Seq(Nat)) /\ Len(all) = N /\ DOMAIN all = 1 .. N
      /\ \A k \in 1 .. N : PlaceAt(o, all[k])
      /\ \A d \in 0 .. N - 1 : \E k \in 1 .. N : DirNumber(all[k]) = d
      /\ \A k \in 1 .. N, m \in 1 .. N : DirNumber(all[k]) = DirNumber(all[m]) => k = m
  <2>1. PlacesOnce(o) /\ N \in Nat \ {0}
    BY PlacesAre
  <2> HIDE DEF all
  <2>2. /\ all \in Seq(Seq(Nat)) /\ Len(all) = N
        /\ \A k \in 1 .. N : PlaceAt(o, all[k])
        /\ \A d \in 0 .. N - 1 : \E k \in 1 .. N : DirNumber(all[k]) = d
        /\ \A k \in 1 .. N, m \in 1 .. N : DirNumber(all[k]) = DirNumber(all[m]) => k = m
    BY <2>1 DEF PlacesOnce, all
  <2>3. DOMAIN all = 1 .. N
    BY <2>2
  <2>4. QED
    BY <2>1, <2>2, <2>3
<1>2. first \in 0 .. N
  BY FirstItemDirIs
<1>3. places = FlattenSeq([k \in DOMAIN all |->
                 IF o.leaf_only /\ Len(all[k]) # o.depth THEN <<>> ELSE <<all[k]>>])
  BY DEF ItemPlaces, Places
<1>4. o.leaf_only => first = N - NumLeaves(o)
  BY DEF FirstItemDir
<1>5. ~o.leaf_only => first = 0
  BY DEF FirstItemDir
<1> HIDE DEF all, N, first, places
<1>6. \A k \in 1 .. N : number[k] = DirNumber(all[k]) /\ number[k] \in 0 .. N - 1
  BY <1>1 DEF PlaceAt, N
<1>7. ASSUME NEW k \in 1 .. N
      PROVE  k \in keep <=> ~(o.leaf_only /\ Len(all[k]) # o.depth)
  <2>1. Len(all[k]) = o.depth <=> number[k] >= N - NumLeaves(o)
    BY <1>1, <1>6 DEF PlaceAt, N
  <2>2. k \in keep <=> number[k] >= first
    OBVIOUS
  <2> HIDE DEF number
  <2>3. CASE o.leaf_only
    BY <1>4, <2>1, <2>2, <2>3
  <2>4. CASE ~o.leaf_only
    <3>1. number[k] >= first
      BY <1>5, <1>6, <2>4
    <3>2. QED
      BY <2>2, <2>4, <3>1
  <2>5. QED
    BY <2>3, <2>4
<1>8. places = Kept(all, keep)
  <2> DEFINE F(k) == IF o.leaf_only /\ Len(all[k]) # o.depth THEN <<>> ELSE <<all[k]>>
             H(k) == IF k \in keep THEN <<all[k]>> ELSE <<>>
  <2> HIDE DEF keep
  <2>1. \A k \in 1 .. N : F(k) = H(k)
    BY <1>7
  <2>2. places = FlattenSeq([k \in 1 .. N |-> F(k)])
    BY <1>1, <1>3
  <2>3. Kept(all, keep) = FlattenSeq([k \in 1 .. N |-> H(k)])
    BY <1>1 DEF Kept
  <2> HIDE DEF F, H
  <2>4. [k \in 1 .. N |-> F(k)] = [k \in 1 .. N |-> H(k)]
    BY <2>1
  <2>5. QED
    BY <2>2, <2>3, <2>4
<1>9. /\ places \in Seq(Seq(Nat)) /\ Len(places) = Cardinality(keep)
      /\ \A p \in 1 .. Len(places) : \E k \in keep : places[p] = all[k]
      /\ \A k \in keep : \E p \in 1 .. Len(places) : places[p] = all[k]
  <2> DEFINE T == Seq(Nat)
  <2>1. all \in Seq(T) /\ keep \in SUBSET (1 .. Len(all))
    BY <1>1
  <2> HIDE DEF T, keep
  <2>2. /\ places \in Seq(T) /\ Len(places) = Cardinality(keep)
        /\ \A p \in 1 .. Len(places) : \E k \in keep : places[p] = all[k]
        /\ \A k \in keep : \E p \in 1 .. Len(places) : places[p] = all[k]
    BY <1>8, <2>1, KeptIs
  <2>3. QED
    BY <2>2 DEF T
<1>10. Cardinality(keep) = N - first
  <2> DEFINE f == [k \in keep |-> number[k]]
             T == first .. N - 1
  <2>1. f \in [keep -> T]
    BY <1>2, <1>6
  <2>2. ASSUME NEW t \in T
        PROVE  \E k \in keep : f[k] = t
    <3>1. t \in 0 .. N - 1
      BY <1>1, <1>2
    <3>2. PICK k \in 1 .. N : number[k] = t
      BY <1>1, <1>6, <3>1
    <3>3. k \in keep
      BY <3>2
    <3>4. QED
      BY <3>2, <3>3
  <2>3. ASSUME NEW x \in keep, NEW y \in keep, f[x] = f[y]
        PROVE  x = y
    BY <1>1, <1>6, <2>3
  <2>4. IsFiniteSet(keep)
    <3>1. IsFiniteSet(1 .. N)
      BY <1>1, FS_Interval
    <3>2. keep \in SUBSET (1 .. N)
      OBVIOUS
    <3>3. QED
      BY <3>1, <3>2, FS_Subset
  <2>5. IsFiniteSet(T) /\ Cardinality(T) = Cardinality(keep)
    <3> HIDE DEF f, T, keep
    <3>1. QED
      BY <2>1, <2>2, <2>3, <2>4, OntoOnce
  <2>6. Cardinality(T) = N - first
    <3>1. first \in Int /\ N - 1 \in Int
      BY <1>1, <1>2
    <3>2. Cardinality(T) = IF first > N - 1 THEN 0 ELSE (N - 1) - first + 1
      BY <3>1, FS_Interval
    <3>3. QED
      BY <1>1, <1>2, <3>2
  <2>7. QED
    BY <2>5, <2>6
<1>11. ASSUME NEW p \in 1 .. Len(places)
       PROVE  PlaceAt(o, places[p]) /\ DirNumber(places[p]) >= first
  <2>1. PICK k \in keep : places[p] = all[k]
    BY <1>9
  <2>2. k \in 1 .. N /\ DirNumber(all[k]) >= first
    BY <1>6
  <2>3. QED
    BY <1>1, <2>1, <2>2
<1>12. ASSUME NEW d \in first .. N - 1
       PROVE  \E p \in 1 .. Len(places) : DirNumber(places[p]) = d
  <2>1. d \in 0 .. N - 1 /\ d >= first
    BY <1>1, <1>2
  <2>2. PICK k \in 1 .. N : DirNumber(all[k]) = d
    BY <1>1, <2>1
  <2>3. k \in keep
    BY <1>6, <2>1, <2>2
  <2>4. PICK p \in 1 .. Len(places) : places[p] = all[k]
    BY <1>9, <2>3
  <2>5. QED
    BY <2>2, <2>4
<1> HIDE DEF keep
<1>13. QED
  BY <1>9, <1>10, <1>11, <1>12 DEF ItemDirsOnce, places, N, first

-----------------------------------------------------------------------------
(* The items worked on *)

\* The <<place, item number>> pairs of the tree.
ItemOf(o, num) == <<Rebuilt(o, num \div o.items_per_dir), num>>

ItemRange(o) ==
  FirstItemDir(o) * o.items_per_dir .. NumDirs(o) * o.items_per_dir - 1

\* The range holds the items of the directories from first on.
LEMMA RangeOfItems ==
  ASSUME NEW n \in Nat \ {0}, NEW I \in Nat, NEW first \in 0 .. n
  PROVE  /\ \A d \in first .. n - 1, j \in 1 .. I :
              /\ d * I + j - 1 \in first * I .. n * I - 1
              /\ (d * I + j - 1) \div I = d
         /\ \A num \in first * I .. n * I - 1 :
              \E d \in first .. n - 1, j \in 1 .. I : num = d * I + j - 1
<1>0. first \in Nat
  OBVIOUS
<1>1. ASSUME NEW d \in first .. n - 1, NEW j \in 1 .. I
      PROVE  d * I + j - 1 \in first * I .. n * I - 1 /\ (d * I + j - 1) \div I = d
  <2> DEFINE k == j - 1
  <2>1. d \in Nat /\ I \in Nat \ {0} /\ k \in 0 .. I - 1 /\ first <= d /\ d + 1 <= n
    BY <1>0
  <2>2. first * I <= d * I
    BY <1>0, <2>1, TimesMonotone
  <2>3. (d + 1) * I <= n * I
    BY <2>1, TimesMonotone
  <2>4. (d + 1) * I = d * I + I /\ d * I \in Nat /\ first * I \in Nat /\ n * I \in Nat
    BY <1>0, <2>1
  <2>5. d * I + j - 1 = I * d + k
    BY <2>1
  <2> HIDE DEF k
  <2>6. (I * d + k) \div I = d
    BY <2>1, QuotientIs
  <2>7. d * I + j - 1 \in first * I .. n * I - 1
    <3> DEFINE x == d * I
               lo == first * I
               hi == n * I
    <3>1. x \in Nat /\ lo \in Nat /\ hi \in Nat /\ lo <= x /\ x + I <= hi
      BY <2>2, <2>3, <2>4
    <3> HIDE DEF x, lo, hi
    <3>2. x + j - 1 \in lo .. hi - 1
      BY <2>1, <3>1
    <3>3. QED
      BY <3>2 DEF x, lo, hi
  <2>8. QED
    BY <2>5, <2>6, <2>7
<1>2. ASSUME NEW num \in first * I .. n * I - 1
      PROVE  \E d \in first .. n - 1, j \in 1 .. I : num = d * I + j - 1
  <2>1. first * I \in Nat /\ n * I \in Nat
    BY <1>0
  <2>2. num \in Int /\ first * I <= num /\ num < n * I
    BY <2>1
  <2>3. I \in Nat \ {0}
    <3> SUFFICES ASSUME I = 0
                 PROVE  FALSE
      OBVIOUS
    <3>1. first * I = 0 /\ n * I = 0
      BY <1>0
    <3>2. QED
      BY <2>2, <3>1
  <2> DEFINE d == num \div I
             k == num % I
  <2>4. k \in 0 .. I - 1 /\ d \in Int /\ num = I * d + k
    BY <2>2, <2>3, Division
  <2> HIDE DEF d, k
  <2>5. num = d * I + k
    BY <2>3, <2>4
  <2>6. first <= d
    <3> SUFFICES ASSUME d + 1 <= first
                 PROVE  FALSE
      BY <1>0, <2>4
    <3>1. (d + 1) * I <= first * I
      BY <1>0, <2>4, TimesMonotone
    <3>2. (d + 1) * I = d * I + I
      BY <2>4
    <3>3. QED
      BY <2>1, <2>2, <2>4, <2>5, <3>1, <3>2
  <2>7. d <= n - 1
    <3> SUFFICES ASSUME n <= d
                 PROVE  FALSE
      BY <2>4
    <3>1. n * I <= d * I
      BY <2>4, TimesMonotone
    <3>2. QED
      BY <2>1, <2>2, <2>4, <2>5, <3>1
  <2>8. d \in first .. n - 1 /\ k + 1 \in 1 .. I /\ num = d * I + (k + 1) - 1
    BY <1>0, <2>3, <2>4, <2>5, <2>6, <2>7
  <2>9. QED
    BY <2>8
<1>3. QED
  BY <1>1, <1>2

ItemsOnce(o) ==
  LET w == WalkedItems(o)
  IN  /\ w \in Seq(Seq(Nat) \X Nat)
      /\ Len(w) = (NumDirs(o) - FirstItemDir(o)) * o.items_per_dir
      /\ \A k \in 1 .. Len(w) : \E num \in ItemRange(o) : w[k] = ItemOf(o, num)
      /\ \A num \in ItemRange(o) : \E k \in 1 .. Len(w) : w[k] = ItemOf(o, num)

\* What create_remove_items works on is the items of a range of numbers, each in the
\* directory that stat and read look for it.
LEMMA WalkedItemsAre ==
  ASSUME NEW o, IsTree(o), o.items_per_dir \in Nat
  PROVE  ItemsOnce(o)
<1> DEFINE places == ItemPlaces(o)
           I == o.items_per_dir
           N == NumDirs(o)
           first == FirstItemDir(o)
           Num(k, i) == DirNumber(places[k]) * I + i - 1
           Part(k) == [i \in 1 .. I |-> <<places[k], Num(k, i)>>]
           n == Len(places)
           s == [k \in 1 .. n |-> Part(k)]
           w == FlattenSeq(s)
           X == Seq(Nat) \X Nat
<1>0. I \in Nat /\ N \in Nat \ {0} /\ first \in 0 .. N
  BY PlacesAre, FirstItemDirIs
<1>1. WalkedItems(o) = w
  <2>1. ASSUME NEW k \in 1 .. n
        PROVE  [i \in 1 .. I |-> <<places[k], ItemNumbers(o, places[k])[i]>>] = Part(k)
    <3>1. \A i \in 1 .. I : ItemNumbers(o, places[k])[i] = Num(k, i)
      BY DEF ItemNumbers
    <3>2. QED
      BY <3>1
  <2> DEFINE Q(k) == [i \in 1 .. I |-> <<places[k], ItemNumbers(o, places[k])[i]>>]
  <2>2. WalkedItems(o) = FlattenSeq([k \in 1 .. n |-> Q(k)])
    BY DEF WalkedItems
  <2> HIDE DEF Q, Part
  <2>3. [k \in 1 .. n |-> Q(k)] = [k \in 1 .. n |-> Part(k)]
    BY <2>1 DEF Q
  <2>4. QED
    BY <2>2, <2>3
<1>2. /\ n \in Nat /\ n = N - first
      /\ \A k \in 1 .. n : /\ places[k] \in Seq(Nat)
                           /\ DirNumber(places[k]) \in first .. N - 1
                           /\ Rebuilt(o, DirNumber(places[k])) = places[k]
      /\ \A d \in first .. N - 1 : \E k \in 1 .. n : DirNumber(places[k]) = d
  <2>1. ItemDirsOnce(o)
    BY ItemPlacesAre
  <2> HIDE DEF places
  <2>2. /\ places \in Seq(Seq(Nat)) /\ n = N - first
        /\ \A k \in 1 .. n : PlaceAt(o, places[k]) /\ DirNumber(places[k]) >= first
        /\ \A d \in first .. N - 1 : \E k \in 1 .. n : DirNumber(places[k]) = d
    BY <2>1 DEF ItemDirsOnce, places
  <2>3. n \in Nat
    BY <2>2
  <2>4. ASSUME NEW k \in 1 .. n
        PROVE  /\ places[k] \in Seq(Nat)
               /\ DirNumber(places[k]) \in first .. N - 1
               /\ Rebuilt(o, DirNumber(places[k])) = places[k]
    <3>1. PlaceAt(o, places[k]) /\ DirNumber(places[k]) >= first
      BY <2>2
    <3>2. /\ places[k] \in Seq(Nat) /\ DirNumber(places[k]) \in 0 .. N - 1
          /\ Rebuilt(o, DirNumber(places[k])) = places[k]
      BY <3>1 DEF PlaceAt
    <3> DEFINE d == DirNumber(places[k])
    <3>3. d \in 0 .. N - 1 /\ d >= first
      BY <3>1, <3>2
    <3> HIDE DEF d, N, first
    <3>4. d \in first .. N - 1
      BY <1>0, <3>3
    <3>5. QED
      BY <3>2, <3>4 DEF d
  <2>5. QED
    BY <2>2, <2>3, <2>4
<1> HIDE DEF places, I, N, first, n
<1>3. /\ \A d \in first .. N - 1, j \in 1 .. I :
           d * I + j - 1 \in first * I .. N * I - 1 /\ (d * I + j - 1) \div I = d
      /\ \A num \in first * I .. N * I - 1 :
           \E d \in first .. N - 1, j \in 1 .. I : num = d * I + j - 1
  BY <1>0, RangeOfItems
<1>4. ItemRange(o) = first * I .. N * I - 1
  BY DEF ItemRange, first, N, I
<1>5. ASSUME NEW k \in 1 .. n, NEW i \in 1 .. I
      PROVE  /\ Num(k, i) \in ItemRange(o) /\ <<places[k], Num(k, i)>> \in X
             /\ <<places[k], Num(k, i)>> = ItemOf(o, Num(k, i))
  <2> DEFINE d == DirNumber(places[k])
             num == d * I + i - 1
  <2>1. d \in first .. N - 1 /\ Rebuilt(o, d) = places[k] /\ places[k] \in Seq(Nat)
    BY <1>2
  <2> HIDE DEF d
  <2>2. num \in first * I .. N * I - 1 /\ num \div I = d
    BY <1>3, <2>1
  <2>3. first * I \in Nat /\ N * I \in Nat
    BY <1>0
  <2>4. num \in Nat
    BY <2>2, <2>3
  <2> HIDE DEF num
  <2>5. ItemOf(o, num) = <<places[k], num>>
    BY <2>1, <2>2 DEF ItemOf, I
  <2>6. QED
    BY <1>4, <2>1, <2>2, <2>4, <2>5 DEF num, d
<1>6. s \in Seq(Seq(X)) /\ Len(s) = n /\ \A k \in 1 .. n : s[k] = Part(k)
  <2> HIDE DEF X, Num
  <2>1. ASSUME NEW k \in 1 .. n
        PROVE  Part(k) \in Seq(X)
    <3>1. Part(k) \in [1 .. I -> X]
      BY <1>5
    <3> HIDE DEF Part
    <3>2. QED
      BY <1>0, <3>1, PiecesOf
  <2> DEFINE T == Seq(X)
  <2> HIDE DEF T, Part
  <2>2. s \in [1 .. n -> T] /\ \A k \in 1 .. n : s[k] = Part(k)
    BY <2>1 DEF T
  <2> HIDE DEF s
  <2>3. s \in Seq(T) /\ Len(s) = n
    BY <1>2, <2>2, PiecesOf
  <2>4. QED
    BY <2>2, <2>3 DEF T
<1> HIDE DEF s, X
<1>7. ASSUME NEW k \in 1 .. n
      PROVE  Len(s[k]) = I /\ \A i \in 1 .. I : s[k][i] = ItemOf(o, Num(k, i))
  <2>1. s[k] = Part(k)
    BY <1>6
  <2> DEFINE e == Part(k)
  <2>2. e = [i \in 1 .. I |-> e[i]]
    OBVIOUS
  <2>3. \A i \in 1 .. I : e[i] = <<places[k], Num(k, i)>>
    OBVIOUS
  <2> HIDE DEF e
  <2>4. Len(e) = I
    BY <1>0, <2>2, FunctionSeq
  <2>5. \A i \in 1 .. I : e[i] = ItemOf(o, Num(k, i))
    BY <1>5, <2>3
  <2>6. QED
    BY <2>1, <2>4, <2>5 DEF e
<1> HIDE DEF Part
<1>8. w \in Seq(X)
  BY <1>6, FlattenCopies
<1>9. Len(w) = (N - first) * I
  <2>1. \A k \in 1 .. Len(s) : Len(s[k]) = I
    BY <1>6, <1>7
  <2>2. Len(w) = Len(s) * I
    BY <1>0, <1>6, <2>1, FlattenLength
  <2>3. QED
    BY <1>2, <1>6, <2>2
<1>10. ASSUME NEW p \in 1 .. Len(w)
       PROVE  \E num \in ItemRange(o) : w[p] = ItemOf(o, num)
  <2>1. PICK k \in 1 .. Len(s) : \E x \in 1 .. Len(s[k]) : w[p] = s[k][x]
    BY <1>6, FlattenFrom
  <2>2. PICK i \in 1 .. Len(s[k]) : w[p] = s[k][i]
    BY <2>1
  <2>3. k \in 1 .. n
    BY <1>6
  <2>4. i \in 1 .. I
    BY <1>7, <2>3
  <2>5. w[p] = ItemOf(o, Num(k, i)) /\ Num(k, i) \in ItemRange(o)
    BY <1>5, <1>7, <2>2, <2>3, <2>4
  <2>6. QED
    BY <2>5
<1>11. ASSUME NEW num \in ItemRange(o)
       PROVE  \E p \in 1 .. Len(w) : w[p] = ItemOf(o, num)
  <2>1. PICK d \in first .. N - 1, i \in 1 .. I : num = d * I + i - 1
    BY <1>3, <1>4
  <2>2. PICK k \in 1 .. n : DirNumber(places[k]) = d
    BY <1>2
  <2>3. num = Num(k, i)
    BY <2>1, <2>2
  <2> HIDE DEF Num
  <2>4. k \in 1 .. Len(s) /\ i \in 1 .. Len(s[k]) /\ s[k][i] = ItemOf(o, num)
    BY <1>6, <1>7, <2>3
  <2>5. \E p \in 1 .. Len(w) : w[p] = s[k][i]
    BY <1>6, <2>4, FlattenKeeps
  <2>6. QED
    BY <2>4, <2>5
<1> HIDE DEF w
<1>12. QED
  BY <1>1, <1>8, <1>9, <1>10, <1>11 DEF ItemsOnce, X, N, first, I

-----------------------------------------------------------------------------
(* The options the tests run with *)

\* Options whose defaults are filled in and that were accepted describe a tree, and have
\* item counts.
LEMMA DefaultsKeep ==
  ASSUME NEW q \in Options
  PROVE  LET d == WithDefaults(q)
         IN  /\ d.depth = q.depth /\ d.branch_factor = q.branch_factor
             /\ d.items = q.items /\ d.items_per_dir = q.items_per_dir
             /\ d.leaf_only = q.leaf_only /\ d.unique_dir_per_task = q.unique_dir_per_task
             /\ d.randomize = q.randomize /\ d.iterations = q.iterations
             /\ DOMAIN d = DOMAIN DefaultOptions
  BY DEF Options, WithDefaults, DefaultOptions

LEMMA PreparedKeeps ==
  ASSUME NEW q \in Options
  PROVE  LET d == WithDefaults(q)
             p == Prepared(q)
         IN  /\ p.depth = d.depth /\ p.branch_factor = d.branch_factor
             /\ p.leaf_only = d.leaf_only /\ p.iterations = d.iterations
             /\ p.items = Items(d) /\ p.items_per_dir = ItemsPerDir(d)
             /\ p.directory_loops = DirectoryLoops(d)
             /\ p.num_dirs_in_tree_calc = CalcFactor(d)
<1> DEFINE d == WithDefaults(q)
<1>1. DOMAIN d = DOMAIN DefaultOptions
  BY DefaultsKeep
<1>2. Prepared(q) = [d EXCEPT !.items = Items(d), !.items_per_dir = ItemsPerDir(d),
                              !.directory_loops = DirectoryLoops(d),
                              !.num_dirs_in_tree_calc = CalcFactor(d),
                              !.nstride = @ * NodeShift]
  BY DEF Prepared
<1> HIDE DEF d
<1>3. QED
  BY <1>1, <1>2 DEF DefaultOptions, d

LEMMA AcceptedIsTree ==
  ASSUME NEW q \in Options, Valid(q)
  PROVE  LET d == WithDefaults(q)
         IN  IsTree(d) /\ d.items \in Nat /\ d.items_per_dir \in Nat /\ d.leaf_only \in BOOLEAN
<1> DEFINE d == WithDefaults(q)
<1>1. /\ d.depth = q.depth /\ d.branch_factor = q.branch_factor
      /\ d.items = q.items /\ d.items_per_dir = q.items_per_dir /\ d.leaf_only = q.leaf_only
  BY DefaultsKeep
<1>2. /\ q.depth \in Int /\ q.branch_factor \in Nat /\ q.items \in Nat
      /\ q.items_per_dir \in Nat /\ q.leaf_only \in BOOLEAN
  BY DEF Options
<1> HIDE DEF d
<1>3. d.depth >= 0 /\ ~(d.branch_factor < 1 /\ d.depth > 0)
  BY DEF Valid, Accepted, d
<1>4. IsTree(d)
  BY <1>1, <1>2, <1>3 DEF IsTree
<1>5. QED
  BY <1>1, <1>2, <1>4 DEF d

\* The roundings of mdtest_run.
LEMMA Rounded ==
  ASSUME NEW d, IsTree(d), d.items \in Nat, d.items_per_dir \in Nat, d.leaf_only \in BOOLEAN
  PROVE  /\ ItemsPerDir(d) \in Nat /\ Items(d) \in Nat
         /\ CalcFactor(d) = 0 =>
              Items(d) = (NumDirs(d) - FirstItemDir(d)) * ItemsPerDir(d)
<1> DEFINE N == NumDirs(d)
           L == NumLeaves(d)
           M == IF d.leaf_only THEN L ELSE N
<1>1. N \in Nat \ {0}
  BY PlacesAre
<1>2. L \in Nat \ {0} /\ (d.branch_factor <= 1 => L = 1)
  BY LeavesArePositive
<1>3. N - FirstItemDir(d) = M
  BY FirstItemDirIs
<1>4. ItemsPerDir(d) \in Nat
  <2>1. d.items \div N \in Nat /\ d.items \div L \in Nat
    <3> DEFINE k == d.items
    <3>1. k \in Nat
      OBVIOUS
    <3> HIDE DEF N, L, k
    <3>2. k \div N \in Nat /\ k \div L \in Nat
      BY <1>1, <1>2, <3>1
    <3>3. QED
      BY <3>2 DEF k
  <2>2. QED
    BY <2>1 DEF ItemsPerDir
<1>5. Items(d) = IF d.items_per_dir > 0 /\ d.items > 0 THEN d.items
                 ELSE IF d.items_per_dir = 0 /\ d.leaf_only /\ d.branch_factor <= 1 THEN d.items
                 ELSE ItemsPerDir(d) * M
  BY DEF Items
<1>6. d.items_per_dir = 0 /\ d.leaf_only /\ d.branch_factor <= 1 => ItemsPerDir(d) = d.items
  BY DEF ItemsPerDir
<1>7. d.items_per_dir > 0 /\ d.items > 0 => CalcFactor(d) = N
  BY DEF CalcFactor
<1> HIDE DEF N, L
<1>8. M \in Nat /\ (d.leaf_only /\ d.branch_factor <= 1 => M = 1)
  BY <1>1, <1>2
<1> HIDE DEF M
<1> DEFINE I == ItemsPerDir(d)
<1> HIDE DEF I
<1>9. I \in Nat
  BY <1>4 DEF I
<1>10. I * M \in Nat /\ I * M = M * I
  BY <1>8, <1>9
<1>11. CASE d.items_per_dir > 0 /\ d.items > 0
  <2>1. Items(d) = d.items /\ CalcFactor(d) # 0
    BY <1>1, <1>5, <1>7, <1>11
  <2>2. QED
    BY <1>4, <2>1
<1>12. CASE ~(d.items_per_dir > 0 /\ d.items > 0)
  <2>1. CASE d.items_per_dir = 0 /\ d.leaf_only /\ d.branch_factor <= 1
    <3>1. Items(d) = I /\ M = 1
      BY <1>5, <1>6, <1>8, <1>12, <2>1 DEF I
    <3>2. M * I = I
      BY <1>9, <3>1
    <3>3. QED
      BY <1>3, <1>9, <3>1, <3>2 DEF I, N
  <2>2. CASE ~(d.items_per_dir = 0 /\ d.leaf_only /\ d.branch_factor <= 1)
    <3>1. Items(d) = I * M
      BY <1>5, <1>12, <2>2 DEF I
    <3>2. QED
      BY <1>3, <1>9, <1>10, <3>1 DEF I, N
  <2>3. QED
    BY <2>1, <2>2
<1>13. QED
  BY <1>11, <1>12

\* What the tests run with.
LEMMA PreparedIs ==
  ASSUME NEW q \in Options, Valid(q)
  PROVE  LET p == Prepared(q)
         IN  /\ IsTree(p) /\ p.items_per_dir \in Nat /\ p.items \in Nat
             /\ p.num_dirs_in_tree_calc = 0 =>
                  p.items = (NumDirs(p) - FirstItemDir(p)) * p.items_per_dir
             /\ p.directory_loops \in Nat /\ p.iterations \in Int
<1> DEFINE d == WithDefaults(q)
           p == Prepared(q)
<1>1. IsTree(d) /\ d.items \in Nat /\ d.items_per_dir \in Nat /\ d.leaf_only \in BOOLEAN
  BY AcceptedIsTree
<1>2. /\ p.depth = d.depth /\ p.branch_factor = d.branch_factor /\ p.leaf_only = d.leaf_only
      /\ p.items = Items(d) /\ p.items_per_dir = ItemsPerDir(d)
      /\ p.num_dirs_in_tree_calc = CalcFactor(d) /\ p.directory_loops = DirectoryLoops(d)
  BY PreparedKeeps
<1> HIDE DEF d, p
<1>3. /\ ItemsPerDir(d) \in Nat /\ Items(d) \in Nat
      /\ CalcFactor(d) = 0 => Items(d) = (NumDirs(d) - FirstItemDir(d)) * ItemsPerDir(d)
  BY <1>1, Rounded
<1>4. NumDirs(p) = NumDirs(d) /\ NumLeaves(p) = NumLeaves(d)
  BY <1>2 DEF NumDirs, NumLeaves
<1>5. FirstItemDir(p) = FirstItemDir(d)
  BY <1>2, <1>4 DEF FirstItemDir
<1>6. IsTree(p)
  BY <1>1, <1>2 DEF IsTree
<1>7. p.directory_loops \in Nat
  <2> DEFINE n == d.items
             m == d.items_per_dir
  <2>1. n \in Nat /\ m \in Nat
    BY <1>1
  <2>2. DirectoryLoops(d) \in {n \div m, 1} /\ (DirectoryLoops(d) # 1 => m > 0)
    BY DEF DirectoryLoops
  <2> HIDE DEF n, m
  <2>3. m > 0 => n \div m \in Nat
    BY <2>1
  <2>4. QED
    BY <1>2, <2>2, <2>3
<1>8. p.iterations \in Int
  <2>1. q.iterations \in Int
    BY DEF Options
  <2>2. QED
    BY <2>1, PreparedKeeps, DefaultsKeep DEF p
<1>9. QED
  BY <1>2, <1>3, <1>4, <1>5, <1>6, <1>7, <1>8 DEF p
=============================================================================
