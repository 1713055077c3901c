----------------------------- MODULE CommonLemmas ----------------------------
(***************************************************************************)
(* Facts about numbers, sums and sequences that several of the proofs      *)
(* need.                                                                   *)
(*                                                                         *)
(* The folds of the community modules (MapThenSumSet, FlattenSeq) are      *)
(* recursive functions inside a LET, that is, a choice among the functions *)
(* that satisfy an equation.  Two things have to be shown of them: that    *)
(* such a function exists, and what any such function is worth.  Both are  *)
(* shown by induction over the size, which takes the form of a set of      *)
(* numbers that holds 0 and with each number the next one.                 *)
(***************************************************************************)
EXTENDS Integers, SequencesExt, FiniteSetTheorems, WellFoundedInduction, TLAPS

LEMMA LessIsWellFounded == IsWellFoundedOn({ss \in Nat \X Nat : ss[1] < ss[2]}, Nat)
  BY NatLessThanWellFounded DEF OpToRel

\* Induction over the natural numbers, for a set of them.
LEMMA NatSetInduction ==
  ASSUME NEW S, 0 \in S, \A n \in Nat : n \in S => n + 1 \in S
  PROVE  \A n \in Nat : n \in S
<1> DEFINE R == {ss \in Nat \X Nat : ss[1] < ss[2]}
           T == Nat \ S
<1>1. SUFFICES ASSUME T # {}
               PROVE  FALSE
  OBVIOUS
<1>2. PICK least \in T : \A y \in T : ~(<<y, least>> \in R)
  <2> HIDE DEF T, R
  <2>1. T \subseteq Nat
    BY DEF T
  <2>2. QED
    BY <1>1, <2>1, LessIsWellFounded, WFMin DEF R
<1>3. least \in Nat /\ least # 0 /\ least - 1 \in Nat /\ least - 1 < least
  OBVIOUS
<1>4. least - 1 \notin T
  BY <1>2, <1>3
<1>5. least - 1 \in S /\ (least - 1) + 1 = least
  BY <1>3, <1>4
<1>6. QED
  BY <1>3, <1>5

-----------------------------------------------------------------------------
(* Division *)

LEMMA Division ==
  ASSUME NEW N \in Nat \ {0}, NEW x \in Int
  PROVE  /\ x % N \in 0 .. N - 1 /\ x \div N \in Int
         /\ x = N * (x \div N) + (x % N)
  OBVIOUS

LEMMA RemainderUnique ==
  ASSUME NEW N \in Nat \ {0}, NEW q \in Int, NEW p \in Int,
         NEW m \in 0 .. N - 1, NEW k \in 0 .. N - 1, N * q + m = N * p + k
  PROVE  m = k
<1>1. N * (q - p) = k - m
  OBVIOUS
<1>2. ~(q - p >= 1)
  <2>1. q - p >= 1 => N * (q - p) >= N
    OBVIOUS
  <2>2. QED
    BY <1>1, <2>1
<1>3. ~(q - p <= -1)
  <2>1. q - p <= -1 => N * (q - p) <= -N
    OBVIOUS
  <2>2. QED
    BY <1>1, <2>1
<1>4. QED
  BY <1>1, <1>2, <1>3

LEMMA TimesMonotone ==
  ASSUME NEW a \in Int, NEW b \in Int, a <= b, NEW n \in Nat
  PROVE  a * n <= b * n
<1>1. (b - a) * n >= 0
  OBVIOUS
<1>2. (b - a) * n = b * n - a * n
  OBVIOUS
<1>3. QED
  BY <1>1, <1>2

\* The places of a table with A rows of B are numbered from 0, row by row, without a gap.
LEMMA RowByRow ==
  ASSUME NEW A \in Nat, NEW B \in Nat \ {0}
  PROVE  /\ \A a \in 0 .. A - 1, b \in 0 .. B - 1 : a * B + b \in 0 .. A * B - 1
         /\ \A m \in 0 .. A * B - 1 : \E a \in 0 .. A - 1, b \in 0 .. B - 1 : m = a * B + b
<1>1. ASSUME NEW a \in 0 .. A - 1, NEW b \in 0 .. B - 1
      PROVE  a * B + b \in 0 .. A * B - 1
  <2>1. a * B <= (A - 1) * B /\ 0 * B <= a * B
    BY TimesMonotone
  <2>2. (A - 1) * B = A * B - B /\ 0 * B = 0
    OBVIOUS
  <2>3. a * B \in Int /\ A * B \in Int
    OBVIOUS
  <2>4. QED
    BY <2>1, <2>2, <2>3
<1>2. ASSUME NEW m \in 0 .. A * B - 1
      PROVE  \E a \in 0 .. A - 1, b \in 0 .. B - 1 : m = a * B + b
  <2> DEFINE a == m \div B
             b == m % B
  <2>0. m \in Int /\ A * B \in Int
    OBVIOUS
  <2>1. a \in Int /\ b \in 0 .. B - 1 /\ m = B * a + b
    BY <2>0, Division
  <2> HIDE DEF a, b
  <2>2. B * a = a * B /\ a * B \in Int
    BY <2>1
  <2>3. ~(a >= A)
    <3>1. a >= A => A * B <= a * B
      BY <2>1, TimesMonotone
    <3>2. QED
      BY <2>0, <2>1, <2>2, <3>1
  <2>4. ~(a <= -1)
    <3>1. a <= -1 => a * B <= (-1) * B
      BY <2>1, TimesMonotone
    <3>2. (-1) * B = -B
      OBVIOUS
    <3>3. QED
      BY <2>0, <2>1, <2>2, <3>1, <3>2
  <2>5. a \in 0 .. A - 1
    BY <2>1, <2>3, <2>4
  <2>6. QED
    BY <2>1, <2>2, <2>5
<1>3. QED
  BY <1>1, <1>2

\* Among N, everyone is somebody's neighbour `shift` further on ...
LEMMA ShiftReaches ==
  ASSUME NEW N \in Nat \ {0}, NEW shift \in Nat, NEW m \in 0 .. N - 1
  PROVE  \E r \in 0 .. N - 1 : (r + shift) % N = m
<1> DEFINE r == (m - shift) % N
           q == (m - shift) \div N
           k == (r + shift) % N
           p == (r + shift) \div N
<1>1. r \in 0 .. N - 1 /\ q \in Int /\ m - shift = N * q + r
  <2>1. m - shift \in Int
    OBVIOUS
  <2>2. QED
    BY <2>1, Division
<1> HIDE DEF r, q
<1>2. k \in 0 .. N - 1 /\ p \in Int /\ r + shift = N * p + k
  <2>1. r + shift \in Int
    BY <1>1
  <2>2. QED
    BY <2>1, Division
<1> HIDE DEF k, p
<1>3. N * (q + p) + k = N * 0 + m
  BY <1>1, <1>2
<1>4. k = m
  BY <1>1, <1>2, <1>3, RemainderUnique
<1>5. QED
  BY <1>1, <1>4 DEF r, k

\* ... of one only.
LEMMA ShiftUnique ==
  ASSUME NEW N \in Nat \ {0}, NEW s \in Nat, NEW r \in 0 .. N - 1, NEW q \in 0 .. N - 1,
         (r + s) % N = (q + s) % N
  PROVE  r = q
<1> DEFINE a == (r + s) \div N
           b == (q + s) \div N
           m == (r + s) % N
           k == (q + s) % N
<1>1. a \in Int /\ m \in 0 .. N - 1 /\ r + s = N * a + m
  <2>1. r + s \in Int
    OBVIOUS
  <2>2. QED
    BY <2>1, Division
<1>2. b \in Int /\ k \in 0 .. N - 1 /\ q + s = N * b + k
  <2>1. q + s \in Int
    OBVIOUS
  <2>2. QED
    BY <2>1, Division
<1>3. m = k
  OBVIOUS
<1> HIDE DEF a, b, m, k
<1>4. N * a \in Int /\ N * b \in Int
  BY <1>1, <1>2
<1>5. N * b + r = N * a + q
  BY <1>1, <1>2, <1>3, <1>4
<1>6. QED
  BY <1>1, <1>2, <1>5, RemainderUnique

-----------------------------------------------------------------------------
(* Sums over finite sets *)

Pick(s) == CHOOSE y \in s : TRUE

\* g is the function that MapThenSumSet(LAMBDA x : f[x], S) evaluates at S, on the
\* family F of subsets of S.
Sums(g, f, F) == g = [s \in F |-> IF s = {} THEN 0 ELSE f[Pick(s)] + g[s \ {Pick(s)}]]

UpTo(S, n) == {s \in SUBSET S : Cardinality(s) <= n}

LEMMA LessByOne ==
  ASSUME NEW S, IsFiniteSet(S), NEW s \in SUBSET S, s # {}
  PROVE  /\ Pick(s) \in s /\ s \ {Pick(s)} \in SUBSET S
         /\ Cardinality(s) \in Nat \ {0}
         /\ Cardinality(s \ {Pick(s)}) = Cardinality(s) - 1
<1>1. Pick(s) \in s
  BY DEF Pick
<1>2. IsFiniteSet(s)
  BY FS_Subset
<1>3. Cardinality(s) \in Nat /\ Cardinality(s) # 0
  BY <1>2, FS_CardinalityType, FS_EmptySet
<1>4. QED
  BY <1>1, <1>2, <1>3, FS_RemoveElement

LEMMA SumsExist ==
  ASSUME NEW S, IsFiniteSet(S), NEW f
  PROVE  \E g : Sums(g, f, SUBSET S)
<1> DEFINE N == {n \in Nat : \E g : Sums(g, f, UpTo(S, n))}
<1>1. 0 \in N
  <2> DEFINE g == [s \in UpTo(S, 0) |-> 0]
  <2>1. \A s \in UpTo(S, 0) : s = {}
    <3>1. \A s \in SUBSET S : s # {} => Cardinality(s) \in Nat \ {0}
      BY LessByOne
    <3>2. QED
      BY <3>1 DEF UpTo
  <2>2. Sums(g, f, UpTo(S, 0))
    BY <2>1 DEF Sums
  <2>3. QED
    BY <2>2
<1>2. ASSUME NEW n \in Nat, n \in N
      PROVE  n + 1 \in N
  <2>1. PICK g : Sums(g, f, UpTo(S, n))
    BY <1>2
  <2> DEFINE h == [s \in UpTo(S, n + 1) |->
                     IF s = {} THEN 0 ELSE f[Pick(s)] + g[s \ {Pick(s)}]]
  <2>2. ASSUME NEW s \in UpTo(S, n + 1), s # {}
        PROVE  s \ {Pick(s)} \in UpTo(S, n) /\ s \ {Pick(s)} \in UpTo(S, n + 1)
    <3>1. s \in SUBSET S /\ Cardinality(s) <= n + 1
      BY DEF UpTo
    <3>2. QED
      BY <2>2, <3>1, LessByOne DEF UpTo
  <2>3. ASSUME NEW s \in UpTo(S, n), s \in UpTo(S, n + 1)
        PROVE  h[s] = g[s]
    BY <2>1, <2>3 DEF Sums
  <2> DEFINE k == [s \in UpTo(S, n + 1) |->
                     IF s = {} THEN 0 ELSE f[Pick(s)] + h[s \ {Pick(s)}]]
  <2>4. ASSUME NEW s \in UpTo(S, n + 1)
        PROVE  h[s] = k[s]
    <3> HIDE DEF h
    <3>1. s # {} => h[s \ {Pick(s)}] = g[s \ {Pick(s)}]
      BY <2>2, <2>3
    <3>2. QED
      BY <3>1 DEF h
  <2>5. h = k
    <3>1. h = [s \in UpTo(S, n + 1) |-> h[s]]
      OBVIOUS
    <3>2. k = [s \in UpTo(S, n + 1) |-> k[s]]
      OBVIOUS
    <3> HIDE DEF h, k
    <3>3. QED
      BY <2>4, <3>1, <3>2
  <2>6. Sums(h, f, UpTo(S, n + 1))
    <3> HIDE DEF h
    <3>1. QED
      BY <2>5 DEF Sums
  <2>7. QED
    BY <2>6
<1>3. \A n \in Nat : n \in N
  <2> HIDE DEF N
  <2>1. QED
    BY <1>1, <1>2, NatSetInduction
<1>4. UpTo(S, Cardinality(S)) = SUBSET S /\ Cardinality(S) \in Nat
  <2>1. Cardinality(S) \in Nat
    BY FS_CardinalityType
  <2>2. \A s \in SUBSET S : Cardinality(s) <= Cardinality(S)
    BY FS_Subset
  <2>3. QED
    BY <2>1, <2>2 DEF UpTo
<1>5. QED
  BY <1>3, <1>4

\* A sum of numbers up to b is at most as many times b as it has terms, and is that much
\* only if every term is b.
LEMMA SumBound ==
  ASSUME NEW S, IsFiniteSet(S), NEW b \in Nat, NEW f, \A x \in S : f[x] \in 0 .. b,
         NEW g, Sums(g, f, SUBSET S)
  PROVE  /\ g[S] \in 0 .. Cardinality(S) * b
         /\ g[S] = Cardinality(S) * b => \A x \in S : f[x] = b
<1> DEFINE Bounded(s) == /\ g[s] \in 0 .. Cardinality(s) * b
                         /\ g[s] = Cardinality(s) * b => \A x \in s : f[x] = b
           N == {n \in Nat : \A s \in SUBSET S : Cardinality(s) = n => Bounded(s)}
<1>1. ASSUME NEW s \in SUBSET S
      PROVE  g[s] = IF s = {} THEN 0 ELSE f[Pick(s)] + g[s \ {Pick(s)}]
  BY DEF Sums
<1>2. 0 \in N
  <2> SUFFICES ASSUME NEW s \in SUBSET S, Cardinality(s) = 0
               PROVE  Bounded(s)
    OBVIOUS
  <2>1. s = {}
    BY FS_Subset, FS_EmptySet
  <2>2. g[s] = 0
    BY <1>1, <2>1
  <2>3. QED
    BY <2>1, <2>2
<1>3. ASSUME NEW n \in Nat, n \in N
      PROVE  n + 1 \in N
  <2> SUFFICES ASSUME NEW s \in SUBSET S, Cardinality(s) = n + 1
               PROVE  Bounded(s)
    OBVIOUS
  <2> DEFINE x == Pick(s)
             t == s \ {x}
  <2>1. s # {}
    <3>1. Cardinality({}) = 0 /\ n + 1 # 0
      BY FS_EmptySet
    <3>2. QED
      BY <3>1
  <2>2. x \in s /\ t \in SUBSET S /\ Cardinality(t) = n
    <3>1. x \in s /\ t \in SUBSET S /\ Cardinality(t) = Cardinality(s) - 1
      BY <2>1, LessByOne
    <3> HIDE DEF x, t
    <3>2. QED
      BY <3>1
  <2>3. g[s] = f[x] + g[t]
    BY <1>1, <2>1
  <2>4. Bounded(t)
    BY <1>3, <2>2
  <2> HIDE DEF x, t
  <2>5. f[x] \in 0 .. b
    BY <2>2
  <2>6. (n + 1) * b = n * b + b
    OBVIOUS
  <2>7. n * b \in Nat
    OBVIOUS
  <2>8. g[s] \in 0 .. (n + 1) * b
    BY <2>2, <2>3, <2>4, <2>5, <2>6, <2>7
  <2>9. g[s] = (n + 1) * b => g[t] = n * b /\ f[x] = b
    BY <2>2, <2>3, <2>4, <2>5, <2>6, <2>7
  <2>10. g[s] = (n + 1) * b => \A y \in s : f[y] = b
    BY <2>2, <2>4, <2>9 DEF t
  <2>11. QED
    BY <2>8, <2>10
<1>4. \A n \in Nat : n \in N
  <2> HIDE DEF N
  <2>1. QED
    BY <1>2, <1>3, NatSetInduction
<1>5. QED
  BY <1>4, FS_CardinalityType

\* A sum may be taken in any order.
Orderless(g, f, S) ==
  \A s \in SUBSET S : g[s] \in Int /\ \A y \in s : g[s] = f[y] + g[s \ {y}]

LEMMA AnyOrder ==
  ASSUME NEW S, IsFiniteSet(S), NEW f, \A x \in S : f[x] \in Int,
         NEW g, Sums(g, f, SUBSET S)
  PROVE  Orderless(g, f, S)
<1> DEFINE Free(s) == g[s] \in Int /\ \A y \in s : g[s] = f[y] + g[s \ {y}]
           N == {n \in Nat : \A s \in SUBSET S : Cardinality(s) <= n => Free(s)}
<1>1. ASSUME NEW s \in SUBSET S
      PROVE  g[s] = IF s = {} THEN 0 ELSE f[Pick(s)] + g[s \ {Pick(s)}]
  BY DEF Sums
<1>2. ASSUME NEW s \in SUBSET S
      PROVE  IsFiniteSet(s) /\ Cardinality(s) \in Nat
  BY FS_Subset, FS_CardinalityType
<1>3. Free({})
  <2>1. g[{}] = 0
    BY <1>1
  <2>2. QED
    BY <2>1
<1>4. 0 \in N
  <2> SUFFICES ASSUME NEW s \in SUBSET S, Cardinality(s) <= 0
               PROVE  Free(s)
    OBVIOUS
  <2>1. s = {}
    BY <1>2, FS_EmptySet
  <2>2. QED
    BY <1>3, <2>1
<1>5. ASSUME NEW n \in Nat, n \in N
      PROVE  n + 1 \in N
  <2> SUFFICES ASSUME NEW s \in SUBSET S, Cardinality(s) <= n + 1
               PROVE  Free(s)
    OBVIOUS
  <2> DEFINE x == Pick(s)
  <2>1. IsFiniteSet(s) /\ Cardinality(s) \in Nat
    BY <1>2
  <2>2. CASE s = {}
    BY <1>3, <2>2
  <2> SUFFICES ASSUME s # {}
               PROVE  Free(s)
    BY <2>2
  <2>3. x \in s
    BY LessByOne
  <2>4. g[s] = f[x] + g[s \ {x}]
    BY <1>1
  <2> HIDE DEF x
  <2>5. ASSUME NEW y \in s
        PROVE  s \ {y} \in SUBSET S /\ Cardinality(s \ {y}) <= n /\ Free(s \ {y})
               /\ f[y] \in Int
    <3>1. Cardinality(s \ {y}) <= n
      <4>1. Cardinality(s \ {y}) = Cardinality(s) - 1
        BY <2>1, FS_RemoveElement
      <4>2. QED
        BY <2>1, <4>1
    <3>2. QED
      BY <1>5, <3>1
  <2>6. g[s] \in Int
    <3>1. f[x] \in Int /\ g[s \ {x}] \in Int
      BY <2>3, <2>5
    <3>2. QED
      BY <2>4, <3>1
  <2>7. ASSUME NEW y \in s, y # x
        PROVE  g[s] = f[y] + g[s \ {y}]
    <3> DEFINE rest == s \ {x, y}
    <3>1. (s \ {x}) \ {y} = rest /\ (s \ {y}) \ {x} = rest
      OBVIOUS
    <3>2. y \in s \ {x} /\ x \in s \ {y}
      BY <2>3, <2>7
    <3>3. g[s \ {x}] = f[y] + g[rest]
      BY <2>3, <2>5, <3>1, <3>2
    <3>4. g[s \ {y}] = f[x] + g[rest]
      BY <2>5, <3>1, <3>2
    <3>5. g[rest] \in Int
      <4>1. rest \in SUBSET S /\ rest \subseteq s \ {x} /\ s \ {x} \in SUBSET S
        OBVIOUS
      <4>2. Cardinality(rest) <= Cardinality(s \ {x}) /\ Cardinality(s \ {x}) <= n
        BY <1>2, <2>3, <2>5, <4>1, FS_Subset
      <4>3. Cardinality(rest) \in Nat /\ Cardinality(s \ {x}) \in Nat
        BY <1>2, <4>1
      <4>4. Cardinality(rest) <= n
        BY <4>2, <4>3
      <4>5. QED
        BY <1>5, <4>1, <4>4
    <3> HIDE DEF rest
    <3>6. f[x] \in Int /\ f[y] \in Int
      BY <2>3, <2>5
    <3>7. QED
      BY <2>4, <3>3, <3>4, <3>5, <3>6
  <2>8. QED
    BY <2>4, <2>6, <2>7
<1>6. \A n \in Nat : n \in N
  <2> HIDE DEF N
  <2>1. QED
    BY <1>4, <1>5, NatSetInduction
<1>7. ASSUME NEW s \in SUBSET S
      PROVE  Free(s)
  <2> HIDE DEF Free
  <2>1. Cardinality(s) \in N /\ Cardinality(s) <= Cardinality(s)
    BY <1>2, <1>6
  <2>2. QED
    BY <2>1
<1>8. QED
  BY <1>7 DEF Orderless

\* Two sums whose terms are paired off are equal.
Paired(b, S, f, T, h) ==
  /\ T = {b[x] : x \in S}
  /\ \A x \in S, y \in S : b[x] = b[y] => x = y
  /\ \A x \in S : f[x] = h[b[x]] /\ f[x] \in Int

PairedSums(b, S, f, g, T, h, k) ==
  /\ Paired(b, S, f, T, h)
  /\ IsFiniteSet(S) /\ Sums(g, f, SUBSET S)
  /\ IsFiniteSet(T) /\ Sums(k, h, SUBSET T)

LEMMA SumsAgree ==
  ASSUME NEW b, NEW S, NEW f, NEW g, NEW T, NEW h, NEW k, PairedSums(b, S, f, g, T, h, k)
  PROVE  g[S] = k[T]
<1> DEFINE Image(s) == {b[x] : x \in s}
           N == {n \in Nat : \A s \in SUBSET S : Cardinality(s) = n => g[s] = k[Image(s)]}
<1>0. /\ IsFiniteSet(S) /\ Sums(g, f, SUBSET S)
      /\ IsFiniteSet(T) /\ Sums(k, h, SUBSET T)
      /\ T = {b[x] : x \in S}
      /\ \A x \in S, y \in S : b[x] = b[y] => x = y
      /\ \A x \in S : f[x] = h[b[x]] /\ f[x] \in Int
  BY DEF PairedSums, Paired
<1>1. Orderless(g, f, S) /\ Orderless(k, h, T)
  <2>1. \A x \in S : f[x] \in Int
    BY <1>0
  <2>2. \A y \in T : h[y] \in Int
    BY <1>0
  <2>3. QED
    BY <1>0, <2>1, <2>2, AnyOrder
<1>2. 0 \in N
  <2> SUFFICES ASSUME NEW s \in SUBSET S, Cardinality(s) = 0
               PROVE  g[s] = k[Image(s)]
    OBVIOUS
  <2>1. s = {}
    BY <1>0, FS_Subset, FS_EmptySet
  <2>2. g[{}] = 0 /\ k[{}] = 0
    BY <1>0 DEF Sums
  <2>3. Image(s) = {}
    BY <2>1
  <2>4. QED
    BY <2>1, <2>2, <2>3
<1>3. ASSUME NEW n \in Nat, n \in N
      PROVE  n + 1 \in N
  <2> SUFFICES ASSUME NEW s \in SUBSET S, Cardinality(s) = n + 1
               PROVE  g[s] = k[Image(s)]
    <3> HIDE DEF Image
    <3>1. QED
      OBVIOUS
  <2> DEFINE x == Pick(s)
  <2>1. s # {} /\ IsFiniteSet(s)
    <3>1. Cardinality({}) = 0 /\ n + 1 # 0
      BY FS_EmptySet
    <3>2. QED
      BY <1>0, <3>1, FS_Subset
  <2>2. x \in s
    BY <1>0, <2>1, LessByOne
  <2> HIDE DEF x
  <2>3. Cardinality(s \ {x}) = n
    <3>1. Cardinality(s \ {x}) = Cardinality(s) - 1
      BY <2>1, <2>2, FS_RemoveElement
    <3>2. QED
      BY <3>1
  <2>4. g[s \ {x}] = k[Image(s \ {x})]
    BY <1>3, <2>3
  <2>5. Image(s) \ {b[x]} = Image(s \ {x}) /\ Image(s) \in SUBSET T /\ b[x] \in Image(s)
    BY <1>0, <2>2
  <2>6. g[s] = f[x] + g[s \ {x}]
    BY <1>1, <2>2 DEF Orderless
  <2>7. k[Image(s)] = h[b[x]] + k[Image(s \ {x})]
    <3> DEFINE m == Image(s)
               z == b[x]
    <3>1. m \in SUBSET T /\ z \in m /\ m \ {z} = Image(s \ {x})
      BY <2>5
    <3> HIDE DEF m, z, Image
    <3>2. k[m] = h[z] + k[m \ {z}]
      BY <1>1, <3>1 DEF Orderless
    <3>3. QED
      BY <3>1, <3>2 DEF m, z
  <2>8. f[x] = h[b[x]]
    BY <1>0, <2>2
  <2>9. QED
    BY <2>4, <2>6, <2>7, <2>8
<1>4. \A n \in Nat : n \in N
  <2> HIDE DEF N
  <2>1. QED
    BY <1>2, <1>3, NatSetInduction
<1>5. Image(S) = T /\ Cardinality(S) \in Nat /\ S \in SUBSET S
  BY <1>0, FS_CardinalityType
<1>6. QED
  BY <1>4, <1>5

-----------------------------------------------------------------------------
(* Sequences of sequences, joined *)

LEMMA Joined ==
  ASSUME NEW S, NEW a \in Seq(S), NEW b \in Seq(S)
  PROVE  a \o b \in Seq(S)
  OBVIOUS

\* g is the function that FlattenSeq(s) evaluates at Len(s), up to n.
Joins(g, s, n) == g = [i \in 1 .. n |-> IF i = 1 THEN s[i] ELSE g[i - 1] \o s[i]]

LEMMA JoinsExist ==
  ASSUME NEW s, NEW n \in Nat
  PROVE  \E g : Joins(g, s, n)
<1> DEFINE N == {m \in Nat : \E g : Joins(g, s, m)}
<1>1. 0 \in N
  <2> DEFINE g == [i \in 1 .. 0 |-> s]
             h == [i \in 1 .. 0 |-> IF i = 1 THEN s[i] ELSE g[i - 1] \o s[i]]
  <2>1. 1 .. 0 = {}
    OBVIOUS
  <2>2. g = h
    BY <2>1
  <2>3. Joins(g, s, 0)
    <3> HIDE DEF g
    <3>1. QED
      BY <2>2 DEF Joins
  <2>4. QED
    BY <2>3
<1>2. ASSUME NEW m \in Nat, m \in N
      PROVE  m + 1 \in N
  <2>1. PICK g : Joins(g, s, m)
    BY <1>2
  <2> DEFINE h == [i \in 1 .. m + 1 |-> IF i = 1 THEN s[i] ELSE g[i - 1] \o s[i]]
             k == [i \in 1 .. m + 1 |-> IF i = 1 THEN s[i] ELSE h[i - 1] \o s[i]]
  <2>2. \A i \in 1 .. m : h[i] = g[i]
    <3>1. \A i \in 1 .. m : i \in 1 .. m + 1
      OBVIOUS
    <3>2. \A i \in 1 .. m : g[i] = IF i = 1 THEN s[i] ELSE g[i - 1] \o s[i]
      BY <2>1 DEF Joins
    <3>3. QED
      BY <3>1, <3>2
  <2>3. \A i \in 1 .. m + 1 : i # 1 => i - 1 \in 1 .. m
    OBVIOUS
  <2>4. ASSUME NEW i \in 1 .. m + 1
        PROVE  h[i] = k[i]
    <3> HIDE DEF h
    <3>1. i # 1 => h[i - 1] = g[i - 1]
      BY <2>2, <2>3
    <3>2. h[i] = IF i = 1 THEN s[i] ELSE g[i - 1] \o s[i]
      BY DEF h
    <3>3. k[i] = IF i = 1 THEN s[i] ELSE h[i - 1] \o s[i]
      OBVIOUS
    <3> HIDE DEF k
    <3>4. QED
      BY <3>1, <3>2, <3>3
  <2>5. h = k
    <3>1. h = [i \in 1 .. m + 1 |-> h[i]] /\ k = [i \in 1 .. m + 1 |-> k[i]]
      OBVIOUS
    <3> HIDE DEF h, k
    <3>2. QED
      BY <2>4, <3>1
  <2>6. Joins(h, s, m + 1)
    <3> HIDE DEF h
    <3>1. QED
      BY <2>5 DEF Joins
  <2>7. QED
    BY <2>6
<1>3. \A m \in Nat : m \in N
  <2> HIDE DEF N
  <2>1. QED
    BY <1>1, <1>2, NatSetInduction
<1>4. QED
  BY <1>3

\* Place p of f is in a copy of e that begins behind place c.
InCopy(f, p, e, c) ==
  /\ c \in Nat /\ c < p /\ p <= c + Len(e) /\ c + Len(e) <= Len(f)
  /\ \A x \in 1 .. Len(e) : f[c + x] = e[x]

\* FlattenSeq joins sequences over S to one, and every place of that is in a copy of one
\* of them.
LEMMA FlattenCopies ==
  ASSUME NEW S, NEW s \in Seq(Seq(S))
  PROVE  /\ FlattenSeq(s) \in Seq(S)
         /\ \A p \in 1 .. Len(FlattenSeq(s)) :
              \E b \in 1 .. Len(s) : \E c \in Nat : InCopy(FlattenSeq(s), p, s[b], c)
<1>1. CASE Len(s) = 0
  <2>1. FlattenSeq(s) = s /\ s = << >>
    BY <1>1 DEF FlattenSeq
  <2>2. QED
    BY <2>1
<1>2. CASE Len(s) # 0
  <2>1. Len(s) \in Nat /\ \A i \in 1 .. Len(s) : s[i] \in Seq(S)
    OBVIOUS
  <2> DEFINE G == CHOOSE g : Joins(g, s, Len(s))
  <2>2. FlattenSeq(s) = G[Len(s)]
    BY <1>2 DEF FlattenSeq, Joins
  <2>3. Joins(G, s, Len(s))
    BY <2>1, JoinsExist
  <2> HIDE DEF G
  <2>4. \A i \in 1 .. Len(s) : G[i] = IF i = 1 THEN s[i] ELSE G[i - 1] \o s[i]
    BY <2>3 DEF Joins
  <2> DEFINE Good(n) == /\ G[n] \in Seq(S)
                        /\ \A p \in 1 .. Len(G[n]) :
                             \E b \in 1 .. Len(s) : \E c \in Nat : InCopy(G[n], p, s[b], c)
             N == {n \in Nat : n + 1 <= Len(s) => Good(n + 1)}
  <2>5. 0 \in N
    <3>1. G[1] = s[1] /\ 1 \in 1 .. Len(s)
      BY <1>2, <2>1, <2>4
    <3>2. G[1] \in Seq(S) /\ Len(G[1]) \in Nat
      BY <2>1, <3>1
    <3>3. ASSUME NEW p \in 1 .. Len(G[1])
          PROVE  InCopy(G[1], p, s[1], 0)
      BY <3>1, <3>2 DEF InCopy
    <3>4. Good(1)
      BY <3>1, <3>2, <3>3
    <3> HIDE DEF Good
    <3>5. 0 + 1 = 1
      OBVIOUS
    <3>6. QED
      BY <3>4, <3>5
  <2>6. ASSUME NEW n \in Nat, n \in N
        PROVE  n + 1 \in N
    <3> SUFFICES ASSUME (n + 1) + 1 <= Len(s)
                 PROVE  Good((n + 1) + 1)
      OBVIOUS
    <3> DEFINE m == (n + 1) + 1
    <3>1. m \in 1 .. Len(s) /\ m # 1 /\ m - 1 = n + 1 /\ n + 1 <= Len(s)
      BY <2>1
    <3>2. Good(n + 1)
      BY <2>6, <3>1
    <3>3. G[m] = G[n + 1] \o s[m]
      BY <2>4, <3>1
    <3>4. G[n + 1] \in Seq(S) /\ s[m] \in Seq(S)
      BY <2>1, <3>1, <3>2
    <3> DEFINE a == G[n + 1]
               e == s[m]
    <3> HIDE DEF m
    <3>5. /\ G[m] \in Seq(S) /\ Len(G[m]) = Len(a) + Len(e) /\ Len(a) \in Nat /\ Len(e) \in Nat
          /\ \A x \in 1 .. Len(a) : G[m][x] = a[x]
          /\ \A x \in 1 .. Len(e) : G[m][Len(a) + x] = e[x]
      <4> HIDE DEF a, e
      <4>1. G[m] = a \o e /\ a \in Seq(S) /\ e \in Seq(S)
        BY <3>3, <3>4 DEF a, e
      <4>2. QED
        BY <4>1
    <3>6. ASSUME NEW p \in 1 .. Len(G[m]), p <= Len(a)
          PROVE  \E b \in 1 .. Len(s) : \E c \in Nat : InCopy(G[m], p, s[b], c)
      <4>1. PICK b \in 1 .. Len(s), c \in Nat : InCopy(a, p, s[b], c)
        BY <3>2, <3>5, <3>6
      <4>2. s[b] \in Seq(S) /\ Len(s[b]) \in Nat
        BY <2>1
      <4>3. \A x \in 1 .. Len(s[b]) : c + x \in 1 .. Len(a)
        <5> HIDE DEF a, e
        <5>1. QED
          BY <3>5, <4>1, <4>2 DEF InCopy
      <4>4. InCopy(G[m], p, s[b], c)
        <5> HIDE DEF a, e
        <5>1. QED
          BY SMTT(30), <3>5, <4>1, <4>2, <4>3 DEF InCopy
      <4>5. QED
        BY <4>4
    <3>7. ASSUME NEW p \in 1 .. Len(G[m]), ~(p <= Len(a))
          PROVE  InCopy(G[m], p, s[m], Len(a))
      <4>1. InCopy(G[m], p, e, Len(a))
        <5> HIDE DEF a, e
        <5>1. QED
          BY <3>5, <3>7 DEF InCopy
      <4>2. QED
        BY <4>1
    <3>8. Good(m)
      <4> HIDE DEF a, e
      <4>1. QED
        BY <3>1, <3>5, <3>6, <3>7
    <3>9. QED
      BY <3>8 DEF m
  <2>7. \A n \in Nat : n \in N
    <3> HIDE DEF N
    <3>1. QED
      BY <2>5, <2>6, NatSetInduction
  <2>8. Len(s) - 1 \in Nat /\ (Len(s) - 1) + 1 = Len(s)
    BY <1>2, <2>1
  <2>9. Good(Len(s))
    <3>1. Len(s) - 1 \in N
      BY <2>7, <2>8
    <3> HIDE DEF Good
    <3>2. QED
      BY <2>1, <2>8, <3>1
  <2>10. QED
    BY <2>2, <2>9
<1>3. QED
  BY <1>1, <1>2

\* e is a sequence, of whatever.
IsASeq(e) == e \in Seq({e[i] : i \in DOMAIN e})

LEMMA AnySeq ==
  ASSUME NEW S, NEW e \in Seq(S)
  PROVE  IsASeq(e)
<1>1. Len(e) \in Nat /\ DOMAIN e = 1 .. Len(e) /\ e = [i \in 1 .. Len(e) |-> e[i]]
  OBVIOUS
<1> DEFINE T == {e[i] : i \in DOMAIN e}
<1>2. \A i \in 1 .. Len(e) : e[i] \in T
  BY <1>1
<1> HIDE DEF T
<1>3. e \in [1 .. Len(e) -> T]
  BY <1>1, <1>2
<1>4. e \in Seq(T)
  BY <1>1, <1>3
<1>5. QED
  BY <1>4 DEF T, IsASeq

LEMMA FunctionSeq ==
  ASSUME NEW m \in Nat, NEW f, f = [i \in 1 .. m |-> f[i]]
  PROVE  IsASeq(f) /\ Len(f) = m /\ DOMAIN f = 1 .. m
<1> DEFINE T == {f[i] : i \in 1 .. m}
<1>1. \A i \in 1 .. m : f[i] \in T
  OBVIOUS
<1> HIDE DEF T
<1>2. f \in [1 .. m -> T]
  BY <1>1
<1>3. f \in Seq(T) /\ Len(f) = m
  BY <1>2
<1>4. QED
  BY <1>3, AnySeq

\* The same for sequences of which no element set is given.
LEMMA FlattenPieces ==
  ASSUME NEW f, IsASeq(f), \A i \in 1 .. Len(f) : IsASeq(f[i])
  PROVE  /\ IsASeq(FlattenSeq(f))
         /\ \A p \in 1 .. Len(FlattenSeq(f)) :
              \E b \in 1 .. Len(f) : \E c \in Nat : InCopy(FlattenSeq(f), p, f[b], c)
<1> DEFINE S == UNION {{f[i][x] : x \in DOMAIN f[i]} : i \in 1 .. Len(f)}
<1>1. Len(f) \in Nat /\ DOMAIN f = 1 .. Len(f) /\ f = [i \in 1 .. Len(f) |-> f[i]]
  BY DEF IsASeq
<1>2. ASSUME NEW i \in 1 .. Len(f)
      PROVE  f[i] \in Seq(S)
  <2> DEFINE e == f[i]
             T == {e[x] : x \in DOMAIN e}
  <2>1. e \in Seq(T)
    BY DEF IsASeq
  <2>2. \A x \in T : x \in S
    OBVIOUS
  <2> HIDE DEF S, T, e
  <2>3. e \in Seq(S)
    BY <2>1, <2>2
  <2>4. QED
    BY <2>3 DEF e
<1> HIDE DEF S
<1>3. f \in Seq(Seq(S))
  <2>1. f \in [1 .. Len(f) -> Seq(S)]
    BY <1>1, <1>2
  <2>2. QED
    BY <1>1, <2>1
<1>4. QED
  BY <1>3, FlattenCopies, AnySeq

\* Induction over the numbers from 1 to n.
LEMMA IndexInduction ==
  ASSUME NEW n \in Nat, NEW T, 1 \in T, \A m \in 1 .. n - 1 : m \in T => m + 1 \in T
  PROVE  \A m \in 1 .. n : m \in T
<1> DEFINE N == {k \in Nat : k + 1 \in 1 .. n => k + 1 \in T}
<1>1. 0 \in N
  OBVIOUS
<1>2. ASSUME NEW k \in Nat, k \in N
      PROVE  k + 1 \in N
  <2> SUFFICES ASSUME (k + 1) + 1 \in 1 .. n
               PROVE  (k + 1) + 1 \in T
    OBVIOUS
  <2>1. k + 1 \in 1 .. n - 1 /\ k + 1 \in 1 .. n
    OBVIOUS
  <2>2. QED
    BY <1>2, <2>1
<1>3. \A k \in Nat : k \in N
  <2> HIDE DEF N
  <2>1. QED
    BY <1>1, <1>2, NatSetInduction
<1>4. ASSUME NEW m \in 1 .. n
      PROVE  m \in T
  <2>1. m - 1 \in Nat /\ (m - 1) + 1 = m
    OBVIOUS
  <2>2. QED
    BY <1>3, <2>1
<1>5. QED
  BY <1>4

\* What FlattenSeq has joined after m of the sequences.
LEMMA FlattenIs ==
  ASSUME NEW S, NEW s \in Seq(Seq(S)), Len(s) # 0
  PROVE  \E g : /\ FlattenSeq(s) = g[Len(s)]
                /\ \A m \in 1 .. Len(s) : /\ g[m] \in Seq(S)
                                          /\ g[m] = IF m = 1 THEN s[m] ELSE g[m - 1] \o s[m]
<1>1. Len(s) \in Nat /\ \A i \in 1 .. Len(s) : s[i] \in Seq(S)
  OBVIOUS
<1> DEFINE G == CHOOSE g : Joins(g, s, Len(s))
<1>2. FlattenSeq(s) = G[Len(s)]
  BY DEF FlattenSeq, Joins
<1>3. Joins(G, s, Len(s))
  BY <1>1, JoinsExist
<1> HIDE DEF G
<1>4. \A m \in 1 .. Len(s) : G[m] = IF m = 1 THEN s[m] ELSE G[m - 1] \o s[m]
  BY <1>3 DEF Joins
<1> DEFINE T == {m \in 1 .. Len(s) : G[m] \in Seq(S)}
<1>5. 1 \in T
  BY <1>1, <1>4
<1>6. ASSUME NEW n \in 1 .. Len(s) - 1, n \in T
      PROVE  n + 1 \in T
  <2> DEFINE m == n + 1
  <2>1. m \in 1 .. Len(s) /\ m # 1 /\ m - 1 = n
    BY <1>1
  <2> HIDE DEF m
  <2>2. G[m] = G[m - 1] \o s[m]
    BY <1>4, <2>1
  <2>3. G[m - 1] \in Seq(S) /\ s[m] \in Seq(S)
    BY <1>1, <1>6, <2>1
  <2>4. G[m] \in Seq(S)
    BY <2>2, <2>3
  <2>5. QED
    BY <2>1, <2>4 DEF m
<1>7. \A m \in 1 .. Len(s) : m \in T
  <2> HIDE DEF T
  <2>1. QED
    BY <1>1, <1>5, <1>6, IndexInduction
<1>8. QED
  BY <1>2, <1>4, <1>7

\* Sequences of one each.
LEMMA FlattenUnits ==
  ASSUME NEW S, NEW f \in Seq(S)
  PROVE  FlattenSeq([m \in 1 .. Len(f) |-> <<f[m]>>]) = f
<1> DEFINE s == [m \in 1 .. Len(f) |-> <<f[m]>>]
<1>1. Len(f) \in Nat /\ \A m \in 1 .. Len(f) : f[m] \in S
  OBVIOUS
<1>2. s \in Seq(Seq(S)) /\ Len(s) = Len(f) /\ \A m \in 1 .. Len(f) : s[m] = <<f[m]>>
  <2>1. \A m \in 1 .. Len(f) : <<f[m]>> \in Seq(S)
    BY <1>1
  <2>2. QED
    BY <1>1, <2>1
<1> HIDE DEF s
<1>3. CASE Len(f) = 0
  <2>1. FlattenSeq(s) = s /\ s = << >>
    BY <1>2, <1>3 DEF FlattenSeq
  <2>2. QED
    BY <1>3, <2>1 DEF s
<1>4. CASE Len(f) # 0
  <2>1. PICK g : /\ FlattenSeq(s) = g[Len(s)]
                 /\ \A m \in 1 .. Len(s) :
                      /\ g[m] \in Seq(S)
                      /\ g[m] = IF m = 1 THEN s[m] ELSE g[m - 1] \o s[m]
    BY SMTT(30), <1>2, <1>4, FlattenIs
  <2> DEFINE Done(m) == Len(g[m]) = m /\ \A k \in 1 .. m : g[m][k] = f[k]
             T == {m \in 1 .. Len(f) : Done(m)}
  <2>2. 1 \in T
    <3>1. g[1] = <<f[1]>> /\ 1 \in 1 .. Len(f)
      BY <1>1, <1>2, <1>4, <2>1
    <3> DEFINE y == f[1]
    <3> HIDE DEF y
    <3>2. Len(<<y>>) = 1 /\ <<y>>[1] = y
      OBVIOUS
    <3>3. \A k \in 1 .. 1 : k = 1
      OBVIOUS
    <3>4. Done(1)
      BY <3>1, <3>2, <3>3 DEF y
    <3>5. QED
      BY <3>1, <3>4
  <2>3. ASSUME NEW n \in 1 .. Len(f) - 1, n \in T
        PROVE  n + 1 \in T
    <3> DEFINE m == n + 1
    <3>1. m \in 1 .. Len(f) /\ m # 1 /\ m - 1 = n /\ n \in 1 .. Len(f) /\ n \in Nat /\ m = n + 1
      BY <1>1
    <3> HIDE DEF m
    <3>2. g[m] = g[n] \o <<f[m]>> /\ g[n] \in Seq(S) /\ f[m] \in S
      BY <1>1, <1>2, <2>1, <3>1
    <3>3. Done(m)
      BY <2>3, <3>1, <3>2
    <3>4. QED
      BY <3>1, <3>3
  <2>4. \A m \in 1 .. Len(f) : m \in T
    <3> HIDE DEF T
    <3>1. QED
      BY <1>1, <2>2, <2>3, IndexInduction
  <2>5. Len(f) \in 1 .. Len(f)
    BY <1>1, <1>4
  <2>6. g[Len(f)] \in Seq(S) /\ Done(Len(f))
    BY <1>2, <2>1, <2>4, <2>5
  <2>7. g[Len(f)] = f
    BY <2>6
  <2>8. QED
    BY <1>2, <2>1, <2>7 DEF s
<1>5. QED
  BY <1>3, <1>4

\* The first sequence that is not empty, and where the next begins.
LEMMA FlattenFirst ==
  ASSUME NEW S, NEW s \in Seq(Seq(S)), NEW a \in 1 .. Len(s), Len(s[a]) # 0,
         \A i \in 1 .. a - 1 : Len(s[i]) = 0
  PROVE  LET e == FlattenSeq(s)
         IN  /\ Len(e) >= Len(s[a]) /\ \A x \in 1 .. Len(s[a]) : e[x] = s[a][x]
             /\ \/ Len(e) = Len(s[a])
                \/ \E b \in a + 1 .. Len(s) :
                     Len(s[b]) # 0 /\ e[Len(s[a]) + 1] = s[b][1]
<1>1. Len(s) \in Nat \ {0} /\ \A i \in 1 .. Len(s) : s[i] \in Seq(S)
  OBVIOUS
<1>2. PICK g : /\ FlattenSeq(s) = g[Len(s)]
               /\ \A m \in 1 .. Len(s) :
                    /\ g[m] \in Seq(S)
                    /\ g[m] = IF m = 1 THEN s[m] ELSE g[m - 1] \o s[m]
  BY <1>1, FlattenIs
<1> DEFINE A == Len(s[a])
           Follows(e, m) == /\ Len(e) > A
                            /\ \E b \in a + 1 .. m : Len(s[b]) # 0 /\ e[A + 1] = s[b][1]
           Begun(m) == /\ m < a => Len(g[m]) = 0
                       /\ m >= a => /\ Len(g[m]) >= A
                                    /\ \A x \in 1 .. A : g[m][x] = s[a][x]
                                    /\ Len(g[m]) = A \/ Follows(g[m], m)
           T == {m \in 1 .. Len(s) : Begun(m)}
<1>3. A \in Nat \ {0}
  BY <1>1
<1>4. 1 \in T
  <2>1. g[1] = s[1] /\ s[1] \in Seq(S) /\ 1 \in 1 .. Len(s)
    BY <1>1, <1>2
  <2>2. CASE a = 1
    BY <1>3, <2>1, <2>2
  <2>3. CASE a # 1
    <3>1. Len(s[1]) = 0 /\ 1 < a
      BY <2>3
    <3>2. QED
      BY <2>1, <3>1
  <2>4. QED
    BY <2>2, <2>3
<1>5. ASSUME NEW n \in 1 .. Len(s) - 1, n \in T
      PROVE  n + 1 \in T
  <2> DEFINE m == n + 1
             p == g[n]
  <2>1. /\ m \in 1 .. Len(s) /\ m # 1 /\ m - 1 = n /\ n \in 1 .. Len(s)
        /\ n \in Nat /\ m \in Nat /\ m = n + 1
    BY <1>1
  <2>2. Begun(n)
    BY <1>5
  <2> HIDE DEF m
  <2>3. g[m] = p \o s[m] /\ p \in Seq(S) /\ s[m] \in Seq(S)
    BY <1>1, <1>2, <2>1
  <2> SUFFICES Begun(m)
    BY <2>1 DEF m
  <2>4. CASE m < a
    <3>1. Len(s[m]) = 0 /\ Len(p) = 0
      BY <2>1, <2>2, <2>4
    <3> HIDE DEF p
    <3>2. Len(g[m]) = 0
      BY <2>3, <3>1
    <3>3. QED
      BY <2>1, <2>4, <3>2
  <2>5. CASE m = a
    <3>1. Len(p) = 0
      BY <2>1, <2>2, <2>5
    <3> HIDE DEF p
    <3>2. g[m] = s[m]
      BY <2>3, <3>1
    <3>3. QED
      BY <1>3, <2>5, <3>2
  <2>6. CASE m > a
    <3>1. /\ Len(p) >= A /\ \A x \in 1 .. A : p[x] = s[a][x]
          /\ Len(p) = A \/ Follows(p, n)
      BY <2>1, <2>2, <2>6
    <3> HIDE DEF p, A
    <3>2. Len(g[m]) = Len(p) + Len(s[m]) /\ Len(p) \in Nat /\ Len(s[m]) \in Nat
      BY <2>3
    <3>3. /\ \A x \in 1 .. Len(p) : g[m][x] = p[x]
          /\ \A x \in 1 .. Len(s[m]) : g[m][Len(p) + x] = s[m][x]
      BY <2>3
    <3>4. Len(g[m]) >= A /\ \A x \in 1 .. A : g[m][x] = s[a][x]
      BY <1>3, <3>1, <3>2, <3>3
    <3>5. ASSUME Follows(p, n)
          PROVE  Follows(g[m], m)
      <4>1. PICK b \in a + 1 .. n : Len(s[b]) # 0 /\ p[A + 1] = s[b][1]
        BY <3>5
      <4>2. Len(p) > A
        BY <3>5
      <4>3. g[m][A + 1] = p[A + 1] /\ Len(g[m]) > A
        BY <1>3, <3>2, <3>3, <4>2
      <4>4. b \in a + 1 .. m
        BY <2>1
      <4>5. QED
        BY <4>1, <4>3, <4>4
    <3>6. ASSUME Len(p) = A /\ Len(s[m]) = 0
          PROVE  Len(g[m]) = A
      BY <3>2, <3>6
    <3>7. ASSUME Len(p) = A /\ Len(s[m]) # 0
          PROVE  Follows(g[m], m)
      <4>1. g[m][A + 1] = s[m][1] /\ Len(g[m]) > A
        BY <1>3, <3>2, <3>3, <3>7
      <4>2. m \in a + 1 .. m
        BY <2>1, <2>6
      <4>3. QED
        BY <3>7, <4>1, <4>2
    <3>8. Len(g[m]) = A \/ Follows(g[m], m)
      <4> HIDE DEF Follows
      <4>1. QED
        BY <3>1, <3>5, <3>6, <3>7
    <3>9. ~(m < a)
      BY <2>1, <2>6
    <3> HIDE DEF Follows
    <3>10. QED
      BY <3>4, <3>8, <3>9 DEF A
  <2>7. QED
    BY <2>1, <2>4, <2>5, <2>6
<1>6. \A m \in 1 .. Len(s) : m \in T
  <2>1. Len(s) \in Nat
    BY <1>1
  <2> HIDE DEF T
  <2>2. QED
    BY <1>4, <1>5, <2>1, IndexInduction
<1>7. Begun(Len(s))
  <2>1. Len(s) \in 1 .. Len(s)
    BY <1>1
  <2> HIDE DEF Begun
  <2>2. QED
    BY <1>6, <2>1
<1>8. QED
  BY <1>1, <1>2, <1>7

LEMMA LeastOf ==
  ASSUME NEW S \in SUBSET Nat, S # {}
  PROVE  \E least \in S : \A m \in S : least <= m
<1> DEFINE R == {ss \in Nat \X Nat : ss[1] < ss[2]}
<1>1. PICK least \in S : \A m \in S : ~(<<m, least>> \in R)
  <2> HIDE DEF R
  <2>1. QED
    BY LessIsWellFounded, WFMin DEF R
<1>2. ASSUME NEW m \in S
      PROVE  least <= m
  <2>1. m \in Nat /\ least \in Nat /\ ~(m < least)
    BY <1>1
  <2>2. QED
    BY <2>1
<1>3. QED
  BY <1>2

\* Nothing comes of empty sequences.
LEMMA FlattenNothing ==
  ASSUME NEW S, NEW s \in Seq(Seq(S)), \A i \in 1 .. Len(s) : Len(s[i]) = 0
  PROVE  Len(FlattenSeq(s)) = 0
<1> DEFINE e == FlattenSeq(s)
<1>1. /\ e \in Seq(S)
      /\ \A p \in 1 .. Len(e) : \E b \in 1 .. Len(s) : \E c \in Nat : InCopy(e, p, s[b], c)
  BY FlattenCopies
<1> HIDE DEF e
<1>2. Len(e) \in Nat
  BY <1>1
<1>3. Len(e) = 0
  <2> SUFFICES ASSUME Len(e) # 0
               PROVE  FALSE
    OBVIOUS
  <2>1. 1 \in 1 .. Len(e)
    BY <1>2
  <2>2. PICK b \in 1 .. Len(s), c \in Nat : InCopy(e, 1, s[b], c)
    BY <1>1, <2>1
  <2>3. Len(s[b]) = 0
    OBVIOUS
  <2>4. QED
    BY <2>2, <2>3 DEF InCopy
<1>4. QED
  BY <1>3 DEF e

-----------------------------------------------------------------------------
(* Recursion and induction over numbers *)

\* A function that is defined step by step exists.
Stepwise(w, base, step, n) ==
  w[0] = base /\ \A h \in 1 .. n : w[h] = step[<<h, w[h - 1]>>]

LEMMA Recursion ==
  ASSUME NEW D \in Nat, NEW X, NEW base \in X, NEW step \in [Nat \X X -> X]
  PROVE  \E w \in [0 .. D -> X] : Stepwise(w, base, step, D)
<1> DEFINE Good(w, n) == /\ w \in [0 .. n -> X] /\ w[0] = base
                         /\ \A h \in 1 .. n : w[h] = step[<<h, w[h - 1]>>]
           N == {n \in Nat : \E w : Good(w, n)}
<1>1. 0 \in N
  <2> DEFINE w == [h \in 0 .. 0 |-> base]
  <2>1. Good(w, 0)
    OBVIOUS
  <2>2. QED
    BY <2>1
<1>2. ASSUME NEW n \in Nat, n \in N
      PROVE  n + 1 \in N
  <2>1. PICK w : Good(w, n)
    BY <1>2
  <2> DEFINE m == n + 1
             new == step[<<m, w[n]>>]
             v == [h \in 0 .. m |-> IF h = m THEN new ELSE w[h]]
  <2>2. m \in Nat /\ m - 1 = n /\ n \in 0 .. n /\ m # 0 /\ 0 \in 0 .. m
    OBVIOUS
  <2>3. w[n] \in X /\ new \in X
    <3>1. w[n] \in X
      BY <2>1, <2>2
    <3>2. <<m, w[n]>> \in Nat \X X
      BY <3>1
    <3>3. QED
      BY <3>1, <3>2
  <2> HIDE DEF new
  <2>4. ASSUME NEW h \in 0 .. m, h # m
        PROVE  h \in 0 .. n
    BY <2>4
  <2>5. v \in [0 .. m -> X] /\ v[0] = base
    BY <2>1, <2>2, <2>3, <2>4
  <2>6. ASSUME NEW h \in 1 .. m
        PROVE  v[h] = step[<<h, v[h - 1]>>]
    <3>1. v[h - 1] = w[h - 1]
      BY <2>2
    <3>2. CASE h = m
      <4>1. v[h] = new /\ v[h - 1] = w[n] /\ h - 1 = n
        BY <2>2, <3>1, <3>2
      <4> HIDE DEF v, m
      <4>2. QED
        BY <3>2, <4>1 DEF new
    <3>3. CASE h # m
      <4>1. h \in 1 .. n
        BY <3>3
      <4>2. v[h] = w[h] /\ w[h] = step[<<h, w[h - 1]>>]
        BY <2>1, <3>3, <4>1
      <4>3. QED
        BY <3>1, <4>2
    <3>4. QED
      BY <3>2, <3>3
  <2>7. Good(v, m)
    <3> HIDE DEF v, m
    <3>1. QED
      BY <2>5, <2>6
  <2>8. QED
    BY <2>2, <2>7
<1>3. \A n \in Nat : n \in N
  <2> HIDE DEF N
  <2>1. QED
    BY <1>1, <1>2, NatSetInduction
<1>4. PICK w : Good(w, D)
  BY <1>3
<1>5. QED
  BY <1>4 DEF Stepwise

\* Induction in which all the smaller numbers may be used.
LEMMA StrongInduction ==
  ASSUME NEW S, \A n \in Nat : (\A m \in 0 .. n - 1 : m \in S) => n \in S
  PROVE  \A n \in Nat : n \in S
<1> DEFINE N == {n \in Nat : \A m \in 0 .. n - 1 : m \in S}
<1>1. 0 \in N
  OBVIOUS
<1>2. ASSUME NEW n \in Nat, n \in N
      PROVE  n + 1 \in N
  <2>1. n \in S
    BY <1>2
  <2>2. \A m \in 0 .. (n + 1) - 1 : m \in 0 .. n - 1 \/ m = n
    OBVIOUS
  <2>3. QED
    BY <1>2, <2>1, <2>2
<1>3. \A n \in Nat : n \in N
  <2> HIDE DEF N
  <2>1. QED
    BY <1>1, <1>2, NatSetInduction
<1>4. QED
  BY <1>3

-----------------------------------------------------------------------------
(* What is joined *)

\* Everything in one of the sequences is in what FlattenSeq makes of them ...
LEMMA FlattenKeeps ==
  ASSUME NEW S, NEW s \in Seq(Seq(S)), NEW b \in 1 .. Len(s), NEW x \in 1 .. Len(s[b])
  PROVE  \E p \in 1 .. Len(FlattenSeq(s)) : FlattenSeq(s)[p] = s[b][x]
<1>1. Len(s) \in Nat /\ Len(s) # 0 /\ \A i \in 1 .. Len(s) : s[i] \in Seq(S)
  OBVIOUS
<1>2. PICK g : /\ FlattenSeq(s) = g[Len(s)]
               /\ \A m \in 1 .. Len(s) :
                    /\ g[m] \in Seq(S)
                    /\ g[m] = IF m = 1 THEN s[m] ELSE g[m - 1] \o s[m]
  BY <1>1, FlattenIs
<1> DEFINE y == s[b][x]
           Has(m) == \E p \in 1 .. Len(g[m]) : g[m][p] = y
           T == {m \in 1 .. Len(s) : m >= b => Has(m)}
<1> HIDE DEF y
<1>3. ASSUME NEW m \in 1 .. Len(s), m = b
      PROVE  Has(m)
  <2>0. s[m] \in Seq(S) /\ Len(s[m]) \in Nat
    BY <1>1
  <2>1. CASE m = 1
    <3>1. g[m] = s[m] /\ x \in 1 .. Len(s[m]) /\ s[m][x] = y
      BY <1>2, <1>3, <2>1 DEF y
    <3>2. QED
      BY <3>1
  <2>2. CASE m # 1
    <3> DEFINE a == g[m - 1]
               c == s[m]
    <3>1. g[m] = a \o c /\ a \in Seq(S) /\ c \in Seq(S)
      <4>1. m - 1 \in 1 .. Len(s)
        BY <2>2
      <4>2. QED
        BY <1>1, <1>2, <2>2, <4>1
    <3>2. x \in 1 .. Len(c) /\ c[x] = y
      BY <1>3 DEF y
    <3> HIDE DEF a, c
    <3>3. Len(a) + x \in 1 .. Len(g[m]) /\ g[m][Len(a) + x] = c[x]
      BY <3>1, <3>2
    <3>4. QED
      BY <3>2, <3>3
  <2>3. QED
    BY <2>1, <2>2
<1>4. 1 \in T
  <2>1. 1 \in 1 .. Len(s) /\ (1 >= b => 1 = b)
    BY <1>1
  <2> HIDE DEF Has
  <2>2. QED
    BY <1>3, <2>1
<1>5. ASSUME NEW n \in 1 .. Len(s) - 1, n \in T
      PROVE  n + 1 \in T
  <2> DEFINE m == n + 1
  <2>1. m \in 1 .. Len(s) /\ m # 1 /\ m - 1 = n /\ n \in 1 .. Len(s)
    BY <1>1
  <2>2. CASE m = b
    <3> HIDE DEF Has
    <3>1. QED
      BY <1>3, <2>1, <2>2
  <2>3. CASE m > b
    <3>1. n >= b
      BY <2>3
    <3>2. PICK p \in 1 .. Len(g[n]) : g[n][p] = y
      BY <1>5, <3>1
    <3> DEFINE a == g[n]
               c == s[m]
    <3> HIDE DEF m
    <3>3. g[m] = a \o c /\ a \in Seq(S) /\ c \in Seq(S)
      BY <1>1, <1>2, <2>1
    <3> HIDE DEF a, c
    <3>4. p \in 1 .. Len(a) /\ a[p] = y
      BY <3>2 DEF a
    <3>5. p \in 1 .. Len(g[m]) /\ g[m][p] = a[p]
      BY <3>3, <3>4
    <3>6. Has(m)
      BY <3>4, <3>5
    <3>7. QED
      BY <2>1, <3>6 DEF m
  <2>4. QED
    BY <2>1, <2>2, <2>3
<1>6. \A m \in 1 .. Len(s) : m \in T
  <2> HIDE DEF T
  <2>1. QED
    BY <1>1, <1>4, <1>5, IndexInduction
<1>7. Has(Len(s))
  <2>1. Len(s) \in 1 .. Len(s) /\ Len(s) >= b
    BY <1>1
  <2> HIDE DEF Has
  <2>2. QED
    BY <1>6, <2>1
<1>8. QED
  BY <1>2, <1>7 DEF y

\* ... and nothing else.
LEMMA FlattenFrom ==
  ASSUME NEW S, NEW s \in Seq(Seq(S)), NEW p \in 1 .. Len(FlattenSeq(s))
  PROVE  \E b \in 1 .. Len(s) : \E x \in 1 .. Len(s[b]) : FlattenSeq(s)[p] = s[b][x]
<1> DEFINE f == FlattenSeq(s)
<1>1. PICK b \in 1 .. Len(s), c \in Nat : InCopy(f, p, s[b], c)
  BY FlattenCopies
<1> DEFINE e == s[b]
<1>2. InCopy(f, p, e, c)
  BY <1>1
<1>3. Len(e) \in Nat
  OBVIOUS
<1> HIDE DEF e, f
<1>4. p - c \in 1 .. Len(e) /\ f[c + (p - c)] = e[p - c] /\ c + (p - c) = p
  BY <1>2, <1>3 DEF InCopy
<1>5. \E x \in 1 .. Len(e) : f[p] = e[x]
  BY <1>4
<1>6. QED
  BY <1>5 DEF e, f

\* Sequences of the same length.
LEMMA FlattenLength ==
  ASSUME NEW S, NEW s \in Seq(Seq(S)), NEW n \in Nat, \A i \in 1 .. Len(s) : Len(s[i]) = n
  PROVE  Len(FlattenSeq(s)) = Len(s) * n
<1>1. Len(s) \in Nat /\ \A i \in 1 .. Len(s) : s[i] \in Seq(S)
  OBVIOUS
<1>2. CASE Len(s) = 0
  <2>1. \A i \in 1 .. Len(s) : Len(s[i]) = 0
    BY <1>2
  <2>2. Len(FlattenSeq(s)) = 0
    BY <2>1, FlattenNothing
  <2>3. QED
    BY <1>2, <2>2
<1>3. CASE Len(s) # 0
  <2>1. PICK g : /\ FlattenSeq(s) = g[Len(s)]
                 /\ \A m \in 1 .. Len(s) :
                      /\ g[m] \in Seq(S)
                      /\ g[m] = IF m = 1 THEN s[m] ELSE g[m - 1] \o s[m]
    BY <1>3, FlattenIs
  <2> DEFINE T == {m \in 1 .. Len(s) : Len(g[m]) = m * n}
  <2>2. 1 \in T
    BY <1>1, <1>3, <2>1
  <2>3. ASSUME NEW k \in 1 .. Len(s) - 1, k \in T
        PROVE  k + 1 \in T
    <3> DEFINE m == k + 1
               a == g[k]
               c == s[m]
    <3>1. m \in 1 .. Len(s) /\ m # 1 /\ m - 1 = k /\ k \in 1 .. Len(s)
      BY <1>1
    <3> HIDE DEF m
    <3>2. g[m] = a \o c /\ a \in Seq(S) /\ c \in Seq(S) /\ Len(a) = k * n /\ Len(c) = n
      BY <1>1, <2>1, <2>3, <3>1
    <3> HIDE DEF a, c
    <3>6. g[m] = a \o c /\ a \in Seq(S) /\ c \in Seq(S)
      BY <3>2
    <3>3. Len(g[m]) = Len(a) + Len(c)
      BY <3>6
    <3>4. m * n = k * n + n
      BY DEF m
    <3>5. QED
      BY <3>1, <3>2, <3>3, <3>4 DEF m
  <2>4. \A m \in 1 .. Len(s) : m \in T
    <3> HIDE DEF T
    <3>1. QED
      BY <1>1, <2>2, <2>3, IndexInduction
  <2>5. Len(s) \in 1 .. Len(s)
    BY <1>1, <1>3
  <2>6. QED
    BY <2>1, <2>4, <2>5
<1>4. QED
  BY <1>2, <1>3

\* Joining sequences.
LEMMA Regrouped ==
  ASSUME NEW F, NEW a \in Seq(F), NEW b \in Seq(F), NEW c \in Seq(F)
  PROVE  (a \o b) \o c = a \o (b \o c)
  OBVIOUS

LEMMA NothingJoined ==
  ASSUME NEW F, NEW a \in Seq(F)
  PROVE  << >> \o a = a /\ a \o << >> = a /\ << >> \in Seq(F)
  OBVIOUS

LEMMA SeqGrows ==
  ASSUME NEW S, NEW U \in SUBSET S, NEW u \in Seq(U)
  PROVE  u \in Seq(S)
  OBVIOUS

\* The sequences from place a to place c; one of them, and what is before and after it; and
\* how they are put together from the first on.
AllIn(s, a, c, U) == \A m \in a .. c : s[m] \in Seq(U)

SplitAt(s, b, u, v, U) ==
  /\ FlattenSeq(s) = u \o (s[b] \o v)
  /\ b = 1 => u = << >>
  /\ b > 1 => \E w \in Seq(U) : u = w \o s[b - 1]

Flattening(s, g, S) ==
  /\ FlattenSeq(s) = g[Len(s)]
  /\ \A m \in 1 .. Len(s) : /\ g[m] \in Seq(S)
                          /\ g[m] = IF m = 1 THEN s[m] ELSE g[m - 1] \o s[m]

LEMMA FlattenJoins ==
  ASSUME NEW S, NEW s \in Seq(Seq(S)), s # << >>
  PROVE  \E g : Flattening(s, g, S)
  BY FlattenIs DEF Flattening

\* One of the sequences in its place among the others.
LEMMA FlattenSplit ==
  ASSUME NEW S, NEW U \in SUBSET S, NEW V \in SUBSET S, NEW s \in Seq(Seq(S)),
         NEW b \in 1 .. Len(s),
         AllIn(s, 1, b - 1, U), AllIn(s, b + 1, Len(s), V)
  PROVE  \E u \in Seq(U), v \in Seq(V) : SplitAt(s, b, u, v, U)
<1>1. Len(s) \in Nat \ {0} /\ \A i \in 1 .. Len(s) : s[i] \in Seq(S)
  OBVIOUS
<1>2. PICK g : /\ FlattenSeq(s) = g[Len(s)]
               /\ \A m \in 1 .. Len(s) :
                    /\ g[m] \in Seq(S)
                    /\ g[m] = IF m = 1 THEN s[m] ELSE g[m - 1] \o s[m]
  <2>1. s # << >>
    BY <1>1
  <2>2. PICK g : Flattening(s, g, S)
    BY <2>1, FlattenJoins
  <2>3. QED
    BY <2>2 DEF Flattening
<1> DEFINE none == << >>
           u == IF b = 1 THEN none ELSE g[b - 1]
           x == s[b]
           Done(m) == /\ m < b => g[m] \in Seq(U)
                      /\ m >= b => \E v \in Seq(V) : g[m] = u \o (x \o v)
           T == {m \in 1 .. Len(s) : Done(m)}
<1>3. none \in Seq(U) /\ none \in Seq(V) /\ none \in Seq(S) /\ x \in Seq(S)
  BY <1>1
<1>4. \A a \in Seq(S) : none \o a = a /\ a \o none = a
  BY NothingJoined
<1>5. u \in Seq(S) /\ b \in Nat \ {0} /\ b <= Len(s) /\ (b = 1 => u = none)
      /\ (b # 1 => u = g[b - 1] /\ b - 1 \in 1 .. Len(s))
  <2>1. b \in Nat \ {0} /\ b <= Len(s) /\ (b # 1 => b - 1 \in 1 .. Len(s))
    BY <1>1
  <2>2. QED
    BY <1>2, <1>3, <2>1
<1> HIDE DEF none, u, x
<1>6. ASSUME NEW m \in 1 .. Len(s), m = b
      PROVE  g[m] = u \o (x \o none)
  <2>1. x \o none = x
    BY <1>3, <1>4
  <2>2. CASE b = 1
    <3>1. g[m] = x
      BY <1>2, <1>6, <2>2 DEF x
    <3>2. u \o x = x
      BY <1>3, <1>4, <1>5, <2>2
    <3>3. QED
      BY <2>1, <3>1, <3>2
  <2>3. CASE b # 1
    <3>1. g[m] = g[b - 1] \o x
      BY <1>2, <1>6, <2>3 DEF x
    <3>2. QED
      BY <1>5, <2>1, <2>3, <3>1
  <2>4. QED
    BY <2>2, <2>3
<1>7. 1 \in T
  <2>1. 1 \in 1 .. Len(s) /\ g[1] = s[1]
    BY <1>1, <1>2
  <2>2. 1 < b => s[1] \in Seq(U)
    BY <1>5 DEF AllIn
  <2>3. 1 >= b => 1 = b
    BY <1>5
  <2>4. QED
    BY <1>3, <1>6, <2>1, <2>2, <2>3
<1>8. ASSUME NEW n \in 1 .. Len(s) - 1, n \in T
      PROVE  n + 1 \in T
  <2> DEFINE m == n + 1
  <2>1. /\ m \in 1 .. Len(s) /\ m # 1 /\ m - 1 = n /\ n \in Nat /\ m \in Nat /\ m = n + 1
    BY <1>1
  <2>2. Done(n)
    BY <1>8
  <2> HIDE DEF m
  <2>3. g[m] = g[n] \o s[m]
    BY <1>2, <2>1
  <2>4. m < b => g[m] \in Seq(U)
    <3> SUFFICES ASSUME m < b
                 PROVE  g[m] \in Seq(U)
      OBVIOUS
    <3>1. g[n] \in Seq(U) /\ s[m] \in Seq(U)
      BY <1>5, <2>1, <2>2 DEF AllIn
    <3>2. QED
      BY <2>3, <3>1, Joined
  <2>5. m > b => \E v \in Seq(V) : g[m] = u \o (x \o v)
    <3> SUFFICES ASSUME m > b
                 PROVE  \E v \in Seq(V) : g[m] = u \o (x \o v)
      OBVIOUS
    <3>1. n >= b
      BY <1>5, <2>1
    <3>2. PICK v \in Seq(V) : g[n] = u \o (x \o v)
      BY <2>2, <3>1
    <3> DEFINE y == s[m]
    <3>3. y \in Seq(V) /\ g[m] = g[n] \o y
      BY <1>1, <1>5, <2>1, <2>3 DEF AllIn
    <3> HIDE DEF y
    <3>4. v \o y \in Seq(V)
      BY <3>3, Joined
    <3>5. v \in Seq(S) /\ y \in Seq(S) /\ x \in Seq(S) /\ u \in Seq(S)
      BY <1>3, <1>5, <3>3, SeqGrows
    <3> DEFINE xv == x \o v
    <3>6. xv \in Seq(S)
      BY <3>5, Joined
    <3>7. xv \o y = x \o (v \o y)
      BY <3>5, SMTT(60)
    <3> HIDE DEF xv
    <3>8. (u \o xv) \o y = u \o (xv \o y)
      BY <3>5, <3>6, SMTT(60)
    <3>9. g[m] = u \o (x \o (v \o y))
      BY <3>2, <3>3, <3>7, <3>8 DEF xv
    <3>10. QED
      BY <3>4, <3>9
  <2>6. m >= b => m = b \/ m > b
    BY <1>5, <2>1
  <2>7. Done(m)
    BY <1>3, <1>6, <2>1, <2>4, <2>5, <2>6
  <2> HIDE DEF Done
  <2>8. QED
    BY <2>1, <2>7 DEF m
<1>9. \A m \in 1 .. Len(s) : m \in T
  <2>1. Len(s) \in Nat
    BY <1>1
  <2> HIDE DEF T
  <2>2. QED
    BY <1>7, <1>8, <2>1, IndexInduction
<1>10. \A m \in 1 .. Len(s) : Done(m)
  <2> HIDE DEF Done
  <2>1. QED
    BY <1>9
<1>11. PICK v \in Seq(V) : FlattenSeq(s) = u \o (x \o v)
  <2>1. Len(s) \in 1 .. Len(s) /\ Len(s) >= b
    BY <1>1, <1>5
  <2>2. QED
    BY <1>2, <1>10, <2>1
<1>12. u \in Seq(U)
  <2>1. CASE b = 1
    BY <1>3, <1>5, <2>1
  <2>2. CASE b # 1
    <3>1. b - 1 \in 1 .. Len(s) /\ b - 1 < b
      BY <1>5, <2>2
    <3>2. QED
      BY <1>5, <1>10, <2>2, <3>1
  <2>3. QED
    BY <2>1, <2>2
<1>13. ASSUME b > 1
       PROVE  \E w \in Seq(U) : u = w \o s[b - 1]
  <2> DEFINE c == b - 1
  <2>1. c \in 1 .. Len(s) /\ c < b /\ u = g[c] /\ (c # 1 => c - 1 \in 1 .. Len(s) /\ c - 1 < b)
    BY <1>1, <1>5, <1>13
  <2> HIDE DEF c
  <2>2. s[c] \in Seq(U)
    BY <1>5, <2>1 DEF AllIn
  <2>3. CASE c = 1
    <3>1. u = s[c]
      BY <1>2, <2>1, <2>3
    <3>2. none \o s[c] = s[c]
      BY <2>2, NothingJoined DEF none
    <3>3. QED
      BY <1>3, <3>1, <3>2 DEF c
  <2>4. CASE c # 1
    <3>1. u = g[c - 1] \o s[c]
      BY <1>2, <2>1, <2>4
    <3>2. g[c - 1] \in Seq(U)
      BY <1>10, <2>1, <2>4
    <3>3. QED
      BY <3>1, <3>2 DEF c
  <2>5. QED
    BY <2>3, <2>4
<1>14. QED
  BY <1>5, <1>11, <1>12, <1>13 DEF x, none, SplitAt
=============================================================================
