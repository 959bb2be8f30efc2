----------------------------- MODULE TreeProofs -----------------------------
(***************************************************************************)
(* Facts about the tree of HwTree for every sequence of arities: which     *)
(* paths it has, how many of them are PUs, and that the numbers of its PUs *)
(* are different and below their count.                                    *)
(*                                                                         *)
(* The provers have no induction over data.  What a recursive function     *)
(* computes is found here with Induction, which is the choice of a least   *)
(* number for which it fails, and for one function at a time.              *)
(***************************************************************************)
EXTENDS HwTree, FiniteSetTheorems, FunctionTheorems, SequenceTheorems,
        WellFoundedInduction, TLAPS

-----------------------------------------------------------------------------
(* Induction *)

\* A set of numbers has a least one.
LEMMA Least ==
  ASSUME NEW T, T \subseteq Nat, T # {}
  PROVE  \E m \in T : \A n \in T : m <= n
<1> DEFINE R == OpToRel(<, Nat)
<1>1. IsWellFoundedOn(R, Nat)
  BY NatLessThanWellFounded
<1>2. \A m, n \in Nat : n < m => << n, m >> \in R
  BY DEF OpToRel
<1> HIDE DEF R
<1>3. PICK m \in T : \A n \in T : << n, m >> \notin R
  BY <1>1, WFMin
<1>4. \A n \in T : ~(n < m)
  BY <1>2, <1>3, Zenon
<1>5. \A n \in T : n \in Nat
  OBVIOUS
<1>6. m \in Nat
  OBVIOUS
<1>7. \A n \in T : m <= n
  BY <1>4, <1>5, <1>6
<1> QED
  BY <1>7

\* Induction up to N, with the set of the numbers for which something holds.
LEMMA Induction ==
  ASSUME NEW N \in Nat, NEW S, 0 \in S,
         \A n \in 0 .. N - 1 : n \in S => n + 1 \in S
  PROVE  0 .. N \subseteq S
<1> DEFINE T == {n \in 0 .. N : n \notin S}
<1>1. SUFFICES ASSUME T # {} PROVE FALSE
  OBVIOUS
<1>2. PICK m \in T : \A n \in T : m <= n
  <2>1. T \subseteq Nat
    OBVIOUS
  <2> HIDE DEF T
  <2> QED
    BY <1>1, <2>1, Least
<1>3. m \in 0 .. N /\ m \notin S /\ m # 0
  OBVIOUS
<1>4. m - 1 \in 0 .. N - 1 /\ m - 1 \in 0 .. N /\ ~(m <= m - 1)
  BY <1>3
<1>5. m - 1 \in S
  BY <1>2, <1>4
<1>6. (m - 1) + 1 = m
  BY <1>3
<1> QED
  BY <1>3, <1>4, <1>5, <1>6

\* step[n] goes from the value for n - 1 to that for n.
isStep(step, N, V) == \A n \in 1 .. N : \A x \in V : step[n][x] \in V

computed(g, N, V, b, step) ==
  /\ g \in [0 .. N -> V] /\ g[0] = b
  /\ \A n \in 1 .. N : g[n] = step[n][g[n - 1]]

\* A function on 0 .. N is defined by a value for 0 and a step.
LEMMA Recursion ==
  ASSUME NEW N \in Nat, NEW V, NEW b \in V, NEW step, isStep(step, N, V)
  PROVE  \E g : computed(g, N, V, b, step)
<1> USE DEF isStep, computed
<1> DEFINE upTo(g, k) == /\ g \in [0 .. k -> V] /\ g[0] = b
                         /\ \A n \in 1 .. k : g[n] = step[n][g[n - 1]]
           S == {k \in 0 .. N : \E g : upTo(g, k)}
<1>1. 0 \in S
  <2>1. upTo([n \in 0 .. 0 |-> b], 0)
    OBVIOUS
  <2> HIDE DEF upTo
  <2>2. 0 \in 0 .. N
    OBVIOUS
  <2> QED
    BY <2>1, <2>2
<1>2. ASSUME NEW k \in 0 .. N - 1, k \in S PROVE k + 1 \in S
  <2>1. PICK g : upTo(g, k)
    BY <1>2
  <2> DEFINE h == [n \in 0 .. k + 1 |-> IF n = k + 1 THEN step[k + 1][g[k]] ELSE g[n]]
  <2>2. k \in Nat /\ k + 1 \in 1 .. N /\ g[k] \in V
    BY <2>1
  <2>3. h \in [0 .. k + 1 -> V]
    BY <2>1, <2>2
  <2>4. h[0] = b
    BY <2>1, <2>2
  <2>5. \A n \in 1 .. k + 1 : h[n] = step[n][h[n - 1]]
    <3>1. TAKE n \in 1 .. k + 1
    <3>2. CASE n = k + 1
      BY <2>2, <3>2
    <3>3. CASE n # k + 1
      <4>1. n \in 1 .. k /\ n - 1 \in 0 .. k
        BY <2>2, <3>3
      <4>2. h[n] = g[n] /\ h[n - 1] = g[n - 1]
        BY <2>2, <4>1
      <4> QED
        BY <2>1, <4>1, <4>2
    <3> QED
      BY <3>2, <3>3
  <2> HIDE DEF h
  <2>6. upTo(h, k + 1)
    BY <2>3, <2>4, <2>5
  <2>7. k + 1 \in 0 .. N
    BY <2>2
  <2> QED
    BY <2>6, <2>7
<1> HIDE DEF S
<1>3. 0 .. N \subseteq S
  BY <1>1, <1>2, Induction
<1>4. N \in S
  BY <1>3
<1> QED
  BY <1>4 DEF S

-----------------------------------------------------------------------------
(* Paths *)

\* The vertices of a level.
verticesAt(a, n) == {p \in Seq(Nat) : Len(p) = n /\ \A i \in 1 .. n : p[i] \in 1 .. a[i]}

\* A vertex of a level is a child of one of the level above.
LEMMA NextLevelIs ==
  ASSUME NEW a \in Seq(Nat), NEW n \in 1 .. Len(a)
  PROVE  verticesAt(a, n) = {Append(p, i) : p \in verticesAt(a, n - 1), i \in 1 .. a[n]}
<1> DEFINE C == {Append(p, i) : p \in verticesAt(a, n - 1), i \in 1 .. a[n]}
<1>1. n \in Nat /\ n - 1 \in Nat /\ n # 0 /\ a[n] \in Nat
  OBVIOUS
<1>2. ASSUME NEW p \in verticesAt(a, n) PROVE p \in C
  <2> DEFINE q == SubSeq(p, 1, n - 1)
  <2>1. p \in Seq(Nat) /\ Len(p) = n /\ \A i \in 1 .. n : p[i] \in 1 .. a[i]
    BY DEF verticesAt
  <2>2. q \in Seq(Nat) /\ Len(q) = n - 1 /\ \A i \in 1 .. n - 1 : q[i] = p[i]
    BY <1>1, <2>1
  <2>3. q \in verticesAt(a, n - 1)
    <3>1. \A i \in 1 .. n - 1 : q[i] \in 1 .. a[i]
      BY <1>1, <2>1, <2>2
    <3> QED
      BY <2>2, <3>1 DEF verticesAt
  <2>4. p[n] \in 1 .. a[n]
    BY <1>1, <2>1
  <2>5. p = Append(q, p[n])
    <3> HIDE DEF q
    <3>1. Append(q, p[n]) \in Seq(Nat) /\ Len(Append(q, p[n])) = n
      BY <1>1, <2>1, <2>2, <2>4
    <3>2. \A i \in 1 .. n : Append(q, p[n])[i] = p[i]
      BY <1>1, <2>1, <2>2, SMTT(30)
    <3> QED
      BY <1>1, <2>1, <3>1, <3>2, SMTT(30)
  <2> HIDE DEF q
  <2> QED
    BY <2>3, <2>4, <2>5
<1>3. ASSUME NEW p \in verticesAt(a, n - 1), NEW i \in 1 .. a[n]
      PROVE  Append(p, i) \in verticesAt(a, n)
  <2>1. p \in Seq(Nat) /\ Len(p) = n - 1 /\ \A j \in 1 .. n - 1 : p[j] \in 1 .. a[j]
    BY DEF verticesAt
  <2>2. i \in Nat
    BY <1>1
  <2>3. Append(p, i) \in Seq(Nat) /\ Len(Append(p, i)) = n
    BY <1>1, <2>1, <2>2
  <2>4. \A j \in 1 .. n : Append(p, i)[j] \in 1 .. a[j]
    <3>1. TAKE j \in 1 .. n
    <3>2. CASE j = n
      BY <1>1, <2>1, <2>2, <3>2
    <3>3. CASE j # n
      <4>1. j \in 1 .. n - 1 /\ Append(p, i)[j] = p[j]
        BY <1>1, <2>1, <2>2, <3>3
      <4> QED
        BY <2>1, <4>1
    <3> QED
      BY <3>2, <3>3
  <2> QED
    BY <2>3, <2>4 DEF verticesAt
<1>4. ASSUME NEW c \in C PROVE c \in verticesAt(a, n)
  <2> DEFINE P == verticesAt(a, n - 1)
             I == 1 .. a[n]
  <2>1. c \in {Append(p, i) : p \in P, i \in I}
    OBVIOUS
  <2> HIDE DEF C, P, I
  <2>2. PICK p \in P, i \in I : c = Append(p, i)
    BY <2>1
  <2> QED
    BY <1>3, <2>2 DEF P, I
<1> HIDE DEF C
<1>5. verticesAt(a, n) = C
  BY <1>2, <1>4
<1> QED
  BY <1>5 DEF C

LEMMA RootLevel == ASSUME NEW a PROVE verticesAt(a, 0) = {<< >>}
<1>1. \A p \in Seq(Nat) : Len(p) = 0 => p = << >>
  OBVIOUS
<1>2. << >> \in Seq(Nat) /\ Len(<< >>) = 0 /\ 1 .. 0 = {}
  OBVIOUS
<1>3. verticesAt(a, 0) \subseteq {<< >>}
  BY <1>1 DEF verticesAt
<1>4. << >> \in verticesAt(a, 0)
  BY <1>2 DEF verticesAt
<1> QED
  BY <1>3, <1>4

\* Paths gathers the levels.
LEMMA PathsAre ==
  ASSUME NEW a \in Seq(Nat)
  PROVE  /\ Paths(a) = UNION {verticesAt(a, n) : n \in 0 .. Len(a)}
         /\ PUs(a) = verticesAt(a, Len(a))
<1> DEFINE N == Len(a)
           kids(P, n) == {Append(p, i) : p \in P, i \in 1 .. a[n]}
           is(f) == f = [n \in 0 .. N |-> IF n = 0 THEN {<< >>} ELSE kids(f[n - 1], n)]
           below == CHOOSE f : is(f)
           L == [n \in 0 .. N |-> verticesAt(a, n)]
<1>0. N \in Nat
  OBVIOUS
<1>4. \A n \in 1 .. N : verticesAt(a, n) = kids(verticesAt(a, n - 1), n)
  BY NextLevelIs
<1>1. is(L)
  <2> DEFINE R == [n \in 0 .. N |-> IF n = 0 THEN {<< >>} ELSE kids(L[n - 1], n)]
  <2> HIDE DEF kids
  <2>1. ASSUME NEW n \in 0 .. N PROVE L[n] = R[n]
    <3>1. CASE n = 0
      BY <3>1, RootLevel
    <3>2. CASE n # 0
      <4>1. n \in 1 .. N /\ n - 1 \in 0 .. N
        BY <3>2
      <4> QED
        BY <1>4, <3>2, <4>1
    <3> QED
      BY <3>1, <3>2
  <2>2. L = R
    BY <2>1
  <2> QED
    BY <2>2
<1>2. is(below)
  <2> HIDE DEF is, L, kids
  <2> QED
    BY <1>1
<1>3. \A n \in 0 .. N : below[n] = verticesAt(a, n)
  <2> DEFINE S == {n \in 0 .. N : below[n] = verticesAt(a, n)}
  <2> HIDE DEF below, kids
  <2>1. 0 \in S
    BY <1>2, RootLevel
  <2>2. ASSUME NEW n \in 0 .. N - 1, n \in S PROVE n + 1 \in S
    <3>1. n + 1 \in 1 .. N /\ n + 1 \in 0 .. N /\ n + 1 # 0 /\ (n + 1) - 1 = n
      BY <1>0
    <3>2. below[n + 1] = kids(below[n], n + 1)
      BY <1>2, <3>1
    <3>3. verticesAt(a, n + 1) = kids(verticesAt(a, n), n + 1)
      BY <1>4, <3>1
    <3> QED
      BY <2>2, <3>1, <3>2, <3>3
  <2> HIDE DEF S
  <2>3. 0 .. N \subseteq S
    BY <1>0, <2>1, <2>2, Induction
  <2> QED
    BY <2>3 DEF S
<1>5. Paths(a) = UNION {below[n] : n \in 0 .. N}
  BY DEF Paths
<1>6. Paths(a) = UNION {verticesAt(a, n) : n \in 0 .. Len(a)}
  <2> HIDE DEF below
  <2> QED
    BY <1>3, <1>5
<1>7. PUs(a) = verticesAt(a, Len(a))
  <2>1. \A n \in 0 .. N : \A p \in verticesAt(a, n) : Len(p) = n
    BY DEF verticesAt
  <2>2. N \in 0 .. N
    BY <1>0
  <2> QED
    BY <1>6, <2>1, <2>2 DEF PUs, isPU
<1> QED
  BY <1>6, <1>7

LEMMA IntervalSize ==
  ASSUME NEW n \in Nat PROVE IsFiniteSet(1 .. n) /\ Cardinality(1 .. n) = n
<1>1. 1 \in Int /\ n \in Int
  OBVIOUS
<1>2. /\ IsFiniteSet(1 .. n)
      /\ Cardinality(1 .. n) = IF 1 > n THEN 0 ELSE n - 1 + 1
  BY <1>1, FS_Interval, Zenon
<1> QED
  BY <1>2

\* A level has as many vertices as the one above has, times their arity.
LEMMA LevelSize ==
  ASSUME NEW a \in Seq(Nat)
  PROVE  /\ Cardinality(verticesAt(a, 0)) = 1
         /\ \A n \in 0 .. Len(a) :
              IsFiniteSet(verticesAt(a, n)) /\ Cardinality(verticesAt(a, n)) \in Nat
         /\ \A n \in 1 .. Len(a) :
              Cardinality(verticesAt(a, n)) = Cardinality(verticesAt(a, n - 1)) * a[n]
<1>1. IsFiniteSet(verticesAt(a, 0)) /\ Cardinality(verticesAt(a, 0)) = 1
  <2>1. verticesAt(a, 0) = {<< >>}
    BY RootLevel
  <2> QED
    BY <2>1, FS_Singleton
<1>2. ASSUME NEW n \in 1 .. Len(a), IsFiniteSet(verticesAt(a, n - 1))
      PROVE  /\ IsFiniteSet(verticesAt(a, n))
             /\ Cardinality(verticesAt(a, n)) = Cardinality(verticesAt(a, n - 1)) * a[n]
  <2> DEFINE P == verticesAt(a, n - 1)
             I == 1 .. a[n]
             Q == verticesAt(a, n)
             f == [z \in P \X I |-> Append(z[1], z[2])]
  <2>1. a[n] \in Nat /\ n - 1 \in Nat
    OBVIOUS
  <2>2. IsFiniteSet(I) /\ Cardinality(I) = a[n]
    BY <2>1, IntervalSize
  <2>3. Q = {Append(p, i) : p \in P, i \in I}
    BY NextLevelIs
  <2>4. P \subseteq Seq(Nat) /\ I \subseteq Nat /\ \A p \in P : Len(p) = n - 1
    BY <2>1 DEF verticesAt
  <2> HIDE DEF P, I, Q
  <2>5. \A z \in P \X I : z = << z[1], z[2] >> /\ z[1] \in P /\ z[2] \in I
    OBVIOUS
  <2>6. f \in [P \X I -> Q]
    BY <2>3, <2>5
  <2>7. \A z \in Q : \E w \in P \X I : f[w] = z
    <3>1. TAKE z \in Q
    <3>2. PICK p \in P, i \in I : z = Append(p, i)
      BY <2>3
    <3>3. << p, i >> \in P \X I /\ f[<< p, i >>] = z
      BY <3>2
    <3> QED
      BY <3>3
  <2>8. \A z, w \in P \X I : f[z] = f[w] => z = w
    <3>1. TAKE z, w \in P \X I
    <3>2. SUFFICES ASSUME Append(z[1], z[2]) = Append(w[1], w[2]) PROVE z = w
      OBVIOUS
    <3>3. z[1] \in Seq(Nat) /\ w[1] \in Seq(Nat) /\ z[2] \in Nat /\ w[2] \in Nat
      BY <2>4, <2>5
    <3>4. z[1] = w[1] /\ z[2] = w[2]
      BY <3>2, <3>3, AppendInjective
    <3> QED
      BY <2>5, <3>4
  <2> HIDE DEF f
  <2>9. f \in Bijection(P \X I, Q)
    BY <2>6, <2>7, <2>8, Fun_IsBij
  <2>10. IsFiniteSet(P \X I) /\ Cardinality(P \X I) = Cardinality(P) * Cardinality(I)
    BY <1>2, <2>2, FS_Product DEF P
  <2>11. ExistsBijection(P \X I, Q)
    BY <2>9 DEF ExistsBijection
  <2>12. IsFiniteSet(Q) /\ Cardinality(Q) = Cardinality(P) * Cardinality(I)
    BY <2>10, <2>11, FS_Bijection
  <2> QED
    BY <2>2, <2>12 DEF P, Q
<1> DEFINE S == {n \in 0 .. Len(a) : IsFiniteSet(verticesAt(a, n))}
<1>3. 0 \in S
  BY <1>1
<1>4. ASSUME NEW n \in 0 .. Len(a) - 1, n \in S PROVE n + 1 \in S
  <2>1. n + 1 \in 1 .. Len(a) /\ (n + 1) - 1 = n /\ n + 1 \in 0 .. Len(a)
    OBVIOUS
  <2> QED
    BY <1>2, <1>4, <2>1
<1> HIDE DEF S
<1>5. 0 .. Len(a) \subseteq S
  <2>1. Len(a) \in Nat
    OBVIOUS
  <2> QED
    BY <1>3, <1>4, <2>1, Induction
<1>6. \A n \in 0 .. Len(a) : IsFiniteSet(verticesAt(a, n)) /\ Cardinality(verticesAt(a, n)) \in Nat
  BY <1>5, FS_CardinalityType DEF S
<1>7. \A n \in 1 .. Len(a) : n - 1 \in 0 .. Len(a)
  OBVIOUS
<1> QED
  BY <1>1, <1>2, <1>6, <1>7

-----------------------------------------------------------------------------
(* Numbers of PUs *)

\* The number of a vertex in its level, as puIndex counts.
isIndex(a, p, f) ==
  f = [n \in 0 .. Len(p) |-> IF n = 0 THEN 0 ELSE f[n - 1] * a[n] + p[n] - 1]

LEMMA IndexZero ==
  ASSUME NEW a, NEW p, NEW f, isIndex(a, p, f), Len(p) \in Nat
  PROVE  f[0] = 0
BY DEF isIndex

LEMMA IndexStep ==
  ASSUME NEW a, NEW p, NEW f, isIndex(a, p, f), Len(p) \in Nat, NEW n \in 1 .. Len(p)
  PROVE  f[n] = f[n - 1] * a[n] + p[n] - 1
<1>1. \A m \in 0 .. Len(p) :
        f[m] = IF m = 0 THEN 0 ELSE f[m - 1] * a[m] + p[m] - 1
  BY Zenon DEF isIndex
<1>2. n \in 0 .. Len(p) /\ n # 0
  OBVIOUS
<1> QED
  BY <1>1, <1>2, Zenon

LEMMA IndexExists ==
  ASSUME NEW a \in Seq(Nat), NEW p \in Paths(a)
  PROVE  \E f : isIndex(a, p, f) /\ puIndex(a, p) = f[Len(p)]
<1> DEFINE step == [n \in 1 .. Len(p) |-> [x \in Int |-> x * a[n] + p[n] - 1]]
<1>1. p \in Seq(Nat) /\ Len(p) \in 0 .. Len(a)
  BY PathsAre DEF verticesAt
<1>2. \A n \in 1 .. Len(p) : a[n] \in Nat /\ p[n] \in Nat
  BY <1>1
<1>3. \A n \in 1 .. Len(p) : \A x \in Int :
        step[n][x] = x * a[n] + p[n] - 1 /\ step[n][x] \in Int
  BY <1>2
<1> HIDE DEF step
<1>4. PICK g : computed(g, Len(p), Int, 0, step)
  <2>1. Len(p) \in Nat /\ 0 \in Int
    BY <1>1
  <2>2. isStep(step, Len(p), Int)
    BY <1>3 DEF isStep
  <2> QED
    BY <2>1, <2>2, Recursion
<1> USE DEF computed
<1>5. ASSUME NEW n \in 0 .. Len(p)
      PROVE  g[n] = IF n = 0 THEN 0 ELSE g[n - 1] * a[n] + p[n] - 1
  <2>1. CASE n = 0
    BY <1>4, <2>1
  <2>2. CASE n # 0
    <3>1. n \in 1 .. Len(p) /\ n - 1 \in 0 .. Len(p)
      BY <1>1, <2>2
    <3>2. g[n - 1] \in Int
      BY <1>4, <3>1
    <3>3. g[n] = step[n][g[n - 1]]
      BY <1>4, <3>1
    <3> QED
      BY <1>3, <2>2, <3>1, <3>2, <3>3
  <2> QED
    BY <2>1, <2>2
<1>6. isIndex(a, p, g)
  <2>1. g = [n \in 0 .. Len(p) |-> g[n]]
    BY <1>4
  <2> QED
    BY <1>5, <2>1 DEF isIndex
<1> DEFINE index == CHOOSE f : isIndex(a, p, f)
<1>7. isIndex(a, p, index)
  BY <1>6
<1>8. puIndex(a, p) = index[Len(p)]
  BY DEF puIndex, isIndex
<1> QED
  BY <1>7, <1>8

\* Numbers with a digit to a base A.
LEMMA Digit ==
  ASSUME NEW A \in Nat, NEW C \in Nat, NEW x \in 0 .. C - 1, NEW r \in 1 .. A
  PROVE  x * A + r - 1 \in 0 .. C * A - 1
<1>1. x \in Nat /\ x + 1 <= C
  OBVIOUS
<1>2. x * A \in Nat /\ C * A \in Nat /\ (x + 1) * A = x * A + A
  BY <1>1
<1>3. (x + 1) * A <= C * A
  BY <1>1
<1> QED
  BY <1>2, <1>3

LEMMA DigitLess ==
  ASSUME NEW A \in Nat, NEW x \in Nat, NEW y \in Nat, x < y, NEW r \in 1 .. A, NEW s \in 1 .. A
  PROVE  x * A + r - 1 < y * A + s - 1
<1>1. x + 1 <= y /\ (x + 1) * A = x * A + A /\ x * A \in Nat /\ y * A \in Nat
  OBVIOUS
<1>2. (x + 1) * A <= y * A
  BY <1>1
<1> QED
  BY <1>1, <1>2

LEMMA DigitUnique ==
  ASSUME NEW A \in Nat, NEW x \in Nat, NEW y \in Nat, NEW r \in 1 .. A, NEW s \in 1 .. A,
         x * A + r - 1 = y * A + s - 1
  PROVE  x = y /\ r = s
<1>1. x * A \in Nat /\ y * A \in Nat /\ r \in Nat /\ s \in Nat
  OBVIOUS
<1>2. ~(x < y)
  BY <1>1, DigitLess
<1>3. ~(y < x)
  BY <1>1, DigitLess
<1>4. x = y
  BY <1>2, <1>3
<1> QED
  BY <1>1, <1>4

LEMMA IndexInLevel ==
  ASSUME NEW a \in Seq(Nat), NEW p \in Paths(a), NEW f, isIndex(a, p, f)
  PROVE  \A n \in 0 .. Len(p) : f[n] \in 0 .. Cardinality(verticesAt(a, n)) - 1
<1> DEFINE N == Len(p)
           C(n) == Cardinality(verticesAt(a, n))
           S == {n \in 0 .. N : f[n] \in 0 .. C(n) - 1}
<1>1. /\ p \in Seq(Nat) /\ N \in 0 .. Len(a) /\ N \in Nat
      /\ \A n \in 1 .. N : p[n] \in 1 .. a[n] /\ a[n] \in Nat
  BY PathsAre DEF verticesAt
<1>2. /\ f[0] = 0
      /\ \A n \in 1 .. N : f[n] = f[n - 1] * a[n] + p[n] - 1
  BY <1>1, IndexZero, IndexStep
<1>3. /\ C(0) = 1
      /\ \A n \in 0 .. N : C(n) \in Nat
      /\ \A n \in 1 .. N : C(n) = C(n - 1) * a[n]
  BY <1>1, LevelSize
<1> HIDE DEF C, N
<1>4. 0 \in S
  BY <1>1, <1>2, <1>3
<1>5. ASSUME NEW n \in 0 .. N - 1, n \in S PROVE n + 1 \in S
  <2>1. n + 1 \in 1 .. N /\ (n + 1) - 1 = n /\ n + 1 \in 0 .. N /\ n \in 0 .. N
    BY <1>1
  <2>2. f[n] \in 0 .. C(n) - 1 /\ C(n) \in Nat /\ a[n + 1] \in Nat /\ p[n + 1] \in 1 .. a[n + 1]
    BY <1>1, <1>3, <1>5, <2>1
  <2>3. f[n] * a[n + 1] + p[n + 1] - 1 \in 0 .. C(n) * a[n + 1] - 1
    BY <2>2, Digit
  <2>4. f[n + 1] = f[n] * a[n + 1] + p[n + 1] - 1 /\ C(n + 1) = C(n) * a[n + 1]
    BY <1>2, <1>3, <2>1
  <2> QED
    BY <2>1, <2>3, <2>4
<1> HIDE DEF S
<1>6. 0 .. N \subseteq S
  BY <1>1, <1>4, <1>5, Induction
<1> QED
  BY <1>6 DEF S, C, N

\* The number of a PU is below their count,
LEMMA PuIndexBelow ==
  ASSUME NEW a \in Seq(Nat), NEW p \in PUs(a)
  PROVE  puIndex(a, p) \in 0 .. Cardinality(PUs(a)) - 1
<1>1. p \in Paths(a) /\ Len(p) = Len(a) /\ PUs(a) = verticesAt(a, Len(a))
  BY PathsAre DEF PUs, isPU
<1>2. PICK f : isIndex(a, p, f) /\ puIndex(a, p) = f[Len(p)]
  BY <1>1, IndexExists
<1>3. Len(p) \in 0 .. Len(p)
  BY <1>1
<1> QED
  BY <1>1, <1>2, <1>3, IndexInLevel

\* and no two have the same.
LEMMA PuIndexInjective ==
  ASSUME NEW a \in Seq(Nat), NEW p \in PUs(a), NEW q \in PUs(a),
         puIndex(a, p) = puIndex(a, q)
  PROVE  p = q
<1> DEFINE N == Len(a)
<1>1. /\ p \in Paths(a) /\ q \in Paths(a) /\ Len(p) = N /\ Len(q) = N /\ N \in Nat
      /\ p \in Seq(Nat) /\ q \in Seq(Nat)
      /\ \A n \in 1 .. N : p[n] \in 1 .. a[n] /\ q[n] \in 1 .. a[n] /\ a[n] \in Nat
  BY PathsAre DEF PUs, isPU, verticesAt
<1>2. PICK f : isIndex(a, p, f) /\ puIndex(a, p) = f[N]
  BY <1>1, IndexExists
<1>3. PICK g : isIndex(a, q, g) /\ puIndex(a, q) = g[N]
  BY <1>1, IndexExists
<1> HIDE DEF N
<1>4. \A n \in 1 .. N : /\ f[n] = f[n - 1] * a[n] + p[n] - 1
                       /\ g[n] = g[n - 1] * a[n] + q[n] - 1
  <2>1. TAKE n \in 1 .. N
  <2>2. Len(p) \in Nat /\ Len(q) \in Nat /\ n \in 1 .. Len(p) /\ n \in 1 .. Len(q)
    BY <1>1
  <2> QED
    BY <1>2, <1>3, <2>2, IndexStep
<1>5. \A n \in 0 .. N : f[n] \in Nat /\ g[n] \in Nat
  <2>1. \A n \in 0 .. N : Cardinality(verticesAt(a, n)) \in Nat
    BY LevelSize DEF N
  <2>2. \A n \in 0 .. N : /\ f[n] \in 0 .. Cardinality(verticesAt(a, n)) - 1
                         /\ g[n] \in 0 .. Cardinality(verticesAt(a, n)) - 1
    BY <1>1, <1>2, <1>3, IndexInLevel
  <2> QED
    BY <2>1, <2>2
<1> DEFINE S == {n \in 0 .. N : f[n] = g[n] => \A i \in 1 .. n : p[i] = q[i]}
<1>6. 0 \in S
  BY <1>1
<1>7. ASSUME NEW n \in 0 .. N - 1, n \in S PROVE n + 1 \in S
  <2>1. n + 1 \in 1 .. N /\ (n + 1) - 1 = n /\ n + 1 \in 0 .. N /\ n \in 0 .. N
    BY <1>1
  <2>2. SUFFICES ASSUME f[n + 1] = g[n + 1] PROVE \A i \in 1 .. n + 1 : p[i] = q[i]
    BY <2>1
  <2>3. /\ f[n] \in Nat /\ g[n] \in Nat /\ a[n + 1] \in Nat
        /\ p[n + 1] \in 1 .. a[n + 1] /\ q[n + 1] \in 1 .. a[n + 1]
    BY <1>1, <1>5, <2>1
  <2>4. f[n] * a[n + 1] + p[n + 1] - 1 = g[n] * a[n + 1] + q[n + 1] - 1
    BY <1>4, <2>1, <2>2
  <2>5. f[n] = g[n] /\ p[n + 1] = q[n + 1]
    <3> DEFINE x == f[n]
               y == g[n]
               A == a[n + 1]
               r == p[n + 1]
               t == q[n + 1]
    <3> HIDE DEF x, y, A, r, t
    <3>1. /\ A \in Nat /\ x \in Nat /\ y \in Nat /\ r \in 1 .. A /\ t \in 1 .. A
          /\ x * A + r - 1 = y * A + t - 1
      BY <2>3, <2>4 DEF x, y, A, r, t
    <3>2. x = y /\ r = t
      BY <3>1, DigitUnique
    <3> QED
      BY <3>2 DEF x, y, r, t
  <2>6. \A i \in 1 .. n : p[i] = q[i]
    BY <1>7, <2>5
  <2> QED
    BY <2>1, <2>5, <2>6
<1> HIDE DEF S
<1>8. 0 .. N \subseteq S
  BY <1>1, <1>6, <1>7, Induction
<1>9. f[N] = g[N]
  BY <1>1, <1>2, <1>3
<1>10. N \in S
  BY <1>1, <1>8
<1>11. \A i \in 1 .. N : p[i] = q[i]
  BY <1>9, <1>10 DEF S
<1> QED
  BY <1>1, <1>11

=============================================================================
