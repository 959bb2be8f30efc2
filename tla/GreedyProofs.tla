---------------------------- MODULE GreedyProofs ----------------------------
(***************************************************************************)
(* Proofs about GreedyMap for every set of machines, every number of       *)
(* threads and every communication, with faults that count at any time.    *)
(*                                                                         *)
(* What the fold of the community modules sums up is found by induction    *)
(* over the size of the set.  The induction is the choice of a least       *)
(* number in the set of those for which it fails.                          *)
(***************************************************************************)
EXTENDS GreedyMap, TreeProofs

-----------------------------------------------------------------------------
(* Sums over finite sets *)

\* g sums f over every subset of a set, as MapThenSumSet does.
sumFcn(g, D, f) ==
  g = [s \in D |-> IF s = {} THEN 0
                   ELSE f[CHOOSE x \in s : TRUE] + g[s \ {CHOOSE x \in s : TRUE}]]

\* There is such a function: one for subsets of n - 1 elements gives one for
\* subsets of n.
LEMMA SumExists ==
  ASSUME NEW S, IsFiniteSet(S), NEW f
  PROVE  \E g : sumFcn(g, SUBSET S, f)
<1> DEFINE D(n) == {s \in SUBSET S : Cardinality(s) <= n}
           T == {n \in Nat : ~\E g : sumFcn(g, D(n), f)}
<1>1. T = {}
  <2>1. SUFFICES ASSUME T # {} PROVE FALSE
    OBVIOUS
  <2>2. PICK n \in T : \A m \in T : n <= m
    BY <2>1, Least
  <2>3. \A s \in SUBSET S : IsFiniteSet(s) /\ Cardinality(s) \in Nat
    BY FS_Subset, FS_CardinalityType
  <2>4. n \in Nat
    OBVIOUS
  <2>5. CASE n = 0
    <3>1. \A s \in D(0) : s = {}
      BY <2>3, FS_EmptySet
    <3>2. sumFcn([s \in D(0) |-> 0], D(0), f)
      BY <3>1 DEF sumFcn
    <3> QED
      BY <2>5, <3>2
  <2>6. CASE n # 0
    <3>0. n - 1 \in Nat /\ ~(n <= n - 1)
      BY <2>4, <2>6
    <3>1. n - 1 \in Nat /\ n - 1 \notin T
      <4> HIDE DEF T
      <4> QED
        BY <2>2, <3>0
    <3>2. PICK h : sumFcn(h, D(n-1), f)
      BY <3>1
    <3> DEFINE c(s) == CHOOSE x \in s : TRUE
               g == [s \in D(n) |-> IF s = {} THEN 0 ELSE f[c(s)] + h[s \ {c(s)}]]
    <3>3. \A s \in D(n) : s # {} => c(s) \in s /\ s \ {c(s)} \in D(n - 1)
      <4>1. ASSUME NEW s \in D(n), s # {} PROVE c(s) \in s /\ s \ {c(s)} \in D(n - 1)
        <5>1. c(s) \in s
          BY <4>1
        <5>2. Cardinality(s \ {c(s)}) = Cardinality(s) - 1
          BY <2>3, <5>1, FS_RemoveElement
        <5> HIDE DEF c
        <5>3. Cardinality(s) <= n /\ Cardinality(s) \in Nat /\ s \ {c(s)} \in SUBSET S
          BY <2>3
        <5> QED
          BY <2>4, <5>1, <5>2, <5>3
      <4> QED
        BY <4>1
    <3>4. \A s \in D(n - 1) : s \in D(n) /\ g[s] = h[s]
      <4>1. \A s \in D(n - 1) : s \in D(n)
        BY <2>3, <2>4
      <4>2. \A s \in D(n - 1) : h[s] = IF s = {} THEN 0 ELSE f[c(s)] + h[s \ {c(s)}]
        BY <3>2 DEF sumFcn
      <4> QED
        BY <4>1, <4>2
    <3>5. g = [s \in D(n) |-> IF s = {} THEN 0 ELSE f[c(s)] + g[s \ {c(s)}]]
      <4> DEFINE gg == [s \in D(n) |-> IF s = {} THEN 0 ELSE f[c(s)] + g[s \ {c(s)}]]
      <4>1. \A s \in D(n) : s # {} => h[s \ {c(s)}] = g[s \ {c(s)}]
        BY <3>3, <3>4
      <4> HIDE DEF c
      <4>2. \A s \in D(n) : g[s] = gg[s]
        BY <4>1
      <4>3. g = gg 
        BY <4>2
      <4> QED
        BY <4>3
    <3>6. sumFcn(g, D(n), f)
      BY <3>5 DEF sumFcn
    <3> QED
      BY <3>6
  <2> QED
    BY <2>5, <2>6
<1>2. D(Cardinality(S)) = SUBSET S /\ Cardinality(S) \in Nat
  <2>1. \A s \in SUBSET S : Cardinality(s) <= Cardinality(S)
    BY FS_Subset
  <2>2. Cardinality(S) \in Nat
    BY FS_CardinalityType
  <2> QED
    BY <2>1, <2>2
<1>3. \E g : sumFcn(g, D(Cardinality(S)), f)
  BY <1>1, <1>2
<1> QED
  BY <1>2, <1>3

\* It sums natural numbers to a natural number.
LEMMA SumNat ==
  ASSUME NEW S, IsFiniteSet(S), NEW f \in [S -> Nat], NEW g, sumFcn(g, SUBSET S, f)
  PROVE  g[S] \in Nat
<1> DEFINE T == {n \in Nat : \E s \in SUBSET S : Cardinality(s) = n /\ g[s] \notin Nat}
<1>1. \A s \in SUBSET S : IsFiniteSet(s) /\ Cardinality(s) \in Nat
  BY FS_Subset, FS_CardinalityType
<1>2. ASSUME T # {} PROVE FALSE
  <2>1. PICK n \in T : \A m \in T : n <= m
    <3>1. T \subseteq Nat
      OBVIOUS
    <3> HIDE DEF T
    <3> QED
      BY <1>2, <3>1, Least
  <2>2. PICK s \in SUBSET S : Cardinality(s) = n /\ g[s] \notin Nat
    OBVIOUS
  <2> DEFINE c == CHOOSE x \in s : TRUE
             t == s \ {c}
  <2>3. g[s] = IF s = {} THEN 0 ELSE f[c] + g[t]
    BY DEF sumFcn
  <2>4. s # {} /\ c \in s
    BY <2>2, <2>3
  <2> HIDE DEF c
  <2>5. Cardinality(t) = n - 1 /\ t \in SUBSET S /\ n \in Nat
    BY <1>1, <2>2, <2>4, FS_RemoveElement
  <2>6. Cardinality(t) \in Nat /\ ~(n <= Cardinality(t))
    BY <1>1, <2>5
  <2>7. g[t] \in Nat
    <3>1. Cardinality(t) \notin T
      BY <2>1, <2>6
    <3> QED
      BY <2>5, <2>6, <3>1
  <2>8. f[c] \in Nat
    BY <2>4
  <2> QED
    BY <2>2, <2>3, <2>4, <2>7, <2>8
<1> QED
  <2>1. Cardinality(S) \in Nat /\ S \in SUBSET S
    BY <1>1
  <2> QED
    BY <1>2, <2>1

-----------------------------------------------------------------------------
(* Totals of a function over a finite set, that do not depend on the order *)

\* g sums f over every subset of S.
sums(g, S, f) == sumFcn(g, SUBSET S, f)

\* The sum of f over a finite set S.
total(f, S) == (CHOOSE g : sums(g, S, f))[S]

\* f has numbers on S.
natOn(f, S) == \A x \in S : f[x] \in Nat

\* What holds of a subset if it holds of it with any one element less, holds of
\* all.
LEMMA FiniteInduction ==
  ASSUME NEW S, IsFiniteSet(S), NEW P, {} \in P,
         \A s \in SUBSET S : s # {} /\ (\A x \in s : s \ {x} \in P) => s \in P
  PROVE  SUBSET S \subseteq P
<1> DEFINE T == {n \in Nat : \E s \in SUBSET S : Cardinality(s) = n /\ s \notin P}
<1>1. \A s \in SUBSET S : IsFiniteSet(s) /\ Cardinality(s) \in Nat
  BY FS_Subset, FS_CardinalityType
<1>2. ASSUME T # {} PROVE FALSE
  <2>1. PICK n \in T : \A m \in T : n <= m
    <3>1. T \subseteq Nat
      OBVIOUS
    <3> HIDE DEF T
    <3> QED
      BY <1>2, <3>1, Least
  <2>2. PICK s \in SUBSET S : Cardinality(s) = n /\ s \notin P
    OBVIOUS
  <2>3. PICK x \in s : s \ {x} \notin P
    BY <2>2
  <2>4. s \ {x} \in SUBSET S /\ Cardinality(s \ {x}) = n - 1 /\ n \in Nat
    BY <1>1, <2>2, FS_RemoveElement
  <2>5. n - 1 \in Nat
    BY <1>1, <2>4
  <2>6. n - 1 \in T
    BY <2>3, <2>4, <2>5
  <2> HIDE DEF T
  <2> QED
    BY <2>1, <2>4, <2>6
<1> QED
  BY <1>1, <1>2

\* Sums over two sets agree on what the sets have in common.
LEMMA SumsAgree ==
  ASSUME NEW S, IsFiniteSet(S), NEW T, IsFiniteSet(T), NEW f,
         NEW g, sums(g, S, f), NEW h, sums(h, T, f)
  PROVE  g[S \cap T] = h[S \cap T]
<1> DEFINE R == S \cap T
           P == {s \in SUBSET R : g[s] = h[s]}
           c(s) == CHOOSE x \in s : TRUE
<1>1. IsFiniteSet(R)
  BY FS_Subset
<1>2. \A s \in SUBSET R : /\ g[s] = IF s = {} THEN 0 ELSE f[c(s)] + g[s \ {c(s)}]
                          /\ h[s] = IF s = {} THEN 0 ELSE f[c(s)] + h[s \ {c(s)}]
  BY DEF sums, sumFcn
<1>3. {} \in P
  BY <1>2
<1>4. ASSUME NEW s \in SUBSET R, s # {}, \A x \in s : s \ {x} \in P PROVE s \in P
  <2>1. c(s) \in s
    BY <1>4
  <2> HIDE DEF c
  <2>2. g[s \ {c(s)}] = h[s \ {c(s)}]
    BY <1>4, <2>1
  <2> QED
    BY <1>2, <1>4, <2>2
<1>5. SUBSET R \subseteq P
  <2> HIDE DEF P
  <2> QED
    BY <1>1, <1>3, <1>4, FiniteInduction
<1>6. R \in P
  BY <1>5
<1> QED
  BY <1>6

LEMMA TotalIs ==
  ASSUME NEW S, IsFiniteSet(S), NEW f
  PROVE  \E g : sums(g, S, f) /\ total(f, S) = g[S]
<1>1. \E g : sums(g, S, f)
  BY SumExists DEF sums
<1> QED
  BY <1>1 DEF total

LEMMA TotalEmpty == ASSUME NEW f PROVE total(f, {}) = 0
<1>1. IsFiniteSet({})
  BY FS_EmptySet
<1>2. PICK g : sums(g, {}, f) /\ total(f, {}) = g[{}]
  BY <1>1, TotalIs
<1>3. g[{}] = 0
  BY <1>2 DEF sums, sumFcn
<1> QED
  BY <1>2, <1>3

LEMMA TotalChosen ==
  ASSUME NEW S, IsFiniteSet(S), S # {}, NEW f
  PROVE  LET c == CHOOSE x \in S : TRUE
         IN c \in S /\ total(f, S) = f[c] + total(f, S \ {c})
<1> DEFINE c == CHOOSE x \in S : TRUE
           R == S \ {c}
<1>1. c \in S
  OBVIOUS
<1>2. PICK g : sums(g, S, f) /\ total(f, S) = g[S]
  BY TotalIs
<1>3. g[S] = f[c] + g[R]
  BY <1>2 DEF sums, sumFcn
<1>4. IsFiniteSet(R)
  BY FS_Subset
<1>5. PICK h : sums(h, R, f) /\ total(f, R) = h[R]
  BY <1>4, TotalIs
<1>6. S \cap R = R
  OBVIOUS
<1> HIDE DEF R
<1>7. g[S \cap R] = h[S \cap R]
  BY <1>2, <1>4, <1>5, SumsAgree
<1>8. g[R] = h[R]
  BY <1>6, <1>7
<1> QED
  BY <1>1, <1>2, <1>3, <1>5, <1>8 DEF R

LEMMA TotalNat ==
  ASSUME NEW S, IsFiniteSet(S), NEW f, natOn(f, S)
  PROVE  total(f, S) \in Nat
<1> DEFINE P == {s \in SUBSET S : total(f, s) \in Nat}
<1>1. {} \in P
  BY TotalEmpty
<1>2. ASSUME NEW s \in SUBSET S, s # {}, \A x \in s : s \ {x} \in P PROVE s \in P
  <2>1. IsFiniteSet(s)
    BY FS_Subset
  <2> DEFINE c == CHOOSE x \in s : TRUE
  <2>2. c \in s /\ total(f, s) = f[c] + total(f, s \ {c})
    BY <1>2, <2>1, TotalChosen
  <2> HIDE DEF c
  <2>3. f[c] \in Nat /\ total(f, s \ {c}) \in Nat
    BY <1>2, <2>2 DEF natOn
  <2> QED
    BY <2>2, <2>3
<1> HIDE DEF P
<1>3. SUBSET S \subseteq P
  BY <1>1, <1>2, FiniteInduction
<1>4. S \in P
  BY <1>3
<1> QED
  BY <1>4 DEF P
\* Any element may be taken out.
LEMMA TotalTakeOut ==
  ASSUME NEW S, IsFiniteSet(S), NEW f, natOn(f, S), NEW y \in S
  PROVE  total(f, S) = f[y] + total(f, S \ {y})
<1> DEFINE P == {s \in SUBSET S : \A x \in s : total(f, s) = f[x] + total(f, s \ {x})}
<1>1. {} \in P
  OBVIOUS
<1>2. ASSUME NEW s \in SUBSET S, s # {}, \A x \in s : s \ {x} \in P PROVE s \in P
  <2>1. IsFiniteSet(s)
    BY FS_Subset
  <2> DEFINE c == CHOOSE x \in s : TRUE
  <2>2. c \in s /\ total(f, s) = f[c] + total(f, s \ {c})
    BY <1>2, <2>1, TotalChosen
  <2> HIDE DEF c
  <2>3. ASSUME NEW x \in s PROVE total(f, s) = f[x] + total(f, s \ {x})
    <3>1. CASE x = c
      BY <2>2, <3>1
    <3>2. CASE x # c
      <4> DEFINE r == s \ {c, x}
      <4>1. r = (s \ {c}) \ {x} /\ r = (s \ {x}) \ {c} /\ r \subseteq S
            /\ x \in s \ {c} /\ c \in s \ {x}
        BY <2>2, <3>2
      <4>2. s \ {c} \in P /\ s \ {x} \in P
        BY <1>2, <2>2
      <4> HIDE DEF r
      <4>3. total(f, s \ {c}) = f[x] + total(f, r)
        <5>1. total(f, s \ {c}) = f[x] + total(f, (s \ {c}) \ {x})
          BY <4>1, <4>2
        <5> QED
          BY <4>1, <5>1
      <4>4. total(f, s \ {x}) = f[c] + total(f, r)
        <5>1. total(f, s \ {x}) = f[c] + total(f, (s \ {x}) \ {c})
          BY <4>1, <4>2
        <5> QED
          BY <4>1, <5>1
      <4>5. f[c] \in Nat /\ f[x] \in Nat /\ total(f, r) \in Nat
        <5>1. IsFiniteSet(r) /\ natOn(f, r)
          BY <4>1, FS_Subset DEF natOn
        <5>2. total(f, r) \in Nat
          BY <5>1, TotalNat
        <5> QED
          BY <2>2, <5>2 DEF natOn
      <4> QED
        BY <2>2, <4>3, <4>4, <4>5
    <3> QED
      BY <3>1, <3>2
  <2> QED
    BY <2>3
<1> HIDE DEF P
<1>3. SUBSET S \subseteq P
  BY <1>1, <1>2, FiniteInduction
<1>4. S \in P
  BY <1>3
<1> QED
  BY <1>4 DEF P

LEMMA TotalSame ==
  ASSUME NEW S, IsFiniteSet(S), NEW f, NEW h, \A x \in S : f[x] = h[x]
  PROVE  total(f, S) = total(h, S)
<1> DEFINE P == {s \in SUBSET S : total(f, s) = total(h, s)}
<1>1. {} \in P
  BY TotalEmpty
<1>2. ASSUME NEW s \in SUBSET S, s # {}, \A x \in s : s \ {x} \in P PROVE s \in P
  <2>1. IsFiniteSet(s)
    BY FS_Subset
  <2> DEFINE c == CHOOSE x \in s : TRUE
  <2>2. c \in s /\ total(f, s) = f[c] + total(f, s \ {c})
                /\ total(h, s) = h[c] + total(h, s \ {c})
    BY <1>2, <2>1, TotalChosen
  <2> HIDE DEF c
  <2>3. total(f, s \ {c}) = total(h, s \ {c}) /\ f[c] = h[c]
    BY <1>2, <2>2
  <2> QED
    BY <2>2, <2>3
<1> HIDE DEF P
<1>3. SUBSET S \subseteq P
  BY <1>1, <1>2, FiniteInduction
<1>4. S \in P
  BY <1>3
<1> QED
  BY <1>4 DEF P

LEMMA TotalOne ==
  ASSUME NEW f, NEW x, f[x] \in Nat
  PROVE  total(f, {x}) = f[x]
<1>1. IsFiniteSet({x}) /\ natOn(f, {x}) /\ {x} \ {x} = {}
  BY FS_Singleton DEF natOn
<1>2. total(f, {x}) = f[x] + total(f, {})
  BY <1>1, TotalTakeOut
<1>3. total(f, {}) = 0
  BY TotalEmpty
<1> QED
  BY <1>2, <1>3

LEMMA TotalUnion ==
  ASSUME NEW A, NEW B, IsFiniteSet(A), IsFiniteSet(B), A \cap B = {},
         NEW f, natOn(f, A), natOn(f, B)
  PROVE  /\ total(f, A \cup B) = total(f, A) + total(f, B)
         /\ IsFiniteSet(A \cup B) /\ natOn(f, A \cup B)
<1> DEFINE U == A \cup B
           P == {s \in SUBSET A : total(f, s \cup B) = total(f, s) + total(f, B)}
<1>1. IsFiniteSet(U) /\ natOn(f, U)
  BY FS_Union DEF natOn
<1>2. total(f, B) \in Nat /\ \A s \in SUBSET A : total(f, s) \in Nat
  <2>1. ASSUME NEW s \in SUBSET A PROVE total(f, s) \in Nat
    <3>1. IsFiniteSet(s) /\ natOn(f, s)
      BY FS_Subset DEF natOn
    <3> QED
      BY <3>1, TotalNat
  <2>2. total(f, B) \in Nat
    BY TotalNat
  <2> QED
    BY <2>1, <2>2
<1>3. {} \in P
  <2>1. total(f, {}) = 0 /\ {} \cup B = B
    BY TotalEmpty
  <2> QED
    BY <1>2, <2>1
<1>4. ASSUME NEW s \in SUBSET A, s # {}, \A x \in s : s \ {x} \in P PROVE s \in P
  <2>1. PICK x \in s : TRUE
    BY <1>4
  <2> DEFINE r == s \ {x}
  <2>2. s \cup B \in SUBSET U /\ IsFiniteSet(s \cup B) /\ natOn(f, s \cup B)
        /\ IsFiniteSet(s) /\ natOn(f, s)
    BY <1>1, FS_Subset DEF natOn
  <2>3. (s \cup B) \ {x} = r \cup B
    OBVIOUS
  <2>4. total(f, s \cup B) = f[x] + total(f, r \cup B)
    BY <2>2, <2>3, TotalTakeOut
  <2>5. total(f, s) = f[x] + total(f, r)
    BY <2>2, TotalTakeOut
  <2>6. total(f, r \cup B) = total(f, r) + total(f, B)
    BY <1>4
  <2>7. f[x] \in Nat /\ total(f, r) \in Nat
    <3>1. r \in SUBSET A
      OBVIOUS
    <3> QED
      BY <1>2, <3>1 DEF natOn
  <2> HIDE DEF r
  <2> QED
    BY <1>2, <2>4, <2>5, <2>6, <2>7
<1>5. A \in P
  <2> HIDE DEF P
  <2>1. SUBSET A \subseteq P
    BY <1>3, <1>4, FiniteInduction
  <2> QED
    BY <2>1
<1> QED
  BY <1>1, <1>5

\* Over parts that have nothing in common: the total of the totals.
LEMMA TotalParts ==
  ASSUME NEW I, IsFiniteSet(I), NEW p, NEW f,
         \A i \in I : IsFiniteSet(p[i]) /\ natOn(f, p[i]),
         \A i, j \in I : i # j => p[i] \cap p[j] = {}
  PROVE  LET U == UNION {p[i] : i \in I}
         IN /\ total(f, U) = total([i \in I |-> total(f, p[i])], I)
            /\ IsFiniteSet(U) /\ natOn(f, U)
<1> DEFINE U(s) == UNION {p[i] : i \in s}
           h == [i \in I |-> total(f, p[i])]
           P == {s \in SUBSET I : /\ total(f, U(s)) = total(h, s)
                                  /\ IsFiniteSet(U(s)) /\ natOn(f, U(s))}
<1>1. natOn(h, I)
  <2>1. \A i \in I : total(f, p[i]) \in Nat
    BY TotalNat
  <2> QED
    BY <2>1 DEF natOn
<1>2. {} \in P
  <2>1. U({}) = {}
    OBVIOUS
  <2>2. total(f, {}) = 0 /\ total(h, {}) = 0 /\ IsFiniteSet({}) /\ natOn(f, {})
    BY FS_EmptySet, TotalEmpty DEF natOn
  <2> HIDE DEF U, h
  <2> QED
    BY <2>1, <2>2
<1>3. ASSUME NEW s \in SUBSET I, s # {}, \A x \in s : s \ {x} \in P PROVE s \in P
  <2>1. PICK x \in s : TRUE
    BY <1>3
  <2> DEFINE r == s \ {x}
  <2>2. U(s) = p[x] \cup U(r)
    OBVIOUS
  <2>3. p[x] \cap U(r) = {}
    OBVIOUS
  <2>4. total(f, U(r)) = total(h, r) /\ IsFiniteSet(U(r)) /\ natOn(f, U(r))
    BY <1>3
  <2>5. x \in I /\ h[x] = total(f, p[x]) /\ IsFiniteSet(s) /\ natOn(h, s)
    BY <1>1, FS_Subset DEF natOn
  <2> DEFINE A == p[x]
             B == U(r)
  <2>6. /\ total(f, A \cup B) = total(f, A) + total(f, B)
        /\ IsFiniteSet(A \cup B) /\ natOn(f, A \cup B)
    <3>1. IsFiniteSet(A) /\ natOn(f, A)
      BY <2>5
    <3>2. IsFiniteSet(B) /\ natOn(f, B) /\ A \cap B = {}
      BY <2>3, <2>4
    <3> HIDE DEF A, B
    <3> QED
      BY <3>1, <3>2, TotalUnion
  <2> HIDE DEF U, h
  <2>7. total(h, s) = h[x] + total(h, r)
    BY <2>5, TotalTakeOut
  <2>8. total(f, U(s)) = total(h, s) /\ IsFiniteSet(U(s)) /\ natOn(f, U(s))
    BY <2>2, <2>4, <2>5, <2>6, <2>7
  <2> QED
    BY <2>8
<1>4. I \in P
  <2> HIDE DEF P
  <2>1. SUBSET I \subseteq P
    BY <1>2, <1>3, FiniteInduction
  <2> QED
    BY <2>1
<1> QED
  BY <1>4

-----------------------------------------------------------------------------
(* The machine *)

isSharers(a, f) ==
  f = [n \in 0 .. Len(a) |->
         IF n = 0 THEN << >>
         ELSE IF a[n] > 1 THEN << a[n] >> \o f[n - 1] ELSE f[n - 1]]

\* What sharers computes.
LEMMA SharersIs ==
  ASSUME NEW a \in Seq(Nat)
  PROVE  /\ sharers(a) \in [0 .. Len(a) -> Seq(Nat)]
         /\ isSharers(a, sharers(a))
<1> DEFINE N == Len(a)
           step == [n \in 1 .. N |-> [x \in Seq(Nat) |->
                      IF a[n] > 1 THEN << a[n] >> \o x ELSE x]]
<1>1. N \in Nat /\ \A n \in 1 .. N : a[n] \in Nat
  OBVIOUS
<1>2. \A n \in 1 .. N : \A x \in Seq(Nat) :
        /\ step[n][x] = IF a[n] > 1 THEN << a[n] >> \o x ELSE x
        /\ step[n][x] \in Seq(Nat)
  <2>1. ASSUME NEW n \in 1 .. N, NEW x \in Seq(Nat)
        PROVE  /\ step[n][x] = IF a[n] > 1 THEN << a[n] >> \o x ELSE x
               /\ step[n][x] \in Seq(Nat)
    <3>1. << a[n] >> \in Seq(Nat)
      BY <1>1
    <3>2. << a[n] >> \o x \in Seq(Nat)
      BY <3>1, ConcatProperties
    <3> QED
      BY <3>2
  <2> QED
    BY <2>1
<1> HIDE DEF N, step
<1>3. PICK g : computed(g, N, Seq(Nat), << >>, step)
  <2>1. isStep(step, N, Seq(Nat))
    BY <1>2 DEF isStep
  <2>2. << >> \in Seq(Nat)
    OBVIOUS
  <2> QED
    BY <1>1, <2>1, <2>2, Recursion
<1>4. isSharers(a, g)
  <2>1. ASSUME NEW n \in 0 .. N
        PROVE  g[n] = IF n = 0 THEN << >>
                      ELSE IF a[n] > 1 THEN << a[n] >> \o g[n - 1] ELSE g[n - 1]
    <3>1. CASE n = 0
      BY <1>3, <3>1 DEF computed
    <3>2. CASE n # 0
      <4>1. n \in 1 .. N /\ n - 1 \in 0 .. N
        BY <1>1, <3>2
      <4>2. g[n - 1] \in Seq(Nat) /\ g[n] = step[n][g[n - 1]]
        BY <1>3, <4>1 DEF computed
      <4> QED
        BY <1>2, <3>2, <4>1, <4>2
    <3> QED
      BY <3>1, <3>2
  <2>2. g = [n \in 0 .. N |-> g[n]]
    BY <1>3 DEF computed
  <2> QED
    BY <2>1, <2>2 DEF isSharers, N
<1> DEFINE above == CHOOSE f : isSharers(a, f)
<1>5. isSharers(a, above) /\ sharers(a) = above
  <2>1. isSharers(a, above)
    BY <1>4
  <2>2. sharers(a) = above
    BY DEF sharers, isSharers
  <2> QED
    BY <2>1, <2>2
<1> HIDE DEF above
<1>6. \A n \in 0 .. N : above[n] \in Seq(Nat)
  <2> DEFINE S == {n \in 0 .. N : above[n] \in Seq(Nat)}
  <2>0. \A n \in 0 .. N :
          above[n] = IF n = 0 THEN << >>
                     ELSE IF a[n] > 1 THEN << a[n] >> \o above[n - 1] ELSE above[n - 1]
    BY <1>5, Zenon DEF isSharers, N
  <2>1. 0 \in S
    <3>1. 0 \in 0 .. N
      BY <1>1
    <3>2. above[0] = << >>
      BY <2>0, <3>1, Zenon
    <3>3. << >> \in Seq(Nat)
      OBVIOUS
    <3> HIDE DEF N
    <3> QED
      BY <3>1, <3>2, <3>3, Zenon
  <2>2. ASSUME NEW n \in 0 .. N - 1, n \in S PROVE n + 1 \in S
    <3>1. n + 1 \in 0 .. N /\ n + 1 # 0 /\ (n + 1) - 1 = n /\ a[n + 1] \in Nat
      BY <1>1
    <3>2. above[n] \in Seq(Nat) /\ << a[n + 1] >> \in Seq(Nat)
      BY <2>2, <3>1
    <3>3. << a[n + 1] >> \o above[n] \in Seq(Nat)
      BY <3>2, ConcatProperties
    <3> QED
      BY <2>0, <3>1, <3>2, <3>3
  <2> HIDE DEF S
  <2>3. 0 .. N \subseteq S
    BY <1>1, <2>1, <2>2, Induction
  <2> QED
    BY <2>3 DEF S
<1>7. above \in [0 .. N -> Seq(Nat)]
  <2>1. DOMAIN above = 0 .. N /\ above = [n \in DOMAIN above |-> above[n]]
    BY <1>5 DEF isSharers, N
  <2> QED
    BY <1>6, <2>1
<1> QED
  BY <1>5, <1>7 DEF N

LEMMA SharersAt ==
  ASSUME NEW a \in Seq(Nat), NEW n \in 0 .. Len(a)
  PROVE  /\ sharers(a)[n] \in Seq(Nat)
         /\ sharers(a)[n] = IF n = 0 THEN << >>
                            ELSE IF a[n] > 1 THEN << a[n] >> \o sharers(a)[n - 1]
                                             ELSE sharers(a)[n - 1]
<1>1. sharers(a)[n] \in Seq(Nat)
  BY SharersIs
<1>2. isSharers(a, sharers(a))
  BY SharersIs
<1> DEFINE f == sharers(a)
<1> HIDE DEF f
<1>3. isSharers(a, f)
  BY <1>2 DEF f
<1>4. f[n] = IF n = 0 THEN << >>
             ELSE IF a[n] > 1 THEN << a[n] >> \o f[n - 1] ELSE f[n - 1]
  BY <1>3, Zenon DEF isSharers
<1> QED
  BY <1>1, <1>4 DEF f

\* The sharers of n levels end with those of fewer, and all are above 1.
LEMMA SharersEnd ==
  ASSUME NEW a \in Seq(Nat), NEW n \in 0 .. Len(a), NEW d \in 0 .. n
  PROVE  LET f == sharers(a)
         IN /\ Len(f[n]) \in Nat /\ Len(f[d]) \in 0 .. Len(f[n])
            /\ \A i \in 1 .. Len(f[n]) : f[n][i] \in Nat /\ f[n][i] > 1
            /\ \A i \in 1 .. Len(f[d]) : f[n][Len(f[n]) - Len(f[d]) + i] = f[d][i]
<1> DEFINE f == sharers(a)
           N == Len(a)
           ends(k, e) == /\ Len(f[e]) \in 0 .. Len(f[k])
                         /\ \A i \in 1 .. Len(f[e]) : f[k][Len(f[k]) - Len(f[e]) + i] = f[e][i]
           above1(k) == \A i \in 1 .. Len(f[k]) : f[k][i] \in Nat /\ f[k][i] > 1
           S == {k \in 0 .. N : above1(k) /\ \A e \in 0 .. k : ends(k, e)}
<1>1. N \in Nat /\ \A k \in 1 .. N : a[k] \in Nat
  OBVIOUS
<1>2. /\ \A k \in 0 .. N : f[k] \in Seq(Nat)
      /\ f[0] = << >>
      /\ \A k \in 1 .. N : f[k] = IF a[k] > 1 THEN << a[k] >> \o f[k - 1] ELSE f[k - 1]
  <2>1. 0 \in 0 .. N /\ \A k \in 1 .. N : k \in 0 .. N /\ k # 0
    OBVIOUS
  <2>2. \A k \in 0 .. N : f[k] \in Seq(Nat)
    BY SharersAt
  <2>3. f[0] = << >>
    BY <2>1, SharersAt
  <2>4. \A k \in 1 .. N : f[k] = IF a[k] > 1 THEN << a[k] >> \o f[k - 1] ELSE f[k - 1]
    BY <2>1, SharersAt
  <2> QED
    BY <2>2, <2>3, <2>4
<1> HIDE DEF f, N
<1>3. 0 \in S
  <2>1. 0 \in 0 .. N /\ Len(f[0]) = 0 /\ \A e \in 0 .. 0 : e = 0
    BY <1>1, <1>2
  <2>2. above1(0) /\ ends(0, 0)
    BY <2>1
  <2> HIDE DEF above1, ends
  <2> QED
    BY <2>1, <2>2
<1>4. ASSUME NEW k \in 0 .. N - 1, k \in S PROVE k + 1 \in S
  <2>1. /\ k + 1 \in 1 .. N /\ k + 1 \in 0 .. N /\ k \in 0 .. N /\ (k + 1) - 1 = k
        /\ a[k + 1] \in Nat /\ k \in Nat
    BY <1>1
  <2>2. f[k] \in Seq(Nat) /\ f[k + 1] \in Seq(Nat) /\ Len(f[k]) \in Nat
    BY <1>2, <2>1
  <2>3. above1(k) /\ \A e \in 0 .. k : ends(k, e)
    BY <1>4
  <2>4. f[k + 1] = IF a[k + 1] > 1 THEN << a[k + 1] >> \o f[k] ELSE f[k]
    BY <1>2, <2>1
  <2>5. ends(k + 1, k + 1)
    BY <2>2
  <2>6. \A e \in 0 .. k + 1 : e \in 0 .. k \/ e = k + 1
    BY <2>1
  <2>7. CASE a[k + 1] > 1
    <3>1. << a[k + 1] >> \in Seq(Nat) /\ Len(<< a[k + 1] >>) = 1
      BY <2>1
    <3>2. /\ Len(f[k + 1]) = 1 + Len(f[k]) /\ f[k + 1][1] = a[k + 1]
          /\ \A i \in 1 .. Len(f[k]) : f[k + 1][1 + i] = f[k][i]
      BY <2>2, <2>4, <2>7, <3>1
    <3>3. above1(k + 1)
      <4>1. TAKE i \in 1 .. Len(f[k + 1])
      <4>2. CASE i = 1
        BY <2>1, <2>7, <3>2, <4>2
      <4>3. CASE i # 1
        <5>1. i - 1 \in 1 .. Len(f[k]) /\ 1 + (i - 1) = i
          BY <2>2, <3>2, <4>3
        <5>2. f[k + 1][i] = f[k][i - 1]
          BY <3>2, <5>1
        <5> QED
          BY <2>3, <5>1, <5>2
      <4> QED
        BY <4>2, <4>3
    <3>4. ASSUME NEW e \in 0 .. k PROVE ends(k + 1, e)
      <4>1. ends(k, e)
        BY <2>3
      <4>2. Len(f[e]) \in 0 .. Len(f[k + 1])
        BY <2>2, <3>2, <4>1
      <4>3. ASSUME NEW i \in 1 .. Len(f[e])
            PROVE  f[k + 1][Len(f[k + 1]) - Len(f[e]) + i] = f[e][i]
        <5> DEFINE x == Len(f[k]) - Len(f[e]) + i
        <5>0. Len(f[e]) \in 0 .. Len(f[k]) /\ Len(f[k]) \in Nat /\ Len(f[k + 1]) = 1 + Len(f[k])
          BY <2>2, <3>2, <4>1
        <5>1. x \in 1 .. Len(f[k]) /\ Len(f[k + 1]) - Len(f[e]) + i = 1 + x
          <6> DEFINE L == Len(f[k])
                     M == Len(f[e])
                     L1 == Len(f[k + 1])
          <6>1. M \in 0 .. L /\ L \in Nat /\ L1 = 1 + L /\ i \in 1 .. M
            BY <5>0
          <6> HIDE DEF L, M, L1
          <6>2. L - M + i \in 1 .. L /\ L1 - M + i = 1 + (L - M + i)
            BY <6>1
          <6> QED
            BY <6>2 DEF L, M, L1
        <5>2. f[k][x] = f[e][i]
          BY <4>1
        <5> HIDE DEF x
        <5> QED
          BY <3>2, <5>1, <5>2
      <4> QED
        BY <4>2, <4>3
    <3> HIDE DEF above1, ends
    <3> QED
      BY <2>1, <2>5, <2>6, <3>3, <3>4
  <2>8. CASE ~(a[k + 1] > 1)
    <3>1. f[k + 1] = f[k]
      BY <2>4, <2>8
    <3>2. above1(k + 1) /\ \A e \in 0 .. k : ends(k + 1, e)
      BY <2>3, <3>1
    <3> HIDE DEF above1, ends
    <3> QED
      BY <2>1, <2>5, <2>6, <3>2
  <2> QED
    BY <2>7, <2>8
<1> HIDE DEF S
<1>5. 0 .. N \subseteq S
  BY <1>1, <1>3, <1>4, Induction
<1>6. n \in S
  BY <1>5 DEF N
<1>7. f[n] \in Seq(Nat)
  BY <1>2 DEF N
<1>8. above1(n) /\ ends(n, d)
  <2> HIDE DEF above1, ends
  <2> QED
    BY <1>6 DEF S
<1>9. Len(f[n]) \in Nat
  BY <1>7
<1> QED
  BY <1>8, <1>9 DEF f

\* The level whose groups the vertices at a depth of the tree get.
levelAt(a, d) == 1 + Len(sharers(a)[Len(a)]) - Len(sharers(a)[d])

LEMMA LevelAtEnds ==
  ASSUME NEW a \in Seq(Nat), NEW d \in 0 .. Len(a)
  PROVE  /\ Len(sharers(a)[Len(a)]) \in Nat
         /\ levelAt(a, 0) = 1 + Len(sharers(a)[Len(a)])
         /\ levelAt(a, Len(a)) = 1
         /\ levelAt(a, d) \in 1 .. levelAt(a, 0)
<1>1. Len(a) \in Nat /\ 0 \in 0 .. Len(a) /\ Len(a) \in 0 .. Len(a)
  OBVIOUS
<1>2. /\ Len(sharers(a)[Len(a)]) \in Nat
      /\ Len(sharers(a)[d]) \in 0 .. Len(sharers(a)[Len(a)])
  BY <1>1, SharersEnd
<1>3. Len(sharers(a)[0]) = 0
  <2>1. sharers(a)[0] = << >>
    BY <1>1, SharersAt
  <2> QED
    BY <2>1
<1> DEFINE L == Len(sharers(a)[Len(a)])
           M == Len(sharers(a)[d])
           Z == Len(sharers(a)[0])
<1>4. levelAt(a, 0) = 1 + L - Z /\ levelAt(a, Len(a)) = 1 + L - L /\ levelAt(a, d) = 1 + L - M
  BY DEF levelAt
<1> HIDE DEF L, M, Z
<1>5. L \in Nat /\ M \in 0 .. L /\ Z = 0
  BY <1>2, <1>3 DEF L, M, Z
<1>6. L \in Nat /\ levelAt(a, 0) = 1 + L /\ levelAt(a, Len(a)) = 1 /\ levelAt(a, d) \in 1 .. 1 + L
  BY <1>4, <1>5
<1> QED
  BY <1>6 DEF L

LEMMA LevelAtNat ==
  ASSUME NEW a \in Seq(Nat), NEW d \in 0 .. Len(a)
  PROVE  levelAt(a, d) \in Nat \ {0}
<1> DEFINE L == Len(sharers(a)[Len(a)])
<1>1. L \in Nat /\ levelAt(a, 0) = 1 + L /\ levelAt(a, d) \in 1 .. levelAt(a, 0)
  BY LevelAtEnds
<1> HIDE DEF L
<1> QED
  BY <1>1

\* A level of the tree that has sharers takes one off the groups' levels.
LEMMA LevelAtStep ==
  ASSUME NEW a \in Seq(Nat), NEW d \in 1 .. Len(a)
  PROVE  /\ levelAt(a, d - 1) = levelAt(a, d) + (IF a[d] > 1 THEN 1 ELSE 0)
         /\ a[d] > 1 => sharers(a)[Len(a)][levelAt(a, d)] = a[d]
<1> DEFINE f == sharers(a)
           N == Len(a)
<1>1. /\ N \in Nat /\ d \in 0 .. N /\ d # 0 /\ d - 1 \in 0 .. N /\ N \in 0 .. N
      /\ a[d] \in Nat
  OBVIOUS
<1>2. f[d] = IF a[d] > 1 THEN << a[d] >> \o f[d - 1] ELSE f[d - 1]
  BY <1>1, SharersAt
<1>3. f[d - 1] \in Seq(Nat) /\ f[d] \in Seq(Nat)
  BY <1>1, SharersAt
<1>4. /\ Len(f[N]) \in Nat /\ Len(f[d]) \in 0 .. Len(f[N])
      /\ \A i \in 1 .. Len(f[d]) : f[N][Len(f[N]) - Len(f[d]) + i] = f[d][i]
  BY <1>1, SharersEnd
<1> HIDE DEF f, N
<1>5. Len(f[d]) = Len(f[d - 1]) + (IF a[d] > 1 THEN 1 ELSE 0) /\ Len(f[d - 1]) \in Nat
  <2> DEFINE x == f[d]
             y == f[d - 1]
             A == a[d]
  <2>1. x = (IF A > 1 THEN << A >> \o y ELSE y) /\ x \in Seq(Nat) /\ y \in Seq(Nat) /\ A \in Nat
    BY <1>1, <1>2, <1>3
  <2> HIDE DEF x, y, A
  <2>2. Len(x) = Len(y) + (IF A > 1 THEN 1 ELSE 0) /\ Len(y) \in Nat
    <3>1. CASE A > 1
      <4>1. << A >> \in Seq(Nat) /\ Len(<< A >>) = 1
        BY <2>1
      <4>2. Len(x) = Len(<< A >>) + Len(y)
        BY <2>1, <3>1, <4>1
      <4>3. Len(y) \in Nat
        BY <2>1
      <4> QED
        BY <3>1, <4>1, <4>2, <4>3
    <3>2. CASE ~(A > 1)
      BY <2>1, <3>2
    <3> QED
      BY <3>1, <3>2
  <2> QED
    BY <2>2 DEF x, y, A
<1>6. levelAt(a, d - 1) = levelAt(a, d) + (IF a[d] > 1 THEN 1 ELSE 0)
  BY <1>4, <1>5 DEF levelAt, f, N
<1>7. ASSUME a[d] > 1 PROVE f[N][levelAt(a, d)] = a[d]
  <2>1. 1 \in 1 .. Len(f[d]) /\ f[d][1] = a[d]
    BY <1>1, <1>2, <1>3, <1>5, <1>7
  <2>2. f[N][Len(f[N]) - Len(f[d]) + 1] = a[d]
    BY <1>4, <2>1
  <2>3. levelAt(a, d) = Len(f[N]) - Len(f[d]) + 1
    BY <1>4 DEF levelAt, f, N
  <2> QED
    BY <2>2, <2>3
<1> QED
  BY <1>6, <1>7 DEF f, N

\* Every level of groups from the first to that of the root is the one of
\* some depth.
LEMMA LevelAtSome ==
  ASSUME NEW a \in Seq(Nat), NEW l \in 1 .. levelAt(a, 0)
  PROVE  \E d \in 0 .. Len(a) : levelAt(a, d) = l
<1> DEFINE N == Len(a)
           S == {n \in 0 .. N : levelAt(a, n) <= l => \E d \in 0 .. n : levelAt(a, d) = l}
<1>1. N \in Nat /\ \A n \in 0 .. N : levelAt(a, n) \in Nat
  BY LevelAtEnds
<1>2. 0 \in S
  BY <1>1
<1>3. ASSUME NEW n \in 0 .. N - 1, n \in S PROVE n + 1 \in S
  <2>1. n + 1 \in 1 .. N /\ (n + 1) - 1 = n /\ n + 1 \in 0 .. N /\ n \in 0 .. N
    BY <1>1
  <2>2. levelAt(a, n) \in {levelAt(a, n + 1), levelAt(a, n + 1) + 1}
    <3> DEFINE m == n + 1
    <3>1. m \in 1 .. Len(a) /\ m - 1 = n
      BY <2>1
    <3> HIDE DEF m
    <3>2. levelAt(a, m - 1) = levelAt(a, m) + (IF a[m] > 1 THEN 1 ELSE 0)
      BY <3>1, LevelAtStep
    <3>3. levelAt(a, m) \in Nat
      <4>1. m \in 0 .. N
        BY <1>1, <3>1
      <4> QED
        BY <1>1, <4>1
    <3>4. levelAt(a, n) \in {levelAt(a, m), levelAt(a, m) + 1}
      BY <3>1, <3>2, <3>3
    <3> QED
      BY <3>4 DEF m
  <2>3. levelAt(a, n + 1) \in Nat /\ levelAt(a, n) \in Nat /\ l \in Nat
    BY <1>1, <2>1
  <2>4. SUFFICES ASSUME levelAt(a, n + 1) <= l
                 PROVE  \E d \in 0 .. n + 1 : levelAt(a, d) = l
    BY <2>1
  <2>5. CASE levelAt(a, n + 1) = l
    BY <2>1, <2>5
  <2>6. CASE levelAt(a, n + 1) # l
    <3>1. levelAt(a, n) <= l
      BY <2>2, <2>3, <2>4, <2>6
    <3>2. \E d \in 0 .. n : levelAt(a, d) = l
      BY <1>3, <3>1
    <3>3. 0 .. n \subseteq 0 .. n + 1
      BY <2>1
    <3> QED
      BY <3>2, <3>3
  <2> QED
    BY <2>5, <2>6
<1> HIDE DEF S
<1>4. 0 .. N \subseteq S
  BY <1>1, <1>2, <1>3, Induction
<1>5. N \in S /\ levelAt(a, N) = 1 /\ l >= 1
  BY <1>1, <1>4, LevelAtEnds
<1> QED
  BY <1>5 DEF S

\* The number of vertices at a depth.
width(a, d) == Cardinality(verticesAt(a, d))

LEMMA Widths ==
  ASSUME NEW a \in Seq(Nat \ {0}), NEW d \in 0 .. Len(a)
  PROVE  /\ width(a, d) \in Nat \ {0} /\ width(a, 0) = 1
         /\ d # 0 => width(a, d) = width(a, d - 1) * a[d]
         /\ levelAt(a, d) < levelAt(a, 0) => width(a, d) > 1
<1> DEFINE N == Len(a)
           K == levelAt(a, 0)
           S == {n \in 0 .. N : width(a, n) >= 1 /\ (levelAt(a, n) < K => width(a, n) > 1)}
<1>0. a \in Seq(Nat) /\ N \in Nat /\ \A n \in 1 .. N : a[n] \in Nat /\ a[n] >= 1
  OBVIOUS
<1>1. /\ width(a, 0) = 1
      /\ \A n \in 0 .. N : width(a, n) \in Nat
      /\ \A n \in 1 .. N : width(a, n) = width(a, n - 1) * a[n]
  BY <1>0, LevelSize DEF width
<1>2. K \in Nat /\ \A n \in 0 .. N : levelAt(a, n) \in Nat /\ levelAt(a, n) <= K
  <2>1. \A n \in 0 .. N : levelAt(a, n) \in 1 .. levelAt(a, 0)
    BY <1>0, LevelAtEnds
  <2>2. 0 \in 0 .. N
    BY <1>0
  <2>3. K \in Nat
    BY <2>1, <2>2
  <2> QED
    BY <2>1, <2>3
<1>3. 0 \in S
  BY <1>0, <1>1, <1>2
<1>4. ASSUME NEW n \in 0 .. N - 1, n \in S PROVE n + 1 \in S
  <2> DEFINE w == width(a, n)
             A == a[n + 1]
  <2>1. /\ n + 1 \in 1 .. N /\ (n + 1) - 1 = n /\ n + 1 \in 0 .. N /\ n \in 0 .. N
    BY <1>0
  <2>2. /\ width(a, n + 1) = w * A /\ w \in Nat /\ w >= 1 /\ A \in Nat /\ A >= 1
        /\ levelAt(a, n) = levelAt(a, n + 1) + (IF A > 1 THEN 1 ELSE 0)
        /\ levelAt(a, n) < K => w > 1
    BY <1>0, <1>1, <1>4, <2>1, LevelAtStep
  <2>3. levelAt(a, n) \in Nat /\ levelAt(a, n + 1) \in Nat
    BY <1>2, <2>1
  <2> HIDE DEF w, A, K
  <2>4. w * A \in Nat /\ w * A >= w /\ w * A >= A
    <3>1. w * A = (w - 1) * A + A /\ w * A = w * (A - 1) + w
      BY <2>2
    <3>2. (w - 1) * A >= 0 /\ w * (A - 1) >= 0
      BY <2>2
    <3>3. (w - 1) * A \in Int /\ w * (A - 1) \in Int
      BY <2>2
    <3> QED
      BY <2>2, <3>1, <3>2, <3>3
  <2>5. CASE A > 1
    BY <2>1, <2>2, <2>4, <2>5
  <2>6. CASE ~(A > 1)
    <3>1. levelAt(a, n + 1) = levelAt(a, n)
      BY <2>2, <2>3, <2>6
    <3> QED
      BY <2>1, <2>2, <2>4, <3>1
  <2> QED
    BY <2>5, <2>6
<1> HIDE DEF S
<1>5. 0 .. N \subseteq S
  BY <1>0, <1>3, <1>4, Induction
<1>6. width(a, d) >= 1 /\ (levelAt(a, d) < K => width(a, d) > 1)
  BY <1>5 DEF S
<1>7. d # 0 => width(a, d) = width(a, d - 1) * a[d]
  BY <1>0, <1>1
<1>8. width(a, d) \in Nat
  BY <1>1
<1> QED
  BY <1>1, <1>6, <1>7, <1>8

LEMMA Concat ==
  ASSUME NEW e \in Seq(Nat), NEW f \in Seq(Nat)
  PROVE  /\ Len(e \o f) = Len(e) + Len(f) /\ Len(f) \in Nat
         /\ \A i \in 1 .. Len(e) : (e \o f)[i] = e[i]
         /\ \A i \in 1 .. Len(f) : (e \o f)[Len(e) + i] = f[i]
OBVIOUS

LEMMA SharedIs ==
  ASSUME NEW a \in Seq(Nat)
  PROVE  LET s == sharedArities(a)
             f == sharers(a)[Len(a)]
         IN /\ Len(s) = 1 + levelAt(a, 0) /\ s[2] = 1
            /\ \A i \in 1 .. Len(f) : s[i + 2] = f[i]
            /\ \A i \in 1 .. Len(s) : s[i] \in Nat \ {0}
<1> DEFINE s == sharedArities(a)
           f == sharers(a)[Len(a)]
           e == << 1, 1 >>
<1>1. f \in Seq(Nat) /\ s = e \o f /\ Len(a) \in 0 .. Len(a)
  <2>1. Len(a) \in 0 .. Len(a)
    OBVIOUS
  <2>2. f \in Seq(Nat)
    BY <2>1, SharersAt
  <2>3. s = e \o f
    BY DEF sharedArities
  <2> QED
    BY <2>1, <2>2, <2>3
<1>2. \A i \in 1 .. Len(f) : f[i] \in Nat /\ f[i] > 1
  BY <1>1, SharersEnd
<1>3. levelAt(a, 0) = 1 + Len(f)
  BY <1>1, LevelAtEnds
<1>4. e \in Seq(Nat) /\ Len(e) = 2 /\ e[1] = 1 /\ e[2] = 1
  OBVIOUS
<1> HIDE DEF s, f, e
<1>5. /\ Len(s) = 2 + Len(f) /\ Len(f) \in Nat
      /\ \A i \in 1 .. 2 : s[i] = e[i]
      /\ \A i \in 1 .. Len(f) : s[2 + i] = f[i]
  <2>1. f \in Seq(Nat) /\ e \in Seq(Nat) /\ s = e \o f /\ Len(e) = 2
    BY <1>1, <1>4
  <2>2. /\ Len(e \o f) = Len(e) + Len(f) /\ Len(f) \in Nat
        /\ \A i \in 1 .. Len(e) : (e \o f)[i] = e[i]
        /\ \A i \in 1 .. Len(f) : (e \o f)[Len(e) + i] = f[i]
    BY <2>1, Concat
  <2> QED
    BY <2>1, <2>2
<1>6. \A i \in 1 .. Len(f) : s[i + 2] = f[i]
  BY <1>5
<1>7. \A i \in 1 .. Len(s) : s[i] \in Nat \ {0}
  <2>1. TAKE i \in 1 .. Len(s)
  <2>2. CASE i \in 1 .. 2
    BY <1>4, <1>5, <2>2
  <2>3. CASE i \notin 1 .. 2
    <3>1. i - 2 \in 1 .. Len(f) /\ 2 + (i - 2) = i
      BY <1>5, <2>3
    <3>2. s[i] = f[i - 2]
      BY <1>5, <3>1
    <3> QED
      BY <1>2, <3>1, <3>2
  <2> QED
    BY <2>2, <2>3
<1>8. Len(s) = 1 + levelAt(a, 0)
  BY <1>3, <1>5 DEF f
<1>9. s[2] = 1
  BY <1>4, <1>5
<1> QED
  BY <1>6, <1>7, <1>8, <1>9 DEF s, f

isExec(a, f) ==
  f = [l \in 0 .. Len(sharedArities(a)) - 1 |->
         IF l = 0 THEN Cardinality(PUs(a)) ELSE f[l - 1] \div sharedArities(a)[l + 1]]

\* What execElements computes.
LEMMA ExecIs ==
  ASSUME NEW a \in Seq(Nat)
  PROVE  /\ isExec(a, execElements(a))
         /\ DOMAIN execElements(a) = 0 .. levelAt(a, 0)
<1> DEFINE s == sharedArities(a)
           N == Len(s) - 1
           W == Cardinality(PUs(a))
           step == [l \in 1 .. N |-> [x \in Nat |-> x \div s[l + 1]]]
<1>1. N = levelAt(a, 0) /\ N \in Nat /\ \A l \in 1 .. N : s[l + 1] \in Nat \ {0}
  <2>1. Len(s) = 1 + levelAt(a, 0) /\ \A i \in 1 .. Len(s) : s[i] \in Nat \ {0}
    BY SharedIs
  <2>2. levelAt(a, 0) \in Nat
    BY LevelAtEnds
  <2> HIDE DEF s
  <2>3. N = levelAt(a, 0) /\ \A l \in 1 .. N : l + 1 \in 1 .. Len(s)
    BY <2>1, <2>2, SMTT(30)
  <2> QED
    BY <2>1, <2>2, <2>3
<1>2. W \in Nat
  BY PathsAre, LevelSize
<1>3. \A l \in 1 .. N : \A x \in Nat : step[l][x] = x \div s[l + 1] /\ step[l][x] \in Nat
  <2>1. ASSUME NEW l \in 1 .. N, NEW x \in Nat
        PROVE  step[l][x] = x \div s[l + 1] /\ step[l][x] \in Nat
    <3>1. step[l][x] = x \div s[l + 1]
      OBVIOUS
    <3>2. s[l + 1] \in Nat \ {0}
      BY <1>1
    <3> DEFINE t == s[l + 1]
    <3> HIDE DEF t
    <3>3. x \div t \in Nat
      BY <3>2, SMTT(30) DEF t
    <3> QED
      BY <3>1, <3>3 DEF t
  <2> QED
    BY <2>1
<1> HIDE DEF s, N, W, step
<1>4. PICK g : computed(g, N, Nat, W, step)
  <2>1. isStep(step, N, Nat)
    BY <1>3 DEF isStep
  <2> QED
    BY <1>1, <1>2, <2>1, Recursion
<1>5. isExec(a, g)
  <2>1. ASSUME NEW l \in 0 .. N
        PROVE  g[l] = IF l = 0 THEN W ELSE g[l - 1] \div s[l + 1]
    <3>1. CASE l = 0
      BY <1>4, <3>1 DEF computed
    <3>2. CASE l # 0
      <4>1. l \in 1 .. N /\ l - 1 \in 0 .. N
        BY <1>1, <3>2
      <4>2. g[l - 1] \in Nat /\ g[l] = step[l][g[l - 1]]
        BY <1>4, <4>1 DEF computed
      <4> QED
        BY <1>3, <3>2, <4>1, <4>2
    <3> QED
      BY <3>1, <3>2
  <2>2. g = [l \in 0 .. N |-> g[l]]
    BY <1>4 DEF computed
  <2> QED
    BY <2>1, <2>2 DEF isExec, N, W, s
<1> DEFINE exec == CHOOSE f : isExec(a, f)
<1>6. isExec(a, exec)
  BY <1>5
<1>7. execElements(a) = exec
  BY DEF execElements, isExec
<1> HIDE DEF exec
<1>8. DOMAIN exec = 0 .. N
  BY <1>6 DEF isExec, N, s
<1> QED
  BY <1>1, <1>6, <1>7, <1>8

LEMMA ExecAt ==
  ASSUME NEW a \in Seq(Nat), NEW l \in 0 .. levelAt(a, 0)
  PROVE  execElements(a)[l] = IF l = 0 THEN Cardinality(PUs(a))
                              ELSE execElements(a)[l - 1] \div sharedArities(a)[l + 1]
<1> DEFINE f == execElements(a)
<1>1. isExec(a, f) /\ DOMAIN f = 0 .. levelAt(a, 0)
  BY ExecIs
<1> HIDE DEF f
<1>2. l \in 0 .. Len(sharedArities(a)) - 1
  BY <1>1 DEF isExec
<1>3. f[l] = IF l = 0 THEN Cardinality(PUs(a))
             ELSE f[l - 1] \div sharedArities(a)[l + 1]
  BY <1>1, <1>2, Zenon DEF isExec
<1> QED
  BY <1>3 DEF f

\* A level has as many groups at most as there are vertices where they go.
LEMMA ExecWidth ==
  ASSUME NEW a \in Seq(Nat \ {0}), NEW d \in 0 .. Len(a)
  PROVE  execElements(a)[levelAt(a, d)] = width(a, d)
<1> DEFINE N == Len(a)
           x == execElements(a)
           S == {n \in 0 .. N : x[levelAt(a, N - n)] = width(a, N - n)}
<1>0. a \in Seq(Nat) /\ N \in Nat /\ \A n \in 1 .. N : a[n] \in Nat /\ a[n] >= 1
  OBVIOUS
<1>1. levelAt(a, N) = 1 /\ levelAt(a, 0) \in Nat /\ levelAt(a, 0) >= 1
  <2>1. levelAt(a, N) = 1 /\ levelAt(a, N) \in 1 .. levelAt(a, 0) /\ Len(sharers(a)[N]) \in Nat
        /\ levelAt(a, 0) = 1 + Len(sharers(a)[N])
    BY <1>0, LevelAtEnds
  <2> QED
    BY <2>1
<1>2. x[1] = width(a, N)
  <2>1. width(a, N) = Cardinality(PUs(a)) /\ width(a, N) \in Nat
    BY <1>0, PathsAre, Widths DEF width
  <2>2. 0 \in 0 .. levelAt(a, 0) /\ 1 \in 0 .. levelAt(a, 0)
    BY <1>1
  <2>3. x[0] = Cardinality(PUs(a))
    BY <1>0, <2>2, ExecAt
  <2>4. x[1] = x[1 - 1] \div sharedArities(a)[1 + 1]
    BY <1>0, <2>2, ExecAt
  <2>5. sharedArities(a)[2] = 1
    BY <1>0, SharedIs
  <2> HIDE DEF x
  <2>6. x[1] = width(a, N) \div 1
    BY <2>1, <2>3, <2>4, <2>5
  <2> QED
    BY <2>1, <2>6
<1> HIDE DEF x
<1>3. 0 \in S
  BY <1>0, <1>1, <1>2
<1>4. ASSUME NEW n \in 0 .. N - 1, n \in S PROVE n + 1 \in S
  <2> DEFINE m == N - n
             l == levelAt(a, m)
  <2>1. m \in 1 .. N /\ m \in 0 .. N /\ m # 0 /\ N - (n + 1) = m - 1 /\ n + 1 \in 0 .. N /\ m - 1 \in 0 .. N
    BY <1>0
  <2>2. x[l] = width(a, m)
    BY <1>4
  <2> HIDE DEF m, l
  <2>3. SUFFICES x[levelAt(a, m - 1)] = width(a, m - 1)
    BY <2>1
  <2>4. /\ width(a, m) = width(a, m - 1) * a[m]
        /\ width(a, m - 1) \in Nat /\ a[m] \in Nat /\ a[m] >= 1
    BY <1>0, <2>1, Widths
  <2>5. /\ levelAt(a, m - 1) = l + (IF a[m] > 1 THEN 1 ELSE 0)
        /\ a[m] > 1 => sharers(a)[N][l] = a[m]
    BY <1>0, <2>1, LevelAtStep DEF l
  <2>6. l \in 1 .. levelAt(a, 0) /\ levelAt(a, m - 1) \in 1 .. levelAt(a, 0)
    BY <1>0, <2>1, LevelAtEnds DEF l
  <2>7. CASE a[m] > 1
    <3>1. l + 1 = levelAt(a, m - 1) /\ l + 1 \in 0 .. levelAt(a, 0) /\ l + 1 # 0 /\ (l + 1) - 1 = l
      BY <1>1, <2>5, <2>6, <2>7
    <3>2. x[l + 1] = x[(l + 1) - 1] \div sharedArities(a)[(l + 1) + 1]
      BY <1>0, <3>1, ExecAt DEF x
    <3>3. sharedArities(a)[l + 2] = a[m]
      <4>1. l \in 1 .. Len(sharers(a)[N])
        <5>1. levelAt(a, 0) = 1 + Len(sharers(a)[N]) /\ Len(sharers(a)[N]) \in Nat
          BY <1>0, <2>1, LevelAtEnds
        <5>2. l + 1 <= levelAt(a, 0)
          BY <1>1, <2>6, <3>1
        <5> QED
          BY <2>6, <5>1, <5>2
      <4>2. sharedArities(a)[l + 2] = sharers(a)[N][l]
        BY <1>0, <4>1, SharedIs
      <4> QED
        BY <2>5, <2>7, <4>2
    <3>4. (l + 1) + 1 = l + 2
      BY <2>6
    <3>5. x[levelAt(a, m - 1)] = (width(a, m - 1) * a[m]) \div a[m]
      BY <2>2, <2>4, <3>1, <3>2, <3>3, <3>4
    <3> DEFINE u == width(a, m - 1)
               v == a[m]
    <3>6. u \in Nat /\ v \in Nat \ {0}
      BY <2>4
    <3> HIDE DEF u, v
    <3>7. (u * v) \div v = u
      BY <3>6
    <3> QED
      BY <3>5, <3>7 DEF u, v
  <2>8. CASE ~(a[m] > 1)
    <3>1. a[m] = 1 /\ levelAt(a, m - 1) = l
      BY <1>1, <2>4, <2>5, <2>6, <2>8
    <3>2. width(a, m) = width(a, m - 1)
      BY <2>4, <3>1
    <3> QED
      BY <2>2, <3>1, <3>2
  <2> QED
    BY <2>7, <2>8
<1> HIDE DEF S
<1>5. 0 .. N \subseteq S
  BY <1>0, <1>3, <1>4, Induction
<1>6. N - d \in 0 .. N /\ N - (N - d) = d
  BY <1>0
<1>7. N - d \in S
  BY <1>5, <1>6
<1> QED
  BY <1>6, <1>7 DEF S, x

\* The root's level is the first one above the threads' with a single group.
LEMMA Used ==
  ASSUME NEW a \in Seq(Nat \ {0})
  PROVE  usedLevels(a) = levelAt(a, 0)
<1> DEFINE K == levelAt(a, 0)
           x == execElements(a)
           T == {Len(sharedArities(a))} \cup {l \in DOMAIN x \ {0} : x[l] = 1}
<1>1. a \in Seq(Nat) /\ Len(a) \in Nat /\ 0 \in 0 .. Len(a)
  OBVIOUS
<1>2. K \in Nat /\ K >= 1 /\ Len(sharedArities(a)) = 1 + K /\ DOMAIN x = 0 .. K
  <2>1. K \in 1 .. K /\ Len(sharers(a)[Len(a)]) \in Nat /\ K = 1 + Len(sharers(a)[Len(a)])
    BY <1>1, LevelAtEnds
  <2>2. Len(sharedArities(a)) = 1 + K /\ DOMAIN x = 0 .. K
    BY <1>1, SharedIs, ExecIs
  <2> HIDE DEF K, x
  <2> QED
    BY <2>1, <2>2
<1>3. x[K] = 1
  BY <1>1, ExecWidth, Widths
<1>4. ASSUME NEW l \in 1 .. K - 1 PROVE x[l] # 1
  <2>1. l \in 1 .. levelAt(a, 0) /\ l < K
    BY <1>2
  <2>2. PICK d \in 0 .. Len(a) : levelAt(a, d) = l
    BY <1>1, <2>1, LevelAtSome
  <2>3. x[l] = width(a, d) /\ width(a, d) > 1 /\ width(a, d) \in Nat
    BY <2>1, <2>2, ExecWidth, Widths
  <2> QED
    BY <2>3
<1> HIDE DEF K, x
<1>5. K \in T /\ \A y \in T : K <= y
  <2>1. K \in T
    BY <1>2, <1>3
  <2>2. ASSUME NEW y \in T PROVE K <= y
    <3>1. CASE y = Len(sharedArities(a))
      BY <1>2, <3>1
    <3>2. CASE y # Len(sharedArities(a))
      <4>1. y \in 1 .. K /\ x[y] = 1
        BY <1>2, <3>2
      <4> QED
        BY <1>2, <1>4, <4>1
    <3> QED
      BY <3>1, <3>2
  <2> QED
    BY <2>1, <2>2
<1>6. T \subseteq Nat
  BY <1>2
<1>7. usedLevels(a) = Min(T)
  BY DEF usedLevels, x
<1> HIDE DEF T
<1>8. Min(T) = K
  <2>1. \A y \in T : (\A z \in T : y <= z) => y = K
    BY <1>5, <1>6
  <2>2. Min(T) \in T /\ \A z \in T : Min(T) <= z
    BY <1>5 DEF Min
  <2> QED
    BY <2>1, <2>2
<1> QED
  BY <1>7, <1>8 DEF K

\* Every level that is used has room for a group.
LevelsHaveRoom ==
  \A m \in Machines :
    /\ usedLevels(m.arities) \in Nat
    /\ \A l \in 1 .. usedLevels(m.arities) - 1 :
         execElements(m.arities)[l] \in Nat \ {0}

\* On every machine the truncation of greedy_init (mapping-greedy.c:233) ends
\* at the root's level, and every level below it has room for a group: the
\* divisions that size the levels never come to 0, so that neither does the
\* divisor of generate_groups (mapping-greedy.c:80).
THEOREM Room == LevelsHaveRoom
<1> SUFFICES ASSUME NEW m \in Machines
             PROVE  /\ usedLevels(m.arities) \in Nat
                    /\ \A l \in 1 .. usedLevels(m.arities) - 1 :
                         execElements(m.arities)[l] \in Nat \ {0}
  BY DEF LevelsHaveRoom
<1> DEFINE a == m.arities
<1>1. a \in Seq(Nat \ {0}) /\ a \in Seq(Nat) /\ 0 \in 0 .. Len(a)
  BY GreedyAssumption
<1> HIDE DEF a
<1>2. usedLevels(a) = levelAt(a, 0) /\ levelAt(a, 0) \in Nat
  <2>1. levelAt(a, 0) \in 1 .. levelAt(a, 0) /\ Len(sharers(a)[Len(a)]) \in Nat
        /\ levelAt(a, 0) = 1 + Len(sharers(a)[Len(a)])
    BY <1>1, LevelAtEnds
  <2> QED
    BY <1>1, <2>1, Used
<1>3. ASSUME NEW l \in 1 .. usedLevels(a) - 1 PROVE execElements(a)[l] \in Nat \ {0}
  <2>1. l \in 1 .. levelAt(a, 0)
    BY <1>2
  <2>2. PICK d \in 0 .. Len(a) : levelAt(a, d) = l
    BY <1>1, <2>1, LevelAtSome
  <2> QED
    BY <1>1, <2>2, ExecWidth, Widths
<1> QED
  BY <1>2, <1>3 DEF a

-----------------------------------------------------------------------------
(* The inductive invariant *)

\* The groups G of a level give every one of n elements exactly one place.
Places(G) == {p \in (DOMAIN G) \X Nat : p[2] \in DOMAIN G[p[1]]}

at(G, p) == G[p[1]][p[2]]

OnePlaceEach(G) == \A p, q \in Places(G) : at(G, p) = at(G, q) => p = q

placed(G) == {at(G, p) : p \in Places(G)}

\* The size of group g when n elements go to m groups.
sizeOf(n, m, g) == n \div m + (IF g < n % m THEN 1 ELSE 0)

Sized(G, n, m) ==
  \A x \in DOMAIN G : Len(G[x]) = sizeOf(n, m, x - 1) /\ Len(G[x]) <= n

Complete(G, n, room) ==
  /\ Len(G) \in 1 .. n /\ Len(G) <= room
  /\ Len(G) = (IF n <= room THEN n ELSE room)
  /\ Sized(G, n, Len(G))
  /\ OnePlaceEach(G) /\ placed(G) = 0 .. n - 1

\* What the first g of the groups hold.
before(n, m, g) == g * (n \div m) + (IF g < n % m THEN g ELSE n % m)

working == pc \in {"search", "sum", "root", "place", "mapped"}

\* Types, of the parts that the rest depends on.
Typed ==
  /\ pc \in {"init", "idle", "search", "sum", "root", "place", "mapped"}
  /\ arities \in {m.arities : m \in Machines}
  /\ pc # "init" => /\ levels_n = usedLevels(arities)
                    /\ exec_el_in_level = execElements(arities)
  /\ spcd_matrix \in [Cells -> 0 .. MaxComm]
  /\ matrix \in [0 .. 1 -> [Cells -> 0 .. UINT_RANGE - 1 \cup {Unknown}]]
  /\ working => /\ nthreads \in Threads
                /\ groups \in [1 .. levels_n - 1 -> Seq(Seq(Nat))]
  /\ pc \in {"search", "sum"} =>
       /\ level \in 1 .. levels_n - 1
       /\ \A l \in level + 1 .. levels_n - 1 : groups[l] = << >>
  /\ pc # "search" => group = << >> /\ cand = 0 /\ wmax = -1

\* The levels that are finished share out the elements below.
LowerComplete ==
  \A l \in grouped :
    /\ Complete(groups[l], nGroupsAt(l - 1), exec_el_in_level[l])
    /\ Len(groups[l]) <= nthreads

\* The candidate that wins is not in a group yet.
Winning ==
  \/ wmax = -1 /\ \A j \in 0 .. cand - 1 : j \in chosen
  \/ wmax \in Nat /\ winner \in (0 .. cand - 1) \ chosen

\* The level in progress: its groups and the one that grows have the
\* elements that are chosen, in the sizes of generate_groups.
Growing ==
  LET G == groups[level]
  IN /\ group \in Seq(Nat) /\ cand \in 0 .. nelements
     /\ OnePlaceEach(Append(G, group)) /\ chosen = placed(Append(G, group))
     /\ chosen \subseteq 0 .. nelements - 1
     /\ Cardinality(chosen) = before(nelements, ngroups, Len(G)) + Len(group)
     /\ Len(G) < ngroups /\ Len(group) <= groupSize(Len(G))
     /\ Sized(G, nelements, ngroups)
     /\ groupDone => cand = 0 /\ wmax = -1
     /\ Winning

\* The sums of the pairs before the next one are there for the next level.
Summed ==
  /\ pair \in Nat \X Nat /\ pair[1] < pair[2]
  /\ pair[1] < Len(groups[level]) - 1 => pair[2] < Len(groups[level])
  /\ level < levels_n - 1 =>
       \A i, j \in 0 .. Len(groups[level]) - 1 :
         i < j /\ (i < pair[1] \/ (i = pair[1] /\ j < pair[2])) =>
           matrix[buffer(level + 1)][<< j, i >>] # Unknown

\* And the sums that this level reads.
Readable ==
  \A i, j \in 0 .. nelements - 1 :
    i < j => matrix[buffer(level)][<< j, i >>] # Unknown

GInv ==
  /\ Typed /\ LowerComplete
  /\ pc = "search" => Growing
  /\ pc = "sum" => Summed
  /\ pc \in {"search", "sum"} /\ level > 1 => Readable

-----------------------------------------------------------------------------
(* The sizes of the groups *)

\* The sizes are what n elements give to m groups.
LEMMA Sizes ==
  ASSUME NEW n \in Nat, NEW m \in Nat \ {0}
  PROVE  /\ before(n, m, 0) = 0 /\ before(n, m, m) = n
         /\ \A g \in 0 .. m - 1 :
              /\ sizeOf(n, m, g) \in 0 .. n
              /\ before(n, m, g) \in Nat
              /\ before(n, m, g + 1) = before(n, m, g) + sizeOf(n, m, g)
              /\ before(n, m, g + 1) <= n
              /\ m <= n => before(n, m, g) < n
<1> DEFINE q == n \div m
           r == n % m
<1>1. q \in Nat /\ r \in 0 .. m - 1 /\ n = m * q + r
  OBVIOUS
<1> HIDE DEF q, r
<1>2. \A g \in Nat : g * q \in Nat /\ (g + 1) * q = g * q + q
  BY <1>1
<1>3. \A g \in 0 .. m : g * q <= m * q
  BY <1>1
<1>4. before(n, m, 0) = 0 /\ before(n, m, m) = n
  <2>1. 0 * q = 0
    BY <1>1
  <2> QED
    BY <1>1, <2>1 DEF before, q, r
<1>5. ASSUME NEW g \in 0 .. m - 1
      PROVE  /\ sizeOf(n, m, g) \in 0 .. n
             /\ before(n, m, g) \in Nat
             /\ before(n, m, g + 1) = before(n, m, g) + sizeOf(n, m, g)
             /\ before(n, m, g + 1) <= n
             /\ m <= n => before(n, m, g) < n
  <2>1. /\ g \in Nat /\ g + 1 \in 0 .. m
        /\ before(n, m, g) = g * q + (IF g < r THEN g ELSE r)
        /\ before(n, m, g + 1) = (g + 1) * q + (IF g + 1 < r THEN g + 1 ELSE r)
        /\ sizeOf(n, m, g) = q + (IF g < r THEN 1 ELSE 0)
    BY DEF before, sizeOf, q, r
  <2>2. g * q \in Nat /\ (g + 1) * q = g * q + q /\ (g + 1) * q <= m * q
        /\ m * q \in Nat
    BY <1>2, <1>3, <2>1
  <2>3. before(n, m, g + 1) <= n /\ sizeOf(n, m, g) \in 0 .. n
        /\ before(n, m, g) \in Nat
        /\ before(n, m, g + 1) = before(n, m, g) + sizeOf(n, m, g)
    BY <1>1, <2>1, <2>2
  <2>4. ASSUME m <= n PROVE before(n, m, g) < n
    <3>1. q >= 1
      <4>1. q = 0 => m * q = 0
        BY <1>1
      <4> QED
        BY <1>1, <2>4, <4>1
    <3>2. before(n, m, g) <= g * q + r
      BY <1>1, <2>1, <2>2
    <3>3. g * q + r < m * q + r
      BY <1>1, <2>2, <3>1
    <3>4. n = m * q + r /\ g * q \in Nat /\ m * q \in Nat /\ r \in Nat
      BY <1>1, <2>2
    <3> DEFINE x == g * q
               y == m * q
               b == before(n, m, g)
    <3>5. b <= x + r /\ x + r < y + r /\ n = y + r /\ x \in Nat /\ y \in Nat /\ b \in Nat /\ r \in Nat
      BY <2>3, <3>2, <3>3, <3>4
    <3> HIDE DEF x, y, b
    <3>6. b < n
      BY <3>5
    <3> QED
      BY <3>6 DEF b
  <2> QED
    BY <2>3, <2>4
<1> QED
  BY <1>4, <1>5

-----------------------------------------------------------------------------
(* Places *)

\* A group that grows by an element that has no place yet.
LEMMA GrowPlaces ==
  ASSUME NEW G \in Seq(Seq(Nat)), NEW g \in Seq(Nat), NEW w \in Nat
  PROVE  LET H == Append(G, g)
             K == Append(G, Append(g, w))
         IN /\ placed(K) = placed(H) \cup {w}
            /\ OnePlaceEach(H) /\ w \notin placed(H) => OnePlaceEach(K)
<1> DEFINE H == Append(G, g)
           K == Append(G, Append(g, w))
           new == << Len(G) + 1, Len(g) + 1 >>
<1>1. Places(K) = Places(H) \cup {new}
  <2>1. /\ Len(G) \in Nat /\ Len(g) \in Nat
        /\ DOMAIN G = 1 .. Len(G) /\ DOMAIN g = 1 .. Len(g)
        /\ DOMAIN H = 1 .. Len(G) + 1 /\ DOMAIN K = 1 .. Len(G) + 1
        /\ H[Len(G) + 1] = g /\ K[Len(G) + 1] = Append(g, w)
        /\ DOMAIN Append(g, w) = 1 .. Len(g) + 1
        /\ \A x \in DOMAIN G : H[x] = G[x] /\ K[x] = G[x]
    OBVIOUS
  <2>2. ASSUME NEW x \in DOMAIN K, NEW y \in Nat
        PROVE  y \in DOMAIN K[x] <=> y \in DOMAIN H[x] \/ << x, y >> = new
    <3>1. CASE x = Len(G) + 1
      <4>1. y \in DOMAIN K[x] <=> y \in 1 .. Len(g) + 1
        BY <2>1, <3>1
      <4>2. y \in DOMAIN H[x] <=> y \in 1 .. Len(g)
        BY <2>1, <3>1
      <4>3. << x, y >> = new <=> y = Len(g) + 1
        BY <3>1
      <4>4. y \in 1 .. Len(g) + 1 <=> y \in 1 .. Len(g) \/ y = Len(g) + 1
        <5>1. Len(g) \in Nat
          OBVIOUS
        <5> QED
          BY <5>1
      <4> HIDE DEF H, K, new
      <4> QED
        BY <4>1, <4>2, <4>3, <4>4
    <3>2. CASE x # Len(G) + 1
      <4>1. x \in DOMAIN G /\ << x, y >> # new
        BY <2>1, <3>2
      <4> QED
        BY <2>1, <4>1
    <3> QED
      BY <3>1, <3>2
  <2>3. new \in (DOMAIN K) \X Nat /\ DOMAIN H = DOMAIN K
    BY <2>1
  <2> HIDE DEF H, K, new
  <2>4. \A p \in (DOMAIN K) \X Nat :
          p[2] \in DOMAIN K[p[1]] <=> p[2] \in DOMAIN H[p[1]] \/ p = new
    <3>1. TAKE p \in (DOMAIN K) \X Nat
    <3>2. p = << p[1], p[2] >> /\ p[1] \in DOMAIN K /\ p[2] \in Nat
      OBVIOUS
    <3> QED
      BY <2>2, <3>2
  <2>5. Places(K) \subseteq Places(H) \cup {new}
    BY <2>3, <2>4 DEF Places
  <2>6. Places(H) \cup {new} \subseteq Places(K)
    BY <2>3, <2>4 DEF Places
  <2> QED
    BY <2>5, <2>6
<1>2. at(K, new) = w
  BY DEF at
<1>3. ASSUME NEW p \in Places(H) PROVE at(K, p) = at(H, p)
  <2>1. p[1] \in 1 .. Len(G) + 1 /\ p[2] \in DOMAIN H[p[1]]
    BY <1>3 DEF Places
  <2>2. CASE p[1] = Len(G) + 1
    BY <2>1, <2>2 DEF at
  <2>3. CASE p[1] # Len(G) + 1
    BY <2>1, <2>3 DEF at
  <2> QED
    BY <2>2, <2>3
<1> HIDE DEF H, K, new
<1>4. placed(K) = placed(H) \cup {w}
  BY <1>1, <1>2, <1>3 DEF placed
<1>5. OnePlaceEach(H) /\ w \notin placed(H) => OnePlaceEach(K)
  BY <1>1, <1>2, <1>3 DEF placed, OnePlaceEach
<1> QED
  BY <1>4, <1>5 DEF H, K

\* A new group starts empty.
LEMMA EmptyPlaces ==
  ASSUME NEW G \in Seq(Seq(Nat))
  PROVE  /\ placed(Append(G, << >>)) = placed(G)
         /\ OnePlaceEach(Append(G, << >>)) <=> OnePlaceEach(G)
<1> DEFINE H == Append(G, << >>)
<1>1. /\ Len(G) \in Nat /\ DOMAIN G = 1 .. Len(G) /\ DOMAIN H = 1 .. Len(G) + 1
      /\ H[Len(G) + 1] = << >> /\ \A x \in DOMAIN G : H[x] = G[x]
  OBVIOUS
<1> HIDE DEF H
<1>2. \A x \in DOMAIN H : \A y \in DOMAIN H[x] : x \in DOMAIN G
  BY <1>1
<1>3. Places(H) \subseteq Places(G)
  BY <1>1, <1>2 DEF Places
<1>4. Places(G) \subseteq Places(H)
  BY <1>1 DEF Places
<1>5. Places(H) = Places(G)
  BY <1>3, <1>4
<1>6. \A p \in Places(G) : at(H, p) = at(G, p)
  BY <1>1 DEF Places, at
<1>7. placed(H) = placed(G)
  BY <1>5, <1>6 DEF placed
<1>8. OnePlaceEach(H) <=> OnePlaceEach(G)
  BY <1>5, <1>6 DEF OnePlaceEach
<1> QED
  BY <1>7, <1>8 DEF H

\* Nothing has a place when there are no groups.
LEMMA NoPlaces == placed(<< >>) = {} /\ OnePlaceEach(<< >>)
<1>1. Places(<< >>) = {}
  BY DEF Places
<1> QED
  BY <1>1 DEF placed, OnePlaceEach

-----------------------------------------------------------------------------
(* What the steps find *)

LEMMA MinOfTwo ==
  ASSUME NEW a \in Int, NEW b \in Int
  PROVE  Min({a, b}) = IF a <= b THEN a ELSE b
<1> DEFINE c == IF a <= b THEN a ELSE b
<1>1. c \in {a, b} /\ \A y \in {a, b} : c <= y
  OBVIOUS
<1>2. \A x \in {a, b} : (\A y \in {a, b} : x <= y) => x = c
  OBVIOUS
<1> HIDE DEF c
<1>3. Min({a, b}) = CHOOSE x \in {a, b} : \A y \in {a, b} : x <= y
  BY DEF Min
<1>4. Min({a, b}) \in {a, b} /\ \A y \in {a, b} : Min({a, b}) <= y
  BY <1>1, <1>3
<1> QED
  BY <1>2, <1>4 DEF c

\* A finite set of numbers has a bound, by induction over its size.
LEMMA Bounded ==
  ASSUME NEW S \in SUBSET Nat, IsFiniteSet(S)
  PROVE  \E b \in Nat : \A x \in S : x <= b
<1> DEFINE T == {n \in Nat : \E s \in SUBSET S : /\ Cardinality(s) = n
                                                /\ \A b \in Nat : \E x \in s : ~(x <= b)}
<1>1. \A s \in SUBSET S : IsFiniteSet(s) /\ Cardinality(s) \in Nat
  BY FS_Subset, FS_CardinalityType
<1>2. ASSUME T # {} PROVE FALSE
  <2>1. PICK n \in T : \A m \in T : n <= m
    <3>1. T \subseteq Nat
      OBVIOUS
    <3> HIDE DEF T
    <3> QED
      BY <1>2, <3>1, Least
  <2>2. PICK s \in SUBSET S : /\ Cardinality(s) = n
                              /\ \A b \in Nat : \E x \in s : ~(x <= b)
    OBVIOUS
  <2>3. PICK c \in s : c \in Nat
    <3>1. 0 \in Nat
      OBVIOUS
    <3> QED
      BY <2>2, <3>1
  <2> DEFINE t == s \ {c}
  <2>4. Cardinality(t) = n - 1 /\ t \in SUBSET S /\ n \in Nat
    BY <1>1, <2>2, <2>3, FS_RemoveElement
  <2>5. Cardinality(t) \in Nat /\ ~(n <= Cardinality(t))
    BY <1>1, <2>4
  <2>6. PICK b \in Nat : \A x \in t : x <= b
    <3>1. Cardinality(t) \notin T
      BY <2>1, <2>5
    <3> QED
      BY <2>4, <2>5, <3>1
  <2>7. b + c \in Nat /\ \A x \in s : x <= b + c
    BY <2>3, <2>6
  <2> QED
    BY <2>2, <2>7
<1> QED
  <2>1. Cardinality(S) \in Nat /\ S \in SUBSET S
    BY <1>1
  <2> QED
    BY <1>2, <2>1

\* There is a row for every thread.
LEMMA RowsEnough ==
  ASSUME NEW n \in Threads
  PROVE  Max(Threads) \in Nat /\ n <= Max(Threads)
<1> DEFINE T == {b \in Nat : \A x \in Threads : x <= b}
<1>1. Threads \subseteq Nat /\ IsFiniteSet(Threads)
  BY GreedyAssumption
<1>2. T # {} /\ T \subseteq Nat
  BY <1>1, Bounded
<1>3. PICK b \in T : \A c \in T : b <= c
  <2> HIDE DEF T
  <2> QED
    BY <1>2, Least
<1>4. b \in Nat /\ \A x \in Threads : x <= b
  OBVIOUS
<1>5. b \in Threads
  <2>1. SUFFICES ASSUME b \notin Threads PROVE FALSE
    OBVIOUS
  <2>2. \A x \in Threads : x \in Nat /\ x <= b - 1
    BY <1>1, <1>4, <2>1
  <2>3. b - 1 \in Nat
    BY <1>4, <2>2
  <2>4. b - 1 \in T
    BY <2>2, <2>3
  <2> HIDE DEF T
  <2> QED
    BY <1>3, <1>4, <2>4
<1>6. \E x \in Threads : \A y \in Threads : x >= y
  BY <1>1, <1>4, <1>5
<1>7. Max(Threads) \in Threads /\ \A y \in Threads : Max(Threads) >= y
  BY <1>6 DEF Max
<1> QED
  BY <1>1, <1>7

\* The sizes of the level in progress.
LEMMA Here ==
  ASSUME Typed, LowerComplete, pc \in {"search", "sum"}
  PROVE  /\ levels_n \in Nat /\ level \in 1 .. levels_n - 1
         /\ exec_el_in_level[level] \in Nat \ {0}
         /\ nthreads \in Threads /\ nthreads \in Nat \ {0}
         /\ nelements \in 1 .. nthreads
         /\ groups[level] \in Seq(Seq(Nat))
         /\ ngroups \in 1 .. nelements /\ ngroups <= exec_el_in_level[level]
         /\ ngroups = IF nelements <= exec_el_in_level[level] THEN nelements
                      ELSE exec_el_in_level[level]
<1>1. PICK m \in Machines : arities = m.arities
  BY DEF Typed
<1>2. /\ levels_n \in Nat /\ level \in 1 .. levels_n - 1
      /\ exec_el_in_level[level] \in Nat \ {0}
  BY <1>1, Room DEF Typed, LevelsHaveRoom
<1>3. /\ nthreads \in Threads /\ nthreads \in Nat \ {0}
      /\ groups \in [1 .. levels_n - 1 -> Seq(Seq(Nat))]
  BY GreedyAssumption DEF Typed, working
<1>4. nelements \in 1 .. nthreads
  <2>1. CASE level = 1
    BY <1>3, <2>1 DEF nelements, nGroupsAt
  <2>2. CASE level > 1
    <3>1. level - 1 \in grouped
      BY <1>2, <2>2 DEF grouped
    <3>2. /\ Len(groups[level - 1]) \in Nat /\ Len(groups[level - 1]) >= 1
          /\ Len(groups[level - 1]) <= nthreads
      <4>1. groups[level - 1] \in Seq(Seq(Nat))
        BY <1>2, <1>3, <2>2
      <4>2. Len(groups[level - 1]) \in 1 .. nGroupsAt(level - 1 - 1)
            /\ Len(groups[level - 1]) <= nthreads
        BY <3>1 DEF LowerComplete, Complete
      <4> QED
        BY <4>1, <4>2
    <3> QED
      BY <1>2, <1>3, <2>2, <3>2 DEF nelements, nGroupsAt
  <2> QED
    BY <1>2, <2>1, <2>2
<1>5. /\ ngroups \in 1 .. nelements /\ ngroups <= exec_el_in_level[level]
      /\ ngroups = IF nelements <= exec_el_in_level[level] THEN nelements
                   ELSE exec_el_in_level[level]
  <2>1. nelements \in Int /\ exec_el_in_level[level] \in Int /\ nelements >= 1
        /\ exec_el_in_level[level] >= 1
    BY <1>2, <1>3, <1>4
  <2>2. ngroups = IF nelements <= exec_el_in_level[level] THEN nelements
                  ELSE exec_el_in_level[level]
    BY <2>1, MinOfTwo DEF ngroups
  <2> QED
    BY <2>1, <2>2
<1> QED
  BY <1>2, <1>3, <1>4, <1>5

\* A sum that is read is a number that was written.
LEMMA CommNat ==
  ASSUME Typed, LowerComplete, pc \in {"search", "sum"},
         level > 1 => Readable,
         NEW i \in 0 .. nelements - 1, NEW j \in 0 .. nelements - 1, i # j
  PROVE  comm_matrix_ptr_el(level, i, j) \in Nat
<1> DEFINE c == IF i > j THEN << i, j >> ELSE << j, i >>
<1>1. nthreads \in Threads /\ nelements \in 1 .. nthreads /\ nthreads \in Nat
      /\ level \in Nat \ {0} /\ i \in Nat /\ j \in Nat
  BY Here
<1>2. Max(Threads) \in Nat /\ nelements <= Max(Threads)
  BY <1>1, RowsEnough
<1>3. c \in Cells
  BY <1>1, <1>2 DEF Cells, Elements
<1>4. CASE level = 1
  BY <1>3, <1>4 DEF Typed, comm_matrix_ptr_el
<1>5. CASE level # 1
  <2>1. matrix[buffer(level)][c] # Unknown
    BY <1>1, <1>5 DEF Readable
  <2>2. buffer(level) \in 0 .. 1
    BY <1>1 DEF buffer
  <2>3. matrix[buffer(level)][c] \in 0 .. UINT_RANGE - 1 \cup {Unknown}
    BY <1>3, <2>2 DEF Typed
  <2> HIDE DEF c
  <2>4. matrix[buffer(level)][c] \in Nat
    BY <2>1, <2>3, GreedyAssumption
  <2> QED
    BY <1>5, <2>4 DEF comm_matrix_ptr_el, c
<1> QED
  BY <1>4, <1>5

-----------------------------------------------------------------------------
(* The sums *)

\* The communication of a candidate is a number.
\* The communication of a candidate with the group is a total.
LEMMA CommunicationIs ==
  ASSUME GInv, pc = "search", ~groupDone, cand < nelements,
         cand \notin chosen
  PROVE  LET S == DOMAIN group
             f == [x \in S |-> comm_matrix_ptr_el(level, cand, group[x])]
         IN /\ IsFiniteSet(S) /\ natOn(f, S)
            /\ communication(cand) = total(f, S)
            /\ \A x \in S : group[x] \in 0 .. nelements - 1 /\ group[x] # cand
<1> DEFINE op(x) == comm_matrix_ptr_el(level, cand, group[x])
           S == DOMAIN group
           f == [x \in S |-> op(x)]
           c(s) == CHOOSE x \in s : TRUE
           step(h) == [s \in SUBSET S |-> IF s = {} THEN 0 ELSE op(c(s)) + h[s \ {c(s)}]]
           h == CHOOSE g : g = step(g)
<1>1. communication(cand) = h[S]
  BY DEF communication, MapThenSumSet, MapThenFoldSet
<1>2. \A g : sumFcn(g, SUBSET S, f) <=> g = step(g)
  <2>1. \A s \in SUBSET S : s # {} => c(s) \in S
    OBVIOUS
  <2> HIDE DEF c, op
  <2>2. \A s \in SUBSET S : s # {} => f[c(s)] = op(c(s))
    BY <2>1
  <2>3. \A g : [s \in SUBSET S |-> IF s = {} THEN 0 ELSE f[c(s)] + g[s \ {c(s)}]]
              = step(g)
    BY <2>2
  <2> QED
    BY <2>3 DEF sumFcn, c
<1>3. IsFiniteSet(S)
  <2>1. group \in Seq(Nat)
    BY DEF GInv, Growing
  <2>2. S = 1 .. Len(group) /\ Len(group) \in Int
    BY <2>1
  <2> QED
    BY <2>2, FS_Interval
<1>4. \A x \in S : op(x) \in Nat /\ group[x] \in 0 .. nelements - 1 /\ group[x] # cand
  <2>1. ASSUME NEW x \in S
        PROVE  op(x) \in Nat /\ group[x] \in 0 .. nelements - 1 /\ group[x] # cand
    <3>1. nelements \in Nat /\ groups[level] \in Seq(Seq(Nat))
      BY Here DEF GInv
    <3>2. cand \in 0 .. nelements - 1 /\ group \in Seq(Nat)
      BY <3>1 DEF GInv, Growing
    <3>3. group[x] \in chosen
      <4> DEFINE G == groups[level]
                 H == Append(G, group)
                 p == << Len(G) + 1, x >>
      <4>1. Len(G) \in Nat /\ DOMAIN H = 1 .. Len(G) + 1 /\ H[Len(G) + 1] = group
            /\ x \in Nat
        BY <3>1, <3>2, <2>1
      <4>2. p[1] = Len(G) + 1 /\ p[2] = x /\ p \in (DOMAIN H) \X Nat
        BY <4>1
      <4> HIDE DEF p, H, G
      <4>3. p \in Places(H) /\ at(H, p) = group[x]
        BY <2>1, <4>1, <4>2 DEF Places, at
      <4> QED
        BY <4>3 DEF GInv, Growing, placed, H, G
    <3>4. group[x] \in 0 .. nelements - 1 /\ group[x] # cand
      BY <3>3 DEF GInv, Growing
    <3> QED
      BY <3>2, <3>4, CommNat DEF GInv
  <2> HIDE DEF op, S
  <2> QED
    BY <2>1
<1>5. natOn(f, S)
  <2> HIDE DEF op, S
  <2> QED
    BY <1>4 DEF natOn
<1> HIDE DEF f, step, S
<1>6. h = step(h)
  BY <1>2, <1>3, SumExists
<1> HIDE DEF h
<1>7. sums(h, S, f)
  BY <1>2, <1>6 DEF sums
<1>8. h[S] = total(f, S)
  <2>1. PICK u : sums(u, S, f) /\ total(f, S) = u[S]
    BY <1>3, TotalIs
  <2>2. u[S \cap S] = h[S \cap S]
    BY <1>3, <1>7, <2>1, SumsAgree
  <2>3. S \cap S = S
    OBVIOUS
  <2> QED
    BY <2>1, <2>2, <2>3
<1>9. communication(cand) = total(f, S)
  BY <1>1, <1>8
<1> QED
  BY <1>3, <1>4, <1>5, <1>9 DEF f, S

LEMMA CommunicationNat ==
  ASSUME GInv, pc = "search", ~groupDone, cand < nelements,
         cand \notin chosen
  PROVE  communication(cand) \in Nat
<1> DEFINE S == DOMAIN group
           f == [x \in S |-> comm_matrix_ptr_el(level, cand, group[x])]
<1>1. IsFiniteSet(S) /\ natOn(f, S) /\ communication(cand) = total(f, S)
  BY CommunicationIs
<1> HIDE DEF S, f
<1> QED
  BY <1>1, TotalNat

\* The communication of two groups is a total.
LEMMA BetweenIs ==
  ASSUME GInv, pc = "sum",
         NEW i \in 0 .. Len(groups[level]) - 1, NEW j \in 0 .. Len(groups[level]) - 1,
         i # j
  PROVE  LET g == groups[level][i + 1]
             k == groups[level][j + 1]
             S == (DOMAIN g) \X (DOMAIN k)
             f == [x \in S |-> comm_matrix_ptr_el(level, g[x[1]], k[x[2]])]
         IN /\ IsFiniteSet(S) /\ natOn(f, S)
            /\ between(i, j) = total(f, S)
            /\ \A x \in S : /\ g[x[1]] \in 0 .. nelements - 1
                            /\ k[x[2]] \in 0 .. nelements - 1
                            /\ g[x[1]] # k[x[2]]
<1> DEFINE G == groups[level]
           g == G[i + 1]
           k == G[j + 1]
           op(x) == comm_matrix_ptr_el(level, g[x[1]], k[x[2]])
           S == (DOMAIN g) \X (DOMAIN k)
           f == [x \in S |-> op(x)]
           c(s) == CHOOSE x \in s : TRUE
           step(h) == [s \in SUBSET S |-> IF s = {} THEN 0 ELSE op(c(s)) + h[s \ {c(s)}]]
           h == CHOOSE u : u = step(u)
<1>1. between(i, j) = h[S]
  BY DEF between, MapThenSumSet, MapThenFoldSet
<1>2. \A u : sumFcn(u, SUBSET S, f) <=> u = step(u)
  <2> HIDE DEF S
  <2>1. \A s \in SUBSET S : s # {} => c(s) \in S
    OBVIOUS
  <2> HIDE DEF c, op
  <2>2. \A s \in SUBSET S : s # {} => f[c(s)] = op(c(s))
    BY <2>1
  <2>3. \A u : [s \in SUBSET S |-> IF s = {} THEN 0 ELSE f[c(s)] + u[s \ {c(s)}]]
              = step(u)
    BY <2>2
  <2> QED
    BY <2>3 DEF sumFcn, c
<1>3. /\ G \in Seq(Seq(Nat)) /\ i + 1 \in DOMAIN G /\ j + 1 \in DOMAIN G
      /\ g \in Seq(Nat) /\ k \in Seq(Nat) /\ i + 1 # j + 1
  <2>1. G \in Seq(Seq(Nat))
    BY Here DEF GInv
  <2> QED
    BY <2>1
<1>4. IsFiniteSet(S)
  <2> HIDE DEF g, k
  <2>1. DOMAIN g = 1 .. Len(g) /\ DOMAIN k = 1 .. Len(k)
        /\ Len(g) \in Int /\ Len(k) \in Int
    BY <1>3
  <2>2. IsFiniteSet(DOMAIN g) /\ IsFiniteSet(DOMAIN k)
    BY <2>1, FS_Interval
  <2> QED
    BY <2>2, FS_Product
<1>5. \A x \in S : /\ g[x[1]] \in 0 .. nelements - 1
                   /\ k[x[2]] \in 0 .. nelements - 1
                   /\ g[x[1]] # k[x[2]]
  <2> TAKE x \in S
  <2>1. x[1] \in DOMAIN g /\ x[2] \in DOMAIN k
    OBVIOUS
  <2> DEFINE p == << i + 1, x[1] >>
             q == << j + 1, x[2] >>
  <2>2. /\ p \in Places(G) /\ at(G, p) = g[x[1]]
        /\ q \in Places(G) /\ at(G, q) = k[x[2]] /\ p # q
    <3>1. x[1] \in Nat /\ x[2] \in Nat
      BY <1>3, <2>1, SMTT(30)
    <3> QED
      BY <1>3, <2>1, <3>1 DEF Places, at
  <2>3. OnePlaceEach(G) /\ placed(G) = 0 .. nelements - 1
    <3>1. level \in grouped
      BY Here DEF GInv, grouped
    <3> QED
      BY <3>1 DEF GInv, LowerComplete, Complete, nelements
  <2> HIDE DEF p, q, g, k, G
  <2> QED
    BY <2>2, <2>3 DEF OnePlaceEach, placed
<1> HIDE DEF g, k
<1>6. natOn(f, S)
  <2>1. ASSUME NEW x \in S PROVE op(x) \in Nat
    BY <1>5, CommNat DEF GInv
  <2> HIDE DEF op, S
  <2> QED
    BY <2>1 DEF natOn
<1> HIDE DEF f, step, S
<1>7. h = step(h)
  BY <1>2, <1>4, SumExists
<1> HIDE DEF h
<1>8. sums(h, S, f)
  BY <1>2, <1>7 DEF sums
<1>9. h[S] = total(f, S)
  <2>1. PICK u : sums(u, S, f) /\ total(f, S) = u[S]
    BY <1>4, TotalIs
  <2>2. u[S \cap S] = h[S \cap S]
    BY <1>4, <1>8, <2>1, SumsAgree
  <2>3. S \cap S = S
    OBVIOUS
  <2> QED
    BY <2>1, <2>2, <2>3
<1>10. between(i, j) = total(f, S)
  BY <1>1, <1>9
<1> QED
  BY <1>4, <1>5, <1>6, <1>10 DEF f, S, g, k

LEMMA BetweenNat ==
  ASSUME GInv, pc = "sum",
         NEW i \in 0 .. Len(groups[level]) - 1, NEW j \in 0 .. Len(groups[level]) - 1,
         i # j
  PROVE  between(i, j) \in Nat
<1> DEFINE g == groups[level][i + 1]
           k == groups[level][j + 1]
           S == (DOMAIN g) \X (DOMAIN k)
           f == [x \in S |-> comm_matrix_ptr_el(level, g[x[1]], k[x[2]])]
<1>1. IsFiniteSet(S) /\ natOn(f, S) /\ between(i, j) = total(f, S)
  BY BetweenIs
<1> HIDE DEF S, f
<1> QED
  BY <1>1, TotalNat

-----------------------------------------------------------------------------
(* The invariant holds in every state *)

LEMMA InitGInv == Init => GInv
<1> SUFFICES ASSUME Init PROVE GInv
  OBVIOUS
<1>1. Typed
  BY GreedyAssumption DEF Init, Typed, working, unknownBuffers
<1>2. LowerComplete
  BY DEF Init, LowerComplete, grouped
<1> QED
  BY <1>1, <1>2 DEF Init, GInv

\* The machine is known.
LEMMA StepInit == ASSUME GInv, greedy_init PROVE GInv'
<1>1. Typed'
  BY DEF greedy_init, workVars, commVars, groupVars, searchVars, GInv, Typed, working
<1>2. LowerComplete'
  BY DEF greedy_init, LowerComplete, grouped
<1> QED
  BY <1>1, <1>2 DEF greedy_init, GInv

\* A mapping is laid out, or ends.
LEMMA StepPlace ==
  ASSUME GInv, pc \in {"root", "place"}, pc' \in {"root", "place", "mapped"},
         UNCHANGED << inputVars, workVars >>
  PROVE  GInv'
<1>1. Typed'
  BY DEF inputVars, treeVars, workVars, commVars, groupVars, searchVars, GInv,
         Typed, working
<1>2. LowerComplete'
  <2>1. grouped' = grouped /\ groups' = groups /\ nthreads' = nthreads
        /\ exec_el_in_level' = exec_el_in_level
    BY DEF inputVars, treeVars, workVars, groupVars, grouped
  <2> QED
    BY <2>1 DEF GInv, LowerComplete, nGroupsAt
<1> QED
  BY <1>1, <1>2 DEF GInv

LEMMA StepSleep == ASSUME GInv, Sleep PROVE GInv'
<1>1. Typed'
  <2>1. spcd_matrix' \in [Cells -> 0 .. MaxComm]
    BY GreedyAssumption DEF Sleep
  <2>2. matrix' \in [0 .. 1 -> [Cells -> 0 .. UINT_RANGE - 1 \cup {Unknown}]]
    BY DEF Sleep, unknownBuffers
  <2> QED
    BY <2>1, <2>2 DEF Sleep, treeVars, searchVars, GInv, Typed, working
<1>2. LowerComplete'
  BY DEF Sleep, LowerComplete, grouped
<1> QED
  BY <1>1, <1>2 DEF Sleep, GInv

\* A fault changes a count of the threads only.
LEMMA StepCommunicate ==
  ASSUME GInv, NEW c \in Cells, Communicate(c) PROVE GInv'
<1>1. /\ pc' = pc /\ level' = level /\ groups' = groups /\ nthreads' = nthreads
      /\ exec_el_in_level' = exec_el_in_level /\ levels_n' = levels_n
      /\ matrix' = matrix /\ group' = group /\ chosen' = chosen
      /\ cand' = cand /\ wmax' = wmax /\ winner' = winner /\ pair' = pair
      /\ arities' = arities
  BY DEF Communicate, inputVars, treeVars, groupVars, searchVars
<1>2. spcd_matrix' \in [Cells -> 0 .. MaxComm]
  BY GreedyAssumption DEF Communicate, GInv, Typed
<1>3. Typed'
  BY <1>1, <1>2 DEF GInv, Typed, working
<1>4. LowerComplete'
  BY <1>1 DEF GInv, LowerComplete, grouped, nGroupsAt
<1>5. /\ nelements' = nelements /\ ngroups' = ngroups
      /\ groupSize(Len(groups[level]))' = groupSize(Len(groups[level]))
  BY <1>1 DEF nelements, nGroupsAt, ngroups, groupSize
<1>6. Growing' = Growing
  BY <1>1, <1>5 DEF Growing, groupDone, Winning
<1>7. Summed' = Summed /\ Readable' = Readable
  BY <1>1, <1>5 DEF Summed, Readable, buffer
<1> QED
  BY <1>1, <1>3, <1>4, <1>6, <1>7 DEF GInv

\* One more candidate is compared.
LEMMA StepConsider ==
  ASSUME GInv, Consider PROVE GInv'
<1>1. /\ pc = "search" /\ pc' = "search" /\ level' = level /\ groups' = groups
      /\ nthreads' = nthreads /\ exec_el_in_level' = exec_el_in_level
      /\ levels_n' = levels_n /\ spcd_matrix' = spcd_matrix
      /\ matrix' = matrix /\ group' = group /\ chosen' = chosen
      /\ cand < nelements /\ cand' = cand + 1 /\ ~groupDone /\ arities' = arities
  BY DEF Consider, inputVars, treeVars, commVars, groupVars
<1>2. Typed'
  BY <1>1 DEF GInv, Typed, working
<1>3. LowerComplete'
  BY <1>1 DEF GInv, LowerComplete, grouped, nGroupsAt
<1>4. nelements' = nelements
  BY <1>1 DEF nelements, nGroupsAt
<1>5. /\ ngroups' = ngroups
      /\ groupSize(Len(groups[level]))' = groupSize(Len(groups[level]))
  BY <1>1, <1>4 DEF ngroups, groupSize
<1>6. groupDone' = FALSE
  BY <1>1, <1>5 DEF groupDone
<1>7. Winning'
  <2>1. cand \in Nat
    BY DEF GInv, Growing, Consider
  <2>2. CASE cand \notin chosen /\ communication(cand) > wmax
    <3>1. communication(cand) \in Nat
      BY <1>1, <2>2, CommunicationNat
    <3>2. wmax' \in Nat /\ winner' = cand
      BY <2>2, <3>1 DEF Consider
    <3> QED
      BY <1>1, <2>1, <2>2, <3>2 DEF Winning
  <2>3. CASE ~(cand \notin chosen /\ communication(cand) > wmax)
    <3>1. wmax' = wmax /\ winner' = winner
      BY <2>3 DEF Consider
    <3>2. Winning
      BY <1>1 DEF GInv, Growing
    <3>3. CASE wmax \in Nat /\ winner \in (0 .. cand - 1) \ chosen
      BY <1>1, <2>1, <3>1, <3>3 DEF Winning
    <3>4. CASE wmax = -1 /\ \A j \in 0 .. cand - 1 : j \in chosen
      <4>1. cand \in chosen
        BY <1>1, <2>3, <3>4, CommunicationNat
      <4> QED
        BY <1>1, <2>1, <3>1, <3>4, <4>1 DEF Winning
    <3> QED
      BY <3>2, <3>3, <3>4 DEF Winning
  <2> QED
    BY <2>2, <2>3
<1>8. Growing'
  <2>1. Growing
    BY <1>1 DEF GInv
  <2>2. nelements \in Nat /\ (cand + 1) \in 0 .. nelements
    BY <1>1, <2>1, Here DEF GInv, Growing
  <2> QED
    BY <1>1, <1>4, <1>5, <1>6, <1>7, <2>1, <2>2 DEF Growing
<1>9. Readable' = Readable
  BY <1>1, <1>4 DEF Readable, buffer
<1> QED
  BY <1>1, <1>2, <1>3, <1>8, <1>9 DEF GInv

\* The sizes of the level in progress.
LEMMA SizesHere ==
  ASSUME GInv, pc = "search"
  PROVE  LET g == Len(groups[level])
         IN /\ groupSize(g) = sizeOf(nelements, ngroups, g)
            /\ groupSize(g) \in 0 .. nelements
            /\ before(nelements, ngroups, g) \in Nat
            /\ before(nelements, ngroups, g + 1)
                 = before(nelements, ngroups, g) + groupSize(g)
            /\ before(nelements, ngroups, g + 1) <= nelements
            /\ g \in 0 .. ngroups - 1 /\ Len(group) \in 0 .. groupSize(g)
            /\ groups[level] \in Seq(Seq(Nat)) /\ group \in Seq(Nat)
<1> DEFINE g == Len(groups[level])
<1>1. /\ nelements \in Nat /\ ngroups \in Nat \ {0}
      /\ groups[level] \in Seq(Seq(Nat)) /\ group \in Seq(Nat)
  BY Here DEF GInv, Growing
<1>2. g \in 0 .. ngroups - 1
  BY <1>1 DEF GInv, Growing
<1>3. groupSize(g) = sizeOf(nelements, ngroups, g)
  BY DEF groupSize, sizeOf
<1>4. Len(group) \in 0 .. groupSize(g)
  <2>1. Len(group) \in Nat /\ Len(group) <= groupSize(g)
    BY <1>1 DEF GInv, Growing
  <2>2. groupSize(g) \in Nat
    BY <1>1, <1>2, <1>3, Sizes, SMTT(30)
  <2> QED
    BY <2>1, <2>2
<1> HIDE DEF g
<1> QED
  BY <1>1, <1>2, <1>3, <1>4, Sizes DEF g

\* The elements that are chosen are all there are if there are as many.
LEMMA AllChosen ==
  ASSUME NEW n \in Nat, NEW c \in SUBSET (0 .. n - 1)
  PROVE  /\ IsFiniteSet(c) /\ Cardinality(c) \in 0 .. n
         /\ Cardinality(c) = n <=> c = 0 .. n - 1
<1>1. IsFiniteSet(0 .. n - 1) /\ Cardinality(0 .. n - 1) = n
  <2>1. IsFiniteSet(0 .. n - 1) /\ Cardinality(0 .. n - 1)
          = IF 0 > n - 1 THEN 0 ELSE (n - 1) - 0 + 1
    BY FS_Interval
  <2> QED
    BY <2>1
<1>2. /\ IsFiniteSet(c) /\ Cardinality(c) <= n
      /\ Cardinality(c) = n => c = 0 .. n - 1
  <2> DEFINE D == 0 .. n - 1
  <2>1. c \in SUBSET D /\ IsFiniteSet(D) /\ Cardinality(D) = n
    BY <1>1
  <2> HIDE DEF D
  <2>2. /\ IsFiniteSet(c) /\ Cardinality(c) <= n
        /\ Cardinality(c) = n => c = D
    BY <2>1, FS_Subset
  <2> QED
    BY <2>2 DEF D
<1>3. Cardinality(c) \in Nat
  BY <1>2, FS_CardinalityType
<1> QED
  BY <1>1, <1>2, <1>3

\* At the end of a search the winner is in no group yet.
LEMMA WinnerFree ==
  ASSUME GInv, Take PROVE winner \in (0 .. nelements - 1) \ chosen
<1> DEFINE G == groups[level]
<1>1. pc = "search" /\ cand = nelements /\ ~groupDone
  BY DEF Take
<1>2. /\ Growing /\ chosen \in SUBSET (0 .. nelements - 1)
      /\ Cardinality(chosen) = before(nelements, ngroups, Len(G)) + Len(group)
      /\ nelements \in Nat
  BY <1>1, Here DEF GInv, Growing
<1>3. /\ groupSize(Len(G)) \in Nat
      /\ before(nelements, ngroups, Len(G)) \in Nat
      /\ before(nelements, ngroups, Len(G)) + groupSize(Len(G)) <= nelements
      /\ Len(group) \in 0 .. groupSize(Len(G))
  BY <1>1, SizesHere
<1>4. Len(group) < groupSize(Len(G))
  BY <1>1, <1>3 DEF groupDone
<1>5. Cardinality(chosen) # nelements
  BY <1>2, <1>3, <1>4
<1>6. chosen # 0 .. nelements - 1
  BY <1>2, <1>5, AllChosen
<1>7. Winning
  BY <1>2 DEF Growing
<1>8. CASE wmax = -1 /\ \A j \in 0 .. cand - 1 : j \in chosen
  <2>1. chosen = 0 .. nelements - 1
    BY <1>1, <1>2, <1>8
  <2> QED
    BY <1>6, <2>1
<1>9. CASE wmax \in Nat /\ winner \in (0 .. cand - 1) \ chosen
  BY <1>1, <1>9
<1> QED
  BY <1>7, <1>8, <1>9 DEF Winning

\* The element that won joins the group.
LEMMA StepTake ==
  ASSUME GInv, Take PROVE GInv'
<1> DEFINE G == groups[level]
<1>1. /\ pc = "search" /\ pc' = "search" /\ level' = level /\ groups' = groups
      /\ nthreads' = nthreads /\ exec_el_in_level' = exec_el_in_level
      /\ levels_n' = levels_n /\ spcd_matrix' = spcd_matrix /\ matrix' = matrix
      /\ group' = Append(group, winner) /\ chosen' = chosen \cup {winner}
      /\ cand = nelements /\ cand' = 0 /\ wmax' = -1 /\ ~groupDone
      /\ arities' = arities
  BY DEF Take, inputVars, treeVars, commVars
<1>2. Typed'
  BY <1>1 DEF GInv, Typed, working
<1>3. LowerComplete'
  BY <1>1 DEF GInv, LowerComplete, grouped, nGroupsAt
<1>4. nelements' = nelements
  BY <1>1 DEF nelements, nGroupsAt
<1>5. /\ ngroups' = ngroups
      /\ groupSize(Len(groups[level]))' = groupSize(Len(G))
  BY <1>1, <1>4 DEF ngroups, groupSize
<1>6. /\ Growing /\ chosen \in SUBSET (0 .. nelements - 1)
      /\ Cardinality(chosen) = before(nelements, ngroups, Len(G)) + Len(group)
      /\ nelements \in Nat
  BY <1>1, Here DEF GInv, Growing
<1>7. /\ G \in Seq(Seq(Nat)) /\ group \in Seq(Nat) /\ groupSize(Len(G)) \in Nat
      /\ before(nelements, ngroups, Len(G)) \in Nat
      /\ before(nelements, ngroups, Len(G)) + groupSize(Len(G)) <= nelements
      /\ Len(group) \in 0 .. groupSize(Len(G))
  BY <1>1, SizesHere
<1>8. Len(group) < groupSize(Len(G))
  BY <1>1, <1>7 DEF groupDone
<1>9. winner \in (0 .. nelements - 1) \ chosen
  BY WinnerFree
<1>10. /\ placed(Append(G, group')) = chosen'
       /\ OnePlaceEach(Append(G, group'))
  <2>1. chosen = placed(Append(G, group)) /\ OnePlaceEach(Append(G, group))
    BY <1>6 DEF Growing
  <2>2. winner \in Nat
    BY <1>9
  <2> HIDE DEF G
  <2> QED
    BY <1>1, <1>7, <1>9, <2>1, <2>2, GrowPlaces
<1>11. /\ chosen' \subseteq 0 .. nelements - 1
       /\ Cardinality(chosen') = Cardinality(chosen) + 1
       /\ Cardinality(chosen) \in Nat
  <2>1. IsFiniteSet(chosen) /\ Cardinality(chosen) \in Nat
    BY <1>6, AllChosen, FS_CardinalityType
  <2>2. Cardinality(chosen \cup {winner}) = Cardinality(chosen) + 1
    BY <1>9, <2>1, FS_AddElement
  <2> QED
    BY <1>1, <1>6, <1>9, <2>1, <2>2
<1>12. Len(group') = Len(group) + 1 /\ group' \in Seq(Nat)
  BY <1>1, <1>7, <1>9
<1>13. Winning'
  BY <1>1 DEF Winning
<1>14. Growing'
  <2>1. /\ Len(G) < ngroups /\ Sized(G, nelements, ngroups)
    BY <1>6 DEF Growing
  <2>2. Cardinality(chosen') = before(nelements, ngroups, Len(G)) + Len(group')
    BY <1>6, <1>7, <1>11, <1>12
  <2>3. Len(group') <= groupSize(Len(G))
    BY <1>7, <1>8, <1>12
  <2>4. 0 \in 0 .. nelements
    BY <1>6
  <2>5. G' = G
    BY <1>1
  <2> HIDE DEF G
  <2>6. LET H == groups'[level']
        IN /\ OnePlaceEach(Append(H, group')) /\ chosen' = placed(Append(H, group'))
           /\ Cardinality(chosen') = before(nelements, ngroups, Len(H)) + Len(group')
           /\ Len(H) < ngroups /\ Len(group') <= groupSize(Len(groups[level]))'
           /\ Sized(H, nelements, ngroups)
    BY <1>1, <1>5, <1>10, <2>1, <2>2, <2>3 DEF G
  <2> QED
    BY <1>1, <1>4, <1>5, <1>11, <1>12, <1>13, <2>4, <2>6 DEF Growing
<1>15. Readable' = Readable
  BY <1>1, <1>4 DEF Readable, buffer
<1> QED
  BY <1>1, <1>2, <1>3, <1>14, <1>15 DEF GInv

\* The sums of a pair of groups are stored for the next level.
LEMMA StepSumPair ==
  ASSUME GInv, SumPair PROVE GInv'
<1> DEFINE w == stored(between(pair[1], pair[2]))
           c == << pair[2], pair[1] >>
           N == Len(groups[level])
<1>1. /\ pc = "sum" /\ pc' = "sum" /\ level' = level /\ groups' = groups
      /\ nthreads' = nthreads /\ exec_el_in_level' = exec_el_in_level
      /\ levels_n' = levels_n /\ spcd_matrix' = spcd_matrix
      /\ group' = group /\ cand' = cand /\ wmax' = wmax /\ arities' = arities
      /\ level < levels_n - 1 /\ ~allPairsDone
      /\ matrix' = [matrix EXCEPT ![buffer(level + 1)][c] = w]
      /\ pair' = IF pair[2] + 1 < N THEN << pair[1], pair[2] + 1 >>
                 ELSE << pair[1] + 1, pair[1] + 2 >>
  BY DEF SumPair, inputVars, treeVars, groupVars, searchVars
<1>2. /\ pair \in Nat \X Nat /\ pair[1] < pair[2] /\ N \in Nat
      /\ pair[2] < N /\ level \in Nat \ {0} /\ N <= nthreads
      /\ pair[1] \in 0 .. N - 1 /\ pair[2] \in 0 .. N - 1
  <2>1. groups[level] \in Seq(Seq(Nat)) /\ level \in Nat \ {0}
    BY <1>1, Here DEF GInv
  <2>2. N \in Nat
    BY <2>1
  <2>3. pair \in Nat \X Nat /\ pair[1] < pair[2]
        /\ (pair[1] < N - 1 => pair[2] < N)
    BY <1>1 DEF GInv, Summed
  <2>4. N <= nthreads
    BY <1>1, <2>1, Here DEF GInv, LowerComplete, grouped
  <2>5. ~(pair[1] >= N - 1)
    BY <1>1 DEF allPairsDone
  <2> HIDE DEF N
  <2> QED
    BY <2>1, <2>2, <2>3, <2>4, <2>5
<1>3. w \in 0 .. UINT_RANGE - 1
  <2>1. between(pair[1], pair[2]) \in Nat
    <3>1. pair[1] # pair[2]
      BY <1>2
    <3> QED
      BY <1>1, <1>2, <3>1, BetweenNat
  <2>2. UINT_RANGE \in Nat \ {0}
    BY GreedyAssumption
  <2> QED
    BY <2>1, <2>2 DEF stored
<1>4. c \in Cells
  <2>1. nthreads \in Nat /\ Max(Threads) \in Nat /\ nthreads <= Max(Threads)
    BY <1>1, Here, RowsEnough DEF GInv
  <2> HIDE DEF N
  <2>2. pair[1] \in 0 .. Max(Threads) - 1 /\ pair[2] \in 0 .. Max(Threads) - 1
        /\ pair[2] > pair[1]
    BY <1>2, <2>1
  <2> QED
    BY <2>2 DEF Cells, Elements
<1>5. /\ buffer(level + 1) \in 0 .. 1 /\ buffer(level) \in 0 .. 1
      /\ buffer(level + 1) # buffer(level)
  BY <1>2 DEF buffer
<1> HIDE DEF w, c
<1>6. matrix \in [0 .. 1 -> [Cells -> 0 .. UINT_RANGE - 1 \cup {Unknown}]]
  BY DEF GInv, Typed
<1>7. /\ matrix' \in [0 .. 1 -> [Cells -> 0 .. UINT_RANGE - 1 \cup {Unknown}]]
      /\ matrix'[buffer(level)] = matrix[buffer(level)]
      /\ matrix'[buffer(level + 1)] = [matrix[buffer(level + 1)] EXCEPT ![c] = w]
  <2>1. matrix[buffer(level + 1)] \in [Cells -> 0 .. UINT_RANGE - 1 \cup {Unknown}]
    BY <1>5, <1>6
  <2>2. [matrix[buffer(level + 1)] EXCEPT ![c] = w]
          \in [Cells -> 0 .. UINT_RANGE - 1 \cup {Unknown}]
    BY <1>3, <2>1
  <2> QED
    BY <1>1, <1>5, <1>6, <2>2
<1>8. Typed'
  BY <1>1, <1>7 DEF GInv, Typed, working
<1>9. LowerComplete'
  BY <1>1 DEF GInv, LowerComplete, grouped, nGroupsAt
<1>10. nelements' = nelements
  BY <1>1 DEF nelements, nGroupsAt
<1>11. level > 1 => Readable'
  <2>1. level > 1 => Readable
    BY <1>1 DEF GInv
  <2>2. buffer(level)' = buffer(level)
    BY <1>1 DEF buffer
  <2> QED
    BY <1>1, <1>7, <1>10, <2>1, <2>2 DEF Readable
<1>12. Summed'
  <2> DEFINE M == matrix[buffer(level + 1)]
             M2 == matrix'[buffer(level + 1)]
  <2>1. \A i, j \in 0 .. N - 1 :
          i < j /\ (i < pair[1] \/ (i = pair[1] /\ j < pair[2]))
            => M[<< j, i >>] # Unknown
    BY <1>1 DEF GInv, Summed
  <2>2. M2 = [M EXCEPT ![c] = w] /\ w # Unknown
        /\ M \in [Cells -> 0 .. UINT_RANGE - 1 \cup {Unknown}]
    BY <1>3, <1>5, <1>6, <1>7 DEF Unknown
  <2>3. \A d : d \in Cells => M2[d] = IF d = c THEN w ELSE M[d]
    BY <2>2
  <2>4. \A i, j \in 0 .. N - 1 : i < j => << j, i >> \in Cells
    <3>1. nthreads \in Nat /\ Max(Threads) \in Nat /\ nthreads <= Max(Threads)
      BY <1>1, Here, RowsEnough DEF GInv
    <3> HIDE DEF N
    <3>2. \A i \in 0 .. N - 1 : i \in 0 .. Max(Threads) - 1
      BY <1>2, <3>1
    <3> QED
      BY <3>2 DEF Cells, Elements
  <2>5. pair' \in Nat \X Nat /\ pair'[1] < pair'[2]
        /\ (pair'[1] < N - 1 => pair'[2] < N)
    <3> HIDE DEF N
    <3>1. CASE pair[2] + 1 < N
      <4>1. pair' = << pair[1], pair[2] + 1 >>
        BY <1>1, <3>1
      <4> QED
        BY <1>2, <3>1, <4>1
    <3>2. CASE ~(pair[2] + 1 < N)
      <4>1. pair' = << pair[1] + 1, pair[1] + 2 >>
        BY <1>1, <3>2
      <4> QED
        BY <1>2, <3>2, <4>1
    <3> QED
      BY <3>1, <3>2
  <2>6. ASSUME NEW i \in 0 .. N - 1, NEW j \in 0 .. N - 1, i < j,
               i < pair'[1] \/ (i = pair'[1] /\ j < pair'[2])
        PROVE  M2[<< j, i >>] # Unknown
    <3>1. \/ i < pair[1] \/ (i = pair[1] /\ j < pair[2])
          \/ i = pair[1] /\ j = pair[2]
      <4> HIDE DEF N
      <4>1. i \in Nat /\ j \in Nat /\ j < N
        BY <1>2
      <4>2. CASE pair[2] + 1 < N
        <5>1. pair' = << pair[1], pair[2] + 1 >>
          BY <1>1, <4>2
        <5> QED
          BY <1>2, <2>6, <4>1, <5>1
      <4>3. CASE ~(pair[2] + 1 < N)
        <5>1. pair' = << pair[1] + 1, pair[1] + 2 >>
          BY <1>1, <4>3
        <5> QED
          BY <1>2, <2>6, <4>1, <4>3, <5>1
      <4> QED
        BY <4>2, <4>3
    <3>2. << j, i >> \in Cells
      BY <2>4, <2>6
    <3> HIDE DEF M2, M, N
    <3>3. CASE << j, i >> = c
      BY <2>2, <2>3, <3>2, <3>3
    <3>4. CASE << j, i >> # c
      <4>1. ~(i = pair[1] /\ j = pair[2])
        BY <3>4 DEF c
      <4>2. M[<< j, i >>] # Unknown
        BY <2>1, <2>6, <3>1, <4>1
      <4> QED
        BY <2>3, <3>2, <3>4, <4>2
    <3> QED
      BY <3>3, <3>4
  <2>7. N' = N /\ buffer(level + 1)' = buffer(level + 1)
    BY <1>1 DEF buffer
  <2> QED
    BY <1>1, <2>5, <2>6, <2>7 DEF Summed
<1> QED
  BY <1>1, <1>8, <1>9, <1>11, <1>12 DEF GInv

\* A group is finished, and with the last one the level.
LEMMA StepFinishGroup ==
  ASSUME GInv, FinishGroup PROVE GInv'
<1>0. ngroups = IF nelements <= exec_el_in_level[level] THEN nelements
                ELSE exec_el_in_level[level]
  BY Here DEF GInv, FinishGroup
<1> DEFINE G == groups[level]
           H == Append(G, group)
           n == nelements
           m == ngroups
<1>1. /\ pc = "search" /\ level' = level /\ chosen' = chosen
      /\ nthreads' = nthreads /\ exec_el_in_level' = exec_el_in_level
      /\ levels_n' = levels_n /\ spcd_matrix' = spcd_matrix /\ matrix' = matrix
      /\ groups' = [groups EXCEPT ![level] = Append(@, group)]
      /\ group' = << >> /\ cand' = cand /\ wmax' = wmax /\ arities' = arities
      /\ groupDone
      /\ IF Cardinality(chosen) < n THEN pc' = "search"
         ELSE pc' = "sum" /\ pair' = << 0, 1 >>
  BY DEF FinishGroup, inputVars, treeVars, commVars
<1>2. /\ levels_n \in Nat /\ level \in 1 .. levels_n - 1 /\ n \in Nat \ {0}
      /\ m \in 1 .. n /\ m <= exec_el_in_level[level] /\ n <= nthreads
      /\ nthreads \in Nat /\ exec_el_in_level[level] \in Nat
      /\ groups \in [1 .. levels_n - 1 -> Seq(Seq(Nat))]
  BY <1>1, Here DEF GInv, Typed, working
<1>3. /\ G \in Seq(Seq(Nat)) /\ group \in Seq(Nat) /\ Len(G) \in 0 .. m - 1
      /\ groupSize(Len(G)) \in 0 .. n
      /\ before(n, m, Len(G)) \in Nat
      /\ before(n, m, Len(G) + 1) = before(n, m, Len(G)) + groupSize(Len(G))
      /\ groupSize(Len(G)) = sizeOf(n, m, Len(G))
  BY <1>1, SizesHere
<1>4. /\ chosen \in SUBSET (0 .. n - 1) /\ cand = 0 /\ wmax = -1
      /\ Cardinality(chosen) = before(n, m, Len(G) + 1)
      /\ OnePlaceEach(H) /\ chosen = placed(H) /\ Len(group) \in 0 .. n
      /\ Sized(G, n, m) /\ Len(group) = sizeOf(n, m, Len(G))
  <2>1. Len(group) = groupSize(Len(G))
    BY <1>1 DEF groupDone
  <2>2. Growing
    BY <1>1 DEF GInv
  <2>3. Cardinality(chosen) = before(n, m, Len(G)) + Len(group)
    BY <2>2 DEF Growing
  <2>4. cand = 0 /\ wmax = -1 /\ chosen \subseteq 0 .. n - 1
        /\ OnePlaceEach(H) /\ chosen = placed(H)
        /\ Sized(G, n, m)
    BY <1>1, <2>2 DEF Growing
  <2> QED
    BY <1>3, <2>1, <2>3, <2>4
<1>5. /\ H \in Seq(Seq(Nat)) /\ Len(H) = Len(G) + 1
      /\ Sized(H, n, m)
  <2> HIDE DEF G, n, m
  <2>1. H \in Seq(Seq(Nat)) /\ Len(H) = Len(G) + 1
        /\ DOMAIN H = 1 .. Len(G) + 1 /\ DOMAIN G = 1 .. Len(G)
        /\ Len(G) \in Nat
    BY <1>3
  <2>2. H[Len(G) + 1] = group /\ \A x \in DOMAIN G : H[x] = G[x]
    BY <1>3
  <2>3. \A x \in DOMAIN H : x = Len(G) + 1 \/ x \in DOMAIN G
    BY <2>1
  <2>4. Len(group) <= n
    BY <1>2, <1>4
  <2> HIDE DEF H
  <2>5. ASSUME NEW x \in DOMAIN H
        PROVE  Len(H[x]) = sizeOf(n, m, x - 1) /\ Len(H[x]) <= n
    <3>1. CASE x = Len(G) + 1
      <4>1. x - 1 = Len(G)
        BY <2>1, <3>1
      <4> QED
        BY <1>4, <2>2, <2>4, <3>1, <4>1
    <3>2. CASE x \in DOMAIN G
      BY <1>4, <2>2, <3>2 DEF Sized
    <3> QED
      BY <2>3, <3>1, <3>2
  <2> QED
    BY <2>1, <2>5 DEF Sized
<1>6. /\ groups' \in [1 .. levels_n - 1 -> Seq(Seq(Nat))]
      /\ groups'[level] = H
      /\ \A l \in 1 .. levels_n - 1 : l # level => groups'[l] = groups[l]
  <2> HIDE DEF H
  <2>1. groups' = [groups EXCEPT ![level] = H]
    BY <1>1 DEF H
  <2> QED
    BY <1>2, <1>5, <2>1
<1>7. \A l \in 0 .. level - 1 : nGroupsAt(l)' = nGroupsAt(l)
  BY <1>1, <1>2, <1>6 DEF nGroupsAt
<1>8. nelements' = n /\ ngroups' = m
  <2>1. nelements' = n
    BY <1>1, <1>2, <1>7 DEF nelements
  <2> QED
    BY <1>1, <2>1 DEF ngroups
<1>9. Typed'
  BY <1>1, <1>2, <1>4, <1>6, SMTT(30) DEF GInv, Typed, working
<1>10. \A l \in 1 .. level - 1 :
         /\ Complete(groups[l], nGroupsAt(l - 1), exec_el_in_level[l])'
         /\ Len(groups'[l]) <= nthreads'
  <2>1. SUFFICES ASSUME NEW l \in 1 .. level - 1
                 PROVE /\ Complete(groups[l], nGroupsAt(l - 1), exec_el_in_level[l])'
                       /\ Len(groups'[l]) <= nthreads'
    OBVIOUS
  <2>2. l \in grouped
    BY <1>1 DEF grouped
  <2>3. l - 1 \in 0 .. level - 1 /\ l \in 1 .. levels_n - 1 /\ l # level
    BY <1>2
  <2>4. groups'[l] = groups[l] /\ nGroupsAt(l - 1)' = nGroupsAt(l - 1)
    BY <1>6, <1>7, <2>3
  <2>5. /\ Complete(groups[l], nGroupsAt(l - 1), exec_el_in_level[l])
        /\ Len(groups[l]) <= nthreads
    BY <2>2 DEF GInv, LowerComplete
  <2> QED
    BY <1>1, <2>4, <2>5 DEF Complete
<1>11. level > 1 => Readable'
  BY <1>1, <1>8 DEF GInv, Readable, buffer
<1>12. CASE Cardinality(chosen) < n
  <2>1. pc' = "search"
    BY <1>1, <1>12
  <2>2. LowerComplete'
    <3>1. grouped' = 1 .. level - 1
      BY <1>1, <2>1 DEF grouped
    <3> QED
      BY <1>10, <3>1 DEF LowerComplete
  <2>3. Len(H) < m
    <3>1. before(n, m, m) = n
      BY <1>2, Sizes
    <3> HIDE DEF n, m, G, H
    <3>2. Len(G) + 1 # m
      BY <1>2, <1>4, <1>12, <3>1
    <3> QED
      BY <1>2, <1>3, <1>5, <3>2
  <2>4. groupSize(Len(groups[level]))' = sizeOf(n, m, Len(H))
    BY <1>1, <1>6, <1>8 DEF groupSize, sizeOf
  <2>5. sizeOf(n, m, Len(H)) \in Nat
    <3>1. Len(H) \in 0 .. m - 1 /\ m \in Nat \ {0} /\ n \in Nat
      <4> HIDE DEF n, m, G, H
      <4> QED
        BY <1>2, <1>3, <1>5, <2>3
    <3> HIDE DEF n, m, G, H
    <3>2. sizeOf(n, m, Len(H)) \in 0 .. n
      BY <3>1, Sizes
    <3> QED
      BY <3>2
  <2>6. /\ OnePlaceEach(Append(H, << >>)) /\ chosen = placed(Append(H, << >>))
    <3> HIDE DEF H
    <3> QED
      BY <1>4, <1>5, EmptyPlaces
  <2>7. Winning'
    BY <1>1, <1>4 DEF Winning
  <2>8. Cardinality(chosen) = before(n, m, Len(H)) + Len(<< >>)
    <3>1. Cardinality(chosen) \in 0 .. n
      BY <1>2, <1>4, AllChosen
    <3> HIDE DEF n, m, G, H
    <3>2. Cardinality(chosen) = before(n, m, Len(H))
      BY <1>4, <1>5
    <3> QED
      BY <3>1, <3>2
  <2>9. Growing'
    <3>1. << >> \in Seq(Nat) /\ 0 \in 0 .. n /\ Len(<< >>) <= sizeOf(n, m, Len(H))
      BY <1>2, <2>5
    <3> HIDE DEF n, m, G, H
    <3>2. LET K == groups'[level']
          IN /\ OnePlaceEach(Append(K, group')) /\ chosen' = placed(Append(K, group'))
             /\ Cardinality(chosen') = before(n, m, Len(K)) + Len(group')
             /\ Len(K) < m /\ Len(group') <= groupSize(Len(groups[level]))'
             /\ Sized(K, n, m)
      BY <1>1, <1>5, <1>6, <2>3, <2>4, <2>6, <2>8, <3>1
    <3>3. group' \in Seq(Nat) /\ cand' \in 0 .. n /\ chosen' \subseteq 0 .. n - 1
          /\ cand' = 0 /\ wmax' = -1
      BY <1>1, <1>4, <3>1
    <3> QED
      BY <1>8, <2>7, <3>2, <3>3 DEF Growing
  <2> QED
    BY <1>1, <1>9, <1>11, <2>1, <2>2, <2>9 DEF GInv
<1>13. CASE ~(Cardinality(chosen) < n)
  <2>1. pc' = "sum" /\ pair' = << 0, 1 >>
    BY <1>1, <1>13
  <2>2. chosen = 0 .. n - 1
    <3>1. Cardinality(chosen) \in 0 .. n
      BY <1>2, <1>4, AllChosen
    <3>2. Cardinality(chosen) = n
      BY <1>2, <1>13, <3>1
    <3> QED
      BY <1>2, <1>4, <3>2, AllChosen
  <2>3. Complete(H, n, exec_el_in_level[level]) /\ Len(H) <= nthreads
    <3>1. Len(H) \in 1 .. n /\ Len(H) <= exec_el_in_level[level] /\ Len(H) <= nthreads
      <4> HIDE DEF n, m, G, H
      <4> QED
        BY <1>2, <1>3, <1>5
    <3>2. Len(H) = m
      <4> HIDE DEF n, m, G, H
      <4>1. Cardinality(chosen) \in 0 .. n /\ ~(Cardinality(chosen) < n)
        BY <1>2, <1>4, <1>13, AllChosen
      <4>2. ASSUME Len(G) + 1 \in 0 .. m - 1 PROVE FALSE
        <5>1. n \in Nat /\ m \in Nat \ {0} /\ m <= n
          BY <1>2
        <5>2. before(n, m, Len(G) + 1) < n
          BY <4>2, <5>1, Sizes
        <5> QED
          BY <1>4, <4>1, <5>2
      <4> QED
        BY <1>2, <1>3, <1>5, <4>2
    <3> QED
      BY <1>0, <1>2, <1>4, <1>5, <2>2, <3>1, <3>2 DEF Complete
  <2>4. LowerComplete'
    <3>1. grouped' = 1 .. level
      BY <1>1, <2>1 DEF grouped
    <3>2. /\ Complete(groups[level], nGroupsAt(level - 1), exec_el_in_level[level])'
          /\ Len(groups'[level]) <= nthreads'
      <4>1. nGroupsAt(level - 1)' = n
        BY <1>1, <1>8 DEF nelements
      <4> HIDE DEF H, n
      <4> QED
        BY <1>1, <1>6, <2>3, <4>1 DEF Complete
    <3>3. \A l \in 1 .. level : l = level \/ l \in 1 .. level - 1
      BY <1>2
    <3>4. \A l \in 1 .. level :
            /\ Complete(groups[l], nGroupsAt(l - 1), exec_el_in_level[l])'
            /\ Len(groups'[l]) <= nthreads'
      BY <1>1, <1>10, <3>2, <3>3, Zenon
    <3> QED
      BY <3>1, <3>4 DEF LowerComplete
  <2>5. Summed'
    <3>1. Len(H) \in Nat
      BY <1>5
    <3> HIDE DEF H
    <3> QED
      BY <1>1, <1>6, <2>1, <3>1 DEF Summed
  <2> QED
    BY <1>1, <1>9, <1>11, <2>1, <2>4, <2>5 DEF GInv
<1> QED
  BY <1>12, <1>13

\* The first level starts: no element has a place.
LEMMA StartSearch ==
  ASSUME GInv, NEW k \in Nat \ {0}, NEW n \in Nat \ {0},
         k < levels_n, pc # "init"
  PROVE  LET m == Min({n, exec_el_in_level[k]})
         IN /\ m \in Nat \ {0}
            /\ Cardinality({}) = before(n, m, 0) + Len(<< >>)
            /\ sizeOf(n, m, 0) \in Nat
<1> DEFINE m == Min({n, exec_el_in_level[k]})
<1>1. PICK x \in Machines : arities = x.arities
  BY DEF GInv, Typed
<1>2. exec_el_in_level[k] \in Nat \ {0}
  <2>1. levels_n = usedLevels(arities) /\ exec_el_in_level = execElements(arities)
    BY DEF GInv, Typed
  <2>2. levels_n \in Nat
    BY <1>1, <2>1, Room DEF LevelsHaveRoom
  <2>3. k \in 1 .. levels_n - 1
    BY <2>2
  <2> QED
    BY <1>1, <2>1, <2>3, Room DEF LevelsHaveRoom
<1>3. m \in Nat \ {0}
  <2>1. m = IF n <= exec_el_in_level[k] THEN n ELSE exec_el_in_level[k]
    BY <1>2, MinOfTwo
  <2> QED
    BY <1>2, <2>1
<1> HIDE DEF m
<1>4. before(n, m, 0) = 0
  BY <1>3, Sizes
<1>5. sizeOf(n, m, 0) \in 0 .. n
  <2>1. 0 \in 0 .. m - 1
    BY <1>3
  <2> QED
    BY <1>3, <2>1, Sizes
<1>6. Cardinality({}) = 0 /\ Len(<< >>) = 0
  BY FS_EmptySet
<1> QED
  BY <1>3, <1>4, <1>5, <1>6 DEF m

\* A level whose elements have no place yet.
LEMMA FreshLevel ==
  ASSUME GInv, pc # "init",
         level' \in Nat \ {0}, level' < levels_n, nelements' \in Nat \ {0},
         exec_el_in_level' = exec_el_in_level, groups'[level'] = << >>,
         chosen' = {}, group' = << >>, cand' = 0, wmax' = -1
  PROVE  Growing'
<1> DEFINE n == nelements'
           m == Min({nelements', exec_el_in_level[level']})
<1>1. /\ m \in Nat \ {0} /\ Cardinality({}) = before(n, m, 0) + Len(<< >>)
      /\ sizeOf(n, m, 0) \in Nat
  BY StartSearch
<1>2. ngroups' = m
  BY DEF ngroups
<1>3. placed(Append(<< >>, << >>)) = {} /\ OnePlaceEach(Append(<< >>, << >>))
  <2>1. << >> \in Seq(Seq(Nat))
    OBVIOUS
  <2> QED
    BY <2>1, NoPlaces, EmptyPlaces
<1>4. Winning'
  BY DEF Winning
<1>5. groupSize(Len(groups[level]))' = sizeOf(n, m, 0)
  <2>1. Len(groups'[level']) = 0
    OBVIOUS
  <2> HIDE DEF m
  <2> QED
    BY <1>2, <2>1 DEF groupSize, sizeOf
<1> HIDE DEF m
<1>6. LET K == groups'[level']
      IN /\ OnePlaceEach(Append(K, group')) /\ chosen' = placed(Append(K, group'))
         /\ Cardinality(chosen') = before(n, m, Len(K)) + Len(group')
         /\ Len(K) < m /\ Len(group') <= groupSize(Len(groups[level]))'
         /\ Sized(K, n, m)
  <2>1. Len(<< >>) = 0 /\ DOMAIN << >> = {}
    OBVIOUS
  <2>2. 0 < m /\ 0 <= sizeOf(n, m, 0)
    BY <1>1
  <2>3. Sized(<< >>, n, m)
    BY <2>1 DEF Sized
  <2> QED
    BY <1>1, <1>3, <1>5, <2>1, <2>2, <2>3
<1>7. group' \in Seq(Nat) /\ cand' \in 0 .. n /\ chosen' \subseteq 0 .. n - 1
  OBVIOUS
<1> QED
  BY <1>2, <1>4, <1>6, <1>7 DEF Growing

LEMMA StepStart ==
  ASSUME GInv,
         NEW nt \in Threads, NEW pattern \in Patterns, Start(nt, pattern)
  PROVE  GInv'
<1>1. /\ pc = "idle" /\ nthreads' = nt /\ spcd_matrix' = pattern
      /\ groups' = [l \in 1 .. levels_n - 1 |-> << >>]
      /\ level' = 1 /\ chosen' = {} /\ levels_n' = levels_n
      /\ pc' = (IF levels_n > 1 THEN "search" ELSE "root")
      /\ exec_el_in_level' = exec_el_in_level /\ arities' = arities
      /\ matrix' = matrix /\ group' = group /\ cand' = cand /\ wmax' = wmax
  BY DEF Start, treeVars, searchVars
<1>2. group = << >> /\ cand = 0 /\ wmax = -1
  BY <1>1 DEF GInv, Typed
<1>3. levels_n \in Nat
  BY <1>1, Room DEF GInv, Typed, LevelsHaveRoom
<1>4. spcd_matrix' \in [Cells -> 0 .. MaxComm]
  BY <1>1, PatternsAssumption
<1>5. groups' \in [1 .. levels_n - 1 -> Seq(Seq(Nat))]
  BY <1>1
<1>6. Typed'
  BY <1>1, <1>2, <1>3, <1>4, <1>5 DEF GInv, Typed, working
<1>7. LowerComplete'
  <2>1. grouped' = {}
    BY <1>1, <1>3 DEF grouped
  <2> QED
    BY <2>1 DEF LowerComplete
<1>8. pc' = "search" => Growing'
  <2>1. SUFFICES ASSUME pc' = "search" PROVE Growing'
    OBVIOUS
  <2>2. levels_n > 1
    BY <1>1, <2>1
  <2>3. nelements' \in Nat \ {0}
    BY <1>1, GreedyAssumption DEF nelements, nGroupsAt
  <2>4. groups'[level'] = << >>
    BY <1>1, <1>3, <2>2
  <2> QED
    BY <1>1, <1>2, <1>3, <2>2, <2>3, <2>4, FreshLevel
<1> QED
  BY <1>1, <1>6, <1>7, <1>8 DEF GInv

\* The next level is grouped, or the groups are laid out.
LEMMA StepNextLevel ==
  ASSUME GInv, NextLevel PROVE GInv'
<1> DEFINE N == Len(groups[level])
<1>1. /\ pc = "sum" /\ level' = level + 1 /\ chosen' = {}
      /\ pc' = (IF level + 1 < levels_n THEN "search" ELSE "root")
      /\ groups' = groups /\ nthreads' = nthreads
      /\ exec_el_in_level' = exec_el_in_level /\ levels_n' = levels_n
      /\ spcd_matrix' = spcd_matrix /\ matrix' = matrix /\ arities' = arities
      /\ group' = group /\ cand' = cand /\ wmax' = wmax
      /\ level = levels_n - 1 \/ allPairsDone
  BY DEF NextLevel, inputVars, treeVars, commVars, searchVars
<1>2. /\ levels_n \in Nat /\ level \in 1 .. levels_n - 1
      /\ group = << >> /\ cand = 0 /\ wmax = -1
      /\ \A l \in level + 1 .. levels_n - 1 : groups[l] = << >>
      /\ groups[level] \in Seq(Seq(Nat))
  BY <1>1, Here DEF GInv, Typed
<1>3. N \in Nat \ {0}
  <2>1. N \in 1 .. nelements
    BY <1>1, <1>2 DEF GInv, LowerComplete, grouped, Complete, nelements
  <2>2. nelements \in Nat
    BY <1>1, Here DEF GInv
  <2> HIDE DEF N
  <2> QED
    BY <2>1, <2>2
<1>4. Typed'
  BY <1>1, <1>2 DEF GInv, Typed, working
<1>5. LowerComplete'
  <2>1. grouped' = 1 .. level /\ grouped = 1 .. level
    BY <1>1, <1>2 DEF grouped
  <2> QED
    BY <1>1, <2>1 DEF GInv, LowerComplete, nGroupsAt
<1>6. nelements' = N
  BY <1>1, <1>2 DEF nelements, nGroupsAt
<1>7. pc' = "search" => Growing'
  <2>1. SUFFICES ASSUME pc' = "search" PROVE Growing'
    OBVIOUS
  <2>2. level + 1 < levels_n
    BY <1>1, <2>1
  <2>3. groups'[level'] = << >>
    BY <1>1, <1>2, <2>2
  <2>4. level' \in Nat \ {0} /\ nelements' \in Nat \ {0}
    BY <1>1, <1>2, <1>3, <1>6
  <2> HIDE DEF N
  <2> QED
    BY <1>1, <1>2, <2>2, <2>3, <2>4, FreshLevel
<1>8. pc' = "search" => Readable'
  <2>1. SUFFICES ASSUME pc' = "search",
                        NEW i \in 0 .. N - 1, NEW j \in 0 .. N - 1, i < j
                 PROVE  matrix[buffer(level + 1)][<< j, i >>] # Unknown
    BY <1>1, <1>6 DEF Readable, buffer
  <2>2. level < levels_n - 1 /\ allPairsDone
    BY <1>1, <1>2, <2>1
  <2>3. pair \in Nat \X Nat /\ pair[1] >= N - 1
    BY <1>1, <2>2 DEF allPairsDone, GInv, Summed
  <2>4. i < pair[1]
    <3> HIDE DEF N
    <3> QED
      BY <1>3, <2>1, <2>3
  <2> QED
    BY <1>1, <2>1, <2>2, <2>4 DEF GInv, Summed
<1> QED
  BY <1>1, <1>4, <1>5, <1>7, <1>8 DEF GInv

LEMMA NextGInv == ASSUME GInv, [Next]_vars PROVE GInv'
<1>1. CASE Step
  <2>1. CASE greedy_init
    BY <2>1, StepInit
  <2>2. CASE Consider
    BY <2>2, StepConsider
  <2>3. CASE Take
    BY <2>3, StepTake
  <2>4. CASE FinishGroup
    BY <2>4, StepFinishGroup
  <2>5. CASE SumPair
    BY <2>5, StepSumPair
  <2>6. CASE NextLevel
    BY <2>6, StepNextLevel
  <2>7. CASE PlaceRoot
    BY <2>7, StepPlace DEF PlaceRoot
  <2>8. CASE \E v \in Paths(arities) : PlaceOnPU(v) \/ PlaceOnChildren(v) \/ PassDown(v)
    <3>1. PICK v \in Paths(arities) : PlaceOnPU(v) \/ PlaceOnChildren(v) \/ PassDown(v)
      BY <2>8
    <3>2. /\ pc = "place" /\ pc' = pc /\ UNCHANGED << inputVars, workVars >>
      BY <3>1 DEF PlaceOnPU, PlaceOnChildren, PassDown, placing
    <3> QED
      BY <3>2, StepPlace
  <2>9. CASE Mapped
    BY <2>9, StepPlace DEF Mapped
  <2>10. CASE Sleep
    BY <2>10, StepSleep
  <2> QED
    BY <1>1, <2>1, <2>2, <2>3, <2>4, <2>5, <2>6, <2>7, <2>8, <2>9, <2>10 DEF Step
<1>2. CASE \E nt \in Threads, pattern \in Patterns : Start(nt, pattern)
  BY <1>2, StepStart
<1>3. CASE \E c \in Cells : Communicate(c)
  BY <1>3, StepCommunicate
<1>4. CASE UNCHANGED vars
  <2>1. UNCHANGED << arities, levels_n, exec_el_in_level, pc, nthreads, spcd_matrix,
                     matrix, groups, level, chosen, group, cand, wmax, winner, pair >>
    BY <1>4 DEF vars, inputVars, treeVars, workVars, commVars, groupVars, searchVars
  <2>2. Typed'
    BY <2>1 DEF GInv, Typed, working
  <2>3. LowerComplete'
    BY <2>1 DEF GInv, LowerComplete, grouped, nGroupsAt
  <2>4. /\ nelements' = nelements /\ ngroups' = ngroups
        /\ groupSize(Len(groups[level]))' = groupSize(Len(groups[level]))
    BY <2>1 DEF nelements, nGroupsAt, ngroups, groupSize
  <2>5. Growing' = Growing
    BY <2>1, <2>4 DEF Growing, groupDone, Winning
  <2>6. Summed' = Summed /\ Readable' = Readable
    BY <2>1, <2>4 DEF Summed, Readable, buffer
  <2> QED
    BY <2>1, <2>2, <2>3, <2>5, <2>6 DEF GInv
<1> QED
  BY <1>1, <1>2, <1>3, <1>4 DEF Next

LEMMA GreedyInvariant == Spec => []GInv
<1>1. Init => GInv
  BY InitGInv
<1>2. GInv /\ [Next]_vars => GInv'
  BY NextGInv
<1> QED
  BY <1>1, <1>2, PTL DEF Spec

-----------------------------------------------------------------------------
(* What it means *)

LEMMA CompleteLevels == ASSUME GInv PROVE GroupsPartition
<1> SUFFICES ASSUME NEW l \in grouped
             PROVE  /\ Len(groups[l]) <= exec_el_in_level[l]
                    /\ \A e \in 0 .. nGroupsAt(l - 1) - 1 :
                         Cardinality({p \in (DOMAIN groups[l]) \X (1 .. nGroupsAt(l - 1)) :
                                        p[2] \in DOMAIN groups[l][p[1]]
                                        /\ groups[l][p[1]][p[2]] = e}) = 1
  BY DEF GroupsPartition
<1> DEFINE G == groups[l]
           n == nGroupsAt(l - 1)
           S(e) == {p \in (DOMAIN G) \X (1 .. n) : p[2] \in DOMAIN G[p[1]] /\ G[p[1]][p[2]] = e}
<1>1. Complete(G, n, exec_el_in_level[l])
  BY DEF GInv, LowerComplete
<1>2. G \in Seq(Seq(Nat)) /\ n \in Nat
  <2>1. pc \notin {"init", "idle"} /\ l \in 1 .. levels_n - 1 /\ levels_n \in Nat
    <3>1. pc \notin {"init", "idle"} /\ pc # "init"
      BY DEF grouped
    <3>2. levels_n \in Nat
      BY <3>1, Room DEF GInv, Typed, LevelsHaveRoom
    <3>3. pc \in {"search", "sum"} => level \in 1 .. levels_n - 1
      BY DEF GInv, Typed
    <3>4. CASE pc \in {"search", "sum"}
      <4>1. l \in 1 .. level
        <5>1. level \in Nat
          BY <3>2, <3>3, <3>4
        <5>2. CASE pc = "sum"
          BY <5>2 DEF grouped
        <5>3. CASE pc = "search"
          BY <5>1, <5>3 DEF grouped
        <5> QED
          BY <3>4, <5>2, <5>3
      <4>2. level \in 1 .. levels_n - 1 /\ levels_n \in Nat
        BY <3>2, <3>3, <3>4
      <4>3. l \in Nat /\ 1 <= l /\ l <= level
        BY <4>1, <4>2
      <4>4. l \in 1 .. levels_n - 1
        BY <4>2, <4>3
      <4> QED
        BY <3>1, <3>2, <4>4
    <3>5. CASE pc \in {"root", "place", "mapped"}
      BY <3>1, <3>2, <3>5 DEF grouped
    <3>6. pc \in {"search", "sum", "root", "place", "mapped"}
      BY <3>1 DEF GInv, Typed
    <3> QED
      BY <3>1, <3>2, <3>4, <3>5, <3>6
  <2>2. working
    BY <2>1 DEF GInv, Typed, working
  <2>3. groups \in [1 .. levels_n - 1 -> Seq(Seq(Nat))] /\ nthreads \in Nat
    BY <2>2, GreedyAssumption DEF GInv, Typed
  <2>4. CASE l = 1
    BY <2>1, <2>3, <2>4 DEF nGroupsAt
  <2>5. CASE l # 1
    <3>1. l - 1 \in 1 .. levels_n - 1 /\ l - 1 # 0
      BY <2>1, <2>5
    <3>2. groups[l - 1] \in Seq(Seq(Nat))
      BY <2>3, <3>1
    <3> QED
      BY <2>1, <2>3, <3>1, <3>2 DEF nGroupsAt
  <2> QED
    BY <2>4, <2>5
<1> HIDE DEF G, n
<1>3. ASSUME NEW e \in 0 .. n - 1 PROVE Cardinality(S(e)) = 1
  <2>1. PICK p \in Places(G) : at(G, p) = e
    BY <1>1 DEF Complete, placed
  <2>2. p \in S(e)
    <3>1. p[1] \in DOMAIN G /\ p[2] \in DOMAIN G[p[1]] /\ p = << p[1], p[2] >>
      BY <2>1 DEF Places
    <3>2. G[p[1]] \in Seq(Nat) /\ Len(G[p[1]]) <= n
      BY <1>1, <1>2, <3>1 DEF Complete, Sized
    <3>3. p[2] \in 1 .. n
      BY <1>2, <3>1, <3>2
    <3> QED
      BY <2>1, <3>1, <3>3 DEF at
  <2>3. \A q \in S(e) : q \in Places(G) /\ at(G, q) = e
    BY <1>2 DEF Places, at
  <2>4. S(e) = {p}
    <3> HIDE DEF S
    <3> QED
      BY <1>1, <2>1, <2>2, <2>3 DEF Complete, OnePlaceEach
  <2> QED
    BY <2>4, FS_Singleton
<1>4. Len(G) <= exec_el_in_level[l]
  BY <1>1 DEF Complete
<1> QED
  BY <1>3, <1>4 DEF G, n

\* generate_groups (mapping-greedy.c:70) shares the elements of a level out to
\* its groups: each of them gets exactly one place, and there are no more
\* groups than vertices of the tree, for every machine whose used levels have
\* room, every number of threads and whatever is counted during the search.
\* The winner that generate_group takes is never an element of a group
\* already, though it starts as 0 and stays what it was when no candidate wins.
THEOREM Partition == Spec => []GroupsPartition
<1>1. GInv => GroupsPartition
  BY CompleteLevels
<1>2. Spec => []GInv
  BY GreedyInvariant
<1> QED
  BY <1>1, <1>2, PTL

\* What generate_group reads of an upper level (mapping-greedy.c:37) has been
\* stored by recreate_matrix (mapping-greedy.c:159) for this mapping: the two
\* buffers alternate and every pair of groups is summed up, on every machine
\* and whatever is counted meanwhile.
THEOREM OnlyWrittenRead == Spec => []NothingUnknownRead
<1>1. ASSUME GInv PROVE NothingUnknownRead
  <2> SUFFICES ASSUME pc = "search", level > 1,
                      NEW i \in 0 .. nelements - 1, NEW j \in 0 .. nelements - 1, i # j
               PROVE  comm_matrix_ptr_el(level, i, j) # Unknown
    BY DEF NothingUnknownRead
  <2>1. comm_matrix_ptr_el(level, i, j) \in Nat
    BY <1>1, CommNat DEF GInv
  <2> QED
    BY <2>1 DEF Unknown
<1>2. GInv => NothingUnknownRead
  BY <1>1
<1>3. Spec => []GInv
  BY GreedyInvariant
<1> QED
  BY <1>2, <1>3, PTL


-----------------------------------------------------------------------------
(* Types *)

\* An element is one of the first that there can be.
LEMMA InElements ==
  ASSUME GInv, pc = "search", NEW j \in 0 .. nelements - 1
  PROVE  j \in Elements
<1>1. nelements \in 1 .. nthreads /\ nthreads \in Threads /\ nthreads \in Nat
  BY Here DEF GInv
<1>2. Max(Threads) \in Nat /\ nthreads <= Max(Threads)
  BY <1>1, RowsEnough
<1> QED
  BY <1>1, <1>2 DEF Elements

LEMMA ZeroElement == 0 \in Elements
<1>1. PICK n \in Threads : n \in Nat \ {0}
  BY GreedyAssumption
<1>2. Max(Threads) \in Nat /\ n <= Max(Threads)
  BY RowsEnough
<1> QED
  BY <1>1, <1>2 DEF Elements

\* The processor of a PU is one of the machine.
LEMMA PuKnown ==
  ASSUME NEW m \in Machines, NEW v \in PUs(m.arities)
  PROVE  /\ puIndex(m.arities, v) + 1 \in DOMAIN m.pu
         /\ m.pu[puIndex(m.arities, v) + 1] \in ToSet(m.pu)
<1>1. m.arities \in Seq(Nat) /\ m.pu \in Seq(Nat) /\ Cardinality(PUs(m.arities)) <= Len(m.pu)
  BY GreedyAssumption
<1>2. puIndex(m.arities, v) \in 0 .. Cardinality(PUs(m.arities)) - 1
  BY <1>1, PuIndexBelow
<1>3. Cardinality(PUs(m.arities)) \in Nat
  BY <1>1, PathsAre, LevelSize
<1>4. DOMAIN m.pu = 1 .. Len(m.pu) /\ Len(m.pu) \in Nat
  BY <1>1
<1>5. puIndex(m.arities, v) + 1 \in DOMAIN m.pu
  BY <1>1, <1>2, <1>3, <1>4
<1> QED
  BY <1>5 DEF ToSet

\* The tree is that of one of the machines.
TreeOK == \E m \in Machines : arities = m.arities /\ pu = m.pu

LEMMA TypeStep ==
  ASSUME TypeOK, TreeOK, GInv, GInv', [Next]_vars PROVE TypeOK' /\ TreeOK'
<1>1. TreeOK'
  <2>1. arities' = arities /\ pu' = pu
    BY DEF Next, Step, vars, greedy_init, Consider, Take, FinishGroup, SumPair,
           NextLevel, PlaceRoot, PlaceOnPU, PlaceOnChildren, PassDown, Mapped,
           Sleep, Start, Communicate, inputVars, treeVars
  <2> QED
    BY <2>1 DEF TreeOK
<1>2. /\ pc' \in {"init", "idle", "search", "sum", "root", "place", "mapped"}
      /\ spcd_matrix' \in [Cells -> 0 .. MaxComm]
      /\ matrix' \in [0 .. 1 -> [Cells -> 0 .. UINT_RANGE - 1 \cup {Unknown}]]
  BY DEF GInv, Typed
<1>3. nthreads' \in Nat
  <2>1. nthreads' \in {nthreads, 0} \cup Threads
    BY DEF Next, Step, vars, greedy_init, Consider, Take, FinishGroup, SumPair,
           NextLevel, PlaceRoot, PlaceOnPU, PlaceOnChildren, PassDown, Mapped,
           Sleep, Start, Communicate, inputVars, treeVars
  <2> QED
    BY <2>1, GreedyAssumption DEF TypeOK
<1>4. levels_n' \in Nat
  <2>1. levels_n' \in {levels_n, usedLevels(arities)}
    BY DEF Next, Step, vars, greedy_init, Consider, Take, FinishGroup, SumPair,
           NextLevel, PlaceRoot, PlaceOnPU, PlaceOnChildren, PassDown, Mapped,
           Sleep, Start, Communicate, inputVars, treeVars
  <2>2. usedLevels(arities) \in Nat
    BY Room DEF LevelsHaveRoom, TreeOK
  <2> QED
    BY <2>1, <2>2 DEF TypeOK
<1>5. chosen' \subseteq Elements
  <2>1. chosen' \in {chosen, {}, chosen \cup {winner}}
    BY DEF Next, Step, vars, greedy_init, Consider, Take, FinishGroup, SumPair,
           NextLevel, PlaceRoot, PlaceOnPU, PlaceOnChildren, PassDown, Mapped,
           Sleep, Start, Communicate, workVars, groupVars
  <2> QED
    BY <2>1 DEF TypeOK
<1>6. winner' \in Elements
  <2>1. CASE Consider
    <3>1. winner' = winner \/ (winner' = cand /\ cand < nelements /\ pc = "search")
      BY <2>1 DEF Consider
    <3>2. cand < nelements /\ pc = "search" => cand \in 0 .. nelements - 1
      <4>1. ASSUME cand < nelements, pc = "search" PROVE cand \in 0 .. nelements - 1
        <5>1. nelements \in Nat
          BY <4>1, Here DEF GInv
        <5>2. cand \in 0 .. nelements
          BY <4>1 DEF GInv, Growing
        <5> QED
          BY <4>1, <5>1, <5>2
      <4> QED
        BY <4>1
    <3> QED
      BY <3>1, <3>2, InElements DEF TypeOK
  <2>2. CASE ~Consider
    <3>1. winner' \in {winner, 0}
      BY <2>2 DEF Next, Step, vars, greedy_init, Take, FinishGroup, SumPair,
             NextLevel, PlaceRoot, PlaceOnPU, PlaceOnChildren, PassDown, Mapped,
             Sleep, Start, Communicate, workVars, searchVars
    <3> QED
      BY <3>1, ZeroElement DEF TypeOK
  <2> QED
    BY <2>1, <2>2
<1>7. map' \in [Elements -> ToSet(pu') \cup {Unknown}]
  <2>0. pu' = pu
    BY DEF Next, Step, vars, greedy_init, Consider, Take, FinishGroup, SumPair,
           NextLevel, PlaceRoot, PlaceOnPU, PlaceOnChildren, PassDown, Mapped,
           Sleep, Start, Communicate, inputVars, treeVars
  <2>1. CASE \E v \in Paths(arities) : PlaceOnPU(v)
    <3>1. PICK v \in Paths(arities) : PlaceOnPU(v)
      BY <2>1
    <3>2. v \in PUs(arities)
      BY <3>1 DEF PlaceOnPU, PUs
    <3> DEFINE q == pu[puIndex(arities, v) + 1]
    <3>3. q \in ToSet(pu)
      BY <3>2, PuKnown DEF TreeOK
    <3>4. PICK ids : map' = [t \in Elements |-> IF t \in ids THEN q ELSE map[t]]
      BY <3>1 DEF PlaceOnPU
    <3> HIDE DEF q
    <3> QED
      BY <2>0, <3>3, <3>4 DEF TypeOK
  <2>2. CASE Sleep
    BY <2>0, <2>2 DEF Sleep, unknownMap
  <2>3. CASE ~(\E v \in Paths(arities) : PlaceOnPU(v)) /\ ~Sleep
    <3>1. map' = map
      BY <2>3 DEF Next, Step, vars, greedy_init, Consider, Take, FinishGroup, SumPair,
             NextLevel, PlaceRoot, PlaceOnChildren, PassDown, Mapped,
             Start, Communicate, placeVars
    <3> QED
      BY <2>0, <3>1 DEF TypeOK
  <2> QED
    BY <2>1, <2>2, <2>3
<1> QED
  BY <1>1, <1>2, <1>3, <1>4, <1>5, <1>6, <1>7 DEF TypeOK

LEMMA TypesAndTree == Spec => [](TypeOK /\ TreeOK)
<1>1. Init => TypeOK /\ TreeOK
  <2> SUFFICES ASSUME Init PROVE TypeOK /\ TreeOK
    OBVIOUS
  <2>1. spcd_matrix \in [Cells -> 0 .. MaxComm]
    BY GreedyAssumption DEF Init
  <2> QED
    BY <2>1, ZeroElement DEF Init, TypeOK, TreeOK, unknownBuffers, unknownMap
<1>2. (TypeOK /\ TreeOK) /\ GInv /\ GInv' /\ [Next]_vars => (TypeOK /\ TreeOK)'
  BY TypeStep
<1>3. Spec => []GInv
  BY GreedyInvariant
<1> QED
  BY <1>1, <1>2, <1>3, PTL DEF Spec
\* Types, on every machine: the winner and the elements that are chosen have
\* a row of the matrix, and map holds ids that detection found.
THEOREM GreedyTypes == Spec => []TypeOK
<1> QED
  BY TypesAndTree, PTL


-----------------------------------------------------------------------------
(* The tower of groups of a finished mapping *)

\* The groups of all levels up to the root, whose only group holds those of
\* the level below.
groupsOf(l) ==
  IF l = levels_n THEN << [x \in 1 .. nGroupsAt(l - 1) |-> x - 1] >> ELSE groups[l]

tower == [l \in 1 .. levels_n |-> groupsOf(l)]

\* The elements that level l of a tower T shares out, nt being the threads.
below(T, nt, l) == IF l = 1 THEN nt ELSE Len(T[l - 1])

isTower(a, T, nt) ==
  /\ T \in [1 .. levelAt(a, 0) -> Seq(Seq(Nat))] /\ nt \in Nat \ {0}
  /\ \A l \in 1 .. levelAt(a, 0) : Complete(T[l], below(T, nt, l), execElements(a)[l])

\* A single group of everything is complete.
LEMMA RootComplete ==
  ASSUME NEW n \in Nat \ {0}
  PROVE  LET G == << [x \in 1 .. n |-> x - 1] >>
         IN G \in Seq(Seq(Nat)) /\ Complete(G, n, 1)
<1> DEFINE g == [x \in 1 .. n |-> x - 1]
           G == << g >>
<1>1. g \in Seq(Nat) /\ Len(g) = n /\ DOMAIN g = 1 .. n /\ \A x \in 1 .. n : g[x] = x - 1
  OBVIOUS
<1> HIDE DEF g
<1>2. G \in Seq(Seq(Nat)) /\ Len(G) = 1 /\ DOMAIN G = {1} /\ G[1] = g
  BY <1>1
<1> HIDE DEF G
<1>3. Sized(G, n, 1)
  <2>1. sizeOf(n, 1, 0) = n
    BY DEF sizeOf
  <2> QED
    BY <1>1, <1>2, <2>1 DEF Sized
<1>4. ASSUME NEW p \in Places(G)
      PROVE  p = << 1, p[2] >> /\ p[2] \in 1 .. n /\ at(G, p) = p[2] - 1
  <2>1. p[1] = 1 /\ p[2] \in 1 .. n /\ p = << p[1], p[2] >>
    BY <1>1, <1>2 DEF Places
  <2> QED
    BY <1>1, <1>2, <2>1 DEF at
<1>5. OnePlaceEach(G)
  <2> SUFFICES ASSUME NEW p \in Places(G), NEW q \in Places(G), at(G, p) = at(G, q)
               PROVE  p = q
    BY DEF OnePlaceEach
  <2>1. p[2] - 1 = q[2] - 1 /\ p[2] \in Nat /\ q[2] \in Nat
    BY <1>4
  <2>2. p[2] = q[2]
    BY <2>1
  <2> QED
    BY <1>4, <2>2
<1>6. placed(G) = 0 .. n - 1
  <2>1. ASSUME NEW e \in placed(G) PROVE e \in 0 .. n - 1
    <3>1. PICK p \in Places(G) : e = at(G, p)
      BY DEF placed
    <3>2. e = p[2] - 1 /\ p[2] \in 1 .. n
      BY <1>4, <3>1
    <3> QED
      BY <3>2
  <2>2. ASSUME NEW e \in 0 .. n - 1 PROVE e \in placed(G)
    <3> DEFINE p == << 1, e + 1 >>
    <3>1. p \in Places(G)
      BY <1>1, <1>2 DEF Places
    <3>2. p[2] = e + 1
      OBVIOUS
    <3> HIDE DEF p
    <3>3. at(G, p) = e
      BY <1>4, <3>1, <3>2
    <3> QED
      BY <3>1, <3>3 DEF placed
  <2> QED
    BY <2>1, <2>2
<1> QED
  BY <1>2, <1>3, <1>5, <1>6 DEF G, g, Complete

\* What is laid out is a tower.
LEMMA TowerStands ==
  ASSUME GInv, pc \in {"root", "place", "mapped"}
  PROVE  /\ isTower(arities, tower, nthreads)
         /\ levels_n = levelAt(arities, 0) /\ levels_n \in Nat \ {0}
         /\ nthreads \in Threads
<1>1. PICK m \in Machines : arities = m.arities
  BY DEF GInv, Typed
<1>2. arities \in Seq(Nat \ {0}) /\ arities \in Seq(Nat) /\ 0 \in 0 .. Len(arities)
  BY <1>1, GreedyAssumption
<1>3. /\ levels_n = levelAt(arities, 0) /\ levels_n \in Nat \ {0}
      /\ exec_el_in_level = execElements(arities)
      /\ execElements(arities)[levels_n] = 1
  <2>1. /\ levels_n = levelAt(arities, 0) /\ exec_el_in_level = execElements(arities)
    BY <1>2, Used DEF GInv, Typed
  <2>2. levelAt(arities, 0) \in 1 .. levelAt(arities, 0)
        /\ Len(sharers(arities)[Len(arities)]) \in Nat
        /\ levelAt(arities, 0) = 1 + Len(sharers(arities)[Len(arities)])
    BY <1>2, LevelAtEnds
  <2>3. levelAt(arities, 0) \in Nat \ {0}
    <3> DEFINE L == Len(sharers(arities)[Len(arities)])
    <3>1. L \in Nat /\ levelAt(arities, 0) = 1 + L
      BY <2>2
    <3> HIDE DEF L
    <3> QED
      BY <3>1
  <2>4. execElements(arities)[levelAt(arities, 0)] = 1
    BY <1>2, ExecWidth, Widths
  <2> QED
    BY <2>1, <2>3, <2>4
<1>4. /\ nthreads \in Threads /\ nthreads \in Nat \ {0}
      /\ groups \in [1 .. levels_n - 1 -> Seq(Seq(Nat))]
  BY GreedyAssumption DEF GInv, Typed, working
<1>5. \A l \in 1 .. levels_n - 1 :
        Complete(groups[l], nGroupsAt(l - 1), exec_el_in_level[l])
  <2>1. grouped = 1 .. levels_n - 1
    BY DEF grouped
  <2> QED
    BY <2>1 DEF GInv, LowerComplete
<1>6. \A l \in 0 .. levels_n - 1 : nGroupsAt(l) \in Nat \ {0}
  <2>1. TAKE l \in 0 .. levels_n - 1
  <2>2. CASE l = 0
    BY <1>4, <2>2 DEF nGroupsAt
  <2>3. CASE l # 0
    <3>1. l \in 1 .. levels_n - 1
      BY <1>3, <2>3
    <3>2. Len(groups[l]) \in 1 .. nGroupsAt(l - 1) /\ groups[l] \in Seq(Seq(Nat))
      BY <1>4, <1>5, <3>1 DEF Complete
    <3>3. Len(groups[l]) \in Nat \ {0}
      <4>1. Len(groups[l]) \in Nat
        BY <3>2
      <4>2. Len(groups[l]) >= 1
        BY <3>2
      <4> QED
        BY <4>1, <4>2
    <3> QED
      BY <2>3, <3>3 DEF nGroupsAt
  <2> QED
    BY <2>2, <2>3
<1>7. \A l \in 1 .. levels_n : groupsOf(l) \in Seq(Seq(Nat))
        /\ Complete(groupsOf(l), nGroupsAt(l - 1), execElements(arities)[l])
  <2>1. TAKE l \in 1 .. levels_n
  <2>2. CASE l = levels_n
    <3>1. nGroupsAt(l - 1) \in Nat \ {0}
      <4>1. l - 1 \in 0 .. levels_n - 1
        BY <1>3
      <4> QED
        BY <1>6, <4>1
    <3>2. groupsOf(l) \in Seq(Seq(Nat)) /\ Complete(groupsOf(l), nGroupsAt(l - 1), 1)
      BY <2>2, <3>1, RootComplete DEF groupsOf
    <3> QED
      BY <1>3, <2>2, <3>2
  <2>3. CASE l # levels_n
    <3>1. l \in 1 .. levels_n - 1
      BY <1>3, <2>3
    <3> QED
      BY <1>3, <1>4, <1>5, <2>3, <3>1 DEF groupsOf
  <2> QED
    BY <2>2, <2>3
<1>8. \A l \in 1 .. levels_n : below(tower, nthreads, l) = nGroupsAt(l - 1)
  <2>1. TAKE l \in 1 .. levels_n
  <2>2. CASE l = 1
    BY <2>2 DEF below, nGroupsAt
  <2>3. CASE l # 1
    <3>1. l - 1 \in 1 .. levels_n /\ l - 1 # levels_n /\ l - 1 # 0
      BY <1>3, <2>3
    <3>2. tower[l - 1] = groups[l - 1]
      BY <3>1 DEF tower, groupsOf
    <3> QED
      BY <2>3, <3>1, <3>2 DEF below, nGroupsAt
  <2> QED
    BY <2>2, <2>3
<1>9. tower \in [1 .. levels_n -> Seq(Seq(Nat))]
  BY <1>7 DEF tower
<1>10. \A l \in 1 .. levels_n : tower[l] = groupsOf(l)
  BY DEF tower
<1> HIDE DEF tower
<1>11. isTower(arities, tower, nthreads)
  BY <1>3, <1>4, <1>7, <1>8, <1>9, <1>10 DEF isTower
<1> QED
  BY <1>3, <1>4, <1>11

-----------------------------------------------------------------------------
(* Where a tower's groups go *)

\* The arithmetic of the sizes: groups no larger than the vertices' arity.
LEMMA SizeFits ==
  ASSUME NEW n \in Nat \ {0}, NEW m \in Nat \ {0}, NEW w \in Nat \ {0}, NEW A \in Nat,
         m = (IF n <= w THEN n ELSE w), n <= w * A, A >= 1, NEW g \in 0 .. m - 1
  PROVE  sizeOf(n, m, g) <= A
<1>1. CASE n <= w
  <2>1. m = n
    BY <1>1
  <2>2. n \div n = 1 /\ n % n = 0
    OBVIOUS
  <2>3. sizeOf(n, m, g) = 1
    BY <2>1, <2>2 DEF sizeOf
  <2> QED
    BY <2>3
<1>2. CASE ~(n <= w)
  <2> DEFINE q == n \div m
             r == n % m
  <2>1. m = w
    BY <1>2
  <2>2. q \in Nat /\ r \in 0 .. m - 1 /\ n = m * q + r
    OBVIOUS
  <2>3. sizeOf(n, m, g) = q + (IF g < r THEN 1 ELSE 0)
    BY DEF sizeOf
  <2> HIDE DEF q, r
  <2>4. m * q + r <= m * A /\ m * q \in Nat /\ m * A \in Nat
    BY <2>1, <2>2
  <2>5. q <= A
    <3>1. SUFFICES ASSUME q >= A + 1 PROVE FALSE
      BY <2>2
    <3>2. m * q >= m * (A + 1)
      BY <2>2, <3>1
    <3>3. m * (A + 1) = m * A + m
      OBVIOUS
    <3> QED
      BY <2>2, <2>4, <3>2, <3>3
  <2>6. q = A => r = 0
    BY <2>2, <2>4
  <2> QED
    BY <2>2, <2>3, <2>5, <2>6
<1> QED
  BY <1>1, <1>2

\* No group has an element that finds no child: PlaceOnChildren drops none.
LEMMA NoneDropped ==
  ASSUME NEW a \in Seq(Nat \ {0}), NEW T, NEW nt, isTower(a, T, nt),
         NEW n \in 1 .. Len(a), a[n] > 1
  PROVE  LET l == levelAt(a, n - 1)
         IN /\ l \in 2 .. levelAt(a, 0) /\ levelAt(a, n) = l - 1
            /\ below(T, nt, l) = Len(T[l - 1]) /\ Len(T[l - 1]) \in Nat \ {0}
            /\ \A x \in DOMAIN T[l] : Len(T[l][x]) <= a[n]
<1> DEFINE l == levelAt(a, n - 1)
           K == levelAt(a, 0)
           w == width(a, n - 1)
<1>1. /\ a \in Seq(Nat) /\ n \in 0 .. Len(a) /\ n - 1 \in 0 .. Len(a) /\ n # 0
      /\ a[n] \in Nat /\ n \in Nat
  OBVIOUS
<1>2. /\ levelAt(a, n) \in 1 .. K /\ l \in 1 .. K /\ l = levelAt(a, n) + 1
  BY <1>1, LevelAtEnds, LevelAtStep
<1>3. /\ execElements(a)[l] = w /\ w \in Nat \ {0}
      /\ execElements(a)[levelAt(a, n)] = w * a[n]
  BY <1>1, ExecWidth, Widths
<1>4. K \in Nat
  <2>1. Len(sharers(a)[Len(a)]) \in Nat /\ K = 1 + Len(sharers(a)[Len(a)])
    BY <1>1, LevelAtEnds
  <2> HIDE DEF K
  <2> QED
    BY <2>1
<1> HIDE DEF l, K, w
<1>5. l \in 2 .. K /\ levelAt(a, n) = l - 1 /\ l # 1
  BY <1>2, <1>4
<1>6. below(T, nt, l) = Len(T[l - 1])
  BY <1>5 DEF below
<1>7. /\ Complete(T[l], Len(T[l - 1]), execElements(a)[l])
      /\ Complete(T[l - 1], below(T, nt, l - 1), execElements(a)[l - 1])
      /\ T[l] \in Seq(Seq(Nat)) /\ T[l - 1] \in Seq(Seq(Nat))
  <2>1. l \in 1 .. K /\ l - 1 \in 1 .. K
    BY <1>4, <1>5
  <2> QED
    BY <1>6, <2>1 DEF isTower, K
<1> DEFINE n1 == Len(T[l - 1])
           m == Len(T[l])
<1>8. /\ n1 \in Nat \ {0} /\ n1 <= w * a[n]
      /\ m \in Nat \ {0} /\ m = (IF n1 <= w THEN n1 ELSE w)
      /\ Sized(T[l], n1, m) /\ DOMAIN T[l] = 1 .. m
  <2>1. n1 \in Nat /\ m \in Nat /\ DOMAIN T[l] = 1 .. m
    BY <1>7
  <2>2. n1 >= 1 /\ n1 <= execElements(a)[l - 1]
    BY <1>7 DEF Complete
  <2>3. m >= 1 /\ m = (IF n1 <= w THEN n1 ELSE w) /\ Sized(T[l], n1, m)
    BY <1>3, <1>7 DEF Complete
  <2> HIDE DEF n1, m
  <2> QED
    BY <1>3, <1>5, <2>1, <2>2, <2>3
<1> HIDE DEF n1, m
<1>9. ASSUME NEW x \in DOMAIN T[l] PROVE Len(T[l][x]) <= a[n]
  <2>1. x - 1 \in 0 .. m - 1
    BY <1>8, <1>9
  <2>2. a[n] \in Nat /\ a[n] >= 1
    BY <1>1
  <2>3. Len(T[l][x]) = sizeOf(n1, m, x - 1)
    BY <1>8 DEF Sized
  <2>4. sizeOf(n1, m, x - 1) <= a[n]
    BY <1>3, <1>8, <2>1, <2>2, SizeFits
  <2> QED
    BY <2>3, <2>4
<1> QED
  BY <1>5, <1>6, <1>8, <1>9 DEF l, K, n1

\* What vertex b[1] of depth n - 1, which gets group b[2], hands to a child.
under(a, T, n, b, c) ==
  IF a[n] > 1
  THEN \E i \in DOMAIN T[levelAt(a, n - 1)][b[2] + 1] :
         c = << Append(b[1], i), T[levelAt(a, n - 1)][b[2] + 1][i] >>
  ELSE c = << Append(b[1], 1), b[2] >>

handedDown(a, T, n, S) == {c \in Seq(Nat) \X Nat : \E b \in S : under(a, T, n, b, c)}

\* A gives for every depth the vertices that get a group and which.
isLayout(a, T, A) ==
  /\ A[0] = {<< << >>, 0 >>}
  /\ \A n \in 1 .. Len(a) : A[n] = handedDown(a, T, n, A[n - 1])

layout(a, T) == CHOOSE A : isLayout(a, T, A)

LEMMA LayoutIs ==
  ASSUME NEW a \in Seq(Nat), NEW T PROVE isLayout(a, T, layout(a, T))
<1> DEFINE N == Len(a)
           V == SUBSET (Seq(Nat) \X Nat)
           step == [n \in 1 .. N |-> [S \in V |-> handedDown(a, T, n, S)]]
           b == {<< << >>, 0 >>}
<1>1. N \in Nat /\ b \in V
  <2>1. << << >>, 0 >> \in Seq(Nat) \X Nat
    <3>1. \A D : \A x \in D : << x, 0 >> \in D \X Nat
      OBVIOUS
    <3>2. << >> \in Seq(Nat)
      OBVIOUS
    <3> QED
      BY <3>1, <3>2, Zenon
  <2>2. N \in Nat
    OBVIOUS
  <2> HIDE DEF N
  <2> QED
    BY <2>1, <2>2
<1>2. \A n \in 1 .. N : \A S \in V : step[n][S] = handedDown(a, T, n, S)
  OBVIOUS
<1>3. \A n \in 1 .. N : \A S \in V : handedDown(a, T, n, S) \in V
  BY DEF handedDown
<1> HIDE DEF step, V, b, N
<1>4. isStep(step, N, V)
  BY <1>2, <1>3 DEF isStep
<1>5. PICK A : computed(A, N, V, b, step)
  BY <1>1, <1>4, Recursion
<1>6. isLayout(a, T, A)
  <2>1. A \in [0 .. N -> V] /\ A[0] = b /\ \A n \in 1 .. N : A[n] = step[n][A[n - 1]]
    BY <1>5 DEF computed
  <2>2. ASSUME NEW n \in 1 .. N PROVE A[n] = handedDown(a, T, n, A[n - 1])
    <3>1. n - 1 \in 0 .. N
      BY <1>1
    <3>2. A[n - 1] \in V
      BY <2>1, <3>1
    <3> QED
      BY <1>2, <2>1, <3>2
  <2> QED
    BY <2>1, <2>2 DEF isLayout, b, N
<1> QED
  BY <1>6 DEF layout

\* S lays the groups of a depth out, one to a vertex.
Right(a, T, d, S) ==
  /\ \A c \in S : /\ c = << c[1], c[2] >> /\ c[1] \in verticesAt(a, d)
                  /\ c[2] \in 0 .. Len(T[levelAt(a, d)]) - 1
  /\ \A x \in 0 .. Len(T[levelAt(a, d)]) - 1 : \E c \in S : c[2] = x
  /\ \A b, c \in S : b[1] = c[1] <=> b[2] = c[2]

LEMMA RightRoot ==
  ASSUME NEW a \in Seq(Nat \ {0}), NEW T, NEW nt, isTower(a, T, nt)
  PROVE  Right(a, T, 0, {<< << >>, 0 >>})
<1>1. a \in Seq(Nat) /\ 0 \in 0 .. Len(a)
  OBVIOUS
<1> DEFINE K == levelAt(a, 0)
<1>2. K \in 1 .. K /\ execElements(a)[K] = 1
  BY <1>1, LevelAtEnds, ExecWidth, Widths
<1>3. Len(T[K]) = 1
  <2>1. T[K] \in Seq(Seq(Nat)) /\ Complete(T[K], below(T, nt, K), 1)
    BY <1>2 DEF isTower
  <2> DEFINE x == Len(T[K])
  <2>2. x \in Nat /\ x >= 1 /\ x <= 1
    BY <2>1 DEF Complete
  <2> HIDE DEF x
  <2>3. x = 1
    BY <2>2
  <2> QED
    BY <2>3 DEF x
<1>4. << >> \in verticesAt(a, 0)
  BY RootLevel
<1> HIDE DEF K
<1> DEFINE c == << << >>, 0 >>
<1>5. c[1] = << >> /\ c[2] = 0 /\ c = << c[1], c[2] >>
  OBVIOUS
<1> HIDE DEF c
<1>6. Right(a, T, 0, {c})
  <2>1. c[2] \in 0 .. Len(T[levelAt(a, 0)]) - 1
    BY <1>3, <1>5 DEF K
  <2>2. \A x \in 0 .. Len(T[levelAt(a, 0)]) - 1 : x = 0
    BY <1>3 DEF K
  <2> QED
    BY <1>4, <1>5, <2>1, <2>2 DEF Right
<1> QED
  BY <1>6 DEF c

LEMMA RightStep ==
  ASSUME NEW a \in Seq(Nat \ {0}), NEW T, NEW nt, isTower(a, T, nt),
         NEW n \in 1 .. Len(a), NEW S, Right(a, T, n - 1, S)
  PROVE  Right(a, T, n, handedDown(a, T, n, S))
<1> DEFINE l == levelAt(a, n - 1)
           k == levelAt(a, n)
           D == handedDown(a, T, n, S)
<1>1. /\ a \in Seq(Nat) /\ n \in 0 .. Len(a) /\ n - 1 \in 0 .. Len(a) /\ n # 0
      /\ a[n] \in Nat /\ a[n] >= 1
  OBVIOUS
<1>2. /\ \A b \in S : /\ b = << b[1], b[2] >> /\ b[1] \in verticesAt(a, n - 1)
                      /\ b[2] \in 0 .. Len(T[l]) - 1
      /\ \A x \in 0 .. Len(T[l]) - 1 : \E b \in S : b[2] = x
      /\ \A b, c \in S : b[1] = c[1] <=> b[2] = c[2]
  BY DEF Right
<1>3. \A p \in verticesAt(a, n - 1), i \in 1 .. a[n] : Append(p, i) \in verticesAt(a, n)
  <2> DEFINE P == verticesAt(a, n - 1)
             Q == verticesAt(a, n)
             I == 1 .. a[n]
  <2>1. Q = {Append(p, i) : p \in P, i \in I}
    BY <1>1, NextLevelIs
  <2> HIDE DEF P, Q, I
  <2>2. \A p \in P, i \in I : Append(p, i) \in Q
    BY <2>1
  <2> QED
    BY <2>2 DEF P, Q, I
<1>4. \A p, q \in verticesAt(a, n - 1) : \A i, j \in Nat :
        Append(p, i) = Append(q, j) => p = q /\ i = j
  <2>1. ASSUME NEW p \in verticesAt(a, n - 1), NEW q \in verticesAt(a, n - 1),
               NEW i \in Nat, NEW j \in Nat, Append(p, i) = Append(q, j)
        PROVE  p = q /\ i = j
    <3>1. p \in Seq(Nat) /\ q \in Seq(Nat) /\ Len(p) = n - 1 /\ Len(q) = n - 1
      BY DEF verticesAt
    <3>2. i = j
      BY <2>1, <3>1
    <3>3. \A x \in 1 .. n - 1 : p[x] = q[x]
      <4>1. TAKE x \in 1 .. n - 1
      <4>2. Append(p, i)[x] = p[x] /\ Append(q, j)[x] = q[x]
        BY <1>1, <3>1, SMTT(30)
      <4> QED
        BY <2>1, <4>2
    <3> QED
      BY <3>1, <3>2, <3>3
  <2> QED
    BY <2>1
<1>5. \A p \in verticesAt(a, n) : p \in Seq(Nat)
  BY DEF verticesAt
<1>6. CASE a[n] > 1
  <2> DEFINE G == T[l]
             m == Len(T[k])
  <2>1. /\ l \in 1 .. levelAt(a, 0) /\ k = l - 1 /\ below(T, nt, l) = m
        /\ m \in Nat \ {0} /\ \A x \in DOMAIN G : Len(G[x]) <= a[n]
    <3>1. /\ l \in 2 .. levelAt(a, 0) /\ k = l - 1 /\ below(T, nt, l) = Len(T[l - 1])
          /\ Len(T[l - 1]) \in Nat \ {0} /\ \A x \in DOMAIN G : Len(G[x]) <= a[n]
      BY <1>6, NoneDropped
    <3>2. levelAt(a, 0) \in Nat
      BY <1>1, LevelAtNat
    <3>3. l \in 1 .. levelAt(a, 0)
      BY <3>1
    <3> QED
      BY <3>1, <3>3
  <2>2. /\ G \in Seq(Seq(Nat)) /\ OnePlaceEach(G) /\ placed(G) = 0 .. m - 1
    BY <2>1 DEF isTower, Complete
  <2>3. DOMAIN G = 1 .. Len(G) /\ Len(G) \in Nat
    BY <2>2
  <2>4. \A c : c \in D <=> /\ c \in Seq(Nat) \X Nat
                           /\ \E b \in S : \E i \in DOMAIN G[b[2] + 1] :
                                c = << Append(b[1], i), G[b[2] + 1][i] >>
    BY <1>6 DEF handedDown, under
  <2> HIDE DEF D, l, k, G, m
  <2>5. ASSUME NEW b \in S, NEW i \in DOMAIN G[b[2] + 1]
        PROVE  /\ << b[2] + 1, i >> \in Places(G)
               /\ at(G, << b[2] + 1, i >>) = G[b[2] + 1][i]
               /\ G[b[2] + 1][i] \in 0 .. m - 1
               /\ i \in 1 .. a[n] /\ i \in Nat /\ b[2] \in Nat
               /\ Append(b[1], i) \in verticesAt(a, n)
    <3>1. b[2] \in 0 .. Len(G) - 1 /\ b[1] \in verticesAt(a, n - 1)
      BY <1>2 DEF G
    <3>2. b[2] + 1 \in DOMAIN G /\ b[2] \in Nat
      BY <2>3, <3>1
    <3>3. G[b[2] + 1] \in Seq(Nat) /\ Len(G[b[2] + 1]) <= a[n]
      BY <2>1, <2>2, <3>2, SMTT(30) DEF G
    <3>4. i \in 1 .. a[n] /\ i \in Nat
      <4> DEFINE g == G[b[2] + 1]
      <4>1. g \in Seq(Nat) /\ Len(g) <= a[n] /\ i \in DOMAIN g
        BY <3>3
      <4> HIDE DEF g
      <4>2. i \in 1 .. Len(g) /\ Len(g) \in Nat
        BY <4>1
      <4> QED
        BY <1>1, <4>1, <4>2
    <3>5. << b[2] + 1, i >> \in Places(G) /\ at(G, << b[2] + 1, i >>) = G[b[2] + 1][i]
      BY <3>2, <3>4 DEF Places, at
    <3>6. G[b[2] + 1][i] \in 0 .. m - 1
      BY <2>2, <3>5 DEF placed
    <3> QED
      BY <1>3, <3>1, <3>2, <3>4, <3>5, <3>6
  <2>6. ASSUME NEW c \in D
        PROVE  \E b \in S : \E i \in DOMAIN G[b[2] + 1] :
                 c = << Append(b[1], i), G[b[2] + 1][i] >>
    BY <2>4
  <2>7. ASSUME NEW c \in D
        PROVE  /\ c = << c[1], c[2] >> /\ c[1] \in verticesAt(a, n)
               /\ c[2] \in 0 .. m - 1
    <3>1. PICK b \in S : \E i \in DOMAIN G[b[2] + 1] :
                 c = << Append(b[1], i), G[b[2] + 1][i] >>
      BY <2>6
    <3>2. PICK i \in DOMAIN G[b[2] + 1] : c = << Append(b[1], i), G[b[2] + 1][i] >>
      BY <3>1
    <3> QED
      BY <2>5, <3>2
  <2>8. ASSUME NEW x \in 0 .. m - 1 PROVE \E c \in D : c[2] = x
    <3>1. PICK p \in Places(G) : at(G, p) = x
      BY <2>2 DEF placed
    <3>2. p = << p[1], p[2] >> /\ p[1] \in DOMAIN G /\ p[2] \in DOMAIN G[p[1]]
      BY <3>1 DEF Places
    <3>3. p[1] - 1 \in 0 .. Len(G) - 1 /\ (p[1] - 1) + 1 = p[1]
      BY <2>3, <3>2
    <3>4. PICK b \in S : b[2] = p[1] - 1
      BY <1>2, <3>3 DEF G
    <3>5. b[2] + 1 = p[1]
      BY <3>3, <3>4
    <3> DEFINE i == p[2]
               c == << Append(b[1], i), G[b[2] + 1][i] >>
    <3>6. i \in DOMAIN G[b[2] + 1] /\ G[b[2] + 1][i] = x
      BY <3>1, <3>2, <3>5 DEF at
    <3>7. c \in Seq(Nat) \X Nat
      <4>1. Append(b[1], i) \in Seq(Nat) /\ G[b[2] + 1][i] \in 0 .. m - 1
        BY <1>5, <2>5, <3>6
      <4>2. G[b[2] + 1][i] \in Nat
        BY <4>1
      <4> HIDE DEF i
      <4> QED
        BY <4>1, <4>2
    <3>8. c \in D
      <4> HIDE DEF i
      <4> QED
        BY <2>4, <3>6, <3>7
    <3> QED
      BY <3>6, <3>8
  <2>9. ASSUME NEW c \in D, NEW d \in D PROVE c[1] = d[1] <=> c[2] = d[2]
    <3>1. PICK b \in S : \E i \in DOMAIN G[b[2] + 1] :
                 c = << Append(b[1], i), G[b[2] + 1][i] >>
      BY <2>6
    <3>2. PICK i \in DOMAIN G[b[2] + 1] : c = << Append(b[1], i), G[b[2] + 1][i] >>
      BY <3>1
    <3>3. PICK e \in S : \E j \in DOMAIN G[e[2] + 1] :
                 d = << Append(e[1], j), G[e[2] + 1][j] >>
      BY <2>6
    <3>4. PICK j \in DOMAIN G[e[2] + 1] : d = << Append(e[1], j), G[e[2] + 1][j] >>
      BY <3>3
    <3>5. /\ i \in Nat /\ j \in Nat /\ b[2] \in Nat /\ e[2] \in Nat
          /\ b[1] \in verticesAt(a, n - 1) /\ e[1] \in verticesAt(a, n - 1)
          /\ b[1] = e[1] <=> b[2] = e[2]
      BY <1>2, <2>5
    <3>6. c[1] = Append(b[1], i) /\ c[2] = G[b[2] + 1][i]
          /\ d[1] = Append(e[1], j) /\ d[2] = G[e[2] + 1][j]
      BY <3>2, <3>4
    <3>7. ASSUME c[1] = d[1] PROVE c[2] = d[2]
      <4>1. b[1] = e[1] /\ i = j
        <5>1. Append(b[1], i) = Append(e[1], j)
          BY <3>6, <3>7
        <5>2. /\ i \in Nat /\ j \in Nat
              /\ b[1] \in verticesAt(a, n - 1) /\ e[1] \in verticesAt(a, n - 1)
          BY <3>5
        <5> QED
          BY <1>4, <5>1, <5>2, ZenonT(60)
      <4> QED
        BY <3>5, <3>6, <4>1
    <3>8. ASSUME c[2] = d[2] PROVE c[1] = d[1]
      <4>1. << b[2] + 1, i >> = << e[2] + 1, j >>
        <5> DEFINE p == << b[2] + 1, i >>
                   q == << e[2] + 1, j >>
        <5>1. p \in Places(G) /\ at(G, p) = c[2] /\ q \in Places(G) /\ at(G, q) = d[2]
          BY <2>5, <3>6
        <5> HIDE DEF p, q
        <5>2. p = q
          BY <2>2, <3>8, <5>1 DEF OnePlaceEach
        <5> QED
          BY <5>2 DEF p, q
      <4>2. b[2] + 1 = e[2] + 1 /\ i = j
        BY <4>1
      <4>3. b[2] = e[2]
        BY <3>5, <4>2
      <4> QED
        BY <3>5, <3>6, <4>2, <4>3
    <3> QED
      BY <3>7, <3>8
  <2>10. Right(a, T, n, D)
    BY <2>7, <2>8, <2>9 DEF Right, m, k
  <2> QED
    BY <2>10 DEF D
<1>7. CASE ~(a[n] > 1)
  <2>1. k = l
    <3>1. l = k + 0 /\ k \in 1 .. levelAt(a, 0)
      BY <1>1, <1>7, LevelAtStep, LevelAtEnds
    <3> HIDE DEF k, l
    <3> QED
      BY <3>1
  <2>2. \A c : c \in D <=> /\ c \in Seq(Nat) \X Nat
                           /\ \E b \in S : c = << Append(b[1], 1), b[2] >>
    BY <1>7 DEF handedDown, under
  <2> HIDE DEF D
  <2>3. \A b \in S : Append(b[1], 1) \in verticesAt(a, n)
    BY <1>1, <1>2, <1>3, SMTT(30)
  <2>4. ASSUME NEW b \in S PROVE << Append(b[1], 1), b[2] >> \in D
    <3>1. b[2] \in Nat /\ Append(b[1], 1) \in Seq(Nat)
      <4>1. b[2] \in 0 .. Len(T[l]) - 1
        BY <1>2
      <4>2. b[2] \in Nat
        BY <4>1
      <4> QED
        BY <1>5, <2>3, <4>2
    <3> QED
      BY <2>2, <3>1
  <2>5. ASSUME NEW c \in D
        PROVE  /\ c = << c[1], c[2] >> /\ c[1] \in verticesAt(a, n)
               /\ c[2] \in 0 .. Len(T[l]) - 1
    <3>1. PICK b \in S : c = << Append(b[1], 1), b[2] >>
      BY <2>2
    <3> QED
      BY <1>2, <2>3, <3>1
  <2>6. ASSUME NEW x \in 0 .. Len(T[l]) - 1 PROVE \E c \in D : c[2] = x
    <3>1. PICK b \in S : b[2] = x
      BY <1>2
    <3> QED
      BY <2>4, <3>1
  <2>7. ASSUME NEW c \in D, NEW d \in D PROVE c[1] = d[1] <=> c[2] = d[2]
    <3>1. PICK b \in S : c = << Append(b[1], 1), b[2] >>
      BY <2>2
    <3>2. PICK e \in S : d = << Append(e[1], 1), e[2] >>
      BY <2>2
    <3>3. b[1] \in verticesAt(a, n - 1) /\ e[1] \in verticesAt(a, n - 1)
          /\ (b[1] = e[1] <=> b[2] = e[2])
      BY <1>2
    <3>4. Append(b[1], 1) = Append(e[1], 1) <=> b[1] = e[1]
      BY <1>4, <3>3
    <3> QED
      BY <3>1, <3>2, <3>3, <3>4
  <2>8. Right(a, T, n, D)
    BY <2>1, <2>5, <2>6, <2>7 DEF Right, k
  <2> QED
    BY <2>8 DEF D
<1> QED
  BY <1>6, <1>7

LEMMA LayoutAt ==
  ASSUME NEW a \in Seq(Nat), NEW T
  PROVE  /\ layout(a, T)[0] = {<< << >>, 0 >>}
         /\ \A n \in 1 .. Len(a) :
              layout(a, T)[n] = handedDown(a, T, n, layout(a, T)[n - 1])
BY LayoutIs DEF isLayout

\* Every group of a depth goes to a vertex, and no vertex gets two.
LEMMA LayoutRight ==
  ASSUME NEW a \in Seq(Nat \ {0}), NEW T, NEW nt, isTower(a, T, nt),
         NEW d \in 0 .. Len(a)
  PROVE  Right(a, T, d, layout(a, T)[d])
<1> DEFINE N == Len(a)
           A == layout(a, T)
           S == {n \in 0 .. N : Right(a, T, n, A[n])}
<1>1. a \in Seq(Nat) /\ N \in Nat
  OBVIOUS
<1>2. A[0] = {<< << >>, 0 >>} /\ \A n \in 1 .. N : A[n] = handedDown(a, T, n, A[n - 1])
  BY <1>1, LayoutAt
<1> HIDE DEF A
<1>3. 0 \in S
  <2>1. Right(a, T, 0, A[0])
    BY <1>2, RightRoot
  <2>2. 0 \in 0 .. N
    BY <1>1
  <2> QED
    BY <2>1, <2>2
<1>4. ASSUME NEW n \in 0 .. N - 1, n \in S PROVE n + 1 \in S
  <2> DEFINE k == n + 1
  <2>1. k \in 1 .. N /\ k - 1 = n /\ k \in 0 .. N
    BY <1>1
  <2> HIDE DEF k
  <2>2. Right(a, T, k - 1, A[k - 1])
    BY <1>4, <2>1
  <2>3. Right(a, T, k, A[k])
    BY <1>2, <2>1, <2>2, RightStep
  <2> QED
    BY <2>1, <2>3 DEF k
<1> HIDE DEF S
<1>5. 0 .. N \subseteq S
  BY <1>1, <1>3, <1>4, Induction
<1> QED
  BY <1>5 DEF S, A

\* v is p or a vertex above p.
isAbove(v, p) == Len(v) <= Len(p) /\ \A i \in 1 .. Len(v) : p[i] = v[i]

LEMMA AboveChild ==
  ASSUME NEW v \in Seq(Nat), NEW i \in Nat
  PROVE  isAbove(v, Append(v, i)) /\ isAbove(v, v)
<1>1. Len(Append(v, i)) = Len(v) + 1 /\ Len(v) \in Nat
      /\ \A j \in 1 .. Len(v) : Append(v, i)[j] = v[j]
  OBVIOUS
<1> DEFINE n == Len(v)
           m == Len(Append(v, i))
<1>2. n <= m /\ n <= n
  <2>1. m = n + 1 /\ n \in Nat
    BY <1>1
  <2> HIDE DEF m, n
  <2> QED
    BY <2>1
<1> QED
  BY <1>1, <1>2 DEF isAbove

LEMMA AboveAbove ==
  ASSUME NEW u \in Seq(Nat), NEW v \in Seq(Nat), NEW p \in Seq(Nat),
         isAbove(u, v), isAbove(v, p)
  PROVE  isAbove(u, p)
<1> DEFINE x == Len(u)
           y == Len(v)
           z == Len(p)
<1>1. /\ x <= y /\ y <= z /\ x \in Nat /\ y \in Nat /\ z \in Nat
      /\ \A i \in 1 .. x : v[i] = u[i]
      /\ \A i \in 1 .. y : p[i] = v[i]
  BY DEF isAbove
<1> HIDE DEF x, y, z
<1>2. x <= z /\ \A i \in 1 .. x : i \in 1 .. y
  BY <1>1
<1>3. \A i \in 1 .. x : p[i] = u[i]
  BY <1>1, <1>2
<1> QED
  BY <1>2, <1>3 DEF isAbove, x, z

LEMMA OneAbove ==
  ASSUME NEW u \in Seq(Nat), NEW v \in Seq(Nat), NEW p,
         isAbove(u, p), isAbove(v, p), Len(u) = Len(v)
  PROVE  u = v
<1>1. \A i \in 1 .. Len(u) : u[i] = v[i]
  BY DEF isAbove
<1> QED
  BY <1>1

\* What a layout says of one depth and the next.
LEMMA LayoutNext ==
  ASSUME NEW a \in Seq(Nat \ {0}), NEW T, NEW nt, isTower(a, T, nt),
         NEW n \in 1 .. Len(a)
  PROVE  /\ \A c \in layout(a, T)[n] : \E b \in layout(a, T)[n - 1] :
              under(a, T, n, b, c) /\ isAbove(b[1], c[1])
         /\ \A b \in layout(a, T)[n - 1] :
              \A c : under(a, T, n, b, c) => c \in layout(a, T)[n]
<1> DEFINE A == layout(a, T)
           l == levelAt(a, n - 1)
<1>1. a \in Seq(Nat) /\ n - 1 \in 0 .. Len(a) /\ n \in 0 .. Len(a)
  OBVIOUS
<1>2. A[n] = handedDown(a, T, n, A[n - 1])
  BY <1>1, LayoutAt
<1>3. Right(a, T, n - 1, A[n - 1])
  BY <1>1, LayoutRight
<1>4. /\ T[l] \in Seq(Seq(Nat))
      /\ \A b \in A[n - 1] : /\ b[1] \in Seq(Nat) /\ b[2] \in Nat
                             /\ b[2] + 1 \in DOMAIN T[l]
  <2>1. l \in 1 .. levelAt(a, 0)
    BY <1>1, LevelAtEnds
  <2>2. T[l] \in Seq(Seq(Nat))
    BY <2>1 DEF isTower
  <2>3. ASSUME NEW b \in A[n - 1]
        PROVE  b[1] \in Seq(Nat) /\ b[2] \in Nat /\ b[2] + 1 \in DOMAIN T[l]
    <3>1. b[1] \in verticesAt(a, n - 1) /\ b[2] \in 0 .. Len(T[l]) - 1
      BY <1>3 DEF Right
    <3> HIDE DEF l
    <3>2. DOMAIN T[l] = 1 .. Len(T[l]) /\ Len(T[l]) \in Nat
      BY <2>2
    <3> QED
      BY <3>1, <3>2, SMTT(30) DEF verticesAt
  <2> QED
    BY <2>2, <2>3
<1> HIDE DEF A, l
<1>5. ASSUME NEW b \in A[n - 1], NEW c, under(a, T, n, b, c)
      PROVE  c \in Seq(Nat) \X Nat /\ isAbove(b[1], c[1])
  <2>1. b[1] \in Seq(Nat) /\ b[2] \in Nat /\ b[2] + 1 \in DOMAIN T[l]
    BY <1>4
  <2>2. CASE a[n] > 1
    <3>1. PICK i \in DOMAIN T[l][b[2] + 1] : c = << Append(b[1], i), T[l][b[2] + 1][i] >>
      BY <1>5, <2>2 DEF under, l
    <3>2. T[l][b[2] + 1] \in Seq(Nat)
      BY <1>4, <2>1
    <3>3. i \in Nat /\ T[l][b[2] + 1][i] \in Nat
      BY <3>2, SMTT(30)
    <3>4. Append(b[1], i) \in Seq(Nat)
      BY <2>1, <3>3
    <3> QED
      BY <2>1, <3>1, <3>3, <3>4, AboveChild
  <2>3. CASE ~(a[n] > 1)
    <3>1. c = << Append(b[1], 1), b[2] >>
      BY <1>5, <2>3 DEF under
    <3>2. Append(b[1], 1) \in Seq(Nat) /\ 1 \in Nat
      BY <2>1
    <3> QED
      BY <2>1, <3>1, <3>2, AboveChild
  <2> QED
    BY <2>2, <2>3
<1>6. \A c \in A[n] : \E b \in A[n - 1] : under(a, T, n, b, c)
  BY <1>2 DEF handedDown
<1>7. \A b \in A[n - 1] : \A c : under(a, T, n, b, c) => c \in A[n]
  BY <1>2, <1>5 DEF handedDown
<1>8. \A c \in A[n] : \E b \in A[n - 1] : under(a, T, n, b, c) /\ isAbove(b[1], c[1])
  BY <1>5, <1>6
<1> QED
  BY <1>7, <1>8 DEF A

LEMMA LayoutTyped ==
  ASSUME NEW a \in Seq(Nat \ {0}), NEW T, NEW nt, isTower(a, T, nt),
         NEW d \in 0 .. Len(a), NEW c \in layout(a, T)[d]
  PROVE  /\ c = << c[1], c[2] >> /\ c[1] \in verticesAt(a, d) /\ c[1] \in Seq(Nat)
         /\ Len(c[1]) = d /\ c[2] \in Nat
         /\ c[2] \in 0 .. Len(T[levelAt(a, d)]) - 1
<1>1. /\ c = << c[1], c[2] >> /\ c[1] \in verticesAt(a, d)
      /\ c[2] \in 0 .. Len(T[levelAt(a, d)]) - 1
  BY LayoutRight DEF Right
<1> DEFINE m == Len(T[levelAt(a, d)])
<1>2. c[2] \in 0 .. m - 1
  BY <1>1
<1> HIDE DEF m
<1>3. c[2] \in Nat
  BY <1>2
<1> QED
  BY <1>1, <1>3 DEF verticesAt

\* Above a vertex that gets a group there is one at every depth.
LEMMA LayoutAbove ==
  ASSUME NEW a \in Seq(Nat \ {0}), NEW T, NEW nt, isTower(a, T, nt),
         NEW d \in 0 .. Len(a), NEW c \in layout(a, T)[d], NEW e \in 0 .. d
  PROVE  \E b \in layout(a, T)[e] : isAbove(b[1], c[1])
<1> DEFINE N == Len(a)
           A == layout(a, T)
           S == {n \in 0 .. N : \A x \in A[n] : \A k \in 0 .. n :
                                  \E b \in A[k] : isAbove(b[1], x[1])}
<1>1. N \in Nat
  OBVIOUS
<1>2. \A n \in 0 .. N : \A x \in A[n] : x[1] \in Seq(Nat)
  BY LayoutTyped
<1>3. \A n \in 1 .. N : \A x \in A[n] : \E b \in A[n - 1] : isAbove(b[1], x[1])
  BY LayoutNext
<1> HIDE DEF A
<1>4. \A n \in 0 .. N : \A x \in A[n] : isAbove(x[1], x[1])
  BY <1>2, AboveChild
<1>5. 0 \in S
  BY <1>1, <1>4
<1>6. ASSUME NEW n \in 0 .. N - 1, n \in S PROVE n + 1 \in S
  <2>1. n + 1 \in 1 .. N /\ (n + 1) - 1 = n /\ n + 1 \in 0 .. N /\ n \in 0 .. N /\ n \in Nat
    BY <1>1
  <2>2. SUFFICES ASSUME NEW x \in A[n + 1], NEW k \in 0 .. n + 1
                 PROVE  \E b \in A[k] : isAbove(b[1], x[1])
    BY <2>1
  <2>3. CASE k = n + 1
    BY <1>4, <2>1, <2>3
  <2>4. CASE k # n + 1
    <3>1. k \in 0 .. n /\ k \in 0 .. N
      BY <1>1, <2>1, <2>4
    <3>2. PICK y \in A[n] : isAbove(y[1], x[1])
      BY <1>3, <2>1
    <3>3. PICK b \in A[k] : isAbove(b[1], y[1])
      BY <1>6, <3>1
    <3>4. b[1] \in Seq(Nat) /\ y[1] \in Seq(Nat) /\ x[1] \in Seq(Nat)
      BY <1>2, <2>1, <3>1
    <3> QED
      BY <3>2, <3>3, <3>4, AboveAbove
  <2> QED
    BY <2>3, <2>4
<1> HIDE DEF S
<1>7. 0 .. N \subseteq S
  BY <1>1, <1>5, <1>6, Induction
<1> QED
  BY <1>7 DEF S, A

\* On the way from a vertex that gets a group to a PU below it that gets one,
\* the next vertex gets what the upper one hands down.
LEMMA LayoutWay ==
  ASSUME NEW a \in Seq(Nat \ {0}), NEW T, NEW nt, isTower(a, T, nt),
         NEW n \in 1 .. Len(a), NEW b \in layout(a, T)[n - 1],
         NEW c \in layout(a, T)[Len(a)], isAbove(b[1], c[1])
  PROVE  \E w \in layout(a, T)[n] : under(a, T, n, b, w) /\ isAbove(w[1], c[1])
<1> DEFINE A == layout(a, T)
           N == Len(a)
<1>1. N \in 0 .. N /\ n \in 0 .. N /\ n - 1 \in 0 .. N
  OBVIOUS
<1>2. PICK w \in A[n] : isAbove(w[1], c[1])
  BY <1>1, LayoutAbove
<1>3. PICK e \in A[n - 1] : under(a, T, n, e, w) /\ isAbove(e[1], w[1])
  BY LayoutNext
<1>4. /\ e[1] \in Seq(Nat) /\ Len(e[1]) = n - 1 /\ b[1] \in Seq(Nat)
      /\ Len(b[1]) = n - 1 /\ w[1] \in Seq(Nat) /\ c[1] \in Seq(Nat)
      /\ e = << e[1], e[2] >> /\ b = << b[1], b[2] >>
  <2>1. /\ e[1] \in Seq(Nat) /\ Len(e[1]) = n - 1 /\ e = << e[1], e[2] >>
    BY <1>1, LayoutTyped
  <2>2. /\ b[1] \in Seq(Nat) /\ Len(b[1]) = n - 1 /\ b = << b[1], b[2] >>
    BY <1>1, LayoutTyped
  <2>3. w[1] \in Seq(Nat) /\ c[1] \in Seq(Nat)
    BY <1>1, LayoutTyped
  <2> QED
    BY <2>1, <2>2, <2>3
<1>5. isAbove(e[1], c[1])
  BY <1>2, <1>3, <1>4, AboveAbove
<1>6. e[1] = b[1]
  BY <1>4, <1>5, OneAbove
<1>7. e[2] = b[2]
  BY <1>1, <1>6, LayoutRight DEF Right
<1>8. e = b
  BY <1>4, <1>6, <1>7
<1> QED
  BY <1>2, <1>3, <1>8

-----------------------------------------------------------------------------
(* Laying the groups out *)

LEMMA EntriesOfTail ==
  ASSUME NEW S, NEW s \in Seq(S), s # << >>
  PROVE  /\ Head(s) \in S /\ Tail(s) \in Seq(S)
         /\ ToSet(s) = {Head(s)} \cup ToSet(Tail(s))
<1>1. /\ Head(s) \in S /\ Head(s) = s[1] /\ Tail(s) \in Seq(S)
      /\ Len(s) \in Nat /\ Len(s) >= 1 /\ Len(Tail(s)) = Len(s) - 1
      /\ DOMAIN s = 1 .. Len(s) /\ DOMAIN Tail(s) = 1 .. Len(s) - 1
      /\ \A i \in 1 .. Len(s) - 1 : Tail(s)[i] = s[i + 1]
  OBVIOUS
<1> DEFINE t == Tail(s)
           h == Head(s)
           n == Len(s)
<1> HIDE DEF t, h, n
<1>2. ASSUME NEW x \in ToSet(s) PROVE x \in {h} \cup ToSet(t)
  <2>1. PICK i \in 1 .. n : x = s[i]
    BY <1>1 DEF ToSet, n
  <2>2. CASE i = 1
    BY <1>1, <2>1, <2>2 DEF h
  <2>3. CASE i # 1
    <3>1. i - 1 \in 1 .. n - 1 /\ (i - 1) + 1 = i
      BY <1>1, <2>3 DEF n
    <3>2. t[i - 1] = s[i] /\ i - 1 \in DOMAIN t
      BY <1>1, <3>1 DEF t, n
    <3> QED
      BY <2>1, <3>2 DEF ToSet
  <2> QED
    BY <2>2, <2>3
<1>3. ASSUME NEW x \in {h} \cup ToSet(t) PROVE x \in ToSet(s)
  <2>1. CASE x = h
    BY <1>1, <2>1 DEF ToSet, h, n
  <2>2. CASE x \in ToSet(t)
    <3>1. PICK i \in 1 .. n - 1 : x = t[i]
      BY <1>1, <2>2 DEF ToSet, t, n
    <3>2. i + 1 \in DOMAIN s /\ x = s[i + 1]
      BY <1>1, <3>1 DEF t, n
    <3> QED
      BY <3>2 DEF ToSet
  <2> QED
    BY <2>1, <2>2
<1> QED
  BY <1>1, <1>2, <1>3 DEF h, t

LEMMA EntriesOfBoth ==
  ASSUME NEW S, NEW s \in Seq(S), NEW t \in Seq(S)
  PROVE  s \o t \in Seq(S) /\ ToSet(s \o t) = ToSet(s) \cup ToSet(t)
<1> DEFINE u == s \o t
           m == Len(s)
           n == Len(t)
<1>1. /\ u \in Seq(S) /\ m \in Nat /\ n \in Nat /\ DOMAIN s = 1 .. m /\ DOMAIN t = 1 .. n
      /\ DOMAIN u = 1 .. m + n
      /\ \A i \in 1 .. m : u[i] = s[i]
      /\ \A i \in 1 .. n : u[m + i] = t[i]
  OBVIOUS
<1> HIDE DEF u, m, n
<1>2. ASSUME NEW x \in ToSet(u) PROVE x \in ToSet(s) \cup ToSet(t)
  <2>1. PICK i \in 1 .. m + n : x = u[i]
    BY <1>1 DEF ToSet
  <2>2. CASE i <= m
    <3>1. i \in 1 .. m
      BY <1>1, <2>2
    <3> QED
      BY <1>1, <2>1, <3>1 DEF ToSet
  <2>3. CASE ~(i <= m)
    <3>1. i - m \in 1 .. n /\ m + (i - m) = i
      BY <1>1, <2>3
    <3>2. u[m + (i - m)] = t[i - m]
      BY <1>1, <3>1
    <3> QED
      BY <1>1, <2>1, <3>1, <3>2 DEF ToSet
  <2> QED
    BY <2>2, <2>3
<1>3. ASSUME NEW x \in ToSet(s) \cup ToSet(t) PROVE x \in ToSet(u)
  <2>1. CASE x \in ToSet(s)
    <3>1. PICK i \in 1 .. m : x = s[i]
      BY <1>1, <2>1 DEF ToSet
    <3>2. i \in DOMAIN u /\ u[i] = x
      BY <1>1, <3>1
    <3> QED
      BY <3>2 DEF ToSet
  <2>2. CASE x \in ToSet(t)
    <3>1. PICK i \in 1 .. n : x = t[i]
      BY <1>1, <2>2 DEF ToSet
    <3>2. m + i \in DOMAIN u /\ u[m + i] = x
      BY <1>1, <3>1
    <3> QED
      BY <3>2 DEF ToSet
  <2> QED
    BY <2>1, <2>2
<1> QED
  BY <1>1, <1>2, <1>3 DEF u

\* The threads of the groups of level 1 of a tower.
members(T, x) == ToSet(T[1][x + 1])

LEMMA Members ==
  ASSUME NEW a \in Seq(Nat \ {0}), NEW T, NEW nt, isTower(a, T, nt)
  PROVE  /\ nt \in Nat \ {0} /\ Len(T[1]) \in Nat \ {0}
         /\ levelAt(a, Len(a)) = 1 /\ T[1] \in Seq(Seq(Nat))
         /\ Complete(T[1], nt, Cardinality(PUs(a)))
         /\ \A x \in 0 .. Len(T[1]) - 1 : members(T, x) \subseteq 0 .. nt - 1
         /\ \A t \in 0 .. nt - 1 : \E x \in 0 .. Len(T[1]) - 1 : t \in members(T, x)
         /\ \A x, y \in 0 .. Len(T[1]) - 1 :
              \A t \in members(T, x) : t \in members(T, y) => x = y
<1>1. a \in Seq(Nat) /\ Len(a) \in 0 .. Len(a) /\ nt \in Nat \ {0}
  BY DEF isTower
<1>2. /\ levelAt(a, Len(a)) = 1 /\ 1 \in 1 .. levelAt(a, 0)
      /\ execElements(a)[1] = Cardinality(PUs(a))
  <2>1. levelAt(a, Len(a)) = 1 /\ levelAt(a, Len(a)) \in 1 .. levelAt(a, 0)
    BY <1>1, LevelAtEnds
  <2>2. execElements(a)[levelAt(a, Len(a))] = width(a, Len(a))
    BY <1>1, ExecWidth
  <2>3. width(a, Len(a)) = Cardinality(PUs(a))
    BY <1>1, PathsAre DEF width
  <2> QED
    BY <2>1, <2>2, <2>3
<1>3. T[1] \in Seq(Seq(Nat)) /\ Complete(T[1], nt, Cardinality(PUs(a)))
  BY <1>2 DEF isTower, below
<1> DEFINE G == T[1]
           m == Len(G)
<1>4. /\ m \in Nat \ {0} /\ DOMAIN G = 1 .. m
  <2>1. m \in Nat /\ DOMAIN G = 1 .. m
    BY <1>3
  <2>2. m >= 1
    BY <1>3 DEF Complete
  <2> HIDE DEF m
  <2> QED
    BY <2>1, <2>2
<1>5. OnePlaceEach(G) /\ placed(G) = 0 .. nt - 1
  BY <1>3 DEF Complete
<1> HIDE DEF G, m
<1>6. ASSUME NEW x \in 0 .. m - 1, NEW t \in members(T, x)
      PROVE  \E i \in Nat : << x + 1, i >> \in Places(G) /\ at(G, << x + 1, i >>) = t
  <2>1. x + 1 \in DOMAIN G
    BY <1>4
  <2>2. PICK i \in DOMAIN G[x + 1] : G[x + 1][i] = t
    BY DEF members, ToSet, G
  <2>3. G[x + 1] \in Seq(Nat)
    BY <1>3, <2>1 DEF G
  <2>4. i \in Nat
    BY <2>2, <2>3
  <2> QED
    BY <2>1, <2>2, <2>4 DEF Places, at
<1>7. ASSUME NEW x \in 0 .. m - 1, NEW t \in members(T, x) PROVE t \in 0 .. nt - 1
  BY <1>5, <1>6 DEF placed
<1>8. ASSUME NEW t \in 0 .. nt - 1 PROVE \E x \in 0 .. m - 1 : t \in members(T, x)
  <2>1. PICK p \in Places(G) : at(G, p) = t
    BY <1>5 DEF placed
  <2>2. p[1] \in DOMAIN G /\ p[2] \in DOMAIN G[p[1]]
    BY <2>1 DEF Places
  <2>3. p[1] - 1 \in 0 .. m - 1 /\ (p[1] - 1) + 1 = p[1]
    BY <1>4, <2>2
  <2>4. t \in members(T, p[1] - 1)
    BY <2>1, <2>2, <2>3 DEF members, ToSet, at, G
  <2> QED
    BY <2>3, <2>4
<1>9. ASSUME NEW x \in 0 .. m - 1, NEW y \in 0 .. m - 1,
             NEW t \in members(T, x), t \in members(T, y)
      PROVE  x = y
  <2>1. PICK i \in Nat : << x + 1, i >> \in Places(G) /\ at(G, << x + 1, i >>) = t
    BY <1>6
  <2>2. PICK j \in Nat : << y + 1, j >> \in Places(G) /\ at(G, << y + 1, j >>) = t
    BY <1>6, <1>9
  <2>3. << x + 1, i >> = << y + 1, j >>
    BY <1>5, <2>1, <2>2 DEF OnePlaceEach
  <2> QED
    BY <2>3
<1> QED
  BY <1>1, <1>2, <1>3, <1>4, <1>7, <1>8, <1>9 DEF G, m

\* The threads of a group have the processor of its PU.
settled(c) ==
  \A t \in members(tower, c[2]) : map[t] = pu[puIndex(arities, c[1]) + 1]

\* A call is for a vertex and the group that it gets; a group of threads that
\* does not have its processor yet goes to a PU below a vertex still to come.
PInv ==
  pc \in {"place", "mapped"} =>
    /\ todo \in Seq([v : Seq(Nat), g : Nat \X Nat])
    /\ \A k \in ToSet(todo) :
         /\ Len(k.v) \in 0 .. Len(arities)
         /\ k.g[1] = levelAt(arities, Len(k.v))
         /\ << k.v, k.g[2] >> \in layout(arities, tower)[Len(k.v)]
    /\ \A c \in layout(arities, tower)[Len(arities)] :
         settled(c) \/ \E k \in ToSet(todo) : isAbove(k.v, c[1])
    /\ pc = "mapped" => todo = << >>

LEMMA TowerSame ==
  ASSUME UNCHANGED << inputVars, workVars >>
  PROVE  tower' = tower /\ arities' = arities /\ pu' = pu /\ levels_n' = levels_n
<1>1. /\ arities' = arities /\ pu' = pu /\ levels_n' = levels_n
      /\ groups' = groups /\ nthreads' = nthreads
  BY DEF inputVars, treeVars, workVars, groupVars
<1> QED
  BY <1>1 DEF tower, groupsOf, nGroupsAt

\* The elements of a group are those in the tower.
LEMMA ElementsAre ==
  ASSUME GInv, pc = "place", NEW g \in Nat \X Nat, g[1] \in 1 .. levels_n,
         g[2] \in 0 .. Len(tower[g[1]]) - 1
  PROVE  elements(g) = [x \in DOMAIN tower[g[1]][g[2] + 1] |->
                          << g[1] - 1, tower[g[1]][g[2] + 1][x] >>]
<1>1. levels_n \in Nat \ {0} /\ g[1] # 0
  BY TowerStands
<1>2. tower[g[1]] = groupsOf(g[1])
  BY DEF tower
<1>3. CASE g[1] = levels_n
  <2> DEFINE s == [x \in 1 .. nGroupsAt(levels_n - 1) |-> x - 1]
  <2>1. tower[g[1]] = << s >>
    BY <1>2, <1>3 DEF groupsOf
  <2>2. g[2] = 0
    <3> HIDE DEF s
    <3>1. Len(<< s >>) = 1
      OBVIOUS
    <3> QED
      BY <2>1, <3>1
  <2>3. tower[g[1]][g[2] + 1] = s
    BY <2>1, <2>2
  <2>4. elements(g) = [x \in 1 .. nGroupsAt(levels_n - 1) |-> << levels_n - 1, x - 1 >>]
    BY <1>1, <1>3 DEF elements
  <2>5. DOMAIN s = 1 .. nGroupsAt(levels_n - 1)
        /\ \A x \in 1 .. nGroupsAt(levels_n - 1) : s[x] = x - 1
    OBVIOUS
  <2> HIDE DEF s
  <2> QED
    BY <1>3, <2>3, <2>4, <2>5
<1>4. CASE g[1] # levels_n
  BY <1>1, <1>2, <1>4 DEF elements, groupsOf
<1> QED
  BY <1>3, <1>4

\* What a step of the layout finds.
LEMMA CallIs ==
  ASSUME GInv, PInv, TreeOK, pc = "place", todo # << >>
  PROVE  LET d == Len(call.v)
             l == levelAt(arities, d)
             b == << call.v, call.g[2] >>
         IN /\ arities \in Seq(Nat \ {0}) /\ isTower(arities, tower, nthreads)
            /\ call \in [v : Seq(Nat), g : Nat \X Nat]
            /\ Tail(todo) \in Seq([v : Seq(Nat), g : Nat \X Nat])
            /\ ToSet(todo) = {call} \cup ToSet(Tail(todo))
            /\ d \in 0 .. Len(arities) /\ call.g = << l, call.g[2] >>
            /\ b \in layout(arities, tower)[d]
            /\ tower[l] \in Seq(Seq(Nat)) /\ call.g[2] + 1 \in DOMAIN tower[l]
            /\ elements(call.g) = [x \in DOMAIN tower[l][call.g[2] + 1] |->
                                     << l - 1, tower[l][call.g[2] + 1][x] >>]
<1> DEFINE d == Len(call.v)
           l == levelAt(arities, d)
           b == << call.v, call.g[2] >>
<1>1. /\ arities \in Seq(Nat \ {0}) /\ arities \in Seq(Nat)
      /\ isTower(arities, tower, nthreads)
      /\ levels_n = levelAt(arities, 0)
  BY GreedyAssumption, TowerStands DEF TreeOK
<1>2. /\ todo \in Seq([v : Seq(Nat), g : Nat \X Nat])
      /\ \A k \in ToSet(todo) :
           /\ Len(k.v) \in 0 .. Len(arities)
           /\ k.g[1] = levelAt(arities, Len(k.v))
           /\ << k.v, k.g[2] >> \in layout(arities, tower)[Len(k.v)]
  BY DEF PInv
<1>3. /\ call \in [v : Seq(Nat), g : Nat \X Nat]
      /\ Tail(todo) \in Seq([v : Seq(Nat), g : Nat \X Nat])
      /\ ToSet(todo) = {call} \cup ToSet(Tail(todo))
  <2> DEFINE S == [v : Seq(Nat), g : Nat \X Nat]
  <2>1. todo \in Seq(S) /\ todo # << >>
    BY <1>2
  <2> HIDE DEF S
  <2>2. Head(todo) \in S /\ Tail(todo) \in Seq(S) /\ ToSet(todo) = {Head(todo)} \cup ToSet(Tail(todo))
    BY <2>1, EntriesOfTail
  <2> QED
    BY <2>2 DEF S, call
<1>4. d \in 0 .. Len(arities) /\ call.g[1] = l /\ b \in layout(arities, tower)[d]
  BY <1>2, <1>3
<1>5. call.g \in Nat \X Nat /\ call.g = << l, call.g[2] >>
  BY <1>3, <1>4
<1>6. b[2] \in 0 .. Len(tower[l]) - 1 /\ b[2] = call.g[2]
  BY <1>1, <1>4, LayoutTyped
<1>7. l \in 1 .. levels_n
  BY <1>1, <1>4, LevelAtEnds
<1>8. tower[l] \in Seq(Seq(Nat))
  BY <1>1, <1>7 DEF isTower
<1> HIDE DEF l, d, b
<1>9. call.g[2] + 1 \in DOMAIN tower[l]
  <2>1. DOMAIN tower[l] = 1 .. Len(tower[l]) /\ Len(tower[l]) \in Nat
    BY <1>8
  <2> QED
    BY <1>6, <2>1
<1>10. elements(call.g) = [x \in DOMAIN tower[l][call.g[2] + 1] |->
                             << l - 1, tower[l][call.g[2] + 1][x] >>]
  BY <1>4, <1>5, <1>6, <1>7, ElementsAre
<1> QED
  BY <1>1, <1>3, <1>4, <1>5, <1>8, <1>9, <1>10 DEF l, d, b

LEMMA StepPlaceRoot ==
  ASSUME GInv, TreeOK, PlaceRoot PROVE PInv'
<1> DEFINE k == [v |-> << >>, g |-> << levels_n, 0 >>]
           A == layout(arities, tower)
           N == Len(arities)
<1>1. /\ pc = "root" /\ pc' = "place" /\ todo' = << k >>
      /\ UNCHANGED << inputVars, workVars >>
  BY DEF PlaceRoot
<1>2. tower' = tower /\ arities' = arities /\ pu' = pu /\ levels_n' = levels_n
  BY <1>1, TowerSame
<1>3. /\ arities \in Seq(Nat \ {0}) /\ arities \in Seq(Nat) /\ N \in Nat
      /\ isTower(arities, tower, nthreads)
      /\ levels_n = levelAt(arities, 0) /\ levels_n \in Nat
  BY <1>1, GreedyAssumption, TowerStands DEF TreeOK
<1>4. /\ k.v = << >> /\ k.g[1] = levels_n /\ k.g[2] = 0
      /\ k \in [v : Seq(Nat), g : Nat \X Nat]
  <2>1. << >> \in Seq(Nat) /\ << levels_n, 0 >> \in Nat \X Nat
    BY <1>3
  <2> QED
    BY <2>1
<1> HIDE DEF k
<1>5. todo' \in Seq([v : Seq(Nat), g : Nat \X Nat]) /\ ToSet(todo') = {k}
  <2> DEFINE S == [v : Seq(Nat), g : Nat \X Nat]
  <2>1. k \in S
    BY <1>4
  <2> HIDE DEF S
  <2>2. << k >> \in Seq(S) /\ ToSet(<< k >>) = {k}
    BY <2>1 DEF ToSet
  <2> QED
    BY <1>1, <2>2 DEF S
<1>6. Len(k.v) = 0 /\ 0 \in 0 .. N
  BY <1>3, <1>4
<1>7. << k.v, k.g[2] >> \in A[0]
  BY <1>3, <1>4, LayoutAt
<1>8. \A c \in A[N] : isAbove(k.v, c[1])
  <2>1. TAKE c \in A[N]
  <2>2. c[1] \in Seq(Nat)
    <3>1. N \in 0 .. Len(arities)
      BY <1>3
    <3> QED
      BY <1>3, <3>1, LayoutTyped
  <2>3. Len(c[1]) \in Nat
    BY <2>2
  <2> QED
    BY <1>6, <2>3 DEF isAbove
<1> HIDE DEF A, N
<1>9. /\ \A j \in {k} : /\ Len(j.v) \in 0 .. N /\ j.g[1] = levelAt(arities, Len(j.v))
                        /\ << j.v, j.g[2] >> \in A[Len(j.v)]
      /\ \A c \in A[N] : \E j \in {k} : isAbove(j.v, c[1])
  BY <1>3, <1>4, <1>6, <1>7, <1>8
<1> QED
  BY <1>1, <1>2, <1>5, <1>9 DEF PInv, A, N

\* A vertex that is not a PU hands its group down: F are the calls for its
\* children.
LEMMA StepDown ==
  ASSUME GInv, PInv, TreeOK, pc = "place", todo # << >>, pc' = pc, map' = map,
         UNCHANGED << inputVars, workVars >>,
         Len(call.v) # Len(arities),
         NEW F \in Seq([v : Seq(Nat), g : Nat \X Nat]), todo' = F \o Tail(todo),
         \A k \in ToSet(F) : Len(k.v) = Len(call.v) + 1,
         \A k \in ToSet(F) : k.g[1] = levelAt(arities, Len(call.v) + 1),
         \A k \in ToSet(F) : under(arities, tower, Len(call.v) + 1,
                                   << call.v, call.g[2] >>, << k.v, k.g[2] >>),
         \A c : under(arities, tower, Len(call.v) + 1, << call.v, call.g[2] >>, c) =>
           \E k \in ToSet(F) : k.v = c[1]
  PROVE  PInv'
<1> DEFINE A == layout(arities, tower)
           N == Len(arities)
           n == Len(call.v) + 1
           b == << call.v, call.g[2] >>
           S == [v : Seq(Nat), g : Nat \X Nat]
<1>1. tower' = tower /\ arities' = arities /\ pu' = pu
  BY TowerSame
<1>2. /\ arities \in Seq(Nat \ {0}) /\ isTower(arities, tower, nthreads)
      /\ N \in Nat /\ n \in 1 .. N /\ n - 1 = Len(call.v) /\ n \in 0 .. N
      /\ b \in A[n - 1]
      /\ Tail(todo) \in Seq(S) /\ ToSet(todo) = {call} \cup ToSet(Tail(todo))
  <2>1. /\ arities \in Seq(Nat \ {0}) /\ isTower(arities, tower, nthreads)
        /\ Len(call.v) \in 0 .. N /\ b \in A[Len(call.v)]
        /\ Tail(todo) \in Seq(S) /\ ToSet(todo) = {call} \cup ToSet(Tail(todo))
    BY CallIs
  <2> DEFINE d == Len(call.v)
  <2>2. N \in Nat /\ d \in 0 .. N /\ d # N
    BY <2>1
  <2> HIDE DEF d, N
  <2>3. d + 1 \in 1 .. N /\ (d + 1) - 1 = d /\ d + 1 \in 0 .. N
    BY <2>2
  <2> QED
    BY <2>1, <2>2, <2>3 DEF d, N
<1>3. todo' \in Seq(S) /\ ToSet(todo') = ToSet(F) \cup ToSet(Tail(todo))
  <2>1. F \in Seq(S)
    OBVIOUS
  <2> DEFINE t == Tail(todo)
  <2>2. t \in Seq(S) /\ todo' = F \o t
    BY <1>2
  <2> HIDE DEF S, t
  <2>3. F \o t \in Seq(S) /\ ToSet(F \o t) = ToSet(F) \cup ToSet(t)
    BY <2>1, <2>2, EntriesOfBoth
  <2>4. todo' \in Seq(S) /\ ToSet(todo') = ToSet(F) \cup ToSet(t)
    BY <2>2, <2>3
  <2> QED
    BY <2>4 DEF t
<1>4. /\ todo \in Seq(S)
      /\ \A k \in ToSet(todo) :
           /\ Len(k.v) \in 0 .. N
           /\ k.g[1] = levelAt(arities, Len(k.v))
           /\ << k.v, k.g[2] >> \in A[Len(k.v)]
      /\ \A c \in A[N] : settled(c) \/ \E k \in ToSet(todo) : isAbove(k.v, c[1])
  BY DEF PInv
<1>5. /\ \A k \in ToSet(F) : Len(k.v) = n /\ k.g[1] = levelAt(arities, n)
      /\ \A k \in ToSet(F) : under(arities, tower, n, b, << k.v, k.g[2] >>)
      /\ \A c : under(arities, tower, n, b, c) => \E k \in ToSet(F) : k.v = c[1]
  OBVIOUS
<1> HIDE DEF A, N, n, b, S
<1>6. ASSUME NEW k \in ToSet(F)
      PROVE  /\ Len(k.v) \in 0 .. N /\ k.g[1] = levelAt(arities, Len(k.v))
             /\ << k.v, k.g[2] >> \in A[Len(k.v)]
  <2>1. << k.v, k.g[2] >> \in A[n]
    BY <1>2, <1>5, LayoutNext DEF A, N
  <2> QED
    BY <1>2, <1>5, <2>1
<1>7. ASSUME NEW c \in A[N]
      PROVE  settled(c) \/ \E k \in ToSet(todo') : isAbove(k.v, c[1])
  <2>1. CASE settled(c)
    BY <2>1
  <2>2. CASE \E k \in ToSet(Tail(todo)) : isAbove(k.v, c[1])
    BY <1>3, <2>2
  <2>3. CASE isAbove(call.v, c[1])
    <3>1. PICK w \in A[n] : under(arities, tower, n, b, w) /\ isAbove(w[1], c[1])
      <4>1. isAbove(b[1], c[1])
        BY <2>3 DEF b
      <4> QED
        BY <1>2, <4>1, LayoutWay DEF A, N
    <3>2. PICK k \in ToSet(F) : k.v = w[1]
      BY <1>5, <3>1
    <3> QED
      BY <1>3, <3>1, <3>2
  <2> QED
    BY <1>2, <1>4, <2>1, <2>2, <2>3
<1>8. \A c : settled(c)' <=> settled(c)
  BY <1>1 DEF settled
<1>9. \A c \in A[N] : settled(c)' \/ \E k \in ToSet(todo') : isAbove(k.v, c[1])
  BY <1>7, <1>8
<1>10. \A k \in ToSet(todo') :
         /\ Len(k.v) \in 0 .. N /\ k.g[1] = levelAt(arities, Len(k.v))
         /\ << k.v, k.g[2] >> \in A[Len(k.v)]
  BY <1>2, <1>3, <1>4, <1>6
<1>11. A = layout(arities, tower)' /\ N = Len(arities)' /\ arities' = arities
       /\ tower' = tower
  BY <1>1 DEF A, N
<1>12. pc' # "mapped"
  OBVIOUS
<1>13. \A c \in A[N] : (settled(c) \/ \E k \in ToSet(todo) : isAbove(k.v, c[1]))'
  BY <1>9
<1>14. \A k \in ToSet(todo') : k.g[1] = levelAt(arities', Len(k.v))
  BY <1>1, <1>10
<1> QED
  BY <1>3, <1>10, <1>11, <1>12, <1>13, <1>14 DEF PInv, S

LEMMA StepPlaceOnChildren ==
  ASSUME GInv, PInv, TreeOK, NEW v \in Paths(arities), PlaceOnChildren(v)
  PROVE  PInv'
<1> DEFINE d == Len(call.v)
           n == d + 1
           l == levelAt(arities, d)
           b == << call.v, call.g[2] >>
           s == tower[l][call.g[2] + 1]
           S == [v : Seq(Nat), g : Nat \X Nat]
           F == [i \in 1 .. Len(s) |-> [v |-> Append(v, i), g |-> << l - 1, s[i] >>]]
<1>1. /\ pc = "place" /\ todo # << >> /\ call.v = v /\ pc' = pc /\ map' = map
      /\ UNCHANGED << inputVars, workVars >>
      /\ nChildren(arities, v) >= 2
      /\ todo' = [i \in 1 .. Min({Len(elements(call.g)), nChildren(arities, v)}) |->
                    [v |-> child(v, i), g |-> elements(call.g)[i]]] \o Tail(todo)
  BY DEF PlaceOnChildren, placing
<1>2. /\ arities \in Seq(Nat \ {0}) /\ isTower(arities, tower, nthreads)
      /\ v \in Seq(Nat) /\ d \in 0 .. Len(arities)
      /\ tower[l] \in Seq(Seq(Nat)) /\ call.g[2] + 1 \in DOMAIN tower[l]
      /\ elements(call.g) = [x \in DOMAIN s |-> << l - 1, s[x] >>]
  <2>1. /\ call \in [v : Seq(Nat), g : Nat \X Nat]
    BY <1>1, CallIs
  <2>2. v \in Seq(Nat)
    BY <1>1, <2>1
  <2> QED
    BY <1>1, <2>2, CallIs
<1>3. /\ d # Len(arities) /\ n \in 1 .. Len(arities) /\ n - 1 = d
      /\ nChildren(arities, v) = arities[n] /\ arities[n] > 1 /\ arities[n] \in Nat
  <2>1. nChildren(arities, v) = IF Len(v) = Len(arities) THEN 0 ELSE arities[Len(v) + 1]
    BY DEF nChildren, isPU
  <2>2. Len(v) # Len(arities) /\ nChildren(arities, v) = arities[n]
    BY <1>1, <2>1
  <2>3. n \in 1 .. Len(arities) /\ n - 1 = d /\ d # Len(arities)
    <3>1. d = Len(v)
      BY <1>1
    <3> HIDE DEF d
    <3>2. Len(arities) \in Nat
      BY <1>2
    <3>3. d # Len(arities)
      BY <2>2, <3>1
    <3> QED
      BY <1>2, <3>2, <3>3
  <2>4. arities[n] \in Nat
    BY <1>2, <2>3
  <2> QED
    BY <1>1, <2>2, <2>3, <2>4
<1>4. /\ l \in Nat /\ levelAt(arities, n) = l - 1 /\ l - 1 \in Nat
      /\ Len(s) <= arities[n]
  <2>1. /\ l \in 2 .. levelAt(arities, 0) /\ levelAt(arities, n) = l - 1
        /\ \A x \in DOMAIN tower[l] : Len(tower[l][x]) <= arities[n]
    BY <1>2, <1>3, NoneDropped
  <2> HIDE DEF l
  <2>2. l \in Nat /\ l - 1 \in Nat
    BY <2>1
  <2> QED
    BY <1>2, <2>1, <2>2
<1>5. s \in Seq(Nat) /\ Len(s) \in Nat /\ DOMAIN s = 1 .. Len(s)
  <2>1. s \in Seq(Nat)
    BY <1>2
  <2> HIDE DEF s
  <2> QED
    BY <2>1
<1>6. call.v = v /\ b = << v, call.g[2] >> /\ b[1] = v /\ b[2] + 1 = call.g[2] + 1
  BY <1>1
<1> HIDE DEF l, s, d, b, n
<1>7. Min({Len(elements(call.g)), nChildren(arities, v)}) = Len(s)
  <2>1. Len(elements(call.g)) = Len(s)
    <3> DEFINE e == [x \in 1 .. Len(s) |-> << l - 1, s[x] >>]
    <3>1. Len(e) = Len(s)
      BY <1>5
    <3> HIDE DEF e
    <3>2. elements(call.g) = e
      BY <1>2, <1>5 DEF e
    <3> QED
      BY <3>1, <3>2
  <2>2. Min({Len(s), arities[n]}) = Len(s)
    BY <1>3, <1>4, <1>5, MinOfTwo
  <2> QED
    BY <1>3, <2>1, <2>2
<1>8. todo' = F \o Tail(todo)
  <2>1. \A i \in 1 .. Len(s) : elements(call.g)[i] = << l - 1, s[i] >>
    BY <1>2, <1>5
  <2>2. [i \in 1 .. Len(s) |-> [v |-> child(v, i), g |-> elements(call.g)[i]]] = F
    BY <2>1 DEF child
  <2> HIDE DEF F
  <2> QED
    BY <1>1, <1>7, <2>2
<1>9. \A i \in 1 .. Len(s) : /\ F[i].v = Append(v, i) /\ F[i].g[1] = l - 1
                             /\ F[i].g[2] = s[i] /\ F[i] \in S
                             /\ Len(Append(v, i)) = n
  <2>1. TAKE i \in 1 .. Len(s)
  <2>2. i \in Nat /\ s[i] \in Nat
    BY <1>5
  <2>3. F[i] = [v |-> Append(v, i), g |-> << l - 1, s[i] >>]
    OBVIOUS
  <2>4. Append(v, i) \in Seq(Nat) /\ Len(Append(v, i)) = Len(v) + 1
    BY <1>2, <2>2
  <2>5. Len(v) + 1 = n
    BY <1>6 DEF n, d
  <2> HIDE DEF F
  <2> QED
    BY <1>4, <2>2, <2>3, <2>4, <2>5
<1>10. F \in Seq(S) /\ ToSet(F) = {F[i] : i \in 1 .. Len(s)}
  <2>1. F \in [1 .. Len(s) -> S] /\ DOMAIN F = 1 .. Len(s)
    BY <1>9
  <2> HIDE DEF F, S
  <2> QED
    BY <1>5, <2>1 DEF ToSet
<1> HIDE DEF F
<1>11. \A c : under(arities, tower, n, b, c) <=> \E i \in 1 .. Len(s) : c = << Append(v, i), s[i] >>
  <2>1. tower[levelAt(arities, n - 1)][b[2] + 1] = s
    BY <1>3, <1>6 DEF l, s
  <2>2. DOMAIN tower[levelAt(arities, n - 1)][b[2] + 1] = 1 .. Len(s)
    BY <1>5, <2>1
  <2> QED
    BY <1>3, <1>6, <2>1, <2>2 DEF under
<1>12. \A k \in ToSet(F) : Len(k.v) = n /\ k.g[1] = levelAt(arities, n)
                           /\ under(arities, tower, n, b, << k.v, k.g[2] >>)
  <2>1. TAKE k \in ToSet(F)
  <2>2. PICK i \in 1 .. Len(s) : k = F[i]
    BY <1>10
  <2>3. k.v = Append(v, i) /\ k.g[1] = l - 1 /\ k.g[2] = s[i] /\ Len(k.v) = n
    BY <1>9, <2>2
  <2> QED
    BY <1>4, <1>11, <2>3
<1>13. \A c : under(arities, tower, n, b, c) => \E k \in ToSet(F) : k.v = c[1]
  <2>1. ASSUME NEW c, under(arities, tower, n, b, c)
        PROVE  \E k \in ToSet(F) : k.v = c[1]
    <3>1. PICK i \in 1 .. Len(s) : c = << Append(v, i), s[i] >>
      BY <1>11, <2>1
    <3>2. F[i] \in ToSet(F) /\ F[i].v = c[1]
      BY <1>9, <1>10, <3>1
    <3> QED
      BY <3>2
  <2> QED
    BY <2>1
<1> QED
  BY <1>1, <1>3, <1>8, <1>10, <1>12, <1>13, StepDown DEF n, d, b, S

LEMMA StepPassDown ==
  ASSUME GInv, PInv, TreeOK, NEW v \in Paths(arities), PassDown(v)
  PROVE  PInv'
<1> DEFINE d == Len(call.v)
           n == d + 1
           b == << call.v, call.g[2] >>
           S == [v : Seq(Nat), g : Nat \X Nat]
           k == [v |-> Append(v, 1), g |-> call.g]
           F == << k >>
<1>1. /\ pc = "place" /\ todo # << >> /\ call.v = v /\ pc' = pc /\ map' = map
      /\ UNCHANGED << inputVars, workVars >>
      /\ nChildren(arities, v) = 1
      /\ todo' = << [call EXCEPT !.v = child(v, 1)] >> \o Tail(todo)
  BY DEF PassDown, placing
<1>2. /\ arities \in Seq(Nat \ {0}) /\ arities \in Seq(Nat)
      /\ call \in S /\ d \in 0 .. Len(arities)
      /\ call.g = << levelAt(arities, d), call.g[2] >>
  BY <1>1, CallIs, SMTT(30)
<1>3. /\ d # Len(arities) /\ n \in 1 .. Len(arities) /\ n - 1 = d
      /\ arities[n] = 1
  <2>1. nChildren(arities, v) = IF Len(v) = Len(arities) THEN 0 ELSE arities[Len(v) + 1]
    BY DEF nChildren, isPU
  <2>2. Len(v) # Len(arities) /\ nChildren(arities, v) = arities[n]
    BY <1>1, <2>1
  <2>3. n \in 1 .. Len(arities) /\ n - 1 = d /\ d # Len(arities)
    <3> HIDE DEF d
    <3>1. Len(arities) \in Nat /\ d # Len(arities)
      BY <1>1, <1>2, <2>2 DEF d
    <3> QED
      BY <1>2, <3>1
  <2> QED
    BY <1>1, <2>2, <2>3
<1>4. levelAt(arities, n) = levelAt(arities, d)
  <2>1. levelAt(arities, n - 1) = levelAt(arities, n) + 0
    BY <1>2, <1>3, LevelAtStep
  <2>2. levelAt(arities, n) \in Nat
    <3>1. n \in 0 .. Len(arities)
      BY <1>3
    <3> QED
      BY <1>2, <3>1, LevelAtNat
  <2> QED
    BY <1>3, <2>1, <2>2
<1>5. /\ v \in Seq(Nat) /\ Append(v, 1) \in Seq(Nat) /\ Len(Append(v, 1)) = n
      /\ k \in S /\ [call EXCEPT !.v = child(v, 1)] = k
  <2>1. v \in Seq(Nat) /\ call.g \in Nat \X Nat
        /\ call = [v |-> call.v, g |-> call.g]
    BY <1>1, <1>2
  <2>2. Append(v, 1) \in Seq(Nat) /\ Len(Append(v, 1)) = n
    BY <1>1, <2>1
  <2>3. k \in S
    BY <2>1, <2>2
  <2>4. [call EXCEPT !.v = child(v, 1)] = k
    <3> DEFINE h == call
               w == Append(v, 1)
    <3>1. h \in S /\ h.g = call.g
      BY <1>2
    <3> HIDE DEF h, w
    <3>2. [h EXCEPT !.v = w] = [v |-> w, g |-> h.g]
      BY <3>1
    <3>3. k = [v |-> w, g |-> h.g]
      BY <3>1 DEF w
    <3>4. [call EXCEPT !.v = child(v, 1)] = [h EXCEPT !.v = w]
      BY DEF child, h, w
    <3> QED
      BY <3>2, <3>3, <3>4
  <2> QED
    BY <2>1, <2>2, <2>3, <2>4
<1>6. /\ k.v = Append(v, 1) /\ k.g[1] = levelAt(arities, d) /\ k.g[2] = call.g[2]
  BY <1>2
<1> HIDE DEF k, n, b, d, S
<1>7. F \in Seq(S) /\ ToSet(F) = {k} /\ todo' = F \o Tail(todo)
  <2>1. F \in Seq(S) /\ ToSet(F) = {k}
    BY <1>5 DEF ToSet
  <2> QED
    BY <1>1, <1>5, <2>1
<1> HIDE DEF F
<1>8. \A c : under(arities, tower, n, b, c) <=> c = << Append(v, 1), call.g[2] >>
  BY <1>1, <1>3 DEF under, b
<1>9. \A j \in ToSet(F) : Len(j.v) = n /\ j.g[1] = levelAt(arities, n)
                          /\ under(arities, tower, n, b, << j.v, j.g[2] >>)
  BY <1>4, <1>5, <1>6, <1>7, <1>8
<1>10. \A c : under(arities, tower, n, b, c) => \E j \in ToSet(F) : j.v = c[1]
  <2>1. k \in ToSet(F) /\ k.v = Append(v, 1)
    BY <1>6, <1>7
  <2>2. ASSUME NEW c, under(arities, tower, n, b, c)
        PROVE  \E j \in ToSet(F) : j.v = c[1]
    <3>1. c = << Append(v, 1), call.g[2] >>
      BY <1>8, <2>2
    <3>2. k.v = c[1]
      BY <2>1, <3>1
    <3> QED
      BY <2>1, <3>2
  <2> QED
    BY <2>2
<1> QED
  BY <1>1, <1>3, <1>7, <1>9, <1>10, StepDown DEF n, d, b, S

LEMMA StepPlaceOnPU ==
  ASSUME GInv, PInv, TreeOK, NEW v \in Paths(arities), PlaceOnPU(v)
  PROVE  PInv'
<1> DEFINE N == Len(arities)
           A == layout(arities, tower)
           b == << call.v, call.g[2] >>
           S == [v : Seq(Nat), g : Nat \X Nat]
           s == tower[1][call.g[2] + 1]
           q == pu[puIndex(arities, v) + 1]
<1>1. /\ pc = "place" /\ todo # << >> /\ call.v = v /\ pc' = pc
      /\ UNCHANGED << inputVars, workVars >>
      /\ Len(call.v) = N /\ todo' = Tail(todo)
      /\ map' = [t \in Elements |->
                   IF t \in {g[2] : g \in ToSet(elements(call.g))} THEN q ELSE map[t]]
  BY DEF PlaceOnPU, placing, isPU
<1>2. tower' = tower /\ arities' = arities /\ pu' = pu
  BY <1>1, TowerSame
<1>3. /\ arities \in Seq(Nat \ {0}) /\ isTower(arities, tower, nthreads)
      /\ Tail(todo) \in Seq(S) /\ ToSet(todo) = {call} \cup ToSet(Tail(todo))
      /\ b \in A[N] /\ N \in 0 .. N /\ levelAt(arities, N) = 1
      /\ tower[1] \in Seq(Seq(Nat)) /\ call.g[2] + 1 \in DOMAIN tower[1]
      /\ elements(call.g) = [x \in DOMAIN s |-> << 1 - 1, s[x] >>]
  <2>1. arities \in Seq(Nat \ {0}) /\ isTower(arities, tower, nthreads)
    BY <1>1, CallIs
  <2>2. levelAt(arities, N) = 1
    BY <2>1, Members
  <2> QED
    BY <1>1, <2>1, <2>2, CallIs
<1>4. {g[2] : g \in ToSet(elements(call.g))} = members(tower, b[2])
  <2>1. ToSet(elements(call.g)) = {<< 1 - 1, s[x] >> : x \in DOMAIN s}
    BY <1>3 DEF ToSet
  <2>2. members(tower, b[2]) = {s[x] : x \in DOMAIN s}
    BY DEF members, ToSet
  <2> HIDE DEF s, b
  <2> DEFINE e(x) == << 1 - 1, s[x] >>
             E == {e(x) : x \in DOMAIN s}
  <2>3. \A x \in DOMAIN s : e(x)[2] = s[x]
    OBVIOUS
  <2>4. ToSet(elements(call.g)) = E
    BY <2>1
  <2> HIDE DEF e
  <2>5. {g[2] : g \in E} = {s[x] : x \in DOMAIN s}
    BY <2>3
  <2> QED
    BY <2>2, <2>4, <2>5
<1>5. 0 .. nthreads - 1 \subseteq Elements
  <2>1. nthreads \in Threads /\ nthreads \in Nat
    BY <1>1, GreedyAssumption, TowerStands
  <2>2. Max(Threads) \in Nat /\ nthreads <= Max(Threads)
    BY <2>1, RowsEnough
  <2> QED
    BY <2>1, <2>2 DEF Elements
<1> HIDE DEF N, A, s, q
<1>6. \A c \in A[N] : /\ c = << c[1], c[2] >> /\ c[1] \in Seq(Nat) /\ Len(c[1]) = N
                      /\ c[2] \in 0 .. Len(tower[1]) - 1
                      /\ c[2] = b[2] => c[1] = b[1]
  <2>1. TAKE c \in A[N]
  <2>2. /\ c = << c[1], c[2] >> /\ c[1] \in Seq(Nat) /\ Len(c[1]) = N
        /\ c[2] \in 0 .. Len(tower[1]) - 1
    <3>1. Right(arities, tower, N, A[N])
      BY <1>3, LayoutRight DEF A, N
    <3>2. /\ c = << c[1], c[2] >> /\ c[1] \in verticesAt(arities, N)
          /\ c[2] \in 0 .. Len(tower[1]) - 1
      BY <1>3, <3>1 DEF Right
    <3>3. c[1] \in Seq(Nat) /\ Len(c[1]) = N
      BY <3>2 DEF verticesAt
    <3> QED
      BY <3>2, <3>3
  <2>3. Right(arities, tower, N, A[N])
    BY <1>3, LayoutRight DEF A, N
  <2>4. c[2] = b[2] => c[1] = b[1]
    BY <1>3, <2>3 DEF Right
  <2> QED
    BY <2>2, <2>4
<1>7. /\ \A x \in 0 .. Len(tower[1]) - 1 : members(tower, x) \subseteq 0 .. nthreads - 1
      /\ \A x, y \in 0 .. Len(tower[1]) - 1 :
           \A t \in members(tower, x) : t \in members(tower, y) => x = y
  BY <1>3, Members
<1>8. /\ \A k \in ToSet(todo) :
           /\ Len(k.v) \in 0 .. N
           /\ k.g[1] = levelAt(arities, Len(k.v))
           /\ << k.v, k.g[2] >> \in A[Len(k.v)]
      /\ \A c \in A[N] : settled(c) \/ \E k \in ToSet(todo) : isAbove(k.v, c[1])
  BY <1>1 DEF PInv, A, N
<1>9. ASSUME NEW c \in A[N]
      PROVE  settled(c)' \/ \E k \in ToSet(Tail(todo)) : isAbove(k.v, c[1])
  <2>1. /\ c[2] \in 0 .. Len(tower[1]) - 1 /\ b[2] \in 0 .. Len(tower[1]) - 1
    BY <1>3, <1>6
  <2>2. \A t \in members(tower, c[2]) :
          map'[t] = IF t \in members(tower, b[2]) THEN q ELSE map[t]
    <3>1. TAKE t \in members(tower, c[2])
    <3>2. t \in Elements
      BY <1>5, <1>7, <2>1
    <3> QED
      BY <1>1, <1>4, <3>2
  <2>3. CASE c[2] = b[2]
    <3>1. c[1] = v
      BY <1>1, <1>6, <2>3 DEF b
    <3>2. \A t \in members(tower, c[2]) : map'[t] = pu[puIndex(arities, c[1]) + 1]
      BY <2>2, <2>3, <3>1 DEF q
    <3> QED
      BY <1>2, <3>2 DEF settled
  <2>4. CASE c[2] # b[2]
    <3>1. \A t \in members(tower, c[2]) : map'[t] = map[t]
      BY <1>7, <2>1, <2>2, <2>4
    <3>2. CASE settled(c)
      <4>1. \A t \in members(tower, c[2]) : map'[t] = pu[puIndex(arities, c[1]) + 1]
        BY <3>1, <3>2 DEF settled
      <4> QED
        BY <1>2, <4>1 DEF settled
    <3>3. CASE ~settled(c)
      <4>1. PICK k \in ToSet(todo) : isAbove(k.v, c[1])
        BY <1>8, <3>3
      <4>2. CASE k \in ToSet(Tail(todo))
        BY <4>1, <4>2
      <4>3. CASE k = call
        <5>1. isAbove(b[1], c[1]) /\ isAbove(c[1], c[1])
          BY <1>6, <4>1, <4>3, AboveChild DEF b
        <5>2. b[1] = c[1]
          BY <1>3, <1>6, <5>1, OneAbove
        <5>3. c[2] = b[2]
          <6>1. Right(arities, tower, N, A[N])
            BY <1>3, LayoutRight DEF A, N
          <6> QED
            BY <1>3, <5>2, <6>1 DEF Right
        <5> QED
          BY <2>4, <5>3
      <4> QED
        BY <1>3, <4>1, <4>2, <4>3
    <3> QED
      BY <3>2, <3>3
  <2> QED
    BY <2>3, <2>4
<1>10. \A k \in ToSet(Tail(todo)) :
         /\ Len(k.v) \in 0 .. N /\ k.g[1] = levelAt(arities', Len(k.v))
         /\ << k.v, k.g[2] >> \in A[Len(k.v)]
  BY <1>2, <1>3, <1>8
<1>11. A = layout(arities, tower)' /\ N = Len(arities)'
  BY <1>2 DEF A, N
<1>12. pc' # "mapped" /\ todo' = Tail(todo)
  BY <1>1
<1> HIDE DEF S
<1>13. \A c \in A[N] : (settled(c) \/ \E k \in ToSet(todo) : isAbove(k.v, c[1]))'
  BY <1>9, <1>12
<1>14. todo' \in Seq(S) /\ \A k \in ToSet(todo') :
         /\ Len(k.v) \in 0 .. N /\ k.g[1] = levelAt(arities', Len(k.v))
         /\ << k.v, k.g[2] >> \in A[Len(k.v)]
  BY <1>3, <1>10, <1>12
<1> QED
  BY <1>11, <1>12, <1>13, <1>14 DEF PInv, S

LEMMA NextPInv == ASSUME GInv, TreeOK, PInv, [Next]_vars PROVE PInv'
<1>1. CASE PlaceRoot
  BY <1>1, StepPlaceRoot
<1>2. CASE \E v \in Paths(arities) : PlaceOnPU(v) \/ PlaceOnChildren(v) \/ PassDown(v)
  <2>1. PICK v \in Paths(arities) : PlaceOnPU(v) \/ PlaceOnChildren(v) \/ PassDown(v)
    BY <1>2
  <2> QED
    BY <2>1, StepPlaceOnPU, StepPlaceOnChildren, StepPassDown
<1>3. CASE Mapped \/ UNCHANGED vars
  <2>1. /\ UNCHANGED << inputVars, workVars, placeVars >>
        /\ pc' \in {"place", "mapped"} => pc \in {"place", "mapped"}
        /\ pc' = "mapped" => todo = << >> \/ pc = "mapped"
    BY <1>3 DEF Mapped, vars
  <2>2. tower' = tower /\ arities' = arities /\ pu' = pu
    BY <2>1, TowerSame
  <2>3. todo' = todo /\ map' = map
    BY <2>1 DEF placeVars
  <2>4. \A c : settled(c)' <=> settled(c)
    BY <2>2, <2>3 DEF settled
  <2>5. SUFFICES ASSUME pc' \in {"place", "mapped"}
                 PROVE  PInv'
    BY DEF PInv
  <2>6. /\ todo' \in Seq([v : Seq(Nat), g : Nat \X Nat])
        /\ \A k \in ToSet(todo') :
             /\ Len(k.v) \in 0 .. Len(arities')
             /\ k.g[1] = levelAt(arities', Len(k.v))
             /\ << k.v, k.g[2] >> \in layout(arities', tower')[Len(k.v)]
        /\ pc' = "mapped" => todo' = << >>
    BY <2>1, <2>2, <2>3, <2>5 DEF PInv
  <2>7. \A c \in layout(arities', tower')[Len(arities')] :
          settled(c)' \/ \E k \in ToSet(todo') : isAbove(k.v, c[1])
    BY <2>1, <2>2, <2>3, <2>4, <2>5 DEF PInv
  <2>8. \A c \in layout(arities', tower')[Len(arities')] :
          (settled(c) \/ \E k \in ToSet(todo) : isAbove(k.v, c[1]))'
    BY <2>7
  <2> QED
    BY <2>6, <2>8 DEF PInv
<1>4. CASE greedy_init \/ Consider \/ Take \/ FinishGroup \/ SumPair \/ NextLevel \/ Sleep
  <2>1. pc' \notin {"place", "mapped"}
    BY <1>4 DEF greedy_init, Consider, Take, FinishGroup, SumPair, NextLevel, Sleep
  <2> QED
    BY <2>1 DEF PInv
<1>5. CASE \/ \E nt \in Threads, pattern \in Patterns : Start(nt, pattern)
           \/ \E c \in Cells : Communicate(c)
  <2>1. pc' \notin {"place", "mapped"}
    BY <1>5 DEF Start, Communicate
  <2> QED
    BY <2>1 DEF PInv
<1> QED
  BY <1>1, <1>2, <1>3, <1>4, <1>5 DEF Next, Step

LEMMA PlacesInvariant == Spec => []PInv
<1>1. Init => PInv
  BY DEF Init, PInv
<1>2. PInv /\ GInv /\ TreeOK /\ [Next]_vars => PInv'
  BY NextPInv
<1>3. Spec => []GInv
  BY GreedyInvariant
<1>4. Spec => []TreeOK
  BY TypesAndTree, PTL
<1> QED
  BY <1>1, <1>2, <1>3, <1>4, PTL DEF Spec

-----------------------------------------------------------------------------
(* The loads *)

\* The processor of a PU.
idOf(w) == pu[puIndex(arities, w) + 1]

\* A group has its size in threads.
LEMMA MemberCount ==
  ASSUME NEW a \in Seq(Nat \ {0}), NEW T, NEW nt, isTower(a, T, nt),
         NEW x \in 0 .. Len(T[1]) - 1
  PROVE  Cardinality(members(T, x)) = sizeOf(nt, Len(T[1]), x)
<1> DEFINE G == T[1]
           g == x + 1
           s == G[g]
<1>1. /\ G \in Seq(Seq(Nat)) /\ Sized(G, nt, Len(G)) /\ OnePlaceEach(G)
  BY Members DEF Complete
<1>2. x \in 0 .. Len(G) - 1
  OBVIOUS
<1>3. members(T, x) = ToSet(s)
  BY DEF members
<1>4. SUFFICES Cardinality(ToSet(s)) = sizeOf(nt, Len(G), x)
  BY <1>3
<1> HIDE DEF G
<1>5. g \in DOMAIN G /\ g - 1 = x
  BY <1>1, <1>2
<1> HIDE DEF g
<1>6. s \in Seq(Nat) /\ Len(s) = sizeOf(nt, Len(G), x)
  BY <1>1, <1>5 DEF Sized
<1>7. \A i, j \in 1 .. Len(s) : s[i] = s[j] => i = j
  <2>1. TAKE i, j \in 1 .. Len(s)
  <2>2. i \in Nat /\ j \in Nat /\ i \in DOMAIN s /\ j \in DOMAIN s
    BY <1>6
  <2>3. << g, i >> \in Places(G) /\ << g, j >> \in Places(G)
    BY <1>5, <2>2 DEF Places
  <2>4. at(G, << g, i >>) = s[i] /\ at(G, << g, j >>) = s[j]
    BY DEF at
  <2>5. s[i] = s[j] => << g, i >> = << g, j >>
    BY <1>1, <2>3, <2>4 DEF OnePlaceEach
  <2> QED
    BY <2>5
<1> HIDE DEF s
<1> DEFINE I == 1 .. Len(s)
           f == [i \in I |-> s[i]]
<1>8. f \in Bijection(I, ToSet(s))
  <2>1. DOMAIN s = I /\ ToSet(s) = {s[i] : i \in I}
    <3>1. s \in Seq(Nat)
      BY <1>6
    <3>2. DOMAIN s = I
      BY <3>1
    <3> HIDE DEF I
    <3> QED
      BY <3>2 DEF ToSet
  <2>2. f \in [I -> ToSet(s)] /\ \A t \in ToSet(s) : \E i \in I : f[i] = t
    BY <2>1
  <2>3. IsInjective(f)
    BY <1>7 DEF IsInjective
  <2> QED
    BY <2>2, <2>3 DEF Bijection, Injection, Surjection
<1>9. IsFiniteSet(I) /\ Cardinality(I) = Len(s)
  BY <1>6, IntervalSize
<1>10. ExistsBijection(I, ToSet(s))
  BY <1>8 DEF ExistsBijection
<1>11. Cardinality(ToSet(s)) = Cardinality(I)
  BY <1>9, <1>10, FS_Bijection
<1> QED
  BY <1>6, <1>9, <1>11

\* With a PU to spare every group is of one thread.
LEMMA SpareMeansOne ==
  ASSUME NEW a \in Seq(Nat \ {0}), NEW T, NEW nt, isTower(a, T, nt),
         NEW w \in PUs(a), \A c \in layout(a, T)[Len(a)] : c[1] # w,
         NEW x \in 0 .. Len(T[1]) - 1
  PROVE  sizeOf(nt, Len(T[1]), x) = 1
<1> DEFINE m == Len(T[1])
           A == layout(a, T)[Len(a)]
           P == PUs(a)
           I == 0 .. m - 1
<1>1. /\ nt \in Nat \ {0} /\ m \in Nat /\ Complete(T[1], nt, Cardinality(P))
      /\ levelAt(a, Len(a)) = 1
  BY Members
<1>2. /\ a \in Seq(Nat) /\ P = verticesAt(a, Len(a)) /\ Len(a) \in 0 .. Len(a)
      /\ IsFiniteSet(P) /\ Cardinality(P) \in Nat
  <2>1. a \in Seq(Nat) /\ Len(a) \in 0 .. Len(a)
    OBVIOUS
  <2>2. PUs(a) = verticesAt(a, Len(a))
    BY <2>1, PathsAre
  <2> QED
    BY <2>1, <2>2, LevelSize
<1>3. Right(a, T, Len(a), A)
  BY <1>2, LayoutRight
<1>4. /\ \A c \in A : c[1] \in P
      /\ \A y \in I : \E c \in A : c[2] = y
      /\ \A b, c \in A : b[1] = c[1] <=> b[2] = c[2]
  BY <1>1, <1>2, <1>3 DEF Right
<1> DEFINE of(y) == CHOOSE c \in A : c[2] = y
           f == [y \in I |-> of(y)[1]]
<1>5. \A c \in A : c[1] # w
  OBVIOUS
<1> HIDE DEF A, I, P
<1>6. \A y \in I : of(y) \in A /\ of(y)[2] = y
  BY <1>4
<1> HIDE DEF of
<1>7. f \in Injection(I, P \ {w})
  <2>1. \A y \in I : of(y)[1] \in P \ {w}
    BY <1>4, <1>5, <1>6
  <2>2. f \in [I -> P \ {w}]
    BY <2>1
  <2>3. ASSUME NEW y \in I, NEW z \in I, of(y)[1] = of(z)[1] PROVE y = z
    BY <1>4, <1>6, <2>3
  <2>4. IsInjective(f)
    BY <2>3 DEF IsInjective
  <2> QED
    BY <2>2, <2>4 DEF Injection
<1>8. IsFiniteSet(P \ {w}) /\ Cardinality(P \ {w}) = Cardinality(P) - 1
  <2>1. w \in P
    BY DEF P
  <2> QED
    BY <1>2, <2>1, FS_RemoveElement
<1>9. Cardinality(I) = m
  <2>1. 0 \in Int /\ m - 1 \in Int
    BY <1>1
  <2>2. Cardinality(0 .. m - 1) = IF 0 > m - 1 THEN 0 ELSE m - 1 - 0 + 1
    BY <2>1, FS_Interval, Zenon
  <2> QED
    BY <1>1, <2>2 DEF I
<1>10. Cardinality(I) <= Cardinality(P \ {w})
  BY <1>7, <1>8, FS_Injection
<1>11. m = IF nt <= Cardinality(P) THEN nt ELSE Cardinality(P)
  BY <1>1 DEF Complete
<1> HIDE DEF m
<1>12. m = nt
  BY <1>1, <1>2, <1>8, <1>9, <1>10, <1>11
<1>13. x \in 0 .. m - 1
  BY DEF m
<1>14. nt \div nt = 1 /\ nt % nt = 0
  <2>1. nt = 1 * nt + 0
    BY <1>1
  <2> QED
    BY <1>1, <2>1
<1>15. sizeOf(nt, m, x) = 1
  BY <1>1, <1>12, <1>13, <1>14 DEF sizeOf
<1> QED
  BY <1>15 DEF m

\* The machine has a processor of its own for each PU.
LEMMA IdsDiffer ==
  ASSUME TreeOK, NEW v \in PUs(arities), NEW w \in PUs(arities), idOf(v) = idOf(w)
  PROVE  v = w
<1>1. PICK m \in Machines : arities = m.arities /\ pu = m.pu
  BY DEF TreeOK
<1>2. arities \in Seq(Nat) /\ pu \in Seq(Nat) /\ IsInjective(pu)
  BY <1>1, GreedyAssumption
<1>3. puIndex(arities, v) + 1 \in DOMAIN pu /\ puIndex(arities, w) + 1 \in DOMAIN pu
  BY <1>1, PuKnown
<1>4. puIndex(arities, v) + 1 = puIndex(arities, w) + 1
  BY <1>2, <1>3 DEF IsInjective, idOf
<1>5. puIndex(arities, v) \in Nat /\ puIndex(arities, w) \in Nat
  <2>1. Cardinality(PUs(arities)) \in Nat
    BY <1>2, PathsAre, LevelSize
  <2> QED
    BY <1>2, <2>1, PuIndexBelow
<1>6. puIndex(arities, v) = puIndex(arities, w)
  BY <1>4, <1>5
<1> QED
  BY <1>2, <1>6, PuIndexInjective

\* The threads on the processor of a PU are those of the group it gets.
LEMMA ThreadsOn ==
  ASSUME GInv, PInv, TreeOK, pc = "mapped"
  PROVE  LET A == layout(arities, tower)[Len(arities)]
         IN \A t \in 0 .. nthreads - 1 :
              \E c \in A :
                /\ t \in members(tower, c[2]) /\ map[t] = idOf(c[1])
                /\ \A w \in PUs(arities) : map[t] = idOf(w) <=> w = c[1]
<1> DEFINE A == layout(arities, tower)[Len(arities)]
           N == Len(arities)
<1>1. arities \in Seq(Nat \ {0}) /\ isTower(arities, tower, nthreads)
      /\ N \in 0 .. N
  BY TowerStands, GreedyAssumption DEF TreeOK
<1>2. PUs(arities) = verticesAt(arities, N) /\ levelAt(arities, N) = 1
  <2>1. arities \in Seq(Nat)
    BY <1>1
  <2>2. PUs(arities) = verticesAt(arities, N)
    BY <2>1, PathsAre
  <2>3. levelAt(arities, N) = 1
    BY <1>1, Members
  <2> QED
    BY <2>2, <2>3
<1>3. Right(arities, tower, N, A)
  BY <1>1, LayoutRight
<1>4. /\ \A c \in A : c[1] \in PUs(arities)
      /\ \A x \in 0 .. Len(tower[1]) - 1 : \E c \in A : c[2] = x
  BY <1>2, <1>3 DEF Right
<1>5. \A c \in A : settled(c)
  <2>1. todo = << >>
    BY DEF PInv
  <2>2. ToSet(todo) = {}
    BY <2>1 DEF ToSet
  <2> QED
    BY <2>2 DEF PInv
<1>6. \A t \in 0 .. nthreads - 1 : \E x \in 0 .. Len(tower[1]) - 1 : t \in members(tower, x)
  BY <1>1, Members
<1>7. ASSUME NEW t \in 0 .. nthreads - 1
      PROVE  \E c \in A : /\ t \in members(tower, c[2]) /\ map[t] = idOf(c[1])
                          /\ \A w \in PUs(arities) : map[t] = idOf(w) <=> w = c[1]
  <2>1. PICK x \in 0 .. Len(tower[1]) - 1 : t \in members(tower, x)
    BY <1>6
  <2>2. PICK c \in A : c[2] = x
    BY <1>4
  <2>3. map[t] = idOf(c[1])
    BY <1>5, <2>1, <2>2 DEF settled, idOf
  <2>4. \A w \in PUs(arities) : map[t] = idOf(w) <=> w = c[1]
    BY <1>4, <2>3, IdsDiffer
  <2> QED
    BY <2>1, <2>2, <2>3, <2>4
<1> QED
  BY <1>7 DEF A

\* The load of a PU is the size of its group, or nothing when there are more
\* PUs than threads.
LEMMA LoadIs ==
  ASSUME GInv, PInv, TreeOK, pc = "mapped", NEW w \in PUs(arities)
  PROVE  LET m == Len(tower[1])
         IN \/ \E x \in 0 .. m - 1 : load(idOf(w)) = sizeOf(nthreads, m, x)
            \/ /\ load(idOf(w)) = 0
               /\ \A x \in 0 .. m - 1 : sizeOf(nthreads, m, x) = 1
<1> DEFINE A == layout(arities, tower)[Len(arities)]
           N == Len(arities)
           m == Len(tower[1])
           L == {t \in 0 .. nthreads - 1 : map[t] = idOf(w)}
<1>1. arities \in Seq(Nat \ {0}) /\ isTower(arities, tower, nthreads)
      /\ N \in 0 .. N /\ levelAt(arities, N) = 1
  <2>1. arities \in Seq(Nat \ {0}) /\ isTower(arities, tower, nthreads)
    BY TowerStands, GreedyAssumption DEF TreeOK
  <2> QED
    BY <2>1, Members
<1>2. /\ \A c \in A : c[2] \in 0 .. m - 1
      /\ \A b, c \in A : b[1] = c[1] <=> b[2] = c[2]
  <2>1. Right(arities, tower, N, A)
    BY <1>1, LayoutRight
  <2> QED
    BY <1>1, <2>1 DEF Right
<1>3. \A t \in 0 .. nthreads - 1 :
        \E c \in A : /\ t \in members(tower, c[2])
                     /\ map[t] = idOf(w) <=> w = c[1]
  <2>1. \A t \in 0 .. nthreads - 1 :
          \E c \in A : /\ t \in members(tower, c[2]) /\ map[t] = idOf(c[1])
                       /\ \A u \in PUs(arities) : map[t] = idOf(u) <=> u = c[1]
    BY ThreadsOn
  <2> QED
    BY <2>1
<1>4. /\ \A x \in 0 .. m - 1 : members(tower, x) \subseteq 0 .. nthreads - 1
      /\ \A x, y \in 0 .. m - 1 :
           \A t \in members(tower, x) : t \in members(tower, y) => x = y
  BY <1>1, Members
<1>5. load(idOf(w)) = Cardinality(L)
  BY DEF load
<1>6. CASE \E c \in A : c[1] = w
  <2>1. PICK c \in A : c[1] = w
    BY <1>6
  <2> HIDE DEF A, L, m
  <2>2. L = members(tower, c[2])
    <3>1. ASSUME NEW t \in L PROVE t \in members(tower, c[2])
      <4>1. t \in 0 .. nthreads - 1 /\ map[t] = idOf(w)
        BY DEF L
      <4>2. PICK b \in A : /\ t \in members(tower, b[2])
                           /\ map[t] = idOf(w) <=> w = b[1]
        BY <1>3, <4>1
      <4>3. b[2] = c[2]
        BY <1>2, <2>1, <4>1, <4>2
      <4> QED
        BY <4>2, <4>3
    <3>2. ASSUME NEW t \in members(tower, c[2]) PROVE t \in L
      <4>1. t \in 0 .. nthreads - 1 /\ c[2] \in 0 .. m - 1
        BY <1>2, <1>4
      <4>2. PICK b \in A : /\ t \in members(tower, b[2])
                           /\ map[t] = idOf(w) <=> w = b[1]
        BY <1>3, <4>1
      <4>3. b[2] = c[2]
        BY <1>2, <1>4, <4>1, <4>2
      <4>4. w = b[1]
        BY <1>2, <2>1, <4>3
      <4> QED
        BY <4>1, <4>2, <4>4 DEF L
    <3> QED
      BY <3>1, <3>2
  <2>3. c[2] \in 0 .. m - 1
    BY <1>2
  <2>4. Cardinality(members(tower, c[2])) = sizeOf(nthreads, m, c[2])
    BY <1>1, <2>3, MemberCount DEF m
  <2> QED
    BY <1>5, <2>2, <2>3, <2>4 DEF m
<1>7. CASE ~\E c \in A : c[1] = w
  <2>1. L = {}
    BY <1>3, <1>7
  <2>2. load(idOf(w)) = 0
    BY <1>5, <2>1, FS_EmptySet
  <2>3. \A c \in A : c[1] # w
    BY <1>7
  <2>4. \A x \in 0 .. m - 1 : sizeOf(nthreads, m, x) = 1
    BY <1>1, <2>3, SpareMeansOne
  <2> QED
    BY <2>2, <2>4
<1> QED
  BY <1>6, <1>7

\* A finished mapping (mapping-greedy.c:209, :295) has put every thread on a
\* processor of the tree, and no such processor has two threads more than
\* another: on every machine whose detection gave each PU an id of its own,
\* for every number of threads and whatever was counted meanwhile.
THEOREM Balanced == Spec => []LoadsBalanced
<1>1. ASSUME GInv, PInv, TreeOK, pc = "mapped" PROVE LoadsBalanced
  <2> DEFINE m == Len(tower[1])
             A == layout(arities, tower)[Len(arities)]
  <2>1. arities \in Seq(Nat \ {0}) /\ isTower(arities, tower, nthreads)
    BY <1>1, TowerStands, GreedyAssumption DEF TreeOK
  <2>2. nthreads \in Nat \ {0} /\ m \in Nat \ {0}
    BY <2>1, Members
  <2>3. leaves = {idOf(w) : w \in PUs(arities)}
    BY DEF leaves, idOf
  <2>4. \A t \in 0 .. nthreads - 1 : map[t] \in leaves
    <3>1. TAKE t \in 0 .. nthreads - 1
    <3>2. PICK c \in A : map[t] = idOf(c[1])
      BY <1>1, ThreadsOn
    <3>3. c[1] \in PUs(arities)
      <4>1. Len(arities) \in 0 .. Len(arities) /\ arities \in Seq(Nat)
        BY <2>1
      <4>2. Right(arities, tower, Len(arities), A)
        BY <2>1, <4>1, LayoutRight
      <4>3. PUs(arities) = verticesAt(arities, Len(arities))
        BY <4>1, PathsAre
      <4> QED
        BY <4>2, <4>3 DEF Right
    <3> QED
      BY <2>3, <3>2, <3>3
  <2>5. ASSUME NEW x \in 0 .. m - 1, NEW y \in 0 .. m - 1
        PROVE  /\ sizeOf(nthreads, m, x) \in Nat
               /\ sizeOf(nthreads, m, x) <= sizeOf(nthreads, m, y) + 1
    <3> DEFINE q == nthreads \div m
    <3>1. q \in Nat
      <4>1. \A n \in Nat, k \in Nat \ {0} : n \div k \in Nat
        OBVIOUS
      <4> HIDE DEF m
      <4> QED
        BY <2>2, <4>1
    <3>2. /\ sizeOf(nthreads, m, x) \in {q, q + 1}
          /\ sizeOf(nthreads, m, y) \in {q, q + 1}
      BY <3>1 DEF sizeOf
    <3> HIDE DEF q
    <3> QED
      BY <3>1, <3>2
  <2>6. ASSUME NEW v \in PUs(arities), NEW w \in PUs(arities)
        PROVE  load(idOf(v)) <= load(idOf(w)) + 1
    <3>1. \/ \E x \in 0 .. m - 1 : load(idOf(v)) = sizeOf(nthreads, m, x)
          \/ /\ load(idOf(v)) = 0
             /\ \A x \in 0 .. m - 1 : sizeOf(nthreads, m, x) = 1
      BY <1>1, LoadIs
    <3>2. \/ \E x \in 0 .. m - 1 : load(idOf(w)) = sizeOf(nthreads, m, x)
          \/ /\ load(idOf(w)) = 0
             /\ \A x \in 0 .. m - 1 : sizeOf(nthreads, m, x) = 1
      BY <1>1, LoadIs
    <3> HIDE DEF m
    <3> QED
      BY <2>5, <3>1, <3>2
  <2>7. \A p, q \in leaves : load(p) <= load(q) + 1
    BY <2>3, <2>6
  <2> QED
    BY <2>4, <2>7 DEF LoadsBalanced
<1>2. pc # "mapped" => LoadsBalanced
  BY DEF LoadsBalanced, mappingDone
<1>3. Spec => []GInv
  BY GreedyInvariant
<1>4. Spec => []TreeOK
  BY TypesAndTree, PTL
<1>5. Spec => []PInv
  BY PlacesInvariant
<1>6. GInv /\ PInv /\ TreeOK => LoadsBalanced
  BY <1>1, <1>2
<1> QED
  BY <1>3, <1>4, <1>5, <1>6, PTL

-----------------------------------------------------------------------------
(* Totals modulo the width of an element *)

LEMMA Remainder ==
  ASSUME NEW R \in Nat \ {0}, NEW q \in Nat, NEW r \in 0 .. R - 1
  PROVE  (q * R + r) % R = r
<1> DEFINE x == q * R + r
           p == x \div R
           s == x % R
<1>1. q * R \in Nat /\ R \in Nat
  OBVIOUS
<1>2. x \in Nat
  BY <1>1
<1> HIDE DEF x
<1>3. p \in Nat /\ s \in 0 .. R - 1 /\ x = p * R + s
  BY <1>2
<1> HIDE DEF p, s
<1>4. p * R \in Nat
  BY <1>3
<1>5. p * R + (s + 1) - 1 = q * R + (r + 1) - 1 /\ s + 1 \in 1 .. R /\ r + 1 \in 1 .. R
  BY <1>1, <1>3, <1>4 DEF x
<1>6. s + 1 = r + 1
  BY <1>1, <1>3, <1>5, DigitUnique
<1>7. s = r
  BY <1>3, <1>6
<1> QED
  BY <1>7 DEF s, x

\* The remainder, for the steps that are not arithmetic.
rem(a, R) == a % R

LEMMA RemainderOfSum ==
  ASSUME NEW R \in Nat \ {0}, NEW a \in Nat, NEW b \in Nat
  PROVE  rem(a + b, R) = rem(rem(a, R) + rem(b, R), R)
<1> DEFINE p == a \div R
           q == b \div R
           r == a % R
           s == b % R
           t == (r + s) \div R
           u == (r + s) % R
<1>1. /\ p \in Nat /\ r \in 0 .. R - 1 /\ a = p * R + r
      /\ q \in Nat /\ s \in 0 .. R - 1 /\ b = q * R + s
  OBVIOUS
<1> HIDE DEF p, q, r, s
<1>2. r + s \in Nat
  BY <1>1
<1>3. t \in Nat /\ u \in 0 .. R - 1 /\ r + s = t * R + u
  BY <1>2
<1> HIDE DEF t, u
<1>4. p + q + t \in Nat /\ (p + q + t) * R = p * R + q * R + t * R
  BY <1>1, <1>3
<1>5. p * R \in Nat /\ q * R \in Nat /\ t * R \in Nat
  BY <1>1, <1>3
<1>6. a + b = (p + q + t) * R + u
  BY <1>1, <1>3, <1>4, <1>5
<1>7. (a + b) % R = u
  BY <1>3, <1>4, <1>6, Remainder
<1> QED
  BY <1>7 DEF u, r, s, rem

\* A sum of remainders has the remainder of the sum.
LEMMA SumsModulo ==
  ASSUME NEW R \in Nat \ {0}, NEW a \in Nat, NEW b \in Nat, NEW c \in Nat, NEW d \in Nat,
         rem(a, R) = rem(c, R), rem(b, R) = rem(d, R)
  PROVE  rem(a + b, R) = rem(c + d, R)
<1>1. ASSUME NEW x \in Nat, NEW y \in Nat
      PROVE  rem(x + y, R) = rem(rem(x, R) + rem(y, R), R)
  BY RemainderOfSum
<1>2. rem(a + b, R) = rem(rem(a, R) + rem(b, R), R)
  BY <1>1
<1>3. rem(c + d, R) = rem(rem(c, R) + rem(d, R), R)
  BY <1>1
<1> QED
  BY <1>2, <1>3

LEMMA TotalModulo ==
  ASSUME NEW R \in Nat \ {0}, NEW S, IsFiniteSet(S), NEW f, NEW h, natOn(f, S), natOn(h, S),
         \A x \in S : rem(f[x], R) = rem(h[x], R)
  PROVE  rem(total(f, S), R) = rem(total(h, S), R)
<1> DEFINE P == {s \in SUBSET S : rem(total(f, s), R) = rem(total(h, s), R)}
<1>1. {} \in P
  BY TotalEmpty
<1>2. ASSUME NEW s \in SUBSET S, s # {}, \A x \in s : s \ {x} \in P PROVE s \in P
  <2>1. IsFiniteSet(s)
    BY FS_Subset
  <2> DEFINE c == CHOOSE x \in s : TRUE
             r == s \ {c}
  <2>2. c \in s /\ total(f, s) = f[c] + total(f, r) /\ total(h, s) = h[c] + total(h, r)
    BY <1>2, <2>1, TotalChosen
  <2>3. IsFiniteSet(r) /\ natOn(f, r) /\ natOn(h, r)
    BY FS_Subset DEF natOn
  <2> HIDE DEF c
  <2>4. rem(total(f, r), R) = rem(total(h, r), R) /\ rem(f[c], R) = rem(h[c], R) /\ f[c] \in Nat /\ h[c] \in Nat
    BY <1>2, <2>2 DEF natOn
  <2> HIDE DEF r
  <2>5. total(f, r) \in Nat /\ total(h, r) \in Nat
    BY <2>3, TotalNat
  <2>6. rem(f[c] + total(f, r), R) = rem(h[c] + total(h, r), R)
    <3> DEFINE x == f[c]
               y == h[c]
               z == total(f, r)
               w == total(h, r)
    <3>1. /\ x \in Nat /\ y \in Nat /\ z \in Nat /\ w \in Nat
          /\ rem(x, R) = rem(y, R) /\ rem(z, R) = rem(w, R)
      BY <2>4, <2>5
    <3> HIDE DEF x, y, z, w
    <3>2. rem(x + z, R) = rem(y + w, R)
      BY <3>1, SumsModulo
    <3> QED
      BY <3>2 DEF x, y, z, w
  <2> DEFINE u == f[c] + total(f, r)
             v == h[c] + total(h, r)
  <2>7. rem(u, R) = rem(v, R) /\ total(f, s) = u /\ total(h, s) = v
    BY <2>2, <2>6
  <2> HIDE DEF u, v
  <2>8. rem(total(f, s), R) = rem(total(h, s), R)
    BY <2>7
  <2> QED
    BY <2>8
<1> HIDE DEF P
<1>3. SUBSET S \subseteq P
  BY <1>1, <1>2, FiniteInduction
<1>4. S \in P
  BY <1>3
<1> QED
  BY <1>4 DEF P

-----------------------------------------------------------------------------
(* The threads below a group *)

\* The groups that T has at level l, of nt threads.
groupsAt(T, nt, l) == IF l = 0 THEN nt ELSE Len(T[l])

\* The groups of levels 1 .. L share out those below.
sharedOut(T, nt, L) ==
  /\ L \in Nat /\ nt \in Nat
  /\ \A l \in 1 .. L : /\ T[l] \in Seq(Seq(Nat)) /\ OnePlaceEach(T[l])
                       /\ placed(T[l]) = 0 .. groupsAt(T, nt, l - 1) - 1

\* f[n] is n levels below group x of level l.
isBelow(T, l, x, f) ==
  f = [n \in 0 .. l |-> IF n = 0 THEN {x}
                        ELSE UNION {ToSet(T[l - n + 1][y + 1]) : y \in f[n - 1]}]

\* As threadsOf, for groups that are those of a state or not.
threadsIn(T, l, x) == (CHOOSE f : isBelow(T, l, x, f))[l]

LEMMA ThreadsOfIs ==
  ASSUME NEW l, NEW x PROVE threadsOf(l, x) = threadsIn(groups, l, x)
BY DEF threadsOf, threadsIn, isBelow

\* An element that two groups of level l have is one place of one group.
once(T, l, x, y) ==
  \A i \in DOMAIN T[l][x + 1] : \A j \in DOMAIN T[l][y + 1] :
    T[l][x + 1][i] = T[l][y + 1][j] => x = y /\ i = j

\* The elements of a group are groups of the level below, no other's.
LEMMA GroupSets ==
  ASSUME NEW T, NEW nt, NEW L, sharedOut(T, nt, L), NEW l \in 1 .. L,
         NEW x \in 0 .. groupsAt(T, nt, l) - 1
  PROVE  /\ T[l][x + 1] \in Seq(Nat) /\ x + 1 \in DOMAIN T[l]
         /\ ToSet(T[l][x + 1]) \subseteq 0 .. groupsAt(T, nt, l - 1) - 1
         /\ \A y \in 0 .. groupsAt(T, nt, l) - 1 : once(T, l, x, y)
<1> DEFINE G == T[l]
           n == groupsAt(T, nt, l - 1)
<1>1. /\ G \in Seq(Seq(Nat)) /\ OnePlaceEach(G) /\ placed(G) = 0 .. n - 1
      /\ groupsAt(T, nt, l) = Len(G)
  BY DEF sharedOut, groupsAt
<1> HIDE DEF G, n
<1>2. \A y \in 0 .. Len(G) - 1 : y + 1 \in DOMAIN G /\ G[y + 1] \in Seq(Nat)
  BY <1>1
<1>3. \A y \in 0 .. Len(G) - 1 : \A i \in DOMAIN G[y + 1] :
        << y + 1, i >> \in Places(G) /\ at(G, << y + 1, i >>) = G[y + 1][i]
  <2>1. TAKE y \in 0 .. Len(G) - 1
  <2>2. TAKE i \in DOMAIN G[y + 1]
  <2>3. y + 1 \in DOMAIN G /\ i \in Nat
    BY <1>2
  <2> QED
    BY <2>3 DEF Places, at
<1>4. \A i \in DOMAIN G[x + 1] : G[x + 1][i] \in 0 .. n - 1
  BY <1>1, <1>3 DEF placed
<1>5. ToSet(G[x + 1]) \subseteq 0 .. n - 1
  BY <1>4 DEF ToSet
<1>6. ASSUME NEW y \in 0 .. Len(G) - 1, NEW i \in DOMAIN G[x + 1], NEW j \in DOMAIN G[y + 1],
             G[x + 1][i] = G[y + 1][j]
      PROVE  x = y /\ i = j
  <2> DEFINE p == << x + 1, i >>
             q == << y + 1, j >>
  <2>1. p \in Places(G) /\ q \in Places(G) /\ at(G, p) = at(G, q)
    BY <1>1, <1>3, <1>6
  <2>2. p = q
    <3> HIDE DEF p, q
    <3> QED
      BY <1>1, <2>1 DEF OnePlaceEach
  <2>3. x + 1 = y + 1 /\ i = j
    BY <2>2
  <2> QED
    BY <1>1, <2>3
<1>7. \A y \in 0 .. Len(G) - 1 : once(T, l, x, y)
  BY <1>6 DEF once, G
<1> QED
  BY <1>1, <1>2, <1>5, <1>7 DEF G, n

LEMMA BelowExists ==
  ASSUME NEW T, NEW nt, NEW L, sharedOut(T, nt, L), NEW l \in 0 .. L,
         NEW x \in 0 .. groupsAt(T, nt, l) - 1
  PROVE  \E f : isBelow(T, l, x, f)
<1> DEFINE V == SUBSET Nat
           b == {x}
           next(n, S) == UNION {ToSet(T[l - n + 1][y + 1]) : y \in S}
           step == [n \in 1 .. l |-> [S \in V |-> next(n, S) \cap Nat]]
           at0(n) == 0 .. groupsAt(T, nt, l - n) - 1
<1>1. l \in Nat /\ x \in Nat
  BY DEF sharedOut
<1>2. isStep(step, l, V) /\ b \in V
  <2> HIDE DEF next
  <2> QED
    BY <1>1 DEF isStep
<1>3. PICK f : computed(f, l, V, b, step)
  <2> HIDE DEF V, b, step
  <2> QED
    BY <1>1, <1>2, Recursion
<1>4. f \in [0 .. l -> V] /\ f[0] = b /\ \A n \in 1 .. l : f[n] = next(n, f[n - 1]) \cap Nat
  <2>1. f \in [0 .. l -> V] /\ f[0] = b /\ \A n \in 1 .. l : f[n] = step[n][f[n - 1]]
    BY <1>3 DEF computed
  <2>2. \A n \in 1 .. l : f[n - 1] \in V
    <3>1. \A n \in 1 .. l : n - 1 \in 0 .. l
      BY <1>1
    <3> HIDE DEF V
    <3> QED
      BY <2>1, <3>1
  <2> HIDE DEF V, next
  <2>3. \A n \in 1 .. l : \A S \in V : step[n][S] = next(n, S) \cap Nat
    OBVIOUS
  <2> HIDE DEF step
  <2> QED
    BY <2>1, <2>2, <2>3
<1> HIDE DEF V, step
<1>5. ASSUME NEW n \in 1 .. l, NEW S, S \subseteq at0(n - 1) PROVE next(n, S) \subseteq at0(n)
  <2>1. ASSUME NEW y \in S PROVE ToSet(T[l - n + 1][y + 1]) \subseteq at0(n)
    <3> DEFINE k == l - n + 1
    <3>1. k \in 1 .. L /\ l - (n - 1) = k /\ k - 1 = l - n
      BY DEF sharedOut
    <3>2. y \in 0 .. groupsAt(T, nt, k) - 1
      BY <1>5, <3>1
    <3> HIDE DEF k
    <3>3. ToSet(T[k][y + 1]) \subseteq 0 .. groupsAt(T, nt, k - 1) - 1
      BY <3>1, <3>2, GroupSets
    <3> QED
      BY <3>1, <3>3 DEF k
  <2> HIDE DEF at0
  <2> QED
    BY <2>1
<1> DEFINE Q == {n \in 0 .. l : f[n] \subseteq at0(n)}
<1>6. 0 \in Q
  <2>1. l - 0 = l
    BY <1>1
  <2> QED
    BY <1>1, <1>4, <2>1
<1> HIDE DEF at0, next
<1>7. ASSUME NEW n \in 0 .. l - 1, n \in Q PROVE n + 1 \in Q
  <2>1. n + 1 \in 1 .. l /\ (n + 1) - 1 = n /\ n + 1 \in 0 .. l
    BY <1>1
  <2>2. next(n + 1, f[n]) \subseteq at0(n + 1)
    BY <1>5, <1>7, <2>1
  <2>3. f[n + 1] = next(n + 1, f[n]) \cap Nat
    BY <1>4, <2>1
  <2> QED
    BY <2>1, <2>2, <2>3
<1>8. 0 .. l \subseteq Q
  <2> HIDE DEF Q
  <2> QED
    BY <1>1, <1>6, <1>7, Induction
<1>9. ASSUME NEW n \in 1 .. l PROVE f[n] = next(n, f[n - 1])
  <2>1. n - 1 \in 0 .. l
    BY <1>1
  <2>2. next(n, f[n - 1]) \subseteq at0(n)
    BY <1>5, <1>8, <2>1
  <2>3. at0(n) \subseteq Nat
    BY DEF at0
  <2> QED
    BY <1>4, <2>2, <2>3
<1>10. \A n \in 0 .. l : f[n] = IF n = 0 THEN {x} ELSE next(n, f[n - 1])
  BY <1>1, <1>4, <1>9
<1>11. f = [n \in 0 .. l |-> IF n = 0 THEN {x} ELSE next(n, f[n - 1])]
  BY <1>4, <1>10
<1> QED
  BY <1>11 DEF isBelow, next

\* A thread, as a group of level 0, has itself below it.
LEMMA ThreadsZero ==
  ASSUME NEW T, NEW x PROVE threadsIn(T, 0, x) = {x}
<1> DEFINE g == [n \in 0 .. 0 |-> {x}]
           right(f) == [n \in 0 .. 0 |->
                          IF n = 0 THEN {x}
                          ELSE UNION {ToSet(T[0 - n + 1][y + 1]) : y \in f[n - 1]}]
<1>1. \A f : right(f) = g
  <2>1. \A n \in 0 .. 0 : n = 0
    OBVIOUS
  <2> QED
    BY <2>1
<1>2. g[0] = {x}
  OBVIOUS
<1> HIDE DEF g
<1>3. \A f : isBelow(T, 0, x, f) <=> f = g
  <2>1. \A f : isBelow(T, 0, x, f) <=> f = right(f)
    BY DEF isBelow
  <2> HIDE DEF right
  <2> QED
    BY <1>1, <2>1
<1>4. isBelow(T, 0, x, g)
  BY <1>3
<1>5. (CHOOSE f : isBelow(T, 0, x, f)) = g
  BY <1>3, <1>4
<1> QED
  BY <1>2, <1>5 DEF threadsIn

LEMMA ThreadsAre ==
  ASSUME NEW T, NEW nt, NEW L, sharedOut(T, nt, L), NEW l \in 0 .. L,
         NEW x \in 0 .. groupsAt(T, nt, l) - 1
  PROVE  \E f : isBelow(T, l, x, f) /\ threadsIn(T, l, x) = f[l]
<1>1. \E f : isBelow(T, l, x, f)
  BY BelowExists
<1> QED
  BY <1>1 DEF threadsIn

\* The threads below a group are those below its elements.
LEMMA ThreadsUp ==
  ASSUME NEW T, NEW nt, NEW L, sharedOut(T, nt, L), NEW l \in 1 .. L,
         NEW x \in 0 .. groupsAt(T, nt, l) - 1
  PROVE  threadsIn(T, l, x) = UNION {threadsIn(T, l - 1, y) : y \in ToSet(T[l][x + 1])}
<1> DEFINE S == ToSet(T[l][x + 1])
           g == [y \in S |-> CHOOSE f : isBelow(T, l - 1, y, f)]
<1>1. l \in Nat /\ l - 1 \in 0 .. L /\ l \in 0 .. L /\ l - 1 \in Nat
  BY DEF sharedOut
<1>2. PICK f : isBelow(T, l, x, f) /\ threadsIn(T, l, x) = f[l]
  BY <1>1, ThreadsAre
<1>3. S \subseteq 0 .. groupsAt(T, nt, l - 1) - 1
  BY GroupSets
<1> HIDE DEF S
<1>4. ASSUME NEW y \in S
      PROVE  isBelow(T, l - 1, y, g[y]) /\ threadsIn(T, l - 1, y) = g[y][l - 1]
  <2>1. \E h : isBelow(T, l - 1, y, h)
    BY <1>1, <1>3, BelowExists
  <2>2. g[y] = CHOOSE h : isBelow(T, l - 1, y, h)
    OBVIOUS
  <2> HIDE DEF g
  <2> QED
    BY <2>1, <2>2 DEF threadsIn
<1> HIDE DEF g
<1>5. /\ f[0] = {x}
      /\ \A n \in 1 .. l : f[n] = UNION {ToSet(T[l - n + 1][z + 1]) : z \in f[n - 1]}
  <2>1. f = [n \in 0 .. l |-> IF n = 0 THEN {x}
                              ELSE UNION {ToSet(T[l - n + 1][z + 1]) : z \in f[n - 1]}]
    BY <1>2 DEF isBelow
  <2> DEFINE rest(n) == UNION {ToSet(T[l - n + 1][z + 1]) : z \in f[n - 1]}
  <2>2. f = [n \in 0 .. l |-> IF n = 0 THEN {x} ELSE rest(n)]
    BY <2>1
  <2> HIDE DEF rest
  <2>3. f[0] = {x} /\ \A n \in 1 .. l : f[n] = rest(n)
    BY <1>1, <2>2
  <2> QED
    BY <2>3 DEF rest
<1>6. \A y \in S :
        /\ g[y][0] = {y}
        /\ \A n \in 1 .. l - 1 :
             g[y][n] = UNION {ToSet(T[l - 1 - n + 1][z + 1]) : z \in g[y][n - 1]}
  <2> TAKE y \in S
  <2> DEFINE h == g[y]
             rest(n) == UNION {ToSet(T[l - 1 - n + 1][z + 1]) : z \in h[n - 1]}
  <2>1. h = [n \in 0 .. l - 1 |->
               IF n = 0 THEN {y}
               ELSE UNION {ToSet(T[l - 1 - n + 1][z + 1]) : z \in h[n - 1]}]
    <3> HIDE DEF h
    <3> QED
      BY <1>4 DEF isBelow, h
  <2> HIDE DEF h
  <2>2. h = [n \in 0 .. l - 1 |-> IF n = 0 THEN {y} ELSE rest(n)]
    BY <2>1
  <2> HIDE DEF rest
  <2>3. h[0] = {y} /\ \A n \in 1 .. l - 1 : h[n] = rest(n)
    BY <1>1, <2>2
  <2> QED
    BY <2>3 DEF rest, h
<1> DEFINE Q == {n \in 0 .. l - 1 : f[n + 1] = UNION {g[y][n] : y \in S}}
<1>7. 0 \in Q
  <2>1. f[1] = UNION {ToSet(T[l][z + 1]) : z \in {x}}
    <3>1. 1 \in 1 .. l /\ l - 1 + 1 = l /\ 1 - 1 = 0
      BY <1>1
    <3> QED
      BY <1>5, <3>1
  <2>2. f[1] = S
    BY <2>1 DEF S
  <2>3. UNION {g[y][0] : y \in S} = S
    BY <1>6
  <2> QED
    BY <1>1, <2>2, <2>3
<1>8. ASSUME NEW n \in 0 .. l - 1 - 1, n \in Q PROVE n + 1 \in Q
  <2>1. /\ n + 1 \in 1 .. l - 1 /\ n + 2 \in 1 .. l /\ l - (n + 2) + 1 = l - 1 - n
        /\ l - 1 - (n + 1) + 1 = l - 1 - n /\ (n + 2) - 1 = n + 1 /\ (n + 1) - 1 = n
        /\ (n + 1) + 1 = n + 2
    BY <1>1
  <2> DEFINE u == l - 1 - n
             up(z) == ToSet(T[u][z + 1])
  <2>2. f[n + 2] = UNION {up(z) : z \in f[n + 1]}
    BY <1>5, <2>1
  <2>3. \A y \in S : g[y][n + 1] = UNION {up(z) : z \in g[y][n]}
    BY <1>6, <2>1
  <2>4. f[n + 1] = UNION {g[y][n] : y \in S}
    BY <1>8
  <2> HIDE DEF up
  <2>5. f[n + 2] = UNION {g[y][n + 1] : y \in S}
    BY <2>2, <2>3, <2>4
  <2> QED
    BY <2>1, <2>5
<1>9. l - 1 \in Q
  <2> HIDE DEF Q
  <2>1. 0 .. l - 1 \subseteq Q
    BY <1>1, <1>7, <1>8, Induction
  <2> QED
    BY <1>1, <2>1
<1>10. f[l] = UNION {g[y][l - 1] : y \in S}
  <2>1. l - 1 + 1 = l
    BY <1>1
  <2> QED
    BY <1>9, <2>1
<1> QED
  BY <1>2, <1>4, <1>10 DEF S

\* No thread is below two groups of a level.
apart(T, nt, l) ==
  \A x, y \in 0 .. groupsAt(T, nt, l) - 1 :
    /\ threadsIn(T, l, x) \subseteq 0 .. nt - 1
    /\ x # y => threadsIn(T, l, x) \cap threadsIn(T, l, y) = {}

LEMMA ThreadsApart ==
  ASSUME NEW T, NEW nt, NEW L, sharedOut(T, nt, L), NEW l \in 0 .. L
  PROVE  apart(T, nt, l)
<1> DEFINE Q == {n \in 0 .. L : apart(T, nt, n)}
<1>1. L \in Nat /\ nt \in Nat
  BY DEF sharedOut
<1>2. 0 \in Q
  <2>1. groupsAt(T, nt, 0) = nt
    BY DEF groupsAt
  <2> QED
    BY <1>1, <2>1, ThreadsZero DEF apart
<1>3. ASSUME NEW n \in 0 .. L - 1, n \in Q PROVE n + 1 \in Q
  <2> DEFINE k == n + 1
             top == 0 .. groupsAt(T, nt, k) - 1
             elts(x) == ToSet(T[k][x + 1])
  <2>1. k \in 1 .. L /\ k - 1 = n /\ k \in 0 .. L
    BY <1>1
  <2>2. apart(T, nt, n)
    BY <1>3
  <2> HIDE DEF k
  <2>3. ASSUME NEW x \in top
        PROVE  /\ threadsIn(T, k, x) = UNION {threadsIn(T, n, y) : y \in elts(x)}
               /\ elts(x) \subseteq 0 .. groupsAt(T, nt, n) - 1
    <3>1. threadsIn(T, k, x) = UNION {threadsIn(T, k - 1, y) : y \in elts(x)}
      BY <2>1, ThreadsUp
    <3>2. elts(x) \subseteq 0 .. groupsAt(T, nt, k - 1) - 1
      BY <2>1, GroupSets
    <3> QED
      BY <2>1, <3>1, <3>2
  <2>4. ASSUME NEW x \in top, NEW y \in top, x # y PROVE elts(x) \cap elts(y) = {}
    <3>1. \A i \in DOMAIN T[k][x + 1] : \A j \in DOMAIN T[k][y + 1] :
            T[k][x + 1][i] # T[k][y + 1][j]
      <4>1. once(T, k, x, y)
        BY <2>1, GroupSets
      <4> HIDE DEF top
      <4> QED
        BY <2>4, <4>1 DEF once
    <3> QED
      BY <3>1 DEF ToSet
  <2> HIDE DEF elts
  <2>5. ASSUME NEW x \in top PROVE threadsIn(T, k, x) \subseteq 0 .. nt - 1
    BY <2>2, <2>3 DEF apart
  <2>6. ASSUME NEW x \in top, NEW y \in top, x # y
        PROVE  threadsIn(T, k, x) \cap threadsIn(T, k, y) = {}
    <3>1. \A u \in elts(x), v \in elts(y) : u # v
      BY <2>4, <2>6
    <3>2. \A u \in elts(x), v \in elts(y) : threadsIn(T, n, u) \cap threadsIn(T, n, v) = {}
      BY <2>2, <2>3, <3>1 DEF apart
    <3>3. /\ threadsIn(T, k, x) = UNION {threadsIn(T, n, u) : u \in elts(x)}
          /\ threadsIn(T, k, y) = UNION {threadsIn(T, n, v) : v \in elts(y)}
      BY <2>3
    <3> QED
      BY <3>2, <3>3
  <2>7. apart(T, nt, k)
    BY <2>5, <2>6 DEF apart
  <2> QED
    BY <2>1, <2>7 DEF k
<1>4. 0 .. L \subseteq Q
  <2> HIDE DEF Q
  <2> QED
    BY <1>1, <1>2, <1>3, Induction
<1> QED
  BY <1>4

\* They depend on the groups up to the level only.
LEMMA ThreadsSame ==
  ASSUME NEW T, NEW U, NEW nt, NEW L, sharedOut(T, nt, L), sharedOut(U, nt, L),
         \A l \in 1 .. L : T[l] = U[l],
         NEW l \in 0 .. L, NEW x \in 0 .. groupsAt(T, nt, l) - 1
  PROVE  threadsIn(T, l, x) = threadsIn(U, l, x)
<1> DEFINE same(n) == \A y \in 0 .. groupsAt(T, nt, n) - 1 : threadsIn(T, n, y) = threadsIn(U, n, y)
           Q == {n \in 0 .. L : same(n)}
<1>1. L \in Nat /\ nt \in Nat
  BY DEF sharedOut
<1>2. 0 \in Q
  BY <1>1, ThreadsZero
<1>3. ASSUME NEW n \in 0 .. L - 1, n \in Q PROVE n + 1 \in Q
  <2> DEFINE k == n + 1
  <2>1. k \in 1 .. L /\ k - 1 = n /\ k \in 0 .. L
    BY <1>1
  <2>2. same(n)
    BY <1>3
  <2> HIDE DEF k
  <2>3. ASSUME NEW y \in 0 .. groupsAt(T, nt, k) - 1
        PROVE  threadsIn(T, k, y) = threadsIn(U, k, y)
    <3> DEFINE S == ToSet(T[k][y + 1])
    <3>1. T[k] = U[k] /\ groupsAt(T, nt, k) = groupsAt(U, nt, k)
      BY <1>1, <2>1 DEF groupsAt
    <3>2. threadsIn(T, k, y) = UNION {threadsIn(T, k - 1, z) : z \in S}
      BY <2>1, ThreadsUp
    <3>3. threadsIn(U, k, y) = UNION {threadsIn(U, k - 1, z) : z \in S}
      <4>1. threadsIn(U, k, y) = UNION {threadsIn(U, k - 1, z) : z \in ToSet(U[k][y + 1])}
        BY <2>1, <3>1, ThreadsUp
      <4> QED
        BY <3>1, <4>1
    <3>4. S \subseteq 0 .. groupsAt(T, nt, k - 1) - 1
      BY <2>1, GroupSets
    <3> HIDE DEF S
    <3> QED
      BY <2>1, <2>2, <3>2, <3>3, <3>4
  <2> QED
    BY <2>1, <2>3 DEF k
<1>4. 0 .. L \subseteq Q
  <2> HIDE DEF Q
  <2> QED
    BY <1>1, <1>2, <1>3, Induction
<1> QED
  BY <1>4

-----------------------------------------------------------------------------
(* The communication between the threads of two groups *)

\* c is a count for any two threads.
counts(c, nt) ==
  \A t, u \in 0 .. nt - 1 :
    t # u => c[<< t, u >>] \in Nat /\ c[<< t, u >>] = c[<< u, t >>]

\* What the threads below x have exchanged with those below y.
weight(c, T, l, x, y) == total(c, threadsIn(T, l, x) \X threadsIn(T, l, y))

LEMMA PairsOfThreads ==
  ASSUME NEW T, NEW nt, NEW L, sharedOut(T, nt, L), NEW l \in 0 .. L,
         NEW c, counts(c, nt),
         NEW x \in 0 .. groupsAt(T, nt, l) - 1, NEW y \in 0 .. groupsAt(T, nt, l) - 1, x # y
  PROVE  LET A == threadsIn(T, l, x)
             B == threadsIn(T, l, y)
         IN /\ A \subseteq 0 .. nt - 1 /\ B \subseteq 0 .. nt - 1 /\ A \cap B = {}
            /\ IsFiniteSet(A) /\ IsFiniteSet(B)
            /\ IsFiniteSet(A \X B) /\ natOn(c, A \X B)
            /\ \A t \in A, u \in B : c[<< t, u >>] = c[<< u, t >>]
            /\ weight(c, T, l, x, y) \in Nat
<1> DEFINE A == threadsIn(T, l, x)
           B == threadsIn(T, l, y)
<1>1. A \subseteq 0 .. nt - 1 /\ B \subseteq 0 .. nt - 1 /\ A \cap B = {}
  BY ThreadsApart DEF apart
<1>2. IsFiniteSet(0 .. nt - 1)
  <2>1. 0 \in Int /\ nt - 1 \in Int
    BY DEF sharedOut
  <2> QED
    BY <2>1, FS_Interval
<1> HIDE DEF A, B
<1>3. IsFiniteSet(A) /\ IsFiniteSet(B)
  BY <1>1, <1>2, FS_Subset
<1>4. IsFiniteSet(A \X B)
  BY <1>3, FS_Product
<1>5. \A t \in A, u \in B : t \in 0 .. nt - 1 /\ u \in 0 .. nt - 1 /\ t # u
  BY <1>1
<1>6. \A t \in A, u \in B : c[<< t, u >>] \in Nat /\ c[<< t, u >>] = c[<< u, t >>]
  BY <1>5 DEF counts
<1>7. natOn(c, A \X B)
  <2>1. \A z \in A \X B : z = << z[1], z[2] >> /\ z[1] \in A /\ z[2] \in B
    OBVIOUS
  <2>2. \A z \in A \X B : c[z] \in Nat
    BY <1>6, <2>1
  <2> QED
    BY <2>2 DEF natOn
<1>8. total(c, A \X B) \in Nat
  BY <1>4, <1>7, TotalNat
<1> QED
  BY <1>1, <1>3, <1>4, <1>6, <1>7, <1>8 DEF A, B, weight

\* The order of the two sides does not matter.
LEMMA TotalSwap ==
  ASSUME NEW A, NEW B, IsFiniteSet(A), IsFiniteSet(B), NEW c, natOn(c, A \X B),
         \A t \in A, u \in B : c[<< t, u >>] = c[<< u, t >>]
  PROVE  total(c, A \X B) = total(c, B \X A)
<1> DEFINE S == A \X B
           turned(z) == << z[2], z[1] >>
           swap(s) == {turned(z) : z \in s}
           P == {s \in SUBSET S : total(c, s) = total(c, swap(s))}
<1>1. IsFiniteSet(S) /\ IsFiniteSet(B \X A)
  BY FS_Product
<1>2. \A z \in S : c[turned(z)] = c[z] /\ c[z] \in Nat /\ turned(z) \in B \X A
  <2> TAKE z \in S
  <2>1. z = << z[1], z[2] >> /\ z[1] \in A /\ z[2] \in B
    OBVIOUS
  <2>2. c[z] \in Nat
    BY DEF natOn
  <2> HIDE DEF S
  <2> QED
    BY <2>1, <2>2
<1>3. \A x, z \in S : turned(x) = turned(z) => x = z
  <2> TAKE x, z \in S
  <2>1. x = << x[1], x[2] >> /\ z = << z[1], z[2] >>
    OBVIOUS
  <2> HIDE DEF S
  <2> QED
    BY <2>1
<1>4. swap(S) = B \X A
  <2>1. ASSUME NEW y \in B \X A PROVE y \in swap(S)
    <3>1. y = turned(<< y[2], y[1] >>) /\ << y[2], y[1] >> \in S
      OBVIOUS
    <3> HIDE DEF S, turned
    <3> QED
      BY <3>1
  <2> HIDE DEF S, turned
  <2> QED
    BY <1>2, <2>1
<1> HIDE DEF S, turned
<1>5. {} \in P
  <2>1. swap({}) = {}
    OBVIOUS
  <2> HIDE DEF swap
  <2> QED
    BY <2>1
<1>6. ASSUME NEW s \in SUBSET S, s # {}, \A x \in s : s \ {x} \in P PROVE s \in P
  <2>1. PICK x \in s : TRUE
    BY <1>6
  <2> DEFINE r == s \ {x}
  <2>2. IsFiniteSet(s) /\ natOn(c, s)
    BY <1>1, <1>2, FS_Subset DEF natOn
  <2>3. IsFiniteSet(swap(s)) /\ natOn(c, swap(s))
    <3>1. swap(s) \subseteq B \X A
      BY <1>2
    <3>2. \A y \in swap(s) : c[y] \in Nat
      BY <1>2
    <3> HIDE DEF swap
    <3> QED
      BY <1>1, <3>1, <3>2, FS_Subset DEF natOn
  <2>4. swap(s) \ {turned(x)} = swap(r) /\ turned(x) \in swap(s)
    BY <1>3
  <2>5. total(c, r) = total(c, swap(r))
    BY <1>6
  <2> HIDE DEF swap
  <2>6. total(c, s) = c[x] + total(c, r)
    BY <2>2, TotalTakeOut
  <2>7. total(c, swap(s)) = c[turned(x)] + total(c, swap(r))
    <3>1. total(c, swap(s)) = c[turned(x)] + total(c, swap(s) \ {turned(x)})
      BY <2>3, <2>4, TotalTakeOut
    <3> QED
      BY <2>4, <3>1
  <2>8. c[turned(x)] = c[x]
    BY <1>2
  <2> QED
    BY <2>5, <2>6, <2>7, <2>8
<1>7. S \in P
  <2> HIDE DEF P
  <2>1. SUBSET S \subseteq P
    BY <1>1, <1>5, <1>6, FiniteInduction
  <2> QED
    BY <2>1
<1> HIDE DEF swap
<1> QED
  BY <1>4, <1>7 DEF S

LEMMA WeightSame ==
  ASSUME NEW T, NEW nt, NEW L, sharedOut(T, nt, L), NEW l \in 0 .. L,
         NEW c, counts(c, nt),
         NEW x \in 0 .. groupsAt(T, nt, l) - 1, NEW y \in 0 .. groupsAt(T, nt, l) - 1, x # y
  PROVE  weight(c, T, l, x, y) = weight(c, T, l, y, x)
<1> DEFINE A == threadsIn(T, l, x)
           B == threadsIn(T, l, y)
<1>1. /\ IsFiniteSet(A) /\ IsFiniteSet(B) /\ natOn(c, A \X B)
      /\ \A t \in A, u \in B : c[<< t, u >>] = c[<< u, t >>]
  BY PairsOfThreads
<1> HIDE DEF A, B
<1>2. total(c, A \X B) = total(c, B \X A)
  BY <1>1, TotalSwap
<1> QED
  BY <1>2 DEF weight, A, B

\* Between two threads it is their count.
LEMMA WeightZero ==
  ASSUME NEW T, NEW c, NEW x, NEW y, c[<< x, y >>] \in Nat
  PROVE  weight(c, T, 0, x, y) = c[<< x, y >>]
<1>1. threadsIn(T, 0, x) = {x} /\ threadsIn(T, 0, y) = {y}
  BY ThreadsZero
<1>2. {x} \X {y} = {<< x, y >>}
  OBVIOUS
<1>3. total(c, {<< x, y >>}) = c[<< x, y >>]
  BY TotalOne
<1> QED
  BY <1>1, <1>2, <1>3 DEF weight

\* The total over the elements of two groups.
weightOfElements(c, T, l, x, y) ==
  LET g == T[l][x + 1]
      h == T[l][y + 1]
      I == (DOMAIN g) \X (DOMAIN h)
  IN total([z \in I |-> weight(c, T, l - 1, g[z[1]], h[z[2]])], I)

\* It is the communication between the threads of the groups.
LEMMA WeightUp ==
  ASSUME NEW T, NEW nt, NEW L, sharedOut(T, nt, L), NEW l \in 1 .. L,
         NEW c, counts(c, nt),
         NEW x \in 0 .. groupsAt(T, nt, l) - 1, NEW y \in 0 .. groupsAt(T, nt, l) - 1, x # y
  PROVE  weight(c, T, l, x, y) = weightOfElements(c, T, l, x, y)
<1> DEFINE g == T[l][x + 1]
           h == T[l][y + 1]
           I == (DOMAIN g) \X (DOMAIN h)
           k == l - 1
           A == threadsIn(T, l, x)
           B == threadsIn(T, l, y)
           q(z) == threadsIn(T, k, g[z[1]]) \X threadsIn(T, k, h[z[2]])
           p == [z \in I |-> q(z)]
<1>1. l \in Nat /\ k \in 0 .. L /\ k = l - 1 /\ l \in 0 .. L
  BY DEF sharedOut
<1> HIDE DEF k
<1>2. /\ g \in Seq(Nat) /\ ToSet(g) \subseteq 0 .. groupsAt(T, nt, k) - 1
      /\ h \in Seq(Nat) /\ ToSet(h) \subseteq 0 .. groupsAt(T, nt, k) - 1
      /\ once(T, l, x, x) /\ once(T, l, x, y) /\ once(T, l, y, y)
  BY <1>1, GroupSets
<1>3. /\ \A i, j \in DOMAIN g : g[i] = g[j] => i = j
      /\ \A i, j \in DOMAIN h : h[i] = h[j] => i = j
      /\ \A i \in DOMAIN g, j \in DOMAIN h : g[i] # h[j]
  BY <1>2 DEF once
<1>4. /\ \A i \in DOMAIN g : g[i] \in 0 .. groupsAt(T, nt, k) - 1
      /\ \A i \in DOMAIN h : h[i] \in 0 .. groupsAt(T, nt, k) - 1
  BY <1>2 DEF ToSet
<1>5. IsFiniteSet(I)
  <2> HIDE DEF g, h
  <2>1. DOMAIN g = 1 .. Len(g) /\ DOMAIN h = 1 .. Len(h) /\ Len(g) \in Int /\ Len(h) \in Int
    BY <1>2
  <2>2. IsFiniteSet(DOMAIN g) /\ IsFiniteSet(DOMAIN h)
    BY <2>1, FS_Interval
  <2> QED
    BY <2>2, FS_Product
<1>6. /\ A = UNION {threadsIn(T, k, u) : u \in ToSet(g)}
      /\ B = UNION {threadsIn(T, k, v) : v \in ToSet(h)}
  BY <1>1, ThreadsUp
<1>7. /\ ToSet(g) = {g[i] : i \in DOMAIN g} /\ ToSet(h) = {h[i] : i \in DOMAIN h}
  BY DEF ToSet
<1>8. apart(T, nt, k)
  BY <1>1, ThreadsApart
<1> HIDE DEF g, h
<1>9. \A z \in I : z = << z[1], z[2] >> /\ z[1] \in DOMAIN g /\ z[2] \in DOMAIN h
  OBVIOUS
<1>10. A \X B = UNION {q(z) : z \in I}
  <2>1. /\ A = UNION {threadsIn(T, k, g[i]) : i \in DOMAIN g}
        /\ B = UNION {threadsIn(T, k, h[i]) : i \in DOMAIN h}
    BY <1>6, <1>7
  <2> HIDE DEF A, B
  <2>2. ASSUME NEW w \in A \X B PROVE \E z \in I : w \in q(z)
    <3>1. w = << w[1], w[2] >> /\ w[1] \in A /\ w[2] \in B
      OBVIOUS
    <3>2. PICK i \in DOMAIN g, j \in DOMAIN h :
             w[1] \in threadsIn(T, k, g[i]) /\ w[2] \in threadsIn(T, k, h[j])
      BY <2>1, <3>1
    <3>3. << i, j >> \in I /\ w \in q(<< i, j >>)
      BY <3>1, <3>2
    <3> HIDE DEF I, q
    <3> QED
      BY <3>3
  <2>3. ASSUME NEW z \in I PROVE q(z) \subseteq A \X B
    BY <1>9, <2>1
  <2> HIDE DEF I, q
  <2> QED
    BY <2>2, <2>3
<1>11. \A z \in I : IsFiniteSet(q(z)) /\ natOn(c, q(z))
  <2> TAKE z \in I
  <2>1. g[z[1]] \in 0 .. groupsAt(T, nt, k) - 1 /\ h[z[2]] \in 0 .. groupsAt(T, nt, k) - 1
        /\ g[z[1]] # h[z[2]]
    BY <1>3, <1>4, <1>9
  <2> HIDE DEF I
  <2> QED
    BY <1>1, <2>1, PairsOfThreads
<1>12. \A y1, z1 \in I : y1 # z1 => q(y1) \cap q(z1) = {}
  <2> SUFFICES ASSUME NEW y1 \in I, NEW z1 \in I, y1 # z1,
                      NEW w \in q(y1), w \in q(z1)
               PROVE  FALSE
    OBVIOUS
  <2>1. /\ w[1] \in threadsIn(T, k, g[y1[1]]) /\ w[1] \in threadsIn(T, k, g[z1[1]])
        /\ w[2] \in threadsIn(T, k, h[y1[2]]) /\ w[2] \in threadsIn(T, k, h[z1[2]])
    OBVIOUS
  <2> HIDE DEF I, q
  <2>2. g[y1[1]] = g[z1[1]] /\ h[y1[2]] = h[z1[2]]
    BY <1>4, <1>8, <1>9, <2>1 DEF apart
  <2>3. y1[1] = z1[1] /\ y1[2] = z1[2]
    BY <1>3, <1>9, <2>2
  <2> QED
    BY <1>9, <2>3
<1>13. /\ \A z \in I : p[z] = q(z)
       /\ \A z \in I : IsFiniteSet(p[z]) /\ natOn(c, p[z])
       /\ \A y1, z1 \in I : y1 # z1 => p[y1] \cap p[z1] = {}
  <2> HIDE DEF q, I
  <2> QED
    BY <1>11, <1>12
<1>14. UNION {p[z] : z \in I} = A \X B
  <2> HIDE DEF q, I, p, A, B
  <2> QED
    BY <1>10, <1>13
<1>15. [z \in I |-> total(c, p[z])] = [z \in I |-> weight(c, T, l - 1, g[z[1]], h[z[2]])]
  <2>1. \A z \in I : total(c, p[z]) = weight(c, T, l - 1, g[z[1]], h[z[2]])
    BY <1>1, <1>13 DEF weight
  <2> HIDE DEF p, I
  <2> QED
    BY <2>1
<1> HIDE DEF I, p, q, A, B
<1>16. total(c, UNION {p[z] : z \in I}) = total([z \in I |-> total(c, p[z])], I)
  BY <1>5, <1>13, TotalParts
<1>17. weight(c, T, l, x, y) = total(c, A \X B)
  BY DEF weight, A, B
<1> QED
  BY <1>14, <1>15, <1>16, <1>17 DEF g, h, I, weightOfElements

-----------------------------------------------------------------------------
(* What is read and what is stored *)

\* The count of two threads, in either order.
countOf(M) ==
  [tu \in Elements \X Elements |->
     M[IF tu[1] > tu[2] THEN << tu[1], tu[2] >> ELSE << tu[2], tu[1] >>]]

groupWeight(l, i, j) == weight(countOf(spcd_matrix), groups, l, i, j)

LEMMA CountsAre ==
  ASSUME Typed, nthreads \in Threads
  PROVE  /\ counts(countOf(spcd_matrix), nthreads)
         /\ \A t, u \in 0 .. nthreads - 1 :
              countOf(spcd_matrix)[<< t, u >>] = comm_matrix_ptr_el(1, t, u)
<1> DEFINE N == Max(Threads)
<1>1. N \in Nat /\ nthreads \in Nat /\ nthreads <= N /\ Elements = 0 .. N - 1
  BY RowsEnough, GreedyAssumption DEF Elements
<1> HIDE DEF N
<1>2. \A t, u \in 0 .. nthreads - 1 : t \in Elements /\ u \in Elements
                                      /\ t \in Nat /\ u \in Nat
  BY <1>1
<1>3. \A t, u \in 0 .. nthreads - 1 :
        countOf(spcd_matrix)[<< t, u >>]
          = spcd_matrix[IF t > u THEN << t, u >> ELSE << u, t >>]
  BY <1>2 DEF countOf
<1>4. \A t, u \in 0 .. nthreads - 1 : t > u => << t, u >> \in Cells
  BY <1>2 DEF Cells
<1>5. \A c \in Cells : spcd_matrix[c] \in Nat
  BY GreedyAssumption DEF Typed
<1>6. \A t, u \in 0 .. nthreads - 1 : t # u => t > u \/ u > t
  BY <1>2
<1>7. counts(countOf(spcd_matrix), nthreads)
  <2> SUFFICES ASSUME NEW t \in 0 .. nthreads - 1, NEW u \in 0 .. nthreads - 1, t # u
               PROVE  /\ countOf(spcd_matrix)[<< t, u >>] \in Nat
                      /\ countOf(spcd_matrix)[<< t, u >>] = countOf(spcd_matrix)[<< u, t >>]
    BY DEF counts
  <2>1. t \in Nat /\ u \in Nat
    BY <1>2
  <2>2. CASE t > u
    <3>1. ~(u > t) /\ << t, u >> \in Cells
      BY <1>4, <2>1, <2>2
    <3>2. countOf(spcd_matrix)[<< t, u >>] = spcd_matrix[<< t, u >>]
      BY <1>3, <2>2
    <3>3. countOf(spcd_matrix)[<< u, t >>] = spcd_matrix[<< t, u >>]
      BY <1>3, <3>1
    <3> QED
      BY <1>5, <3>1, <3>2, <3>3
  <2>3. CASE u > t
    <3>1. ~(t > u) /\ << u, t >> \in Cells
      BY <1>4, <2>1, <2>3
    <3>2. countOf(spcd_matrix)[<< u, t >>] = spcd_matrix[<< u, t >>]
      BY <1>3, <2>3
    <3>3. countOf(spcd_matrix)[<< t, u >>] = spcd_matrix[<< u, t >>]
      BY <1>3, <3>1
    <3> QED
      BY <1>5, <3>1, <3>2, <3>3
  <2> QED
    BY <1>6, <2>2, <2>3
<1> QED
  BY <1>3, <1>7 DEF comm_matrix_ptr_el

\* The levels that are finished.
finished == IF pc = "sum" THEN level ELSE level - 1

LEMMA FinishedLevels ==
  ASSUME GInv, pc \in {"search", "sum"}
  PROVE  /\ finished \in Nat /\ grouped = 1 .. finished
         /\ sharedOut(groups, nthreads, finished)
         /\ \A l \in Nat : nGroupsAt(l) = groupsAt(groups, nthreads, l)
<1>1. /\ levels_n \in Nat /\ level \in 1 .. levels_n - 1 /\ level \in Nat
      /\ nthreads \in Nat
      /\ groups \in [1 .. levels_n - 1 -> Seq(Seq(Nat))]
  BY Here DEF GInv, Typed, working
<1>2. finished \in Nat /\ finished <= level /\ grouped = 1 .. finished
  BY <1>1 DEF finished, grouped
<1>3. \A l \in Nat : nGroupsAt(l) = groupsAt(groups, nthreads, l)
  BY DEF nGroupsAt, groupsAt
<1>4. ASSUME NEW l \in 1 .. finished
      PROVE  /\ groups[l] \in Seq(Seq(Nat)) /\ OnePlaceEach(groups[l])
             /\ placed(groups[l]) = 0 .. groupsAt(groups, nthreads, l - 1) - 1
  <2>1. l \in 1 .. levels_n - 1 /\ l - 1 \in Nat
    BY <1>1, <1>2
  <2>2. Complete(groups[l], nGroupsAt(l - 1), exec_el_in_level[l])
    BY <1>2 DEF GInv, LowerComplete
  <2> QED
    BY <1>1, <1>3, <2>1, <2>2 DEF Complete
<1>5. sharedOut(groups, nthreads, finished)
  BY <1>1, <1>2, <1>4 DEF sharedOut
<1> QED
  BY <1>2, <1>3, <1>5

\* What a level above the threads' reads.
ReadExact ==
  pc \in {"search", "sum"} /\ level > 1 =>
    \A i, j \in 0 .. nelements - 1 :
      i < j => matrix[buffer(level)][<< j, i >>] = groupWeight(level - 1, i, j) % UINT_RANGE

LEMMA ReadIs ==
  ASSUME GInv, ReadExact, pc \in {"search", "sum"},
         NEW i \in 0 .. nelements - 1, NEW j \in 0 .. nelements - 1, i # j
  PROVE  /\ groupWeight(level - 1, i, j) \in Nat
         /\ level > 1 => comm_matrix_ptr_el(level, i, j)
                           = groupWeight(level - 1, i, j) % UINT_RANGE
         /\ level = 1 => comm_matrix_ptr_el(level, i, j) = groupWeight(level - 1, i, j)
         /\ rem(comm_matrix_ptr_el(level, i, j), UINT_RANGE)
              = rem(groupWeight(level - 1, i, j), UINT_RANGE)
<1> DEFINE w == groupWeight(level - 1, i, j)
           k == level - 1
<1>1. /\ sharedOut(groups, nthreads, finished) /\ level \in Nat \ {0}
      /\ nthreads \in Threads /\ nthreads \in Nat /\ nelements \in Nat
      /\ finished \in Nat /\ level - 1 \in 0 .. finished
      /\ counts(countOf(spcd_matrix), nthreads)
  <2>1. level \in Nat \ {0} /\ nthreads \in Threads /\ nthreads \in Nat /\ nelements \in Nat
    BY Here DEF GInv
  <2>2. finished \in Nat /\ sharedOut(groups, nthreads, finished)
    BY FinishedLevels
  <2>3. level - 1 \in 0 .. finished
    BY <2>1, <2>2 DEF finished
  <2>4. counts(countOf(spcd_matrix), nthreads)
    BY <2>1, CountsAre DEF GInv
  <2> QED
    BY <2>1, <2>2, <2>3, <2>4
<1>2. nelements = groupsAt(groups, nthreads, level - 1)
  BY <1>1, FinishedLevels DEF nelements
<1>3. UINT_RANGE \in Nat \ {0}
  BY GreedyAssumption
<1>4. /\ w \in Nat /\ w = groupWeight(level - 1, j, i)
  <2>1. weight(countOf(spcd_matrix), groups, level - 1, i, j) \in Nat
    BY <1>1, <1>2, PairsOfThreads
  <2>2. weight(countOf(spcd_matrix), groups, level - 1, i, j)
          = weight(countOf(spcd_matrix), groups, level - 1, j, i)
    BY <1>1, <1>2, WeightSame
  <2> QED
    BY <2>1, <2>2 DEF groupWeight
<1>5. level > 1 => comm_matrix_ptr_el(level, i, j) = w % UINT_RANGE
  <2> SUFFICES ASSUME level > 1 PROVE comm_matrix_ptr_el(level, i, j) = w % UINT_RANGE
    OBVIOUS
  <2>1. comm_matrix_ptr_el(level, i, j)
          = matrix[buffer(level)][IF i > j THEN << i, j >> ELSE << j, i >>]
    BY DEF comm_matrix_ptr_el
  <2>2. CASE i < j
    <3>1. matrix[buffer(level)][<< j, i >>] = w % UINT_RANGE
      BY <2>2 DEF ReadExact
    <3>2. ~(i > j)
      BY <1>1, <2>2
    <3> QED
      BY <2>1, <3>1, <3>2
  <2>3. CASE j < i
    <3>1. matrix[buffer(level)][<< i, j >>] = groupWeight(level - 1, j, i) % UINT_RANGE
      BY <2>3 DEF ReadExact
    <3>2. i > j
      BY <1>1, <2>3
    <3> HIDE DEF w
    <3> QED
      BY <1>4, <2>1, <3>1, <3>2
  <2>4. i < j \/ j < i
    BY <1>1
  <2> QED
    BY <2>2, <2>3, <2>4
<1>6. level = 1 => comm_matrix_ptr_el(level, i, j) = w
  <2> SUFFICES ASSUME level = 1 PROVE comm_matrix_ptr_el(1, i, j) = w
    OBVIOUS
  <2>1. nelements = nthreads /\ level - 1 = 0
    BY <1>2 DEF groupsAt
  <2>2. countOf(spcd_matrix)[<< i, j >>] = comm_matrix_ptr_el(1, i, j)
    BY <1>1, <2>1, CountsAre DEF GInv
  <2>3. weight(countOf(spcd_matrix), groups, 0, i, j) = countOf(spcd_matrix)[<< i, j >>]
    <3> DEFINE c == countOf(spcd_matrix)
    <3>1. i \in 0 .. nthreads - 1 /\ j \in 0 .. nthreads - 1 /\ counts(c, nthreads)
      BY <1>1, <2>1
    <3> HIDE DEF c
    <3>2. c[<< i, j >>] \in Nat
      BY <3>1 DEF counts
    <3>3. weight(c, groups, 0, i, j) = c[<< i, j >>]
      BY <3>2, WeightZero
    <3> QED
      BY <3>3 DEF c
  <2> QED
    BY <2>1, <2>2, <2>3 DEF groupWeight
<1> HIDE DEF w
<1>7. rem(comm_matrix_ptr_el(level, i, j), UINT_RANGE) = rem(w, UINT_RANGE)
  <2>1. CASE level = 1
    BY <1>6, <2>1
  <2>2. CASE level > 1
    <3> DEFINE r == w % UINT_RANGE
    <3>1. r \in 0 .. UINT_RANGE - 1
      BY <1>3, <1>4
    <3>2. comm_matrix_ptr_el(level, i, j) = r
      BY <1>5, <2>2
    <3> HIDE DEF r
    <3>3. (0 * UINT_RANGE + r) % UINT_RANGE = r
      BY <1>3, <3>1, Remainder
    <3>4. 0 * UINT_RANGE + r = r
      BY <1>3, <3>1
    <3> QED
      BY <3>2, <3>3, <3>4 DEF rem, r
  <2> QED
    BY <1>1, <2>1, <2>2
<1> QED
  BY <1>4, <1>5, <1>6, <1>7 DEF w

\* It is that of their threads, modulo the width of an element.
LEMMA BetweenWeight ==
  ASSUME GInv, ReadExact, pc = "sum",
         NEW i \in 0 .. Len(groups[level]) - 1, NEW j \in 0 .. Len(groups[level]) - 1,
         i # j
  PROVE  rem(between(i, j), UINT_RANGE) = rem(groupWeight(level, i, j), UINT_RANGE)
<1> DEFINE g == groups[level][i + 1]
           k == groups[level][j + 1]
           S == (DOMAIN g) \X (DOMAIN k)
           f == [x \in S |-> comm_matrix_ptr_el(level, g[x[1]], k[x[2]])]
           h == [x \in S |-> groupWeight(level - 1, g[x[1]], k[x[2]])]
           c == countOf(spcd_matrix)
<1>1. /\ IsFiniteSet(S) /\ natOn(f, S)
      /\ between(i, j) = total(f, S)
      /\ \A x \in S : /\ g[x[1]] \in 0 .. nelements - 1
                      /\ k[x[2]] \in 0 .. nelements - 1
                      /\ g[x[1]] # k[x[2]]
  BY BetweenIs
<1> HIDE DEF g, k
<1>2. ASSUME NEW x \in S
      PROVE  /\ groupWeight(level - 1, g[x[1]], k[x[2]]) \in Nat
             /\ rem(comm_matrix_ptr_el(level, g[x[1]], k[x[2]]), UINT_RANGE)
                  = rem(groupWeight(level - 1, g[x[1]], k[x[2]]), UINT_RANGE)
  <2> DEFINE y == g[x[1]]
             z == k[x[2]]
  <2>1. y \in 0 .. nelements - 1 /\ z \in 0 .. nelements - 1 /\ y # z
    BY <1>1
  <2> HIDE DEF y, z
  <2>2. /\ groupWeight(level - 1, y, z) \in Nat
        /\ rem(comm_matrix_ptr_el(level, y, z), UINT_RANGE)
             = rem(groupWeight(level - 1, y, z), UINT_RANGE)
    BY <2>1, ReadIs
  <2> QED
    BY <2>2 DEF y, z
<1>3. natOn(h, S) /\ \A x \in S : rem(f[x], UINT_RANGE) = rem(h[x], UINT_RANGE)
  <2> HIDE DEF S
  <2> QED
    BY <1>2 DEF natOn
<1>4. UINT_RANGE \in Nat \ {0}
  BY GreedyAssumption
<1>5. rem(total(f, S), UINT_RANGE) = rem(total(h, S), UINT_RANGE)
  <2> HIDE DEF S, f, h
  <2> QED
    BY <1>1, <1>3, <1>4, TotalModulo
<1>6. groupWeight(level, i, j) = total(h, S)
  <2>1. /\ sharedOut(groups, nthreads, level) /\ level \in 1 .. level
        /\ groupsAt(groups, nthreads, level) = Len(groups[level])
    <3>1. level \in Nat \ {0}
      BY Here DEF GInv
    <3>2. sharedOut(groups, nthreads, finished)
      BY FinishedLevels
    <3> QED
      BY <3>1, <3>2 DEF finished, groupsAt
  <2>2. counts(c, nthreads)
    BY Here, CountsAre DEF GInv
  <2> HIDE DEF c
  <2>3. weight(c, groups, level, i, j) = weightOfElements(c, groups, level, i, j)
    BY <2>1, <2>2, WeightUp
  <2>4. weightOfElements(c, groups, level, i, j)
          = total([x \in S |-> weight(c, groups, level - 1, g[x[1]], k[x[2]])], S)
    BY DEF weightOfElements, g, k
  <2> QED
    BY <2>3, <2>4 DEF groupWeight, c
<1> HIDE DEF S, f, h
<1> QED
  BY <1>1, <1>5, <1>6

-----------------------------------------------------------------------------
(* The sums are exact as long as nothing is counted *)

\* What comes during the mapping is added.
OnlyMore ==
  /\ start \in [Cells -> Nat] /\ spcd_matrix \in [Cells -> Nat]
  /\ \A c \in Cells : start[c] <= spcd_matrix[c]

\* The sums stored so far for the next level.
SumsExact ==
  pc = "sum" /\ level < levels_n - 1 =>
    \A i, j \in 0 .. Len(groups[level]) - 1 :
      i < j /\ (i < pair[1] \/ (i = pair[1] /\ j < pair[2])) =>
        matrix[buffer(level + 1)][<< j, i >>] = groupWeight(level, i, j) % UINT_RANGE

EInv == OnlyMore /\ (quiet => SumsExact /\ ReadExact)

\* A step that changes neither sums nor what they are of.
LEMMA ExactSame ==
  ASSUME EInv,
         UNCHANGED << pc, nthreads, levels_n, commVars, groups, level, pair >>
  PROVE  EInv'
<1>1. /\ pc' = pc /\ nthreads' = nthreads /\ levels_n' = levels_n
      /\ spcd_matrix' = spcd_matrix /\ start' = start /\ matrix' = matrix
      /\ groups' = groups /\ level' = level /\ pair' = pair
  BY DEF commVars
<1>2. OnlyMore' = OnlyMore /\ quiet' = quiet
  BY <1>1 DEF OnlyMore, quiet
<1>3. nelements' = nelements
  BY <1>1 DEF nelements, nGroupsAt
<1>4. SumsExact => SumsExact'
  <2> SUFFICES ASSUME SumsExact, pc' = "sum", level' < levels_n' - 1,
                      NEW i \in 0 .. Len(groups'[level']) - 1,
                      NEW j \in 0 .. Len(groups'[level']) - 1,
                      i < j, i < pair'[1] \/ (i = pair'[1] /\ j < pair'[2])
               PROVE  matrix'[buffer(level + 1)'][<< j, i >>] = groupWeight(level, i, j)' % UINT_RANGE
    BY DEF SumsExact
  <2>1. matrix[buffer(level + 1)][<< j, i >>] = groupWeight(level, i, j) % UINT_RANGE
    BY <1>1 DEF SumsExact
  <2>2. groupWeight(level, i, j)' = groupWeight(level, i, j)
    BY <1>1 DEF groupWeight
  <2>3. buffer(level + 1)' = buffer(level + 1)
    BY <1>1 DEF buffer
  <2> QED
    BY <1>1, <2>1, <2>2, <2>3
<1>5. ReadExact => ReadExact'
  <2> SUFFICES ASSUME ReadExact, pc' \in {"search", "sum"}, level' > 1,
                      NEW i \in 0 .. nelements' - 1, NEW j \in 0 .. nelements' - 1, i < j
               PROVE  matrix'[buffer(level)'][<< j, i >>] = groupWeight(level - 1, i, j)' % UINT_RANGE
    BY DEF ReadExact
  <2>1. matrix[buffer(level)][<< j, i >>] = groupWeight(level - 1, i, j) % UINT_RANGE
    BY <1>1, <1>3 DEF ReadExact
  <2>2. groupWeight(level - 1, i, j)' = groupWeight(level - 1, i, j)
    BY <1>1 DEF groupWeight
  <2>3. buffer(level)' = buffer(level)
    BY <1>1 DEF buffer
  <2> QED
    BY <1>1, <2>1, <2>2, <2>3
<1> QED
  BY <1>2, <1>4, <1>5 DEF EInv

\* A step to where nothing is read.
LEMMA ExactElsewhere ==
  ASSUME EInv, pc' \notin {"search", "sum"}, UNCHANGED << spcd_matrix, start >>
  PROVE  EInv'
<1>1. OnlyMore'
  BY DEF EInv, OnlyMore
<1>2. SumsExact' /\ ReadExact'
  BY DEF SumsExact, ReadExact
<1> QED
  BY <1>1, <1>2 DEF EInv

LEMMA ExactStart ==
  ASSUME NEW nt \in Threads, NEW pattern \in Patterns, Start(nt, pattern)
  PROVE  EInv'
<1>1. spcd_matrix' = pattern /\ start' = pattern /\ level' = 1 /\ pc' # "sum"
  BY DEF Start
<1>2. pattern \in [Cells -> 0 .. MaxComm] /\ MaxComm \in Nat
  BY PatternsAssumption, GreedyAssumption
<1>3. OnlyMore'
  <2>1. \A c \in Cells : pattern[c] \in Nat
    BY <1>2
  <2>2. pattern \in [Cells -> Nat]
    BY <1>2, <2>1
  <2> QED
    BY <1>1, <2>1, <2>2 DEF OnlyMore
<1>4. SumsExact' /\ ReadExact'
  BY <1>1 DEF SumsExact, ReadExact
<1> QED
  BY <1>3, <1>4 DEF EInv

LEMMA ExactSleep == ASSUME Sleep PROVE EInv'
<1>1. spcd_matrix' = [c \in Cells |-> 0] /\ start' = spcd_matrix' /\ pc' = "idle"
  BY DEF Sleep
<1>2. OnlyMore'
  BY <1>1 DEF OnlyMore
<1>3. SumsExact' /\ ReadExact'
  BY <1>1 DEF SumsExact, ReadExact
<1> QED
  BY <1>2, <1>3 DEF EInv

\* With a fault nothing is claimed until the next mapping.
LEMMA ExactCommunicate ==
  ASSUME EInv, NEW c \in Cells, Communicate(c)
  PROVE  EInv'
<1>1. spcd_matrix' = [spcd_matrix EXCEPT ![c] = @ + 1] /\ start' = start
  BY DEF Communicate
<1>2. /\ start \in [Cells -> Nat] /\ spcd_matrix \in [Cells -> Nat]
      /\ \A d \in Cells : start[d] <= spcd_matrix[d]
  BY DEF EInv, OnlyMore
<1>3. /\ spcd_matrix' \in [Cells -> Nat]
      /\ \A d \in Cells : spcd_matrix'[d] = IF d = c THEN spcd_matrix[c] + 1 ELSE spcd_matrix[d]
  BY <1>1, <1>2
<1>4. OnlyMore'
  <2>1. \A d \in Cells : start[d] <= spcd_matrix'[d]
    <3>1. TAKE d \in Cells
    <3>2. start[d] \in Nat /\ spcd_matrix[d] \in Nat
      BY <1>2
    <3> QED
      BY <1>2, <1>3, <3>2
  <2> QED
    BY <1>1, <1>2, <1>3, <2>1 DEF OnlyMore
<1>5. ~quiet'
  <2>1. start[c] \in Nat /\ spcd_matrix[c] \in Nat /\ start[c] <= spcd_matrix[c]
    BY <1>2
  <2>2. spcd_matrix'[c] = spcd_matrix[c] + 1
    BY <1>3
  <2>3. spcd_matrix'[c] # start'[c]
    BY <1>1, <2>1, <2>2
  <2> QED
    BY <2>3 DEF quiet
<1> QED
  BY <1>4, <1>5 DEF EInv

\* A finished group is of the level in progress.
LEMMA ExactFinishGroup ==
  ASSUME GInv, GInv', EInv, FinishGroup
  PROVE  EInv'
<1>1. /\ pc = "search" /\ pc' \in {"search", "sum"} /\ level' = level
      /\ nthreads' = nthreads /\ levels_n' = levels_n
      /\ spcd_matrix' = spcd_matrix /\ start' = start /\ matrix' = matrix
      /\ groups' = [groups EXCEPT ![level] = Append(@, group)]
      /\ pc' = "sum" => pair' = << 0, 1 >>
  BY DEF FinishGroup, inputVars, treeVars, commVars
<1>2. /\ levels_n \in Nat /\ level \in 1 .. levels_n - 1 /\ level \in Nat
      /\ groups \in [1 .. levels_n - 1 -> Seq(Seq(Nat))]
      /\ nthreads \in Threads
  BY <1>1, Here DEF GInv, Typed, working
<1>3. \A l \in 1 .. level - 1 : groups'[l] = groups[l]
  BY <1>1, <1>2
<1>4. OnlyMore' = OnlyMore /\ quiet' = quiet
  BY <1>1 DEF OnlyMore, quiet
<1>5. SumsExact'
  <2> SUFFICES ASSUME pc' = "sum",
                      NEW i \in 0 .. Len(groups'[level]) - 1,
                      NEW j \in 0 .. Len(groups'[level]) - 1,
                      i < j, i < 0 \/ (i = 0 /\ j < 1)
               PROVE  FALSE
    BY <1>1 DEF SumsExact
  <2> QED
    OBVIOUS
<1>6. sharedOut(groups, nthreads, level - 1) /\ sharedOut(groups', nthreads, level - 1)
  <2>1. sharedOut(groups, nthreads, level - 1)
    BY <1>1, FinishedLevels DEF finished
  <2>2. ASSUME NEW l \in 1 .. level - 1
        PROVE  groupsAt(groups', nthreads, l - 1) = groupsAt(groups, nthreads, l - 1)
    <3>1. l - 1 # 0 => l - 1 \in 1 .. level - 1
      BY <1>2
    <3> QED
      BY <1>3, <3>1 DEF groupsAt
  <2> QED
    BY <1>3, <2>1, <2>2 DEF sharedOut
<1>7. nelements' = nelements /\ nelements = groupsAt(groups, nthreads, level - 1)
  <2>1. level - 1 # 0 => level - 1 \in 1 .. level - 1
    BY <1>2
  <2> QED
    BY <1>1, <1>2, <1>3, <2>1 DEF nelements, nGroupsAt, groupsAt
<1>8. ASSUME NEW i \in 0 .. nelements - 1, NEW j \in 0 .. nelements - 1
      PROVE  groupWeight(level - 1, i, j)' = groupWeight(level - 1, i, j)
  <2> DEFINE k == level - 1
  <2>1. k \in 0 .. k /\ k' = k
    BY <1>1, <1>2
  <2> HIDE DEF k
  <2>2. /\ threadsIn(groups, k, i) = threadsIn(groups', k, i)
        /\ threadsIn(groups, k, j) = threadsIn(groups', k, j)
    BY <1>3, <1>6, <1>7, <2>1, ThreadsSame DEF k
  <2> QED
    BY <1>1, <2>1, <2>2 DEF groupWeight, weight, k
<1>9. ReadExact => ReadExact'
  <2> SUFFICES ASSUME ReadExact, level > 1,
                      NEW i \in 0 .. nelements - 1, NEW j \in 0 .. nelements - 1, i < j
               PROVE  matrix[buffer(level)][<< j, i >>] = groupWeight(level - 1, i, j)' % UINT_RANGE
    BY <1>1, <1>7 DEF ReadExact, buffer
  <2>1. matrix[buffer(level)][<< j, i >>] = groupWeight(level - 1, i, j) % UINT_RANGE
    BY <1>1 DEF ReadExact
  <2> QED
    BY <1>8, <2>1
<1> QED
  BY <1>4, <1>5, <1>9 DEF EInv

\* The sum of a pair of groups is that of their threads.
LEMMA ExactSumPair ==
  ASSUME GInv, EInv, SumPair
  PROVE  EInv'
<1> DEFINE w == stored(between(pair[1], pair[2]))
           c == << pair[2], pair[1] >>
           N == Len(groups[level])
           b == buffer(level + 1)
           M == matrix[b]
<1>1. /\ pc = "sum" /\ pc' = "sum" /\ level' = level /\ groups' = groups
      /\ nthreads' = nthreads /\ levels_n' = levels_n
      /\ spcd_matrix' = spcd_matrix /\ start' = start
      /\ level < levels_n - 1 /\ ~allPairsDone
      /\ matrix' = [matrix EXCEPT ![b][c] = w]
      /\ pair' = IF pair[2] + 1 < N THEN << pair[1], pair[2] + 1 >>
                 ELSE << pair[1] + 1, pair[1] + 2 >>
  BY DEF SumPair, inputVars, treeVars, groupVars
<1>2. /\ pair \in Nat \X Nat /\ pair[1] < pair[2] /\ N \in Nat
      /\ pair[2] < N /\ level \in Nat \ {0} /\ N <= nthreads
      /\ pair[1] \in 0 .. N - 1 /\ pair[2] \in 0 .. N - 1 /\ pair[1] # pair[2]
  <2>1. groups[level] \in Seq(Seq(Nat)) /\ level \in Nat \ {0}
    BY <1>1, Here DEF GInv
  <2>2. N \in Nat
    BY <2>1
  <2>3. pair \in Nat \X Nat /\ pair[1] < pair[2]
        /\ (pair[1] < N - 1 => pair[2] < N)
    BY <1>1 DEF GInv, Summed
  <2>4. N <= nthreads
    BY <1>1, <2>1, Here DEF GInv, LowerComplete, grouped
  <2>5. ~(pair[1] >= N - 1)
    BY <1>1 DEF allPairsDone
  <2> HIDE DEF N
  <2> QED
    BY <2>1, <2>2, <2>3, <2>4, <2>5
<1>3. b \in 0 .. 1 /\ buffer(level) \in 0 .. 1 /\ b # buffer(level)
  BY <1>2 DEF buffer
<1>4. \A i, j \in 0 .. N - 1 : i < j => << j, i >> \in Cells
  <2>1. nthreads \in Nat /\ Max(Threads) \in Nat /\ nthreads <= Max(Threads)
    BY <1>1, Here, RowsEnough DEF GInv
  <2> HIDE DEF N
  <2>2. \A i \in 0 .. N - 1 : i \in 0 .. Max(Threads) - 1
    BY <1>2, <2>1
  <2> QED
    BY <2>2 DEF Cells, Elements
<1>5. matrix \in [0 .. 1 -> [Cells -> 0 .. UINT_RANGE - 1 \cup {Unknown}]]
  BY DEF GInv, Typed
<1> HIDE DEF w, c, b
<1>6. /\ matrix'[buffer(level)] = matrix[buffer(level)]
      /\ matrix'[b] = [M EXCEPT ![c] = w]
      /\ DOMAIN M = Cells
  BY <1>1, <1>3, <1>5
<1>7. \A d \in Cells : matrix'[b][d] = IF d = c THEN w ELSE M[d]
  <2> HIDE DEF M
  <2> QED
    BY <1>6
<1>8. OnlyMore' = OnlyMore /\ quiet' = quiet
  BY <1>1 DEF OnlyMore, quiet
<1>9. nelements' = nelements
  BY <1>1 DEF nelements, nGroupsAt
<1>10. ReadExact => ReadExact'
  <2> SUFFICES ASSUME ReadExact, level > 1,
                      NEW i \in 0 .. nelements - 1, NEW j \in 0 .. nelements - 1, i < j
               PROVE  matrix'[buffer(level)][<< j, i >>]
                        = groupWeight(level - 1, i, j)' % UINT_RANGE
    BY <1>1, <1>9 DEF ReadExact, buffer
  <2>1. matrix[buffer(level)][<< j, i >>] = groupWeight(level - 1, i, j) % UINT_RANGE
    BY <1>1 DEF ReadExact
  <2>2. groupWeight(level - 1, i, j)' = groupWeight(level - 1, i, j)
    BY <1>1 DEF groupWeight
  <2> QED
    BY <1>6, <2>1, <2>2
<1>11. SumsExact /\ ReadExact => SumsExact'
  <2> SUFFICES ASSUME SumsExact, ReadExact,
                      NEW i \in 0 .. N - 1, NEW j \in 0 .. N - 1, i < j,
                      i < pair'[1] \/ (i = pair'[1] /\ j < pair'[2])
               PROVE  matrix'[b][<< j, i >>] = groupWeight(level, i, j)' % UINT_RANGE
    BY <1>1 DEF SumsExact, buffer, b
  <2>1. groupWeight(level, i, j)' = groupWeight(level, i, j)
    BY <1>1 DEF groupWeight
  <2>2. << j, i >> \in Cells
    BY <1>4
  <2>3. \/ i < pair[1] \/ (i = pair[1] /\ j < pair[2])
        \/ i = pair[1] /\ j = pair[2]
    <3> HIDE DEF N
    <3>1. i \in Nat /\ j \in Nat /\ j < N
      BY <1>2
    <3>2. CASE pair[2] + 1 < N
      <4>1. pair' = << pair[1], pair[2] + 1 >>
        BY <1>1, <3>2
      <4> QED
        BY <1>2, <3>1, <4>1
    <3>3. CASE ~(pair[2] + 1 < N)
      <4>1. pair' = << pair[1] + 1, pair[1] + 2 >>
        BY <1>1, <3>3
      <4> QED
        BY <1>2, <3>1, <3>3, <4>1
    <3> QED
      BY <3>2, <3>3
  <2>4. CASE i = pair[1] /\ j = pair[2]
    <3>1. rem(between(i, j), UINT_RANGE) = rem(groupWeight(level, i, j), UINT_RANGE)
      BY <1>1, <1>2, <2>4, BetweenWeight
    <3>2. << j, i >> = c /\ w = between(i, j) % UINT_RANGE
      BY <2>4 DEF c, w, stored
    <3>3. matrix'[b][<< j, i >>] = w
      BY <1>7, <2>2, <3>2
    <3> QED
      BY <2>1, <3>1, <3>2, <3>3 DEF rem
  <2>5. CASE i < pair[1] \/ (i = pair[1] /\ j < pair[2])
    <3>1. M[<< j, i >>] = groupWeight(level, i, j) % UINT_RANGE
      BY <1>1, <2>5 DEF SumsExact, b
    <3>2. << j, i >> # c
      <4>1. ~(i = pair[1] /\ j = pair[2])
        BY <1>2, <2>5
      <4> QED
        BY <4>1 DEF c
    <3> HIDE DEF M
    <3> QED
      BY <1>7, <2>1, <2>2, <3>1, <3>2
  <2> QED
    BY <2>3, <2>4, <2>5
<1> QED
  BY <1>8, <1>10, <1>11 DEF EInv

\* The next level reads what the last one stored.
LEMMA ExactNextLevel ==
  ASSUME GInv, EInv, NextLevel
  PROVE  EInv'
<1> DEFINE N == Len(groups[level])
<1>1. /\ pc = "sum" /\ level' = level + 1 /\ groups' = groups /\ nthreads' = nthreads
      /\ pc' = (IF level + 1 < levels_n THEN "search" ELSE "root")
      /\ spcd_matrix' = spcd_matrix /\ start' = start /\ matrix' = matrix
      /\ level = levels_n - 1 \/ allPairsDone
  BY DEF NextLevel, inputVars, treeVars, commVars
<1>2. levels_n \in Nat /\ level \in 1 .. levels_n - 1 /\ groups[level] \in Seq(Seq(Nat))
  BY <1>1, Here DEF GInv
<1>3. CASE pc' = "root"
  BY <1>1, <1>3, ExactElsewhere
<1>4. CASE pc' = "search"
  <2>1. level < levels_n - 1 /\ allPairsDone /\ N \in Nat
    BY <1>1, <1>2, <1>4
  <2>2. nelements' = N
    BY <1>1, <1>2 DEF nelements, nGroupsAt
  <2>3. OnlyMore' = OnlyMore /\ quiet' = quiet
    BY <1>1 DEF OnlyMore, quiet
  <2>4. SumsExact'
    BY <1>4 DEF SumsExact
  <2>5. SumsExact => ReadExact'
    <3> SUFFICES ASSUME SumsExact,
                        NEW i \in 0 .. nelements' - 1, NEW j \in 0 .. nelements' - 1, i < j
                 PROVE  matrix'[buffer(level)'][<< j, i >>]
                          = groupWeight(level - 1, i, j)' % UINT_RANGE
      BY DEF ReadExact
    <3>1. pair \in Nat \X Nat /\ pair[1] >= N - 1
      BY <1>1, <2>1 DEF allPairsDone, GInv, Summed
    <3>2. i < pair[1]
      <4>1. i \in 0 .. N - 1 /\ j \in 0 .. N - 1
        BY <2>2
      <4> HIDE DEF N
      <4> QED
        BY <2>1, <3>1, <4>1
    <3>3. matrix[buffer(level + 1)][<< j, i >>] = groupWeight(level, i, j) % UINT_RANGE
      BY <1>1, <2>1, <2>2, <3>2 DEF SumsExact
    <3>4. buffer(level)' = buffer(level + 1)
      BY <1>1 DEF buffer
    <3>5. groupWeight(level - 1, i, j)' = groupWeight(level, i, j)
      <4>1. level' - 1 = level
        BY <1>1, <1>2
      <4> QED
        BY <1>1, <4>1 DEF groupWeight
    <3> QED
      BY <1>1, <3>3, <3>4, <3>5
  <2> QED
    BY <2>3, <2>4, <2>5 DEF EInv
<1> QED
  BY <1>1, <1>3, <1>4

\* Every step keeps the sums exact.
LEMMA NextEInv == ASSUME GInv, GInv', EInv, [Next]_vars PROVE EInv'
<1>1. CASE Step
  <2>1. CASE greedy_init
    BY <2>1, ExactElsewhere DEF greedy_init, workVars, commVars
  <2>2. CASE Consider
    BY <2>2, ExactSame DEF Consider, inputVars, treeVars, groupVars
  <2>3. CASE Take
    BY <2>3, ExactSame DEF Take, inputVars, treeVars
  <2>4. CASE FinishGroup
    BY <2>4, ExactFinishGroup
  <2>5. CASE SumPair
    BY <2>5, ExactSumPair
  <2>6. CASE NextLevel
    BY <2>6, ExactNextLevel
  <2>7. CASE PlaceRoot
    BY <2>7, ExactElsewhere DEF PlaceRoot, workVars, commVars
  <2>8. CASE \E v \in Paths(arities) : PlaceOnPU(v) \/ PlaceOnChildren(v) \/ PassDown(v)
    <3>1. PICK v \in Paths(arities) : PlaceOnPU(v) \/ PlaceOnChildren(v) \/ PassDown(v)
      BY <2>8
    <3>2. pc' = "place" /\ UNCHANGED workVars
      BY <3>1 DEF PlaceOnPU, PlaceOnChildren, PassDown, placing
    <3> QED
      BY <3>2, ExactElsewhere DEF workVars, commVars
  <2>9. CASE Mapped
    BY <2>9, ExactElsewhere DEF Mapped, workVars, commVars
  <2>10. CASE Sleep
    BY <2>10, ExactSleep
  <2> QED
    BY <1>1, <2>1, <2>2, <2>3, <2>4, <2>5, <2>6, <2>7, <2>8, <2>9, <2>10 DEF Step
<1>2. CASE \E nt \in Threads, pattern \in Patterns : Start(nt, pattern)
  BY <1>2, ExactStart
<1>3. CASE \E c \in Cells : Communicate(c)
  BY <1>3, ExactCommunicate
<1>4. CASE UNCHANGED vars
  BY <1>4, ExactSame DEF vars, inputVars, treeVars, workVars, groupVars
<1> QED
  BY <1>1, <1>2, <1>3, <1>4 DEF Next

LEMMA SumsInvariant == Spec => [](GInv /\ EInv)
<1>1. Init => EInv
  <2> SUFFICES ASSUME Init PROVE EInv
    OBVIOUS
  <2>1. start = spcd_matrix /\ spcd_matrix = [c \in Cells |-> 0] /\ pc = "init"
    BY DEF Init
  <2>2. OnlyMore
    BY <2>1 DEF OnlyMore
  <2>3. SumsExact /\ ReadExact
    BY <2>1 DEF SumsExact, ReadExact
  <2> QED
    BY <2>2, <2>3 DEF EInv
<1>2. GInv /\ GInv' /\ EInv /\ [Next]_vars => EInv'
  BY NextEInv
<1>3. Spec => []GInv
  BY GreedyInvariant
<1> QED
  BY <1>1, <1>2, <1>3, PTL DEF Spec

\* The sum that the property states is a total.
LEMMA ThreadsTotal ==
  ASSUME NEW A, NEW B, IsFiniteSet(A \X B),
         \A t \in A, u \in B : countOf(spcd_matrix)[<< t, u >>] = comm_matrix_ptr_el(1, t, u)
  PROVE  MapThenSumSet(LAMBDA tu : comm_matrix_ptr_el(1, tu[1], tu[2]), A \X B)
           = total(countOf(spcd_matrix), A \X B)
<1> DEFINE op(x) == comm_matrix_ptr_el(1, x[1], x[2])
           S == A \X B
           f == [x \in S |-> op(x)]
           c(s) == CHOOSE x \in s : TRUE
           step(h) == [s \in SUBSET S |-> IF s = {} THEN 0 ELSE op(c(s)) + h[s \ {c(s)}]]
           h == CHOOSE u : u = step(u)
<1>1. MapThenSumSet(LAMBDA tu : comm_matrix_ptr_el(1, tu[1], tu[2]), A \X B) = h[S]
  BY DEF MapThenSumSet, MapThenFoldSet
<1>2. \A u : sumFcn(u, SUBSET S, f) <=> u = step(u)
  <2> HIDE DEF S
  <2>1. \A s \in SUBSET S : s # {} => c(s) \in S
    OBVIOUS
  <2> HIDE DEF c, op
  <2>2. \A s \in SUBSET S : s # {} => f[c(s)] = op(c(s))
    BY <2>1
  <2>3. \A u : [s \in SUBSET S |-> IF s = {} THEN 0 ELSE f[c(s)] + u[s \ {c(s)}]]
              = step(u)
    BY <2>2
  <2> QED
    BY <2>3 DEF sumFcn, c
<1>3. \A x \in S : f[x] = countOf(spcd_matrix)[x]
  <2> TAKE x \in S
  <2>1. x = << x[1], x[2] >> /\ x[1] \in A /\ x[2] \in B
    OBVIOUS
  <2>2. f[x] = comm_matrix_ptr_el(1, x[1], x[2])
    OBVIOUS
  <2> HIDE DEF S, f
  <2> QED
    BY <2>1, <2>2
<1> HIDE DEF f, step, S
<1>4. h = step(h)
  BY <1>2, SumExists DEF S
<1> HIDE DEF h
<1>5. sums(h, S, f) /\ IsFiniteSet(S)
  BY <1>2, <1>4 DEF sums, S
<1>6. h[S] = total(f, S)
  <2>1. PICK u : sums(u, S, f) /\ total(f, S) = u[S]
    BY <1>5, TotalIs
  <2>2. u[S \cap S] = h[S \cap S]
    BY <1>5, <2>1, SumsAgree
  <2>3. S \cap S = S
    OBVIOUS
  <2> QED
    BY <2>1, <2>2, <2>3
<1>7. total(f, S) = total(countOf(spcd_matrix), S)
  BY <1>3, <1>5, TotalSame
<1> QED
  BY <1>1, <1>6, <1>7 DEF S

\* What generate_group reads of an upper level (mapping-greedy.c:37) is what
\* the threads below the two groups have exchanged, modulo the width of an
\* element, on every machine, for every number of threads and whatever they
\* exchange: recreate_matrix (mapping-greedy.c:159) adds up each pair of groups
\* once, in the buffer that the next level reads, over elements that no two
\* groups share; and since it adds what it cut to the width before, cutting
\* late or early makes no difference.  It is so as long as no fault is counted
\* during the mapping.
THEOREM Exact == Spec => []WeightsExact
<1>1. ASSUME GInv, EInv PROVE WeightsExact
  <2> SUFFICES ASSUME quiet, pc = "search", level > 1,
                      NEW i \in 0 .. nelements - 1, NEW j \in 0 .. nelements - 1, i # j
               PROVE  comm_matrix_ptr_el(level, i, j) =
                        MapThenSumSet(LAMBDA tu : comm_matrix_ptr_el(1, tu[1], tu[2]),
                                      threadsOf(level - 1, i) \X threadsOf(level - 1, j))
                        % UINT_RANGE
    BY DEF WeightsExact
  <2> DEFINE A == threadsIn(groups, level - 1, i)
             B == threadsIn(groups, level - 1, j)
             c == countOf(spcd_matrix)
  <2>1. comm_matrix_ptr_el(level, i, j) = groupWeight(level - 1, i, j) % UINT_RANGE
    BY <1>1, ReadIs DEF EInv
  <2>2. threadsOf(level - 1, i) = A /\ threadsOf(level - 1, j) = B
    BY ThreadsOfIs
  <2>3. /\ level - 1 \in 0 .. level - 1 /\ level \in Nat /\ nthreads \in Threads
        /\ sharedOut(groups, nthreads, level - 1)
        /\ nelements = groupsAt(groups, nthreads, level - 1)
    <3>1. level \in Nat /\ nthreads \in Threads
      BY <1>1, Here DEF GInv
    <3>2. sharedOut(groups, nthreads, level - 1)
      BY <1>1, FinishedLevels DEF finished
    <3>3. nelements = groupsAt(groups, nthreads, level - 1)
      BY <1>1, <3>1, FinishedLevels DEF nelements
    <3> QED
      BY <3>1, <3>2, <3>3
  <2>4. counts(c, nthreads) /\ \A t, u \in 0 .. nthreads - 1 :
                                 c[<< t, u >>] = comm_matrix_ptr_el(1, t, u)
    BY <1>1, <2>3, CountsAre DEF GInv
  <2> HIDE DEF c
  <2>5. A \subseteq 0 .. nthreads - 1 /\ B \subseteq 0 .. nthreads - 1 /\ IsFiniteSet(A \X B)
    BY <2>3, <2>4, PairsOfThreads
  <2>6. groupWeight(level - 1, i, j) = total(c, A \X B)
    BY DEF groupWeight, weight, c
  <2> HIDE DEF A, B
  <2>7. \A t \in A, u \in B : c[<< t, u >>] = comm_matrix_ptr_el(1, t, u)
    BY <2>4, <2>5
  <2>8. MapThenSumSet(LAMBDA tu : comm_matrix_ptr_el(1, tu[1], tu[2]), A \X B) = total(c, A \X B)
    BY <2>5, <2>7, ThreadsTotal DEF c
  <2> QED
    BY <2>1, <2>2, <2>6, <2>8
<1>2. GInv /\ EInv => WeightsExact
  BY <1>1
<1>3. Spec => [](GInv /\ EInv)
  BY SumsInvariant
<1> QED
  BY <1>2, <1>3, PTL

\* A total of natural numbers is above zero if one of them is.
LEMMA TotalPositive ==
  ASSUME NEW S, IsFiniteSet(S), NEW f, natOn(f, S)
  PROVE  total(f, S) > 0 <=> \E x \in S : f[x] > 0
<1>1. total(f, S) \in Nat
  BY TotalNat
<1>2. ASSUME NEW x \in S, f[x] > 0 PROVE total(f, S) > 0
  <2>1. total(f, S) = f[x] + total(f, S \ {x})
    BY TotalTakeOut
  <2>2. IsFiniteSet(S \ {x}) /\ natOn(f, S \ {x})
    BY FS_RemoveElement DEF natOn
  <2>3. total(f, S \ {x}) \in Nat /\ f[x] \in Nat
    BY <2>2, TotalNat DEF natOn
  <2> QED
    BY <1>2, <2>1, <2>3
<1>3. ASSUME \A x \in S : ~(f[x] > 0) PROVE total(f, S) = 0
  <2> DEFINE P == {s \in SUBSET S : total(f, s) = 0}
  <2>1. {} \in P
    BY TotalEmpty
  <2>2. ASSUME NEW s \in SUBSET S, s # {}, \A x \in s : s \ {x} \in P PROVE s \in P
    <3> DEFINE c == CHOOSE x \in s : TRUE
    <3>1. IsFiniteSet(s)
      BY FS_Subset
    <3>2. c \in s /\ total(f, s) = f[c] + total(f, s \ {c})
      BY <2>2, <3>1, TotalChosen
    <3> HIDE DEF c
    <3>3. f[c] \in Nat /\ ~(f[c] > 0) /\ total(f, s \ {c}) = 0
      BY <1>3, <2>2, <3>2 DEF natOn
    <3>4. total(f, s) = 0
      BY <3>2, <3>3
    <3> QED
      BY <3>4
  <2> HIDE DEF P
  <2>3. SUBSET S \subseteq P
    BY <2>1, <2>2, FiniteInduction
  <2>4. S \in P
    BY <2>3
  <2> QED
    BY <2>4 DEF P
<1> QED
  BY <1>1, <1>2, <1>3

\* The elements of the groups and of the one after them.
LEMMA PlacedAre ==
  ASSUME NEW G \in Seq(Seq(Nat)), NEW g \in Seq(Nat)
  PROVE  \A e : e \in placed(Append(G, g)) <=>
                  e \in ToSet(g) \/ \E x \in DOMAIN G : e \in ToSet(G[x])
<1> DEFINE H == Append(G, g)
           n == Len(G)
<1>1. /\ n \in Nat /\ DOMAIN G = 1 .. n /\ DOMAIN H = 1 .. n + 1
      /\ H[n + 1] = g /\ \A x \in 1 .. n : H[x] = G[x]
      /\ \A x \in 1 .. n : G[x] \in Seq(Nat)
  OBVIOUS
<1> HIDE DEF H, n
<1>2. \A s \in Seq(Nat) : DOMAIN s \subseteq Nat
  OBVIOUS
<1>3. \A x \in DOMAIN H : DOMAIN H[x] \subseteq Nat
  <2> TAKE x \in DOMAIN H
  <2>1. H[x] \in Seq(Nat)
    <3>1. x \in 1 .. n \/ x = n + 1
      BY <1>1
    <3> QED
      BY <1>1, <3>1
  <2> QED
    BY <1>2, <2>1
<1>4. \A e : e \in placed(H) <=> \E x \in DOMAIN H : e \in ToSet(H[x])
  <2> TAKE e
  <2>1. ASSUME e \in placed(H) PROVE \E x \in DOMAIN H : e \in ToSet(H[x])
    <3>1. PICK p \in Places(H) : e = at(H, p)
      BY <2>1 DEF placed
    <3> QED
      BY <3>1 DEF Places, at, ToSet
  <2>2. ASSUME NEW x \in DOMAIN H, e \in ToSet(H[x]) PROVE e \in placed(H)
    <3>1. PICK i \in DOMAIN H[x] : e = H[x][i]
      BY <2>2 DEF ToSet
    <3>2. i \in Nat
      BY <1>3
    <3>3. << x, i >> \in Places(H) /\ at(H, << x, i >>) = e
      BY <3>1, <3>2 DEF Places, at
    <3> QED
      BY <3>3 DEF placed
  <2> QED
    BY <2>1, <2>2
<1>5. \A e : (\E x \in DOMAIN H : e \in ToSet(H[x])) <=>
               e \in ToSet(g) \/ \E x \in DOMAIN G : e \in ToSet(G[x])
  <2>1. DOMAIN H = DOMAIN G \cup {n + 1}
    BY <1>1
  <2> QED
    BY <1>1, <2>1
<1> QED
  BY <1>4, <1>5 DEF H

-----------------------------------------------------------------------------
(* Partners *)

\* What two elements of a level count for each other when it is grouped.
ties(l, i, j) ==
  IF l = 1 THEN groupWeight(0, i, j) ELSE groupWeight(l - 1, i, j) % UINT_RANGE

\* The pairs of elements that communicate.
pairsAt(l) ==
  {p \in (0 .. nGroupsAt(l - 1) - 1) \X (0 .. nGroupsAt(l - 1) - 1) :
     p[1] # p[2] /\ ties(l, p[1], p[2]) > 0}

\* Each of n elements has one partner.
matching(M, n) ==
  /\ \A i \in 0 .. n - 1 : \E j \in 0 .. n - 1 : << i, j >> \in M
  /\ \A i, j \in 0 .. n - 1 : << i, j >> \in M => << j, i >> \in M
  /\ \A i, j, k \in 0 .. n - 1 : << i, j >> \in M /\ << i, k >> \in M => j = k

\* Who is in S has the partner there.
closed(M, S) == \A p \in M : p[1] \in S => p[2] \in S

evenSizes(n, m) == \A g \in 0 .. m - 1 : sizeOf(n, m, g) % 2 = 0

roomAt(l) ==
  IF nGroupsAt(l - 1) <= exec_el_in_level[l] THEN nGroupsAt(l - 1) ELSE exec_el_in_level[l]

\* A level at which partners can be grouped together.
suits(l) ==
  /\ matching(pairsAt(l), nGroupsAt(l - 1))
  /\ evenSizes(nGroupsAt(l - 1), roomAt(l))

Together(l) == \A x \in DOMAIN groups[l] : closed(pairsAt(l), ToSet(groups[l][x]))

latest == group[Len(group)]

\* The group that grows takes an element and then its partner.
Pairing(l) ==
  IF Len(group) % 2 = 0 THEN closed(pairsAt(l), ToSet(group))
  ELSE /\ closed(pairsAt(l), ToSet(group) \ {latest})
       /\ \A j \in 0 .. nGroupsAt(l - 1) - 1 :
            << latest, j >> \in pairsAt(l) =>
              j \notin chosen /\ (j < cand => winner = j /\ wmax > 0)
       /\ wmax > 0 => << latest, winner >> \in pairsAt(l)

reached == grouped \cup (IF pc = "search" THEN {level} ELSE {})

MInv ==
  quiet =>
    \A l \in reached :
      suits(l) => Together(l) /\ (pc = "search" /\ l = level => Pairing(l))

LEMMA ClosedPairs ==
  ASSUME NEW n, NEW M, M \subseteq (0 .. n - 1) \X (0 .. n - 1), NEW S
  PROVE  closed(M, S) <=> \A i, j \in 0 .. n - 1 : << i, j >> \in M /\ i \in S => j \in S
<1>1. ASSUME closed(M, S), NEW i \in 0 .. n - 1, NEW j \in 0 .. n - 1, << i, j >> \in M, i \in S
      PROVE  j \in S
  BY <1>1 DEF closed
<1>2. ASSUME \A i, j \in 0 .. n - 1 : << i, j >> \in M /\ i \in S => j \in S,
             NEW p \in M, p[1] \in S
      PROVE  p[2] \in S
  <2>1. p = << p[1], p[2] >> /\ p[1] \in 0 .. n - 1 /\ p[2] \in 0 .. n - 1
    OBVIOUS
  <2> QED
    BY <1>2, <2>1
<1> QED
  BY <1>1, <1>2 DEF closed

LEMMA PairsTyped ==
  ASSUME NEW l
  PROVE  pairsAt(l) \subseteq (0 .. nGroupsAt(l - 1) - 1) \X (0 .. nGroupsAt(l - 1) - 1)
BY DEF pairsAt

\* A candidate communicates with the group if its partner is there.
LEMMA Attraction ==
  ASSUME GInv, EInv, quiet, pc = "search", ~groupDone, cand < nelements, cand \notin chosen
  PROVE  /\ communication(cand) \in Nat
         /\ communication(cand) > 0 <=> \E e \in ToSet(group) : << e, cand >> \in pairsAt(level)
<1> DEFINE S == DOMAIN group
           f == [x \in S |-> comm_matrix_ptr_el(level, cand, group[x])]
<1>1. /\ IsFiniteSet(S) /\ natOn(f, S) /\ communication(cand) = total(f, S)
      /\ \A x \in S : group[x] \in 0 .. nelements - 1 /\ group[x] # cand
  BY CommunicationIs
<1>2. communication(cand) \in Nat
  BY CommunicationNat
<1>3. /\ nelements \in Nat /\ cand \in 0 .. nelements - 1 /\ level \in Nat \ {0}
      /\ nelements = nGroupsAt(level - 1)
  BY Here DEF GInv, Growing, nelements
<1>4. ASSUME NEW x \in S
      PROVE  f[x] > 0 <=> << group[x], cand >> \in pairsAt(level)
  <2> DEFINE e == group[x]
  <2>1. e \in 0 .. nelements - 1 /\ e # cand
    BY <1>1
  <2> HIDE DEF e
  <2>2. comm_matrix_ptr_el(level, e, cand) = ties(level, e, cand)
    <3>1. ReadExact
      BY DEF EInv
    <3>2. /\ level > 1 => comm_matrix_ptr_el(level, e, cand)
                           = groupWeight(level - 1, e, cand) % UINT_RANGE
          /\ level = 1 => comm_matrix_ptr_el(level, e, cand) = groupWeight(level - 1, e, cand)
      BY <1>3, <2>1, <3>1, ReadIs
    <3>3. CASE level = 1
      BY <3>2, <3>3 DEF ties
    <3>4. CASE level > 1
      BY <1>3, <3>2, <3>4 DEF ties
    <3> QED
      BY <1>3, <3>3, <3>4
  <2>3. comm_matrix_ptr_el(level, e, cand) = comm_matrix_ptr_el(level, cand, e)
    <3>1. e > cand \/ cand > e
      BY <1>3, <2>1
    <3>2. ~(e > cand /\ cand > e)
      BY <1>3, <2>1
    <3> QED
      BY <3>1, <3>2 DEF comm_matrix_ptr_el
  <2>4. f[x] = comm_matrix_ptr_el(level, cand, e)
    BY DEF e
  <2>5. << e, cand >> \in pairsAt(level) <=> ties(level, e, cand) > 0
    BY <1>3, <2>1 DEF pairsAt
  <2> QED
    BY <2>2, <2>3, <2>4, <2>5 DEF e
<1>5. total(f, S) > 0 <=> \E x \in S : f[x] > 0
  BY <1>1, TotalPositive
<1>6. \A e : e \in ToSet(group) <=> \E x \in S : e = group[x]
  BY DEF ToSet
<1> HIDE DEF f, S
<1> QED
  BY <1>1, <1>2, <1>4, <1>5, <1>6

\* Where all groups have their partners, so do the elements they took.
LEMMA ChosenTogether ==
  ASSUME GInv, pc = "search", Together(level)
  PROVE  /\ ToSet(group) \subseteq chosen
         /\ chosen \subseteq 0 .. nelements - 1
         /\ closed(pairsAt(level), ToSet(group)) => closed(pairsAt(level), chosen)
         /\ group \in Seq(Nat) /\ groups[level] \in Seq(Seq(Nat))
<1>1. /\ group \in Seq(Nat) /\ groups[level] \in Seq(Seq(Nat))
      /\ chosen = placed(Append(groups[level], group))
      /\ chosen \subseteq 0 .. nelements - 1
  BY Here DEF GInv, Growing
<1>2. \A e : e \in chosen <=>
               e \in ToSet(group) \/ \E x \in DOMAIN groups[level] : e \in ToSet(groups[level][x])
  BY <1>1, PlacedAre
<1>3. closed(pairsAt(level), ToSet(group)) => closed(pairsAt(level), chosen)
  BY <1>2 DEF closed, Together
<1> QED
  BY <1>1, <1>2, <1>3

\* What the pairs and the groups depend on.
LEMMA PairsSame ==
  ASSUME UNCHANGED << nthreads, spcd_matrix, groups, exec_el_in_level >>, NEW l
  PROVE  /\ pairsAt(l)' = pairsAt(l)
         /\ nGroupsAt(l - 1)' = nGroupsAt(l - 1)
         /\ suits(l)' <=> suits(l)
         /\ Together(l)' <=> Together(l)
<1>1. \A k : nGroupsAt(k)' = nGroupsAt(k)
  BY DEF nGroupsAt
<1>2. \A k, i, j : groupWeight(k, i, j)' = groupWeight(k, i, j)
  BY DEF groupWeight
<1>3. pairsAt(l)' = pairsAt(l)
  BY <1>1, <1>2 DEF pairsAt, ties
<1>4. roomAt(l)' = roomAt(l)
  BY <1>1 DEF roomAt
<1>5. suits(l)' <=> suits(l)
  BY <1>1, <1>3, <1>4 DEF suits
<1>6. Together(l)' <=> Together(l)
  BY <1>3 DEF Together
<1> QED
  BY <1>1, <1>3, <1>5, <1>6

\* A step that reaches no further level, and searches no further.
LEMMA MatesSame ==
  ASSUME MInv, UNCHANGED << nthreads, commVars, groups, exec_el_in_level >>,
         reached' \subseteq reached,
         pc' = "search" =>
           UNCHANGED << pc, level, chosen, group, cand, wmax, winner >>
  PROVE  MInv'
<1>1. quiet' = quiet /\ UNCHANGED << nthreads, spcd_matrix, groups, exec_el_in_level >>
  BY DEF commVars, quiet
<1> SUFFICES ASSUME quiet, NEW l \in reached', suits(l)'
             PROVE  Together(l)' /\ (pc' = "search" /\ l = level' => Pairing(l)')
  BY <1>1 DEF MInv
<1>2. l \in reached /\ suits(l)
  BY <1>1, PairsSame
<1>3. Together(l) /\ (pc = "search" /\ l = level => Pairing(l))
  BY <1>2 DEF MInv
<1>4. ASSUME pc' = "search", l = level' PROVE Pairing(l)'
  <2>1. /\ pc = "search" /\ l = level /\ chosen' = chosen /\ group' = group
        /\ cand' = cand /\ wmax' = wmax /\ winner' = winner
    BY <1>4
  <2>2. pairsAt(l)' = pairsAt(l) /\ nGroupsAt(l - 1)' = nGroupsAt(l - 1) /\ latest' = latest
    BY <1>1, <2>1, PairsSame DEF latest
  <2>3. Pairing(l)
    BY <1>3, <2>1
  <2> QED
    BY <2>1, <2>2, <2>3 DEF Pairing
<1> QED
  BY <1>1, <1>3, <1>4, PairsSame

\* The search meets the partner of the latest element, and keeps it.
LEMMA MatesConsider ==
  ASSUME GInv, EInv, MInv, Consider
  PROVE  MInv'
<1>1. /\ pc = "search" /\ pc' = "search" /\ level' = level /\ groups' = groups
      /\ nthreads' = nthreads /\ exec_el_in_level' = exec_el_in_level
      /\ spcd_matrix' = spcd_matrix /\ start' = start
      /\ group' = group /\ chosen' = chosen
      /\ cand < nelements /\ cand' = cand + 1 /\ ~groupDone
  BY DEF Consider, inputVars, treeVars, commVars, groupVars
<1>2. quiet' = quiet /\ reached' = reached
  BY <1>1 DEF quiet, reached, grouped
<1> SUFFICES ASSUME quiet, NEW l \in reached, suits(l)
             PROVE  Together(l)' /\ (l = level => Pairing(l)')
  BY <1>1, <1>2, PairsSame DEF MInv
<1>3. Together(l) /\ (l = level => Pairing(l))
  BY <1>1 DEF MInv
<1>4. ASSUME l = level PROVE Pairing(l)'
  <2> DEFINE M == pairsAt(l)
             n == nGroupsAt(l - 1)
  <2>1. /\ M' = M /\ n' = n /\ latest' = latest /\ n = nelements
    BY <1>1, <1>4, PairsSame DEF latest, nelements
  <2>2. Pairing(l) /\ matching(M, n)
    BY <1>3, <1>4 DEF suits
  <2>3. CASE Len(group) % 2 = 0
    BY <1>1, <2>1, <2>2, <2>3 DEF Pairing
  <2>4. CASE Len(group) % 2 # 0
    <3>1. /\ closed(M, ToSet(group) \ {latest})
          /\ \A j \in 0 .. n - 1 :
               << latest, j >> \in M => j \notin chosen /\ (j < cand => winner = j /\ wmax > 0)
          /\ wmax > 0 => << latest, winner >> \in M
      BY <2>2, <2>4 DEF Pairing
    <3>2. /\ n \in Nat /\ cand \in 0 .. n - 1
          /\ wmax = -1 \/ (wmax \in Nat /\ winner \in 0 .. cand - 1)
      BY <1>1, <2>1, Here DEF GInv, Growing, Winning
    <3>3. /\ ToSet(group) \subseteq chosen /\ chosen \subseteq 0 .. n - 1
          /\ latest \in ToSet(group)
      <4>1. ToSet(group) \subseteq chosen /\ chosen \subseteq 0 .. n - 1 /\ group \in Seq(Nat)
        BY <1>1, <1>3, <1>4, <2>1, ChosenTogether
      <4>2. Len(group) \in DOMAIN group
        BY <2>4, <4>1
      <4> QED
        BY <4>1, <4>2 DEF latest, ToSet
    <3>4. M \subseteq (0 .. n - 1) \X (0 .. n - 1)
      BY PairsTyped
    <3>5. ASSUME cand \notin chosen
          PROVE  /\ communication(cand) \in Nat
                 /\ communication(cand) > 0 <=> << latest, cand >> \in M
      <4>1. /\ communication(cand) \in Nat
            /\ communication(cand) > 0 <=> \E e \in ToSet(group) : << e, cand >> \in M
        BY <1>1, <1>4, <3>5, Attraction
      <4>2. ASSUME NEW e \in ToSet(group), << e, cand >> \in M PROVE e = latest
        <5>1. SUFFICES ASSUME e \in ToSet(group) \ {latest} PROVE FALSE
          OBVIOUS
        <5> HIDE DEF M, n
        <5>2. cand \in ToSet(group)
          BY <3>1, <3>2, <3>3, <3>4, <4>2, <5>1, ClosedPairs
        <5> QED
          BY <3>3, <3>5, <5>2
      <4> QED
        BY <3>3, <4>1, <4>2
    <3> HIDE DEF M, n
    <3>6. /\ \A j \in 0 .. n - 1 :
               << latest, j >> \in M => j \notin chosen /\ (j < cand + 1 => winner' = j /\ wmax' > 0)
          /\ wmax' > 0 => << latest, winner' >> \in M
      <4>1. CASE cand \notin chosen /\ communication(cand) > wmax
        <5>1. wmax' = communication(cand) /\ winner' = cand
          BY <4>1 DEF Consider
        <5>2. wmax' > 0 => << latest, winner' >> \in M
          BY <3>5, <4>1, <5>1
        <5>3. ASSUME NEW j \in 0 .. n - 1, << latest, j >> \in M
              PROVE  j \notin chosen /\ (j < cand + 1 => winner' = j /\ wmax' > 0)
          <6>1. j \notin chosen
            BY <3>1, <5>3
          <6>2. ASSUME j < cand PROVE winner' = j /\ wmax' > 0
            <7>1. winner = j /\ wmax > 0
              BY <3>1, <5>3, <6>2
            <7>2. communication(cand) > 0
              BY <3>2, <3>5, <4>1, <7>1
            <7>3. << latest, cand >> \in M
              BY <3>5, <4>1, <7>2
            <7>4. latest \in 0 .. n - 1
              BY <3>3
            <7>5. cand = j
              BY <2>2, <3>2, <5>3, <7>3, <7>4 DEF matching
            <7> QED
              BY <5>1, <7>2, <7>5
          <6>3. ASSUME j = cand PROVE winner' = j /\ wmax' > 0
            BY <3>5, <4>1, <5>1, <5>3, <6>3
          <6>4. j < cand + 1 => j < cand \/ j = cand
            BY <3>2
          <6> QED
            BY <6>1, <6>2, <6>3, <6>4
        <5> QED
          BY <5>2, <5>3
      <4>2. CASE ~(cand \notin chosen /\ communication(cand) > wmax)
        <5>1. wmax' = wmax /\ winner' = winner
          BY <4>2 DEF Consider
        <5>2. ASSUME NEW j \in 0 .. n - 1, << latest, j >> \in M
              PROVE  j \notin chosen /\ (j < cand + 1 => winner' = j /\ wmax' > 0)
          <6>1. j \notin chosen
            BY <3>1, <5>2
          <6>2. ASSUME j < cand PROVE winner' = j /\ wmax' > 0
            BY <3>1, <5>1, <5>2, <6>2
          <6>3. ASSUME j = cand PROVE winner' = j /\ wmax' > 0
            <7>1. communication(cand) \in Nat /\ communication(cand) > 0 /\ cand \notin chosen
              BY <3>5, <5>2, <6>1, <6>3
            <7>2. wmax > 0
              BY <3>2, <4>2, <7>1
            <7>3. << latest, winner >> \in M /\ winner \in 0 .. n - 1
              BY <3>1, <3>2, <7>2
            <7>4. winner = j
              BY <2>2, <3>3, <5>2, <7>3 DEF matching
            <7> QED
              BY <5>1, <7>2, <7>4
          <6>4. j < cand + 1 => j < cand \/ j = cand
            BY <3>2
          <6> QED
            BY <6>1, <6>2, <6>3, <6>4
        <5> QED
          BY <3>1, <5>1, <5>2
      <4> QED
        BY <4>1, <4>2
    <3> QED
      BY <1>1, <2>1, <2>4, <3>1, <3>6 DEF Pairing, M, n
  <2> QED
    BY <2>3, <2>4
<1> QED
  BY <1>1, <1>3, <1>4, PairsSame

LEMMA AppendSet ==
  ASSUME NEW s \in Seq(Nat), NEW w \in Nat
  PROVE  /\ ToSet(Append(s, w)) = ToSet(s) \cup {w}
         /\ Len(Append(s, w)) = Len(s) + 1 /\ Len(s) \in Nat
         /\ Append(s, w)[Len(s) + 1] = w
<1> DEFINE t == Append(s, w)
           n == Len(s)
<1>1. /\ n \in Nat /\ Len(t) = n + 1 /\ DOMAIN s = 1 .. n /\ DOMAIN t = 1 .. n + 1
      /\ t[n + 1] = w /\ \A i \in 1 .. n : t[i] = s[i]
  OBVIOUS
<1> HIDE DEF t, n
<1>2. DOMAIN t = DOMAIN s \cup {n + 1} /\ \A i \in DOMAIN s : t[i] = s[i]
  BY <1>1
<1>3. ToSet(t) = ToSet(s) \cup {w}
  BY <1>1, <1>2 DEF ToSet
<1> QED
  BY <1>1, <1>3 DEF t, n

\* After an element comes its partner; with its pairs complete the group takes
\* an element whose partner is free.
LEMMA MatesTake ==
  ASSUME GInv, MInv, Take
  PROVE  MInv'
<1>1. /\ pc = "search" /\ pc' = "search" /\ level' = level /\ groups' = groups
      /\ nthreads' = nthreads /\ exec_el_in_level' = exec_el_in_level
      /\ spcd_matrix' = spcd_matrix /\ start' = start
      /\ group' = Append(group, winner) /\ chosen' = chosen \cup {winner}
      /\ cand = nelements /\ cand' = 0 /\ wmax' = -1
  BY DEF Take, inputVars, treeVars, commVars
<1>2. quiet' = quiet /\ reached' = reached
  BY <1>1 DEF quiet, reached, grouped
<1> SUFFICES ASSUME quiet, NEW l \in reached, suits(l)
             PROVE  Together(l)' /\ (l = level => Pairing(l)')
  BY <1>1, <1>2, PairsSame DEF MInv
<1>3. Together(l) /\ (l = level => Pairing(l))
  BY <1>1 DEF MInv
<1>4. ASSUME l = level PROVE Pairing(l)'
  <2> DEFINE M == pairsAt(l)
             n == nGroupsAt(l - 1)
             S == ToSet(group)
  <2>1. M' = M /\ n' = n /\ n = nelements
    BY <1>1, <1>4, PairsSame DEF nelements
  <2>2. Pairing(l) /\ matching(M, n) /\ M \subseteq (0 .. n - 1) \X (0 .. n - 1)
    BY <1>3, <1>4, PairsTyped DEF suits
  <2>3. /\ n \in Nat /\ winner \in 0 .. n - 1 /\ winner \notin chosen
    BY <1>1, <2>1, WinnerFree, Here DEF GInv
  <2>4. /\ S \subseteq chosen /\ chosen \subseteq 0 .. n - 1
        /\ closed(M, S) => closed(M, chosen)
        /\ group \in Seq(Nat)
    BY <1>1, <1>3, <1>4, <2>1, ChosenTogether
  <2>5. /\ ToSet(group') = S \cup {winner} /\ Len(group') = Len(group) + 1
        /\ Len(group) \in Nat /\ latest' = winner
    BY <1>1, <2>3, <2>4, AppendSet DEF latest
  <2> HIDE DEF M, n
  <2>6. CASE Len(group) % 2 = 0
    <3>1. closed(M, S) /\ closed(M, chosen)
      BY <2>2, <2>4, <2>6 DEF Pairing, M
    <3>2. Len(group') % 2 # 0 /\ ToSet(group') \ {winner} = S
      BY <2>3, <2>4, <2>5, <2>6
    <3>3. ASSUME NEW j \in 0 .. n - 1, << winner, j >> \in M PROVE j \notin chosen'
      <4>1. j # winner
        <5>1. \A p \in pairsAt(l) : p[1] # p[2]
          BY DEF pairsAt
        <5> QED
          BY <3>3, <5>1 DEF M
      <4>2. << j, winner >> \in M
        BY <2>2, <2>3, <3>3 DEF matching
      <4>3. j \notin chosen
        BY <2>2, <2>3, <3>1, <4>2, ClosedPairs
      <4> QED
        BY <1>1, <4>1, <4>3
    <3>4. /\ \A j \in 0 .. n - 1 : ~(j < 0)
          /\ ~(wmax' > 0)
      BY <1>1, <2>3
    <3> QED
      BY <1>1, <2>1, <2>5, <3>1, <3>2, <3>3, <3>4 DEF Pairing, M, n
  <2>7. CASE Len(group) % 2 # 0
    <3>1. /\ closed(M, S \ {latest})
          /\ \A j \in 0 .. n - 1 : << latest, j >> \in M => (j < cand => winner = j)
      BY <2>2, <2>7 DEF Pairing, M, n
    <3>2. latest \in 0 .. n - 1 /\ latest \in S
      <4>1. Len(group) \in DOMAIN group
        BY <2>4, <2>5, <2>7
      <4> QED
        BY <2>4, <4>1 DEF latest, ToSet
    <3>3. << latest, winner >> \in M
      <4>1. PICK j \in 0 .. n - 1 : << latest, j >> \in M
        BY <2>2, <3>2 DEF matching
      <4>2. j < cand
        BY <1>1, <2>1, <2>3
      <4> QED
        BY <3>1, <4>1, <4>2
    <3>4. << winner, latest >> \in M
      BY <2>2, <2>3, <3>2, <3>3 DEF matching
    <3>5. closed(M, S \cup {winner})
      <4>1. SUFFICES ASSUME NEW i \in 0 .. n - 1, NEW j \in 0 .. n - 1,
                            << i, j >> \in M, i \in S \cup {winner}
                     PROVE  j \in S \cup {winner}
        BY <2>2, ClosedPairs
      <4>2. CASE i = winner
        BY <2>2, <2>3, <3>2, <3>4, <4>1, <4>2 DEF matching
      <4>3. CASE i = latest
        BY <2>2, <2>3, <3>2, <3>3, <4>1, <4>3 DEF matching
      <4>4. CASE i \in S \ {latest}
        BY <2>2, <3>1, <4>1, <4>4, ClosedPairs
      <4> QED
        BY <4>1, <4>2, <4>3, <4>4
    <3>6. Len(group') % 2 = 0
      BY <2>5, <2>7
    <3> QED
      BY <2>1, <2>5, <3>5, <3>6 DEF Pairing, M
  <2> QED
    BY <2>6, <2>7
<1> QED
  BY <1>1, <1>3, <1>4, PairsSame

LEMMA EmptyGroup == ASSUME NEW M PROVE closed(M, ToSet(<< >>)) /\ Len(<< >>) % 2 = 0
<1>1. ToSet(<< >>) = {}
  BY DEF ToSet
<1>2. Len(<< >>) = 0 /\ 0 % 2 = 0
  OBVIOUS
<1> QED
  BY <1>1, <1>2 DEF closed

\* A group that is finished changes no pairs up to its level.
LEMMA PairsBelow ==
  ASSUME GInv, FinishGroup, NEW l \in 1 .. level
  PROVE  /\ pairsAt(l)' = pairsAt(l)
         /\ nGroupsAt(l - 1)' = nGroupsAt(l - 1)
         /\ suits(l)' <=> suits(l)
<1>1. /\ pc = "search" /\ nthreads' = nthreads /\ exec_el_in_level' = exec_el_in_level
      /\ spcd_matrix' = spcd_matrix
      /\ groups' = [groups EXCEPT ![level] = Append(@, group)]
  BY DEF FinishGroup, inputVars, treeVars, commVars
<1>2. /\ levels_n \in Nat /\ level \in 1 .. levels_n - 1 /\ level \in Nat
      /\ groups \in [1 .. levels_n - 1 -> Seq(Seq(Nat))]
      /\ nthreads \in Threads
  BY <1>1, Here DEF GInv, Typed, working
<1>3. \A k \in 1 .. level - 1 : groups'[k] = groups[k]
  BY <1>1, <1>2
<1>4. sharedOut(groups, nthreads, level - 1) /\ sharedOut(groups', nthreads, level - 1)
  <2>1. sharedOut(groups, nthreads, level - 1)
    BY <1>1, FinishedLevels DEF finished
  <2>2. ASSUME NEW k \in 1 .. level - 1
        PROVE  groupsAt(groups', nthreads, k - 1) = groupsAt(groups, nthreads, k - 1)
    <3>1. k - 1 # 0 => k - 1 \in 1 .. level - 1
      BY <1>2
    <3> QED
      BY <1>3, <3>1 DEF groupsAt
  <2> QED
    BY <1>3, <2>1, <2>2 DEF sharedOut
<1> DEFINE k == l - 1
<1>5. k \in 0 .. level - 1 /\ k \in Nat /\ (k # 0 => k \in 1 .. level - 1)
      /\ (l = 1 <=> k = 0)
  BY <1>2
<1> HIDE DEF k
<1>6. nGroupsAt(k)' = nGroupsAt(k) /\ nGroupsAt(k) = groupsAt(groups, nthreads, k)
  BY <1>1, <1>3, <1>5 DEF nGroupsAt, groupsAt
<1>7. ASSUME NEW i \in 0 .. nGroupsAt(k) - 1, NEW j \in 0 .. nGroupsAt(k) - 1
      PROVE  groupWeight(k, i, j)' = groupWeight(k, i, j)
  <2>1. /\ threadsIn(groups, k, i) = threadsIn(groups', k, i)
        /\ threadsIn(groups, k, j) = threadsIn(groups', k, j)
    BY <1>3, <1>4, <1>5, <1>6, ThreadsSame
  <2> QED
    BY <1>1, <2>1 DEF groupWeight, weight
<1>8. ASSUME NEW i \in 0 .. nGroupsAt(k) - 1, NEW j \in 0 .. nGroupsAt(k) - 1
      PROVE  ties(l, i, j)' = ties(l, i, j)
  <2>1. groupWeight(k, i, j)' = groupWeight(k, i, j)
    BY <1>7
  <2>2. CASE l = 1
    BY <1>5, <2>1, <2>2 DEF ties
  <2>3. CASE l # 1
    BY <2>1, <2>3 DEF ties, k
  <2> QED
    BY <2>2, <2>3
<1>9. pairsAt(l)' = pairsAt(l)
  <2>1. ASSUME NEW p \in (0 .. nGroupsAt(k) - 1) \X (0 .. nGroupsAt(k) - 1)
        PROVE  ties(l, p[1], p[2])' = ties(l, p[1], p[2])
    BY <1>8
  <2> QED
    BY <1>6, <2>1 DEF pairsAt, k
<1>10. roomAt(l)' = roomAt(l)
  BY <1>1, <1>6 DEF roomAt, k
<1> QED
  BY <1>6, <1>9, <1>10 DEF suits, k

\* A finished group has all partners, its size being even.
LEMMA MatesFinishGroup ==
  ASSUME GInv, MInv, FinishGroup
  PROVE  MInv'
<1>1. /\ pc = "search" /\ pc' \in {"search", "sum"} /\ level' = level
      /\ spcd_matrix' = spcd_matrix /\ start' = start /\ group' = << >>
      /\ groups' = [groups EXCEPT ![level] = Append(@, group)] /\ groupDone
  BY DEF FinishGroup, inputVars, treeVars, commVars
<1>2. /\ levels_n \in Nat /\ level \in 1 .. levels_n - 1 /\ level \in Nat
      /\ groups \in [1 .. levels_n - 1 -> Seq(Seq(Nat))]
      /\ groups[level] \in Seq(Seq(Nat)) /\ group \in Seq(Nat)
  BY <1>1, Here DEF GInv, Typed, working, Growing
<1>3. quiet' = quiet /\ reached = 1 .. level /\ reached' = 1 .. level
  BY <1>1, <1>2 DEF quiet, reached, grouped
<1> SUFFICES ASSUME quiet, NEW l \in 1 .. level, suits(l)
             PROVE  Together(l)' /\ (l = level => Pairing(l)')
  BY <1>1, <1>3, PairsBelow DEF MInv
<1>4. Together(l) /\ (l = level => Pairing(l))
  BY <1>1, <1>3 DEF MInv
<1> DEFINE M == pairsAt(l)
<1>5. M' = M
  BY PairsBelow
<1>6. CASE l # level
  <2>1. groups'[l] = groups[l]
    BY <1>1, <1>2, <1>6
  <2> QED
    BY <1>4, <1>5, <1>6, <2>1 DEF Together
<1>7. CASE l = level
  <2> DEFINE G == groups[level]
             g == Len(G)
  <2>1. Len(group) % 2 = 0
    <3>1. /\ nelements = nGroupsAt(l - 1) /\ ngroups = roomAt(l)
          /\ g \in 0 .. ngroups - 1 /\ groupSize(g) = sizeOf(nelements, ngroups, g)
      BY <1>1, <1>7, Here, SizesHere DEF nelements, roomAt, GInv
    <3>2. sizeOf(nelements, ngroups, g) % 2 = 0
      BY <3>1 DEF suits, evenSizes
    <3> QED
      BY <1>1, <3>1, <3>2 DEF groupDone
  <2>2. closed(M, ToSet(group))
    BY <1>4, <1>7, <2>1 DEF Pairing
  <2>3. /\ groups'[l] = Append(G, group) /\ G \in Seq(Seq(Nat))
        /\ DOMAIN groups'[l] = 1 .. g + 1 /\ DOMAIN G = 1 .. g /\ g \in Nat
        /\ groups'[l][g + 1] = group /\ \A x \in 1 .. g : groups'[l][x] = G[x]
    BY <1>1, <1>2, <1>7
  <2> HIDE DEF M
  <2>4. \A x \in DOMAIN groups'[l] : closed(M, ToSet(groups'[l][x]))
    <3> TAKE x \in DOMAIN groups'[l]
    <3> HIDE DEF g, G
    <3>1. CASE x = g + 1
      BY <2>2, <2>3, <3>1
    <3>2. CASE x \in 1 .. g
      BY <1>4, <1>7, <2>3, <3>2 DEF Together, M, G
    <3> QED
      BY <2>3, <3>1, <3>2
  <2>5. Together(l)'
    BY <1>5, <2>4 DEF Together, M
  <2>6. Pairing(l)'
    <3>1. Len(group') % 2 = 0 /\ closed(M', ToSet(group'))
      BY <1>1, EmptyGroup
    <3> QED
      BY <3>1 DEF Pairing, M
  <2> QED
    BY <2>5, <2>6
<1> QED
  BY <1>6, <1>7

\* A level begins without groups.
LEMMA MatesFresh ==
  ASSUME pc' = "search", group' = << >>, groups'[level'] = << >>
  PROVE  Together(level)' /\ Pairing(level)'
<1>1. DOMAIN groups'[level'] = {}
  OBVIOUS
<1>2. Together(level)'
  BY <1>1 DEF Together
<1>3. Pairing(level)'
  <2>1. Len(group') % 2 = 0 /\ closed(pairsAt(level)', ToSet(group'))
    BY EmptyGroup
  <2> QED
    BY <2>1 DEF Pairing
<1> QED
  BY <1>2, <1>3

LEMMA MatesStart ==
  ASSUME GInv, NEW nt \in Threads, NEW pattern \in Patterns, Start(nt, pattern)
  PROVE  MInv'
<1>1. /\ pc = "idle" /\ level' = 1 /\ group' = group
      /\ groups' = [l \in 1 .. levels_n - 1 |-> << >>] /\ levels_n' = levels_n
      /\ pc' = (IF levels_n > 1 THEN "search" ELSE "root")
  BY DEF Start, treeVars
<1>2. group = << >> /\ levels_n \in Nat
  <2>1. group = << >> /\ levels_n = usedLevels(arities)
    BY <1>1 DEF GInv, Typed
  <2>2. PICK m \in Machines : arities = m.arities
    BY DEF GInv, Typed
  <2> QED
    BY <2>1, <2>2, Room DEF LevelsHaveRoom
<1>3. CASE levels_n > 1
  <2>1. pc' = "search" /\ groups'[1] = << >> /\ reached' = {1}
    BY <1>1, <1>2, <1>3 DEF reached, grouped
  <2>2. Together(level)' /\ Pairing(level)'
    BY <1>1, <1>2, <2>1, MatesFresh
  <2> QED
    BY <1>1, <2>1, <2>2 DEF MInv
<1>4. CASE ~(levels_n > 1)
  <2>1. pc' = "root" /\ reached' = {}
    BY <1>1, <1>2, <1>4 DEF reached, grouped
  <2> QED
    BY <2>1 DEF MInv
<1> QED
  BY <1>3, <1>4

LEMMA MatesNextLevel ==
  ASSUME GInv, MInv, NextLevel
  PROVE  MInv'
<1>1. /\ pc = "sum" /\ level' = level + 1 /\ groups' = groups /\ nthreads' = nthreads
      /\ pc' = (IF level + 1 < levels_n THEN "search" ELSE "root")
      /\ exec_el_in_level' = exec_el_in_level /\ levels_n' = levels_n /\ group' = group
      /\ UNCHANGED commVars
  BY DEF NextLevel, inputVars, treeVars
<1>2. /\ levels_n \in Nat /\ level \in 1 .. levels_n - 1
      /\ reached = 1 .. level /\ group = << >>
      /\ \A l \in level + 1 .. levels_n - 1 : groups[l] = << >>
  BY <1>1, Here DEF GInv, Typed, reached, grouped
<1>3. CASE pc' = "root"
  <2>1. reached' = 1 .. level
    BY <1>1, <1>2, <1>3 DEF reached, grouped
  <2> QED
    BY <1>1, <1>2, <1>3, <2>1, MatesSame
<1>4. CASE pc' = "search"
  <2>1. reached' = 1 .. level \cup {level + 1} /\ groups'[level'] = << >>
    BY <1>1, <1>2, <1>4 DEF reached, grouped
  <2>2. Together(level)' /\ Pairing(level)'
    BY <1>1, <1>2, <1>4, <2>1, MatesFresh
  <2>3. quiet' = quiet
    BY <1>1 DEF quiet, commVars
  <2> SUFFICES ASSUME quiet, NEW l \in reached', suits(l)'
               PROVE  Together(l)' /\ (l = level' => Pairing(l)')
    BY <2>3 DEF MInv
  <2>4. CASE l = level'
    BY <2>2, <2>4
  <2>5. CASE l \in 1 .. level
    <3>1. Together(l)
      BY <1>1, <1>2, <2>5, PairsSame DEF MInv, commVars
    <3>2. l # level'
      BY <1>1, <1>2, <2>5
    <3> QED
      BY <1>1, <3>1, <3>2, PairsSame DEF commVars
  <2> QED
    BY <1>1, <2>1, <2>4, <2>5
<1> QED
  BY <1>1, <1>3, <1>4

\* Every step groups partners together.
LEMMA NextMInv == ASSUME GInv, EInv, MInv, [Next]_vars PROVE MInv'
<1>1. CASE Step
  <2>1. CASE greedy_init
    <3>1. reached' = {}
      BY <2>1 DEF greedy_init, reached, grouped
    <3> QED
      BY <3>1 DEF MInv
  <2>2. CASE Consider
    BY <2>2, MatesConsider
  <2>3. CASE Take
    BY <2>3, MatesTake
  <2>4. CASE FinishGroup
    BY <2>4, MatesFinishGroup
  <2>5. CASE SumPair
    <3>1. /\ pc' = "sum" /\ pc = "sum" /\ level' = level /\ groups' = groups
          /\ nthreads' = nthreads /\ exec_el_in_level' = exec_el_in_level
          /\ spcd_matrix' = spcd_matrix /\ start' = start
      BY <2>5 DEF SumPair, inputVars, treeVars, groupVars
    <3>2. reached' = reached
      BY <3>1 DEF reached, grouped
    <3>3. quiet' = quiet
      BY <3>1 DEF quiet
    <3> SUFFICES ASSUME quiet, NEW l \in reached, suits(l) PROVE Together(l)
      BY <3>1, <3>2, <3>3, PairsSame DEF MInv
    <3> QED
      BY DEF MInv
  <2>6. CASE NextLevel
    BY <2>6, MatesNextLevel
  <2>7. CASE PlaceRoot
    <3>1. pc = "root" /\ pc' = "place" /\ UNCHANGED << inputVars, workVars >>
      BY <2>7 DEF PlaceRoot
    <3>2. reached' = reached
      BY <3>1 DEF reached, grouped, inputVars, treeVars
    <3> QED
      BY <3>1, <3>2, MatesSame DEF inputVars, treeVars, workVars, groupVars
  <2>8. CASE \E v \in Paths(arities) : PlaceOnPU(v) \/ PlaceOnChildren(v) \/ PassDown(v)
    <3>1. PICK v \in Paths(arities) : PlaceOnPU(v) \/ PlaceOnChildren(v) \/ PassDown(v)
      BY <2>8
    <3>2. pc = "place" /\ pc' = "place" /\ UNCHANGED << inputVars, workVars >>
      BY <3>1 DEF PlaceOnPU, PlaceOnChildren, PassDown, placing
    <3>3. reached' = reached
      BY <3>2 DEF reached, grouped, inputVars, treeVars
    <3> QED
      BY <3>2, <3>3, MatesSame DEF inputVars, treeVars, workVars, groupVars
  <2>9. CASE Mapped
    <3>1. pc = "place" /\ pc' = "mapped" /\ UNCHANGED << inputVars, workVars >>
      BY <2>9 DEF Mapped
    <3>2. reached' = reached
      BY <3>1 DEF reached, grouped, inputVars, treeVars
    <3> QED
      BY <3>1, <3>2, MatesSame DEF inputVars, treeVars, workVars, groupVars
  <2>10. CASE Sleep
    <3>1. reached' = {}
      BY <2>10 DEF Sleep, reached, grouped
    <3> QED
      BY <3>1 DEF MInv
  <2> QED
    BY <1>1, <2>1, <2>2, <2>3, <2>4, <2>5, <2>6, <2>7, <2>8, <2>9, <2>10 DEF Step
<1>2. CASE \E nt \in Threads, pattern \in Patterns : Start(nt, pattern)
  BY <1>2, MatesStart
<1>3. CASE \E c \in Cells : Communicate(c)
  <2>1. PICK c \in Cells : Communicate(c)
    BY <1>3
  <2>2. spcd_matrix' = [spcd_matrix EXCEPT ![c] = @ + 1] /\ start' = start
    BY <2>1 DEF Communicate
  <2>3. start[c] <= spcd_matrix[c] /\ spcd_matrix[c] \in Nat /\ start[c] \in Nat
        /\ spcd_matrix'[c] = spcd_matrix[c] + 1
    BY <2>2 DEF EInv, OnlyMore
  <2>4. start[c] # spcd_matrix'[c]
    BY <2>3
  <2>5. ~quiet'
    BY <2>2, <2>4 DEF quiet
  <2> QED
    BY <2>5 DEF MInv
<1>4. CASE UNCHANGED vars
  <2>1. reached' = reached
    BY <1>4 DEF vars, reached, grouped, inputVars, treeVars, workVars, groupVars
  <2> QED
    BY <1>4, <2>1, MatesSame
    DEF vars, inputVars, treeVars, workVars, groupVars, searchVars
<1> QED
  BY <1>1, <1>2, <1>3, <1>4 DEF Next

\* Partners are grouped together in every reachable state.
LEMMA MatesInvariant == Spec => []MInv
<1>1. Init => MInv
  <2>1. Init => reached = {}
    BY DEF Init, reached, grouped
  <2> QED
    BY <2>1 DEF MInv
<1>2. GInv /\ EInv /\ MInv /\ [Next]_vars => MInv'
  BY NextMInv
<1>3. Spec => [](GInv /\ EInv)
  BY SumsInvariant
<1> QED
  BY <1>1, <1>2, <1>3, PTL DEF Spec

-----------------------------------------------------------------------------
(* The lowest shared level *)

\* A level that its width divides is shared out without a remainder.
LEMMA Exactly ==
  ASSUME NEW W \in Nat \ {0}, NEW A \in Nat
  PROVE  (A * W) \div W = A /\ (A * W) % W = 0
<1> DEFINE x == A * W
           p == x \div W
<1>1. x \in Nat /\ W \in Nat
  OBVIOUS
<1>2. x % W = 0
  <2>1. (A * W + 0) % W = 0
    BY Remainder
  <2> HIDE DEF x
  <2>2. A * W + 0 = x
    BY <1>1 DEF x
  <2> QED
    BY <2>1, <2>2
<1> HIDE DEF x
<1>3. p \in Nat /\ x = p * W + (x % W)
  BY <1>1
<1> HIDE DEF p
<1>4. p * W \in Nat /\ p * W = A * W
  <2>1. p * W \in Nat
    BY <1>3
  <2> DEFINE u == p * W
  <2> HIDE DEF u
  <2>2. x = u + 0 /\ u \in Nat
    BY <1>2, <1>3, <2>1 DEF u
  <2>3. x = u
    BY <2>2
  <2> QED
    BY <2>1, <2>3 DEF u, x
<1>5. p * W + 1 - 1 = A * W + 1 - 1 /\ 1 \in 1 .. W
  <2>1. W # 0 /\ W \in Nat
    OBVIOUS
  <2>2. 1 \in 1 .. W
    BY <2>1
  <2> QED
    BY <1>4, <2>2
<1>6. p = A
  BY <1>1, <1>3, <1>5, DigitUnique
<1> QED
  BY <1>2, <1>6 DEF p, x

\* The lowest level with sharers; below it every vertex has one child.
lowestShared(a) == Max({0} \cup {l \in DOMAIN a : a[l] > 1})

LEMMA LowestIs ==
  ASSUME NEW a \in Seq(Nat \ {0})
  PROVE  LET k == lowestShared(a)
         IN /\ k \in 0 .. Len(a) /\ (k > 0 => a[k] > 1)
            /\ \A d \in k + 1 .. Len(a) : a[d] = 1
<1> DEFINE N == Len(a)
           S == {0} \cup {l \in DOMAIN a : a[l] > 1}
           T == {N - l : l \in S}
<1>1. N \in Nat /\ DOMAIN a = 1 .. N /\ \A d \in 1 .. N : a[d] \in Nat \ {0}
  OBVIOUS
<1> HIDE DEF N
<1>2. S \subseteq 0 .. N /\ 0 \in S
  BY <1>1
<1>3. PICK m \in T : \A n \in T : m <= n
  <2>1. T \subseteq Nat /\ T # {}
    BY <1>1, <1>2
  <2> HIDE DEF T
  <2> QED
    BY <2>1, Least
<1>4. PICK k \in S : m = N - k
  OBVIOUS
<1>5. \A l \in S : k >= l
  <2> TAKE l \in S
  <2>1. N - l \in T
    OBVIOUS
  <2>2. N - k <= N - l
    BY <1>3, <1>4, <2>1
  <2> HIDE DEF S
  <2> QED
    BY <1>1, <1>2, <2>2
<1>6. Max(S) \in S /\ \A l \in S : Max(S) >= l
  BY <1>5 DEF Max
<1> DEFINE x == Max(S)
<1>7. lowestShared(a) = x
  BY DEF lowestShared
<1> HIDE DEF x
<1>8. x \in S /\ \A l \in S : x >= l
  BY <1>6 DEF x
<1>9. x \in 0 .. N
  BY <1>2, <1>8
<1>10. ASSUME NEW d \in x + 1 .. N PROVE a[d] = 1
  <2>1. d \in 1 .. N /\ d \notin S
    BY <1>1, <1>8, <1>9
  <2>2. ~(a[d] > 1) /\ a[d] \in Nat \ {0}
    BY <1>1, <2>1
  <2> QED
    BY <2>2
<1>11. x > 0 => a[x] > 1
  BY <1>8
<1> QED
  BY <1>7, <1>9, <1>10, <1>11 DEF N

\* The first level of grouping is that of the lowest shared level.
LEMMA LowestLevels ==
  ASSUME NEW a \in Seq(Nat \ {0})
  PROVE  LET k == lowestShared(a)
         IN /\ \A d \in k .. Len(a) : levelAt(a, d) = 1
            /\ k > 0 => levelAt(a, k - 1) = 2
<1> DEFINE N == Len(a)
           k == lowestShared(a)
           S == {i \in Nat : levelAt(a, N - i) = 1}
<1>1. /\ a \in Seq(Nat) /\ N \in Nat /\ k \in 0 .. N /\ (k > 0 => a[k] > 1)
      /\ \A d \in k + 1 .. N : a[d] = 1
  BY LowestIs
<1>2. levelAt(a, N) = 1
  <2>1. N \in 0 .. Len(a)
    BY <1>1
  <2> QED
    BY <1>1, <2>1, LevelAtEnds
<1> HIDE DEF k
<1>3. \A d \in 1 .. N : levelAt(a, d - 1) = levelAt(a, d) + (IF a[d] > 1 THEN 1 ELSE 0)
  BY <1>1, LevelAtStep
<1> HIDE DEF N
<1>4. 0 .. N - k \subseteq S
  <2>1. N - 0 = N /\ N - k \in Nat
    BY <1>1
  <2>2. 0 \in S
    BY <1>2, <2>1
  <2>3. ASSUME NEW i \in 0 .. (N - k) - 1, i \in S PROVE i + 1 \in S
    <3>1. N - i \in k + 1 .. N /\ N - i \in 1 .. N /\ N - (i + 1) = (N - i) - 1
      BY <1>1
    <3>2. levelAt(a, N - i) = 1 /\ ~(a[N - i] > 1)
      BY <1>1, <2>3, <3>1
    <3>3. levelAt(a, (N - i) - 1) = 1
      BY <1>3, <3>1, <3>2
    <3> QED
      BY <3>1, <3>3
  <2> HIDE DEF S
  <2> QED
    BY <2>1, <2>2, <2>3, Induction
<1>5. ASSUME NEW d \in k .. N PROVE levelAt(a, d) = 1
  <2>1. N - d \in 0 .. N - k /\ N - (N - d) = d
    BY <1>1
  <2>2. N - d \in S
    BY <1>4, <2>1
  <2> QED
    BY <2>1, <2>2
<1>6. k > 0 => levelAt(a, k - 1) = 2
  <2> SUFFICES ASSUME k > 0 PROVE levelAt(a, k - 1) = 2
    OBVIOUS
  <2>1. k \in 1 .. N /\ k \in k .. N
    BY <1>1
  <2>2. levelAt(a, k) = 1
    BY <1>5, <2>1
  <2> QED
    BY <1>1, <1>3, <2>1, <2>2
<1> QED
  BY <1>5, <1>6 DEF k, N

\* A group of threads is handed down to its PU from a vertex of that level.
LEMMA HandedDown ==
  ASSUME NEW a \in Seq(Nat \ {0}), NEW T, NEW nt, isTower(a, T, nt),
         NEW c \in layout(a, T)[Len(a)]
  PROVE  \A d \in lowestShared(a) .. Len(a) :
           \E b \in layout(a, T)[d] : isAbove(b[1], c[1]) /\ b[2] = c[2]
<1> DEFINE N == Len(a)
           k == lowestShared(a)
           A == layout(a, T)
           S == {i \in Nat : \E b \in A[N - i] : isAbove(b[1], c[1]) /\ b[2] = c[2]}
<1>1. N \in Nat /\ k \in 0 .. N /\ \A d \in k + 1 .. N : a[d] = 1
  BY LowestIs
<1>2. \A d \in 0 .. N : \A b \in A[d] : b[1] \in Seq(Nat)
  BY LayoutTyped
<1>3. \A n \in 1 .. N : \A b \in A[n] : \E h \in A[n - 1] :
        under(a, T, n, h, b) /\ isAbove(h[1], b[1])
  BY LayoutNext
<1>4. c \in A[N]
  OBVIOUS
<1> HIDE DEF A, N, k
<1>5. 0 .. N - k \subseteq S
  <2>1. N - 0 = N /\ N - k \in Nat /\ N \in 0 .. N
    BY <1>1
  <2>2. 0 \in S
    <3>1. c[1] \in Seq(Nat)
      BY <1>2, <1>4, <2>1
    <3>2. isAbove(c[1], c[1])
      BY <3>1, AboveChild
    <3> QED
      BY <1>4, <2>1, <3>2
  <2>3. ASSUME NEW i \in 0 .. (N - k) - 1, i \in S PROVE i + 1 \in S
    <3> DEFINE n == N - i
    <3>1. n \in k + 1 .. N /\ n \in 1 .. N /\ N - (i + 1) = n - 1 /\ n - 1 \in 0 .. N
          /\ n \in 0 .. N /\ i + 1 \in Nat
      BY <1>1
    <3>2. PICK b \in A[n] : isAbove(b[1], c[1]) /\ b[2] = c[2]
      BY <2>3
    <3> HIDE DEF n
    <3>3. PICK h \in A[n - 1] : under(a, T, n, h, b) /\ isAbove(h[1], b[1])
      BY <1>3, <3>1
    <3>4. ~(a[n] > 1)
      BY <1>1, <3>1
    <3>5. b[2] = h[2]
      BY <3>3, <3>4 DEF under
    <3>6. isAbove(h[1], c[1])
      BY <1>2, <1>4, <2>1, <3>1, <3>2, <3>3, AboveAbove
    <3>7. \E x \in A[N - (i + 1)] : isAbove(x[1], c[1]) /\ x[2] = c[2]
      BY <3>1, <3>2, <3>5, <3>6
    <3> QED
      BY <3>1, <3>7
  <2> HIDE DEF S
  <2> QED
    BY <2>1, <2>2, <2>3, Induction
<1>6. ASSUME NEW d \in k .. N
      PROVE  \E b \in A[d] : isAbove(b[1], c[1]) /\ b[2] = c[2]
  <2>1. N - d \in 0 .. N - k /\ N - (N - d) = d
    BY <1>1
  <2>2. N - d \in S
    BY <1>4, <1>5, <2>1
  <2> QED
    BY <2>1, <2>2
<1> QED
  BY <1>6 DEF A, N, k

\* Groups of threads that share a group of level 2 go below one vertex of that
\* level.
LEMMA CommonVertex ==
  ASSUME NEW a \in Seq(Nat \ {0}), NEW T, NEW nt, isTower(a, T, nt), lowestShared(a) > 0,
         NEW y \in 0 .. Len(T[2]) - 1,
         NEW c \in layout(a, T)[Len(a)], c[2] \in ToSet(T[2][y + 1]),
         NEW e \in layout(a, T)[Len(a)], e[2] \in ToSet(T[2][y + 1])
  PROVE  \E v \in Seq(Nat) :
           Len(v) = lowestShared(a) - 1 /\ isAbove(v, c[1]) /\ isAbove(v, e[1])
<1> DEFINE N == Len(a)
           k == lowestShared(a)
           A == layout(a, T)
           G == T[2]
<1>1. /\ N \in Nat /\ k \in 1 .. N /\ a[k] > 1 /\ k - 1 \in 0 .. N /\ k \in k .. N
      /\ k \in 0 .. N /\ N \in 0 .. N /\ levelAt(a, k - 1) = 2
  <2>1. N \in Nat /\ k \in 0 .. N /\ k > 0 /\ a[k] > 1 /\ levelAt(a, k - 1) = 2
    BY LowestIs, LowestLevels
  <2> HIDE DEF k, N
  <2> QED
    BY <2>1
<1>2. /\ G \in Seq(Seq(Nat)) /\ OnePlaceEach(G)
  <2>1. levelAt(a, k - 1) \in 1 .. levelAt(a, 0)
    <3>1. a \in Seq(Nat)
      OBVIOUS
    <3> QED
      BY <1>1, <3>1, LevelAtEnds
  <2> QED
    BY <1>1, <2>1 DEF isTower, Complete
<1>3. Right(a, T, k - 1, A[k - 1])
  BY <1>1, LayoutRight
<1>4. \A d \in 0 .. N : \A b \in A[d] : b[1] \in Seq(Nat) /\ Len(b[1]) = d
  BY LayoutTyped
<1>5. \A b \in A[k] : \E h \in A[k - 1] : under(a, T, k, h, b) /\ isAbove(h[1], b[1])
  BY <1>1, LayoutNext
<1>6. y + 1 \in DOMAIN G /\ y \in Nat
  BY <1>2
<1>7. ASSUME NEW w \in A[N], w[2] \in ToSet(G[y + 1])
      PROVE  \E h \in A[k - 1] : h[2] = y /\ isAbove(h[1], w[1])
  <2>1. PICK b \in A[k] : isAbove(b[1], w[1]) /\ b[2] = w[2]
    BY <1>1, HandedDown
  <2>2. PICK h \in A[k - 1] : under(a, T, k, h, b) /\ isAbove(h[1], b[1])
    BY <1>5
  <2> HIDE DEF A, N, k, G
  <2>3. PICK i \in DOMAIN G[h[2] + 1] : b = << Append(h[1], i), G[h[2] + 1][i] >>
    BY <1>1, <2>2 DEF under, G
  <2>4. h[2] \in 0 .. Len(G) - 1
    BY <1>1, <1>3 DEF Right, G
  <2>5. h[2] + 1 \in DOMAIN G /\ h[2] \in Nat
    BY <1>2, <2>4
  <2>6. PICK j \in DOMAIN G[y + 1] : w[2] = G[y + 1][j]
    BY <1>7 DEF ToSet
  <2>7. i \in Nat /\ j \in Nat
    <3>1. G[h[2] + 1] \in Seq(Nat) /\ G[y + 1] \in Seq(Nat)
      BY <1>2, <1>6, <2>5
    <3>2. \A s \in Seq(Nat) : DOMAIN s \subseteq Nat
      OBVIOUS
    <3> QED
      BY <2>3, <2>6, <3>1, <3>2
  <2>8. /\ << h[2] + 1, i >> \in Places(G) /\ << y + 1, j >> \in Places(G)
        /\ at(G, << h[2] + 1, i >>) = at(G, << y + 1, j >>)
    <3>1. b[2] = G[h[2] + 1][i]
      BY <2>3
    <3> QED
      BY <1>6, <2>1, <2>3, <2>5, <2>6, <2>7, <3>1 DEF Places, at
  <2>9. << h[2] + 1, i >> = << y + 1, j >>
    BY <1>2, <2>8 DEF OnePlaceEach
  <2>10. h[2] = y
    BY <1>6, <2>5, <2>9
  <2>11. isAbove(h[1], w[1])
    BY <1>1, <1>4, <2>1, <2>2, AboveAbove
  <2> QED
    BY <2>10, <2>11
<1>8. PICK g \in A[k - 1] : g[2] = y /\ isAbove(g[1], c[1])
  BY <1>7
<1>9. PICK h \in A[k - 1] : h[2] = y /\ isAbove(h[1], e[1])
  BY <1>7
<1>10. g[1] = h[1]
  BY <1>3, <1>8, <1>9 DEF Right
<1>11. g[1] \in Seq(Nat) /\ Len(g[1]) = k - 1
  BY <1>1, <1>4
<1> HIDE DEF A, k
<1> QED
  BY <1>8, <1>9, <1>10, <1>11 DEF k

\* Two paths have all above both in common.
LEMMA CommonAbove ==
  ASSUME NEW v \in Seq(Nat), NEW p \in Seq(Nat), NEW q \in Seq(Nat),
         isAbove(v, p), isAbove(v, q)
  PROVE  commonLevel(p, q) >= Len(v)
<1> DEFINE C == CommonPrefixes({p, q})
<1>1. \A s \in Seq(Nat), t \in Seq(Nat) : isAbove(s, t) => IsPrefix(s, t)
  <2> SUFFICES ASSUME NEW s \in Seq(Nat), NEW t \in Seq(Nat), isAbove(s, t)
               PROVE  SubSeq(s, 1, Len(s)) = SubSeq(t, 1, Len(s)) /\ Len(s) <= Len(t)
    BY DEF IsPrefix
  <2>1. Len(s) <= Len(t) /\ \A i \in 1 .. Len(s) : t[i] = s[i]
    BY DEF isAbove
  <2> QED
    BY <2>1
<1>2. v \in C
  <2>1. IsPrefix(v, p) /\ IsPrefix(v, q)
    BY <1>1
  <2>2. v = SubSeq(p, 1, Len(v)) /\ Len(v) \in 0 .. Len(p)
    <3>1. Len(v) <= Len(p) /\ \A i \in 1 .. Len(v) : p[i] = v[i]
      BY DEF isAbove
    <3> QED
      BY <3>1
  <2>3. v \in Prefixes(p)
    BY <2>2 DEF Prefixes
  <2> QED
    BY <2>1, <2>3 DEF CommonPrefixes
<1>3. \A s \in C : Len(s) \in 0 .. Len(p)
  <2> TAKE s \in C
  <2>1. IsPrefix(s, p) /\ (s \in Prefixes(p) \/ s \in Prefixes(q))
    BY DEF CommonPrefixes
  <2>2. \A t \in Seq(Nat) : \A l \in 0 .. Len(t) : Len(SubSeq(t, 1, l)) \in Nat
    OBVIOUS
  <2>3. Len(s) \in Nat
    BY <2>1, <2>2 DEF Prefixes
  <2> QED
    BY <2>1, <2>3 DEF IsPrefix
<1> HIDE DEF C
<1> DEFINE n == Len(p)
           D == {n - Len(s) : s \in C}
<1>4. PICK m \in D : \A d \in D : m <= d
  <2>1. D \subseteq Nat /\ D # {}
    <3>1. n \in Nat
      OBVIOUS
    <3> HIDE DEF n
    <3> QED
      BY <1>2, <1>3, <3>1 DEF n
  <2> HIDE DEF D
  <2> QED
    BY <2>1, Least
<1>5. PICK s \in C : m = n - Len(s)
  OBVIOUS
<1>6. \A t \in C : Len(t) <= Len(s)
  <2> TAKE t \in C
  <2>1. n - Len(t) \in D
    OBVIOUS
  <2>2. n - Len(s) <= n - Len(t)
    BY <1>4, <1>5, <2>1
  <2>3. n \in Nat
    OBVIOUS
  <2> HIDE DEF n, D
  <2> QED
    BY <1>3, <2>2, <2>3
<1> DEFINE x == LongestCommonPrefix({p, q})
<1>7. x \in C /\ \A t \in C : Len(t) <= Len(x)
  BY <1>6 DEF LongestCommonPrefix, C
<1>8. commonLevel(p, q) = Len(x)
  BY DEF commonLevel
<1> HIDE DEF x
<1>9. Len(v) <= Len(x) /\ Len(x) \in 0 .. Len(p) /\ Len(v) \in Nat /\ Len(p) \in Nat
  BY <1>2, <1>3, <1>7
<1> QED
  BY <1>8, <1>9

-----------------------------------------------------------------------------
(* Pairs of threads *)

\* The cells of the threads that communicate.
partnerCells == {c \in Cells : c[1] < nthreads /\ spcd_matrix[c] > 0}

\* Each thread communicates with one other.
allPaired ==
  \A t \in 0 .. nthreads - 1 : Cardinality({c \in partnerCells : t \in {c[1], c[2]}}) = 1

\* The same as pairs in both orders.
friends ==
  {p \in (0 .. nthreads - 1) \X (0 .. nthreads - 1) :
     p[1] # p[2] /\ countOf(spcd_matrix)[p] > 0}

\* Then each thread has one partner.
LEMMA FriendsMatch ==
  ASSUME GInv, nthreads \in Threads, allPaired
  PROVE  /\ matching(friends, nthreads)
         /\ \A c \in partnerCells :
              /\ c[1] \in 0 .. nthreads - 1 /\ c[2] \in 0 .. nthreads - 1
              /\ << c[1], c[2] >> \in friends
<1> DEFINE n == nthreads
           N == Max(Threads)
<1>1. N \in Nat /\ n \in Nat /\ n <= N /\ Elements = 0 .. N - 1
  BY RowsEnough, GreedyAssumption DEF Elements
<1> HIDE DEF N, n
<1>2. IsFiniteSet(Cells)
  <2>1. IsFiniteSet(Elements)
    <3>1. 0 \in Int /\ N - 1 \in Int
      BY <1>1
    <3> QED
      BY <1>1, <3>1, FS_Interval
  <2>2. IsFiniteSet(Elements \X Elements)
    BY <2>1, FS_Product
  <2> QED
    BY <2>2, FS_Subset DEF Cells
<1>3. \A c \in partnerCells : /\ c = << c[1], c[2] >> /\ c[1] \in 0 .. n - 1
                              /\ c[2] \in 0 .. n - 1 /\ c[1] > c[2]
  <2> TAKE c \in partnerCells
  <2>1. c \in Elements \X Elements /\ c[1] > c[2] /\ c[1] < n
    BY DEF partnerCells, Cells, n
  <2>2. c = << c[1], c[2] >> /\ c[1] \in 0 .. N - 1 /\ c[2] \in 0 .. N - 1
    BY <1>1, <2>1
  <2> QED
    BY <1>1, <2>1, <2>2
<1>4. ASSUME NEW t \in 0 .. n - 1, NEW u \in 0 .. n - 1, t > u
      PROVE  << t, u >> \in friends <=> << t, u >> \in partnerCells
  <2>1. t \in Elements /\ u \in Elements /\ t \in Nat /\ t < n
    BY <1>1
  <2>2. << t, u >> \in Cells
    BY <1>4, <2>1 DEF Cells
  <2>3. countOf(spcd_matrix)[<< t, u >>] = spcd_matrix[<< t, u >>]
    BY <1>4, <2>1 DEF countOf
  <2>4. t # u
    BY <1>4, <2>1
  <2> QED
    BY <2>1, <2>2, <2>3, <2>4 DEF friends, partnerCells, n
<1>5. \A t, u \in 0 .. n - 1 : << t, u >> \in friends => << u, t >> \in friends
  <2>1. counts(countOf(spcd_matrix), nthreads)
    BY CountsAre DEF GInv
  <2> QED
    BY <2>1 DEF counts, friends, n
<1>6. ASSUME NEW c \in partnerCells PROVE << c[1], c[2] >> \in friends
  BY <1>3, <1>4, <1>6
<1>7. ASSUME NEW t \in 0 .. n - 1
      PROVE  \E c : {k \in partnerCells : t \in {k[1], k[2]}} = {c}
  <2> DEFINE S == {k \in partnerCells : t \in {k[1], k[2]}}
  <2>1. Cardinality(S) = 1
    BY DEF allPaired, n
  <2>2. IsFiniteSet(S)
    BY <1>2, FS_Subset DEF partnerCells
  <2> HIDE DEF S
  <2>3. \E c : S = {c}
    BY <2>1, <2>2, FS_Singleton
  <2> QED
    BY <2>3 DEF S
<1>8. ASSUME NEW t \in 0 .. n - 1 PROVE \E u \in 0 .. n - 1 : << t, u >> \in friends
  <2>1. PICK c : {k \in partnerCells : t \in {k[1], k[2]}} = {c}
    BY <1>7
  <2>2. c \in partnerCells /\ (t = c[1] \/ t = c[2])
    BY <2>1
  <2>3. << c[1], c[2] >> \in friends /\ c[1] \in 0 .. n - 1 /\ c[2] \in 0 .. n - 1
    BY <1>3, <1>6, <2>2
  <2> QED
    BY <1>5, <2>2, <2>3
<1>9. ASSUME NEW t \in 0 .. n - 1, NEW u \in 0 .. n - 1, NEW v \in 0 .. n - 1,
             << t, u >> \in friends, << t, v >> \in friends
      PROVE  u = v
  <2>1. PICK c : {k \in partnerCells : t \in {k[1], k[2]}} = {c}
    BY <1>7
  <2>2. ASSUME NEW w \in 0 .. n - 1, << t, w >> \in friends
        PROVE  (c = << t, w >> /\ t > w) \/ (c = << w, t >> /\ w > t)
    <3>1. t # w
      BY <2>2 DEF friends
    <3>2. CASE t > w
      <4>1. << t, w >> \in partnerCells
        BY <1>4, <2>2, <3>2
      <4>2. << t, w >> = c
        BY <2>1, <4>1
      <4> QED
        BY <3>2, <4>2
    <3>3. CASE w > t
      <4>1. << w, t >> \in friends
        BY <1>5, <2>2
      <4>2. << w, t >> \in partnerCells
        BY <1>4, <3>3, <4>1
      <4>3. << w, t >> = c
        BY <2>1, <4>2
      <4> QED
        BY <3>3, <4>3
    <3>4. t > w \/ w > t
      BY <1>1, <3>1
    <3> QED
      BY <3>2, <3>3, <3>4
  <2>3. (c = << t, u >> /\ t > u) \/ (c = << u, t >> /\ u > t)
    BY <1>9, <2>2
  <2>4. (c = << t, v >> /\ t > v) \/ (c = << v, t >> /\ v > t)
    BY <1>9, <2>2
  <2>5. (c[1] = t /\ c[2] = u /\ t > u) \/ (c[1] = u /\ c[2] = t /\ u > t)
    BY <2>3
  <2>6. (c[1] = t /\ c[2] = v /\ t > v) \/ (c[1] = v /\ c[2] = t /\ v > t)
    BY <2>4
  <2> QED
    BY <1>1, <2>5, <2>6
<1>10. matching(friends, nthreads)
  BY <1>5, <1>8, <1>9 DEF matching, n
<1> QED
  BY <1>3, <1>6, <1>10 DEF n

\* The groups of the tower keep partners together where they can.
LEMMA TowerTogether ==
  ASSUME GInv, MInv, quiet, pc = "mapped", NEW l \in 1 .. levels_n,
         l = levels_n \/ suits(l)
  PROVE  \A x \in DOMAIN tower[l] : closed(pairsAt(l), ToSet(tower[l][x]))
<1>1. levels_n \in Nat /\ tower[l] = groupsOf(l)
  BY TowerStands DEF tower
<1>2. CASE l = levels_n
  <2> DEFINE n == nGroupsAt(l - 1)
             r == [x \in 1 .. n |-> x - 1]
  <2>1. tower[l] = << r >>
    BY <1>1, <1>2 DEF groupsOf
  <2>2. n \in Nat
    <3>1. isTower(arities, tower, nthreads) /\ levels_n = levelAt(arities, 0)
          /\ groups \in [1 .. levels_n - 1 -> Seq(Seq(Nat))] /\ nthreads \in Nat
      BY TowerStands DEF GInv, Typed, working, isTower
    <3>2. CASE l = 1
      BY <3>1, <3>2 DEF nGroupsAt
    <3>3. CASE l # 1
      <4>1. l - 1 \in 1 .. levels_n - 1 /\ l - 1 # 0
        BY <1>1, <3>3
      <4>2. groups[l - 1] \in Seq(Seq(Nat))
        BY <3>1, <4>1
      <4> QED
        BY <4>1, <4>2 DEF nGroupsAt
    <3> QED
      BY <3>2, <3>3
  <2>3. pairsAt(l) \subseteq (0 .. n - 1) \X (0 .. n - 1)
    BY DEF pairsAt
  <2> HIDE DEF n
  <2>4. ToSet(r) = 0 .. n - 1
    <3>1. DOMAIN r = 1 .. n /\ \A x \in 1 .. n : r[x] = x - 1
      OBVIOUS
    <3>2. \A y \in 0 .. n - 1 : y + 1 \in 1 .. n /\ (y + 1) - 1 = y
      BY <2>2
    <3>3. \A x \in 1 .. n : x - 1 \in 0 .. n - 1
      BY <2>2
    <3> HIDE DEF r
    <3> QED
      BY <3>1, <3>2, <3>3 DEF ToSet
  <2>5. closed(pairsAt(l), ToSet(r))
    BY <2>3, <2>4 DEF closed
  <2> HIDE DEF r
  <2>6. \A x \in DOMAIN << r >> : << r >>[x] = r
    OBVIOUS
  <2> QED
    BY <2>1, <2>5, <2>6
<1>3. CASE l # levels_n
  <2>1. tower[l] = groups[l]
    BY <1>1, <1>3 DEF groupsOf
  <2>2. l \in grouped
    BY <1>1, <1>3 DEF grouped
  <2>3. Together(l)
    BY <1>3, <2>2 DEF MInv, reached
  <2> QED
    BY <2>1, <2>3 DEF Together
<1> QED
  BY <1>2, <1>3

\* What a finished mapping has: the tower stands on as many groups as PUs.
LEMMA MappedHere ==
  ASSUME GInv, TreeOK, pc = "mapped"
  PROVE  LET n == Cardinality(PUs(arities))
         IN /\ arities \in Seq(Nat \ {0}) /\ isTower(arities, tower, nthreads)
            /\ levels_n = levelAt(arities, 0) /\ levels_n \in Nat \ {0}
            /\ nthreads \in Threads /\ nthreads \in Nat \ {0}
            /\ exec_el_in_level = execElements(arities)
            /\ n \in Nat \ {0} /\ exec_el_in_level[1] = n /\ width(arities, Len(arities)) = n
            /\ nGroupsAt(0) = nthreads /\ pairsAt(1) = friends
<1> DEFINE n == Cardinality(PUs(arities))
<1>1. /\ arities \in Seq(Nat \ {0}) /\ isTower(arities, tower, nthreads)
      /\ levels_n = levelAt(arities, 0) /\ levels_n \in Nat \ {0}
      /\ nthreads \in Threads /\ nthreads \in Nat \ {0}
  BY TowerStands, GreedyAssumption DEF TreeOK
<1>2. exec_el_in_level = execElements(arities)
  BY DEF GInv, Typed
<1>3. n \in Nat \ {0} /\ exec_el_in_level[1] = n /\ width(arities, Len(arities)) = n
  <2>1. arities \in Seq(Nat) /\ Len(arities) \in 0 .. Len(arities)
    BY <1>1
  <2>2. PUs(arities) = verticesAt(arities, Len(arities))
    BY <2>1, PathsAre
  <2>3. levelAt(arities, Len(arities)) = 1
    BY <2>1, LevelAtEnds
  <2>4. n = width(arities, Len(arities))
    BY <2>2 DEF width
  <2> HIDE DEF n
  <2>5. width(arities, Len(arities)) \in Nat \ {0}
    BY <1>1, <2>1, Widths
  <2>6. execElements(arities)[1] = width(arities, Len(arities))
    BY <1>1, <2>1, <2>3, ExecWidth
  <2> QED
    BY <1>2, <2>4, <2>5, <2>6
<1>4. nGroupsAt(0) = nthreads
  BY DEF nGroupsAt
<1>5. pairsAt(1) = friends
  <2>1. nGroupsAt(1 - 1) = nthreads
    BY <1>4
  <2>2. ASSUME NEW t \in 0 .. nthreads - 1, NEW u \in 0 .. nthreads - 1, t # u
        PROVE  ties(1, t, u) = countOf(spcd_matrix)[<< t, u >>]
    <3>1. countOf(spcd_matrix)[<< t, u >>] \in Nat
      BY <1>1, <2>2, CountsAre DEF GInv, counts
    <3>2. groupWeight(0, t, u) = countOf(spcd_matrix)[<< t, u >>]
      BY <3>1, WeightZero DEF groupWeight
    <3> QED
      BY <3>2 DEF ties
  <2>3. \A p \in (0 .. nthreads - 1) \X (0 .. nthreads - 1) :
          p[1] # p[2] => ties(1, p[1], p[2]) = countOf(spcd_matrix)[p]
    <3> TAKE p \in (0 .. nthreads - 1) \X (0 .. nthreads - 1)
    <3>1. p = << p[1], p[2] >> /\ p[1] \in 0 .. nthreads - 1 /\ p[2] \in 0 .. nthreads - 1
      OBVIOUS
    <3> QED
      BY <2>2, <3>1
  <2> QED
    BY <2>1, <2>3 DEF pairsAt, friends
<1> QED
  BY <1>1, <1>2, <1>3, <1>4, <1>5

\* Two threads per PU: partners share it.
LEMMA OnOnePU ==
  ASSUME GInv, PInv, MInv, TreeOK, quiet, pc = "mapped", allPaired,
         nthreads = 2 * Cardinality(PUs(arities)),
         NEW c \in partnerCells
  PROVE  map[c[1]] = map[c[2]]
<1> DEFINE n == Cardinality(PUs(arities))
           A == layout(arities, tower)[Len(arities)]
           t == c[1]
           u == c[2]
<1>1. /\ arities \in Seq(Nat \ {0}) /\ isTower(arities, tower, nthreads)
      /\ levels_n \in Nat \ {0} /\ nthreads \in Threads
      /\ n \in Nat \ {0} /\ exec_el_in_level[1] = n
      /\ nGroupsAt(1 - 1) = nthreads /\ pairsAt(1) = friends /\ nthreads = 2 * n
  BY MappedHere
<1>2. matching(friends, nthreads) /\ << t, u >> \in friends
      /\ t \in 0 .. nthreads - 1 /\ u \in 0 .. nthreads - 1
  BY <1>1, FriendsMatch
<1> HIDE DEF n, t, u
<1>3. suits(1)
  <2>1. roomAt(1) = n
    BY <1>1 DEF roomAt
  <2>2. (2 * n) \div n = 2 /\ (2 * n) % n = 0
    BY <1>1, Exactly
  <2>3. evenSizes(nthreads, n)
    <3> SUFFICES ASSUME NEW g \in 0 .. n - 1 PROVE sizeOf(nthreads, n, g) % 2 = 0
      BY DEF evenSizes
    <3>1. ~(g < 0)
      BY <1>1
    <3>2. sizeOf(nthreads, n, g) = 2 + 0
      BY <1>1, <2>2, <3>1 DEF sizeOf
    <3> QED
      BY <3>2
  <2> QED
    BY <1>1, <1>2, <2>1, <2>3 DEF suits
<1>4. \A x \in DOMAIN tower[1] : closed(friends, ToSet(tower[1][x]))
  <2>1. 1 \in 1 .. levels_n
    BY <1>1
  <2> QED
    BY <1>1, <1>3, <2>1, TowerTogether
<1>5. PICK b \in A : t \in members(tower, b[2]) /\ map[t] = idOf(b[1])
  BY <1>2, ThreadsOn
<1>6. PICK e \in A : u \in members(tower, e[2]) /\ map[u] = idOf(e[1])
  BY <1>2, ThreadsOn
<1>7. /\ b[2] \in 0 .. Len(tower[1]) - 1 /\ e[2] \in 0 .. Len(tower[1]) - 1
      /\ b[1] = e[1] <=> b[2] = e[2]
  <2>1. Len(arities) \in 0 .. Len(arities) /\ levelAt(arities, Len(arities)) = 1
    BY <1>1, Members
  <2>2. Right(arities, tower, Len(arities), A)
    BY <1>1, <2>1, LayoutRight
  <2> QED
    BY <2>1, <2>2 DEF Right
<1>8. u \in members(tower, b[2])
  <2>1. b[2] + 1 \in DOMAIN tower[1]
    <3>1. tower[1] \in Seq(Seq(Nat))
      BY <1>1, Members
    <3> QED
      BY <1>7, <3>1
  <2>2. closed(friends, members(tower, b[2]))
    BY <1>4, <2>1 DEF members
  <2>3. << t, u >>[1] = t /\ << t, u >>[2] = u
    OBVIOUS
  <2> QED
    BY <1>2, <1>5, <2>2, <2>3 DEF closed
<1>9. b[2] = e[2]
  <2>1. \A x, y \in 0 .. Len(tower[1]) - 1 :
          \A w \in members(tower, x) : w \in members(tower, y) => x = y
    BY <1>1, Members
  <2> QED
    BY <1>6, <1>7, <1>8, <2>1
<1> QED
  BY <1>5, <1>6, <1>7, <1>9 DEF t, u

\* One thread per PU: the first groups have one thread each.
theThread(x) == groups[1][x + 1][1]

LEMMA Single ==
  ASSUME GInv, TreeOK, pc = "mapped", nthreads = Cardinality(PUs(arities)), levels_n > 1
  PROVE  /\ tower[1] = groups[1] /\ Len(groups[1]) = nthreads /\ nGroupsAt(1) = nthreads
         /\ \A x \in 0 .. nthreads - 1 :
              /\ theThread(x) \in 0 .. nthreads - 1
              /\ members(tower, x) = {theThread(x)}
              /\ threadsIn(groups, 1, x) = {theThread(x)}
         /\ \A x, y \in 0 .. nthreads - 1 : theThread(x) = theThread(y) => x = y
         /\ \A t \in 0 .. nthreads - 1 : \E x \in 0 .. nthreads - 1 : theThread(x) = t
<1> DEFINE n == nthreads
           G == groups[1]
<1>1. /\ arities \in Seq(Nat \ {0}) /\ isTower(arities, tower, n)
      /\ levels_n \in Nat \ {0} /\ n \in Nat \ {0} /\ exec_el_in_level[1] = n
      /\ nGroupsAt(0) = n
  BY MappedHere
<1>2. tower[1] = G
  <2>1. 1 \in 1 .. levels_n /\ levels_n # 1
    BY <1>1
  <2> QED
    BY <2>1 DEF tower, groupsOf
<1>3. Complete(G, n, n)
  <2>1. 1 \in grouped
    BY <1>1 DEF grouped
  <2>2. Complete(groups[1], nGroupsAt(1 - 1), exec_el_in_level[1])
    BY <2>1 DEF GInv, LowerComplete
  <2> QED
    BY <1>1, <2>2
<1>4. /\ Len(G) = n /\ G \in Seq(Seq(Nat)) /\ OnePlaceEach(G) /\ placed(G) = 0 .. n - 1
  <2>1. Len(G) = n
    BY <1>1, <1>3 DEF Complete
  <2>2. G \in Seq(Seq(Nat))
    BY <1>1, <1>2, Members
  <2> QED
    BY <1>3, <2>1, <2>2 DEF Complete
<1>5. nGroupsAt(1) = n
  BY <1>4 DEF nGroupsAt
<1>6. sharedOut(groups, n, 1)
  <2>1. groupsAt(groups, n, 1 - 1) = n
    BY DEF groupsAt
  <2>2. \A l \in 1 .. 1 : l = 1
    OBVIOUS
  <2> QED
    BY <1>1, <1>4, <2>1, <2>2 DEF sharedOut
<1>7. groupsAt(groups, n, 1) = n /\ groupsAt(groups, n, 0) = n
  BY <1>4 DEF groupsAt
<1>8. ASSUME NEW x \in 0 .. n - 1
      PROVE  /\ x + 1 \in DOMAIN G /\ G[x + 1] \in Seq(Nat) /\ Len(G[x + 1]) = 1
             /\ ToSet(G[x + 1]) = {theThread(x)} /\ theThread(x) \in 0 .. n - 1
  <2>1. x + 1 \in DOMAIN G /\ (x + 1) - 1 = x /\ x \in Nat
    BY <1>4
  <2>2. Len(G[x + 1]) = sizeOf(n, n, x)
    BY <1>3, <1>4, <2>1 DEF Complete, Sized
  <2>3. sizeOf(n, n, x) = 1
    <3>1. (1 * n) \div n = 1 /\ (1 * n) % n = 0
      BY <1>1, Exactly
    <3>2. 1 * n = n /\ ~(x < 0)
      BY <1>1, <2>1
    <3>3. n \div n = 1 /\ n % n = 0
      BY <3>1, <3>2
    <3>4. sizeOf(n, n, x) = 1 + 0
      BY <3>2, <3>3 DEF sizeOf
    <3> QED
      BY <3>4
  <2>4. G[x + 1] \in Seq(Nat)
    BY <1>4, <2>1
  <2>5. ToSet(G[x + 1]) = {theThread(x)}
    <3> DEFINE s == G[x + 1]
    <3>1. s \in Seq(Nat) /\ Len(s) = 1
      BY <2>2, <2>3, <2>4
    <3>2. theThread(x) = s[1]
      BY DEF theThread
    <3> HIDE DEF s
    <3>3. DOMAIN s = {1}
      <4>1. DOMAIN s = 1 .. 1
        BY <3>1
      <4> QED
        BY <4>1
    <3>4. ToSet(s) = {s[1]}
      BY <3>3 DEF ToSet
    <3> QED
      BY <3>2, <3>4 DEF s
  <2>6. ToSet(G[x + 1]) \subseteq 0 .. n - 1
    <3>1. 1 \in 1 .. 1 /\ 1 - 1 = 0
      OBVIOUS
    <3> QED
      BY <1>6, <1>7, <3>1, GroupSets
  <2> QED
    BY <2>1, <2>2, <2>3, <2>4, <2>5, <2>6
<1>9. ASSUME NEW x \in 0 .. n - 1
      PROVE  members(tower, x) = {theThread(x)} /\ threadsIn(groups, 1, x) = {theThread(x)}
  <2>1. members(tower, x) = {theThread(x)}
    BY <1>2, <1>8 DEF members
  <2>2. threadsIn(groups, 1, x) = UNION {threadsIn(groups, 0, y) : y \in ToSet(groups[1][x + 1])}
    <3>1. 1 \in 1 .. 1 /\ 1 - 1 = 0
      OBVIOUS
    <3> QED
      BY <1>6, <1>7, <3>1, ThreadsUp
  <2>3. \A y : threadsIn(groups, 0, y) = {y}
    BY ThreadsZero
  <2>4. threadsIn(groups, 1, x) = UNION {threadsIn(groups, 0, y) : y \in {theThread(x)}}
    BY <1>8, <2>2
  <2> QED
    BY <2>1, <2>3, <2>4
<1>10. ASSUME NEW x \in 0 .. n - 1, NEW y \in 0 .. n - 1, theThread(x) = theThread(y)
       PROVE  x = y
  <2>1. theThread(x) \in members(tower, x) /\ theThread(x) \in members(tower, y)
    BY <1>9, <1>10
  <2>2. \A u, v \in 0 .. n - 1 :
          \A w \in members(tower, u) : w \in members(tower, v) => u = v
    BY <1>1, <1>2, <1>4, Members
  <2> QED
    BY <2>1, <2>2
<1>11. ASSUME NEW t \in 0 .. n - 1 PROVE \E x \in 0 .. n - 1 : theThread(x) = t
  <2>1. \E x \in 0 .. n - 1 : t \in members(tower, x)
    BY <1>1, <1>2, <1>4, Members
  <2> QED
    BY <1>9, <2>1
<1> QED
  BY <1>2, <1>4, <1>5, <1>8, <1>9, <1>10, <1>11

\* The counts of the threads fit an element of the buffers.
LEMMA SmallCounts ==
  ASSUME GInv, nthreads \in Threads,
         NEW t \in 0 .. nthreads - 1, NEW u \in 0 .. nthreads - 1, t # u
  PROVE  LET k == countOf(spcd_matrix)[<< t, u >>]
         IN k \in Nat /\ k % UINT_RANGE = k
<1> DEFINE c == countOf(spcd_matrix)
           k == c[<< t, u >>]
           q == IF t > u THEN << t, u >> ELSE << u, t >>
<1>1. t \in Elements /\ u \in Elements /\ t \in Nat /\ u \in Nat
  <2>1. Max(Threads) \in Nat /\ nthreads \in Nat /\ nthreads <= Max(Threads)
    BY RowsEnough, GreedyAssumption
  <2> QED
    BY <2>1 DEF Elements
<1>2. k = spcd_matrix[q]
  BY <1>1 DEF countOf
<1>3. q \in Cells
  <2>1. t > u \/ u > t
    BY <1>1
  <2>2. CASE t > u
    BY <1>1, <2>2 DEF Cells
  <2>3. CASE ~(t > u)
    BY <1>1, <2>1, <2>3 DEF Cells
  <2> QED
    BY <2>2, <2>3
<1>4. k \in 0 .. MaxComm
  <2> HIDE DEF q
  <2> QED
    BY <1>2, <1>3 DEF GInv, Typed
<1> HIDE DEF k
<1>5. k \in Nat /\ k \in 0 .. UINT_RANGE - 1 /\ UINT_RANGE \in Nat \ {0}
  BY <1>4, GreedyAssumption
<1>6. (0 * UINT_RANGE + k) % UINT_RANGE = k
  BY <1>5, Remainder
<1>7. 0 * UINT_RANGE + k = k
  BY <1>5
<1> QED
  BY <1>5, <1>6, <1>7 DEF k, c

\* What two groups of one thread count for each other.
LEMMA SingleTies ==
  ASSUME GInv, TreeOK, pc = "mapped", nthreads = Cardinality(PUs(arities)), levels_n > 1,
         NEW x \in 0 .. nthreads - 1, NEW y \in 0 .. nthreads - 1, x # y
  PROVE  /\ theThread(x) # theThread(y)
         /\ ties(2, x, y) = countOf(spcd_matrix)[<< theThread(x), theThread(y) >>]
<1> DEFINE c == countOf(spcd_matrix)
           t == theThread(x)
           u == theThread(y)
<1>1. /\ threadsIn(groups, 1, x) = {t} /\ threadsIn(groups, 1, y) = {u}
      /\ t \in 0 .. nthreads - 1 /\ u \in 0 .. nthreads - 1 /\ t # u
  BY Single
<1>2. nthreads \in Threads
  BY MappedHere
<1> HIDE DEF t, u
<1>3. c[<< t, u >>] \in Nat /\ c[<< t, u >>] % UINT_RANGE = c[<< t, u >>]
  BY <1>1, <1>2, SmallCounts
<1> HIDE DEF c
<1>4. {t} \X {u} = {<< t, u >>}
  OBVIOUS
<1>5. total(c, {<< t, u >>}) = c[<< t, u >>]
  BY <1>3, TotalOne
<1>6. groupWeight(1, x, y) = c[<< t, u >>]
  BY <1>1, <1>4, <1>5 DEF groupWeight, weight, c
<1>7. 2 # 1 /\ 2 - 1 = 1
  OBVIOUS
<1>8. ties(2, x, y) = c[<< t, u >>]
  BY <1>3, <1>6, <1>7 DEF ties
<1> QED
  BY <1>1, <1>8 DEF t, u, c

\* One thread per PU: those groups can be grouped with their partners.
LEMMA SingleSuits ==
  ASSUME GInv, TreeOK, pc = "mapped", allPaired, nthreads = Cardinality(PUs(arities)),
         lowestShared(arities) > 0, arities[lowestShared(arities)] % 2 = 0
  PROVE  /\ suits(2) /\ levels_n > 1
         /\ \A x, y \in 0 .. nthreads - 1 :
              << x, y >> \in pairsAt(2) <=> << theThread(x), theThread(y) >> \in friends
<1> DEFINE n == nthreads
           k == lowestShared(arities)
           W == width(arities, k - 1)
           A == arities[k]
<1>1. /\ arities \in Seq(Nat \ {0}) /\ levels_n = levelAt(arities, 0)
      /\ levels_n \in Nat \ {0} /\ nthreads \in Threads /\ n \in Nat \ {0}
      /\ exec_el_in_level = execElements(arities) /\ exec_el_in_level[1] = n
  BY MappedHere
<1>2. /\ k \in 0 .. Len(arities) /\ k \in Nat /\ k > 0 /\ k \in 1 .. Len(arities) /\ A > 1
      /\ k - 1 \in 0 .. Len(arities) /\ k \in k .. Len(arities)
  <2>1. k \in 0 .. Len(arities) /\ k > 0 /\ A > 1
    BY <1>1, LowestIs
  <2>2. Len(arities) \in Nat
    BY <1>1
  <2> HIDE DEF k
  <2> QED
    BY <2>1, <2>2
<1>3. levelAt(arities, k) = 1 /\ levelAt(arities, k - 1) = 2
  BY <1>1, <1>2, LowestLevels
<1> HIDE DEF k
<1>4. levels_n > 1
  <2>1. levelAt(arities, k - 1) \in 1 .. levelAt(arities, 0)
    <3>1. arities \in Seq(Nat)
      BY <1>1
    <3> QED
      BY <1>2, <3>1, LevelAtEnds
  <2> QED
    BY <1>1, <1>3, <2>1
<1>5. /\ nGroupsAt(2 - 1) = n
      /\ \A x \in 0 .. n - 1 : theThread(x) \in 0 .. n - 1
      /\ \A x, y \in 0 .. n - 1 : theThread(x) = theThread(y) => x = y
      /\ \A t \in 0 .. n - 1 : \E x \in 0 .. n - 1 : theThread(x) = t
  <2>1. 2 - 1 = 1
    OBVIOUS
  <2> QED
    BY <1>4, <2>1, Single
<1>6. ASSUME NEW x \in 0 .. n - 1, NEW y \in 0 .. n - 1
      PROVE  << x, y >> \in pairsAt(2) <=> << theThread(x), theThread(y) >> \in friends
  <2>1. << x, y >>[1] = x /\ << x, y >>[2] = y
    OBVIOUS
  <2>2. << x, y >> \in pairsAt(2) <=> x # y /\ ties(2, x, y) > 0
    BY <1>5, <2>1 DEF pairsAt
  <2> DEFINE t == theThread(x)
             u == theThread(y)
  <2>3. t \in 0 .. n - 1 /\ u \in 0 .. n - 1
    BY <1>5
  <2>4. x # y => t # u /\ ties(2, x, y) = countOf(spcd_matrix)[<< t, u >>]
    BY <1>4, SingleTies
  <2> HIDE DEF t, u
  <2>5. << t, u >>[1] = t /\ << t, u >>[2] = u
    OBVIOUS
  <2>6. << t, u >> \in friends <=> t # u /\ countOf(spcd_matrix)[<< t, u >>] > 0
    BY <2>3, <2>5 DEF friends
  <2>7. x = y => t = u
    BY DEF t, u
  <2> QED
    BY <2>2, <2>4, <2>6, <2>7 DEF t, u
<1>7. matching(pairsAt(2), n)
  <2>1. matching(friends, n)
    BY <1>1, FriendsMatch
  <2>2. ASSUME NEW x \in 0 .. n - 1 PROVE \E y \in 0 .. n - 1 : << x, y >> \in pairsAt(2)
    <3>1. PICK u \in 0 .. n - 1 : << theThread(x), u >> \in friends
      BY <1>5, <2>1 DEF matching
    <3>2. PICK y \in 0 .. n - 1 : theThread(y) = u
      BY <1>5
    <3> QED
      BY <1>6, <3>1, <3>2
  <2>3. ASSUME NEW x \in 0 .. n - 1, NEW y \in 0 .. n - 1, << x, y >> \in pairsAt(2)
        PROVE  << y, x >> \in pairsAt(2)
    BY <1>5, <1>6, <2>1, <2>3 DEF matching
  <2>4. ASSUME NEW x \in 0 .. n - 1, NEW y \in 0 .. n - 1, NEW z \in 0 .. n - 1,
               << x, y >> \in pairsAt(2), << x, z >> \in pairsAt(2)
        PROVE  y = z
    <3>1. << theThread(x), theThread(y) >> \in friends /\ << theThread(x), theThread(z) >> \in friends
      BY <1>6, <2>4
    <3>2. theThread(y) = theThread(z)
      BY <1>5, <2>1, <3>1 DEF matching
    <3> QED
      BY <1>5, <3>2
  <2> QED
    BY <2>2, <2>3, <2>4 DEF matching
<1>8. evenSizes(n, roomAt(2)) 
  <2>1. /\ W \in Nat \ {0} /\ width(arities, k) = W * A /\ A \in Nat
    BY <1>1, <1>2, Widths
  <2>2. exec_el_in_level[2] = W /\ n = W * A
    <3>1. execElements(arities)[2] = W /\ execElements(arities)[1] = width(arities, k)
      BY <1>1, <1>2, <1>3, ExecWidth
    <3> QED
      BY <1>1, <2>1, <3>1
  <2>3. A % 2 = 0
    BY DEF k
  <2> HIDE DEF W, A
  <2>4. (A * W) \div W = A /\ (A * W) % W = 0
    BY <2>1, Exactly
  <2>5. n = A * W /\ n > W
    <3>1. W * A = A * W
      BY <2>1
    <3>2. A * W > W
      BY <1>2, <2>1 DEF A
    <3> QED
      BY <2>2, <3>1, <3>2
  <2>6. roomAt(2) = W
    <3>1. ~(n <= W)
      BY <1>1, <2>1, <2>5
    <3> QED
      BY <1>5, <2>2, <3>1 DEF roomAt
  <2>7. ASSUME NEW g \in 0 .. W - 1 PROVE sizeOf(n, W, g) % 2 = 0
    <3>1. ~(g < 0)
      BY <2>1
    <3>2. sizeOf(n, W, g) = A + 0
      BY <2>4, <2>5, <3>1 DEF sizeOf
    <3>3. sizeOf(n, W, g) = A
      BY <2>1, <3>2
    <3> QED
      BY <2>3, <3>3
  <2> QED
    BY <2>6, <2>7 DEF evenSizes
<1>9. suits(2)
  BY <1>5, <1>7, <1>8 DEF suits
<1> QED
  BY <1>4, <1>6, <1>9

\* One thread per PU: partners are below one vertex of the lowest shared level.
LEMMA BelowOneVertex ==
  ASSUME GInv, PInv, MInv, TreeOK, quiet, pc = "mapped", allPaired,
         nthreads = Cardinality(PUs(arities)),
         lowestShared(arities) > 0, arities[lowestShared(arities)] % 2 = 0,
         NEW c \in partnerCells
  PROVE  \E p, q \in PUs(arities) :
           /\ \A w \in PUs(arities) : map[c[1]] = idOf(w) <=> w = p
           /\ \A w \in PUs(arities) : map[c[2]] = idOf(w) <=> w = q
           /\ commonLevel(p, q) >= lowestShared(arities) - 1
<1> DEFINE n == nthreads
           A == layout(arities, tower)[Len(arities)]
           t == c[1]
           u == c[2]
           G == tower[2]
<1>1. /\ arities \in Seq(Nat \ {0}) /\ isTower(arities, tower, n)
      /\ levels_n = levelAt(arities, 0) /\ levels_n \in Nat \ {0} /\ n \in Threads
  BY MappedHere
<1>2. << t, u >> \in friends /\ t \in 0 .. n - 1 /\ u \in 0 .. n - 1
  BY <1>1, FriendsMatch
<1> HIDE DEF t, u
<1>3. /\ suits(2) /\ levels_n > 1
      /\ \A x, y \in 0 .. n - 1 :
           << x, y >> \in pairsAt(2) <=> << theThread(x), theThread(y) >> \in friends
  BY SingleSuits
<1>4. /\ Len(tower[1]) = n
      /\ \A x \in 0 .. n - 1 : members(tower, x) = {theThread(x)}
  BY <1>3, Single
<1>5. 2 \in 1 .. levels_n
  BY <1>1, <1>3
<1>6. \A x \in DOMAIN G : closed(pairsAt(2), ToSet(G[x]))
  BY <1>3, <1>5, TowerTogether
<1>7. /\ Len(arities) \in 0 .. Len(arities) /\ levelAt(arities, Len(arities)) = 1
      /\ PUs(arities) = verticesAt(arities, Len(arities))
  <2>1. arities \in Seq(Nat) /\ Len(arities) \in 0 .. Len(arities)
    BY <1>1
  <2> QED
    BY <2>1, LevelAtEnds, PathsAre
<1>8. \A b \in A : b[1] \in PUs(arities) /\ b[1] \in Seq(Nat) /\ b[2] \in 0 .. n - 1
  <2>1. Right(arities, tower, Len(arities), A)
    BY <1>1, <1>7, LayoutRight
  <2>2. \A b \in A : b[1] \in Seq(Nat)
    BY <1>1, <1>7, LayoutTyped
  <2> QED
    BY <1>4, <1>7, <2>1, <2>2 DEF Right
<1>9. PICK b \in A : /\ t \in members(tower, b[2])
                     /\ \A w \in PUs(arities) : map[t] = idOf(w) <=> w = b[1]
  BY <1>2, ThreadsOn
<1>10. PICK e \in A : /\ u \in members(tower, e[2])
                      /\ \A w \in PUs(arities) : map[u] = idOf(w) <=> w = e[1]
  BY <1>2, ThreadsOn
<1>11. << b[2], e[2] >> \in pairsAt(2) /\ b[2] \in 0 .. n - 1 /\ e[2] \in 0 .. n - 1
  <2>1. b[2] \in 0 .. n - 1 /\ e[2] \in 0 .. n - 1
    BY <1>8
  <2>2. t = theThread(b[2]) /\ u = theThread(e[2])
    BY <1>4, <1>9, <1>10, <2>1
  <2> QED
    BY <1>2, <1>3, <2>1, <2>2
<1>12. PICK y \in 0 .. Len(G) - 1 : b[2] \in ToSet(G[y + 1])
  <2>1. G \in Seq(Seq(Nat)) /\ placed(G) = 0 .. n - 1
    <3>1. Complete(G, below(tower, n, 2), execElements(arities)[2]) /\ G \in Seq(Seq(Nat))
      BY <1>1, <1>5 DEF isTower
    <3>2. below(tower, n, 2) = n
      <4>1. 2 # 1 /\ 2 - 1 = 1
        OBVIOUS
      <4> QED
        BY <1>4, <4>1 DEF below
    <3> QED
      BY <3>1, <3>2 DEF Complete
  <2> HIDE DEF G
  <2>2. PICK p \in Places(G) : at(G, p) = b[2]
    BY <1>11, <2>1 DEF placed
  <2>3. p[1] \in DOMAIN G /\ p[2] \in DOMAIN G[p[1]]
    BY <2>2 DEF Places
  <2>4. b[2] \in ToSet(G[p[1]])
    BY <2>2, <2>3 DEF at, ToSet
  <2>5. p[1] - 1 \in 0 .. Len(G) - 1 /\ (p[1] - 1) + 1 = p[1]
    BY <2>1, <2>3
  <2> QED
    BY <2>4, <2>5
<1>13. e[2] \in ToSet(G[y + 1])
  <2>1. y + 1 \in DOMAIN G
    <3>1. G \in Seq(Seq(Nat))
      BY <1>1, <1>5 DEF isTower
    <3> HIDE DEF G
    <3> QED
      BY <3>1
  <2>2. closed(pairsAt(2), ToSet(G[y + 1]))
    BY <1>6, <2>1
  <2>3. << b[2], e[2] >>[1] = b[2] /\ << b[2], e[2] >>[2] = e[2]
    OBVIOUS
  <2> QED
    BY <1>11, <1>12, <2>2, <2>3 DEF closed
<1>14. PICK v \in Seq(Nat) : /\ Len(v) = lowestShared(arities) - 1
                             /\ isAbove(v, b[1]) /\ isAbove(v, e[1])
  BY <1>1, <1>12, <1>13, CommonVertex
<1>15. commonLevel(b[1], e[1]) >= lowestShared(arities) - 1
  <2>1. commonLevel(b[1], e[1]) >= Len(v)
    BY <1>8, <1>14, CommonAbove
  <2> QED
    BY <1>14, <2>1
<1> QED
  BY <1>8, <1>9, <1>10, <1>15 DEF t, u

\* Every mapping that no page fault disturbs puts partners together:
\* libmapping_mapping_algorithm_greedy_map, whatever the machine.
THEOREM Partners == Spec => []PartnersTogether
<1>1. ASSUME GInv, PInv, MInv, TreeOK PROVE PartnersTogether
  <2> DEFINE n == Cardinality(PUs(arities))
             partners == {c \in Cells : c[1] < nthreads /\ spcd_matrix[c] > 0}
             paired == \A t \in 0 .. nthreads - 1 :
                         Cardinality({c \in partners : t \in {c[1], c[2]}}) = 1
             lowest == Max({0} \cup {l \in DOMAIN arities : arities[l] > 1})
             place(t) == CHOOSE p \in PUs(arities) : pu[puIndex(arities, p) + 1] = map[t]
  <2>1. partners = partnerCells /\ (paired <=> allPaired) /\ lowest = lowestShared(arities)
    BY DEF partnerCells, allPaired, lowestShared
  <2>2. ASSUME quiet, pc = "mapped", allPaired, nthreads = 2 * n, NEW c \in partnerCells
        PROVE  map[c[1]] = map[c[2]]
    BY <1>1, <2>2, OnOnePU
  <2>3. ASSUME quiet, pc = "mapped", allPaired, nthreads = n,
               lowestShared(arities) > 0, arities[lowestShared(arities)] % 2 = 0,
               NEW c \in partnerCells
        PROVE  commonLevel(place(c[1]), place(c[2])) >= lowestShared(arities) - 1
    <3>1. PICK p, q \in PUs(arities) :
            /\ \A w \in PUs(arities) : map[c[1]] = idOf(w) <=> w = p
            /\ \A w \in PUs(arities) : map[c[2]] = idOf(w) <=> w = q
            /\ commonLevel(p, q) >= lowestShared(arities) - 1
      BY <1>1, <2>3, BelowOneVertex
    <3>2. ASSUME NEW t, NEW r \in PUs(arities),
                 \A w \in PUs(arities) : map[t] = idOf(w) <=> w = r
          PROVE  place(t) = r
      <4>1. \A w \in PUs(arities) : pu[puIndex(arities, w) + 1] = map[t] <=> w = r
        BY <3>2 DEF idOf
      <4> QED
        BY <4>1
    <3>3. place(c[1]) = p /\ place(c[2]) = q
      BY <3>1, <3>2
    <3> HIDE DEF place
    <3> QED
      BY <3>1, <3>3
  <2> HIDE DEF n, lowest, place, partners, paired
  <2>4. quiet /\ mappingDone /\ paired =>
          /\ nthreads = 2 * n => \A c \in partners : map[c[1]] = map[c[2]]
          /\ nthreads = n /\ lowest > 0 /\ arities[lowest] % 2 = 0 =>
               \A c \in partners : commonLevel(place(c[1]), place(c[2])) >= lowest - 1
    BY <2>1, <2>2, <2>3 DEF mappingDone
  <2> QED
    BY <2>4 DEF PartnersTogether, n, lowest, place, partners, paired
<1>2. GInv /\ PInv /\ MInv /\ TreeOK => PartnersTogether
  BY <1>1
<1>3. Spec => []GInv /\ []PInv /\ []MInv /\ []TreeOK
  BY GreedyInvariant, PlacesInvariant, MatesInvariant, TypesAndTree, PTL
<1> QED
  BY <1>2, <1>3, PTL

=============================================================================
