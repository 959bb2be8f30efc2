----------------------------- MODULE TopoProofs -----------------------------
(***************************************************************************)
(* Proofs about hardware detection and the tree that is built from what it *)
(* found, for every set of machines: however the kernel numbers the CPUs   *)
(* and whatever the nodes, processors and cores are.                       *)
(***************************************************************************)
EXTENDS FakeTopology, TreeProofs

-----------------------------------------------------------------------------
(* Sequences without repetition *)

\* As long as the set of what they list.
LEMMA DistinctSize ==
  ASSUME NEW V, NEW s \in Seq(V), IsInjective(s)
  PROVE  IsFiniteSet(ToSet(s)) /\ Cardinality(ToSet(s)) = Len(s)
<1> DEFINE n == Len(s)
           D == 1 .. n
<1>1. n \in Nat /\ DOMAIN s = D /\ s \in [D -> V]
  OBVIOUS
<1> HIDE DEF n
<1>2. ToSet(s) = {s[i] : i \in D}
  BY <1>1 DEF ToSet
<1>3. IsFiniteSet(D) /\ Cardinality(D) = n
  BY <1>1, IntervalSize
<1> HIDE DEF D
<1>4. s \in [D -> ToSet(s)]
  BY <1>1, <1>2
<1>5. \A t \in ToSet(s) : \E i \in D : s[i] = t
  BY <1>2
<1>6. s \in Bijection(D, ToSet(s))
  BY <1>4, <1>5 DEF Bijection, Injection, Surjection
<1>7. ExistsBijection(D, ToSet(s))
  BY <1>6 DEF ExistsBijection
<1>8. IsFiniteSet(ToSet(s)) /\ Cardinality(ToSet(s)) = Cardinality(D)
  BY <1>3, <1>7, FS_Bijection
<1> QED
  BY <1>3, <1>8 DEF n

LEMMA BothDistinct ==
  ASSUME NEW V, NEW s \in Seq(V), NEW t \in Seq(V), IsInjective(s), IsInjective(t),
         ToSet(s) \cap ToSet(t) = {}
  PROVE  /\ s \o t \in Seq(V) /\ IsInjective(s \o t)
         /\ ToSet(s \o t) = ToSet(s) \cup ToSet(t)
<1> DEFINE m == Len(s)
           n == Len(t)
           u == s \o t
<1>1. /\ m \in Nat /\ n \in Nat /\ DOMAIN s = 1 .. m /\ DOMAIN t = 1 .. n
      /\ u \in Seq(V) /\ DOMAIN u = 1 .. m + n
      /\ \A i \in 1 .. m + n : u[i] = IF i <= m THEN s[i] ELSE t[i - m]
  OBVIOUS
<1> HIDE DEF m, n, u
<1>2. \A i \in 1 .. m + n : \/ i \in 1 .. m /\ u[i] = s[i]
                            \/ i \notin 1 .. m /\ i - m \in 1 .. n /\ u[i] = t[i - m]
  BY <1>1
<1>3. /\ \A i \in 1 .. m : s[i] \in ToSet(s)
      /\ \A i \in 1 .. n : t[i] \in ToSet(t)
  BY <1>1 DEF ToSet
<1>4. IsInjective(u)
  <2>1. SUFFICES ASSUME NEW i \in 1 .. m + n, NEW j \in 1 .. m + n, u[i] = u[j]
                 PROVE  i = j
    BY <1>1 DEF IsInjective
  <2>2. CASE i \in 1 .. m /\ j \in 1 .. m
    <3>1. s[i] = s[j]
      BY <1>2, <2>1, <2>2
    <3> QED
      BY <1>1, <2>2, <3>1 DEF IsInjective
  <2>3. CASE i \notin 1 .. m /\ j \notin 1 .. m
    <3>1. t[i - m] = t[j - m] /\ i - m \in 1 .. n /\ j - m \in 1 .. n
      BY <1>2, <2>1, <2>3
    <3>2. i - m = j - m
      BY <1>1, <3>1 DEF IsInjective
    <3> QED
      BY <1>1, <3>2
  <2>4. CASE (i \in 1 .. m /\ j \notin 1 .. m) \/ (i \notin 1 .. m /\ j \in 1 .. m)
    BY <1>2, <1>3, <2>1, <2>4
  <2> QED
    BY <2>2, <2>3, <2>4
<1>5. ToSet(u) = ToSet(s) \cup ToSet(t)
  <2>1. ASSUME NEW x \in ToSet(u) PROVE x \in ToSet(s) \cup ToSet(t)
    <3>1. PICK i \in 1 .. m + n : x = u[i]
      BY <1>1 DEF ToSet
    <3> QED
      BY <1>2, <1>3, <3>1
  <2>2. ASSUME NEW x \in ToSet(s) PROVE x \in ToSet(u)
    <3>1. PICK i \in 1 .. m : x = s[i]
      BY <1>1 DEF ToSet
    <3>2. i \in 1 .. m + n /\ u[i] = x
      BY <1>1, <3>1
    <3> QED
      BY <1>1, <3>2 DEF ToSet
  <2>3. ASSUME NEW x \in ToSet(t) PROVE x \in ToSet(u)
    <3>1. PICK i \in 1 .. n : x = t[i]
      BY <1>1 DEF ToSet
    <3>2. m + i \in 1 .. m + n /\ u[m + i] = x
      BY <1>1, <3>1
    <3> QED
      BY <1>1, <3>2 DEF ToSet
  <2> QED
    BY <2>1, <2>2, <2>3
<1> QED
  BY <1>1, <1>4, <1>5 DEF u

\* What FlattenSeq makes of sequences that have nothing in common.
LEMMA FlattenDistinct ==
  ASSUME NEW V, NEW ss \in Seq(Seq(V)),
         \A i \in 1 .. Len(ss) : IsInjective(ss[i]),
         \A i, j \in 1 .. Len(ss) : i # j => ToSet(ss[i]) \cap ToSet(ss[j]) = {}
  PROVE  /\ FlattenSeq(ss) \in Seq(V) /\ IsInjective(FlattenSeq(ss))
         /\ ToSet(FlattenSeq(ss)) = UNION {ToSet(ss[i]) : i \in 1 .. Len(ss)}
<1> DEFINE N == Len(ss)
           is(f) == f = [i \in 1 .. N |-> IF i = 1 THEN ss[i] ELSE f[i - 1] \o ss[i]]
           flatten == CHOOSE f : is(f)
<1>1. N \in Nat /\ \A i \in 1 .. N : ss[i] \in Seq(V)
  OBVIOUS
<1>2. FlattenSeq(ss) = IF N = 0 THEN ss ELSE flatten[N]
  BY DEF FlattenSeq
<1>3. CASE N = 0
  <2>1. ss = << >> /\ FlattenSeq(ss) = << >>
    BY <1>2, <1>3
  <2>2. << >> \in Seq(V) /\ DOMAIN << >> = {} /\ 1 .. N = {}
    BY <1>3
  <2>3. IsInjective(<< >>) /\ ToSet(<< >>) = {}
    BY <2>2 DEF IsInjective, ToSet
  <2> QED
    BY <2>1, <2>2, <2>3
<1>4. CASE N # 0
  <2> DEFINE step == [n \in 1 .. N |-> [x \in Seq(V) |-> x \o ss[n]]]
             empty == << >>
  <2>1. isStep(step, N, Seq(V)) /\ empty \in Seq(V)
    BY <1>1 DEF isStep
  <2>2. PICK g : computed(g, N, Seq(V), empty, step)
    BY <1>1, <2>1, Recursion
  <2>3. /\ g \in [0 .. N -> Seq(V)] /\ g[0] = empty
        /\ \A n \in 1 .. N : g[n] = g[n - 1] \o ss[n]
    <3>1. /\ g \in [0 .. N -> Seq(V)] /\ g[0] = empty
          /\ \A n \in 1 .. N : g[n] = step[n][g[n - 1]]
      BY <2>2 DEF computed
    <3>2. \A n \in 1 .. N : n - 1 \in 0 .. N
      BY <1>1
    <3> DEFINE W == Seq(V)
               J == 0 .. N
    <3>3. g \in [J -> W]
      BY <3>1
    <3> HIDE DEF J, W
    <3>4. \A n \in 1 .. N : g[n - 1] \in W
      BY <3>2, <3>3 DEF J
    <3>5. \A n \in 1 .. N : \A x \in W : step[n][x] = x \o ss[n]
      BY DEF W
    <3> HIDE DEF step
    <3>6. \A n \in 1 .. N : g[n] = g[n - 1] \o ss[n]
      BY <3>1, <3>4, <3>5
    <3> QED
      BY <3>1, <3>6
  <2> HIDE DEF step
  <2> DEFINE h == [i \in 1 .. N |-> g[i]]
  <2>4. is(h)
    <3>1. ASSUME NEW i \in 1 .. N
          PROVE  h[i] = IF i = 1 THEN ss[i] ELSE h[i - 1] \o ss[i]
      <4>1. CASE i = 1
        <5>1. g[1] = empty \o ss[1]
          <6>1. 1 \in 1 .. N /\ 1 - 1 = 0
            BY <4>1
          <6> HIDE DEF empty, h
          <6>2. g[1] = g[1 - 1] \o ss[1]
            BY <2>3, <6>1
          <6> QED
            BY <2>3, <6>1, <6>2
        <5>2. empty \o ss[1] = ss[1]
          BY <1>1, <4>1
        <5> QED
          BY <4>1, <5>1, <5>2
      <4>2. CASE i # 1
        <5>1. i - 1 \in 1 .. N
          BY <1>1, <4>2
        <5> QED
          BY <2>3, <4>2, <5>1
      <4> QED
        BY <4>1, <4>2
    <3> QED
      BY <3>1, Zenon
  <2>5. is(flatten)
    BY <2>4
  <2> HIDE DEF flatten
  <2>6. /\ flatten[1] = ss[1]
        /\ \A i \in 2 .. N : flatten[i] = flatten[i - 1] \o ss[i]
    <3>1. \A i \in 1 .. N : flatten[i] = IF i = 1 THEN ss[i] ELSE flatten[i - 1] \o ss[i]
      BY <2>5, Zenon
    <3>2. 1 \in 1 .. N /\ \A i \in 2 .. N : i \in 1 .. N /\ i # 1
      BY <1>1, <1>4
    <3> QED
      BY <3>1, <3>2
  <2> HIDE DEF is, h
  <2> DEFINE upTo(n) == UNION {ToSet(ss[i]) : i \in 1 .. n}
             good(n) == /\ flatten[n] \in Seq(V) /\ IsInjective(flatten[n])
                        /\ ToSet(flatten[n]) = upTo(n)
             S == {n \in 0 .. N : n = 0 \/ good(n)}
  <2>7. ASSUME NEW n \in 0 .. N - 1, n \in S PROVE n + 1 \in S
    <3>1. n + 1 \in 1 .. N /\ n + 1 \in 0 .. N /\ (n + 1) - 1 = n
      BY <1>1
    <3>2. CASE n = 0
      <4>1. 1 .. 1 = {1} /\ 1 \in 1 .. N
        BY <3>1, <3>2
      <4>2. upTo(1) = ToSet(ss[1])
        BY <4>1
      <4>3. good(1)
        BY <1>1, <2>6, <4>1, <4>2
      <4> QED
        BY <3>1, <3>2, <4>3
    <3>3. CASE n # 0
      <4>1. good(n) /\ n + 1 \in 2 .. N
        BY <2>7, <3>1, <3>3
      <4>2. upTo(n + 1) = upTo(n) \cup ToSet(ss[n + 1])
        <5>1. 1 .. n + 1 = (1 .. n) \cup {n + 1}
          BY <1>1
        <5> QED
          BY <5>1
      <4>3. upTo(n) \cap ToSet(ss[n + 1]) = {}
        <5>1. \A i \in 1 .. n : i \in 1 .. N /\ i # n + 1
          BY <1>1
        <5>2. \A i \in 1 .. n : ToSet(ss[i]) \cap ToSet(ss[n + 1]) = {}
          BY <3>1, <5>1
        <5> QED
          BY <5>2
      <4>4. flatten[n + 1] = flatten[n] \o ss[n + 1]
        BY <2>6, <3>1, <4>1
      <4> HIDE DEF upTo
      <4>5. /\ flatten[n] \o ss[n + 1] \in Seq(V) /\ IsInjective(flatten[n] \o ss[n + 1])
            /\ ToSet(flatten[n] \o ss[n + 1]) = ToSet(flatten[n]) \cup ToSet(ss[n + 1])
        BY <1>1, <3>1, <4>1, <4>3, BothDistinct
      <4>6. good(n + 1)
        BY <4>1, <4>2, <4>4, <4>5
      <4> QED
        BY <3>1, <4>6
    <3> QED
      BY <3>2, <3>3
  <2>8. 0 \in S
    BY <1>1
  <2> HIDE DEF S
  <2>9. 0 .. N \subseteq S
    BY <1>1, <2>7, <2>8, Induction
  <2>10. N \in S
    BY <1>1, <2>9
  <2>11. good(N)
    BY <1>4, <2>10 DEF S
  <2> QED
    BY <1>2, <1>4, <2>11
<1> QED
  BY <1>3, <1>4

\* A mask is visited member by member.
LEMMA SortedIs ==
  ASSUME NEW S \in SUBSET Nat, IsFiniteSet(S)
  PROVE  /\ sorted(S) \in Seq(S) /\ IsInjective(sorted(S))
         /\ ToSet(sorted(S)) = S /\ Len(sorted(S)) = Cardinality(S)
<1> DEFINE n == Cardinality(S)
           I == 0 .. n - 1
           lower(c) == {d \in S : d < c}
           rank == [c \in S |-> Cardinality(lower(c))]
<1>1. n \in Nat
  BY FS_CardinalityType
<1>2. \A c \in S : IsFiniteSet(lower(c)) /\ rank[c] \in I
  <2>1. TAKE c \in S
  <2>2. lower(c) \in SUBSET S /\ c \notin lower(c)
    OBVIOUS
  <2> HIDE DEF lower
  <2>3. /\ IsFiniteSet(lower(c)) /\ Cardinality(lower(c)) <= n
        /\ Cardinality(lower(c)) # n
    BY <2>2, FS_Subset
  <2>4. Cardinality(lower(c)) \in Nat
    BY <2>3, FS_CardinalityType
  <2> HIDE DEF n
  <2> QED
    BY <1>1, <2>3, <2>4
<1>3. ASSUME NEW c \in S, NEW d \in S, c < d PROVE rank[c] < rank[d]
  <2>1. lower(c) \in SUBSET lower(d) /\ c \in lower(d) /\ c \notin lower(c)
    <3>1. c \in Nat /\ d \in Nat
      OBVIOUS
    <3>2. ASSUME NEW x \in S, x < c PROVE x < d
      <4>1. x \in Nat
        OBVIOUS
      <4> QED
        BY <1>3, <3>1, <3>2, <4>1
    <3>3. ~(c < c)
      BY <3>1
    <3> HIDE DEF n, I, rank
    <3> QED
      BY <1>3, <3>2, <3>3
  <2>2. Cardinality(lower(c)) \in Nat /\ Cardinality(lower(d)) \in Nat
        /\ IsFiniteSet(lower(d))
    BY <1>2, FS_CardinalityType
  <2> HIDE DEF lower
  <2>3. Cardinality(lower(c)) <= Cardinality(lower(d))
        /\ Cardinality(lower(c)) # Cardinality(lower(d))
    BY <2>1, <2>2, FS_Subset
  <2> QED
    BY <2>2, <2>3
<1>4. \A c, d \in S : rank[c] = rank[d] => c = d
  <2>1. TAKE c, d \in S
  <2>2. c \in Nat /\ d \in Nat /\ (c < d \/ d < c \/ c = d)
    OBVIOUS
  <2>3. rank[c] \in Int /\ rank[d] \in Int
    BY <1>2
  <2> QED
    BY <1>3, <2>2, <2>3
<1>5. rank \in Injection(S, I)
  BY <1>2, <1>4 DEF Injection, IsInjective
<1>6. IsFiniteSet(I) /\ Cardinality(I) = n
  <2>1. 0 \in Int /\ n - 1 \in Int
    BY <1>1
  <2>2. /\ IsFiniteSet(0 .. n - 1)
        /\ Cardinality(0 .. n - 1) = IF 0 > n - 1 THEN 0 ELSE n - 1 - 0 + 1
    BY <2>1, FS_Interval, Zenon
  <2> QED
    BY <1>1, <2>2
<1> HIDE DEF rank
<1>7. rank \in Surjection(S, I)
  BY <1>5, <1>6, FS_Injection
<1>8. \A r \in I : \E c \in S : rank[c] = r
  BY <1>7 DEF Surjection
<1> DEFINE f == sorted(S)
           D == 1 .. n
<1>9. f = [i \in D |-> CHOOSE c \in S : Cardinality(lower(c)) = i - 1]
  BY DEF sorted
<1>10. \A i \in D : f[i] \in S /\ rank[f[i]] = i - 1
  <2>1. TAKE i \in D
  <2>2. i - 1 \in I
    BY <1>1
  <2>3. \E c \in S : Cardinality(lower(c)) = i - 1
    BY <1>8, <2>2 DEF rank
  <2>4. f[i] \in S /\ Cardinality(lower(f[i])) = i - 1
    BY <1>9, <2>3
  <2> QED
    BY <2>4 DEF rank
<1> HIDE DEF f, lower
<1>11. f \in [D -> S]
  BY <1>9, <1>10
<1>12. IsInjective(f)
  <2>1. \A i, j \in D : f[i] = f[j] => i = j
    <3>1. TAKE i, j \in D
    <3>2. rank[f[i]] = i - 1 /\ rank[f[j]] = j - 1
      BY <1>10
    <3> QED
      BY <1>1, <3>2
  <2> QED
    BY <1>11, <2>1 DEF IsInjective
<1>13. ToSet(f) = S
  <2>1. \A c \in S : rank[c] + 1 \in D /\ f[rank[c] + 1] = c
    <3>1. TAKE c \in S
    <3>2. rank[c] + 1 \in D /\ (rank[c] + 1) - 1 = rank[c]
      BY <1>1, <1>2
    <3>3. rank[f[rank[c] + 1]] = rank[c] /\ f[rank[c] + 1] \in S
      BY <1>10, <3>2
    <3> QED
      BY <1>4, <3>2, <3>3
  <2> QED
    BY <1>11, <2>1 DEF ToSet
<1>14. f \in Seq(S) /\ Len(f) = n
  BY <1>1, <1>11
<1> QED
  BY <1>12, <1>13, <1>14 DEF f


-----------------------------------------------------------------------------
(* Detection *)

detecting == pc \in {"node", "cpu"}

\* What is listed so far has no repetition, and a CPU that is not listed is
\* still to come.
DInv ==
  /\ machine \in Machines
  /\ nodes \subseteq machine.nodes /\ cpus \subseteq CPUs
  /\ pu \in Seq(CPUs) /\ IsInjective(pu) /\ ToSet(pu) = seen
  /\ num_nodes \in Nat /\ num_cpus \in Nat /\ num_cores \in Nat /\ num_threads \in Nat
  /\ pc = "node" => cpus = {}
  /\ detecting =>
       /\ \A c \in CPUs : machine.node[c] \in nodes \/ c \in cpus \/ c \in seen
       /\ num_threads = Len(pu)
       /\ nodes # machine.nodes => num_nodes # 0
       /\ seen # {} => num_cpus # 0
       /\ num_cpus <= num_cores /\ num_cores <= num_threads
  /\ ~detecting =>
       /\ seen = CPUs
       /\ num_nodes # 0 /\ num_cores # 0 /\ num_threads # 0
       /\ num_nodes * num_cpus * num_cores * num_threads <= Len(pu)

LEMMA LeastOf ==
  ASSUME NEW T, T \subseteq Nat, T # {}
  PROVE  Min(T) \in T
<1>1. PICK m \in T : \A n \in T : m <= n
  BY Least
<1> QED
  BY <1>1 DEF Min

LEMMA MachineIs ==
  ASSUME DInv
  PROVE  /\ CPUs # {} /\ CPUs \subseteq Nat /\ IsFiniteSet(CPUs)
         /\ machine.nodes \subseteq Nat /\ \A c \in CPUs : machine.node[c] \in machine.nodes
         /\ seen \subseteq CPUs
<1>1. ToSet(pu) \subseteq CPUs
  <2>1. \A i \in DOMAIN pu : pu[i] \in CPUs
    BY DEF DInv
  <2> QED
    BY <2>1 DEF ToSet
<1> QED
  BY <1>1, TopoAssumption DEF DInv, CPUs

LEMMA WiderSeq ==
  ASSUME NEW V, NEW W, V \subseteq W, NEW s \in Seq(V)
  PROVE  s \in Seq(W)
<1>1. Len(s) \in Nat /\ s \in [1 .. Len(s) -> W]
  OBVIOUS
<1> QED
  BY <1>1

\* What follows the first CPU of a core.
siblings(c) == sorted(cpu_sibling_mask(c) \ (seen \cup {c}))

\* The CPUs of a processor are listed with their siblings, each once, and
\* nothing that is listed before.
LEMMA ListedIs ==
  ASSUME DInv, NEW S \in SUBSET (CPUs \ seen)
  PROVE  /\ listed(S) \in Seq(CPUs) /\ IsInjective(listed(S))
         /\ ToSet(listed(S)) \cap seen = {} /\ S \subseteq ToSet(listed(S))
         /\ S = {} => ToSet(listed(S)) = {}
         /\ Cardinality(coresOf(S)) \in Nat
         /\ S # {} => Cardinality(coresOf(S)) # 0
         /\ Cardinality(coresOf(S)) <= Len(listed(S))
<1> DEFINE K == coresOf(S)
           m == Cardinality(K)
           first == sorted(K)
           ss == [i \in 1 .. m |-> << first[i] >> \o siblings(first[i])]
<1>1. CPUs \subseteq Nat /\ IsFiniteSet(CPUs) /\ S \subseteq CPUs /\ K \in SUBSET S
  BY MachineIs DEF coresOf
<1>2. /\ K \in SUBSET Nat /\ IsFiniteSet(K) /\ m \in Nat
  <2>1. K \in SUBSET CPUs
    BY <1>1
  <2> HIDE DEF K
  <2> QED
    BY <1>1, <2>1, FS_Subset, FS_CardinalityType
<1>3. listed(S) = FlattenSeq(ss)
  BY DEF listed, siblings
<1> HIDE DEF K
<1>4. first \in Seq(K) /\ IsInjective(first) /\ ToSet(first) = K /\ Len(first) = m
  BY <1>2, SortedIs
<1> HIDE DEF m, first
<1>5. DOMAIN first = 1 .. m /\ \A i \in 1 .. m : first[i] \in K
  BY <1>4
<1>6. ASSUME NEW c \in CPUs \ seen
      PROVE  LET s == << c >> \o siblings(c)
             IN s \in Seq(CPUs) /\ IsInjective(s) /\ ToSet(s) = cpu_sibling_mask(c) \ seen
  <2> DEFINE R == cpu_sibling_mask(c) \ (seen \cup {c})
             one == << c >>
             t == siblings(c)
  <2>1. R \in SUBSET CPUs /\ R \in SUBSET Nat /\ IsFiniteSet(R)
    <3>1. R \in SUBSET CPUs
      BY DEF cpu_sibling_mask
    <3> HIDE DEF R
    <3> QED
      BY <1>1, <3>1, FS_Subset
  <2>2. t = sorted(R)
    BY DEF siblings
  <2>3. t \in Seq(R) /\ IsInjective(t) /\ ToSet(t) = R
    BY <2>1, <2>2, SortedIs
  <2>4. c \in cpu_sibling_mask(c)
    BY DEF cpu_sibling_mask
  <2>5. {c} \cup R = cpu_sibling_mask(c) \ seen /\ c \notin R
    BY <2>4
  <2> HIDE DEF R, t
  <2>6. t \in Seq(CPUs)
    BY <2>1, <2>3, WiderSeq
  <2>7. one \in Seq(CPUs) /\ IsInjective(one) /\ ToSet(one) = {c}
    BY DEF IsInjective, ToSet
  <2> HIDE DEF one
  <2>8. /\ one \o t \in Seq(CPUs) /\ IsInjective(one \o t)
        /\ ToSet(one \o t) = ToSet(one) \cup ToSet(t)
    BY <2>3, <2>5, <2>6, <2>7, BothDistinct
  <2> QED
    BY <2>3, <2>5, <2>7, <2>8 DEF one, t
<1>7. \A i \in 1 .. m : first[i] \in CPUs \ seen
  BY <1>1, <1>5
<1>8. \A i \in 1 .. m : /\ ss[i] \in Seq(CPUs) /\ IsInjective(ss[i])
                        /\ ToSet(ss[i]) = cpu_sibling_mask(first[i]) \ seen
  BY <1>6, <1>7
<1>9. ss \in Seq(Seq(CPUs)) /\ Len(ss) = m
  <2> DEFINE Q == Seq(CPUs)
  <2>1. ss \in [1 .. m -> Q]
    BY <1>8
  <2> HIDE DEF ss, Q
  <2>2. ss \in Seq(Q) /\ Len(ss) = m
    BY <1>2, <2>1
  <2> QED
    BY <2>2 DEF Q
<1> HIDE DEF ss
<1>10. \A i, j \in 1 .. m : i # j => ToSet(ss[i]) \cap ToSet(ss[j]) = {}
  <2>1. SUFFICES ASSUME NEW i \in 1 .. m, NEW j \in 1 .. m, NEW x,
                        x \in ToSet(ss[i]), x \in ToSet(ss[j])
                 PROVE  i = j
    OBVIOUS
  <2>2. machine.core[first[i]] = machine.core[first[j]]
    BY <1>8, <2>1 DEF cpu_sibling_mask
  <2>3. cpu_sibling_mask(first[i]) = cpu_sibling_mask(first[j])
    BY <2>2 DEF cpu_sibling_mask
  <2>4. first[i] = first[j]
    BY <1>5, <2>3 DEF K, coresOf
  <2> QED
    BY <1>4, <1>5, <2>4 DEF IsInjective
<1>11. /\ FlattenSeq(ss) \in Seq(CPUs) /\ IsInjective(FlattenSeq(ss))
       /\ ToSet(FlattenSeq(ss)) = UNION {ToSet(ss[i]) : i \in 1 .. m}
  <2>1. /\ \A i \in 1 .. Len(ss) : IsInjective(ss[i])
        /\ \A i, j \in 1 .. Len(ss) : i # j => ToSet(ss[i]) \cap ToSet(ss[j]) = {}
    BY <1>8, <1>9, <1>10
  <2>2. /\ FlattenSeq(ss) \in Seq(CPUs) /\ IsInjective(FlattenSeq(ss))
        /\ ToSet(FlattenSeq(ss)) = UNION {ToSet(ss[i]) : i \in 1 .. Len(ss)}
    BY <1>9, <2>1, FlattenDistinct
  <2> QED
    BY <1>9, <2>2
<1>12. \A d \in S : \E c \in K : d \in cpu_sibling_mask(c) \ seen
  <2>1. TAKE d \in S
  <2> DEFINE T == cpu_sibling_mask(d) \cap S
             c == Min(T)
  <2>2. T \subseteq Nat /\ d \in T
    BY <1>1 DEF cpu_sibling_mask
  <2>3. c \in T
    BY <2>2, LeastOf
  <2>4. machine.core[c] = machine.core[d] /\ c \in S
    BY <2>3 DEF cpu_sibling_mask
  <2>5. cpu_sibling_mask(c) = cpu_sibling_mask(d)
    BY <2>4 DEF cpu_sibling_mask
  <2>6. c \in K
    BY <2>4, <2>5 DEF K, coresOf
  <2>7. d \in cpu_sibling_mask(c) \ seen
    BY <2>2, <2>5
  <2> QED
    BY <2>6, <2>7
<1>13. S \subseteq ToSet(FlattenSeq(ss))
  <2>1. ASSUME NEW d \in S PROVE \E i \in 1 .. m : d \in ToSet(ss[i])
    <3>1. PICK c \in K : d \in cpu_sibling_mask(c) \ seen
      BY <1>12
    <3>2. PICK i \in 1 .. m : c = first[i]
      BY <1>4, <1>5 DEF ToSet
    <3> QED
      BY <1>8, <3>1, <3>2
  <2> QED
    BY <1>11, <2>1
<1>14. S = {} <=> m = 0
  <2>1. S = {} <=> K = {}
    BY <1>1, <1>12
  <2> QED
    BY <1>2, <2>1, FS_EmptySet DEF m
<1>15. S = {} => ToSet(FlattenSeq(ss)) = {}
  BY <1>11, <1>14
<1>16. ToSet(FlattenSeq(ss)) \cap seen = {}
  BY <1>8, <1>11
<1>17. m <= Len(FlattenSeq(ss))
  <2> DEFINE f == FlattenSeq(ss)
             F == ToSet(f)
  <2>1. f \in Seq(CPUs) /\ IsInjective(f)
    BY <1>11
  <2> HIDE DEF f
  <2>3. IsFiniteSet(F) /\ Cardinality(F) = Len(f)
    BY <2>1, DistinctSize
  <2>2. K \in SUBSET F
    BY <1>1, <1>13 DEF K, f
  <2> HIDE DEF F
  <2>4. Cardinality(K) <= Cardinality(F)
    BY <2>2, <2>3, FS_Subset
  <2> QED
    BY <2>3, <2>4 DEF m, f
<1> QED
  BY <1>2, <1>3, <1>11, <1>13, <1>14, <1>15, <1>16, <1>17 DEF m, K

LEMMA InitDInv == Init => DInv
<1> SUFFICES ASSUME Init PROVE DInv
  OBVIOUS
<1>1. machine \in Machines /\ \A c \in CPUs : machine.node[c] \in nodes
  BY TopoAssumption DEF Init, DetectInit, CPUs
<1>2. /\ pu = << >> /\ seen = {} /\ cpus = {} /\ nodes = machine.nodes /\ pc = "node"
      /\ num_nodes = 0 /\ num_cpus = 0 /\ num_cores = 0 /\ num_threads = 0
  BY DEF Init, DetectInit
<1>3. /\ << >> \in Seq(CPUs) /\ IsInjective(<< >>) /\ ToSet(<< >>) = {} /\ Len(<< >>) = 0
  <2>1. DOMAIN << >> = {} /\ << >> \in Seq(CPUs) /\ Len(<< >>) = 0
    OBVIOUS
  <2> QED
    BY <2>1 DEF IsInjective, ToSet
<1> QED
  BY <1>1, <1>2, <1>3 DEF DInv, detecting

LEMMA StepVisit == ASSUME DInv, VisitCpu PROVE DInv'
<1> DEFINE S == cpusOfNext
           c == Min(cpus)
           more == listed(S)
<1>1. /\ pc = "cpu" /\ cpus # {} /\ cpus' = cpus \ {c}
      /\ num_cpus' = num_cpus + (IF S = {} THEN 0 ELSE 1)
      /\ num_cores' = num_cores + Cardinality(coresOf(S))
      /\ num_threads' = num_threads + Len(more)
      /\ pu' = pu \o more /\ seen' = seen \cup ToSet(more)
      /\ machine' = machine /\ pc' = pc /\ nodes' = nodes /\ num_nodes' = num_nodes
      /\ CPUs' = CPUs
  BY DEF VisitCpu, CPUs
<1>2. /\ machine \in Machines /\ nodes \subseteq machine.nodes
      /\ cpus \subseteq CPUs
      /\ pu \in Seq(CPUs) /\ IsInjective(pu) /\ ToSet(pu) = seen
      /\ num_nodes \in Nat /\ num_cpus \in Nat /\ num_cores \in Nat /\ num_threads \in Nat
      /\ \A d \in CPUs : machine.node[d] \in nodes \/ d \in cpus \/ d \in seen
      /\ num_threads = Len(pu)
      /\ nodes # machine.nodes => num_nodes # 0
      /\ seen # {} => num_cpus # 0
      /\ num_cpus <= num_cores /\ num_cores <= num_threads
  BY <1>1 DEF DInv, detecting
<1>3. c \in cpus /\ c \in CPUs
  <2>1. cpus \subseteq Nat
    BY <1>2, MachineIs
  <2> QED
    BY <1>1, <1>2, <2>1, LeastOf
<1>4. S \in SUBSET (CPUs \ seen) /\ c \in seen \cup S
  BY <1>3 DEF cpusOfNext, cpu_core_mask
<1> HIDE DEF S, c
<1>5. /\ more \in Seq(CPUs) /\ IsInjective(more)
      /\ ToSet(more) \cap seen = {} /\ S \subseteq ToSet(more)
      /\ S = {} => ToSet(more) = {}
      /\ Cardinality(coresOf(S)) \in Nat
      /\ S # {} => Cardinality(coresOf(S)) # 0
      /\ Cardinality(coresOf(S)) <= Len(more)
  BY <1>4, ListedIs
<1> HIDE DEF more
<1>6. /\ pu \o more \in Seq(CPUs) /\ IsInjective(pu \o more)
      /\ ToSet(pu \o more) = seen \cup ToSet(more)
  BY <1>2, <1>5, BothDistinct
<1>7. Len(more) \in Nat /\ Len(pu \o more) = Len(pu) + Len(more)
  BY <1>2, <1>5
<1>8. /\ num_cpus' \in Nat /\ num_cores' \in Nat /\ num_threads' \in Nat
      /\ num_threads' = Len(pu')
      /\ seen' # {} => num_cpus' # 0
      /\ num_cpus' <= num_cores' /\ num_cores' <= num_threads'
  <2>1. CASE S = {}
    BY <1>1, <1>2, <1>5, <1>7, <2>1
  <2>2. CASE S # {}
    BY <1>1, <1>2, <1>5, <1>7, <2>2
  <2> QED
    BY <2>1, <2>2
<1>9. \A d \in CPUs : machine.node[d] \in nodes \/ d \in cpus' \/ d \in seen'
  BY <1>1, <1>2, <1>4, <1>5
<1>10. detecting' /\ pc' # "node"
  BY <1>1 DEF detecting
<1> QED
  BY <1>1, <1>2, <1>6, <1>8, <1>9, <1>10 DEF DInv

LEMMA Quotient ==
  ASSUME NEW x \in Nat, NEW y \in Nat \ {0}
  PROVE  x \div y \in Nat /\ y * (x \div y) <= x
OBVIOUS

LEMMA QuotientPositive ==
  ASSUME NEW x \in Nat, NEW y \in Nat \ {0}, y <= x
  PROVE  x \div y # 0
OBVIOUS

LEMMA ProductLess ==
  ASSUME NEW x \in Nat, NEW y \in Nat, x <= y, NEW z \in Nat
  PROVE  x * z \in Nat /\ x * z <= y * z
OBVIOUS

LEMMA StepAverage == ASSUME DInv, Average PROVE DInv'
<1>1. /\ pc = "node" /\ nodes = {} /\ pc' = "done"
      /\ num_threads' = num_threads \div num_cores
      /\ num_cores' = num_cores \div num_cpus
      /\ num_cpus' = num_cpus \div num_nodes
      /\ machine' = machine /\ nodes' = nodes /\ cpus' = cpus /\ seen' = seen
      /\ num_nodes' = num_nodes /\ pu' = pu /\ CPUs' = CPUs
  BY DEF Average, CPUs
<1>2. /\ machine \in Machines /\ nodes \subseteq machine.nodes
      /\ cpus \subseteq CPUs
      /\ pu \in Seq(CPUs) /\ IsInjective(pu) /\ ToSet(pu) = seen
      /\ num_nodes \in Nat /\ num_cpus \in Nat /\ num_cores \in Nat /\ num_threads \in Nat
      /\ \A d \in CPUs : machine.node[d] \in nodes \/ d \in cpus \/ d \in seen
      /\ num_threads = Len(pu) /\ cpus = {}
      /\ nodes # machine.nodes => num_nodes # 0
      /\ seen # {} => num_cpus # 0
      /\ num_cpus <= num_cores /\ num_cores <= num_threads
  BY <1>1 DEF DInv, detecting
<1>3. seen = CPUs /\ num_nodes # 0 /\ num_cpus # 0
  <2>1. CPUs # {} /\ seen \subseteq CPUs /\ \A c \in CPUs : machine.node[c] \in machine.nodes
    BY MachineIs
  <2>2. seen = CPUs /\ machine.nodes # {}
    BY <1>1, <1>2, <2>1
  <2> QED
    BY <1>1, <1>2, <2>1, <2>2
<1> DEFINE N == num_nodes
           P == num_cpus
           C == num_cores
           T == num_threads
           p == P \div N
           q == C \div P
           t == T \div C
<1>4. /\ N \in Nat \ {0} /\ P \in Nat \ {0} /\ C \in Nat \ {0} /\ T \in Nat
      /\ P <= C /\ C <= T
  BY <1>2, <1>3
<1>5. num_nodes' = N /\ num_cpus' = p /\ num_cores' = q /\ num_threads' = t
  BY <1>1
<1> HIDE DEF N, P, C, T
<1>6. p \in Nat /\ N * p <= P
  BY <1>4, Quotient
<1>7. q \in Nat \ {0} /\ P * q <= C
  BY <1>4, Quotient, QuotientPositive
<1>8. t \in Nat \ {0} /\ C * t <= T
  BY <1>4, Quotient, QuotientPositive
<1> HIDE DEF p, q, t
<1>9. N * p \in Nat /\ P * q \in Nat /\ C * t \in Nat
  BY <1>4, <1>6, <1>7, <1>8
<1>10. N * p * q \in Nat /\ N * p * q <= C
  <2>1. N * p * q \in Nat /\ N * p * q <= P * q
    BY <1>4, <1>6, <1>7, <1>9, ProductLess
  <2> QED
    BY <1>4, <1>7, <1>9, <2>1
<1>11. N * p * q * t <= T
  <2>1. N * p * q * t \in Nat /\ N * p * q * t <= C * t
    BY <1>4, <1>8, <1>10, ProductLess
  <2> QED
    BY <1>4, <1>8, <1>9, <2>1
<1>12. num_nodes' * num_cpus' * num_cores' * num_threads' <= Len(pu')
  BY <1>1, <1>2, <1>5, <1>11 DEF T
<1>13. ~detecting' /\ pc' # "node"
  BY <1>1 DEF detecting
<1> QED
  BY <1>1, <1>2, <1>3, <1>4, <1>5, <1>6, <1>7, <1>8, <1>12, <1>13 DEF DInv

LEMMA NextDInv == ASSUME DInv, [Next]_vars PROVE DInv'
<1>1. CASE EnterNode
  <2> DEFINE n == Min(nodes)
  <2>1. /\ pc = "node" /\ nodes # {} /\ nodes' = nodes \ {n}
        /\ cpus' = cpumask_of_node(n) /\ num_nodes' = num_nodes + 1 /\ pc' = "cpu"
        /\ machine' = machine /\ seen' = seen /\ num_cpus' = num_cpus
        /\ num_cores' = num_cores /\ num_threads' = num_threads /\ pu' = pu /\ CPUs' = CPUs
    BY <1>1 DEF EnterNode, CPUs
  <2>2. /\ machine \in Machines /\ nodes \subseteq machine.nodes /\ cpus = {}
        /\ pu \in Seq(CPUs) /\ IsInjective(pu) /\ ToSet(pu) = seen
        /\ num_nodes \in Nat /\ num_cpus \in Nat /\ num_cores \in Nat /\ num_threads \in Nat
        /\ \A d \in CPUs : machine.node[d] \in nodes \/ d \in cpus \/ d \in seen
        /\ num_threads = Len(pu)
        /\ seen # {} => num_cpus # 0
        /\ num_cpus <= num_cores /\ num_cores <= num_threads
    BY <2>1 DEF DInv, detecting
  <2> HIDE DEF n
  <2>3. \A d \in CPUs : machine.node[d] \in nodes' \/ d \in cpus' \/ d \in seen
    BY <2>1, <2>2 DEF cpumask_of_node
  <2>4. num_nodes' \in Nat /\ num_nodes' # 0 /\ cpus' \subseteq CPUs
    BY <2>1, <2>2 DEF cpumask_of_node
  <2> QED
    BY <2>1, <2>2, <2>3, <2>4 DEF DInv, detecting
<1>2. CASE VisitCpu
  BY <1>2, StepVisit
<1>3. CASE LeaveNode
  <2>1. /\ pc = "cpu" /\ cpus = {} /\ pc' = "node"
        /\ UNCHANGED << machine, nodes, cpus, seen, pu >>
        /\ UNCHANGED << num_nodes, num_cpus, num_cores, num_threads >> /\ CPUs' = CPUs
    BY <1>3 DEF LeaveNode, counts, CPUs
  <2> QED
    BY <2>1 DEF DInv, detecting
<1>4. CASE Average
  BY <1>4, StepAverage
<1>5. CASE /\ UNCHANGED detectVars
           /\ detecting' = detecting /\ (pc' = "node" => pc = "node")
  <2>1. /\ UNCHANGED << machine, nodes, cpus, seen, pu >>
        /\ UNCHANGED << num_nodes, num_cpus, num_cores, num_threads >> /\ CPUs' = CPUs
    BY <1>5 DEF detectVars, counts, CPUs
  <2> QED
    BY <1>5, <2>1 DEF DInv
<1>6. CASE \/ libmapping_graph_init \/ Enter \/ Return \/ ReturnRoot \/ topology_analysis_
           \/ DistancesOfEdges \/ Relax \/ RelaxDone
  <2>1. UNCHANGED detectVars /\ pc \notin {"node", "cpu"} /\ pc' \notin {"node", "cpu"}
    <3>1. CASE libmapping_graph_init
      BY <3>1, Zenon DEF libmapping_graph_init
    <3>2. CASE Enter
      BY <3>2 DEF Enter
    <3>3. CASE Return
      BY <3>3 DEF Return
    <3>4. CASE ReturnRoot
      BY <3>4 DEF ReturnRoot
    <3>5. CASE topology_analysis_
      BY <3>5 DEF topology_analysis_
    <3>6. CASE DistancesOfEdges
      BY <3>6 DEF DistancesOfEdges
    <3>7. CASE Relax
      BY <3>7 DEF Relax
    <3>8. CASE RelaxDone
      BY <3>8 DEF RelaxDone
    <3> QED
      BY <1>6, <3>1, <3>2, <3>3, <3>4, <3>5, <3>6, <3>7, <3>8
  <2> QED
    BY <1>5, <2>1 DEF detecting
<1>7. CASE Ready \/ UNCHANGED vars
  BY <1>5, <1>7 DEF Ready, vars, detecting
<1> QED
  BY <1>1, <1>2, <1>3, <1>4, <1>6, <1>7 DEF Next, Detect

LEMMA DetectInvariant == Spec => []DInv
<1>1. Init => DInv
  BY InitDInv
<1>2. DInv /\ [Next]_vars => DInv'
  BY NextDInv
<1> QED
  BY <1>1, <1>2, PTL DEF Spec

\* Hardware detection (topo.c:19-45) lists every CPU exactly once, on any
\* machine: processors that are spread over nodes, siblings that are met
\* before their core and nodes without CPUs included.
THEOREM EveryPuOnce == Spec => []EachPuOnce
<1>1. ASSUME DInv PROVE EachPuOnce
  <2>1. SUFFICES ASSUME pc = "done" PROVE Len(pu) = Cardinality(CPUs) /\ ToSet(pu) = CPUs
    BY DEF EachPuOnce
  <2>2. pu \in Seq(CPUs) /\ IsInjective(pu) /\ ToSet(pu) = CPUs
    BY <1>1, <2>1 DEF DInv, detecting
  <2>3. Cardinality(ToSet(pu)) = Len(pu)
    BY <2>2, DistinctSize
  <2> QED
    BY <2>2, <2>3
<1>2. Spec => []DInv
  BY DetectInvariant
<1> QED
  BY <1>1, <1>2, PTL

\* The PUs of a tree of four levels.
LEMMA FourLevels ==
  ASSUME NEW a1 \in Nat, NEW a2 \in Nat, NEW a3 \in Nat, NEW a4 \in Nat
  PROVE  Cardinality(PUs(<< a1, a2, a3, a4 >>)) = a1 * a2 * a3 * a4
<1> DEFINE a == << a1, a2, a3, a4 >>
           C(n) == Cardinality(verticesAt(a, n))
<1>1. /\ a \in Seq(Nat) /\ Len(a) = 4
      /\ a[1] = a1 /\ a[2] = a2 /\ a[3] = a3 /\ a[4] = a4
  OBVIOUS
<1> HIDE DEF a
<1>2. PUs(a) = verticesAt(a, 4)
  BY <1>1, PathsAre
<1>3. C(0) = 1 /\ \A n \in 1 .. 4 : C(n) = C(n - 1) * a[n]
  BY <1>1, LevelSize
<1> HIDE DEF C
<1>4. C(1) = a1
  <2>1. C(1) = C(1 - 1) * a[1]
    BY <1>3
  <2> QED
    BY <1>1, <1>3, <2>1
<1>5. C(2) = a1 * a2
  <2>1. C(2) = C(2 - 1) * a[2]
    BY <1>3
  <2> QED
    BY <1>1, <1>4, <2>1
<1>6. C(3) = a1 * a2 * a3
  <2>1. C(3) = C(3 - 1) * a[3]
    BY <1>3
  <2> QED
    BY <1>1, <1>5, <2>1
<1>7. C(4) = a1 * a2 * a3 * a4
  <2>1. C(4) = C(4 - 1) * a[4]
    BY <1>3
  <2> QED
    BY <1>1, <1>6, <2>1
<1> QED
  BY <1>2, <1>7 DEF a, C

\* The averages (topo.c:53-56) drop their fractions, so that the tree never
\* has more PUs than were found, on any machine.
THEOREM NoPuMissing == Spec => []EnoughPus
<1>1. ASSUME DInv PROVE EnoughPus
  <2>1. SUFFICES ASSUME pc = "done" PROVE Cardinality(PUs(counts)) <= Len(pu)
    BY DEF EnoughPus
  <2>2. /\ num_nodes \in Nat /\ num_cpus \in Nat /\ num_cores \in Nat /\ num_threads \in Nat
        /\ num_nodes * num_cpus * num_cores * num_threads <= Len(pu)
    BY <1>1, <2>1 DEF DInv, detecting
  <2>3. Cardinality(PUs(counts)) = num_nodes * num_cpus * num_cores * num_threads
    BY <2>2, FourLevels DEF counts
  <2> QED
    BY <2>2, <2>3
<1>2. Spec => []DInv
  BY DetectInvariant
<1> QED
  BY <1>1, <1>2, PTL

-----------------------------------------------------------------------------
(* The recursion that builds the tree: what its active calls have still to *)
(* do, and how much of the graph that takes.                               *)

Calls == [v : Nat, j : Nat]

\* The iterations that call number h has not begun.
leftOf(a, s, h) ==
  IF h > Len(s) THEN 0 ELSE a[h] - s[h].j - (IF h < Len(s) THEN 1 ELSE 0)

\* What they make, if w[h] is what one iteration of a call h makes.
restOf(a, s, w) ==
  leftOf(a, s, 1) * w[1] + leftOf(a, s, 2) * w[2]
  + leftOf(a, s, 3) * w[3] + leftOf(a, s, 4) * w[4]

isArities(a) == /\ a[1] \in Nat /\ a[2] \in Nat /\ a[3] \in Nat /\ a[4] \in Nat

\* An iteration of a call is under way exactly if there is a call below it.
inLoops(a, s) ==
  /\ s \in Seq(Calls) /\ Len(s) <= 5
  /\ \A h \in 1 .. Len(s) :
       /\ h < Len(s) => h <= 4 /\ s[h].j < a[h]
       /\ h <= 4 => s[h].j <= a[h]
       /\ h = 5 => s[h].j = 0

\* Vertices, and PUs among them, below a vertex at each depth.
verticesBelow(a) == << 1 + a[2] * (1 + a[3] * (1 + a[4])), 1 + a[3] * (1 + a[4]),
                       1 + a[4], 1 >>
pusBelow(a) == << a[2] * (a[3] * a[4]), a[3] * a[4], a[4], 1 >>

LEMMA LeftNat ==
  ASSUME NEW a, NEW s, isArities(a), inLoops(a, s), NEW h \in 1 .. 4
  PROVE  leftOf(a, s, h) \in Nat
<1> DEFINE n == Len(s)
           x == a[h]
<1>1. n \in Nat /\ x \in Nat
  BY DEF isArities, inLoops
<1>2. CASE h > n
  BY <1>2 DEF leftOf
<1>3. CASE h <= n
  <2> DEFINE y == s[h].j
  <2>1. h \in 1 .. n
    BY <1>1, <1>3
  <2>2. s[h] \in Calls
    BY <2>1 DEF inLoops
  <2>3. y \in Nat
    BY <2>2 DEF Calls
  <2>4. y <= x /\ (h < n => y < x)
    BY <2>1 DEF inLoops
  <2>5. leftOf(a, s, h) = x - y - (IF h < n THEN 1 ELSE 0)
    BY <1>1, <1>3 DEF leftOf
  <2> HIDE DEF x, y, n
  <2> QED
    BY <1>1, <2>3, <2>4, <2>5
<1> HIDE DEF n
<1> QED
  BY <1>1, <1>2, <1>3

LEMMA EnterLeft ==
  ASSUME NEW a, NEW s, isArities(a), inLoops(a, s), Len(s) \in 1 .. 4,
         NEW c \in Calls, c.j = 0, NEW h \in 1 .. 4
  PROVE  leftOf(a, Append(s, c), h) =
           IF h = Len(s) THEN leftOf(a, s, h) - 1
           ELSE IF h = Len(s) + 1 THEN a[h] ELSE leftOf(a, s, h)
<1> DEFINE n == Len(s)
           t == Append(s, c)
           x == a[h]
<1>1. /\ n \in 1 .. 4 /\ Len(t) = n + 1 /\ t[n + 1] = c /\ x \in Nat
      /\ \A i \in 1 .. n : t[i] = s[i]
  BY DEF isArities, inLoops
<1>2. CASE h <= n
  <2>1. h \in 1 .. n
    BY <1>1, <1>2
  <2>2. t[h] = s[h] /\ s[h] \in Calls
    BY <1>1, <2>1 DEF inLoops
  <2> DEFINE y == s[h].j
  <2>3. y \in Nat
    BY <2>2 DEF Calls
  <2>4. leftOf(a, t, h) = x - y - (IF h < Len(t) THEN 1 ELSE 0)
        /\ leftOf(a, s, h) = x - y - (IF h < n THEN 1 ELSE 0)
    BY <1>1, <1>2, <2>2 DEF leftOf
  <2> HIDE DEF n, t, x, y
  <2>5. leftOf(a, t, h) = IF h = n THEN leftOf(a, s, h) - 1 ELSE leftOf(a, s, h)
    BY <1>1, <1>2, <2>3, <2>4
  <2>6. h # n + 1
    BY <1>1, <1>2
  <2> QED
    BY <2>5, <2>6 DEF n, t
<1>3. CASE h = n + 1
  <2>1. leftOf(a, t, h) = x - 0 - 0
    BY <1>1, <1>3 DEF leftOf
  <2> HIDE DEF x, t
  <2>2. leftOf(a, t, h) = x /\ h # n
    BY <1>1, <1>3, <2>1
  <2> QED
    BY <1>3, <2>2 DEF x, t
<1>4. CASE h > n + 1
  <2>1. leftOf(a, t, h) = 0 /\ leftOf(a, s, h) = 0 /\ h # n /\ h # n + 1
    BY <1>1, <1>4 DEF leftOf
  <2> QED
    BY <2>1
<1> HIDE DEF n
<1> QED
  BY <1>1, <1>2, <1>3, <1>4

LEMMA LessOne ==
  ASSUME NEW x \in Int, NEW y \in Int
  PROVE  x * y \in Int /\ (x - 1) * y = x * y - y
OBVIOUS

\* A call of create_fake_topology makes what is left one vertex less, and the
\* iterations of its own loop more.
LEMMA EnterRest ==
  ASSUME NEW a, NEW s, isArities(a), inLoops(a, s), Len(s) \in 1 .. 4,
         NEW c \in Calls, c.j = 0, NEW w, isArities(w)
  PROVE  restOf(a, Append(s, c), w) =
           restOf(a, s, w) - w[Len(s)]
           + (IF Len(s) = 4 THEN 0 ELSE a[Len(s) + 1] * w[Len(s) + 1])
<1> DEFINE t == Append(s, c)
           L1 == leftOf(a, s, 1)
           L2 == leftOf(a, s, 2)
           L3 == leftOf(a, s, 3)
           L4 == leftOf(a, s, 4)
           M1 == leftOf(a, t, 1)
           M2 == leftOf(a, t, 2)
           M3 == leftOf(a, t, 3)
           M4 == leftOf(a, t, 4)
<1>1. L1 \in Int /\ L2 \in Int /\ L3 \in Int /\ L4 \in Int
  BY LeftNat
<1>2. /\ w[1] \in Int /\ w[2] \in Int /\ w[3] \in Int /\ w[4] \in Int
      /\ a[1] \in Int /\ a[2] \in Int /\ a[3] \in Int /\ a[4] \in Int
  BY DEF isArities
<1>3. /\ M1 = IF 1 = Len(s) THEN L1 - 1 ELSE IF 1 = Len(s) + 1 THEN a[1] ELSE L1
      /\ M2 = IF 2 = Len(s) THEN L2 - 1 ELSE IF 2 = Len(s) + 1 THEN a[2] ELSE L2
      /\ M3 = IF 3 = Len(s) THEN L3 - 1 ELSE IF 3 = Len(s) + 1 THEN a[3] ELSE L3
      /\ M4 = IF 4 = Len(s) THEN L4 - 1 ELSE IF 4 = Len(s) + 1 THEN a[4] ELSE L4
  BY EnterLeft
<1>4. /\ restOf(a, s, w) = L1 * w[1] + L2 * w[2] + L3 * w[3] + L4 * w[4]
      /\ restOf(a, t, w) = M1 * w[1] + M2 * w[2] + M3 * w[3] + M4 * w[4]
  BY DEF restOf
<1>5. \A h \in 1 .. 4 : h > Len(s) => leftOf(a, s, h) = 0
  BY DEF leftOf
<1> DEFINE R == restOf(a, s, w)
           Q == restOf(a, t, w)
<1> HIDE DEF L1, L2, L3, L4, M1, M2, M3, M4, R, Q, t
<1>6. /\ R = L1 * w[1] + L2 * w[2] + L3 * w[3] + L4 * w[4]
      /\ Q = M1 * w[1] + M2 * w[2] + M3 * w[3] + M4 * w[4]
  BY <1>4 DEF R, Q
<1>7. /\ L1 * w[1] \in Int /\ L2 * w[2] \in Int /\ L3 * w[3] \in Int /\ L4 * w[4] \in Int
      /\ (L1 - 1) * w[1] = L1 * w[1] - w[1] /\ (L2 - 1) * w[2] = L2 * w[2] - w[2]
      /\ (L3 - 1) * w[3] = L3 * w[3] - w[3] /\ (L4 - 1) * w[4] = L4 * w[4] - w[4]
  BY <1>1, <1>2, LessOne
<1> DEFINE P1 == L1 * w[1]
           P2 == L2 * w[2]
           P3 == L3 * w[3]
           P4 == L4 * w[4]
           w1 == w[1]
           w2 == w[2]
           w3 == w[3]
           w4 == w[4]
           N1 == M1 * w[1]
           N2 == M2 * w[2]
           N3 == M3 * w[3]
           N4 == M4 * w[4]
<1>8. Q = N1 + N2 + N3 + N4
  BY <1>6
<1>9. /\ P1 \in Int /\ P2 \in Int /\ P3 \in Int /\ P4 \in Int
       /\ w1 \in Int /\ w2 \in Int /\ w3 \in Int /\ w4 \in Int
       /\ R = P1 + P2 + P3 + P4
  BY <1>2, <1>6, <1>7
<1>10. /\ (L1 - 1) * w[1] = P1 - w1 /\ (L2 - 1) * w[2] = P2 - w2
       /\ (L3 - 1) * w[3] = P3 - w3 /\ (L4 - 1) * w[4] = P4 - w4
  BY <1>7
<1>11. CASE Len(s) = 1
  <2>1. L2 = 0 /\ L3 = 0 /\ L4 = 0
    BY <1>5, <1>11 DEF L2, L3, L4
  <2>2. M1 = L1 - 1 /\ M2 = a[2] /\ M3 = 0 /\ M4 = 0
    BY <1>3, <1>11, <2>1
  <2> DEFINE X == a[2] * w[2]
  <2>3. X \in Int
    BY <1>2
  <2>4. N1 = P1 - w1 /\ N2 = X /\ N3 = 0 /\ N4 = 0
    BY <1>2, <1>10, <2>2
  <2>5. P2 = 0 /\ P3 = 0 /\ P4 = 0
    BY <1>2, <2>1
  <2> HIDE DEF X, P1, P2, P3, P4, N1, N2, N3, N4, w1, w2, w3, w4, Q, R
  <2>6. Q = R - w1 + X
    BY <1>9, <1>8, <2>4, <2>5, <2>3
  <2> QED
    BY <1>11, <2>6 DEF Q, R, t, w1, X
<1>12. CASE Len(s) = 2
  <2>1. L3 = 0 /\ L4 = 0
    BY <1>5, <1>12 DEF L3, L4
  <2>2. M1 = L1 /\ M2 = L2 - 1 /\ M3 = a[3] /\ M4 = 0
    BY <1>3, <1>12, <2>1
  <2> DEFINE X == a[3] * w[3]
  <2>3. X \in Int
    BY <1>2
  <2>4. N1 = P1 /\ N2 = P2 - w2 /\ N3 = X /\ N4 = 0
    BY <1>2, <1>10, <2>2
  <2>5. P3 = 0 /\ P4 = 0
    BY <1>2, <2>1
  <2> HIDE DEF X, P1, P2, P3, P4, N1, N2, N3, N4, w1, w2, w3, w4, Q, R
  <2>6. Q = R - w2 + X
    BY <1>9, <1>8, <2>4, <2>5, <2>3
  <2> QED
    BY <1>12, <2>6 DEF Q, R, t, w2, X
<1>13. CASE Len(s) = 3
  <2>1. L4 = 0
    BY <1>5, <1>13 DEF L4
  <2>2. M1 = L1 /\ M2 = L2 /\ M3 = L3 - 1 /\ M4 = a[4]
    BY <1>3, <1>13, <2>1
  <2> DEFINE X == a[4] * w[4]
  <2>3. X \in Int
    BY <1>2
  <2>4. N1 = P1 /\ N2 = P2 /\ N3 = P3 - w3 /\ N4 = X
    BY <1>2, <1>10, <2>2
  <2>5. P4 = 0
    BY <1>2, <2>1
  <2> HIDE DEF X, P1, P2, P3, P4, N1, N2, N3, N4, w1, w2, w3, w4, Q, R
  <2>6. Q = R - w3 + X
    BY <1>9, <1>8, <2>4, <2>5, <2>3
  <2> QED
    BY <1>13, <2>6 DEF Q, R, t, w3, X
<1>14. CASE Len(s) = 4
  <2>1. M1 = L1 /\ M2 = L2 /\ M3 = L3 /\ M4 = L4 - 1
    BY <1>3, <1>14
  <2>2. N1 = P1 /\ N2 = P2 /\ N3 = P3 /\ N4 = P4 - w4
    BY <1>2, <1>10, <2>1
  <2> HIDE DEF P1, P2, P3, P4, N1, N2, N3, N4, w1, w2, w3, w4, Q, R
  <2>3. Q = R - w4 + 0
    BY <1>9, <1>8, <2>2
  <2> QED
    BY <1>14, <2>3 DEF Q, R, t, w4
<1> QED
  BY <1>11, <1>12, <1>13, <1>14

\* A return leaves as much to do as there was: the loop of the call was over.
LEMMA ReturnRest ==
  ASSUME NEW a, NEW s, isArities(a), inLoops(a, s), Len(s) \in 2 .. 5,
         Len(s) <= 4 => s[Len(s)].j = a[Len(s)], NEW w, isArities(w)
  PROVE  LET t == [Front(s) EXCEPT ![Len(s) - 1].j = @ + 1]
         IN /\ inLoops(a, t) /\ Len(t) = Len(s) - 1
            /\ \A h \in 1 .. Len(t) :
                 /\ t[h].v = s[h].v
                 /\ t[h].j = IF h = Len(t) THEN s[h].j + 1 ELSE s[h].j
            /\ restOf(a, t, w) = restOf(a, s, w)
<1> DEFINE n == Len(s)
           m == n - 1
           f == Front(s)
           t == [f EXCEPT ![m].j = @ + 1]
<1>1. n \in 2 .. 5 /\ m \in 1 .. 4 /\ m \in Nat /\ n = m + 1 /\ s \in Seq(Calls)
      /\ DOMAIN s = 1 .. n
  <2>1. s \in Seq(Calls)
    BY DEF inLoops
  <2>2. DOMAIN s = 1 .. n
    BY <2>1
  <2> QED
    BY <2>1, <2>2
<1>2. f \in Seq(Calls) /\ Len(f) = m /\ \A h \in 1 .. m : f[h] = s[h] /\ s[h] \in Calls
  <2>1. f = SubSeq(s, 1, m)
    BY DEF Front
  <2>2. \A h \in 1 .. n : s[h] \in Calls
    BY <1>1
  <2> DEFINE g == SubSeq(s, 1, m)
  <2>3. g \in Seq(Calls) /\ Len(g) = m /\ \A h \in 1 .. m : g[h] = s[h]
    BY <1>1
  <2>4. \A h \in 1 .. m : h \in 1 .. n
    BY <1>1
  <2> HIDE DEF f, g, n, m
  <2>5. f = g
    BY <2>1 DEF g
  <2> QED
    BY <2>2, <2>3, <2>4, <2>5
<1> HIDE DEF n, m, f
<1>3. /\ Len(t) = m /\ DOMAIN t = 1 .. m /\ t \in Seq(Calls)
      /\ \A h \in 1 .. m : /\ t[h].v = s[h].v
                           /\ t[h].j = IF h = m THEN s[h].j + 1 ELSE s[h].j
  <2> DEFINE D == 1 .. m
             r == [f[m] EXCEPT !.j = @ + 1]
  <2>1. t = [f EXCEPT ![m] = r]
    OBVIOUS
  <2>2. f[m] \in Calls /\ f[m] = s[m]
    BY <1>1, <1>2
  <2>3. r \in Calls /\ r.v = s[m].v /\ r.j = s[m].j + 1
    <3>1. \A h \in Calls : LET g == [h EXCEPT !.j = @ + 1]
                           IN g \in Calls /\ g.v = h.v /\ g.j = h.j + 1
      BY DEF Calls
    <3> QED
      BY <2>2, <3>1
  <2>4. f \in [D -> Calls] /\ m \in D
    BY <1>1, <1>2
  <2> HIDE DEF r, D
  <2>5. t \in [D -> Calls] /\ t[m] = r /\ \A h \in D : h # m => t[h] = f[h]
    BY <2>1, <2>3, <2>4
  <2> HIDE DEF t
  <2>6. t \in Seq(Calls) /\ Len(t) = m /\ DOMAIN t = 1 .. m
    BY <1>1, <2>5 DEF D
  <2>7. \A h \in 1 .. m : /\ t[h].v = s[h].v
                          /\ t[h].j = IF h = m THEN s[h].j + 1 ELSE s[h].j
    BY <1>2, <2>3, <2>5 DEF D
  <2> QED
    BY <2>6, <2>7
<1> HIDE DEF t
<1>4. \A h \in 1 .. n : /\ h < n => h <= 4 /\ s[h].j < a[h]
                        /\ h <= 4 => s[h].j <= a[h]
  BY DEF inLoops, n
<1>5. \A h \in 1 .. m : /\ h \in 1 .. 4 /\ h < n /\ s[h].j \in Nat /\ a[h] \in Nat
                        /\ s[h].j < a[h]
  <2>1. TAKE h \in 1 .. m
  <2>2. h \in 1 .. n /\ h < n /\ h \in 1 .. 4
    BY <1>1
  <2>3. a[h] \in Nat
    BY <2>2 DEF isArities
  <2>4. s[h].j \in Nat
    BY <1>2 DEF Calls
  <2> QED
    BY <1>4, <2>2, <2>3, <2>4
<1>6. inLoops(a, t)
  <2>1. ASSUME NEW h \in 1 .. m
        PROVE  /\ h < m => h <= 4 /\ t[h].j < a[h]
               /\ h <= 4 => t[h].j <= a[h]
               /\ h = 5 => t[h].j = 0
    <3> DEFINE x == s[h].j
               y == a[h]
               z == t[h].j
    <3>1. h \in 1 .. 4 /\ x \in Nat /\ y \in Nat /\ x < y
      BY <1>5
    <3>2. z = IF h = m THEN x + 1 ELSE x
      BY <1>3
    <3> HIDE DEF x, y, z
    <3>3. /\ h < m => h <= 4 /\ z < y
          /\ h <= 4 => z <= y
          /\ h = 5 => z = 0
      BY <1>1, <3>1, <3>2
    <3> QED
      BY <3>3 DEF z, y
  <2>2. m <= 5
    BY <1>1
  <2> QED
    BY <1>3, <2>1, <2>2 DEF inLoops
<1>7. \A h \in 1 .. 4 : leftOf(a, t, h) = leftOf(a, s, h)
  <2>1. TAKE h \in 1 .. 4
  <2> DEFINE x == s[h].j
             y == a[h]
             z == t[h].j
  <2>2. CASE h \in 1 .. m
    <3>1. x \in Nat /\ y \in Nat /\ h < n
      BY <1>5, <2>2
    <3>2. z = IF h = m THEN x + 1 ELSE x
      BY <1>3, <2>2
    <3>3. ~(h > m) /\ ~(h > n)
      BY <1>1, <2>2, <3>1
    <3>4. /\ leftOf(a, t, h) = y - z - (IF h < m THEN 1 ELSE 0)
          /\ leftOf(a, s, h) = y - x - 1
      BY <1>3, <3>1, <3>3 DEF leftOf, n
    <3> HIDE DEF x, y, z
    <3> QED
      BY <1>1, <2>2, <3>1, <3>2, <3>4
  <2>3. CASE h = n
    <3>1. h > m /\ ~(h > n) /\ ~(h < n) /\ n <= 4
      BY <1>1, <2>3
    <3>2. x = y
      BY <2>3, <3>1 DEF n
    <3>3. y \in Nat
      BY DEF isArities
    <3>4. leftOf(a, t, h) = 0
      BY <1>3, <3>1 DEF leftOf
    <3>5. leftOf(a, s, h) = y - x - 0
      BY <3>1 DEF leftOf, n
    <3> HIDE DEF x, y
    <3> QED
      BY <3>2, <3>3, <3>4, <3>5
  <2>4. CASE h > n
    <3>1. h > m
      BY <1>1, <2>4
    <3> QED
      BY <1>3, <2>4, <3>1 DEF leftOf, n
  <2> QED
    BY <1>1, <2>2, <2>3, <2>4
<1>8. restOf(a, t, w) = restOf(a, s, w)
  BY <1>7 DEF restOf
<1>9. /\ Len(t) = n - 1
      /\ \A h \in 1 .. Len(t) :
           t[h].v = s[h].v /\ t[h].j = IF h = Len(t) THEN s[h].j + 1 ELSE s[h].j
  BY <1>1, <1>3
<1>10. t = [Front(s) EXCEPT ![Len(s) - 1].j = @ + 1]
  BY Zenon DEF t, f, m, n
<1> QED
  BY <1>6, <1>8, <1>9, <1>10, Zenon DEF n

\* What one iteration makes is its child and what the child's iterations make.
LEMMA BelowIs ==
  ASSUME NEW a, isArities(a)
  PROVE  /\ isArities(verticesBelow(a)) /\ isArities(pusBelow(a))
         /\ verticesBelow(a)[4] = 1 /\ pusBelow(a)[4] = 1
         /\ \A h \in 1 .. 3 :
              /\ verticesBelow(a)[h] = 1 + a[h + 1] * verticesBelow(a)[h + 1]
              /\ pusBelow(a)[h] = a[h + 1] * pusBelow(a)[h + 1]
<1> DEFINE a2 == a[2]
           a3 == a[3]
           a4 == a[4]
           v == verticesBelow(a)
           u == pusBelow(a)
<1>1. a2 \in Nat /\ a3 \in Nat /\ a4 \in Nat
  BY DEF isArities
<1>2. /\ v[1] = 1 + a2 * (1 + a3 * (1 + a4)) /\ v[2] = 1 + a3 * (1 + a4)
      /\ v[3] = 1 + a4 /\ v[4] = 1
      /\ u[1] = a2 * (a3 * a4) /\ u[2] = a3 * a4 /\ u[3] = a4 /\ u[4] = 1
  BY DEF verticesBelow, pusBelow
<1> HIDE DEF a2, a3, a4, v, u
<1> DEFINE x == 1 + a4
           y == a3 * a4
<1>3. x \in Nat /\ y \in Nat /\ v[3] = x /\ v[2] = 1 + a3 * x /\ u[2] = y
      /\ v[1] = 1 + a2 * (1 + a3 * x) /\ u[1] = a2 * y
  BY <1>1, <1>2
<1> HIDE DEF x, y
<1> DEFINE z == 1 + a3 * x
<1>4. z \in Nat /\ v[2] = z /\ v[1] = 1 + a2 * z
  BY <1>1, <1>3
<1> HIDE DEF z
<1>5. isArities(v) /\ isArities(u)
  BY <1>1, <1>2, <1>3, <1>4 DEF isArities
<1>6. /\ v[1] = 1 + a2 * v[2] /\ v[2] = 1 + a3 * v[3] /\ v[3] = 1 + a4 * v[4]
      /\ u[1] = a2 * u[2] /\ u[2] = a3 * u[3] /\ u[3] = a4 * u[4]
  <2>1. v[3] = 1 + a4 * 1 /\ u[3] = a4 * 1
    BY <1>1, <1>2
  <2>2. v[2] = 1 + a3 * x /\ u[2] = a3 * a4
    BY <1>2, <1>3
  <2> QED
    BY <1>2, <1>3, <1>4, <2>1, <2>2
<1>7. \A h \in 1 .. 3 : v[h] = 1 + a[h + 1] * v[h + 1] /\ u[h] = a[h + 1] * u[h + 1]
  <2>1. \A h \in 1 .. 3 : (h = 1 /\ h + 1 = 2) \/ (h = 2 /\ h + 1 = 3) \/ (h = 3 /\ h + 1 = 4)
    OBVIOUS
  <2> QED
    BY <1>6, <2>1 DEF a2, a3, a4
<1> QED
  BY <1>2, <1>5, <1>7 DEF v, u

LEMMA RestNat ==
  ASSUME NEW a, NEW s, isArities(a), inLoops(a, s), NEW w, isArities(w)
  PROVE  restOf(a, s, w) \in Nat
<1> DEFINE L1 == leftOf(a, s, 1)
           L2 == leftOf(a, s, 2)
           L3 == leftOf(a, s, 3)
           L4 == leftOf(a, s, 4)
<1>1. L1 \in Nat /\ L2 \in Nat /\ L3 \in Nat /\ L4 \in Nat
  BY LeftNat
<1>2. w[1] \in Nat /\ w[2] \in Nat /\ w[3] \in Nat /\ w[4] \in Nat
  BY DEF isArities
<1>3. restOf(a, s, w) = L1 * w[1] + L2 * w[2] + L3 * w[3] + L4 * w[4]
  BY DEF restOf
<1> HIDE DEF L1, L2, L3, L4
<1>4. L1 * w[1] \in Nat /\ L2 * w[2] \in Nat /\ L3 * w[3] \in Nat /\ L4 * w[4] \in Nat
  BY <1>1, <1>2
<1> QED
  BY <1>3, <1>4

\* The outermost call has everything below the root to make.
LEMMA RootRest ==
  ASSUME NEW a, isArities(a), NEW c \in Calls, c.j = 0, NEW w, isArities(w)
  PROVE  restOf(a, << c >>, w) = a[1] * w[1]
<1> DEFINE s == << c >>
           x == a[1] * w[1]
<1>1. /\ a[1] \in Nat /\ w[1] \in Nat /\ w[2] \in Nat /\ w[3] \in Nat /\ w[4] \in Nat
      /\ x \in Nat
  BY DEF isArities
<1>2. leftOf(a, s, 1) = a[1]
  BY <1>1 DEF leftOf
<1>3. leftOf(a, s, 2) = 0 /\ leftOf(a, s, 3) = 0 /\ leftOf(a, s, 4) = 0
  BY DEF leftOf
<1>4. restOf(a, s, w) = x + 0 * w[2] + 0 * w[3] + 0 * w[4]
  BY <1>2, <1>3 DEF restOf
<1> HIDE DEF x, s
<1> QED
  BY <1>1, <1>4 DEF x, s

\* And nothing when its loop has ended.
LEMMA RootDone ==
  ASSUME NEW a, NEW s, isArities(a), inLoops(a, s), Len(s) = 1, s[1].j = a[1],
         NEW w, isArities(w)
  PROVE  restOf(a, s, w) = 0
<1>1. a[1] \in Nat /\ w[1] \in Nat /\ w[2] \in Nat /\ w[3] \in Nat /\ w[4] \in Nat
  BY DEF isArities
<1>2. leftOf(a, s, 1) = 0
  BY <1>1 DEF leftOf
<1>3. leftOf(a, s, 2) = 0 /\ leftOf(a, s, 3) = 0 /\ leftOf(a, s, 4) = 0
  BY DEF leftOf
<1>4. restOf(a, s, w) = 0 * w[1] + 0 * w[2] + 0 * w[3] + 0 * w[4]
  BY <1>2, <1>3 DEF restOf
<1> QED
  BY <1>1, <1>4

\* A call begins: it makes one vertex, and one PU at the last level.
LEMMA EnterMakes ==
  ASSUME NEW a, NEW s, isArities(a), inLoops(a, s), Len(s) \in 1 .. 4,
         NEW c \in Calls, c.j = 0
  PROVE  /\ restOf(a, Append(s, c), verticesBelow(a)) = restOf(a, s, verticesBelow(a)) - 1
         /\ restOf(a, Append(s, c), pusBelow(a)) =
              restOf(a, s, pusBelow(a)) - (IF Len(s) = 4 THEN 1 ELSE 0)
<1> DEFINE t == Append(s, c)
           n == Len(s)
           v == verticesBelow(a)
           u == pusBelow(a)
           Rv == restOf(a, s, v)
           Ru == restOf(a, s, u)
           Tv == restOf(a, t, v)
           Tu == restOf(a, t, u)
<1>1. isArities(v) /\ isArities(u) /\ v[4] = 1 /\ u[4] = 1
      /\ \A h \in 1 .. 3 : v[h] = 1 + a[h + 1] * v[h + 1] /\ u[h] = a[h + 1] * u[h + 1]
  BY BelowIs
<1>2. Rv \in Int /\ Ru \in Int
  BY <1>1, RestNat
<1>3. Tv = Rv - v[n] + (IF n = 4 THEN 0 ELSE a[n + 1] * v[n + 1])
  BY <1>1, EnterRest
<1>4. Tu = Ru - u[n] + (IF n = 4 THEN 0 ELSE a[n + 1] * u[n + 1])
  BY <1>1, EnterRest
<1>5. n \in 1 .. 4
  OBVIOUS
<1> HIDE DEF v, u, n, t, Rv, Ru, Tv, Tu
<1>6. Tv = Rv - 1 /\ Tu = Ru - (IF n = 4 THEN 1 ELSE 0)
  <2>1. CASE n = 4
    BY <1>1, <1>2, <1>3, <1>4, <2>1
  <2>2. CASE n # 4
    <3> DEFINE x == a[n + 1] * v[n + 1]
               y == a[n + 1] * u[n + 1]
    <3>1. n \in 1 .. 3
      BY <1>5, <2>2
    <3>2. x \in Int /\ y \in Int
      <4>1. n = 1 \/ n = 2 \/ n = 3
        BY <3>1
      <4>2. /\ a[2] \in Nat /\ a[3] \in Nat /\ a[4] \in Nat
            /\ v[2] \in Nat /\ v[3] \in Nat /\ v[4] \in Nat
            /\ u[2] \in Nat /\ u[3] \in Nat /\ u[4] \in Nat
        BY <1>1 DEF isArities
      <4> QED
        BY <4>1, <4>2
    <3>3. v[n] = 1 + x /\ u[n] = y
      BY <1>1, <3>1
    <3>4. Tv = Rv - v[n] + x /\ Tu = Ru - u[n] + y
      BY <1>3, <1>4, <2>2
    <3> HIDE DEF x, y
    <3> QED
      BY <1>2, <2>2, <3>2, <3>3, <3>4
  <2> QED
    BY <2>1, <2>2
<1> QED
  BY <1>6 DEF Tv, Tu, Rv, Ru, n, t, v, u

LEMMA EnterInLoops ==
  ASSUME NEW a, NEW s, isArities(a), inLoops(a, s), Len(s) <= 4,
         Len(s) # 0 => s[Len(s)].j # a[Len(s)], NEW c \in Calls, c.j = 0
  PROVE  inLoops(a, Append(s, c))
<1> DEFINE n == Len(s)
           t == Append(s, c)
<1>1. s \in Seq(Calls) /\ n \in 0 .. 4 /\ n + 1 \in 1 .. 5
  <2>1. s \in Seq(Calls) /\ Len(s) <= 4
    BY DEF inLoops
  <2>2. Len(s) \in Nat
    BY <2>1
  <2>3. \A m \in Nat : m <= 4 => m \in 0 .. 4 /\ m + 1 \in 1 .. 5
    OBVIOUS
  <2>4. Len(s) \in 0 .. 4 /\ Len(s) + 1 \in 1 .. 5
    BY <2>1, <2>2, <2>3, Zenon
  <2> QED
    BY <2>1, <2>4
<1>2. t \in Seq(Calls) /\ Len(t) = n + 1 /\ t[n + 1] = c /\ \A h \in 1 .. n : t[h] = s[h]
  BY <1>1
<1>3. \A h \in 1 .. n : /\ h < n => h <= 4 /\ s[h].j < a[h]
                        /\ h <= 4 => s[h].j <= a[h]
  BY DEF inLoops
<1>4. n # 0 => s[n].j # a[n]
  OBVIOUS
<1> HIDE DEF n, t
<1>5. ASSUME NEW h \in 1 .. n + 1
      PROVE  /\ h < n + 1 => h <= 4 /\ t[h].j < a[h]
             /\ h <= 4 => t[h].j <= a[h]
             /\ h = 5 => t[h].j = 0
  <2>1. CASE h \in 1 .. n
    <3> DEFINE x == s[h].j
               y == a[h]
    <3>1. h \in 1 .. 4 /\ h # 5
      BY <1>1, <2>1
    <3>2. y \in Nat
      BY <3>1 DEF isArities
    <3>3. s[h] \in Calls /\ t[h].j = x
      BY <1>1, <1>2, <2>1 DEF n
    <3>4. x \in Nat
      BY <3>3 DEF Calls
    <3>5. x <= y
      BY <1>3, <2>1, <3>1
    <3>6. h < n => x < y
      BY <1>3, <2>1
    <3>7. h = n => x # y
      BY <1>4, <2>1
    <3> HIDE DEF x, y
    <3>8. x < y
      BY <1>1, <2>1, <3>2, <3>4, <3>5, <3>6, <3>7
    <3> QED
      BY <3>1, <3>3, <3>5, <3>8 DEF x, y
  <2>2. CASE h = n + 1
    <3>1. t[h].j = 0 /\ ~(h < n + 1)
      BY <1>1, <1>2, <2>2
    <3>2. h <= 4 => a[h] \in Nat
      BY DEF isArities
    <3> QED
      BY <3>1, <3>2
  <2> QED
    BY <1>1, <2>1, <2>2
<1>6. n + 1 <= 5
  BY <1>1
<1> QED
  BY <1>2, <1>5, <1>6 DEF inLoops, n, t

\* The vertices that libmapping_get_n_pus_fake_topology counts: the root and
\* what the iterations of its call make.
LEMMA VerticesCounted ==
  ASSUME num_nodes \in Nat, num_cpus \in Nat, num_cores \in Nat, num_threads \in Nat
  PROVE  /\ nlevels = 4 /\ isArities(arities)
         /\ nvertices = 1 + arities[1] * verticesBelow(arities)[1]
         /\ Cardinality(PUs(arities)) = arities[1] * pusBelow(arities)[1]
         /\ nvertices \in Nat \ {0} /\ Cardinality(PUs(arities)) \in Nat
<1> DEFINE a == arities
           v == verticesBelow(a)
           u == pusBelow(a)
           is(f) == f = [l \in 1 .. nlevels + 1 |->
                           IF l > nlevels THEN 1 ELSE 1 + a[l] * f[l + 1]]
           count == CHOOSE f : is(f)
           g == [l \in 1 .. 5 |-> IF l = 5 THEN 1 ELSE 1 + a[l] * v[l]]
<1>1. nlevels = 4 /\ isArities(a) /\ a = << num_nodes, num_cpus, num_cores, num_threads >>
  BY DEF nlevels, arities, counts, isArities
<1>2. /\ isArities(v) /\ isArities(u) /\ v[4] = 1 /\ u[4] = 1
      /\ \A h \in 1 .. 3 : v[h] = 1 + a[h + 1] * v[h + 1] /\ u[h] = a[h + 1] * u[h + 1]
  BY <1>1, BelowIs
<1>3. nvertices = count[1]
  BY DEF nvertices
<1> HIDE DEF a, v, u
<1>4. is(g)
  <2>1. \A l \in 1 .. 4 : l + 1 \in 1 .. 5 /\ g[l + 1] = v[l]
    <3>1. \A l \in 1 .. 3 : l + 1 \in 1 .. 5 /\ l + 1 # 5 /\ g[l + 1] = v[l]
      BY <1>2
    <3>2. g[4 + 1] = v[4] /\ 4 + 1 \in 1 .. 5
      BY <1>2
    <3> QED
      BY <3>1, <3>2
  <2>2. \A l \in 1 .. 5 : g[l] = IF l > 4 THEN 1 ELSE 1 + a[l] * g[l + 1]
    <3>1. TAKE l \in 1 .. 5
    <3>2. CASE l = 5
      BY <3>2
    <3>3. CASE l # 5
      <4>1. l \in 1 .. 4 /\ ~(l > 4)
        BY <3>3
      <4>2. g[l] = 1 + a[l] * v[l] /\ g[l + 1] = v[l]
        BY <2>1, <4>1
      <4> HIDE DEF g
      <4> QED
        BY <4>1, <4>2
    <3> QED
      BY <3>2, <3>3
  <2> DEFINE F == [l \in 1 .. 5 |-> IF l > 4 THEN 1 ELSE 1 + a[l] * g[l + 1]]
  <2>3. g = F
    <3>1. DOMAIN g = 1 .. 5 /\ g = [l \in 1 .. 5 |-> g[l]]
      OBVIOUS
    <3> HIDE DEF g
    <3> QED
      BY <2>2, <3>1
  <2>4. nlevels + 1 = 5
    BY <1>1
  <2> HIDE DEF g
  <2> QED
    BY <1>1, <2>3, <2>4
<1>5. is(count)
  BY <1>4
<1> HIDE DEF count, g
<1>6. \A l \in 1 .. 5 : count[l] = IF l > 4 THEN 1 ELSE 1 + a[l] * count[l + 1]
  BY <1>1, <1>5
<1>7. a[1] \in Nat /\ a[2] \in Nat /\ a[3] \in Nat /\ a[4] \in Nat
  BY <1>1 DEF isArities
<1>8. count[5] = 1
  BY <1>6
<1>9. count[4] = v[3]
  <2>1. count[4] = 1 + a[4] * count[4 + 1]
    BY <1>6
  <2>2. v[3] = 1 + a[3 + 1] * v[3 + 1]
    BY <1>2
  <2> QED
    BY <1>2, <1>8, <2>1, <2>2
<1>10. count[3] = v[2]
  <2>1. count[3] = 1 + a[3] * count[3 + 1]
    BY <1>6
  <2>2. v[2] = 1 + a[2 + 1] * v[2 + 1]
    BY <1>2
  <2> QED
    BY <1>9, <2>1, <2>2
<1>11. count[2] = v[1]
  <2>1. count[2] = 1 + a[2] * count[2 + 1]
    BY <1>6
  <2>2. v[1] = 1 + a[1 + 1] * v[1 + 1]
    BY <1>2
  <2> QED
    BY <1>10, <2>1, <2>2
<1>12. count[1] = 1 + a[1] * v[1]
  <2>1. count[1] = 1 + a[1] * count[1 + 1]
    BY <1>6
  <2> QED
    BY <1>11, <2>1
<1>13. Cardinality(PUs(a)) = a[1] * u[1]
  <2>1. Cardinality(PUs(a)) = a[1] * a[2] * a[3] * a[4]
    <3>1. a[1] = num_nodes /\ a[2] = num_cpus /\ a[3] = num_cores /\ a[4] = num_threads
      BY <1>1
    <3> QED
      BY <1>1, <3>1, FourLevels
  <2>2. u[1] = a[2] * (a[3] * a[4])
    BY <1>7 DEF u, pusBelow
  <2>3. \A x, y, z, t \in Nat : x * y * z * t = x * (y * (z * t))
    OBVIOUS
  <2> QED
    BY <1>7, <2>1, <2>2, <2>3
<1>14. a[1] * v[1] \in Nat /\ a[1] * u[1] \in Nat
  <2>1. v[1] \in Nat /\ u[1] \in Nat
    BY <1>2 DEF isArities
  <2> QED
    BY <1>7, <2>1
<1>15. nvertices \in Nat \ {0}
  BY <1>3, <1>12, <1>14
<1> QED
  BY <1>1, <1>3, <1>12, <1>13, <1>14, <1>15 DEF a, v, u

\* A vertex with one more link, at the end.
Vertices == [type : {"PU", "UNDEFINED", "ROOT"}, id : Nat,
             linked : Seq([v : Nat, e : Nat])]

linkedTo(x, y, e) == [x EXCEPT !.linked = Append(@, [v |-> y, e |-> e])]

oneMore(x, y, z) ==
  /\ z \in Vertices /\ z.type = x.type
  /\ Len(x.linked) \in Nat /\ \A n \in 1 .. Len(x.linked) : x.linked[n].v \in Nat
  /\ Len(z.linked) = Len(x.linked) + 1 /\ z.linked[Len(x.linked) + 1].v = y
  /\ \A n \in 1 .. Len(x.linked) : z.linked[n] = x.linked[n]

LEMMA LinkedTo ==
  ASSUME NEW x \in Vertices, NEW y \in Nat, NEW e \in Nat
  PROVE  oneMore(x, y, linkedTo(x, y, e))
<1> DEFINE L == [v : Nat, e : Nat]
           s == x.linked
           l == [v |-> y, e |-> e]
           q == Append(s, l)
           z == linkedTo(x, y, e)
<1>1. s \in Seq(L) /\ l \in L /\ l.v = y
  BY DEF Vertices
<1>2. \A i \in L : i.v \in Nat
  OBVIOUS
<1>3. z = [x EXCEPT !.linked = q]
  BY DEF linkedTo
<1> HIDE DEF l, L
<1>4. /\ q \in Seq(L) /\ Len(q) = Len(s) + 1 /\ q[Len(s) + 1].v = y
      /\ \A n \in 1 .. Len(s) : q[n] = s[n]
      /\ Len(s) \in Nat /\ \A n \in 1 .. Len(s) : s[n].v \in Nat
  <2> HIDE DEF s
  <2>1. \A n \in 1 .. Len(s) : s[n] \in L
    BY <1>1
  <2> QED
    BY <1>1, <1>2, <2>1
<1> HIDE DEF q, z
<1>5. z \in Vertices /\ z.linked = q /\ z.type = x.type
  <2>1. q \in Seq([v : Nat, e : Nat])
    BY <1>4 DEF L
  <2> QED
    BY <1>3, <2>1 DEF Vertices
<1> QED
  BY <1>4, <1>5 DEF oneMore, q, z

\* What connected leaves of a graph: the same vertices, and one more link at
\* both ends.
LEMMA ConnectedIs ==
  ASSUME NEW g \in Seq(Vertices), NEW src \in 1 .. Len(g), NEW dest \in 1 .. Len(g),
         src # dest, NEW e \in Nat
  PROVE  /\ connected(g, src, dest, e) \in Seq(Vertices)
         /\ Len(connected(g, src, dest, e)) = Len(g)
         /\ \A v \in 1 .. Len(g) :
              /\ connected(g, src, dest, e)[v] =
                   IF v = dest THEN linkedTo(g[v], src, e)
                   ELSE IF v = src THEN linkedTo(g[v], dest, e) ELSE g[v]
              /\ Len(connected(g, src, dest, e)[v].linked) <= Len(g[v].linked) + 1
<1> DEFINE D == 1 .. Len(g)
           N == Len(g)
           G == [g EXCEPT ![src] = linkedTo(g[src], dest, e)]
           H == [G EXCEPT ![dest] = linkedTo(G[dest], src, e)]
<1>1. connected(g, src, dest, e) = H
  BY DEF connected, linkedTo
<1>2. /\ g \in [D -> Vertices] /\ src \in D /\ dest \in D /\ D \subseteq Nat /\ N \in Nat
      /\ \A v \in D : g[v] \in Vertices
  OBVIOUS
<1>3. \A v \in D : Len(g[v].linked) \in Nat
  BY <1>2 DEF Vertices
<1> HIDE DEF D
<1>4. linkedTo(g[src], dest, e) \in Vertices /\ linkedTo(g[dest], src, e) \in Vertices
  BY <1>2, LinkedTo DEF oneMore
<1>5. /\ G \in [D -> Vertices]
      /\ \A v \in D : G[v] = IF v = src THEN linkedTo(g[src], dest, e) ELSE g[v]
  BY <1>2, <1>4
<1> HIDE DEF G
<1>6. /\ H \in [D -> Vertices]
      /\ \A v \in D : H[v] = IF v = dest THEN linkedTo(g[dest], src, e)
                             ELSE IF v = src THEN linkedTo(g[src], dest, e) ELSE g[v]
  BY <1>2, <1>4, <1>5
<1> HIDE DEF H
<1>7. H \in Seq(Vertices) /\ Len(H) = N
  <2>1. H \in [1 .. N -> Vertices]
    BY <1>6 DEF D, N
  <2> HIDE DEF N
  <2> QED
    BY <1>2, <2>1
<1>8. \A v \in D : Len(H[v].linked) <= Len(g[v].linked) + 1
  <2>1. TAKE v \in D
  <2>2. \/ H[v] = g[v] \/ H[v] = linkedTo(g[v], src, e) \/ H[v] = linkedTo(g[v], dest, e)
    BY <1>6
  <2>3. \/ Len(H[v].linked) = Len(g[v].linked)
        \/ Len(H[v].linked) = Len(g[v].linked) + 1
    <3>1. g[v] \in Vertices /\ src \in Nat /\ dest \in Nat
      BY <1>2
    <3>2. /\ Len(linkedTo(g[v], src, e).linked) = Len(g[v].linked) + 1
          /\ Len(linkedTo(g[v], dest, e).linked) = Len(g[v].linked) + 1
      <4>1. oneMore(g[v], src, linkedTo(g[v], src, e))
            /\ oneMore(g[v], dest, linkedTo(g[v], dest, e))
        BY <3>1, LinkedTo
      <4> QED
        BY <4>1 DEF oneMore
    <3> QED
      BY <2>2, <3>2
  <2> QED
    BY <1>3, <2>3
<1> QED
  BY <1>1, <1>6, <1>7, <1>8 DEF D, N

-----------------------------------------------------------------------------
(* The graph is exactly used. *)

Edges == [src : Nat, dest : Nat, weight : {2^n : n \in 0 .. 4}]

found == pc \in {"node", "cpu", "done"}

\* Every active call but the innermost waits for the one below it, whose
\* vertex is a later one.
activeCalls ==
  /\ inLoops(arities, stack)
  /\ \A h \in 1 .. Len(stack) : stack[h].v \in 1 .. Len(vertices)
  /\ \A g, h \in 1 .. Len(stack) : g < h => stack[g].v < stack[h].v

\* What was made and what is left to make are the tree.  All vertices but
\* those of active calls hang on an edge.
madeAndLeft ==
  /\ Len(edges) + Len(stack) = Len(vertices)
  /\ IF stack = << >> THEN vertices = << >> /\ id = 0
     ELSE /\ Len(vertices) + restOf(arities, stack, verticesBelow(arities)) = nvertices
          /\ id + restOf(arities, stack, pusBelow(arities)) = Cardinality(PUs(arities))

BInv ==
  /\ vertices \in Seq(Vertices) /\ edges \in Seq(Edges) /\ id \in Nat
  /\ \A v \in 1 .. Len(vertices) : Len(vertices[v].linked) <= Len(edges)
  /\ found => /\ n_vertices = 0 /\ n_edges = 0 /\ id = 0
              /\ vertices = << >> /\ edges = << >> /\ stack = << >>
  /\ ~found => n_vertices = nvertices /\ n_edges = nvertices - 1
  /\ pc = "create" => activeCalls /\ madeAndLeft
  /\ ~found /\ pc # "create" => Len(vertices) = n_vertices /\ Len(edges) = n_edges

LEMMA SameTree ==
  ASSUME UNCHANGED detectVars
  PROVE  /\ arities' = arities /\ nlevels' = nlevels /\ nvertices' = nvertices /\ pu' = pu
<1> DEFINE F(a) == LET count[l \in 1 .. Len(a) + 1] ==
                         IF l > Len(a) THEN 1 ELSE 1 + a[l] * count[l + 1]
                   IN count[1]
<1>1. arities' = arities /\ pu' = pu
  BY DEF detectVars, arities
<1>2. nvertices = F(arities) /\ nvertices' = F(arities')
  BY DEF nvertices, nlevels
<1> HIDE DEF F
<1> QED
  BY <1>1, <1>2 DEF nlevels

\* What stands still while the graph does.
LEMMA GraphStill ==
  ASSUME BInv, UNCHANGED detectVars, UNCHANGED graphVars, id' = id,
         ~found, pc # "create", ~found', pc' # "create"
  PROVE  BInv'
<1>1. /\ vertices' = vertices /\ edges' = edges /\ n_vertices' = n_vertices
      /\ n_edges' = n_edges
  BY DEF graphVars
<1>2. nvertices' = nvertices
  BY SameTree
<1> QED
  BY <1>1, <1>2 DEF BInv

LEMMA InitBInv == ASSUME Init PROVE BInv
<1>1. /\ pc = "node" /\ n_vertices = 0 /\ n_edges = 0 /\ vertices = << >>
      /\ edges = << >> /\ stack = << >> /\ id = 0
  BY DEF Init, DetectInit
<1>2. vertices \in Seq(Vertices) /\ edges \in Seq(Edges) /\ Len(vertices) = 0
  BY <1>1
<1>3. found /\ pc # "create"
  BY <1>1 DEF found
<1> QED
  BY <1>1, <1>2, <1>3 DEF BInv

LEMMA StepGraphInit == ASSUME DInv, BInv, libmapping_graph_init PROVE BInv'
<1>1. /\ pc = "done" /\ n_vertices' = nvertices /\ n_edges' = nvertices - 1
      /\ vertices' = << >> /\ edges' = << >> /\ pc' = "create"
      /\ UNCHANGED detectVars /\ stack' = stack /\ id' = id
  BY DEF libmapping_graph_init
<1>2. stack = << >> /\ id = 0
  BY <1>1 DEF BInv, found
<1>3. nvertices' = nvertices
  BY <1>1, SameTree
<1>4. ~found' /\ pc' = "create"
  BY <1>1 DEF found
<1>5. vertices' \in Seq(Vertices) /\ edges' \in Seq(Edges) /\ Len(vertices') = 0
      /\ Len(edges') = 0 /\ stack' \in Seq(Calls) /\ Len(stack') = 0 /\ id' = 0
      /\ 1 .. 0 = {}
  BY <1>1, <1>2
<1>6. activeCalls'
  BY <1>5 DEF activeCalls, inLoops
<1>7. madeAndLeft'
  BY <1>1, <1>2, <1>5 DEF madeAndLeft
<1> QED
  BY <1>1, <1>3, <1>4, <1>5, <1>6, <1>7 DEF BInv

\* The leaf that is about to be made has a processor.
LEMMA LeafHasPu ==
  ASSUME DInv, BInv, pc = "create", ~loopDone, atLeaf
  PROVE  id + 1 \in 1 .. Len(pu)
<1> DEFINE a == arities
           s == stack
           R == restOf(a, s, pusBelow(a))
           c == [v |-> 0, j |-> 0]
           T == restOf(a, Append(s, c), pusBelow(a))
           P == Cardinality(PUs(a))
<1>1. /\ num_nodes \in Nat /\ num_cpus \in Nat /\ num_cores \in Nat /\ num_threads \in Nat
      /\ num_nodes * num_cpus * num_cores * num_threads <= Len(pu)
  BY DEF DInv, detecting
<1>2. nlevels = 4 /\ isArities(a) /\ P \in Nat
  BY <1>1, VerticesCounted
<1>3. P <= Len(pu) /\ Len(pu) \in Nat
  <2>1. P = num_nodes * num_cpus * num_cores * num_threads
    BY <1>1, FourLevels DEF arities, counts
  <2>2. Len(pu) \in Nat
    BY DEF DInv
  <2> QED
    BY <1>1, <2>1, <2>2
<1>4. Len(s) = 4 /\ s # << >>
  BY <1>2 DEF atLeaf
<1>5. activeCalls /\ madeAndLeft /\ id \in Nat
  BY DEF BInv
<1>6. inLoops(a, s)
  BY <1>5 DEF activeCalls
<1>7. id + R = P
  BY <1>4, <1>5 DEF madeAndLeft
<1>8. c \in Calls /\ c.j = 0
  BY DEF Calls
<1>9. s[Len(s)].j # a[Len(s)]
  BY <1>2, <1>4 DEF loopDone, iterations, Top, Last
<1>10. inLoops(a, Append(s, c))
  <2>1. Len(s) <= 4 /\ (Len(s) # 0 => s[Len(s)].j # a[Len(s)])
    BY <1>4, <1>9
  <2> HIDE DEF a, s, c
  <2> QED
    BY <1>2, <1>6, <1>8, <2>1, EnterInLoops
<1>11. T \in Nat /\ R \in Nat
  BY <1>2, <1>6, <1>10, BelowIs, RestNat
<1>12. T = R - 1
  BY <1>2, <1>4, <1>6, <1>8, EnterMakes
<1> HIDE DEF T, R, P
<1> QED
  BY <1>2, <1>3, <1>5, <1>7, <1>11, <1>12

LEMMA StepEnter == ASSUME DInv, BInv, Enter PROVE BInv'
<1> DEFINE a == arities
           s == stack
           vs == vertices
           x == newVertex
           n == Len(vs)
           m == Len(s)
           ws == Append(vs, x)
           c == [v |-> n + 1, j |-> 0]
           t == Append(s, c)
           V == verticesBelow(a)
           U == pusBelow(a)
<1>1. /\ pc = "create" /\ ~loopDone /\ vertices' = ws /\ pc' = pc
      /\ id' = (IF atLeaf THEN id + 1 ELSE id)
      /\ stack' = Append(s, [v |-> Len(vertices'), j |-> 0])
      /\ n_vertices' = n_vertices /\ n_edges' = n_edges /\ edges' = edges
      /\ UNCHANGED detectVars
  BY DEF Enter
<1>2. /\ num_nodes \in Nat /\ num_cpus \in Nat /\ num_cores \in Nat /\ num_threads \in Nat
      /\ machine \in Machines /\ pu \in Seq(CPUs)
  BY DEF DInv
<1>3. /\ nlevels = 4 /\ isArities(a) /\ nvertices = 1 + a[1] * V[1]
      /\ Cardinality(PUs(a)) = a[1] * U[1]
      /\ nvertices \in Nat \ {0} /\ Cardinality(PUs(a)) \in Nat
      /\ isArities(V) /\ isArities(U)
  BY <1>2, VerticesCounted, BelowIs
<1>4. /\ vs \in Seq(Vertices) /\ edges \in Seq(Edges) /\ id \in Nat
      /\ \A v \in 1 .. n : Len(vs[v].linked) <= Len(edges)
      /\ n_vertices = nvertices /\ n_edges = nvertices - 1
      /\ inLoops(a, s) /\ \A h \in 1 .. m : s[h].v \in 1 .. n
      /\ \A g, h \in 1 .. m : g < h => s[g].v < s[h].v
      /\ Len(edges) + m = n
      /\ IF s = << >> THEN vs = << >> /\ id = 0
         ELSE /\ n + restOf(a, s, V) = nvertices
              /\ id + restOf(a, s, U) = Cardinality(PUs(a))
  BY <1>1 DEF BInv, found, activeCalls, madeAndLeft
<1>5. /\ arities' = a /\ nvertices' = nvertices
  BY <1>1, SameTree
<1>6. x \in Vertices /\ x.linked = << >>
  <2> DEFINE y == IF atLeaf THEN pu[id + 1] ELSE 0
             z == IF atLeaf THEN "PU" ELSE "UNDEFINED"
  <2>1. CASE atLeaf
    <3>1. id + 1 \in 1 .. Len(pu)
      BY <1>1, <2>1, LeafHasPu
    <3>2. pu[id + 1] \in CPUs
      BY <1>2, <3>1
    <3>3. CPUs \subseteq Nat
      BY MachineIs
    <3>4. y \in Nat
      BY <2>1, <3>2, <3>3
    <3> QED
      BY <2>1, <3>4 DEF newVertex, Vertices
  <2>2. CASE ~atLeaf
    BY <2>2 DEF newVertex, Vertices
  <2> QED
    BY <2>1, <2>2
<1>7. n \in Nat /\ s \in Seq(Calls) /\ m \in Nat
  BY <1>4 DEF inLoops
<1> HIDE DEF x
<1>8. /\ ws \in Seq(Vertices) /\ Len(ws) = n + 1 /\ ws[n + 1] = x
      /\ \A v \in 1 .. n : ws[v] = vs[v]
  BY <1>4, <1>6
<1>9. stack' = t
  BY <1>1, <1>8
<1>10. c \in Calls /\ c.j = 0 /\ c.v = n + 1
  BY <1>7 DEF Calls
<1> HIDE DEF c, ws
<1>11. /\ t \in Seq(Calls) /\ Len(t) = m + 1 /\ t[m + 1] = c /\ t # << >>
       /\ \A h \in 1 .. m : t[h] = s[h]
  BY <1>7, <1>10
<1>12. m <= 4 /\ (m # 0 => s[m].j # a[m])
  <2>1. CASE s = << >>
    BY <2>1
  <2>2. CASE s # << >>
    <3>1. Last(s).j # iterations /\ Last(s) = s[m] /\ m # 0 /\ m <= 5
      BY <1>1, <1>4, <1>7, <2>2 DEF loopDone, Top, Last, inLoops
    <3>2. m # 5
      <4>1. SUFFICES ASSUME m = 5 PROVE FALSE
        OBVIOUS
      <4>2. s[5].j = 0
        BY <1>4, <4>1 DEF inLoops
      <4>3. iterations = 0
        BY <1>3, <4>1 DEF iterations
      <4> QED
        BY <3>1, <4>1, <4>2, <4>3
    <3>3. m <= 4
      <4> HIDE DEF m
      <4> QED
        BY <1>7, <3>1, <3>2
    <3>4. iterations = a[m]
      BY <1>3, <1>7, <3>3 DEF iterations
    <3> QED
      BY <3>1, <3>3, <3>4
  <2> QED
    BY <2>1, <2>2
<1>13. inLoops(a, t)
  BY <1>3, <1>4, <1>10, <1>12, EnterInLoops
<1>14. /\ \A h \in 1 .. m + 1 : t[h].v \in 1 .. n + 1
       /\ \A g, h \in 1 .. m + 1 : g < h => t[g].v < t[h].v
  <2>1. \A h \in 1 .. m : t[h].v \in 1 .. n
    BY <1>4, <1>11
  <2>2. t[m + 1].v = n + 1
    BY <1>10, <1>11
  <2>3. \A g, h \in 1 .. m : g < h => t[g].v < t[h].v
    BY <1>4, <1>11
  <2> HIDE DEF m, n, t
  <2>4. \A h \in 1 .. m + 1 : h \in 1 .. m \/ h = m + 1
    BY <1>7
  <2>5. \A g, h \in 1 .. m + 1 : g < h => g \in 1 .. m
    BY <1>7
  <2>6. \A h \in 1 .. m + 1 : t[h].v \in 1 .. n + 1
    BY <1>7, <2>1, <2>2, <2>4
  <2>7. ASSUME NEW g \in 1 .. m + 1, NEW h \in 1 .. m + 1, g < h
        PROVE  t[g].v < t[h].v
    <3>1. g \in 1 .. m
      BY <2>5, <2>7
    <3>2. CASE h = m + 1
      BY <1>7, <2>1, <2>2, <3>1, <3>2
    <3>3. CASE h \in 1 .. m
      BY <2>3, <2>7, <3>1, <3>3
    <3> QED
      BY <2>4, <3>2, <3>3
  <2> QED
    BY <2>6, <2>7
<1>15. activeCalls'
  BY <1>1, <1>5, <1>8, <1>9, <1>11, <1>13, <1>14 DEF activeCalls
<1>16. n + 1 + restOf(a, t, V) = nvertices /\ id' + restOf(a, t, U) = Cardinality(PUs(a))
  <2>1. CASE s = << >>
    <3>1. t = << c >> /\ m = 0 /\ n = 0 /\ id = 0
      BY <1>4, <2>1
    <3>2. restOf(a, t, V) = a[1] * V[1] /\ restOf(a, t, U) = a[1] * U[1]
      BY <1>3, <1>10, <3>1, RootRest
    <3>3. id' = 0
      BY <1>1, <1>3, <3>1 DEF atLeaf
    <3> DEFINE A == a[1] * V[1]
               B == a[1] * U[1]
    <3>4. A \in Int /\ B \in Int
      BY <1>3 DEF isArities
    <3> HIDE DEF A, B
    <3> QED
      BY <1>3, <3>1, <3>2, <3>3, <3>4 DEF A, B
  <2>2. CASE s # << >>
    <3> DEFINE RV == restOf(a, s, V)
               RU == restOf(a, s, U)
               TV == restOf(a, t, V)
               TU == restOf(a, t, U)
    <3>1. n + RV = nvertices /\ id + RU = Cardinality(PUs(a))
      BY <1>4, <2>2
    <3>2. m \in 1 .. 4
      <4>1. m # 0
        BY <1>7, <2>2
      <4> HIDE DEF m
      <4> QED
        BY <1>7, <1>12, <4>1
    <3>3. TV = RV - 1 /\ TU = RU - (IF m = 4 THEN 1 ELSE 0)
      BY <1>3, <1>4, <1>10, <3>2, EnterMakes
    <3>4. id' = IF m = 4 THEN id + 1 ELSE id
      BY <1>1, <1>3 DEF atLeaf
    <3>5. RV \in Nat /\ RU \in Nat
      BY <1>3, <1>4, RestNat
    <3> HIDE DEF RV, RU, TV, TU, m, n
    <3>6. n + 1 + TV = nvertices /\ id' + TU = Cardinality(PUs(a))
      BY <1>3, <1>4, <1>7, <3>1, <3>3, <3>4, <3>5
    <3> QED
      BY <3>6 DEF TV, TU
  <2> QED
    BY <2>1, <2>2
<1>17. Len(edges) \in Nat /\ Len(edges) + (m + 1) = n + 1
  <2>1. Len(edges) \in Nat /\ Len(edges) + m = n
    BY <1>4
  <2> HIDE DEF m, n
  <2> QED
    BY <1>7, <2>1
<1>18. madeAndLeft'
  BY <1>1, <1>5, <1>8, <1>9, <1>11, <1>16, <1>17 DEF madeAndLeft
<1>19. \A v \in 1 .. n + 1 : Len(ws[v].linked) <= Len(edges)
  <2>1. \A v \in 1 .. n + 1 : v \in 1 .. n \/ v = n + 1
    BY <1>7
  <2>2. Len(ws[n + 1].linked) = 0
    BY <1>6, <1>8
  <2>3. \A v \in 1 .. n : Len(ws[v].linked) <= Len(edges)
    <3>1. \A v \in 1 .. n : ws[v] = vs[v]
      BY <1>8
    <3> HIDE DEF vs
    <3> QED
      BY <1>4, <3>1
  <2>4. 0 <= Len(edges)
    BY <1>17
  <2> HIDE DEF n, vs
  <2>5. TAKE v \in 1 .. n + 1
  <2>6. CASE v \in 1 .. n
    BY <2>3, <2>6
  <2>7. CASE v = n + 1
    BY <2>2, <2>4, <2>7
  <2> QED
    BY <2>1, <2>6, <2>7
<1>20. id' \in Nat
  BY <1>1, <1>4
<1> QED
  BY <1>1, <1>4, <1>5, <1>8, <1>15, <1>18, <1>19, <1>20 DEF BInv, found

\* What a return does: the caller has one more child, the last of whose links
\* leads back to it.
LEMMA ReturnIs ==
  ASSUME DInv, BInv, Return
  PROVE  LET m == Len(stack)
             n == Len(vertices)
             src == stack[m - 1].v
             dest == stack[m].v
         IN /\ m \in 2 .. 5 /\ m \in 1 .. m /\ m - 1 \in 1 .. m /\ n \in Nat
            /\ src \in 1 .. n /\ dest \in 1 .. n /\ src < dest
            /\ m <= 4 => stack[m].j = arities[m]
            /\ m = 5 => stack[m].j = 0
            /\ edges' \in Seq(Edges) /\ Len(edges') = Len(edges) + 1 /\ Len(edges) \in Nat
            /\ vertices' = connected(vertices, src, dest, Len(edges'))
            /\ inLoops(arities, stack') /\ Len(stack') = m - 1
            /\ \A h \in 1 .. m - 1 :
                 /\ stack'[h].v = stack[h].v
                 /\ stack'[h].j = IF h = m - 1 THEN stack[h].j + 1 ELSE stack[h].j
            /\ restOf(arities, stack', verticesBelow(arities)) =
                 restOf(arities, stack, verticesBelow(arities))
            /\ restOf(arities, stack', pusBelow(arities)) =
                 restOf(arities, stack, pusBelow(arities))
<1> DEFINE a == arities
           s == stack
           vs == vertices
           n == Len(vs)
           m == Len(s)
           src == s[m - 1].v
           dest == s[m].v
           edge == [src |-> src, dest |-> dest, weight |-> 2^(6 - m)]
           es == Append(edges, edge)
           ws == connected(vs, src, dest, Len(es))
           t == [Front(s) EXCEPT ![m - 1].j = @ + 1]
           V == verticesBelow(a)
           U == pusBelow(a)
<1>1. /\ num_nodes \in Nat /\ num_cpus \in Nat /\ num_cores \in Nat /\ num_threads \in Nat
  BY DEF DInv
<1>2. nlevels = 4 /\ isArities(a) /\ isArities(V) /\ isArities(U)
  BY <1>1, VerticesCounted, BelowIs
<1>3. pc = "create" /\ pc' = pc /\ UNCHANGED detectVars /\ n_vertices' = n_vertices
      /\ n_edges' = n_edges /\ id' = id /\ m > 1 /\ loopDone
  BY DEF Return
<1>4. /\ vs \in Seq(Vertices) /\ edges \in Seq(Edges) /\ id \in Nat
      /\ \A v \in 1 .. n : Len(vs[v].linked) <= Len(edges)
      /\ n_vertices = nvertices /\ n_edges = nvertices - 1
      /\ inLoops(a, s) /\ \A h \in 1 .. m : s[h].v \in 1 .. n
      /\ \A g, h \in 1 .. m : g < h => s[g].v < s[h].v
      /\ Len(edges) + m = n
      /\ IF s = << >> THEN vs = << >> /\ id = 0
         ELSE /\ n + restOf(a, s, V) = nvertices
              /\ id + restOf(a, s, U) = Cardinality(PUs(a))
  BY <1>3 DEF BInv, found, activeCalls, madeAndLeft
<1>5. /\ arities' = a /\ nvertices' = nvertices
  BY <1>3, SameTree
<1>6. n \in Nat /\ s \in Seq(Calls) /\ m \in 2 .. 5
  <2>1. s \in Seq(Calls) /\ m <= 5
    BY <1>4 DEF inLoops
  <2>2. m \in Nat
    BY <2>1
  <2>3. m \in 2 .. 5
    <3> HIDE DEF m
    <3> QED
      BY <1>3, <2>1, <2>2
  <2> QED
    BY <1>4, <2>1, <2>3
<1>7. Top = s[m] /\ s # << >>
  <2>1. Top = s[m]
    BY DEF Top, Last
  <2>2. s # << >>
    <3>1. SUFFICES ASSUME s = << >> PROVE FALSE
      OBVIOUS
    <3>2. m = 0
      BY <3>1
    <3> QED
      BY <1>3, <3>2
  <2> QED
    BY <2>1, <2>2
<1>8. /\ edges' = es /\ stack' = t /\ vertices' = ws
  <2> DEFINE l == m - 2
  <2>1. l + 1 = m - 1 /\ nlevels - l = 6 - m
    <3> HIDE DEF m
    <3> QED
      BY <1>2, <1>6
  <2>2. /\ edges' = Append(edges, [src |-> s[l + 1].v, dest |-> Top.v,
                                   weight |-> 2^(nlevels - l)])
        /\ vertices' = connected(vs, s[l + 1].v, Top.v, Len(edges'))
        /\ stack' = [Front(s) EXCEPT ![l + 1].j = @ + 1]
    BY DEF Return
  <2> HIDE DEF l, m
  <2> QED
    BY <1>7, <2>1, <2>2
<1>9. m \in 1 .. m /\ m - 1 \in 1 .. m /\ m - 1 < m
  <2> HIDE DEF m
  <2> QED
    BY <1>6
<1>10. src \in 1 .. n /\ dest \in 1 .. n /\ src < dest
  BY <1>4, <1>9
<1> HIDE DEF src, dest
<1>11. src # dest /\ src \in Nat /\ dest \in Nat
  <2> HIDE DEF n
  <2> QED
    BY <1>6, <1>10
<1>12. edge \in Edges
  <2>1. 6 - m \in 0 .. 4
    <3> HIDE DEF m
    <3> QED
      BY <1>6
  <2>2. 2^(6 - m) \in {2^i : i \in 0 .. 4}
    BY <2>1
  <2> QED
    BY <1>11, <2>2 DEF Edges
<1> HIDE DEF edge
<1>13. es \in Seq(Edges) /\ Len(es) = Len(edges) + 1 /\ Len(edges) \in Nat
  BY <1>4, <1>12
<1>14. m <= 4 => s[m].j = a[m]
  BY <1>2, <1>3, <1>6, <1>7 DEF loopDone, iterations
<1>15. m = 5 => s[m].j = 0
  BY <1>4, <1>9 DEF inLoops
<1>16. /\ inLoops(a, t) /\ Len(t) = m - 1
       /\ \A h \in 1 .. Len(t) :
            /\ t[h].v = s[h].v
            /\ t[h].j = IF h = Len(t) THEN s[h].j + 1 ELSE s[h].j
       /\ restOf(a, t, V) = restOf(a, s, V) /\ restOf(a, t, U) = restOf(a, s, U)
  BY <1>2, <1>4, <1>6, <1>14, ReturnRest
<1> HIDE DEF t, es, ws
<1> QED
  BY <1>6, <1>8, <1>9, <1>10, <1>13, <1>14, <1>15, <1>16 DEF src, dest, ws

LEMMA StepReturn == ASSUME DInv, BInv, Return PROVE BInv'
<1> DEFINE a == arities
           s == stack
           vs == vertices
           n == Len(vs)
           m == Len(s)
           src == s[m - 1].v
           dest == s[m].v
           es == edges'
           ws == vertices'
           t == stack'
           V == verticesBelow(a)
           U == pusBelow(a)
<1>1. pc = "create" /\ pc' = pc /\ UNCHANGED detectVars /\ n_vertices' = n_vertices
      /\ n_edges' = n_edges /\ id' = id
  BY DEF Return
<1>2. /\ vs \in Seq(Vertices) /\ edges \in Seq(Edges) /\ id \in Nat
      /\ \A v \in 1 .. n : Len(vs[v].linked) <= Len(edges)
      /\ n_vertices = nvertices /\ n_edges = nvertices - 1
      /\ \A h \in 1 .. m : s[h].v \in 1 .. n
      /\ \A g, h \in 1 .. m : g < h => s[g].v < s[h].v
      /\ Len(edges) + m = n
      /\ IF s = << >> THEN vs = << >> /\ id = 0
         ELSE /\ n + restOf(a, s, V) = nvertices
              /\ id + restOf(a, s, U) = Cardinality(PUs(a))
  BY <1>1 DEF BInv, found, activeCalls, madeAndLeft
<1>3. arities' = a /\ nvertices' = nvertices
  BY <1>1, SameTree
<1>4. /\ m \in 2 .. 5 /\ n \in Nat
      /\ src \in 1 .. n /\ dest \in 1 .. n /\ src < dest
      /\ es \in Seq(Edges) /\ Len(es) = Len(edges) + 1 /\ Len(edges) \in Nat
      /\ ws = connected(vs, src, dest, Len(es))
      /\ inLoops(a, t) /\ Len(t) = m - 1
      /\ \A h \in 1 .. m - 1 : t[h].v = s[h].v
      /\ restOf(a, t, V) = restOf(a, s, V) /\ restOf(a, t, U) = restOf(a, s, U)
  BY ReturnIs
<1> HIDE DEF src, dest
<1>5. /\ ws \in Seq(Vertices) /\ Len(ws) = n
       /\ \A v \in 1 .. n : Len(ws[v].linked) <= Len(vs[v].linked) + 1
  <2>1. Len(es) \in Nat /\ src # dest
    BY <1>4
  <2> HIDE DEF es, ws
  <2> QED
    BY <1>2, <1>4, <2>1, ConnectedIs, SMTT(30)
<1> HIDE DEF ws, es, t
<1>6. /\ \A h \in 1 .. Len(t) : t[h].v \in 1 .. n
      /\ \A g, h \in 1 .. Len(t) : g < h => t[g].v < t[h].v
  <2>1. \A h \in 1 .. Len(t) : h \in 1 .. m /\ t[h].v = s[h].v
    <3> HIDE DEF m
    <3> QED
      BY <1>4
  <2> QED
    BY <1>2, <2>1
<1>7. activeCalls'
  BY <1>3, <1>4, <1>5, <1>6 DEF activeCalls, t, ws
<1>8. Len(es) + Len(t) = n /\ Len(t) # 0
  <2>1. Len(edges) + m = n
    BY <1>2
  <2> HIDE DEF m, n
  <2> QED
    BY <1>4, <2>1
<1>9. t # << >> /\ s # << >>
  <2>1. ASSUME s = << >> PROVE FALSE
    <3>1. m = 0
      BY <2>1
    <3> HIDE DEF m
    <3> QED
      BY <1>4, <3>1
  <2> QED
    BY <1>8, <2>1
<1>10. /\ n + restOf(a, t, V) = nvertices
       /\ id + restOf(a, t, U) = Cardinality(PUs(a))
  BY <1>2, <1>4, <1>9
<1>11. madeAndLeft'
  BY <1>1, <1>3, <1>5, <1>8, <1>9, <1>10 DEF madeAndLeft, es, ws, t
<1>12. \A v \in 1 .. n : Len(ws[v].linked) <= Len(es)
  <2>1. TAKE v \in 1 .. n
  <2> DEFINE x == Len(ws[v].linked)
             y == Len(vs[v].linked)
             z == Len(edges)
  <2>2. ws[v] \in Vertices /\ vs[v] \in Vertices
    BY <1>2, <1>5
  <2>3. x \in Nat /\ y \in Nat
    BY <2>2 DEF Vertices
  <2>4. x <= y + 1 /\ y <= z
    BY <1>2, <1>5
  <2>5. z \in Nat /\ Len(es) = z + 1
    BY <1>4
  <2> HIDE DEF x, y, z
  <2>6. x <= Len(es)
    BY <2>3, <2>4, <2>5
  <2> QED
    BY <2>6 DEF x
<1> QED
  BY <1>1, <1>2, <1>3, <1>4, <1>5, <1>7, <1>11, <1>12 DEF BInv, found, es, ws

LEMMA StepReturnRoot == ASSUME DInv, BInv, ReturnRoot PROVE BInv'
<1> DEFINE a == arities
           vs == vertices
           n == Len(vs)
           r == stack[1].v
           ws == [vs EXCEPT ![r].type = "ROOT"]
           V == verticesBelow(a)
<1>1. /\ num_nodes \in Nat /\ num_cpus \in Nat /\ num_cores \in Nat /\ num_threads \in Nat
  BY DEF DInv
<1>2. /\ nlevels = 4 /\ isArities(a) /\ isArities(V) /\ nvertices \in Nat \ {0}
  BY <1>1, VerticesCounted, BelowIs
<1>3. /\ pc = "create" /\ pc' = "analysis" /\ Len(stack) = 1 /\ loopDone
      /\ Top = stack[1] /\ vertices' = ws /\ edges' = edges /\ id' = id
      /\ UNCHANGED detectVars /\ n_vertices' = n_vertices /\ n_edges' = n_edges
  BY DEF ReturnRoot, Top, Last
<1>4. /\ vs \in Seq(Vertices) /\ edges \in Seq(Edges) /\ id \in Nat
      /\ \A v \in 1 .. n : Len(vs[v].linked) <= Len(edges)
      /\ n_vertices = nvertices /\ n_edges = nvertices - 1
      /\ inLoops(a, stack) /\ \A h \in 1 .. Len(stack) : stack[h].v \in 1 .. n
      /\ Len(edges) + Len(stack) = n
      /\ stack # << >> => n + restOf(a, stack, V) = nvertices
  BY <1>3 DEF BInv, found, activeCalls, madeAndLeft
<1>5. /\ nvertices' = nvertices
  BY <1>3, SameTree
<1>6. r \in 1 .. n /\ n \in Nat /\ Len(edges) \in Nat
  BY <1>3, <1>4
<1>7. ws \in Seq(Vertices) /\ Len(ws) = n /\ \A v \in 1 .. n : ws[v].linked = vs[v].linked
  <2> DEFINE x == [vs[r] EXCEPT !.type = "ROOT"]
  <2>1. ws = [vs EXCEPT ![r] = x]
    OBVIOUS
  <2>2. x \in Vertices /\ x.linked = vs[r].linked
    <3>1. vs[r] \in Vertices
      BY <1>4, <1>6
    <3>2. \A y \in Vertices : LET z == [y EXCEPT !.type = "ROOT"]
                              IN z \in Vertices /\ z.linked = y.linked
      BY DEF Vertices
    <3> QED
      BY <3>1, <3>2
  <2> HIDE DEF x
  <2> QED
    BY <1>4, <1>6, <2>1, <2>2, SMTT(30)
<1> HIDE DEF ws
<1>8. stack[1].j = a[1]
  BY <1>2, <1>3 DEF iterations, loopDone
<1>9. restOf(a, stack, V) = 0
  BY <1>2, <1>3, <1>4, <1>8, RootDone
<1>10. n = nvertices /\ Len(edges) = nvertices - 1
  <2>1. stack # << >>
    BY <1>3
  <2>2. n + 0 = nvertices /\ Len(edges) + 1 = n
    BY <1>3, <1>4, <1>9, <2>1
  <2> HIDE DEF n
  <2> QED
    BY <1>6, <2>2
<1> QED
  BY <1>3, <1>4, <1>5, <1>7, <1>10 DEF BInv, found

LEMMA NextBInv == ASSUME DInv, BInv, [Next]_vars PROVE BInv'
<1>1. CASE Detect /\ UNCHANGED buildVars
  <2>1. /\ vertices' = vertices /\ edges' = edges /\ n_vertices' = n_vertices
        /\ n_edges' = n_edges /\ stack' = stack /\ id' = id
    BY <1>1 DEF buildVars, graphVars
  <2>2. found /\ found' /\ pc' # "create"
    BY <1>1 DEF Detect, EnterNode, VisitCpu, LeaveNode, Average, found
  <2> QED
    BY <2>1, <2>2 DEF BInv
<1>2. CASE libmapping_graph_init
  BY <1>2, StepGraphInit
<1>3. CASE Enter
  BY <1>3, StepEnter
<1>4. CASE Return
  BY <1>4, StepReturn
<1>5. CASE ReturnRoot
  BY <1>5, StepReturnRoot
<1>6. CASE topology_analysis_ \/ DistancesOfEdges \/ Relax \/ RelaxDone
  <2>1. /\ UNCHANGED detectVars /\ UNCHANGED graphVars /\ id' = id
        /\ ~found /\ pc # "create" /\ ~found' /\ pc' # "create"
    <3>1. CASE topology_analysis_
      BY <3>1 DEF topology_analysis_, found
    <3>2. CASE DistancesOfEdges
      BY <3>2 DEF DistancesOfEdges, found
    <3>3. CASE Relax
      BY <3>3 DEF Relax, found
    <3>4. CASE RelaxDone
      BY <3>4 DEF RelaxDone, found
    <3> QED
      BY <1>6, <3>1, <3>2, <3>3, <3>4
  <2> QED
    BY <2>1, GraphStill
<1>7. CASE Ready \/ UNCHANGED vars
  <2>1. UNCHANGED vars
    BY <1>7 DEF Ready
  <2>2. /\ vertices' = vertices /\ edges' = edges /\ n_vertices' = n_vertices
        /\ n_edges' = n_edges /\ stack' = stack /\ id' = id /\ pc' = pc
        /\ UNCHANGED detectVars
    BY <2>1 DEF vars, buildVars, graphVars
  <2>3. arities' = arities /\ nvertices' = nvertices
    BY <2>2, SameTree
  <2> QED
    BY <2>2, <2>3 DEF BInv, found, activeCalls, madeAndLeft
<1> QED
  BY <1>1, <1>2, <1>3, <1>4, <1>5, <1>6, <1>7 DEF Next

LEMMA BuildInvariant == Spec => []BInv
<1>1. Init => BInv
  BY InitBInv
<1>2. DInv /\ BInv /\ [Next]_vars => BInv'
  BY NextBInv
<1>3. Spec => []DInv
  BY DetectInvariant
<1> QED
  BY <1>1, <1>2, <1>3, PTL DEF Spec

\* libmapping_get_n_pus_fake_topology sizes the graph for exactly what
\* create_fake_topology (topology.c:146-187) puts into it, on any machine:
\* however far the recursion has come, neither the vertices nor the edges nor
\* the links of a vertex are more than there is room for, and when it is over
\* none is missing.
THEOREM GraphExact == Spec => []GraphExactlyUsed
<1>1. ASSUME DInv, BInv PROVE GraphExactlyUsed
  <2>1. /\ num_nodes \in Nat /\ num_cpus \in Nat /\ num_cores \in Nat /\ num_threads \in Nat
    BY <1>1 DEF DInv
  <2>2. nvertices \in Nat \ {0} /\ isArities(arities)
    BY <2>1, VerticesCounted
  <2>3. /\ vertices \in Seq(Vertices) /\ edges \in Seq(Edges)
        /\ \A v \in 1 .. Len(vertices) : Len(vertices[v].linked) <= Len(edges)
    BY <1>1 DEF BInv
  <2>4. \A v \in 1 .. Len(vertices) : Len(vertices[v].linked) \in Nat
    BY <2>3 DEF Vertices
  <2> DEFINE n == Len(vertices)
             m == Len(edges)
  <2>5. n \in Nat /\ m \in Nat /\ DOMAIN vertices = 1 .. n
    BY <2>3
  <2>6. n <= n_vertices /\ m <= n_edges /\ m <= n_vertices
    <3>1. CASE found
      <4>1. n = 0 /\ m = 0 /\ n_vertices = 0 /\ n_edges = 0
        BY <1>1, <3>1 DEF BInv
      <4> QED
        BY <4>1
    <3>2. CASE pc = "create"
      <4>1. n_vertices = nvertices /\ n_edges = nvertices - 1 /\ activeCalls /\ madeAndLeft
        BY <1>1, <3>2 DEF BInv, found
      <4> DEFINE R == restOf(arities, stack, verticesBelow(arities))
                 l == Len(stack)
      <4>2. m + l = n /\ l \in Nat /\ R \in Nat
        <5>1. inLoops(arities, stack)
          BY <4>1 DEF activeCalls
        <5>2. R \in Nat
          BY <2>2, <5>1, BelowIs, RestNat
        <5>3. stack \in Seq(Calls)
          BY <5>1 DEF inLoops
        <5> QED
          BY <4>1, <5>2, <5>3 DEF madeAndLeft
      <4>3. CASE stack = << >>
        <5>1. n = 0
          BY <4>1, <4>3 DEF madeAndLeft
        <5> HIDE DEF n, m, l
        <5> QED
          BY <2>2, <2>5, <4>1, <4>2, <5>1
      <4>4. CASE stack # << >>
        <5>1. n + R = nvertices
          BY <4>1, <4>4 DEF madeAndLeft
        <5>2. l # 0
          <6>1. stack \in Seq(Calls)
            BY <4>1 DEF activeCalls, inLoops
          <6> QED
            BY <4>4, <6>1
        <5> HIDE DEF n, m, l, R
        <5> QED
          BY <2>2, <2>5, <4>1, <4>2, <5>1, <5>2
      <4> QED
        BY <4>3, <4>4
    <3>3. CASE ~found /\ pc # "create"
      <4>1. n = n_vertices /\ m = n_edges /\ n_vertices = nvertices /\ n_edges = nvertices - 1
        BY <1>1, <3>3 DEF BInv
      <4> HIDE DEF n, m
      <4> QED
        BY <2>2, <2>5, <4>1
    <3> QED
      BY <3>1, <3>2, <3>3
  <2>7. pc \notin {"node", "cpu", "done", "create"} => n = n_vertices /\ m = n_edges
    BY <1>1 DEF BInv, found
  <2>8. \A v \in DOMAIN vertices : Len(vertices[v].linked) <= n_vertices
    <3>1. TAKE v \in DOMAIN vertices
    <3> DEFINE x == Len(vertices[v].linked)
    <3>2. x \in Nat /\ x <= m
      BY <2>3, <2>4, <2>5
    <3>3. n_vertices \in Int
      BY <1>1, <2>2 DEF BInv
    <3> HIDE DEF x, m
    <3>4. x <= n_vertices
      BY <2>5, <2>6, <3>2, <3>3
    <3> QED
      BY <3>4 DEF x
  <2> QED
    BY <2>6, <2>7, <2>8 DEF GraphExactlyUsed
<1>2. Spec => [](DInv /\ BInv)
  BY DetectInvariant, BuildInvariant, PTL
<1> QED
  BY <1>1, <1>2, PTL

\* Whenever the recursion is about to make a leaf, the machine has a processor
\* that no leaf got yet: the static counter of create_fake_topology
\* (topology.c:170) never leads past the end of pu.
THEOREM LeavesFound ==
  Spec => [](pc = "create" /\ ~loopDone /\ atLeaf => id + 1 \in DOMAIN pu)
<1>1. ASSUME DInv, BInv, pc = "create", ~loopDone, atLeaf PROVE id + 1 \in DOMAIN pu
  <2>1. id + 1 \in 1 .. Len(pu)
    BY <1>1, LeafHasPu
  <2>2. pu \in Seq(CPUs)
    BY <1>1 DEF DInv
  <2> QED
    BY <2>1, <2>2
<1>2. Spec => [](DInv /\ BInv)
  BY DetectInvariant, BuildInvariant, PTL
<1> QED
  BY <1>1, <1>2, PTL

-----------------------------------------------------------------------------
(* Children before the parent. *)

\* A vertex whose call has ended j iterations has j children so far.
growing(v, x, j) ==
  Len(x.linked) = j /\ \A n \in 1 .. Len(x.linked) : x.linked[n].v > v

\* No level is empty.
full == \A l \in 1 .. 4 : arities[l] # 0

\* One whose call has returned has its parent last; f is full.
hanging(v, x, f) ==
  /\ v # Root /\ Len(x.linked) # 0
  /\ \A n \in 1 .. Len(x.linked) : x.linked[n].v < v <=> n = Len(x.linked)
  /\ x.type = "PU" => Len(x.linked) = 1
  /\ f /\ Len(x.linked) = 1 => x.type = "PU"

active(v, s) == \E h \in 1 .. Len(s) : s[h].v = v

growingCalls ==
  /\ stack # << >> => stack[1].v = Root
  /\ \A h \in 1 .. Len(stack) :
       /\ growing(stack[h].v, vertices[stack[h].v], stack[h].j)
       /\ vertices[stack[h].v].type = "PU" <=> h = 5
  /\ \A v \in 1 .. Len(vertices) : ~active(v, stack) => hanging(v, vertices[v], full)

KInv ==
  /\ pc = "create" => growingCalls
  /\ ChildrenFirst

LEMMA EnterGrowing == ASSUME DInv, BInv, KInv, Enter PROVE growingCalls'
<1> DEFINE s == stack
           vs == vertices
           x == newVertex
           n == Len(vs)
           m == Len(s)
           ws == vertices'
           t == stack'
<1>1. /\ num_nodes \in Nat /\ num_cpus \in Nat /\ num_cores \in Nat /\ num_threads \in Nat
  BY DEF DInv
<1>2. nlevels = 4
  BY <1>1, VerticesCounted
<1>3. /\ pc = "create" /\ ws = Append(vs, x)
      /\ t = Append(s, [v |-> Len(ws), j |-> 0])
  BY DEF Enter
<1>4. /\ vs \in Seq(Vertices) /\ s \in Seq(Calls)
      /\ \A h \in 1 .. m : s[h].v \in 1 .. n
      /\ Len(edges) + m = n /\ growingCalls
      /\ s = << >> => n = 0
  <2>1. vs \in Seq(Vertices) /\ activeCalls /\ madeAndLeft
    BY <1>3 DEF BInv
  <2> QED
    BY <1>3, <2>1 DEF KInv, activeCalls, inLoops, madeAndLeft
<1>5. n \in Nat /\ m \in Nat
  BY <1>4
<1>6. x.linked = << >> /\ (x.type = "PU" <=> m = 4)
  BY <1>2 DEF newVertex, atLeaf
<1> HIDE DEF x
<1>7. ws \in Seq(Vertices \cup {x}) /\ Len(ws) = n + 1 /\ ws[n + 1] = x
      /\ \A v \in 1 .. n : ws[v] = vs[v]
  <2>1. vs \in Seq(Vertices \cup {x})
    BY <1>4
  <2> QED
    BY <1>3, <2>1
<1> DEFINE c == [v |-> n + 1, j |-> 0]
<1>8. /\ Len(t) = m + 1 /\ t[m + 1] = c /\ t # << >>
      /\ \A h \in 1 .. m : t[h] = s[h]
  <2>1. t = Append(s, c) /\ c \in Calls
    BY <1>3, <1>5, <1>7 DEF Calls
  <2> HIDE DEF c, t
  <2> QED
    BY <1>4, <2>1
<1>9. c.v = n + 1 /\ c.j = 0
  OBVIOUS
<1> HIDE DEF ws, t, c
<1>10. /\ s # << >> => s[1].v = Root
       /\ \A h \in 1 .. m : /\ growing(s[h].v, vs[s[h].v], s[h].j)
                            /\ vs[s[h].v].type = "PU" <=> h = 5
       /\ \A v \in 1 .. n : ~active(v, s) => hanging(v, vs[v], full)
  BY <1>4 DEF growingCalls
<1>11. m = 0 <=> s = << >>
  BY <1>4
<1> HIDE DEF m, n, s, vs
<1>12. t[1].v = Root
  <2>1. CASE m = 0
    <3>1. n = 0 /\ t[1] = c
      BY <1>4, <1>8, <1>11, <2>1
    <3> QED
      BY <1>9, <3>1 DEF Root
  <2>2. CASE m # 0
    BY <1>5, <1>8, <1>10, <1>11, <2>2
  <2> QED
    BY <2>1, <2>2
<1>13. ASSUME NEW h \in 1 .. m + 1
       PROVE  /\ growing(t[h].v, ws[t[h].v], t[h].j)
              /\ ws[t[h].v].type = "PU" <=> h = 5
  <2>1. CASE h \in 1 .. m
    <3>1. t[h] = s[h] /\ s[h].v \in 1 .. n
      BY <1>4, <1>8, <2>1
    <3>2. ws[t[h].v] = vs[s[h].v]
      BY <1>7, <3>1
    <3> QED
      BY <1>10, <2>1, <3>1, <3>2
  <2>2. CASE h = m + 1
    <3>1. t[h].v = n + 1 /\ t[h].j = 0 /\ ws[t[h].v] = x
      BY <1>7, <1>8, <1>9, <2>2
    <3>2. Len(x.linked) = 0 /\ 1 .. 0 = {}
      BY <1>6
    <3>3. growing(n + 1, x, 0)
      BY <3>2 DEF growing
    <3>4. h = 5 <=> m = 4
      BY <1>5, <2>2
    <3> QED
      BY <1>6, <3>1, <3>3, <3>4
  <2>3. h \in 1 .. m \/ h = m + 1
    BY <1>5
  <2> QED
    BY <2>1, <2>2, <2>3
<1>14. ASSUME NEW v \in 1 .. n + 1, ~active(v, t) PROVE hanging(v, ws[v], full)
  <2>1. v # n + 1
    <3>1. m + 1 \in 1 .. Len(t) /\ t[m + 1].v = n + 1
      BY <1>5, <1>8, <1>9
    <3> QED
      BY <1>14, <3>1 DEF active
  <2>2. v \in 1 .. n
    BY <1>5, <2>1
  <2>3. ~active(v, s)
    <3>1. \A h \in 1 .. m : h \in 1 .. Len(t) /\ t[h] = s[h]
      BY <1>5, <1>8
    <3> QED
      BY <1>14, <3>1 DEF active, m
  <2> QED
    BY <1>7, <1>10, <2>2, <2>3
<1>15. full' = full
  BY SameTree DEF Enter, full
<1> HIDE DEF full
<1> QED
  BY <1>7, <1>8, <1>12, <1>13, <1>14, <1>15 DEF growingCalls, t, ws

LEMMA ReturnGrowing == ASSUME DInv, BInv, KInv, Return PROVE growingCalls'
<1> DEFINE s == stack
           vs == vertices
           n == Len(vs)
           m == Len(s)
           src == s[m - 1].v
           dest == s[m].v
           e == Len(edges')
           ws == vertices'
           t == stack'
           x == vs[src]
           y == vs[dest]
<1>1. pc = "create"
  BY DEF Return
<1>2. /\ m \in 2 .. 5 /\ m \in 1 .. m /\ m - 1 \in 1 .. m /\ n \in Nat
      /\ src \in 1 .. n /\ dest \in 1 .. n /\ src < dest
      /\ m <= 4 => s[m].j = arities[m]
      /\ m = 5 => s[m].j = 0
      /\ e = Len(edges) + 1 /\ Len(edges) \in Nat
      /\ ws = connected(vs, src, dest, e)
      /\ Len(t) = m - 1
      /\ \A h \in 1 .. m - 1 :
           /\ t[h].v = s[h].v
           /\ t[h].j = IF h = m - 1 THEN s[h].j + 1 ELSE s[h].j
  BY ReturnIs
<1>3. /\ vs \in Seq(Vertices)
      /\ \A h \in 1 .. m : s[h].v \in 1 .. n
      /\ \A g, h \in 1 .. m : g < h => s[g].v < s[h].v
      /\ growingCalls
  BY <1>1 DEF BInv, KInv, activeCalls, found
<1>4. /\ s # << >> => s[1].v = Root
      /\ \A h \in 1 .. m : /\ growing(s[h].v, vs[s[h].v], s[h].j)
                           /\ vs[s[h].v].type = "PU" <=> h = 5
      /\ \A v \in 1 .. n : ~active(v, s) => hanging(v, vs[v], full)
  BY <1>3 DEF growingCalls
<1>5. s # << >>
  <2>1. SUFFICES ASSUME s = << >> PROVE FALSE
    OBVIOUS
  <2>2. m = 0
    BY <2>1
  <2> HIDE DEF m
  <2> QED
    BY <1>2, <2>2
<1>6. x \in Vertices /\ y \in Vertices
  BY <1>2, <1>3, SMTT(30)
<1>7. /\ growing(src, x, s[m - 1].j) /\ (x.type = "PU" <=> m - 1 = 5)
      /\ growing(dest, y, s[m].j) /\ (y.type = "PU" <=> m = 5)
  BY <1>2, <1>4
<1>8. \A h \in 1 .. m : h < m - 1 => s[h].v # src /\ s[h].v # dest
  <2>1. TAKE h \in 1 .. m
  <2>2. HAVE h < m - 1
  <2>3. s[h].v < src /\ s[h].v \in 1 .. n
    BY <1>2, <1>3, <2>2
  <2> HIDE DEF src, dest, n
  <2>4. \A a \in Nat : a < src => a # src /\ a # dest
    BY <1>2
  <2>5. s[h].v \in Nat
    BY <1>2, <2>3
  <2> QED
    BY <2>3, <2>4, <2>5
<1> HIDE DEF src, dest, x, y
<1>9. src \in Nat /\ dest \in Nat /\ src # dest /\ e \in Nat
  <2> HIDE DEF n, e
  <2> QED
    BY <1>2
<1>10. /\ Len(ws) = n
       /\ \A v \in 1 .. n :
            ws[v] = IF v = dest THEN linkedTo(vs[v], src, e)
                    ELSE IF v = src THEN linkedTo(vs[v], dest, e) ELSE vs[v]
  <2> HIDE DEF e, ws
  <2> QED
    BY <1>2, <1>3, <1>9, ConnectedIs
<1> DEFINE X == linkedTo(x, dest, e)
           Y == linkedTo(y, src, e)
<1>11. ws[src] = X /\ ws[dest] = Y /\ \A v \in 1 .. n : v # src /\ v # dest => ws[v] = vs[v]
  BY <1>2, <1>9, <1>10 DEF x, y
<1>12. /\ Len(X.linked) = Len(x.linked) + 1 /\ X.linked[Len(x.linked) + 1].v = dest
       /\ \A i \in 1 .. Len(x.linked) : X.linked[i] = x.linked[i]
       /\ X.type = x.type /\ Len(x.linked) \in Nat
  <2>1. oneMore(x, dest, X)
    <3> HIDE DEF e
    <3> QED
      BY <1>6, <1>9, LinkedTo
  <2> HIDE DEF X
  <2> QED
    BY <2>1 DEF oneMore
<1>13. /\ Len(Y.linked) = Len(y.linked) + 1 /\ Y.linked[Len(y.linked) + 1].v = src
       /\ \A i \in 1 .. Len(y.linked) : Y.linked[i] = y.linked[i]
       /\ Y.type = y.type /\ Len(y.linked) \in Nat
       /\ \A i \in 1 .. Len(y.linked) : y.linked[i].v \in Nat
  <2>1. oneMore(y, src, Y)
    <3> HIDE DEF e
    <3> QED
      BY <1>6, <1>9, LinkedTo
  <2> HIDE DEF Y
  <2> QED
    BY <2>1 DEF oneMore
<1> HIDE DEF X, Y, ws, t, e
\* The caller has one child more.
<1>14. growing(src, X, s[m - 1].j + 1)
  <2> DEFINE len == Len(x.linked)
             q == s[m - 1].j
  <2>1. len = q /\ \A i \in 1 .. len : x.linked[i].v > src
    BY <1>7 DEF growing
  <2>2. ASSUME NEW i \in 1 .. len + 1 PROVE X.linked[i].v > src
    <3>1. i \in 1 .. len \/ i = len + 1
      BY <1>12
    <3>2. CASE i \in 1 .. len
      BY <1>12, <2>1, <3>2
    <3>3. CASE i = len + 1
      BY <1>2, <1>9, <1>12, <3>3
    <3> QED
      BY <3>1, <3>2, <3>3
  <2>3. Len(X.linked) = len + 1
    BY <1>12
  <2> HIDE DEF len, q
  <2> QED
    BY <2>1, <2>2, <2>3 DEF growing, q
\* The vertex that was made hangs on it.
<1>15. hanging(dest, Y, full)
  <2> DEFINE len == Len(y.linked)
  <2>1. len = s[m].j /\ \A i \in 1 .. len : y.linked[i].v > dest
    BY <1>7 DEF growing
  <2>2. dest # Root
    <3>1. Root < dest
      BY <1>2, <1>9 DEF Root
    <3> QED
      BY <1>9, <3>1 DEF Root
  <2>3. len \in Nat /\ Len(Y.linked) = len + 1
    BY <1>13
  <2>4. ASSUME NEW i \in 1 .. len + 1 PROVE Y.linked[i].v < dest <=> i = len + 1
    <3>1. i \in 1 .. len \/ i = len + 1
      BY <2>3
    <3>2. CASE i \in 1 .. len
      <4> DEFINE z == Y.linked[i].v
      <4>1. z \in Nat /\ z > dest /\ i # len + 1
        <5>1. Y.linked[i] = y.linked[i] /\ y.linked[i].v \in Nat /\ y.linked[i].v > dest
          BY <1>13, <2>1, <3>2
        <5>2. i # len + 1
          <6> HIDE DEF len
          <6> QED
            BY <2>3, <3>2
        <5> QED
          BY <5>1, <5>2
      <4> HIDE DEF z
      <4>2. ~(z < dest)
        BY <1>9, <4>1
      <4> QED
        BY <4>1, <4>2 DEF z
    <3>3. CASE i = len + 1
      BY <1>2, <1>13, <3>3
    <3> QED
      BY <3>1, <3>2, <3>3
  <2>5. /\ m = 5 => len = 0
        /\ full /\ len = 0 => m = 5
    <3>1. CASE m = 5
      BY <1>2, <2>1, <3>1
    <3>2. CASE m # 5 /\ full
      <4>1. m \in 1 .. 4
        <5> HIDE DEF m
        <5> QED
          BY <1>2, <3>2
      <4>2. len = arities[m] /\ arities[m] # 0
        <5>1. m <= 4
          <6> HIDE DEF m
          <6> QED
            BY <4>1
        <5>2. arities[m] # 0
          <6> HIDE DEF m
          <6> QED
            BY <3>2, <4>1 DEF full
        <5>3. s[m].j = arities[m]
          BY <1>2, <5>1
        <5> QED
          BY <2>1, <5>2, <5>3
      <4> HIDE DEF len
      <4> QED
        BY <2>3, <3>2, <4>2
    <3> QED
      BY <3>1, <3>2
  <2> HIDE DEF len
  <2>6. /\ m = 5 => len + 1 = 1
        /\ full /\ len + 1 = 1 => m = 5
    BY <2>3, <2>5
  <2>7. len + 1 # 0
    BY <2>3
  <2> QED
    BY <1>7, <1>13, <2>2, <2>3, <2>4, <2>6, <2>7 DEF hanging
<1>16. t[1].v = Root
  <2>1. 1 \in 1 .. m - 1
    <3> HIDE DEF m
    <3> QED
      BY <1>2
  <2> QED
    BY <1>2, <1>4, <1>5, <2>1
<1>17. ASSUME NEW h \in 1 .. m - 1
       PROVE  /\ growing(t[h].v, ws[t[h].v], t[h].j)
              /\ ws[t[h].v].type = "PU" <=> h = 5
  <2>1. h \in 1 .. m /\ h <= m - 1
    <3> HIDE DEF m
    <3> QED
      BY <1>2
  <2>2. t[h].v = s[h].v /\ t[h].j = IF h = m - 1 THEN s[h].j + 1 ELSE s[h].j
    BY <1>2
  <2>3. CASE h = m - 1
    <3>1. t[h].v = src /\ t[h].j = s[m - 1].j + 1 /\ ws[t[h].v] = X
      BY <1>11, <2>2, <2>3 DEF src
    <3> QED
      BY <1>7, <1>12, <1>14, <2>3, <3>1
  <2>4. CASE h # m - 1
    <3>1. h < m - 1
      <4> HIDE DEF m
      <4> QED
        BY <1>2, <2>1, <2>4
    <3>2. s[h].v # src /\ s[h].v # dest /\ s[h].v \in 1 .. n
      BY <1>3, <1>8, <2>1, <3>1
    <3>3. ws[t[h].v] = vs[s[h].v] /\ t[h].j = s[h].j
      BY <1>11, <2>2, <2>4, <3>2
    <3> QED
      BY <1>4, <2>1, <2>2, <3>3
  <2> QED
    BY <2>3, <2>4
<1>18. ASSUME NEW v \in 1 .. n, ~active(v, t) PROVE hanging(v, ws[v], full)
  <2>1. CASE v = dest
    BY <1>11, <1>15, <2>1
  <2>2. CASE v # dest
    <3>1. ~active(v, s)
      <4>1. SUFFICES ASSUME NEW h \in 1 .. m, s[h].v = v PROVE FALSE
        BY DEF active
      <4>2. h # m
        BY <2>2, <4>1 DEF dest
      <4>3. h \in 1 .. m - 1
        <5> HIDE DEF m
        <5> QED
          BY <1>2, <4>2
      <4>4. t[h].v = v /\ h \in 1 .. Len(t)
        BY <1>2, <4>1, <4>3
      <4> QED
        BY <1>18, <4>4 DEF active
    <3>2. v # src
      <4>1. m - 1 \in 1 .. Len(t) /\ t[m - 1].v = src
        <5>1. m - 1 \in 1 .. m - 1
          <6> HIDE DEF m
          <6> QED
            BY <1>2
        <5> QED
          BY <1>2, <5>1 DEF src
      <4> QED
        BY <1>18, <4>1 DEF active
    <3> QED
      BY <1>4, <1>11, <2>2, <3>1, <3>2
  <2> QED
    BY <2>1, <2>2
<1>19. full' = full
  BY SameTree DEF Return, full
<1> HIDE DEF full
<1> QED
  BY <1>2, <1>10, <1>16, <1>17, <1>18, <1>19 DEF growingCalls, t, ws

LEMMA RootChildrenFirst == ASSUME DInv, BInv, KInv, ReturnRoot PROVE ChildrenFirst'
<1> DEFINE vs == vertices
           n == Len(vs)
           ws == vertices'
           x == [vs[1] EXCEPT !.type = "ROOT"]
<1>1. /\ num_nodes \in Nat /\ num_cpus \in Nat /\ num_cores \in Nat /\ num_threads \in Nat
  BY DEF DInv
<1>2. nlevels = 4
  BY <1>1, VerticesCounted
<1>3. /\ pc = "create" /\ Len(stack) = 1 /\ loopDone /\ Top = stack[1]
      /\ ws = [vs EXCEPT ![Top.v].type = "ROOT"]
  BY DEF ReturnRoot, Top, Last
<1>4. /\ vs \in Seq(Vertices) /\ activeCalls /\ growingCalls
      /\ 1 \in 1 .. 1
  BY <1>3 DEF BInv, KInv, found
<1>5. stack # << >>
  BY <1>3
<1>6. stack[1].v = 1 /\ 1 \in 1 .. n /\ growing(1, vs[1], stack[1].j)
  <2>1. stack[1].v = 1
    BY <1>4, <1>5 DEF growingCalls, Root
  <2>2. stack[1].v \in 1 .. n
    BY <1>3, <1>4 DEF activeCalls
  <2>3. growing(stack[1].v, vs[stack[1].v], stack[1].j)
    BY <1>3, <1>4 DEF growingCalls
  <2> QED
    BY <2>1, <2>2, <2>3
<1>7. stack[1].j = arities[1]
  BY <1>2, <1>3 DEF loopDone, iterations
<1>8. /\ DOMAIN ws = 1 .. n /\ ws[1] = x
      /\ \A v \in 1 .. n : v # 1 => ws[v] = vs[v] /\ hanging(v, vs[v], full)
  <2>1. \A v \in 1 .. n : v # 1 => ~active(v, stack)
    BY <1>3, <1>6 DEF active
  <2>2. \A v \in 1 .. n : v # 1 => hanging(v, vs[v], full)
    BY <1>4, <2>1 DEF growingCalls
  <2>3. DOMAIN ws = 1 .. n /\ ws[1] = x /\ \A v \in 1 .. n : v # 1 => ws[v] = vs[v]
    BY <1>3, <1>4, <1>6
  <2> QED
    BY <2>2, <2>3
<1>9. x.type = "ROOT" /\ x.linked = vs[1].linked /\ vs[1] \in Vertices
  <2>1. vs[1] \in Vertices
    BY <1>4, <1>6
  <2>2. \A y \in Vertices : LET z == [y EXCEPT !.type = "ROOT"]
                            IN z.type = "ROOT" /\ z.linked = y.linked
    BY DEF Vertices
  <2> QED
    BY <2>1, <2>2
<1> DEFINE up(v) == {i \in DOMAIN ws[v].linked : ws[v].linked[i].v < v}
<1>10. ASSUME NEW v \in 1 .. n
       PROVE  /\ up(v) = IF v = Root THEN {} ELSE {Len(ws[v].linked)}
              /\ ws[v].type = "PU" => DOMAIN ws[v].linked = up(v)
              /\ full /\ DOMAIN ws[v].linked = up(v) => ws[v].type = "PU"
  <2> DEFINE l == ws[v].linked
             len == Len(l)
             L == [v : Nat, e : Nat]
  <2>1. l \in Seq(L)
    <3>1. vs[v] \in Vertices
      BY <1>4
    <3>2. l = vs[v].linked
      BY <1>8, <1>9
    <3> QED
      BY <3>1, <3>2 DEF Vertices
  <2>2. len \in Nat /\ DOMAIN l = 1 .. len /\ \A i \in 1 .. len : l[i].v \in Nat
    <3>1. \A i \in L : i.v \in Nat
      OBVIOUS
    <3> HIDE DEF l, L
    <3>2. \A i \in 1 .. len : l[i] \in L
      BY <2>1
    <3> QED
      BY <2>1, <3>1, <3>2
  <2>3. CASE v = 1
    <3>1. l = vs[1].linked /\ ws[v].type = "ROOT"
      BY <1>8, <1>9, <2>3
    <3>2. len = arities[1] /\ \A i \in 1 .. len : l[i].v > 1
      BY <1>6, <1>7, <3>1 DEF growing
    <3> HIDE DEF l, len
    <3>3. \A i \in DOMAIN l : ~(l[i].v < 1)
      BY <2>2, <3>2
    <3>4. full => 1 \in DOMAIN l
      BY <1>4, <2>2, <3>2 DEF full
    <3> QED
      BY <2>3, <3>1, <3>3, <3>4 DEF l, Root
  <2>4. CASE v # 1
    <3>1. hanging(v, ws[v], full)
      BY <1>8, <2>4
    <3>2. /\ len # 0 /\ \A i \in 1 .. len : l[i].v < v <=> i = len
          /\ ws[v].type = "PU" => len = 1
          /\ full /\ len = 1 => ws[v].type = "PU"
      BY <3>1 DEF hanging
    <3>3. up(v) = {i \in 1 .. len : l[i].v < v}
      BY <2>2
    <3> HIDE DEF l, len
    <3>4. len \in 1 .. len
      BY <2>2, <3>2
    <3>5. up(v) = {len}
      BY <3>2, <3>3, <3>4
    <3>6. DOMAIN l = {len} <=> len = 1
      BY <2>2, <3>2
    <3> QED
      BY <2>4, <3>2, <3>5, <3>6 DEF l, len, Root
  <2> QED
    BY <2>3, <2>4
<1>11. nlevels' = 4 /\ arities' = arities
  BY <1>2, SameTree DEF ReturnRoot
<1> HIDE DEF ws, x
<1> QED
  BY <1>8, <1>10, <1>11 DEF ChildrenFirst, isPUVertex, full, ws

LEMMA NextKInv == ASSUME DInv, BInv, KInv, [Next]_vars PROVE KInv'
<1>1. CASE Detect /\ UNCHANGED buildVars
  <2>1. found' /\ pc' # "create"
    BY <1>1 DEF Detect, EnterNode, VisitCpu, LeaveNode, Average, found
  <2> QED
    BY <2>1 DEF KInv, ChildrenFirst, found
<1>2. CASE libmapping_graph_init
  <2>1. /\ pc' = "create" /\ stack' = stack /\ vertices' = << >> /\ UNCHANGED detectVars
        /\ pc = "done"
    BY <1>2 DEF libmapping_graph_init
  <2>2. stack' = << >>
    BY <2>1 DEF BInv, found
  <2>3. Len(stack') = 0 /\ Len(vertices') = 0 /\ 1 .. 0 = {}
    BY <2>1, <2>2
  <2>4. growingCalls'
    BY <2>2, <2>3 DEF growingCalls
  <2> QED
    BY <2>1, <2>4 DEF KInv, ChildrenFirst, found
<1>4. CASE Enter
  <2>1. pc = "create" /\ pc' = "create" /\ UNCHANGED detectVars
    BY <1>4 DEF Enter
  <2> QED
    BY <1>4, <2>1, EnterGrowing DEF KInv, ChildrenFirst, found
<1>5. CASE Return
  <2>1. pc = "create" /\ pc' = "create" /\ UNCHANGED detectVars
    BY <1>5 DEF Return
  <2> QED
    BY <1>5, <2>1, ReturnGrowing DEF KInv, ChildrenFirst, found
<1>6. CASE ReturnRoot
  <2>1. pc = "create" /\ pc' = "analysis" /\ UNCHANGED detectVars
    BY <1>6 DEF ReturnRoot
  <2> QED
    BY <1>6, <2>1, RootChildrenFirst DEF KInv, found
<1>7. CASE \/ topology_analysis_ \/ DistancesOfEdges \/ Relax \/ RelaxDone
           \/ Ready \/ UNCHANGED vars
  <2>1. /\ UNCHANGED detectVars /\ vertices' = vertices
        /\ \/ pc' = pc /\ stack' = stack
           \/ ~found /\ pc # "create" /\ ~found' /\ pc' # "create"
    <3>1. CASE topology_analysis_
      BY <3>1 DEF topology_analysis_, found, graphVars
    <3>2. CASE DistancesOfEdges
      BY <3>2 DEF DistancesOfEdges, found, graphVars
    <3>3. CASE Relax
      BY <3>3 DEF Relax, found, graphVars
    <3>4. CASE RelaxDone
      BY <3>4 DEF RelaxDone, found, graphVars
    <3>5. CASE Ready \/ UNCHANGED vars
      BY <3>5 DEF Ready, vars, buildVars, graphVars
    <3> QED
      BY <1>7, <3>1, <3>2, <3>3, <3>4, <3>5
  <2>2. arities' = arities /\ nlevels' = nlevels
    BY <2>1, SameTree DEF nlevels
  <2>3. CASE pc' = pc /\ stack' = stack
    BY <2>1, <2>2, <2>3 DEF KInv, growingCalls, full, ChildrenFirst, isPUVertex, found
  <2>4. CASE ~found /\ pc # "create" /\ ~found' /\ pc' # "create"
    BY <2>1, <2>2, <2>4 DEF KInv, ChildrenFirst, isPUVertex, found
  <2> QED
    BY <2>1, <2>3, <2>4
<1> QED
  BY <1>1, <1>2, <1>4, <1>5, <1>6, <1>7 DEF Next

LEMMA TreeInvariant == Spec => []KInv
<1>1. Init => KInv
  <2>1. ASSUME Init PROVE KInv
    <3>1. pc = "node"
      BY <2>1 DEF Init, DetectInit
    <3> QED
      BY <3>1 DEF KInv, ChildrenFirst, found
  <2> QED
    BY <2>1
<1>2. DInv /\ BInv /\ KInv /\ [Next]_vars => KInv'
  BY NextKInv
<1>3. Spec => [](DInv /\ BInv)
  BY DetectInvariant, BuildInvariant, PTL
<1> QED
  BY <1>1, <1>2, <1>3, PTL DEF Spec

\* The recursion (topology.c:146-187) connects a vertex to its parent after all
\* of its children are connected to it, whatever the machine: the last link of
\* every vertex but the root, and no other, leads to an earlier vertex.  PUs have
\* no children, and if no level is empty, all other vertices have.
THEOREM ParentLast == Spec => []ChildrenFirst
<1>1. KInv => ChildrenFirst
  BY DEF KInv
<1> QED
  BY <1>1, TreeInvariant, PTL

\* What the builder has of a machine, any that the mapper thread is started on:
\* no processor is listed twice, every PU of the tree has one, and of the four
\* levels (map.c:10) only that of the processors in a node can be empty: if it is
\* not, the machine is one that GreedyMap.tla assumes.  If it is, the analysis
\* divides by zero (topology.c:505), which the theorem does not speak of.
THEOREM MachineForMapping ==
  Spec => [](pc \notin {"node", "cpu", "done"} =>
               /\ arities[1] # 0 /\ arities[3] # 0 /\ arities[4] # 0
               /\ arities[2] # 0 => arities \in Seq(Nat \ {0})
               /\ pu \in Seq(Nat) /\ IsInjective(pu)
               /\ Cardinality(PUs(arities)) <= Len(pu))
<1>1. ASSUME DInv, pc \notin {"node", "cpu", "done"}
      PROVE  /\ arities[1] # 0 /\ arities[3] # 0 /\ arities[4] # 0
             /\ arities[2] # 0 => arities \in Seq(Nat \ {0})
             /\ pu \in Seq(Nat) /\ IsInjective(pu)
             /\ Cardinality(PUs(arities)) <= Len(pu)
  <2>1. /\ num_nodes \in Nat /\ num_cpus \in Nat /\ num_cores \in Nat /\ num_threads \in Nat
        /\ num_nodes # 0 /\ num_cores # 0 /\ num_threads # 0
        /\ pu \in Seq(CPUs) /\ IsInjective(pu) /\ CPUs \subseteq Nat
        /\ num_nodes * num_cpus * num_cores * num_threads <= Len(pu)
    BY <1>1, MachineIs DEF DInv, detecting
  <2>2. arities = << num_nodes, num_cpus, num_cores, num_threads >>
    BY DEF arities, counts
  <2>3. arities[1] # 0 /\ arities[3] # 0 /\ arities[4] # 0
    BY <2>1, <2>2
  <2>4. ASSUME arities[2] # 0 PROVE arities \in Seq(Nat \ {0})
    <3>1. /\ num_nodes \in Nat \ {0} /\ num_cpus \in Nat \ {0}
          /\ num_cores \in Nat \ {0} /\ num_threads \in Nat \ {0}
      BY <2>1, <2>2, <2>4
    <3> QED
      BY <2>2, <3>1
  <2>5. Cardinality(PUs(arities)) <= Len(pu)
    BY <2>1, FourLevels DEF arities, counts
  <2>6. pu \in Seq(Nat)
    BY <2>1, WiderSeq
  <2> QED
    BY <2>1, <2>3, <2>4, <2>5, <2>6
<1>2. Spec => []DInv
  BY DetectInvariant
<1> QED
  BY <1>1, <1>2, PTL
=============================================================================
