------------------------------ MODULE GreedyMap ------------------------------
(***************************************************************************)
(* The greedy mapping of threads to processors                             *)
(* (src/libmapping/mapping-greedy.c): at every shared level of the         *)
(* hardware tree, group the elements of the level below by their           *)
(* communication, add up the communication between groups for the next     *)
(* level, and finally lay the groups onto the tree from the root.          *)
(*                                                                         *)
(* The mapper thread runs this while page faults go on counting in the     *)
(* communication matrix, which the first level reads without a copy:       *)
(* Communicate may happen between any two steps.  One step considers one   *)
(* candidate for a group, or adds up one pair of groups.                   *)
(*                                                                         *)
(* The tree is that of HwTree; FakeTopology.tla builds it and checks that  *)
(* it is.  A failing LM_ASSERT prints and goes on.                         *)
(***************************************************************************)
EXTENDS HwTree, FiniteSetsExt, Functions

CONSTANTS
  Machines,    \* [arities, pu], as in FakeTopology
  Threads,     \* the numbers of threads that the mapper may find
  Patterns,    \* the communication when the mapper starts
  MaxComm,     \* bound of this model: counts of the threads' matrix
  UINT_RANGE   \* 2^32 in the code

ASSUME GreedyAssumption ==
  /\ \A m \in Machines :
       /\ m.arities \in Seq(Nat \ {0})
       /\ m.pu \in Seq(Nat) /\ IsInjective(m.pu)
       /\ Cardinality(PUs(m.arities)) <= Len(m.pu)
  /\ Threads # {} /\ Threads \subseteq Nat \ {0} /\ IsFiniteSet(Threads)
  /\ MaxComm \in Nat /\ UINT_RANGE \in Nat /\ MaxComm < UINT_RANGE

Unknown == -1

\* Threads, and groups of a level: a level has no more groups than threads.
Elements == 0 .. Max(Threads) - 1

\* The cells that get_matrix and set_matrix use.
Cells == {c \in Elements \X Elements : c[1] > c[2]}

ASSUME PatternsAssumption == Patterns \subseteq [Cells -> 0 .. MaxComm]

VARIABLES
  arities, pu,        \* the tree
  levels_n,           \* levels of grouping, with the threads' level 0
  exec_el_in_level,   \* level -> groups at most
  pc,
  nthreads,           \* of the mapping in progress
  spcd_matrix,        \* communication of threads
  start,              \* history: the same when the mapping started
  matrix,             \* matrix_: the two buffers of the upper levels
  groups,             \* level -> groups, each a sequence of elements
  level,              \* generate_groups: its level,
  chosen,             \*   the elements taken,
  group,              \*   the group that grows,
  cand, wmax, winner, \*   and the search for its next element
  pair,               \* recreate_matrix: the groups to add up next
  todo,               \* map_groups_to_topology_: active calls
  map                 \* thread -> processor

treeVars == << arities, pu, levels_n, exec_el_in_level >>
inputVars == << treeVars, nthreads >>
commVars == << spcd_matrix, start, matrix >>
groupVars == << groups, level, chosen, group >>
searchVars == << cand, wmax, winner >>
workVars == << commVars, groupVars, searchVars, pair >>
placeVars == << todo, map >>
vars == << inputVars, pc, workVars, placeVars >>

-----------------------------------------------------------------------------
(* libmapping_mapping_algorithm_greedy_init *)

\* The arities above 1 of the first n levels below the root, from the lowest
\* upwards.
sharers(a) ==
  LET above[n \in 0 .. Len(a)] ==
        IF n = 0 THEN << >>
        ELSE IF a[n] > 1 THEN << a[n] >> \o above[n - 1] ELSE above[n - 1]
  IN above

\* detect_arity_of_levels_with_sharers, on the way from the root to the first
\* PU: two levels of arity 1, then those with sharers.
sharedArities(a) == << 1, 1 >> \o sharers(a)[Len(a)]

\* Groups at a level, 0 being that of the threads.
execElements(a) ==
  LET shared == sharedArities(a)
      exec[l \in 0 .. Len(shared) - 1] ==
        IF l = 0 THEN Cardinality(PUs(a)) ELSE exec[l - 1] \div shared[l + 1]
  IN exec

\* Cut at the lowest level, above the threads', that has a single group.
usedLevels(a) ==
  Min({Len(sharedArities(a))} \cup
      {l \in DOMAIN execElements(a) \ {0} : execElements(a)[l] = 1})

unknownBuffers == [b \in 0 .. 1 |-> [c \in Cells |-> Unknown]]

unknownMap == [t \in Elements |-> Unknown]

Init ==
  /\ \E m \in Machines : arities = m.arities /\ pu = m.pu
  /\ levels_n = 0 /\ exec_el_in_level = << >>
  /\ pc = "init"
  /\ nthreads = 0
  /\ spcd_matrix = [c \in Cells |-> 0] /\ start = spcd_matrix
  /\ matrix = unknownBuffers
  /\ groups = << >>
  /\ level = 0 /\ chosen = {} /\ group = << >>
  /\ cand = 0 /\ wmax = -1 /\ winner = 0
  /\ pair = << 0, 1 >>
  /\ todo = << >>
  /\ map = unknownMap

greedy_init ==
  /\ pc = "init"
  /\ levels_n' = usedLevels(arities)
  /\ exec_el_in_level' = execElements(arities)
  /\ pc' = "idle"
  /\ UNCHANGED << arities, pu, nthreads, workVars, placeVars >>

-----------------------------------------------------------------------------
(* libmapping_mapping_algorithm_greedy_map *)

Start(nt, pattern) ==
  /\ pc = "idle"
  /\ nt >= 4   \* in spcd_map_func
  /\ nthreads' = nt
  /\ spcd_matrix' = pattern /\ start' = pattern
  /\ groups' = [l \in 1 .. levels_n - 1 |-> << >>]
  /\ level' = 1 /\ chosen' = {}
  /\ pc' = IF levels_n > 1 THEN "search" ELSE "root"
  /\ UNCHANGED << treeVars, matrix, group, searchVars, pair, placeVars >>

\* A page fault counts in the matrix while it is being read.  Counts that
\* come later are read by the next mapping.
Communicate(c) ==
  /\ pc \in {"search", "sum"} /\ level = 1
  /\ c[1] < nthreads /\ spcd_matrix[c] < MaxComm
  /\ spcd_matrix' = [spcd_matrix EXCEPT ![c] = @ + 1]
  /\ UNCHANGED << inputVars, pc, start, matrix, groupVars, searchVars,
                  pair, placeVars >>

\* The buffer that level l > 1 reads.
buffer(l) == l % 2

comm_matrix_ptr_el(l, i, j) ==
  LET c == IF i > j THEN << i, j >> ELSE << j, i >>
  IN IF l = 1 THEN spcd_matrix[c] ELSE matrix[buffer(l)][c]

\* The elements of a level are the groups of the one below.
nGroupsAt(l) == IF l = 0 THEN nthreads ELSE Len(groups[l])

nelements == nGroupsAt(level - 1)

-----------------------------------------------------------------------------
(* generate_groups and generate_group *)

ngroups == Min({nelements, exec_el_in_level[level]})

\* Faulty variants: the leftover elements are forgotten; leftover is not
\* counted down.
groupSizeFloor(g) == nelements \div ngroups

groupSizeCeil(g) ==
  nelements \div ngroups + (IF nelements % ngroups > 0 THEN 1 ELSE 0)

groupSize(g) ==
  nelements \div ngroups + (IF g < nelements % ngroups THEN 1 ELSE 0)

groupDone == Len(group) = groupSize(Len(groups[level]))

\* Faulty variant: the element that was taken last is left out.
communicationButLast(j) ==
  MapThenSumSet(LAMBDA x : comm_matrix_ptr_el(level, j, group[x]),
                1 .. Len(group) - 1)

\* The communication of element j with those already in the group.
communication(j) ==
  MapThenSumSet(LAMBDA x : comm_matrix_ptr_el(level, j, group[x]),
                DOMAIN group)

\* The first element with the most communication wins.
Consider ==
  /\ pc = "search" /\ ~groupDone
  /\ cand < nelements
  /\ IF cand \notin chosen /\ communication(cand) > wmax
     THEN wmax' = communication(cand) /\ winner' = cand
     ELSE UNCHANGED << wmax, winner >>
  /\ cand' = cand + 1
  /\ UNCHANGED << inputVars, pc, commVars, groupVars, pair, placeVars >>

Take ==
  /\ pc = "search" /\ ~groupDone
  /\ cand = nelements
  /\ chosen' = chosen \cup {winner}
  /\ group' = Append(group, winner)
  /\ cand' = 0 /\ wmax' = -1
  /\ UNCHANGED << inputVars, pc, commVars, groups, level, winner, pair,
                  placeVars >>

FinishGroup ==
  /\ pc = "search" /\ groupDone
  /\ groups' = [groups EXCEPT ![level] = Append(@, group)]
  /\ group' = << >> /\ winner' = 0
  /\ IF Cardinality(chosen) < nelements
     THEN UNCHANGED << pc, pair >>
     ELSE pc' = "sum" /\ pair' = << 0, 1 >>
  /\ UNCHANGED << inputVars, commVars, level, chosen, cand, wmax,
                  placeVars >>

-----------------------------------------------------------------------------
(* recreate_matrix *)

\* Faulty variant: the last pair of groups is left out.
allPairsButLastDone == pair[1] >= Len(groups[level]) - 2

allPairsDone == pair[1] >= Len(groups[level]) - 1

\* Faulty variant: only the first element of the first group counts.
betweenFirst(i, j) ==
  LET g == groups[level][i + 1]
      h == groups[level][j + 1]
  IN MapThenSumSet(LAMBDA z : comm_matrix_ptr_el(level, g[1], h[z]), DOMAIN h)

between(i, j) ==
  LET g == groups[level][i + 1]
      h == groups[level][j + 1]
  IN MapThenSumSet(LAMBDA kz : comm_matrix_ptr_el(level, g[kz[1]], h[kz[2]]),
                   (DOMAIN g) \X (DOMAIN h))

\* Faulty variant: an element holds any sum.
storedWhole(w) == w

\* A 64-bit sum is stored in an unsigned element.
stored(w) == w % UINT_RANGE

SumPair ==
  /\ pc = "sum" /\ level < levels_n - 1 /\ ~allPairsDone
  /\ matrix' = [matrix EXCEPT ![buffer(level + 1)][<< pair[2], pair[1] >>] =
                  stored(between(pair[1], pair[2]))]
  /\ pair' = IF pair[2] + 1 < Len(groups[level])
             THEN << pair[1], pair[2] + 1 >>
             ELSE << pair[1] + 1, pair[1] + 2 >>
  /\ UNCHANGED << inputVars, pc, spcd_matrix, start, groupVars,
                  searchVars, placeVars >>

\* No level reads the sums of the last one, so it makes none.
NextLevel ==
  /\ pc = "sum" /\ (level = levels_n - 1 \/ allPairsDone)
  /\ level' = level + 1
  /\ chosen' = {}
  /\ pc' = IF level' < levels_n THEN "search" ELSE "root"
  /\ UNCHANGED << inputVars, commVars, groups, group, searchVars, pair,
                  placeVars >>

-----------------------------------------------------------------------------
(* map_groups_to_topology_.  A group is << level, number >>, a thread being *)
(* a group of level 0 and the root group being of level levels_n.           *)

elements(g) ==
  CASE g[1] = 0 -> << >>
    [] g[1] = levels_n -> [x \in 1 .. nGroupsAt(levels_n - 1) |->
                             << levels_n - 1, x - 1 >>]
    [] OTHER -> [x \in DOMAIN groups[g[1]][g[2] + 1] |->
                   << g[1] - 1, groups[g[1]][g[2] + 1][x] >>]

PlaceRoot ==
  /\ pc = "root"
  /\ todo' = << [v |-> << >>, g |-> << levels_n, 0 >>] >>
  /\ pc' = "place"
  /\ UNCHANGED << inputVars, workVars, map >>

call == Head(todo)

placing(v) == pc = "place" /\ todo # << >> /\ call.v = v

\* A PU gets the threads of the group.
PlaceOnPU(v) ==
  /\ placing(v) /\ isPU(arities, v)
  /\ LET ids == {g[2] : g \in ToSet(elements(call.g))}
     IN map' = [t \in Elements |-> IF t \in ids THEN pu[puIndex(arities, v) + 1]
                                                ELSE map[t]]
  /\ todo' = Tail(todo)
  /\ UNCHANGED << inputVars, pc, workVars >>

\* A vertex with several children gives each an element; an element too many
\* meets the link to the parent and is dropped.
PlaceOnChildren(v) ==
  LET els == elements(call.g)
      n == Min({Len(els), nChildren(arities, v)})
  IN /\ placing(v) /\ nChildren(arities, v) >= 2
     /\ todo' = [i \in 1 .. n |-> [v |-> child(v, i), g |-> els[i]]] \o Tail(todo)
     /\ UNCHANGED << inputVars, pc, workVars, map >>

\* A level that nothing shares passes the group down.
PassDown(v) ==
  /\ placing(v) /\ nChildren(arities, v) = 1
  /\ todo' = << [call EXCEPT !.v = child(v, 1)] >> \o Tail(todo)
  /\ UNCHANGED << inputVars, pc, workVars, map >>

Mapped ==
  /\ pc = "place" /\ todo = << >>
  /\ pc' = "mapped"
  /\ UNCHANGED << inputVars, workVars, placeVars >>

\* Until the next mapping, whose number of threads and communication do not
\* depend on this one.  What this mapping leaves in the buffers and in map is
\* from now on as unknown as what the allocator put there.
Sleep ==
  /\ pc = "mapped"
  /\ pc' = "idle"
  /\ nthreads' = 0
  /\ spcd_matrix' = [c \in Cells |-> 0] /\ start' = spcd_matrix'
  /\ matrix' = unknownBuffers
  /\ groups' = << >>
  /\ level' = 0 /\ chosen' = {}
  /\ map' = unknownMap
  /\ pair' = << 0, 1 >>
  /\ UNCHANGED << treeVars, group, searchVars, todo >>

-----------------------------------------------------------------------------

Step ==
  \/ greedy_init
  \/ Consider \/ Take \/ FinishGroup
  \/ SumPair \/ NextLevel
  \/ PlaceRoot
  \/ \E v \in Paths(arities) : PlaceOnPU(v) \/ PlaceOnChildren(v) \/ PassDown(v)
  \/ Mapped \/ Sleep

Next ==
  \/ Step
  \/ \E nt \in Threads, pattern \in Patterns : Start(nt, pattern)
  \/ \E c \in Cells : Communicate(c)

Spec == Init /\ [][Next]_vars

-----------------------------------------------------------------------------
(* Properties *)

TypeOK ==
  /\ levels_n \in Nat /\ nthreads \in Nat
  /\ pc \in {"init", "idle", "search", "sum", "root", "place", "mapped"}
  /\ spcd_matrix \in [Cells -> 0 .. MaxComm]
  /\ matrix \in [0 .. 1 -> [Cells -> 0 .. UINT_RANGE - 1 \cup {Unknown}]]
  /\ chosen \subseteq Elements /\ winner \in Elements
  /\ map \in [Elements -> ToSet(pu) \cup {Unknown}]

\* No fault was counted during the mapping.
quiet == spcd_matrix = start

\* The levels whose groups are complete.
grouped ==
  CASE pc \in {"init", "idle"} -> {}
    [] pc \in {"root", "place", "mapped"} -> 1 .. levels_n - 1
    [] pc = "sum" -> 1 .. level
    [] OTHER -> 1 .. level - 1

\* At every level the groups share out the groups of the level below: none
\* is lost, none is taken twice, and there are no more groups than vertices
\* of the tree.  Counts that arrive during the search change the choice only.
GroupsPartition ==
  \A l \in grouped :
    /\ Len(groups[l]) <= exec_el_in_level[l]
    /\ \A e \in 0 .. nGroupsAt(l - 1) - 1 :
         Cardinality({p \in (DOMAIN groups[l]) \X (1 .. nGroupsAt(l - 1)) :
                        p[2] \in DOMAIN groups[l][p[1]]
                        /\ groups[l][p[1]][p[2]] = e}) = 1

mappingDone == pc = "mapped"

load(p) == Cardinality({t \in 0 .. nthreads - 1 : map[t] = p})

\* The processors that the tree has a PU for: all of a regular machine.
leaves == {pu[puIndex(arities, p) + 1] : p \in PUs(arities)}

\* A mapping gives every thread a processor of the tree and no such processor
\* two threads more than another one, whatever the communication.
LoadsBalanced ==
  mappingDone =>
    /\ \A t \in 0 .. nthreads - 1 : map[t] \in leaves
    /\ \A p, q \in leaves : load(p) <= load(q) + 1

\* The threads below a group.
threadsOf(l, x) ==
  LET below[n \in 0 .. l] ==
        IF n = 0 THEN {x}
        ELSE UNION {ToSet(groups[l - n + 1][y + 1]) : y \in below[n - 1]}
  IN below[l]

\* While level l > 1 is grouped, the communication of two of its elements is
\* that of their threads, modulo the width of an element: every read hits a
\* cell that was written in this mapping, in the right one of the buffers.
WeightsExact ==
  quiet /\ pc = "search" /\ level > 1 =>
    \A i, j \in 0 .. nelements - 1 : i # j =>
      comm_matrix_ptr_el(level, i, j) =
        MapThenSumSet(LAMBDA tu : comm_matrix_ptr_el(1, tu[1], tu[2]),
                      threadsOf(level - 1, i) \X threadsOf(level - 1, j))
        % UINT_RANGE

\* The same while page faults go on: what is read has been written.
NothingUnknownRead ==
  pc = "search" /\ level > 1 =>
    \A i, j \in 0 .. nelements - 1 : i # j =>
      comm_matrix_ptr_el(level, i, j) # Unknown

\* What the mapping is for.  When every thread communicates with exactly one
\* other and the threads fill the machine, partners end up below the same
\* vertex of the lowest shared level, which has an even number of children;
\* with two threads per PU, on the same PU.
PartnersTogether ==
  LET n == Cardinality(PUs(arities))
      partners == {c \in Cells : c[1] < nthreads /\ spcd_matrix[c] > 0}
      paired == \A t \in 0 .. nthreads - 1 :
                  Cardinality({c \in partners : t \in {c[1], c[2]}}) = 1
      lowest == Max({0} \cup {l \in DOMAIN arities : arities[l] > 1})
      place(t) == CHOOSE p \in PUs(arities) : pu[puIndex(arities, p) + 1] = map[t]
  IN quiet /\ mappingDone /\ paired =>
       /\ nthreads = 2 * n => \A c \in partners : map[c[1]] = map[c[2]]
       /\ nthreads = n /\ lowest > 0 /\ arities[lowest] % 2 = 0 =>
            \A c \in partners :
              commonLevel(place(c[1]), place(c[2])) >= lowest - 1

=============================================================================
