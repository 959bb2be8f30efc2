------------------------------ MODULE TopoDetect ------------------------------
(***************************************************************************)
(* Hardware detection (src/topo.c): one pass over the online nodes, their  *)
(* processors, the cores of a processor and the siblings of a core counts  *)
(* what is there and lists the kernel's ids of the CPUs in that order; the *)
(* counts are then averaged to the arities that spcd_map_func builds its   *)
(* tree with.                                                              *)
(*                                                                         *)
(* topo_init runs inside init_module, before the mapper thread is created: *)
(* FakeTopology.tla goes on from its result.                               *)
(*                                                                         *)
(* What the kernel knows is a parameter.  Its masks partition the CPUs,    *)
(* but a node need not have CPUs, and a processor may be spread over       *)
(* several nodes.  Masks are visited in the order of their members.        *)
(***************************************************************************)
EXTENDS HwTree, FiniteSetsExt

CONSTANTS
  Machines   \* [nodes, node, package, core]: the online nodes and, for every
             \* CPU, its node, its processor and its core

ASSUME TopoAssumption ==
  \A m \in Machines :
    /\ DOMAIN m.node # {} /\ DOMAIN m.node \subseteq Nat
    /\ IsFiniteSet(DOMAIN m.node) /\ IsFiniteSet(m.nodes)
    /\ m.node \in [DOMAIN m.node -> m.nodes] /\ m.nodes \subseteq Nat
    /\ DOMAIN m.package = DOMAIN m.node /\ DOMAIN m.core = DOMAIN m.node

VARIABLES
  machine,
  pc,         \* "node", "cpu" or "done"; FakeTopology goes on from there
  nodes,      \* nodes that for_each_online_node has yet to visit
  cpus,       \* CPUs that for_each_node_cpu has yet to visit
  seen,       \* the CPUs listed
  num_nodes, num_cpus, num_cores, num_threads,
  pu          \* the CPUs in the order of the tree

counts == << num_nodes, num_cpus, num_cores, num_threads >>
detectVars == << machine, nodes, cpus, seen, counts, pu >>

CPUs == DOMAIN machine.node

cpumask_of_node(n) == {c \in CPUs : machine.node[c] = n}
cpu_core_mask(c) == {d \in CPUs : machine.package[d] = machine.package[c]}
cpu_sibling_mask(c) == {d \in CPUs : machine.core[d] = machine.core[c]}

\* The member with i - 1 smaller ones comes i-th.
sorted(S) ==
  [i \in 1 .. Cardinality(S) |->
     CHOOSE c \in S : Cardinality({d \in S : d < c}) = i - 1]

DetectInit ==
  /\ machine \in Machines
  /\ pc = "node"
  /\ nodes = machine.nodes /\ cpus = {}
  /\ seen = {}
  /\ num_nodes = 0 /\ num_cpus = 0 /\ num_cores = 0 /\ num_threads = 0
  /\ pu = << >>

EnterNode ==
  /\ pc = "node" /\ nodes # {}
  /\ nodes' = nodes \ {Min(nodes)}
  /\ cpus' = cpumask_of_node(Min(nodes))
  /\ num_nodes' = num_nodes + 1
  /\ pc' = "cpu"
  /\ UNCHANGED << machine, seen, num_cpus, num_cores, num_threads, pu >>

\* The CPUs of a processor that the loop over its cores enters: the first of
\* every core.
coresOf(S) == {c \in S : c = Min(cpu_sibling_mask(c) \cap S)}

\* Faulty variant: the siblings are listed where the loop over the cores
\* meets them.
listedById(S) == sorted(S)

\* The order in which they are listed: each core's siblings follow it.
listed(S) ==
  FlattenSeq([i \in 1 .. Cardinality(coresOf(S)) |->
    LET c == sorted(coresOf(S))[i]
    IN << c >> \o sorted(cpu_sibling_mask(c) \ (seen \cup {c}))])

\* Faulty variant: whether a CPU was seen is not asked.
cpusOfNextAgain == cpu_core_mask(Min(cpus))

\* The CPUs that the next iteration over the CPUs of the node finds.
cpusOfNext ==
  IF Min(cpus) \in seen THEN {} ELSE cpu_core_mask(Min(cpus)) \ seen

VisitCpu ==
  /\ pc = "cpu" /\ cpus # {}
  /\ cpus' = cpus \ {Min(cpus)}
  /\ num_cpus' = num_cpus + (IF cpusOfNext = {} THEN 0 ELSE 1)
  /\ num_cores' = num_cores + Cardinality(coresOf(cpusOfNext))
  /\ num_threads' = num_threads + Len(listed(cpusOfNext))
  /\ pu' = pu \o listed(cpusOfNext)
  /\ seen' = seen \cup ToSet(listed(cpusOfNext))
  /\ UNCHANGED << machine, pc, nodes, num_nodes >>

LeaveNode ==
  /\ pc = "cpu" /\ cpus = {}
  /\ pc' = "node"
  /\ UNCHANGED << machine, nodes, cpus, seen, counts, pu >>

\* Faulty variant: averages are rounded up.
AverageUp ==
  /\ pc = "node" /\ nodes = {}
  /\ num_threads' = (num_threads + num_cores - 1) \div num_cores
  /\ num_cores' = (num_cores + num_cpus - 1) \div num_cpus
  /\ num_cpus' = (num_cpus + num_nodes - 1) \div num_nodes
  /\ pc' = "done"
  /\ UNCHANGED << machine, nodes, cpus, seen, num_nodes, pu >>

\* From totals to averages, whose fractions are dropped.
Average ==
  /\ pc = "node" /\ nodes = {}
  /\ num_threads' = num_threads \div num_cores
  /\ num_cores' = num_cores \div num_cpus
  /\ num_cpus' = num_cpus \div num_nodes
  /\ pc' = "done"
  /\ UNCHANGED << machine, nodes, cpus, seen, num_nodes, pu >>

Detect == EnterNode \/ VisitCpu \/ LeaveNode \/ Average

-----------------------------------------------------------------------------
(* Properties *)

\* Every CPU is listed exactly once, on any machine: also when a processor
\* is met again in another node, or a sibling before its core.
EachPuOnce ==
  pc = "done" =>
    /\ Len(pu) = Cardinality(CPUs)
    /\ ToSet(pu) = CPUs

\* The tree built with the averages has no more leaves than there are CPUs:
\* the builder (topology.c:170), which takes pu[0], pu[1], ... for its leaves,
\* takes none that was not found.
EnoughPus ==
  pc = "done" => Cardinality(PUs(counts)) <= Len(pu)

\* All nodes have as many processors, all processors as many cores and all
\* cores as many threads, and no processor is spread over nodes.
Regular ==
  LET Sizes(f, g) == {Cardinality({g[c] : c \in {d \in CPUs : f[d] = x}}) :
                        x \in {f[c] : c \in CPUs}}
      id == [c \in CPUs |-> c]
  IN /\ {machine.node[c] : c \in CPUs} = machine.nodes
     /\ Sizes(machine.package, machine.node) = {1}
     /\ Cardinality(Sizes(machine.node, machine.package)) = 1
     /\ Cardinality(Sizes(machine.package, machine.core)) = 1
     /\ Cardinality(Sizes(machine.core, id)) = 1

=============================================================================
