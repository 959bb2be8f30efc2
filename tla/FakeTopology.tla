---------------------------- MODULE FakeTopology ----------------------------
(***************************************************************************)
(* What the mapper thread does before its loop (src/map.c:18-29) with what *)
(* topo_init found: size the graph, build the hardware tree depth first in *)
(* it (libmapping/graph.c, create_fake_topology in libmapping/topology.c), *)
(* walk the tree for its attributes (topology_analysis_) and compute all   *)
(* distances in it (floyd_warshall).                                       *)
(*                                                                         *)
(* The recursion of create_fake_topology is the stack of its active calls. *)
(* Vertices and edges are numbered from 1 in the order in which the graph  *)
(* hands them out; the code's pos counts from 0.  A failing LM_ASSERT      *)
(* prints and goes on: libmapping_panic is empty in the kernel build.      *)
(***************************************************************************)
EXTENDS TopoDetect

CONSTANTS
  Built,       \* bound of this model: the machines that start the mapper
  USHRT_MAX    \* 65535, the distance of unconnected vertices

ASSUME BuiltAssumption == Built \subseteq Machines

VARIABLES
  n_vertices, n_edges, \* capacity of the graph
  vertices, edges,     \* the used ones
  stack,               \* active calls: [v, j], outermost first
  id,                  \* the builder's static counter of PUs
  topology,            \* what topology_analysis_ found
  dist, k,             \* floyd_warshall: the matrix and the outermost loop
  dist_pus             \* its result

graphVars == << n_vertices, n_edges, vertices, edges >>
distVars == << dist, k, dist_pus >>
buildVars == << graphVars, stack, id, topology, distVars >>
vars == << detectVars, pc, buildVars >>

None == 0
Unknown == -1   \* 0xFFFFFFFF in the code

Init ==
  /\ DetectInit
  /\ n_vertices = 0 /\ n_edges = 0
  /\ vertices = << >> /\ edges = << >>
  /\ stack = << >>
  /\ id = 0
  /\ topology = << >>
  /\ dist = << >> /\ k = 0 /\ dist_pus = << >>

\* The parameters of the builder: the averages of topo_init, and pu.
arities == counts

nlevels == Len(arities)

-----------------------------------------------------------------------------
(* The graph *)

\* Faulty variant: the inner vertices are not counted.
nverticesOfPUs == Cardinality(PUs(arities))

\* The vertices that libmapping_get_n_pus_fake_topology counts.
nvertices ==
  LET count[l \in 1 .. nlevels + 1] ==
        IF l > nlevels THEN 1 ELSE 1 + arities[l] * count[l + 1]
  IN count[1]

libmapping_graph_init ==
  /\ pc = "done"
  /\ machine \in Built
  /\ n_vertices' = nvertices /\ n_edges' = nvertices - 1
  /\ vertices' = << >> /\ edges' = << >>
  /\ pc' = "create"
  /\ UNCHANGED << detectVars, stack, id, topology, distVars >>

\* Faulty variant: the other end becomes the first one.
connectedFirst(g, src, dest, e) ==
  [g EXCEPT ![src].linked = << [v |-> dest, e |-> e] >> \o @,
            ![dest].linked = << [v |-> src, e |-> e] >> \o @]

\* libmapping_graph_connect_vertices: each end lists the other one last.
connected(g, src, dest, e) ==
  [g EXCEPT ![src].linked = Append(@, [v |-> dest, e |-> e]),
            ![dest].linked = Append(@, [v |-> src, e |-> e])]

-----------------------------------------------------------------------------
(* create_fake_topology(level, ...): the call at level l of the recursion  *)
(* is stack[l + 1].                                                        *)

Top == Last(stack)

\* The loop over the children of the innermost call has ended.
iterations == IF Len(stack) > nlevels THEN 0 ELSE arities[Len(stack)]

loopDone == stack # << >> /\ Top.j = iterations

\* A call is for a leaf when all levels are used up.
atLeaf == Len(stack) = nlevels

newVertex == [type |-> IF atLeaf THEN "PU" ELSE "UNDEFINED",
              id |-> IF atLeaf THEN pu[id + 1] ELSE 0,
              linked |-> << >>]

\* A call up to its loop.
Enter ==
  /\ pc = "create"
  /\ ~loopDone
  /\ vertices' = Append(vertices, newVertex)
  /\ id' = IF atLeaf THEN id + 1 ELSE id
  /\ stack' = Append(stack, [v |-> Len(vertices'), j |-> 0])
  /\ UNCHANGED << detectVars, pc, n_vertices, n_edges, edges, topology,
                  distVars >>

\* The return of a call, and the rest of the caller's iteration: connect the
\* two vertices and weigh the edge by the level of the caller.
Return ==
  /\ pc = "create"
  /\ Len(stack) > 1 /\ loopDone
  /\ LET level == Len(stack) - 2
         caller == stack[level + 1]
     IN /\ edges' = Append(edges, [src |-> caller.v, dest |-> Top.v,
                                   weight |-> 2^(nlevels - level)])
        /\ vertices' = connected(vertices, caller.v, Top.v, Len(edges'))
        /\ stack' = [Front(stack) EXCEPT ![level + 1].j = @ + 1]
  /\ UNCHANGED << detectVars, pc, n_vertices, n_edges, id, topology,
                  distVars >>

\* The return of the outermost call, to spcd_map_func.
ReturnRoot ==
  /\ pc = "create"
  /\ Len(stack) = 1 /\ loopDone
  /\ vertices' = [vertices EXCEPT ![Top.v].type = "ROOT"]
  /\ stack' = << >>
  /\ pc' = "analysis"
  /\ UNCHANGED << detectVars, n_vertices, n_edges, edges, id, topology,
                  distVars >>

-----------------------------------------------------------------------------
(* topology_analysis_ *)

Root == 1

\* topology_walk_pre_order: the links by which the walk reaches the vertices
\* that it visits, from the root.  from is the vertex it comes from.
walk ==
  LET visit[v \in DOMAIN vertices, from \in 0 .. Len(vertices),
            e \in 0 .. Len(edges)] ==
        LET onward == SelectSeq(vertices[v].linked, LAMBDA l : l.v # from)
        IN << [v |-> v, e |-> e] >> \o
           FlattenSeq([i \in DOMAIN onward |->
                         visit[onward[i].v, v, onward[i].e]])
  IN visit[Root, None, None]

isPUVertex(v) == vertices[v].type = "PU"

\* A routine that returns 0 at a PU ends the whole walk there.
walkToFirstPU ==
  LET first == SelectInSeq(walk, LAMBDA l : isPUVertex(l.v))
  IN IF first = 0 THEN walk ELSE SubSeq(walk, 1, first)

\* Faulty variant: the link to the parent counts as one to a child.
arityWithParent(v) == Len(vertices[v].linked)

\* detect_arity_of_levels: the link to the parent does not count.
arityOf(v) ==
  IF vertices[v].type = "ROOT" THEN Len(vertices[v].linked)
                               ELSE Len(vertices[v].linked) - 1

\* detect_arity_of_levels, for the levels that detect_n_levels counts.
level_arities == [i \in DOMAIN walkToFirstPU |-> arityOf(walkToFirstPU[i].v)]

\* What topology.c:505 divides by.  The tree of a machine with an empty level has
\* no PU, so that its walks go through all of it; the division ends the thread.
divisors == {level_arities[i] : i \in 1 .. Len(level_arities) - 1}

\* No builder of the kernel makes a NUMA_NODE, so that all PUs are in the one
\* node 0.  Entries of pus_to_numa_node past its end are written outside it.
topology_analysis_ ==
  LET pus == SelectSeq(walk, LAMBDA l : isPUVertex(l.v))
      best_pus == [i \in DOMAIN pus |-> vertices[pus[i].v].id]
      levels == walkToFirstPU
      below == SelectSeq(levels, LAMBDA l : vertices[l.v].type # "ROOT")
      nobjs[i \in DOMAIN levels] ==
        IF i = Len(levels) THEN Len(pus)
        ELSE nobjs[i + 1] \div level_arities[i]
  IN /\ pc = "analysis" /\ 0 \notin divisors
     /\ topology' =
          [pu_number |-> Len(pus),
           n_levels |-> Len(levels),
           best_pus |-> best_pus,
           arities |-> level_arities,
           link_weights |-> [i \in DOMAIN below |-> edges[below[i].e].weight],
           nobjs_per_level |-> [i \in DOMAIN levels |-> nobjs[i]],
           pus_to_numa_node |->
             [p \in 0 .. Len(pus) - 1 |->
                IF p \in ToSet(best_pus) THEN 0 ELSE Unknown]]
     /\ pc' = "distances"
     /\ UNCHANGED << detectVars, graphVars, stack, id, distVars >>

-----------------------------------------------------------------------------
(* floyd_warshall *)

\* The weight of an edge goes into both halves: either end lists it.
DistancesOfEdges ==
  /\ pc = "distances"
  /\ dist' = [i, j \in DOMAIN vertices |->
       LET direct == {l \in ToSet(vertices[i].linked) : l.v = j}
       IN IF direct # {} THEN edges[(CHOOSE l \in direct : TRUE).e].weight
          ELSE IF i = j THEN 0 ELSE USHRT_MAX]
  /\ k' = 1
  /\ pc' = "relax"
  /\ UNCHANGED << detectVars, graphVars, stack, id, topology, dist_pus >>

Relax ==
  /\ pc = "relax" /\ k <= Len(vertices)
  /\ dist' = [i, j \in DOMAIN vertices |->
       LET sum == dist[i, k] + dist[k, j]
       IN IF dist[i, j] > sum THEN sum ELSE dist[i, j]]
  /\ k' = k + 1
  /\ UNCHANGED << detectVars, pc, graphVars, stack, id, topology,
                  dist_pus >>

libmapping_get_next_power_of_two(v) ==
  CHOOSE r \in {2^n : n \in 0 .. v} : r >= v /\ (r = 1 \/ r \div 2 < v)

\* dist_pus, whose rows and columns are the kernel's ids of the processors.
\* A pair is an index into one array, so that ids past the dimension of the
\* array alias those of other pairs: the last vertices written count.
RelaxDone ==
  LET n == topology.pu_number
      dim == libmapping_get_next_power_of_two(n)
      pus == {v \in DOMAIN vertices : isPUVertex(v)}
      writers(i, j) == {vw \in pus \X pus :
        vertices[vw[1]].id * dim + vertices[vw[2]].id = i * dim + j}
      last(W) == CHOOSE vw \in W : \A xy \in W :
        xy[1] < vw[1] \/ (xy[1] = vw[1] /\ xy[2] <= vw[2])
  IN /\ pc = "relax" /\ k > Len(vertices)
     /\ dist_pus' = [i, j \in 0 .. n - 1 |->
          IF writers(i, j) = {} THEN 0 ELSE dist[last(writers(i, j))]]
     /\ pc' = "ready"
     /\ UNCHANGED << detectVars, graphVars, stack, id, topology, dist, k >>

\* The mapper thread uses the tree, and nobody changes it any more; or it has
\* divided by zero; or it is not started.
Ready ==
  /\ \/ pc = "ready"
     \/ pc = "analysis" /\ 0 \in divisors
     \/ pc = "done" /\ machine \notin Built
  /\ UNCHANGED vars

-----------------------------------------------------------------------------

Next ==
  \/ Detect /\ UNCHANGED buildVars
  \/ libmapping_graph_init
  \/ Enter \/ Return \/ ReturnRoot
  \/ topology_analysis_
  \/ DistancesOfEdges \/ Relax \/ RelaxDone
  \/ Ready

Spec == Init /\ [][Next]_vars

-----------------------------------------------------------------------------
(* Properties *)

\* The graph is never asked for more than it was sized for, whatever the
\* order of the recursion, and is full when it is handed to the analysis:
\* the LM_ASSERTs of graph.c:53, 61, 75 and 76 and topology.c:601 and 602.
GraphExactlyUsed ==
  /\ Len(vertices) <= n_vertices /\ Len(edges) <= n_edges
  /\ \A v \in DOMAIN vertices : Len(vertices[v].linked) <= n_vertices
  /\ pc \notin {"node", "cpu", "done", "create"} =>
       Len(vertices) = n_vertices /\ Len(edges) = n_edges

\* In the finished tree the last link of every vertex but the root, and no
\* other, leads to an earlier one, its parent.  So the mapping may take the first
\* links for the children (mapping-greedy.c:128), and all links but one for their
\* number (detect_arity_of_levels in topology.c).  A PU has no other link, and
\* if no level is empty, only a PU has none.
ChildrenFirst ==
  pc \notin {"node", "cpu", "done", "create"} =>
    \A v \in DOMAIN vertices :
      LET links == vertices[v].linked
          up == {n \in DOMAIN links : links[n].v < v}
      IN /\ up = IF v = Root THEN {} ELSE {Len(links)}
         /\ isPUVertex(v) => DOMAIN links = up
         /\ (\A l \in 1 .. nlevels : arities[l] # 0) /\ DOMAIN links = up
              => isPUVertex(v)

\* Every processor has a NUMA node (topology.c:540).
NumaNodeKnown ==
  pc \notin {"node", "cpu", "done", "create", "analysis"} =>
    \A p \in DOMAIN topology.pus_to_numa_node :
      topology.pus_to_numa_node[p] # Unknown

\* The attributes found by walking the graph are those of the tree, and
\* on the machines built they miss no processor.
AttributesOfTree ==
  pc \notin {"node", "cpu", "done", "create", "analysis"} =>
    /\ topology.pu_number = Cardinality(PUs(arities))
    /\ topology.n_levels = nlevels + 1
    /\ topology.best_pus = pu
    /\ topology.arities = Append(arities, 0)
    /\ topology.link_weights = [l \in 1 .. nlevels |-> 2^(nlevels - l + 1)]
    /\ topology.nobjs_per_level =
         [l \in 1 .. nlevels + 1 |->
            Cardinality({p \in Paths(arities) : Len(p) = l - 1})]
    /\ NumaNodeKnown

\* From the kernel's masks to the distances, on a regular machine and however
\* the kernel numbers its CPUs: of two CPUs the one that shares more with c, a
\* core, a processor or a node, is nearer to it.
DistancesReal ==
  LET sharing(c, d) ==
        Cardinality({f \in {"node", "package", "core"} :
                       machine[f][c] = machine[f][d]})
        + (IF c = d THEN 1 ELSE 0)
  IN pc = "ready" /\ Regular =>
       \A c, d, e \in CPUs :
         sharing(c, d) > sharing(c, e) <=> dist_pus[c, d] < dist_pus[c, e]

=============================================================================
