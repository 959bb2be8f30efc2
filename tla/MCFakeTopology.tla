--------------------------- MODULE MCFakeTopology ----------------------------
(* Machines of up to four CPUs of any shape, and larger regular ones.      *)
EXTENDS FakeTopology

\* Every way to divide CPUs into groups, a group named by its first member.
MCGroupings(C) ==
  {f \in [C -> C] : \A c \in C : f[f[c]] = f[c] /\ f[c] <= c}

MCFiner(f, g) == \A c, d \in DOMAIN f : f[c] = f[d] => g[c] = g[d]

\* Node 4 has memory only.
MCSmall(C) ==
  {m \in [nodes : {n \cup {4} : n \in SUBSET C} \cup SUBSET C,
          node : MCGroupings(C), package : MCGroupings(C),
          core : MCGroupings(C)] :
     /\ m.nodes \ {4} = {m.node[c] : c \in C}
     /\ MCFiner(m.core, m.package) /\ MCFiner(m.core, m.node)}

\* The CPU at position x of the tree of shape s, when the threads of a core
\* are numbered together (the first order) or apart (the second).
MCRegular(s) ==
  LET n == s[1] * s[2] * s[3] * s[4]
      C == 0 .. n - 1
      together(c) == c
      apart(c) == (c % (n \div s[4])) * s[4] + c \div (n \div s[4])
      Machine(at(_)) ==
        [nodes |-> 0 .. s[1] - 1,
         node |-> [c \in C |-> at(c) \div (s[2] * s[3] * s[4])],
         package |-> [c \in C |-> at(c) \div (s[3] * s[4])],
         core |-> [c \in C |-> at(c) \div s[4]]]
  IN {Machine(together), Machine(apart)}

\* One processor in a machine of two nodes: on average none per node.
MCMemoryOnly == {m \in MCSmall({0, 1}) : m.nodes = {0, 4} /\ m.package[1] = 0}

\* The shapes whose tree is built.
MCBuilt ==
  UNION {MCRegular(s) : s \in [1 .. 4 -> 1 .. 2]}
    \cup MCRegular(<< 1, 3, 1, 1 >>) \cup MCRegular(<< 2, 1, 3, 2 >>)
    \cup MCMemoryOnly

MCMachines == MCSmall({0, 2}) \cup MCSmall(0 .. 3) \cup MCBuilt

\* A machine whose CPU 1 is offline.
MCSparse == {m \in MCSmall({0, 2}) : m.nodes = {0} /\ m.package[2] = 0}

=============================================================================
