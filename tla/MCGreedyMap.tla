----------------------------- MODULE MCGreedyMap -----------------------------
(* Small machines and communication patterns for GreedyMap.                *)
EXTENDS GreedyMap

MCMachine(a, p) == [arities |-> a, pu |-> p]

\* One PU; shared cores; two nodes of two cores whose ids are apart; three
\* cores, so that threads are left over; an irregular machine, with a processor
\* that the tree has no PU for; three shared levels.
MCMachines ==
  { MCMachine(<< 1, 1, 1, 1 >>, << 0 >>),
    MCMachine(<< 1, 1, 2, 1 >>, << 0, 1 >>),
    MCMachine(<< 2, 1, 2, 1 >>, << 0, 2, 1, 3 >>),
    MCMachine(<< 1, 1, 3, 1 >>, << 2, 1, 0 >>),
    MCMachine(<< 1, 1, 2, 1 >>, << 0, 2, 1 >>),
    MCMachine(<< 2, 1, 2, 2 >>, << 0, 4, 1, 5, 2, 6, 3, 7 >>) }

\* The graphs of nt threads, with one or two as the count of an edge: every
\* graph of four threads, those of at most three edges of more.
MCGraphsOf(nt) ==
  {[c \in Cells |-> IF c \in E THEN 1 + (c[1] % 2) ELSE 0] :
     E \in {F \in SUBSET {c \in Cells : c[1] < nt} :
              nt = 4 \/ Cardinality(F) <= 3}}

MCPatterns == UNION {MCGraphsOf(nt) : nt \in Threads}

MCNone == [c \in Cells |-> 0]

\* To keep the instance small faults are counted in a mapping only if four
\* threads start it and none was counted before, one for each pair.
MCNext ==
  \/ Step
  \/ \E nt \in Threads : \E pattern \in MCGraphsOf(nt) : Start(nt, pattern)
  \/ start = MCNone /\ nthreads = 4
     /\ \E c \in Cells : spcd_matrix[c] = 0 /\ Communicate(c)

MCSpec == Init /\ [][MCNext]_vars

=============================================================================
