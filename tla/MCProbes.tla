------------------------------ MODULE MCProbes ------------------------------
(* Small instances of Probes. *)
EXTENDS Probes, TLC

\* Three pids, of which 1 and 3 share a slot.
MCPids == {1, 2, 3}
MCHash == [p \in MCPids |-> p % 2]

\* Two pids with a slot each.
MCTwoPids == {1, 2}
MCTwoHash == [p \in MCTwoPids |-> p % 2]

\* The processors are interchangeable: no definition orders or names them.
MCSymmetry == Permutations(CPUs)

\* To keep the larger instances small, no task there execs a program of a
\* name that is not watched, and none that has such a name runs at first; the
\* instance for FairSpec leaves out nothing.
MCInit == Init /\ \A p \in Pids : dotx[p] <=> life[p] = "alive"

MCTasks ==
  \/ \E p \in Pids : Spawn(p) \/ Reap(p)
  \/ \E p, q \in Pids : Fork(p, q)
  \/ \E c \in CPUs, p \in Pids :
       Tick(c, p) \/ Exit(c, p) \/ ForkReturn(c, p) \/ Exec(c, p, TRUE)

MCRaceNext == MCTasks \/ \E c \in CPUs : ProcessHandler(c) \/ AddPid(c)

MCFaultNext ==
  \/ MCTasks
  \/ \E c \in CPUs, p \in Pids : Fault(c, p)
  \/ \E c \in CPUs : Handler(c)

\* Two processors, which interleave at every access to the thread table.
MCRaceSpec == MCInit /\ [][MCRaceNext]_vars

\* One processor.
MCFaultSpec == MCInit /\ [][MCFaultNext]_vars

=============================================================================
