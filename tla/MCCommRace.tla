----------------------------- MODULE MCCommRace -----------------------------
(* Two processors and one or two elements, for CommRace.                   *)
EXTENDS CommRace, TLC

MCHash == [p \in Pages |-> p % 2]

\* The processors are alike.
MCSymmetry == Permutations(CPUs)

=============================================================================
