------------------------------- MODULE HwTree -------------------------------
(***************************************************************************)
(* The shape of the hardware tree that spcd_map_func asks for: every       *)
(* vertex of a level has the same number of children.  A vertex is the     *)
(* path of child numbers that leads to it from the root, so << >> is the   *)
(* root and a path as long as arities is a PU.                             *)
(*                                                                         *)
(* This is what FakeTopology.tla checks the built graph against and what   *)
(* GreedyMap.tla maps threads to.                                          *)
(***************************************************************************)
EXTENDS Integers, SequencesExt

Paths(arities) ==
  LET below[n \in 0 .. Len(arities)] ==
        IF n = 0 THEN { << >> }
        ELSE {Append(p, i) : p \in below[n - 1], i \in 1 .. arities[n]}
  IN UNION {below[n] : n \in 0 .. Len(arities)}

isPU(arities, p) == Len(p) = Len(arities)

PUs(arities) == {p \in Paths(arities) : isPU(arities, p)}

nChildren(arities, p) == IF isPU(arities, p) THEN 0 ELSE arities[Len(p) + 1]

child(p, i) == Append(p, i)

\* The number of PUs to the left of a PU: it gets the id pus[puIndex].
puIndex(arities, p) ==
  LET index[n \in 0 .. Len(p)] ==
        IF n = 0 THEN 0 ELSE index[n - 1] * arities[n] + p[n] - 1
  IN index[Len(p)]

\* The level of the lowest vertex above both p and q.
commonLevel(p, q) == Len(LongestCommonPrefix({p, q}))

=============================================================================
