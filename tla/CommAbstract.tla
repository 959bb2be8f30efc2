---------------------------- MODULE CommAbstract ----------------------------
(***************************************************************************)
(* What communication detection promises, without its table.               *)
(*                                                                         *)
(* Every page remembers the last two different threads that accessed it,   *)
(* most recent first.  An access of a thread is one communication with     *)
(* each remembered thread other than itself.  The memory is bounded: an    *)
(* access to one page may make the detector forget another.                *)
(***************************************************************************)
EXTENDS Integers, FiniteSets

CONSTANTS
  Tids,         \* thread identifiers
  Pages,        \* page numbers at the granularity in use
  UINT_RANGE,   \* a counter of the matrix wraps at this value
  ULONG_RANGE   \* the counter of forgotten pages wraps at this value

Nobody == -1

VARIABLES
  last,       \* page -> the last thread that accessed it, or Nobody
  previous,   \* page -> the last thread other than last[page], or Nobody
  comm,       \* <<i, j>> -> communications of i and j
  forgotten   \* pages forgotten in favour of another one

vars == << last, previous, comm, forgotten >>

Init ==
  /\ last = [p \in Pages |-> Nobody]
  /\ previous = [p \in Pages |-> Nobody]
  /\ comm = [ij \in Tids \X Tids |-> 0]
  /\ forgotten = 0

\* The threads that an access of t to p communicates with.
partners(t, p) == {last[p], previous[p]} \ {t, Nobody}

Count(t, others) ==
  comm' = [ij \in Tids \X Tids |->
             IF \/ ij[1] = t /\ ij[2] \in others
                \/ ij[2] = t /\ ij[1] \in others
             THEN (comm[ij] + 1) % UINT_RANGE
             ELSE comm[ij]]

Remember(t, p, dropped) ==
  /\ last' = [q \in Pages |-> IF q = p THEN t
                              ELSE IF q \in dropped THEN Nobody ELSE last[q]]
  /\ previous' = [q \in Pages |->
                    IF q = p
                    THEN IF last[p] = t THEN previous[p] ELSE last[p]
                    ELSE IF q \in dropped THEN Nobody ELSE previous[q]]

Access(t, p) ==
  /\ Count(t, partners(t, p))
  /\ \/ /\ Remember(t, p, {})
        /\ UNCHANGED forgotten
     \/ \E q \in Pages \ {p} :
          /\ last[q] # Nobody
          /\ Remember(t, p, {q})
          /\ forgotten' = (forgotten + 1) % ULONG_RANGE

\* The end of an application.
ForgetAll ==
  /\ last' = [p \in Pages |-> Nobody]
  /\ previous' = [p \in Pages |-> Nobody]
  /\ forgotten' = 0
  /\ UNCHANGED comm

\* The start of one, or a reset from user space.
ResetCounts ==
  /\ comm' = [ij \in Tids \X Tids |-> 0]
  /\ UNCHANGED << last, previous, forgotten >>

Next ==
  \/ \E t \in Tids, p \in Pages : Access(t, p)
  \/ ForgetAll
  \/ ResetCounts

Spec == Init /\ [][Next]_vars

=============================================================================
