---------------------------- MODULE ThreadTable ----------------------------
(***************************************************************************)
(* What the thread table promises to those who do not look inside it: a    *)
(* thread that registers gets the next tid and keeps it, the mirror names  *)
(* it a moment later and goes on naming it when it has left, and the table *)
(* is cleared only while no thread is in it.                               *)
(*                                                                         *)
(* Probes.tla implements it on one processor.  Mapper.tla builds on it.    *)
(***************************************************************************)
EXTENDS Integers, FiniteSets

CONSTANTS
  Pids,         \* what the kernel hands out
  max_threads   \* tids there are

Tids == 0 .. max_threads - 1

NoTid == -1
Zeroed == 0     \* a pid of the mirror before the first clear
Empty == -1     \* and after one

VARIABLES
  tidOf,    \* pid -> the tid of a registered thread
  mirror,   \* tid -> the pid that spcd_get_pid returns
  num       \* tids handed out since the last clear

tableVars == << tidOf, mirror, num >>

Init ==
  /\ tidOf = [p \in Pids |-> NoTid]
  /\ mirror = [t \in Tids |-> Zeroed]
  /\ num = 0

threads == {p \in Pids : tidOf[p] # NoTid}

active == Cardinality(threads)

\* No registration is half done.
settled == \A p \in threads : mirror[tidOf[p]] = p

\* The thread counts as active from here on.
Register(p) ==
  /\ settled /\ p \notin threads
  /\ num < max_threads /\ mirror[num] = Empty
  /\ tidOf' = [tidOf EXCEPT ![p] = num]
  /\ num' = num + 1
  /\ UNCHANGED mirror

StoreMirror(p) ==
  /\ p \in threads
  /\ mirror' = [mirror EXCEPT ![tidOf[p]] = p]
  /\ UNCHANGED << tidOf, num >>

Delete(p) ==
  /\ settled /\ p \in threads
  /\ tidOf' = [tidOf EXCEPT ![p] = NoTid]
  /\ UNCHANGED << mirror, num >>

\* Faulty variant: a mirror that was in use is not cleared.
ClearForwardOnly ==
  /\ threads = {}
  /\ mirror' = [t \in Tids |-> IF mirror[t] = Zeroed THEN Empty ELSE mirror[t]]
  /\ num' = 0
  /\ UNCHANGED tidOf

\* Faulty variant: the counter is set to -1 like the arrays, or left alone.
ClearAllOnes ==
  /\ threads = {}
  /\ mirror' = [t \in Tids |-> Empty]
  /\ num' = -1
  /\ UNCHANGED tidOf

ClearArrays ==
  /\ threads = {}
  /\ mirror' = [t \in Tids |-> Empty]
  /\ UNCHANGED << tidOf, num >>

Clear ==
  /\ threads = {}
  /\ mirror' = [t \in Tids |-> Empty]
  /\ num' = 0
  /\ UNCHANGED tidOf

Next ==
  \/ \E p \in Pids : Register(p) \/ StoreMirror(p) \/ Delete(p)
  \/ Clear

Spec == Init /\ [][Next]_tableVars

=============================================================================
