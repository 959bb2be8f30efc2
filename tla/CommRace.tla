------------------------------ MODULE CommRace ------------------------------
(***************************************************************************)
(* Communication detection on several processors: spcd_check_comm of       *)
(* CommDetect access by access, without a lock, during one application.    *)
(*                                                                         *)
(* The pair of sharers is loaded once for the switch; the compiler loads   *)
(* it again after an increment, which may alias it (-fno-strict-aliasing). *)
(* The granularity does not change.                                        *)
(***************************************************************************)
EXTENDS CommDetect, Sequences

CONSTANTS
  CPUs,
  max_threads,   \* the rows and columns of the matrix
  MaxFaults      \* bound: faults in a behaviour

ASSUME RaceAssumption ==
  /\ max_threads \in Nat \ {0} /\ Tids = 0 .. max_threads - 1
  /\ MaxFaults \in Nat

VARIABLES
  cpu,       \* processor -> where its handler is, with its locals
  faults,    \* faults so far
  touched,   \* history: <<t, e>> where thread t has come to element e
  raced      \* history: elements where handlers met, until one takes it alone

history == << faults, touched, raced >>
raceVars == << vars, cpu, history >>

\* The locals of a handler and, as history, whether it had its element to
\* itself so far, how it found it, and with whom it counted.
Idle == [pc |-> "idle", tid |-> 0, address |-> 0, sh |-> sharers(Nobody, Nobody),
         todo |-> << >>, old |-> 0, alone |-> TRUE, was |-> ZeroedElement,
         met |-> {}]

busy(k) == cpu[k].pc # "idle"
at(k) == elementOf(cpu[k].address)

RaceInit ==
  /\ Init
  /\ cpu = [k \in CPUs |-> Idle]
  /\ faults = 0 /\ touched = {} /\ raced = {}

\* Processor k goes on with its locals changed.
Go(k, locals) == cpu' = [cpu EXCEPT ![k] = locals]

set(k, position, t) ==
  mem' = [mem EXCEPT ![at(k)].sharer[position] = t]

\* pte_fault_handler calls spcd_check_comm.  A thread runs on one processor.
Fault(k, t, a) ==
  LET others == {j \in CPUs \ {k} : busy(j) /\ at(j) = elementOf(a)}
  IN /\ ~busy(k) /\ faults < MaxFaults /\ faults' = faults + 1
     /\ \A j \in CPUs : busy(j) => cpu[j].tid # t
     /\ cpu' = [j \in CPUs |->
          IF j = k THEN [Idle EXCEPT !.pc = "lookup", !.tid = t, !.address = a,
                           !.alone = (others = {}), !.was = mem[elementOf(a)]]
          ELSE IF j \in others THEN [cpu[j] EXCEPT !.alone = FALSE] ELSE cpu[j]]
     /\ touched' = touched \cup {<< t, elementOf(a) >>}
     /\ raced' = IF others = {} THEN raced ELSE raced \cup {elementOf(a)}
     /\ UNCHANGED << mem, spcd_matrix, spcd_shift, spcd_addr_conflict >>

-----------------------------------------------------------------------------
(* spcd_get_mem_init *)

Lookup(k) ==
  LET other == mem[at(k)].pg_addr # addr_to_page(cpu[k].address)
  IN /\ cpu[k].pc = "lookup"
     /\ Go(k, [cpu[k] EXCEPT !.pc = IF other THEN "clear0" ELSE "load0"])
     /\ spcd_addr_conflict' = IF other /\ mem[at(k)].pg_addr # 0
                              THEN (spcd_addr_conflict + 1) % ULONG_RANGE
                              ELSE spcd_addr_conflict
     /\ UNCHANGED << mem, spcd_matrix, spcd_shift, history >>

Clear0(k) ==
  /\ cpu[k].pc = "clear0" /\ Go(k, [cpu[k] EXCEPT !.pc = "clear1"])
  /\ set(k, 0, Nobody)
  /\ UNCHANGED << spcd_matrix, spcd_addr_conflict, spcd_shift, history >>

\* Faulty variant: the second sharer is not cleared.
Clear1Not(k) ==
  /\ cpu[k].pc = "clear1" /\ Go(k, [cpu[k] EXCEPT !.pc = "own"])
  /\ UNCHANGED << vars, history >>

Clear1(k) ==
  /\ cpu[k].pc = "clear1" /\ Go(k, [cpu[k] EXCEPT !.pc = "own"])
  /\ set(k, 1, Nobody)
  /\ UNCHANGED << spcd_matrix, spcd_addr_conflict, spcd_shift, history >>

Own(k) ==
  /\ cpu[k].pc = "own" /\ Go(k, [cpu[k] EXCEPT !.pc = "load0"])
  /\ mem' = [mem EXCEPT ![at(k)].pg_addr = addr_to_page(cpu[k].address)]
  /\ raced' = IF cpu[k].alone THEN raced \ {at(k)} ELSE raced
  /\ UNCHANGED << spcd_matrix, spcd_addr_conflict, spcd_shift, faults, touched >>

-----------------------------------------------------------------------------
(* spcd_check_comm *)

Load0(k) ==
  /\ cpu[k].pc = "load0"
  /\ Go(k, [cpu[k] EXCEPT !.pc = "load1", !.sh[0] = mem[at(k)].sharer[0]])
  /\ UNCHANGED << vars, history >>

\* The positions of the sharers to count with, from the switch.
positions(t, s) ==
  IF get_num_sharers(s) = 1 THEN IF s[0] = t THEN << >> ELSE << 0 >>
  ELSE IF get_num_sharers(s) = 0 THEN << >>
  ELSE IF s[0] = t THEN << 1 >> ELSE IF s[1] = t THEN << 0 >> ELSE << 0, 1 >>

\* Faulty variant: the sharer in front does not move back.
afterCountsNoBack(t, s) == IF s[0] = t THEN "done" ELSE "front"

\* What follows when the counting is done.
afterCounts(t, s) ==
  IF get_num_sharers(s) = 0 THEN "front" ELSE IF s[0] = t THEN "done" ELSE "back"

Load1(k) ==
  LET t == cpu[k].tid
      s == [cpu[k].sh EXCEPT ![1] = mem[at(k)].sharer[1]]
  IN /\ cpu[k].pc = "load1"
     /\ Go(k, [cpu[k] EXCEPT !.sh = s, !.todo = positions(t, s),
                 !.pc = IF positions(t, s) = << >> THEN afterCounts(t, s) ELSE "count"])
     /\ UNCHANGED << vars, history >>

\* The counter that inc_comm takes: row and column in an array without bounds.
counter(i, j) ==
  IF j # Nobody THEN cell(i, j) ELSE << i - 1, max_threads - 1 >>

partner(k) == cpu[k].sh[Head(cpu[k].todo)]

\* The counter is loaded.  Before the matrix there is foreign memory.
Count(k) ==
  LET c == counter(cpu[k].tid, partner(k))
  IN /\ cpu[k].pc = "count"
     /\ Go(k, [cpu[k] EXCEPT !.pc = "add", !.met = @ \cup {partner(k)},
                 !.old = IF c \in DOMAIN spcd_matrix THEN spcd_matrix[c] ELSE 0])
     /\ UNCHANGED << vars, history >>

\* It is stored, and the next sharer is loaded.
Add(k) ==
  LET c == counter(cpu[k].tid, partner(k))
      rest == Tail(cpu[k].todo)
  IN /\ cpu[k].pc = "add"
     /\ spcd_matrix' = [ij \in DOMAIN spcd_matrix |->
                          IF ij = c THEN (cpu[k].old + 1) % UINT_RANGE
                          ELSE spcd_matrix[ij]]
     /\ Go(k, [cpu[k] EXCEPT !.todo = rest, !.old = 0,
                 !.sh[1] = IF rest = << >> THEN @ ELSE mem[at(k)].sharer[1],
                 !.pc = IF rest # << >> THEN "count"
                        ELSE afterCounts(cpu[k].tid, cpu[k].sh)])
     /\ UNCHANGED << mem, spcd_addr_conflict, spcd_shift, history >>

\* sharer[1] = sharer[0], a load and a store.
Back(k) ==
  /\ cpu[k].pc = "back"
  /\ Go(k, [cpu[k] EXCEPT !.pc = "store", !.old = mem[at(k)].sharer[0]])
  /\ UNCHANGED << vars, history >>

Store(k) ==
  /\ cpu[k].pc = "store" /\ Go(k, [cpu[k] EXCEPT !.pc = "front", !.old = 0])
  /\ set(k, 1, cpu[k].old)
  /\ UNCHANGED << spcd_matrix, spcd_addr_conflict, spcd_shift, history >>

Front(k) ==
  /\ cpu[k].pc = "front" /\ Go(k, [cpu[k] EXCEPT !.pc = "done"])
  /\ set(k, 0, cpu[k].tid)
  /\ UNCHANGED << spcd_matrix, spcd_addr_conflict, spcd_shift, history >>

Done(k) ==
  /\ cpu[k].pc = "done" /\ Go(k, Idle)
  /\ UNCHANGED << vars, history >>

RaceNext ==
  \E k \in CPUs :
    \/ \E t \in Tids, a \in Addresses : Fault(k, t, a)
    \/ Lookup(k) \/ Clear0(k) \/ Clear1(k) \/ Own(k) \/ Load0(k) \/ Load1(k)
    \/ Count(k) \/ Add(k) \/ Back(k) \/ Store(k) \/ Front(k) \/ Done(k)

RaceSpec == RaceInit /\ [][RaceNext]_raceVars

-----------------------------------------------------------------------------
(* Properties *)

\* However the handlers interleave, an element that belongs to a page names
\* only threads that came to it, and only threads that came to one element
\* have a communication: nothing is left of the zeroed table, where thread 0
\* is the sharer of all elements (mem.c:34).
NamesOnlyComers ==
  /\ \A e \in Elements, i \in 0 .. 1 :
       mem[e].pg_addr # 0 =>
         mem[e].sharer[i] = Nobody \/ << mem[e].sharer[i], e >> \in touched
  /\ \A i, j \in Tids : i > j /\ j < max_threads - 1 /\ get_comm(i, j) > 0 =>
       \E e \in Elements : << i, e >> \in touched /\ << j, e >> \in touched

\* A handler that has its element to itself, whatever runs on the others, has
\* at its end counted and stored what spcd_check_comm does in one step in
\* CommDetect: races on one element harm no other, and what they leave behind
\* lasts only until a handler takes the element over (mem.c:34) undisturbed.
AtomicWhenAlone ==
  \A k \in CPUs : cpu[k].pc = "done" /\ cpu[k].alone /\ at(k) \notin raced =>
    LET t == cpu[k].tid
        p == addr_to_page(cpu[k].address)
        s == IF cpu[k].was.pg_addr = p THEN cpu[k].was.sharer
             ELSE sharers(Nobody, Nobody)
    IN /\ mem[at(k)] = [pg_addr |-> p, sharer |-> newSharers(t, s)]
       /\ cpu[k].met = {s[0], s[1]} \ {t, Nobody}

\* "one previous access => needs to be in pos 0" (comm.c:26), when the switch
\* finds one sharer.
OneSharerFirst ==
  \A k \in CPUs : cpu[k].pc = "count" /\ get_num_sharers(cpu[k].sh) = 1 =>
    cpu[k].sh[0] # Nobody

=============================================================================
