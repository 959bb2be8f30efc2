----------------------------- MODULE CommDetect -----------------------------
(***************************************************************************)
(* Communication detection: the direct-mapped page table of src/mem.c, the *)
(* two sharers of each element and the triangular matrix of src/comm.c and *)
(* src/spcd.h, as pte_fault_handler drives them, one fault at a time.      *)
(*                                                                         *)
(* An element's time stamp is left out: inc_comm takes it and reads none   *)
(* of it.  A matrix that is not allocated yet is a matrix of zeros:        *)
(* spcd_comm_init zeroes it before the first thread is registered.         *)
(***************************************************************************)
EXTENDS Integers, FiniteSets

CONSTANTS
  Tids,         \* the rows of the matrix
  Addresses,    \* physical addresses that are accessed
  Shifts,       \* values of spcd_shift
  Elements,     \* indices of the page table
  hash_32,      \* page number -> element
  UINT_RANGE,   \* 2^32 in the code
  ULONG_RANGE   \* 2^64 in the code

\* The page numbers of all granularities.
Pages == {a \div (2^s) : a \in Addresses, s \in Shifts}

ASSUME CommAssumption ==
  /\ Tids \subseteq Nat /\ 0 \in Tids
  /\ Addresses \subseteq Nat /\ Shifts \subseteq Nat
  /\ Pages \subseteq Nat
  /\ hash_32 \in [Pages -> Elements]
  /\ UINT_RANGE \in Nat \ {0} /\ ULONG_RANGE \in Nat \ {0}

VARIABLES
  mem,                  \* element -> [pg_addr, sharer]
  spcd_matrix,          \* <<i, j>> -> count, of which i > j is used
  spcd_shift,           \* the granularity
  spcd_addr_conflict    \* elements taken over from another page

vars == << mem, spcd_matrix, spcd_shift, spcd_addr_conflict >>

Nobody == -1

Sharers == [0 .. 1 -> Tids \cup {Nobody}]
MemInfo == [pg_addr : Pages \cup {0}, sharer : Sharers]

TypeOK ==
  /\ mem \in [Elements -> MemInfo]
  /\ spcd_matrix \in [Tids \X Tids -> 0 .. UINT_RANGE - 1]
  /\ spcd_shift \in Shifts
  /\ spcd_addr_conflict \in 0 .. ULONG_RANGE - 1

sharers(first, second) == [k \in 0 .. 1 |-> IF k = 0 THEN first ELSE second]

\* memset(mem, 0, ...): page 0 with thread 0 as both sharers.
ZeroedElement == [pg_addr |-> 0, sharer |-> sharers(0, 0)]

ZeroedMatrix == [ij \in Tids \X Tids |-> 0]

Init ==
  /\ mem = [e \in Elements |-> ZeroedElement]
  /\ spcd_matrix = ZeroedMatrix
  /\ spcd_shift \in Shifts
  /\ spcd_addr_conflict = 0

-----------------------------------------------------------------------------
(* The matrix *)

cell(first, second) ==
  IF first > second THEN << first, second >> ELSE << second, first >>

get_comm(first, second) == spcd_matrix[cell(first, second)]

\* Faulty variant: a counter that does not wrap.
inc_comm_unbounded(m, first, second) == [m EXCEPT ![cell(first, second)] = @ + 1]

inc_comm(m, first, second) ==
  [m EXCEPT ![cell(first, second)] = (@ + 1) % UINT_RANGE]

-----------------------------------------------------------------------------
(* The page table *)

addr_to_page(address) == address \div (2^spcd_shift)

elementOf(address) == hash_32[addr_to_page(address)]

\* The element of an address, initialised for it when it is another page's.
spcd_get_mem_init(address) ==
  IF mem[elementOf(address)].pg_addr = addr_to_page(address)
  THEN mem[elementOf(address)]
  ELSE [pg_addr |-> addr_to_page(address), sharer |-> sharers(Nobody, Nobody)]

\* Another page loses its element.
conflicts(address) ==
  mem[elementOf(address)].pg_addr \notin {addr_to_page(address), 0}

-----------------------------------------------------------------------------
(* spcd_check_comm.  One operator per case of the switch: s is the pair of *)
(* sharers that the element holds.                                         *)

get_num_sharers(s) == Cardinality({k \in 0 .. 1 : s[k] # Nobody})

\* No one accessed the page before.
NoSharer(t, s) ==
  /\ get_num_sharers(s) = 0
  /\ UNCHANGED spcd_matrix

\* Faulty variant: the test sharer[0] != tid is forgotten.
OneSharerUntested(t, s) ==
  /\ get_num_sharers(s) = 1
  /\ spcd_matrix' = inc_comm(spcd_matrix, t, s[0])

OneSharer(t, s) ==
  /\ get_num_sharers(s) = 1
  /\ \/ /\ s[0] # t
        /\ spcd_matrix' = inc_comm(spcd_matrix, t, s[0])
     \/ /\ s[0] = t
        /\ UNCHANGED spcd_matrix

\* Faulty variant: a third thread communicates with the last sharer only.
TwoSharersLastOnly(t, s) ==
  /\ get_num_sharers(s) = 2
  /\ \/ s[0] # t /\ spcd_matrix' = inc_comm(spcd_matrix, t, s[0])
     \/ s[0] = t /\ spcd_matrix' = inc_comm(spcd_matrix, t, s[1])

TwoSharers(t, s) ==
  /\ get_num_sharers(s) = 2
  /\ \/ /\ s[0] # t /\ s[1] # t
        /\ spcd_matrix' =
             inc_comm(inc_comm(spcd_matrix, t, s[0]), t, s[1])
     \/ /\ s[0] = t
        /\ spcd_matrix' = inc_comm(spcd_matrix, t, s[1])
     \/ /\ s[0] # t /\ s[1] = t
        /\ spcd_matrix' = inc_comm(spcd_matrix, t, s[0])

\* Faulty variant: a thread that is the older sharer comes to the front
\* without the other one moving back.
newSharersNoShift(t, s) ==
  IF s[0] = t THEN s
  ELSE IF s[1] = t THEN sharers(t, s[1]) ELSE sharers(t, s[0])

\* The accessing thread is first afterwards and moves the thread that was
\* there back.
newSharers(t, s) == IF s[0] = t THEN s ELSE sharers(t, s[0])

spcd_check_comm(t, address) ==
  LET elem == spcd_get_mem_init(address)
      s == elem.sharer
  IN /\ NoSharer(t, s) \/ OneSharer(t, s) \/ TwoSharers(t, s)
     /\ mem' = [mem EXCEPT ![elementOf(address)] =
                  [elem EXCEPT !.sharer = newSharers(t, s)]]
     /\ spcd_addr_conflict' =
          IF conflicts(address)
          THEN (spcd_addr_conflict + 1) % ULONG_RANGE
          ELSE spcd_addr_conflict
     /\ UNCHANGED spcd_shift

-----------------------------------------------------------------------------
(* The other operations on this state *)

\* At the end of an application, from reset_stats.
spcd_mem_init ==
  /\ mem' = [e \in Elements |-> ZeroedElement]
  /\ spcd_addr_conflict' = 0
  /\ UNCHANGED << spcd_matrix, spcd_shift >>

\* At the start of an application.
spcd_comm_init ==
  /\ spcd_matrix' = ZeroedMatrix
  /\ UNCHANGED << mem, spcd_shift, spcd_addr_conflict >>

\* A write to the file matrix in procfs.
matrix_reset ==
  /\ spcd_matrix' = ZeroedMatrix
  /\ UNCHANGED << mem, spcd_shift, spcd_addr_conflict >>

\* A write to the file shift in procfs.  The page table is left as it is,
\* with page numbers of the old granularity.
set_shift(v) ==
  /\ spcd_shift' = v
  /\ UNCHANGED << mem, spcd_matrix, spcd_addr_conflict >>

-----------------------------------------------------------------------------

Next ==
  \/ \E t \in Tids, a \in Addresses : spcd_check_comm(t, a)
  \/ spcd_mem_init
  \/ spcd_comm_init
  \/ matrix_reset
  \/ \E v \in Shifts : set_shift(v)

Spec == Init /\ [][Next]_vars

-----------------------------------------------------------------------------
(* Properties *)

\* An element that belongs to a page holds its last accessors: two sharers
\* differ (else a thread would communicate with itself) and a single one is
\* in position 0 (comm.c:26), whatever sequence of accesses, take-overs and
\* changes of the granularity led there.
SharersWellFormed ==
  \A e \in Elements : mem[e].pg_addr # 0 =>
    LET s == mem[e].sharer
    IN s[0] # Nobody /\ s[0] # s[1]

\* No access counts a communication of a thread with itself, and no counter
\* that get_comm never reads is counted: the diagonal and the upper half of
\* the matrix stay zero.
NoSelfCommunication ==
  \A i, j \in Tids : i <= j => spcd_matrix[<< i, j >>] = 0

-----------------------------------------------------------------------------
(* The table implements CommAbstract: a page is remembered while it has    *)
(* its element.                                                            *)

\* p has its element.
present(p) == mem[hash_32[p]].pg_addr = p

sharerOf(p, k) == IF present(p) THEN mem[hash_32[p]].sharer[k] ELSE Nobody

absLast == [p \in Pages |-> sharerOf(p, 0)]

absPrevious == [p \in Pages |-> sharerOf(p, 1)]

absComm == [ij \in Tids \X Tids |-> get_comm(ij[1], ij[2])]

Abstract == INSTANCE CommAbstract WITH
  last <- absLast, previous <- absPrevious, comm <- absComm,
  forgotten <- spcd_addr_conflict

\* Communication detection counts exactly what the abstract detector counts,
\* with the accessors in the same order, and forgets a page only when it
\* counts a conflict.
ImplementsAbstract == Abstract!Spec

=============================================================================
