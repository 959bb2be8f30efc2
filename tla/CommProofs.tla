----------------------------- MODULE CommProofs -----------------------------
(***************************************************************************)
(* Proofs about CommDetect for every set of threads and addresses, every   *)
(* set of granularities, every table size and hash and every counter width,*)
(* and, in the second part, about CommRace for every set of processors and *)
(* every number of faults.                                                 *)
(***************************************************************************)
EXTENDS CommRace, FiniteSetTheorems, TLAPS

-----------------------------------------------------------------------------
(* Facts about the operators. *)

\* get_num_sharers tells apart the three states of a pair of sharers.
LEMMA NumSharers ==
  ASSUME NEW s \in Sharers
  PROVE  /\ get_num_sharers(s) = 0 <=> s[0] = Nobody /\ s[1] = Nobody
         /\ get_num_sharers(s) = 2 <=> s[0] # Nobody /\ s[1] # Nobody
         /\ get_num_sharers(s) \in 0 .. 2
<1> DEFINE S == {k \in 0 .. 1 : s[k] # Nobody}
<1>1. CASE s[0] = Nobody /\ s[1] = Nobody
  <2>1. S = {}
    BY <1>1
  <2> QED
    BY <1>1, <2>1, FS_EmptySet DEF get_num_sharers
<1>2. CASE s[0] # Nobody /\ s[1] = Nobody
  <2>1. S = {0}
    BY <1>2
  <2> QED
    BY <1>2, <2>1, FS_Singleton DEF get_num_sharers
<1>3. CASE s[0] = Nobody /\ s[1] # Nobody
  <2>1. S = {1}
    BY <1>3
  <2> QED
    BY <1>3, <2>1, FS_Singleton DEF get_num_sharers
<1>4. CASE s[0] # Nobody /\ s[1] # Nobody
  <2>1. S = {0} \cup {1} /\ 1 \notin {0}
    BY <1>4
  <2>2. IsFiniteSet({0}) /\ Cardinality({0}) = 1
    BY FS_Singleton
  <2>3. Cardinality({0} \cup {1}) = 1 + 1
    BY <2>1, <2>2, FS_AddElement
  <2> QED
    BY <1>4, <2>1, <2>3 DEF get_num_sharers
<1> QED
  BY <1>1, <1>2, <1>3, <1>4

\* The pair that sharers builds.
LEMMA SharersPair ==
  ASSUME NEW a \in Tids \cup {Nobody}, NEW b \in Tids \cup {Nobody}
  PROVE  /\ sharers(a, b) \in Sharers
         /\ sharers(a, b)[0] = a /\ sharers(a, b)[1] = b
BY DEF sharers, Sharers

\* A counter of the matrix stays in its range and inc_comm changes one cell.
LEMMA IncComm ==
  ASSUME NEW m \in [Tids \X Tids -> 0 .. UINT_RANGE - 1],
         NEW i \in Tids, NEW j \in Tids
  PROVE  /\ inc_comm(m, i, j) \in [Tids \X Tids -> 0 .. UINT_RANGE - 1]
         /\ cell(i, j) \in Tids \X Tids
         /\ inc_comm(m, i, j)[cell(i, j)] = (m[cell(i, j)] + 1) % UINT_RANGE
         /\ \A x \in Tids \X Tids :
              x # cell(i, j) => inc_comm(m, i, j)[x] = m[x]
<1>1. cell(i, j) \in Tids \X Tids
  BY DEF cell
<1>2. (m[cell(i, j)] + 1) % UINT_RANGE \in 0 .. UINT_RANGE - 1
  BY <1>1, CommAssumption
<1> QED
  BY <1>1, <1>2 DEF inc_comm

-----------------------------------------------------------------------------
(* Types. *)

\* The element found for an address, initialised if necessary.
LEMMA ElementFound ==
  ASSUME TypeOK, NEW a \in Addresses
  PROVE  /\ addr_to_page(a) \in Pages
         /\ elementOf(a) \in Elements
         /\ spcd_get_mem_init(a) \in MemInfo
         /\ spcd_get_mem_init(a).pg_addr = addr_to_page(a)
         /\ spcd_get_mem_init(a).sharer \in Sharers
<1>1. addr_to_page(a) \in Pages
  BY DEF addr_to_page, Pages, TypeOK
<1>2. elementOf(a) \in Elements
  BY <1>1, CommAssumption DEF elementOf
<1>3. sharers(Nobody, Nobody) \in Sharers
  BY SharersPair
<1> QED
  BY <1>1, <1>2, <1>3 DEF spcd_get_mem_init, TypeOK, MemInfo

\* Counting keeps the counters in their range.  The first sharer being a
\* thread matters: a pair with the second sharer alone would make the code
\* count in row or column -1.
LEMMA MatrixTypeOK ==
  ASSUME TypeOK, NEW t \in Tids, NEW s \in Sharers,
         s[0] \in Tids \/ s[1] = Nobody,
         NoSharer(t, s) \/ OneSharer(t, s) \/ TwoSharers(t, s)
  PROVE  spcd_matrix' \in [Tids \X Tids -> 0 .. UINT_RANGE - 1]
<1> DEFINE M == [Tids \X Tids -> 0 .. UINT_RANGE - 1]
<1>1. spcd_matrix \in M
  BY DEF TypeOK
<1>2. s[0] \in Tids \cup {Nobody} /\ s[1] \in Tids \cup {Nobody}
  BY DEF Sharers
<1>3. CASE NoSharer(t, s)
  BY <1>1, <1>3 DEF NoSharer
<1>4. CASE OneSharer(t, s)
  <2>1. s[0] \in Tids
    BY <1>2, <1>4, NumSharers DEF OneSharer
  <2>2. inc_comm(spcd_matrix, t, s[0]) \in M
    BY <1>1, <2>1, IncComm
  <2> QED
    BY <1>1, <1>4, <2>2 DEF OneSharer
<1>5. CASE TwoSharers(t, s)
  <2>1. s[0] \in Tids /\ s[1] \in Tids
    BY <1>2, <1>5, NumSharers DEF TwoSharers
  <2>2. /\ inc_comm(spcd_matrix, t, s[0]) \in M
        /\ inc_comm(spcd_matrix, t, s[1]) \in M
    BY <1>1, <2>1, IncComm
  <2>3. inc_comm(inc_comm(spcd_matrix, t, s[0]), t, s[1]) \in M
    BY <2>1, <2>2, IncComm
  <2> QED
    BY <1>5, <2>2, <2>3 DEF TwoSharers
<1> QED
  BY <1>3, <1>4, <1>5

\* The pair of sharers that an access leaves.
LEMMA NewSharers ==
  ASSUME NEW t \in Tids, NEW s \in Sharers
  PROVE  /\ newSharers(t, s) \in Sharers
         /\ newSharers(t, s)[0] = t
         /\ newSharers(t, s)[1] = IF s[0] = t THEN s[1] ELSE s[0]
<1>1. s[0] \in Tids \cup {Nobody}
  BY DEF Sharers
<1> QED
  BY <1>1, SharersPair DEF newSharers

-----------------------------------------------------------------------------
(* The inductive invariant: every element, zeroed or in use, has a thread  *)
(* in position 0; the two sharers of an element in use differ, and its     *)
(* page hashes to it.                                                      *)

FirstIsThread == \A e \in Elements : mem[e].sharer[0] \in Tids

PlacedByHash ==
  \A e \in Elements : mem[e].pg_addr # 0 => hash_32[mem[e].pg_addr] = e

IInv == TypeOK /\ FirstIsThread /\ SharersWellFormed /\ PlacedByHash

\* The invariant holds when the page table has been zeroed.
LEMMA InitIInv == Init => IInv
<1> SUFFICES ASSUME Init PROVE IInv
  OBVIOUS
<1>1. /\ sharers(0, 0) \in Sharers
      /\ sharers(0, 0)[0] = 0
  BY SharersPair, CommAssumption
<1>2. \A e \in Elements : mem[e] = ZeroedElement
  BY DEF Init
<1>3. ZeroedElement \in MemInfo
  BY <1>1 DEF ZeroedElement, MemInfo
<1>4. 0 \in 0 .. UINT_RANGE - 1 /\ 0 \in 0 .. ULONG_RANGE - 1
  BY CommAssumption
<1>5. TypeOK
  BY <1>3, <1>4 DEF Init, TypeOK, ZeroedMatrix
<1>6. FirstIsThread
  BY <1>1, <1>2, CommAssumption DEF FirstIsThread, ZeroedElement
<1>7. SharersWellFormed
  BY <1>2 DEF SharersWellFormed, ZeroedElement
<1>8. PlacedByHash
  BY <1>2 DEF PlacedByHash, ZeroedElement
<1> QED
  BY <1>5, <1>6, <1>7, <1>8 DEF IInv

\* What an access finds: the sharers of an element of this page, or none.
LEMMA FoundSharers ==
  ASSUME IInv, NEW a \in Addresses,
         NEW s, s = spcd_get_mem_init(a).sharer
  PROVE  /\ s \in Sharers
         /\ s[0] \in Tids \/ (s[0] = Nobody /\ s[1] = Nobody)
         /\ s[0] \in Tids /\ addr_to_page(a) # 0 => s[0] # s[1]
<1>1. elementOf(a) \in Elements /\ s \in Sharers
  BY ElementFound DEF IInv
<1>2. CASE mem[elementOf(a)].pg_addr = addr_to_page(a)
  <2>1. s = mem[elementOf(a)].sharer
    BY <1>2 DEF spcd_get_mem_init
  <2>2. s[0] \in Tids
    BY <1>1, <2>1 DEF IInv, FirstIsThread
  <2>3. addr_to_page(a) # 0 => s[0] # s[1]
    BY <1>1, <1>2, <2>1 DEF IInv, SharersWellFormed
  <2> QED
    BY <1>1, <2>2, <2>3
<1>3. CASE mem[elementOf(a)].pg_addr # addr_to_page(a)
  <2>1. s[0] = Nobody /\ s[1] = Nobody
    BY <1>3, SharersPair DEF spcd_get_mem_init
  <2>2. Nobody \notin Tids
    BY CommAssumption DEF Nobody
  <2> QED
    BY <1>1, <2>1, <2>2
<1> QED
  BY <1>2, <1>3

\* An access preserves the invariant.
LEMMA CheckIInv ==
  ASSUME IInv, NEW t \in Tids, NEW a \in Addresses, spcd_check_comm(t, a)
  PROVE  IInv'
<1>1. PICK s \in Sharers : s = spcd_get_mem_init(a).sharer
  BY ElementFound DEF IInv
<1>2. /\ s[0] \in Tids \/ (s[0] = Nobody /\ s[1] = Nobody)
      /\ s[0] \in Tids /\ addr_to_page(a) # 0 => s[0] # s[1]
  BY <1>1, FoundSharers
<1>3. NoSharer(t, s) \/ OneSharer(t, s) \/ TwoSharers(t, s)
  BY <1>1 DEF spcd_check_comm
<1>4. PICK el \in MemInfo :
        /\ el.pg_addr = addr_to_page(a)
        /\ el.sharer = newSharers(t, s)
        /\ mem' = [mem EXCEPT ![elementOf(a)] = el]
  <2>1. /\ spcd_get_mem_init(a) \in MemInfo
        /\ spcd_get_mem_init(a).pg_addr = addr_to_page(a)
    BY ElementFound DEF IInv
  <2>2. newSharers(t, s) \in Sharers
    BY NewSharers
  <2> QED
    BY <1>1, <2>1, <2>2 DEF spcd_check_comm, MemInfo
<1>5. TypeOK'
  <2>1. spcd_matrix' \in [Tids \X Tids -> 0 .. UINT_RANGE - 1]
    BY <1>2, <1>3, MatrixTypeOK DEF IInv
  <2>2. mem' \in [Elements -> MemInfo]
    BY <1>4 DEF IInv, TypeOK
  <2>3. spcd_addr_conflict' \in 0 .. ULONG_RANGE - 1
    BY CommAssumption DEF spcd_check_comm, IInv, TypeOK
  <2>4. addr_to_page(a) \in Pages
    BY ElementFound DEF IInv
  <2> QED
    BY <2>1, <2>2, <2>3, <2>4 DEF spcd_check_comm, IInv, TypeOK
<1>6. FirstIsThread'
  BY <1>4, NewSharers DEF IInv, FirstIsThread, TypeOK
<1>7. SharersWellFormed'
  <2>1. addr_to_page(a) # 0 =>
          newSharers(t, s)[0] # Nobody
          /\ newSharers(t, s)[0] # newSharers(t, s)[1]
    BY <1>2, NewSharers, CommAssumption DEF Nobody
  <2> QED
    BY <1>4, <2>1 DEF IInv, SharersWellFormed, TypeOK
<1>8. PlacedByHash'
  <2>1. elementOf(a) = hash_32[addr_to_page(a)]
    BY DEF elementOf
  <2> QED
    BY <1>4, <2>1 DEF IInv, PlacedByHash, TypeOK
<1> QED
  BY <1>5, <1>6, <1>7, <1>8 DEF IInv

\* Every step preserves the invariant.
LEMMA StepIInv == IInv /\ [Next]_vars => IInv'
<1> SUFFICES ASSUME IInv, [Next]_vars PROVE IInv'
  OBVIOUS
<1>1. ASSUME NEW t \in Tids, NEW a \in Addresses, spcd_check_comm(t, a)
      PROVE  IInv'
  BY <1>1, CheckIInv
<1>2. CASE spcd_mem_init
  <2>1. /\ sharers(0, 0) \in Sharers
        /\ sharers(0, 0)[0] = 0
    BY SharersPair, CommAssumption
  <2>2. ZeroedElement \in MemInfo
    BY <2>1 DEF ZeroedElement, MemInfo
  <2> QED
    BY <1>2, <2>1, <2>2, CommAssumption
       DEF spcd_mem_init, IInv, TypeOK, FirstIsThread, SharersWellFormed,
           PlacedByHash, ZeroedElement
<1>3. CASE spcd_comm_init \/ matrix_reset
  <2>1. 0 \in 0 .. UINT_RANGE - 1
    BY CommAssumption
  <2>2. ZeroedMatrix \in [Tids \X Tids -> 0 .. UINT_RANGE - 1]
    BY <2>1 DEF ZeroedMatrix
  <2> QED
    BY <1>3, <2>2
       DEF spcd_comm_init, matrix_reset, IInv, TypeOK, FirstIsThread,
           SharersWellFormed, PlacedByHash
<1>4. ASSUME NEW v \in Shifts, set_shift(v) PROVE IInv'
  BY <1>4 DEF set_shift, IInv, TypeOK, FirstIsThread, SharersWellFormed,
              PlacedByHash
<1>5. CASE UNCHANGED vars
  BY <1>5 DEF vars, IInv, TypeOK, FirstIsThread, SharersWellFormed,
              PlacedByHash
<1> QED
  BY <1>1, <1>2, <1>3, <1>4, <1>5 DEF Next

\* The invariant holds throughout.
LEMMA Invariance == Spec => []IInv
BY InitIInv, StepIInv, PTL DEF Spec

\* Type correctness: in particular every counter stays below its width, and
\* no access ever counts in a row or column that is not a thread's.
THEOREM TypeCorrect == Spec => []TypeOK
BY Invariance, PTL DEF IInv

\* The two sharers of an element in use differ and a single one is in
\* position 0, for every table size, hash and sequence of operations,
\* changes of the granularity included.
THEOREM SharersCorrect == Spec => []SharersWellFormed
BY Invariance, PTL DEF IInv

-----------------------------------------------------------------------------
(* Without page 0 (spcd_shift at most PAGE_SHIFT, see the README) the      *)
(* table implements CommAbstract.                                          *)

\* An access counts with these threads.
counted(t, s) == {s[0], s[1]} \ {t, Nobody}

\* A cell belongs to an unordered pair of threads.
LEMMA CellOfPair ==
  ASSUME NEW i \in Tids, NEW j \in Tids, NEW k \in Tids, NEW l \in Tids
  PROVE  cell(i, j) = cell(k, l) <=> (i = k /\ j = l) \/ (i = l /\ j = k)
BY CommAssumption DEF cell

\* The switch of spcd_check_comm counts one communication with each sharer
\* that is another thread.
LEMMA SwitchCounts ==
  ASSUME TypeOK, NEW t \in Tids, NEW s \in Sharers,
         s[0] \in Tids \/ (s[0] = Nobody /\ s[1] = Nobody),
         s[0] \in Tids => s[0] # s[1],
         NoSharer(t, s) \/ OneSharer(t, s) \/ TwoSharers(t, s),
         NEW i \in Tids, NEW j \in Tids
  PROVE  spcd_matrix'[cell(i, j)] =
           IF \/ i = t /\ j \in counted(t, s)
              \/ j = t /\ i \in counted(t, s)
           THEN (spcd_matrix[cell(i, j)] + 1) % UINT_RANGE
           ELSE spcd_matrix[cell(i, j)]
<1> DEFINE M == [Tids \X Tids -> 0 .. UINT_RANGE - 1]
<1>1. spcd_matrix \in M
  BY DEF TypeOK
<1>2. s[1] \in Tids \cup {Nobody} /\ Nobody \notin Tids
  BY CommAssumption DEF Sharers, Nobody
<1>3. ASSUME NEW m \in M, NEW r \in Tids
      PROVE  inc_comm(m, t, r)[cell(i, j)] =
               IF (i = t /\ j = r) \/ (j = t /\ i = r)
               THEN (m[cell(i, j)] + 1) % UINT_RANGE ELSE m[cell(i, j)]
  <2>1. cell(i, j) \in Tids \X Tids
    BY <1>1, IncComm
  <2>2. cell(i, j) = cell(t, r) <=> (i = t /\ j = r) \/ (j = t /\ i = r)
    BY CellOfPair
  <2>3. inc_comm(m, t, r)[cell(t, r)] = (m[cell(t, r)] + 1) % UINT_RANGE
    BY IncComm, ZenonT(60)
  <2>4. CASE cell(i, j) = cell(t, r)
    BY <2>2, <2>3, <2>4
  <2>5. CASE cell(i, j) # cell(t, r)
    BY <2>1, <2>2, <2>5 DEF inc_comm
  <2> QED
    BY <2>4, <2>5
<1>4. CASE NoSharer(t, s)
  <2>1. counted(t, s) = {}
    BY <1>4, NumSharers DEF NoSharer, counted
  <2> QED
    BY <1>4, <2>1 DEF NoSharer
<1>5. CASE OneSharer(t, s)
  <2>1. s[0] \in Tids /\ s[1] = Nobody
    BY <1>2, <1>5, NumSharers DEF OneSharer
  <2>2. counted(t, s) = {s[0]} \ {t}
    BY <1>2, <2>1 DEF counted
  <2>3. CASE s[0] # t
    BY <1>1, <1>3, <1>5, <2>1, <2>2, <2>3, ZenonT(60) DEF OneSharer
  <2>4. CASE s[0] = t
    BY <1>5, <2>2, <2>4 DEF OneSharer
  <2> QED
    BY <2>3, <2>4
<1>6. CASE TwoSharers(t, s)
  <2>1. s[0] \in Tids /\ s[1] \in Tids /\ s[0] # s[1]
    BY <1>2, <1>6, NumSharers DEF TwoSharers
  <2>2. counted(t, s) = {s[0], s[1]} \ {t}
    BY <1>2, <2>1 DEF counted
  <2>3. CASE s[0] # t /\ s[1] # t
    <3>1. spcd_matrix' = inc_comm(inc_comm(spcd_matrix, t, s[0]), t, s[1])
      BY <1>6, <2>3 DEF TwoSharers
    <3>2. inc_comm(spcd_matrix, t, s[0]) \in M
      BY <1>1, <2>1, IncComm
    <3>3. spcd_matrix'[cell(i, j)] =
            IF (i = t /\ j = s[1]) \/ (j = t /\ i = s[1])
            THEN (inc_comm(spcd_matrix, t, s[0])[cell(i, j)] + 1) % UINT_RANGE
            ELSE inc_comm(spcd_matrix, t, s[0])[cell(i, j)]
      BY <1>3, <2>1, <3>1, <3>2
    <3>4. inc_comm(spcd_matrix, t, s[0])[cell(i, j)] =
            IF (i = t /\ j = s[0]) \/ (j = t /\ i = s[0])
            THEN (spcd_matrix[cell(i, j)] + 1) % UINT_RANGE
            ELSE spcd_matrix[cell(i, j)]
      BY <1>1, <1>3, <2>1
    <3>5. counted(t, s) = {s[0], s[1]}
      BY <2>2, <2>3
    <3> QED
      BY <2>1, <2>3, <3>3, <3>4, <3>5
  <2>4. CASE s[0] = t
    <3>1. spcd_matrix' = inc_comm(spcd_matrix, t, s[1])
      BY <1>6, <2>4 DEF TwoSharers
    <3>2. counted(t, s) = {s[1]}
      BY <2>1, <2>2, <2>4
    <3> QED
      BY <1>1, <1>3, <2>1, <3>1, <3>2
  <2>5. CASE s[1] = t
    <3>1. spcd_matrix' = inc_comm(spcd_matrix, t, s[0])
      BY <1>6, <2>1, <2>5 DEF TwoSharers
    <3>2. counted(t, s) = {s[0]}
      BY <2>1, <2>2, <2>5
    <3> QED
      BY <1>1, <1>3, <2>1, <3>1, <3>2
  <2> QED
    BY <2>3, <2>4, <2>5
<1> QED
  BY <1>4, <1>5, <1>6

\* Without page 0 an access finds what the abstract detector remembers.
LEMMA FoundIsRemembered ==
  ASSUME IInv, NEW a \in Addresses,
         NEW s \in Sharers, s = spcd_get_mem_init(a).sharer
  PROVE  s[0] = absLast[addr_to_page(a)] /\ s[1] = absPrevious[addr_to_page(a)]
<1>1. addr_to_page(a) \in Pages
  BY ElementFound DEF IInv
<1>2. CASE mem[elementOf(a)].pg_addr = addr_to_page(a)
  BY <1>1, <1>2
     DEF spcd_get_mem_init, elementOf, absLast, absPrevious, sharerOf, present
<1>3. CASE mem[elementOf(a)].pg_addr # addr_to_page(a)
  BY <1>1, <1>3, SharersPair
     DEF spcd_get_mem_init, elementOf, absLast, absPrevious, sharerOf, present
<1> QED
  BY <1>2, <1>3

\* An access maps to an abstract access to its page: the same counts, the
\* same two threads remembered, and no page forgotten but the one whose
\* element is taken over, which is counted.
LEMMA AccessImplements ==
  ASSUME 0 \notin Pages, IInv, NEW t \in Tids, NEW a \in Addresses,
         spcd_check_comm(t, a)
  PROVE  Abstract!Access(t, addr_to_page(a))
<1> DEFINE p == addr_to_page(a)
           e == elementOf(a)
           q == mem[e].pg_addr
<1>1. p \in Pages /\ e \in Elements /\ e = hash_32[p] /\ p # 0
  BY ElementFound DEF IInv, elementOf
<1>2. PICK s \in Sharers : s = spcd_get_mem_init(a).sharer
  BY ElementFound DEF IInv
<1>3. /\ s[0] \in Tids \/ (s[0] = Nobody /\ s[1] = Nobody)
      /\ s[0] \in Tids => s[0] # s[1]
  BY <1>1, <1>2, FoundSharers
<1>4. s[0] = absLast[p] /\ s[1] = absPrevious[p]
  BY <1>2, FoundIsRemembered
<1>5. NoSharer(t, s) \/ OneSharer(t, s) \/ TwoSharers(t, s)
  BY <1>2 DEF spcd_check_comm
<1>6. mem'[e].pg_addr = p /\ mem'[e].sharer = newSharers(t, s)
  <2>1. spcd_get_mem_init(a) \in MemInfo /\ spcd_get_mem_init(a).pg_addr = p
    BY ElementFound DEF IInv
  <2> QED
    BY <1>1, <1>2, <2>1 DEF spcd_check_comm, IInv, TypeOK, MemInfo
<1>7. \A f \in Elements : f # e => mem'[f] = mem[f]
  BY <1>1 DEF spcd_check_comm, IInv, TypeOK
<1>8. Abstract!Count(t, Abstract!partners(t, p))
  <2>1. Abstract!partners(t, p) = counted(t, s)
    BY <1>4 DEF Abstract!partners, counted, Abstract!Nobody, Nobody
  <2>2. ASSUME NEW ij \in Tids \X Tids
        PROVE  absComm'[ij] =
                 IF \/ ij[1] = t /\ ij[2] \in counted(t, s)
                    \/ ij[2] = t /\ ij[1] \in counted(t, s)
                 THEN (absComm[ij] + 1) % UINT_RANGE
                 ELSE absComm[ij]
    <3>1. ij[1] \in Tids /\ ij[2] \in Tids
      BY <2>2
    <3>2. /\ absComm[ij] = spcd_matrix[cell(ij[1], ij[2])]
          /\ absComm'[ij] = spcd_matrix'[cell(ij[1], ij[2])]
      BY <2>2 DEF absComm, get_comm
    <3> QED
      BY <1>3, <1>5, <3>1, <3>2, SwitchCounts DEF IInv
  <2>3. absComm' = [ij \in Tids \X Tids |-> absComm'[ij]]
    BY DEF absComm
  <2> QED
    BY <2>1, <2>2, <2>3 DEF Abstract!Count
<1>9. newSharers(t, s)[0] = t
      /\ newSharers(t, s)[1] = IF absLast[p] = t THEN absPrevious[p]
                                                 ELSE absLast[p]
  BY <1>4, NewSharers
<1>10. /\ absLast'[p] = t
       /\ absPrevious'[p] = IF absLast[p] = t THEN absPrevious[p]
                                              ELSE absLast[p]
  BY <1>1, <1>6, <1>9 DEF absLast, absPrevious, sharerOf, present
<1>11. ASSUME NEW r \in Pages, r # p, r # q \/ q = p
       PROVE  absLast'[r] = absLast[r] /\ absPrevious'[r] = absPrevious[r]
  <2>1. CASE hash_32[r] = e
    <3>1. mem[hash_32[r]].pg_addr # r /\ mem'[hash_32[r]].pg_addr # r
      BY <1>6, <1>11, <2>1
    <3> QED
      BY <3>1 DEF absLast, absPrevious, sharerOf, present
  <2>2. CASE hash_32[r] # e
    <3>1. hash_32[r] \in Elements
      BY CommAssumption
    <3>2. mem'[hash_32[r]] = mem[hash_32[r]]
      BY <1>7, <2>2, <3>1
    <3> QED
      BY <3>2 DEF absLast, absPrevious, sharerOf, present
  <2> QED
    BY <2>1, <2>2
<1>12. /\ absLast' = [r \in Pages |-> absLast'[r]]
       /\ absPrevious' = [r \in Pages |-> absPrevious'[r]]
  BY DEF absLast, absPrevious
<1>13. CASE ~conflicts(a)
  <2>1. ASSUME NEW r \in Pages, r # p
        PROVE  absLast'[r] = absLast[r] /\ absPrevious'[r] = absPrevious[r]
    BY <1>1, <1>11, <1>13, <2>1 DEF conflicts
  <2>2. Abstract!Remember(t, p, {})
    BY <1>10, <1>12, <2>1 DEF Abstract!Remember
  <2>3. spcd_addr_conflict' = spcd_addr_conflict
    BY <1>13 DEF spcd_check_comm
  <2> QED
    BY <1>8, <2>2, <2>3 DEF Abstract!Access
<1>14. CASE conflicts(a)
  <2>1. q # p /\ q # 0 /\ q \in Pages
    BY <1>1, <1>14 DEF conflicts, IInv, TypeOK, MemInfo
  <2>2. hash_32[q] = e
    BY <1>1, <2>1 DEF IInv, PlacedByHash
  <2>3. absLast[q] \in Tids
    BY <1>1, <2>1, <2>2
       DEF absLast, sharerOf, present, IInv, FirstIsThread
  <2>4. absLast[q] # Nobody
    BY <2>3, CommAssumption DEF Nobody
  <2>5. absLast'[q] = Nobody /\ absPrevious'[q] = Nobody
    BY <1>6, <2>1, <2>2 DEF absLast, absPrevious, sharerOf, present
  <2>6. Abstract!Remember(t, p, {q})
    BY <1>10, <1>11, <1>12, <2>1, <2>5
       DEF Abstract!Remember, Abstract!Nobody, Nobody
  <2>7. spcd_addr_conflict' = (spcd_addr_conflict + 1) % ULONG_RANGE
    BY <1>14 DEF spcd_check_comm
  <2> QED
    BY <1>8, <2>1, <2>4, <2>6, <2>7
       DEF Abstract!Access, Abstract!Nobody, Nobody
<1> QED
  BY <1>13, <1>14

\* Every step of the table is a step of the abstract detector or none.
LEMMA StepImplements ==
  ASSUME 0 \notin Pages, IInv, [Next]_vars
  PROVE  [Abstract!Next]_(Abstract!vars)
<1>1. ASSUME NEW t \in Tids, NEW a \in Addresses, spcd_check_comm(t, a)
      PROVE  Abstract!Next
  <2>1. addr_to_page(a) \in Pages
    BY ElementFound DEF IInv
  <2> QED
    BY <1>1, <2>1, AccessImplements DEF Abstract!Next
<1>2. ASSUME spcd_mem_init PROVE Abstract!ForgetAll
  <2>1. \A p \in Pages : hash_32[p] \in Elements /\ p # 0
    BY CommAssumption
  <2>2. \A e \in Elements : mem'[e].pg_addr = 0
    BY <1>2 DEF spcd_mem_init, ZeroedElement
  <2>3. /\ absLast' = [p \in Pages |-> Nobody]
        /\ absPrevious' = [p \in Pages |-> Nobody]
    BY <2>1, <2>2 DEF absLast, absPrevious, sharerOf, present
  <2>4. absComm' = absComm
    BY <1>2 DEF spcd_mem_init, absComm, get_comm
  <2> QED
    BY <1>2, <2>3, <2>4
       DEF spcd_mem_init, Abstract!ForgetAll, Abstract!Nobody, Nobody
<1>3. ASSUME spcd_comm_init \/ matrix_reset PROVE Abstract!ResetCounts
  <2>1. \A i, j \in Tids : cell(i, j) \in Tids \X Tids
    BY DEF cell
  <2>2. absComm' = [ij \in Tids \X Tids |-> 0]
    BY <1>3, <2>1
       DEF spcd_comm_init, matrix_reset, ZeroedMatrix, absComm, get_comm
  <2> QED
    BY <1>3, <2>2
       DEF spcd_comm_init, matrix_reset, Abstract!ResetCounts, absLast,
           absPrevious, sharerOf, present
<1>4. ASSUME NEW v \in Shifts, set_shift(v) PROVE UNCHANGED Abstract!vars
  BY <1>4 DEF set_shift, Abstract!vars, absLast, absPrevious, absComm,
              sharerOf, present, get_comm
<1>5. ASSUME UNCHANGED vars PROVE UNCHANGED Abstract!vars
  BY <1>5 DEF vars, Abstract!vars, absLast, absPrevious, absComm, sharerOf,
              present, get_comm
<1> QED
  BY <1>1, <1>2, <1>3, <1>4, <1>5 DEF Next, Abstract!Next

\* When no page has number 0 the table implements the abstract detector: it
\* counts exactly one communication with each of the last two other threads
\* that accessed a page, and forgets nothing it does not count as a conflict.
THEOREM Implementation ==
  ASSUME 0 \notin Pages
  PROVE  Spec => ImplementsAbstract
<1>1. Init => Abstract!Init
  <2> SUFFICES ASSUME Init PROVE Abstract!Init
    OBVIOUS
  <2>1. \A p \in Pages : hash_32[p] \in Elements /\ p # 0
    BY CommAssumption
  <2>2. \A e \in Elements : mem[e].pg_addr = 0
    BY DEF Init, ZeroedElement
  <2>3. /\ absLast = [p \in Pages |-> Nobody]
        /\ absPrevious = [p \in Pages |-> Nobody]
    BY <2>1, <2>2 DEF absLast, absPrevious, sharerOf, present
  <2>4. \A i, j \in Tids : cell(i, j) \in Tids \X Tids
    BY DEF cell
  <2>5. absComm = [ij \in Tids \X Tids |-> 0]
    BY <2>4 DEF Init, ZeroedMatrix, absComm, get_comm
  <2> QED
    BY <2>3, <2>5 DEF Init, Abstract!Init, Abstract!Nobody, Nobody
<1>2. IInv /\ [Next]_vars => [Abstract!Next]_(Abstract!vars)
  BY StepImplements
<1> QED
  BY <1>1, <1>2, Invariance, PTL DEF Spec, ImplementsAbstract, Abstract!Spec

-----------------------------------------------------------------------------
(* The diagonal and the upper half of the matrix. *)

\* Counting with another thread leaves them alone.
LEMMA IncCommLower ==
  ASSUME NEW m \in [Tids \X Tids -> 0 .. UINT_RANGE - 1],
         NEW t \in Tids, NEW r \in Tids, t # r,
         NEW i \in Tids, NEW j \in Tids, i <= j
  PROVE  inc_comm(m, t, r)[<< i, j >>] = m[<< i, j >>]
<1>1. cell(t, r) # << i, j >>
  BY CommAssumption DEF cell
<1> QED
  BY <1>1 DEF inc_comm

\* When no page has number 0, no thread ever communicates with itself.
THEOREM SelfCommunicationFree ==
  ASSUME 0 \notin Pages
  PROVE  Spec => []NoSelfCommunication
<1>1. Init => NoSelfCommunication
  BY DEF Init, ZeroedMatrix, NoSelfCommunication
<1>2. IInv /\ NoSelfCommunication /\ [Next]_vars => NoSelfCommunication'
  <2> SUFFICES ASSUME IInv, NoSelfCommunication, [Next]_vars,
                      NEW i \in Tids, NEW j \in Tids, i <= j
               PROVE  spcd_matrix'[<< i, j >>] = 0
    BY DEF NoSelfCommunication
  <2>1. spcd_matrix[<< i, j >>] = 0
    BY DEF NoSelfCommunication
  <2>2. ASSUME NEW t \in Tids, NEW a \in Addresses, spcd_check_comm(t, a)
        PROVE  spcd_matrix'[<< i, j >>] = 0
    <3>1. PICK s \in Sharers : s = spcd_get_mem_init(a).sharer
      BY ElementFound DEF IInv
    <3>2. addr_to_page(a) # 0
      BY ElementFound DEF IInv
    <3>3. /\ s[0] \in Tids \/ (s[0] = Nobody /\ s[1] = Nobody)
          /\ s[0] \in Tids => s[0] # s[1]
      BY <3>1, <3>2, FoundSharers
    <3>4. NoSharer(t, s) \/ OneSharer(t, s) \/ TwoSharers(t, s)
      BY <2>2, <3>1 DEF spcd_check_comm
    <3>5. s[1] \in Tids \cup {Nobody}
      BY DEF Sharers
    <3>6. spcd_matrix \in [Tids \X Tids -> 0 .. UINT_RANGE - 1]
      BY DEF IInv, TypeOK
    <3>7. CASE NoSharer(t, s)
      BY <2>1, <3>7 DEF NoSharer
    <3>8. CASE OneSharer(t, s)
      <4>1. s[0] \in Tids
        BY <3>3, <3>8, NumSharers DEF OneSharer
      <4> QED
        BY <2>1, <3>6, <3>8, <4>1, IncCommLower DEF OneSharer
    <3>9. CASE TwoSharers(t, s)
      <4>1. s[0] \in Tids /\ s[1] \in Tids /\ s[0] # s[1]
        BY <3>3, <3>5, <3>9, NumSharers DEF TwoSharers
      <4>2. inc_comm(spcd_matrix, t, s[0])
              \in [Tids \X Tids -> 0 .. UINT_RANGE - 1]
        BY <3>6, <4>1, IncComm
      <4>3. /\ s[0] # t =>
                 inc_comm(spcd_matrix, t, s[0])[<< i, j >>] = 0
            /\ s[1] # t =>
                 inc_comm(spcd_matrix, t, s[1])[<< i, j >>] = 0
        BY <2>1, <3>6, <4>1, IncCommLower
      <4>4. ASSUME s[0] # t, s[1] # t
            PROVE  inc_comm(inc_comm(spcd_matrix, t, s[0]), t, s[1])[<< i, j >>]
                     = 0
        <5>1. PICK m \in [Tids \X Tids -> 0 .. UINT_RANGE - 1] :
                m = inc_comm(spcd_matrix, t, s[0])
          BY <4>2
        <5>2. inc_comm(m, t, s[1])[<< i, j >>] = m[<< i, j >>]
          <6>1. s[1] \in Tids /\ t # s[1] /\ i <= j
            BY <4>1, <4>4
          <6>2. cell(t, s[1]) # << i, j >>
            BY <6>1, CommAssumption DEF cell
          <6> QED
            BY <6>2 DEF inc_comm
        <5> QED
          BY <4>3, <4>4, <5>1, <5>2
      <4> QED
        BY <3>9, <4>1, <4>3, <4>4, Zenon DEF TwoSharers
    <3> QED
      BY <3>4, <3>7, <3>8, <3>9
  <2>3. CASE spcd_comm_init \/ matrix_reset
    BY <2>3 DEF spcd_comm_init, matrix_reset, ZeroedMatrix
  <2>4. CASE spcd_mem_init \/ UNCHANGED vars
    BY <2>1, <2>4 DEF spcd_mem_init, vars
  <2>5. ASSUME NEW v \in Shifts, set_shift(v)
        PROVE  spcd_matrix'[<< i, j >>] = 0
    BY <2>1, <2>5 DEF set_shift
  <2> QED
    BY <2>2, <2>3, <2>4, <2>5 DEF Next
<1> QED
  BY <1>1, <1>2, Invariance, PTL DEF Spec

-----------------------------------------------------------------------------
(* Several processors at once (CommRace).  Again no page has number 0, the  *)
(* number of a zeroed element.  First the type invariant.                  *)

todos == {<< >>, << 0 >>, << 1 >>, << 0, 1 >>}

Labels == {"idle", "lookup", "clear0", "clear1", "own", "load0", "load1",
           "count", "add", "back", "store", "front", "done"}

Locals ==
  [pc : Labels, tid : Tids, address : Addresses \cup {0}, sh : Sharers,
   todo : todos, old : Int, alone : BOOLEAN, was : MemInfo,
   met : SUBSET (Tids \cup {Nobody})]

RaceTypeOK ==
  /\ TypeOK
  /\ cpu \in [CPUs -> Locals]
  /\ touched \subseteq Tids \X Elements /\ raced \subseteq Elements
  /\ \A k \in CPUs :
       /\ busy(k) => cpu[k].address \in Addresses
       /\ cpu[k].pc \in {"count", "add"} => cpu[k].todo # << >>
       /\ cpu[k].pc = "store" => cpu[k].old \in Tids \cup {Nobody}

-----------------------------------------------------------------------------
(* Who is named: the invariant behind NamesOnlyComers *)

\* t is nobody, or came to element e.
comer(t, e) == t = Nobody \/ << t, e >> \in touched

\* The handler has cleared the first sharer, or found its page.
past0 == Labels \ {"idle", "lookup", "clear0"}
past1 == past0 \ {"clear1"}

\* A handler finds, and reads, only what was stored since the element was
\* cleared for the first time.
Named(k) ==
  /\ busy(k) => << cpu[k].tid, at(k) >> \in touched
  /\ cpu[k].pc \in past0 => comer(mem[at(k)].sharer[0], at(k))
  /\ cpu[k].pc \in past1 => comer(mem[at(k)].sharer[1], at(k))
  /\ busy(k) => \A i \in 0 .. 1 : comer(cpu[k].sh[i], at(k))
  /\ cpu[k].pc = "store" => comer(cpu[k].old, at(k))

NamesInv == NamesOnlyComers /\ \A k \in CPUs : Named(k)

-----------------------------------------------------------------------------
(* Who is alone: the invariant behind AtomicWhenAlone *)

page(k) == addr_to_page(cpu[k].address)

\* The sharers of its page that handler k starts from.
base(k) ==
  IF cpu[k].was.pg_addr = page(k) THEN cpu[k].was.sharer
  ELSE sharers(Nobody, Nobody)

\* A pair of sharers as spcd_check_comm leaves it.
wellFormed(s) == s[0] # Nobody /\ s[0] # s[1]

vacantPair(s) == s[0] = Nobody /\ s[1] = Nobody

partners(t, s) == {s[0], s[1]} \ {t, Nobody}

left(q) == {i \in 0 .. 1 : q = << i >> \/ q = << 0, 1 >>}

\* Two handlers on one element know it, and so does the history.
Solo ==
  /\ \A k, j \in CPUs :
       k # j /\ busy(k) /\ busy(j) /\ at(k) = at(j) => ~cpu[k].alone
  /\ \A k \in CPUs : busy(k) /\ ~cpu[k].alone => at(k) \in raced

\* How a handler that is alone has changed its element.
Undisturbed(k) ==
  LET l == cpu[k]
      e == mem[at(k)]
  IN /\ l.pc = "lookup" => e = l.was
     /\ l.pc \in {"clear0", "clear1", "own"} => l.was.pg_addr # page(k)
     /\ l.pc \in {"clear1", "own"} => e.sharer[0] = Nobody
     /\ l.pc = "own" => e.sharer[1] = Nobody
     /\ l.pc \in {"load0", "load1", "count", "add", "back", "store"} =>
          e.pg_addr = page(k) /\ e.sharer = base(k)
     /\ l.pc = "load1" => l.sh[0] = base(k)[0]
     /\ l.pc \in {"count", "add", "back", "store"} => l.sh = base(k)
     /\ l.pc \in {"lookup", "clear0", "clear1", "own", "load0", "load1"} => l.met = {}

\* And what it has counted, if it found the element in order.
Faithful(k) ==
  LET l == cpu[k]
      e == mem[at(k)]
      s == base(k)
  IN /\ l.pc = "lookup" /\ l.was.pg_addr # 0 => wellFormed(l.was.sharer)
     /\ l.pc \in {"load0", "load1", "front", "done"} => wellFormed(s) \/ vacantPair(s)
     /\ l.pc \in {"count", "add", "back", "store"} => wellFormed(s)
     /\ l.pc \in {"count", "add"} =>
          /\ l.met \cup {s[i] : i \in left(l.todo)} = partners(l.tid, s)
          /\ l.pc = "add" => s[Head(l.todo)] \in l.met
     /\ l.pc \in {"back", "store", "front", "done"} => l.met = partners(l.tid, s)
     /\ l.pc \in {"back", "store"} => s[0] # l.tid
     /\ l.pc = "store" => l.old = s[0]
     /\ l.pc \in {"front", "done"} => e.pg_addr = page(k)
     /\ l.pc = "front" => sharers(l.tid, e.sharer[1]) = newSharers(l.tid, s)
     /\ l.pc = "done" => e.sharer = newSharers(l.tid, s)

AloneInv ==
  /\ Solo
  /\ \A k \in CPUs : busy(k) /\ cpu[k].alone =>
       Undisturbed(k) /\ (at(k) \notin raced => Faithful(k))
  /\ \A e \in Elements \ raced :
       mem[e].pg_addr # 0 /\ (\A k \in CPUs : busy(k) => at(k) # e) =>
         wellFormed(mem[e].sharer)

RInv == RaceTypeOK /\ NamesInv /\ AloneInv

-----------------------------------------------------------------------------
(* Facts about the operators *)

LEMMA Todos ==
  ASSUME NEW q \in todos
  PROVE  /\ q # << >> => /\ Head(q) \in 0 .. 1 /\ Tail(q) \in todos
                         /\ left(q) = {Head(q)} \cup left(Tail(q))
         /\ Tail(q) # << >> /\ q # << >> => Tail(q) = << 1 >>
         /\ left(<< >>) = {} /\ left(<< 1 >>) = {1}
<1>1. left(<< >>) = {} /\ left(<< 0 >>) = {0} /\ left(<< 1 >>) = {1}
      /\ left(<< 0, 1 >>) = {0, 1}
  BY DEF left
<1>2. CASE q = << >>
  BY <1>1, <1>2
<1>3. CASE q = << 0 >>
  BY <1>1, <1>3 DEF todos
<1>4. CASE q = << 1 >>
  BY <1>1, <1>4 DEF todos
<1>5. CASE q = << 0, 1 >>
  BY <1>1, <1>5 DEF todos
<1> QED
  BY <1>2, <1>3, <1>4, <1>5 DEF todos

\* What a handler under way has: a page and its element.
LEMMA UnderWay ==
  ASSUME RaceTypeOK, NEW k \in CPUs
  PROVE  /\ cpu[k] \in Locals
         /\ busy(k) => /\ cpu[k].address \in Addresses
                       /\ at(k) \in Elements /\ page(k) \in Pages
                       /\ mem[at(k)] \in MemInfo
         /\ base(k) \in Sharers
<1>1. cpu[k] \in Locals
  BY DEF RaceTypeOK
<1>2. busy(k) => /\ cpu[k].address \in Addresses
                 /\ at(k) \in Elements /\ page(k) \in Pages
                 /\ mem[at(k)] \in MemInfo
  BY ElementFound DEF RaceTypeOK, at, page, TypeOK
<1>3. base(k) \in Sharers
  BY <1>1, SharersPair DEF base, Locals, MemInfo
<1> QED
  BY <1>1, <1>2, <1>3

-----------------------------------------------------------------------------
(* A step of handler k leaves the other handlers and elements alone *)

Moves(k) ==
  /\ busy(k) /\ busy(k)'
  /\ \A j \in CPUs \ {k} : cpu'[j] = cpu[j]
  /\ cpu'[k].tid = cpu[k].tid /\ cpu'[k].address = cpu[k].address
  /\ cpu'[k].alone = cpu[k].alone /\ cpu'[k].was = cpu[k].was
  /\ \A e \in Elements \ {at(k)} : mem'[e] = mem[e]
  /\ UNCHANGED << spcd_shift, touched >>

LEMMA SamePlace ==
  ASSUME NEW k \in CPUs, Moves(k)
  PROVE  /\ \A j \in CPUs : at(j)' = at(j) /\ page(j)' = page(j)
         /\ \A j \in CPUs : base(j)' = base(j) /\ busy(j)' = busy(j)
         /\ \A t, e : comer(t, e)' = comer(t, e)
<1>1. \A j \in CPUs : /\ cpu'[j].address = cpu[j].address
                      /\ cpu'[j].was = cpu[j].was
                      /\ cpu'[j].pc # "idle" <=> cpu[j].pc # "idle"
  BY DEF Moves, busy
<1>2. \A a : addr_to_page(a)' = addr_to_page(a) /\ elementOf(a)' = elementOf(a)
  BY DEF Moves, addr_to_page, elementOf
<1>3. \A j \in CPUs : at(j)' = at(j) /\ page(j)' = page(j)
  BY <1>1, <1>2 DEF at, page
<1>4. \A j \in CPUs : base(j)' = base(j) /\ busy(j)' = busy(j)
  BY <1>1, <1>3 DEF base, busy
<1> QED
  BY <1>3, <1>4 DEF comer, Moves

LEMMA MovesType ==
  ASSUME RaceTypeOK, NEW k \in CPUs, Moves(k), raced' \subseteq raced,
         cpu' \in [CPUs -> Locals], TypeOK',
         cpu'[k].pc \in {"count", "add"} => cpu'[k].todo # << >>,
         cpu'[k].pc = "store" => cpu'[k].old \in Tids \cup {Nobody}
  PROVE  RaceTypeOK'
<1>1. \A j \in CPUs : busy(j)' = busy(j)
  BY SamePlace
<1> QED
  BY <1>1 DEF RaceTypeOK, Moves

\* What handler k counts is between comers to its element.
CountsComers(k) ==
  \A i, j \in Tids : i > j /\ j < max_threads - 1 =>
    get_comm(i, j)' = get_comm(i, j)
      \/ (<< i, at(k) >> \in touched /\ << j, at(k) >> \in touched)

LEMMA NothingCounted ==
  ASSUME NEW k \in CPUs, UNCHANGED spcd_matrix PROVE CountsComers(k)
  BY DEF CountsComers, get_comm

\* Only comers are stored, and an element is given a page when it names no
\* one else.
LEMMA MovesNamed ==
  ASSUME RaceTypeOK, RaceTypeOK', NamesInv, NEW k \in CPUs, Moves(k), Named(k)',
         \A i \in 0 .. 1 : \/ mem'[at(k)].sharer[i] = mem[at(k)].sharer[i]
                           \/ comer(mem'[at(k)].sharer[i], at(k)),
         mem'[at(k)].pg_addr = mem[at(k)].pg_addr
           \/ \A i \in 0 .. 1 : comer(mem'[at(k)].sharer[i], at(k)),
         CountsComers(k)
  PROVE  NamesInv'
<1>1. ASSUME NEW j \in CPUs \ {k} PROVE Named(j)'
  <2>1. \A i \in 0 .. 1 : comer(mem[at(j)].sharer[i], at(j))
                            => at(j) \notin Elements
                                 \/ comer(mem'[at(j)].sharer[i], at(j))
    BY DEF Moves
  <2>2. cpu'[j] = cpu[j] /\ at(j)' = at(j) /\ busy(j)' = busy(j)
        /\ \A t, e : comer(t, e)' = comer(t, e)
    BY SamePlace DEF Moves
  <2>3. busy(j) => at(j) \in Elements
    BY UnderWay
  <2>4. Named(j)
    BY DEF NamesInv
  <2> QED
    BY <2>1, <2>2, <2>3, <2>4 DEF Named, past0, past1, Labels, busy, Moves
<1>2. \A e \in Elements, i \in 0 .. 1 :
        mem'[e].pg_addr # 0 => comer(mem'[e].sharer[i], e)
  BY DEF Moves, NamesInv, NamesOnlyComers, comer
<1>3. at(k) \in Elements
  BY UnderWay DEF Moves
<1>4. NamesOnlyComers'
  BY <1>2, <1>3 DEF Moves, NamesInv, NamesOnlyComers, comer, CountsComers
<1> QED
  BY <1>1, <1>4 DEF NamesInv

\* A handler on the same element would not be alone.
LEMMA MovesAlone ==
  ASSUME RaceTypeOK, AloneInv, NEW k \in CPUs, Moves(k),
         raced' = raced \/ (cpu[k].alone /\ raced' = raced \ {at(k)}),
         cpu[k].alone => Undisturbed(k)' /\ (at(k) \notin raced' => Faithful(k)')
  PROVE  AloneInv'
<1>1. \A j \in CPUs : at(j)' = at(j) /\ busy(j)' = busy(j) /\ cpu'[j].alone = cpu[j].alone
  BY SamePlace DEF Moves
<1>2. Solo'
  BY <1>1 DEF AloneInv, Solo, Moves
<1>3. ASSUME NEW j \in CPUs \ {k}, busy(j), cpu[j].alone
      PROVE  Undisturbed(j)' /\ (at(j) \notin raced' => Faithful(j)')
  <2>1. at(j) # at(k) /\ at(j) \in Elements
    BY <1>3, UnderWay DEF AloneInv, Solo, Moves
  <2>2. /\ mem'[at(j)] = mem[at(j)] /\ cpu'[j] = cpu[j]
        /\ page(j)' = page(j) /\ base(j)' = base(j) /\ at(j)' = at(j)
        /\ at(j) \notin raced' => at(j) \notin raced
    BY <2>1, SamePlace DEF Moves
  <2>3. Undisturbed(j) /\ (at(j) \notin raced => Faithful(j))
    BY <1>3 DEF AloneInv
  <2> QED
    BY <2>2, <2>3 DEF Undisturbed, Faithful
<1>4. ASSUME NEW e \in Elements \ raced', mem'[e].pg_addr # 0,
             \A j \in CPUs : busy(j)' => at(j)' # e
      PROVE  wellFormed(mem'[e].sharer)
  <2>1. e # at(k)
    BY <1>1, <1>4 DEF Moves
  <2> QED
    BY <1>1, <1>4, <2>1 DEF AloneInv, Moves
<1> QED
  BY <1>1, <1>2, <1>3, <1>4 DEF AloneInv

\* A sharer is stored.
stored(m, e, i, t) == [m EXCEPT ![e].sharer[i] = t]

LEMMA StoreSharer ==
  ASSUME NEW m \in [Elements -> MemInfo], NEW e \in Elements, NEW i \in 0 .. 1,
         NEW t \in Tids \cup {Nobody}
  PROVE  /\ stored(m, e, i, t) \in [Elements -> MemInfo]
         /\ stored(m, e, i, t)[e].pg_addr = m[e].pg_addr
         /\ stored(m, e, i, t)[e].sharer[i] = t
         /\ i = 0 => stored(m, e, i, t)[e].sharer[1] = m[e].sharer[1]
         /\ i = 1 => stored(m, e, i, t)[e].sharer[0] = m[e].sharer[0]
         /\ \A d \in Elements \ {e} : stored(m, e, i, t)[d] = m[d]
<1> DEFINE s == [m[e].sharer EXCEPT ![i] = t]
<1>1. s \in Sharers /\ s[i] = t
      /\ (i = 0 => s[1] = m[e].sharer[1]) /\ (i = 1 => s[0] = m[e].sharer[0])
  BY DEF MemInfo, Sharers
<1>2. stored(m, e, i, t) = [m EXCEPT ![e] = [m[e] EXCEPT !.sharer = s]]
  BY DEF stored
<1> HIDE DEF s
<1>3. [m[e] EXCEPT !.sharer = s] \in MemInfo
      /\ [m[e] EXCEPT !.sharer = s].sharer = s
      /\ [m[e] EXCEPT !.sharer = s].pg_addr = m[e].pg_addr
  BY <1>1 DEF MemInfo
<1> QED
  BY <1>1, <1>2, <1>3

\* The three parts of the invariant together.
LEMMA MovesInv ==
  ASSUME RInv, NEW k \in CPUs, Moves(k),
         cpu'[k] \in Locals, cpu' = [cpu EXCEPT ![k] = cpu'[k]], TypeOK',
         cpu'[k].pc \in {"count", "add"} => cpu'[k].todo # << >>,
         cpu'[k].pc = "store" => cpu'[k].old \in Tids \cup {Nobody},
         Named(k)',
         \A i \in 0 .. 1 : \/ mem'[at(k)].sharer[i] = mem[at(k)].sharer[i]
                           \/ comer(mem'[at(k)].sharer[i], at(k)),
         mem'[at(k)].pg_addr = mem[at(k)].pg_addr
           \/ \A i \in 0 .. 1 : comer(mem'[at(k)].sharer[i], at(k)),
         CountsComers(k),
         raced' = raced \/ (cpu[k].alone /\ raced' = raced \ {at(k)}),
         cpu[k].alone => Undisturbed(k)' /\ (at(k) \notin raced' => Faithful(k)')
  PROVE  RInv'
<1>1. cpu' \in [CPUs -> Locals] /\ raced' \subseteq raced
  BY DEF RInv, RaceTypeOK
<1>2. RaceTypeOK'
  BY <1>1, MovesType DEF RInv
<1>3. NamesInv'
  BY <1>2, MovesNamed DEF RInv
<1>4. AloneInv'
  BY MovesAlone DEF RInv
<1> QED
  BY <1>2, <1>3, <1>4 DEF RInv

-----------------------------------------------------------------------------
(* spcd_get_mem_init *)

LEMMA LookupStep ==
  ASSUME 0 \notin Pages, RInv, NEW k \in CPUs, Lookup(k)
  PROVE  RInv'
<1>1. /\ cpu[k] \in Locals /\ cpu[k].pc = "lookup" /\ busy(k)
      /\ at(k) \in Elements /\ page(k) \in Pages /\ page(k) # 0
      /\ mem[at(k)] \in MemInfo
  BY UnderWay DEF RInv, Lookup, busy
<1>2. /\ \/ cpu'[k] = [cpu[k] EXCEPT !.pc = "clear0"] /\ mem[at(k)].pg_addr # page(k)
         \/ cpu'[k] = [cpu[k] EXCEPT !.pc = "load0"] /\ mem[at(k)].pg_addr = page(k)
      /\ \A j \in CPUs \ {k} : cpu'[j] = cpu[j]
      /\ cpu' = [cpu EXCEPT ![k] = cpu'[k]]
      /\ UNCHANGED << mem, spcd_matrix, spcd_shift, touched, raced >>
  BY DEF Lookup, Go, page, history, RInv, RaceTypeOK
<1>3. /\ cpu'[k].pc \in {"clear0", "load0"} /\ cpu'[k].tid = cpu[k].tid
      /\ cpu'[k].address = cpu[k].address /\ cpu'[k].sh = cpu[k].sh
      /\ cpu'[k].alone = cpu[k].alone /\ cpu'[k].was = cpu[k].was
      /\ cpu'[k].met = cpu[k].met /\ cpu'[k] \in Locals
      /\ cpu'[k].pc = "clear0" <=> mem[at(k)].pg_addr # page(k)
  BY <1>1, <1>2 DEF Locals, Labels
<1>4. Moves(k)
  BY <1>1, <1>2, <1>3 DEF Moves, busy
<1>5. TypeOK'
  <2>1. spcd_addr_conflict' \in 0 .. ULONG_RANGE - 1
    BY CommAssumption DEF Lookup, RInv, RaceTypeOK, TypeOK
  <2> QED
    BY <1>2, <2>1 DEF RInv, RaceTypeOK, TypeOK
<1>6. Named(k)'
  <2>1. cpu'[k].pc = "load0" => \A i \in 0 .. 1 : comer(mem[at(k)].sharer[i], at(k))
    BY <1>1, <1>3 DEF RInv, NamesInv, NamesOnlyComers, comer
  <2> QED
    BY <1>1, <1>2, <1>3, <1>4, <2>1, SamePlace
       DEF RInv, NamesInv, Named, past0, past1, Labels
<1>7. ASSUME cpu[k].alone
      PROVE  Undisturbed(k)' /\ (at(k) \notin raced' => Faithful(k)')
  <2>1. mem[at(k)] = cpu[k].was /\ cpu[k].met = {}
    BY <1>1, <1>7 DEF RInv, AloneInv, Undisturbed
  <2>2. Undisturbed(k)'
    BY <1>1, <1>2, <1>3, <1>4, <2>1, SamePlace DEF Undisturbed, base
  <2>3. at(k) \notin raced => Faithful(k)'
    BY <1>1, <1>2, <1>3, <1>4, <1>7, <2>1, SamePlace
       DEF RInv, AloneInv, Faithful, base
  <2> QED
    BY <1>2, <2>2, <2>3
<1> QED
  BY <1>2, <1>3, <1>4, <1>5, <1>6, <1>7, NothingCounted, MovesInv

LEMMA Clear0Step ==
  ASSUME RInv, NEW k \in CPUs, Clear0(k)
  PROVE  RInv'
<1>1. /\ cpu[k] \in Locals /\ cpu[k].pc = "clear0" /\ busy(k)
      /\ at(k) \in Elements /\ mem[at(k)] \in MemInfo
  BY UnderWay DEF RInv, Clear0, busy
<1>2. /\ cpu'[k] = [cpu[k] EXCEPT !.pc = "clear1"]
      /\ \A j \in CPUs \ {k} : cpu'[j] = cpu[j]
      /\ cpu' = [cpu EXCEPT ![k] = cpu'[k]]
      /\ mem' = stored(mem, at(k), 0, Nobody)
      /\ UNCHANGED << spcd_matrix, spcd_addr_conflict, spcd_shift, touched, raced >>
  BY DEF Clear0, set, stored, Go, history, RInv, RaceTypeOK
<1>3. /\ cpu'[k].pc = "clear1" /\ cpu'[k].tid = cpu[k].tid
      /\ cpu'[k].address = cpu[k].address /\ cpu'[k].sh = cpu[k].sh
      /\ cpu'[k].alone = cpu[k].alone /\ cpu'[k].was = cpu[k].was
      /\ cpu'[k].met = cpu[k].met /\ cpu'[k] \in Locals
  BY <1>1, <1>2 DEF Locals, Labels
<1>4. /\ mem' \in [Elements -> MemInfo]
      /\ mem'[at(k)].pg_addr = mem[at(k)].pg_addr
      /\ mem'[at(k)].sharer[0] = Nobody
      /\ mem'[at(k)].sharer[1] = mem[at(k)].sharer[1]
      /\ \A e \in Elements \ {at(k)} : mem'[e] = mem[e]
  <2>1. Nobody \in Tids \cup {Nobody} /\ 0 \in 0 .. 1 /\ 1 \in 0 .. 1
        /\ mem \in [Elements -> MemInfo]
    BY DEF RInv, RaceTypeOK, TypeOK
  <2> QED
    BY <1>1, <1>2, <2>1, StoreSharer
<1>5. Moves(k) /\ TypeOK'
  BY <1>1, <1>2, <1>3, <1>4 DEF Moves, busy, RInv, RaceTypeOK, TypeOK
<1>6. Named(k)'
  <2>1. Named(k)
    BY DEF RInv, NamesInv
  <2> QED
    BY <1>1, <1>2, <1>3, <1>4, <1>5, <2>1, SamePlace
       DEF Named, past0, past1, Labels, comer
<1>7. ASSUME cpu[k].alone
      PROVE  Undisturbed(k)' /\ (at(k) \notin raced' => Faithful(k)')
  <2>1. Undisturbed(k)
    BY <1>1, <1>7 DEF RInv, AloneInv
  <2> QED
    BY <1>1, <1>2, <1>3, <1>4, <1>5, <2>1, SamePlace DEF Undisturbed, Faithful
<1>8. \A i \in 0 .. 1 : mem'[at(k)].sharer[i] = mem[at(k)].sharer[i]
                          \/ comer(mem'[at(k)].sharer[i], at(k))
  BY <1>4 DEF comer
<1> QED
  BY <1>2, <1>3, <1>4, <1>5, <1>6, <1>7, <1>8, NothingCounted, MovesInv

LEMMA Clear1Step ==
  ASSUME RInv, NEW k \in CPUs, Clear1(k)
  PROVE  RInv'
<1>1. /\ cpu[k] \in Locals /\ cpu[k].pc = "clear1" /\ busy(k)
      /\ at(k) \in Elements /\ mem[at(k)] \in MemInfo
  BY UnderWay DEF RInv, Clear1, busy
<1>2. /\ cpu'[k] = [cpu[k] EXCEPT !.pc = "own"]
      /\ \A j \in CPUs \ {k} : cpu'[j] = cpu[j]
      /\ cpu' = [cpu EXCEPT ![k] = cpu'[k]]
      /\ mem' = stored(mem, at(k), 1, Nobody)
      /\ UNCHANGED << spcd_matrix, spcd_addr_conflict, spcd_shift, touched, raced >>
  BY DEF Clear1, set, stored, Go, history, RInv, RaceTypeOK
<1>3. /\ cpu'[k].pc = "own" /\ cpu'[k].tid = cpu[k].tid
      /\ cpu'[k].address = cpu[k].address /\ cpu'[k].sh = cpu[k].sh
      /\ cpu'[k].alone = cpu[k].alone /\ cpu'[k].was = cpu[k].was
      /\ cpu'[k].met = cpu[k].met /\ cpu'[k] \in Locals
  BY <1>1, <1>2 DEF Locals, Labels
<1>4. /\ mem' \in [Elements -> MemInfo]
      /\ mem'[at(k)].pg_addr = mem[at(k)].pg_addr
      /\ mem'[at(k)].sharer[1] = Nobody
      /\ mem'[at(k)].sharer[0] = mem[at(k)].sharer[0]
      /\ \A e \in Elements \ {at(k)} : mem'[e] = mem[e]
  <2>1. Nobody \in Tids \cup {Nobody} /\ 0 \in 0 .. 1 /\ 1 \in 0 .. 1
        /\ mem \in [Elements -> MemInfo]
    BY DEF RInv, RaceTypeOK, TypeOK
  <2> QED
    BY <1>1, <1>2, <2>1, StoreSharer
<1>5. Moves(k) /\ TypeOK'
  BY <1>1, <1>2, <1>3, <1>4 DEF Moves, busy, RInv, RaceTypeOK, TypeOK
<1>6. Named(k)'
  <2>1. Named(k)
    BY DEF RInv, NamesInv
  <2> QED
    BY <1>1, <1>2, <1>3, <1>4, <1>5, <2>1, SamePlace
       DEF Named, past0, past1, Labels, comer
<1>7. ASSUME cpu[k].alone
      PROVE  Undisturbed(k)' /\ (at(k) \notin raced' => Faithful(k)')
  <2>1. Undisturbed(k)
    BY <1>1, <1>7 DEF RInv, AloneInv
  <2> QED
    BY <1>1, <1>2, <1>3, <1>4, <1>5, <2>1, SamePlace DEF Undisturbed, Faithful
<1>8. \A i \in 0 .. 1 : mem'[at(k)].sharer[i] = mem[at(k)].sharer[i]
                          \/ comer(mem'[at(k)].sharer[i], at(k))
  BY <1>4 DEF comer
<1> QED
  BY <1>2, <1>3, <1>4, <1>5, <1>6, <1>7, <1>8, NothingCounted, MovesInv

LEMMA OwnStep ==
  ASSUME RInv, NEW k \in CPUs, Own(k)
  PROVE  RInv'
<1>1. /\ cpu[k] \in Locals /\ cpu[k].pc = "own" /\ busy(k)
      /\ at(k) \in Elements /\ page(k) \in Pages /\ mem[at(k)] \in MemInfo
  BY UnderWay DEF RInv, Own, busy
<1>2. /\ cpu'[k] = [cpu[k] EXCEPT !.pc = "load0"]
      /\ \A j \in CPUs \ {k} : cpu'[j] = cpu[j]
      /\ cpu' = [cpu EXCEPT ![k] = cpu'[k]]
      /\ mem' = [mem EXCEPT ![at(k)] = [mem[at(k)] EXCEPT !.pg_addr = page(k)]]
      /\ raced' = IF cpu[k].alone THEN raced \ {at(k)} ELSE raced
      /\ UNCHANGED << spcd_matrix, spcd_addr_conflict, spcd_shift, touched >>
  BY DEF Own, Go, page, RInv, RaceTypeOK
<1>3. /\ cpu'[k].pc = "load0" /\ cpu'[k].tid = cpu[k].tid
      /\ cpu'[k].address = cpu[k].address /\ cpu'[k].sh = cpu[k].sh
      /\ cpu'[k].alone = cpu[k].alone /\ cpu'[k].was = cpu[k].was
      /\ cpu'[k].met = cpu[k].met /\ cpu'[k] \in Locals
  BY <1>1, <1>2 DEF Locals, Labels
<1>4. /\ mem' \in [Elements -> MemInfo]
      /\ mem'[at(k)].pg_addr = page(k) /\ mem'[at(k)].sharer = mem[at(k)].sharer
      /\ \A e \in Elements \ {at(k)} : mem'[e] = mem[e]
  BY <1>1, <1>2 DEF RInv, RaceTypeOK, TypeOK, MemInfo
<1>5. Moves(k) /\ TypeOK'
  BY <1>1, <1>2, <1>3, <1>4 DEF Moves, busy, RInv, RaceTypeOK, TypeOK
<1>6. Named(k)' /\ \A i \in 0 .. 1 : comer(mem'[at(k)].sharer[i], at(k))
  BY <1>1, <1>2, <1>3, <1>4, <1>5, SamePlace
     DEF RInv, NamesInv, Named, past0, past1, Labels
<1>7. ASSUME cpu[k].alone
      PROVE  Undisturbed(k)' /\ (at(k) \notin raced' => Faithful(k)')
  <2>1. Undisturbed(k)
    BY <1>1, <1>7 DEF RInv, AloneInv
  <2>2. base(k) = sharers(Nobody, Nobody) /\ vacantPair(base(k))
    BY <1>1, <2>1, SharersPair DEF Undisturbed, base, vacantPair
  <2>3. mem[at(k)].sharer = sharers(Nobody, Nobody)
    <3>1. mem[at(k)].sharer[0] = Nobody /\ mem[at(k)].sharer[1] = Nobody
      BY <1>1, <2>1 DEF Undisturbed
    <3> QED
      BY <1>1, <3>1, SharersPair DEF MemInfo, Sharers, sharers
  <2> QED
    BY <1>1, <1>2, <1>3, <1>4, <1>5, <2>1, <2>2, <2>3, SamePlace
       DEF Undisturbed, Faithful
<1>8. raced' = raced \/ (cpu[k].alone /\ raced' = raced \ {at(k)})
  BY <1>2
<1> QED
  BY <1>2, <1>3, <1>5, <1>6, <1>7, <1>8, NothingCounted, MovesInv

-----------------------------------------------------------------------------
(* spcd_check_comm *)

LEMMA Load0Step ==
  ASSUME RInv, NEW k \in CPUs, Load0(k)
  PROVE  RInv'
<1>1. /\ cpu[k] \in Locals /\ cpu[k].pc = "load0" /\ busy(k)
      /\ at(k) \in Elements /\ mem[at(k)] \in MemInfo
  BY UnderWay DEF RInv, Load0, busy
<1>2. /\ cpu'[k] = [cpu[k] EXCEPT !.pc = "load1",
                      !.sh = [cpu[k].sh EXCEPT ![0] = mem[at(k)].sharer[0]]]
      /\ \A j \in CPUs \ {k} : cpu'[j] = cpu[j]
      /\ cpu' = [cpu EXCEPT ![k] = cpu'[k]]
      /\ UNCHANGED << vars, touched, raced >>
  BY DEF Load0, Go, history, RInv, RaceTypeOK
<1>3. /\ cpu[k].sh \in Sharers /\ mem[at(k)].sharer \in Sharers
      /\ [cpu[k].sh EXCEPT ![0] = mem[at(k)].sharer[0]] \in Sharers
      /\ [cpu[k].sh EXCEPT ![0] = mem[at(k)].sharer[0]][0] = mem[at(k)].sharer[0]
      /\ [cpu[k].sh EXCEPT ![0] = mem[at(k)].sharer[0]][1] = cpu[k].sh[1]
  BY <1>1 DEF Locals, MemInfo, Sharers
<1>4. /\ cpu'[k].pc = "load1" /\ cpu'[k].tid = cpu[k].tid
      /\ cpu'[k].address = cpu[k].address
      /\ cpu'[k].sh[0] = mem[at(k)].sharer[0] /\ cpu'[k].sh[1] = cpu[k].sh[1]
      /\ cpu'[k].alone = cpu[k].alone /\ cpu'[k].was = cpu[k].was
      /\ cpu'[k].met = cpu[k].met /\ cpu'[k] \in Locals
  BY <1>1, <1>2, <1>3 DEF Locals, Labels
<1>5. Moves(k) /\ TypeOK'
  BY <1>1, <1>2, <1>4 DEF Moves, busy, vars, RInv, RaceTypeOK, TypeOK
<1>6. Named(k)'
  <2>1. Named(k)
    BY DEF RInv, NamesInv
  <2> QED
    BY <1>1, <1>2, <1>4, <1>5, <2>1, SamePlace DEF Named, vars, past0, past1, Labels
<1>7. ASSUME cpu[k].alone
      PROVE  Undisturbed(k)' /\ (at(k) \notin raced' => Faithful(k)')
  <2>1. Undisturbed(k) /\ (at(k) \notin raced => Faithful(k))
    BY <1>1, <1>7 DEF RInv, AloneInv
  <2> QED
    BY <1>1, <1>2, <1>4, <1>5, <2>1, SamePlace DEF Undisturbed, Faithful, vars
<1>8. UNCHANGED << mem, spcd_matrix, raced >>
  BY <1>2 DEF vars
<1> QED
  BY <1>2, <1>4, <1>5, <1>6, <1>7, <1>8, NothingCounted, MovesInv

\* The switch counts with the partners, each once, and in order.
LEMMA Positions ==
  ASSUME NEW t \in Tids, NEW s \in Sharers
  PROVE  /\ positions(t, s) \in todos
         /\ afterCounts(t, s) \in {"front", "done", "back"}
         /\ wellFormed(s) =>
              /\ {s[i] : i \in left(positions(t, s))} = partners(t, s)
              /\ afterCounts(t, s) = IF s[0] = t THEN "done" ELSE "back"
              /\ positions(t, s) = << >> => s[0] = t
         /\ vacantPair(s) =>
              /\ positions(t, s) = << >> /\ partners(t, s) = {}
              /\ afterCounts(t, s) = "front"
<1>1. /\ s[0] \in Tids \cup {Nobody} /\ s[1] \in Tids \cup {Nobody} /\ t # Nobody
      /\ get_num_sharers(s) \in 0 .. 2
      /\ get_num_sharers(s) = 0 <=> s[0] = Nobody /\ s[1] = Nobody
      /\ get_num_sharers(s) = 2 <=> s[0] # Nobody /\ s[1] # Nobody
  BY NumSharers, CommAssumption DEF Sharers, Nobody
<1>2. positions(t, s) \in todos /\ afterCounts(t, s) \in {"front", "done", "back"}
  BY DEF positions, todos, afterCounts
<1>3. ASSUME vacantPair(s)
      PROVE  /\ positions(t, s) = << >> /\ partners(t, s) = {}
             /\ afterCounts(t, s) = "front"
  BY <1>1, <1>3 DEF vacantPair, positions, afterCounts, partners
<1>4. ASSUME wellFormed(s)
      PROVE  /\ {s[i] : i \in left(positions(t, s))} = partners(t, s)
             /\ afterCounts(t, s) = IF s[0] = t THEN "done" ELSE "back"
             /\ positions(t, s) = << >> => s[0] = t
  <2>1. left(<< >>) = {} /\ left(<< 0 >>) = {0} /\ left(<< 1 >>) = {1}
        /\ left(<< 0, 1 >>) = {0, 1}
    BY DEF left
  <2>2. << 0 >> # << >> /\ << 1 >> # << >> /\ << 0, 1 >> # << >>
    OBVIOUS
  <2>3. get_num_sharers(s) \in 1 .. 2
        /\ (get_num_sharers(s) = 1 <=> s[1] = Nobody)
    BY <1>1, <1>4 DEF wellFormed
  <2>4. CASE s[1] = Nobody /\ s[0] = t
    <3>1. positions(t, s) = << >>
      BY <2>3, <2>4 DEF positions
    <3> QED
      BY <1>1, <2>1, <2>3, <2>4, <3>1 DEF partners, afterCounts
  <2>5. CASE s[1] = Nobody /\ s[0] # t
    <3>1. positions(t, s) = << 0 >>
      BY <2>3, <2>5 DEF positions
    <3> QED
      BY <1>1, <1>4, <2>1, <2>2, <2>3, <2>5, <3>1
         DEF partners, afterCounts, wellFormed
  <2>6. CASE s[1] # Nobody /\ s[0] = t
    <3>1. positions(t, s) = << 1 >>
      BY <2>3, <2>6 DEF positions
    <3> QED
      BY <1>1, <1>4, <2>1, <2>2, <2>3, <2>6, <3>1
         DEF partners, afterCounts, wellFormed
  <2>7. CASE s[1] = t
    <3>1. positions(t, s) = << 0 >> /\ s[0] # t
      BY <1>1, <1>4, <2>3, <2>7 DEF positions, wellFormed
    <3> QED
      BY <1>1, <1>4, <2>1, <2>2, <2>3, <2>7, <3>1
         DEF partners, afterCounts, wellFormed
  <2>8. CASE s[1] \notin {Nobody, t} /\ s[0] # t
    <3>1. positions(t, s) = << 0, 1 >>
      BY <2>3, <2>8 DEF positions
    <3> QED
      BY <1>1, <1>4, <2>1, <2>2, <2>3, <2>8, <3>1
         DEF partners, afterCounts, wellFormed
  <2> QED
    BY <1>1, <2>4, <2>5, <2>6, <2>7, <2>8
<1> QED
  BY <1>2, <1>3, <1>4

\* A pair is known by its two places.
LEMMA PairEqual ==
  ASSUME NEW s \in Sharers, NEW r \in Sharers, s[0] = r[0], s[1] = r[1]
  PROVE  s = r
  BY DEF Sharers

LEMMA Load1Step ==
  ASSUME RInv, NEW k \in CPUs, Load1(k)
  PROVE  RInv'
<1>1. /\ cpu[k] \in Locals /\ cpu[k].pc = "load1" /\ busy(k)
      /\ at(k) \in Elements /\ mem[at(k)] \in MemInfo
      /\ cpu[k].tid \in Tids /\ base(k) \in Sharers
  BY UnderWay DEF RInv, Load1, busy, Locals
<1>2. PICK s : s = [cpu[k].sh EXCEPT ![1] = mem[at(k)].sharer[1]]
  OBVIOUS
<1>3. s \in Sharers /\ s[1] = mem[at(k)].sharer[1] /\ s[0] = cpu[k].sh[0]
  BY <1>1, <1>2 DEF Locals, MemInfo, Sharers
<1> DEFINE t == cpu[k].tid
           q == positions(t, s)
           next == IF q = << >> THEN afterCounts(t, s) ELSE "count"
<1>4. /\ cpu'[k] = [cpu[k] EXCEPT !.sh = s, !.todo = q, !.pc = next]
      /\ \A j \in CPUs \ {k} : cpu'[j] = cpu[j]
      /\ cpu' = [cpu EXCEPT ![k] = cpu'[k]]
      /\ UNCHANGED << vars, touched, raced >>
  BY <1>2 DEF Load1, Go, history, RInv, RaceTypeOK
<1>5. q \in todos /\ next \in {"front", "done", "back", "count"}
  BY <1>1, <1>3, Positions
<1> HIDE DEF q, next
<1>6. /\ cpu'[k].pc = next /\ cpu'[k].tid = cpu[k].tid
      /\ cpu'[k].address = cpu[k].address /\ cpu'[k].sh = s /\ cpu'[k].todo = q
      /\ cpu'[k].alone = cpu[k].alone /\ cpu'[k].was = cpu[k].was
      /\ cpu'[k].met = cpu[k].met /\ cpu'[k] \in Locals
  BY <1>1, <1>3, <1>4, <1>5 DEF Locals, Labels
<1>7. Moves(k) /\ TypeOK'
  BY <1>1, <1>4, <1>5, <1>6 DEF Moves, busy, vars, RInv, RaceTypeOK, TypeOK
<1>8. cpu'[k].pc \in {"count", "add"} => cpu'[k].todo # << >>
  BY <1>1, <1>3, <1>5, <1>6, Positions DEF next
<1>9. cpu'[k].pc # "store"
  BY <1>5, <1>6
<1>10. Named(k)'
  <2>1. Named(k)
    BY DEF RInv, NamesInv
  <2>2. \A i \in 0 .. 1 : comer(s[i], at(k))
    BY <1>1, <1>3, <2>1 DEF Named, past1, past0, Labels
  <2> QED
    BY <1>1, <1>4, <1>5, <1>6, <1>7, <2>1, <2>2, SamePlace
       DEF Named, vars, past0, past1, Labels
<1>11. ASSUME cpu[k].alone
       PROVE  Undisturbed(k)' /\ (at(k) \notin raced' => Faithful(k)')
  <2>1. Undisturbed(k) /\ (at(k) \notin raced => Faithful(k))
    BY <1>1, <1>11 DEF RInv, AloneInv
  <2>2. s = base(k) /\ mem[at(k)].sharer = base(k) /\ mem[at(k)].pg_addr = page(k)
        /\ cpu[k].met = {}
    BY <1>1, <1>3, <2>1, PairEqual DEF Undisturbed
  <2>3. Undisturbed(k)'
    BY <1>4, <1>5, <1>6, <1>7, <2>2, SamePlace DEF Undisturbed, vars
  <2>4. ASSUME at(k) \notin raced PROVE Faithful(k)'
    <3>1. wellFormed(s) \/ vacantPair(s)
      BY <1>1, <2>1, <2>2, <2>4 DEF Faithful
    <3>2. t # Nobody /\ s[0] \in Tids \cup {Nobody}
      BY <1>1, <1>3, CommAssumption DEF Nobody, Sharers
    <3>3. CASE vacantPair(s)
      <4>1. next = "front" /\ partners(t, s) = {}
        BY <1>1, <1>3, <3>3, Positions DEF next, q
      <4>2. sharers(t, s[1]) = newSharers(t, s)
        BY <3>2, <3>3 DEF newSharers, vacantPair
      <4> QED
        BY <1>4, <1>6, <1>7, <2>2, <3>3, <4>1, <4>2, SamePlace DEF Faithful, vars
    <3>4. CASE wellFormed(s) /\ q = << >>
      <4>1. next = "done" /\ s[0] = t
        BY <1>1, <1>3, <3>4, Positions DEF next, q
      <4>2. partners(t, s) = {}
        BY <1>1, <1>3, <3>4, Positions, Todos DEF q
      <4>3. newSharers(t, s) = s
        BY <4>1 DEF newSharers
      <4> QED
        BY <1>4, <1>6, <1>7, <2>2, <3>4, <4>1, <4>2, <4>3, SamePlace
           DEF Faithful, vars
    <3>5. CASE wellFormed(s) /\ q # << >>
      <4>1. next = "count"
        BY <3>5 DEF next
      <4>2. {s[i] : i \in left(q)} = partners(t, s)
        BY <1>1, <1>3, <3>5, Positions DEF q
      <4> QED
        BY <1>4, <1>6, <1>7, <2>2, <3>5, <4>1, <4>2, SamePlace DEF Faithful, vars
    <3> QED
      BY <3>1, <3>3, <3>4, <3>5
  <2> QED
    BY <1>4, <2>3, <2>4
<1>12. UNCHANGED << mem, spcd_matrix, raced >>
  BY <1>4 DEF vars
<1> QED
  BY <1>4, <1>6, <1>7, <1>8, <1>9, <1>10, <1>11, <1>12, NothingCounted, MovesInv

LEMMA CountStep ==
  ASSUME RInv, NEW k \in CPUs, Count(k)
  PROVE  RInv'
<1>1. /\ cpu[k] \in Locals /\ cpu[k].pc = "count" /\ busy(k)
      /\ at(k) \in Elements /\ cpu[k].tid \in Tids /\ cpu[k].sh \in Sharers
      /\ cpu[k].todo \in todos /\ cpu[k].todo # << >>
  BY UnderWay DEF RInv, RaceTypeOK, Count, busy, Locals
<1>2. Head(cpu[k].todo) \in 0 .. 1
      /\ left(cpu[k].todo) = {Head(cpu[k].todo)} \cup left(Tail(cpu[k].todo))
  BY <1>1, Todos
<1>3. partner(k) \in Tids \cup {Nobody} /\ partner(k) = cpu[k].sh[Head(cpu[k].todo)]
  BY <1>1, <1>2 DEF partner, Sharers
<1>4. PICK o \in Int :
        /\ cpu'[k] = [cpu[k] EXCEPT !.pc = "add", !.old = o,
                        !.met = cpu[k].met \cup {partner(k)}]
        /\ \A j \in CPUs \ {k} : cpu'[j] = cpu[j]
        /\ cpu' = [cpu EXCEPT ![k] = cpu'[k]]
        /\ UNCHANGED << vars, touched, raced >>
  <2> DEFINE c == counter(cpu[k].tid, partner(k))
             o == IF c \in DOMAIN spcd_matrix THEN spcd_matrix[c] ELSE 0
  <2>1. o \in Int
    BY CommAssumption DEF RInv, RaceTypeOK, TypeOK
  <2>2. Go(k, [cpu[k] EXCEPT !.pc = "add", !.met = @ \cup {partner(k)}, !.old = o])
        /\ UNCHANGED << vars, history >>
    BY DEF Count
  <2> HIDE DEF o
  <2> QED
    BY <1>1, <2>1, <2>2 DEF Go, history, RInv, RaceTypeOK
<1>5. /\ cpu'[k].pc = "add" /\ cpu'[k].tid = cpu[k].tid
      /\ cpu'[k].address = cpu[k].address /\ cpu'[k].sh = cpu[k].sh
      /\ cpu'[k].todo = cpu[k].todo
      /\ cpu'[k].alone = cpu[k].alone /\ cpu'[k].was = cpu[k].was
      /\ cpu'[k].met = cpu[k].met \cup {partner(k)} /\ cpu'[k] \in Locals
  <2>1. cpu[k].met \cup {partner(k)} \in SUBSET (Tids \cup {Nobody})
    BY <1>1, <1>3 DEF Locals
  <2> QED
    BY <1>1, <1>4, <2>1 DEF Locals, Labels
<1>6. Moves(k) /\ TypeOK'
  BY <1>1, <1>4, <1>5 DEF Moves, busy, vars, RInv, RaceTypeOK, TypeOK
<1>7. Named(k)'
  <2>1. Named(k)
    BY DEF RInv, NamesInv
  <2> QED
    BY <1>1, <1>4, <1>5, <1>6, <2>1, SamePlace DEF Named, vars, past0, past1, Labels
<1>8. ASSUME cpu[k].alone
      PROVE  Undisturbed(k)' /\ (at(k) \notin raced' => Faithful(k)')
  <2>1. Undisturbed(k) /\ (at(k) \notin raced => Faithful(k))
    BY <1>1, <1>8 DEF RInv, AloneInv
  <2>2. Undisturbed(k)'
    BY <1>1, <1>4, <1>5, <1>6, <2>1, SamePlace DEF Undisturbed, vars
  <2>3. ASSUME at(k) \notin raced PROVE Faithful(k)'
    <3>1. cpu[k].sh = base(k) /\ wellFormed(base(k))
          /\ cpu[k].met \cup {base(k)[i] : i \in left(cpu[k].todo)}
               = partners(cpu[k].tid, base(k))
      BY <1>1, <2>1, <2>3 DEF Undisturbed, Faithful
    <3>2. partner(k) \in {base(k)[i] : i \in left(cpu[k].todo)}
      BY <1>2, <1>3, <3>1
    <3>3. cpu'[k].met \cup {base(k)[i] : i \in left(cpu[k].todo)}
            = partners(cpu[k].tid, base(k))
      BY <1>5, <3>1, <3>2
    <3> QED
      BY <1>3, <1>4, <1>5, <1>6, <3>1, <3>3, SamePlace DEF Faithful, vars
  <2> QED
    BY <1>4, <2>2, <2>3
<1>9. UNCHANGED << mem, spcd_matrix, raced >>
  BY <1>4 DEF vars
<1> QED
  BY <1>1, <1>4, <1>5, <1>6, <1>7, <1>8, <1>9, NothingCounted, MovesInv

\* The counter that is stored belongs to the two threads.
LEMMA AddCounts ==
  ASSUME RInv, NEW k \in CPUs, Add(k), cpu[k].pc = "add"
  PROVE  /\ CountsComers(k)
         /\ spcd_matrix' \in [Tids \X Tids -> 0 .. UINT_RANGE - 1]
<1>1. /\ busy(k) /\ cpu[k].tid \in Tids /\ cpu[k].sh \in Sharers
      /\ cpu[k].todo \in todos /\ cpu[k].todo # << >> /\ cpu[k].old \in Int
  BY UnderWay DEF RInv, RaceTypeOK, busy, Locals
<1>2. Head(cpu[k].todo) \in 0 .. 1
  BY <1>1, Todos
<1>3. PICK p \in Tids \cup {Nobody}, t \in Tids, n \in 0 .. UINT_RANGE - 1 :
        /\ p = partner(k) /\ t = cpu[k].tid
        /\ n = (cpu[k].old + 1) % UINT_RANGE
  BY <1>1, <1>2, CommAssumption DEF partner, Sharers
<1>4. spcd_matrix' = [ij \in Tids \X Tids |->
                        IF ij = counter(t, p) THEN n ELSE spcd_matrix[ij]]
  <2>1. DOMAIN spcd_matrix = Tids \X Tids
    BY DEF RInv, RaceTypeOK, TypeOK
  <2> QED
    BY <1>3, <2>1 DEF Add
<1>5. comer(p, at(k)) /\ << t, at(k) >> \in touched
  BY <1>1, <1>2, <1>3 DEF RInv, NamesInv, Named, partner
<1>6. ASSUME NEW i \in Tids, NEW j \in Tids, i > j, j < max_threads - 1
      PROVE  get_comm(i, j)' = get_comm(i, j)
               \/ (<< i, at(k) >> \in touched /\ << j, at(k) >> \in touched)
  <2>1. cell(i, j) = << i, j >> /\ << i, j >> \in Tids \X Tids
    BY <1>6 DEF cell
  <2>2. CASE << i, j >> # counter(t, p)
    BY <1>4, <2>1, <2>2 DEF get_comm
  <2>3. CASE << i, j >> = counter(t, p)
    <3>1. p # Nobody
      <4>1. SUFFICES ASSUME p = Nobody PROVE FALSE
        OBVIOUS
      <4>2. << i, j >> = << t - 1, max_threads - 1 >>
        BY <2>3, <4>1 DEF counter
      <4>3. j = max_threads - 1
        BY <4>2, Zenon
      <4> QED
        BY <1>6, <4>3, RaceAssumption
    <3>2. (i = t /\ j = p) \/ (i = p /\ j = t)
      BY <2>3, <3>1 DEF counter, cell
    <3> QED
      BY <1>5, <3>1, <3>2 DEF comer
  <2> QED
    BY <2>2, <2>3
<1>7. spcd_matrix' \in [Tids \X Tids -> 0 .. UINT_RANGE - 1]
  BY <1>4 DEF RInv, RaceTypeOK, TypeOK
<1> QED
  BY <1>6, <1>7 DEF CountsComers

LEMMA AddStep ==
  ASSUME RInv, NEW k \in CPUs, Add(k)
  PROVE  RInv'
<1>1. /\ cpu[k] \in Locals /\ cpu[k].pc = "add" /\ busy(k)
      /\ at(k) \in Elements /\ mem[at(k)] \in MemInfo
      /\ cpu[k].tid \in Tids /\ cpu[k].sh \in Sharers
      /\ cpu[k].todo \in todos /\ cpu[k].todo # << >> /\ base(k) \in Sharers
  BY UnderWay DEF RInv, RaceTypeOK, Add, busy, Locals
<1>2. PICK q \in todos : q = Tail(cpu[k].todo)
  BY <1>1, Todos
<1>3. PICK s \in Sharers :
        s = [cpu[k].sh EXCEPT ![1] = IF q = << >> THEN cpu[k].sh[1]
                                     ELSE mem[at(k)].sharer[1]]
  BY <1>1 DEF MemInfo, Sharers
<1>4. s[0] = cpu[k].sh[0] /\ s[1] \in {cpu[k].sh[1], mem[at(k)].sharer[1]}
  BY <1>1, <1>3 DEF Sharers
<1> DEFINE t == cpu[k].tid
           next == IF q # << >> THEN "count" ELSE afterCounts(t, cpu[k].sh)
<1>5. /\ cpu'[k] = [cpu[k] EXCEPT !.todo = q, !.old = 0, !.sh = s, !.pc = next]
      /\ \A j \in CPUs \ {k} : cpu'[j] = cpu[j]
      /\ cpu' = [cpu EXCEPT ![k] = cpu'[k]]
      /\ UNCHANGED << mem, spcd_addr_conflict, spcd_shift, touched, raced >>
  BY <1>2, <1>3 DEF Add, Go, history, RInv, RaceTypeOK
<1>6. next \in {"front", "done", "back", "count"}
  BY <1>1, Positions
<1> HIDE DEF next
<1>7. /\ cpu'[k].pc = next /\ cpu'[k].tid = cpu[k].tid
      /\ cpu'[k].address = cpu[k].address /\ cpu'[k].sh = s /\ cpu'[k].todo = q
      /\ cpu'[k].alone = cpu[k].alone /\ cpu'[k].was = cpu[k].was
      /\ cpu'[k].met = cpu[k].met /\ cpu'[k] \in Locals
  <2>1. next \in Labels /\ 0 \in Int
    BY <1>6 DEF Labels
  <2> QED
    BY <1>1, <1>5, <2>1 DEF Locals
<1>8. CountsComers(k) /\ spcd_matrix' \in [Tids \X Tids -> 0 .. UINT_RANGE - 1]
  BY <1>1, AddCounts
<1>9. Moves(k) /\ TypeOK'
  BY <1>1, <1>5, <1>6, <1>7, <1>8 DEF Moves, busy, RInv, RaceTypeOK, TypeOK
<1>10. /\ cpu'[k].pc \in {"count", "add"} => cpu'[k].todo # << >>
       /\ cpu'[k].pc # "store"
  BY <1>1, <1>6, <1>7, Positions DEF next
<1>11. Named(k)'
  <2>1. Named(k)
    BY DEF RInv, NamesInv
  <2>2. \A i \in 0 .. 1 : comer(s[i], at(k))
    BY <1>1, <1>4, <2>1 DEF Named, past1, past0, Labels
  <2> QED
    BY <1>1, <1>5, <1>6, <1>7, <1>9, <2>1, <2>2, SamePlace
       DEF Named, past0, past1, Labels
<1>12. ASSUME cpu[k].alone
       PROVE  Undisturbed(k)' /\ (at(k) \notin raced' => Faithful(k)')
  <2>1. Undisturbed(k) /\ (at(k) \notin raced => Faithful(k))
    BY <1>1, <1>12 DEF RInv, AloneInv
  <2>2. /\ mem[at(k)].sharer = base(k) /\ mem[at(k)].pg_addr = page(k)
        /\ cpu[k].sh = base(k)
    BY <1>1, <2>1 DEF Undisturbed
  <2>3. s = base(k)
    BY <1>1, <1>4, <2>2, PairEqual
  <2>4. Undisturbed(k)'
    BY <1>5, <1>6, <1>7, <1>9, <2>2, <2>3, SamePlace DEF Undisturbed
  <2>5. ASSUME at(k) \notin raced PROVE Faithful(k)'
    <3>1. /\ wellFormed(s) /\ s[Head(cpu[k].todo)] \in cpu[k].met
          /\ cpu[k].met \cup {s[i] : i \in left(cpu[k].todo)} = partners(t, s)
      BY <1>1, <2>1, <2>3, <2>5 DEF Faithful
    <3>2. cpu[k].met \cup {s[i] : i \in left(q)} = partners(t, s)
      <4>1. left(cpu[k].todo) = {Head(cpu[k].todo)} \cup left(q)
        BY <1>1, <1>2, Todos
      <4> QED
        BY <3>1, <4>1
    <3>3. CASE q # << >>
      <4>1. next = "count"
        BY <3>3 DEF next
      <4> QED
        BY <1>5, <1>7, <1>9, <2>3, <3>1, <3>2, <4>1, SamePlace DEF Faithful
    <3>4. CASE q = << >>
      <4>1. cpu[k].met = partners(t, s)
        BY <3>2, <3>4, Todos DEF left
      <4>2. next = IF s[0] = t THEN "done" ELSE "back"
        BY <1>1, <2>2, <2>3, <3>1, <3>4, Positions DEF next
      <4>3. s[0] = t => newSharers(t, s) = s
        BY DEF newSharers
      <4> QED
        BY <1>5, <1>7, <1>9, <2>2, <2>3, <3>1, <4>1, <4>2, <4>3, SamePlace
           DEF Faithful
    <3> QED
      BY <3>3, <3>4
  <2> QED
    BY <1>5, <2>4, <2>5
<1> QED
  BY <1>5, <1>7, <1>8, <1>9, <1>10, <1>11, <1>12, MovesInv

LEMMA BackStep ==
  ASSUME RInv, NEW k \in CPUs, Back(k)
  PROVE  RInv'
<1>1. /\ cpu[k] \in Locals /\ cpu[k].pc = "back" /\ busy(k)
      /\ at(k) \in Elements /\ mem[at(k)] \in MemInfo
  BY UnderWay DEF RInv, Back, busy
<1>2. /\ mem[at(k)].sharer[0] \in Tids \cup {Nobody}
      /\ mem[at(k)].sharer[0] \in Int
  <2>1. mem[at(k)].sharer[0] \in Tids \cup {Nobody}
    BY <1>1 DEF MemInfo, Sharers
  <2>2. Tids \cup {Nobody} \subseteq Int
    BY CommAssumption DEF Nobody
  <2> QED
    BY <2>1, <2>2
<1>3. /\ cpu'[k] = [cpu[k] EXCEPT !.pc = "store", !.old = mem[at(k)].sharer[0]]
      /\ \A j \in CPUs \ {k} : cpu'[j] = cpu[j]
      /\ cpu' = [cpu EXCEPT ![k] = cpu'[k]]
      /\ UNCHANGED << vars, touched, raced >>
  BY DEF Back, Go, history, RInv, RaceTypeOK
<1>4. /\ cpu'[k].pc = "store" /\ cpu'[k].tid = cpu[k].tid
      /\ cpu'[k].address = cpu[k].address /\ cpu'[k].sh = cpu[k].sh
      /\ cpu'[k].old = mem[at(k)].sharer[0]
      /\ cpu'[k].alone = cpu[k].alone /\ cpu'[k].was = cpu[k].was
      /\ cpu'[k].met = cpu[k].met /\ cpu'[k] \in Locals
  BY <1>1, <1>2, <1>3 DEF Locals, Labels
<1>5. Moves(k) /\ TypeOK'
  BY <1>1, <1>3, <1>4 DEF Moves, busy, vars, RInv, RaceTypeOK, TypeOK
<1>6. Named(k)'
  <2>1. Named(k)
    BY DEF RInv, NamesInv
  <2> QED
    BY <1>1, <1>3, <1>4, <1>5, <2>1, SamePlace DEF Named, vars, past0, past1, Labels
<1>7. ASSUME cpu[k].alone
      PROVE  Undisturbed(k)' /\ (at(k) \notin raced' => Faithful(k)')
  <2>1. Undisturbed(k) /\ (at(k) \notin raced => Faithful(k))
    BY <1>1, <1>7 DEF RInv, AloneInv
  <2> QED
    BY <1>1, <1>3, <1>4, <1>5, <2>1, SamePlace DEF Undisturbed, Faithful, vars
<1>8. UNCHANGED << mem, spcd_matrix, raced >>
  BY <1>3 DEF vars
<1> QED
  BY <1>2, <1>3, <1>4, <1>5, <1>6, <1>7, <1>8, NothingCounted, MovesInv

LEMMA StoreStep ==
  ASSUME RInv, NEW k \in CPUs, Store(k)
  PROVE  RInv'
<1>1. /\ cpu[k] \in Locals /\ cpu[k].pc = "store" /\ busy(k)
      /\ at(k) \in Elements /\ mem[at(k)] \in MemInfo
      /\ cpu[k].old \in Tids \cup {Nobody}
  BY UnderWay DEF RInv, RaceTypeOK, Store, busy
<1>2. /\ cpu'[k] = [cpu[k] EXCEPT !.pc = "front", !.old = 0]
      /\ \A j \in CPUs \ {k} : cpu'[j] = cpu[j]
      /\ cpu' = [cpu EXCEPT ![k] = cpu'[k]]
      /\ mem' = stored(mem, at(k), 1, cpu[k].old)
      /\ UNCHANGED << spcd_matrix, spcd_addr_conflict, spcd_shift, touched, raced >>
  BY DEF Store, set, stored, Go, history, RInv, RaceTypeOK
<1>3. /\ cpu'[k].pc = "front" /\ cpu'[k].tid = cpu[k].tid
      /\ cpu'[k].address = cpu[k].address /\ cpu'[k].sh = cpu[k].sh
      /\ cpu'[k].alone = cpu[k].alone /\ cpu'[k].was = cpu[k].was
      /\ cpu'[k].met = cpu[k].met /\ cpu'[k] \in Locals
  <2>1. "front" \in Labels /\ 0 \in Int
    BY DEF Labels
  <2> QED
    BY <1>1, <1>2, <2>1 DEF Locals
<1>4. /\ mem' \in [Elements -> MemInfo]
      /\ mem'[at(k)].pg_addr = mem[at(k)].pg_addr
      /\ mem'[at(k)].sharer[1] = cpu[k].old
      /\ mem'[at(k)].sharer[0] = mem[at(k)].sharer[0]
      /\ \A e \in Elements \ {at(k)} : mem'[e] = mem[e]
  <2>1. 1 \in 0 .. 1 /\ mem \in [Elements -> MemInfo]
    BY DEF RInv, RaceTypeOK, TypeOK
  <2> QED
    BY <1>1, <1>2, <2>1, StoreSharer
<1>5. Moves(k) /\ TypeOK'
  BY <1>1, <1>2, <1>3, <1>4 DEF Moves, busy, RInv, RaceTypeOK, TypeOK
<1>6. Named(k)' /\ comer(cpu[k].old, at(k))
  <2>1. Named(k)
    BY DEF RInv, NamesInv
  <2>2. comer(cpu[k].old, at(k)) /\ comer(mem[at(k)].sharer[0], at(k))
    BY <1>1, <2>1 DEF Named, past0, Labels
  <2> QED
    BY <1>1, <1>2, <1>3, <1>4, <1>5, <2>1, <2>2, SamePlace
       DEF Named, past0, past1, Labels
<1>7. ASSUME cpu[k].alone
      PROVE  Undisturbed(k)' /\ (at(k) \notin raced' => Faithful(k)')
  <2>1. Undisturbed(k) /\ (at(k) \notin raced => Faithful(k))
    BY <1>1, <1>7 DEF RInv, AloneInv
  <2>2. Undisturbed(k)'
    BY <1>3 DEF Undisturbed
  <2>3. ASSUME at(k) \notin raced PROVE Faithful(k)'
    <3>1. /\ mem[at(k)].pg_addr = page(k) /\ wellFormed(base(k))
          /\ cpu[k].met = partners(cpu[k].tid, base(k))
          /\ cpu[k].old = base(k)[0] /\ base(k)[0] # cpu[k].tid
      BY <1>1, <2>1, <2>3 DEF Undisturbed, Faithful
    <3>2. sharers(cpu[k].tid, cpu[k].old) = newSharers(cpu[k].tid, base(k))
      BY <3>1 DEF newSharers
    <3> QED
      BY <1>3, <1>4, <1>5, <3>1, <3>2, SamePlace DEF Faithful
  <2> QED
    BY <1>2, <1>5, <2>2, <2>3, SamePlace
<1>8. \A i \in 0 .. 1 : mem'[at(k)].sharer[i] = mem[at(k)].sharer[i]
                          \/ comer(mem'[at(k)].sharer[i], at(k))
  BY <1>4, <1>6
<1> QED
  BY <1>2, <1>3, <1>4, <1>5, <1>6, <1>7, <1>8, NothingCounted, MovesInv

LEMMA FrontStep ==
  ASSUME RInv, NEW k \in CPUs, Front(k)
  PROVE  RInv'
<1>1. /\ cpu[k] \in Locals /\ cpu[k].pc = "front" /\ busy(k)
      /\ at(k) \in Elements /\ mem[at(k)] \in MemInfo
      /\ cpu[k].tid \in Tids /\ base(k) \in Sharers
  BY UnderWay DEF RInv, RaceTypeOK, Front, busy, Locals
<1>2. /\ cpu'[k] = [cpu[k] EXCEPT !.pc = "done"]
      /\ \A j \in CPUs \ {k} : cpu'[j] = cpu[j]
      /\ cpu' = [cpu EXCEPT ![k] = cpu'[k]]
      /\ mem' = stored(mem, at(k), 0, cpu[k].tid)
      /\ UNCHANGED << spcd_matrix, spcd_addr_conflict, spcd_shift, touched, raced >>
  BY DEF Front, set, stored, Go, history, RInv, RaceTypeOK
<1>3. /\ cpu'[k].pc = "done" /\ cpu'[k].tid = cpu[k].tid
      /\ cpu'[k].address = cpu[k].address /\ cpu'[k].sh = cpu[k].sh
      /\ cpu'[k].alone = cpu[k].alone /\ cpu'[k].was = cpu[k].was
      /\ cpu'[k].met = cpu[k].met /\ cpu'[k] \in Locals
  BY <1>1, <1>2 DEF Locals, Labels
<1>4. /\ mem' \in [Elements -> MemInfo]
      /\ mem'[at(k)].pg_addr = mem[at(k)].pg_addr
      /\ mem'[at(k)].sharer[0] = cpu[k].tid
      /\ mem'[at(k)].sharer[1] = mem[at(k)].sharer[1]
      /\ \A e \in Elements \ {at(k)} : mem'[e] = mem[e]
  <2>1. 0 \in 0 .. 1 /\ mem \in [Elements -> MemInfo]
        /\ cpu[k].tid \in Tids \cup {Nobody}
    BY <1>1 DEF RInv, RaceTypeOK, TypeOK
  <2> QED
    BY <1>1, <1>2, <2>1, StoreSharer
<1>5. Moves(k) /\ TypeOK'
  BY <1>1, <1>2, <1>3, <1>4 DEF Moves, busy, RInv, RaceTypeOK, TypeOK
<1>6. Named(k)' /\ comer(cpu[k].tid, at(k))
  <2>1. Named(k)
    BY DEF RInv, NamesInv
  <2>2. comer(cpu[k].tid, at(k)) /\ comer(mem[at(k)].sharer[1], at(k))
    BY <1>1, <2>1 DEF Named, past0, past1, Labels, comer
  <2> QED
    BY <1>1, <1>2, <1>3, <1>4, <1>5, <2>1, <2>2, SamePlace
       DEF Named, past0, past1, Labels
<1>7. ASSUME cpu[k].alone
      PROVE  Undisturbed(k)' /\ (at(k) \notin raced' => Faithful(k)')
  <2>1. Undisturbed(k) /\ (at(k) \notin raced => Faithful(k))
    BY <1>1, <1>7 DEF RInv, AloneInv
  <2>2. Undisturbed(k)'
    BY <1>3 DEF Undisturbed
  <2>3. ASSUME at(k) \notin raced PROVE Faithful(k)'
    <3>1. /\ mem[at(k)].pg_addr = page(k)
          /\ wellFormed(base(k)) \/ vacantPair(base(k))
          /\ cpu[k].met = partners(cpu[k].tid, base(k))
          /\ sharers(cpu[k].tid, mem[at(k)].sharer[1])
               = newSharers(cpu[k].tid, base(k))
      BY <1>1, <2>1, <2>3 DEF Faithful
    <3>2. mem'[at(k)].sharer = sharers(cpu[k].tid, mem[at(k)].sharer[1])
      <4>1. mem'[at(k)].sharer \in Sharers /\ mem[at(k)].sharer[1] \in Tids \cup {Nobody}
        BY <1>1, <1>4 DEF MemInfo, Sharers
      <4> QED
        BY <1>1, <1>4, <4>1, SharersPair, PairEqual
    <3> QED
      BY <1>3, <1>4, <1>5, <3>1, <3>2, SamePlace DEF Faithful
  <2> QED
    BY <1>2, <1>5, <2>2, <2>3, SamePlace
<1>8. \A i \in 0 .. 1 : mem'[at(k)].sharer[i] = mem[at(k)].sharer[i]
                          \/ comer(mem'[at(k)].sharer[i], at(k))
  BY <1>4, <1>6
<1> QED
  BY <1>2, <1>3, <1>4, <1>5, <1>6, <1>7, <1>8, NothingCounted, MovesInv

-----------------------------------------------------------------------------
(* A handler comes and goes *)

LEMMA IdleLocals == Idle \in Locals /\ sharers(Nobody, Nobody) \in Sharers
<1>1. sharers(Nobody, Nobody) \in Sharers /\ sharers(0, 0) \in Sharers
  BY SharersPair, CommAssumption
<1>2. ZeroedElement \in MemInfo
  BY <1>1 DEF ZeroedElement, MemInfo
<1>3. << >> \in todos /\ "idle" \in Labels /\ 0 \in Int /\ 0 \in Tids
  BY CommAssumption DEF todos, Labels
<1> QED
  BY <1>1, <1>2, <1>3 DEF Idle, Locals

\* What spcd_check_comm leaves is in order again.
LEMMA NewWellFormed ==
  ASSUME NEW t \in Tids, NEW s \in Sharers, wellFormed(s) \/ vacantPair(s)
  PROVE  wellFormed(newSharers(t, s))
<1>1. t # Nobody
  BY CommAssumption DEF Nobody
<1> QED
  BY <1>1, NewSharers DEF wellFormed, vacantPair

\* The next fault may find what this handler left.
LEMMA DoneStep ==
  ASSUME RInv, NEW k \in CPUs, Done(k)
  PROVE  RInv'
<1>1. /\ cpu[k].pc = "done" /\ busy(k) /\ cpu[k].tid \in Tids
      /\ base(k) \in Sharers
  BY UnderWay DEF RInv, RaceTypeOK, Done, busy, Locals
<1>2. /\ cpu' = [cpu EXCEPT ![k] = Idle] /\ cpu'[k] = Idle
      /\ \A j \in CPUs \ {k} : cpu'[j] = cpu[j]
      /\ UNCHANGED << mem, spcd_matrix, spcd_addr_conflict, spcd_shift, touched, raced >>
  BY DEF Done, Go, history, vars, RInv, RaceTypeOK
<1>3. cpu'[k].pc = "idle" /\ ~busy(k)'
  BY <1>2 DEF Idle, busy
<1>4. /\ \A b : addr_to_page(b)' = addr_to_page(b) /\ elementOf(b)' = elementOf(b)
      /\ \A t, e : comer(t, e)' = comer(t, e)
  BY <1>2 DEF addr_to_page, elementOf, comer
<1>5. \A j \in CPUs \ {k} : /\ at(j)' = at(j) /\ page(j)' = page(j)
                            /\ base(j)' = base(j) /\ busy(j)' = busy(j)
  BY <1>2, <1>4 DEF at, page, base, busy
<1>6. RaceTypeOK'
  <2>1. TypeOK'
    BY <1>2 DEF RInv, RaceTypeOK, TypeOK
  <2>2. cpu' \in [CPUs -> Locals]
    BY <1>2, IdleLocals DEF RInv, RaceTypeOK
  <2> QED
    BY <1>2, <1>3, <1>5, <2>1, <2>2 DEF RInv, RaceTypeOK
<1>7. NamesInv'
  <2>1. NamesOnlyComers'
    BY <1>2 DEF RInv, NamesInv, NamesOnlyComers, get_comm
  <2>2. Named(k)'
    BY <1>3 DEF Named, past0, past1
  <2>3. ASSUME NEW j \in CPUs \ {k} PROVE Named(j)'
    BY <1>2, <1>4, <1>5 DEF RInv, NamesInv, Named
  <2> QED
    BY <2>1, <2>2, <2>3 DEF NamesInv
<1>8. AloneInv'
  <2>1. Solo'
    BY <1>2, <1>3, <1>5 DEF RInv, AloneInv, Solo
  <2>2. ASSUME NEW j \in CPUs \ {k}, busy(j), cpu[j].alone
        PROVE  Undisturbed(j)' /\ (at(j) \notin raced => Faithful(j)')
    <3>1. Undisturbed(j) /\ (at(j) \notin raced => Faithful(j))
      BY <2>2 DEF RInv, AloneInv
    <3> QED
      BY <1>2, <1>5, <3>1 DEF Undisturbed, Faithful
  <2>3. ASSUME at(k) \notin raced PROVE wellFormed(mem[at(k)].sharer)
    <3>1. cpu[k].alone
      BY <1>1, <2>3 DEF RInv, AloneInv, Solo
    <3>2. Faithful(k)
      BY <1>1, <2>3, <3>1 DEF RInv, AloneInv
    <3> QED
      BY <1>1, <3>2, NewWellFormed DEF Faithful
  <2>4. ASSUME NEW e \in Elements \ raced, mem[e].pg_addr # 0,
               \A j \in CPUs \ {k} : busy(j) => at(j) # e
        PROVE  wellFormed(mem[e].sharer)
    BY <2>3, <2>4 DEF RInv, AloneInv
  <2> QED
    BY <1>2, <1>3, <1>5, <2>1, <2>2, <2>4 DEF AloneInv
<1> QED
  BY <1>6, <1>7, <1>8 DEF RInv

\* A second handler that comes to an element is noticed by both.
LEMMA FaultStep ==
  ASSUME RInv, NEW k \in CPUs, NEW t \in Tids, NEW a \in Addresses, Fault(k, t, a)
  PROVE  RInv'
<1> DEFINE e == elementOf(a)
           meets(j) == j # k /\ busy(j) /\ at(j) = e
<1>1. e \in Elements /\ mem[e] \in MemInfo /\ cpu \in [CPUs -> Locals] /\ ~busy(k)
  BY ElementFound DEF RInv, RaceTypeOK, Fault, TypeOK
<1> HIDE DEF e
<1>2. PICK x \in BOOLEAN :
        /\ x <=> \A j \in CPUs : ~meets(j)
        /\ cpu'[k] = [Idle EXCEPT !.pc = "lookup", !.tid = t, !.address = a,
                        !.alone = x, !.was = mem[e]]
        /\ raced' = IF x THEN raced ELSE raced \cup {e}
  <2> DEFINE others == {j \in CPUs \ {k} : busy(j) /\ at(j) = e}
  <2>1. cpu'[k] = [Idle EXCEPT !.pc = "lookup", !.tid = t, !.address = a,
                     !.alone = (others = {}), !.was = mem[e]]
        /\ raced' = IF others = {} THEN raced ELSE raced \cup {e}
    BY DEF Fault, e
  <2>2. (others = {}) \in BOOLEAN /\ ((others = {}) <=> \A j \in CPUs : ~meets(j))
    OBVIOUS
  <2> HIDE DEF others
  <2> QED
    BY <2>1, <2>2
<1>3. /\ \A j \in CPUs \ {k} :
           cpu'[j] = IF meets(j) THEN [cpu[j] EXCEPT !.alone = FALSE] ELSE cpu[j]
      /\ DOMAIN cpu' = CPUs /\ cpu' = [j \in CPUs |-> cpu'[j]]
      /\ touched' = touched \cup {<< t, e >>}
      /\ UNCHANGED << mem, spcd_matrix, spcd_addr_conflict, spcd_shift >>
  BY DEF Fault, e
<1>4. /\ cpu'[k].pc = "lookup" /\ cpu'[k].tid = t /\ cpu'[k].address = a
      /\ cpu'[k].alone = x /\ cpu'[k].was = mem[e] /\ cpu'[k].met = {}
      /\ cpu'[k].sh = sharers(Nobody, Nobody) /\ cpu'[k] \in Locals
  <2>1. Idle \in Locals /\ Idle.met = {} /\ Idle.sh = sharers(Nobody, Nobody)
    BY IdleLocals DEF Idle
  <2>2. "lookup" \in Labels /\ a \in Addresses \cup {0}
    BY DEF Labels
  <2> QED
    BY <1>1, <1>2, <2>1, <2>2 DEF Locals
<1>5. ASSUME NEW j \in CPUs \ {k}
      PROVE  /\ cpu'[j] \in Locals
             /\ cpu'[j].pc = cpu[j].pc /\ cpu'[j].tid = cpu[j].tid
             /\ cpu'[j].address = cpu[j].address /\ cpu'[j].sh = cpu[j].sh
             /\ cpu'[j].todo = cpu[j].todo /\ cpu'[j].old = cpu[j].old
             /\ meets(j) => ~cpu'[j].alone
             /\ ~meets(j) => cpu'[j] = cpu[j]
  BY <1>1, <1>3, ZenonT(60) DEF Locals
<1> HIDE DEF meets
<1>6. /\ \A b : addr_to_page(b)' = addr_to_page(b) /\ elementOf(b)' = elementOf(b)
      /\ \A u, d : comer(u, d) => comer(u, d)'
  BY <1>3 DEF addr_to_page, elementOf, comer
<1>7. at(k)' = e /\ busy(k)' /\ page(k)' = addr_to_page(a)
  BY <1>4, <1>6 DEF at, busy, page, e
<1>8. ASSUME NEW j \in CPUs \ {k}
      PROVE  /\ at(j)' = at(j) /\ page(j)' = page(j) /\ busy(j)' = busy(j)
             /\ ~meets(j) => base(j)' = base(j)
  BY <1>5, <1>6 DEF at, page, busy, base
<1>9. RaceTypeOK'
  <2>1. TypeOK'
    BY <1>3 DEF RInv, RaceTypeOK, TypeOK
  <2>2. cpu' \in [CPUs -> Locals]
    <3>1. \A j \in CPUs : cpu'[j] \in Locals
      BY <1>4, <1>5
    <3> QED
      BY <1>3, <3>1
  <2>3. touched' \subseteq Tids \X Elements /\ raced' \subseteq Elements
    BY <1>1, <1>2, <1>3 DEF RInv, RaceTypeOK
  <2>4. ASSUME NEW j \in CPUs
        PROVE  /\ busy(j)' => cpu'[j].address \in Addresses
               /\ cpu'[j].pc \in {"count", "add"} => cpu'[j].todo # << >>
               /\ cpu'[j].pc = "store" => cpu'[j].old \in Tids \cup {Nobody}
    BY <1>4, <1>5, <1>8 DEF RInv, RaceTypeOK
  <2> QED
    BY <2>1, <2>2, <2>3, <2>4 DEF RaceTypeOK
<1>10. NamesInv'
  <2>1. NamesOnlyComers'
    BY <1>3 DEF RInv, NamesInv, NamesOnlyComers, get_comm
  <2>2. Named(k)'
    <3>1. \A i \in 0 .. 1 : cpu'[k].sh[i] = Nobody
      BY <1>4 DEF sharers
    <3> QED
      BY <1>3, <1>4, <1>7, <3>1 DEF Named, past0, past1, comer
  <2>3. ASSUME NEW j \in CPUs \ {k} PROVE Named(j)'
    BY <1>3, <1>5, <1>6, <1>8 DEF RInv, NamesInv, Named
  <2> QED
    BY <2>1, <2>2, <2>3 DEF NamesInv
<1>11. AloneInv'
  <2>1. Solo'
    <3>1. ASSUME NEW j \in CPUs \ {k}, busy(j), at(j) = e
          PROVE  ~x /\ ~cpu'[j].alone
      BY <1>2, <1>5, <3>1 DEF meets
    <3>2. ASSUME NEW j \in CPUs, NEW i \in CPUs, j # i, busy(j)', busy(i)',
                 at(j)' = at(i)'
          PROVE  ~cpu'[j].alone
      <4>1. CASE j = k
        BY <1>4, <1>7, <1>8, <3>1, <3>2, <4>1
      <4>2. CASE i = k
        BY <1>4, <1>7, <1>8, <3>1, <3>2, <4>2
      <4>3. CASE j # k /\ i # k
        <5>1. ~cpu[j].alone
          BY <1>8, <3>2, <4>3 DEF RInv, AloneInv, Solo
        <5> QED
          BY <1>5, <4>3, <5>1
      <4> QED
        BY <4>1, <4>2, <4>3
    <3>3. ASSUME NEW j \in CPUs, busy(j)', ~cpu'[j].alone
          PROVE  at(j)' \in raced'
      <4>1. CASE j = k
        BY <1>2, <1>4, <1>7, <3>3, <4>1
      <4>2. CASE j # k /\ meets(j)
        BY <1>2, <1>8, <4>2 DEF meets
      <4>3. CASE j # k /\ ~meets(j)
        BY <1>2, <1>5, <1>8, <3>3, <4>3 DEF RInv, AloneInv, Solo
      <4> QED
        BY <4>1, <4>2, <4>3
    <3> QED
      BY <3>2, <3>3 DEF Solo
  <2>2. ASSUME NEW j \in CPUs \ {k}, busy(j)', cpu'[j].alone
        PROVE  Undisturbed(j)' /\ (at(j)' \notin raced' => Faithful(j)')
    <3>1. cpu'[j] = cpu[j] /\ base(j)' = base(j)
      BY <1>5, <1>8, <2>2
    <3>2. Undisturbed(j) /\ (at(j) \notin raced => Faithful(j))
      BY <1>8, <2>2, <3>1 DEF RInv, AloneInv
    <3> QED
      BY <1>2, <1>3, <1>8, <3>1, <3>2 DEF Undisturbed, Faithful
  <2>3. ASSUME NEW d \in Elements \ raced', mem[d].pg_addr # 0,
               \A j \in CPUs \ {k} : busy(j) => at(j) # d
        PROVE  wellFormed(mem[d].sharer)
    BY <1>1, <1>2, <2>3 DEF RInv, AloneInv
  <2>4. ASSUME cpu'[k].alone
        PROVE  Undisturbed(k)' /\ (at(k)' \notin raced' => Faithful(k)')
    <3>1. Undisturbed(k)'
      BY <1>3, <1>4, <1>7 DEF Undisturbed
    <3>2. e \notin raced' /\ mem[e].pg_addr # 0 => wellFormed(mem[e].sharer)
      BY <1>1, <1>2, <1>4, <2>3, <2>4 DEF meets
    <3> QED
      BY <1>4, <1>7, <3>1, <3>2 DEF Faithful
  <2> QED
    BY <1>3, <1>8, <2>1, <2>2, <2>3, <2>4 DEF AloneInv
<1> QED
  BY <1>9, <1>10, <1>11 DEF RInv

-----------------------------------------------------------------------------
(* The theorems *)

LEMMA RInvInit == RaceInit => RInv
<1> SUFFICES ASSUME RaceInit PROVE RInv
  OBVIOUS
<1>1. \A k \in CPUs : cpu[k] = Idle /\ cpu[k].pc = "idle" /\ ~busy(k)
  BY DEF RaceInit, Idle, busy
<1>2. \A e \in Elements : mem[e].pg_addr = 0
  BY DEF RaceInit, Init, ZeroedElement
<1>3. RaceTypeOK
  <2>1. TypeOK
    BY InitIInv DEF RaceInit, IInv
  <2>2. cpu \in [CPUs -> Locals]
    BY IdleLocals DEF RaceInit
  <2> QED
    BY <1>1, <2>1, <2>2 DEF RaceTypeOK, RaceInit
<1>4. NamesInv
  <2>1. \A i, j \in Tids : get_comm(i, j) = 0
    BY DEF RaceInit, Init, ZeroedMatrix, get_comm, cell
  <2>2. \A k \in CPUs : Named(k)
    BY <1>1 DEF Named, past0, past1
  <2> QED
    BY <1>2, <2>1, <2>2 DEF NamesInv, NamesOnlyComers
<1>5. AloneInv
  BY <1>1, <1>2 DEF AloneInv, Solo
<1> QED
  BY <1>3, <1>4, <1>5 DEF RInv

LEMMA RInvNext ==
  ASSUME 0 \notin Pages, RInv, [RaceNext]_raceVars
  PROVE  RInv'
<1>1. CASE UNCHANGED raceVars
  <2>1. UNCHANGED << mem, spcd_matrix, spcd_shift, spcd_addr_conflict, cpu,
                     touched, raced >>
    BY <1>1 DEF raceVars, vars, history
  <2>2. /\ \A b : addr_to_page(b)' = addr_to_page(b) /\ elementOf(b)' = elementOf(b)
        /\ \A t, e : comer(t, e)' = comer(t, e)
    BY <2>1 DEF addr_to_page, elementOf, comer
  <2>3. \A j \in CPUs : /\ at(j)' = at(j) /\ page(j)' = page(j)
                        /\ base(j)' = base(j) /\ busy(j)' = busy(j)
    BY <2>1, <2>2 DEF at, page, base, busy
  <2>4. RaceTypeOK'
    BY <2>1, <2>3 DEF RInv, RaceTypeOK, TypeOK
  <2>5. NamesInv'
    BY <2>1, <2>2, <2>3 DEF RInv, NamesInv, NamesOnlyComers, get_comm, Named
  <2>6. AloneInv'
    BY <2>1, <2>3 DEF RInv, AloneInv, Solo, Undisturbed, Faithful
  <2> QED
    BY <2>4, <2>5, <2>6 DEF RInv
<1>2. ASSUME NEW k \in CPUs, NEW t \in Tids, NEW a \in Addresses, Fault(k, t, a)
      PROVE  RInv'
  BY <1>2, FaultStep
<1>3. ASSUME NEW k \in CPUs,
             \/ Lookup(k) \/ Clear0(k) \/ Clear1(k) \/ Own(k) \/ Load0(k)
             \/ Load1(k) \/ Count(k) \/ Add(k) \/ Back(k) \/ Store(k)
             \/ Front(k) \/ Done(k)
      PROVE  RInv'
  BY <1>3, LookupStep, Clear0Step, Clear1Step, OwnStep, Load0Step, Load1Step,
     CountStep, AddStep, BackStep, StoreStep, FrontStep, DoneStep
<1> QED
  BY <1>1, <1>2, <1>3 DEF RaceNext

LEMMA RaceInvariant ==
  ASSUME 0 \notin Pages
  PROVE  RaceSpec => []RInv
<1>1. RaceInit => RInv
  BY RInvInit
<1>2. RInv /\ [RaceNext]_raceVars => RInv'
  BY RInvNext
<1> QED
  BY <1>1, <1>2, PTL DEF RaceSpec

\* However many handlers run and however their accesses interleave, an element
\* that belongs to a page names only threads that came to it, and only threads
\* that came to one element have a communication: a handler clears what the
\* zeroed table names before it gives the element its page (mem.c:34).
THEOREM OnlyComersNamed ==
  ASSUME 0 \notin Pages
  PROVE  RaceSpec => []NamesOnlyComers
<1>1. RInv => NamesOnlyComers
  BY DEF RInv, NamesInv
<1>2. RaceSpec => []RInv
  BY RaceInvariant
<1> QED
  BY <1>1, <1>2, PTL

\* A handler that nobody meets on its element, whatever runs on the others, has
\* counted with each partner and stored the sharers as if spcd_check_comm were
\* one step (comm.c:13-51), if it found the element in order: races on an
\* element end with the next handler that takes it over undisturbed.
THEOREM AloneAtomic ==
  ASSUME 0 \notin Pages
  PROVE  RaceSpec => []AtomicWhenAlone
<1>1. RInv => AtomicWhenAlone
  <2> SUFFICES ASSUME RInv, NEW k \in CPUs, cpu[k].pc = "done", cpu[k].alone,
                      at(k) \notin raced
               PROVE  /\ mem[at(k)] = [pg_addr |-> page(k),
                                       sharer |-> newSharers(cpu[k].tid, base(k))]
                      /\ cpu[k].met = partners(cpu[k].tid, base(k))
    BY DEF AtomicWhenAlone, page, base, partners
  <2>1. busy(k) /\ mem[at(k)] \in MemInfo
    BY UnderWay DEF busy, RInv
  <2>2. Faithful(k)
    BY <2>1 DEF RInv, AloneInv
  <2>3. /\ mem[at(k)].pg_addr = page(k)
        /\ mem[at(k)].sharer = newSharers(cpu[k].tid, base(k))
        /\ cpu[k].met = partners(cpu[k].tid, base(k))
    BY <2>2 DEF Faithful
  <2> QED
    BY <2>1, <2>3 DEF MemInfo
<1>2. RaceSpec => []RInv
  BY RaceInvariant
<1> QED
  BY <1>1, <1>2, PTL

=============================================================================
