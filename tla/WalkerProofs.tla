---------------------------- MODULE WalkerProofs ----------------------------
(***************************************************************************)
(* Proofs about PageWalker for every list of VMAs, shared and private,     *)
(* every file, every number of faults in a walk and every width of the     *)
(* counter of walks.                                                       *)
(***************************************************************************)
EXTENDS PageWalker, FiniteSetTheorems, WellFoundedInduction, TLAPS

-----------------------------------------------------------------------------
(* What find_next_vma returns *)

LEMMA LeastElement ==
  ASSUME NEW S, S \subseteq Nat, S # {}
  PROVE  \E v \in S : \A w \in S : v <= w
<1> DEFINE R == OpToRel(<, Nat)
<1>1. PICK v \in S : \A w \in S : ~(<<w, v>> \in R)
  <2> HIDE DEF R
  <2>1. IsWellFoundedOn(R, Nat)
    BY NatLessThanWellFounded DEF R
  <2> QED
    BY <2>1, WFMin
<1>2. \A w \in S : ~(w < v)
  BY <1>1 DEF OpToRel
<1> QED
  BY <1>2

\* The first eligible VMA after prev, or else the first of the list, or NULL.
LEMMA FoundIsFirst ==
  ASSUME NEW prev \in List \cup {NULL}
  PROVE  /\ found(prev) \in List \cup {NULL}
         /\ found(prev) = NULL => \A v \in List : ~eligible(v)
         /\ found(prev) # NULL =>
              /\ eligible(found(prev))
              /\ passes(prev) = 0 => /\ prev # NULL
                                     /\ \A v \in List : eligible(v) /\ v < found(prev) => v <= prev
              /\ passes(prev) # 0 => /\ passes(prev) = 1
                                     /\ \A v \in List : eligible(v) => v >= found(prev)
              /\ passes(prev) = 1 /\ prev # NULL => \A v \in List : eligible(v) => v <= prev
<1> DEFINE later == {v \in List : eligible(v) /\ prev # NULL /\ v > prev}
           from  == IF later # {} THEN later ELSE {v \in List : eligible(v)}
           first == CHOOSE v \in from : \A w \in from : v <= w
<1>1. from \subseteq List /\ List \subseteq Nat \ {0} /\ \A v \in from : eligible(v)
  BY WalkerAssumption DEF List
<1>2. found(prev) = IF from = {} THEN NULL ELSE first
  BY DEF found
<1>3. from # {} => first \in from /\ \A w \in from : first <= w
  <2> SUFFICES ASSUME from # {} PROVE first \in from /\ \A w \in from : first <= w
    OBVIOUS
  <2>1. \E v \in from : \A w \in from : v <= w
    <3> HIDE DEF from
    <3> QED
      BY <1>1, LeastElement
  <2> HIDE DEF from
  <2> QED
    BY <2>1
<1>4. from = {} <=> \A v \in List : ~eligible(v)
  OBVIOUS
<1>5. from # {} => (passes(prev) = 0 <=> later # {}) /\ (passes(prev) # 0 => passes(prev) = 1)
  BY <1>4 DEF passes
<1>6. from # {} => first # NULL
  BY <1>1, <1>3 DEF NULL
<1> HIDE DEF first
<1>7. CASE from = {}
  BY <1>2, <1>4, <1>7
<1>8. CASE from # {} /\ later # {}
  <2>1. from = later /\ prev # NULL /\ passes(prev) = 0
    BY <1>5, <1>8
  <2>2. \A v \in List : eligible(v) /\ v < first => v <= prev
    <3> SUFFICES ASSUME NEW v \in List, eligible(v), v < first, ~(v <= prev)
                 PROVE  FALSE
      OBVIOUS
    <3>1. v \in Nat /\ prev \in Nat /\ first \in Nat
      BY <1>1, <1>3, <1>8, <2>1
    <3>2. v \in from
      BY <2>1, <3>1
    <3> HIDE DEF from
    <3> QED
      BY <1>3, <1>8, <3>1, <3>2
  <2> QED
    BY <1>1, <1>2, <1>3, <1>6, <1>8, <2>1, <2>2
<1>9. CASE from # {} /\ later = {}
  <2>1. from = {v \in List : eligible(v)}
    BY <1>9
  <2>2. prev # NULL => \A v \in List : eligible(v) => v <= prev
    BY <1>1, <1>9 DEF NULL
  <2> QED
    BY <1>1, <1>2, <1>3, <1>5, <1>6, <1>9, <2>1, <2>2
<1> QED
  BY <1>7, <1>8, <1>9

-----------------------------------------------------------------------------
(* The invariant *)

\* A walk looks for a page only as long as it may clear one more.
Due ==
  pc \in {"store", "walk", "range", "hit"} => fault < spcd_num_faults

\* CountsAgree, and what the exit relies on: between the repair and the
\* unmapping of its memory nobody clears a bit.
CountInv ==
  /\ CountsAgree
  /\ \A p \in Pages : pte[p] = "swap" => p \in swapped
  /\ exiting # "no" => active = "none"
  /\ exiting = "zap" => pc = "idle" /\ \A p \in Pages : pte[p] # "cleared"

\* What a walk under way will make the cursor is as good as the cursor.
CursorInv ==
  /\ next # NULL => pc \in {"store", "storeHit"}
  /\ exiting # "proc" /\ ~overtaken =>
       /\ vma # NULL => eligible(vma)
       /\ next # NULL => eligible(next)

Done(v) == \A p \in pagesOf(v) : pte[p] # "present"

\* The eligible VMAs before v are done.
DoneBefore(v) == \A w \in List : eligible(w) /\ w < v => Done(w)

AllDone == \A v \in List : eligible(v) => Done(v)

\* How far an undisturbed walk has come since it last cleared a page.  It may
\* have gone on from anywhere, so its first pass through the list that counts
\* is the one that starts at the head.
Progress ==
  /\ pc \in {"store", "walk", "range"} /\ walksSinceStart >= 2 => AllDone
  /\ pc \in {"store", "storeHit"} /\ next = NULL =>
       \A v \in List : ~eligible(v)
  /\ pc = "store" /\ walksSinceStart = 1 /\ next # NULL => DoneBefore(next)
  /\ pc = "walk" /\ walksSinceStart = 1 =>
       vma # NULL /\ next_addr = vm_start[vma] /\ DoneBefore(vma)
  /\ pc = "range" =>
       /\ walksSinceStart \in 0 .. 2
       /\ vma # NULL /\ end = vm_end[vma]
       /\ walksSinceStart = 1 =>
            /\ DoneBefore(vma)
            /\ \A p \in pagesOf(vma) : p < addr => pte[p] # "present"

WalkInv ==
  /\ quiet /\ pc # "idle" => active = "many"
  /\ quiet => Progress

WInv == TypeOK /\ Due /\ CountInv /\ CursorInv /\ WalkInv

-----------------------------------------------------------------------------
(* Each part of it is kept by every step *)

LEMMA InitWInv == Init => WInv
<1> SUFFICES ASSUME Init PROVE WInv
  OBVIOUS
<1>1. TypeOK
  <2>1. 0 \in 0 .. spcd_num_faults /\ 0 \in 0 .. UINT_RANGE - 1
    BY WalkerAssumption
  <2> QED
    BY <2>1 DEF Init, TypeOK, NULL
<1>2. CountInv
  BY DEF Init, CountInv, CountsAgree
<1>3. Due /\ CursorInv /\ WalkInv
  BY DEF Init, Due, CursorInv, WalkInv, Progress, NULL
<1> QED
  BY <1>1, <1>2, <1>3 DEF WInv

\* The counter of walks keeps its width: one pass more is one more, or zero.
LEMMA CounterWraps ==
  ASSUME NEW n \in 0 .. UINT_RANGE - 1, NEW k \in 0 .. 2
  PROVE  /\ (n + k) % UINT_RANGE \in 0 .. UINT_RANGE - 1
         /\ k = 0 => (n + k) % UINT_RANGE = n
         /\ k = 1 /\ n < UINT_RANGE - 1 => (n + k) % UINT_RANGE = n + 1
         /\ k = 1 /\ n = UINT_RANGE - 1 => (n + k) % UINT_RANGE = 0
  BY WalkerAssumption

LEMMA PassesType ==
  ASSUME NEW prev \in List \cup {NULL}
  PROVE  passes(prev) \in 0 .. 2
  BY DEF passes

\* Types: the cursor is in the list, the addresses are pages, the counters
\* have their widths.
LEMMA KernelType == ASSUME WInv, Kernel PROVE TypeOK' /\ Due'
<1> USE DEF WInv, TypeOK, Due, appVars, cursor, walkVars, history
<1>1. ASSUME NEW p \in Pages, Fault(p) PROVE TypeOK' /\ Due'
  BY <1>1 DEF Fault, repaired
<1>2. ASSUME NEW p \in Pages, Zap(p) PROVE TypeOK' /\ Due'
  BY <1>2 DEF Zap, Unmap, repaired
<1>3. ASSUME NEW p \in File, Truncate(p) PROVE TypeOK' /\ Due'
  BY <1>3, FileAssumption DEF Truncate, Unmap
<1>4. ASSUME NEW p \in File, DelPage(p) PROVE TypeOK' /\ Due'
  BY <1>4 DEF DelPage
<1>5. ASSUME NEW p \in Anonymous, SwapOut(p) PROVE TypeOK' /\ Due'
  BY <1>5, FileAssumption DEF SwapOut
<1> QED
  BY <1>1, <1>2, <1>3, <1>4, <1>5 DEF Kernel

LEMMA ApplicationType == ASSUME WInv, Application PROVE TypeOK' /\ Due'
<1> USE DEF WInv, TypeOK, Due, pageVars, cursor, walkVars, history
<1>1. ASSUME NEW n \in {"few", "many"}, Threads(n) PROVE TypeOK' /\ Due'
  BY <1>1 DEF Threads
<1>2. CASE ForkReturns
  BY <1>2, ZenonT(60) DEF ForkReturns
<1>3. CASE LastExit
  BY <1>3 DEF LastExit
<1>4. CASE ResetFlag
  BY <1>4 DEF ResetFlag
<1>5. CASE ResetProc
  BY <1>5, WalkerAssumption DEF ResetProc, semFree, NULL
<1>6. CASE ExitRepair
  BY <1>6 DEF ExitRepair, repaired
<1>7. CASE ExitZap
  BY <1>7 DEF ExitZap, Unmap
<1> QED
  BY <1>1, <1>2, <1>3, <1>4, <1>5, <1>6, <1>7 DEF Application

LEMMA WalkerType == ASSUME WInv, Walker PROVE TypeOK' /\ Due'
<1> USE DEF WInv, TypeOK, Due, pageVars, appVars, cursor, history
<1>1. ASSUME NEW label \in {"store", "storeHit"}, find_next_vma(label)
      PROVE  /\ vma' \in List \cup {NULL} /\ next_addr' \in Nat
             /\ num_walks' \in 0 .. UINT_RANGE - 1
             /\ next' \in List \cup {NULL} /\ pc' = label
  BY <1>1, FoundIsFirst, PassesType, CounterWraps DEF find_next_vma
<1>2. CASE Begin
  BY <1>2, WalkerAssumption DEF Begin
<1>3. CASE Check
  BY <1>1, <1>3, WalkerAssumption DEF Check, inLoop, Out
<1>4. CASE Walk
  BY <1>4, WalkerAssumption DEF Walk, Out
<1>5. CASE Callback
  BY <1>5 DEF Callback
<1>6. CASE Miss
  BY <1>1, <1>6 DEF Miss
<1>7. CASE Store
  BY <1>7, WalkerAssumption DEF Store, Out
<1>8. ASSUME NEW jump \in Jumps, Hit(jump) PROVE TypeOK' /\ Due'
  BY <1>1, <1>8, WalkerAssumption DEF Hit
<1> QED
  BY <1>2, <1>3, <1>4, <1>5, <1>6, <1>7, <1>8 DEF Walker

\* The count of mappings.
LEMMA KernelCount == ASSUME WInv, Kernel PROVE CountInv'
<1> USE DEF WInv, TypeOK, CountInv, CountsAgree, appVars, cursor, walkVars,
            history
<1>1. ASSUME NEW p \in Pages, Fault(p) PROVE CountInv'
  BY <1>1 DEF Fault, repaired, running
<1>2. ASSUME NEW p \in Pages, Zap(p) PROVE CountInv'
  BY <1>2 DEF Zap, Unmap, repaired, running
<1>3. ASSUME NEW p \in File, Truncate(p) PROVE CountInv'
  BY <1>3, FileAssumption DEF Truncate, Unmap
<1>4. ASSUME NEW p \in File, DelPage(p) PROVE CountInv'
  BY <1>4, FileAssumption DEF DelPage
<1>5. ASSUME NEW p \in Anonymous, SwapOut(p) PROVE CountInv'
  BY <1>5, FileAssumption DEF SwapOut
<1> QED
  BY <1>1, <1>2, <1>3, <1>4, <1>5 DEF Kernel

LEMMA ApplicationCount == ASSUME WInv, Application PROVE CountInv'
<1> USE DEF WInv, TypeOK, CountInv, CountsAgree, pageVars, cursor, walkVars,
            history
<1>1. ASSUME NEW n \in {"few", "many"}, Threads(n) PROVE CountInv'
  BY <1>1 DEF Threads
<1>2. CASE ForkReturns
  BY <1>2 DEF ForkReturns
<1>3. CASE LastExit
  BY <1>3 DEF LastExit
<1>4. CASE ResetFlag
  BY <1>4 DEF ResetFlag
<1>5. CASE ResetProc
  BY <1>5 DEF ResetProc
<1>6. CASE ExitRepair
  BY <1>6 DEF ExitRepair, repaired, semFree
<1>7. CASE ExitZap
  BY <1>7 DEF ExitZap, Unmap
<1> QED
  BY <1>1, <1>2, <1>3, <1>4, <1>5, <1>6, <1>7 DEF Application

\* The walker only turns present into cleared, and never between the repair
\* and the unmapping.
LEMMA WalkerCount == ASSUME WInv, Walker PROVE CountInv'
<1> USE DEF WInv
<1>1. exiting # "zap" /\ UNCHANGED << counted, swapped, abandoned, appVars >>
  <2>1. exiting # "zap"
    BY DEF CountInv, Walker, Begin, Check, Walk, Callback, Miss, Store, Hit,
           semFree
  <2> QED
    BY <2>1 DEF Walker, Begin, Check, Walk, Callback, Miss, Store, Hit, pageVars
<1>2. UNCHANGED pte \/ (/\ pte[addr] = "present"
                       /\ pte' = [pte EXCEPT ![addr] = "cleared"])
  BY DEF Walker, Begin, Check, Walk, Callback, Miss, Store, Hit, pageVars
<1> QED
  BY <1>1, <1>2 DEF TypeOK, CountInv, CountsAgree, appVars

\* The cursor.
LEMMA OthersCursor ==
  ASSUME WInv, Kernel \/ Application
  PROVE  CursorInv'
<1> USE DEF WInv, CursorInv, eligible
<1>1. CASE Kernel
  BY <1>1 DEF Kernel, Fault, Zap, Truncate, DelPage, SwapOut, appVars, cursor,
              walkVars, history
<1>2. ASSUME NEW n \in {"few", "many"}, Threads(n) PROVE CursorInv'
  BY <1>2 DEF Threads, cursor, walkVars
<1>3. CASE ForkReturns
  BY <1>3 DEF ForkReturns, cursor, walkVars
<1>4. CASE LastExit
  BY <1>4 DEF LastExit, cursor, walkVars
<1>5. CASE ResetFlag
  BY <1>5 DEF ResetFlag, cursor, walkVars, history
<1>6. CASE ResetProc
  BY <1>6 DEF ResetProc, walkVars, semFree, TypeOK
<1>7. CASE ExitRepair \/ ExitZap
  BY <1>7 DEF ExitRepair, ExitZap, cursor, walkVars, history
<1> QED
  BY <1>1, <1>2, <1>3, <1>4, <1>5, <1>6, <1>7 DEF Application

LEMMA WalkerCursor == ASSUME WInv, Walker PROVE CursorInv'
<1> USE DEF WInv, CursorInv, appVars, history
<1>1. UNCHANGED spcd_vma_shared_flag
  BY DEF Walker, Begin, Check, Walk, Callback, Miss, Store, Hit
<1>2. ASSUME NEW label \in {"store", "storeHit"}, find_next_vma(label),
             UNCHANGED << appVars, history >>
      PROVE  CursorInv'
  <2>1. next' # NULL => eligible(next')
    BY <1>2, FoundIsFirst DEF find_next_vma, TypeOK, eligible
  <2> QED
    BY <1>2, <2>1, <1>1 DEF find_next_vma, eligible
<1>3. CASE Begin
  BY <1>3 DEF Begin, cursor, semFree, eligible
<1>4. CASE Check
  BY <1>2, <1>4 DEF Check, Out, cursor, eligible
<1>5. CASE Walk
  BY <1>5 DEF Walk, Out, cursor, eligible
<1>6. CASE Callback
  BY <1>6 DEF Callback, eligible
<1>7. CASE Miss
  BY <1>2, <1>7 DEF Miss
<1>8. CASE Store
  BY <1>8 DEF Store, eligible
<1>9. ASSUME NEW jump \in Jumps, Hit(jump) PROVE CursorInv'
  BY <1>2, <1>9 DEF Hit, cursor, eligible
<1> QED
  BY <1>3, <1>4, <1>5, <1>6, <1>7, <1>8, <1>9 DEF Walker

\* The progress of a walk since it last cleared a page.  While it goes on, none
\* becomes present and nothing else that it depends on changes.
LEMMA OthersWalk ==
  ASSUME WInv, Kernel \/ Application
  PROVE  WalkInv'
<1> USE DEF WInv, WalkInv
<1>1. CASE Kernel
  <2>1. UNCHANGED << appVars, cursor, walkVars, history >>
    BY <1>1 DEF Kernel, Fault, Zap, Truncate, DelPage, SwapOut
  <2>2. CASE pc = "idle"
    BY <2>1, <2>2 DEF Progress, appVars, cursor, walkVars, history
  <2>3. CASE pc # "idle"
    <3>1. \A p \in Pages : pte[p] # "present" => pte'[p] # "present"
      BY <1>1, <2>3, FileAssumption
         DEF Kernel, Fault, Zap, Truncate, DelPage, SwapOut, Unmap, semFree,
             TypeOK
    <3>2. \A v \in List : pagesOf(v) \subseteq Pages
      BY DEF Pages
    <3>3. \A v \in List : Done(v) => Done(v)'
      BY <3>1, <3>2 DEF Done, pagesOf
    <3> QED
      BY <2>1, <3>1, <3>2, <3>3
         DEF Progress, AllDone, DoneBefore, eligible, walksSinceStart, appVars,
             cursor, walkVars, history, TypeOK, NULL, pagesOf
  <2> QED
    BY <2>2, <2>3
<1>2. CASE Application
  <2>1. quiet' => quiet /\ exiting # "no" /\ pc' = pc /\ fault' = fault
    BY <1>2
       DEF Application, Threads, ForkReturns, LastExit, ResetFlag, ResetProc,
           ExitRepair, ExitZap, history, walkVars
  <2>2. quiet' => pc' = "idle"
    BY <2>1 DEF CountInv
  <2> QED
    BY <2>2 DEF Progress
<1> QED
  BY <1>1, <1>2

\* The walker has reached the end of a VMA without clearing a page, or starts
\* with no cursor.
LEMMA MissWalk ==
  ASSUME WInv, Miss
  PROVE  WalkInv'
<1> USE DEF WInv
<1>1. SUFFICES ASSUME quiet PROVE Progress'
  BY DEF Miss, WalkInv, appVars, history
<1>2. /\ pc = "range" /\ pc' = "store" /\ next' = found(vma)
      /\ num_walks' = (num_walks + passes(vma)) % UINT_RANGE
      /\ UNCHANGED << pte, spcd_vma_shared_flag, start >>
  BY DEF Miss, find_next_vma, pageVars, appVars
<1>3. /\ walksSinceStart \in 0 .. 2 /\ vma \in List
      /\ walksSinceStart >= 2 => AllDone
      /\ walksSinceStart = 1 => DoneBefore(vma) /\ Done(vma)
  BY <1>1, <1>2, WalkerAssumption
     DEF Miss, WalkInv, Progress, Done, pagesOf, TypeOK
<1>4. CASE next' = NULL
  BY <1>2, <1>3, <1>4, FoundIsFirst DEF Progress, AllDone, eligible
<1>5. CASE next' # NULL
  <2>1. /\ next' \in List /\ passes(vma) \in 0 .. 1
        /\ passes(vma) = 0 => \A v \in List : eligible(v) /\ v < next' => v <= vma
        /\ passes(vma) = 1 => /\ \A v \in List : eligible(v) => v >= next'
                              /\ \A v \in List : eligible(v) => v <= vma
    BY <1>2, <1>3, <1>5, FoundIsFirst, PassesType DEF NULL, List
  <2>2. walksSinceStart' < 0 \/ walksSinceStart' = walksSinceStart + passes(vma)
    BY <1>2, <1>3, <2>1, CounterWraps, WalkerAssumption
       DEF walksSinceStart, TypeOK
  <2>3. walksSinceStart = 1 => \A v \in List : eligible(v) /\ v <= vma => Done(v)
    BY <1>3 DEF DoneBefore, List
  <2>4. walksSinceStart' >= 2 => AllDone
    <3> SUFFICES ASSUME walksSinceStart' >= 2, walksSinceStart # 2 PROVE AllDone
      BY <1>3
    <3>1. walksSinceStart = 1 /\ passes(vma) = 1
      <4>1. ASSUME NEW w \in 0 .. 2, NEW k \in 0 .. 1, w # 2, w + k >= 2
            PROVE  w = 1 /\ k = 1
        BY <4>1
      <4>2. walksSinceStart' \in Int
        BY <1>2, CounterWraps, PassesType DEF walksSinceStart, TypeOK
      <4> QED
        BY <1>3, <2>1, <2>2, <4>1, <4>2
    <3> QED
      BY <2>1, <2>3, <3>1 DEF AllDone
  <2>5. walksSinceStart' = 1 => DoneBefore(next')
    BY <1>3, <2>1, <2>2, <2>3 DEF DoneBefore, List
  <2> QED
    BY <1>2, <1>5, <2>4, <2>5
       DEF Progress, AllDone, DoneBefore, Done, eligible
<1> QED
  BY <1>4, <1>5

LEMMA WalkerWalk ==
  ASSUME WInv, Walker
  PROVE  WalkInv'
<1> USE DEF WInv, WalkInv
<1>1. CASE Begin
  BY <1>1 DEF Begin, Progress, appVars
<1>2. CASE Check
  <2>1. SUFFICES ASSUME quiet, pc' # "idle" PROVE Progress'
    BY <1>2 DEF Check, Out, Progress, pageVars, appVars, history
  <2>2. start' = num_walks /\ UNCHANGED << pte, spcd_vma_shared_flag >>
    BY <1>2, <2>1 DEF Check, Out, pageVars, appVars
  <2>3. CASE vma # NULL
    BY <1>2, <2>1, <2>2, <2>3
       DEF Check, Out, Progress, walksSinceStart, cursor, TypeOK
  <2>4. CASE vma = NULL
    <3>1. /\ pc' = "store" /\ next' = found(NULL)
          /\ num_walks' = (num_walks + passes(NULL)) % UINT_RANGE
      BY <1>2, <2>1, <2>4 DEF Check, Out, find_next_vma
    <3>2. CASE next' = NULL
      BY <2>2, <3>1, <3>2, FoundIsFirst DEF Progress, AllDone, eligible
    <3>3. CASE next' # NULL
      <4>1. /\ found(NULL) \in List \cup {NULL}
            /\ found(NULL) # NULL =>
                 /\ passes(NULL) # 0 /\ passes(NULL) = 1
                 /\ \A v \in List : eligible(v) => v >= found(NULL)
        <5> NULL \in List \cup {NULL}
          OBVIOUS
        <5> QED
          BY FoundIsFirst
      <4>2. passes(NULL) = 1 /\ next' \in List
        BY <3>1, <3>3, <4>1
      <4>3. num_walks' = num_walks + 1 \/ num_walks' < num_walks
        <5>1. num_walks \in 0 .. UINT_RANGE - 1 /\ 1 \in 0 .. 2
          BY DEF TypeOK
        <5>2. num_walks' = (num_walks + 1) % UINT_RANGE
          BY <3>1, <4>2
        <5>3. \/ num_walks < UINT_RANGE - 1 /\ num_walks' = num_walks + 1
              \/ num_walks = UINT_RANGE - 1 /\ num_walks' = 0
          BY <5>1, <5>2, WalkerAssumption
        <5> QED
          BY <5>1, <5>3, WalkerAssumption
      <4>4. ~(walksSinceStart' >= 2)
        BY <2>2, <4>3, CounterWraps, <3>1, <4>2, WalkerAssumption
           DEF walksSinceStart, TypeOK
      <4>5. DoneBefore(next')
        BY <3>1, <3>3, <4>1, <4>2 DEF DoneBefore, List
      <4> QED
        BY <2>2, <3>1, <3>3, <4>4, <4>5
           DEF Progress, DoneBefore, Done, eligible
    <3> QED
      BY <3>2, <3>3
  <2> QED
    BY <2>3, <2>4
<1>3. CASE Walk
  <2>1. SUFFICES ASSUME quiet, pc' \notin {"idle", "dead"}
                 PROVE  Progress'
    BY <1>3 DEF Walk, Out, Progress, pageVars, appVars, history
  <2>2. /\ vma # NULL /\ ~tooLong /\ addr' = next_addr /\ end' = vm_end[vma]
        /\ pc' = "range" /\ UNCHANGED << pte, appVars, cursor, start >>
    BY <1>3, <2>1 DEF Walk, Out, pageVars
  <2>3. walksSinceStart \in 0 .. 2
    BY <2>2 DEF tooLong, walksSinceStart, TypeOK
  <2> QED
    BY <1>3, <2>1, <2>2, <2>3
       DEF Walk, Progress, walksSinceStart, AllDone, DoneBefore, Done, eligible,
           cursor, appVars, pagesOf, TypeOK
<1>4. CASE Callback
  <2>1. SUFFICES ASSUME quiet, pc' = "range" PROVE Progress'
    BY <1>4 DEF Callback, Progress, appVars, history
  <2>2. /\ pte[addr] # "present" /\ addr' = addr + 1
        /\ UNCHANGED << pte, appVars, cursor, start, end, pc >>
    BY <1>4, <2>1 DEF Callback, cursor
  <2>3. \A p \in pagesOf(vma) : p < addr' => p < addr \/ p = addr
    BY <1>4, <2>1, <2>2, WalkerAssumption
       DEF Callback, Progress, pagesOf, TypeOK, NULL
  <2> QED
    BY <1>4, <2>1, <2>2, <2>3
       DEF Callback, Progress, walksSinceStart, AllDone, DoneBefore, Done,
           eligible, cursor, appVars, pagesOf
<1>5. CASE Miss
  BY <1>5, MissWalk
<1>6. CASE Store
  <2>1. SUFFICES ASSUME quiet, pc' = "walk" PROVE Progress'
    BY <1>6 DEF Store, Out, Progress, pageVars, appVars, history
  <2>2. /\ pc = "store" /\ pc' = "walk" /\ next # NULL /\ vma' = next
        /\ next_addr' = vm_start[next]
        /\ UNCHANGED << pte, appVars, num_walks, start >>
    BY <1>6, <2>1 DEF Store, Out, pageVars
  <2> QED
    BY <2>1, <2>2
       DEF Progress, walksSinceStart, AllDone, DoneBefore, Done, eligible,
           appVars
<1>7. ASSUME NEW jump \in Jumps, Hit(jump) PROVE WalkInv'
  <2>1. SUFFICES ASSUME quiet, pc' = "storeHit", next' = NULL
                 PROVE  \A v \in List : ~eligible(v)'
    BY <1>7 DEF Hit, find_next_vma, Progress, appVars, history
  <2>2. vma \in List \cup {NULL} /\ next' = found(vma)
    BY <1>7, <2>1 DEF Hit, find_next_vma, TypeOK
  <2> QED
    BY <1>7, <2>1, <2>2, FoundIsFirst DEF Hit, eligible, appVars
<1> QED
  BY <1>1, <1>2, <1>3, <1>4, <1>5, <1>6, <1>7 DEF Walker

LEMMA WalkerInvariant == Spec => []WInv
<1>1. Init => WInv
  BY InitWInv
<1>2. WInv /\ [Next]_vars => WInv'
  <2> SUFFICES ASSUME WInv, [Next]_vars PROVE WInv'
    OBVIOUS
  <2>1. CASE Kernel \/ Application
    BY <2>1, KernelType, ApplicationType, KernelCount, ApplicationCount,
       OthersCursor, OthersWalk DEF WInv
  <2>2. CASE Walker
    BY <2>2, WalkerType, WalkerCount, WalkerCursor, WalkerWalk DEF WInv
  <2>3. CASE UNCHANGED vars
    BY <2>3
       DEF WInv, TypeOK, Due, CountInv, CountsAgree, CursorInv, WalkInv,
           Progress, walksSinceStart, AllDone, DoneBefore, Done, eligible,
           vars, pageVars, appVars, cursor, walkVars, history
  <2> QED
    BY <2>1, <2>2, <2>3 DEF Next
<1> QED
  BY <1>1, <1>2, PTL DEF Spec

-----------------------------------------------------------------------------
(* The theorems *)

\* Types of the page table, the application, the cursor and the walk.
THEOREM TypeCorrect == Spec => []TypeOK
  BY WalkerInvariant, PTL DEF WInv

\* Whatever the walker clears and whenever faults, madvise, truncation, reclaim
\* and exits happen, the kernel's count of mappings agrees with the page table
\* but for pages that were swapped out or are still abandoned.
THEOREM MappingsCounted == Spec => []CountsAgree
  BY WalkerInvariant, PTL DEF WInv, CountInv

\* No cursor in private memory outlives the application whose threads made the
\* walker look there, but for a reset overtaken by a walk.
THEOREM CursorReset == Spec => []CursorEligible
  BY WalkerInvariant, PTL DEF WInv, CursorInv, CursorEligible

\* A walk that ends before it has cleared all the pages it is to clear leaves
\* none that it could clear, wherever its cursor was and whatever it cleared
\* before: as long as threads and flag do not change and num_walks does not wrap.
THEOREM NothingMissed == Spec => WalkThorough
<1>1. WInv /\ [Next]_vars
        => [pc # "idle" /\ pc' = "idle" /\ fault < spcd_num_faults
              /\ quiet /\ num_walks' >= start
            => \A v \in List : eligible(v)
                 => \A p \in pagesOf(v) : pte[p] # "present"]_vars
  <2> SUFFICES ASSUME WInv, Next, pc # "idle", pc' = "idle",
                      fault < spcd_num_faults, quiet, num_walks' >= start
               PROVE  AllDone
    BY DEF AllDone, Done
  <2>1. Check \/ Walk \/ Store
    BY DEF Next, Kernel, Fault, Zap, Truncate, DelPage, SwapOut, Application,
           Threads, ForkReturns, LastExit, ResetFlag, ResetProc, ExitRepair,
           ExitZap, Walker, Begin, Callback, Miss, Hit, find_next_vma, walkVars,
           cursor
  <2>2. CASE Check
    BY <2>2 DEF Check, inLoop, Out, find_next_vma, WInv, WalkInv
  <2>3. CASE Walk
    BY <2>3
       DEF Walk, Out, tooLong, walksSinceStart, cursor, WInv, WalkInv, Progress,
           TypeOK
  <2>4. CASE Store
    BY <2>4 DEF Store, Out, WInv, WalkInv, Progress, AllDone
  <2> QED
    BY <2>1, <2>2, <2>3, <2>4
<1> QED
  BY <1>1, WalkerInvariant, PTL DEF Spec, WalkThorough

=============================================================================
