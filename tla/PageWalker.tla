----------------------------- MODULE PageWalker -----------------------------
(***************************************************************************)
(* Extra page faults: the walker thread of src/pagefault.c, which clears   *)
(* the present bits of pages so that they fault again, and the probes of   *)
(* src/probes.c that set the bits again before the kernel looks at them.   *)
(*                                                                         *)
(* The model has one process and the walker's cursor in it (proc[tid]).    *)
(* The walker holds mmap_sem for writing during a walk, which keeps page   *)
(* faults, madvise and the unmapping at exit out, but neither truncation,  *)
(* reclaim nor the probes.  An entry with neither bit nor content is       *)
(* "none".  VMAs do not come and go while the process lives: a cursor in a *)
(* freed VMA has no defined behaviour.                                     *)
(***************************************************************************)
EXTENDS Integers, FiniteSets

CONSTANTS
  VMAs,              \* number of VMAs in the list mm->mmap
  vm_start, vm_end,  \* of each VMA, in pages
  Shared,            \* the VMAs with VM_SHARED
  File, Anonymous,   \* the pages of a file, and those that reclaim swaps out
  spcd_num_faults,   \* pages to clear in a walk
  Jumps,             \* 1 .. 61 in the code
  UINT_RANGE         \* 2^32 in the code

List == 1 .. VMAs

ASSUME WalkerAssumption ==
  /\ VMAs \in Nat /\ Shared \subseteq List
  /\ vm_start \in [List -> Nat] /\ vm_end \in [List -> Nat]
  /\ \A v \in List : vm_start[v] < vm_end[v]
  /\ spcd_num_faults \in Nat /\ Jumps \subseteq Nat \ {0}
  /\ UINT_RANGE \in Nat /\ UINT_RANGE > 3

pagesOf(v) == vm_start[v] .. vm_end[v] - 1

Pages == UNION {pagesOf(v) : v \in List}

ASSUME FileAssumption == File \subseteq Pages /\ Anonymous \subseteq Pages \ File

VARIABLES
  pte,         \* page -> "none", "present", "cleared" or "swap"
  counted,     \* pages whose frame the kernel counts as mapped
  active,      \* spcd_active_threads: "none", "few" or "many", 4 or more
  exiting,     \* what the last thread's exit does next
  spcd_vma_shared_flag,
  vma, next_addr, num_walks,   \* the cursor; vma 0 is NULL
  pc, fault, start, addr, end, \* pf_pagewalk and its walk_page_range
  next,        \* what find_next_vma returned
  swapped,     \* history: pages that were swapped out
  abandoned,   \* history: pages of the file unmapped while cleared
  quiet,       \* history: what the walk depends on has not changed during it
  overtaken    \* history: the last reset came during a walk

pageVars == << pte, counted, swapped, abandoned >>
appVars == << active, exiting, spcd_vma_shared_flag >>
cursor == << vma, next_addr, num_walks >>
walkVars == << pc, fault, start, addr, end, next >>
history == << quiet, overtaken >>
vars == << pageVars, appVars, cursor, walkVars, history >>

NULL == 0

TypeOK ==
  /\ pte \in [Pages -> {"none", "present", "cleared", "swap"}]
  /\ counted \subseteq Pages /\ swapped \subseteq Pages
  /\ abandoned \subseteq Pages
  /\ active \in {"none", "few", "many"}
  /\ exiting \in {"no", "flag", "proc", "repair", "zap"}
  /\ spcd_vma_shared_flag \in {0, 1}
  /\ vma \in List \cup {NULL} /\ next_addr \in Nat
  /\ num_walks \in 0 .. UINT_RANGE - 1
  /\ pc \in {"idle", "check", "walk", "range", "hit", "store", "storeHit", "dead"}
  /\ next \in List \cup {NULL} /\ overtaken \in BOOLEAN
  /\ fault \in 0 .. spcd_num_faults /\ start \in 0 .. UINT_RANGE - 1
  /\ addr \in Nat /\ end \in Nat /\ quiet \in BOOLEAN

Init ==
  /\ pte = [p \in Pages |-> "none"] /\ counted = {}
  /\ active = "none" /\ exiting = "no" /\ spcd_vma_shared_flag = 1
  /\ vma = NULL /\ next_addr = 0 /\ num_walks = 0
  /\ pc = "idle" /\ fault = 0 /\ start = 0 /\ addr = 0 /\ end = 0
  /\ next = NULL /\ overtaken = FALSE
  /\ swapped = {} /\ abandoned = {} /\ quiet = TRUE

semFree == pc = "idle"
running == active # "none"

-----------------------------------------------------------------------------
(* The kernel and the probes in it *)

\* Faulty variant: fix_pte_empty.
notRepaired(e) == e

\* fix_pte_real takes whatever is neither present nor none.
repaired(e) == IF e \in {"cleared", "swap"} THEN "present" ELSE e

\* handle_pte_fault after the probe at its entry.
Fault(p) ==
  /\ running /\ semFree
  /\ pte' = [pte EXCEPT ![p] = IF @ = "none" THEN "present" ELSE repaired(@)]
  /\ counted' = IF pte[p] = "none" THEN counted \cup {p} ELSE counted
  /\ UNCHANGED << swapped, abandoned, appVars, cursor, walkVars, history >>

\* unmap_page_range on entries e.  The frame of an entry that is not present
\* stays counted.
Unmap(S, e) ==
  /\ pte' = [p \in Pages |-> IF p \in S THEN "none" ELSE e[p]]
  /\ counted' = counted \ {p \in S : e[p] = "present"}

\* madvise, by a program with a name that ends with .x.
Zap(p) ==
  /\ running /\ semFree
  /\ Unmap({p}, [pte EXCEPT ![p] = repaired(@)])
  /\ UNCHANGED << swapped, abandoned, appVars, cursor, walkVars, history >>

\* Truncation of a file takes no mmap_sem.  The entry is not repaired in a
\* program of another name, or is cleared again by a walk in progress.
Truncate(p) ==
  /\ Unmap({p}, pte)
  /\ abandoned' = IF pte[p] = "cleared" THEN abandoned \cup {p} ELSE abandoned
  /\ UNCHANGED << swapped, appVars, cursor, walkVars, history >>

\* Reclaim looks at present entries only.
SwapOut(p) ==
  /\ pte[p] = "present" /\ p \in counted
  /\ pte' = [pte EXCEPT ![p] = "swap"]
  /\ counted' = counted \ {p}
  /\ swapped' = swapped \cup {p}
  /\ UNCHANGED << abandoned, appVars, cursor, walkVars, history >>

\* The unmapped page leaves the page cache: del_page_handler.
DelPage(p) ==
  /\ pte[p] = "none"
  /\ counted' = counted \ {p}
  /\ abandoned' = abandoned \ {p}
  /\ UNCHANGED << pte, swapped, appVars, cursor, walkVars, history >>

Kernel ==
  \/ \E p \in Pages : Fault(p) \/ Zap(p)
  \/ \E p \in File : Truncate(p) \/ DelPage(p)
  \/ \E p \in Anonymous : SwapOut(p)

-----------------------------------------------------------------------------
(* The application *)

\* Threads come and go.
Threads(n) ==
  /\ exiting = "no" /\ n \in {"few", "many"} \ {active}
  /\ active' = n /\ quiet' = FALSE /\ UNCHANGED overtaken
  /\ UNCHANGED << exiting, spcd_vma_shared_flag, pageVars, cursor, walkVars >>

\* thread_handler, whether or not the table takes the child.
ForkReturns ==
  /\ spcd_vma_shared_flag' = 0 /\ quiet' = FALSE /\ UNCHANGED overtaken
  /\ UNCHANGED << active, exiting, pageVars, cursor, walkVars >>

\* The last thread exits: process_handler calls reset_stats ...
LastExit ==
  /\ exiting = "no" /\ active = "few"
  /\ active' = "none" /\ exiting' = "flag" /\ quiet' = FALSE /\ UNCHANGED overtaken
  /\ UNCHANGED << spcd_vma_shared_flag, pageVars, cursor, walkVars >>

ResetFlag ==
  /\ exiting = "flag"
  /\ spcd_vma_shared_flag' = 1 /\ exiting' = "proc"
  /\ UNCHANGED << active, pageVars, cursor, walkVars, history >>

\* Faulty variant: the cursor survives.
ResetNoProc ==
  /\ exiting = "proc" /\ exiting' = "repair"
  /\ UNCHANGED << active, spcd_vma_shared_flag, pageVars, cursor, walkVars,
                  history >>

ResetProc ==
  /\ exiting = "proc" /\ exiting' = "repair"
  /\ vma' = NULL /\ next_addr' = 0 /\ num_walks' = 0
  /\ overtaken' = ~semFree
  /\ UNCHANGED << active, spcd_vma_shared_flag, pageVars, walkVars, quiet >>

\* ... and then its memory is unmapped.  exit_mm has waited for mmap_sem, and
\* with no thread active no walk gets past its first check.  First the probe,
ExitRepair ==
  /\ exiting = "repair" /\ exiting' = "zap" /\ semFree
  /\ pte' = [p \in Pages |-> repaired(pte[p])]
  /\ UNCHANGED << counted, swapped, abandoned, active, spcd_vma_shared_flag,
                  cursor, walkVars, history >>

\* then the kernel.
ExitZap ==
  /\ exiting = "zap" /\ exiting' = "no"
  /\ Unmap(Pages, pte)
  /\ UNCHANGED << swapped, abandoned, active, spcd_vma_shared_flag, cursor,
                  walkVars, history >>

Application ==
  \/ \E n \in {"few", "many"} : Threads(n)
  \/ ForkReturns \/ LastExit \/ ResetFlag \/ ResetProc \/ ExitRepair \/ ExitZap

-----------------------------------------------------------------------------
(* The walker *)

eligible(v) == spcd_vma_shared_flag = 0 \/ v \in Shared

\* Faulty variant: the passes through the list are not counted.
passesUncounted(prev) == 0

\* How often find_next_vma starts at the head of the list, from prev.
passes(prev) ==
  IF prev # NULL /\ \E v \in List : v > prev /\ eligible(v) THEN 0
  ELSE IF \E v \in List : eligible(v) THEN 1 ELSE 2

\* The VMA it finds.
found(prev) ==
  LET later == {v \in List : eligible(v) /\ prev # NULL /\ v > prev}
      from == IF later # {} THEN later ELSE {v \in List : eligible(v)}
  IN IF from = {} THEN NULL ELSE CHOOSE v \in from : \A w \in from : v <= w

find_next_vma(label) ==
  /\ num_walks' = (num_walks + passes(vma)) % UINT_RANGE
  /\ next' = found(vma) /\ pc' = label
  /\ UNCHANGED << vma, next_addr >>

Out == pc' = "idle" /\ fault' = 0 /\ start' = 0

\* The cursor moves to the next VMA, or the walk ends.
Store ==
  /\ pc \in {"store", "storeHit"}
  /\ vma' = next /\ next' = NULL
  /\ IF next = NULL
     THEN Out /\ UNCHANGED next_addr
     ELSE /\ pc' = IF pc = "store" THEN "walk" ELSE "check"
          /\ next_addr' = vm_start[next] /\ UNCHANGED << fault, start >>
  /\ UNCHANGED << pageVars, appVars, num_walks, addr, end, history >>

Begin ==
  /\ semFree /\ active = "many"
  /\ pc' = "check" /\ fault' = 0 /\ quiet' = TRUE /\ UNCHANGED overtaken
  /\ UNCHANGED << pageVars, appVars, cursor, start, addr, end, next >>

\* Faulty variant: an off-by-one in the loop over the faults.
inLoopOnceMore == fault <= spcd_num_faults /\ active = "many"

inLoop == fault < spcd_num_faults /\ active = "many"

Check ==
  /\ pc = "check"
  /\ \/ /\ ~inLoop /\ Out
        /\ UNCHANGED << cursor, next >>
     \/ /\ inLoop /\ UNCHANGED fault
        /\ start' = num_walks
        /\ IF vma = NULL THEN find_next_vma("store")
                         ELSE pc' = "walk" /\ UNCHANGED << cursor, next >>
  /\ UNCHANGED << pageVars, appVars, addr, end, history >>

\* num_walks has 32 bits, start has 64.
walksSinceStart == num_walks - start

\* Faulty variant: one pass through the list is enough.
tooLongAfterOne == walksSinceStart > 0 \/ walksSinceStart < 0

tooLong == walksSinceStart > 2 \/ walksSinceStart < 0

\* The call of walk_page_range; a cursor that was reset makes it read the end
\* of no VMA, which ends the thread.
Walk ==
  /\ pc = "walk"
  /\ IF tooLong THEN Out /\ UNCHANGED << addr, end >>
     ELSE /\ UNCHANGED << fault, start >>
          /\ IF vma = NULL THEN pc' = "dead" /\ UNCHANGED << addr, end >>
             ELSE pc' = "range" /\ addr' = next_addr /\ end' = vm_end[vma]
  /\ UNCHANGED << pageVars, appVars, cursor, next, history >>

\* callback_page_walk for one entry.
Callback ==
  /\ pc = "range" /\ addr < end
  /\ IF pte[addr] = "present"
     THEN /\ pte' = [pte EXCEPT ![addr] = "cleared"]
          /\ next_addr' = addr
          /\ pc' = "hit" /\ addr' = 0 /\ end' = 0
     ELSE addr' = addr + 1 /\ UNCHANGED << pte, next_addr, pc, end >>
  /\ UNCHANGED << counted, swapped, abandoned, appVars, vma, num_walks, fault,
                  start, next, history >>

\* No page was cleared: on to the next VMA.
Miss ==
  /\ pc = "range" /\ addr = end
  /\ find_next_vma("store") /\ addr' = 0 /\ end' = 0
  /\ UNCHANGED << pageVars, appVars, fault, start, history >>

\* A page was cleared: jump ahead, on to the next VMA if need be.
Hit(jump) ==
  /\ pc = "hit"
  /\ IF vma = NULL THEN pc' = "dead" /\ UNCHANGED << cursor, next >>
     ELSE IF next_addr + jump >= vm_end[vma] THEN find_next_vma("storeHit")
     ELSE /\ next_addr' = next_addr + jump
          /\ pc' = "check" /\ UNCHANGED << vma, num_walks, next >>
  /\ fault' = fault + 1
  /\ UNCHANGED << pageVars, appVars, start, addr, end, history >>

Walker ==
  \/ Begin \/ Check \/ Walk \/ Callback \/ Miss \/ Store
  \/ \E jump \in Jumps : Hit(jump)

Next == Kernel \/ Application \/ Walker

Spec == Init /\ [][Next]_vars

\* The walker sleeps 10 ms between walks and waits for nothing in one.
FairSpec == Spec /\ WF_vars(Walker)

-----------------------------------------------------------------------------
(* Properties *)

\* The kernel's count of mappings agrees with the page table: the repairs on
\* faults (probes.c:72) and before unmapping (probes.c:111) come in time, and
\* what another program or a walk in progress spoils is put right when the
\* page leaves the page cache (probes.c:91).  A page that was swapped out is
\* excepted: fix_pte_real takes its entry for one of the walker's.
CountsAgree ==
  \A p \in Pages \ (swapped \cup abandoned) :
    p \in counted <=> pte[p] \in {"present", "cleared"}

\* While an application has no threads yet only shared memory is walked
\* (pagefault.c:86): no cursor in private memory outlives the application
\* whose threads made the walker look there, unless the reset of the cursor
\* was overtaken by the store of a walk under way (pagefault.c:130, 136).
CursorEligible ==
  exiting # "proc" /\ ~overtaken /\ vma # NULL => eligible(vma)

\* A walk that ends (pagefault.c:122) before it has cleared all the pages it is
\* to clear leaves none that it could still clear: after the last one it has
\* searched the whole list, wherever the cursor was.  Two walks are excepted:
\* one during which threads came or went or the flag was cleared (quiet), and
\* one that ends because the 32 bits of num_walks wrapped (num_walks' < start).
WalkThorough ==
  [][pc # "idle" /\ pc' = "idle" /\ fault < spcd_num_faults
       /\ quiet /\ num_walks' >= start
     => \A v \in List : eligible(v) => \A p \in pagesOf(v) : pte[p] # "present"]_vars

\* Every walk ends and releases mmap_sem, which the faults of the process
\* wait for, whatever threads and flag do meanwhile; only a reset of the cursor
\* under it may end the walker itself instead, on the end of no VMA
\* (pagefault.c:125).
WalkEnds == (pc # "idle") ~> (pc = "idle" \/ (pc = "dead" /\ overtaken))

=============================================================================
