---------------------------- MODULE ProbesProofs ----------------------------
(***************************************************************************)
(* Proofs about Probes.                                                    *)
(*                                                                         *)
(* For every set of pids, every hash, every limit and every finite number  *)
(* of processors: the state stays well typed, and the counter of threads   *)
(* overshoots max_threads by less than the number of processors.           *)
(*                                                                         *)
(* On one processor, for every max_threads that the two arrays of pid.c    *)
(* have room for (they have 16384 slots, and max_threads is 1024 unless    *)
(* the module is loaded with another): the tables agree, the count is      *)
(* exact, what is remembered belongs to the threads it is attributed to,   *)
(* and the handlers implement ThreadTable.                                 *)
(***************************************************************************)
EXTENDS Probes, FiniteSetTheorems, TLAPS

\* The initial state is well typed.
LEMMA InitTypeOK == Init => TypeOK
BY TableAssumption
   DEF Init, TableInit, TypeOK, TableTypeOK, Entry, PidOrEmpty, Labels,
       NoTask, Empty, Slots

USE DEF tableVars, handlerVars, taskVars, appVars

\* A step of the tasks around the handlers keeps the state well typed.
LEMMA TasksTypeOK ==
  ASSUME TypeOK, Tasks
  PROVE  TypeOK'
<1>1. ASSUME NEW p \in Pids, Spawn(p) PROVE TypeOK'
  BY <1>1 DEF TypeOK, TableTypeOK, Spawn
<1>2. ASSUME NEW p \in Pids, Reap(p) PROVE TypeOK'
  BY <1>2 DEF TypeOK, TableTypeOK, Reap
<1>3. ASSUME NEW p \in Pids, NEW q \in Pids, Fork(p, q) PROVE TypeOK'
  BY <1>3 DEF TypeOK, TableTypeOK, Fork
<1>4. ASSUME NEW c \in CPUs, NEW p \in Pids, Tick(c, p) PROVE TypeOK'
  BY <1>4 DEF TypeOK, TableTypeOK, Tick, Enter, Labels
<1>5. ASSUME NEW c \in CPUs, NEW p \in Pids, Exit(c, p) PROVE TypeOK'
  BY <1>5 DEF TypeOK, TableTypeOK, Exit, Enter, Labels
<1>6. ASSUME NEW c \in CPUs, NEW p \in Pids, ForkReturn(c, p) PROVE TypeOK'
  BY <1>6 DEF TypeOK, TableTypeOK, ForkReturn, Enter, Labels, NoTask
<1>7. ASSUME NEW c \in CPUs, NEW p \in Pids, Fault(c, p) PROVE TypeOK'
  BY <1>7 DEF TypeOK, TableTypeOK, Fault, Enter, Labels
<1>8. ASSUME NEW c \in CPUs, NEW p \in Pids, NEW name \in BOOLEAN,
             Exec(c, p, name)
      PROVE  TypeOK'
  BY <1>8 DEF TypeOK, TableTypeOK, Exec, Enter, Labels
<1> QED
  BY <1>1, <1>2, <1>3, <1>4, <1>5, <1>6, <1>7, <1>8 DEF Tasks

\* A slot holds an entry, and a lookup yields an integer.
LEMMA LookupType ==
  ASSUME TypeOK, NEW p \in Pids
  PROVE  slotOf(p) \in Entry /\ spcd_get_tid(p) \in Int
BY TableAssumption
   DEF TypeOK, TableTypeOK, slotOf, spcd_get_tid, Entry, Empty

\* The moves of a program counter keep the types of the handlers' locals.
LEMMA MovesTyped ==
  ASSUME TypeOK, NEW c \in CPUs, NEW from, NEW to \in Labels, from # "idle",
         NEW t \in Int
  PROVE  Goto(c, from, to) \/ GotoWith(c, from, to, t) \/ Return(c, from)
           => /\ pc' \in [CPUs -> Labels]
              /\ cur' \in [CPUs -> Pids \cup {NoTask}]
              /\ pid' \in [CPUs -> Pids \cup {NoTask}]
              /\ tid' \in [CPUs -> Int]
              /\ \A d \in CPUs :
                   pc'[d] # "idle" => cur'[d] \in Pids /\ pid'[d] \in Pids
<1>1. CASE Goto(c, from, to)
  BY <1>1 DEF TypeOK, Goto
<1>2. CASE GotoWith(c, from, to, t)
  BY <1>2 DEF TypeOK, GotoWith
<1>3. CASE Return(c, from)
  BY <1>3 DEF TypeOK, Return, NoTask, Empty, Labels
<1> QED
  BY <1>1, <1>2, <1>3

\* A step of process_handler keeps the state well typed.
LEMMA ProcessHandlerTypeOK ==
  ASSUME TypeOK, NEW c \in CPUs, ProcessHandler(c)
  PROVE  TypeOK'
<1>1. pc[c] # "idle" => pid[c] \in Pids /\ cur[c] \in Pids
  BY DEF TypeOK
<1>2. CASE LookupStop(c)
  <2>1. spcd_get_tid(pid[c]) \in Int
    BY <1>1, <1>2, LookupType DEF LookupStop
  <2> QED
    BY <1>2, <2>1 DEF TypeOK, TableTypeOK, LookupStop, GotoWith, Labels
<1>3. CASE LookupNew(c)
  BY <1>1, <1>3, TableAssumption
     DEF TypeOK, TableTypeOK, LookupNew, GotoWith, Labels
<1>4. CASE LookupSkip(c)
  BY <1>1, <1>4, TableAssumption
     DEF TypeOK, TableTypeOK, LookupSkip, Return, Labels, NoTask, Empty
<1>5. CASE DeleteTest(c)
  BY <1>1, <1>5, TableAssumption
     DEF TypeOK, TableTypeOK, DeleteTest, Goto, Labels
<1>6. CASE DeleteTid(c)
  <2>1. spcd_pid' \in [Slots -> Entry]
    BY <1>1, <1>6, TableAssumption
       DEF TypeOK, TableTypeOK, DeleteTid, Goto, EraseTid, Entry, Empty
  <2> QED
    BY <1>1, <1>6, <2>1
       DEF TypeOK, TableTypeOK, DeleteTid, Goto, Labels, EraseTid
<1>7. CASE DeletePid(c)
  BY <1>1, <1>7, TableAssumption, ZenonT(60)
     DEF TypeOK, TableTypeOK, DeletePid, Goto, Labels, ErasePid, Entry, PidOrEmpty, Empty, Slots
<1>8. CASE DeleteCount(c)
  BY <1>1, <1>8, TableAssumption
     DEF TypeOK, TableTypeOK, DeleteCount, Goto, Labels, DecActive
<1>9. CASE Left(c)
  BY <1>1, <1>9, TableAssumption
     DEF TypeOK, TableTypeOK, Left, Goto, Return, Labels, NoTask, Empty
<1>10. CASE reset_stats(c)
  BY <1>1, <1>10, TableAssumption
     DEF TypeOK, TableTypeOK, reset_stats, Return, Labels, NoTask, Empty
<1>11. CASE First(c)
  BY <1>1, <1>11, TableAssumption
     DEF TypeOK, TableTypeOK, First, Goto, Labels
<1>12. CASE Wipe(c)
  BY <1>1, <1>12, TableAssumption
     DEF TypeOK, TableTypeOK, Wipe, Goto, Labels, ClearForward, Blank, Entry, PidOrEmpty, Empty, Slots
<1>13. CASE WipeReverse(c)
  BY <1>1, <1>13, TableAssumption
     DEF TypeOK, TableTypeOK, WipeReverse, Goto, Labels, ClearReverse, Blank, Entry, PidOrEmpty, Empty, Slots
<1>14. CASE ZeroNum(c)
  BY <1>1, <1>14, TableAssumption
     DEF TypeOK, TableTypeOK, ZeroNum, Goto, Labels, ZeroNumThreads
<1>15. CASE ZeroActiveCount(c)
  BY <1>1, <1>15, TableAssumption
     DEF TypeOK, TableTypeOK, ZeroActiveCount, Goto, Labels, ZeroActive
<1>16. CASE spcd_comm_init(c)
  BY <1>1, <1>16, TableAssumption
     DEF TypeOK, TableTypeOK, spcd_comm_init, Goto, Labels
<1> QED
  BY <1>2, <1>3, <1>4, <1>5, <1>6, <1>7, <1>8, <1>9, <1>10, <1>11, <1>12, <1>13, <1>14, <1>15, <1>16 DEF ProcessHandler

\* A step of spcd_add_pid or of its callers after it keeps the state well
\* typed.
LEMMA AddPidTypeOK ==
  ASSUME TypeOK, NEW c \in CPUs, AddPid(c)
  PROVE  TypeOK'
<1>1. pc[c] # "idle" => pid[c] \in Pids /\ cur[c] \in Pids
  BY DEF TypeOK
<1>2. CASE Limit(c)
  BY <1>1, <1>2, TableAssumption
     DEF TypeOK, TableTypeOK, Limit, AddReturn, Goto, Return, Labels, NoTask, Empty
<1>3. CASE Probe(c)
  BY <1>1, <1>3, TableAssumption
     DEF TypeOK, TableTypeOK, Probe, AddReturn, Goto, Return, Labels, NoTask, Empty
<1>4. CASE Claim(c)
  BY <1>1, <1>4, TableAssumption, ZenonT(60)
     DEF TypeOK, TableTypeOK, Claim, Goto, Labels, ClaimSlot, Entry, PidOrEmpty, Empty, Slots
<1>5. CASE Number(c)
  BY <1>1, <1>5, TableAssumption
     DEF TypeOK, TableTypeOK, Number, GotoWith, Labels, IncNumThreads
<1>6. CASE SetTid(c)
  BY <1>1, <1>6, TableAssumption, ZenonT(60)
     DEF TypeOK, TableTypeOK, SetTid, Goto, Labels, StoreTid, Entry, PidOrEmpty, Empty, Slots
<1>7. CASE Enlist(c)
  BY <1>1, <1>7, TableAssumption
     DEF TypeOK, TableTypeOK, Enlist, Goto, Labels, IncActive
<1>8. CASE Mirror(c)
  <2>1. pc[c] = "mirror"
    BY <1>8 DEF Mirror, AddReturn, Goto, Return
  <2>2. slotOf(pid[c]) \in Entry
    BY <1>1, <2>1, LookupType
  <2>3. spcd_pid_reverse' \in [Slots -> Entry]
    BY <1>8, <2>2 DEF Mirror, MirrorSlot, TypeOK, TableTypeOK
  <2>4. Goto(c, "mirror", "unshare") \/ Return(c, "mirror")
    BY <1>8 DEF Mirror, AddReturn
  <2>5. spcd_pid' \in [Slots -> Entry]
    BY <1>8, <2>2 DEF Mirror, MirrorSlot, TypeOK, TableTypeOK
  <2> QED
    BY <1>8, <2>3, <2>4, <2>5, MovesTyped
       DEF Mirror, MirrorSlot, TypeOK, TableTypeOK, Labels
<1>9. CASE Unshare(c)
  BY <1>1, <1>9, TableAssumption
     DEF TypeOK, TableTypeOK, Unshare, Return, Labels, NoTask, Empty
<1> QED
  BY <1>2, <1>3, <1>4, <1>5, <1>6, <1>7, <1>8, <1>9 DEF AddPid

\* A step of pte_fault_handler keeps the state well typed.
LEMMA FaultHandlerTypeOK ==
  ASSUME TypeOK, NEW c \in CPUs, FaultHandler(c)
  PROVE  TypeOK'
<1>1. pc[c] # "idle" => pid[c] \in Pids /\ cur[c] \in Pids
  BY DEF TypeOK
<1>2. CASE FaultLookup(c)
  <2>1. spcd_get_tid(pid[c]) \in Int
    BY <1>1, <1>2, LookupType DEF FaultLookup
  <2>2. \/ GotoWith(c, "fault", "record", spcd_get_tid(pid[c]))
        \/ Return(c, "fault")
    BY <1>2 DEF FaultLookup
  <2>3. "record" \in Labels
    BY DEF Labels
  <2> QED
    BY <1>2, <2>1, <2>2, <2>3, MovesTyped
       DEF FaultLookup, TypeOK, TableTypeOK
<1>3. CASE Record(c)
  BY <1>1, <1>3, TableAssumption
     DEF TypeOK, TableTypeOK, Record, Return, Labels, NoTask, Empty, Accessor
<1>4. CASE RecordNothing(c)
  BY <1>1, <1>4, TableAssumption
     DEF TypeOK, TableTypeOK, RecordNothing, Return, Labels, NoTask, Empty
<1> QED
  BY <1>2, <1>3, <1>4 DEF FaultHandler

\* Type correctness: the arrays of pid.c hold pids, tids and their two
\* initial values, the handlers' locals have their types, and a processor
\* that runs a handler knows its task and the pid it works for.
THEOREM TypeCorrect == Spec => []TypeOK
<1>1. TypeOK /\ [Next]_vars => TypeOK'
  <2> SUFFICES ASSUME TypeOK, [Next]_vars PROVE TypeOK'
    OBVIOUS
  <2>1. CASE Tasks
    BY <2>1, TasksTypeOK
  <2>2. ASSUME NEW c \in CPUs, Handler(c) PROVE TypeOK'
    BY <2>2, ProcessHandlerTypeOK, AddPidTypeOK, FaultHandlerTypeOK
       DEF Handler
  <2>3. CASE UNCHANGED vars
    BY <2>3 DEF vars, TypeOK, TableTypeOK
  <2> QED
    BY <2>1, <2>2, <2>3 DEF Next
<1> QED
  BY InitTypeOK, <1>1, PTL DEF Spec

-----------------------------------------------------------------------------
(* The overshoot.  NumBounded is not inductive: a processor between the    *)
(* test of the limit and the increment holds a permit it will use.  The    *)
(* invariant counts the permits together with the tids handed out.         *)

permits == {c \in CPUs : pc[c] \in {"probe", "claim", "number"}}

PermitsBounded ==
  spcd_num_threads + Cardinality(permits)
    <= max_threads + Cardinality(CPUs) - 1

\* The permits are at most as many as the processors.
LEMMA PermitsFinite ==
  /\ IsFiniteSet(permits) /\ Cardinality(permits) \in Nat
  /\ IsFiniteSet(permits') /\ Cardinality(permits') \in Nat
  /\ Cardinality(CPUs) \in Nat
  /\ Cardinality(permits) <= Cardinality(CPUs)
  /\ Cardinality(permits') <= Cardinality(CPUs)
<1>1. permits \subseteq CPUs /\ permits' \subseteq CPUs
  BY DEF permits
<1> QED
  BY <1>1, CPUsAssumption, FS_Subset, FS_CardinalityType

\* No step of the tasks hands out a tid or a permit (thread_handler starts
\* before the test).
LEMMA TasksPermits ==
  ASSUME TypeOK, Tasks
  PROVE  spcd_num_threads' = spcd_num_threads /\ permits' \subseteq permits
<1>1. ASSUME NEW p \in Pids, Spawn(p) \/ Reap(p)
      PROVE  spcd_num_threads' = spcd_num_threads /\ permits' \subseteq permits
  BY <1>1 DEF Spawn, Reap, permits
<1>2. ASSUME NEW p \in Pids, NEW q \in Pids, Fork(p, q)
      PROVE  spcd_num_threads' = spcd_num_threads /\ permits' \subseteq permits
  BY <1>2 DEF Fork, permits
<1>3. ASSUME NEW c \in CPUs, NEW p \in Pids,
             \/ Tick(c, p) \/ Exit(c, p) \/ ForkReturn(c, p) \/ Fault(c, p)
             \/ \E name \in BOOLEAN : Exec(c, p, name)
      PROVE  spcd_num_threads' = spcd_num_threads /\ permits' \subseteq permits
  BY <1>3 DEF TypeOK, Tick, Exit, ForkReturn, Fault, Exec, Enter, permits
<1> QED
  BY <1>1, <1>2, <1>3 DEF Tasks

\* A step of a handler other than the test and the increment gives no permit
\* and hands out no tid.
LEMMA HandlerPermits ==
  ASSUME TypeOK, NEW c \in CPUs, Handler(c), ~Limit(c), ~Number(c)
  PROVE  /\ spcd_num_threads' \in {0, spcd_num_threads}
         /\ permits' \subseteq permits
<1>1. CASE ProcessHandler(c)
  <2>1. spcd_num_threads' \in {0, spcd_num_threads}
    BY <1>1
       DEF ProcessHandler, LookupStop, LookupNew, LookupSkip, DeleteTest,
           DeleteTid, DeletePid, DeleteCount, Left, reset_stats, First, Wipe,
           WipeReverse, ZeroNum, ZeroActiveCount, spcd_comm_init, EraseTid,
           ErasePid, DecActive, ClearForward, ClearReverse, ZeroNumThreads,
           ZeroActive
  <2>2. permits' \subseteq permits
    BY <1>1
       DEF TypeOK, permits, Goto, GotoWith, Return,
           ProcessHandler, LookupStop, LookupNew, LookupSkip, DeleteTest,
           DeleteTid, DeletePid, DeleteCount, Left, reset_stats, First, Wipe,
           WipeReverse, ZeroNum, ZeroActiveCount, spcd_comm_init
  <2> QED
    BY <2>1, <2>2
<1>2. CASE AddPid(c)
  <2>1. spcd_num_threads' \in {0, spcd_num_threads}
    BY <1>2
       DEF AddPid, Probe, Claim, SetTid, Enlist, Mirror, Unshare, ClaimSlot,
           StoreTid, IncActive, MirrorSlot
  <2>2. permits' \subseteq permits
    BY <1>2
       DEF TypeOK, permits, Goto, Return, AddReturn,
           AddPid, Probe, Claim, SetTid, Enlist, Mirror, Unshare
  <2> QED
    BY <2>1, <2>2
<1>3. CASE FaultHandler(c)
  BY <1>3
     DEF TypeOK, permits, GotoWith, Return, FaultHandler, FaultLookup, Record,
         RecordNothing
<1> QED
  BY <1>1, <1>2, <1>3 DEF Handler

\* The test gives a permit while a tid is left; with it there are at most as
\* many as processors.
LEMMA LimitPermits ==
  ASSUME TypeOK, PermitsBounded, NEW c \in CPUs, Limit(c)
  PROVE  PermitsBounded'
<1>1. spcd_num_threads' = spcd_num_threads
  BY DEF Limit
<1>2. CASE tableFull
  <2>1. permits' \subseteq permits
    BY <1>2 DEF Limit, AddReturn, Goto, Return, TypeOK, permits
  <2>2. Cardinality(permits') <= Cardinality(permits)
    BY <2>1, PermitsFinite, FS_Subset
  <2> QED
    BY <1>1, <2>2, PermitsFinite, TableAssumption
       DEF PermitsBounded, TypeOK, TableTypeOK
<1>3. CASE ~tableFull
  <2>1. spcd_num_threads <= max_threads - 1
    BY <1>3, TableAssumption
       DEF tableFull, spcd_get_num_threads, TypeOK, TableTypeOK
  <2> QED
    BY <1>1, <2>1, PermitsFinite, TableAssumption
       DEF PermitsBounded, TypeOK, TableTypeOK
<1> QED
  BY <1>2, <1>3

\* The increment uses up the permit of its processor.
LEMMA NumberPermits ==
  ASSUME TypeOK, PermitsBounded, NEW c \in CPUs, Number(c)
  PROVE  PermitsBounded'
<1>1. c \in permits /\ permits' = permits \ {c}
  BY DEF Number, GotoWith, TypeOK, permits
<1>2. Cardinality(permits') = Cardinality(permits) - 1
  BY <1>1, PermitsFinite, FS_RemoveElement
<1>3. spcd_num_threads' = spcd_num_threads + 1
  BY DEF Number, IncNumThreads
<1> QED
  BY <1>2, <1>3, PermitsFinite, TableAssumption
     DEF PermitsBounded, TypeOK, TableTypeOK

\* Permits and tids together never exceed the limit by as many as there are
\* processors.
LEMMA PermitsInvariant == Spec => []PermitsBounded
<1>1. Init => PermitsBounded
  <2> SUFFICES ASSUME Init PROVE PermitsBounded
    OBVIOUS
  <2>1. permits = {}
    BY DEF Init, permits
  <2>2. Cardinality(permits) = 0
    BY <2>1, FS_EmptySet
  <2>3. Cardinality(CPUs) # 0
    BY CPUsAssumption, FS_EmptySet
  <2> QED
    BY <2>2, <2>3, PermitsFinite, TableAssumption
       DEF Init, TableInit, PermitsBounded
<1>2. TypeOK /\ TypeOK' /\ PermitsBounded /\ [Next]_vars => PermitsBounded'
  <2> SUFFICES ASSUME TypeOK, TypeOK', PermitsBounded, [Next]_vars
               PROVE  PermitsBounded'
    OBVIOUS
  <2>1. ASSUME spcd_num_threads' \in {0, spcd_num_threads},
               permits' \subseteq permits
        PROVE  PermitsBounded'
    <3>1. Cardinality(permits') <= Cardinality(permits)
      BY <2>1, PermitsFinite, FS_Subset
    <3> QED
      BY <2>1, <3>1, PermitsFinite, TableAssumption
         DEF PermitsBounded, TypeOK, TableTypeOK
  <2>2. CASE Tasks
    BY <2>1, <2>2, TasksPermits
  <2>3. ASSUME NEW c \in CPUs, Handler(c) PROVE PermitsBounded'
    BY <2>1, <2>3, HandlerPermits, LimitPermits, NumberPermits
  <2>4. CASE UNCHANGED vars
    BY <2>1, <2>4 DEF vars, permits
  <2> QED
    BY <2>2, <2>3, <2>4 DEF Next
<1> QED
  BY <1>1, <1>2, TypeCorrect, PTL DEF Spec

\* For every number of processors, spcd_add_pid hands out fewer than
\* max_threads + Cardinality(CPUs) tids between two clears, however the
\* unlocked test of pid.c:35 and the increment of pid.c:44 interleave.
THEOREM OvershootBounded == Spec => []NumBounded
<1>1. TypeOK /\ PermitsBounded => NumBounded
  BY PermitsFinite, TableAssumption
     DEF PermitsBounded, NumBounded, TypeOK, TableTypeOK
<1> QED
  BY <1>1, TypeCorrect, PermitsInvariant, PTL

\* On one processor the message of pid.c:36 is true: no more than max_threads
\* tids are handed out.
THEOREM OneCpuWithinMax ==
  ASSUME Cardinality(CPUs) = 1
  PROVE  Spec => []NumWithinMax
<1>1. TypeOK /\ NumBounded => NumWithinMax
  BY TableAssumption DEF NumBounded, NumWithinMax, TypeOK, TableTypeOK
<1> QED
  BY <1>1, TypeCorrect, OvershootBounded, PTL

-----------------------------------------------------------------------------
(* The invariant, for the one processor c *)

Zero == [pid |-> 0, tid |-> 0]

row(p, t) == [pid |-> p, tid |-> t]

\* The tid of p as the active count knows it: from its increment on, and until
\* its decrement.
tidNow(c, p) ==
  IF pid[c] = p /\ pc[c] \in {"erase_pid", "drop"} THEN tid[c]
  ELSE IF pid[c] = p /\ pc[c] = "enlist" THEN Empty ELSE spcd_get_tid(p)

members(c) == {p \in Pids : tidNow(c, p) # Empty}

\* What the handler under way knows: nobody changes the slot it works on.
Adding(c) ==
  /\ pc[c] \in {"probe", "claim", "number"} => spcd_num_threads < max_threads
  /\ pc[c] = "claim" => slotOf(pid[c]) = Blank
  /\ pc[c] \in {"number", "settid"} => slotOf(pid[c]) = row(pid[c], Empty)
  /\ pc[c] \in {"settid", "enlist", "mirror"} =>
       /\ tid[c] = spcd_num_threads - 1 /\ tid[c] \in Nat
       /\ spcd_pid_reverse[tid[c]] = Blank
  /\ pc[c] \in {"enlist", "mirror"} => slotOf(pid[c]) = row(pid[c], tid[c])

Deleting(c) ==
  /\ pc[c] \in {"delete", "erase_tid", "record"} =>
       tid[c] # Empty /\ slotOf(pid[c]) = row(pid[c], tid[c])
  /\ pc[c] = "erase_pid" => slotOf(pid[c]) = row(pid[c], Empty)
  /\ pc[c] = "drop" => slotOf(pid[c]) = Blank
  /\ pc[c] \in {"erase_pid", "drop"} =>
       /\ tid[c] \in 0 .. spcd_num_threads - 1
       /\ spcd_pid_reverse[tid[c]] = row(pid[c], tid[c])

clearing == {"wipe", "wipe_reverse", "zero_num", "zero_active", "comm_init"}

Clearing(c) ==
  /\ pc[c] \in clearing \cup {"reset"} => spcd_active_threads = 0
  /\ pc[c] \in clearing \ {"wipe"} => \A s \in Slots : spcd_pid[s] = Blank
  /\ pc[c] \in {"zero_num", "zero_active", "comm_init"} =>
       \A s \in Slots : spcd_pid_reverse[s] = Blank
  /\ pc[c] \in {"zero_active", "comm_init"} => spcd_num_threads = 0

\* A slot is as it was loaded, or cleared, or holds a pid of this hash and a
\* tid handed out, but for the one the handler works on.
Rows(c) ==
  \A s \in Slots :
    \/ spcd_pid[s] \in {Zero, Blank}
    \/ /\ spcd_pid[s].pid \in Pids /\ hash_32[spcd_pid[s].pid] = s
       /\ \/ spcd_pid[s].tid \in 0 .. spcd_num_threads - 1
          \/ /\ pc[c] \in {"number", "settid", "erase_pid"}
             /\ spcd_pid[s] = row(pid[c], Empty)

\* The mirror has entries only at tids handed out, and those of the registered
\* threads among them.
Reverse(c) ==
  /\ \A t \in Slots :
       \/ spcd_pid_reverse[t] \in {Zero, Blank}
       \/ t < spcd_num_threads /\ spcd_pid_reverse[t].pid \in Pids
  /\ \A p \in Pids : registered(p) =>
       \/ spcd_pid_reverse[spcd_get_tid(p)] = row(p, spcd_get_tid(p))
       \/ pc[c] \in {"enlist", "mirror"} /\ pid[c] = p

\* The two arrays are either both as they were loaded or both cleared.
Cleared(c) ==
  \/ /\ \A s \in Slots : spcd_pid[s] = Zero /\ spcd_pid_reverse[s] = Zero
     /\ spcd_num_threads = 0
  \/ pc[c] = "wipe_reverse"
  \/ \A s \in Slots : spcd_pid[s] # Zero /\ spcd_pid_reverse[s] # Zero

Counted(c) ==
  IsFiniteSet(members(c)) /\ spcd_active_threads = Cardinality(members(c))

rightly(a) ==
  a.tid \in 0 .. spcd_num_threads - 1 /\ spcd_pid_reverse[a.tid].pid = a.pid

\* Whose the accesses are.  The matrix is cleared last.
Whose(c) ==
  /\ \A a \in mem : rightly(a)
  /\ pc[c] \notin {"zero_num", "zero_active", "comm_init"} =>
       \A a \in matrix : rightly(a)
  /\ spcd_active_threads = 0 => mem = {} \/ pc[c] \in {"left", "reset"}

Lives(c) ==
  /\ \A p \in Pids \ late : registered(p) =>
       \/ life[p] = "alive"
       \/ pid[c] = p /\ pc[c] \in {"lookup", "delete", "erase_tid"}
  /\ pc[c] \in {"number", "settid"} => life[pid[c]] = "alive" \/ pid[c] \in late
  /\ pc[c] = "lookup" => life[pid[c]] # "free"

TabInv(c) ==
  /\ TypeOK /\ spcd_num_threads <= max_threads
  /\ Adding(c) /\ Deleting(c) /\ Clearing(c)
  /\ Rows(c) /\ Reverse(c) /\ Cleared(c) /\ Counted(c)
  /\ Whose(c) /\ Lives(c)

\* One processor, and arrays with room for all tids.
Alone(c) == CPUs = {c} /\ max_threads <= SPCD_PID_HASH_SIZE

-----------------------------------------------------------------------------
(* Steps that leave the tables alone *)

LEMMA PidsType == \A p \in Pids : p \in Nat /\ p # 0 /\ p # Empty /\ hash_32[p] \in Slots
  BY TableAssumption DEF Empty

\* A registered pid has a tid handed out, and nobody is registered when the
\* count is zero.
LEMMA RegisteredTid ==
  ASSUME NEW c, Alone(c), TabInv(c), NEW p \in Pids, registered(p)
  PROVE  /\ spcd_get_tid(p) \in 0 .. spcd_num_threads - 1
         /\ spcd_get_tid(p) \in Slots
         /\ slotOf(p) = row(p, spcd_get_tid(p))
<1>1. slotOf(p).pid = p /\ slotOf(p).tid # Empty /\ spcd_get_tid(p) = slotOf(p).tid
  BY DEF registered, spcd_get_tid, Empty
<1>2. slotOf(p) \in Entry /\ p # 0 /\ p # Empty
  BY LookupType, TableAssumption DEF TabInv, Empty
<1>3. spcd_get_tid(p) \in 0 .. spcd_num_threads - 1
  BY <1>1, <1>2, TableAssumption
     DEF TabInv, Rows, slotOf, Zero, Blank, row, Empty
<1>4. slotOf(p) = row(p, spcd_get_tid(p))
  BY <1>1, <1>2 DEF Entry, row
<1>5. spcd_num_threads \in Nat /\ spcd_num_threads <= SPCD_PID_HASH_SIZE
  BY TableAssumption DEF Alone, TabInv, TypeOK, TableTypeOK
<1> QED
  BY <1>3, <1>4, <1>5, TableAssumption DEF Slots

LEMMA NobodyActive ==
  ASSUME NEW c, Alone(c), TabInv(c), spcd_active_threads = 0
  PROVE  members(c) = {}
  BY FS_EmptySet DEF TabInv, Counted

\* Nothing happens to the threads, as the active count knows them.
SameTids(c) == \A q \in Pids : tidNow(c, q)' = tidNow(c, q)

\* No thread loses its registration or gets another tid.
TidsStay == \A q \in Pids : registered(q) => spcd_get_tid(q)' = spcd_get_tid(q)

\* Or only the one that is being deleted.
TidsKept(c) ==
  \A q \in Pids : registered(q) =>
    spcd_get_tid(q)' = spcd_get_tid(q) \/ (pc[c] = "erase_tid" /\ pid[c] = q)

LEMMA SameMembers == ASSUME NEW c, SameTids(c) PROVE members(c)' = members(c)
  BY DEF SameTids, members

\* The labels at which no table is half changed.
plain == Labels \ {"number", "settid", "enlist", "mirror", "erase_pid", "drop",
                   "wipe_reverse", "zero_num", "zero_active", "comm_init"}

\* A step that only reads the tables.
Reads(c) == UNCHANGED tableVars /\ pc[c] \in plain /\ pc'[c] \in plain

LEMMA PlainStep ==
  ASSUME NEW c, Alone(c), TabInv(c), Reads(c)
  PROVE  /\ spcd_num_threads' <= max_threads
         /\ Rows(c)' /\ Reverse(c)' /\ Cleared(c)' /\ Counted(c)'
         /\ SameTids(c) /\ TidsStay
<1> USE DEF Reads
<1>1. \A p \in Pids : slotOf(p)' = slotOf(p) /\ spcd_get_tid(p)' = spcd_get_tid(p)
                      /\ registered(p)' = registered(p)
  BY DEF slotOf, spcd_get_tid, registered
<1>2. SameTids(c)
  BY <1>1 DEF SameTids, tidNow, plain
<1>3. Rows(c)' /\ Cleared(c)'
  BY DEF TabInv, Rows, Cleared, plain
<1>4. Reverse(c)'
  BY <1>1 DEF TabInv, Reverse, plain
<1> QED
  BY <1>1, <1>2, <1>3, <1>4, SameMembers DEF TabInv, Counted, TidsStay

\* The tasks around the handlers run while no handler does.
LEMMA TasksTab ==
  ASSUME NEW c, Alone(c), TabInv(c), Tasks, TypeOK'
  PROVE  TabInv(c)' /\ Reads(c)
<1> USE DEF Alone
<1>1. /\ pc[c] = "idle" /\ pc'[c] \in {"idle", "lookup", "limit", "fault"}
      /\ UNCHANGED << tableVars, appVars, late >>
      /\ pc'[c] = "lookup" => life'[pid'[c]] # "free"
      /\ \A p \in Pids : life[p] = "alive" =>
           life'[p] = "alive" \/ (pid'[c] = p /\ pc'[c] = "lookup")
  <2> DEFINE Goal ==
        /\ pc[c] = "idle" /\ pc'[c] \in {"idle", "lookup", "limit", "fault"}
        /\ UNCHANGED << tableVars, appVars, late >>
        /\ pc'[c] = "lookup" => life'[pid'[c]] # "free"
        /\ \A p \in Pids : life[p] = "alive" =>
             life'[p] = "alive" \/ (pid'[c] = p /\ pc'[c] = "lookup")
  <2> USE DEF TabInv, TypeOK
  <2>1. ASSUME NEW p \in Pids, Spawn(p) PROVE Goal
    BY <2>1 DEF Spawn, SomeCpuIdle
  <2>2. ASSUME NEW p \in Pids, Reap(p) PROVE Goal
    BY <2>2 DEF Reap, SomeCpuIdle
  <2>3. ASSUME NEW p \in Pids, NEW q \in Pids, Fork(p, q) PROVE Goal
    BY <2>3 DEF Fork, SomeCpuIdle
  <2>4. ASSUME NEW p \in Pids, Tick(c, p) PROVE Goal
    BY <2>4 DEF Tick, Enter
  <2>5. ASSUME NEW p \in Pids, Fault(c, p) PROVE Goal
    BY <2>5 DEF Fault, Enter
  <2>6. ASSUME NEW p \in Pids, NEW name \in BOOLEAN, Exec(c, p, name) PROVE Goal
    BY <2>6 DEF Exec, Enter
  <2>7. ASSUME NEW p \in Pids, Exit(c, p) PROVE Goal
    BY <2>7 DEF Exit, Enter
  <2>8. ASSUME NEW p \in Pids, ForkReturn(c, p) PROVE Goal
    BY <2>8 DEF ForkReturn, Enter
  <2> HIDE DEF Goal
  <2>9. Goal
    BY <2>1, <2>2, <2>3, <2>4, <2>5, <2>6, <2>7, <2>8 DEF Tasks
  <2> QED
    BY <2>9 DEF Goal
<1>2. /\ Rows(c)' /\ Reverse(c)' /\ Cleared(c)' /\ Counted(c)'
      /\ spcd_num_threads' <= max_threads /\ Reads(c)
  <2>1. Reads(c)
    BY <1>1 DEF Reads, plain, Labels
  <2> QED
    BY <2>1, PlainStep
<1>3. Adding(c)' /\ Deleting(c)' /\ Clearing(c)'
  BY <1>1 DEF Adding, Deleting, Clearing, clearing
<1>4. Whose(c)'
  BY <1>1 DEF TabInv, Whose, rightly
<1>5. \A p \in Pids : registered(p)' = registered(p)
  BY <1>1 DEF slotOf, spcd_get_tid, registered
<1>6. Lives(c)'
  BY <1>1, <1>5 DEF TabInv, Lives
<1> QED
  BY <1>2, <1>3, <1>4, <1>6 DEF TabInv

\* A step of a handler that only reads the tables.
LEMMA ReadTab ==
  ASSUME NEW c, Alone(c), TabInv(c), TypeOK',
         Reads(c), UNCHANGED << life, late >>,
         Adding(c)', Deleting(c)', Clearing(c)', Whose(c)', pc'[c] # "lookup",
         pc[c] \in {"lookup", "delete", "erase_tid"} =>
           \/ pc'[c] = "delete" /\ pid'[c] = pid[c]
           \/ pc'[c] = "erase_tid" /\ pid'[c] = pid[c]
           \/ ~registered(pid[c]) \/ life[pid[c]] = "alive" \/ pid[c] \in late
  PROVE  TabInv(c)' /\ Reads(c)
<1>1. /\ Rows(c)' /\ Reverse(c)' /\ Cleared(c)' /\ Counted(c)'
      /\ spcd_num_threads' <= max_threads
  BY PlainStep
<1>2. \A p \in Pids : registered(p)' = registered(p)
  BY DEF Reads, slotOf, spcd_get_tid, registered
<1>3. Lives(c)'
  BY <1>2 DEF TabInv, Lives, Reads, plain
<1> QED
  BY <1>1, <1>3 DEF TabInv

\* process_handler looks its task up.  A thread that exits is registered
\* under the tid found until the handler deletes it.
LEMMA LookupTab ==
  ASSUME NEW c, Alone(c), TabInv(c), TypeOK',
         LookupStop(c) \/ LookupNew(c) \/ LookupSkip(c) \/ DeleteTest(c)
  PROVE  TabInv(c)' /\ Reads(c)
<1> USE DEF Alone
<1>1. c \in CPUs /\ pid[c] \in Pids /\ life[pid[c]] \in {"free", "alive", "exiting"}
  BY DEF LookupStop, LookupNew, LookupSkip, DeleteTest, TabInv, TypeOK
<1>2. CASE LookupStop(c)
  <2>1. /\ pc[c] = "lookup" /\ pc'[c] = "delete" /\ pid'[c] = pid[c]
        /\ tid'[c] = spcd_get_tid(pid[c]) /\ registered(pid[c])
        /\ UNCHANGED << tableVars, taskVars, appVars, late >>
    BY <1>1, <1>2
       DEF LookupStop, GotoWith, stopping, registered, TabInv, TypeOK
  <2>2. slotOf(pid[c]) = row(pid[c], tid'[c]) /\ tid'[c] # Empty
    BY <1>1, <2>1, RegisteredTid DEF registered, Empty
  <2>3. Adding(c)' /\ Deleting(c)' /\ Clearing(c)'
    BY <2>1, <2>2 DEF Adding, Deleting, Clearing, clearing, slotOf
  <2>4. Whose(c)'
    BY <2>1 DEF TabInv, Whose, rightly
  <2> QED
    BY <2>1, <2>3, <2>4, ReadTab DEF Reads, plain, Labels
<1>3. CASE LookupNew(c)
  <2>1. /\ pc[c] = "lookup" /\ pc'[c] = "first" /\ ~registered(pid[c])
        /\ UNCHANGED << tableVars, taskVars, appVars, late >>
    BY <1>1, <1>3
       DEF LookupNew, GotoWith, starting, registered, TabInv, TypeOK
  <2>2. Adding(c)' /\ Deleting(c)' /\ Clearing(c)'
    BY <2>1 DEF Adding, Deleting, Clearing, clearing
  <2>3. Whose(c)'
    BY <2>1 DEF TabInv, Whose, rightly
  <2> QED
    BY <2>1, <2>2, <2>3, ReadTab DEF Reads, plain, Labels
<1>4. CASE LookupSkip(c)
  <2>1. /\ pc[c] = "lookup" /\ pc'[c] = "idle" /\ ~stopping(pid[c])
        /\ UNCHANGED << tableVars, taskVars, appVars, late >>
    BY <1>1, <1>4 DEF LookupSkip, Return, TabInv, TypeOK
  <2>2. registered(pid[c]) => spcd_get_tid(pid[c]) > -1
    BY <1>1, RegisteredTid DEF TabInv, TypeOK, TableTypeOK
  <2>3. ~registered(pid[c]) \/ life[pid[c]] = "alive"
    BY <1>1, <2>1, <2>2 DEF stopping, TabInv, Lives
  <2>4. Adding(c)' /\ Deleting(c)' /\ Clearing(c)'
    BY <2>1 DEF Adding, Deleting, Clearing, clearing
  <2>5. Whose(c)'
    BY <2>1 DEF TabInv, Whose, rightly
  <2> QED
    BY <2>1, <2>3, <2>4, <2>5, ReadTab DEF Reads, plain, Labels
<1>5. CASE DeleteTest(c)
  <2>1. deletable(pid[c])
    BY <1>5 DEF DeleteTest, deletable, TabInv, Deleting, row
  <2>2. /\ pc[c] = "delete" /\ pc'[c] = "erase_tid" /\ pid'[c] = pid[c]
        /\ tid'[c] = tid[c]
        /\ UNCHANGED << tableVars, taskVars, appVars, late >>
    BY <1>1, <1>5, <2>1 DEF DeleteTest, Goto, TabInv, TypeOK
  <2>3. Adding(c)' /\ Deleting(c)' /\ Clearing(c)'
    BY <2>2 DEF Adding, Deleting, Clearing, clearing, slotOf, TabInv
  <2>4. Whose(c)'
    BY <2>2 DEF TabInv, Whose, rightly
  <2> QED
    BY <2>2, <2>3, <2>4, ReadTab DEF Reads, plain, Labels
<1> QED
  BY <1>2, <1>3, <1>4, <1>5

\* What process_handler reads next: the active count, before it resets the
\* statistics or clears the tables, and the limit and the slot in
\* spcd_add_pid.
LEMMA TestsTab ==
  ASSUME NEW c, Alone(c), TabInv(c), TypeOK',
         Left(c) \/ reset_stats(c) \/ First(c) \/ Limit(c) \/ Probe(c) \/ Unshare(c)
  PROVE  TabInv(c)' /\ Reads(c)
<1> USE DEF Alone
<1>1. c \in CPUs /\ pid[c] \in Pids
  BY DEF Left, reset_stats, First, Limit, Probe, Unshare, AddReturn, Goto, Return,
         TabInv, TypeOK
<1>2. CASE Left(c)
  <2>1. /\ pc[c] = "left" /\ pc'[c] \in {"reset", "idle"}
        /\ pc'[c] = "reset" <=> spcd_active_threads = 0
        /\ UNCHANGED << tableVars, taskVars, appVars, late >>
    BY <1>1, <1>2
       DEF Left, Goto, Return, spcd_get_active_threads, TabInv, TypeOK
  <2>2. Adding(c)' /\ Deleting(c)' /\ Clearing(c)'
    BY <2>1 DEF Adding, Deleting, Clearing, clearing
  <2>3. Whose(c)'
    BY <2>1 DEF TabInv, Whose, rightly
  <2> QED
    BY <2>1, <2>2, <2>3, ReadTab DEF Reads, plain, Labels
<1>3. CASE reset_stats(c)
  <2>1. /\ pc[c] = "reset" /\ pc'[c] = "idle" /\ mem' = {} /\ matrix' = matrix
        /\ UNCHANGED << tableVars, taskVars, late >>
    BY <1>1, <1>3 DEF reset_stats, Return, TabInv, TypeOK
  <2>2. Adding(c)' /\ Deleting(c)' /\ Clearing(c)'
    BY <2>1 DEF Adding, Deleting, Clearing, clearing
  <2>3. Whose(c)'
    BY <2>1 DEF TabInv, Whose, rightly
  <2> QED
    BY <2>1, <2>2, <2>3, ReadTab DEF Reads, plain, Labels
<1>4. CASE First(c)
  <2>1. /\ pc[c] = "first" /\ pc'[c] \in {"wipe", "limit"}
        /\ pc'[c] = "wipe" => spcd_active_threads = 0
        /\ UNCHANGED << tableVars, taskVars, appVars, late >>
    BY <1>1, <1>4 DEF First, Goto, spcd_get_active_threads, TabInv, TypeOK
  <2>2. Adding(c)' /\ Deleting(c)' /\ Clearing(c)'
    BY <2>1 DEF Adding, Deleting, Clearing, clearing
  <2>3. Whose(c)'
    BY <2>1 DEF TabInv, Whose, rightly
  <2> QED
    BY <2>1, <2>2, <2>3, ReadTab DEF Reads, plain, Labels
<1>5. CASE Limit(c)
  <2>1. /\ pc[c] = "limit" /\ pc'[c] \in {"probe", "unshare", "idle"}
        /\ pc'[c] = "probe" => spcd_num_threads < max_threads
        /\ UNCHANGED << tableVars, taskVars, appVars, late >>
    BY <1>1, <1>5, TableAssumption
       DEF Limit, AddReturn, Goto, Return, tableFull, spcd_get_num_threads,
           TabInv, TypeOK, TableTypeOK
  <2>2. Adding(c)' /\ Deleting(c)' /\ Clearing(c)'
    BY <2>1 DEF Adding, Deleting, Clearing, clearing
  <2>3. Whose(c)'
    BY <2>1 DEF TabInv, Whose, rightly
  <2> QED
    BY <2>1, <2>2, <2>3, ReadTab DEF Reads, plain, Labels
<1>6. CASE Probe(c)
  <2>1. /\ pc[c] = "probe" /\ pc'[c] \in {"claim", "unshare", "idle"}
        /\ pc'[c] = "claim" => vacant(pid[c]) /\ pid'[c] = pid[c]
        /\ UNCHANGED << tableVars, taskVars, appVars, late >>
    BY <1>1, <1>6 DEF Probe, AddReturn, Goto, Return, TabInv, TypeOK
  <2>2. vacant(pid[c]) => slotOf(pid[c]) = Blank
    <3>1. hash_32[pid[c]] \in Slots
      BY <1>1, TableAssumption
    <3>2. spcd_pid[hash_32[pid[c]]] \in {Zero, Blank} \/ slotOf(pid[c]).pid \in Pids
      BY <3>1 DEF TabInv, Rows, slotOf
    <3>3. Zero.pid # Empty
      BY DEF Zero, Empty
    <3> QED
      BY <3>2, <3>3, PidsType DEF vacant, slotOf
  <2>3. Adding(c)' /\ Deleting(c)' /\ Clearing(c)'
    BY <2>1, <2>2 DEF Adding, Deleting, Clearing, clearing, slotOf, TabInv
  <2>4. Whose(c)'
    BY <2>1 DEF TabInv, Whose, rightly
  <2> QED
    BY <2>1, <2>3, <2>4, ReadTab DEF Reads, plain, Labels
<1>7. CASE Unshare(c)
  <2>1. /\ pc[c] = "unshare" /\ pc'[c] = "idle"
        /\ UNCHANGED << tableVars, taskVars, mem, matrix, late >>
    BY <1>1, <1>7 DEF Unshare, Return, TabInv, TypeOK
  <2>2. Adding(c)' /\ Deleting(c)' /\ Clearing(c)'
    BY <2>1 DEF Adding, Deleting, Clearing, clearing
  <2>3. Whose(c)'
    BY <2>1 DEF TabInv, Whose, rightly
  <2> QED
    BY <2>1, <2>2, <2>3, ReadTab DEF Reads, plain, Labels
<1> QED
  BY <1>2, <1>3, <1>4, <1>5, <1>6, <1>7

\* A fault is recorded under the tid that its task still has, so the count of
\* active threads is not zero.
LEMMA FaultTab ==
  ASSUME NEW c, Alone(c), TabInv(c), TypeOK', FaultHandler(c)
  PROVE  TabInv(c)' /\ Reads(c)
<1> USE DEF Alone
<1>1. c \in CPUs /\ pid[c] \in Pids
  BY DEF FaultHandler, FaultLookup, Record, RecordNothing, Return, TabInv, TypeOK
<1>2. CASE FaultLookup(c)
  <2>1. /\ pc[c] = "fault" /\ pc'[c] \in {"record", "idle"}
        /\ pc'[c] = "record" =>
             /\ registered(pid[c]) /\ pid'[c] = pid[c]
             /\ tid'[c] = spcd_get_tid(pid[c])
        /\ UNCHANGED << tableVars, taskVars, appVars, late >>
    BY <1>1, <1>2 DEF FaultLookup, GotoWith, Return, registered, TabInv, TypeOK
  <2>2. pc'[c] = "record" => slotOf(pid[c]) = row(pid[c], tid'[c]) /\ tid'[c] # Empty
    BY <1>1, <2>1, RegisteredTid DEF registered, Empty
  <2>3. Adding(c)' /\ Deleting(c)' /\ Clearing(c)'
    BY <2>1, <2>2 DEF Adding, Deleting, Clearing, clearing, slotOf
  <2>4. Whose(c)'
    BY <2>1 DEF TabInv, Whose, rightly
  <2> QED
    BY <2>1, <2>3, <2>4, ReadTab DEF Reads, plain, Labels
<1>3. CASE Record(c)
  <2>1. /\ pc[c] = "record" /\ pc'[c] = "idle"
        /\ mem' = mem \cup {row(pid[c], tid[c])}
        /\ matrix' \subseteq matrix \cup mem \cup {row(pid[c], tid[c])}
        /\ UNCHANGED << tableVars, taskVars, late >>
    BY <1>1, <1>3 DEF Record, Return, TabInv, TypeOK, row
  <2>2. registered(pid[c]) /\ spcd_get_tid(pid[c]) = tid[c]
    BY <2>1 DEF TabInv, Deleting, row, registered, spcd_get_tid, Empty
  <2>3. rightly(row(pid[c], tid[c]))
    BY <1>1, <2>1, <2>2, RegisteredTid DEF TabInv, Reverse, rightly, row
  <2>4. spcd_active_threads # 0
    <3>1. pid[c] \in members(c)
      BY <1>1, <2>1, <2>2 DEF members, tidNow, registered, Empty
    <3> QED
      BY <3>1, NobodyActive
  <2>5. Adding(c)' /\ Deleting(c)' /\ Clearing(c)'
    BY <2>1 DEF Adding, Deleting, Clearing, clearing
  <2>6. Whose(c)'
    <3>1. \A a : rightly(a)' = rightly(a)
      BY <2>1 DEF rightly
    <3> QED
      BY <2>1, <2>3, <2>4, <3>1 DEF TabInv, Whose
  <2> QED
    BY <2>1, <2>5, <2>6, ReadTab DEF Reads, plain, Labels
<1>4. CASE RecordNothing(c)
  <2>1. /\ pc[c] = "record" /\ pc'[c] = "idle"
        /\ UNCHANGED << tableVars, taskVars, appVars, late >>
    BY <1>1, <1>4 DEF RecordNothing, Return, TabInv, TypeOK
  <2>2. Adding(c)' /\ Deleting(c)' /\ Clearing(c)'
    BY <2>1 DEF Adding, Deleting, Clearing, clearing
  <2>3. Whose(c)'
    BY <2>1 DEF TabInv, Whose, rightly
  <2> QED
    BY <2>1, <2>2, <2>3, ReadTab DEF Reads, plain, Labels
<1> QED
  BY <1>2, <1>3, <1>4 DEF FaultHandler

-----------------------------------------------------------------------------
(* Steps that change the tables: spcd_delete_pid *)

stored(p, e) == spcd_pid' = [spcd_pid EXCEPT ![hash_32[p]] = e]

\* A store to the slot of p by its own handler is nobody else's business.
LEMMA WriteSlot ==
  ASSUME NEW c, TabInv(c), NEW p \in Pids, NEW e, stored(p, e),
         slotOf(p).pid \in {p, Empty}, e.pid \in {p, Empty}
  PROVE  /\ slotOf(p)' = e /\ spcd_pid'[hash_32[p]] = e
         /\ \A s \in Slots : s # hash_32[p] => spcd_pid'[s] = spcd_pid[s]
         /\ \A q \in Pids \ {p} : /\ spcd_get_tid(q)' = spcd_get_tid(q)
                                  /\ registered(q)' = registered(q)
<1>1. /\ spcd_pid \in [Slots -> Entry] /\ hash_32[p] \in Slots
      /\ spcd_pid' = [spcd_pid EXCEPT ![hash_32[p]] = e]
  BY PidsType DEF TabInv, TypeOK, TableTypeOK, stored
<1>2. ASSUME NEW q \in Pids \ {p} PROVE spcd_get_tid(q)' = spcd_get_tid(q)
  <2>1. CASE hash_32[q] = hash_32[p]
    BY <1>1, <2>1, PidsType DEF spcd_get_tid, slotOf
  <2>2. CASE hash_32[q] # hash_32[p]
    BY <1>1, <2>2, PidsType DEF spcd_get_tid, slotOf
  <2> QED
    BY <2>1, <2>2
<1> QED
  BY <1>1, <1>2 DEF slotOf, registered

LEMMA DeleteTidTab ==
  ASSUME NEW c, Alone(c), TabInv(c), TypeOK', DeleteTid(c)
  PROVE  TabInv(c)' /\ SameTids(c) /\ TidsKept(c)
<1> USE DEF Alone
<1>0. PICK p \in Pids, t \in Int : p = pid[c] /\ t = tid[c]
  BY DEF DeleteTid, Goto, TabInv, TypeOK
<1>1. /\ pc[c] = "erase_tid" /\ pc'[c] = "erase_pid" /\ pid[c] = p /\ pid'[c] = p /\ tid' = tid
      /\ UNCHANGED << spcd_pid_reverse, spcd_num_threads, spcd_active_threads,
                      taskVars, appVars, late >>
      /\ c \in CPUs /\ tid[c] = t
  BY <1>0 DEF DeleteTid, Goto, EraseTid, TabInv, TypeOK
<1>2. t # Empty /\ slotOf(p) = row(p, t) /\ hash_32[p] \in Slots
  BY <1>1, PidsType DEF TabInv, Deleting
<1>3. registered(p) /\ spcd_get_tid(p) = t
  BY <1>2 DEF registered, spcd_get_tid, row, Empty
<1>4. t \in 0 .. spcd_num_threads - 1 /\ spcd_pid_reverse[t] = row(p, t)
  BY <1>1, <1>3, RegisteredTid DEF TabInv, Reverse
<1>5. stored(p, row(p, Empty))
  <2>1. stored(p, [slotOf(p) EXCEPT !.tid = Empty])
    BY <1>1 DEF DeleteTid, EraseTid, slotOf, stored
  <2>2. [row(p, t) EXCEPT !.tid = Empty] = row(p, Empty)
    BY DEF row
  <2> QED
    BY <1>2, <2>1, <2>2
<1>6. /\ slotOf(p)' = row(p, Empty) /\ spcd_pid'[hash_32[p]] = row(p, Empty)
      /\ \A s \in Slots : s # hash_32[p] => spcd_pid'[s] = spcd_pid[s]
      /\ \A q \in Pids \ {p} : /\ spcd_get_tid(q)' = spcd_get_tid(q)
                               /\ registered(q)' = registered(q)
      /\ ~registered(p)'
  <2>1. slotOf(p).pid \in {p, Empty} /\ row(p, Empty).pid \in {p, Empty}
    BY <1>2 DEF row
  <2>2. slotOf(p)' = row(p, Empty)
    BY <1>1, <1>5, <2>1, WriteSlot
  <2>3. ~registered(p)'
    BY <2>2 DEF registered, spcd_get_tid, row, Empty
  <2> QED
    BY <1>1, <1>5, <2>1, <2>3, WriteSlot
<1>7. SameTids(c) /\ TidsKept(c)
  BY <1>1, <1>3, <1>6 DEF SameTids, TidsKept, tidNow
<1>8. Adding(c)' /\ Deleting(c)' /\ Clearing(c)'
  BY <1>1, <1>4, <1>6 DEF Adding, Deleting, Clearing, clearing
<1>9. Rows(c)'
  BY <1>1, <1>2, <1>6 DEF TabInv, Rows, row
<1>10. Reverse(c)'
  BY <1>1, <1>6 DEF TabInv, Reverse
<1>11. Cleared(c)'
  <2>1. spcd_pid[hash_32[p]] # Zero /\ row(p, Empty) # Zero
    BY <1>1, <1>2, PidsType DEF slotOf, row, Zero
  <2> QED
    BY <1>1, <1>2, <1>6, <2>1 DEF TabInv, Cleared
<1>12. Counted(c)' /\ Whose(c)'
  BY <1>1, <1>7, SameMembers DEF TabInv, Counted, Whose, rightly
<1>13. Lives(c)'
  BY <1>1, <1>6 DEF TabInv, Lives
<1> QED
  BY <1>1, <1>7, <1>8, <1>9, <1>10, <1>11, <1>12, <1>13 DEF TabInv

LEMMA DeletePidTab ==
  ASSUME NEW c, Alone(c), TabInv(c), TypeOK', DeletePid(c)
  PROVE  TabInv(c)' /\ SameTids(c) /\ TidsStay
<1> USE DEF Alone
<1>0. PICK p \in Pids : p = pid[c]
  BY DEF DeletePid, Goto, TabInv, TypeOK
<1>1. /\ pc[c] = "erase_pid" /\ pc'[c] = "drop" /\ pid[c] = p /\ pid'[c] = p /\ tid' = tid
      /\ UNCHANGED << spcd_pid_reverse, spcd_num_threads, spcd_active_threads,
                      taskVars, appVars >>
      /\ late' = late \ {p} /\ c \in CPUs
  BY <1>0 DEF DeletePid, Goto, ErasePid, TabInv, TypeOK
<1>2. slotOf(p) = row(p, Empty) /\ hash_32[p] \in Slots
  BY <1>1, PidsType DEF TabInv, Deleting
<1>3. stored(p, Blank)
  <2>1. stored(p, [slotOf(p) EXCEPT !.pid = Empty])
    BY <1>1 DEF DeletePid, ErasePid, slotOf, stored
  <2>2. [row(p, Empty) EXCEPT !.pid = Empty] = Blank
    BY DEF row, Blank
  <2> QED
    BY <1>2, <2>1, <2>2
<1>4. /\ slotOf(p)' = Blank /\ spcd_pid'[hash_32[p]] = Blank
      /\ \A s \in Slots : s # hash_32[p] => spcd_pid'[s] = spcd_pid[s]
      /\ \A q \in Pids \ {p} : /\ spcd_get_tid(q)' = spcd_get_tid(q)
                               /\ registered(q)' = registered(q)
      /\ ~registered(p)'
  <2>1. slotOf(p).pid \in {p, Empty} /\ Blank.pid \in {p, Empty}
    BY <1>2 DEF row, Blank
  <2>2. slotOf(p)' = Blank
    BY <1>1, <1>3, <2>1, WriteSlot
  <2>3. ~registered(p)'
    BY <2>2 DEF registered, spcd_get_tid, Blank, Empty
  <2> QED
    BY <1>1, <1>3, <2>1, <2>3, WriteSlot
<1>5. SameTids(c) /\ TidsStay
  <2>1. ~registered(p)
    BY <1>2 DEF registered, spcd_get_tid, row, Empty
  <2>2. SameTids(c)
    BY <1>1, <1>4 DEF SameTids, tidNow
  <2> QED
    BY <1>4, <2>1, <2>2 DEF TidsStay
<1>6. Adding(c)' /\ Deleting(c)' /\ Clearing(c)'
  BY <1>1, <1>4 DEF Adding, Deleting, Clearing, clearing, TabInv
<1>7. Rows(c)'
  <2>1. ASSUME NEW s \in Slots, s # hash_32[p], spcd_pid[s] = row(pid[c], Empty)
        PROVE  ~(spcd_pid[s].pid \in Pids /\ hash_32[spcd_pid[s].pid] = s)
    BY <1>1, <2>1 DEF row
  <2> QED
    BY <1>1, <1>2, <1>4, <2>1 DEF TabInv, Rows
<1>8. Reverse(c)'
  BY <1>1, <1>4 DEF TabInv, Reverse
<1>9. Cleared(c)'
  <2>1. spcd_pid[hash_32[p]] # Zero /\ Blank # Zero
    BY <1>1, <1>2, PidsType DEF slotOf, row, Zero, Blank, Empty
  <2> QED
    BY <1>1, <1>2, <1>4, <2>1 DEF TabInv, Cleared
<1>10. Counted(c)' /\ Whose(c)'
  BY <1>1, <1>5, SameMembers DEF TabInv, Counted, Whose, rightly
<1>11. Lives(c)'
  BY <1>1, <1>4 DEF TabInv, Lives
<1> QED
  BY <1>1, <1>5, <1>6, <1>7, <1>8, <1>9, <1>10, <1>11 DEF TabInv

LEMMA DeleteCountTab ==
  ASSUME NEW c, Alone(c), TabInv(c), TypeOK', DeleteCount(c)
  PROVE  /\ TabInv(c)' /\ TidsStay /\ pid[c] \in members(c)
         /\ \A q \in Pids : tidNow(c, q)' = IF q = pid[c] THEN Empty ELSE tidNow(c, q)
<1> USE DEF Alone
<1>1. /\ pc[c] = "drop" /\ pc'[c] = "left" /\ pid' = pid /\ tid' = tid
      /\ spcd_active_threads' = spcd_active_threads - 1
      /\ UNCHANGED << spcd_pid, spcd_pid_reverse, spcd_num_threads,
                      taskVars, appVars, late >>
      /\ c \in CPUs /\ pid[c] \in Pids
  BY DEF DeleteCount, Goto, DecActive, TabInv, TypeOK
<1>2. slotOf(pid[c]) = Blank /\ tid[c] \in 0 .. spcd_num_threads - 1
  BY <1>1 DEF TabInv, Deleting
<1>3. \A q \in Pids : /\ slotOf(q)' = slotOf(q) /\ spcd_get_tid(q)' = spcd_get_tid(q)
                      /\ registered(q)' = registered(q)
  BY <1>1 DEF slotOf, spcd_get_tid, registered
<1>4. tid[c] # Empty /\ spcd_get_tid(pid[c]) = Empty
  BY <1>2 DEF Empty, spcd_get_tid, Blank
<1>5. /\ members(c)' = members(c) \ {pid[c]} /\ pid[c] \in members(c) /\ TidsStay
      /\ \A q \in Pids : tidNow(c, q)' = IF q = pid[c] THEN Empty ELSE tidNow(c, q)
  BY <1>1, <1>3, <1>4 DEF members, tidNow, TidsStay
<1>6. Counted(c)'
  <2>1. /\ IsFiniteSet(members(c) \ {pid[c]})
        /\ Cardinality(members(c) \ {pid[c]}) = Cardinality(members(c)) - 1
    BY <1>5, FS_RemoveElement DEF TabInv, Counted
  <2> QED
    BY <1>1, <1>5, <2>1 DEF TabInv, Counted
<1>7. Adding(c)' /\ Deleting(c)' /\ Clearing(c)'
  BY <1>1 DEF Adding, Deleting, Clearing, clearing
<1>8. Rows(c)' /\ Cleared(c)'
  BY <1>1 DEF TabInv, Rows, Cleared
<1>9. Reverse(c)' /\ Whose(c)' /\ Lives(c)'
  BY <1>1, <1>3 DEF TabInv, Reverse, Whose, rightly, Lives
<1> QED
  BY <1>1, <1>5, <1>6, <1>7, <1>8, <1>9 DEF TabInv

-----------------------------------------------------------------------------
(* spcd_pid_clear and spcd_comm_init: nobody is registered *)

LEMMA WipeTab ==
  ASSUME NEW c, Alone(c), TabInv(c), TypeOK', Wipe(c)
  PROVE  TabInv(c)' /\ SameTids(c) /\ TidsStay /\ members(c) = {}
<1> USE DEF Alone
<1>1. /\ pc[c] = "wipe" /\ pc'[c] = "wipe_reverse" /\ pid' = pid
      /\ \A s \in Slots : spcd_pid'[s] = Blank
      /\ UNCHANGED << spcd_pid_reverse, spcd_num_threads, spcd_active_threads,
                      taskVars, appVars >>
      /\ late' = {}
  BY DEF Wipe, Goto, ClearForward, TabInv, TypeOK
<1>2. members(c) = {}
  BY <1>1, NobodyActive DEF TabInv, Clearing, clearing
<1>3. \A q \in Pids : spcd_get_tid(q)' = Empty /\ ~registered(q)'
  BY <1>1, PidsType DEF spcd_get_tid, slotOf, Blank, registered, Empty
<1>4. members(c)' = {} /\ SameTids(c) /\ TidsStay
  BY <1>1, <1>2, <1>3 DEF members, tidNow, SameTids, TidsStay, registered, Empty
<1>5. Adding(c)' /\ Deleting(c)' /\ Clearing(c)'
  BY <1>1 DEF Adding, Deleting, Clearing, clearing, TabInv
<1>6. Rows(c)' /\ Cleared(c)' /\ Lives(c)' /\ Reverse(c)'
  BY <1>1, <1>3 DEF TabInv, Rows, Cleared, Lives, Reverse
<1>7. Counted(c)' /\ Whose(c)'
  BY <1>1, <1>2, <1>4 DEF TabInv, Counted, Whose, rightly
<1> QED
  BY <1>1, <1>2, <1>4, <1>5, <1>6, <1>7 DEF TabInv

LEMMA WipeReverseTab ==
  ASSUME NEW c, Alone(c), TabInv(c), TypeOK', WipeReverse(c)
  PROVE  TabInv(c)' /\ SameTids(c) /\ TidsStay /\ members(c) = {}
<1> USE DEF Alone
<1>1. /\ pc[c] = "wipe_reverse" /\ pc'[c] = "zero_num" /\ pid' = pid
      /\ \A s \in Slots : spcd_pid[s] = Blank /\ spcd_pid_reverse'[s] = Blank
      /\ UNCHANGED << spcd_pid, spcd_num_threads, spcd_active_threads,
                      taskVars, appVars, late >>
      /\ spcd_active_threads = 0
  BY DEF WipeReverse, Goto, ClearReverse, TabInv, TypeOK, Clearing, clearing
<1>2. members(c) = {}
  BY <1>1, NobodyActive
<1>3. \A q \in Pids : spcd_get_tid(q)' = Empty /\ ~registered(q)'
  BY <1>1, PidsType DEF spcd_get_tid, slotOf, Blank, registered, Empty
<1>4. members(c)' = {} /\ SameTids(c) /\ TidsStay
  BY <1>1, <1>2, <1>3 DEF members, tidNow, SameTids, TidsStay, registered, Empty
<1>5. Adding(c)' /\ Deleting(c)' /\ Clearing(c)'
  BY <1>1 DEF Adding, Deleting, Clearing, clearing
<1>6. Rows(c)' /\ Cleared(c)' /\ Lives(c)' /\ Reverse(c)'
  BY <1>1, <1>3 DEF Rows, Cleared, Lives, Reverse, Blank, Zero, Empty
<1>7. Counted(c)' /\ Whose(c)'
  BY <1>1, <1>2, <1>4 DEF TabInv, Counted, Whose, rightly
<1> QED
  BY <1>1, <1>2, <1>4, <1>5, <1>6, <1>7 DEF TabInv

LEMMA ZeroTab ==
  ASSUME NEW c, Alone(c), TabInv(c), TypeOK',
         ZeroNum(c) \/ ZeroActiveCount(c) \/ spcd_comm_init(c)
  PROVE  TabInv(c)' /\ SameTids(c) /\ TidsStay /\ members(c) = {}
<1> USE DEF Alone
<1>1. /\ \/ pc[c] = "zero_num" /\ pc'[c] = "zero_active" /\ spcd_num_threads' = 0
         \/ /\ pc[c] = "zero_active" /\ pc'[c] = "comm_init"
            /\ spcd_num_threads = 0 /\ spcd_num_threads' = 0
         \/ /\ pc[c] = "comm_init" /\ pc'[c] = "limit" /\ matrix' = {}
            /\ spcd_num_threads = 0 /\ spcd_num_threads' = 0
      /\ pid' = pid /\ spcd_active_threads = 0 /\ spcd_active_threads' = 0
      /\ \A s \in Slots : spcd_pid[s] = Blank /\ spcd_pid_reverse[s] = Blank
      /\ UNCHANGED << spcd_pid, spcd_pid_reverse, taskVars, mem, late >>
  BY DEF ZeroNum, ZeroActiveCount, spcd_comm_init, Goto, ZeroNumThreads, ZeroActive,
         TabInv, TypeOK, Clearing, clearing
<1>2. members(c) = {}
  BY <1>1, NobodyActive
<1>3. \A q \in Pids : spcd_get_tid(q)' = Empty /\ ~registered(q)'
  BY <1>1, PidsType DEF spcd_get_tid, slotOf, Blank, registered, Empty
<1>4. members(c)' = {} /\ SameTids(c) /\ TidsStay
  BY <1>1, <1>2, <1>3 DEF members, tidNow, SameTids, TidsStay, registered, Empty
<1>5. Adding(c)' /\ Deleting(c)' /\ Clearing(c)'
  BY <1>1 DEF Adding, Deleting, Clearing, clearing
<1>6. Rows(c)' /\ Cleared(c)' /\ Lives(c)' /\ Reverse(c)'
  BY <1>1, <1>3 DEF Rows, Cleared, Lives, Reverse, Blank, Zero, Empty
<1>7. Counted(c)' /\ Whose(c)'
  <2>1. mem = {}
    BY <1>1 DEF TabInv, Whose
  <2> QED
    BY <1>1, <1>2, <1>4, <2>1 DEF TabInv, Counted, Whose
<1>8. spcd_num_threads' <= max_threads
  BY <1>1, TableAssumption
<1> QED
  BY <1>2, <1>4, <1>5, <1>6, <1>7, <1>8 DEF TabInv

-----------------------------------------------------------------------------
(* spcd_add_pid *)

LEMMA ClaimTab ==
  ASSUME NEW c, Alone(c), TabInv(c), TypeOK', Claim(c)
  PROVE  TabInv(c)' /\ SameTids(c) /\ TidsStay
<1> USE DEF Alone
<1>0. PICK p \in Pids : p = pid[c]
  BY DEF Claim, Goto, TabInv, TypeOK
<1>1. /\ pc[c] = "claim" /\ pc'[c] = "number" /\ pid[c] = p /\ pid'[c] = p
      /\ UNCHANGED << spcd_pid_reverse, spcd_num_threads, spcd_active_threads,
                      taskVars, appVars >>
      /\ late' = IF life[p] = "alive" THEN late ELSE late \cup {p}
      /\ spcd_num_threads < max_threads /\ c \in CPUs
  BY <1>0 DEF Claim, Goto, ClaimSlot, TabInv, TypeOK, Adding
<1>2. slotOf(p) = Blank /\ hash_32[p] \in Slots
  BY <1>1, PidsType DEF TabInv, Adding
<1>3. stored(p, row(p, Empty))
  <2>1. stored(p, [slotOf(p) EXCEPT !.pid = p])
    BY <1>1 DEF Claim, ClaimSlot, slotOf, stored
  <2>2. [Blank EXCEPT !.pid = p] = row(p, Empty)
    BY DEF row, Blank
  <2> QED
    BY <1>2, <2>1, <2>2
<1>4. /\ slotOf(p)' = row(p, Empty) /\ spcd_pid'[hash_32[p]] = row(p, Empty)
      /\ \A s \in Slots : s # hash_32[p] => spcd_pid'[s] = spcd_pid[s]
      /\ \A q \in Pids \ {p} : /\ spcd_get_tid(q)' = spcd_get_tid(q)
                               /\ registered(q)' = registered(q)
  BY <1>2, <1>3, WriteSlot DEF row, Blank
<1>5. spcd_get_tid(p) = Empty /\ spcd_get_tid(p)' = Empty /\ ~registered(p)'
  BY <1>2, <1>4 DEF spcd_get_tid, row, Blank, registered, Empty
<1>6. SameTids(c) /\ TidsStay
  BY <1>1, <1>4, <1>5 DEF SameTids, TidsStay, tidNow, registered
<1>7. Adding(c)' /\ Deleting(c)' /\ Clearing(c)'
  BY <1>1, <1>4 DEF Adding, Deleting, Clearing, clearing
<1>8. Rows(c)'
  BY <1>1, <1>2, <1>4 DEF TabInv, Rows, row
<1>9. Reverse(c)'
  BY <1>1, <1>4, <1>5 DEF TabInv, Reverse
<1>10. Cleared(c)'
  <2>1. spcd_pid[hash_32[p]] # Zero /\ row(p, Empty) # Zero
    BY <1>2 DEF slotOf, row, Zero, Blank, Empty
  <2> QED
    BY <1>1, <1>2, <1>4, <2>1 DEF TabInv, Cleared
<1>11. Counted(c)' /\ Whose(c)'
  BY <1>1, <1>6, SameMembers DEF TabInv, Counted, Whose, rightly
<1>12. Lives(c)'
  BY <1>1, <1>4, <1>5 DEF TabInv, Lives
<1> QED
  BY <1>1, <1>6, <1>7, <1>8, <1>9, <1>10, <1>11, <1>12 DEF TabInv

LEMMA NumberTab ==
  ASSUME NEW c, Alone(c), TabInv(c), TypeOK', Number(c)
  PROVE  TabInv(c)' /\ SameTids(c) /\ TidsStay
<1> USE DEF Alone
<1>0. PICK p \in Pids : p = pid[c]
  BY DEF Number, GotoWith, TabInv, TypeOK
<1>1. /\ pc[c] = "number" /\ pc'[c] = "settid" /\ pid[c] = p /\ pid' = pid
      /\ spcd_num_threads' = spcd_num_threads + 1 /\ tid'[c] = spcd_num_threads
      /\ UNCHANGED << spcd_pid, spcd_pid_reverse, spcd_active_threads, taskVars,
                      appVars, late >>
      /\ spcd_num_threads < max_threads
      /\ spcd_num_threads \in Nat /\ spcd_num_threads \in Slots
  BY <1>0, TableAssumption
     DEF Number, GotoWith, IncNumThreads, TabInv, TypeOK, TableTypeOK, Adding, Slots
<1>2. slotOf(p) = row(p, Empty) /\ hash_32[p] \in Slots
  BY <1>1, PidsType DEF TabInv, Adding
<1>3. spcd_pid_reverse[spcd_num_threads] = Blank
  <2>1. spcd_pid[hash_32[p]] # Zero
    BY <1>2, PidsType DEF slotOf, row, Zero
  <2>2. spcd_pid_reverse[spcd_num_threads] # Zero
    BY <1>1, <1>2, <2>1 DEF TabInv, Cleared
  <2> QED
    BY <1>1, <2>2 DEF TabInv, Reverse
<1>4. \A q \in Pids : /\ slotOf(q)' = slotOf(q) /\ spcd_get_tid(q)' = spcd_get_tid(q)
                      /\ registered(q)' = registered(q)
  BY <1>1 DEF slotOf, spcd_get_tid, registered
<1>5. SameTids(c) /\ TidsStay
  BY <1>1, <1>4 DEF SameTids, TidsStay, tidNow, registered
<1>6. Adding(c)' /\ Deleting(c)' /\ Clearing(c)'
  BY <1>1, <1>2, <1>3, <1>4 DEF Adding, Deleting, Clearing, clearing
<1>7. Rows(c)'
  BY <1>1 DEF TabInv, Rows
<1>8. Reverse(c)' /\ Lives(c)'
  BY <1>1, <1>4, TableAssumption DEF TabInv, Reverse, Lives, Slots
<1>9. Cleared(c)'
  <2>1. spcd_pid[hash_32[p]] # Zero
    BY <1>2, PidsType DEF slotOf, row, Zero
  <2> QED
    BY <1>1, <1>2, <2>1 DEF TabInv, Cleared
<1>10. Counted(c)' /\ Whose(c)'
  BY <1>1, <1>5, SameMembers DEF TabInv, Counted, Whose, rightly
<1> QED
  BY <1>1, <1>5, <1>6, <1>7, <1>8, <1>9, <1>10, TableAssumption DEF TabInv

LEMMA SetTidTab ==
  ASSUME NEW c, Alone(c), TabInv(c), TypeOK', SetTid(c)
  PROVE  TabInv(c)' /\ SameTids(c) /\ TidsStay
<1> USE DEF Alone
<1>0. PICK p \in Pids, t \in Int : p = pid[c] /\ t = tid[c]
  BY DEF SetTid, Goto, TabInv, TypeOK
<1>1. /\ pc[c] = "settid" /\ pc'[c] = "enlist" /\ pid[c] = p /\ pid'[c] = p
      /\ tid[c] = t /\ tid' = tid
      /\ UNCHANGED << spcd_pid_reverse, spcd_num_threads, spcd_active_threads,
                      taskVars, appVars, late >>
      /\ c \in CPUs
  BY <1>0 DEF SetTid, Goto, StoreTid, TabInv, TypeOK
<1>2. /\ slotOf(p) = row(p, Empty) /\ hash_32[p] \in Slots
      /\ t \in 0 .. spcd_num_threads - 1 /\ t # Empty
      /\ t = spcd_num_threads - 1 /\ spcd_pid_reverse[t] = Blank
  BY <1>1, PidsType DEF TabInv, TypeOK, TableTypeOK, Adding, Empty
<1>3. stored(p, row(p, t))
  <2>1. stored(p, [slotOf(p) EXCEPT !.tid = t])
    BY <1>1 DEF SetTid, StoreTid, slotOf, stored
  <2>2. [row(p, Empty) EXCEPT !.tid = t] = row(p, t)
    BY DEF row
  <2> QED
    BY <1>2, <2>1, <2>2
<1>4. /\ slotOf(p)' = row(p, t) /\ spcd_pid'[hash_32[p]] = row(p, t)
      /\ \A s \in Slots : s # hash_32[p] => spcd_pid'[s] = spcd_pid[s]
      /\ \A q \in Pids \ {p} : /\ spcd_get_tid(q)' = spcd_get_tid(q)
                               /\ registered(q)' = registered(q)
  BY <1>2, <1>3, WriteSlot DEF row
<1>5. spcd_get_tid(p) = Empty
  BY <1>2 DEF spcd_get_tid, row, Empty
<1>6. SameTids(c) /\ TidsStay
  <2>1. ~registered(p) /\ tidNow(c, p) = Empty /\ tidNow(c, p)' = Empty
    BY <1>1, <1>5 DEF registered, tidNow, Empty
  <2>2. SameTids(c)
    BY <1>1, <1>4, <2>1 DEF SameTids, tidNow
  <2> QED
    BY <1>4, <2>1, <2>2 DEF TidsStay
<1>7. Adding(c)' /\ Deleting(c)' /\ Clearing(c)'
  BY <1>1, <1>2, <1>4 DEF Adding, Deleting, Clearing, clearing
<1>8. Rows(c)'
  <2>1. ASSUME NEW s \in Slots, s # hash_32[p], spcd_pid[s] = row(pid[c], Empty)
        PROVE  ~(spcd_pid[s].pid \in Pids /\ hash_32[spcd_pid[s].pid] = s)
    BY <1>1, <2>1 DEF row
  <2>2. spcd_pid'[hash_32[p]].pid = p /\ spcd_pid'[hash_32[p]].tid = t
    BY <1>4 DEF row
  <2> QED
    BY <1>1, <1>2, <1>4, <2>1, <2>2 DEF TabInv, Rows
<1>9. Reverse(c)'
  BY <1>1, <1>4 DEF TabInv, Reverse
<1>10. Cleared(c)'
  <2>1. spcd_pid[hash_32[p]] # Zero /\ row(p, t) # Zero
    BY <1>2, PidsType DEF slotOf, row, Zero
  <2> QED
    BY <1>1, <1>2, <1>4, <2>1 DEF TabInv, Cleared
<1>11. Counted(c)' /\ Whose(c)'
  BY <1>1, <1>6, SameMembers DEF TabInv, Counted, Whose, rightly
<1>12. Lives(c)'
  BY <1>1, <1>4 DEF TabInv, Lives
<1> QED
  BY <1>1, <1>6, <1>7, <1>8, <1>9, <1>10, <1>11, <1>12 DEF TabInv

LEMMA EnlistTab ==
  ASSUME NEW c, Alone(c), TabInv(c), TypeOK', Enlist(c)
  PROVE  /\ TabInv(c)' /\ TidsStay /\ pid[c] \notin members(c)
         /\ \A q \in Pids : tidNow(c, q)' = IF q = pid[c] THEN tid[c] ELSE tidNow(c, q)
<1> USE DEF Alone
<1>1. /\ pc[c] = "enlist" /\ pc'[c] = "mirror" /\ pid' = pid /\ tid' = tid
      /\ spcd_active_threads' = spcd_active_threads + 1
      /\ UNCHANGED << spcd_pid, spcd_pid_reverse, spcd_num_threads, taskVars,
                      appVars, late >>
      /\ c \in CPUs /\ pid[c] \in Pids
  BY DEF Enlist, Goto, IncActive, TabInv, TypeOK
<1>2. /\ slotOf(pid[c]) = row(pid[c], tid[c])
      /\ tid[c] = spcd_num_threads - 1 /\ tid[c] \in Nat
      /\ spcd_pid_reverse[tid[c]] = Blank
  BY <1>1 DEF TabInv, Adding
<1>3. spcd_get_tid(pid[c]) = tid[c] /\ tid[c] # Empty
  BY <1>2 DEF spcd_get_tid, row, Empty
<1>4. \A q \in Pids : /\ slotOf(q)' = slotOf(q) /\ spcd_get_tid(q)' = spcd_get_tid(q)
                      /\ registered(q)' = registered(q)
  BY <1>1 DEF slotOf, spcd_get_tid, registered
<1>5. /\ members(c)' = members(c) \cup {pid[c]} /\ pid[c] \notin members(c) /\ TidsStay
      /\ \A q \in Pids : tidNow(c, q)' = IF q = pid[c] THEN tid[c] ELSE tidNow(c, q)
  BY <1>1, <1>3, <1>4 DEF members, tidNow, TidsStay
<1>6. Counted(c)'
  <2>1. /\ IsFiniteSet(members(c) \cup {pid[c]})
        /\ Cardinality(members(c) \cup {pid[c]}) = Cardinality(members(c)) + 1
    BY <1>5, FS_AddElement DEF TabInv, Counted
  <2> QED
    BY <1>1, <1>5, <2>1 DEF TabInv, Counted
<1>7. Adding(c)' /\ Deleting(c)' /\ Clearing(c)'
  BY <1>1, <1>2 DEF Adding, Deleting, Clearing, clearing, slotOf
<1>8. Rows(c)' /\ Cleared(c)'
  BY <1>1 DEF TabInv, Rows, Cleared
<1>9. Reverse(c)' /\ Lives(c)'
  BY <1>1, <1>4 DEF TabInv, Reverse, Lives
<1>10. Whose(c)'
  <2>1. spcd_active_threads = 0 => mem = {}
    BY <1>1 DEF TabInv, Whose
  <2>2. spcd_active_threads' # 0
    <3>1. Cardinality(members(c)) \in Nat
      BY FS_CardinalityType DEF TabInv, Counted
    <3> QED
      BY <1>1, <3>1 DEF TabInv, Counted
  <2> QED
    BY <1>1, <2>2 DEF TabInv, Whose, rightly
<1> QED
  BY <1>1, <1>5, <1>6, <1>7, <1>8, <1>9, <1>10 DEF TabInv

LEMMA MirrorTab ==
  ASSUME NEW c, Alone(c), TabInv(c), TypeOK', Mirror(c)
  PROVE  /\ TabInv(c)' /\ SameTids(c) /\ TidsStay /\ UNCHANGED spcd_pid
         /\ tid[c] \in Slots /\ tid[c] = spcd_get_tid(pid[c])
         /\ \A s \in Slots : spcd_pid_reverse'[s] =
              IF s = tid[c] THEN row(pid[c], tid[c]) ELSE spcd_pid_reverse[s]
<1> USE DEF Alone
<1>0. PICK p \in Pids, t \in Int : p = pid[c] /\ t = tid[c]
  BY DEF Mirror, AddReturn, Goto, Return, TabInv, TypeOK
<1>1. /\ pc[c] = "mirror" /\ pc'[c] \in {"unshare", "idle"} /\ pid[c] = p
      /\ tid[c] = t
      /\ UNCHANGED << spcd_num_threads, spcd_active_threads, taskVars, appVars,
                      late >>
      /\ c \in CPUs
  BY <1>0 DEF Mirror, AddReturn, Goto, Return, MirrorSlot, TabInv, TypeOK
<1>2. /\ slotOf(p) = row(p, t) /\ hash_32[p] \in Slots
      /\ t = spcd_num_threads - 1 /\ t \in Nat /\ t # Empty
      /\ spcd_pid_reverse[t] = Blank
  BY <1>1, PidsType DEF TabInv, Adding, Empty
<1>3. t \in Slots
  BY <1>2, TableAssumption DEF TabInv, TypeOK, TableTypeOK, Slots
<1>4. /\ UNCHANGED spcd_pid
      /\ \A s \in Slots : spcd_pid_reverse'[s] =
           IF s = t THEN row(p, t) ELSE spcd_pid_reverse[s]
  <2>1. MirrorSlot(p) /\ slotOf(p).tid = t
    BY <1>1, <1>2 DEF Mirror, row
  <2> QED
    BY <1>2, <2>1 DEF MirrorSlot
<1>5. registered(p) /\ spcd_get_tid(p) = t
  BY <1>2 DEF spcd_get_tid, row, Empty, registered
<1>6. \A q \in Pids : /\ slotOf(q)' = slotOf(q) /\ spcd_get_tid(q)' = spcd_get_tid(q)
                      /\ registered(q)' = registered(q)
  BY <1>4 DEF slotOf, spcd_get_tid, registered
<1>7. /\ spcd_pid_reverse'[t] = row(p, t)
      /\ \A s \in Slots : s # t => spcd_pid_reverse'[s] = spcd_pid_reverse[s]
  BY <1>3, <1>4
<1>8. SameTids(c) /\ TidsStay
  BY <1>1, <1>6 DEF SameTids, TidsStay, tidNow, registered
<1>9. Adding(c)' /\ Deleting(c)' /\ Clearing(c)'
  BY <1>1 DEF Adding, Deleting, Clearing, clearing
<1>10. Rows(c)'
  BY <1>1, <1>4 DEF TabInv, Rows
<1>11. Reverse(c)'
  <2>1. \A s \in Slots : \/ spcd_pid_reverse'[s] \in {Zero, Blank}
                         \/ s < spcd_num_threads /\ spcd_pid_reverse'[s].pid \in Pids
    <3>1. row(p, t).pid = p /\ t < spcd_num_threads
      BY <1>2 DEF row, TabInv, TypeOK, TableTypeOK
    <3> QED
      BY <1>7, <3>1 DEF TabInv, Reverse
  <2>2. ASSUME NEW q \in Pids, registered(q), q # p
        PROVE  spcd_pid_reverse'[spcd_get_tid(q)] = row(q, spcd_get_tid(q))
    <3>1. spcd_pid_reverse[spcd_get_tid(q)] = row(q, spcd_get_tid(q))
      BY <1>1, <2>2 DEF TabInv, Reverse
    <3>2. spcd_get_tid(q) # t
      BY <1>2, <2>2, <3>1, PidsType DEF row, Blank
    <3> QED
      BY <1>7, <2>2, <3>1, <3>2, RegisteredTid
  <2> QED
    BY <1>1, <1>5, <1>6, <1>7, <2>1, <2>2 DEF Reverse
<1>12. Cleared(c)'
  <2>1. spcd_pid[hash_32[p]] # Zero /\ row(p, t) # Zero
    BY <1>2, PidsType DEF slotOf, row, Zero
  <2> QED
    BY <1>1, <1>2, <1>4, <1>7, <2>1 DEF TabInv, Cleared
<1>13. Counted(c)'
  BY <1>1, <1>8, SameMembers DEF TabInv, Counted
<1>14. Whose(c)'
  <2>1. ASSUME NEW a \in mem \cup matrix, rightly(a) PROVE rightly(a)'
    <3>1. a.tid # t
      <4>1. a.pid \in Pids
        BY <2>1 DEF TabInv, TypeOK, Accessor
      <4> QED
        BY <1>2, <2>1, <4>1, PidsType DEF rightly, Blank
    <3>2. a.tid \in Slots
      BY <2>1, TableAssumption DEF TabInv, TypeOK, TableTypeOK, rightly, Slots
    <3> QED
      BY <1>1, <1>7, <2>1, <3>1, <3>2 DEF rightly
  <2> QED
    BY <1>1, <2>1 DEF TabInv, Whose
<1>15. Lives(c)'
  BY <1>1, <1>6 DEF TabInv, Lives
<1> QED
  BY <1>0, <1>1, <1>3, <1>4, <1>5, <1>8, <1>9, <1>10, <1>11, <1>12, <1>13, <1>14,
     <1>15 DEF TabInv

-----------------------------------------------------------------------------
(* The invariant holds, and the properties follow *)

LEMMA InitTab == ASSUME NEW c, Alone(c), Init PROVE TabInv(c)
<1> USE DEF Alone
<1>1. \A p \in Pids : spcd_get_tid(p) = Empty /\ ~registered(p)
  BY PidsType DEF Init, TableInit, spcd_get_tid, slotOf, registered, Empty
<1>2. pc[c] = "idle"
  BY DEF Init
<1>3. Adding(c) /\ Deleting(c) /\ Clearing(c)
  BY <1>2 DEF Adding, Deleting, Clearing, clearing
<1>4. Rows(c) /\ Reverse(c) /\ Cleared(c) /\ Lives(c)
  BY <1>1, <1>2 DEF Init, TableInit, Rows, Reverse, Cleared, Lives, Zero
<1>5. Counted(c)
  <2>1. members(c) = {}
    BY <1>1, <1>2 DEF members, tidNow
  <2> QED
    BY <2>1, FS_EmptySet DEF Counted, Init, TableInit
<1>6. Whose(c)
  BY DEF Whose, Init
<1>7. TypeOK /\ spcd_num_threads <= max_threads
  BY InitTypeOK, TableAssumption DEF Init, TableInit
<1> QED
  BY <1>3, <1>4, <1>5, <1>6, <1>7 DEF TabInv

LEMMA StepTab ==
  ASSUME NEW c, Alone(c), TabInv(c), [Next]_vars
  PROVE  TabInv(c)' /\ TidsKept(c)
<1>1. TypeOK /\ c \in CPUs
  BY DEF TabInv, Alone
<1>2. CASE Tasks
  <2>1. TypeOK'
    BY <1>1, <1>2, TasksTypeOK
  <2> QED
    BY <1>2, <2>1, TasksTab, PlainStep DEF TidsStay, TidsKept
<1>3. CASE ProcessHandler(c)
  <2>1. TypeOK'
    BY <1>1, <1>3, ProcessHandlerTypeOK
  <2>2. CASE LookupStop(c) \/ LookupNew(c) \/ LookupSkip(c) \/ DeleteTest(c)
    BY <2>1, <2>2, LookupTab, PlainStep DEF TidsStay, TidsKept
  <2>3. CASE Left(c) \/ reset_stats(c) \/ First(c)
    BY <2>1, <2>3, TestsTab, PlainStep DEF TidsStay, TidsKept
  <2>4. CASE DeleteTid(c)
    BY <2>1, <2>4, DeleteTidTab
  <2>5. CASE DeletePid(c)
    BY <2>1, <2>5, DeletePidTab DEF TidsStay, TidsKept
  <2>6. CASE DeleteCount(c)
    BY <2>1, <2>6, DeleteCountTab DEF TidsStay, TidsKept
  <2>7. CASE Wipe(c)
    BY <2>1, <2>7, WipeTab DEF TidsStay, TidsKept
  <2>8. CASE WipeReverse(c)
    BY <2>1, <2>8, WipeReverseTab DEF TidsStay, TidsKept
  <2>9. CASE ZeroNum(c) \/ ZeroActiveCount(c) \/ spcd_comm_init(c)
    BY <2>1, <2>9, ZeroTab DEF TidsStay, TidsKept
  <2> QED
    BY <1>3, <2>2, <2>3, <2>4, <2>5, <2>6, <2>7, <2>8, <2>9 DEF ProcessHandler
<1>4. CASE AddPid(c)
  <2>1. TypeOK'
    BY <1>1, <1>4, AddPidTypeOK
  <2>2. CASE Limit(c) \/ Probe(c) \/ Unshare(c)
    BY <2>1, <2>2, TestsTab, PlainStep DEF TidsStay, TidsKept
  <2>3. CASE Claim(c)
    BY <2>1, <2>3, ClaimTab DEF TidsStay, TidsKept
  <2>4. CASE Number(c)
    BY <2>1, <2>4, NumberTab DEF TidsStay, TidsKept
  <2>5. CASE SetTid(c)
    BY <2>1, <2>5, SetTidTab DEF TidsStay, TidsKept
  <2>6. CASE Enlist(c)
    BY <2>1, <2>6, EnlistTab DEF TidsStay, TidsKept
  <2>7. CASE Mirror(c)
    BY <2>1, <2>7, MirrorTab DEF TidsStay, TidsKept
  <2> QED
    BY <1>4, <2>2, <2>3, <2>4, <2>5, <2>6, <2>7 DEF AddPid
<1>5. CASE FaultHandler(c)
  <2>1. TypeOK'
    BY <1>1, <1>5, FaultHandlerTypeOK
  <2> QED
    BY <1>5, <2>1, FaultTab, PlainStep DEF TidsStay, TidsKept
<1>6. CASE UNCHANGED vars
  <2>1. UNCHANGED << tableVars, handlerVars, taskVars, appVars, late >>
    BY <1>6 DEF vars
  <2>2. TypeOK'
    BY <1>1, <2>1 DEF TypeOK, TableTypeOK
  <2>3. /\ \A p \in Pids : /\ slotOf(p)' = slotOf(p)
                           /\ spcd_get_tid(p)' = spcd_get_tid(p)
                           /\ registered(p)' = registered(p)
    BY <2>1 DEF slotOf, spcd_get_tid, registered
  <2>4. members(c)' = members(c)
    BY <2>1, <2>3 DEF members, tidNow
  <2>5. Adding(c)' /\ Deleting(c)' /\ Clearing(c)'
    BY <2>1 DEF TabInv, Adding, Deleting, Clearing, slotOf
  <2>6. Rows(c)' /\ Reverse(c)' /\ Cleared(c)' /\ Lives(c)'
    BY <2>1, <2>3 DEF TabInv, Rows, Reverse, Cleared, Lives
  <2>7. Counted(c)' /\ Whose(c)'
    BY <2>1, <2>4 DEF TabInv, Counted, Whose, rightly
  <2> QED
    BY <2>1, <2>2, <2>3, <2>5, <2>6, <2>7 DEF TabInv, TidsKept
<1>7. \A d \in CPUs : Handler(d) => Handler(c)
  BY DEF Alone
<1> QED
  BY <1>2, <1>3, <1>4, <1>5, <1>6, <1>7 DEF Next, Handler

LEMMA TableInvariant == ASSUME NEW c, Alone(c) PROVE Spec => []TabInv(c)
<1>1. Init => TabInv(c)
  BY InitTab
<1>2. TabInv(c) /\ [Next]_vars => TabInv(c)'
  BY StepTab
<1> QED
  BY <1>1, <1>2, PTL DEF Spec

LEMMA OneProcessor ==
  ASSUME Cardinality(CPUs) = 1, max_threads <= SPCD_PID_HASH_SIZE
  PROVE  \E c : Alone(c)
  BY CPUsAssumption, FS_Singleton DEF Alone

LEMMA AtRest ==
  ASSUME NEW c, Alone(c), TabInv(c), AllIdle
  PROVE  pc[c] = "idle" /\ members(c) = {p \in Pids : registered(p)}
<1>1. pc[c] = "idle"
  BY DEF Alone, AllIdle
<1> QED
  BY <1>1 DEF members, tidNow, registered, Empty

\* On one processor the slot, the number handed out and the mirror agree
\* between two handlers: spcd_get_tid and spcd_get_pid invert each other on
\* the registered threads, however many were added, deleted and cleared
\* (pid.c:13-62).
THEOREM TablesInvertible ==
  ASSUME Cardinality(CPUs) = 1, max_threads <= SPCD_PID_HASH_SIZE
  PROVE  Spec => []TablesAgree
<1> PICK c : Alone(c)
  BY OneProcessor
<1>1. TabInv(c) => TablesAgree
  <2> SUFFICES ASSUME TabInv(c), AllIdle, NEW p \in Pids, registered(p)
               PROVE  /\ spcd_get_tid(p) \in 0 .. spcd_num_threads - 1
                      /\ spcd_get_pid(spcd_get_tid(p)) = p
                      /\ \A q \in Pids : spcd_get_tid(q) = spcd_get_tid(p) => q = p
    BY DEF TablesAgree
  <2>1. spcd_get_tid(p) \in 0 .. spcd_num_threads - 1
    BY RegisteredTid
  <2>2. \A q \in Pids : registered(q) =>
          spcd_pid_reverse[spcd_get_tid(q)] = row(q, spcd_get_tid(q))
    BY AtRest DEF TabInv, Reverse
  <2>3. \A q \in Pids : spcd_get_tid(q) = spcd_get_tid(p) => registered(q)
    BY DEF registered
  <2>4. ASSUME NEW q \in Pids, registered(q)
        PROVE  spcd_pid_reverse[spcd_get_tid(q)].pid = q
    <3>1. row(q, spcd_get_tid(q)).pid = q
      BY DEF row
    <3> QED
      BY <2>2, <2>4, <3>1
  <2> HIDE DEF TabInv
  <2>5. \A q \in Pids : spcd_get_tid(q) = spcd_get_tid(p) => q = p
    BY <2>3, <2>4
  <2> QED
    BY <2>1, <2>4, <2>5 DEF spcd_get_pid
<1>2. Spec => []TabInv(c)
  BY TableInvariant
<1> QED
  BY <1>1, <1>2, PTL

\* On one processor the count that starts and ends an application
\* (probes.c:192, probes.c:201) is the number of registered threads.
THEOREM CountExact ==
  ASSUME Cardinality(CPUs) = 1, max_threads <= SPCD_PID_HASH_SIZE
  PROVE  Spec => []ActiveExact
<1> PICK c : Alone(c)
  BY OneProcessor
<1>1. TabInv(c) => ActiveExact
  BY AtRest DEF ActiveExact, TabInv, Counted
<1>2. Spec => []TabInv(c)
  BY TableInvariant
<1> QED
  BY <1>1, <1>2, PTL

\* On one processor a thread that no longer lives is registered only when its
\* fork returned after its exit (probes.c:219).
THEOREM LateForksLinger ==
  ASSUME Cardinality(CPUs) = 1, max_threads <= SPCD_PID_HASH_SIZE
  PROVE  Spec => []OnlyLateForksLinger
<1> PICK c : Alone(c)
  BY OneProcessor
<1>1. TabInv(c) => OnlyLateForksLinger
  BY AtRest DEF OnlyLateForksLinger, TabInv, Lives
<1>2. Spec => []TabInv(c)
  BY TableInvariant
<1> QED
  BY <1>1, <1>2, PTL

\* On one processor whatever the page table remembers and the matrix counts
\* under a tid was done by the pid which that tid stands for: spcd_pid_clear
\* and spcd_comm_init (probes.c:201-204) leave no row to two threads.
THEOREM RowsAttributable ==
  ASSUME Cardinality(CPUs) = 1, max_threads <= SPCD_PID_HASH_SIZE
  PROVE  Spec => []Attributable
<1> PICK c : Alone(c)
  BY OneProcessor
<1>1. TabInv(c) => Attributable
  <2> SUFFICES ASSUME TabInv(c), AllIdle, NEW a \in mem \cup matrix
               PROVE  a.tid \in Slots /\ spcd_get_pid(a.tid) = a.pid
    BY DEF Attributable
  <2>1. rightly(a)
    BY AtRest DEF TabInv, Whose
  <2> QED
    BY <2>1, TableAssumption
       DEF rightly, spcd_get_pid, Alone, TabInv, TypeOK, TableTypeOK, Slots
<1>2. Spec => []TabInv(c)
  BY TableInvariant
<1> QED
  BY <1>1, <1>2, PTL

\* On one processor the page table is empty whenever no thread is active: the
\* reset by the last exit (probes.c:192-195) comes before the next thread.
THEOREM NothingCarriedOver ==
  ASSUME Cardinality(CPUs) = 1, max_threads <= SPCD_PID_HASH_SIZE
  PROVE  Spec => []ForgottenBetweenApps
<1> PICK c : Alone(c)
  BY OneProcessor
<1>1. TabInv(c) => ForgottenBetweenApps
  BY AtRest DEF ForgottenBetweenApps, TabInv, Whose
<1>2. Spec => []TabInv(c)
  BY TableInvariant
<1> QED
  BY <1>1, <1>2, PTL

\* On one processor a thread keeps its registration and its tid until the
\* handler of its own exit deletes it (pid.c:13-27).
THEOREM TidsStable ==
  ASSUME Cardinality(CPUs) = 1, max_threads <= SPCD_PID_HASH_SIZE
  PROVE  Spec => RegistrationStable
<1> PICK k : Alone(k)
  BY OneProcessor
<1>1. TabInv(k) /\ [Next]_vars =>
        [\A p \in Pids : registered(p) =>
           \/ spcd_get_tid(p)' = spcd_get_tid(p)
           \/ \E c \in CPUs : pc[c] = "erase_tid" /\ pid[c] = p]_vars
  BY StepTab DEF TidsKept, Alone
<1>2. Spec => []TabInv(k)
  BY TableInvariant
<1> QED
  BY <1>1, <1>2, PTL DEF Spec, RegistrationStable

-----------------------------------------------------------------------------
(* The handlers implement ThreadTable *)

\* The number of tids that ThreadTable has handed out.
numNow(c) ==
  IF pc[c] = "zero_num" THEN 0
  ELSE spcd_num_threads - (IF pc[c] \in {"settid", "enlist"} THEN 1 ELSE 0)

Mapping(c) ==
  /\ absTidOf = [p \in Pids |-> tidNow(c, p)]
  /\ absMirror = [t \in 0 .. max_threads - 1 |-> spcd_pid_reverse[t].pid]
  /\ absNum = numNow(c)

LEMMA MappingValue == ASSUME NEW c, Alone(c) PROVE Mapping(c)
<1> USE DEF Alone
<1>1. \A p, labels : handling(p, labels) <=> pid[c] = p /\ pc[c] \in labels
  BY DEF handling
<1>2. ASSUME NEW p, pid[c] = p
      PROVE  (CHOOSE t \in {tid[e] : e \in {d \in CPUs : pid[d] = p}} : TRUE) = tid[c]
  <2>1. {tid[e] : e \in {d \in CPUs : pid[d] = p}} = {tid[c]}
    BY <1>2
  <2> QED
    BY <2>1
<1>3. absTidOf = [p \in Pids |-> tidNow(c, p)]
  BY <1>1, <1>2 DEF absTidOf, tidNow
<1>4. Cardinality({d \in CPUs : pc[d] \in {"settid", "enlist"}})
        = IF pc[c] \in {"settid", "enlist"} THEN 1 ELSE 0
  <2>1. CASE pc[c] \in {"settid", "enlist"}
    <3>1. {d \in CPUs : pc[d] \in {"settid", "enlist"}} = {c}
      BY <2>1
    <3> QED
      BY <2>1, <3>1, FS_Singleton
  <2>2. CASE pc[c] \notin {"settid", "enlist"}
    <3>1. {d \in CPUs : pc[d] \in {"settid", "enlist"}} = {}
      BY <2>2
    <3> QED
      BY <2>2, <3>1, FS_EmptySet
  <2> QED
    BY <2>1, <2>2
<1>5. absNum = numNow(c)
  BY <1>4 DEF absNum, numNow
<1> QED
  BY <1>3, <1>5 DEF Mapping, absMirror, spcd_get_pid

\* What ThreadTable does not see.
LEMMA Stutters ==
  ASSUME NEW c, Alone(c), Mapping(c), Mapping(c)', SameTids(c),
         numNow(c)' = numNow(c), UNCHANGED spcd_pid_reverse
  PROVE  UNCHANGED Table!tableVars
<1>1. absTidOf' = absTidOf
  BY DEF Mapping, SameTids
<1>2. absMirror' = absMirror /\ absNum' = absNum
  BY DEF Mapping
<1> QED
  BY <1>1, <1>2 DEF Table!tableVars

\* Only the thread that is being added lacks its entry in the mirror.
LEMMA SettledTab ==
  ASSUME NEW c, Alone(c), TabInv(c), Mapping(c), pc[c] \in {"enlist", "drop"}
  PROVE  Table!settled
<1> SUFFICES ASSUME NEW q \in Pids, tidNow(c, q) # Empty
             PROVE  absMirror[absTidOf[q]] = q
  BY DEF Mapping, Table!settled, Table!threads, Table!NoTid, Empty
<1>1. spcd_num_threads \in Nat /\ spcd_num_threads <= max_threads
  BY DEF TabInv, TypeOK, TableTypeOK
<1>2. /\ tidNow(c, q) \in 0 .. spcd_num_threads - 1
      /\ spcd_pid_reverse[tidNow(c, q)].pid = q
  <2>1. CASE pc[c] = "drop" /\ pid[c] = q
    BY <2>1 DEF tidNow, TabInv, Deleting, row
  <2>2. CASE ~(pc[c] = "drop" /\ pid[c] = q)
    <3>1. tidNow(c, q) = spcd_get_tid(q) /\ registered(q)
          /\ ~(pc[c] = "enlist" /\ pid[c] = q)
      BY <2>2 DEF tidNow, registered, Empty
    <3>2. spcd_pid_reverse[spcd_get_tid(q)] = row(q, spcd_get_tid(q))
      BY <3>1 DEF TabInv, Reverse
    <3> QED
      BY <3>1, <3>2, RegisteredTid DEF row
  <2> QED
    BY <2>1, <2>2
<1>3. tidNow(c, q) \in 0 .. max_threads - 1
  BY <1>1, <1>2, TableAssumption
<1> QED
  BY <1>2, <1>3 DEF Mapping

LEMMA EnlistRegisters ==
  ASSUME NEW c, Alone(c), TabInv(c), TypeOK', Mapping(c), Mapping(c)', Enlist(c)
  PROVE  Table!Next
<1>0. PICK p \in Pids, t \in Int : p = pid[c] /\ t = tid[c]
  BY DEF Enlist, Goto, Alone, TabInv, TypeOK
<1>1. /\ pc[c] = "enlist" /\ pc'[c] = "mirror"
      /\ UNCHANGED << spcd_pid_reverse, spcd_num_threads >>
  BY DEF Enlist, Goto, IncActive, Alone, TabInv, TypeOK
<1>2. /\ t = spcd_num_threads - 1 /\ t \in Nat /\ spcd_num_threads \in Nat
      /\ spcd_num_threads <= max_threads /\ spcd_pid_reverse[t] = Blank
  BY <1>0, <1>1 DEF TabInv, TypeOK, TableTypeOK, Adding
<1>3. /\ \A q \in Pids : tidNow(c, q)' = IF q = p THEN t ELSE tidNow(c, q)
      /\ tidNow(c, p) = Empty
  BY <1>0, EnlistTab DEF members
<1>4. absNum = t /\ absNum' = t + 1 /\ absMirror' = absMirror
  BY <1>1, <1>2 DEF Mapping, numNow
<1>5. t < max_threads /\ absMirror[t] = Empty
  BY <1>2, TableAssumption DEF Mapping, Blank
<1>6. absTidOf' = [absTidOf EXCEPT ![p] = t] /\ absTidOf[p] = Empty
  BY <1>0, <1>3 DEF Mapping
<1>7. Table!Register(p)
  BY <1>1, <1>4, <1>5, <1>6, SettledTab
     DEF Table!Register, Table!threads, Table!NoTid, Table!Empty, Empty
<1> QED
  BY <1>0, <1>7 DEF Table!Next

LEMMA MirrorStores ==
  ASSUME NEW c, Alone(c), TabInv(c), TypeOK', Mapping(c), Mapping(c)', Mirror(c)
  PROVE  Table!Next
<1>0. PICK p \in Pids, t \in Int : p = pid[c] /\ t = tid[c]
  BY DEF Mirror, AddReturn, Goto, Return, Alone, TabInv, TypeOK
<1>1. /\ pc[c] = "mirror" /\ pc'[c] \in {"unshare", "idle"}
      /\ UNCHANGED spcd_num_threads
  BY DEF Mirror, AddReturn, Goto, Return, MirrorSlot, Alone, TabInv, TypeOK
<1>2. /\ t = spcd_get_tid(p) /\ t \in Nat
      /\ \A s \in Slots : spcd_pid_reverse'[s] =
           IF s = t THEN row(p, t) ELSE spcd_pid_reverse[s]
      /\ SameTids(c)
  BY <1>0, <1>1, MirrorTab DEF TabInv, Adding
<1>3. absTidOf' = absTidOf /\ absNum' = absNum
  BY <1>1, <1>2 DEF Mapping, SameTids, numNow
<1>4. absTidOf[p] = t /\ t # -1
  BY <1>0, <1>1, <1>2 DEF Mapping, tidNow
<1>5. absMirror' = [absMirror EXCEPT ![t] = p]
  <2>1. \A s \in 0 .. max_threads - 1 : s \in Slots
    BY TableAssumption DEF Alone, Slots
  <2>2. \A s \in 0 .. max_threads - 1 :
          spcd_pid_reverse'[s].pid = IF s = t THEN p ELSE spcd_pid_reverse[s].pid
    BY <1>2, <2>1 DEF row
  <2> QED
    BY <2>2 DEF Mapping
<1>6. Table!StoreMirror(p)
  BY <1>3, <1>4, <1>5 DEF Table!StoreMirror, Table!threads, Table!NoTid
<1> QED
  BY <1>0, <1>6 DEF Table!Next

LEMMA DropDeletes ==
  ASSUME NEW c, Alone(c), TabInv(c), TypeOK', Mapping(c), Mapping(c)', DeleteCount(c)
  PROVE  Table!Next
<1>0. PICK p \in Pids : p = pid[c]
  BY DEF DeleteCount, Goto, Alone, TabInv, TypeOK
<1>1. /\ pc[c] = "drop" /\ pc'[c] = "left"
      /\ UNCHANGED << spcd_pid_reverse, spcd_num_threads >>
  BY DEF DeleteCount, Goto, DecActive, Alone, TabInv, TypeOK
<1>2. /\ \A q \in Pids : tidNow(c, q)' = IF q = p THEN Empty ELSE tidNow(c, q)
      /\ tidNow(c, p) # Empty
  BY <1>0, DeleteCountTab DEF members
<1>3. absNum' = absNum /\ absMirror' = absMirror
  BY <1>1 DEF Mapping, numNow
<1>4. absTidOf' = [absTidOf EXCEPT ![p] = Empty] /\ absTidOf[p] # Empty
  BY <1>0, <1>2 DEF Mapping
<1>5. Table!Delete(p)
  BY <1>1, <1>3, <1>4, SettledTab
     DEF Table!Delete, Table!threads, Table!NoTid, Empty
<1> QED
  BY <1>0, <1>5 DEF Table!Next

LEMMA WipeClears ==
  ASSUME NEW c, Alone(c), TabInv(c), TypeOK', Mapping(c), Mapping(c)', WipeReverse(c)
  PROVE  Table!Next
<1>1. /\ pc'[c] = "zero_num"
      /\ \A s \in Slots : spcd_pid_reverse'[s] = Blank
  BY DEF WipeReverse, Goto, ClearReverse, Alone, TabInv, TypeOK
<1>2. SameTids(c) /\ members(c) = {}
  BY WipeReverseTab
<1>3. absNum' = 0 /\ absTidOf' = absTidOf
  BY <1>1, <1>2 DEF Mapping, numNow, SameTids
<1>4. absMirror' = [t \in 0 .. max_threads - 1 |-> Empty]
  <2>1. \A s \in 0 .. max_threads - 1 : s \in Slots
    BY TableAssumption DEF Alone, Slots
  <2>2. \A s \in 0 .. max_threads - 1 : spcd_pid_reverse'[s].pid = Empty
    BY <1>1, <2>1 DEF Blank
  <2> QED
    BY <2>2 DEF Mapping
<1>5. Table!threads = {}
  BY <1>2 DEF Mapping, members, Table!threads, Table!NoTid, Empty
<1>6. Table!Clear
  BY <1>3, <1>4, <1>5 DEF Table!Clear, Table!Tids, Table!Empty, Empty
<1> QED
  BY <1>6 DEF Table!Next

LEMMA StepTable ==
  ASSUME NEW c, Alone(c), TabInv(c), TypeOK', Mapping(c), Mapping(c)', Next
  PROVE  [Table!Next]_(Table!tableVars)
<1>1. c \in CPUs
  BY DEF Alone
<1>2. ASSUME Reads(c) PROVE UNCHANGED Table!tableVars
  <2>1. numNow(c)' = numNow(c) /\ UNCHANGED spcd_pid_reverse
    BY <1>2 DEF Reads, plain, numNow
  <2> QED
    BY <1>2, <2>1, PlainStep, Stutters
<1>3. CASE Tasks
  BY <1>2, <1>3, TasksTab
<1>4. CASE ProcessHandler(c)
  <2>1. CASE LookupStop(c) \/ LookupNew(c) \/ LookupSkip(c) \/ DeleteTest(c)
    BY <1>2, <2>1, LookupTab
  <2>2. CASE Left(c) \/ reset_stats(c) \/ First(c)
    BY <1>2, <2>2, TestsTab
  <2>3. CASE DeleteTid(c)
    <3>1. numNow(c)' = numNow(c) /\ UNCHANGED spcd_pid_reverse
      BY <1>1, <2>3 DEF DeleteTid, Goto, EraseTid, numNow, TabInv, TypeOK
    <3> QED
      BY <2>3, <3>1, DeleteTidTab, Stutters
  <2>4. CASE DeletePid(c)
    <3>1. numNow(c)' = numNow(c) /\ UNCHANGED spcd_pid_reverse
      BY <1>1, <2>4 DEF DeletePid, Goto, ErasePid, numNow, TabInv, TypeOK
    <3> QED
      BY <2>4, <3>1, DeletePidTab, Stutters
  <2>5. CASE Wipe(c)
    <3>1. numNow(c)' = numNow(c) /\ UNCHANGED spcd_pid_reverse
      BY <1>1, <2>5 DEF Wipe, Goto, ClearForward, numNow, TabInv, TypeOK
    <3> QED
      BY <2>5, <3>1, WipeTab, Stutters
  <2>6. CASE ZeroNum(c) \/ ZeroActiveCount(c) \/ spcd_comm_init(c)
    <3>1. numNow(c)' = numNow(c) /\ UNCHANGED spcd_pid_reverse
      BY <1>1, <2>6
         DEF ZeroNum, ZeroActiveCount, spcd_comm_init, Goto, ZeroNumThreads,
             ZeroActive, numNow, TabInv, TypeOK
    <3> QED
      BY <2>6, <3>1, ZeroTab, Stutters
  <2> QED
    BY <1>4, <2>1, <2>2, <2>3, <2>4, <2>5, <2>6, DropDeletes, WipeClears
       DEF ProcessHandler
<1>5. CASE AddPid(c)
  <2>1. CASE Limit(c) \/ Probe(c) \/ Unshare(c)
    BY <1>2, <2>1, TestsTab
  <2>2. CASE Claim(c)
    <3>1. numNow(c)' = numNow(c) /\ UNCHANGED spcd_pid_reverse
      BY <1>1, <2>2 DEF Claim, Goto, ClaimSlot, numNow, TabInv, TypeOK
    <3> QED
      BY <2>2, <3>1, ClaimTab, Stutters
  <2>3. CASE Number(c)
    <3>1. numNow(c)' = numNow(c) /\ UNCHANGED spcd_pid_reverse
      BY <1>1, <2>3
         DEF Number, GotoWith, IncNumThreads, numNow, TabInv, TypeOK, TableTypeOK
    <3> QED
      BY <2>3, <3>1, NumberTab, Stutters
  <2>4. CASE SetTid(c)
    <3>1. numNow(c)' = numNow(c) /\ UNCHANGED spcd_pid_reverse
      BY <1>1, <2>4 DEF SetTid, Goto, StoreTid, numNow, TabInv, TypeOK
    <3> QED
      BY <2>4, <3>1, SetTidTab, Stutters
  <2> QED
    BY <1>5, <2>1, <2>2, <2>3, <2>4, EnlistRegisters, MirrorStores DEF AddPid
<1>6. CASE FaultHandler(c)
  BY <1>2, <1>6, FaultTab
<1>7. \A d \in CPUs : Handler(d) => Handler(c)
  BY DEF Alone
<1> QED
  BY <1>3, <1>4, <1>5, <1>6, <1>7 DEF Next, Handler

\* On one processor, seen through spcd_get_pid and the active count, the
\* handlers of probes.c do with the arrays of pid.c what ThreadTable says:
\* every thread gets the next tid, is deleted once, and no clear meets one.
THEOREM Implementation ==
  ASSUME Cardinality(CPUs) = 1, max_threads <= SPCD_PID_HASH_SIZE
  PROVE  Spec => ImplementsTable
<1> PICK c : Alone(c)
  BY OneProcessor
<1>1. Mapping(c)
  BY MappingValue
<1>2. Init => Table!Init
  <2> SUFFICES ASSUME Init PROVE Table!Init
    OBVIOUS
  <2>1. \A p \in Pids : tidNow(c, p) = Empty
    BY PidsType
       DEF Init, TableInit, tidNow, spcd_get_tid, slotOf, Empty, Alone
  <2>2. \A t \in 0 .. max_threads - 1 : spcd_pid_reverse[t].pid = 0
    <3>1. \A t \in 0 .. max_threads - 1 : t \in Slots
      BY TableAssumption DEF Alone, Slots
    <3> QED
      BY <3>1 DEF Init, TableInit
  <2>3. numNow(c) = 0
    <3>1. pc[c] = "idle" /\ spcd_num_threads = 0
      BY DEF Init, TableInit, Alone
    <3>2. pc[c] # "zero_num" /\ pc[c] \notin {"settid", "enlist"} /\ 0 - 0 = 0
      BY <3>1
    <3> QED
      BY <3>1, <3>2 DEF numNow
  <2> QED
    BY <1>1, <2>1, <2>2, <2>3
       DEF Mapping, Table!Init, Table!Tids, Table!NoTid, Table!Zeroed, Empty
<1>3. TabInv(c) /\ TabInv(c)' /\ Mapping(c) /\ Mapping(c)' /\ [Next]_vars
        => [Table!Next]_(Table!tableVars)
  <2> SUFFICES ASSUME TabInv(c), TabInv(c)', Mapping(c), Mapping(c)', [Next]_vars
               PROVE  [Table!Next]_(Table!tableVars)
    OBVIOUS
  <2>1. CASE UNCHANGED vars
    <3>1. \A p \in Pids : spcd_get_tid(p)' = spcd_get_tid(p)
      BY <2>1 DEF vars, spcd_get_tid, slotOf
    <3>2. SameTids(c)
      BY <2>1, <3>1 DEF vars, SameTids, tidNow
    <3>3. numNow(c)' = numNow(c) /\ UNCHANGED spcd_pid_reverse
      BY <2>1 DEF vars, numNow
    <3> QED
      BY <3>2, <3>3, Stutters
  <2> QED
    BY <2>1, StepTable DEF TabInv
<1>4. Spec => []TabInv(c)
  BY TableInvariant
<1> QED
  BY <1>1, <1>2, <1>3, <1>4, PTL DEF Spec, ImplementsTable, Table!Spec

=============================================================================
