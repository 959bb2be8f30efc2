------------------------------- MODULE Probes -------------------------------
(***************************************************************************)
(* The probe handlers of src/probes.c over the thread table of PidTable,   *)
(* run by every processor without a lock, while the tasks of the machine   *)
(* fork, exec, fault and exit around them.                                 *)
(*                                                                         *)
(*   process_handler    acct_update_integrals(tsk): timer tick, exec, exit *)
(*   thread_handler     return of do_fork in the parent                    *)
(*   pte_fault_handler  entry of handle_pte_fault                          *)
(*                                                                         *)
(* A handler runs with interrupts off, so a processor runs one handler at  *)
(* a time and to its end; the handlers of two processors interleave at     *)
(* every access to shared memory.  pc[c] names the next access of c.       *)
(*                                                                         *)
(* The page table and the communication matrix appear here only through    *)
(* whose accesses they hold: CommDetect.tla models what they count.        *)
(***************************************************************************)
EXTENDS PidTable

CONSTANTS CPUs

ASSUME CPUsAssumption == CPUs # {} /\ IsFiniteSet(CPUs)

VARIABLES
  pc,       \* CPU -> next access of the handler it runs
  cur,      \* CPU -> the task that runs the handler (current), or NoTask
  pid,      \* CPU -> the pid the handler works for
  tid,      \* CPU -> the handler's local variable tid
  life,     \* task -> "free", "alive" or "exiting" (PF_EXITING)
  dotx,     \* task -> does its name end with ".x"
  child,    \* task -> what its do_fork in progress will return, or NoTask
  mem,      \* accessors remembered by the page table
  matrix,   \* accessors with a count in the matrix
  spcd_vma_shared_flag,
  late      \* history: registered by a fork return after their own exit

NoTask == 0

handlerVars == << pc, cur, pid, tid >>
taskVars == << life, dotx, child >>
appVars == << mem, matrix, spcd_vma_shared_flag >>
vars == << tableVars, handlerVars, taskVars, appVars, late >>

Labels == {"idle", "lookup", "delete", "erase_tid", "erase_pid", "drop",
           "left", "reset", "first", "wipe", "wipe_reverse", "zero_num",
           "zero_active", "comm_init", "limit", "probe", "claim", "number",
           "settid", "enlist", "mirror", "unshare", "fault", "record"}

\* An access is attributed to a tid; the pid that made it is history.
Accessor == [tid : Int, pid : Pids]

TypeOK ==
  /\ TableTypeOK
  /\ pc \in [CPUs -> Labels]
  /\ cur \in [CPUs -> Pids \cup {NoTask}]
  /\ pid \in [CPUs -> Pids \cup {NoTask}]
  /\ tid \in [CPUs -> Int]
  /\ life \in [Pids -> {"free", "alive", "exiting"}]
  /\ dotx \in [Pids -> BOOLEAN]
  /\ child \in [Pids -> Pids \cup {NoTask}]
  /\ mem \subseteq Accessor
  /\ matrix \subseteq Accessor
  /\ spcd_vma_shared_flag \in {0, 1}
  /\ late \subseteq Pids
  /\ \A c \in CPUs : pc[c] # "idle" => cur[c] \in Pids /\ pid[c] \in Pids

\* The module may be loaded while programs run.  init_module has called
\* reset_stats before it registers a probe.
Init ==
  /\ TableInit
  /\ pc = [c \in CPUs |-> "idle"]
  /\ cur = [c \in CPUs |-> NoTask]
  /\ pid = [c \in CPUs |-> NoTask]
  /\ tid = [c \in CPUs |-> Empty]
  /\ life \in [Pids -> {"free", "alive"}]
  /\ dotx \in [Pids -> BOOLEAN]
  /\ \A p \in Pids : dotx[p] => life[p] = "alive"
  /\ child = [p \in Pids |-> NoTask]
  /\ mem = {}
  /\ matrix = {}
  /\ spcd_vma_shared_flag = 1
  /\ late = {}

-----------------------------------------------------------------------------
(* Control flow of a handler. *)

Goto(c, from, to) ==
  /\ pc[c] = from
  /\ pc' = [pc EXCEPT ![c] = to]
  /\ UNCHANGED << cur, pid, tid >>

\* A local assignment on the way.
GotoWith(c, from, to, t) ==
  /\ pc[c] = from
  /\ pc' = [pc EXCEPT ![c] = to]
  /\ tid' = [tid EXCEPT ![c] = t]
  /\ UNCHANGED << cur, pid >>

Return(c, from) ==
  /\ pc[c] = from
  /\ pc' = [pc EXCEPT ![c] = "idle"]
  /\ cur' = [cur EXCEPT ![c] = NoTask]
  /\ pid' = [pid EXCEPT ![c] = NoTask]
  /\ tid' = [tid EXCEPT ![c] = Empty]

\* A task runs on one processor at a time, and one that runs a handler runs
\* nothing else.
Running(p) == \E c \in CPUs : pc[c] # "idle" /\ cur[c] = p

Enter(c, p, q, label) ==
  /\ pc[c] = "idle"
  /\ ~Running(p)
  /\ pc' = [pc EXCEPT ![c] = label]
  /\ cur' = [cur EXCEPT ![c] = p]
  /\ pid' = [pid EXCEPT ![c] = q]
  /\ UNCHANGED tid

\* Only thread_handler works for another task than the one it runs in.
inThreadHandler(c) == pid[c] # cur[c]

\* The return of spcd_add_pid into its caller.
AddReturn(c, from) ==
  \/ inThreadHandler(c) /\ Goto(c, from, "unshare")
  \/ ~inThreadHandler(c) /\ Return(c, from)

-----------------------------------------------------------------------------
(* The tasks of the machine.  Each step needs a processor to run on. *)

SomeCpuIdle == \E c \in CPUs : pc[c] = "idle"

\* A task comes to life outside the applications.
Spawn(p) ==
  /\ SomeCpuIdle
  /\ life[p] = "free"
  /\ life' = [life EXCEPT ![p] = "alive"]
  /\ dotx' = [dotx EXCEPT ![p] = FALSE]
  /\ UNCHANGED << child, tableVars, handlerVars, appVars, late >>

\* Inside do_fork: q exists, and may run, before do_fork returns in p.
Fork(p, q) ==
  /\ SomeCpuIdle
  /\ ~Running(p)
  /\ life[p] = "alive" /\ child[p] = NoTask
  /\ life[q] = "free"
  /\ life' = [life EXCEPT ![q] = "alive"]
  /\ dotx' = [dotx EXCEPT ![q] = dotx[p]]
  /\ child' = [child EXCEPT ![p] = q]
  /\ UNCHANGED << tableVars, handlerVars, appVars, late >>

\* release_task: the pid may be used again.
Reap(p) ==
  /\ SomeCpuIdle
  /\ ~Running(p)
  /\ life[p] = "exiting"
  /\ life' = [life EXCEPT ![p] = "free"]
  /\ dotx' = [dotx EXCEPT ![p] = FALSE]
  /\ UNCHANGED << child, tableVars, handlerVars, appVars, late >>

\* acct_update_integrals from the timer tick.
Tick(c, p) ==
  /\ life[p] # "free"
  /\ Enter(c, p, p, "lookup")
  /\ UNCHANGED << tableVars, taskVars, appVars, late >>

\* acct_update_integrals from exec, which has just set the task's name.
Exec(c, p, name) ==
  /\ life[p] = "alive" /\ child[p] = NoTask
  /\ Enter(c, p, p, "lookup")
  /\ dotx' = [dotx EXCEPT ![p] = name]
  /\ UNCHANGED << life, child, tableVars, appVars, late >>

\* acct_update_integrals from do_exit, which has just set PF_EXITING.
Exit(c, p) ==
  /\ life[p] = "alive" /\ child[p] = NoTask
  /\ Enter(c, p, p, "lookup")
  /\ life' = [life EXCEPT ![p] = "exiting"]
  /\ UNCHANGED << dotx, child, tableVars, appVars, late >>

\* Faulty variant: without the test pid > 0, a failed do_fork is added.
ForkReturnUntested(c, p) ==
  /\ dotx[p]
  /\ Enter(c, p, child[p], "limit")
  /\ child' = [child EXCEPT ![p] = NoTask]
  /\ UNCHANGED << life, dotx, tableVars, appVars, late >>

\* do_fork returns in p, and thread_handler runs.
ForkReturn(c, p) ==
  /\ child[p] # NoTask
  /\ child' = [child EXCEPT ![p] = NoTask]
  /\ \/ /\ dotx[p]
        /\ Enter(c, p, child[p], "limit")
     \/ /\ ~dotx[p]
        /\ pc[c] = "idle" /\ ~Running(p)
        /\ UNCHANGED handlerVars
  /\ UNCHANGED << life, dotx, tableVars, appVars, late >>

\* handle_pte_fault is entered in p.
Fault(c, p) ==
  /\ life[p] # "free"
  /\ Enter(c, p, p, "fault")
  /\ UNCHANGED << tableVars, taskVars, appVars, late >>

-----------------------------------------------------------------------------
(* process_handler *)

\* Faulty variant: tid > 0 for tid > -1.
stoppingButFirst(p) == spcd_get_tid(p) > 0 /\ life[p] = "exiting"

stopping(p) == spcd_get_tid(p) > -1 /\ life[p] = "exiting"

starting(p) == dotx[p] /\ spcd_get_tid(p) = -1 /\ life[p] # "exiting"

LookupStop(c) ==
  /\ pc[c] = "lookup"
  /\ stopping(pid[c])
  /\ GotoWith(c, "lookup", "delete", spcd_get_tid(pid[c]))
  /\ UNCHANGED << tableVars, taskVars, appVars, late >>

LookupNew(c) ==
  /\ pc[c] = "lookup"
  /\ starting(pid[c])
  /\ GotoWith(c, "lookup", "first", -1)
  /\ UNCHANGED << tableVars, taskVars, appVars, late >>

LookupSkip(c) ==
  /\ pc[c] = "lookup"
  /\ ~stopping(pid[c]) /\ ~starting(pid[c])
  /\ Return(c, "lookup")
  /\ UNCHANGED << tableVars, taskVars, appVars, late >>

-----------------------------------------------------------------------------
(* spcd_delete_pid, and what process_handler does after it *)

DeleteTest(c) ==
  /\ pc[c] = "delete"
  /\ \/ deletable(pid[c]) /\ Goto(c, "delete", "erase_tid")
     \/ ~deletable(pid[c]) /\ Goto(c, "delete", "left")
  /\ UNCHANGED << tableVars, taskVars, appVars, late >>

DeleteTid(c) ==
  /\ Goto(c, "erase_tid", "erase_pid")
  /\ EraseTid(pid[c])
  /\ UNCHANGED << taskVars, appVars, late >>

DeletePid(c) ==
  /\ Goto(c, "erase_pid", "drop")
  /\ ErasePid(pid[c])
  /\ late' = late \ {pid[c]}
  /\ UNCHANGED << taskVars, appVars >>

\* Faulty variant: the decrement is forgotten.
DeleteUncounted(c) ==
  /\ Goto(c, "drop", "left")
  /\ UNCHANGED << tableVars, taskVars, appVars, late >>

DeleteCount(c) ==
  /\ Goto(c, "drop", "left")
  /\ DecActive
  /\ UNCHANGED << taskVars, appVars, late >>

\* Faulty variant: the last exit does not reset the statistics.
LeftWithoutReset(c) ==
  /\ Return(c, "left")
  /\ UNCHANGED << tableVars, taskVars, appVars, late >>

\* at = spcd_get_active_threads(), a read of its own after the decrement.
Left(c) ==
  /\ \/ spcd_get_active_threads = 0 /\ Goto(c, "left", "reset")
     \/ spcd_get_active_threads # 0 /\ Return(c, "left")
  /\ UNCHANGED << tableVars, taskVars, appVars, late >>

\* Faulty variant: spcd_mem_init is not called.
reset_stats_keeps_mem(c) ==
  /\ Return(c, "reset")
  /\ spcd_vma_shared_flag' = 1
  /\ UNCHANGED << mem, matrix, tableVars, taskVars, late >>

reset_stats(c) ==
  /\ Return(c, "reset")
  /\ mem' = {}
  /\ spcd_vma_shared_flag' = 1
  /\ UNCHANGED << matrix, tableVars, taskVars, late >>

-----------------------------------------------------------------------------
(* The first process of an application: spcd_pid_clear, spcd_comm_init *)

\* Faulty variants: every new process clears the table, or none does.
FirstAlways(c) ==
  /\ Goto(c, "first", "wipe")
  /\ UNCHANGED << tableVars, taskVars, appVars, late >>

FirstNever(c) ==
  /\ Goto(c, "first", "limit")
  /\ UNCHANGED << tableVars, taskVars, appVars, late >>

First(c) ==
  /\ \/ spcd_get_active_threads = 0 /\ Goto(c, "first", "wipe")
     \/ spcd_get_active_threads # 0 /\ Goto(c, "first", "limit")
  /\ UNCHANGED << tableVars, taskVars, appVars, late >>

Wipe(c) ==
  /\ Goto(c, "wipe", "wipe_reverse")
  /\ ClearForward
  /\ late' = {}
  /\ UNCHANGED << taskVars, appVars >>

WipeReverse(c) ==
  /\ Goto(c, "wipe_reverse", "zero_num")
  /\ ClearReverse
  /\ UNCHANGED << taskVars, appVars, late >>

ZeroNum(c) ==
  /\ Goto(c, "zero_num", "zero_active")
  /\ ZeroNumThreads
  /\ UNCHANGED << taskVars, appVars, late >>

ZeroActiveCount(c) ==
  /\ Goto(c, "zero_active", "comm_init")
  /\ ZeroActive
  /\ UNCHANGED << taskVars, appVars, late >>

spcd_comm_init(c) ==
  /\ Goto(c, "comm_init", "limit")
  /\ matrix' = {}
  /\ UNCHANGED << mem, spcd_vma_shared_flag, tableVars, taskVars, late >>

-----------------------------------------------------------------------------
(* spcd_add_pid, for process_handler and for thread_handler *)

\* Faulty variant: > for >=.
LimitOffByOne(c) ==
  /\ \/ spcd_num_threads > max_threads /\ AddReturn(c, "limit")
     \/ spcd_num_threads <= max_threads /\ Goto(c, "limit", "probe")
  /\ UNCHANGED << tableVars, taskVars, appVars, late >>

Limit(c) ==
  /\ \/ tableFull /\ AddReturn(c, "limit")
     \/ ~tableFull /\ Goto(c, "limit", "probe")
  /\ UNCHANGED << tableVars, taskVars, appVars, late >>

Probe(c) ==
  /\ pc[c] = "probe"
  /\ \/ vacant(pid[c]) /\ Goto(c, "probe", "claim")
     \/ ~vacant(pid[c]) /\ AddReturn(c, "probe")
  /\ UNCHANGED << tableVars, taskVars, appVars, late >>

Claim(c) ==
  /\ Goto(c, "claim", "number")
  /\ ClaimSlot(pid[c])
  /\ late' = IF life[pid[c]] = "alive" THEN late ELSE late \cup {pid[c]}
  /\ UNCHANGED << taskVars, appVars >>

\* Faulty variant: atomic_inc_return without the - 1.
NumberFromOne(c) ==
  /\ GotoWith(c, "number", "settid", spcd_num_threads + 1)
  /\ IncNumThreads
  /\ UNCHANGED << taskVars, appVars, late >>

Number(c) ==
  /\ GotoWith(c, "number", "settid", spcd_num_threads)
  /\ IncNumThreads
  /\ UNCHANGED << taskVars, appVars, late >>

SetTid(c) ==
  /\ Goto(c, "settid", "enlist")
  /\ StoreTid(pid[c], tid[c])
  /\ UNCHANGED << taskVars, appVars, late >>

Enlist(c) ==
  /\ Goto(c, "enlist", "mirror")
  /\ IncActive
  /\ UNCHANGED << taskVars, appVars, late >>

Mirror(c) ==
  /\ AddReturn(c, "mirror")
  /\ MirrorSlot(pid[c])
  /\ UNCHANGED << taskVars, appVars, late >>

\* The end of thread_handler, whether or not the thread was added.
Unshare(c) ==
  /\ Return(c, "unshare")
  /\ spcd_vma_shared_flag' = 0
  /\ UNCHANGED << mem, matrix, tableVars, taskVars, late >>

-----------------------------------------------------------------------------
(* pte_fault_handler *)

FaultLookup(c) ==
  /\ pc[c] = "fault"
  /\ LET t == spcd_get_tid(pid[c]) IN
     \/ t # -1 /\ GotoWith(c, "fault", "record", t)
     \/ t = -1 /\ Return(c, "fault")
  /\ UNCHANGED << tableVars, taskVars, appVars, late >>

\* spcd_check_comm with the tid read before: the page may hold none, one or two
\* of the accessors remembered so far, and each of them that is another thread
\* gets a count together with this one (comm.c:28, 36-37, 41, 43).
Record(c) ==
  LET me == [tid |-> tid[c], pid |-> pid[c]]
      others == {a \in mem : a.tid # me.tid}
  IN /\ Return(c, "record")
     /\ mem' = mem \cup {me}
     /\ \/ UNCHANGED matrix
        \/ \E a, b \in others : matrix' = matrix \cup {me, a, b}
     /\ UNCHANGED << spcd_vma_shared_flag, tableVars, taskVars, late >>

\* A page that is not present has no physical address: nothing is recorded.
RecordNothing(c) ==
  /\ Return(c, "record")
  /\ UNCHANGED << tableVars, taskVars, appVars, late >>

-----------------------------------------------------------------------------

ProcessHandler(c) ==
  \/ LookupStop(c) \/ LookupNew(c) \/ LookupSkip(c)
  \/ DeleteTest(c) \/ DeleteTid(c) \/ DeletePid(c) \/ DeleteCount(c)
  \/ Left(c) \/ reset_stats(c)
  \/ First(c) \/ Wipe(c) \/ WipeReverse(c) \/ ZeroNum(c)
  \/ ZeroActiveCount(c) \/ spcd_comm_init(c)

AddPid(c) ==
  \/ Limit(c) \/ Probe(c) \/ Claim(c) \/ Number(c)
  \/ SetTid(c) \/ Enlist(c) \/ Mirror(c) \/ Unshare(c)

FaultHandler(c) == FaultLookup(c) \/ Record(c) \/ RecordNothing(c)

Handler(c) == ProcessHandler(c) \/ AddPid(c) \/ FaultHandler(c)

Tasks ==
  \/ \E p \in Pids : Spawn(p) \/ Reap(p)
  \/ \E p, q \in Pids : Fork(p, q)
  \/ \E c \in CPUs, p \in Pids :
       \/ Tick(c, p) \/ Exit(c, p) \/ ForkReturn(c, p) \/ Fault(c, p)
       \/ \E name \in BOOLEAN : Exec(c, p, name)

Next == Tasks \/ \E c \in CPUs : Handler(c)

Spec == Init /\ [][Next]_vars

\* A handler, once entered, runs to its end; a task that stays alive runs
\* again and again, and is charged by the timer tick while it does.
Fairness ==
  /\ \A c \in CPUs : WF_vars(Handler(c))
  /\ \A p \in Pids : SF_vars(\E c \in CPUs : Tick(c, p))

FairSpec == Spec /\ Fairness

-----------------------------------------------------------------------------
(* What the registrations promise. *)

AllIdle == \A c \in CPUs : pc[c] = "idle"

registered(p) == spcd_get_tid(p) # -1

\* No more than max_threads tids are handed out for a matrix of max_threads
\* rows (pid.c:35), but every processor other than the first may be past the
\* test when the counter reaches the limit.
NumBounded ==
  spcd_num_threads <= max_threads + Cardinality(CPUs) - 1

\* What the message of pid.c:36 says: an attempt to create more than
\* max_threads threads is refused.
NumWithinMax == spcd_num_threads <= max_threads

\* spcd_get_tid and spcd_get_pid invert each other on the registered threads,
\* and no two threads share a row of the matrix: the slot an entry is found
\* in, the number it was given and the mirror (pid.c:40-47) agree, across
\* deletions that leave the mirror alone (pid.c:23) and clears.
TablesAgree ==
  AllIdle =>
    \A p \in Pids : registered(p) =>
      /\ spcd_get_tid(p) \in 0 .. spcd_num_threads - 1
      /\ spcd_get_pid(spcd_get_tid(p)) = p
      /\ \A q \in Pids : spcd_get_tid(q) = spcd_get_tid(p) => q = p

\* spcd_active_threads, whose return to zero ends an application
\* (probes.c:192) and whose zero starts one (probes.c:201), is the number of
\* registered threads.
ActiveExact ==
  AllIdle =>
    spcd_active_threads = Cardinality({p \in Pids : registered(p)})

\* A registered thread that no longer lives was registered by a do_fork that
\* returned after the child's own exit (probes.c:219): every other thread is
\* deleted when it exits.
OnlyLateForksLinger ==
  AllIdle => \A p \in Pids : registered(p) => life[p] = "alive" \/ p \in late

\* Whatever the page table remembers and the matrix counts under a tid was
\* done by the pid that tid still stands for, so a row never mixes two
\* threads: tids are not reused before both have been zeroed.
Attributable ==
  AllIdle =>
    \A a \in mem \cup matrix :
      a.tid \in Slots /\ spcd_get_pid(a.tid) = a.pid

\* Between two applications nothing of the first is remembered: when no
\* thread is active the page table is empty (probes.c:192-195), so that the
\* first access of the next application communicates with nobody.
ForgottenBetweenApps ==
  AllIdle /\ spcd_active_threads = 0 => mem = {}

\* A thread keeps its registration and its tid until the handler of its own
\* exit deletes it; nobody else's clear, exit or registration takes it away.
\* Checked and proved on one processor: of two first processes on two processors
\* the second clear (probes.c:201-202) erases the registration of the first.
RegistrationStable ==
  [][\A p \in Pids : registered(p) =>
       \/ spcd_get_tid(p)' = spcd_get_tid(p)
       \/ \E c \in CPUs : pc[c] = "erase_tid" /\ pid[c] = p]_vars

\* The table refuses p for the moment: every tid is given out, or the slot
\* is another pid's.
refused(p) == tableFull \/ slotOf(p).pid \notin {p, Empty, 0}

\* A task of an accepted name that stays alive is registered by one of its
\* ticks, whatever its fork return met (a table that was still zero, a full
\* table, a slot in use), once the table does not refuse it any more.
EventuallyTracked ==
  \A p \in Pids :
    (life[p] = "alive" /\ dotx[p] /\ ~registered(p))
      ~> (registered(p) \/ refused(p) \/ life[p] # "alive" \/ ~dotx[p])

-----------------------------------------------------------------------------
(* On one processor the handlers implement ThreadTable.  A thread counts   *)
(* as registered from the increment of the active count on, and until its  *)
(* decrement.                                                              *)

handling(p, labels) == \E c \in CPUs : pid[c] = p /\ pc[c] \in labels

absTidOf ==
  [p \in Pids |->
     IF handling(p, {"erase_pid", "drop"})
     THEN CHOOSE t \in {tid[c] : c \in {d \in CPUs : pid[d] = p}} : TRUE
     ELSE IF handling(p, {"enlist"}) THEN Empty ELSE spcd_get_tid(p)]

absMirror == [t \in 0 .. max_threads - 1 |-> spcd_get_pid(t)]

\* A number counts once its thread is registered, and a clear at its first
\* visible step.
absNum ==
  IF \E c \in CPUs : pc[c] = "zero_num" THEN 0
  ELSE spcd_num_threads - Cardinality({c \in CPUs : pc[c] \in {"settid", "enlist"}})

Table == INSTANCE ThreadTable WITH
  tidOf <- absTidOf, mirror <- absMirror, num <- absNum

\* Seen through spcd_get_pid and the active count, which is all that the
\* mapper sees of it (map.c:39, map.c:73), the table is that of ThreadTable:
\* threads come and go one at a time, a tid is handed out once between two
\* clears, and no clear meets a registered thread.
ImplementsTable == Table!Spec

=============================================================================
