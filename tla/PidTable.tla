------------------------------ MODULE PidTable ------------------------------
(***************************************************************************)
(* The thread table of the kernel module (src/pid.c): a direct-mapped hash *)
(* table from the kernel's pids to the small thread identifiers (tids)     *)
(* that index the communication matrix, its mirror from tids to pids, and  *)
(* two atomic counters.                                                    *)
(*                                                                         *)
(* pid.c takes no lock, and its callers run on every processor at once.    *)
(* Each operator below is therefore one access to shared memory, not one C *)
(* function; Probes.tla strings them together, one program counter per     *)
(* processor, in the order of the C statements.  A memset of a whole array *)
(* is one access.                                                          *)
(***************************************************************************)
EXTENDS Integers, FiniteSets

CONSTANTS
  Pids,                \* the pids the kernel hands out
  max_threads,         \* the module parameter, a side of the matrix
  SPCD_PID_HASH_SIZE,  \* number of slots of either array
  hash_32              \* the kernel's hash, from pids to slots

Slots == 0 .. SPCD_PID_HASH_SIZE - 1

ASSUME TableAssumption ==
  /\ Pids \subseteq Nat \ {0}
  /\ max_threads \in Nat \ {0}
  /\ SPCD_PID_HASH_SIZE \in Nat \ {0}
  /\ hash_32 \in [Pids -> Slots]

VARIABLES
  spcd_pid,             \* slot -> [pid, tid]
  spcd_pid_reverse,     \* tid -> [pid, tid]
  spcd_num_threads,     \* tids handed out since the last clear
  spcd_active_threads   \* registered threads, as counted

tableVars == << spcd_pid, spcd_pid_reverse, spcd_num_threads,
                spcd_active_threads >>

Empty == -1

\* struct pid_s.  A field is -1 after a clear and 0 before the first one.
PidOrEmpty == Pids \cup {0, Empty}
Entry == [pid : PidOrEmpty, tid : Int]

Blank == [pid |-> Empty, tid |-> Empty]

TableTypeOK ==
  /\ spcd_pid \in [Slots -> Entry]
  /\ spcd_pid_reverse \in [Slots -> Entry]
  /\ spcd_num_threads \in Nat
  /\ spcd_active_threads \in Int

\* Both arrays are static data of a module: zero, not -1, when it is loaded.
TableInit ==
  /\ spcd_pid = [s \in Slots |-> [pid |-> 0, tid |-> 0]]
  /\ spcd_pid_reverse = [s \in Slots |-> [pid |-> 0, tid |-> 0]]
  /\ spcd_num_threads = 0
  /\ spcd_active_threads = 0

-----------------------------------------------------------------------------
(* Reading.  The two fields of a slot are read together. *)

slotOf(p) == spcd_pid[hash_32[p]]

spcd_get_tid(p) == IF slotOf(p).pid = p THEN slotOf(p).tid ELSE Empty

\* The C code indexes the array with whatever tid it is given.
spcd_get_pid(t) == spcd_pid_reverse[t].pid

spcd_get_num_threads == spcd_num_threads

spcd_get_active_threads == spcd_active_threads

-----------------------------------------------------------------------------
(* spcd_delete_pid, access by access.  The mirror keeps its entry.         *)

deletable(p) == slotOf(p).tid # Empty /\ slotOf(p).pid = p

EraseTid(p) ==
  /\ spcd_pid' = [spcd_pid EXCEPT ![hash_32[p]].tid = Empty]
  /\ UNCHANGED << spcd_pid_reverse, spcd_num_threads, spcd_active_threads >>

ErasePid(p) ==
  /\ spcd_pid' = [spcd_pid EXCEPT ![hash_32[p]].pid = Empty]
  /\ UNCHANGED << spcd_pid_reverse, spcd_num_threads, spcd_active_threads >>

DecActive ==
  /\ spcd_active_threads' = spcd_active_threads - 1
  /\ UNCHANGED << spcd_pid, spcd_pid_reverse, spcd_num_threads >>

-----------------------------------------------------------------------------
(* spcd_add_pid, access by access. *)

tableFull == spcd_get_num_threads >= max_threads

vacant(p) == slotOf(p).pid = Empty

ClaimSlot(p) ==
  /\ spcd_pid' = [spcd_pid EXCEPT ![hash_32[p]].pid = p]
  /\ UNCHANGED << spcd_pid_reverse, spcd_num_threads, spcd_active_threads >>

\* atomic_inc_return(&spcd_num_threads) - 1 is the number before the step.
IncNumThreads ==
  /\ spcd_num_threads' = spcd_num_threads + 1
  /\ UNCHANGED << spcd_pid, spcd_pid_reverse, spcd_active_threads >>

StoreTid(p, t) ==
  /\ spcd_pid' = [spcd_pid EXCEPT ![hash_32[p]].tid = t]
  /\ UNCHANGED << spcd_pid_reverse, spcd_num_threads, spcd_active_threads >>

IncActive ==
  /\ spcd_active_threads' = spcd_active_threads + 1
  /\ UNCHANGED << spcd_pid, spcd_pid_reverse, spcd_num_threads >>

\* The index is read back from the slot.  When another processor erased the
\* slot meanwhile the store lands before the array: in the last element of
\* spcd_pid where that array comes first, else in no state of this model.
MirrorSlot(p) ==
  /\ spcd_pid_reverse' =
       [t \in Slots |-> IF t = slotOf(p).tid THEN slotOf(p)
                                             ELSE spcd_pid_reverse[t]]
  /\ \/ UNCHANGED spcd_pid
     \/ /\ slotOf(p).tid = Empty
        /\ spcd_pid' = [spcd_pid EXCEPT ![SPCD_PID_HASH_SIZE - 1] = slotOf(p)]
  /\ UNCHANGED << spcd_num_threads, spcd_active_threads >>

-----------------------------------------------------------------------------
(* spcd_pid_clear, access by access. *)

ClearForward ==
  /\ spcd_pid' = [s \in Slots |-> Blank]
  /\ UNCHANGED << spcd_pid_reverse, spcd_num_threads, spcd_active_threads >>

ClearReverse ==
  /\ spcd_pid_reverse' = [s \in Slots |-> Blank]
  /\ UNCHANGED << spcd_pid, spcd_num_threads, spcd_active_threads >>

\* Faulty variant: the tids go on from the last application's.
KeepNumThreads ==
  UNCHANGED tableVars

ZeroNumThreads ==
  /\ spcd_num_threads' = 0
  /\ UNCHANGED << spcd_pid, spcd_pid_reverse, spcd_active_threads >>

ZeroActive ==
  /\ spcd_active_threads' = 0
  /\ UNCHANGED << spcd_pid, spcd_pid_reverse, spcd_num_threads >>

=============================================================================
