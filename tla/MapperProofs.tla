---------------------------- MODULE MapperProofs ----------------------------
(***************************************************************************)
(* Proofs about ThreadTable and Mapper for every set of pids, every number *)
(* of tids, every set of processors and every number of threads from which *)
(* on the mapper works.                                                    *)
(***************************************************************************)
EXTENDS Mapper, FiniteSetTheorems, TLAPS

-----------------------------------------------------------------------------
(* The thread table, with the threads that left it since the last clear.   *)

TableTyped ==
  /\ tidOf \in [Pids -> Tids \cup {NoTid}]
  /\ mirror \in [Tids -> Pids \cup {Zeroed, Empty}]
  /\ num \in 0 .. max_threads

\* Every thread has a tid of its own among those handed out.
OwnTids ==
  /\ \A p \in threads : tidOf[p] < num
  /\ \A p, q \in threads : tidOf[p] = tidOf[q] => p = q

\* No thread is registered before the first clear.
Cleared ==
  \A s, t \in Tids : mirror[s] = Zeroed => mirror[t] = Zeroed /\ num = 0

Counted == IsFiniteSet(threads) /\ active <= num

\* The mirror names threads, present or past, at tids handed out; it is right
\* about them as long as none has left.
MirrorTrue ==
  \A t \in Tids : mirror[t] \in Pids =>
    /\ t < num /\ mirror[t] \in threads \cup departed
    /\ departed = {} => tidOf[mirror[t]] = t

\* As long as no thread has left, every tid handed out is some thread's.
NoGaps ==
  departed = {} =>
    /\ active = num
    /\ \A t \in 0 .. num - 1 : \E p \in threads : tidOf[p] = t

TInv == TableTyped /\ OwnTids /\ Cleared /\ Counted /\ MirrorTrue /\ NoGaps

\* The invariant holds for the zeroed table.
LEMMA InitTInv == MapperInit => TInv
<1> SUFFICES ASSUME MapperInit PROVE TInv
  OBVIOUS
<1>1. threads = {}
  BY DEF MapperInit, Init, threads
<1>2. IsFiniteSet(threads) /\ active = 0
  BY <1>1, FS_EmptySet DEF active
<1> QED
  BY <1>1, <1>2, MapperAssumption
     DEF MapperInit, Init, TInv, TableTyped, OwnTids, Cleared, Counted,
         MirrorTrue, NoGaps, NoTid, Zeroed, Empty, Tids

\* A thread that registers adds one to the threads and to the tids.
LEMMA RegisterTInv ==
  ASSUME TInv, NEW p \in Pids, Register(p), UNCHANGED departed
  PROVE  TInv' /\ threads' = threads \cup {p} /\ tidOf'[p] = num /\ num \in Tids
<1> USE DEF TInv
<1>1. num \in Tids
  BY MapperAssumption DEF Register, TableTyped, Tids
<1>2. TableTyped'
  BY <1>1, MapperAssumption DEF Register, TableTyped, Tids
<1>3. threads' = threads \cup {p} /\ tidOf'[p] = num
  BY <1>1, MapperAssumption DEF Register, TableTyped, threads, NoTid, Tids
<1>4. \A q \in threads : tidOf'[q] = tidOf[q]
  BY DEF Register, TableTyped, threads
<1>5. p \notin threads
  BY DEF Register
<1>6. OwnTids'
  <2>1. \A q \in threads' : tidOf'[q] < num'
    BY <1>1, <1>3, <1>4 DEF OwnTids, Register, TableTyped, Tids, threads, NoTid
  <2>2. \A q \in threads : tidOf'[q] # num
    BY <1>1, <1>4 DEF OwnTids, TableTyped, Tids, threads, NoTid
  <2> QED
    BY <1>3, <1>4, <1>5, <2>1, <2>2 DEF OwnTids
<1>7. Cleared'
  BY <1>1 DEF Cleared, Register, Zeroed, Empty
<1>8. Counted' /\ active' = active + 1
  <2>1. /\ IsFiniteSet(threads \cup {p})
        /\ Cardinality(threads \cup {p}) = Cardinality(threads) + 1
    BY <1>5, FS_AddElement DEF Counted
  <2>2. Cardinality(threads) \in Nat
    BY FS_CardinalityType DEF Counted
  <2> QED
    BY <1>3, <2>1, <2>2 DEF Counted, active, Register, TableTyped
<1>9. MirrorTrue'
  BY <1>3, <1>4 DEF MirrorTrue, Register, TableTyped, Tids
<1>10. NoGaps'
  <2> SUFFICES ASSUME departed' = {}
               PROVE  active' = num' /\ \A t \in 0 .. num : \E q \in threads' : tidOf'[q] = t
    BY DEF NoGaps, Register, TableTyped
  <2>1. active' = num'
    BY <1>8 DEF NoGaps, Register
  <2>2. ASSUME NEW t \in 0 .. num PROVE \E q \in threads' : tidOf'[q] = t
    <3>1. CASE t = num
      BY <1>3, <3>1
    <3>2. CASE t # num
      <4>1. t \in 0 .. num - 1
        BY <3>2 DEF TableTyped
      <4>2. PICK q \in threads : tidOf[q] = t
        BY <4>1 DEF NoGaps
      <4> QED
        BY <1>3, <1>4, <4>2
    <3> QED
      BY <3>1, <3>2
  <2> QED
    BY <2>1, <2>2
<1> QED
  BY <1>1, <1>2, <1>3, <1>6, <1>7, <1>8, <1>9, <1>10

\* The mirror entry of a new thread.
LEMMA StoreMirrorTInv ==
  ASSUME TInv, NEW p \in Pids, StoreMirror(p), UNCHANGED departed
  PROVE  TInv' /\ threads' = threads
<1> USE DEF TInv
<1>1. threads' = threads /\ active' = active
  BY DEF StoreMirror, threads, active
<1>2. p \in threads /\ tidOf[p] \in Tids
  BY DEF StoreMirror, TableTyped, threads, NoTid
<1>3. TableTyped'
  BY <1>2 DEF StoreMirror, TableTyped
<1>4. OwnTids' /\ Counted'
  BY <1>1 DEF OwnTids, Counted, StoreMirror
<1>5. Cleared'
  BY <1>2, MapperAssumption
     DEF Cleared, OwnTids, StoreMirror, TableTyped, Tids, Zeroed
<1>6. MirrorTrue'
  BY <1>1, <1>2 DEF MirrorTrue, OwnTids, StoreMirror, TableTyped
<1>7. NoGaps'
  BY <1>1 DEF NoGaps, StoreMirror
<1> QED
  BY <1>1, <1>3, <1>4, <1>5, <1>6, <1>7

\* A thread that leaves keeps its mirror entry and its number.
LEMMA DeleteTInv ==
  ASSUME TInv, NEW p \in Pids, Delete(p), departed' = departed \cup {p}
  PROVE  TInv' /\ threads' = threads \ {p}
<1> USE DEF TInv
<1>1. threads' = threads \ {p}
  BY DEF Delete, TableTyped, threads, NoTid
<1>2. \A q \in threads' : tidOf'[q] = tidOf[q]
  BY <1>1 DEF Delete, TableTyped, threads
<1>3. TableTyped'
  BY DEF Delete, TableTyped
<1>4. OwnTids'
  BY <1>1, <1>2 DEF OwnTids, Delete
<1>5. Cleared'
  BY DEF Cleared, Delete
<1>6. Counted'
  <2>1. /\ IsFiniteSet(threads \ {p})
        /\ Cardinality(threads \ {p}) = Cardinality(threads) - 1
    BY FS_RemoveElement DEF Counted, Delete
  <2>2. Cardinality(threads) \in Nat
    BY FS_CardinalityType DEF Counted
  <2> QED
    BY <1>1, <2>1, <2>2 DEF Counted, active, Delete, TableTyped
<1>7. MirrorTrue'
  BY <1>1 DEF MirrorTrue, Delete
<1>8. NoGaps'
  BY DEF NoGaps
<1> QED
  BY <1>1, <1>3, <1>4, <1>5, <1>6, <1>7, <1>8

\* A clear.
LEMMA ClearTInv ==
  ASSUME TInv, Clear, departed' = {}
  PROVE  TInv' /\ threads' = {} /\ threads = {}
<1> USE DEF TInv
<1>1. threads = {} /\ threads' = {}
  BY DEF Clear, threads
<1>2. active' = 0 /\ IsFiniteSet(threads')
  BY <1>1, FS_EmptySet DEF active
<1> QED
  BY <1>1, <1>2, MapperAssumption
     DEF Clear, TableTyped, OwnTids, Cleared, Counted, MirrorTrue, NoGaps,
         Empty, Zeroed, Tids

-----------------------------------------------------------------------------
(* The mapper.                                                             *)

\* Where the loop is, and what its locals hold there.
LoopInv ==
  /\ pc = "poll" => nt = 0 /\ i = 0
  /\ pc = "sleep" => i = nt
  /\ pc \in {"poll", "sleep"} => map = << >>
  /\ pc \in {"pin", "set"} => map \in [0 .. nt - 1 -> PUs]
  /\ pc = "set" => i < nt /\ oldmap[i] = map[i]
  /\ pc # "set" => target = Empty

\* It looks at cleared tables only, and has an entry in oldmap for every tid
\* that it has passed.
PassInv ==
  /\ nt > 0 => \A t \in Tids : mirror[t] # Zeroed
  /\ \A t \in 0 .. i - 1 : oldmap[t] # Unknown

\* In peace, oldmap knows nothing of tids that are not handed out, and the
\* truth about the threads that are not gone, but for the one about to be bound.
PeaceInv ==
  peace =>
    /\ departed = {}
    /\ \A t \in Tids : t >= num => oldmap[t] = Unknown
    /\ pc = "set" => target \in threads /\ tidOf[target] = i
    /\ \A p \in threads :
         \/ life[p] = "free"
         \/ oldmap[tidOf[p]] = Unknown
         \/ oldmap[tidOf[p]] = affinity[p]
         \/ pc = "set" /\ target = p

MInv == TInv /\ TypeOK /\ LoopInv /\ PassInv /\ PeaceInv

\* The invariant holds when the mapper starts.
LEMMA InitMInv == MapperInit => MInv
<1> SUFFICES ASSUME MapperInit PROVE MInv
  OBVIOUS
<1>1. TInv
  BY InitTInv
<1>2. threads = {}
  BY DEF MapperInit, Init, threads
<1>3. TypeOK
  BY MapperAssumption
     DEF MapperInit, Init, TypeOK, Tids, NoTid, Zeroed, Empty, Self, Anywhere,
         Unknown
<1>4. LoopInv /\ PassInv /\ PeaceInv
  BY <1>2 DEF MapperInit, LoopInv, PassInv, PeaceInv
<1> QED
  BY <1>1, <1>3, <1>4 DEF MInv

\* Forks, exits and releases of tasks disturb neither table nor loop; peace
\* ends when the pid of a thread that is gone goes to a new task.
LEMMA TasksMInv ==
  ASSUME MInv, NEW p \in Pids, Spawn(p) \/ Exit(p) \/ Reap(p)
  PROVE  MInv'
<1> USE DEF MInv
<1>1. UNCHANGED << tableVars, loopVars, departed >> /\ threads' = threads
  BY DEF Spawn, Exit, Reap, threads, tableVars
<1>2. TInv'
  BY <1>1
     DEF TInv, TableTyped, OwnTids, Cleared, Counted, MirrorTrue, NoGaps,
         active, tableVars
<1>3. TypeOK'
  <2>1. CASE Spawn(p)
    BY <1>1, <2>1 DEF Spawn, TypeOK, tableVars, loopVars, threads
  <2>2. CASE Exit(p)
    BY <1>1, <2>2 DEF Exit, TypeOK, tableVars, loopVars
  <2>3. CASE Reap(p)
    BY <1>1, <2>3 DEF Reap, TypeOK, tableVars, loopVars
  <2> QED
    BY <2>1, <2>2, <2>3
<1>4. LoopInv' /\ PassInv'
  BY <1>1 DEF LoopInv, PassInv, tableVars, loopVars
<1>5. PeaceInv'
  <2> SUFFICES ASSUME peace' PROVE PeaceInv!2'
    BY DEF PeaceInv
  <2>1. peace
    BY DEF Spawn, Exit, Reap
  <2>2. \A q \in threads :
          \/ life'[q] = "free"
          \/ life[q] # "free" /\ affinity'[q] = affinity[q]
    BY DEF Spawn, Exit, Reap, TypeOK, threads
  <2> QED
    BY <1>1, <2>1, <2>2 DEF PeaceInv, tableVars, loopVars
<1> QED
  BY <1>2, <1>3, <1>4, <1>5

\* A registration, after which the thread has a tid that oldmap knows nothing
\* of.
LEMMA EnterMInv ==
  ASSUME MInv, NEW p \in Pids, Enter(p)
  PROVE  MInv'
<1> USE DEF MInv
<1>1. TInv' /\ threads' = threads \cup {p} /\ tidOf'[p] = num /\ num \in Tids
  BY RegisterTInv DEF Enter
<1>2. TypeOK'
  BY <1>1 DEF Enter, Register, TypeOK, TInv, TableTyped, loopVars
<1>3. LoopInv' /\ PassInv'
  BY DEF Enter, Register, LoopInv, PassInv, loopVars
<1>4. PeaceInv'
  <2> SUFFICES ASSUME peace' PROVE PeaceInv!2'
    BY DEF PeaceInv
  <2>1. peace
    BY DEF Enter
  <2>2. \A q \in threads : tidOf'[q] = tidOf[q] /\ q # p
    BY DEF Enter, Register, TInv, TableTyped, threads
  <2>3. oldmap[num] = Unknown
    BY <1>1, <2>1 DEF PeaceInv, TypeOK
  <2> QED
    BY <1>1, <2>1, <2>2, <2>3
       DEF PeaceInv, Enter, Register, loopVars, TypeOK, Tids
<1> QED
  BY <1>1, <1>2, <1>3, <1>4

\* The mirror entry of a new thread.
LEMMA MirroredMInv ==
  ASSUME MInv, NEW p \in Pids, Mirrored(p)
  PROVE  MInv'
<1> USE DEF MInv
<1>1. TInv' /\ threads' = threads
  BY StoreMirrorTInv DEF Mirrored
<1>2. TypeOK'
  BY <1>1 DEF Mirrored, StoreMirror, TypeOK, TInv, TableTyped, loopVars
<1>3. LoopInv' /\ PeaceInv'
  BY <1>1 DEF Mirrored, StoreMirror, LoopInv, PeaceInv, loopVars
<1>4. PassInv'
  BY MapperAssumption
     DEF Mirrored, StoreMirror, PassInv, loopVars, TypeOK, Zeroed
<1> QED
  BY <1>1, <1>2, <1>3, <1>4

\* An exit, which ends the peace.
LEMMA LeaveMInv ==
  ASSUME MInv, NEW p \in Pids, Leave(p)
  PROVE  MInv'
<1> USE DEF MInv
<1>1. TInv'
  BY DeleteTInv DEF Leave
<1> QED
  BY <1>1
     DEF Leave, Delete, TypeOK, TInv, TableTyped, loopVars, LoopInv, PassInv,
         PeaceInv

\* A clear, after which there is peace if oldmap has been reset.
LEMMA FirstProcessMInv ==
  ASSUME MInv, FirstProcess
  PROVE  MInv'
<1> USE DEF MInv
<1>1. TInv' /\ threads' = {} /\ threads = {}
  BY ClearTInv DEF FirstProcess
<1>2. TypeOK'
  BY <1>1 DEF FirstProcess, Clear, TypeOK, TInv, TableTyped, loopVars
<1>3. LoopInv' /\ PassInv'
  BY DEF FirstProcess, Clear, LoopInv, PassInv, loopVars, Empty, Zeroed
<1>4. PeaceInv'
  <2> SUFFICES ASSUME peace' PROVE PeaceInv!2'
    BY DEF PeaceInv
  <2>1. \A t \in Tids : oldmap'[t] = Unknown
    BY DEF FirstProcess, forgotten, loopVars
  <2>2. pc # "set"
    BY <2>1, MapperAssumption
       DEF LoopInv, TypeOK, FirstProcess, loopVars, Unknown, Tids
  <2> QED
    BY <1>1, <2>1, <2>2 DEF FirstProcess, loopVars
<1> QED
  BY <1>1, <1>2, <1>3, <1>4

\* The steps of the loop leave the threads alone.
LEMMA LoopTInv ==
  ASSUME MInv, Loop
  PROVE  /\ TInv' /\ threads' = threads /\ active' = active
         /\ UNCHANGED << tableVars, departed, life >>
<1>1. UNCHANGED << tableVars, departed, life >>
  BY DEF Loop, Poll, TooFew, Pin, AlreadyThere, SetAffinity, PassDone, Sleep
<1>2. threads' = threads /\ active' = active
  BY <1>1 DEF threads, active, tableVars
<1> QED
  BY <1>1, <1>2
     DEF MInv, TInv, TableTyped, OwnTids, Cleared, Counted, MirrorTrue,
         NoGaps, tableVars

\* The two outcomes of the poll.
LEMMA PollMInv ==
  ASSUME MInv, Poll \/ TooFew
  PROVE  MInv'
<1> USE DEF MInv
<1>1. /\ TInv' /\ threads' = threads /\ active' = active
      /\ UNCHANGED << tableVars, departed, life >>
  BY LoopTInv DEF Loop
<1>2. active \in 0 .. max_threads
  <2>1. Cardinality(threads) \in Nat
    BY FS_CardinalityType DEF TInv, Counted
  <2>2. num \in 0 .. max_threads
    BY DEF TInv, TableTyped
  <2> QED
    BY <2>1, <2>2, MapperAssumption DEF active, TInv, Counted
<1>3. CASE Poll
  <2>1. TypeOK'
    BY <1>1, <1>2, <1>3, MapperAssumption DEF Poll, TypeOK, tableVars
  <2>2. LoopInv'
    BY <1>3 DEF Poll, LoopInv
  <2>3. PassInv'
    <3>1. num > 0
      BY <1>2, <1>3, MapperAssumption DEF Poll, TInv, Counted, TableTyped
    <3> QED
      BY <1>1, <1>3, <3>1, MapperAssumption
         DEF Poll, PassInv, TInv, Cleared, tableVars
  <2>4. PeaceInv'
    BY <1>1, <1>3 DEF Poll, PeaceInv, tableVars
  <2> QED
    BY <1>1, <2>1, <2>2, <2>3, <2>4
<1>4. CASE TooFew
  <2>1. TypeOK'
    BY <1>1, <1>4 DEF TooFew, TypeOK, tableVars, forgotten
  <2>2. LoopInv' /\ PassInv'
    BY <1>1, <1>4 DEF TooFew, LoopInv, PassInv, tableVars
  <2>3. PeaceInv'
    BY <1>1, <1>4
       DEF TooFew, PeaceInv, tableVars, forgotten, TInv, TableTyped, threads,
           NoTid
  <2> QED
    BY <1>1, <2>1, <2>2, <2>3
<1> QED
  BY <1>3, <1>4

\* A thread is looked up to be bound.  In peace the tid it is looked up with
\* is its own.
LEMMA PinMInv ==
  ASSUME MInv, Pin
  PROVE  MInv'
<1> USE DEF MInv
<1>1. /\ TInv' /\ threads' = threads /\ active' = active
      /\ UNCHANGED << tableVars, departed, life >>
  BY LoopTInv DEF Loop
<1>2. i \in Tids /\ i \in 0 .. nt - 1 /\ map[i] \in PUs
  <2>1. i \in Nat /\ nt \in Nat /\ nt <= max_threads /\ i < nt
    BY MapperAssumption DEF Pin, TypeOK
  <2>2. i \in Tids /\ i \in 0 .. nt - 1
    BY <2>1, MapperAssumption DEF Tids
  <2>3. map \in [0 .. nt - 1 -> PUs]
    BY DEF Pin, LoopInv
  <2> QED
    BY <2>2, <2>3
<1>3. TypeOK'
  BY <1>1, <1>2 DEF Pin, TypeOK, tableVars, PassInv, Zeroed, Self
<1>4. LoopInv'
  BY <1>2 DEF Pin, LoopInv, TypeOK
<1>5. PassInv'
  BY <1>1, <1>2, MapperAssumption
     DEF Pin, PassInv, TypeOK, tableVars, Unknown
<1>6. PeaceInv'
  <2> SUFFICES ASSUME peace' PROVE PeaceInv!2'
    BY DEF PeaceInv
  <2>1. peace /\ mirror[i] \in threads
    BY DEF Pin
  <2>2. mirror[i] \in Pids /\ departed = {}
    BY <2>1 DEF threads, PeaceInv
  <2>3. i < num /\ tidOf[mirror[i]] = i
    BY <1>2, <2>2 DEF TInv, MirrorTrue
  <2>4. \A p \in threads : p # mirror[i] => tidOf[p] # i
    BY <2>1, <2>3 DEF TInv, OwnTids
  <2>5. \A p \in threads : p # mirror[i] => oldmap'[tidOf[p]] = oldmap[tidOf[p]]
    BY <2>4 DEF Pin, TypeOK, threads, NoTid
  <2> QED
    BY <1>1, <1>2, <2>1, <2>2, <2>3, <2>5
       DEF Pin, PeaceInv, TypeOK, tableVars, Tids
<1> QED
  BY <1>1, <1>3, <1>4, <1>5, <1>6

\* The call, which binds the thread where oldmap says.
LEMMA SetAffinityMInv ==
  ASSUME MInv, SetAffinity
  PROVE  MInv'
<1> USE DEF MInv
<1>1. /\ TInv' /\ threads' = threads /\ active' = active
      /\ UNCHANGED << tableVars, departed, life >>
  BY LoopTInv DEF Loop
<1>2. i \in 0 .. nt - 1 /\ map[i] \in PUs /\ oldmap[i] = map[i]
  BY DEF SetAffinity, TypeOK, LoopInv
<1>3. TypeOK'
  BY <1>1, <1>2 DEF SetAffinity, TypeOK, tableVars, known
<1>4. LoopInv'
  BY DEF SetAffinity, LoopInv
<1>5. PassInv'
  BY <1>1, <1>2, MapperAssumption
     DEF SetAffinity, PassInv, TypeOK, tableVars, Unknown
<1>6. PeaceInv'
  <2> SUFFICES ASSUME peace PROVE PeaceInv!2'
    BY DEF PeaceInv, SetAffinity
  <2>1. target \in threads /\ target \in Pids /\ tidOf[target] = i
    BY DEF PeaceInv, SetAffinity, threads
  <2>2. life[target] # "free" => affinity'[target] = oldmap[tidOf[target]]
    BY <1>2, <2>1 DEF SetAffinity, TypeOK, known
  <2>3. \A p \in threads : p # target => affinity'[p] = affinity[p]
    BY DEF SetAffinity, TypeOK, threads
  <2> QED
    BY <1>1, <2>2, <2>3 DEF SetAffinity, PeaceInv, tableVars
<1> QED
  BY <1>1, <1>3, <1>4, <1>5, <1>6

\* The steps of the loop that bind no one.
LEMMA OnMInv ==
  ASSUME MInv, AlreadyThere \/ PassDone \/ Sleep
  PROVE  MInv'
<1> USE DEF MInv
<1>1. /\ TInv' /\ threads' = threads /\ active' = active
      /\ UNCHANGED << tableVars, departed, life >>
  BY LoopTInv DEF Loop
<1>2. TypeOK'
  BY <1>1, MapperAssumption
     DEF AlreadyThere, PassDone, Sleep, TypeOK, tableVars, LoopInv
<1>3. LoopInv'
  BY DEF AlreadyThere, PassDone, Sleep, LoopInv, TypeOK
<1>4. PassInv'
  <2>1. CASE AlreadyThere
    <3>1. i \in 0 .. nt - 1 /\ map[i] \in PUs
      BY <2>1 DEF AlreadyThere, TypeOK, LoopInv
    <3> QED
      BY <1>1, <2>1, <3>1, MapperAssumption
         DEF AlreadyThere, PassInv, TypeOK, tableVars, Unknown
  <2>2. CASE PassDone \/ Sleep
    BY <1>1, <2>2 DEF PassDone, Sleep, PassInv, tableVars
  <2> QED
    BY <2>1, <2>2
<1>5. PeaceInv'
  BY <1>1 DEF AlreadyThere, PassDone, Sleep, PeaceInv, tableVars
<1> QED
  BY <1>1, <1>2, <1>3, <1>4, <1>5

\* Every step of threads and mapper keeps the invariant.
LEMMA MapperInvariant == MapperSpec => []MInv
<1>1. MInv /\ [MapperNext]_vars => MInv'
  <2> SUFFICES ASSUME MInv, [MapperNext]_vars PROVE MInv'
    OBVIOUS
  <2>1. CASE Threads
    BY <2>1, TasksMInv, EnterMInv, MirroredMInv, LeaveMInv, FirstProcessMInv
       DEF Threads
  <2>2. CASE Loop
    BY <2>2, PollMInv, PinMInv, SetAffinityMInv, OnMInv DEF Loop
  <2>3. CASE UNCHANGED vars
    <3>1. threads' = threads /\ active' = active
      BY <2>3 DEF vars, tableVars, threads, active
    <3> QED
      BY <2>3, <3>1
         DEF vars, loopVars, tableVars, MInv, TInv, TableTyped, OwnTids,
             Cleared, Counted, MirrorTrue, NoGaps, TypeOK, LoopInv, PassInv,
             PeaceInv
  <2> QED
    BY <2>1, <2>2, <2>3 DEF MapperNext
<1> QED
  BY InitMInv, <1>1, PTL DEF MapperSpec

-----------------------------------------------------------------------------
(* The results. *)

\* Type correctness: among others, the number of threads never exceeds the
\* tids, so that map and oldmap are indexed within their bounds, and the pid
\* that spcd_set_affinity reads is a thread's, -1 or 0.
THEOREM TypeCorrect == MapperSpec => []TypeOK
BY MapperInvariant, PTL DEF MInv

\* As long as no thread of the application has left, the tids below the number
\* of active threads, which mapper and page walker take for those of the
\* threads, are.
THEOREM LowTidsActive == MapperSpec => []ActiveAreLowTids
<1>1. MInv => ActiveAreLowTids
  <2> SUFFICES ASSUME MInv, departed = {}
               PROVE  {tidOf[p] : p \in threads} = 0 .. active - 1
    BY DEF ActiveAreLowTids
  <2>1. active = num /\ \A t \in 0 .. num - 1 : \E p \in threads : tidOf[p] = t
    BY DEF MInv, TInv, NoGaps
  <2>2. \A p \in threads : tidOf[p] \in 0 .. num - 1
    BY DEF MInv, TInv, TableTyped, OwnTids, threads, Tids, NoTid
  <2> QED
    BY <2>1, <2>2
<1> QED
  BY <1>1, MapperInvariant, PTL

\* After a pass every thread that it counted and that is not gone runs where
\* oldmap says, whatever came during the pass and whoever was registered after
\* its exit, if since oldmap was last reset no thread left, none was met half
\* registered and no registered pid went to a new task.
THEOREM BoundAfterPass == MapperSpec => []BoundInPeace
<1>1. MInv => BoundInPeace
  <2> SUFFICES ASSUME MInv, pc = "sleep", peace, NEW p \in threads, tidOf[p] < nt,
                      life[p] # "free"
               PROVE  affinity[p] = oldmap[tidOf[p]]
    BY DEF BoundInPeace, bound
  <2>1. tidOf[p] \in 0 .. i - 1
    BY DEF MInv, LoopInv, TypeOK, threads, Tids, NoTid
  <2>2. oldmap[tidOf[p]] # Unknown
    BY <2>1 DEF MInv, PassInv
  <2> QED
    BY <2>2 DEF MInv, PeaceInv
<1> QED
  BY <1>1, MapperInvariant, PTL

\* The mapper never binds itself, which is what the zeroed mirror would make
\* it do, nor a thread of an earlier application.
THEOREM NobodyElseBound == MapperSpec => OnlyThreadsBound
<1>1. MInv /\ [MapperNext]_vars
        => [pc = "pin" /\ target' # Empty => target' \in threads \cup departed]_vars
  <2> SUFFICES ASSUME MInv, MapperNext, pc = "pin", target' # Empty
               PROVE  target' \in threads \cup departed
    OBVIOUS
  <2>1. target = Empty
    BY DEF MInv, LoopInv
  <2>2. Pin
    BY <2>1
       DEF MapperNext, Threads, Spawn, Enter, Mirrored, Leave, Exit, Reap,
           FirstProcess, loopVars, Loop, Poll, TooFew, AlreadyThere,
           SetAffinity, PassDone, Sleep
  <2>3. i \in Tids /\ nt > 0
    <3>1. i \in Nat /\ nt \in Nat /\ nt <= max_threads /\ i < nt
      BY <2>2, MapperAssumption DEF Pin, MInv, TypeOK
    <3> QED
      BY <3>1, MapperAssumption DEF Tids
  <2>4. target' \in Pids /\ target' = mirror[i]
    BY <2>2, <2>3 DEF Pin, MInv, TypeOK, PassInv
  <2> QED
    BY <2>3, <2>4 DEF MInv, TInv, MirrorTrue
<1> QED
  BY <1>1, MapperInvariant, PTL DEF MapperSpec, OnlyThreadsBound

=============================================================================
