------------------------------- MODULE Mapper -------------------------------
(***************************************************************************)
(* The loop of the mapper thread (src/map.c) beside the threads that it    *)
(* pins: it polls the number of active threads, asks for a mapping if they *)
(* are enough, and sets the affinity of every thread whose processor is    *)
(* not the one that oldmap remembers; it forgets oldmap when they are too  *)
(* few.                                                                    *)
(*                                                                         *)
(* The threads are those of ThreadTable: they come and go between any two  *)
(* steps of the loop.  The mapping is any function of the tids, of which   *)
(* GreedyMap.tla says more.  sched_setaffinity is the kernel's: it fails   *)
(* for a pid that does not exist and takes 0 for its caller.               *)
(***************************************************************************)
EXTENDS ThreadTable

CONSTANTS
  PUs,         \* the processors a mapping uses
  MinThreads   \* 4 in the code

ASSUME MapperAssumption ==
  /\ MinThreads \in Nat \ {0} /\ PUs \subseteq Nat
  /\ Pids \subseteq Nat \ {0} /\ max_threads \in Nat \ {0}

VARIABLES
  life,        \* pid -> "free", "alive" or "exiting" (PF_EXITING)
  affinity,    \* pid -> the processor it is bound to, or Anywhere;
               \*   0 is the mapper's own
  pc, nt, i,   \* the loop and its locals
  map,         \* the mapping made in this pass
  oldmap,      \* tid -> the processor of the last call
  target,      \* the pid that spcd_set_affinity read
  peace,       \* history: since oldmap was all reset no thread left, none was
               \*   met half registered, and no new task got the pid of one
               \*   that was registered after its exit
  departed     \* history: threads that left since the last clear

loopVars == << pc, nt, i, map, oldmap, target >>
vars == << tableVars, life, affinity, loopVars, peace, departed >>

Self == 0
Anywhere == -1
Unknown == -1

forgotten == [t \in Tids |-> Unknown]

TypeOK ==
  /\ tidOf \in [Pids -> Tids \cup {NoTid}]
  /\ mirror \in [Tids -> Pids \cup {Zeroed, Empty}]
  /\ num \in 0 .. max_threads
  /\ life \in [Pids -> {"free", "alive", "exiting"}]
  /\ affinity \in [Pids \cup {Self} -> PUs \cup {Anywhere}]
  /\ pc \in {"poll", "pin", "set", "sleep"}
  /\ nt \in 0 .. max_threads /\ i \in 0 .. nt
  /\ map \in [0 .. nt - 1 -> PUs] \cup {<< >>}
  /\ oldmap \in [Tids -> PUs \cup {0, Unknown}]
  /\ target \in Pids \cup {Self, Empty}

\* oldmap is static data, zero until it is reset for the first time.
MapperInit ==
  /\ Init
  /\ life = [p \in Pids |-> "free"]
  /\ affinity = [p \in Pids \cup {Self} |-> Anywhere]
  /\ pc = "poll" /\ nt = 0 /\ i = 0
  /\ map = << >>
  /\ oldmap = [t \in Tids |-> 0]
  /\ target = Empty
  /\ peace = FALSE
  /\ departed = {}

-----------------------------------------------------------------------------
(* The threads *)

\* A new task inherits the affinity of the one that forked it.  If its pid is
\* registered, it is taken for the thread that had it.
Spawn(p) ==
  /\ life[p] = "free"
  /\ life' = [life EXCEPT ![p] = "alive"]
  /\ \E a \in {Anywhere} \cup {affinity[q] : q \in threads} :
       affinity' = [affinity EXCEPT ![p] = a]
  /\ peace' = (peace /\ p \notin threads)
  /\ UNCHANGED << tableVars, loopVars, departed >>

\* p may have exited, and be gone, before the fork that registers it returns.
Enter(p) ==
  /\ Register(p)
  /\ UNCHANGED << life, affinity, loopVars, peace, departed >>

Mirrored(p) ==
  /\ StoreMirror(p)
  /\ UNCHANGED << life, affinity, loopVars, peace, departed >>

\* The exit of a thread.  One that was registered after its exit leaves with
\* the next tick that meets it, if there is one.
Leave(p) ==
  /\ life[p] # "free"
  /\ Delete(p)
  /\ life' = [life EXCEPT ![p] = "exiting"]
  /\ peace' = FALSE
  /\ departed' = departed \cup {p}
  /\ UNCHANGED << affinity, loopVars >>

\* The exit of a task that is not registered, or not yet.
Exit(p) ==
  /\ life[p] = "alive" /\ p \notin threads
  /\ life' = [life EXCEPT ![p] = "exiting"]
  /\ UNCHANGED << affinity, tableVars, loopVars, peace, departed >>

\* release_task
Reap(p) ==
  /\ life[p] = "exiting"
  /\ life' = [life EXCEPT ![p] = "free"]
  /\ affinity' = [affinity EXCEPT ![p] = Anywhere]
  /\ UNCHANGED << tableVars, loopVars, peace, departed >>

FirstProcess ==
  /\ Clear
  /\ departed' = {}
  /\ peace' = (oldmap = forgotten)
  /\ UNCHANGED << life, affinity, loopVars >>

Threads ==
  \/ \E p \in Pids :
       Spawn(p) \/ Enter(p) \/ Mirrored(p) \/ Leave(p) \/ Exit(p) \/ Reap(p)
  \/ FirstProcess

-----------------------------------------------------------------------------
(* spcd_map_func.  The number of threads is read once in a pass. *)

\* Faulty variant: the loop starts at 1.
PollFromOne ==
  /\ pc = "poll" /\ active >= MinThreads
  /\ nt' = active
  /\ map' \in [0 .. nt' - 1 -> PUs]
  /\ i' = 1 /\ pc' = "pin"
  /\ UNCHANGED << tableVars, life, affinity, oldmap, target, peace, departed >>

Poll ==
  /\ pc = "poll" /\ active >= MinThreads
  /\ nt' = active
  /\ map' \in [0 .. nt' - 1 -> PUs]
  /\ i' = 0 /\ pc' = "pin"
  /\ UNCHANGED << tableVars, life, affinity, oldmap, target, peace, departed >>

\* Faulty variant: oldmap survives.
TooFewForgotten ==
  /\ pc = "poll" /\ active < MinThreads
  /\ pc' = "sleep"
  /\ peace' = (departed = {})
  /\ UNCHANGED << tableVars, life, affinity, nt, i, map, oldmap, target,
                  departed >>

TooFew ==
  /\ pc = "poll" /\ active < MinThreads
  /\ oldmap' = forgotten
  /\ pc' = "sleep"
  /\ peace' = (departed = {})
  /\ UNCHANGED << tableVars, life, affinity, nt, i, map, target, departed >>

\* Up to the read of the pid in spcd_set_affinity.
Pin ==
  /\ pc = "pin" /\ i < nt /\ oldmap[i] # map[i]
  /\ oldmap' = [oldmap EXCEPT ![i] = map[i]]
  /\ target' = mirror[i]
  /\ pc' = "set"
  /\ peace' = (peace /\ mirror[i] \in threads)
  /\ UNCHANGED << tableVars, life, affinity, nt, i, map, departed >>

AlreadyThere ==
  /\ pc = "pin" /\ i < nt /\ oldmap[i] = map[i]
  /\ i' = i + 1
  /\ UNCHANGED << tableVars, life, affinity, pc, nt, map, oldmap, target,
                  peace, departed >>

\* sched_setaffinity knows the pid.
known(p) == p = Self \/ (p \in Pids /\ life[p] # "free")

\* The call, whose failure is printed and ignored.
SetAffinity ==
  /\ pc = "set"
  /\ affinity' = IF known(target) THEN [affinity EXCEPT ![target] = map[i]]
                                  ELSE affinity
  /\ target' = Empty
  /\ i' = i + 1 /\ pc' = "pin"
  /\ UNCHANGED << tableVars, life, nt, map, oldmap, peace, departed >>

\* The mapping is made anew in the next pass.
PassDone ==
  /\ pc = "pin" /\ i = nt
  /\ pc' = "sleep"
  /\ map' = << >>
  /\ UNCHANGED << tableVars, life, affinity, nt, i, oldmap, target, peace,
                  departed >>

Sleep ==
  /\ pc = "sleep"
  /\ pc' = "poll" /\ nt' = 0 /\ i' = 0
  /\ UNCHANGED << tableVars, life, affinity, map, oldmap, target, peace,
                  departed >>

Loop ==
  Poll \/ TooFew \/ Pin \/ AlreadyThere \/ SetAffinity \/ PassDone \/ Sleep

MapperNext == Threads \/ Loop

MapperSpec == MapperInit /\ [][MapperNext]_vars

\* The thread wakes from each msleep_interruptible and waits for nothing else.
FairMapperSpec == MapperSpec /\ WF_vars(Loop)

-----------------------------------------------------------------------------
(* Properties *)

\* As long as no thread of the application has left, the tids of its threads
\* are 0 to active - 1: the ones the mapper (map.c:48) and the page walker
\* take for them.
ActiveAreLowTids ==
  departed = {} => {tidOf[p] : p \in threads} = 0 .. active - 1

\* The processor a thread was last bound to, as far as oldmap knows.
bound(p) == tidOf[p] < nt /\ affinity[p] = oldmap[tidOf[p]]

\* After a pass every thread that was counted and is not gone runs where the
\* mapping says, if since oldmap was reset (map.c:60) no thread of the
\* application has left, none was met half registered, and no new task got the
\* pid of one registered after its exit (probes.c:219): only then does oldmap
\* tell the truth about the threads that have the tids now.
BoundInPeace ==
  pc = "sleep" /\ nt > 0 /\ peace =>
    \A p \in threads : tidOf[p] < nt /\ life[p] # "free" => bound(p)

\* The mapper binds no one but threads of the application, present or past:
\* the pid it reads is never its own (0, which the mirror holds until its
\* first clear) and never one of an earlier application.
OnlyThreadsBound ==
  [][pc = "pin" /\ target' # Empty => target' \in threads \cup departed]_vars

\* Threads that stay are bound in the end, whatever processors they inherited
\* and whoever was registered after its exit beside them, unless the peace ends.
EventuallyBound ==
  \A p \in Pids :
    (peace /\ p \in threads /\ life[p] = "alive" /\ active >= MinThreads)
      ~> (~peace \/ affinity[p] # Anywhere)

=============================================================================
