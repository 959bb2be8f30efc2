-------------------------- MODULE ModuleLifecycle --------------------------
(***************************************************************************)
(* Loading and unloading the module (src/spcd_main.c): the resources that  *)
(* init_module provides and cleanup_module takes away, step by step, beside*)
(* the probes, the readers of procfs and the two threads that use them.    *)
(*                                                                         *)
(* A resource is "none", "there" or "freed", which its pointer does not    *)
(* tell from "there".  Unregistering a probe and removing a file wait for  *)
(* the handlers in progress, as the kernel does.  No allocation fails.     *)
(***************************************************************************)
EXTENDS Naturals, Sequences

VARIABLES
  stage,       \* the next step of init_module or cleanup_module
  do_pf, do_map,            \* the parameters of this load
  mem, proc, matrix, topo,  \* the resources
  probes, files,            \* registered?
  walker, mapper,           \* "none", "asleep", "busy" or "gone"
  handlers,    \* what is in progress: "start", "fault", "stop", "matrix", "reset"
  app,         \* an application has registered threads
  opened       \* spcd_pid_clear has run in this load: the zeroed table takes no pid

resources == << mem, proc, matrix, topo >>
threads == << walker, mapper >>
vars == << stage, do_pf, do_map, resources, probes, files, threads, handlers,
           app, opened >>

ProbeHandlers == {"start", "fault", "stop"}
FileHandlers == {"matrix", "reset"}
Handlers == ProbeHandlers \cup FileHandlers

Init ==
  /\ stage = "absent" /\ do_pf = FALSE /\ do_map = FALSE
  /\ mem = "none" /\ proc = "none" /\ matrix = "none" /\ topo = "none"
  /\ probes = FALSE /\ files = FALSE /\ walker = "none" /\ mapper = "none"
  /\ handlers = {} /\ app = FALSE /\ opened = FALSE

-----------------------------------------------------------------------------
(* init_module and cleanup_module *)

\* The statements of init_module, and after "loaded" those of cleanup_module.
Sequence ==
  << "absent",
     "reset_stats", "spcd_probes_init", "spcd_proc_init",
     "pf_thread", "topo_init", "map_thread",
     "loaded",
     "stop_walker", "stop_mapper", "free_matrix",
     "spcd_proc_cleanup", "spcd_probes_cleanup", "spcd_mem_cleanup" >>

\* Step s is over.
Past(s) ==
  \E n \in 1 .. Len(Sequence) :
    /\ Sequence[n] = s /\ stage = s
    /\ stage' = Sequence[(n % Len(Sequence)) + 1]

use == << handlers, app, opened >>

insmod ==
  /\ Past("absent")
  /\ do_pf' \in BOOLEAN /\ do_map' \in BOOLEAN
  /\ UNCHANGED << resources, probes, files, threads, use >>

allocated(r) == IF r = "none" THEN "there" ELSE r

reset_stats ==
  /\ Past("reset_stats") /\ mem' = allocated(mem) /\ proc' = allocated(proc)
  /\ UNCHANGED << do_pf, do_map, matrix, topo, probes, files, threads, use >>

init_entries ==
  /\ \/ Past("spcd_probes_init") /\ probes' = TRUE /\ UNCHANGED files
     \/ Past("spcd_proc_init") /\ files' = TRUE /\ UNCHANGED probes
  /\ UNCHANGED << do_pf, do_map, resources, threads, use >>

topo_init ==
  /\ Past("topo_init") /\ topo' = "there"
  /\ UNCHANGED << do_pf, do_map, mem, proc, matrix, probes, files, threads, use >>

created(wanted) == IF wanted THEN "asleep" ELSE "none"

create_threads ==
  /\ \/ Past("pf_thread") /\ walker' = created(do_pf) /\ UNCHANGED mapper
     \/ Past("map_thread") /\ mapper' = created(do_map) /\ UNCHANGED walker
  /\ UNCHANGED << do_pf, do_map, resources, probes, files, use >>

rmmod ==
  /\ Past("loaded")
  /\ UNCHANGED << do_pf, do_map, resources, probes, files, threads, use >>

\* kthread_stop waits for the thread.
stop_threads ==
  /\ \/ Past("stop_walker") /\ walker \in {"none", "gone"}
     \/ Past("stop_mapper") /\ mapper \in {"none", "gone"}
  /\ UNCHANGED << do_pf, do_map, resources, probes, files, threads, use >>

\* The pointers stay.
free(r) == IF r = "there" THEN "freed" ELSE r

free_matrix ==
  /\ Past("free_matrix") /\ matrix' = free(matrix)
  /\ UNCHANGED << do_pf, do_map, mem, proc, topo, probes, files, threads, use >>

spcd_proc_cleanup ==
  /\ Past("spcd_proc_cleanup") /\ handlers \cap FileHandlers = {}
  /\ files' = FALSE
  /\ UNCHANGED << do_pf, do_map, resources, probes, threads, use >>

\* Faulty variant: handlers in progress are not waited for.
spcd_probes_cleanup_unwaited ==
  /\ Past("spcd_probes_cleanup") /\ probes' = FALSE
  /\ UNCHANGED << do_pf, do_map, resources, files, threads, use >>

\* Without probes nothing is known of the application.
spcd_probes_cleanup ==
  /\ Past("spcd_probes_cleanup") /\ handlers \cap ProbeHandlers = {}
  /\ probes' = FALSE /\ app' = FALSE
  /\ UNCHANGED << do_pf, do_map, resources, files, threads, handlers, opened >>

\* The memory of the module goes with it, its static data too; proc leaks.
spcd_mem_cleanup ==
  /\ Past("spcd_mem_cleanup")
  /\ mem' = "none" /\ matrix' = "none" /\ topo' = "none" /\ proc' = "none"
  /\ walker' = "none" /\ mapper' = "none" /\ opened' = FALSE
  /\ UNCHANGED << do_pf, do_map, probes, files, handlers, app >>

Module ==
  \/ insmod \/ reset_stats \/ init_entries \/ topo_init \/ create_threads
  \/ rmmod \/ stop_threads \/ free_matrix \/ spcd_proc_cleanup
  \/ spcd_probes_cleanup \/ spcd_mem_cleanup

-----------------------------------------------------------------------------
(* Handlers and threads *)

Enter(h) == h \notin handlers /\ handlers' = handlers \cup {h}

\* A probe is disarmed before its handlers are waited for.
armed == probes /\ stage # "spcd_probes_cleanup"

others == << stage, do_pf, do_map, probes, files >>

\* The first process is registered, by process_handler, which clears the table
\* and calls spcd_comm_init before (in one step: see the README).
Start ==
  /\ armed /\ ~app /\ Enter("start")
  /\ opened' = TRUE /\ matrix' = allocated(matrix) /\ app' = TRUE
  /\ UNCHANGED << others, mem, proc, topo, threads >>

\* A process that has no registered thread forks: thread_handler registers the
\* child, in a table that an earlier application has opened (pid.c:42).
StartByFork ==
  /\ armed /\ ~app /\ opened
  /\ app' = TRUE
  /\ UNCHANGED << others, resources, threads, handlers, opened >>

\* A page fault, and the exit of the last thread, which prints the matrix and
\* resets the tables.
Fault ==
  /\ armed /\ app /\ Enter("fault")
  /\ UNCHANGED << others, resources, threads, app, opened >>

Stop ==
  /\ armed /\ app /\ Enter("stop")
  /\ app' = FALSE /\ mem' = allocated(mem)
  /\ UNCHANGED << others, proc, matrix, topo, threads, opened >>

\* matrix_read looks for tids handed out, which outlive the application, and
\* matrix_reset for the pointer.
OpenFile ==
  /\ files /\ stage # "spcd_proc_cleanup"
  /\ \/ opened /\ Enter("matrix")
     \/ matrix # "none" /\ Enter("reset")
  /\ UNCHANGED << others, resources, threads, app, opened >>

Leave(h) ==
  /\ h \in handlers /\ handlers' = handlers \ {h}
  /\ UNCHANGED << others, resources, threads, app, opened >>

\* Faulty variant: without threads the loop goes back to sleep at once.
passIdleFirst(t, stopping) ==
  IF t = "busy" \/ ~app THEN "asleep"
  ELSE IF stage = stopping THEN "gone" ELSE "busy"

\* A pass of a thread's loop: kthread_should_stop comes first, then the number
\* of threads.
pass(t, stopping) ==
  IF t = "busy" THEN "asleep"
  ELSE IF stage = stopping THEN "gone" ELSE IF app THEN "busy" ELSE "asleep"

Walk ==
  /\ walker \in {"asleep", "busy"} /\ walker' = pass(walker, "stop_walker")
  /\ UNCHANGED << others, resources, mapper, use >>

Map ==
  /\ mapper \in {"asleep", "busy"} /\ mapper' = pass(mapper, "stop_mapper")
  /\ UNCHANGED << others, resources, walker, use >>

Next ==
  \/ Module \/ Start \/ StartByFork \/ Fault \/ Stop \/ OpenFile
  \/ \E h \in Handlers : Leave(h)
  \/ Walk \/ Map

Spec == Init /\ [][Next]_vars

\* The module's functions, every handler and every thread run on.
FairSpec ==
  /\ Spec
  /\ WF_vars(Module) /\ WF_vars(Walk) /\ WF_vars(Map)
  /\ \A h \in Handlers : WF_vars(Leave(h))

-----------------------------------------------------------------------------
(* Properties *)

\* The page table, the walker's cursor and the topology are there for every probe
\* and thread that uses them, those that init_module started or cleanup_module
\* waits for included; the matrix is allocated before any handler or reader uses
\* it, and the mapper is gone before it is freed (spcd_main.c:86-89).  That the
\* handlers and readers, too, are gone before it is freed is not claimed, and not
\* so: cleanup_module removes their files and probes after (spcd_main.c:91-93).
ResourcesThere ==
  /\ handlers \cap {"fault", "stop"} # {} => mem = "there"
  /\ walker = "busy" \/ "stop" \in handlers => proc = "there"
  /\ mapper # "none" => topo = "there"
  /\ handlers # {} => matrix # "none"
  /\ mapper = "busy" => matrix = "there"

\* Unloading ends: both threads see that they are to stop, with an application
\* or without (pagefault.c:24, map.c:36), and the handlers leave.
UnloadEnds == stage = "stop_walker" ~> stage = "absent"

=============================================================================
