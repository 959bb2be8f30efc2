-------------------------- MODULE LifecycleProofs --------------------------
(***************************************************************************)
(* Proofs about ModuleLifecycle.  It has no constants, but its handlers    *)
(* and threads run in any order: the invariant ties each resource, probe,  *)
(* file and thread to the steps of init_module and cleanup_module between  *)
(* which it may exist.                                                     *)
(***************************************************************************)
EXTENDS ModuleLifecycle, TLAPS

\* The step that follows each step.
LEMMA Steps ==
  /\ Past("absent") => stage = "absent" /\ stage' = "reset_stats"
  /\ Past("reset_stats") => stage = "reset_stats" /\ stage' = "spcd_probes_init"
  /\ Past("spcd_probes_init")
       => stage = "spcd_probes_init" /\ stage' = "spcd_proc_init"
  /\ Past("spcd_proc_init") => stage = "spcd_proc_init" /\ stage' = "pf_thread"
  /\ Past("pf_thread") => stage = "pf_thread" /\ stage' = "topo_init"
  /\ Past("topo_init") => stage = "topo_init" /\ stage' = "map_thread"
  /\ Past("map_thread") => stage = "map_thread" /\ stage' = "loaded"
  /\ Past("loaded") => stage = "loaded" /\ stage' = "stop_walker"
  /\ Past("stop_walker") => stage = "stop_walker" /\ stage' = "stop_mapper"
  /\ Past("stop_mapper") => stage = "stop_mapper" /\ stage' = "free_matrix"
  /\ Past("free_matrix") => stage = "free_matrix" /\ stage' = "spcd_proc_cleanup"
  /\ Past("spcd_proc_cleanup")
       => stage = "spcd_proc_cleanup" /\ stage' = "spcd_probes_cleanup"
  /\ Past("spcd_probes_cleanup")
       => stage = "spcd_probes_cleanup" /\ stage' = "spcd_mem_cleanup"
  /\ Past("spcd_mem_cleanup") => stage = "spcd_mem_cleanup" /\ stage' = "absent"
BY DEF Past, Sequence

-----------------------------------------------------------------------------
(* The inductive invariant. *)

\* The mapper's loop may run.
mapperRuns == {"loaded", "stop_walker", "stop_mapper"}

\* The stages, each the step that comes next, in which a file may be open,
\* a probe be registered, and each thread and resource exist.
filesStages ==
  {"pf_thread", "topo_init", "map_thread", "loaded", "stop_walker",
   "stop_mapper", "free_matrix", "spcd_proc_cleanup"}

probesStages == filesStages \cup {"spcd_proc_init", "spcd_probes_cleanup"}

walkerStages == (filesStages \ {"pf_thread"}) \cup
                {"spcd_probes_cleanup", "spcd_mem_cleanup"}

tableStages == probesStages \cup {"spcd_probes_init", "spcd_mem_cleanup"}

topoStages == walkerStages \ {"topo_init"}

mapperStages == topoStages \ {"map_thread"}

TypeInv ==
  /\ mem \in {"none", "there"} /\ proc \in {"none", "there"}
  /\ matrix \in {"none", "there", "freed"}
  /\ walker \in {"none", "asleep", "busy", "gone"}
  /\ mapper \in {"none", "asleep", "busy", "gone"}
  /\ probes \in BOOLEAN /\ files \in BOOLEAN /\ app \in BOOLEAN
  /\ opened \in BOOLEAN /\ handlers \subseteq Handlers

\* Each thing exists between the steps that make it and that unmake it, and
\* whoever runs does so while its probe, file or thread exists.
Lifetimes ==
  /\ stage \in tableStages => mem = "there" /\ proc = "there"
  /\ probes => stage \in probesStages
  /\ files => stage \in filesStages
  /\ stage \in topoStages => topo = "there"
  /\ walker # "none" => stage \in walkerStages
  /\ mapper # "none" => stage \in mapperStages
  /\ mapper \in {"asleep", "busy"} => stage \in mapperRuns
  /\ handlers \cap ProbeHandlers # {} \/ app => probes
  /\ handlers \cap FileHandlers # {} => files

\* The matrix is allocated with the first clear of the table, before which no
\* pid is registered, and freed when the mapper is gone.
MatrixLife ==
  /\ matrix = "freed" =>
       stage \in {"spcd_proc_cleanup", "spcd_probes_cleanup", "spcd_mem_cleanup"}
  /\ opened => matrix # "none"
  /\ app \/ mapper = "busy" => opened
  /\ handlers # {} => matrix # "none"

LInv == TypeInv /\ Lifetimes /\ MatrixLife

USE DEF filesStages, probesStages, walkerStages, tableStages, topoStages,
        mapperStages, mapperRuns, ProbeHandlers, FileHandlers, Handlers

\* The invariant holds before the module is loaded.
LEMMA InitLInv == Init => LInv
BY DEF Init, LInv, TypeInv, Lifetimes, MatrixLife

\* Every step of init_module and cleanup_module keeps it.
LEMMA ModuleLInv ==
  ASSUME LInv, Module
  PROVE  LInv'
<1> USE Steps DEF LInv, TypeInv, Lifetimes, MatrixLife, resources, threads, use
<1>1. CASE insmod
  BY <1>1 DEF insmod
<1>2. CASE reset_stats
  BY <1>2 DEF reset_stats, allocated
<1>3. CASE init_entries
  <2>1. CASE Past("spcd_probes_init") /\ probes' = TRUE /\ UNCHANGED files
    BY <1>3, <2>1 DEF init_entries
  <2>2. CASE Past("spcd_proc_init") /\ files' = TRUE /\ UNCHANGED probes
    BY <1>3, <2>2 DEF init_entries
  <2> QED
    BY <1>3, <2>1, <2>2 DEF init_entries
<1>4. CASE topo_init
  BY <1>4 DEF topo_init
<1>5. CASE create_threads
  BY <1>5 DEF create_threads, created
<1>6. CASE rmmod
  BY <1>6 DEF rmmod
<1>7. CASE stop_threads
  BY <1>7 DEF stop_threads
<1>8. CASE free_matrix
  BY <1>8 DEF free_matrix, free
<1>9. CASE spcd_proc_cleanup
  BY <1>9 DEF spcd_proc_cleanup
<1>10. CASE spcd_probes_cleanup
  BY <1>10 DEF spcd_probes_cleanup
<1>11. CASE spcd_mem_cleanup
  BY <1>11 DEF spcd_mem_cleanup
<1> QED
  BY <1>1, <1>2, <1>3, <1>4, <1>5, <1>6, <1>7, <1>8, <1>9, <1>10, <1>11
     DEF Module

\* So does every step of a handler or a thread beside them.
LEMMA UseLInv ==
  ASSUME LInv, Next, ~Module
  PROVE  LInv'
<1> USE DEF LInv, TypeInv, Lifetimes, MatrixLife, resources, threads, use,
            others, Enter, armed
<1>1. CASE Start
  BY <1>1, ZenonT(60) DEF Start, allocated
<1>2. CASE StartByFork
  BY <1>2 DEF StartByFork
<1>3. CASE Fault
  BY <1>3 DEF Fault
<1>4. CASE Stop
  BY <1>4, ZenonT(60) DEF Stop, allocated
<1>5. CASE OpenFile
  BY <1>5, ZenonT(60) DEF OpenFile
<1>6. ASSUME NEW h \in Handlers, Leave(h) PROVE LInv'
  BY <1>6 DEF Leave
<1>7. CASE Walk
  BY <1>7 DEF Walk, pass
<1>8. CASE Map
  BY <1>8 DEF Map, pass
<1> QED
  BY <1>1, <1>2, <1>3, <1>4, <1>5, <1>6, <1>7, <1>8 DEF Next

\* In whatever order handlers, readers and threads run beside loading and
\* unloading, page table, cursor and topology are there when used, no
\* handler or reader runs before the matrix is allocated, and the mapper does not
\* run after it is freed.  Handlers and readers may: nothing is said of that.
THEOREM ResourcesAlwaysThere == Spec => []ResourcesThere
<1>1. LInv /\ [Next]_vars => LInv'
  <2> SUFFICES ASSUME LInv, [Next]_vars PROVE LInv'
    OBVIOUS
  <2>1. CASE UNCHANGED vars
    BY <2>1 DEF vars, resources, threads, LInv, TypeInv, Lifetimes, MatrixLife
  <2> QED
    BY <2>1, ModuleLInv, UseLInv
<1>2. LInv => ResourcesThere
  BY DEF LInv, TypeInv, Lifetimes, MatrixLife, ResourcesThere
<1> QED
  BY InitLInv, <1>1, <1>2, PTL DEF Spec

=============================================================================
