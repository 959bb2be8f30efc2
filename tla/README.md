# A TLA+ model of CDSM

CDSM (`../src`) is a Linux kernel module, SPCD in its own messages. It watches
the page faults of programs whose name ends with `.x`, counts which threads
touch the same pages, and pins the threads to processors so that those that
share memory run near each other. This directory models it in TLA+, checks
small instances of the model with TLC, and proves most of the safety properties for
all instances with TLAPS.

- `*.tla` without a prefix: the models. `MC*.tla`, `MC*.cfg`: their small
  instances for TLC. `*Proofs.tla`: theorems and their proofs.
- `PROJECT.json`: components, runs, mutants, the map from definitions to source
  lines, findings, hazards and theorems.

To repeat a run or a proof:

    tlc -workers 2 -config MCComm.cfg MCComm.tla
    tlapm CommProofs.tla

## 1. The system

| component | source | state | operations |
|---|---|---|---|
| thread table | `pid.c` | `spcd_pid` (hash of pid to [pid, tid]), `spcd_pid_reverse` (tid to [pid, tid]), two atomic counters | `spcd_add_pid`, `spcd_delete_pid`, `spcd_pid_clear`, getters |
| thread and fault probes | `probes.c` | `spcd_vma_shared_flag`, statistics | `process_handler`, `thread_handler`, `pte_fault_handler`, `reset_stats` |
| communication detection | `mem.c`, `comm.c`, `spcd.h` | page table `mem` (page, two sharers), triangular matrix, conflict counter | `spcd_get_mem_init`, `spcd_check_comm`, `spcd_mem_init`, `spcd_comm_init` |
| hardware detection | `topo.c` | `num_nodes`, `num_cpus`, `num_cores`, `num_threads`, `pu` | `topo_init` |
| hardware graph | `libmapping/graph.c`, `topology.c`, `lib.c` | vertices, edges, levels, distances | building, walking, `topology_analysis_`, `floyd_warshall` |
| greedy mapping | `libmapping/mapping-greedy.c` | groups of each level, two buffers of sums | `greedy_init`, `greedy_map` |
| mapper thread | `map.c` | `map`, `oldmap` | poll, map, `spcd_set_affinity` |
| page walker | `pagefault.c` | `proc[]` (cursor, vma), number of faults to make | walk a process, clear present bits |
| page table repair | `probes.c` | flag bits in page table entries | `fix_pte_real`, zap probes, page cache probe |
| files in procfs | `procfs.c` | none of its own | read matrix, raw matrix, number of threads; reset matrix, set shift and number of faults |
| module life cycle | `spcd_main.c` | parameters, threads | `init_module`, `cleanup_module` |
| matrix codec | `libspcd.c` | none | encode and decode (no caller) |

How they interact:

- Kernel probes (jprobes and a kretprobe) call the handlers in `probes.c` on
  every processor, in the context of the task that forked, faulted, was charged
  by the timer, called exec or exits. Interrupts are off while a handler runs.
- `process_handler` and `thread_handler` call the thread table;
  `pte_fault_handler` looks the faulting task up in it and passes the tid and
  the physical address to `spcd_check_comm`, which updates page table and
  matrix.
- The last exit of an application resets the page table
  (`reset_stats`); the first process of the next one clears the thread table
  and the matrix.
- The mapper thread polls the number of active threads, reads the matrix while
  faults go on counting in it, and pins thread `i` to `map[i]`, finding its pid
  through `spcd_pid_reverse`.
- The page walker clears the present bits of pages of the threads `0` to
  `active - 1` so that they fault again; the repair in `probes.c` sets them
  again on the fault, on a zap, or when a page leaves the page cache.
- procfs readers and writers run in user processes, beside all of this.

What is hard about it: **nothing takes a lock** except the clearing of the
matrix and the page table entries. Handlers of different processors interleave
at every access to the thread table, page table and matrix. A child runs, may
fault and even exit before `do_fork` returns in its parent, whose handler
registers it. Pids are reused, tids are not, and the mirror keeps the entries of
the dead. Values are read (the number of active threads, a tid, a vma) and used
later. Tables zeroed by the loader mean something else than tables that were
cleared. And the mapping works for every shape of machine and number of
threads, with leftovers at every level.

What makes each component correct:

- *thread table*: pid to tid and tid to pid agree; no two threads share a row;
  the active count is the number of registered threads; tids stay below
  `max_threads`; an eligible live thread is registered in the end and stays so
  until it exits.
- *handlers*: nothing of one application is attributed to the next; whatever is
  remembered under a tid was done by the thread it stands for.
- *communication detection*: a page remembers its last two accessors, most
  recent first; an access counts once with each of them that is another thread,
  and never with the thread itself; a page is forgotten only for a conflict.
- *hardware graph*: what is built is the tree asked for, in exactly the memory
  it was sized for; attributes and distances are those of the tree.
- *greedy mapping*: every level partitions the one below; every thread gets a
  processor; loads differ by at most one; sums are exact; threads that only
  communicate with each other are placed together.
- *mapper loop*: after a pass the threads run where the mapping says; it binds
  only threads of the application; a thread that stays is bound in the end.
- *page walker and repair*: every present bit that was cleared is set again
  before the kernel looks at the entry, so that the kernel's counts stay right;
  a walk ends, but not before it has seen all that it may clear.
- *life cycle*: nothing is used before it is allocated or after it is freed;
  unloading ends.

## 2. The modules

| module | models | extends |
|---|---|---|
| `PidTable` | every access of `pid.c` to shared memory, one operator each | |
| `Probes` | the handlers of `probes.c` over it, one program counter per processor, with the tasks around them; on one processor refines `ThreadTable` | `PidTable` |
| `ProbesProofs` | types and the bound on the tids handed out; on one processor the tables, the count, attribution and the refinement | `Probes` |
| `ThreadTable` | what the thread table promises to who looks only at pids, tids and the active count | |
| `Mapper` | the loop of `map.c` and `spcd_set_affinity`, beside the threads of `ThreadTable` | `ThreadTable` |
| `MapperProofs` | types, the low tids, what is bound and where | `Mapper` |
| `CommAbstract` | what communication detection promises | |
| `CommDetect` | `mem.c`, `comm.c` and the matrix operations of `spcd.h`, one fault at a time; refines `CommAbstract` | |
| `CommRace` | `spcd_check_comm` access by access on several processors, over the state of `CommDetect` | `CommDetect` |
| `CommProofs` | types, sharers, refinement, no self-communication; who is named and what is atomic on any number of processors | `CommRace` |
| `HwTree` | the tree of a machine, as paths | |
| `TreeProofs` | how many vertices and PUs it has, how the PUs are numbered | `HwTree` |
| `TopoDetect` | `topo.c`, on any machine | `HwTree` |
| `FakeTopology` | sizing, building, analysing the graph, with what `topo.c` found | `TopoDetect` |
| `TopoProofs` | each CPU once, exact sizing, children before the parent, on any machine | `FakeTopology`, `TreeProofs` |
| `GreedyMap` | `mapping-greedy.c` on that tree | `HwTree` |
| `GreedyProofs` | types, groups share out the level below, loads are balanced, nothing unwritten is read, sums are exact, partners are together | `GreedyMap`, `TreeProofs` |
| `PageWalker` | `pagefault.c` and the repair probes of `probes.c`, on the page table of one process | |
| `WalkerProofs` | types, the kernel's counts, the cursor, thorough walks | `PageWalker` |
| `ModuleLifecycle` | `spcd_main.c` with the threads, handlers and files | |
| `LifecycleProofs` | resources are there when used | `ModuleLifecycle` |

How they compose: `Mapper` is built on `ThreadTable`, which `Probes` is checked
to implement; `FakeTopology` starts where `TopoDetect` ends, in one state space;
`GreedyMap` works on the tree that `FakeTopology` checks the graph against;
`CommRace` runs the operators of `CommDetect` in pieces and compares its results
with them.

### PidTable, Probes and ThreadTable

A slot of `spcd_pid` is a record `[pid, tid]`, the mirror likewise. `pid.c`'s
functions are sequences of accesses, and the steps of `Probes` take one access
each, in the order of the C statements: `Limit` is the test of `pid.c:35`,
`Probe` the reads of the slot, `Claim` the store of the pid,
`Number` the `atomic_inc_return`, `SetTid`, `Enlist`, `Mirror`. `pc[c]` is the
next access of processor `c`, `cur[c]` the task it runs, `pid[c]` the pid the
handler works for (the child in `thread_handler`), `tid[c]` its local tid.
`Mirror` reads its index back from the slot as the code does; if another
processor has made it -1, the store lands before the array, and the model lets
it land either in the last element of `spcd_pid` or outside the model.

The tasks around the handlers are `Spawn`, `Fork`, `ForkReturn`, `Exec`, `Tick`,
`Fault`, `Exit` and `Reap`. A fork makes the child alive; the parent's
`ForkReturn`, which is where the kretprobe fires, comes at any later time.
After `Reap` the pid may be used again.

`mem` and `matrix` are here only the sets of accessors that page table and
matrix hold, each with the pid that made the access as history, so that
properties can ask whose accesses a tid stands for.

`ThreadTable` knows pids, tids and a mirror, no hash and no handlers. A thread
is in it from the increment of the active count (`pid.c:45`) to its decrement
(`pid.c:24`), because that is what the mapper reads; its mirror entry follows
one step later, which `Register` and `StoreMirror` keep apart. The refinement
reads `tidOf` off the slot, and off the handler's local tid while it deletes.

Left out: the statistics counters; a `do_fork` that failed (`thread_handler`
tests `pid > 0`). A `memset` is one step. The two fields of a slot are read
together in a lookup.

### Mapper

`Poll` or `TooFew` is the reading of the number of active threads, once in a
pass; `Pin` and `AlreadyThere` are one iteration of the loop over `i`, `Pin`
going up to the read of the mirror in `spcd_set_affinity`, and `SetAffinity` the
call. Threads register, are mirrored, leave, are reaped and are forked with
their parent's affinity between any two of these steps. `life` is a task's life
in the kernel, whether registered or not: a child may exit unregistered
(`Exit`), be registered by the late return of its fork (`probes.c:219`) and be
released (`Reap`) while registered. The mapping is any
function to the processors: `GreedyMap` says what it is. `MinThreads` is the
constant 4. `departed` and `peace` are history. There is peace as long as,
since the last reset of `oldmap`, no thread has left, none was met half
registered, and no new task got the pid of one that was registered after its
exit: then `oldmap` is true of every thread that is not gone. When
peace ends, `oldmap` may be wrong: a call that fails is printed and
remembered as done, and a thread that gets the tid of a former one is not moved.

### CommDetect, CommAbstract and CommRace

One step of `CommDetect` is one fault: `spcd_check_comm(t, address)` with
everything it calls. The page table maps elements to `[pg_addr, sharer]`.
Element and matrix start zeroed as in the code, which for an element means
"page 0, accessed by thread 0 twice". The cases of the switch in `comm.c` are
`NoSharer`, `OneSharer` and `TwoSharers`; the new pair of sharers is
`newSharers`. `matrix_reset` and `set_shift` are the writers in `procfs.c`.
Counters wrap at `UINT_RANGE` and `ULONG_RANGE`.

`CommAbstract` knows no table: a page has a last accessor and the last other
one; an access counts with each of them that is not itself; an access may make
the detector forget one other page, and then `forgotten` counts one. The
refinement reads `last` and `previous` off the element if the page has it, and
maps `forgotten` to `spcd_addr_conflict`.

`CommRace` gives every processor a handler with its locals: `Lookup`, `Clear0`,
`Clear1` and `Own` are `spcd_get_mem_init`, `Load0` and `Load1` are
`get_num_sharers`, `Count` and `Add` the load and the store of `++`, `Back`,
`Store` and `Front` the moving of the sharers. An index of -1 selects the counter
that the arithmetic of `inc_comm` selects; before the array there is memory that
is not the module's, whose content plays no part. After an increment the
sharers are loaded again: the kernel is built with `-fno-strict-aliasing`, so
that the counter may be one of them. `Load0` and `Load1` stand for a pair of
loads that is used for the switch and for the first count. The table is not
reset and the granularity not changed meanwhile.

Left out: time stamps (`inc_comm` takes one and does not use it). A matrix not
yet allocated counts as zeros: no pid is registered before the first process's
`spcd_pid_clear`, after which `spcd_comm_init` allocates it (`ModuleLifecycle`).

### TopoDetect and FakeTopology

The machine is a parameter: the online nodes, and for every CPU its node, its
processor and its core. `EnterNode` and `LeaveNode` are the loop over the nodes,
`VisitCpu` is one iteration of the loop over the CPUs of a node, with the loops
over cores and siblings inside: `coresOf` are the CPUs that count as cores,
`listed` the order in which the processor's CPUs get into `pu`. `Average` is the
divisions at the end. Machines need not be regular: a node may have memory only,
a processor may be spread over nodes. The mapper goes on from there with the
machines of `Built`. On a machine with more nodes than processors the rounded
average makes a level of 0 children. The tree is built without PUs, and
`topology.c:505` divides by the 0 (`divisors`): the mapper thread ends in
`topology_analysis_`.

The recursion `create_fake_topology` is a stack of calls; `Enter` is a call up
to its loop, `Return` its return and the caller's connecting of the two
vertices, `ReturnRoot` the return into `spcd_map_func`. Vertices list their
links in order, since the mapping relies on it (`ChildrenFirst`). `topology_analysis_` is one
step: it walks the finished graph and nothing else runs on it. `Relax` is one
iteration of the outermost loop of `floyd_warshall`. `dist_pus` is an array
indexed with processor ids; ids past its dimension alias other elements, as in
the code.

### GreedyMap

`Consider` looks at one candidate for the group under construction: the sum over
the row is one step, the comparison of candidates is spread over steps, between
which faults may count (`Communicate`). `Take`, `FinishGroup`, `SumPair`,
`NextLevel` follow the loops of `generate_groups` and `recreate_matrix`;
`PlaceOnPU`, `PlaceOnChildren` and `PassDown` are the cases of
`map_groups_to_topology_`, whose recursion is the list `todo` of calls yet to
make. What `lm_calloc` returns is not zeroed in the kernel build (it is
`kmalloc`), so buffers start `Unknown`; after each mapping (`Sleep`) they are
`Unknown` again, which stands for whatever a mapping left there and makes any
read of it show. A failing `LM_ASSERT` prints and goes on in the kernel build,
so no step depends on one; the properties state what they assert.

### PageWalker

One process and the cursor the walker has in it. An entry of the page table is
`none`, `present`, `cleared` by the walker, or `swap`; `counted` is what the
kernel counts as mapped. The walker's steps: `Begin` (the loop of
`spcd_pagefault_func`), `Check` (the top of the loop over the faults), `Walk`
(the test of the passes and the call of `walk_page_range`), `Callback` for an
entry, `Hit` and `Miss` for what it returns, `Store` for the assignment of the
VMA that `find_next_vma` returned, which is a step of its own because
`reset_stats` may come in between. `passes` and `found` are the loop of
`find_next_vma`, whose counter is unsigned and wraps, while `start` has 64 bits.

The kernel around it: `Fault` (with `pte_fault_handler`'s repair), `Zap`
(`madvise` with the repair of `unmap_page_range_handler`), `Truncate` (without
`mmap_sem`, possibly in a program of another name), `SwapOut`, `DelPage`. The
walker holds `mmap_sem` for writing in a walk; `Fault`, `Zap` and the unmapping
at exit wait for it, the others and `reset_stats` do not. A walk whose cursor is
reset to NULL reads `vm_end` through it and is `dead`: nothing after that stands
for the program.

### ModuleLifecycle

`stage` is the next step of `init_module` or `cleanup_module`; a resource is
`none`, `there` or `freed`. Handlers and readers are entered while their probe
or file is registered and leave later; removing a probe or a file waits for
them, as the kernel does, and `kthread_stop` waits for a thread. What the
threads do in a pass is `busy`. `opened` says that the first process of this
load has cleared the thread table, which takes no pid before (`pid.c:42`).
Allocation and registration succeed. Two things are coarser than the code.
`Start` is one step: that a fork returns on another processor between the clear
and the allocation of the matrix (`probes.c:202-203`), and registers a child that
faults before there is a matrix, is not in the model. And a use of the freed
matrix has no consequence in it.

## 3. What the runs show

| run | instance | shows |
|---|---|---|
| `probes_one_cpu` | 1 processor, 3 pids of which two share a slot, `max_threads` 2, 4 slots | the tables invert each other, the active count is exact, only late fork returns leave dead threads, nothing is attributed to another pid, nothing survives an application, tids stay within the limit (`NumBounded` with one processor) |
| `probes_tracked` | 1 processor, 2 pids, every action of `Probes`, fairness | eligible tasks are registered in the end, registrations are stable, the handlers implement `ThreadTable` |
| `probes_limit` (violated) | 2 processors, 2 pids, `max_threads` 1 | two processors hand out a tid past `max_threads` |
| `comm` | 3 threads, granularities 0 and 1, 3 page numbers of which one is of both, 2 elements of which one is fought over by pages of one and of two granularities, matrix modulo 3 | types, sharers, no self-communication, refinement of `CommAbstract`, also when the granularity changes under the table |
| `comm_race` | 2 processors, 3 threads, 3 pages on 2 elements, 3 faults | a handler that has its element to itself does what `CommDetect` does in a step; no one is named who did not come to the element |
| `comm_race_first` (violated) | the same | a single sharer in position 1, and a counter with index -1 |
| `startup` | every machine of 4 CPUs (any nesting, a node of memory only, processors over several nodes); built and analysed: all shapes of 1 or 2 children at four levels, two with 3, the threads of a core numbered together or apart, and one with an empty level | each CPU is listed once, no more leaves than CPUs, exact sizing, children linked before the parent, attributes of the tree, and nearer CPUs share more |
| `topology_sparse` (violated) | processor ids 0 and 2 | a processor without a NUMA node |
| `greedy` | 6 machines, one with a processor that the tree has no PU for, 4 and 5 threads, every communication graph of four threads and those of at most three edges of five; faults count during mappings of four threads that start from a matrix of zeros, one for each pair | partition, fit, balance, exact sums, partners together, no unwritten cell is read |
| `mapper` | 2 pids, 3 tids, 2 processors, mapping from 2 threads on | the low tids are the live ones as long as none has left, `oldmap` is true in peace, only threads of the application are bound, and those that stay are while peace lasts |
| `page_walker` | a shared VMA of 1 page of a file, a private one of 2 pages of which one may be swapped, 2 pages per walk, counter modulo 4 | counts agree, no cursor where it may not be; a walk that ends early has seen everything, unless threads or flag changed under it or its counter wrapped; every walk ends, unless a reset of the cursor under it ends the walker |
| `lifecycle` | all of the module | page table, cursor and topology are there when used, the matrix is allocated before and not freed under the mapper, unloading ends |

**Why these bounds.** With three pids and two slots in use the table meets a
free slot, a slot of the same pid and a slot of another one; with two tids it
gets full, with a thread left over that is refused. `MCProbes` leaves the exec
of a program of another name out of the larger instances; `probes_tracked` has
it. What holds of two processors is proved for any number (section 4). The
mirror has 4 slots so that the overshoot has one to land in. Three threads are
the least that make a third accessor push out the older of two; two pages on
an element make take-overs, a page without a rival is never forgotten, and one
number is a page of both granularities; counters modulo 3 wrap. In `comm_race` two handlers
meet on an element in every way, while a third fault finds what they left; the
same holds with four faults (8 million states, not a run). Machines with 1, 2
and 3 children cover shared and unshared levels, leftovers at one level and at
several; four and five threads are fewer than, equal to and more than the
processors of those machines. Two pids and three tids let a tid be left behind
and a new thread get the next, and two applications follow each other. Two VMAs
of different kinds are what the order of the list, its end and the flag
`spcd_vma_shared_flag` can tell apart; a walk of two clears meets a hit followed
by a hit, a miss, and the end. Bounds that are the model's own are `MaxComm`
(the highest count, which `MCNext` of `MCGreedyMap` narrows further), `MaxFaults` (faults in a behaviour of `CommRace`),
`Built` and the sets of pids, addresses, threads, machines, pages and jumps; the
counters of `Probes` are bounded because a clear zeroes them.

**One processor and two.** Most properties of `Probes` are about the state
between handlers (`AllIdle`). With one processor they hold whatever the order
of forks, ticks, exits and late returns. With two processors `TablesAgree`,
`ActiveExact`, `OnlyLateForksLinger`, `Attributable`, `ForgottenBetweenApps`,
`RegistrationStable` and `ImplementsTable` are false: both handlers may find one
slot free, or both see no active thread and clear. Nothing in the repository
states them for several processors, so these are listed under hazards, not under
findings. `Mapper`, which rests on `ThreadTable`, inherits the restriction.

**Symmetry.** `probes_limit`, `comm_race` and `comm_race_first` permute the
processors; no definition orders or names them. Runs of liveness use none.

**Fairness.** `probes_tracked`: a handler, once entered, runs to its end (it
runs with interrupts off and waits for nothing): weak fairness of each
processor's handler. A task that stays alive is scheduled and charged by the
timer again and again: strong fairness of its ticks, strong because another task
may hold the processor in between. No fairness is assumed of forks, their
returns, exits or execs. `mapper` and `page_walker`: weak fairness of the
thread's own steps, since the thread wakes from each `msleep_interruptible`
(and from `down_write`, whose holders release it) and waits for nothing else;
the threads of the application owe nothing. `lifecycle`: weak fairness of the
module's functions, of both threads and of the return of each handler, each of
which only computes; nobody has to load or to unload the module.

**Deadlock** is checked in every run but `comm_race` and `comm_race_first`,
which stop when `MaxFaults` faults are handled.

**Findings.** Three, in `PROJECT.json`, one for each violated run: the limit of
`pid.c:35`, the single sharer of `comm.c:26`, sparse processor ids in
`topology.c:536`. Each quotes the line of the repository that says otherwise.

Remarks on what the models show and no line of the repository contradicts:

- `recreate_matrix` need not alternate between two buffers: the sum for groups
  `i < j` could be written in place, since no later sum reads the cell. The model
  with one buffer satisfies `WeightsExact`.
- A registered program that execs one of another name stays registered until it
  exits.
- At a granularity coarser than a page frame, addresses of page 0 find the
  zeroed element their own, with thread 0 as both sharers; `comm` uses addresses
  that are in no page 0.
- `sched_setaffinity` is called for pids that are gone or not mirrored yet; the
  call fails, the message of `map.c:82` is printed, and `oldmap` says it was
  done.
- A reset of the cursor under a walk makes the walk read through NULL. This is the
  only way in which `WalkEnds` lets a walk not end.
- On a machine with more nodes than processors the mapper thread divides by zero
  at `topology.c:505`.
- Swapped-out pages are taken for cleared ones (`probes.c:54`); `CountsAgree`
  excepts them.
- The matrix is freed before the files and probes that use it are removed
  (`spcd_main.c:88-93`), so that a handler or a reader may use it after. No
  property here catches that: `ResourcesThere` says of the matrix only that it
  is allocated before any handler or reader runs and not freed under the mapper.
- Unloading leaves pages cleared that no one will repair.

## 4. What is proved

All for every value of the constants that the named assumptions in the modules
allow: sets of the right kind, a hash into the table, pids that are positive
numbers. TLC evaluates the assumptions on every run, and each inductive
invariant below was an invariant of a run before it was proved, except `PInv` of
`GreedyProofs`, whose `layout` is chosen among all functions. Every hypothesis
beyond the assumptions is named here with its reason.

### `ProbesProofs`: any pids, hash, table size, limit, finite set of processors

- `TypeCorrect`: `Spec => []TypeOK`. `TypeOK` is inductive; one lemma per group
  of actions.
- `OvershootBounded`: `Spec => []NumBounded`, that is, fewer than
  `Cardinality(CPUs)` tids past `max_threads`. `NumBounded` is not inductive: it
  does not say how many processors are past the test and about to count. The
  invariant is `PermitsBounded`: the counter plus the number of processors
  between `Limit` and `Number` (`permits`) is at most
  `max_threads + Cardinality(CPUs) - 1`. Passing the test adds a permit when the
  counter is below the limit, and at most all the others hold one; `Number`
  turns a permit into a count; a clear lowers the counter.
- `OneCpuWithinMax`: with one processor the limit of `pid.c:35` holds, the other
  side of the run `probes_limit`.

On one processor, `TablesInvertible`, `CountExact`, `LateForksLinger`, `RowsAttributable`,
`NothingCarriedOver` and `TidsStable` state the properties `TablesAgree`,
`ActiveExact`, `OnlyLateForksLinger`, `Attributable`, `ForgottenBetweenApps` and
`RegistrationStable`; `Implementation` states the refinement of `ThreadTable`,
and with it that what `Mapper` rests on is what the handlers do.

These properties speak of the moments between handlers, so none is inductive.
The invariant `TabInv` says what each intermediate state of a handler knows:
`Adding` and `Deleting` what is in the slot and the mirror at each step of
`spcd_add_pid` and `spcd_delete_pid`, `Clearing` how far the clear of a first
process is; `Rows` and `Reverse` what the slots and the mirror may hold at all;
`Cleared` that the two arrays are as they were loaded or both cleared, so that a
zeroed entry is never met beside a real one; `Counted` that the active count is
the number of pids whose increment is done and whose decrement is not
(`members`); `Whose` and `Lives` which accesses and lives go with the entries.
The refinement maps each step to the action whose effect it has (`Enlist` to
`Register`, `Mirror` to `StoreMirror`, the decrement to `Delete`, `WipeReverse` to
`Clear`) and the others to stutters.

Two hypotheses: `Cardinality(CPUs) = 1`, because with two processors these
properties are false (section 3), and `max_threads <= SPCD_PID_HASH_SIZE`. The
mirror has as many elements as the hash, 16384 (`spcd.h:16-17`); `max_threads`
is 1024 unless the module is loaded with another value (`spcd_main.c:24`), and
nothing checks it. A larger one makes `spcd_add_pid` store past the mirror.

### `MapperProofs`: any pids, tids, processors, threshold

- `TypeCorrect`, which includes that `map` and `oldmap` are indexed within
  `max_threads`.
- `LowTidsActive`: `ActiveAreLowTids`. The invariant `TInv` of the table adds
  that tids are distinct (`OwnTids`), that the mirror names threads or former
  threads at tids handed out (`MirrorTrue`), and that as long as none has left
  every tid handed out is taken (`NoGaps`), without which the active count says
  nothing about the tids below it.
- `BoundAfterPass`: `BoundInPeace`. The invariant adds `LoopInv`, `PassInv` and
  `PeaceInv`: in peace, what `oldmap` says of a thread that is not gone is where
  it runs, and a tid not yet handed out is `Unknown` in `oldmap`.
- `NobodyElseBound`: the action property `OnlyThreadsBound`.

### `CommProofs`: any threads, addresses, granularities, table, hash, widths

- `TypeCorrect`.
- `SharersCorrect`: `Spec => []SharersWellFormed`, also across changes of the
  granularity and with a page 0.
- `Implementation`: `Spec => ImplementsAbstract`, if `0 \notin Pages`. The
  inductive invariant adds to types and sharers that the first sharer is a
  thread and that an element in use is in the place that its page hashes to
  (`PlacedByHash`), without which two elements could claim one page. Each
  action maps to an abstract action or to a stutter: a fault to `Access` (with a
  page forgotten exactly if the element was another page's), `spcd_mem_init` to
  `ForgetAll`, the two clears of the matrix to `ResetCounts`. A change of the
  granularity changes no abstract state, as pages of all granularities are
  there side by side.
- `SelfCommunicationFree`: `Spec => []NoSelfCommunication`, if `0 \notin Pages`.

The hypothesis `0 \notin Pages` says that no accessed address is in page 0. The
fault handler drops physical address 0, so it holds for a `spcd_shift` up to the
kernel's page shift (the default is equal to it). Beyond it page 0 is taken for
initialised when it is not, and the first access communicates with thread 0.
`comm` and `comm_race` take addresses in no page 0 as well.

Of `CommRace`, with any set of processors and any number of faults, and under
`0 \notin Pages` again:

- `OnlyComersNamed`: `NamesOnlyComers`. The invariant adds, for each handler
  under way, which of its element's sharers it has already cleared or found
  (`past0`, `past1`), so that the zeroed table's thread 0 is never read as a
  sharer; what it holds in its locals came to the element.
- `AloneAtomic`: `AtomicWhenAlone`. The invariant says when a handler is alone
  (`Solo`), that its element is then what it has itself made of it
  (`Undisturbed`), and that the threads it has counted with and those left to
  count are its partners (`Faithful`); and that an element nobody races on is
  well formed when no handler is on it.

### `WalkerProofs`: any list of VMAs, file, faults in a walk, width of the counter

`TypeCorrect`, `MappingsCounted` (`CountsAgree`), `CursorReset`
(`CursorEligible`) and `NothingMissed` (the action property `WalkThorough`).
`FoundIsFirst` says what `find_next_vma` returns. `CountsAgree` needs that
between the repair and the unmapping at exit nobody clears a bit (`CountInv`);
the cursor, that the VMA a walk is about to store is as good as the one it
replaces (`CursorInv`); `WalkThorough`, how far a walk has come since it last
cleared a page (`Progress`): in its first pass from the head of the list the
eligible VMAs before the cursor are done, after it all are. The theorem is about
walks that end before they have cleared all they may, during which threads and
flag did not change and `num_walks` did not wrap.

### `LifecycleProofs`

`ResourcesAlwaysThere`: `ResourcesThere`. The invariant ties each resource,
probe, file and thread to the stages of `init_module` and `cleanup_module`
between which it may exist (`Lifetimes`), and says that the matrix is allocated
once the table is open, before which nobody is registered (`MatrixLife`). Neither
says anything of a handler or reader that uses the matrix after it is freed. The
module has no constants; the state space is small and the proof explains it.

### `TreeProofs`: any arities

Lemmas that `TopoProofs` and `GreedyProofs` share. `Induction` and `Recursion`
say what a recursive function over an interval computes, by choosing a least
number for which it would not (`Least`). With them `PathsAre` says which paths
are vertices, `LevelSize` how many a level has, and `PuIndexBelow` and
`PuIndexInjective` that `puIndex` numbers the PUs from 0 on without repetition.

### `TopoProofs`: any finite machines

- `EveryPuOnce`: `EachPuOnce`, and `NoPuMissing`: `EnoughPus`. The invariant
  `DInv` says that what is listed is listed once, that a CPU not listed belongs
  to a node or to CPUs still to visit, and that `num_threads` counts the list.
  The averages of `topo_init` are rounded down, so that their product is at most
  the length of the list.
- `GraphExact`: `GraphExactlyUsed`. The invariant `BInv` counts, for the stack of
  calls of `create_fake_topology`, what the loops of the active calls have left
  to make (`restOf`): vertices made and left are `nvertices`, leaves made and
  left are the PUs, and every vertex but those of active calls hangs on an edge.
  `LeavesFound` follows: the static counter of `topology.c:170` always finds a
  processor in `pu`.
- `ParentLast`: `ChildrenFirst`. The invariant `KInv` says that the vertex of an
  active call has only links to its children, as many as its loop has made, and
  that a vertex whose call has returned has its parent as its last link and no
  other link to an earlier vertex. That only PUs have no children is claimed of
  machines without an empty level.
- `MachineForMapping`: on every machine that the mapper thread is started on, no
  processor is listed twice and no leaf lacks one, and no level can be empty but
  that of the processors in a node, as the processors found are no more than the
  cores found and these no more than the threads found. If that level is not empty,
  this is what `GreedyAssumption` asks of a machine. If it is, the mapper
  thread does not come to the mapping: it divides by zero before (`divisors`), which
  TLC checks on such a machine and the theorem does not speak of.

The assumption names the sets of CPUs and nodes finite. The order within a core's
siblings is defined by counting smaller members (`sorted`), as `SortSeq` of the
library is opaque to the provers.

### `GreedyProofs`: any machines, numbers of threads and communication

- `Room`: each level that is used has room for at least one group. The groups of
  a level are the PUs divided by some of the arities whose product they are;
  `ExecWidth` shows that they are the vertices of the depth that the level
  stands for (`levelAt`), and a used level has some.
- `Partition`: `GroupsPartition`. The property is about finished levels; the
  invariant `GInv` adds the level in progress (`Growing`): the elements that are
  chosen are those with a place in its groups, each has one, and they are as many
  as the sizes of the groups so far (`before`) say. So there is one left whenever
  `Take` comes, and since sums are numbers and the maximum starts at -1, the
  first candidate that is left wins (`Winning`): no step takes an element twice.
  That sums are numbers rests in turn on `Readable`.
- `OnlyWrittenRead`: `NothingUnknownRead`. `Summed` says which pairs of groups
  `recreate_matrix` has stored, `Readable` that the buffer a level reads is
  complete; the sum of a pair goes to the other buffer.
- `GreedyTypes`: `TypeOK`, with `PuIndexBelow` for the processors that are
  stored in `map`.
- `Balanced`: `LoadsBalanced`. A group that goes to a vertex of several
  children has at most as many elements (`NoneDropped`), so that none is dropped
  on the way down. `layout` is what ends where: for every depth the
  vertices that get a group. `Right` says that it gives every group of the level
  exactly one vertex; `LayoutRight` shows this from `GroupsPartition`'s
  invariant, level by level. `PInv` says that the calls in `todo` are of that
  layout and that a group of threads without its processor lies below a vertex
  still to come. At the end every group of the lowest level has its own PU
  (`PuIndexInjective`, `IsInjective(pu)`), the sizes of the groups differ by at
  most one, and a PU stays empty only if no group has two threads.

- `Exact`: `WeightsExact`. The invariant `EInv` has two parts. `OnlyMore` says
  that counts only grow, so that a matrix that is the same as at the start has been
  the same all along. Under that condition `SumsExact` and `ReadExact` say of
  each cell stored and of each cell to read which sum it holds: that of the cells
  of the level below, cut to the width of an element. The threads below a group
  are those below its members (`ThreadsUp`), groups share none (`ThreadsApart`,
  from `GInv`), and a sum over a union of disjoint sets is the sum of the sums
  (`TotalParts`). That the sums are cut at every level, and not once, makes no
  difference modulo the width (`TotalModulo`).

- `Partners`: `PartnersTogether`. The invariant `MInv` is about the levels that
  `suits` names, where each element communicates with exactly one other and
  every group gets an even number of elements. A group there takes an element and
  then its partner (`Pairing`): the partner is the only candidate left with a
  communication above zero (`Attraction`, from `EInv`), and it is left because all
  groups so far took both or none (`Together`). Both cases of the property come
  down to such a level. With two threads per PU it is the first one
  (`OnOnePU`). With one thread per PU the groups of the first level are single
  threads (`Single`), whose sums are the counts of the threads and fit an element
  (`SmallCounts`); the second level suits if the lowest shared vertices have an
  even number of children (`SingleSuits`), and `CommonVertex` follows one of its
  groups down the layout to the PUs of its members (`HandedDown`).

None of these theorems has a hypothesis, and faults count at any time in the
specification they are about; only `WeightsExact` and `PartnersTogether`
themselves are about mappings during which none was counted, since the code reads
the live matrix.

The folds that sum the communication are recursive functions over the subsets of
a set. `SumExists` and `SumNat` show that such a function exists and yields a
natural number, by choosing a set of least cardinality among those for which it
would not; the lemmas about `total` do the same for what it adds up.

### Only model-checked

- `FakeTopology`: `AttributesOfTree`, `NumaNodeKnown` and `DistancesReal`, which
  follow a walk through the finished graph, a recursion over its vertices.
- On two processors, what is false for the thread table (section 3).
- Liveness: `EventuallyTracked`, `EventuallyBound`, `WalkEnds`, `UnloadEnds`.

**Out of the prover's reach:** liveness and fairness, as there is no reasoning
about ENABLED. Induction over data has no rule that can be cited; the form with a
least counterexample in `TreeProofs` replaces it where each step is short.
`SortSeq` and `Permutations` are opaque to the provers. No module here declares a
RECURSIVE operator; recursion is by recursive functions and folds.

## 5. What is not modelled, and what is left to prove

Not modelled:

- what the readers of procfs print while the table changes (they change no
  state), and `set_num_faults`, whose value is the constant `spcd_num_faults`;
- failed allocations, registrations and symbol lookups: the code prints a
  message and goes on with a NULL pointer, after which no state of a model
  stands for the program;
- arrays that the number of threads or CPUs overruns (`map.c:13`, `topo.c:9`),
  for the same reason;
- VMAs that come and go while the walker keeps one in its cursor: likewise;
- the matrix codec `libspcd.c`, whose only caller is commented out;
- printing; the hwloc and environment variable code of libmapping, which is
  compiled only outside the kernel; `optimize_topology`, which no kernel path
  calls; the kernel's page tables beyond the bits that the module changes.

To prove next, in this order:

1. `AttributesOfTree`, from `KInv` and what the walk visits.
2. `DistancesReal`: the distance of two vertices of a tree is the sum of the
   weights on the way between them.
