# Verification of the OS537 projects

TLA+ models of the programs in this repository, TLC configurations that check
them on small instances, and TLAPS proofs of results that hold for every size.
`PROJECT.json` lists the components, the runs, the mutants that show each
property can fail, the source lines behind each definition, the hazards, and the
theorems.

## 1. The system

The repository holds course projects, most of them around the xv6 kernel. Paths
are relative to `src/`. Unchanged kernel files are identical in `1b/xv6`, `2b`
and `5/xv6`; the models cite the copy of the project they are about.

| part | sources | modules | state |
|---|---|---|---|
| spin locks, interrupt masking | `5/xv6/spinlock.c` | `Spinlock`, `MCSpinlock`, `Spinlock_proofs` | modelled, safety proved |
| process table, scheduler, threads (4) | `4/xv6/change/proc.c`, `sysproc.c`, timer in `5/xv6/trap.c` | `Proc`, `Proc_proofs` | partly, safety proved |
| pages, page tables, `exec`, `growproc` | `5/xv6/kalloc.c`, `vm.c`, `exec.c`, `4/xv6/change/proc.c` | `Vm`, `VmPages_proofs`, `VmCalls_proofs`, `Vm_proofs` | partly, safety proved |
| pipes | `5/xv6/pipe.c`, `fileclose` | `Pipe`, `Fifo`, `MCPipe`, `Pipe_proofs` | modelled, safety and refinement proved |
| console input | `5/xv6/console.c` | `Console`, `Tty`, `Console_proofs` | partly, safety and refinement proved |
| buffer cache and disk driver | `5/xv6/bio.c`, `ide.c` | `Bcache`, `BlockStore`, `Bcache_proofs` | modelled, safety and refinement proved |
| file blocks, extents (5) | `5/xv6/fs.c` (`balloc`, `bmap`, `itrunc`, `readi`, `writei`) | `Extents` | modelled |
| directories, inode cache, file table | `5/xv6/fs.c`, `sysfile.c`, `file.c` | `Names`, `MCNames` | partly |
| stride scheduler (2b) | `2b/proc.c`, `sysproc.c` | `StrideSched` | modelled |
| worst-fit allocator (3a) | `3a/libmem.c` | `MemAlloc` | modelled |
| log-structured file system and its server (6) | `6/libfsi.c`, `server.c` | `Lfs`, `AtomicFs` | partly |
| the rest | section 6 | | not modelled |

How they interact: every kernel component runs under spin locks (`Spinlock`
shows what a critical section may rely on); `sleep` and `wakeup` (`Proc`) are
what `Pipe`, `Console` and `Bcache` wait with; `Vm` has the memory of the
processes whose states `Proc` has; `Names` keeps inodes whose contents `Extents`
lays out; `Extents` and `Names` reach the disk through `Bcache`. Each model takes
the promise of the one below as the grain of its steps: a section under a lock is
a step because of `Spinlock`, and `sleep` gives up its lock and goes to sleep in
one step because of `Proc`.

Project 3b (null pointers) is described in the repository's README and has no
code here.

## 2. Modules

**Spinlock** steps through `acquire`, `release`, `holding`, `pushcli` and
`popcli` at the grain of their shared accesses. A CPU has two contexts, kernel
code and an interrupt handler, which share `IF`, `ncli` and `intena`; the
handler may start whenever `IF` is set. `held` is a ghost: the locks a context
has between its two `xchg`. A context takes locks in the order of their
numbers (the kernel's nesting) and releases them in any order. Interrupt gate,
`sti` and `iret` are external.

**Proc** has the process table as `struct proc` has it. `ptable.lock` is a
variable, because it is held across `swtch`: the scheduler of a CPU, the switch
and the resumed process's release are separate steps. `fork` and `clone` are
split where the code drops the lock (`allocproc`, the copying, making it
RUNNABLE). `sys_sleep`, `tickslock` and the timer interrupt (tick, then
`wakeup`) interleave with them. Programs are free to call anything; with
`JoinFirst` they join their threads before they exit. `fork` failing for init is
left out: init then exits and the kernel panics.

**Vm** makes every `kalloc` a step of its own, so that between two of them other
processes run and any of them may find the free list empty; what one
`deallocuvm` or `freevm` gives back is given back at once. `fork`, `clone`,
`exec`, `growproc`, `exit` and `wait` are followed through `allocproc`,
`setupkvm`, `copyuvm` and `allocuvm` with each of their failure paths. `lost`
collects the pages `setupkvm` gives up when it runs out half-way: it returns 0
and nothing frees the directory. With `Disciplined`, programs that share an
address space do not resize or replace it and join before they exit.

**Pipe** has one step per section under `p->lock`. Counters wrap modulo `Word`.
`fileclose` drops the reference and `pipeclose` follows as a later step, as in
the code. **Fifo** is the abstract queue with end of file: the bytes of each
write enter in order, as many as fit, and leave in that order.

**Console** has the keyboard interrupt editing a line in the ring between
`input.w` and `input.e`, and readers that sleep until `input.w` moves. Indices
wrap modulo `COUNT`. **Tty** is the abstract line editor in front of a queue.

**Bcache** has `bget` searching again after each sleep, the LRU list, the IDE
queue, the disk as a separate actor and its interrupt. One disk; a process holds
one buffer. **BlockStore** is the abstract store: one holder per sector, who
sees the last value written.

**Extents** executes `bmap`, with its pairs of start and length packed into one
word, on a bitmap, blocks and two copies of the inode, in memory and on disk.
An operation is a step (the inode is locked); `end` (length the writers have
seen) and `sought` are ghosts. A panic stops the machine.

**Names** interleaves the system calls of processes at the places where they
give up an inode's lock or wait for another: after each element of a path, after
`nameiparent`, between the two halves of `link`, between `dirlookup` and `ilock`
in `unlink`. An inode carries its disk fields and its cache slot's `ref` and
busy flag.

**StrideSched** runs the scan of `2b/proc.c` (with its stale `current`) over
processes that fork, exit, wait, sleep, wake and set tickets. `pass` wraps at
`Half`; `time` is the same sum without wrapping.

**MemAlloc** keeps the headers as words in memory and writes them where the code
writes them, so an overlapping header destroys what was there.

**Lfs** has the image as a checkpoint region and a log of records (data blocks,
inodes, the inode map's chunk). The server does one request at a time and reads
nothing between its writes, so a call works out what it will write and the
writes and fsyncs follow one by one, with a crash possible before each. A crash
loses writes since the last fsync: those from some point on, or, during the calls
in `Reordered`, any subset of them. The server then restarts and reads the
checkpoint. **AtomicFs** is a map from names to files whose calls happen at once
and are durable when they return.

Operators named `X_Something`, commented "Faulty variant", stand in front of the
definition `X` they vary; they are the mutants.

## 3. Runs

| run | properties | bounds | distinct states |
|---|---|---|---|
| `spinlock` | `TypeOK`, `MutualExclusion`, `HeldMeansInterruptsOff`, `NoPanic`, `NcliMatched`, `SpinEnds` | 2 CPUs with handlers, 2 locks | 15 k |
| `proc` | `OneCpuPerStack`, `FamiliesIntact`, `SleepersNotDue`, `PgdirsExact` | 2 CPUs, 4 slots, 4 pids, sleep of 1 tick, threads joined | 666 k |
| `proc_live` | `ZombiesReaped`, `RunnableRuns`, `SleepEnds` | 1 CPU, 3 slots, 4 pids, kill | 11 k |
| `vm` | `PagesOwnedOnce`, `NoVmPanic`, `SizeIsMapped` | 3 processes, 15 pages, 3 user pages of 2 bytes, 2 tables per directory | 80 k |
| `pipe` | `SleepersJustified`, `FreedAtLastClose`, `IsFifo`, `CallsReturn` | 2 writers, 1 reader, 2 bytes, counters modulo 4, kill | 110 k |
| `console` | `RingSound`, `IsTty`, `InputRead` | 2 readers (one may be killed), ring of 3, indices modulo 6 | 83 k |
| `bcache` | `OneBufferPerSector`, `DiskAtWork`, `IsBlockStore`, `RequestsFinish` | 2 processes, 2 buffers, 3 sectors | 145 k |
| `extents` | `BlocksDisjoint`, `NoLeak`, `ReadsBack` | 2 files of either layout, 4 blocks, offsets to 3 | 434 k |
| `names` | `RefsExact`, `LinksExact`, `OnlyIallocPanics` | 2 processes, 3 inodes, 1 file struct, 2 descriptors | 1.7 M |
| `stride` | `LagBounded`, `LeastTimeRuns` | 3 processes, tickets 1 and 2, virtual time to 5, never idle | 1.8 M |
| `mem_alloc` | `Partition`, `Coalesced` | 24 words, requests of 1, 16, 24 bytes, room for a node left | 119 k |
| `lfs` | `CheckpointSound`, `NamesExact`, `IsAtomicFs` | 2 names, 2 values, 3 inodes, 2 blocks per file, log of 18 records | 68 k |

Outside `spinlock` the type invariant is part of another property (in `lfs` it is
what `Sound` says of the records); `proc_live` leaves it to `proc`.

What they show, in the order of the table:

* Locks exclude, their holders are not interrupted, `ncli` is matched, no panic
  of `spinlock.c` is reached, and a lock that is waited for is taken.
* No two CPUs are on one kernel stack and `wait` frees no stack in use; nobody
  sleeps in `wait` next to a zombie child; every process has a parent that can
  reap it; no tick is missed; page directories are freed with their last user.
  Orphans are reaped, nobody runnable starves, sleepers come back.
* Every page is free, owned exactly once, or one of those `setupkvm` lost,
  whichever allocation fails; no page is mapped twice or found missing (the
  panics of `vm.c`); `sz` says what is mapped.
* Nobody sleeps in a pipe without cause, its page is freed by the last close, the
  ring is a FIFO, and the callers of an end are never all stuck.
* The console's ring keeps its order while both sides move its indices; a line is
  read once and in order; ^D makes one read return nothing; waiting readers get
  what there is.
* A sector has one buffer and one holder, the disk never idles with work queued,
  every request ends, and a reader sees the last value written.
* No block is shared, freed twice or lost; what was written is read back.
* References and links are exact, no name leads to a free inode, and running out
  of inodes is the only panic. Checking for deadlock shows that processes never
  wait for each other's inode locks in a circle.
* The scheduler runs a runnable process of least virtual time; nobody gets more
  than a stride ahead.
* Blocks and free nodes partition the region, and neighbours are merged.
* A crash at any point leaves an image that mounts, names and inodes correspond,
  and each call happened completely or not at all.

Why the bounds are enough for the cases of interest: two CPUs and their handlers
give every pair of contexts that can meet at a lock, and two locks give nesting
and release out of order; four slots hold init, a parent, its thread or child
and an orphan; fifteen pages are enough for two address spaces and run out
in the middle of a third; a pipe shorter than the string
written fills, empties and wraps; a ring of three fills before a line ends, and
its indices wrap; three sectors over two buffers force eviction while another
process waits; four blocks are filled by two files, so that extents are started,
extended, refused and freed; three inodes are a root, a directory and a file in
it, and run out; in `lfs`, three inodes are the root and both files, and the
log's length allows several calls and crashes in a row. The bounds are named
constants of the modules (`MaxPid`, `MaxSleep`, `MaxRead`, `MaxTime`,
`MaxOffset`, `MaxLog`).

Deadlock is checked except where the system may stop: all ends of the pipe are
closed, the bound on virtual time is reached, or the kernel has panicked
(`pipe`, `stride`, `extents`). Symmetry is used where nothing distinguishes the
permuted values and no liveness is checked (`names`, `lfs`). `vm` compares states
up to the names of pages (`PageView`).

### Disagreements that a changed constant reproduces

The runs above describe the code under an assumption on its callers or its
environment. Each assumption is a constant, and without it the code departs from
what its comments, tests or callers expect. The properties are in the modules.

| change | property | what happens |
|---|---|---|
| `MemAlloc`: `NoExactFit = FALSE` | `NoFault` | a request that uses up the list leaves `headFree` NULL (or a header behind the region) and the next `Mem_Alloc` reads through it, although `3a/coalesce2.c` allocates until `E_NO_SPACE` |
| `StrideSched`: `NeverIdle = FALSE` | `ExitIsFinal` | with nothing RUNNABLE the scan leaves `current` at the process chosen last, and a zombie is run |
| `StrideSched`: `Half = 3` | `LeastTimeRuns` | `pass` overflows |
| `Extents`: `LenSize = 2`, one `T_EXTENT` file, 5 blocks | `ReadsBack` | the length of an extent is incremented without a test and carries into its address (256 blocks in the code) |
| `Proc`: `JoinFirst = FALSE` | `PgdirsExact` | reaping a process frees the page directory its thread runs on |
| `Proc`: `KillArgs = {3}` | `BornUnkilled` | `kill` marks the slot of a failed `fork` by its stale pid and `allocproc` does not clear the mark |
| `Vm`: `Disciplined = FALSE` | `PagesOwnedOnce`, `NoVmPanic` | `growproc` and `exec` free pages a thread still has |
| `Bcache`: `DiskErrors = TRUE` | `IsBlockStore` | a failed read yields a valid buffer with another sector's bytes |
| `Lfs`: `Retries = TRUE` | `IsAtomicFs` | a repeated creat is not the same as one |
| `Lfs`: `Reordered` with creat or unlink | `CheckpointSound` | the checkpoint may reach the disk before what it points to |

Two departures are stated in the properties themselves: a writer killed at a full
pipe wakes no reader (`SleepersJustified`), and writes into a hole are lost when
the inode is reloaded (`ReadsBack` excepts files that were seeked past their
end).

### Fairness

* `spinlock`: weak fairness of each context's instructions and of `iret`. Strong
  fairness of `release`: critical sections end, although a context may take
  further locks in between. `xchg` is not fair to a particular waiter, so
  `SpinEnds` says that the lock is taken by someone.
* `proc_live`: the scheduler, the running process's kernel code and the timer
  all run infinitely often if they can so often (strong fairness, because the
  timer interrupt disables the others again and again); a CPU executes
  instructions between two interrupts.
* `pipe`: weak fairness of processes in the kernel, strong fairness of a
  program's next use or close of its end; without the latter a reader may
  rightly wait for ever. One of two writers may lose every race, so
  `CallsReturn` says that the callers of an end are never all stuck.
* `console`: weak fairness of readers inside `consoleread`, which the scheduler
  runs (`RunnableRuns`). Nothing is assumed of the keyboard. Of two readers one
  may take all the input, which `InputRead` allows.
* `bcache`: weak fairness of the processes' kernel code, of the disk and of its
  interrupt. Nothing is assumed of when a holder releases a buffer.

## 4. Proofs

**Locks** (`Spinlock_proofs`), for any set of CPUs and any set of numbered locks
(`LocksRanked`: locks are naturals, the null values are none of them):
`TypeCorrect`, `LockExcludes`, `NeverPanics`, `CountMatches` and
`HolderNotInterrupted` state `TypeOK`, `MutualExclusion`, `NoPanic`,
`NcliMatched` and `HeldMeansInterruptsOff`.

None of these is inductive alone. `IndInv` adds three things. `LockInv`: a lock
is 1 exactly while someone has it. `ContextInv`: what a context knows at each
place, in particular that `lk->cpu` names a CPU only while a context of that CPU
has the lock past `SetCpu`, which is why the two loads of `holding` never
combine into a false alarm. `CpuInv`: `ncli` is the sum of the depths of the
CPU's two contexts, interrupts are off while it is positive, and the context
that is not active holds nothing. There is one lemma per action; `QuietStep`
and `CpuInvStable` carry the steps that leave a CPU's interrupt state alone.

**Process table** (`Proc_proofs`), for any number of slots, CPUs (numbers, 0
among them), pids and ticks (`ProcConstants`): `StacksExclusive`,
`NoChildForgotten` and `NoTickMissed` state `OneCpuPerStack`, `FamiliesIntact`
and `SleepersNotDue`. Beside the properties the inductive invariant says that a
slot being filled by `fork` is an EMBRYO that is nobody else's (`EmbryoInv`), on
what a sleeper sleeps (`ChanInv`), that init stays, has no parent, and nobody is
their own (`KinInv`), and that `tickslock` is held from the test in `sys_sleep`
to its sleep (`TicksInv`). There is one lemma per action. What most actions
leave alone is shown once, by lemmas on steps that keep the CPUs' stacks
(`StackStays`), move one slot from one state to another (`SlotMoves`), or change
nothing of the table but a place (`QuietInd`).

`PgdirsFreedOnce` states `PgdirsExact` under the assumption `JoinFirst`. `wait`
decides whether to free a page directory by comparing it with the reaping
parent's. That this finds the last user follows from `ThreadInv`: of two
processes that share a directory one is a child of a sharer, and pids grow from
parent to child, so sharing has a single root; whoever joins before exit leaves
no other user behind.

**Address spaces**, for any number of processes, physical pages and page tables
per directory, every page size, end of user memory, set of program sizes and of
`sbrk` arguments (`VmConstants`), and under the assumption `Disciplined`, without
which the three properties are false (section 3): `PagesStayOwned`,
`VmNeverPanics` and `SizeStaysMapped` (`Vm_proofs`) state `PagesOwnedOnce`,
`NoVmPanic` and `SizeIsMapped`. The inductive invariant is in `VmPages_proofs`.

* `OwnInv`: each page has one tag, which tells whether it is free, lost, a kernel
  stack, a directory, a table of a directory, or the user page at a place of one;
  `Has` says that the four structures agree with the tag. The lemmas on taking a
  page and on giving back a stack, a range of user pages or an address space
  work on the tags alone, so that no proof of an action counts pages.
* `SpaceInv`: the directories are those of processes and of calls under way, and
  one that is being built belongs to its call alone.
* `SlotInv`, `FamilyInv`: slots, stacks and parents; a child of `fork` is an
  EMBRYO of one caller.
* `ThreadInv`: of two processes on one directory at least one shares it with its
  parent, and a call that resizes or replaces a directory has it alone. `RankInv`:
  nobody is their own ancestor. Together they give `ThreadsGone`: when `wait` reaps
  a zombie that does not share with its parent, nobody else is on its directory.
* `SizeInv`: how far each loop has come, and that exactly the pages before that
  are mapped; so `allocuvm` meets no mapped page and `copyuvm` misses none.

`VmPages_proofs` also has the arithmetic of `PGROUNDUP` and the calls that move no
page, `VmCalls_proofs` the loops of `vm.c` and their failures, `Vm_proofs` the
calls that create and end processes.

**Pipes** (`Pipe_proofs`), for every `PIPESIZE`, every `Word` greater than it and
a multiple of it, and any readers and writers, at least one of each
(`PipeConstants`): `NoWakeupLost` and `FreedOnce` state `SleepersJustified` and
`FreedAtLastClose`; `PipeIsFifo` states that the ring implements `Fifo`
(`IsFifo`). The module begins with the arithmetic: the distance of two wrapping
counters, the exactness of the test for a full pipe, and that the bytes between
them lie in different slots, which is where `Word % PIPESIZE = 0` is used. The
inductive invariant adds `CloseInv` (the flags follow the references, and only an
end's last reference closes it) and `CallInv` (a read under way asks for
something, only a write under way has bytes left). In the refinement the pipe's
sections map to `Write`, `Put`, `Take`, `EndOfFile` and `CloseWriteEnd`, and
everything else to no step of the queue.

**Console** (`Console_proofs`), for every size of the ring, every range of the
indices that is a larger multiple of it, and any readers (`ConsoleConstants`):
`RingStaysSound` states `RingSound`, `RingIsTty` that the ring implements `Tty`
(`IsTty`). The inductive invariant adds that the line being edited has no end in
it (`LineInv`), that what is in the ring was typed (`TypedInv`), and what a read
under way has got (`ReadInv`). The cells between the indices are then the queue
and the line of `Tty`: an interrupt appends to the line, takes from its end or
moves it into the queue, a reader takes from the queue's head.

**Buffer cache** (`Bcache_proofs`), for any number of buffers and sectors and any
finite set of processes (`BcacheConstants`): `DiskKeepsWorking` and
`BuffersExclusive` state `DiskAtWork` and `OneBufferPerSector`, read errors or
not; that `bget` finds a buffer to reuse is stated, as in the property, for as
many buffers as processes, and follows by counting the owners (`FS_PigeonHole`).
`CacheIsStore` states `IsBlockStore` under the assumption `DiskErrors = FALSE`
(section 3 has what errors do). The inductive invariant says who owns which
buffer (`OwnInv`), that sectors have one buffer (`SectorInv`), what the flags mean
at each place of `iderw` (`FlagInv`), that the queue holds each buffer once, for an
owner that waits (`QueueInv`), and who sleeps on what (`ChanInv`). For the
refinement `DiskInv` says that an up-to-date buffer agrees with the medium, so
that evicting one loses nothing; a sector's value is its buffer's, or the medium's
if it has none.

Only model-checked:

* Liveness (`SpinEnds`, `ZombiesReaped`, `RunnableRuns`, `SleepEnds`,
  `CallsReturn`, `RequestsFinish`, `InputRead`): fairness and `ENABLED` are out of
  the prover's reach.
* `StrideSched`: whom the scan picks is a recursive function over the table, and
  what it computes needs induction over data, which the installed provers
  cannot do.
* `MemAlloc`: its walk along the free list is a recursive operator, which keeps
  the prover's main backend out of the module.
* `Lfs`, with `CheckpointSound`, `NamesExact` and the refinement `IsAtomicFs`:
  mounting replays a log of any length with folds; again induction over data.
* `Extents` and `Names`: not attempted. `NoLeak` and `ReadsBack` follow what `bmap`
  does along an inode's addresses, and `RefsExact` and `LinksExact` count the
  references of all processes, descriptors and directories.

## 5. Reading the models

A step is a section of the code that nothing can interrupt, from taking a lock
to giving it up or going to sleep. Where the code holds no lock, or drops it
half-way, there are several steps. `PROJECT.json` names the lines of each
definition, and its hazards name the lines at which an order of events matters,
with the properties that would fail.

The models cite about a tenth of the lines under `src/`. Much of the rest is
there several times (the kernel in `1b`, `2b`, `4` and `5`), or consists of
drivers, boot code, user programs and tests.

## 6. Not modelled

* Boot, interrupt controllers, multiprocessor start-up, port-level I/O and
  screen output: device registers and tables without state of interest.
* System call dispatch and argument fetching: they read a trap frame and user
  memory. The counter of project 1b is one unlocked increment.
* Project 4's thread library and the user heap: they race in user memory, which
  no model has; `clone` and `wait`, on which they rest, are in `Proc` and `Vm`.
* Project 6's client: `tryMessage` repeats a request until a reply comes, and the
  server in the repository sends none, so no client gets past its first call.
  What repeated requests do is in `Lfs` (`Retries`). `fsi.c` is a copy of the
  library that the build does not use.
* `mkfs`, the user programs, both shells and the sort: sequential programs that
  unit tests reach; the xv6 ones are the environment of the kernel models.

In the modelled parts these are left out: `procdump` and `getcallerpcs` (output
for debugging), the closing of files in `exit`, register contents, `ideinit`'s
probing, `pipealloc`'s failure paths, "." and ".." as path elements, device
inodes, the sizes of the inode cache and of names, `Mem_Init`'s rounding, the
contents of pages and the loading of program headers in `exec`, scan codes and
^P on the console. In `Lfs`: directories below the root (their blocks have
uninitialised entries), inode maps of more than one chunk, write errors, a full
directory, `fsi_read` and `fsi_stat` (which change nothing), and shutdown.
