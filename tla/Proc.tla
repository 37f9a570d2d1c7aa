-------------------------------- MODULE Proc --------------------------------
(***************************************************************************)
(* The process table of the kernel with threads (4/xv6/change/proc.c): the *)
(* scheduler on each CPU, fork and clone, exit, wait, kill, yield, and     *)
(* sleep and wakeup as sys_sleep and the timer interrupt use them.         *)
(*                                                                         *)
(* ptable.lock is held across a context switch, so it is a variable.  A    *)
(* critical section without a switch is one step, taken when it is free.   *)
(* A process is its slot in the table; slot 1 is init.                     *)
(***************************************************************************)
EXTENDS Integers

CONSTANTS NPROC,      \* slots of the process table
          CPUs,       \* processors, numbered from 0
          MaxPid,     \* bound on nextpid
          MaxSleep,   \* bound on the argument of sleep(); 0: nobody sleeps
          KillArgs,   \* the arguments kill() is called with
          CanClone    \* whether programs create threads

ASSUME ProcConstants ==
  /\ NPROC \in Nat \ {0} /\ MaxPid \in Nat \ {0} /\ MaxSleep \in Nat
  /\ CPUs \subseteq Nat /\ 0 \in CPUs
  /\ KillArgs \subseteq Nat /\ CanClone \in BOOLEAN

Procs == 1..NPROC
Nil == 0                \* no process, no channel, a free lock
Ticks == -1             \* the channel &ticks, and the timer as a lock holder
initproc == 1

VARIABLES state, pid, parent, chan, killed, pgdir,  \* struct proc
          nextpid,
          pgdirs,     \* the page directories that are allocated
          abandoned,  \* history: those whose process exited before its threads
          ptlock,     \* the CPU + 1 that holds ptable.lock, or Nil
          tickslock,  \* the process that holds it, Ticks for the timer, or Nil
          cur,        \* per CPU: the process on whose kernel stack it runs
          scan,       \* per CPU: the slot the scheduler's loop looks at next
          pc,         \* per process: where it is in the kernel
          child,      \* per process: np in fork and clone
          left        \* per process: n - (ticks - ticks0) in sys_sleep

table == <<state, pid, parent, chan, killed, pgdir>>
vars == <<table, nextpid, pgdirs, abandoned, ptlock, tickslock, cur, scan, pc, child, left>>

Places == {"user", "fork", "clone", "wait", "ticks", "sleep", "woken"}
States == {"UNUSED", "EMBRYO", "SLEEPING", "RUNNABLE", "RUNNING", "ZOMBIE"}

Held(c) == ptlock = c + 1
Slots(s) == {p \in Procs : state[p] = s}
Children(q) == {p \in Procs : parent[p] = q}

\* The timer interrupt's handler runs on CPU 0 and holds up what it interrupts.
InTimer(c) == c = 0 /\ tickslock = Ticks

\* CPU c executes process q at the given place.
On(c, q, place) ==
  /\ q # Nil /\ cur[c] = q /\ pc[q] = place /\ state[q] = "RUNNING"
  /\ ~Held(c) /\ ~InTimer(c)

\* A system call starts: trap() lets a killed process go no further than exit.
Syscall(c, q) == On(c, q, "user") /\ ~killed[q]

\* A loop over the table meets p first of all slots in S.
IsFirst(p, S) == p \in S /\ \A q \in S : p <= q

Goto(q, place) == pc' = [pc EXCEPT ![q] = place]

\* Every process asleep on channel ch, as wakeup1 leaves it.
wakeup1(ch, st) ==
  [p \in Procs |-> IF st[p] = "SLEEPING" /\ chan[p] = ch THEN "RUNNABLE" ELSE st[p]]

-----------------------------------------------------------------------------
\* userinit: only init exists.
Init ==
  /\ state = [p \in Procs |-> IF p = initproc THEN "RUNNABLE" ELSE "UNUSED"]
  /\ pid = [p \in Procs |-> IF p = initproc THEN 1 ELSE 0]
  /\ parent = [p \in Procs |-> Nil]
  /\ chan = [p \in Procs |-> Nil]
  /\ killed = [p \in Procs |-> FALSE]
  /\ pgdir = [p \in Procs |-> IF p = initproc THEN 1 ELSE Nil]
  /\ nextpid = 2
  /\ pgdirs = {1} /\ abandoned = {}
  /\ ptlock = Nil /\ tickslock = Nil
  /\ cur = [c \in CPUs |-> Nil]
  /\ scan = [c \in CPUs |-> 1]
  /\ pc = [p \in Procs |-> "user"]
  /\ child = [p \in Procs |-> Nil]
  /\ left = [p \in Procs |-> 0]

\* Faulty variant: the scan starts over after every process.
After_First(p) == 1

After(p) == p + 1

\* The scheduler's loop: run the next RUNNABLE slot with ptable.lock held, or
\* release the lock at the end of the table.
scheduler(c) ==
  LET ready == {p \in Slots("RUNNABLE") : p >= scan[c]}
  IN  /\ cur[c] = Nil /\ ~InTimer(c)
      /\ ptlock = Nil \/ Held(c)
      /\ \/ /\ \E p \in ready :
                 /\ IsFirst(p, ready)
                 /\ cur' = [cur EXCEPT ![c] = p]
                 /\ state' = [state EXCEPT ![p] = "RUNNING"]
                 /\ scan' = [scan EXCEPT ![c] = After(p)]
            /\ ptlock' = c + 1
         \/ /\ ready = {} /\ Held(c)
            /\ scan' = [scan EXCEPT ![c] = 1]
            /\ ptlock' = Nil
            /\ UNCHANGED <<cur, state>>
      /\ UNCHANGED <<pid, parent, chan, killed, pgdir, nextpid, pgdirs, abandoned, tickslock,
                     pc, child, left>>

\* sched: leave the process's stack for the scheduler's, still holding the lock.
sched(c) ==
  /\ cur[c] # Nil /\ Held(c)
  /\ state[cur[c]] # "RUNNING"
  /\ cur' = [cur EXCEPT ![c] = Nil]
  /\ UNCHANGED <<table, nextpid, pgdirs, abandoned, ptlock, tickslock, scan, pc, child, left>>

\* A process that is switched to releases ptable.lock: in forkret, at the end
\* of yield, or in sleep, which clears chan and goes on to take its lock again.
Resume(c) ==
  LET q == cur[c]
  IN  /\ q # Nil /\ Held(c)
      /\ state[q] = "RUNNING" /\ pc[q] # "wait"
      /\ chan' = [chan EXCEPT ![q] = Nil]
      /\ ptlock' = Nil
      /\ UNCHANGED <<state, pid, parent, killed, pgdir, nextpid, pgdirs, abandoned, tickslock,
                     cur, scan, pc, child, left>>

\* Faulty variant: yield marks the process RUNNABLE without the lock.
YieldLock_None(c) == Nil

YieldLock(c) == c + 1

\* The timer interrupt preempts user code, and kernel code that holds no lock.
yield(c, q) ==
  /\ \E place \in {"user", "fork", "clone", "woken"} : On(c, q, place)
  /\ ptlock = Nil
  /\ state' = [state EXCEPT ![q] = "RUNNABLE"]
  /\ ptlock' = YieldLock(c)
  /\ UNCHANGED <<pid, parent, chan, killed, pgdir, nextpid, pgdirs, abandoned, tickslock, cur,
                 scan, pc, child, left>>

\* allocproc takes the first UNUSED slot; the rest of fork and clone follows
\* with the lock released.
allocproc(c, q, call) ==
  /\ Syscall(c, q)
  /\ ptlock = Nil
  /\ nextpid <= MaxPid
  /\ \E np \in Slots("UNUSED") :
       /\ IsFirst(np, Slots("UNUSED"))
       /\ state' = [state EXCEPT ![np] = "EMBRYO"]
       /\ pid' = [pid EXCEPT ![np] = nextpid]
       /\ child' = [child EXCEPT ![q] = np]
  /\ nextpid' = nextpid + 1
  /\ Goto(q, call)
  /\ UNCHANGED <<parent, chan, killed, pgdir, pgdirs, abandoned, ptlock, tickslock, cur, scan, left>>

\* kalloc fails or, in fork, copyuvm does, and the slot is given back.  (If it
\* were init's slot, init.c would exit, and exit would panic.)
ForkFails(c, q, call) ==
  /\ On(c, q, call) /\ q # initproc
  /\ state' = [state EXCEPT ![child[q]] = "UNUSED"]
  /\ \/ UNCHANGED pgdir
     \/ call = "fork" /\ pgdir' = [pgdir EXCEPT ![child[q]] = Nil]
  /\ child' = [child EXCEPT ![q] = Nil]
  /\ Goto(q, "user")
  /\ UNCHANGED <<pid, parent, chan, killed, nextpid, pgdirs, abandoned, ptlock, tickslock, cur,
                 scan, left>>

\* The child is complete: its page directory is d, its parent the caller.  (The
\* code sets them one by one; nothing looks at them while it is an EMBRYO with
\* no children.)
Spawn(c, q, call, d) ==
  /\ On(c, q, call)
  /\ state' = [state EXCEPT ![child[q]] = "RUNNABLE"]
  /\ pgdir' = [pgdir EXCEPT ![child[q]] = d]
  /\ parent' = [parent EXCEPT ![child[q]] = q]
  /\ pc' = [pc EXCEPT ![child[q]] = "user", ![q] = "user"]
  /\ pgdirs' = pgdirs \cup {d}
  /\ child' = [child EXCEPT ![q] = Nil]
  /\ UNCHANGED <<pid, chan, killed, nextpid, abandoned, ptlock, tickslock, cur, scan, left>>

\* fork copies the address space into a page directory of its own.
fork(c, q) ==
  \E d \in Procs \ pgdirs : IsFirst(d, Procs \ pgdirs) /\ Spawn(c, q, "fork", d)

\* clone shares the caller's.
clone(c, q) == Spawn(c, q, "clone", pgdir[q])

\* Faulty variant: the parent is not told.
Woken_Not(q) == state

\* "Parent might be sleeping in wait()."
Woken(q) == wakeup1(parent[q], state)

\* A zombie among the abandoned children: init may be asleep in wait.
Inherited(q) == \E p \in Children(q) : state[p] = "ZOMBIE"

Reparented(q) == [p \in Procs |-> IF parent[p] = q THEN initproc ELSE parent[p]]

\* The threads it has not joined.
Threads(q) == {p \in Children(q) : pgdir[p] = pgdir[q]}

\* exit, called by the program or by trap() once the process is killed.
exit(c, q) ==
  /\ On(c, q, "user") /\ q # initproc
  /\ ptlock = Nil
  /\ LET told == IF Inherited(q) THEN wakeup1(initproc, Woken(q)) ELSE Woken(q)
     IN  state' = [told EXCEPT ![q] = "ZOMBIE"]
  /\ parent' = Reparented(q)
  /\ abandoned' = abandoned \cup {pgdir[p] : p \in Threads(q)}
  /\ ptlock' = c + 1
  /\ UNCHANGED <<pid, chan, killed, pgdir, nextpid, pgdirs, tickslock, cur, scan,
                 pc, child, left>>

-----------------------------------------------------------------------------
wait(c, q) ==
  /\ Syscall(c, q)
  /\ ptlock = Nil
  /\ ptlock' = c + 1
  /\ Goto(q, "wait")
  /\ UNCHANGED <<table, nextpid, pgdirs, abandoned, tickslock, cur, scan, child, left>>

\* wait's loop body, on entry and whenever the sleeper is switched to again.
InWait(c, q) ==
  cur[c] = q /\ q # Nil /\ Held(c) /\ state[q] = "RUNNING" /\ pc[q] = "wait"

Zombies(q) == {p \in Children(q) : state[p] = "ZOMBIE"}

\* Faulty variant: the page directory of a thread is freed with the thread.
Freed_Always(p, q) == {pgdir[p]}

\* "only free pgdir if zombie process is not a thread of the parent"
Freed(p, q) == IF pgdir[p] # pgdir[q] THEN {pgdir[p]} ELSE {}

\* Found one: give back its kernel stack, its page directory and its slot.
WaitReaps(c, q) ==
  /\ InWait(c, q)
  /\ \E p \in Zombies(q) :
       /\ IsFirst(p, Zombies(q))
       /\ state' = [state EXCEPT ![p] = "UNUSED"]
       /\ pid' = [pid EXCEPT ![p] = 0]
       /\ parent' = [parent EXCEPT ![p] = Nil]
       /\ killed' = [killed EXCEPT ![p] = FALSE]
       /\ pgdirs' = pgdirs \ Freed(p, q)
  /\ chan' = [chan EXCEPT ![q] = Nil]
  /\ ptlock' = Nil
  /\ Goto(q, "user")
  /\ UNCHANGED <<pgdir, nextpid, abandoned, tickslock, cur, scan, child, left>>

\* No children, or killed: return -1.
WaitFails(c, q) ==
  /\ InWait(c, q)
  /\ Zombies(q) = {}
  /\ Children(q) = {} \/ killed[q]
  /\ chan' = [chan EXCEPT ![q] = Nil]
  /\ ptlock' = Nil
  /\ Goto(q, "user")
  /\ UNCHANGED <<state, pid, parent, killed, pgdir, nextpid, pgdirs, abandoned, tickslock, cur,
                 scan, child, left>>

\* sleep(proc, &ptable.lock).
WaitSleeps(c, q) ==
  /\ InWait(c, q)
  /\ Zombies(q) = {} /\ Children(q) # {} /\ ~killed[q]
  /\ chan' = [chan EXCEPT ![q] = q]
  /\ state' = [state EXCEPT ![q] = "SLEEPING"]
  /\ UNCHANGED <<pid, parent, killed, pgdir, nextpid, pgdirs, abandoned, ptlock, tickslock, cur,
                 scan, pc, child, left>>

\* kill marks the first slot with that pid, whatever its state.
kill(c, q, k) ==
  /\ Syscall(c, q)
  /\ ptlock = Nil
  /\ \E p \in Procs :
       /\ IsFirst(p, {r \in Procs : pid[r] = k})
       /\ killed' = [killed EXCEPT ![p] = TRUE]
       /\ state' = [state EXCEPT ![p] = IF @ = "SLEEPING" THEN "RUNNABLE" ELSE @]
  /\ UNCHANGED <<pid, parent, chan, pgdir, nextpid, pgdirs, abandoned, ptlock, tickslock,
                 cur, scan, pc, child, left>>

-----------------------------------------------------------------------------
\* Faulty variant: ticks is read without tickslock.
Locker_None(q) == Nil

Locker(q) == q

\* sys_sleep(n) takes tickslock and reads ticks0.
sys_sleep(c, q, n) ==
  /\ Syscall(c, q) /\ q # initproc
  /\ tickslock = Nil
  /\ tickslock' = Locker(q)
  /\ left' = [left EXCEPT ![q] = n]
  /\ Goto(q, "ticks")
  /\ UNCHANGED <<table, nextpid, pgdirs, abandoned, ptlock, cur, scan, child>>

\* Its loop ends: n ticks have passed, or the process was killed.
SleepReturns(c, q) ==
  /\ On(c, q, "ticks")
  /\ left[q] = 0 \/ killed[q]
  /\ left' = [left EXCEPT ![q] = 0]
  /\ tickslock' = Nil
  /\ Goto(q, "user")
  /\ UNCHANGED <<table, nextpid, pgdirs, abandoned, ptlock, cur, scan, child>>

SleepTests(c, q) ==
  /\ On(c, q, "ticks")
  /\ left[q] > 0 /\ ~killed[q]
  /\ Goto(q, "sleep")
  /\ UNCHANGED <<table, nextpid, pgdirs, abandoned, ptlock, tickslock, cur, scan, child, left>>

\* sleep(&ticks, &tickslock): ptable.lock first, then tickslock is released.
sleep(c, q) ==
  /\ On(c, q, "sleep")
  /\ ptlock = Nil
  /\ ptlock' = c + 1
  /\ tickslock' = Nil
  /\ chan' = [chan EXCEPT ![q] = Ticks]
  /\ state' = [state EXCEPT ![q] = "SLEEPING"]
  /\ Goto(q, "woken")
  /\ UNCHANGED <<pid, parent, killed, pgdir, nextpid, pgdirs, abandoned, cur, scan, child, left>>

\* The end of sleep: tickslock again, and back to the test.
Reacquire(c, q) ==
  /\ On(c, q, "woken")
  /\ tickslock = Nil
  /\ tickslock' = Locker(q)
  /\ Goto(q, "ticks")
  /\ UNCHANGED <<table, nextpid, pgdirs, abandoned, ptlock, cur, scan, child, left>>

\* The timer interrupt on CPU 0, which runs when that CPU holds no lock.
TimerTicks ==
  /\ MaxSleep > 0
  /\ tickslock = Nil /\ ~Held(0)
  /\ tickslock' = Ticks
  /\ left' = [p \in Procs |-> IF left[p] = 0 THEN 0 ELSE left[p] - 1]
  /\ UNCHANGED <<table, nextpid, pgdirs, abandoned, ptlock, cur, scan, pc, child>>

\* Faulty variant: the handler wakes nobody.
TimerWakes_Silent ==
  /\ tickslock = Ticks
  /\ ptlock = Nil
  /\ tickslock' = Nil
  /\ UNCHANGED <<table, nextpid, pgdirs, abandoned, ptlock, cur, scan, pc, child, left>>

TimerWakes ==
  /\ tickslock = Ticks
  /\ ptlock = Nil
  /\ state' = wakeup1(Ticks, state)
  /\ tickslock' = Nil
  /\ UNCHANGED <<pid, parent, chan, killed, pgdir, nextpid, pgdirs, abandoned, ptlock, cur, scan,
                 pc, child, left>>

-----------------------------------------------------------------------------
Switch(c) == scheduler(c) \/ sched(c) \/ Resume(c)

\* What a process does next inside a system call.
Continue(c, q) ==
  \/ fork(c, q) \/ ForkFails(c, q, "fork")
  \/ clone(c, q) \/ ForkFails(c, q, "clone")
  \/ WaitReaps(c, q) \/ WaitFails(c, q) \/ WaitSleeps(c, q)
  \/ SleepReturns(c, q) \/ SleepTests(c, q) \/ sleep(c, q) \/ Reacquire(c, q)

\* What programs ask for.
Request(c, q) ==
  \/ allocproc(c, q, "fork")
  \/ CanClone /\ q # initproc /\ allocproc(c, q, "clone")
  \/ exit(c, q) \/ wait(c, q)
  \/ \E k \in KillArgs : kill(c, q, k)
  \/ \E n \in 1..MaxSleep : sys_sleep(c, q, n)

Timer == TimerTicks \/ TimerWakes

Next ==
  \/ \E c \in CPUs : Switch(c)
  \/ \E c \in CPUs, q \in Procs : Continue(c, q) \/ Request(c, q) \/ yield(c, q)
  \/ Timer

Spec == Init /\ [][Next]_vars

\* What a process does without being asked: finish its system call, go back
\* to wait if it is init (init.c), exit if it is killed (trap.c).
Due(c, q) ==
  \/ Continue(c, q)
  \/ q = initproc /\ wait(c, q)
  \/ killed[q] /\ exit(c, q)

\* Every CPU keeps executing and executes instructions, of the scheduler or of
\* the process it runs, between two timer interrupts; interrupts keep coming.
FairSpec ==
  /\ Spec
  /\ \A c \in CPUs : SF_vars(Switch(c))
  /\ \A c \in CPUs, q \in Procs : SF_vars(Due(c, q)) /\ SF_vars(yield(c, q))
  /\ SF_vars(TimerTicks) /\ WF_vars(TimerWakes)

-----------------------------------------------------------------------------
Alive(p) == state[p] \notin {"UNUSED", "EMBRYO"}

\* The variables have their types, and pids stay below nextpid.
TypeOK ==
  /\ state \in [Procs -> States]
  /\ nextpid \in 1..MaxPid + 1 /\ pid \in [Procs -> 0..nextpid - 1]
  /\ parent \in [Procs -> Procs \cup {Nil}]
  /\ chan \in [Procs -> Procs \cup {Nil, Ticks}]
  /\ killed \in [Procs -> BOOLEAN]
  /\ pgdir \in [Procs -> Procs \cup {Nil}] /\ pgdirs \cup abandoned \subseteq Procs
  /\ ptlock \in {Nil} \cup {c + 1 : c \in CPUs}
  /\ tickslock \in Procs \cup {Nil, Ticks}
  /\ cur \in [CPUs -> Procs \cup {Nil}]
  /\ scan \in [CPUs -> 1..NPROC + 1]
  /\ pc \in [Procs -> Places]
  /\ child \in [Procs -> Procs \cup {Nil}]
  /\ left \in [Procs -> 0..MaxSleep]

\* The stacks CPUs are on: a process is on one, and one at most, while it is
\* RUNNING, and in another state only as long as its CPU holds ptable.lock.
StackInv ==
  /\ \A c, d \in CPUs : cur[c] = cur[d] /\ cur[c] # Nil => c = d
  /\ \A p \in Slots("RUNNING") : \E c \in CPUs : cur[c] = p
  /\ \A c \in CPUs : cur[c] # Nil => /\ Alive(cur[c])
                                     /\ state[cur[c]] = "RUNNING" \/ Held(c)

\* ptable.lock is held until the switch is over: no two CPUs are ever on one
\* kernel stack, no RUNNING process is on none, and wait never frees the stack
\* that an exiting process is still on.
OneCpuPerStack == TypeOK /\ StackInv

\* wait loses no wakeup and exit leaves no orphan: a process asleep in wait has
\* children and none of them is a zombie, whichever order they exited in and
\* whoever had them before; every process but init has a parent that can still
\* wait for it, and a slot that is not in use has none.
FamiliesIntact ==
  /\ \A q \in Slots("SLEEPING") :
       pc[q] = "wait" => Children(q) # {} /\ Zombies(q) = {}
  /\ \A p \in Procs \ {initproc} :
       IF Alive(p) THEN /\ parent[p] # Nil
                        /\ state[parent[p]] \in {"RUNNING", "RUNNABLE", "SLEEPING"}
                   ELSE parent[p] = Nil

\* sleep loses no tick: outside the timer handler nobody is asleep whose n ticks
\* have passed.
SleepersNotDue ==
  tickslock # Ticks =>
    \A q \in Slots("SLEEPING") : pc[q] = "woken" => left[q] > 0

\* The page directories allocated are exactly those of the processes there are:
\* none is freed while a thread runs on it, freed twice, or leaked.  wait compares
\* with the reaping parent only, so this fails for a directory whose process
\* exited before its threads, and for no other.
PgdirsExact ==
  \A d \in Procs \ abandoned :
    d \in pgdirs <=> \E p \in Procs : Alive(p) /\ pgdir[p] = d

\* kill marks the process with the given pid and no other: a process that has
\* just got its pid is not marked.
BornUnkilled ==
  [][\A p \in Procs : state[p] = "UNUSED" /\ state'[p] = "EMBRYO" => ~killed'[p]]_vars

\* Orphans are reaped: a zombie that is init's child gives up its slot.
ZombiesReaped ==
  \A p \in Procs :
    (state[p] = "ZOMBIE" /\ parent[p] = initproc) ~> state[p] = "UNUSED"

\* Round robin starves nobody: a RUNNABLE process gets a CPU.
RunnableRuns == \A p \in Procs : state[p] = "RUNNABLE" ~> state[p] = "RUNNING"

\* sys_sleep comes back once its ticks have passed.
SleepEnds == \A p \in Procs : pc[p] = "woken" ~> pc[p] = "user"
=============================================================================
