---------------------------- MODULE Proc_proofs -----------------------------
(***************************************************************************)
(* Safety of the process table, for any number of slots and CPUs.          *)
(*                                                                         *)
(* The properties are not inductive as they stand. That no two CPUs share  *)
(* a stack needs to know that a slot being filled by fork is nobody else's *)
(* (EmbryoInv), that no sleeper misses a zombie needs what sleepers sleep  *)
(* on (ChanInv) and that init stays and nobody is their own parent         *)
(* (KinInv), and that no tick is missed needs who holds tickslock          *)
(* (TicksInv).                                                             *)
(*                                                                         *)
(* That wait frees a page directory with its last user, unless its process *)
(* exited before its threads, is proved last: the sharers of all others    *)
(* are related (ThreadInv).                                                *)
(***************************************************************************)
EXTENDS Proc, TLAPS, NaturalsInduction, WellFoundedInduction

USE ZenonT(30), SMT

Forking(q) == pc[q] \in {"fork", "clone"}

\* The slot a fork or clone is filling is an EMBRYO that is nobody else's.
EmbryoInv ==
  /\ \A q \in Procs : Forking(q) => /\ state[q] \in {"RUNNING", "RUNNABLE"}
                                    /\ child[q] \in Procs /\ state[child[q]] = "EMBRYO"
  /\ \A q, r \in Procs : Forking(q) /\ Forking(r) /\ q # r => child[q] # child[r]

\* Whoever exists has an address space.
SpaceInv == \A p \in Procs : Alive(p) => pgdir[p] # Nil

\* A sleeper sleeps in wait, on itself, or in sys_sleep, on &ticks.
ChanInv ==
  \A q \in Slots("SLEEPING") : \/ pc[q] = "wait" /\ chan[q] = q
                               \/ pc[q] = "woken" /\ chan[q] = Ticks

\* init is always there, has no parent, and nobody is their own.
KinInv ==
  /\ state[initproc] \in {"RUNNING", "RUNNABLE", "SLEEPING"} /\ parent[initproc] = Nil
  /\ \A p \in Procs : parent[p] # p

\* From sys_sleep's test to the end of its sleep tickslock keeps the timer out.
TicksInv ==
  \A q \in Procs : /\ pc[q] \in {"ticks", "sleep"} => tickslock = q
                   /\ pc[q] = "sleep" => left[q] > 0

IndInv ==
  /\ TypeOK
  /\ StackInv
  /\ EmbryoInv
  /\ SpaceInv
  /\ ChanInv
  /\ KinInv
  /\ TicksInv
  /\ FamiliesIntact
  /\ SleepersNotDue

-----------------------------------------------------------------------------
\* What the proofs use of the numbers that stand for slots, locks and CPUs.
LEMMA Numbers ==
  /\ Procs \subseteq Nat /\ initproc \in Procs
  /\ Nil \notin Procs /\ Ticks \notin Procs /\ Nil # Ticks
  /\ 0 \in CPUs /\ \A c \in CPUs : c \in Nat /\ c + 1 # Nil
  /\ \A c, d \in CPUs : c + 1 = d + 1 => c = d
  /\ \A p \in Procs : p + 1 \in 1..NPROC + 1
  /\ 1 \in 1..NPROC + 1 /\ 0 \in 0..MaxSleep /\ MaxSleep \in Nat
BY ProcConstants, SMT DEF Procs, Nil, Ticks, initproc

-----------------------------------------------------------------------------
\* The types the proofs below use, one variable at a time.
LEMMA Typed ==
  ASSUME IndInv
  PROVE  /\ state \in [Procs -> States]
         /\ pc \in [Procs -> Places]
         /\ cur \in [CPUs -> Procs \cup {Nil}]
BY DEF IndInv, TypeOK

LEMMA Kin ==
  ASSUME IndInv
  PROVE  /\ parent \in [Procs -> Procs \cup {Nil}]
         /\ chan \in [Procs -> Procs \cup {Nil, Ticks}]
         /\ child \in [Procs -> Procs \cup {Nil}]
BY DEF IndInv, TypeOK

Live == {"RUNNING", "RUNNABLE", "SLEEPING"}

\* A step that creates and ends no process and starts no fork.
Calm ==
  /\ UNCHANGED <<pid, parent, pgdir, pgdirs, abandoned, child>>
  /\ \A p \in Procs : state'[p] = state[p] \/ (state[p] \in Live /\ state'[p] \in Live)
  /\ \A p \in Procs : Forking(p)' => pc'[p] = pc[p]

\* A step in which nobody falls asleep and no sleeper moves.
NoneSleeps ==
  \A p \in Procs : state'[p] = "SLEEPING" =>
    state[p] = "SLEEPING" /\ pc'[p] = pc[p] /\ chan'[p] = chan[p]

\* A step that sys_sleep and the timer have no part in.
Untimed ==
  /\ UNCHANGED <<tickslock, left>>
  /\ \A p \in Procs : pc'[p] \in {"ticks", "sleep"} => pc'[p] = pc[p]
  /\ \A p \in Procs : state'[p] = "SLEEPING" /\ pc'[p] = "woken" =>
                        state[p] = "SLEEPING" /\ pc[p] = "woken"

\* Who is alive after a calm step was alive before it.
LEMMA CalmAlive ==
  ASSUME Calm, NEW p \in Procs
  PROVE  /\ Alive(p)' <=> Alive(p)
         /\ state'[p] = "ZOMBIE" <=> state[p] = "ZOMBIE"
         /\ state[p] \in Live => state'[p] \in Live
BY DEF Calm, Live, Alive

\* A calm step keeps slots, address spaces and parents as they are.
LEMMA CalmInd ==
  ASSUME IndInv, Calm, \A p \in Procs : state'[p] = "SLEEPING" => ~Forking(p)'
  PROVE  EmbryoInv' /\ SpaceInv' /\ KinInv'
<1>1. EmbryoInv'
  <2>1. ASSUME NEW q \in Procs, Forking(q)'
        PROVE  Forking(q) /\ state'[q] \in {"RUNNING", "RUNNABLE"}
    <3>1. Forking(q) /\ state'[q] # "SLEEPING"
      BY <2>1 DEF Calm, Forking
    <3>2. state[q] \in {"RUNNING", "RUNNABLE"}
      BY <3>1 DEF IndInv, EmbryoInv
    <3>3. QED
      BY <3>1, <3>2 DEF Calm, Live
  <2>2. \A p \in Procs : state[p] = "EMBRYO" => state'[p] = "EMBRYO"
    BY DEF Calm, Live
  <2>3. child' = child
    BY DEF Calm
  <2>4. QED
    BY <2>1, <2>2, <2>3 DEF IndInv, EmbryoInv
<1>2. SpaceInv'
  BY CalmAlive DEF IndInv, SpaceInv, Calm
<1>3. KinInv'
  BY CalmAlive, Numbers DEF IndInv, KinInv, Calm, Live
<1>4. QED
  BY <1>1, <1>2, <1>3

\* Every process keeps a parent that can wait for it.
LEMMA CalmParents ==
  ASSUME IndInv, Calm, NEW p \in Procs \ {initproc}
  PROVE  IF Alive(p)' THEN parent'[p] # Nil /\ state'[parent'[p]] \in Live
                     ELSE parent'[p] = Nil
<1>1. parent' = parent /\ parent[p] \in Procs \cup {Nil} /\ (Alive(p)' <=> Alive(p))
  BY CalmAlive, Kin DEF Calm
<1>2. IF Alive(p) THEN parent[p] # Nil /\ state[parent[p]] \in Live
                  ELSE parent[p] = Nil
  BY DEF IndInv, FamiliesIntact, Live
<1>3. QED
  BY <1>1, <1>2, CalmAlive

\* A calm step in which nobody falls asleep loses no wakeup either.
LEMMA QuietInd ==
  ASSUME IndInv, Calm, NoneSleeps
  PROVE  EmbryoInv' /\ SpaceInv' /\ KinInv' /\ ChanInv' /\ FamiliesIntact'
<1>1. ASSUME NEW p \in Procs, state'[p] = "SLEEPING" PROVE ~Forking(p)'
  <2>1. state[p] = "SLEEPING" /\ pc'[p] = pc[p]
    BY <1>1 DEF NoneSleeps
  <2>2. ~Forking(p)
    BY <2>1 DEF IndInv, EmbryoInv
  <2>3. QED
    BY <2>1, <2>2 DEF Forking
<1>2. ChanInv'
  BY DEF IndInv, ChanInv, NoneSleeps, Slots
<1>3. ASSUME NEW q \in Procs, state'[q] = "SLEEPING", pc'[q] = "wait"
      PROVE  Children(q)' # {} /\ Zombies(q)' = {}
  <2>1. Children(q) # {} /\ Zombies(q) = {}
    BY <1>3 DEF NoneSleeps, IndInv, FamiliesIntact, Slots
  <2>2. Children(q)' = Children(q)
    BY DEF Calm, Children
  <2>3. Zombies(q)' = Zombies(q)
    BY <2>2, CalmAlive DEF Zombies, Children
  <2>4. QED
    BY <2>1, <2>2, <2>3
<1>4. FamiliesIntact'
  BY <1>3, CalmParents DEF FamiliesIntact, Slots, Live
<1>5. QED
  BY <1>1, <1>2, <1>4, CalmInd

LEMMA UntimedInd ==
  ASSUME IndInv, Untimed
  PROVE  TicksInv' /\ SleepersNotDue'
<1>1. TicksInv'
  BY DEF IndInv, TicksInv, Untimed
<1>2. SleepersNotDue'
  BY DEF IndInv, SleepersNotDue, Untimed, Slots
<1>3. QED
  BY <1>1, <1>2

LEMMA StackKept ==
  ASSUME IndInv, UNCHANGED <<state, cur, ptlock>>
  PROVE  StackInv'
BY DEF IndInv, StackInv, Slots, Alive, Held

\* While nobody or c holds ptable.lock, whoever else is on a CPU is RUNNING.
LEMMA OthersRun ==
  ASSUME IndInv, NEW c \in CPUs, ptlock = Nil \/ Held(c),
         NEW d \in CPUs, d # c, cur[d] # Nil
  PROVE  cur[d] \in Procs /\ state[cur[d]] = "RUNNING" /\ cur[d] # cur[c] /\ Alive(cur[d])
<1>1. cur[d] \in Procs
  BY Typed
<1>2. ~Held(d)
  BY Numbers DEF Held
<1>3. QED
  BY <1>1, <1>2 DEF IndInv, StackInv

\* A step of the process on c, which may stop running while c keeps the lock.
LEMMA StackStays ==
  ASSUME IndInv, NEW c \in CPUs, ptlock = Nil \/ Held(c), cur' = cur,
         \A p \in Procs : state'[p] = "RUNNING" => state[p] = "RUNNING",
         \A p \in Procs : state[p] = "RUNNING" /\ p # cur[c] => state'[p] = "RUNNING",
         cur[c] # Nil => Alive(cur[c])' /\ (state'[cur[c]] = "RUNNING" \/ Held(c)')
  PROVE  StackInv'
<1>1. ASSUME NEW d \in CPUs, cur[d] # Nil
      PROVE  Alive(cur[d])' /\ (state'[cur[d]] = "RUNNING" \/ Held(d)')
  <2>1. CASE d = c
    BY <1>1, <2>1
  <2>2. CASE d # c
    <3>1. state'[cur[d]] = "RUNNING"
      BY <1>1, <2>2, OthersRun
    <3>2. QED
      BY <3>1 DEF Alive
  <2>3. QED
    BY <2>1, <2>2
<1>2. QED
  BY <1>1 DEF IndInv, StackInv, Slots

\* Who has a parent.
LEMMA Parented ==
  ASSUME IndInv, NEW p \in Procs \ {initproc}
  PROVE  /\ parent[p] \in Procs \cup {Nil}
         /\ IF Alive(p) THEN parent[p] # Nil /\ state[parent[p]] \in Live
                        ELSE parent[p] = Nil
BY Kin DEF IndInv, FamiliesIntact, Live

\* What the lemmas above leave to show of an action.
LEMMA Together ==
  ASSUME IndInv, TypeOK', StackInv', Calm, NoneSleeps, Untimed
  PROVE  IndInv'
BY QuietInd, UntimedInd DEF IndInv

-----------------------------------------------------------------------------
\* One lemma per action; a calm one also says that it is calm.
LEMMA RunInd ==
  ASSUME IndInv, NEW c \in CPUs, NEW p \in Procs, state[p] = "RUNNABLE",
         cur[c] = Nil, ptlock = Nil \/ Held(c),
         cur' = [cur EXCEPT ![c] = p],
         state' = [state EXCEPT ![p] = "RUNNING"],
         scan' = [scan EXCEPT ![c] = p + 1],
         ptlock' = c + 1,
         UNCHANGED <<pid, parent, chan, killed, pgdir, nextpid, pgdirs, abandoned, tickslock,
                     pc, child, left>>
  PROVE  IndInv' /\ Calm
<1>1. TypeOK'
  BY Numbers DEF IndInv, TypeOK, States
<1>2. StackInv'
  BY Numbers, Typed, SMT DEF IndInv, StackInv, Alive, Slots, Held
<1>3. Calm /\ NoneSleeps /\ Untimed
  BY Typed DEF Calm, NoneSleeps, Untimed, Live
<1>4. QED
  BY <1>1, <1>2, <1>3, Together

LEMMA SchedulerInd ==
  ASSUME IndInv, NEW c \in CPUs, scheduler(c)
  PROVE  IndInv' /\ Calm
<1> DEFINE ready == {p \in Slots("RUNNABLE") : p >= scan[c]}
<1>1. CASE ready # {}
  BY <1>1, RunInd DEF scheduler, After, Slots
<1>2. CASE ready = {}
  <2>1. cur[c] = Nil /\ Held(c) /\ ptlock' = Nil /\ scan' = [scan EXCEPT ![c] = 1]
    BY <1>2 DEF scheduler
  <2>2. UNCHANGED <<state, pid, parent, chan, killed, pgdir, nextpid, pgdirs, abandoned, tickslock,
                    cur, pc, child, left>>
    BY <1>2 DEF scheduler
  <2>3. TypeOK'
    BY <2>1, <2>2, Numbers DEF IndInv, TypeOK
  <2>4. StackInv'
    BY <2>1, <2>2, Numbers, Typed DEF IndInv, StackInv, Alive, Slots, Held
  <2>5. Calm /\ NoneSleeps /\ Untimed
    BY <2>2 DEF Calm, NoneSleeps, Untimed
  <2>6. QED
    BY <2>3, <2>4, <2>5, Together
<1>3. QED
  BY <1>1, <1>2

LEMMA SchedInd ==
  ASSUME IndInv, NEW c \in CPUs, sched(c)
  PROVE  IndInv' /\ Calm
<1>1. /\ cur[c] # Nil /\ Held(c) /\ state[cur[c]] # "RUNNING"
      /\ cur' = [cur EXCEPT ![c] = Nil]
      /\ UNCHANGED <<state, pid, parent, chan, killed, pgdir, nextpid, pgdirs, abandoned, ptlock,
                     tickslock, scan, pc, child, left>>
  BY DEF sched, table
<1>2. TypeOK'
  BY <1>1 DEF IndInv, TypeOK
<1>3. StackInv'
  BY <1>1, Typed DEF IndInv, StackInv, Alive, Slots, Held
<1>4. Calm /\ NoneSleeps /\ Untimed
  BY <1>1 DEF Calm, NoneSleeps, Untimed
<1>5. QED
  BY <1>2, <1>3, <1>4, Together

LEMMA ResumeInd ==
  ASSUME IndInv, NEW c \in CPUs, Resume(c)
  PROVE  IndInv' /\ Calm
<1>1. PICK q \in Procs : q = cur[c]
  BY Typed DEF Resume
<1>2. /\ Held(c) /\ state[q] = "RUNNING"
      /\ chan' = [chan EXCEPT ![q] = Nil] /\ ptlock' = Nil
      /\ UNCHANGED <<state, pid, parent, killed, pgdir, nextpid, pgdirs, abandoned, tickslock,
                     cur, scan, pc, child, left>>
  BY <1>1 DEF Resume
<1>3. TypeOK'
  BY <1>2 DEF IndInv, TypeOK
<1>4. StackInv'
  <2>1. Alive(q)' /\ state'[q] = "RUNNING"
    BY <1>2 DEF Alive
  <2>2. QED
    BY <1>1, <1>2, <2>1, StackStays
<1>5. Calm /\ NoneSleeps /\ Untimed
  BY <1>2, Kin DEF Calm, NoneSleeps, Untimed
<1>6. QED
  BY <1>3, <1>4, <1>5, Together

LEMMA YieldInd ==
  ASSUME IndInv, NEW c \in CPUs, NEW q \in Procs, yield(c, q)
  PROVE  IndInv' /\ Calm
<1>1. /\ cur[c] = q /\ state[q] = "RUNNING" /\ ptlock = Nil /\ ptlock' = c + 1
      /\ state' = [state EXCEPT ![q] = "RUNNABLE"]
      /\ UNCHANGED <<pid, parent, chan, killed, pgdir, nextpid, pgdirs, abandoned, tickslock, cur,
                     scan, pc, child, left>>
  BY DEF yield, On, YieldLock
<1>2. TypeOK'
  BY <1>1 DEF IndInv, TypeOK, States
<1>3. StackInv'
  <2>1. state'[q] = "RUNNABLE" /\ Held(c)' /\ \A p \in Procs : p # q => state'[p] = state[p]
    BY <1>1, Typed DEF Held
  <2>2. QED
    BY <1>1, <2>1, StackStays DEF Alive
<1>4. Calm /\ NoneSleeps /\ Untimed
  BY <1>1, Typed DEF Calm, NoneSleeps, Untimed, Live
<1>5. QED
  BY <1>2, <1>3, <1>4, Together

LEMMA WaitInd ==
  ASSUME IndInv, NEW c \in CPUs, NEW q \in Procs, wait(c, q)
  PROVE  IndInv' /\ Calm
<1>1. /\ state[q] = "RUNNING" /\ ptlock = Nil /\ ptlock' = c + 1
      /\ pc' = [pc EXCEPT ![q] = "wait"]
      /\ UNCHANGED <<state, pid, parent, chan, killed, pgdir, nextpid, pgdirs, abandoned,
                     tickslock, cur, scan, child, left>>
  BY DEF wait, Syscall, On, Goto, table
<1>2. TypeOK'
  BY <1>1 DEF IndInv, TypeOK, Places
<1>3. StackInv'
  BY <1>1, Numbers, Typed DEF IndInv, StackInv, Alive, Slots, Held
<1>4. Calm /\ NoneSleeps /\ Untimed
  BY <1>1, Typed DEF Calm, NoneSleeps, Untimed, Forking
<1>5. QED
  BY <1>2, <1>3, <1>4, Together

LEMMA WaitFailsInd ==
  ASSUME IndInv, NEW c \in CPUs, NEW q \in Procs, WaitFails(c, q)
  PROVE  IndInv' /\ Calm
<1>1. /\ cur[c] = q /\ Held(c) /\ state[q] = "RUNNING" /\ ptlock' = Nil
      /\ chan' = [chan EXCEPT ![q] = Nil] /\ pc' = [pc EXCEPT ![q] = "user"]
      /\ UNCHANGED <<state, pid, parent, killed, pgdir, nextpid, pgdirs, abandoned, tickslock,
                     cur, scan, child, left>>
  BY DEF WaitFails, InWait, Goto
<1>2. TypeOK'
  BY <1>1 DEF IndInv, TypeOK, Places
<1>3. StackInv'
  <2>1. Alive(q)' /\ state'[q] = "RUNNING"
    BY <1>1 DEF Alive
  <2>2. QED
    BY <1>1, <2>1, StackStays
<1>4. Calm /\ NoneSleeps /\ Untimed
  BY <1>1, Typed, Kin DEF Calm, NoneSleeps, Untimed, Forking
<1>5. QED
  BY <1>2, <1>3, <1>4, Together

LEMMA KillInd ==
  ASSUME IndInv, NEW c \in CPUs, NEW q \in Procs, NEW k \in Nat, kill(c, q, k)
  PROVE  IndInv' /\ Calm
<1>1. PICK p \in Procs :
        /\ killed' = [killed EXCEPT ![p] = TRUE]
        /\ state' = [state EXCEPT ![p] = IF @ = "SLEEPING" THEN "RUNNABLE" ELSE @]
  BY DEF kill
<1>2. UNCHANGED <<pid, parent, chan, pgdir, nextpid, pgdirs, abandoned, ptlock, tickslock,
                  cur, scan, pc, child, left>>
  BY DEF kill
<1>3. TypeOK'
  BY <1>1, <1>2 DEF IndInv, TypeOK, States
<1>4. StackInv'
  BY <1>1, <1>2, Typed DEF IndInv, StackInv, Alive, Slots, Held
<1>5. Calm /\ NoneSleeps /\ Untimed
  BY <1>1, <1>2, Typed DEF Calm, NoneSleeps, Untimed, Live
<1>6. QED
  BY <1>3, <1>4, <1>5, Together

-----------------------------------------------------------------------------
\* sys_sleep and the timer.
LEMMA Sys_sleepInd ==
  ASSUME IndInv, NEW c \in CPUs, NEW q \in Procs,
         NEW n \in 1..MaxSleep, sys_sleep(c, q, n)
  PROVE  IndInv' /\ Calm
<1>1. /\ state[q] = "RUNNING" /\ tickslock = Nil /\ tickslock' = q
      /\ left' = [left EXCEPT ![q] = n] /\ pc' = [pc EXCEPT ![q] = "ticks"]
      /\ UNCHANGED <<state, pid, parent, chan, killed, pgdir, nextpid, pgdirs, abandoned, ptlock,
                     cur, scan, child>>
  BY DEF sys_sleep, Syscall, On, Locker, Goto, table
<1>2. TypeOK'
  BY <1>1, Numbers, SMT DEF IndInv, TypeOK, Places
<1>3. Calm /\ NoneSleeps
  BY <1>1, Typed DEF Calm, NoneSleeps, Forking
<1>4. \A r \in Procs : r # q => left'[r] = left[r] /\ pc[r] \notin {"ticks", "sleep"}
  BY <1>1, Numbers DEF IndInv, TypeOK, TicksInv
<1>5. TicksInv' /\ SleepersNotDue'
  BY <1>1, <1>4, Typed, Numbers DEF IndInv, TicksInv, SleepersNotDue, Slots
<1>6. QED
  BY <1>1, <1>2, <1>3, <1>5, StackKept, QuietInd DEF IndInv

LEMMA SleepReturnsInd ==
  ASSUME IndInv, NEW c \in CPUs, NEW q \in Procs, SleepReturns(c, q)
  PROVE  IndInv' /\ Calm
<1>1. /\ pc[q] = "ticks" /\ state[q] = "RUNNING" /\ tickslock' = Nil
      /\ left' = [left EXCEPT ![q] = 0] /\ pc' = [pc EXCEPT ![q] = "user"]
      /\ UNCHANGED <<state, pid, parent, chan, killed, pgdir, nextpid, pgdirs, abandoned, ptlock,
                     cur, scan, child>>
  BY DEF SleepReturns, On, Goto, table
<1>2. TypeOK'
  BY <1>1, Numbers DEF IndInv, TypeOK, Places
<1>3. Calm /\ NoneSleeps
  BY <1>1, Typed DEF Calm, NoneSleeps, Forking
<1>4. /\ tickslock = q
      /\ \A r \in Procs : r # q => left'[r] = left[r] /\ pc[r] \notin {"ticks", "sleep"}
  BY <1>1 DEF IndInv, TypeOK, TicksInv
<1>5. TicksInv' /\ SleepersNotDue'
  BY <1>1, <1>4, Typed, Numbers DEF IndInv, TicksInv, SleepersNotDue, Slots
<1>6. QED
  BY <1>1, <1>2, <1>3, <1>5, StackKept, QuietInd DEF IndInv

LEMMA SleepTestsInd ==
  ASSUME IndInv, NEW c \in CPUs, NEW q \in Procs, SleepTests(c, q)
  PROVE  IndInv' /\ Calm
<1>1. /\ pc[q] = "ticks" /\ state[q] = "RUNNING" /\ left[q] > 0
      /\ pc' = [pc EXCEPT ![q] = "sleep"]
      /\ UNCHANGED <<state, pid, parent, chan, killed, pgdir, nextpid, pgdirs, abandoned, ptlock,
                     tickslock, cur, scan, child, left>>
  BY DEF SleepTests, On, Goto, table
<1>2. TypeOK'
  BY <1>1 DEF IndInv, TypeOK, Places
<1>3. Calm /\ NoneSleeps
  BY <1>1, Typed DEF Calm, NoneSleeps, Forking
<1>4. TicksInv' /\ SleepersNotDue'
  BY <1>1, Typed DEF IndInv, TicksInv, SleepersNotDue, Slots
<1>5. QED
  BY <1>1, <1>2, <1>3, <1>4, StackKept, QuietInd DEF IndInv

LEMMA SleepInd ==
  ASSUME IndInv, NEW c \in CPUs, NEW q \in Procs, sleep(c, q)
  PROVE  IndInv' /\ Calm
<1>1. /\ cur[c] = q /\ pc[q] = "sleep" /\ state[q] = "RUNNING"
      /\ ptlock = Nil /\ ptlock' = c + 1 /\ tickslock' = Nil
      /\ chan' = [chan EXCEPT ![q] = Ticks]
      /\ state' = [state EXCEPT ![q] = "SLEEPING"]
      /\ pc' = [pc EXCEPT ![q] = "woken"]
      /\ UNCHANGED <<pid, parent, killed, pgdir, nextpid, pgdirs, abandoned, cur, scan, child, left>>
  BY DEF sleep, On, Goto
<1>2. TypeOK'
  BY <1>1 DEF IndInv, TypeOK, States, Places
<1>3. StackInv'
  <2>1. state'[q] = "SLEEPING" /\ Held(c)' /\ \A p \in Procs : p # q => state'[p] = state[p]
    BY <1>1, Typed DEF Held
  <2>2. QED
    BY <1>1, <2>1, StackStays DEF Alive
<1>4. Calm
  BY <1>1, Typed DEF Calm, Live, Forking
<1>5. \A p \in Procs : p # q => state'[p] = state[p] /\ pc'[p] = pc[p] /\ chan'[p] = chan[p]
  BY <1>1, Typed, Kin
<1>6. state'[q] = "SLEEPING" /\ pc'[q] = "woken" /\ chan'[q] = Ticks
  BY <1>1, Typed, Kin
<1>7. \A p \in Procs : state'[p] = "SLEEPING" => ~Forking(p)'
  BY <1>5, <1>6 DEF IndInv, EmbryoInv, Forking
<1>8. ChanInv'
  BY <1>5, <1>6 DEF IndInv, ChanInv, Slots
<1>9. TicksInv' /\ SleepersNotDue'
  BY <1>1, <1>5, <1>6, Numbers, SMT DEF IndInv, TicksInv, SleepersNotDue, Slots
<1>10. FamiliesIntact'
  <2>1. ASSUME NEW r \in Procs, state'[r] = "SLEEPING", pc'[r] = "wait"
        PROVE  Children(r)' # {} /\ Zombies(r)' = {}
    <3>1. Children(r) # {} /\ Zombies(r) = {}
      BY <1>5, <1>6, <2>1 DEF IndInv, FamiliesIntact, Slots
    <3>2. QED
      BY <1>4, <3>1, CalmAlive DEF Calm, Children, Zombies
  <2>2. QED
    BY <1>4, <2>1, CalmParents DEF FamiliesIntact, Slots, Live
<1>11. QED
  BY <1>2, <1>3, <1>4, <1>7, <1>8, <1>9, <1>10, CalmInd DEF IndInv

LEMMA ReacquireInd ==
  ASSUME IndInv, NEW c \in CPUs, NEW q \in Procs, Reacquire(c, q)
  PROVE  IndInv' /\ Calm
<1>1. /\ state[q] = "RUNNING" /\ tickslock = Nil /\ tickslock' = q
      /\ pc' = [pc EXCEPT ![q] = "ticks"]
      /\ UNCHANGED <<state, pid, parent, chan, killed, pgdir, nextpid, pgdirs, abandoned, ptlock,
                     cur, scan, child, left>>
  BY DEF Reacquire, On, Locker, Goto, table
<1>2. TypeOK'
  BY <1>1, Numbers DEF IndInv, TypeOK, Places
<1>3. Calm /\ NoneSleeps
  BY <1>1, Typed DEF Calm, NoneSleeps, Forking
<1>4. TicksInv' /\ SleepersNotDue'
  BY <1>1, Typed, Numbers DEF IndInv, TicksInv, SleepersNotDue, Slots
<1>5. QED
  BY <1>1, <1>2, <1>3, <1>4, StackKept, QuietInd DEF IndInv

LEMMA TimerTicksInd ==
  ASSUME IndInv, TimerTicks
  PROVE  IndInv' /\ Calm
<1>1. /\ tickslock = Nil /\ tickslock' = Ticks
      /\ left' = [p \in Procs |-> IF left[p] = 0 THEN 0 ELSE left[p] - 1]
      /\ UNCHANGED <<state, pid, parent, chan, killed, pgdir, nextpid, pgdirs, abandoned, ptlock,
                     cur, scan, pc, child>>
  BY DEF TimerTicks, table
<1>2. left' \in [Procs -> 0..MaxSleep]
  <2>1. left \in [Procs -> 0..MaxSleep] /\ MaxSleep \in Nat
    BY Numbers DEF IndInv, TypeOK
  <2>2. ASSUME NEW n \in 0..MaxSleep PROVE (IF n = 0 THEN 0 ELSE n - 1) \in 0..MaxSleep
    BY <2>1, SMT
  <2>3. QED
    BY <1>1, <2>1, <2>2
<1>3. TypeOK'
  BY <1>1, <1>2 DEF IndInv, TypeOK
<1>4. Calm /\ NoneSleeps
  BY <1>1 DEF Calm, NoneSleeps
<1>5. TicksInv' /\ SleepersNotDue'
  BY <1>1, Numbers DEF IndInv, TicksInv, SleepersNotDue
<1>6. QED
  BY <1>1, <1>3, <1>4, <1>5, StackKept, QuietInd DEF IndInv

LEMMA TimerWakesInd ==
  ASSUME IndInv, TimerWakes
  PROVE  IndInv' /\ Calm
<1>1. /\ ptlock = Nil /\ tickslock = Ticks /\ tickslock' = Nil
      /\ \A p \in Procs : state'[p] = IF state[p] = "SLEEPING" /\ chan[p] = Ticks
                                      THEN "RUNNABLE" ELSE state[p]
      /\ UNCHANGED <<pid, parent, chan, killed, pgdir, nextpid, pgdirs, abandoned, ptlock, cur, scan,
                     pc, child, left>>
  BY DEF TimerWakes, wakeup1
<1>2. state' \in [Procs -> States]
  BY Typed DEF TimerWakes, wakeup1, States
<1>3. TypeOK'
  BY <1>1, <1>2 DEF IndInv, TypeOK
<1>4. StackInv'
  BY <1>1, Typed DEF IndInv, StackInv, Alive, Slots, Held
<1>5. Calm /\ NoneSleeps
  BY <1>1 DEF Calm, NoneSleeps, Live
<1>6. TicksInv'
  BY <1>1, Numbers DEF IndInv, TicksInv
<1>7. SleepersNotDue'
  BY <1>1 DEF IndInv, ChanInv, SleepersNotDue, Slots
<1>8. QED
  BY <1>3, <1>4, <1>5, <1>6, <1>7, QuietInd DEF IndInv

-----------------------------------------------------------------------------
\* The steps that make, end or free processes, and wait's sleep.
LEMMA WaitSleepsInd ==
  ASSUME IndInv, NEW c \in CPUs, NEW q \in Procs, WaitSleeps(c, q)
  PROVE  IndInv' /\ Calm
<1>1. /\ cur[c] = q /\ Held(c) /\ state[q] = "RUNNING" /\ pc[q] = "wait"
      /\ Zombies(q) = {} /\ Children(q) # {}
      /\ chan' = [chan EXCEPT ![q] = q]
      /\ state' = [state EXCEPT ![q] = "SLEEPING"]
      /\ UNCHANGED <<pid, parent, killed, pgdir, nextpid, pgdirs, abandoned, ptlock, tickslock,
                     cur, scan, pc, child, left>>
  BY DEF WaitSleeps, InWait
<1>2. TypeOK'
  BY <1>1 DEF IndInv, TypeOK, States
<1>3. StackInv'
  <2>1. state'[q] = "SLEEPING" /\ Held(c)' /\ \A p \in Procs : p # q => state'[p] = state[p]
    BY <1>1, Typed DEF Held
  <2>2. QED
    BY <1>1, <2>1, StackStays DEF Alive
<1>4. Calm
  BY <1>1, Typed DEF Calm, Live
<1>5. \A p \in Procs : p # q => state'[p] = state[p] /\ chan'[p] = chan[p]
  BY <1>1, Typed, Kin
<1>6. state'[q] = "SLEEPING" /\ chan'[q] = q
  BY <1>1, Typed, Kin
<1>7. \A p \in Procs : state'[p] = "SLEEPING" => ~Forking(p)'
  BY <1>1, <1>5 DEF IndInv, EmbryoInv, Forking
<1>8. ChanInv'
  BY <1>1, <1>5, <1>6 DEF IndInv, ChanInv, Slots
<1>9. Untimed
  BY <1>1, <1>5 DEF Untimed
<1>10. FamiliesIntact'
  <2>1. ASSUME NEW r \in Procs, state'[r] = "SLEEPING", pc'[r] = "wait"
        PROVE  Children(r)' # {} /\ Zombies(r)' = {}
    <3>1. Children(r) # {} /\ Zombies(r) = {}
      BY <1>1, <1>5, <2>1 DEF IndInv, FamiliesIntact, Slots
    <3>2. QED
      BY <1>4, <3>1, CalmAlive DEF Calm, Children, Zombies
  <2>2. QED
    BY <1>4, <2>1, CalmParents DEF FamiliesIntact, Slots, Live
<1>11. QED
  BY <1>2, <1>3, <1>4, <1>7, <1>8, <1>9, <1>10, CalmInd, UntimedInd DEF IndInv

\* A slot that is nobody's passes between UNUSED and EMBRYO: no process starts
\* or ends, and only the RUNNING process q moves on.
LEMMA SlotMoves ==
  ASSUME IndInv, NEW x \in Procs, ~Alive(x), ~Alive(x)',
         \A p \in Procs : p # x => state'[p] = state[p],
         NEW q \in Procs, state[q] = "RUNNING", \A p \in Procs : p # q => pc'[p] = pc[p],
         UNCHANGED <<parent, chan, cur, ptlock>>
  PROVE  StackInv' /\ ChanInv' /\ KinInv' /\ FamiliesIntact'
<1>1. q # x /\ x # initproc /\ \A p \in Procs : Alive(p)' <=> Alive(p)
  BY DEF Alive, IndInv, KinInv
<1>2. \A d \in CPUs : cur[d] # Nil => cur[d] \in Procs /\ cur[d] # x
  BY Typed DEF IndInv, StackInv
<1>3. StackInv'
  BY <1>1, <1>2 DEF IndInv, StackInv, Slots, Held, Alive
<1>4. \A r \in Procs : state'[r] = "SLEEPING" => state[r] = "SLEEPING" /\ pc'[r] = pc[r]
  BY <1>1 DEF Alive
<1>5. ChanInv'
  BY <1>4 DEF IndInv, ChanInv, Slots
<1>6. KinInv'
  BY <1>1, Numbers DEF IndInv, KinInv
<1>7. ASSUME NEW p \in Procs \ {initproc}
      PROVE  IF Alive(p)' THEN parent'[p] # Nil /\ state'[parent'[p]] \in Live
                         ELSE parent'[p] = Nil
  <2>1. Alive(p) => parent[p] \in Procs /\ parent[p] # x
    BY Parented DEF Live, Alive
  <2>2. QED
    BY <1>1, <2>1, Parented
<1>8. ASSUME NEW r \in Procs, state'[r] = "SLEEPING", pc'[r] = "wait"
      PROVE  Children(r)' # {} /\ Zombies(r)' = {}
  <2>1. Children(r) # {} /\ Zombies(r) = {}
    BY <1>4, <1>8 DEF IndInv, FamiliesIntact, Slots
  <2>2. \A p \in Procs : state'[p] = "ZOMBIE" => state[p] = "ZOMBIE"
    BY DEF Alive
  <2>3. QED
    BY <2>1, <2>2 DEF Children, Zombies
<1>9. FamiliesIntact'
  BY <1>7, <1>8 DEF FamiliesIntact, Slots, Live
<1>10. QED
  BY <1>3, <1>5, <1>6, <1>9

LEMMA AllocprocInd ==
  ASSUME IndInv, NEW c \in CPUs, NEW q \in Procs, NEW call \in {"fork", "clone"},
         allocproc(c, q, call)
  PROVE  IndInv'
<1>1. PICK np \in Procs :
        /\ state[np] = "UNUSED"
        /\ state' = [state EXCEPT ![np] = "EMBRYO"]
        /\ pid' = [pid EXCEPT ![np] = nextpid]
        /\ child' = [child EXCEPT ![q] = np]
  BY DEF allocproc, Slots
<1>2. /\ state[q] = "RUNNING" /\ nextpid <= MaxPid /\ nextpid' = nextpid + 1
      /\ pc' = [pc EXCEPT ![q] = call]
      /\ UNCHANGED <<parent, chan, killed, pgdir, pgdirs, abandoned, ptlock, tickslock, cur, scan, left>>
  BY DEF allocproc, Syscall, On, Goto
<1>3. TypeOK'
  <2>1. nextpid' \in 1..MaxPid + 1 /\ nextpid \in 0..nextpid' - 1
    BY <1>2, ProcConstants, SMT DEF IndInv, TypeOK
  <2>2. pid \in [Procs -> 0..nextpid' - 1]
    BY <1>2, ProcConstants, SMT DEF IndInv, TypeOK
  <2>3. pid' \in [Procs -> 0..nextpid' - 1]
    BY <1>1, <2>1, <2>2
  <2>4. QED
    BY <1>1, <1>2, <2>1, <2>3 DEF IndInv, TypeOK, States, Places
<1>4. /\ state'[np] = "EMBRYO" /\ \A p \in Procs : p # np => state'[p] = state[p]
      /\ pc'[q] = call /\ child'[q] = np /\ np # q
      /\ \A p \in Procs : p # q => pc'[p] = pc[p] /\ child'[p] = child[p]
  BY <1>1, <1>2, Typed, Kin
<1>5. EmbryoInv'
  <2>1. state'[q] = "RUNNING"
    BY <1>2, <1>4
  <2>2. ASSUME NEW r \in Procs, r # q, Forking(r)'
        PROVE  /\ state'[r] \in {"RUNNING", "RUNNABLE"} /\ child'[r] = child[r]
               /\ Forking(r) /\ child[r] \in Procs /\ child[r] # np
               /\ state'[child[r]] = "EMBRYO"
    <3>1. Forking(r) /\ child'[r] = child[r]
      BY <1>4, <2>2 DEF Forking
    <3>2. /\ state[r] \in {"RUNNING", "RUNNABLE"}
          /\ child[r] \in Procs /\ state[child[r]] = "EMBRYO"
      BY <3>1 DEF IndInv, EmbryoInv
    <3>3. QED
      BY <1>1, <1>4, <3>1, <3>2
  <2>3. QED
    BY <1>4, <2>1, <2>2, SMT DEF IndInv, EmbryoInv
<1>6. SpaceInv'
  BY <1>2, <1>4 DEF IndInv, SpaceInv, Alive
<1>7. ~Alive(np) /\ ~Alive(np)' /\ Untimed
  BY <1>1, <1>2, <1>4 DEF Alive, Untimed
<1>8. QED
  BY <1>2, <1>3, <1>4, <1>5, <1>6, <1>7, SlotMoves, UntimedInd DEF IndInv

LEMMA ForkFailsInd ==
  ASSUME IndInv, NEW c \in CPUs, NEW q \in Procs,
         NEW call \in {"fork", "clone"}, ForkFails(c, q, call)
  PROVE  IndInv'
<1>1. PICK x \in Procs : x = child[q] /\ state[x] = "EMBRYO" /\ pc[q] = call
  BY DEF ForkFails, On, IndInv, EmbryoInv, Forking
<1>2. /\ state[q] = "RUNNING" /\ state' = [state EXCEPT ![x] = "UNUSED"]
      /\ child' = [child EXCEPT ![q] = Nil] /\ pc' = [pc EXCEPT ![q] = "user"]
      /\ pgdir' = pgdir \/ pgdir' = [pgdir EXCEPT ![x] = Nil]
      /\ UNCHANGED <<pid, parent, chan, killed, nextpid, pgdirs, abandoned, ptlock, tickslock, cur,
                     scan, left>>
  BY <1>1 DEF ForkFails, On, Goto
<1>3. pgdir' \in [Procs -> Procs \cup {Nil}] /\ \A p \in Procs : p # x => pgdir'[p] = pgdir[p]
  BY <1>2 DEF IndInv, TypeOK
<1>4. TypeOK'
  BY <1>2, <1>3 DEF IndInv, TypeOK, States, Places
<1>5. /\ state'[x] = "UNUSED" /\ \A p \in Procs : p # x => state'[p] = state[p]
      /\ pc'[q] = "user" /\ x # q
      /\ \A p \in Procs : p # q => pc'[p] = pc[p] /\ child'[p] = child[p]
  BY <1>1, <1>2, Typed, Kin
<1>6. EmbryoInv'
  <2>1. Forking(q)
    BY <1>1 DEF Forking
  <2>2. ASSUME NEW r \in Procs, Forking(r)'
        PROVE  /\ state'[r] \in {"RUNNING", "RUNNABLE"} /\ child'[r] = child[r]
               /\ Forking(r) /\ child[r] \in Procs /\ state'[child[r]] = "EMBRYO"
    <3>1. r # q /\ Forking(r) /\ child'[r] = child[r]
      BY <1>5, <2>2 DEF Forking
    <3>2. /\ state[r] \in {"RUNNING", "RUNNABLE"} /\ child[r] # x
          /\ child[r] \in Procs /\ state[child[r]] = "EMBRYO"
      BY <1>1, <2>1, <3>1 DEF IndInv, EmbryoInv
    <3>3. QED
      BY <1>1, <1>5, <3>1, <3>2
  <2>3. QED
    BY <2>2, SMT DEF IndInv, EmbryoInv
<1>7. SpaceInv'
  BY <1>3, <1>5 DEF IndInv, SpaceInv, Alive
<1>8. ~Alive(x) /\ ~Alive(x)' /\ Untimed
  BY <1>1, <1>2, <1>5 DEF Alive, Untimed
<1>9. QED
  BY <1>2, <1>4, <1>5, <1>6, <1>7, <1>8, SlotMoves, UntimedInd DEF IndInv

LEMMA SpawnInd ==
  ASSUME IndInv, NEW c \in CPUs, NEW q \in Procs,
         NEW call \in {"fork", "clone"}, NEW d \in Procs, Spawn(c, q, call, d)
  PROVE  IndInv'
<1>1. PICK x \in Procs : x = child[q] /\ state[x] = "EMBRYO" /\ pc[q] = call
  BY DEF Spawn, On, IndInv, EmbryoInv, Forking
<1>2. /\ state[q] = "RUNNING" /\ state' = [state EXCEPT ![x] = "RUNNABLE"]
      /\ pgdir' = [pgdir EXCEPT ![x] = d]
      /\ parent' = [parent EXCEPT ![x] = q]
      /\ pc' = [pc EXCEPT ![x] = "user", ![q] = "user"]
      /\ pgdirs' = pgdirs \cup {d}
      /\ child' = [child EXCEPT ![q] = Nil]
      /\ UNCHANGED <<pid, chan, killed, nextpid, abandoned, ptlock, tickslock, cur, scan, left>>
  BY <1>1 DEF Spawn, On
<1>3. TypeOK'
  BY <1>2 DEF IndInv, TypeOK, States, Places
<1>4. StackInv'
  BY <1>1, <1>2, Typed DEF IndInv, StackInv, Alive, Slots, Held
<1>5. /\ state'[x] = "RUNNABLE" /\ \A p \in Procs : p # x => state'[p] = state[p]
      /\ pc'[x] = "user" /\ pc'[q] = "user" /\ x # q
      /\ \A p \in Procs : p # q /\ p # x => pc'[p] = pc[p]
      /\ \A p \in Procs : p # q => child'[p] = child[p]
      /\ parent'[x] = q /\ \A p \in Procs : p # x => parent'[p] = parent[p]
  BY <1>1, <1>2, Typed, Kin
<1>6. pgdir'[x] = d /\ \A p \in Procs : p # x => pgdir'[p] = pgdir[p]
  BY <1>2 DEF IndInv, TypeOK
<1>7. EmbryoInv'
  <2>1. Forking(q)
    BY <1>1 DEF Forking
  <2>2. ASSUME NEW r \in Procs, Forking(r)'
        PROVE  /\ state'[r] \in {"RUNNING", "RUNNABLE"} /\ child'[r] = child[r]
               /\ Forking(r) /\ child[r] \in Procs /\ state'[child[r]] = "EMBRYO"
    <3>1. r # q /\ r # x /\ Forking(r) /\ child'[r] = child[r]
      BY <1>5, <2>2 DEF Forking
    <3>2. /\ state[r] \in {"RUNNING", "RUNNABLE"} /\ child[r] # x
          /\ child[r] \in Procs /\ state[child[r]] = "EMBRYO"
      BY <1>1, <2>1, <3>1 DEF IndInv, EmbryoInv
    <3>3. QED
      BY <1>1, <1>5, <3>1, <3>2
  <2>3. QED
    BY <2>2, SMT DEF IndInv, EmbryoInv
<1>8. SpaceInv'
  <2>1. d # Nil
    BY Numbers
  <2>2. QED
    BY <1>5, <1>6, <2>1 DEF IndInv, SpaceInv, Alive
<1>9. x # initproc /\ parent[x] = Nil
  BY <1>1, Numbers DEF IndInv, KinInv, FamiliesIntact, Alive
<1>10. ChanInv' /\ KinInv'
  <2>1. chan' = chan /\ state[q] = "RUNNING"
    BY <1>2
  <2>2. ChanInv'
    <3>1. ASSUME NEW r \in Procs, state'[r] = "SLEEPING"
          PROVE  state[r] = "SLEEPING" /\ pc'[r] = pc[r]
      BY <1>5, <2>1, <3>1
    <3>2. QED
      BY <2>1, <3>1 DEF IndInv, ChanInv, Slots
  <2>3. KinInv'
    BY <1>5, <1>9, Numbers DEF IndInv, KinInv
  <2>4. QED
    BY <2>2, <2>3
<1>11. Untimed
  BY <1>2, <1>5 DEF Untimed
<1>12. FamiliesIntact'
  <2>1. ASSUME NEW p \in Procs \ {initproc}
        PROVE  IF Alive(p)' THEN parent'[p] # Nil /\ state'[parent'[p]] \in Live
                           ELSE parent'[p] = Nil
    <3>1. state'[q] \in Live /\ Alive(x)' /\ q # Nil
      BY <1>2, <1>5, Numbers DEF Live, Alive
    <3>2. CASE p # x
      <4>1. Alive(p)' <=> Alive(p)
        BY <1>5, <3>2 DEF Alive
      <4>2. Alive(p) => parent[p] \in Procs /\ parent[p] # x
        BY <1>1, Parented DEF Live
      <4>3. QED
        BY <1>5, <3>2, <4>1, <4>2, Parented
    <3>3. QED
      BY <1>5, <3>1, <3>2
  <2>2. ASSUME NEW r \in Procs, state'[r] = "SLEEPING", pc'[r] = "wait"
        PROVE  Children(r)' # {} /\ Zombies(r)' = {}
    <3>1. r # q /\ Children(r) # {} /\ Zombies(r) = {}
      BY <1>5, <2>2 DEF IndInv, FamiliesIntact, Slots
    <3>2. Children(r)' = Children(r)
      BY <1>5, <1>9, <3>1, Numbers DEF Children
    <3>3. Zombies(r)' = {}
      BY <1>5, <3>1, <3>2 DEF Children, Zombies
    <3>4. QED
      BY <3>1, <3>2, <3>3
  <2>3. QED
    BY <2>1, <2>2 DEF FamiliesIntact, Slots, Live
<1>13. QED
  BY <1>3, <1>4, <1>7, <1>8, <1>10, <1>11, <1>12, UntimedInd DEF IndInv

LEMMA ExitInd ==
  ASSUME IndInv, NEW c \in CPUs, NEW q \in Procs, exit(c, q)
  PROVE  IndInv'
<1>1. /\ cur[c] = q /\ pc[q] = "user" /\ state[q] = "RUNNING" /\ q # initproc
      /\ ptlock = Nil /\ ptlock' = c + 1
      /\ UNCHANGED <<pid, chan, killed, pgdir, nextpid, pgdirs, tickslock, cur, scan,
                     pc, child, left>>
  BY DEF exit, On
<1>2. /\ state' \in [Procs -> States] /\ state'[q] = "ZOMBIE"
      /\ \A p \in Procs : p # q =>
           state'[p] = IF \/ state[p] = "SLEEPING" /\ chan[p] = parent[q]
                          \/ state[p] = "SLEEPING" /\ chan[p] = initproc /\ Inherited(q)
                       THEN "RUNNABLE" ELSE state[p]
  BY Typed DEF States, exit, Woken, wakeup1
<1>3. /\ parent' \in [Procs -> Procs \cup {Nil}]
      /\ \A p \in Procs : parent'[p] = IF parent[p] = q THEN initproc ELSE parent[p]
  BY Kin, Numbers DEF exit, Reparented
<1>4. TypeOK'
  <2>1. Alive(q)
    BY <1>1 DEF Alive
  <2>2. pgdir[q] \in Procs
    BY <2>1 DEF IndInv, TypeOK, SpaceInv
  <2>3. abandoned' \subseteq Procs
    BY <2>2 DEF exit, Threads, IndInv, TypeOK
  <2>4. QED
    BY <1>1, <1>2, <1>3, <2>3 DEF IndInv, TypeOK
<1>5. \A p \in Procs : p # q => /\ state'[p] = state[p] \/ (state[p] \in Live /\ state'[p] \in Live)
                                /\ state'[p] = "SLEEPING" => state[p] = "SLEEPING"
                                /\ state'[p] = "RUNNING" <=> state[p] = "RUNNING"
                                /\ Alive(p)' <=> Alive(p)
  BY <1>2 DEF Live, Alive
<1>6. StackInv'
  <2>1. Held(c)' /\ Alive(q)'
    BY <1>1, <1>2 DEF Held, Alive
  <2>2. QED
    BY <1>1, <1>2, <1>5, <2>1, StackStays
<1>7. EmbryoInv'
  <2>1. ASSUME NEW r \in Procs, Forking(r)
        PROVE  /\ state'[r] \in {"RUNNING", "RUNNABLE"}
               /\ child[r] \in Procs /\ state'[child[r]] = "EMBRYO"
    <3>1. /\ r # q /\ state[r] \in {"RUNNING", "RUNNABLE"}
          /\ child[r] \in Procs /\ state[child[r]] = "EMBRYO"
      BY <1>1, <2>1 DEF IndInv, EmbryoInv, Forking
    <3>2. QED
      BY <1>1, <1>2, <3>1
  <2>2. QED
    BY <1>1, <2>1 DEF IndInv, EmbryoInv, Forking
<1>8. SpaceInv'
  BY <1>1, <1>5 DEF IndInv, SpaceInv, Alive
<1>9. ChanInv'
  BY <1>1, <1>2, <1>5 DEF IndInv, ChanInv, Slots
<1>10. KinInv'
  <2>1. state'[initproc] \in Live /\ parent'[initproc] = Nil
    BY <1>1, <1>3, <1>5, Numbers DEF IndInv, KinInv, Live
  <2>2. ASSUME NEW p \in Procs, parent'[p] = p PROVE FALSE
    <3>1. p # initproc
      BY <2>1, <2>2, Numbers
    <3>2. QED
      BY <1>3, <2>2, <3>1 DEF IndInv, KinInv
  <2>3. QED
    BY <2>1, <2>2 DEF KinInv, Live
<1>11. Untimed
  BY <1>1, <1>2, <1>5 DEF Untimed
<1>12. FamiliesIntact'
  <2>1. ASSUME NEW p \in Procs \ {initproc}
        PROVE  IF Alive(p)' THEN parent'[p] # Nil /\ state'[parent'[p]] \in Live
                           ELSE parent'[p] = Nil
    <3>1. parent[p] \in Procs \cup {Nil} /\ (Alive(p)' <=> Alive(p))
      BY <1>1, <1>2, <1>5, Kin DEF Alive
    <3>2. IF Alive(p) THEN parent[p] # Nil /\ state[parent[p]] \in Live ELSE parent[p] = Nil
      BY DEF IndInv, FamiliesIntact, Live
    <3>3. state'[initproc] \in Live
      BY <1>1, <1>5, Numbers DEF IndInv, KinInv, Live
    <3>4. \A r \in Procs : r # q /\ state[r] \in Live => state'[r] \in Live
      BY <1>5
    <3>5. QED
      BY <1>1, <1>3, <3>1, <3>2, <3>3, <3>4, Numbers
  <2>2. ASSUME NEW r \in Procs, state'[r] = "SLEEPING", pc'[r] = "wait"
        PROVE  Children(r)' # {} /\ Zombies(r)' = {}
    <3>1. r # q /\ state[r] = "SLEEPING" /\ pc[r] = "wait" /\ chan[r] = r
      BY <1>1, <1>2, <1>5, <2>2 DEF IndInv, ChanInv, Slots
    <3>2. Children(r) # {} /\ Zombies(r) = {} /\ r # parent[q]
      BY <1>2, <2>2, <3>1 DEF IndInv, FamiliesIntact, Slots
    <3>3. Children(r) \subseteq Children(r)'
      BY <1>3, <3>1 DEF Children
    <3>4. ASSUME NEW p \in Procs, parent'[p] = r, state'[p] = "ZOMBIE" PROVE FALSE
      <4>1. p # q
        BY <1>1, <1>3, <3>2, <3>4 DEF IndInv, KinInv
      <4>2. state[p] = "ZOMBIE"
        BY <1>5, <3>4, <4>1 DEF Live
      <4>3. parent[p] = q /\ r = initproc
        BY <1>3, <3>2, <3>4, <4>2 DEF Zombies, Children
      <4>4. Inherited(q)
        BY <4>2, <4>3 DEF Inherited, Children
      <4>5. QED
        BY <1>2, <2>2, <3>1, <4>3, <4>4
    <3>5. QED
      BY <3>2, <3>3, <3>4 DEF Children, Zombies
  <2>3. QED
    BY <2>1, <2>2 DEF FamiliesIntact, Slots, Live
<1>13. QED
  BY <1>4, <1>6, <1>7, <1>8, <1>9, <1>10, <1>11, <1>12, UntimedInd DEF IndInv

LEMMA WaitReapsInd ==
  ASSUME IndInv, NEW c \in CPUs, NEW q \in Procs, WaitReaps(c, q)
  PROVE  IndInv'
<1>1. PICK p \in Procs :
        /\ state[p] = "ZOMBIE" /\ parent[p] = q
        /\ state' = [state EXCEPT ![p] = "UNUSED"]
        /\ pid' = [pid EXCEPT ![p] = 0]
        /\ parent' = [parent EXCEPT ![p] = Nil]
        /\ killed' = [killed EXCEPT ![p] = FALSE]
        /\ pgdirs' \subseteq pgdirs
  BY DEF WaitReaps, Zombies, Children
<1>2. /\ cur[c] = q /\ Held(c) /\ state[q] = "RUNNING" /\ ptlock' = Nil
      /\ chan' = [chan EXCEPT ![q] = Nil]
      /\ pc' = [pc EXCEPT ![q] = "user"]
      /\ UNCHANGED <<pgdir, nextpid, abandoned, tickslock, cur, scan, child, left>>
  BY DEF WaitReaps, InWait, Goto
<1>3. TypeOK'
  <2>1. 0 \in 0..nextpid - 1
    BY ProcConstants, SMT DEF IndInv, TypeOK
  <2>2. QED
    BY <1>1, <1>2, <2>1 DEF IndInv, TypeOK, States, Places
<1>4. /\ state'[p] = "UNUSED" /\ \A r \in Procs : r # p => state'[r] = state[r]
      /\ pc'[q] = "user" /\ p # q
      /\ \A r \in Procs : r # q => pc'[r] = pc[r] /\ chan'[r] = chan[r]
      /\ parent'[p] = Nil /\ \A r \in Procs : r # p => parent'[r] = parent[r]
  BY <1>1, <1>2, Typed, Kin
<1>5. StackInv'
  <2>1. state'[q] = "RUNNING" /\ Alive(q)'
    BY <1>2, <1>4 DEF Alive
  <2>2. QED
    BY <1>1, <1>2, <1>4, <2>1, StackStays
<1>6. EmbryoInv'
  <2>1. ASSUME NEW r \in Procs, Forking(r)'
        PROVE  /\ Forking(r) /\ state'[r] \in {"RUNNING", "RUNNABLE"}
               /\ child[r] \in Procs /\ state'[child[r]] = "EMBRYO"
    <3>1. Forking(r)
      BY <1>4, <2>1 DEF Forking
    <3>2. /\ state[r] \in {"RUNNING", "RUNNABLE"}
          /\ child[r] \in Procs /\ state[child[r]] = "EMBRYO"
      BY <3>1 DEF IndInv, EmbryoInv
    <3>3. QED
      BY <1>1, <1>4, <3>1, <3>2
  <2>2. QED
    BY <1>2, <2>1 DEF IndInv, EmbryoInv
<1>7. SpaceInv'
  BY <1>2, <1>4 DEF IndInv, SpaceInv, Alive
<1>8. ChanInv' /\ KinInv'
  <2>1. p # initproc
    BY <1>1 DEF IndInv, KinInv
  <2>2. KinInv'
    BY <1>4, <2>1, Numbers, SMT DEF IndInv, KinInv
  <2>3. ASSUME NEW r \in Procs, state'[r] = "SLEEPING"
        PROVE  state[r] = "SLEEPING" /\ pc'[r] = pc[r] /\ chan'[r] = chan[r]
    BY <1>2, <1>4, <2>3
  <2>4. ChanInv'
    BY <2>3 DEF IndInv, ChanInv, Slots
  <2>5. QED
    BY <2>2, <2>4
<1>9. Untimed
  BY <1>2, <1>4 DEF Untimed
<1>10. FamiliesIntact'
  <2>1. ASSUME NEW r \in Procs \ {initproc}
        PROVE  IF Alive(r)' THEN parent'[r] # Nil /\ state'[parent'[r]] \in Live
                           ELSE parent'[r] = Nil
    <3>1. CASE r # p
      <4>1. Alive(r)' <=> Alive(r)
        BY <1>4, <3>1 DEF Alive
      <4>2. Alive(r) => parent[r] \in Procs /\ parent[r] # p
        BY <1>1, Parented DEF Live
      <4>3. QED
        BY <1>4, <3>1, <4>1, <4>2, Parented
    <3>2. QED
      BY <1>4, <3>1 DEF Alive
  <2>2. ASSUME NEW r \in Procs, state'[r] = "SLEEPING", pc'[r] = "wait"
        PROVE  Children(r)' # {} /\ Zombies(r)' = {}
    <3>1. r # q /\ Children(r) # {} /\ Zombies(r) = {}
      BY <1>2, <1>4, <2>2 DEF IndInv, FamiliesIntact, Slots
    <3>2. Children(r)' = Children(r)
      BY <1>1, <1>4, <3>1, Numbers, SMT DEF Children
    <3>3. Zombies(r)' = {}
      BY <1>4, <3>1, <3>2 DEF Children, Zombies
    <3>4. QED
      BY <3>1, <3>2, <3>3
  <2>3. QED
    BY <2>1, <2>2 DEF FamiliesIntact, Slots, Live
<1>11. QED
  BY <1>3, <1>5, <1>6, <1>7, <1>8, <1>9, <1>10, UntimedInd DEF IndInv

-----------------------------------------------------------------------------
LEMMA InitInd == Init => IndInv
<1> SUFFICES ASSUME Init PROVE IndInv
  OBVIOUS
<1> USE Numbers, ProcConstants DEF Init
<1>1. TypeOK
  BY SMT DEF TypeOK, States, Places, Procs, initproc
<1>2. StackInv /\ EmbryoInv /\ SpaceInv /\ ChanInv /\ TicksInv
  BY SMT DEF StackInv, EmbryoInv, Forking, SpaceInv, ChanInv, TicksInv, Slots, Alive, Nil
<1>3. KinInv /\ FamiliesIntact /\ SleepersNotDue
  BY DEF KinInv, FamiliesIntact, SleepersNotDue, Slots, Alive
<1>4. QED
  BY <1>1, <1>2, <1>3 DEF IndInv

LEMMA StutterInd ==
  ASSUME IndInv, UNCHANGED vars
  PROVE  IndInv'
<1> USE DEF vars, table, IndInv
<1>1. TypeOK' /\ StackInv' /\ SpaceInv' /\ ChanInv' /\ TicksInv'
  BY DEF TypeOK, StackInv, SpaceInv, ChanInv, TicksInv, Slots, Alive, Held
<1>6. EmbryoInv'
  BY DEF EmbryoInv, Forking
<1>2. KinInv' /\ SleepersNotDue'
  BY DEF KinInv, SleepersNotDue, Slots
<1>3. \A q \in Procs : Children(q)' = Children(q) /\ Zombies(q)' = Zombies(q)
  BY DEF Children, Zombies
<1>4. FamiliesIntact'
  BY <1>3, SMT DEF FamiliesIntact, Slots, Alive
<1>5. QED
  BY <1>1, <1>2, <1>4, <1>6

\* fork and clone as they call Spawn: with a page directory that is free, or
\* with the caller's.
LEMMA SpawnCalls ==
  ASSUME IndInv, NEW c \in CPUs, NEW q \in Procs
  PROVE  /\ fork(c, q) => \E d \in Procs \ pgdirs : Spawn(c, q, "fork", d)
         /\ clone(c, q) => pgdir[q] \in Procs /\ Spawn(c, q, "clone", pgdir[q])
<1>1. ASSUME clone(c, q) PROVE pgdir[q] \in Procs
  BY <1>1 DEF clone, Spawn, On, IndInv, TypeOK, SpaceInv, Alive
<1>2. QED
  BY <1>1 DEF fork, clone

LEMMA NextInd == IndInv /\ [Next]_vars => IndInv'
<1> SUFFICES ASSUME IndInv, [Next]_vars PROVE IndInv'
  OBVIOUS
<1>1. ASSUME NEW c \in CPUs, Switch(c) PROVE IndInv'
  BY <1>1, SchedulerInd, SchedInd, ResumeInd DEF Switch
<1>2. ASSUME NEW c \in CPUs, NEW q \in Procs, Continue(c, q) PROVE IndInv'
  BY <1>2, SpawnCalls, SpawnInd, ForkFailsInd, WaitReapsInd, WaitFailsInd,
     WaitSleepsInd, SleepReturnsInd, SleepTestsInd, SleepInd, ReacquireInd
     DEF Continue
<1>3. ASSUME NEW c \in CPUs, NEW q \in Procs, Request(c, q) PROVE IndInv'
  BY <1>3, AllocprocInd, ExitInd, WaitInd, KillInd, Sys_sleepInd, ProcConstants
     DEF Request
<1>4. ASSUME NEW c \in CPUs, NEW q \in Procs, yield(c, q) PROVE IndInv'
  BY <1>4, YieldInd
<1>5. CASE Timer
  BY <1>5, TimerTicksInd, TimerWakesInd DEF Timer
<1>6. QED
  BY <1>1, <1>2, <1>3, <1>4, <1>5, StutterInd DEF Next

LEMMA Inductive == Spec => []IndInv
BY InitInd, NextInd, PTL DEF Spec

\* Whatever the number of CPUs and slots, no two CPUs are on one kernel stack
\* and wait frees no stack a CPU is on: ptable.lock held across swtch suffices.
THEOREM StacksExclusive == Spec => []OneCpuPerStack
<1>1. IndInv => OneCpuPerStack
  BY DEF IndInv, OneCpuPerStack
<1>2. QED
  BY <1>1, Inductive, PTL

\* Nobody sleeps in wait next to a zombie of theirs, and every process has a
\* parent that can wait for it: exit's two wakeups and its reparenting suffice.
THEOREM NoChildForgotten == Spec => []FamiliesIntact
<1>1. IndInv => FamiliesIntact
  BY DEF IndInv
<1>2. QED
  BY <1>1, Inductive, PTL

\* sys_sleep misses no tick: tickslock is held from the test of ticks until the
\* process is marked asleep under ptable.lock.
THEOREM NoTickMissed == Spec => []SleepersNotDue
<1>1. IndInv => SleepersNotDue
  BY DEF IndInv
<1>2. QED
  BY <1>1, Inductive, PTL

-----------------------------------------------------------------------------
(***************************************************************************)
(* Who shares an address space: wait frees each page directory that was    *)
(* not abandoned with its last user.                                       *)
(***************************************************************************)

\* Who shares an address space that was not abandoned.  All but one of those who
\* do have their parent among them, and a parent that shares is older than its
\* child; init shares with nobody.
ThreadInv ==
  /\ PgdirsExact
  /\ pid[initproc] = 1 /\ pc[initproc] # "clone" /\ pgdir[initproc] \notin abandoned
  /\ \A q \in Procs : Forking(q) => pid[child[q]] > 1 /\ pid[q] < pid[child[q]]
  /\ \A p \in Procs \ {initproc} : Alive(p) => pid[p] > 1 /\ pgdir[p] # pgdir[initproc]
  /\ \A p, r \in Procs \ {initproc} :
       Alive(p) /\ Alive(r) /\ p # r /\ pgdir[p] = pgdir[r] /\ pgdir[p] \notin abandoned =>
         pgdir[parent[p]] = pgdir[p] \/ pgdir[parent[r]] = pgdir[r]
  /\ \A p \in Procs \ {initproc} :
       Alive(p) /\ pgdir[parent[p]] = pgdir[p] => pid[parent[p]] < pid[p]

\* A parent is alive and not a zombie.
LEMMA ParentAlive ==
  ASSUME IndInv, NEW p \in Procs \ {initproc}, Alive(p)
  PROVE  parent[p] \in Procs /\ Alive(parent[p]) /\ state[parent[p]] # "ZOMBIE"
<1>1. parent[p] \in Procs \cup {Nil}
  BY Kin
<1>2. parent[p] # Nil /\ state[parent[p]] \in {"RUNNING", "RUNNABLE", "SLEEPING"}
  BY DEF IndInv, FamiliesIntact
<1>3. QED
  BY <1>1, <1>2 DEF Alive

\* A step that starts no process keeps ThreadInv, when the pid, the parent and
\* the address space of those left, and of their parents, stay as they are.
LEMMA ThreadKept ==
  ASSUME ThreadInv, PgdirsExact', abandoned' = abandoned,
         pid'[initproc] = 1, pc'[initproc] # "clone", pgdir'[initproc] = pgdir[initproc],
         \A q \in Procs : Forking(q)' => pid'[child'[q]] > 1 /\ pid'[q] < pid'[child'[q]],
         \A p \in Procs \ {initproc} : Alive(p)' =>
           /\ Alive(p) /\ parent'[p] = parent[p]
           /\ pid'[p] = pid[p] /\ pid'[parent[p]] = pid[parent[p]]
           /\ pgdir'[p] = pgdir[p] /\ pgdir'[parent[p]] = pgdir[parent[p]]
  PROVE  ThreadInv'
<1>1. ASSUME NEW p \in Procs \ {initproc}, Alive(p)'
      PROVE  /\ pid'[p] > 1 /\ pgdir'[p] # pgdir'[initproc]
             /\ pgdir'[parent'[p]] = pgdir'[p] => pid'[parent'[p]] < pid'[p]
  BY <1>1, SMT DEF ThreadInv
<1>2. ASSUME NEW p \in Procs \ {initproc}, NEW r \in Procs \ {initproc},
             Alive(p)', Alive(r)', p # r, pgdir'[p] = pgdir'[r], pgdir'[p] \notin abandoned'
      PROVE  pgdir'[parent'[p]] = pgdir'[p] \/ pgdir'[parent'[r]] = pgdir'[r]
  BY <1>2, SMT DEF ThreadInv
<1>3. QED
  BY <1>1, <1>2 DEF ThreadInv

\* The directories there are, after a step.
LEMMA DirsAreNext ==
  PgdirsExact' <=> \A d \in Procs \ abandoned' :
                     d \in pgdirs' <=> \E p \in Procs : Alive(p)' /\ pgdir'[p] = d
BY SMT DEF PgdirsExact

LEMMA InitThread == Init => ThreadInv
<1> SUFFICES ASSUME Init PROVE ThreadInv
  OBVIOUS
<1>1. \A p \in Procs : Alive(p) <=> p = initproc
  BY DEF Init, Alive
<1>2. PgdirsExact
  BY <1>1, Numbers DEF Init, PgdirsExact
<1>3. QED
  BY <1>1, <1>2, Numbers DEF Init, ThreadInv, Forking

\* A step that creates and ends no process keeps ThreadInv.
LEMMA CalmThread ==
  ASSUME ThreadInv, Calm
  PROVE  ThreadInv'
<1>1. \A p \in Procs : Alive(p)' <=> Alive(p)
  BY CalmAlive
<1>2. UNCHANGED <<pgdir, pgdirs, abandoned, parent, pid, child>>
  BY DEF Calm
<1>3. PgdirsExact'
  BY <1>1, <1>2 DEF ThreadInv, PgdirsExact
<1>4. pc'[initproc] # "clone" /\ \A q \in Procs : Forking(q)' => Forking(q)
  BY Numbers DEF ThreadInv, Calm, Forking
<1>5. QED
  BY <1>1, <1>2, <1>3, <1>4 DEF ThreadInv

\* A set of natural numbers that is not empty has a least element.
LEMMA LeastIn ==
  ASSUME NEW S \in SUBSET Nat, S # {}
  PROVE  \E x \in S : \A y \in S : x <= y
<1>1. PICK x \in S : \A y \in S : ~(<<y, x>> \in OpToRel(<, Nat))
  BY WFMin, NatLessThanWellFounded
<1>2. \A y \in S : <<y, x>> \in Nat \X Nat /\ ~(<<y, x>>[1] < <<y, x>>[2])
  BY <1>1 DEF OpToRel
<1>3. ASSUME NEW y \in S PROVE x <= y
  <2>1. x \in Nat /\ y \in Nat
    OBVIOUS
  <2>2. ~(y < x)
    BY <1>2
  <2>3. QED
    BY <2>1, <2>2, SMT
<1>4. QED
  BY <1>3

\* A zombie that does not share with its parent shares with nobody: else the
\* oldest of those it shares with would have an older parent among them.
LEMMA ThreadsGone ==
  ASSUME IndInv, ThreadInv, NEW p \in Procs \ {initproc}, state[p] = "ZOMBIE",
         pgdir[parent[p]] # pgdir[p], pgdir[p] \notin abandoned,
         NEW r \in Procs, Alive(r), r # p
  PROVE  pgdir[r] # pgdir[p]
<1> SUFFICES ASSUME pgdir[r] = pgdir[p] PROVE FALSE
  OBVIOUS
<1> DEFINE Sharing(x) == Alive(x) /\ x # p /\ pgdir[x] = pgdir[p]
           S == {n \in Nat : \E x \in Procs : Sharing(x) /\ pid[x] = n}
<1>1. \A x \in Procs : pid[x] \in Nat
  BY ProcConstants, SMT DEF IndInv, TypeOK
<1>2. pid[r] \in S
  BY <1>1
<1>3. PICK m \in S : \A n \in S : m <= n
  BY <1>2, LeastIn
<1>4. PICK x \in Procs : Sharing(x) /\ pid[x] = m
  BY <1>3
<1>5. x # initproc /\ Alive(p)
  BY <1>4 DEF ThreadInv, Alive
<1>6. pgdir[parent[x]] = pgdir[x] /\ pid[parent[x]] < pid[x]
  BY <1>4, <1>5 DEF ThreadInv
<1>7. parent[x] \in Procs /\ Sharing(parent[x])
  BY <1>4, <1>5, <1>6, ParentAlive
<1>8. pid[parent[x]] \in S
  BY <1>1, <1>7
<1>9. QED
  BY <1>1, <1>3, <1>4, <1>6, <1>7, <1>8, SMT

LEMMA AllocprocThread ==
  ASSUME IndInv, ThreadInv, NEW c \in CPUs, NEW q \in Procs,
         NEW call \in {"fork", "clone"}, allocproc(c, q, call),
         call = "clone" => q # initproc
  PROVE  ThreadInv'
<1>. PICK np \in Procs :
       /\ state[np] = "UNUSED" /\ state' = [state EXCEPT ![np] = "EMBRYO"]
       /\ pid' = [pid EXCEPT ![np] = nextpid]
       /\ child' = [child EXCEPT ![q] = np]
  BY DEF allocproc, Slots
<1>1. np \in Procs /\ state[np] = "UNUSED" /\ np # initproc
  BY DEF IndInv, KinInv
<1>2. state[q] = "RUNNING" /\ nextpid > 1 /\ \A p \in Procs : pid[p] \in Nat /\ pid[p] < nextpid
  BY ProcConstants, Numbers, SMT DEF allocproc, Syscall, On, IndInv, TypeOK, ThreadInv
<1>3. /\ state' = [state EXCEPT ![np] = "EMBRYO"]
      /\ pid' = [pid EXCEPT ![np] = nextpid]
      /\ child' = [child EXCEPT ![q] = np]
      /\ pc' = [pc EXCEPT ![q] = call]
      /\ UNCHANGED <<parent, pgdir, pgdirs, abandoned>>
  BY DEF allocproc, Goto
<1>4. \A p \in Procs : (Alive(p)' <=> Alive(p)) /\ (p # np => pid'[p] = pid[p])
  <2>1. pid \in [Procs -> 0..nextpid - 1]
    BY DEF IndInv, TypeOK
  <2>2. QED
    BY <1>1, <1>3, <2>1, Typed DEF Alive
<1>5. PgdirsExact'
  BY <1>3, <1>4, DirsAreNext DEF ThreadInv, PgdirsExact
<1>6. pid'[initproc] = 1 /\ pc'[initproc] # "clone"
  BY <1>1, <1>3, <1>4, Numbers, Typed DEF ThreadInv
<1>7. ASSUME NEW r \in Procs, Forking(r)' PROVE pid'[child'[r]] > 1 /\ pid'[r] < pid'[child'[r]]
  <2>1. CASE r = q
    <3>1. child'[r] = np /\ pid \in [Procs -> 0..nextpid - 1] /\ q # np
      BY <1>1, <1>2, <1>3, <2>1, Kin DEF IndInv, TypeOK
    <3>2. QED
      BY <1>1, <1>2, <1>3, <2>1, <3>1, SMT
  <2>2. CASE r # q
    <3>1. Forking(r) /\ child'[r] = child[r]
      BY <1>3, <1>7, <2>2, Typed, Kin DEF Forking
    <3>2. r # np /\ child[r] # np /\ child[r] \in Procs
      BY <1>1, <3>1 DEF IndInv, EmbryoInv
    <3>3. QED
      BY <1>4, <3>1, <3>2, SMT DEF ThreadInv
  <2>3. QED
    BY <2>1, <2>2
<1>8. ASSUME NEW p \in Procs \ {initproc}, Alive(p)
      PROVE  pid'[p] = pid[p] /\ pid'[parent[p]] = pid[parent[p]]
  BY <1>1, <1>4, <1>8, ParentAlive DEF Alive
<1>9. QED
  BY <1>3, <1>4, <1>5, <1>6, <1>7, <1>8, ThreadKept

LEMMA ForkFailsThread ==
  ASSUME IndInv, ThreadInv, NEW c \in CPUs, NEW q \in Procs,
         NEW call \in {"fork", "clone"}, ForkFails(c, q, call)
  PROVE  ThreadInv'
<1> DEFINE x == child[q]
<1>1. x \in Procs /\ state[x] = "EMBRYO" /\ x # initproc
  BY DEF ForkFails, On, IndInv, EmbryoInv, Forking, KinInv
<1>2. /\ state' = [state EXCEPT ![x] = "UNUSED"]
      /\ \A p \in Procs : p # x => pgdir'[p] = pgdir[p]
      /\ child' = [child EXCEPT ![q] = Nil]
      /\ pc' = [pc EXCEPT ![q] = "user"]
      /\ UNCHANGED <<pid, parent, pgdirs, abandoned>>
  BY DEF ForkFails, Goto, IndInv, TypeOK
<1> HIDE DEF x
<1>3. \A p \in Procs : (Alive(p)' <=> Alive(p)) /\ (Alive(p) => p # x)
  BY <1>1, <1>2, Typed DEF Alive
<1>4. PgdirsExact'
  BY <1>2, <1>3, DirsAreNext DEF ThreadInv, PgdirsExact
<1>5. pc'[initproc] # "clone"
  BY <1>2, Numbers, Typed DEF ThreadInv
<1>6. \A r \in Procs : Forking(r)' => Forking(r) /\ child'[r] = child[r]
  BY <1>2, Typed, Kin DEF Forking
<1>7. ASSUME NEW p \in Procs \ {initproc}, Alive(p)
      PROVE  pgdir'[p] = pgdir[p] /\ pgdir'[parent[p]] = pgdir[parent[p]]
  BY <1>2, <1>3, <1>7, ParentAlive
<1>8. pgdir'[initproc] = pgdir[initproc]
  BY <1>1, <1>2, Numbers
<1>9. pid'[initproc] = 1 /\ \A r \in Procs : Forking(r)' => pid'[child'[r]] > 1 /\ pid'[r] < pid'[child'[r]]
  BY <1>2, <1>6 DEF ThreadInv
<1>10. QED
  BY <1>2, <1>3, <1>4, <1>5, <1>7, <1>8, <1>9, ThreadKept

LEMMA SpawnThread ==
  ASSUME IndInv, ThreadInv, NEW c \in CPUs, NEW q \in Procs,
         NEW call \in {"fork", "clone"}, NEW d \in Procs, Spawn(c, q, call, d),
         \/ call = "fork" /\ d \notin pgdirs
         \/ call = "clone" /\ d = pgdir[q]
  PROVE  ThreadInv'
<1> DEFINE x == child[q]
<1>1. x \in Procs /\ state[x] = "EMBRYO" /\ x # initproc /\ x # q /\ pc[q] = call
  BY DEF Spawn, On, IndInv, EmbryoInv, Forking, KinInv
<1>2. /\ state' = [state EXCEPT ![x] = "RUNNABLE"]
      /\ pgdir' = [pgdir EXCEPT ![x] = d]
      /\ parent' = [parent EXCEPT ![x] = q]
      /\ pc' = [pc EXCEPT ![x] = "user", ![q] = "user"]
      /\ pgdirs' = pgdirs \cup {d}
      /\ child' = [child EXCEPT ![q] = Nil]
      /\ pid' = pid /\ abandoned' = abandoned
      /\ Alive(q)
  BY DEF Spawn, On, Alive
<1>3. pid[x] > 1 /\ pid[q] < pid[x]
  BY <1>1 DEF ThreadInv, Forking
<1> HIDE DEF x
<1>4. \A p \in Procs : /\ Alive(p)' <=> (Alive(p) \/ p = x)
                       /\ Alive(p) => p # x
                       /\ p # x => pgdir'[p] = pgdir[p] /\ parent'[p] = parent[p]
  <2>1. pgdir \in [Procs -> Procs \cup {Nil}]
    BY DEF IndInv, TypeOK
  <2>2. QED
    BY <1>1, <1>2, <2>1, Typed, Kin DEF Alive
<1>5. pgdir'[x] = d /\ parent'[x] = q /\ pgdir'[q] = pgdir[q]
  <2>1. pgdir \in [Procs -> Procs \cup {Nil}]
    BY DEF IndInv, TypeOK
  <2>2. QED
    BY <1>1, <1>2, <2>1, Kin
<1>6. PgdirsExact'
  <2>1. ASSUME NEW e \in Procs \ abandoned
        PROVE  e \in pgdirs' <=> \E p \in Procs : Alive(p)' /\ pgdir'[p] = e
    <3>1. e \in pgdirs <=> \E p \in Procs : Alive(p) /\ pgdir[p] = e
      BY DEF ThreadInv, PgdirsExact
    <3>2. (\E p \in Procs : Alive(p)' /\ pgdir'[p] = e) <=>
            (e = d \/ \E p \in Procs : Alive(p) /\ pgdir[p] = e)
      BY <1>1, <1>4, <1>5
    <3>3. QED
      BY <1>2, <3>1, <3>2
  <2>2. QED
    BY <1>2, <2>1, DirsAreNext
<1>7. pc'[initproc] # "clone"
  BY <1>2, Numbers, Typed DEF ThreadInv
<1>8. \A r \in Procs : Forking(r)' => Forking(r) /\ child'[r] = child[r]
  BY <1>2, Typed, Kin DEF Forking
<1>9. ASSUME NEW p \in Procs \ {initproc}, Alive(p)
      PROVE  /\ pgdir'[p] = pgdir[p] /\ parent'[p] = parent[p]
             /\ pgdir'[parent[p]] = pgdir[parent[p]]
  BY <1>4, <1>9, ParentAlive
<1>10. pgdir'[initproc] = pgdir[initproc] /\ Alive(initproc)
  BY <1>1, <1>4, Numbers DEF IndInv, KinInv, Alive
<1>11. d # pgdir[initproc]
  BY <1>1, <1>2, <1>10, Numbers DEF ThreadInv, PgdirsExact
<1>12. \A p \in Procs : Alive(p) /\ pgdir[p] = d /\ d \notin abandoned => call = "clone"
  BY DEF ThreadInv, PgdirsExact
<1>13. ASSUME NEW p \in Procs \ {initproc}, NEW r \in Procs \ {initproc},
              Alive(p)', Alive(r)', p # r, pgdir'[p] = pgdir'[r], pgdir'[p] \notin abandoned'
       PROVE  pgdir'[parent'[p]] = pgdir'[p] \/ pgdir'[parent'[r]] = pgdir'[r]
  <2>1. CASE p = x \/ r = x
    <3>1. call = "clone"
      BY <1>2, <1>4, <1>5, <1>12, <1>13, <2>1
    <3>2. pgdir'[q] = d
      BY <1>5, <3>1
    <3>3. QED
      BY <1>5, <1>13, <2>1, <3>2
  <2>2. CASE p # x /\ r # x
    <3>1. Alive(p) /\ Alive(r)
      BY <1>4, <1>13, <2>2
    <3>2. pgdir[parent[p]] = pgdir[p] \/ pgdir[parent[r]] = pgdir[r]
      BY <1>2, <1>9, <1>13, <3>1 DEF ThreadInv
    <3>3. QED
      BY <1>9, <3>1, <3>2
  <2>3. QED
    BY <2>1, <2>2
<1>14. ASSUME NEW p \in Procs \ {initproc}, Alive(p)', pgdir'[parent'[p]] = pgdir'[p]
       PROVE  pid'[parent'[p]] < pid'[p]
  <2>1. CASE p = x
    BY <1>2, <1>3, <1>5, <2>1
  <2>2. CASE p # x
    <3>1. Alive(p)
      BY <1>4, <1>14, <2>2
    <3>2. pgdir[parent[p]] = pgdir[p] /\ pid'[parent'[p]] = pid[parent[p]]
      BY <1>2, <1>9, <1>14, <3>1
    <3>3. QED
      BY <1>2, <3>1, <3>2 DEF ThreadInv
  <2>3. QED
    BY <2>1, <2>2
<1>15. \A p \in Procs \ {initproc} : Alive(p)' => pid'[p] > 1 /\ pgdir'[p] # pgdir'[initproc]
  BY <1>2, <1>3, <1>4, <1>5, <1>9, <1>10, <1>11 DEF ThreadInv
<1>16. /\ pid'[initproc] = 1 /\ pgdir'[initproc] \notin abandoned'
       /\ \A r \in Procs : Forking(r)' => pid'[child'[r]] > 1 /\ pid'[r] < pid'[child'[r]]
  BY <1>2, <1>8, <1>10 DEF ThreadInv
<1>17. QED
  BY <1>6, <1>7, <1>13, <1>14, <1>15, <1>16 DEF ThreadInv

\* A child that shares is handed to init only if the directory is abandoned.
LEMMA ExitThread ==
  ASSUME IndInv, ThreadInv, NEW c \in CPUs, NEW q \in Procs, exit(c, q)
  PROVE  ThreadInv'
<1>1. /\ q # initproc /\ state[q] = "RUNNING"
      /\ \A p \in Procs : parent[p] = q /\ pgdir[p] = pgdir[q] => pgdir[q] \in abandoned'
      /\ \A d : d \in abandoned' => d \in abandoned \/ d = pgdir[q]
      /\ abandoned \subseteq abandoned'
      /\ \A p \in Procs : parent'[p] = IF parent[p] = q THEN initproc ELSE parent[p]
      /\ UNCHANGED <<pid, pgdir, pgdirs, pc, child>>
  BY DEF exit, On, Threads, Children, Reparented
<1>2. ASSUME NEW p \in Procs PROVE Alive(p)' <=> Alive(p)
  BY Typed DEF exit, On, Alive, Woken, wakeup1
<1>3. PgdirsExact'
  BY <1>1, <1>2, DirsAreNext DEF ThreadInv, PgdirsExact
<1>4. ASSUME NEW p \in Procs \ {initproc}, Alive(p), pgdir[p] \notin abandoned'
      PROVE  pgdir[parent'[p]] = pgdir[p] <=> pgdir[parent[p]] = pgdir[p]
  BY <1>1, <1>4 DEF ThreadInv
<1>5. ASSUME NEW p \in Procs \ {initproc}, Alive(p), pgdir[parent'[p]] = pgdir[p]
      PROVE  parent'[p] = parent[p]
  BY <1>1, <1>5 DEF ThreadInv
<1>6. pgdir[initproc] \notin abandoned'
  <2>1. Alive(q)
    BY <1>1 DEF Alive
  <2>2. pgdir[q] # pgdir[initproc]
    BY <1>1, <2>1 DEF ThreadInv
  <2>3. QED
    BY <1>1, <2>2 DEF ThreadInv
<1>7. ASSUME NEW p \in Procs \ {initproc}, NEW r \in Procs \ {initproc},
             Alive(p)', Alive(r)', p # r, pgdir[p] = pgdir[r], pgdir[p] \notin abandoned'
      PROVE  pgdir[parent'[p]] = pgdir[p] \/ pgdir[parent'[r]] = pgdir[r]
  BY <1>1, <1>2, <1>4, <1>7 DEF ThreadInv
<1>8. QED
  BY <1>1, <1>2, <1>3, <1>5, <1>6, <1>7 DEF ThreadInv, Forking

LEMMA WaitReapsThread ==
  ASSUME IndInv, ThreadInv, NEW c \in CPUs, NEW q \in Procs, WaitReaps(c, q)
  PROVE  ThreadInv'
<1>. PICK p \in Procs :
       /\ state[p] = "ZOMBIE" /\ parent[p] = q
       /\ state' = [state EXCEPT ![p] = "UNUSED"]
       /\ pid' = [pid EXCEPT ![p] = 0]
       /\ parent' = [parent EXCEPT ![p] = Nil]
       /\ pgdirs' = pgdirs \ Freed(p, q)
  BY DEF WaitReaps, Zombies, Children
<1>1. p \in Procs \ {initproc} /\ state[p] = "ZOMBIE" /\ parent[p] = q
  BY DEF IndInv, KinInv
<1>2. /\ state' = [state EXCEPT ![p] = "UNUSED"]
      /\ pid' = [pid EXCEPT ![p] = 0]
      /\ parent' = [parent EXCEPT ![p] = Nil]
      /\ pgdirs' = pgdirs \ Freed(p, q)
      /\ pc' = [pc EXCEPT ![q] = "user"]
      /\ UNCHANGED <<pgdir, abandoned, child>>
      /\ state[q] = "RUNNING"
  BY DEF WaitReaps, InWait, Goto
<1>3. \A r \in Procs : /\ Alive(r)' <=> (Alive(r) /\ r # p)
                       /\ r # p => pid'[r] = pid[r] /\ parent'[r] = parent[r]
  <2>1. pid \in [Procs -> 0..nextpid - 1]
    BY DEF IndInv, TypeOK
  <2>2. QED
    BY <1>1, <1>2, <2>1, Typed, Kin DEF Alive
<1>4. PgdirsExact'
  <2>1. CASE pgdir[p] = pgdir[q]
    <3>1. pgdirs' = pgdirs /\ Alive(q) /\ q # p
      BY <1>1, <1>2, <2>1 DEF Freed, Alive
    <3>2. QED
      BY <1>1, <1>2, <1>3, <2>1, <3>1, DirsAreNext, SMT DEF ThreadInv, PgdirsExact
  <2>2. CASE pgdir[p] # pgdir[q]
    <3>1. pgdir[p] \notin abandoned => \A r \in Procs : Alive(r) /\ r # p => pgdir[r] # pgdir[p]
      BY <1>1, <2>2, ThreadsGone
    <3>2. ASSUME NEW d \in Procs \ abandoned
          PROVE  d \in pgdirs' <=> \E r \in Procs : Alive(r)' /\ pgdir[r] = d
      <4>1. d \in pgdirs <=> \E r \in Procs : Alive(r) /\ pgdir[r] = d
        BY DEF ThreadInv, PgdirsExact
      <4>2. d \in pgdirs' <=> d \in pgdirs /\ d # pgdir[p]
        BY <1>2, <2>2 DEF Freed
      <4>3. QED
        BY <1>3, <3>1, <4>1, <4>2
    <3>3. QED
      BY <1>2, <3>2, DirsAreNext
  <2>3. QED
    BY <2>1, <2>2
<1>5. pid'[initproc] = 1 /\ pc'[initproc] # "clone"
  BY <1>1, <1>2, <1>3, Numbers, Typed DEF ThreadInv
<1>6. ASSUME NEW r \in Procs, Forking(r)'
      PROVE  Forking(r) /\ r # p /\ child[r] \in Procs /\ child[r] # p
  <2>1. Forking(r)
    BY <1>2, <1>6, Typed DEF Forking
  <2>2. QED
    BY <1>1, <2>1 DEF IndInv, EmbryoInv
<1>7. ASSUME NEW r \in Procs \ {initproc}, Alive(r), r # p
      PROVE  /\ pid'[r] = pid[r] /\ parent'[r] = parent[r]
             /\ pid'[parent[r]] = pid[parent[r]]
  BY <1>1, <1>3, <1>7, ParentAlive
<1>8. \A r \in Procs : Forking(r)' => pid'[child'[r]] > 1 /\ pid'[r] < pid'[child'[r]]
  BY <1>2, <1>3, <1>6 DEF ThreadInv
<1>9. QED
  BY <1>2, <1>3, <1>4, <1>5, <1>7, <1>8, ThreadKept

\* The steps that change a process's state only between those of the living.
LEMMA CalmSteps ==
  ASSUME IndInv, ThreadInv
  PROVE  /\ Timer \/ UNCHANGED vars => ThreadInv'
         /\ \A c \in CPUs : Switch(c) => ThreadInv'
<1>1. UNCHANGED vars => Calm
  BY DEF vars, table, Calm
<1>2. Timer => Calm
  BY TimerTicksInd, TimerWakesInd DEF Timer
<1>3. \A c \in CPUs : Switch(c) => Calm
  BY SchedulerInd, SchedInd, ResumeInd DEF Switch
<1>4. QED
  BY <1>1, <1>2, <1>3, CalmThread

LEMMA CalmCalls ==
  ASSUME IndInv, ThreadInv, NEW c \in CPUs, NEW q \in Procs,
         \/ WaitFails(c, q) \/ WaitSleeps(c, q) \/ wait(c, q) \/ yield(c, q)
         \/ SleepReturns(c, q) \/ SleepTests(c, q) \/ sleep(c, q) \/ Reacquire(c, q)
         \/ \E k \in KillArgs : kill(c, q, k)
         \/ \E n \in 1..MaxSleep : sys_sleep(c, q, n)
  PROVE  ThreadInv'
<1>1. ASSUME NEW k \in KillArgs, kill(c, q, k) PROVE Calm
  BY <1>1, KillInd, ProcConstants
<1>2. Calm
  BY <1>1, WaitFailsInd, WaitSleepsInd, WaitInd, YieldInd, SleepReturnsInd,
     SleepTestsInd, SleepInd, ReacquireInd, Sys_sleepInd
<1>3. QED
  BY <1>2, CalmThread

LEMMA NextThread == IndInv /\ ThreadInv /\ [Next]_vars => ThreadInv'
<1> SUFFICES ASSUME IndInv, ThreadInv, [Next]_vars PROVE ThreadInv'
  OBVIOUS
<1>1. ASSUME NEW c \in CPUs, NEW q \in Procs, Continue(c, q) PROVE ThreadInv'
  <2>1. CASE fork(c, q)
    BY <2>1, SpawnCalls, SpawnThread
  <2>2. CASE clone(c, q)
    BY <2>2, SpawnCalls, SpawnThread
  <2>3. QED
    BY <1>1, <2>1, <2>2, ForkFailsThread, WaitReapsThread, CalmCalls DEF Continue
<1>2. ASSUME NEW c \in CPUs, NEW q \in Procs, Request(c, q) PROVE ThreadInv'
  BY <1>2, AllocprocThread, ExitThread, CalmCalls DEF Request
<1>3. QED
  BY <1>1, <1>2, CalmSteps, CalmCalls DEF Next

\* The page directories allocated are those of the processes there are, for any
\* number of them, but for those whose process exited before its threads: the
\* test in wait, which compares with the reaping parent only, frees each other
\* directory with its last user and not before.
THEOREM PgdirsFreedOnce == Spec => []PgdirsExact
<1>1. Init => ThreadInv
  BY InitThread
<1>2. IndInv /\ ThreadInv /\ [Next]_vars => ThreadInv'
  BY NextThread
<1>3. ThreadInv => PgdirsExact
  BY DEF ThreadInv
<1>4. QED
  BY <1>1, <1>2, <1>3, Inductive, PTL DEF Spec
=============================================================================
