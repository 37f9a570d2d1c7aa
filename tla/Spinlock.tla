------------------------------ MODULE Spinlock ------------------------------
(***************************************************************************)
(* The kernel's spin locks (spinlock.c): acquire, release, holding and the *)
(* matched interrupt disabling of pushcli and popcli.                      *)
(*                                                                         *)
(* Every CPU runs kernel code and, while its interrupt flag is set, may be *)
(* interrupted by a handler that takes locks of its own: the two contexts  *)
(* of a CPU share its flag, its ncli and its intena.  A context steps      *)
(* through acquire and release at the grain of their shared accesses.      *)
(***************************************************************************)
EXTENDS Integers, FiniteSets

CONSTANTS CPUs,      \* the processors
          Locks,     \* the locks, numbered in the order the kernel nests them
          NoCpu,     \* the null value of lk->cpu
          NoLock     \* a context that is in neither acquire nor release

ASSUME LocksRanked == /\ Locks \subseteq Nat
                      /\ NoLock \notin Locks
                      /\ NoCpu \notin CPUs

VARIABLES locked,    \* lk->locked
          cpu,       \* lk->cpu
          IF_,       \* per CPU: the interrupt flag of eflags
          ncli,      \* cpu->ncli
          intena,    \* cpu->intena
          inIntr,    \* per CPU: a handler has interrupted the kernel code
          pc, arg,   \* per context: place in acquire/release and its lock
          eflags,    \* per context: pushcli's local copy of the flags
          held       \* per context: the locks between its two xchg

vars == <<locked, cpu, IF_, ncli, intena, inIntr, pc, arg, eflags, held>>

Levels == {"kernel", "intr"}
Contexts == CPUs \X Levels
Places == {"run", "pushcli", "locked?", "cpu?", "xchg", "setcpu",
           "unxchg", "popcli", "panic"}

\* The context a CPU is executing.
Active(x) == inIntr[x[1]] <=> x[2] = "intr"

At(x, place) == Active(x) /\ pc[x] = place

Goto(x, place) == pc' = [pc EXCEPT ![x] = place]

holding(c, l) == locked[l] = 1 /\ cpu[l] = c

-----------------------------------------------------------------------------
\* initlock on every lock; the boot code runs with interrupts off.
Init ==
  /\ locked = [l \in Locks |-> 0]
  /\ cpu = [l \in Locks |-> NoCpu]
  /\ IF_ = [c \in CPUs |-> FALSE]
  /\ ncli = [c \in CPUs |-> 0]
  /\ intena = [c \in CPUs |-> FALSE]
  /\ inIntr = [c \in CPUs |-> FALSE]
  /\ pc = [x \in Contexts |-> "run"]
  /\ arg = [x \in Contexts |-> NoLock]
  /\ eflags = [x \in Contexts |-> FALSE]
  /\ held = [x \in Contexts |-> {}]

\* acquire(l) is called: pushcli reads the flags.  Callers nest locks upwards.
AcquireFrom(x, l, place) ==
  /\ At(x, "run")
  /\ \A m \in held[x] : m < l
  /\ eflags' = [eflags EXCEPT ![x] = IF_[x[1]]]
  /\ arg' = [arg EXCEPT ![x] = l]
  /\ Goto(x, place)
  /\ UNCHANGED <<locked, cpu, IF_, ncli, intena, inIntr, held>>

\* Faulty variant: pushcli is skipped where interrupts are already off.
acquire_UnlessOff(x, l) ==
  AcquireFrom(x, l, IF IF_[x[1]] THEN "pushcli" ELSE "locked?")

acquire(x, l) == AcquireFrom(x, l, "pushcli")

\* Faulty variant: the flag is saved and counted but never cleared.
cli_Missing(c) == IF_

cli(c) == [IF_ EXCEPT ![c] = FALSE]

\* cli, and the outermost pushcli remembers the flag it read.
pushcli(x) ==
  LET c == x[1]
  IN  /\ At(x, "pushcli")
      /\ IF_' = cli(c)
      /\ ncli' = [ncli EXCEPT ![c] = @ + 1]
      /\ intena' = [intena EXCEPT ![c] = IF ncli[c] = 0 THEN eflags[x] ELSE @]
      /\ eflags' = [eflags EXCEPT ![x] = FALSE]
      /\ Goto(x, "locked?")
      /\ UNCHANGED <<locked, cpu, inIntr, arg, held>>

\* holding(lk) in acquire reads lk->locked and then lk->cpu, without the lock.
HoldingReadsLocked(x) ==
  /\ At(x, "locked?")
  /\ Goto(x, IF locked[arg[x]] = 1 THEN "cpu?" ELSE "xchg")
  /\ UNCHANGED <<locked, cpu, IF_, ncli, intena, inIntr, arg, eflags, held>>

HoldingReadsCpu(x) ==
  /\ At(x, "cpu?")
  /\ Goto(x, IF cpu[arg[x]] = x[1] THEN "panic" ELSE "xchg")
  /\ UNCHANGED <<locked, cpu, IF_, ncli, intena, inIntr, arg, eflags, held>>

\* Faulty variant: what was read before decides, not what xchg returns.
FoundFree_Stale(l) == TRUE

\* The while condition: the xchg that ends the spinning is one that finds 0.
FoundFree(l) == locked[l] = 0

xchg(x) ==
  LET l == arg[x]
  IN  /\ At(x, "xchg")
      /\ FoundFree(l)
      /\ locked' = [locked EXCEPT ![l] = 1]
      /\ held' = [held EXCEPT ![x] = @ \cup {l}]
      /\ Goto(x, "setcpu")
      /\ UNCHANGED <<cpu, IF_, ncli, intena, inIntr, arg, eflags>>

SetCpu(x) ==
  /\ At(x, "setcpu")
  /\ cpu' = [cpu EXCEPT ![arg[x]] = x[1]]
  /\ arg' = [arg EXCEPT ![x] = NoLock]
  /\ Goto(x, "run")
  /\ UNCHANGED <<locked, IF_, ncli, intena, inIntr, eflags, held>>

\* Faulty variant: the holder's name is left in the free lock.
ClearedCpu_Kept(l) == cpu[l]

ClearedCpu(l) == NoCpu

\* release(l), not always of the last lock taken: sleep() gives up the outer
\* one first.  The holder's cpu field is cleared before the lock is.
release(x, l) ==
  /\ At(x, "run")
  /\ l \in held[x]
  /\ cpu' = [cpu EXCEPT ![l] = IF holding(x[1], l) THEN ClearedCpu(l) ELSE @]
  /\ arg' = [arg EXCEPT ![x] = l]
  /\ Goto(x, IF holding(x[1], l) THEN "unxchg" ELSE "panic")
  /\ UNCHANGED <<locked, IF_, ncli, intena, inIntr, eflags, held>>

unxchg(x) ==
  LET l == arg[x]
  IN  /\ At(x, "unxchg")
      /\ locked' = [locked EXCEPT ![l] = 0]
      /\ held' = [held EXCEPT ![x] = @ \ {l}]
      /\ arg' = [arg EXCEPT ![x] = NoLock]
      /\ Goto(x, "popcli")
      /\ UNCHANGED <<cpu, IF_, ncli, intena, inIntr, eflags>>

\* Faulty variant: any popcli gives the flag back.
Outermost_Any(c) == intena[c]

\* ncli falls to 0 and interrupts were on at the first pushcli.
Outermost(c) == ncli[c] = 1 /\ intena[c]

popcli(x) ==
  LET c == x[1]
  IN  /\ At(x, "popcli")
      /\ ncli' = [ncli EXCEPT ![c] = @ - 1]
      /\ IF_' = [IF_ EXCEPT ![c] = @ \/ Outermost(c)]
      /\ Goto(x, IF IF_[c] \/ ncli[c] <= 0 THEN "panic" ELSE "run")
      /\ UNCHANGED <<locked, cpu, intena, inIntr, arg, eflags, held>>

\* The scheduler's loop enables interrupts where it holds no lock.
sti(c) ==
  /\ At(<<c, "kernel">>, "run")
  /\ held[<<c, "kernel">>] = {}
  /\ IF_' = [IF_ EXCEPT ![c] = TRUE]
  /\ UNCHANGED <<locked, cpu, ncli, intena, inIntr, pc, arg, eflags, held>>

\* An interrupt gate clears the flag; iret at the handler's end restores it.
Interrupt(c) ==
  /\ IF_[c]
  /\ inIntr' = [inIntr EXCEPT ![c] = TRUE]
  /\ IF_' = [IF_ EXCEPT ![c] = FALSE]
  /\ UNCHANGED <<locked, cpu, ncli, intena, pc, arg, eflags, held>>

iret(c) ==
  /\ inIntr[c]
  /\ At(<<c, "intr">>, "run")
  /\ held[<<c, "intr">>] = {}
  /\ inIntr' = [inIntr EXCEPT ![c] = FALSE]
  /\ IF_' = [IF_ EXCEPT ![c] = TRUE]
  /\ UNCHANGED <<locked, cpu, ncli, intena, pc, arg, eflags, held>>

-----------------------------------------------------------------------------
\* The steps a context takes inside acquire and release.
Advance(x) ==
  \/ pushcli(x) \/ HoldingReadsLocked(x) \/ HoldingReadsCpu(x)
  \/ xchg(x) \/ SetCpu(x) \/ unxchg(x) \/ popcli(x)

Call(x) == \E l \in Locks : acquire(x, l) \/ release(x, l)

Next == \/ \E x \in Contexts : Advance(x) \/ Call(x)
        \/ \E c \in CPUs : sti(c) \/ Interrupt(c) \/ iret(c)

Spec == Init /\ [][Next]_vars

\* A CPU keeps executing, critical sections and handlers end.
Fairness ==
  /\ \A x \in Contexts : WF_vars(Advance(x))
  /\ \A x \in Contexts : \A l \in Locks : SF_vars(release(x, l))
  /\ \A c \in CPUs : WF_vars(iret(c))

FairSpec == Spec /\ Fairness

-----------------------------------------------------------------------------
\* The fields of the locks and the interrupt state of the CPUs have their types;
\* ncli in particular never goes below 0 (popcli's panic).
TypeOK ==
  /\ locked \in [Locks -> {0, 1}]
  /\ cpu \in [Locks -> CPUs \cup {NoCpu}]
  /\ IF_ \in [CPUs -> BOOLEAN]
  /\ ncli \in [CPUs -> Nat]
  /\ intena \in [CPUs -> BOOLEAN]
  /\ inIntr \in [CPUs -> BOOLEAN]
  /\ pc \in [Contexts -> Places]
  /\ arg \in [Contexts -> Locks \cup {NoLock}]
  /\ eflags \in [Contexts -> BOOLEAN]
  /\ held \in [Contexts -> SUBSET Locks]

\* Two contexts are never between the two xchg of acquire and release of the
\* same lock, whichever CPUs they run on (acquire's xchg loop).
MutualExclusion ==
  \A x, y \in Contexts : x # y => held[x] \cap held[y] = {}

\* While a CPU holds a lock no handler can run on it, so no handler spins on a
\* lock the code under it holds: "disable interrupts to avoid deadlock" in
\* acquire, and popcli's counting across nested locks released out of order.
HeldMeansInterruptsOff ==
  \A c \in CPUs : (\E v \in Levels : held[<<c, v>>] # {}) =>
     ~IF_[c] /\ (inIntr[c] => held[<<c, "kernel">>] = {})

\* The checks that call panic are false alarms for no caller that takes a
\* lock it does not hold and releases one it does, although acquire's
\* holding() reads the lock's two fields while another CPU changes them.
NoPanic == \A x \in Contexts : pc[x] # "panic"

\* The pushcli calls of a context that no popcli has undone.
Depth(x) == Cardinality(held[x])
  + (IF pc[x] \in {"locked?", "cpu?", "xchg", "popcli"} THEN 1 ELSE 0)

\* ncli counts exactly the pushcli calls not yet undone by either context of
\* the CPU, so a CPU that holds nothing is back at 0 (pushcli and popcli "are
\* matched: it takes two popcli to undo two pushcli").
NcliMatched ==
  \A c \in CPUs : ncli[c] = Depth(<<c, "kernel">>) + Depth(<<c, "intr">>)

\* Spinning is not in vain: when a context waits for a lock, some context
\* takes that lock later (the winner may be another one, xchg is not fair).
SpinEnds ==
  \A l \in Locks :
    (\E x \in Contexts : pc[x] = "xchg" /\ arg[x] = l)
      ~> (\E x \in Contexts : pc[x] = "setcpu" /\ arg[x] = l)
=============================================================================
