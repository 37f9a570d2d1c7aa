--------------------------- MODULE Spinlock_proofs ---------------------------
(***************************************************************************)
(* Safety of the spin locks for any set of CPUs and locks.                 *)
(*                                                                         *)
(* MutualExclusion follows from xchg alone.  The other invariants need     *)
(* each other: interrupts are off while a lock is held because ncli counts *)
(* the locks of both contexts, the counting is right because a handler     *)
(* only runs over kernel code that holds nothing, and that is so because   *)
(* interrupts are off while a lock is held.                                *)
(***************************************************************************)
EXTENDS Spinlock, FiniteSetTheorems, TLAPS

USE ZenonT(30), SMT

InCall == {"pushcli", "locked?", "cpu?", "xchg", "setcpu", "unxchg"}
Counted == {"locked?", "cpu?", "xchg", "popcli"}

\* What each context's place says about its lock, its flags and lk->cpu.
ContextInv(x) ==
  /\ pc[x] # "panic"
  /\ IsFiniteSet(held[x])
  /\ pc[x] \in InCall <=> arg[x] # NoLock
  /\ pc[x] \in {"setcpu", "unxchg"} => arg[x] \in held[x]
  /\ pc[x] \in {"pushcli", "locked?", "cpu?", "xchg"} => arg[x] \notin held[x]
  /\ \A l \in held[x] :
       cpu[l] = IF pc[x] \in {"setcpu", "unxchg"} /\ arg[x] = l THEN NoCpu ELSE x[1]

\* A lock is 1 exactly while some context holds it, and a free one names no CPU.
LockInv ==
  \A l \in Locks : /\ locked[l] = 1 <=> \E x \in Contexts : l \in held[x]
                   /\ locked[l] = 0 => cpu[l] = NoCpu

\* What a CPU's flag, count and saved flag say about its two contexts.
CpuInv(c) ==
  LET k == <<c, "kernel">>
      i == <<c, "intr">>
  IN  /\ ncli[c] = Depth(k) + Depth(i)
      /\ IF_[c] => ncli[c] = 0 /\ ~inIntr[c]
      /\ inIntr[c] => /\ held[k] = {}
                      /\ pc[k] \in {"run", "pushcli"}
                      /\ ncli[c] > 0 => ~intena[c]
      /\ ~inIntr[c] => pc[i] = "run" /\ held[i] = {}
      /\ ~eflags[i]

IndInv ==
  /\ TypeOK
  /\ MutualExclusion
  /\ LockInv
  /\ \A x \in Contexts : ContextInv(x)
  /\ \A c \in CPUs : CpuInv(c)
-----------------------------------------------------------------------------
\* Contexts are pairs of a CPU and one of the two levels.
LEMMA ContextPairs ==
  /\ \A x \in Contexts : x[1] \in CPUs /\ x[2] \in Levels /\ x = <<x[1], x[2]>>
  /\ \A c \in CPUs : /\ <<c, "kernel">> \in Contexts /\ <<c, "intr">> \in Contexts
                    /\ <<c, "kernel">> # <<c, "intr">>
  /\ \A x \in Contexts : x = <<x[1], "kernel">> \/ x = <<x[1], "intr">>
  /\ \A c, d \in CPUs, v, w \in Levels : <<c, v>> = <<d, w>> => c = d /\ v = w
BY SMT DEF Contexts, Levels

\* A context's depth is a natural number, 0 where it is outside the calls
\* and holds nothing, and positive where it holds a lock.
LEMMA DepthFacts ==
  ASSUME IndInv, NEW x \in Contexts
  PROVE  /\ Depth(x) \in Nat
         /\ Cardinality(held[x]) \in Nat
         /\ held[x] = {} /\ pc[x] \notin Counted => Depth(x) = 0
         /\ Depth(x) = 0 => held[x] = {} /\ pc[x] \notin Counted
<1>1. IsFiniteSet(held[x])
  BY DEF IndInv, ContextInv
<1>2. Cardinality(held[x]) \in Nat /\ (Cardinality(held[x]) = 0 <=> held[x] = {})
  BY <1>1, FS_CardinalityType, FS_EmptySet
<1>3. QED
  BY <1>2, SMT DEF Depth, Counted

\* The code that runs on a CPU is the only one there that holds locks or is
\* inside acquire beyond reading the flags.
LEMMA OtherContextIdle ==
  ASSUME IndInv, NEW x \in Contexts, NEW y \in Contexts,
         Active(x), y[1] = x[1], y # x
  PROVE  held[y] = {} /\ pc[y] \in {"run", "pushcli"} /\ Depth(y) = 0
<1>1. held[y] = {} /\ pc[y] \in {"run", "pushcli"}
  BY ContextPairs, SMT DEF IndInv, CpuInv, Active, Levels
<1>2. QED
  BY <1>1, DepthFacts DEF Counted

\* A CPU whose state and contexts a step leaves alone keeps its invariant.
LEMMA CpuInvStable ==
  ASSUME NEW c \in CPUs, CpuInv(c),
         ncli'[c] = ncli[c], IF_'[c] = IF_[c], intena'[c] = intena[c],
         inIntr'[c] = inIntr[c],
         eflags'[<<c, "intr">>] = eflags[<<c, "intr">>],
         \A v \in Levels : /\ pc'[<<c, v>>] = pc[<<c, v>>]
                          /\ held'[<<c, v>>] = held[<<c, v>>]
                          /\ Depth(<<c, v>>)' = Depth(<<c, v>>)
  PROVE  CpuInv(c)'
BY DEF CpuInv, Levels

\* A step of the running context that changes neither a depth nor a CPU's
\* flags keeps every CPU's invariant, which says nothing of that context.
LEMMA QuietStep ==
  ASSUME IndInv, NEW x \in Contexts, Active(x),
         UNCHANGED <<IF_, ncli, intena, inIntr, eflags>>,
         \A y \in Contexts : Depth(y)' = Depth(y),
         \A y \in Contexts : y # x => pc'[y] = pc[y] /\ held'[y] = held[y]
  PROVE  \A c \in CPUs : CpuInv(c)'
<1> SUFFICES ASSUME NEW c \in CPUs PROVE CpuInv(c)'
  OBVIOUS
<1> DEFINE k == <<c, "kernel">>  i == <<c, "intr">>
<1>1. CpuInv(c) /\ k \in Contexts /\ i \in Contexts
  BY ContextPairs DEF IndInv
<1>2. (inIntr[c] => x # k) /\ (~inIntr[c] => x # i)
  BY SMT DEF Active
<1>3. QED
  BY <1>1, <1>2 DEF CpuInv

-----------------------------------------------------------------------------
LEMMA InitInd == Init => IndInv
<1> SUFFICES ASSUME Init PROVE IndInv
  OBVIOUS
<1>1. TypeOK /\ MutualExclusion /\ LockInv
  BY LocksRanked, SMT DEF Init, TypeOK, MutualExclusion, LockInv, Places
<1>2. ASSUME NEW x \in Contexts PROVE ContextInv(x) /\ Depth(x) = 0
  BY <1>2, FS_EmptySet, SMT DEF Init, ContextInv, Depth, InCall
<1>3. ASSUME NEW c \in CPUs PROVE CpuInv(c)
  BY <1>2, <1>3, ContextPairs, SMT DEF Init, CpuInv
<1>4. QED
  BY <1>1, <1>2, <1>3 DEF IndInv

LEMMA AcquireInd ==
  ASSUME IndInv, NEW x \in Contexts, NEW l \in Locks, acquire(x, l)
  PROVE  IndInv'
<1> USE DEF acquire, AcquireFrom, At, Goto
<1>1. TypeOK'
  BY ContextPairs DEF IndInv, TypeOK, Places
<1>2. MutualExclusion' /\ LockInv'
  BY DEF IndInv, MutualExclusion, LockInv
<1>3. ASSUME NEW y \in Contexts PROVE ContextInv(y)'
  BY LocksRanked, SMT DEF IndInv, ContextInv, TypeOK, InCall
<1>4. \A y \in Contexts : Depth(y)' = Depth(y)
  BY DEF IndInv, TypeOK, Depth
<1>5. ASSUME NEW c \in CPUs PROVE CpuInv(c)'
  <2> DEFINE k == <<c, "kernel">>  i == <<c, "intr">>
  <2>1. CpuInv(c) /\ k \in Contexts /\ i \in Contexts /\ k # i
    BY ContextPairs DEF IndInv
  <2>2. ncli'[c] = Depth(k)' + Depth(i)'
    BY <1>4, <2>1 DEF CpuInv
  <2>3. ~eflags'[i]
    <3>1. CASE x = i
      BY <2>1, <3>1, SMT DEF CpuInv, IndInv, TypeOK, Active
    <3>2. CASE x # i
      BY <2>1, <3>2 DEF CpuInv, IndInv, TypeOK
    <3>3. QED BY <3>1, <3>2
  <2>4. inIntr'[c] => pc'[k] \in {"run", "pushcli"}
    BY <2>1 DEF CpuInv, IndInv, TypeOK
  <2>5. ~inIntr'[c] => pc'[i] = "run"
    BY <2>1, SMT DEF CpuInv, IndInv, TypeOK, Active
  <2>6. QED
    BY <2>1, <2>2, <2>3, <2>4, <2>5 DEF CpuInv
<1>6. QED
  BY <1>1, <1>2, <1>3, <1>5 DEF IndInv

LEMMA PushcliInd ==
  ASSUME IndInv, NEW x \in Contexts, pushcli(x)
  PROVE  IndInv'
<1>1. x[1] \in CPUs /\ Active(x) /\ TypeOK /\ pc[x] = "pushcli"
  BY ContextPairs DEF IndInv, pushcli, At
<1>2. /\ ncli' = [ncli EXCEPT ![x[1]] = @ + 1]
      /\ pc' = [pc EXCEPT ![x] = "locked?"]
      /\ UNCHANGED <<locked, cpu, inIntr, arg, held>>
  BY DEF pushcli, Goto
<1>3. /\ IF_' = [IF_ EXCEPT ![x[1]] = FALSE]
      /\ eflags' = [eflags EXCEPT ![x] = FALSE]
      /\ intena' = [intena EXCEPT ![x[1]] = IF ncli[x[1]] = 0 THEN eflags[x] ELSE @]
  BY DEF pushcli, cli
<1>4. TypeOK'
  BY <1>1, <1>2, <1>3, SMT DEF TypeOK, Places
<1>5. MutualExclusion' /\ LockInv'
  BY <1>2 DEF IndInv, MutualExclusion, LockInv
<1>6. ASSUME NEW y \in Contexts PROVE ContextInv(y)'
  BY <1>1, <1>2, SMT DEF IndInv, ContextInv, TypeOK, InCall
<1>7. /\ Depth(x)' = Depth(x) + 1
      /\ \A y \in Contexts : y # x => Depth(y)' = Depth(y)
  BY <1>1, <1>2, DepthFacts, SMT DEF TypeOK, Depth
<1>8. ASSUME NEW c \in CPUs PROVE CpuInv(c)'
  <2> DEFINE k == <<c, "kernel">>  i == <<c, "intr">>
  <2>1. CpuInv(c) /\ k \in Contexts /\ i \in Contexts /\ k # i
    BY ContextPairs DEF IndInv
  <2>2. CASE c # x[1]
    <3>1. k # x /\ i # x
      BY <2>2, ContextPairs, SMT
    <3>2. /\ ncli'[c] = ncli[c] /\ inIntr'[c] = inIntr[c]
          /\ \A v \in Levels : /\ pc'[<<c, v>>] = pc[<<c, v>>]
                               /\ held'[<<c, v>>] = held[<<c, v>>]
                               /\ Depth(<<c, v>>)' = Depth(<<c, v>>)
      BY <1>1, <1>2, <1>7, <2>1, <2>2, <3>1 DEF TypeOK, Levels
    <3>3. IF_'[c] = IF_[c] /\ intena'[c] = intena[c] /\ eflags'[i] = eflags[i]
      BY <1>1, <1>3, <2>1, <2>2, <3>1 DEF TypeOK
    <3>4. QED
      BY <2>1, <3>2, <3>3, CpuInvStable
  <2>3. CASE c = x[1]
    <3>1. ncli[c] = Depth(k) + Depth(i) /\ Depth(k) \in Nat /\ Depth(i) \in Nat
      BY <2>1, DepthFacts DEF CpuInv
    <3>2. x = k \/ x = i
      BY <2>3, ContextPairs
    <3>3. ncli'[c] = ncli[c] + 1
      BY <1>1, <1>2, <2>3 DEF TypeOK
    <3>4. ncli'[c] = Depth(k)' + Depth(i)'
      BY <1>7, <2>1, <3>1, <3>2, <3>3, SMT
    <3>5. ~IF_'[c] /\ ~eflags'[i]
      BY <1>1, <1>3, <2>1, <2>3 DEF CpuInv, TypeOK
    <3>6. inIntr[c] => ~intena'[c] /\ x = i
      BY <1>1, <1>3, <2>1, <2>3, <3>1, <3>2, SMT DEF CpuInv, TypeOK, Active
    <3>7. ~inIntr[c] => x = k
      BY <1>1, <2>3, <3>2, SMT DEF Active
    <3>8. /\ inIntr'[c] => /\ held'[k] = {} /\ pc'[k] \in {"run", "pushcli"}
      BY <1>1, <1>2, <2>1, <3>6, SMT DEF CpuInv, TypeOK
    <3>9. ~inIntr'[c] => pc'[i] = "run" /\ held'[i] = {}
      BY <1>1, <1>2, <2>1, <3>7 DEF CpuInv, TypeOK
    <3>10. QED
      BY <1>2, <3>4, <3>5, <3>6, <3>8, <3>9 DEF CpuInv
  <2>4. QED
    BY <2>2, <2>3
<1>9. QED
  BY <1>4, <1>5, <1>6, <1>8 DEF IndInv

\* The steps of holding() keep the context counted, and the panic is not
\* reached: no other context of this CPU holds the lock.
LEMMA HoldingInd ==
  ASSUME IndInv, NEW x \in Contexts, HoldingReadsLocked(x) \/ HoldingReadsCpu(x)
  PROVE  IndInv'
<1>1. TypeOK /\ Active(x) /\ ContextInv(x) /\ pc[x] \in {"locked?", "cpu?"}
  BY DEF IndInv, HoldingReadsLocked, HoldingReadsCpu, At
<1>2. arg[x] \in Locks /\ arg[x] \notin held[x]
  BY <1>1 DEF TypeOK, ContextInv, InCall
<1>3. cpu[arg[x]] # x[1]
  <2>1. ASSUME cpu[arg[x]] = x[1] PROVE FALSE
    <3>1. locked[arg[x]] = 1
      BY <1>2, <2>1, LocksRanked, ContextPairs, SMT DEF IndInv, LockInv, TypeOK
    <3>2. PICK y \in Contexts : arg[x] \in held[y]
      BY <1>2, <3>1 DEF IndInv, LockInv
    <3>3. y[1] = x[1] /\ y # x
      BY <1>2, <2>1, <3>2, LocksRanked, ContextPairs, SMT DEF IndInv, ContextInv
    <3>4. QED
      BY <1>1, <3>2, <3>3, OtherContextIdle
  <2>2. QED
    BY <2>1
<1>4. /\ \E p \in {"cpu?", "xchg"} : pc' = [pc EXCEPT ![x] = p]
      /\ UNCHANGED <<locked, cpu, IF_, ncli, intena, inIntr, arg, eflags, held>>
  BY <1>3 DEF HoldingReadsLocked, HoldingReadsCpu, Goto
<1>5. TypeOK'
  BY <1>1, <1>4, SMT DEF TypeOK, Places
<1>6. MutualExclusion' /\ LockInv'
  BY <1>4 DEF IndInv, MutualExclusion, LockInv
<1>7. ASSUME NEW y \in Contexts PROVE ContextInv(y)'
  BY <1>1, <1>4, SMT DEF IndInv, ContextInv, TypeOK, InCall
<1>8. \A y \in Contexts : Depth(y)' = Depth(y)
  BY <1>1, <1>4 DEF Depth, TypeOK
<1>9. \A c \in CPUs : CpuInv(c)'
  BY <1>1, <1>4, <1>8, QuietStep DEF TypeOK
<1>10. QED
  BY <1>5, <1>6, <1>7, <1>9 DEF IndInv

\* The successful xchg moves the context from counted to holding.
LEMMA XchgInd ==
  ASSUME IndInv, NEW x \in Contexts, xchg(x)
  PROVE  IndInv'
<1> DEFINE l == arg[x]
<1>1. TypeOK /\ Active(x) /\ ContextInv(x) /\ pc[x] = "xchg" /\ locked[l] = 0
  BY DEF IndInv, xchg, At, FoundFree
<1>2. /\ locked' = [locked EXCEPT ![l] = 1]
      /\ held' = [held EXCEPT ![x] = @ \cup {l}]
      /\ pc' = [pc EXCEPT ![x] = "setcpu"]
      /\ UNCHANGED <<cpu, IF_, ncli, intena, inIntr, arg, eflags>>
  BY DEF xchg, Goto
<1>3. l \in Locks /\ (\A y \in Contexts : l \notin held[y]) /\ cpu[l] = NoCpu
  BY <1>1, SMT DEF TypeOK, ContextInv, InCall, IndInv, LockInv
<1>4. TypeOK'
  BY <1>1, <1>2, <1>3 DEF TypeOK, Places
<1>5. MutualExclusion'
  BY <1>1, <1>2, <1>3, SMT DEF IndInv, MutualExclusion, TypeOK
<1>6. LockInv'
  <2> SUFFICES ASSUME NEW m \in Locks
               PROVE  /\ locked'[m] = 1 <=> \E y \in Contexts : m \in held'[y]
                      /\ locked'[m] = 0 => cpu'[m] = NoCpu
    BY DEF LockInv
  <2>1. CASE m = l
    BY <1>1, <1>2, <1>3, <2>1 DEF TypeOK
  <2>2. CASE m # l
    <3>1. \A y \in Contexts : m \in held'[y] <=> m \in held[y]
      BY <1>1, <1>2, <2>2 DEF TypeOK
    <3>2. QED
      BY <1>1, <1>2, <2>2, <3>1 DEF IndInv, LockInv, TypeOK
  <2>3. QED
    BY <2>1, <2>2
<1>7. ASSUME NEW y \in Contexts PROVE ContextInv(y)'
  <2>1. CASE y # x
    BY <1>1, <1>2, <2>1, SMT DEF IndInv, ContextInv, TypeOK
  <2>2. CASE y = x
    <3>1. IsFiniteSet(held'[x])
      BY <1>1, <1>2, FS_AddElement, SMT DEF ContextInv, TypeOK
    <3>2. QED
      BY <1>1, <1>2, <1>3, <2>2, <3>1 DEF ContextInv, TypeOK, InCall
  <2>3. QED
    BY <2>1, <2>2
<1>8. \A y \in Contexts : Depth(y)' = Depth(y)
  <2>1. Cardinality(held'[x]) = Cardinality(held[x]) + 1
    <3>1. held'[x] = held[x] \cup {l} /\ l \notin held[x] /\ IsFiniteSet(held[x])
      BY <1>1, <1>2, <1>3 DEF ContextInv, TypeOK
    <3>2. QED
      BY <3>1, FS_AddElement
  <2>2. QED
    BY <1>1, <1>2, <2>1, DepthFacts, SMT DEF Depth, TypeOK
<1>9. \A c \in CPUs : CpuInv(c)'
  BY <1>1, <1>2, <1>8, QuietStep DEF TypeOK
<1>10. QED
  BY <1>4, <1>5, <1>6, <1>7, <1>9 DEF IndInv

LEMMA SetCpuInd ==
  ASSUME IndInv, NEW x \in Contexts, SetCpu(x)
  PROVE  IndInv'
<1> DEFINE l == arg[x]
<1>1. TypeOK /\ Active(x) /\ ContextInv(x) /\ pc[x] = "setcpu" /\ x[1] \in CPUs
  BY ContextPairs DEF IndInv, SetCpu, At
<1>2. /\ cpu' = [cpu EXCEPT ![l] = x[1]]
      /\ arg' = [arg EXCEPT ![x] = NoLock]
      /\ pc' = [pc EXCEPT ![x] = "run"]
      /\ UNCHANGED <<locked, IF_, ncli, intena, inIntr, eflags, held>>
  BY DEF SetCpu, Goto
<1>3. l \in Locks /\ l \in held[x] /\ locked[l] = 1
  BY <1>1 DEF TypeOK, ContextInv, InCall, IndInv, LockInv
<1>4. TypeOK'
  BY <1>1, <1>2, <1>3 DEF TypeOK, Places
<1>5. MutualExclusion' /\ LockInv'
  BY <1>1, <1>2, <1>3, SMT DEF IndInv, MutualExclusion, LockInv, TypeOK
<1>6. ASSUME NEW y \in Contexts PROVE ContextInv(y)'
  <2>1. CASE y # x
    <3>1. l \notin held[y]
      BY <1>3, <2>1 DEF IndInv, MutualExclusion
    <3>2. QED
      BY <1>1, <1>2, <2>1, <3>1, SMT DEF IndInv, ContextInv, TypeOK
  <2>2. CASE y = x
    BY <1>1, <1>2, <1>3, <2>2 DEF ContextInv, TypeOK, InCall
  <2>3. QED
    BY <2>1, <2>2
<1>7. \A y \in Contexts : Depth(y)' = Depth(y)
  BY <1>1, <1>2 DEF Depth, TypeOK
<1>8. \A c \in CPUs : CpuInv(c)'
  BY <1>1, <1>2, <1>7, QuietStep DEF TypeOK
<1>9. QED
  BY <1>4, <1>5, <1>6, <1>8 DEF IndInv

LEMMA ReleaseInd ==
  ASSUME IndInv, NEW x \in Contexts, NEW l \in Locks, release(x, l)
  PROVE  IndInv'
<1>1. TypeOK /\ Active(x) /\ ContextInv(x) /\ pc[x] = "run" /\ l \in held[x]
  BY DEF IndInv, release, At
<1>2. locked[l] = 1 /\ cpu[l] = x[1]
  BY <1>1 DEF IndInv, LockInv, ContextInv
<1>3. /\ cpu' = [cpu EXCEPT ![l] = NoCpu]
      /\ arg' = [arg EXCEPT ![x] = l]
      /\ pc' = [pc EXCEPT ![x] = "unxchg"]
      /\ UNCHANGED <<locked, IF_, ncli, intena, inIntr, eflags, held>>
  BY <1>2 DEF release, holding, ClearedCpu, Goto
<1>4. TypeOK'
  BY <1>1, <1>3 DEF TypeOK, Places
<1>5. MutualExclusion' /\ LockInv'
  BY <1>1, <1>3, SMT DEF IndInv, MutualExclusion, LockInv, TypeOK
<1>6. ASSUME NEW y \in Contexts PROVE ContextInv(y)'
  <2>1. CASE y # x
    <3>1. l \notin held[y]
      BY <1>1, <2>1 DEF IndInv, MutualExclusion
    <3>2. QED
      BY <1>1, <1>3, <2>1, <3>1, SMT DEF IndInv, ContextInv, TypeOK
  <2>2. CASE y = x
    BY <1>1, <1>3, <2>2, LocksRanked, SMT DEF ContextInv, TypeOK, InCall
  <2>3. QED
    BY <2>1, <2>2
<1>7. \A y \in Contexts : Depth(y)' = Depth(y)
  BY <1>1, <1>3 DEF Depth, TypeOK
<1>8. \A c \in CPUs : CpuInv(c)'
  BY <1>1, <1>3, <1>7, QuietStep DEF TypeOK
<1>9. QED
  BY <1>4, <1>5, <1>6, <1>8 DEF IndInv

LEMMA UnxchgInd ==
  ASSUME IndInv, NEW x \in Contexts, unxchg(x)
  PROVE  IndInv'
<1> DEFINE l == arg[x]
<1>1. TypeOK /\ Active(x) /\ ContextInv(x) /\ pc[x] = "unxchg"
  BY DEF IndInv, unxchg, At
<1>2. /\ locked' = [locked EXCEPT ![l] = 0]
      /\ held' = [held EXCEPT ![x] = @ \ {l}]
      /\ arg' = [arg EXCEPT ![x] = NoLock]
      /\ pc' = [pc EXCEPT ![x] = "popcli"]
      /\ UNCHANGED <<cpu, IF_, ncli, intena, inIntr, eflags>>
  BY DEF unxchg, Goto
<1>3. l \in Locks /\ l \in held[x] /\ cpu[l] = NoCpu
  BY <1>1 DEF TypeOK, ContextInv, InCall
<1>4. \A y \in Contexts : y # x => l \notin held[y]
  BY <1>3 DEF IndInv, MutualExclusion
<1>5. TypeOK'
  BY <1>1, <1>2, <1>3 DEF TypeOK, Places
<1>6. MutualExclusion'
  BY <1>1, <1>2, SMT DEF IndInv, MutualExclusion, TypeOK
<1>7. LockInv'
  <2> SUFFICES ASSUME NEW m \in Locks
               PROVE  /\ locked'[m] = 1 <=> \E y \in Contexts : m \in held'[y]
                      /\ locked'[m] = 0 => cpu'[m] = NoCpu
    BY DEF LockInv
  <2>1. CASE m = l
    BY <1>1, <1>2, <1>3, <1>4, <2>1, SMT DEF TypeOK
  <2>2. CASE m # l
    <3>1. \A y \in Contexts : m \in held'[y] <=> m \in held[y]
      BY <1>1, <1>2, <2>2 DEF TypeOK
    <3>2. QED
      BY <1>1, <1>2, <2>2, <3>1 DEF IndInv, LockInv, TypeOK
  <2>3. QED
    BY <2>1, <2>2
<1>8. held'[x] = held[x] \ {l} /\ IsFiniteSet(held[x])
  BY <1>1, <1>2 DEF ContextInv, TypeOK
<1>9. ASSUME NEW y \in Contexts PROVE ContextInv(y)'
  <2>1. CASE y # x
    BY <1>1, <1>2, <2>1, SMT DEF IndInv, ContextInv, TypeOK
  <2>2. CASE y = x
    <3>1. IsFiniteSet(held'[x])
      BY <1>8, FS_RemoveElement, SMT
    <3>2. QED
      BY <1>1, <1>2, <1>3, <2>2, <3>1 DEF ContextInv, TypeOK, InCall
  <2>3. QED
    BY <2>1, <2>2
<1>10. \A y \in Contexts : Depth(y)' = Depth(y)
  <2>1. Cardinality(held'[x]) = Cardinality(held[x]) - 1
    BY <1>3, <1>8, FS_RemoveElement
  <2>2. QED
    BY <1>1, <1>2, <2>1, DepthFacts, SMT DEF Depth, TypeOK
<1>11. \A c \in CPUs : CpuInv(c)'
  BY <1>1, <1>2, <1>10, QuietStep DEF TypeOK
<1>12. QED
  BY <1>5, <1>6, <1>7, <1>9, <1>11 DEF IndInv

\* popcli finds interrupts off and a positive count, and gives the flag back
\* only to kernel code that holds nothing.
LEMMA PopcliInd ==
  ASSUME IndInv, NEW x \in Contexts, popcli(x)
  PROVE  IndInv'
<1> DEFINE d == x[1]
<1>1. d \in CPUs /\ Active(x) /\ TypeOK /\ pc[x] = "popcli"
  BY ContextPairs DEF IndInv, popcli, At
<1>2. Depth(x) \in Nat \ {0}
  BY <1>1, DepthFacts DEF Counted
<1>3. /\ x = <<d, "kernel">> \/ x = <<d, "intr">>
      /\ Depth(<<d, "kernel">>) \in Nat /\ Depth(<<d, "intr">>) \in Nat
      /\ CpuInv(d)
  BY <1>1, DepthFacts, ContextPairs DEF IndInv
<1>4. ncli[d] > 0 /\ ncli[d] \in Nat
  BY <1>2, <1>3, SMT DEF CpuInv
<1>5. ~IF_[d]
  BY <1>3, <1>4, SMT DEF CpuInv
<1>6. /\ ncli' = [ncli EXCEPT ![d] = @ - 1]
      /\ pc' = [pc EXCEPT ![x] = "run"]
      /\ UNCHANGED <<locked, cpu, intena, inIntr, arg, eflags, held>>
  <2>1. ~(IF_[d] \/ ncli[d] <= 0)
    BY <1>4, <1>5, SMT
  <2>2. QED
    BY <2>1 DEF popcli, Goto
<1>7. IF_' = [IF_ EXCEPT ![d] = (ncli[d] = 1 /\ intena[d])]
  BY <1>1, <1>5 DEF popcli, Outermost, TypeOK
<1>8. TypeOK'
  BY <1>1, <1>4, <1>6, <1>7, SMT DEF TypeOK, Places
<1>9. MutualExclusion' /\ LockInv'
  BY <1>6 DEF IndInv, MutualExclusion, LockInv
<1>10. ASSUME NEW y \in Contexts PROVE ContextInv(y)'
  BY <1>1, <1>6, SMT DEF IndInv, ContextInv, TypeOK, InCall
<1>11. /\ Depth(x)' = Depth(x) - 1
       /\ \A y \in Contexts : y # x => Depth(y)' = Depth(y)
  BY <1>1, <1>6, DepthFacts, SMT DEF TypeOK, Depth
<1>12. ASSUME NEW c \in CPUs PROVE CpuInv(c)'
  <2> DEFINE k == <<c, "kernel">>  i == <<c, "intr">>
  <2>1. CpuInv(c) /\ k \in Contexts /\ i \in Contexts /\ k # i
    BY ContextPairs DEF IndInv
  <2>2. CASE c # d
    <3>1. k # x /\ i # x
      BY <2>2, ContextPairs, SMT
    <3>2. /\ ncli'[c] = ncli[c] /\ inIntr'[c] = inIntr[c]
          /\ \A v \in Levels : /\ pc'[<<c, v>>] = pc[<<c, v>>]
                               /\ held'[<<c, v>>] = held[<<c, v>>]
                               /\ Depth(<<c, v>>)' = Depth(<<c, v>>)
      BY <1>1, <1>6, <1>11, <2>1, <2>2, <3>1 DEF TypeOK, Levels
    <3>3. IF_'[c] = IF_[c] /\ intena'[c] = intena[c] /\ eflags'[i] = eflags[i]
      BY <1>1, <1>6, <1>7, <2>1, <2>2 DEF TypeOK
    <3>4. QED
      BY <2>1, <3>2, <3>3, CpuInvStable
  <2>3. CASE c = d
    <3>1. ncli'[c] = ncli[c] - 1
      BY <1>1, <1>6, <2>3 DEF TypeOK
    <3>2. ncli'[c] = Depth(k)' + Depth(i)'
      BY <1>3, <1>11, <2>1, <2>3, <3>1, SMT DEF CpuInv
    <3>3. IF_'[c] <=> ncli[c] = 1 /\ intena[c]
      BY <1>1, <1>7, <2>3 DEF TypeOK
    <3>4. IF_'[c] => ncli'[c] = 0 /\ ~inIntr'[c]
      BY <1>4, <1>6, <2>1, <2>3, <3>1, <3>3, SMT DEF CpuInv
    <3>5. inIntr'[c] => held'[k] = {} /\ pc'[k] \in {"run", "pushcli"} /\ ~intena'[c]
      BY <1>1, <1>4, <1>6, <2>1, <2>3 DEF CpuInv, TypeOK, Active
    <3>6. ~inIntr'[c] => pc'[i] = "run" /\ held'[i] = {}
      BY <1>1, <1>6, <2>1 DEF CpuInv, TypeOK, Active
    <3>7. QED
      BY <1>6, <2>1, <3>2, <3>4, <3>5, <3>6 DEF CpuInv
  <2>4. QED
    BY <2>2, <2>3
<1>13. QED
  BY <1>8, <1>9, <1>10, <1>12 DEF IndInv

\* sti, an interrupt and iret only touch one CPU's flag and level.  In each the
\* kernel context holds nothing and is not counted.
LEMMA FlagInd ==
  ASSUME IndInv, NEW d \in CPUs, sti(d) \/ Interrupt(d) \/ iret(d)
  PROVE  IndInv'
<1>1. /\ TypeOK
      /\ UNCHANGED <<locked, cpu, ncli, intena, pc, arg, eflags, held>>
  BY DEF IndInv, sti, Interrupt, iret
<1>2. \E f, n \in BOOLEAN : /\ IF_' = [IF_ EXCEPT ![d] = f]
                            /\ inIntr' = [inIntr EXCEPT ![d] = n]
                            /\ ~(f /\ n)
  <2>1. sti(d) => inIntr' = [inIntr EXCEPT ![d] = FALSE]
    BY <1>1, SMT DEF sti, At, Active, TypeOK
  <2>2. QED
    BY <2>1 DEF sti, Interrupt, iret
<1>3. TypeOK'
  BY <1>1, <1>2 DEF TypeOK
<1>4. MutualExclusion' /\ LockInv'
  BY <1>1 DEF IndInv, MutualExclusion, LockInv
<1>5. ASSUME NEW y \in Contexts PROVE ContextInv(y)' /\ Depth(y)' = Depth(y)
  BY <1>1 DEF IndInv, ContextInv, Depth
<1>6. ASSUME NEW c \in CPUs PROVE CpuInv(c)'
  <2> DEFINE k == <<c, "kernel">>  i == <<c, "intr">>
  <2>1. CpuInv(c) /\ k \in Contexts /\ i \in Contexts
    BY ContextPairs DEF IndInv
  <2>2. CASE c # d
    <3>1. IF_'[c] = IF_[c] /\ inIntr'[c] = inIntr[c]
      BY <1>1, <1>2, <2>2 DEF TypeOK
    <3>2. QED
      BY <1>1, <1>5, <2>1, <3>1, CpuInvStable, ContextPairs, SMT DEF Levels
  <2>3. CASE c = d
    <3>1. /\ ncli[c] = Depth(k) + Depth(i)
          /\ Depth(k) \in Nat /\ Depth(i) \in Nat
      BY <2>1, DepthFacts DEF CpuInv
    <3>2. /\ held[k] = {} /\ pc[k] \in {"run", "pushcli"}
          /\ held[i] = {} /\ pc[i] = "run"
      <4>1. CASE sti(d)
        BY <2>1, <2>3, <4>1 DEF sti, At, Active, CpuInv
      <4>2. CASE Interrupt(d)
        <5>1. Depth(k) = 0 /\ ~inIntr[c]
          BY <2>1, <2>3, <3>1, <4>2, SMT DEF Interrupt, CpuInv
        <5>2. held[k] = {} /\ pc[k] \notin Counted
          BY <2>1, <5>1, DepthFacts
        <5>3. pc[k] \in {"run", "pushcli"}
          BY <1>1, <2>1, <5>2, SMT DEF Counted, IndInv, ContextInv, TypeOK, Places
        <5>4. QED
          BY <2>1, <5>1, <5>2, <5>3 DEF CpuInv
      <4>3. CASE iret(d)
        BY <2>1, <2>3, <4>3 DEF iret, At, CpuInv
      <4>4. QED
        BY <4>1, <4>2, <4>3
    <3>3. ncli[c] = 0
      BY <2>1, <3>1, <3>2, DepthFacts, SMT DEF Counted
    <3>4. ~(IF_'[c] /\ inIntr'[c])
      BY <1>1, <1>2, <2>3 DEF TypeOK
    <3>5. ncli'[c] = Depth(k)' + Depth(i)' /\ ~eflags'[i]
      BY <1>1, <1>5, <2>1, <3>1 DEF CpuInv
    <3>6. QED
      BY <1>1, <3>2, <3>3, <3>4, <3>5, SMT DEF CpuInv
  <2>4. QED
    BY <2>2, <2>3
<1>7. QED
  BY <1>3, <1>4, <1>5, <1>6 DEF IndInv

-----------------------------------------------------------------------------
LEMMA NextInd == IndInv /\ [Next]_vars => IndInv'
<1> SUFFICES ASSUME IndInv, [Next]_vars PROVE IndInv'
  OBVIOUS
<1>1. ASSUME NEW x \in Contexts, Advance(x) PROVE IndInv'
  BY <1>1, PushcliInd, HoldingInd, XchgInd, SetCpuInd, UnxchgInd, PopcliInd
     DEF Advance
<1>2. ASSUME NEW x \in Contexts, Call(x) PROVE IndInv'
  BY <1>2, AcquireInd, ReleaseInd DEF Call
<1>3. ASSUME NEW c \in CPUs, sti(c) \/ Interrupt(c) \/ iret(c) PROVE IndInv'
  BY <1>3, FlagInd
<1>4. CASE UNCHANGED vars
  <2>1. TypeOK' /\ MutualExclusion' /\ LockInv'
    BY <1>4 DEF vars, IndInv, TypeOK, MutualExclusion, LockInv
  <2>2. \A x \in Contexts : ContextInv(x)' /\ Depth(x)' = Depth(x)
    BY <1>4, SMT DEF vars, IndInv, ContextInv, Depth
  <2>3. \A c \in CPUs : CpuInv(c)'
    BY <1>4, <2>2, ContextPairs DEF vars, IndInv, CpuInv
  <2>4. QED
    BY <2>1, <2>2, <2>3 DEF IndInv
<1>5. QED
  BY <1>1, <1>2, <1>3, <1>4 DEF Next

LEMMA Inductive == Spec => []IndInv
BY InitInd, NextInd, PTL DEF Spec

\* Whatever the CPUs and the locks, acquire and release keep the type of the
\* locks and of the CPUs' interrupt state: ncli in particular never goes
\* below 0, so popcli's second panic is not reached.
THEOREM TypeCorrect == Spec => []TypeOK
<1>1. IndInv => TypeOK
  BY DEF IndInv
<1>2. QED
  BY <1>1, Inductive, PTL

\* Two contexts never hold the same lock (acquire's xchg loop and release).
THEOREM LockExcludes == Spec => []MutualExclusion
<1>1. IndInv => MutualExclusion
  BY DEF IndInv
<1>2. QED
  BY <1>1, Inductive, PTL

\* None of the panics of acquire, release and popcli is ever reached by code
\* that takes and gives back its locks in pairs.
THEOREM NeverPanics == Spec => []NoPanic
<1>1. IndInv => NoPanic
  BY DEF IndInv, ContextInv, NoPanic
<1>2. QED
  BY <1>1, Inductive, PTL

\* ncli counts the pushcli calls of both contexts of a CPU that popcli has
\* not undone.
THEOREM CountMatches == Spec => []NcliMatched
<1>1. IndInv => NcliMatched
  BY DEF IndInv, CpuInv, NcliMatched
<1>2. QED
  BY <1>1, Inductive, PTL

\* A CPU that holds a lock has interrupts off and no handler over the holder.
THEOREM HolderNotInterrupted == Spec => []HeldMeansInterruptsOff
<1>1. ASSUME IndInv PROVE HeldMeansInterruptsOff
  <2> SUFFICES ASSUME NEW c \in CPUs, NEW v \in Levels, held[<<c, v>>] # {}
               PROVE  ~IF_[c] /\ (inIntr[c] => held[<<c, "kernel">>] = {})
    BY DEF HeldMeansInterruptsOff
  <2> DEFINE k == <<c, "kernel">>  i == <<c, "intr">>
  <2>1. CpuInv(c) /\ k \in Contexts /\ i \in Contexts
    BY <1>1, ContextPairs DEF IndInv
  <2>2. Depth(k) \in Nat /\ Depth(i) \in Nat /\ (Depth(k) # 0 \/ Depth(i) # 0)
    BY <1>1, <2>1, DepthFacts DEF Levels
  <2>3. QED
    BY <2>1, <2>2, SMT DEF CpuInv
<1>2. QED
  BY <1>1, Inductive, PTL
=============================================================================
