---------------------------- MODULE StrideSched -----------------------------
(***************************************************************************)
(* The stride scheduler of the 2b kernel on one CPU.  A process is its     *)
(* slot; what module Proc says of locks and switches is not repeated: the  *)
(* scheduler's choice and the switch to it are one step, and so are a      *)
(* process's change of state and its switch back.                          *)
(***************************************************************************)
EXTENDS Integers, FiniteSetsExt

CONSTANTS NPROC,
          BIG,        \* the 10000 that is divided by the tickets
          TicketArgs, \* the arguments of settickets(), up to their sign
          Half,       \* an int ranges over -Half..Half - 1
          MaxTime     \* bound on the virtual time that is followed

ASSUME StrideConstants ==
  /\ {NPROC, BIG, Half, MaxTime} \subseteq Nat \ {0}
  /\ TicketArgs \subseteq Nat

Procs == 1..NPROC
Nil == 0

VARIABLES state,    \* WAITING is SLEEPING in wait, on the process's own channel
          parent, stride, pass,
          current,  \* the scheduler's local: the process it chose last
          on,       \* the process that runs, or Nil in the scheduler
          at,       \* per process: the loop it goes on with when it runs ("sleep"
                    \* tests its condition again, "wait" scans again) or "user"
          panicked, \* what stopped the machine, if anything
          time,     \* history: the sum of a process's strides, which pass stands for
          lead,     \* history: the furthest anyone was when it became ready
          distorted \* history: a stride was negative or a pass has overflowed

code == <<state, parent, stride, pass, current, on, at, panicked>>
vars == <<code, time, lead, distorted>>

Wrapped(n) == ((n + Half) % (2 * Half)) - Half
Runnable == {p \in Procs : state[p] = "RUNNABLE"}
Ready(p) == state[p] \in {"RUNNABLE", "RUNNING"}
\* A bound: what the scheduler does with distorted passes is not followed.
Followed == panicked = "no" /\ ~distorted

Running == Followed /\ on # Nil
InUser == Running /\ at[on] = "user"
Furthest == Max({time[p] : p \in Procs})

\* The histories after a step in which the processes of woken become ready and
\* the virtual times become t.  A process that is not ready has no lead, an
\* unused slot no time, and nothing is kept once the shares are distorted.
Histories(woken, t, bad) ==
  /\ distorted' = (distorted \/ bad)
  /\ time' = [p \in Procs |-> IF distorted' \/ state'[p] = "UNUSED" THEN 0 ELSE t[p]]
  /\ lead' = [p \in Procs |-> IF distorted' \/ state'[p] \notin {"RUNNABLE", "RUNNING"} THEN 0
                              ELSE IF p \in woken THEN Furthest ELSE lead[p]]

\* userinit; current is not initialised.
Init ==
  /\ state = [p \in Procs |-> IF p = 1 THEN "RUNNABLE" ELSE "UNUSED"]
  /\ parent = [p \in Procs |-> Nil]
  /\ stride = [p \in Procs |-> BIG]
  /\ pass = [p \in Procs |-> 0]
  /\ current \in Procs
  /\ on = Nil
  /\ at = [p \in Procs |-> "user"]
  /\ panicked = "no" /\ distorted = FALSE
  /\ time = [p \in Procs |-> 0]
  /\ lead = [p \in Procs |-> 0]

\* Faulty variant: the comparison is the wrong way round.
Better_Largest(p, best) == best.min < 0 \/ pass[p] > best.min

\* if (minPass < 0 || p->pass < minPass)
Better(p, best) == best.min < 0 \/ pass[p] < best.min

\* if (p->state != RUNNABLE) continue;
Candidate(p) == state[p] = "RUNNABLE"

\* The scan: minPass starts at -1, and the choice at the last one made.
Chosen ==
  LET best[i \in 0..NPROC] ==
        IF i = 0 THEN [who |-> current, min |-> -1]
        ELSE IF Candidate(i) /\ Better(i, best[i - 1])
             THEN [who |-> i, min |-> pass[i]] ELSE best[i - 1]
  IN  best[NPROC].who

\* Faulty variant: the stride is not charged.
Charged_Not(p) == pass

Charged(p) == [pass EXCEPT ![p] = Wrapped(@ + stride[p])]

\* current->pass += current->stride; current->state = RUNNING; ...  With nothing
\* RUNNABLE the choice is the process that ran last, whatever its state: a
\* sleeper returns from sleep, a zombie in exit to panic("zombie exit").
scheduler ==
  /\ Followed /\ on = Nil
  /\ time[Chosen] + stride[Chosen] <= MaxTime
  /\ current' = Chosen
  /\ pass' = Charged(Chosen)
  /\ state' = [state EXCEPT ![Chosen] = "RUNNING"]
  /\ on' = Chosen
  /\ panicked' = IF state[Chosen] = "ZOMBIE" THEN "zombie exit" ELSE "no"
  /\ Histories({Chosen} \ Runnable, [time EXCEPT ![Chosen] = @ + stride[Chosen]],
               pass[Chosen] + stride[Chosen] >= Half)
  /\ UNCHANGED <<parent, stride, at>>

\* yield.
yield ==
  /\ InUser
  /\ state' = [state EXCEPT ![on] = "RUNNABLE"]
  /\ on' = Nil
  /\ Histories({}, time, FALSE)
  /\ UNCHANGED <<parent, stride, pass, current, at, panicked>>

\* sleep, called elsewhere than in wait (which is all that init calls); all its
\* callers test their condition again when it returns, and sleep again if it
\* does not hold.
sleep ==
  /\ Running /\ on # 1 /\ at[on] # "wait"
  /\ state' = [state EXCEPT ![on] = "SLEEPING"]
  /\ at' = [at EXCEPT ![on] = "sleep"]
  /\ on' = Nil
  /\ Histories({}, time, FALSE)
  /\ UNCHANGED <<parent, stride, pass, current, panicked>>

\* The condition a sleeper waits for becomes true.
wakeup(p) ==
  /\ Followed /\ state[p] = "SLEEPING"
  /\ state' = [state EXCEPT ![p] = "RUNNABLE"]
  /\ at' = [at EXCEPT ![p] = "user"]
  /\ Histories({p}, time, FALSE)
  /\ UNCHANGED <<parent, stride, pass, current, on, panicked>>

\* allocproc gives the child one ticket and pass 0.
fork ==
  LET np == Min({p \in Procs : state[p] = "UNUSED"})
  IN  /\ InUser
      /\ \E p \in Procs : state[p] = "UNUSED"
      /\ state' = [state EXCEPT ![np] = "RUNNABLE"]
      /\ parent' = [parent EXCEPT ![np] = on]
      /\ stride' = [stride EXCEPT ![np] = BIG]
      /\ pass' = [pass EXCEPT ![np] = 0]
      /\ at' = [at EXCEPT ![np] = "user"]
      /\ Histories({np}, time, FALSE)
      /\ UNCHANGED <<current, on, panicked>>

\* exit wakes the parent if it is in wait, and init for an inherited zombie.
exit ==
  LET kids == {p \in Procs : parent[p] = on}
      told == {parent[on]} \cup {i \in {1} : \E p \in kids : state[p] = "ZOMBIE"}
      woken == {p \in told : state[p] = "WAITING"}
  IN  /\ InUser /\ on # 1
      /\ state' = [p \in Procs |-> IF p = on THEN "ZOMBIE"
                                   ELSE IF p \in woken THEN "RUNNABLE" ELSE state[p]]
      /\ parent' = [p \in Procs |-> IF p \in kids THEN 1 ELSE parent[p]]
      /\ on' = Nil
      /\ Histories(woken, time, FALSE)
      /\ UNCHANGED <<stride, pass, current, at, panicked>>

\* wait gives a zombie's slot back, or sleeps while there are children; it
\* scans again when it runs again.
wait ==
  LET kids == {p \in Procs : parent[p] = on}
      zombies == {p \in kids : state[p] = "ZOMBIE"}
  IN  /\ Running /\ at[on] # "sleep" /\ kids # {}
      /\ IF zombies # {}
         THEN /\ state' = [state EXCEPT ![Min(zombies)] = "UNUSED"]
              /\ parent' = [parent EXCEPT ![Min(zombies)] = Nil]
              /\ at' = [at EXCEPT ![on] = "user"]
              /\ UNCHANGED on
         ELSE /\ state' = [state EXCEPT ![on] = "WAITING"]
              /\ at' = [at EXCEPT ![on] = "wait"]
              /\ on' = Nil
              /\ UNCHANGED parent
      /\ Histories({}, time, FALSE)
      /\ UNCHANGED <<stride, pass, current, panicked>>

\* 10000 / tix as C divides: towards 0.
Share(tix) == IF tix > 0 THEN BIG \div tix ELSE -(BIG \div (-tix))

\* Any int is accepted.  The division by 0 is a trap in the kernel, which
\* trap() answers with a panic.
sys_settickets(tix) ==
  /\ InUser
  /\ IF tix = 0
     THEN panicked' = "trap" /\ UNCHANGED stride
     ELSE stride' = [stride EXCEPT ![on] = Share(tix)] /\ UNCHANGED panicked
  /\ UNCHANGED <<state, parent, pass, current, on, at>>
  /\ Histories({}, time, tix < 0)

Next ==
  \/ scheduler
  \/ yield \/ sleep \/ fork \/ exit \/ wait
  \/ \E p \in Procs : wakeup(p)
  \/ \E tix \in TicketArgs \cup {-n : n \in TicketArgs} : sys_settickets(tix)

Spec == Init /\ [][Next]_vars

-----------------------------------------------------------------------------
\* The variables have their types, and the process that runs is the only one in
\* state RUNNING.
TypeOK ==
  /\ state \in [Procs -> {"UNUSED", "RUNNABLE", "RUNNING", "SLEEPING", "WAITING", "ZOMBIE"}]
  /\ parent \in [Procs -> 0..NPROC]
  /\ stride \in [Procs -> -BIG..BIG] /\ pass \in [Procs -> -Half..Half - 1]
  /\ current \in Procs /\ at \in [Procs -> {"user", "sleep", "wait"}]
  /\ {p \in Procs : state[p] = "RUNNING"} = {on} \ {Nil}
  /\ panicked \in {"no", "trap", "zombie exit"} /\ distorted \in BOOLEAN
  /\ time \in [Procs -> 0..MaxTime] /\ lead \in [Procs -> 0..MaxTime]

\* Shares: while a process is ready nobody gets more than one stride of virtual
\* time ahead of it, except for the lead others already had when it became
\* ready (a new or woken process has the CPU to itself until it has caught
\* up), also after rounds with nothing RUNNABLE, in which the scheduler runs,
\* and charges, a sleeper.  It holds until a pass overflows or a process asks
\* for a negative number of tickets.
LagBounded ==
  /\ TypeOK
  /\ ~distorted =>
       \A p, q \in Procs :
         Ready(p) /\ Ready(q) => time[p] <= Max({lead[q], time[q] + BIG})

\* A stride scheduler: while something is runnable, the process it runs was
\* RUNNABLE, and no runnable process has less virtual time (until a pass
\* overflows or a stride is negative).
LeastTimeRuns ==
  [][on = Nil /\ on' # Nil /\ Runnable # {} =>
       /\ on' \in Runnable
       /\ distorted \/ \A q \in Runnable : time[on'] <= time[q]]_vars
=============================================================================
