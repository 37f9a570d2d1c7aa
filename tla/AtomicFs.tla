------------------------------ MODULE AtomicFs ------------------------------
(***************************************************************************)
(* What the log-structured file system promises: every call is atomic and, *)
(* once it has returned, durable.  A crash ends the call in progress, which *)
(* has then happened completely or not at all.  From a state in which the  *)
(* file system is released from it, nothing is promised.                   *)
(***************************************************************************)
CONSTANTS Names, Blocks, Values, NoFile, Unwritten, Idle

VARIABLES fs,    \* per name: NoFile, or the contents of its blocks
          call,  \* the call in progress, or Idle
          done,  \* whether it has taken effect
          released

fsVars == <<fs, call, done>>

Calls == [op : {"creat", "unlink"}, name : Names]
         \cup [op : {"write"}, name : Names, block : Blocks, value : Values]

Effect(c) ==
  CASE c.op = "creat"  -> [fs EXCEPT ![c.name] = [b \in Blocks |-> Unwritten]]
    [] c.op = "unlink" -> [fs EXCEPT ![c.name] = NoFile]
    [] c.op = "write"  -> [fs EXCEPT ![c.name][c.block] = c.value]

Init == fs = [n \in Names |-> NoFile] /\ call = Idle /\ done = FALSE

\* Calls that would fail do not begin.
Begin(c) ==
  /\ call = Idle /\ (c.op = "creat" <=> fs[c.name] = NoFile)
  /\ call' = c
  /\ UNCHANGED <<fs, done>>

Commit ==
  /\ call # Idle /\ ~done
  /\ fs' = Effect(call)
  /\ done' = TRUE
  /\ UNCHANGED call

Return ==
  /\ done
  /\ call' = Idle /\ done' = FALSE
  /\ UNCHANGED fs

Crash ==
  /\ \/ UNCHANGED fs
     \/ call # Idle /\ ~done /\ fs' = Effect(call)
  /\ call' = Idle /\ done' = FALSE

Next == Commit \/ Return \/ Crash \/ \E c \in Calls : Begin(c)

Spec == Init /\ [][released' \/ Next]_fsVars
=============================================================================
