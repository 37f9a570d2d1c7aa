----------------------------- MODULE BlockStore -----------------------------
(***************************************************************************)
(* What the buffer cache promises: a process that holds a sector sees the  *)
(* value last written to it, and one process at a time holds it.           *)
(***************************************************************************)
CONSTANTS Procs, Sectors, Values, Nobody, Zero

VARIABLES value,   \* per sector: what was last written
          holder,  \* per sector: the process whose bread returned last
          seen     \* per process: what it found in the sector it holds, else Zero

storeVars == <<value, holder, seen>>

Init ==
  /\ value = [s \in Sectors |-> Zero]
  /\ holder = [s \in Sectors |-> Nobody]
  /\ seen = [p \in Procs |-> Zero]

Take(p, s) ==
  /\ holder[s] = Nobody
  /\ holder' = [holder EXCEPT ![s] = p]
  /\ seen' = [seen EXCEPT ![p] = value[s]]
  /\ UNCHANGED value

Write(p, s, v) ==
  /\ holder[s] = p
  /\ value' = [value EXCEPT ![s] = v]
  /\ UNCHANGED <<holder, seen>>

Release(p, s) ==
  /\ holder[s] = p
  /\ holder' = [holder EXCEPT ![s] = Nobody]
  /\ seen' = [seen EXCEPT ![p] = Zero]
  /\ UNCHANGED value

Next ==
  \E p \in Procs, s \in Sectors :
    Take(p, s) \/ Release(p, s) \/ \E v \in Values : Write(p, s, v)

Spec == Init /\ [][Next]_storeVars
=============================================================================
