-------------------------------- MODULE Fifo --------------------------------
(***************************************************************************)
(* What a pipe promises: the bytes of each write enter in their order, as  *)
(* many as there is room for, and come out in the order in which they went *)
(* in; none is lost, repeated or made up, at most Capacity are inside, a   *)
(* write gives up only on a full pipe, and a read comes back empty-handed  *)
(* only at the end of the file.                                            *)
(***************************************************************************)
EXTENDS Naturals, Sequences

CONSTANTS Capacity, Bytes, Writers, Readers

VARIABLES queue,  \* the bytes in the pipe, oldest first
          open,   \* whether the write end is open
          todo,   \* per writer: the bytes of its write that are not yet in
          got     \* per reader: what its last read delivered

fifoVars == <<queue, open, todo, got>>

Init ==
  /\ queue = <<>> /\ open = TRUE
  /\ todo = [w \in Writers |-> <<>>] /\ got = [r \in Readers |-> <<>>]

Write(w) ==
  /\ open /\ todo[w] = <<>>
  /\ todo'[w] \in Seq(Bytes) /\ todo' = [todo EXCEPT ![w] = todo'[w]]
  /\ UNCHANGED <<queue, open, got>>

Put(w) ==
  /\ open
  /\ \E k \in 0..Len(todo[w]) :
       /\ queue' = queue \o SubSeq(todo[w], 1, k)
       /\ Len(queue) + k <= Capacity
       /\ k < Len(todo[w]) => Len(queue) + k = Capacity
       /\ todo' \in {[todo EXCEPT ![w] = SubSeq(todo[w], k + 1, Len(todo[w]))],
                     [todo EXCEPT ![w] = <<>>]}
  /\ UNCHANGED <<open, got>>

Take(r) ==
  /\ \E k \in 1..Len(queue) :
       /\ got' = [got EXCEPT ![r] = SubSeq(queue, 1, k)]
       /\ queue' = SubSeq(queue, k + 1, Len(queue))
  /\ UNCHANGED <<open, todo>>

EndOfFile(r) ==
  /\ queue = <<>> /\ ~open
  /\ got' = [got EXCEPT ![r] = <<>>]
  /\ UNCHANGED <<queue, open, todo>>

CloseWriteEnd ==
  /\ todo = [w \in Writers |-> <<>>]
  /\ open' = FALSE /\ UNCHANGED <<queue, todo, got>>

Next ==
  \/ \E w \in Writers : Write(w) \/ Put(w)
  \/ \E r \in Readers : Take(r) \/ EndOfFile(r)
  \/ CloseWriteEnd

Spec == Init /\ [][Next]_fifoVars
=============================================================================
