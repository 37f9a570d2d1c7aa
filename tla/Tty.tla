-------------------------------- MODULE Tty ---------------------------------
(***************************************************************************)
(* What a console reader may rely on: characters can be erased until their *)
(* line is complete, complete lines are read once and in order, a read     *)
(* does not go past the end of a line, and the end of file reaches a       *)
(* reader as a read of zero bytes.                                         *)
(***************************************************************************)
EXTENDS Naturals, Sequences

CONSTANTS Readers, Chars, Newline, Eof, Capacity

VARIABLES line,   \* the line being edited
          queue,  \* what has been entered and not been read
          got     \* per reader: what its read has returned so far

ttyVars == <<line, queue, got>>

Init == line = <<>> /\ queue = <<>> /\ got = [p \in Readers |-> <<>>]

Type(c) ==
  LET longer == Append(line, c)
      enter == c \in {Newline, Eof} \/ Len(queue) + Len(longer) = Capacity
  IN  /\ Len(queue) + Len(line) < Capacity
      /\ line' = IF enter THEN <<>> ELSE longer
      /\ queue' = IF enter THEN queue \o longer ELSE queue
      /\ UNCHANGED got

Erase ==
  /\ line # <<>>
  /\ line' \in {<<>>, SubSeq(line, 1, Len(line) - 1)}
  /\ UNCHANGED <<queue, got>>

Read(p, k) ==
  /\ \A i \in 1..k : queue[i] # Eof /\ (queue[i] = Newline => i = k)
  /\ got[p] # <<>> => got[p][Len(got[p])] # Newline
  /\ got' = [got EXCEPT ![p] = @ \o SubSeq(queue, 1, k)]
  /\ queue' = SubSeq(queue, k + 1, Len(queue))
  /\ UNCHANGED line

ReadEof(p) ==
  /\ queue # <<>> /\ Head(queue) = Eof /\ got[p] = <<>>
  /\ queue' = Tail(queue)
  /\ UNCHANGED <<line, got>>

Return(p) == got' = [got EXCEPT ![p] = <<>>] /\ UNCHANGED <<line, queue>>

Next ==
  \/ \E c \in Chars : Type(c)
  \/ Erase
  \/ \E p \in Readers : ReadEof(p) \/ Return(p) \/ \E k \in 1..Len(queue) : Read(p, k)

Spec == Init /\ [][Next]_ttyVars
=============================================================================
