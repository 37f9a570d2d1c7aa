------------------------------- MODULE Console ------------------------------
(***************************************************************************)
(* Console input (5/xv6/console.c): the keyboard and serial interrupts     *)
(* edit a line in a ring buffer, readers sleep until a line is entered.    *)
(*                                                                         *)
(* input.lock is held throughout the interrupt handler and throughout      *)
(* consoleread except while it sleeps, and sleep and wakeup exclude each   *)
(* other (module Proc), so what happens between two sleeps is one step.    *)
(* The indices are unsigned and wrap around; COUNT stands for 2^32.        *)
(***************************************************************************)
EXTENDS Integers, Sequences

CONSTANTS Readers,
          INPUT_BUF,  \* size of the ring
          COUNT,      \* the indices count modulo this
          Sizes,      \* what read is called with
          Killable    \* the readers that are killed

ASSUME ConsoleConstants ==
  /\ {INPUT_BUF, COUNT} \subseteq Nat \ {0}
  /\ COUNT > INPUT_BUF /\ COUNT % INPUT_BUF = 0
  /\ Sizes \subseteq Nat \ {0}

Newline == "newline"
Eof == "^D"
Chars == {"x", Newline, Eof}

VARIABLES buf, r, w, e,  \* input
          pc,      \* per reader: "user", "awake" or "asleep" in consoleread, "done"
          n,       \* per reader: how many bytes it still wants
          dst,     \* per reader: the bytes it has got
          killed

vars == <<buf, r, w, e, pc, n, dst, killed>>
ring == <<buf, r, w, e>>

Plus(i, k) == (i + k) % COUNT
Minus(i, j) == (i - j + COUNT) % COUNT

\* The k-th character from index i on, and all characters from i to j.
At(i, k) == buf[Plus(i, k - 1) % INPUT_BUF]
Between(i, j) == [k \in 1..Minus(j, i) |-> At(i, k)]

Init ==
  /\ buf = [i \in 0..INPUT_BUF - 1 |-> "nul"]
  /\ r = 0 /\ w = 0 /\ e = 0
  /\ pc = [p \in Readers |-> "user"]
  /\ n = [p \in Readers |-> 0]
  /\ dst = [p \in Readers |-> <<>>]
  /\ killed = [p \in Readers |-> FALSE]

-----------------------------------------------------------------------------
Room == Minus(e, r) < INPUT_BUF

\* Faulty variant: a full ring does not end the line.
Enters_NotFull(c) == c \in {Newline, Eof}

\* The character ends the line, or fills the ring.
Enters(c) == c \in {Newline, Eof} \/ Plus(e, 1) = Plus(r, INPUT_BUF)

\* Faulty variant: whoever sleeps goes on sleeping.
Woken_Nobody == pc

\* wakeup(&input.r)
Woken == [p \in Readers |-> IF pc[p] = "asleep" THEN "awake" ELSE pc[p]]

\* consoleintr, an ordinary character.
Input(c) ==
  /\ Room
  /\ buf' = [buf EXCEPT ![e % INPUT_BUF] = c]
  /\ e' = Plus(e, 1)
  /\ IF Enters(c)
     THEN /\ w' = Plus(e, 1)
          /\ pc' = Woken
     ELSE UNCHANGED <<w, pc>>
  /\ UNCHANGED <<r, n, dst, killed>>

\* consoleintr, backspace.
Backspace ==
  /\ e # w
  /\ e' = Minus(e, 1)
  /\ UNCHANGED <<buf, r, w, pc, n, dst, killed>>

\* consoleintr, ^U: back to the newline before e, or to w.
KillLine ==
  /\ e # w
  /\ \E k \in 0..Minus(e, w) :
       /\ k > 0 => At(w, k) = Newline
       /\ \A j \in k + 1..Minus(e, w) : At(w, j) # Newline
       /\ e' = Plus(w, k)
  /\ UNCHANGED <<buf, r, w, pc, n, dst, killed>>

-----------------------------------------------------------------------------
\* read(0, dst, k) on the console.
consoleread(p, k) ==
  /\ pc[p] = "user" /\ ~killed[p]
  /\ pc' = [pc EXCEPT ![p] = "awake"]
  /\ n' = [n EXCEPT ![p] = k]
  /\ UNCHANGED <<ring, dst, killed>>

\* Faulty variant: the ^D is used up.
SavesEof_Not(p, k) == FALSE

\* "Save ^D for next time, to make sure caller gets a 0-byte result."
SavesEof(p, k) == Len(dst[p]) + k > 1

\* The k-th character from input.r on is the last for p.
Last(p, k) == k > 0 /\ (At(r, k) \in {Newline, Eof} \/ k = n[p])

\* A kill that falls between the test of proc->killed and sleep finds nobody to
\* wake.
KilledLate(p) ==
  p \in Killable /\ pc'[p] = "asleep" /\ killed' = [killed EXCEPT ![p] = TRUE]

\* The loop, from the lock to the return or to the next sleep: the characters
\* up to the first that ends it, or all there are.
Loop(p) ==
  \E k \in 0..Minus(w, r) :
    LET eof == k > 0 /\ At(r, k) = Eof
        took == IF eof THEN k - 1 ELSE k
    IN  /\ pc[p] = "awake"
        /\ (r # w \/ ~killed[p])
        /\ k = Minus(w, r) \/ Last(p, k)
        /\ \A j \in 1..k - 1 : ~Last(p, j)
        /\ r' = Plus(r, IF eof /\ SavesEof(p, k) THEN k - 1 ELSE k)
        /\ dst' = [dst EXCEPT ![p] = @ \o [i \in 1..took |-> At(r, i)]]
        /\ n' = [n EXCEPT ![p] = @ - took]
        /\ pc' = [pc EXCEPT ![p] =
                    IF Last(p, k) THEN "done" ELSE IF killed[p] THEN "awake" ELSE "asleep"]
        /\ killed' = killed \/ KilledLate(p)
        /\ UNCHANGED <<buf, w, e>>

\* There is nothing to read and the process is killed: return -1.
Killed(p) ==
  /\ pc[p] = "awake" /\ r = w /\ killed[p]
  /\ pc' = [pc EXCEPT ![p] = "done"]
  /\ UNCHANGED <<ring, n, dst, killed>>

Return(p) ==
  /\ pc[p] = "done"
  /\ pc' = [pc EXCEPT ![p] = "user"]
  /\ dst' = [dst EXCEPT ![p] = <<>>]
  /\ n' = [n EXCEPT ![p] = 0]
  /\ UNCHANGED <<ring, killed>>

\* kill wakes a sleeper; once it has exited another process takes its place.
kill(p) ==
  /\ p \in Killable /\ pc[p] # "user"
  /\ killed' = [killed EXCEPT ![p] = TRUE]
  /\ pc' = [pc EXCEPT ![p] = IF @ = "asleep" THEN "awake" ELSE @]
  /\ UNCHANGED <<ring, n, dst>>

Replaced(p) ==
  /\ pc[p] = "user" /\ killed[p]
  /\ killed' = [killed EXCEPT ![p] = FALSE]
  /\ UNCHANGED <<ring, pc, n, dst>>

Keyboard == Backspace \/ KillLine \/ \E c \in Chars : Input(c)
Reader(p) == Loop(p) \/ Killed(p) \/ Return(p)

Next ==
  \/ Keyboard
  \/ \E p \in Readers : Reader(p) \/ kill(p) \/ Replaced(p)
                        \/ \E k \in Sizes : consoleread(p, k)

\* A reader that is awake gets to run (RunnableRuns in module Proc).
Spec == Init /\ [][Next]_vars /\ \A p \in Readers : WF_vars(Reader(p))

-----------------------------------------------------------------------------
TypeOK ==
  /\ buf \in [0..INPUT_BUF - 1 -> Chars \cup {"nul"}]
  /\ {r, w, e} \subseteq 0..COUNT - 1
  /\ pc \in [Readers -> {"user", "awake", "asleep", "done"}]
  /\ n \in [Readers -> Nat] /\ dst \in [Readers -> Seq(Chars)]
  /\ killed \in [Readers -> BOOLEAN]

\* The indices keep their order around the ring although they wrap and are
\* moved by both sides; a full ring can always be read; and nobody sleeps
\* while there is something to read: no wakeup is lost.
RingSound ==
  /\ TypeOK
  /\ Minus(w, r) <= Minus(e, r) /\ Minus(e, r) <= INPUT_BUF
  /\ ~Room => w = e
  /\ \A p \in Readers : pc[p] = "asleep" => r = w

TTY == INSTANCE Tty WITH line <- Between(w, e), queue <- Between(r, w), got <- dst,
                         Capacity <- INPUT_BUF

\* The ring is a line editor in front of a queue: no character that was entered
\* is overwritten, lost, read twice or out of order, and ^D makes a read return
\* nothing, once.
IsTty == TTY!Spec

\* A reader that waits while there is input gets it and returns, unless another
\* reader has taken it all.
InputRead ==
  \A p \in Readers : (r # w /\ pc[p] \in {"awake", "asleep"}) ~> (r = w \/ pc[p] = "done")
=============================================================================
