-------------------------------- MODULE Pipe --------------------------------
(***************************************************************************)
(* A pipe (pipe.c) shared by processes that hold its write end or its read *)
(* end, each through one reference of its own to the file (file.c).        *)
(*                                                                         *)
(* p->lock is held from acquire, or from the end of a sleep, to the next   *)
(* sleep or return: each such section is one step.  That sleep gives the   *)
(* lock up and goes to sleep in one step is what module Proc shows of it.  *)
(* nread and nwrite are unsigned ints, here of Word values.                *)
(***************************************************************************)
EXTENDS Naturals, Sequences, FiniteSetsExt

CONSTANTS PIPESIZE,
          Word,       \* nread and nwrite count modulo Word (2^32 in the code)
          Bytes,
          Writers, Readers,   \* the processes with the write end, the read end
          Inputs,     \* the strings that are written, in one call each
          MaxRead     \* bound on the n of a read

Procs == Writers \cup Readers

ASSUME PipeConstants ==
  /\ {PIPESIZE, Word, MaxRead} \subseteq Nat \ {0} /\ Inputs \subseteq Seq(Bytes)
  /\ Word % PIPESIZE = 0 /\ Word > PIPESIZE
  /\ Writers \cap Readers = {} /\ {} \notin {Writers, Readers, Bytes}

VARIABLES data, nread, nwrite, readopen, writeopen,  \* struct pipe
          freed,    \* the pipe's page has been given to kfree
          mode,     \* per process: what it is doing with the pipe
          todo,     \* per writer: the bytes of its buffer not yet written
          want,     \* per reader: its n
          got,      \* per reader: the bytes its last read returned
          asleep,   \* the processes asleep on &nread (readers) or &nwrite
          killed

pipe == <<data, nread, nwrite, readopen, writeopen>>
vars == <<pipe, freed, mode, todo, want, got, asleep, killed>>

Modes == {"open", "busy", "closing", "closed"}

\* Where the j-th byte from counter value n on is kept.
Slot(n, j) == ((n + j - 1) % Word) % PIPESIZE

InPipe == (nwrite + Word - nread) % Word

\* Faulty variant: the test for a full pipe forgets that the counters wrap.
Full_NoWrap(nw) == nw = nread + PIPESIZE

Full(nw) == nw = (nread + PIPESIZE) % Word

Awake(p) == mode[p] = "busy" /\ p \notin asleep

Init ==
  /\ data = [i \in 0..PIPESIZE - 1 |-> CHOOSE b \in Bytes : TRUE]
  /\ nread = 0 /\ nwrite = 0
  /\ readopen = TRUE /\ writeopen = TRUE
  /\ freed = FALSE
  /\ mode = [p \in Procs |-> "open"]
  /\ todo = [w \in Writers |-> <<>>]
  /\ want = [r \in Readers |-> 0]
  /\ got = [r \in Readers |-> <<>>]
  /\ asleep = {} /\ killed = {}

-----------------------------------------------------------------------------
pipewrite(w, s) ==
  /\ mode[w] = "open" /\ w \notin killed
  /\ mode' = [mode EXCEPT ![w] = "busy"]
  /\ todo' = [todo EXCEPT ![w] = s]
  /\ UNCHANGED <<pipe, freed, want, got, asleep, killed>>

\* Faulty variant: a writer that fills the pipe goes to sleep without waking
\* the readers.
WakeBeforeSleep_Not == asleep

\* wakeup(&p->nread) before pipewrite-sleep.
WakeBeforeSleep == asleep \ Readers

\* The loop copies until the buffer is empty or the pipe is full.
WriteSome(w) ==
  LET n == Len(todo[w])
      k == Min({n} \cup {j \in 0..n : Full((nwrite + j) % Word)})
  IN  /\ Awake(w)
      /\ data' = [i \in 0..PIPESIZE - 1 |->
                    LET at == {j \in 1..k : Slot(nwrite, j) = i}
                    IN  IF at = {} THEN data[i] ELSE todo[w][Max(at)]]
      /\ nwrite' = (nwrite + k) % Word
      /\ \/ /\ k = n                                        \* return n
            /\ mode' = [mode EXCEPT ![w] = "open"]
            /\ todo' = [todo EXCEPT ![w] = <<>>]
            /\ asleep' = asleep \ Readers
         \/ /\ k < n /\ (~readopen \/ w \in killed)   \* return -1
            /\ mode' = [mode EXCEPT ![w] = "open"]
            /\ todo' = [todo EXCEPT ![w] = <<>>]
            /\ UNCHANGED asleep
         \/ /\ k < n /\ readopen /\ w \notin killed
            /\ todo' = [todo EXCEPT ![w] = SubSeq(@, k + 1, Len(@))]
            /\ asleep' = WakeBeforeSleep \cup {w}
            /\ UNCHANGED mode
      /\ UNCHANGED <<nread, readopen, writeopen, freed, want, got, killed>>

piperead(r, n) ==
  /\ mode[r] = "open" /\ r \notin killed
  /\ mode' = [mode EXCEPT ![r] = "busy"]
  /\ want' = [want EXCEPT ![r] = n]
  /\ UNCHANGED <<pipe, freed, todo, got, asleep, killed>>

\* Faulty variant: a reader only looks at the counters.
MustWait_Counters == nread = nwrite

MustWait == nread = nwrite /\ writeopen

ReadWaits(r) ==
  /\ Awake(r) /\ MustWait
  /\ IF r \in killed
     THEN /\ mode' = [mode EXCEPT ![r] = "open"]
          /\ want' = [want EXCEPT ![r] = 0]
          /\ UNCHANGED asleep
     ELSE /\ asleep' = asleep \cup {r}
          /\ UNCHANGED <<mode, want>>
  /\ UNCHANGED <<pipe, freed, todo, got, killed>>

\* Faulty variant: readers do not tell writers of the room they make.
WakeWriters_Not == asleep

\* wakeup(&p->nwrite) after the copy.
WakeWriters == asleep \ Writers

ReadSome(r) ==
  LET k == IF want[r] < InPipe THEN want[r] ELSE InPipe
  IN  /\ Awake(r) /\ ~MustWait
      /\ got' = [got EXCEPT ![r] =
                   [j \in 1..k |-> data[Slot(nread, j)]]]
      /\ nread' = (nread + k) % Word
      /\ asleep' = WakeWriters
      /\ mode' = [mode EXCEPT ![r] = "open"]
      /\ want' = [want EXCEPT ![r] = 0]
      /\ UNCHANGED <<data, nwrite, readopen, writeopen, freed, todo, killed>>

-----------------------------------------------------------------------------
\* fileclose drops the process's reference; the last one of an end goes on to
\* pipeclose, after ftable.lock is released.
LastRef(p, end) == \A q \in end \ {p} : mode[q] \in {"closing", "closed"}

fileclose(p) ==
  /\ mode[p] = "open"
  /\ mode' = [mode EXCEPT ![p] =
                IF LastRef(p, IF p \in Writers THEN Writers ELSE Readers)
                THEN "closing" ELSE "closed"]
  /\ UNCHANGED <<pipe, freed, todo, want, got, asleep, killed>>

\* Faulty variant: each end gives the page back when it is closed.
LastEnd_Either(ro, wo) == TRUE

LastEnd(ro, wo) == ~ro /\ ~wo

pipeclose(p) ==
  /\ mode[p] = "closing"
  /\ IF p \in Writers
     THEN /\ writeopen' = FALSE /\ UNCHANGED readopen
          /\ asleep' = asleep \ Readers
     ELSE /\ readopen' = FALSE /\ UNCHANGED writeopen
          /\ asleep' = asleep \ Writers
  /\ freed' = (freed \/ LastEnd(readopen', writeopen'))
  /\ mode' = [mode EXCEPT ![p] = "closed"]
  /\ UNCHANGED <<data, nread, nwrite, todo, want, got, killed>>

\* kill wakes its target whatever it sleeps on; it closes its end on the way out.
kill(p) ==
  /\ p \notin killed
  /\ killed' = killed \cup {p}
  /\ asleep' = asleep \ {p}
  /\ UNCHANGED <<pipe, freed, mode, todo, want, got>>

-----------------------------------------------------------------------------
Call ==
  \/ \E w \in Writers, s \in Inputs : pipewrite(w, s)
  \/ \E r \in Readers, n \in 1..MaxRead : piperead(r, n)

Run(p) ==
  \/ p \in Writers /\ WriteSome(p)
  \/ p \in Readers /\ (ReadWaits(p) \/ ReadSome(p))
  \/ pipeclose(p)

Next ==
  \/ Call
  \/ \E p \in Procs : Run(p) \/ fileclose(p) \/ kill(p)

Spec == Init /\ [][Next]_vars

\* A process in the kernel keeps running.  The programs at the two ends do not
\* leave each other waiting: each keeps using its end, and not only for empty
\* writes, or closes it.
Uses(p) ==
  \/ p \in Writers /\ \E s \in Inputs \ {<<>>} : pipewrite(p, s)
  \/ p \in Readers /\ \E n \in 1..MaxRead : piperead(p, n)
  \/ fileclose(p)

FairSpec == Spec /\ \A p \in Procs : WF_vars(Run(p)) /\ SF_vars(Uses(p))

-----------------------------------------------------------------------------
\* The variables have their types, and the counters are never further apart
\* than the buffer is long.
TypeOK ==
  /\ data \in [0..PIPESIZE - 1 -> Bytes]
  /\ nread \in 0..Word - 1 /\ nwrite \in 0..Word - 1 /\ InPipe <= PIPESIZE
  /\ {readopen, writeopen, freed} \subseteq BOOLEAN
  /\ mode \in [Procs -> Modes]
  /\ todo \in [Writers -> Seq(Bytes)]
  /\ want \in [Readers -> 0..MaxRead]
  /\ got \in [Readers -> Seq(Bytes)] /\ \A r \in Readers : Len(got[r]) <= MaxRead
  /\ asleep \subseteq Procs /\ killed \subseteq Procs

\* Who may be asleep.
SleepInv ==
  \A p \in asleep :
    /\ mode[p] = "busy" /\ p \notin killed
    /\ p \in Readers => writeopen /\ (InPipe = 0 \/ killed \cap Writers # {})
    /\ p \in Writers => InPipe = PIPESIZE /\ readopen

\* No wakeup is lost: a reader sleeps only while the pipe is empty and may still
\* be written, a writer only while it is full and may still be read, and nobody
\* sleeps on after a kill.  The exception is the code's: a writer that is killed
\* with the pipe full returns -1 before it wakes the readers, so a reader may
\* sleep on although there are bytes, until the next write or the last close.
SleepersJustified == TypeOK /\ SleepInv

\* The page is freed by the last close and by nobody before: while a process
\* can still use the pipe it is there, and once all have closed it is gone.
FreedAtLastClose == freed <=> \A p \in Procs : mode[p] = "closed"

\* The bytes between nread and nwrite, oldest first.
Contents == [j \in 1..InPipe |-> data[Slot(nread, j)]]

F == INSTANCE Fifo WITH Capacity <- PIPESIZE, queue <- Contents, open <- writeopen

\* The ring of data with its wrapping counters is a bounded first-in, first-out
\* queue with an end of file (Fifo.tla), across any number of readers, writers,
\* closes and kills.
IsFifo == F!Spec

\* Reads and writes come back when the other end is used or closed: an end's
\* calls are never all stuck (one of two writers may lose every race for the
\* space to the other, and so may one of two readers).
CallsReturn ==
  \A end \in {Readers, Writers} :
    (\A p \in end : mode[p] = "busy") ~> (\E p \in end : mode[p] # "busy")
=============================================================================
