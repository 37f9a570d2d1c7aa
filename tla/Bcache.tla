------------------------------- MODULE Bcache -------------------------------
(***************************************************************************)
(* The buffer cache (bio.c) over the disk driver (ide.c): processes read,  *)
(* write and release sectors; the disk works through idequeue and          *)
(* interrupts.  Each section under bcache.lock or idelock, up to the next  *)
(* sleep or release, is one step.  There is one device.                    *)
(***************************************************************************)
EXTENDS Integers, Sequences, FiniteSets

CONSTANTS NBUF, Procs, Sectors, Values, Nobody,
          DiskErrors   \* whether a read may end with IDE_ERR

Bufs == 1..NBUF
NoBuf == 0
NoSector == -1   \* the sector of a buffer whose dev is still -1
Zero == CHOOSE v \in Values : TRUE

ASSUME BcacheConstants ==
  /\ NBUF \in Nat \ {0} /\ DiskErrors \in BOOLEAN /\ IsFiniteSet(Procs)
  /\ Values # {} /\ NoSector \notin Sectors /\ Nobody \notin Procs

VARIABLES sector, busy, valid, dirty, data,  \* struct buf
          lru,       \* the list from bcache.head.next on: most recent first
          idequeue,
          disk,      \* per sector: what the medium holds
          started,   \* the buffer the disk has been given, or NoBuf
          done,      \* the disk raises its interrupt
          pc, buf, chan,
          want,      \* per process: the sector of its bread, NoSector in bwrite
          seen       \* per process: what bread found, Zero when it is over

flags == <<busy, valid, dirty>>
driver == <<idequeue, disk, started, done>>
vars == <<sector, flags, data, lru, driver, pc, want, buf, chan, seen>>

Init ==
  /\ sector = [b \in Bufs |-> NoSector]
  /\ busy = {} /\ valid = {} /\ dirty = {}
  /\ data = [b \in Bufs |-> Zero]
  /\ lru = [i \in Bufs |-> NBUF + 1 - i]
  /\ idequeue = <<>>
  /\ disk = [s \in Sectors |-> Zero]
  /\ started = NoBuf /\ done = FALSE
  /\ pc = [p \in Procs |-> "idle"]
  /\ want = [p \in Procs |-> NoSector]
  /\ buf = [p \in Procs |-> NoBuf]
  /\ chan = [p \in Procs |-> NoBuf]
  /\ seen = [p \in Procs |-> Zero]

Runs(p, place) == pc[p] = place /\ chan[p] = NoBuf
Goto(p, place) == pc' = [pc EXCEPT ![p] = place]

\* Both waits, for a busy buffer and for the disk, are on the buffer.
wakeup(b) == [p \in Procs |-> IF chan[p] = b THEN NoBuf ELSE chan[p]]

-----------------------------------------------------------------------------
bread(p, s) ==
  /\ Runs(p, "idle")
  /\ want' = [want EXCEPT ![p] = s]
  /\ Goto(p, "bget")
  /\ UNCHANGED <<sector, flags, data, lru, driver, buf, chan, seen>>

\* Faulty variant: after the sleep the buffer is taken without another look.
Cached_Remembered(p) ==
  IF buf[p] # NoBuf THEN {buf[p]} ELSE {b \in Bufs : sector[b] = want[p]}

\* The cached copy of the sector, searched for again after every sleep.
Cached(p) == {b \in Bufs : sector[b] = want[p]}

\* bget returns b and bread goes on: the contents are there or must be read.
Got(p, b) ==
  /\ busy' = busy \cup {b}
  /\ buf' = [buf EXCEPT ![p] = b]
  /\ IF b \in valid' THEN /\ Goto(p, "have")
                          /\ seen' = [seen EXCEPT ![p] = data[b]]
                     ELSE Goto(p, "iderw") /\ UNCHANGED seen

bgetHit(p) ==
  /\ Runs(p, "bget")
  /\ \E b \in Cached(p) \ busy :
       /\ UNCHANGED valid
       /\ Got(p, b)
  /\ UNCHANGED <<sector, dirty, data, lru, driver, want, chan>>

bgetSleeps(p) ==
  /\ Runs(p, "bget")
  /\ \E b \in Cached(p) \cap busy :
       /\ chan' = [chan EXCEPT ![p] = b]
       /\ buf' = [buf EXCEPT ![p] = b]
  /\ UNCHANGED <<sector, flags, data, lru, driver, pc, want, seen>>

Reusable == Bufs \ busy

\* Faulty variant: the fresh block keeps B_VALID.
Invalidated_Not(b) == valid

Invalidated(b) == valid \ {b}

\* The least recently used buffer that is not busy is given to the sector.
bgetFresh(p) ==
  /\ Runs(p, "bget")
  /\ Cached(p) = {}
  /\ \E i \in Bufs :
       /\ lru[i] \in Reusable
       /\ \A j \in i + 1..NBUF : lru[j] \notin Reusable
       /\ sector' = [sector EXCEPT ![lru[i]] = want[p]]
       /\ valid' = Invalidated(lru[i])
       /\ dirty' = dirty \ {lru[i]}
       /\ Got(p, lru[i])
  /\ UNCHANGED <<data, lru, driver, want, chan>>

\* "Write b's contents to disk": the holder has put v there.
bwrite(p, v) ==
  /\ Runs(p, "have")
  /\ data' = [data EXCEPT ![buf[p]] = v]
  /\ dirty' = dirty \cup {buf[p]}
  /\ want' = [want EXCEPT ![p] = NoSector]
  /\ Goto(p, "iderw")
  /\ UNCHANGED <<sector, busy, valid, lru, driver, buf, chan, seen>>

\* Faulty variant: the sleepers of bget are left asleep.
Relse_Silent(b) == chan

Relse(b) == wakeup(b)

\* The list after the buffer at place i was moved to bcache.head.next.
MovedToFront(i) ==
  [j \in Bufs |-> IF j = 1 THEN lru[i] ELSE IF j <= i THEN lru[j - 1] ELSE lru[j]]

brelse(p) ==
  LET b == buf[p]
  IN  /\ Runs(p, "have")
      /\ \E i \in Bufs : lru[i] = b /\ lru' = MovedToFront(i)
      /\ busy' = busy \ {b}
      /\ chan' = Relse(b)
      /\ buf' = [buf EXCEPT ![p] = NoBuf]
      /\ want' = [want EXCEPT ![p] = NoSector]
      /\ seen' = [seen EXCEPT ![p] = Zero]
      /\ Goto(p, "idle")
      /\ UNCHANGED <<sector, valid, dirty, data, driver>>

-----------------------------------------------------------------------------
\* idestart hands the command, and for a write the data, to the disk.
idestart(b) ==
  /\ started' = b
  /\ done' = FALSE
  /\ disk' = IF b \in dirty THEN [disk EXCEPT ![sector[b]] = data[b]] ELSE disk

iderw(p) ==
  LET b == buf[p]
  IN  /\ Runs(p, "iderw")
      /\ idequeue' = Append(idequeue, b)
      /\ IF idequeue = <<>> THEN idestart(b) ELSE UNCHANGED <<disk, started, done>>
      /\ chan' = [chan EXCEPT ![p] = b]
      /\ Goto(p, "iowait")
      /\ UNCHANGED <<sector, flags, data, lru, want, buf, seen>>

\* Faulty variant: the loop tests a copy of the flags made before it.
IoWait_Copy(p) == Runs(p, "iowait") /\ UNCHANGED vars

\* The loop of iderw looks at the flags when it is woken.
IoWait(p) ==
  /\ Runs(p, "iowait")
  /\ IF buf[p] \in valid \ dirty
     THEN /\ Goto(p, "have")
          /\ seen' = IF want[p] = NoSector THEN seen
                     ELSE [seen EXCEPT ![p] = data[buf[p]]]
          /\ UNCHANGED chan
     ELSE /\ chan' = [chan EXCEPT ![p] = buf[p]]
          /\ UNCHANGED <<pc, seen>>
  /\ UNCHANGED <<sector, flags, data, lru, driver, want, buf>>

\* The disk finishes its command.
Disk ==
  /\ started # NoBuf /\ ~done
  /\ done' = TRUE
  /\ UNCHANGED <<sector, flags, data, lru, idequeue, disk, started, pc, want, buf,
                 chan, seen>>

\* The next request of the queue is started from the interrupt.
StartNext(q) ==
  IF q # <<>> THEN idestart(Head(q))
              ELSE UNCHANGED disk /\ started' = NoBuf /\ done' = FALSE

\* The interrupt: data for a read (unless the disk reports an error), VALID in
\* any case, and the next request.
ideintr ==
  LET b == Head(idequeue)
  IN  /\ done
      /\ idequeue' = Tail(idequeue)
      /\ IF b \in dirty THEN UNCHANGED data
         ELSE data' \in {[data EXCEPT ![b] = disk[sector[b]]]}
                           \cup (IF DiskErrors THEN {data} ELSE {})
      /\ valid' = valid \cup {b}
      /\ dirty' = dirty \ {b}
      /\ chan' = wakeup(b)
      /\ StartNext(Tail(idequeue))
      /\ UNCHANGED <<sector, busy, lru, pc, want, buf, seen>>

-----------------------------------------------------------------------------
Continue(p) ==
  \/ bgetHit(p) \/ bgetSleeps(p) \/ bgetFresh(p) \/ iderw(p) \/ IoWait(p)

Next ==
  \/ \E p \in Procs :
       \/ \E s \in Sectors : bread(p, s)
       \/ \E v \in Values : bwrite(p, v)
       \/ brelse(p) \/ Continue(p)
  \/ Disk \/ ideintr

Spec == Init /\ [][Next]_vars

\* Processes in the kernel keep running, and the disk answers.
FairSpec == Spec /\ WF_vars(Disk) /\ WF_vars(ideintr) /\ \A p \in Procs : WF_vars(Continue(p))

-----------------------------------------------------------------------------
\* The variables have their types, the list holds every buffer once, and a
\* dirty buffer is on its way to the disk.
TypeOK ==
  /\ sector \in [Bufs -> Sectors \cup {NoSector}]
  /\ busy \subseteq Bufs /\ valid \subseteq Bufs /\ dirty \subseteq busy
  /\ data \in [Bufs -> Values] /\ disk \in [Sectors -> Values]
  /\ lru \in [Bufs -> Bufs] /\ {lru[i] : i \in Bufs} = Bufs
  /\ idequeue \in Seq(busy)
  /\ started \in Bufs \cup {NoBuf} /\ done \in BOOLEAN
  /\ pc \in [Procs -> {"idle", "bget", "have", "iderw", "iowait"}]
  /\ want \in [Procs -> Sectors \cup {NoSector}]
  /\ buf \in [Procs -> Bufs \cup {NoBuf}] /\ chan \in [Procs -> Bufs \cup {NoBuf}]
  /\ seen \in [Procs -> Values]

Owners(b) == {p \in Procs : buf[p] = b /\ pc[p] \in {"have", "iderw", "iowait"}}

\* bget keeps its promises across the sleep: a sector has at most one buffer, a
\* buffer is busy exactly while one process has it, and that process asked for
\* the sector.  With as many buffers as processes that hold one each, it finds
\* one: "bget: no buffers" is out of reach.
OneBufferPerSector ==
  /\ TypeOK
  /\ \A b, c \in Bufs : sector[b] = sector[c] /\ sector[b] # NoSector => b = c
  /\ \A b \in Bufs :
       IF b \in busy THEN \E p \in Procs : Owners(b) = {p} ELSE Owners(b) = {}
  /\ \A b \in Bufs, p \in Procs :
       p \in Owners(b) => want[p] \in {sector[b], NoSector}
  /\ Cardinality(Procs) <= NBUF =>
       \A p \in Procs : pc[p] = "bget" /\ Cached(p) = {} => Bufs \ busy # {}

\* The disk works on the head of the queue whenever there is one, whoever
\* sleeps on a buffer sleeps on one that is queued or that another process has,
\* and iderw's panics are out of reach: it is given busy buffers with something
\* to read or write.
DiskAtWork ==
  /\ \A p \in Procs : pc[p] = "iderw" => buf[p] \in busy \ (valid \ dirty)
  /\ started = IF idequeue = <<>> THEN NoBuf ELSE Head(idequeue)
  /\ \A p \in Procs :
       chan[p] # NoBuf => IF pc[p] = "iowait" THEN \E i \in DOMAIN idequeue :
                                                    idequeue[i] = buf[p]
                                              ELSE chan[p] \in busy

Holds(p, s) ==
  /\ buf[p] # NoBuf /\ sector[buf[p]] = s
  /\ \/ pc[p] = "have"
     \/ pc[p] \in {"iderw", "iowait"} /\ want[p] = NoSector

\* A sector's value is that of its buffer, or else what the medium holds.
Value ==
  [s \in Sectors |-> IF \E b \in valid \cup dirty : sector[b] = s
                     THEN data[CHOOSE b \in valid \cup dirty : sector[b] = s]
                     ELSE disk[s]]

Holder ==
  [s \in Sectors |-> IF \E p \in Procs : Holds(p, s)
                     THEN CHOOSE p \in Procs : Holds(p, s) ELSE Nobody]

Store == INSTANCE BlockStore WITH value <- Value, holder <- Holder

\* Eviction, sharing, sleeping and the queue are invisible: the cache and the
\* driver together implement a store of sectors held one process at a time.
IsBlockStore == Store!Spec

\* A process that waits for the disk gets its answer.
RequestsFinish == \A p \in Procs : pc[p] = "iderw" ~> pc[p] = "have"
=============================================================================
