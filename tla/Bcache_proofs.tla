--------------------------- MODULE Bcache_proofs ----------------------------
(***************************************************************************)
(* The buffer cache and the disk driver, for any number of buffers,        *)
(* processes and sectors.                                                  *)
(*                                                                         *)
(* DiskAtWork is not inductive: that a sleeper's buffer is queued needs    *)
(* who owns which buffer (OwnInv), what the flags say at each place of     *)
(* iderw (FlagInv), and that the queue holds each buffer once, for an      *)
(* owner that waits (QueueInv).                                            *)
(*                                                                         *)
(* Without read errors a sector's value is in its valid buffer, or on the  *)
(* disk when it has none (DiskInv, MapInv): the cache is a BlockStore.     *)
(***************************************************************************)
EXTENDS Bcache, TLAPS, FiniteSetTheorems

USE ZenonT(30), SMT

\* p has the buffer buf[p].
Owns(p) == pc[p] \in {"have", "iderw", "iowait"}

Queued(b) == \E i \in 1..Len(idequeue) : idequeue[i] = b

\* A buffer is up to date: bread returns it, iderw does not take it.
Current(b) == b \in valid /\ b \notin dirty

\* A busy buffer has one owner, who asked for its sector.
OwnInv ==
  /\ \A p \in Procs :
       Owns(p) => buf[p] \in busy /\ want[p] \in {sector[buf[p]], NoSector}
  /\ \A p, q \in Procs : Owns(p) /\ Owns(q) /\ buf[p] = buf[q] => p = q
  /\ \A b \in busy : \E p \in Procs : Owns(p) /\ buf[p] = b
  /\ \A p \in Procs : pc[p] = "bget" => want[p] \in Sectors

\* A sector has one buffer, and a buffer in use has a sector.
SectorInv ==
  /\ \A b, c \in Bufs : sector[b] = sector[c] /\ sector[b] # NoSector => b = c
  /\ \A b \in busy \cup valid : sector[b] \in Sectors

\* What an owner may take for granted at each place.
FlagInv ==
  \A p \in Procs :
    /\ pc[p] = "have" => Current(buf[p])
    /\ pc[p] = "iderw" => ~Current(buf[p])
    /\ pc[p] = "iowait" => (Queued(buf[p]) <=> ~Current(buf[p]))

\* The queue holds buffers whose owners wait, each once, and the disk has been
\* given the first of them.
QueueInv ==
  /\ \A i, j \in 1..Len(idequeue) : idequeue[i] = idequeue[j] => i = j
  /\ \A i \in 1..Len(idequeue) :
       \E p \in Procs : pc[p] = "iowait" /\ buf[p] = idequeue[i]
  /\ started = IF idequeue = <<>> THEN NoBuf ELSE Head(idequeue)
  /\ done => started # NoBuf

\* Who sleeps, and on what.
ChanInv ==
  \A p \in Procs : chan[p] # NoBuf =>
    \/ pc[p] = "bget" /\ chan[p] \in busy
    \/ pc[p] = "iowait" /\ chan[p] = buf[p] /\ Queued(buf[p])

\* What the medium has of the buffers.
DiskInv ==
  \A b \in Bufs : Current(b) \/ (b \in dirty /\ b = started) => data[b] = disk[sector[b]]

IndInv == TypeOK /\ OwnInv /\ SectorInv /\ FlagInv /\ QueueInv /\ ChanInv

-----------------------------------------------------------------------------
\* What the proofs use of the constants.
LEMMA Constants ==
  /\ NBUF \in Nat /\ NBUF > 0 /\ NoBuf \notin Bufs /\ NoSector \notin Sectors
  /\ Zero \in Values /\ Nobody \notin Procs
BY BcacheConstants, SMT DEF Bufs, NoBuf, Zero

\* A sequence is one over any set that has its elements.
LEMMA SeqOver ==
  ASSUME NEW S, NEW T, NEW q \in Seq(S), \A i \in 1..Len(q) : q[i] \in T
  PROVE  q \in Seq(T)
BY SMT

LEMMA InitInd == Init => IndInv /\ DiskInv
<1> SUFFICES ASSUME Init PROVE IndInv /\ DiskInv
  OBVIOUS
<1> USE Constants DEF Init
<1>1. TypeOK
  <2>1. {lru[i] : i \in Bufs} = Bufs
    <3>1. ASSUME NEW b \in Bufs PROVE \E i \in Bufs : lru[i] = b
      <4>1. NBUF + 1 - b \in Bufs /\ lru[NBUF + 1 - b] = b
        BY SMT DEF Bufs
      <4>2. QED
        BY <4>1
    <3>2. \A i \in Bufs : lru[i] \in Bufs
      BY SMT DEF Bufs
    <3>3. QED
      BY <3>1, <3>2
  <2>2. lru \in [Bufs -> Bufs]
    BY SMT DEF Bufs
  <2>3. /\ sector \in [Bufs -> Sectors \cup {NoSector}]
        /\ data \in [Bufs -> Values] /\ disk \in [Sectors -> Values]
        /\ idequeue \in Seq(busy) /\ started \in Bufs \cup {NoBuf}
    BY SMT
  <2>4. QED
    BY <2>1, <2>2, <2>3 DEF TypeOK
<1>2. OwnInv /\ SectorInv /\ FlagInv /\ QueueInv /\ ChanInv /\ DiskInv
  BY SMT DEF OwnInv, SectorInv, FlagInv, QueueInv, ChanInv, DiskInv, Owns, Current
<1>3. QED
  BY <1>1, <1>2 DEF IndInv

\* The queue is none of the business of a step that leaves it and those who wait
\* for the disk alone.
LEMMA QueueKept ==
  ASSUME QueueInv, UNCHANGED <<idequeue, started, done>>,
         \A q \in Procs : pc[q] = "iowait" => pc'[q] = "iowait" /\ buf'[q] = buf[q]
  PROVE  QueueInv'
<1>1. \A i \in 1..Len(idequeue) :
        \E q \in Procs : pc'[q] = "iowait" /\ buf'[q] = idequeue[i]
  BY SMT DEF QueueInv
<1>2. QED
  BY <1>1, SMT DEF QueueInv

LEMMA breadInd ==
  ASSUME IndInv, NEW p \in Procs, NEW s \in Sectors, bread(p, s)
  PROVE  IndInv'
<1> USE Constants DEF IndInv, bread, Runs, Goto, flags, driver
<1>1. TypeOK'
  BY SMT DEF TypeOK
<1>2. OwnInv'
  BY SMT DEF TypeOK, OwnInv, Owns
<1>3. SectorInv' /\ ChanInv'
  <2>1. SectorInv'
    BY DEF TypeOK, SectorInv
  <2>2. ChanInv'
    BY SMT DEF TypeOK, ChanInv, Queued
  <2>3. QED
    BY <2>1, <2>2
<1>4. FlagInv'
  BY SMT DEF TypeOK, FlagInv, Queued, Current
<1>5. QueueInv'
  BY QueueKept DEF TypeOK
<1>6. QED
  BY <1>1, <1>2, <1>3, <1>4, <1>5

LEMMA bgetHitInd ==
  ASSUME IndInv, NEW p \in Procs, bgetHit(p)
  PROVE  IndInv'
<1> PICK b \in Cached(p) \ busy : Got(p, b) /\ UNCHANGED valid
  BY DEF bgetHit
<1> /\ b \in Bufs /\ sector[b] = want[p] /\ b \notin busy
    /\ pc[p] = "bget" /\ chan[p] = NoBuf
    /\ UNCHANGED <<sector, valid, dirty, data, lru, driver, want, chan>>
  BY DEF bgetHit, Runs, Cached
<1> USE Constants DEF IndInv, driver
<1>1. /\ busy' = busy \cup {b} /\ buf' = [buf EXCEPT ![p] = b]
      /\ pc' = [pc EXCEPT ![p] = IF b \in valid THEN "have" ELSE "iderw"]
      /\ seen' = IF b \in valid THEN [seen EXCEPT ![p] = data[b]] ELSE seen
  BY DEF Got, Goto
<1>2. TypeOK'
  <2>1. idequeue' \in Seq(busy')
    BY <1>1, SeqOver, SMT DEF TypeOK
  <2>2. QED
    BY <1>1, <2>1, SMT DEF TypeOK
<1>3. OwnInv'
  BY <1>1, SMT DEF TypeOK, OwnInv, Owns
<1>4. SectorInv'
  BY <1>1 DEF TypeOK, SectorInv, OwnInv
<1>5. FlagInv'
  BY <1>1, SMT DEF TypeOK, FlagInv, Queued, Current
<1>6. QueueInv'
  BY <1>1, SMT DEF TypeOK, QueueInv
<1>7. ChanInv'
  BY <1>1, SMT DEF TypeOK, ChanInv, Queued
<1>8. QED
  BY <1>2, <1>3, <1>4, <1>5, <1>6, <1>7

LEMMA bgetSleepsInd ==
  ASSUME IndInv, NEW p \in Procs, bgetSleeps(p)
  PROVE  IndInv'
<1> PICK b \in Bufs \cap busy :
      chan' = [chan EXCEPT ![p] = b] /\ buf' = [buf EXCEPT ![p] = b]
  BY DEF bgetSleeps, Cached
<1> /\ pc[p] = "bget"
    /\ UNCHANGED <<sector, flags, data, lru, driver, pc, want, seen>>
  BY DEF bgetSleeps, Runs
<1> USE Constants DEF IndInv, driver, flags
<1>1. TypeOK'
  BY SMT DEF TypeOK
<1>2. OwnInv'
  BY SMT DEF TypeOK, OwnInv, Owns
<1>6. SectorInv'
  BY DEF SectorInv
<1>3. FlagInv' /\ QueueInv'
  BY SMT DEF TypeOK, FlagInv, QueueInv, Queued, Current
<1>4. ChanInv'
  BY SMT DEF TypeOK, ChanInv, Queued
<1>5. QED
  BY <1>1, <1>2, <1>3, <1>4, <1>6

LEMMA bgetFreshInd ==
  ASSUME IndInv, NEW p \in Procs, bgetFresh(p)
  PROVE  IndInv'
<1> PICK i \in Bufs :
      /\ lru[i] \in Reusable
      /\ sector' = [sector EXCEPT ![lru[i]] = want[p]]
      /\ valid' = Invalidated(lru[i])
      /\ dirty' = dirty \ {lru[i]}
      /\ Got(p, lru[i])
  BY DEF bgetFresh
<1> DEFINE b == lru[i]
<1>1. /\ b \in Bufs /\ b \notin busy /\ pc[p] = "bget" /\ chan[p] = NoBuf
      /\ want[p] \in Sectors /\ \A c \in Bufs : sector[c] # want[p]
      /\ UNCHANGED <<data, lru, driver, want, chan>>
  BY DEF bgetFresh, Runs, Cached, Reusable, IndInv, OwnInv
<1>2. /\ busy' = busy \cup {b} /\ buf' = [buf EXCEPT ![p] = b]
      /\ valid' = valid \ {b} /\ dirty' = dirty
      /\ pc' = [pc EXCEPT ![p] = "iderw"]
      /\ sector' = [sector EXCEPT ![b] = want[p]] /\ seen' = seen
  BY <1>1, Constants, SMT DEF Got, Goto, Invalidated, IndInv, TypeOK
<1> HIDE DEF b
<1> USE <1>1, <1>2, Constants DEF IndInv, driver
<1>3. TypeOK'
  <2>1. idequeue' \in Seq(busy')
    BY SeqOver, SMT DEF TypeOK
  <2>2. QED
    BY <2>1, SMT DEF TypeOK
<1>4. OwnInv'
  BY SMT DEF TypeOK, OwnInv, Owns
<1>5. SectorInv'
  BY SMT DEF TypeOK, SectorInv, OwnInv
<1>6. FlagInv'
  <2>1. ASSUME NEW q \in Procs, Owns(q) PROVE buf[q] # b
    BY <2>1, SMT DEF OwnInv
  <2>2. QED
    BY <2>1, SMT DEF TypeOK, FlagInv, Queued, Current, Owns
<1>7. QueueInv'
  BY QueueKept, SMT DEF TypeOK
<1>8. ChanInv'
  BY SMT DEF TypeOK, ChanInv, Queued
<1>9. QED
  BY <1>3, <1>4, <1>5, <1>6, <1>7, <1>8

LEMMA bwriteInd ==
  ASSUME IndInv, NEW p \in Procs, NEW v \in Values, bwrite(p, v)
  PROVE  IndInv'
<1>1. /\ pc[p] = "have" /\ buf[p] \in busy /\ buf[p] \in Bufs
      /\ data' = [data EXCEPT ![buf[p]] = v] /\ dirty' = dirty \cup {buf[p]}
      /\ want' = [want EXCEPT ![p] = NoSector] /\ pc' = [pc EXCEPT ![p] = "iderw"]
      /\ UNCHANGED <<sector, busy, valid, lru, driver, buf, chan, seen>>
  BY DEF bwrite, Runs, Goto, IndInv, TypeOK, OwnInv, Owns
<1> USE <1>1, Constants DEF IndInv, driver
<1>2. TypeOK'
  BY SMT DEF TypeOK
<1>3. OwnInv'
  BY SMT DEF TypeOK, OwnInv, Owns
<1>4. SectorInv' /\ ChanInv'
  <2>1. SectorInv'
    BY DEF TypeOK, SectorInv
  <2>2. ChanInv'
    BY SMT DEF TypeOK, ChanInv, Queued
  <2>3. QED
    BY <2>1, <2>2
<1>5. FlagInv'
  <2>1. ASSUME NEW q \in Procs, Owns(q), q # p PROVE buf[q] # buf[p]
    BY <2>1 DEF OwnInv, Owns
  <2>2. QED
    BY <2>1, SMT DEF TypeOK, FlagInv, Queued, Current, Owns
<1>6. QueueInv'
  BY QueueKept DEF TypeOK
<1>7. QED
  BY <1>2, <1>3, <1>4, <1>5, <1>6

\* Moving a buffer to the front of the list keeps every buffer in it.
LEMMA StillListed ==
  ASSUME lru \in [Bufs -> Bufs], {lru[j] : j \in Bufs} = Bufs, NEW i \in Bufs
  PROVE  /\ MovedToFront(i) \in [Bufs -> Bufs]
         /\ {MovedToFront(i)[j] : j \in Bufs} = Bufs
<1> USE Constants
<1>1. ASSUME NEW j \in Bufs PROVE MovedToFront(i)[j] \in Bufs
  <2>1. j # 1 => j - 1 \in Bufs
    BY SMT DEF Bufs
  <2>2. QED
    BY <2>1 DEF MovedToFront
<1>2. MovedToFront(i) \in [Bufs -> Bufs]
  BY <1>1 DEF MovedToFront
<1>3. ASSUME NEW b \in Bufs PROVE \E j \in Bufs : MovedToFront(i)[j] = b
  <2>1. PICK k \in Bufs : lru[k] = b
    OBVIOUS
  <2>2. DEFINE j == IF k = i THEN 1 ELSE IF k < i THEN k + 1 ELSE k
  <2>3. j \in Bufs /\ i \in Nat /\ k \in Nat /\ k >= 1
    BY SMT DEF Bufs
  <2>4. MovedToFront(i)[j] = IF j = 1 THEN lru[i] ELSE IF j <= i THEN lru[j - 1] ELSE lru[j]
    BY <2>3 DEF MovedToFront
  <2>6. i \in Nat /\ k \in Nat /\ (k < i => (k + 1) - 1 = k /\ k + 1 <= i /\ k + 1 # 1)
    BY <2>3, SMT
  <2>7. k > i => ~(k <= i) /\ k # 1
    BY <2>3, <2>6, SMT DEF Bufs
  <2>8. MovedToFront(i)[j] = b
    BY <2>1, <2>4, <2>6, <2>7, SMT
  <2>5. QED
    BY <2>3, <2>8
<1>4. QED
  BY <1>1, <1>2, <1>3, SMT

LEMMA brelseInd ==
  ASSUME IndInv, NEW p \in Procs, brelse(p)
  PROVE  IndInv'
<1> DEFINE b == buf[p]
<1>1. /\ pc[p] = "have" /\ chan[p] = NoBuf /\ b \in busy /\ b \in Bufs
      /\ busy' = busy \ {b} /\ buf' = [buf EXCEPT ![p] = NoBuf]
      /\ want' = [want EXCEPT ![p] = NoSector] /\ seen' = [seen EXCEPT ![p] = Zero]
      /\ pc' = [pc EXCEPT ![p] = "idle"]
      /\ chan' = [q \in Procs |-> IF chan[q] = b THEN NoBuf ELSE chan[q]]
      /\ UNCHANGED <<sector, valid, dirty, data, driver>>
  BY DEF brelse, Relse, wakeup, Runs, Goto, IndInv, TypeOK, OwnInv, Owns
<1>2. lru' \in [Bufs -> Bufs] /\ {lru'[j] : j \in Bufs} = Bufs
  <2>1. PICK i \in Bufs : lru' = MovedToFront(i)
    BY DEF brelse
  <2>2. lru \in [Bufs -> Bufs] /\ {lru[j] : j \in Bufs} = Bufs
    BY DEF IndInv, TypeOK
  <2>3. QED
    BY <2>1, <2>2, StillListed
<1>3. ASSUME NEW q \in Procs, Owns(q), q # p PROVE buf[q] # b
  BY <1>1, <1>3 DEF IndInv, OwnInv, Owns
<1>4. ~Queued(b) /\ b \notin dirty
  <2>1. b \notin dirty
    BY <1>1 DEF IndInv, FlagInv, Current
  <2>2. ASSUME NEW i \in 1..Len(idequeue), idequeue[i] = b PROVE FALSE
    <3>1. PICK q \in Procs : pc[q] = "iowait" /\ buf[q] = b
      BY <2>2 DEF IndInv, QueueInv
    <3>2. QED
      BY <1>1, <1>3, <3>1 DEF Owns
  <2>3. QED
    BY <2>1, <2>2 DEF Queued
<1> HIDE DEF b
<1> USE <1>1, Constants DEF IndInv, driver
<1>5. TypeOK'
  <2>1. idequeue' \in Seq(busy')
    <3>1. \A i \in 1..Len(idequeue) : idequeue[i] \in busy'
      BY <1>4, SMT DEF Queued, TypeOK
    <3>2. QED
      BY <3>1, SeqOver DEF TypeOK
  <2>2. QED
    BY <1>2, <1>4, <2>1 DEF TypeOK
<1>6. OwnInv'
  <2>1. \A c \in busy' : \E q \in Procs : Owns(q)' /\ buf'[q] = c
    BY DEF OwnInv, Owns, TypeOK, b
  <2>2. QED
    BY <1>3, <2>1, SMT DEF TypeOK, OwnInv, Owns
<1>7. SectorInv'
  BY DEF TypeOK, SectorInv
<1>8. FlagInv'
  BY SMT DEF TypeOK, FlagInv, Queued, Current
<1>9. QueueInv'
  BY QueueKept, SMT DEF TypeOK
<1>10. ChanInv'
  BY SMT DEF TypeOK, ChanInv, Queued
<1>11. QED
  BY <1>5, <1>6, <1>7, <1>8, <1>9, <1>10

LEMMA IoWaitInd ==
  ASSUME IndInv, NEW p \in Procs, IoWait(p)
  PROVE  IndInv'
<1>1. /\ pc[p] = "iowait" /\ chan[p] = NoBuf /\ buf[p] \in Bufs
      /\ UNCHANGED <<sector, flags, data, lru, driver, want, buf>>
  BY DEF IoWait, Runs, IndInv, TypeOK, OwnInv, Owns
<1>2. CASE Current(buf[p])
  <2>1. /\ pc' = [pc EXCEPT ![p] = "have"] /\ chan' = chan
        /\ seen' \in [Procs -> Values]
    BY <1>1, <1>2, SMT DEF IoWait, Goto, Current, IndInv, TypeOK
  <2> USE <1>1, <1>2, <2>1, Constants DEF IndInv, driver, flags
  <2>2. TypeOK'
    BY SMT DEF TypeOK
  <2>3. OwnInv' /\ SectorInv' /\ ChanInv'
    BY SMT DEF TypeOK, OwnInv, SectorInv, ChanInv, Owns, Queued
  <2>4. FlagInv'
    BY SMT DEF TypeOK, FlagInv, Queued, Current
  <2>5. QueueInv'
    <3>1. ASSUME NEW i \in 1..Len(idequeue)
          PROVE  \E q \in Procs : pc'[q] = "iowait" /\ buf[q] = idequeue[i]
      <4>1. PICK q \in Procs : pc[q] = "iowait" /\ buf[q] = idequeue[i]
        BY DEF QueueInv
      <4>2. q # p
        BY <4>1 DEF FlagInv, Queued
      <4>3. QED
        BY <4>1, <4>2 DEF TypeOK
    <3>2. QED
      BY <3>1, SMT DEF QueueInv
  <2>6. QED
    BY <2>2, <2>3, <2>4, <2>5
<1>3. CASE ~Current(buf[p])
  <2>1. chan' = [chan EXCEPT ![p] = buf[p]] /\ pc' = pc /\ seen' = seen
    BY <1>1, <1>3 DEF IoWait, Current
  <2> USE <1>1, <1>3, <2>1, Constants DEF IndInv, driver, flags
  <2>2. TypeOK'
    BY SMT DEF TypeOK
  <2>3. OwnInv' /\ SectorInv' /\ FlagInv' /\ QueueInv'
    BY QueueKept, SMT DEF TypeOK, OwnInv, SectorInv, FlagInv, Owns, Queued, Current
  <2>4. ChanInv'
    BY SMT DEF TypeOK, ChanInv, FlagInv, Queued
  <2>5. QED
    BY <2>2, <2>3, <2>4
<1>4. QED
  BY <1>2, <1>3

LEMMA DiskInd ==
  ASSUME IndInv, Disk
  PROVE  IndInv'
<1> USE Constants DEF IndInv, Disk, flags
<1>1. TypeOK'
  BY SMT DEF TypeOK
<1>2. OwnInv' /\ SectorInv' /\ FlagInv' /\ ChanInv'
  BY SMT DEF OwnInv, SectorInv, FlagInv, ChanInv, Owns, Queued, Current
<1>3. QueueInv'
  BY SMT DEF QueueInv
<1>4. QED
  BY <1>1, <1>2, <1>3

\* idestart writes a dirty buffer to its sector.
LEMMA idestartIs ==
  ASSUME IndInv, NEW b \in busy, idestart(b)
  PROVE  started' = b /\ done' = FALSE /\ disk' \in [Sectors -> Values]
BY DEF idestart, IndInv, TypeOK, SectorInv

LEMMA iderwInd ==
  ASSUME IndInv, NEW p \in Procs, iderw(p)
  PROVE  IndInv'
<1> DEFINE b == buf[p]
<1>1. /\ pc[p] = "iderw" /\ chan[p] = NoBuf /\ b \in busy /\ b \in Bufs
      /\ idequeue' = Append(idequeue, b) /\ idequeue \in Seq(busy)
      /\ chan' = [chan EXCEPT ![p] = b] /\ pc' = [pc EXCEPT ![p] = "iowait"]
      /\ UNCHANGED <<sector, flags, data, lru, want, buf, seen>>
  BY DEF iderw, Runs, Goto, IndInv, TypeOK, OwnInv, Owns
<1>2. /\ started' = IF idequeue = <<>> THEN b ELSE started
      /\ done' \in BOOLEAN /\ (done' => done /\ idequeue # <<>>)
      /\ disk' \in [Sectors -> Values]
  BY <1>1, idestartIs DEF iderw, IndInv, TypeOK
<1>3. /\ Len(idequeue) \in Nat /\ Len(idequeue') = Len(idequeue) + 1
      /\ idequeue' \in Seq(busy) /\ idequeue' # <<>>
      /\ \A i \in 1..Len(idequeue) : idequeue'[i] = idequeue[i]
      /\ idequeue'[Len(idequeue) + 1] = b
  BY <1>1, SMT
<1>4. ~Queued(b)
  <2>1. ASSUME NEW i \in 1..Len(idequeue), idequeue[i] = b PROVE FALSE
    <3>1. PICK q \in Procs : pc[q] = "iowait" /\ buf[q] = b
      BY <2>1 DEF IndInv, QueueInv
    <3>2. QED
      BY <1>1, <3>1 DEF IndInv, OwnInv, Owns
  <2>2. QED
    BY <2>1 DEF Queued
<1>5. \A c \in Bufs : Queued(c)' <=> Queued(c) \/ c = b
  BY <1>3, SMT DEF Queued
<1> HIDE DEF b
<1> USE <1>1, Constants DEF IndInv, flags
<1>6. TypeOK'
  BY <1>2, <1>3, SMT DEF TypeOK
<1>7. OwnInv' /\ SectorInv'
  BY SMT DEF TypeOK, OwnInv, SectorInv, Owns
<1>8. FlagInv'
  <2>1. ASSUME NEW q \in Procs, pc[q] = "iowait" PROVE buf[q] # b /\ buf[q] \in Bufs
    BY <2>1 DEF OwnInv, Owns, TypeOK, b
  <2>2. QED
    BY <1>5, <2>1, SMT DEF TypeOK, FlagInv, Current, b
<1>9. QueueInv'
  <2>1. ASSUME NEW i \in 1..Len(idequeue'), NEW j \in 1..Len(idequeue'),
               idequeue'[i] = idequeue'[j]
        PROVE  i = j
    BY <1>3, <1>4, <2>1, SMT DEF QueueInv, Queued
  <2>2. ASSUME NEW i \in 1..Len(idequeue')
        PROVE  \E q \in Procs : pc'[q] = "iowait" /\ buf'[q] = idequeue'[i]
    <3>1. CASE i = Len(idequeue) + 1
      BY <1>3, <3>1 DEF TypeOK, b
    <3>2. CASE i \in 1..Len(idequeue)
      <4>1. PICK q \in Procs : pc[q] = "iowait" /\ buf[q] = idequeue[i]
        BY <3>2 DEF QueueInv
      <4>2. QED
        BY <1>3, <3>2, <4>1 DEF TypeOK
    <3>3. QED
      BY <1>3, <3>1, <3>2, SMT
  <2>3. /\ started' = Head(idequeue') /\ (done' => started' # NoBuf)
    BY <1>2, <1>3, SMT DEF QueueInv
  <2>4. QED
    BY <1>3, <2>1, <2>2, <2>3 DEF QueueInv
<1>10. ChanInv'
  <2>1. ASSUME NEW q \in Procs, chan'[q] # NoBuf, q # p
        PROVE  \/ pc'[q] = "bget" /\ chan'[q] \in busy'
               \/ pc'[q] = "iowait" /\ chan'[q] = buf'[q] /\ Queued(buf[q])'
    <3>1. chan'[q] = chan[q] /\ pc'[q] = pc[q] /\ buf'[q] = buf[q]
      BY <2>1 DEF TypeOK
    <3>2. pc[q] = "iowait" => buf[q] \in Bufs
      BY DEF OwnInv, Owns, TypeOK
    <3>3. QED
      BY <1>5, <2>1, <3>1, <3>2, SMT DEF ChanInv
  <2>2. pc'[p] = "iowait" /\ chan'[p] = buf'[p] /\ Queued(buf[p])'
    BY <1>5 DEF b, TypeOK
  <2>3. QED
    BY <2>1, <2>2 DEF ChanInv
<1>11. QED
  BY <1>6, <1>7, <1>8, <1>9, <1>10

LEMMA ideintrInd ==
  ASSUME IndInv, ideintr
  PROVE  IndInv'
<1> DEFINE b == Head(idequeue)
<1>1. /\ done /\ idequeue # <<>> /\ started = b
      /\ idequeue \in Seq(busy) /\ Len(idequeue) \in Nat /\ Len(idequeue) > 0
      /\ b = idequeue[1] /\ b \in busy /\ b \in Bufs
  BY SMT DEF ideintr, IndInv, TypeOK, QueueInv
<1>2. /\ idequeue' = Tail(idequeue) /\ StartNext(Tail(idequeue))
      /\ valid' = valid \cup {b} /\ dirty' = dirty \ {b}
      /\ chan' = [q \in Procs |-> IF chan[q] = b THEN NoBuf ELSE chan[q]]
      /\ UNCHANGED <<sector, busy, lru, pc, want, buf, seen>>
  BY DEF ideintr, wakeup
<1>3. data' \in [Bufs -> Values]
  BY <1>1, SMT DEF ideintr, IndInv, TypeOK, SectorInv
<1>4. /\ idequeue' \in Seq(busy) /\ Len(idequeue') = Len(idequeue) - 1
      /\ \A i \in 1..Len(idequeue') : idequeue'[i] = idequeue[i + 1]
  BY <1>1, <1>2, SMT
<1>5. /\ started' = IF idequeue' = <<>> THEN NoBuf ELSE Head(idequeue')
      /\ done' = FALSE /\ disk' \in [Sectors -> Values]
  <2>1. CASE idequeue' = <<>>
    BY <1>2, <2>1 DEF StartNext, IndInv, TypeOK
  <2>2. CASE idequeue' # <<>>
    <3>1. Head(idequeue') \in busy /\ idestart(Head(idequeue'))
      BY <1>2, <1>4, <2>2, SMT DEF StartNext
    <3>2. QED
      BY <2>2, <3>1, idestartIs
  <2>3. QED
    BY <2>1, <2>2
<1>6. \A c \in Bufs : Queued(c)' <=> Queued(c) /\ c # b
  <2>1. ASSUME NEW i \in 1..Len(idequeue'), idequeue'[i] = b PROVE FALSE
    <3>1. i + 1 \in 1..Len(idequeue) /\ 1 \in 1..Len(idequeue) /\ i + 1 # 1
      BY <1>1, <1>4, SMT
    <3>2. idequeue[i + 1] = idequeue[1]
      BY <1>1, <1>4, <2>1
    <3>3. QED
      BY <3>1, <3>2 DEF IndInv, QueueInv
  <2>2. ASSUME NEW c \in Bufs, Queued(c), c # b PROVE Queued(c)'
    <3>1. PICK i \in 1..Len(idequeue) : idequeue[i] = c
      BY <2>2 DEF Queued
    <3>2. i - 1 \in 1..Len(idequeue') /\ idequeue'[i - 1] = c
      BY <1>1, <1>4, <2>2, <3>1, SMT
    <3>3. QED
      BY <3>2 DEF Queued
  <2>3. \A i \in 1..Len(idequeue') : i + 1 \in 1..Len(idequeue)
    BY <1>1, <1>4, SMT
  <2>4. QED
    BY <1>4, <2>1, <2>2, <2>3 DEF Queued
<1>7. Queued(b)
  BY <1>1, SMT DEF Queued
<1> HIDE DEF b
<1> USE <1>2, Constants DEF IndInv
<1>8. TypeOK'
  <2>1. chan' \in [Procs -> Bufs \cup {NoBuf}] /\ valid' \subseteq Bufs
    BY <1>1 DEF TypeOK
  <2>2. started' \in Bufs \cup {NoBuf} /\ idequeue' \in Seq(busy') /\ dirty' \subseteq busy'
    BY <1>4, <1>5, SMT DEF TypeOK
  <2>3. /\ sector' \in [Bufs -> Sectors \cup {NoSector}] /\ busy' \subseteq Bufs
        /\ lru' \in [Bufs -> Bufs] /\ {lru'[i] : i \in Bufs} = Bufs
        /\ pc' \in [Procs -> {"idle", "bget", "have", "iderw", "iowait"}]
        /\ want' \in [Procs -> Sectors \cup {NoSector}]
        /\ buf' \in [Procs -> Bufs \cup {NoBuf}] /\ seen' \in [Procs -> Values]
    BY SMT DEF TypeOK
  <2>4. QED
    BY <1>3, <1>5, <2>1, <2>2, <2>3 DEF TypeOK
<1>9. OwnInv' /\ SectorInv'
  BY <1>1 DEF TypeOK, OwnInv, SectorInv, Owns
<1>10. FlagInv'
  <2>1. ASSUME NEW q \in Procs, Owns(q) PROVE buf[q] \in Bufs
    BY <2>1 DEF OwnInv, TypeOK
  <2>2. ASSUME NEW q \in Procs, Owns(q), buf[q] = b PROVE pc[q] = "iowait"
    <3>1. PICK r \in Procs : pc[r] = "iowait" /\ buf[r] = b
      BY <1>7 DEF Queued, QueueInv
    <3>2. QED
      BY <2>2, <3>1, SMT DEF OwnInv, Owns
  <2>3. QED
    BY <1>6, <2>1, <2>2 DEF FlagInv, Current, Owns
<1>11. QueueInv'
  <2>1. \A i \in 1..Len(idequeue') : i + 1 \in 1..Len(idequeue)
    BY <1>1, <1>4, SMT
  <2>2. ASSUME NEW i \in 1..Len(idequeue')
        PROVE  \E q \in Procs : pc[q] = "iowait" /\ buf[q] = idequeue'[i]
    <3>1. i + 1 \in 1..Len(idequeue) /\ idequeue'[i] = idequeue[i + 1]
      BY <1>4, <2>1
    <3>2. \E q \in Procs : pc[q] = "iowait" /\ buf[q] = idequeue[i + 1]
      BY <3>1 DEF QueueInv
    <3>3. QED
      BY <3>1, <3>2
  <2>3. ASSUME NEW i \in 1..Len(idequeue'), NEW j \in 1..Len(idequeue'),
               idequeue'[i] = idequeue'[j]
        PROVE  i = j
    <3>1. i + 1 = j + 1
      BY <1>4, <2>1, <2>3, SMT DEF QueueInv
    <3>2. QED
      BY <3>1, SMT
  <2>4. QED
    BY <1>5, <2>2, <2>3 DEF QueueInv
<1>12. ChanInv'
  <2>1. ASSUME NEW q \in Procs, chan'[q] # NoBuf
        PROVE  \/ pc[q] = "bget" /\ chan'[q] \in busy
               \/ pc[q] = "iowait" /\ chan'[q] = buf[q] /\ Queued(buf[q])'
    <3>1. chan'[q] = chan[q] /\ chan[q] # b
      BY <2>1
    <3>2. pc[q] = "iowait" => buf[q] \in Bufs /\ chan[q] = buf[q]
      BY <2>1, <3>1 DEF OwnInv, Owns, TypeOK, ChanInv
    <3>3. QED
      BY <1>6, <2>1, <3>1, <3>2 DEF ChanInv
  <2>2. QED
    BY <2>1 DEF ChanInv
<1>13. QED
  BY <1>8, <1>9, <1>10, <1>11, <1>12

LEMMA NextInd == IndInv /\ [Next]_vars => IndInv'
<1> SUFFICES ASSUME IndInv, [Next]_vars PROVE IndInv'
  OBVIOUS
<1>1. ASSUME NEW p \in Procs, Continue(p) PROVE IndInv'
  BY <1>1, bgetHitInd, bgetSleepsInd, bgetFreshInd, iderwInd, IoWaitInd DEF Continue
<1>2. CASE UNCHANGED vars
  <2> USE <1>2 DEF vars, flags, driver, IndInv
  <2>1. TypeOK' /\ SectorInv'
    BY DEF TypeOK, SectorInv
  <2>2. OwnInv' /\ FlagInv'
    BY DEF OwnInv, FlagInv, Owns, Queued, Current
  <2>3. QueueInv'
    BY DEF QueueInv
  <2>4. ChanInv'
    BY DEF ChanInv, Current, Owns, Queued
  <2>5. QED
    BY <2>1, <2>2, <2>3, <2>4
<1>3. QED
  BY <1>1, <1>2, breadInd, bwriteInd, brelseInd, DiskInd, ideintrInd DEF Next

LEMMA Inductive == Spec => []IndInv
BY InitInd, NextInd, PTL DEF Spec

\* The disk always works on the head of the queue, nobody waits for a buffer
\* that is neither queued nor another's, and iderw does not panic.
THEOREM DiskKeepsWorking == Spec => []DiskAtWork
<1>1. IndInv => DiskAtWork
  <2> SUFFICES ASSUME IndInv PROVE DiskAtWork
    OBVIOUS
  <2>1. \A p \in Procs : pc[p] = "iderw" => buf[p] \in busy \ (valid \ dirty)
    BY DEF IndInv, OwnInv, FlagInv, Owns, Current
  <2>2. started = IF idequeue = <<>> THEN NoBuf ELSE Head(idequeue)
    BY DEF IndInv, QueueInv
  <2>3. ASSUME NEW p \in Procs, chan[p] # NoBuf
        PROVE  IF pc[p] = "iowait" THEN \E i \in DOMAIN idequeue : idequeue[i] = buf[p]
                                   ELSE chan[p] \in busy
    BY <2>3, SMT DEF IndInv, TypeOK, ChanInv, Queued
  <2>4. QED
    BY <2>1, <2>2, <2>3 DEF DiskAtWork
<1>2. QED
  BY <1>1, Inductive, PTL

-----------------------------------------------------------------------------
\* idestart writes a dirty buffer through and leaves the other sectors alone.
LEMMA StartedDisk ==
  ASSUME IndInv, NEW n \in busy, idestart(n), sector' = sector,
         n \in dirty' <=> n \in dirty, data'[n] = data[n], ~Current(n)',
         \A c \in Bufs : Current(c)' =>
                            data'[c] = disk[sector[c]] /\ sector[c] \in Sectors
  PROVE  DiskInv'
<1>1. n \in Bufs /\ sector[n] \in Sectors /\ started' = n
  BY DEF IndInv, TypeOK, SectorInv, idestart
<1>2. disk' = IF n \in dirty THEN [disk EXCEPT ![sector[n]] = data[n]] ELSE disk
  BY DEF idestart
<1>3. ASSUME NEW c \in Bufs, Current(c)' PROVE disk'[sector[c]] = disk[sector[c]]
  <2>1. c # n
    BY <1>3
  <2>2. sector[c] # sector[n] /\ sector[c] \in Sectors
    BY <1>1, <1>3, <2>1, Constants DEF IndInv, SectorInv
  <2>3. QED
    BY <1>1, <1>2, <2>2 DEF IndInv, TypeOK
<1>4. n \in dirty' => disk'[sector[n]] = data'[n]
  BY <1>1, <1>2 DEF IndInv, TypeOK
<1>5. QED
  BY <1>1, <1>3, <1>4 DEF DiskInv

LEMMA DiskStep ==
  ASSUME DiskErrors = FALSE, IndInv, DiskInv, [Next]_vars
  PROVE  DiskInv'
<1> USE Constants
<1>1. CASE UNCHANGED <<sector, valid, dirty, data, disk, started>>
  BY <1>1 DEF DiskInv, Current
<1>2. ASSUME NEW p \in Procs, bgetFresh(p) PROVE DiskInv'
  <2>1. PICK i \in Bufs :
          /\ lru[i] \in Reusable
          /\ sector' = [sector EXCEPT ![lru[i]] = want[p]]
          /\ valid' = valid \ {lru[i]} /\ dirty' = dirty \ {lru[i]}
          /\ UNCHANGED <<data, disk, started>>
    BY <1>2 DEF bgetFresh, Invalidated, driver
  <2>2. lru[i] \in Bufs
    BY DEF IndInv, TypeOK
  <2>3. QED
    BY <2>1, <2>2, SMT DEF DiskInv, Current, IndInv, TypeOK
<1>3. ASSUME NEW p \in Procs, NEW v \in Values, bwrite(p, v) PROVE DiskInv'
  <2>1. /\ pc[p] = "have" /\ buf[p] \in Bufs
        /\ data' = [data EXCEPT ![buf[p]] = v] /\ dirty' = dirty \cup {buf[p]}
        /\ UNCHANGED <<sector, valid, disk, started>>
    BY <1>3 DEF bwrite, Runs, driver, IndInv, TypeOK, OwnInv, Owns
  <2>2. buf[p] # started
    <3>1. CASE idequeue = <<>>
      BY <2>1, <3>1 DEF IndInv, QueueInv
    <3>2. CASE idequeue # <<>>
      <4>1. 1 \in 1..Len(idequeue) /\ started = idequeue[1]
        BY <3>2, SMT DEF IndInv, QueueInv, TypeOK
      <4>2. PICK q \in Procs : pc[q] = "iowait" /\ buf[q] = started
        BY <4>1, SMT DEF IndInv, QueueInv
      <4>3. QED
        BY <2>1, <4>2 DEF IndInv, OwnInv, Owns
    <3>3. QED
      BY <3>1, <3>2
  <2>3. QED
    BY <2>1, <2>2 DEF DiskInv, Current, IndInv, TypeOK
<1>4. ASSUME NEW p \in Procs, iderw(p) PROVE DiskInv'
  <2>1. /\ pc[p] = "iderw" /\ buf[p] \in busy
        /\ UNCHANGED <<sector, valid, dirty, data>>
    BY <1>4 DEF iderw, Runs, flags, IndInv, OwnInv, Owns
  <2>2. CASE idequeue = <<>>
    <3> PICK b \in busy : b = buf[p]
      BY <2>1
    <3>1. idestart(b)
      BY <1>4, <2>2 DEF iderw
    <3>2. ~Current(b)'
      BY <2>1 DEF IndInv, FlagInv, Current
    <3>3. \A c \in Bufs : Current(c)' => data'[c] = disk[sector[c]] /\ sector[c] \in Sectors
      BY <2>1 DEF Current, DiskInv, IndInv, SectorInv
    <3>4. QED
      BY <2>1, <3>1, <3>2, <3>3, StartedDisk
  <2>3. CASE idequeue # <<>>
    BY <1>1, <1>4, <2>1, <2>3 DEF iderw
  <2>4. QED
    BY <2>2, <2>3
<1>5. ASSUME ideintr PROVE DiskInv'
  <2> PICK b \in busy : b = Head(idequeue)
    BY <1>5, SMT DEF ideintr, IndInv, TypeOK, QueueInv
  <2>1. /\ done /\ idequeue # <<>> /\ started = b /\ b = idequeue[1] /\ b \in Bufs
        /\ Len(idequeue) \in Nat /\ sector[b] \in Sectors
    BY <1>5, SMT DEF ideintr, IndInv, TypeOK, QueueInv, SectorInv
  <2>2. /\ data' = IF b \in dirty THEN data ELSE [data EXCEPT ![b] = disk[sector[b]]]
        /\ valid' = valid \cup {b} /\ dirty' = dirty \ {b} /\ sector' = sector
        /\ StartNext(Tail(idequeue))
    BY <1>5 DEF ideintr
  <2>3. ASSUME NEW c \in Bufs, Current(c)'
        PROVE  data'[c] = disk[sector[c]] /\ sector[c] \in Sectors
    BY <2>1, <2>2, <2>3, SMT DEF Current, DiskInv, IndInv, TypeOK, SectorInv
  <2>4. CASE Tail(idequeue) = <<>>
    <3>1. started' = NoBuf /\ disk' = disk
      BY <2>2, <2>4 DEF StartNext
    <3>2. QED
      BY <2>2, <2>3, <3>1 DEF DiskInv
  <2>5. CASE Tail(idequeue) # <<>>
    <3>1. /\ Head(Tail(idequeue)) = idequeue[2] /\ 2 \in 1..Len(idequeue)
          /\ idequeue[2] \in busy /\ idequeue[2] # b
      BY <2>1, <2>5, SMT DEF IndInv, TypeOK, QueueInv
    <3> PICK n \in busy : n = idequeue[2]
      BY <3>1
    <3>2. idestart(n) /\ n \in Bufs /\ n # b
      BY <2>2, <2>5, <3>1 DEF StartNext, IndInv, TypeOK
    <3>3. ~Current(n)
      <4>1. PICK q \in Procs : pc[q] = "iowait" /\ buf[q] = n
        BY <3>1 DEF IndInv, QueueInv
      <4>2. QED
        BY <3>1, <4>1 DEF IndInv, FlagInv, Queued
    <3>4. data'[n] = data[n] /\ (n \in dirty' <=> n \in dirty) /\ ~Current(n)'
      BY <2>2, <3>2, <3>3 DEF Current, IndInv, TypeOK
    <3>5. QED
      BY <2>2, <2>3, <3>2, <3>4, StartedDisk
  <2>6. QED
    BY <2>4, <2>5
<1>6. ASSUME NEW p \in Procs, Continue(p) PROVE DiskInv'
  <2>1. bgetHit(p) \/ bgetSleeps(p) \/ IoWait(p) =>
          UNCHANGED <<sector, valid, dirty, data, disk, started>>
    BY DEF bgetHit, bgetSleeps, IoWait, driver, flags
  <2>2. QED
    BY <1>1, <1>2, <1>4, <1>6, <2>1 DEF Continue
<1>7. ASSUME NEW p \in Procs, brelse(p) \/ \E s \in Sectors : bread(p, s) PROVE DiskInv'
  BY <1>1, <1>7 DEF bread, brelse, driver, flags
<1>8. Disk \/ UNCHANGED vars => DiskInv'
  BY <1>1 DEF Disk, vars, driver, flags
<1>9. QED
  BY <1>3, <1>5, <1>6, <1>7, <1>8 DEF Next

-----------------------------------------------------------------------------
(***************************************************************************)
(* What bread, bwrite and brelse promise: the cache and the driver         *)
(* implement module BlockStore, and a buffer has one owner and a sector    *)
(* one buffer.  The first needs what the medium holds of each buffer       *)
(* (DiskInv), so that evicting a buffer that is not busy loses nothing.    *)
(***************************************************************************)

\* What the refinement mapping gives.
MapInv ==
  /\ Value = [s \in Sectors |-> Value[s]] /\ Holder = [s \in Sectors |-> Holder[s]]
  /\ \A b \in valid \cup dirty : Value[sector[b]] = data[b]
  /\ \A s \in Sectors : (\A b \in valid \cup dirty : sector[b] # s) => Value[s] = disk[s]
  /\ \A p \in Procs, s \in Sectors : Holds(p, s) => Holder[s] = p
  /\ \A s \in Sectors : (\A p \in Procs : ~Holds(p, s)) => Holder[s] = Nobody

\* One process holds a sector.
LEMMA OneHolds ==
  ASSUME IndInv, NEW p \in Procs, NEW q \in Procs, NEW s \in Sectors,
         Holds(p, s), Holds(q, s)
  PROVE  p = q
<1>1. Owns(p) /\ Owns(q) /\ sector[buf[p]] = s /\ sector[buf[q]] = s
  BY DEF Holds, Owns
<1>2. buf[p] \in Bufs /\ buf[q] \in Bufs
  BY <1>1 DEF IndInv, OwnInv, TypeOK
<1>3. buf[p] = buf[q]
  BY <1>1, <1>2, Constants DEF IndInv, SectorInv
<1>4. QED
  BY <1>1, <1>3 DEF IndInv, OwnInv

LEMMA MapIs == IndInv => MapInv
<1> SUFFICES ASSUME IndInv PROVE MapInv
  OBVIOUS
<1>1. Value = [s \in Sectors |-> Value[s]] /\ Holder = [s \in Sectors |-> Holder[s]]
  BY DEF Value, Holder
<1>2. ASSUME NEW b \in valid \cup dirty PROVE Value[sector[b]] = data[b]
  <2> DEFINE c == CHOOSE c \in valid \cup dirty : sector[c] = sector[b]
  <2>1. b \in Bufs /\ sector[b] \in Sectors
    BY DEF IndInv, TypeOK, SectorInv
  <2>2. c \in valid \cup dirty /\ sector[c] = sector[b]
    OBVIOUS
  <2>3. c \in Bufs
    BY <2>2 DEF IndInv, TypeOK
  <2>4. Value[sector[b]] = data[c]
    BY <2>1 DEF Value
  <2>5. c = b
    BY <2>1, <2>2, <2>3, Constants DEF IndInv, SectorInv
  <2>6. QED
    BY <2>4, <2>5
<1>3. \A s \in Sectors : (\A b \in valid \cup dirty : sector[b] # s) => Value[s] = disk[s]
  BY DEF Value
<1>4. ASSUME NEW p \in Procs, NEW s \in Sectors, Holds(p, s) PROVE Holder[s] = p
  <2> DEFINE q == CHOOSE q \in Procs : Holds(q, s)
  <2>1. q \in Procs /\ Holds(q, s)
    BY <1>4
  <2>2. Holder[s] = q
    BY <1>4 DEF Holder
  <2>3. QED
    BY <1>4, <2>1, <2>2, OneHolds
<1>5. \A s \in Sectors : (\A p \in Procs : ~Holds(p, s)) => Holder[s] = Nobody
  BY DEF Holder
<1>6. QED
  BY <1>1, <1>2, <1>3, <1>4, <1>5 DEF MapInv

LEMMA MapIsNext == IndInv' => MapInv'
BY MapIs, PTL

\* A step after which the same processes hold the same sectors leaves Holder.
LEMMA HolderKept ==
  ASSUME MapInv, MapInv', \A p \in Procs, s \in Sectors : Holds(p, s)' <=> Holds(p, s)
  PROVE  Holder' = Holder
<1>1. ASSUME NEW s \in Sectors PROVE Holder'[s] = Holder[s]
  <2>1. CASE \E p \in Procs : Holds(p, s)
    <3>1. PICK p \in Procs : Holds(p, s)
      BY <2>1
    <3>2. QED
      BY <3>1, SMT DEF MapInv
  <2>2. CASE \A p \in Procs : ~Holds(p, s)
    BY <2>2 DEF MapInv
  <2>3. QED
    BY <2>1, <2>2
<1>2. QED
  BY <1>1 DEF MapInv

\* bread returns to p with sector t.
LEMMA HolderTakes ==
  ASSUME MapInv, MapInv', NEW p \in Procs, NEW t \in Sectors, Holds(p, t)',
         \A q \in Procs, s \in Sectors : q # p \/ s # t => (Holds(q, s)' <=> Holds(q, s))
  PROVE  Holder' = [Holder EXCEPT ![t] = p]
<1>1. Holder'[t] = p
  BY DEF MapInv
<1>2. ASSUME NEW s \in Sectors, s # t PROVE Holder'[s] = Holder[s]
  <2>1. CASE \E q \in Procs : Holds(q, s)
    <3>1. PICK q \in Procs : Holds(q, s)
      BY <2>1
    <3>2. QED
      BY <1>2, <3>1, SMT DEF MapInv
  <2>2. CASE \A q \in Procs : ~Holds(q, s)
    BY <1>2, <2>2 DEF MapInv
  <2>3. QED
    BY <2>1, <2>2
<1>3. QED
  BY <1>1, <1>2, SMT DEF MapInv

\* p gives sector t up.
LEMMA HolderReleases ==
  ASSUME MapInv, MapInv', NEW p \in Procs, NEW t \in Sectors, Holds(p, t), ~Holds(p, t)',
         \A q \in Procs : Holds(q, t) => q = p,
         \A q \in Procs, s \in Sectors : q # p \/ s # t => (Holds(q, s)' <=> Holds(q, s))
  PROVE  Holder[t] = p /\ Holder' = [Holder EXCEPT ![t] = Nobody]
<1>1. Holder[t] = p /\ Holder'[t] = Nobody
  <2>1. \A q \in Procs : ~Holds(q, t)'
    OBVIOUS
  <2>2. QED
    BY <2>1 DEF MapInv
<1>2. ASSUME NEW s \in Sectors, s # t PROVE Holder'[s] = Holder[s]
  <2>1. CASE \E q \in Procs : Holds(q, s)
    <3>1. PICK q \in Procs : Holds(q, s)
      BY <2>1
    <3>2. QED
      BY <1>2, <3>1, SMT DEF MapInv
  <2>2. CASE \A q \in Procs : ~Holds(q, s)
    BY <1>2, <2>2 DEF MapInv
  <2>3. QED
    BY <2>1, <2>2
<1>3. QED
  BY <1>1, <1>2, SMT DEF MapInv

\* A step that leaves the buffers' contents alone, and the medium where no buffer
\* has the sector, leaves Value.
LEMMA ValueKept ==
  ASSUME MapInv, MapInv', UNCHANGED <<sector, data, valid, dirty>>,
         \A s \in Sectors :
           (\A b \in valid \cup dirty : sector[b] # s) => disk'[s] = disk[s]
  PROVE  Value' = Value
<1>1. ASSUME NEW s \in Sectors PROVE Value'[s] = Value[s]
  <2>1. CASE \E b \in valid \cup dirty : sector[b] = s
    <3>1. PICK b \in valid \cup dirty : sector[b] = s
      BY <2>1
    <3>2. Value[s] = data[b] /\ Value'[s] = data'[b]
      BY <3>1 DEF MapInv
    <3>3. QED
      BY <3>2
  <2>2. CASE \A b \in valid \cup dirty : sector[b] # s
    BY <2>2 DEF MapInv
  <2>3. QED
    BY <2>1, <2>2
<1>2. QED
  BY <1>1 DEF MapInv

\* The disk is started on a dirty buffer's own sector.
LEMMA StartKeeps ==
  ASSUME IndInv, NEW n \in busy, idestart(n), NEW s \in Sectors,
         n \in dirty => sector[n] # s
  PROVE  disk'[s] = disk[s]
BY DEF idestart, IndInv, TypeOK

LEMMA bgetHitStore ==
  ASSUME IndInv, MapInv, MapInv', NEW p \in Procs, bgetHit(p)
  PROVE  Store!Next \/ UNCHANGED <<Value, Holder, seen>>
<1> PICK b \in Cached(p) \ busy : Got(p, b) /\ UNCHANGED valid
  BY DEF bgetHit
<1>1. /\ b \in Bufs /\ sector[b] = want[p] /\ b \notin busy /\ pc[p] = "bget"
      /\ want[p] \in Sectors
      /\ UNCHANGED <<sector, valid, dirty, data, lru, driver, want, chan>>
  BY DEF bgetHit, Runs, Cached, IndInv, OwnInv
<1>2. /\ busy' = busy \cup {b} /\ buf' = [buf EXCEPT ![p] = b]
      /\ pc' = [pc EXCEPT ![p] = IF b \in valid THEN "have" ELSE "iderw"]
      /\ seen' = IF b \in valid THEN [seen EXCEPT ![p] = data[b]] ELSE seen
  BY DEF Got, Goto
<1>3. Value' = Value
  BY <1>1, ValueKept DEF driver
<1>4. ASSUME NEW q \in Procs, q # p, NEW s \in Sectors PROVE Holds(q, s)' <=> Holds(q, s)
  BY <1>1, <1>2, <1>4 DEF Holds, IndInv, TypeOK
<1>5. CASE b \notin valid
  <2>1. ASSUME NEW s \in Sectors PROVE ~Holds(p, s) /\ ~Holds(p, s)'
    BY <1>1, <1>2, <1>5, Constants DEF Holds, IndInv, TypeOK
  <2>2. QED
    BY <1>2, <1>3, <1>4, <1>5, <2>1, HolderKept
<1>6. CASE b \in valid
  <2> DEFINE s == want[p]
  <2>1. \A q \in Procs : ~Holds(q, s)
    BY <1>1, Constants, SMT DEF Holds, IndInv, OwnInv, SectorInv, Owns, TypeOK
  <2>2. Holder[s] = Nobody /\ Value[s] = data[b]
    BY <1>1, <1>6, <2>1, SMT DEF MapInv
  <2>3. PICK t \in Sectors : t = s
    BY <1>1
  <2>4. Holds(p, t)' /\ \A r \in Sectors \ {t} : ~Holds(p, r)' /\ ~Holds(p, r)
    BY <1>1, <1>2, <1>6, <2>3, Constants DEF Holds, IndInv, TypeOK
  <2>5. Holder' = [Holder EXCEPT ![t] = p]
    BY <1>4, <2>1, <2>3, <2>4, HolderTakes
  <2>6. QED
    BY <1>2, <1>3, <1>6, <2>2, <2>3, <2>5 DEF Store!Next, Store!Take
<1>7. QED
  BY <1>5, <1>6

LEMMA bgetFreshStore ==
  ASSUME IndInv, DiskInv, MapInv, MapInv', NEW p \in Procs, bgetFresh(p)
  PROVE  UNCHANGED <<Value, Holder, seen>>
<1> PICK i \in Bufs :
      /\ lru[i] \in Reusable
      /\ sector' = [sector EXCEPT ![lru[i]] = want[p]]
      /\ valid' = Invalidated(lru[i])
      /\ dirty' = dirty \ {lru[i]}
      /\ Got(p, lru[i])
  BY DEF bgetFresh
<1> PICK b : b = lru[i]
  OBVIOUS
<1>1. /\ b \in Bufs /\ b \notin busy /\ pc[p] = "bget"
      /\ want[p] \in Sectors /\ \A c \in Bufs : sector[c] # want[p]
      /\ UNCHANGED <<data, lru, driver, want, chan>>
  BY DEF bgetFresh, Runs, Cached, Reusable, IndInv, OwnInv
<1>2. /\ busy' = busy \cup {b} /\ buf' = [buf EXCEPT ![p] = b]
      /\ valid' = valid \ {b} /\ dirty' = dirty
      /\ pc' = [pc EXCEPT ![p] = "iderw"]
      /\ sector' = [sector EXCEPT ![b] = want[p]] /\ seen' = seen
      /\ b \notin dirty /\ disk' = disk
  BY <1>1, Constants, SMT DEF Got, Goto, Invalidated, IndInv, TypeOK, driver
<1>3. ASSUME NEW q \in Procs, NEW s \in Sectors PROVE Holds(q, s)' <=> Holds(q, s)
  <2>1. CASE q = p
    <3>1. pc'[p] = "iderw" /\ want'[p] # NoSector
      BY <1>1, <1>2, Constants, SMT DEF IndInv, TypeOK
    <3>2. QED
      BY <1>1, <2>1, <3>1 DEF Holds
  <2>2. CASE q # p
    <3>1. Owns(q) => buf[q] # b /\ buf[q] \in Bufs
      BY <1>1 DEF IndInv, OwnInv, TypeOK
    <3>2. pc'[q] = pc[q] /\ buf'[q] = buf[q] /\ want'[q] = want[q]
      BY <1>1, <1>2, <2>2, SMT DEF IndInv, TypeOK
    <3>3. Owns(q) => sector'[buf[q]] = sector[buf[q]]
      BY <1>2, <3>1, SMT DEF IndInv, TypeOK
    <3>4. QED
      BY <3>1, <3>2, <3>3 DEF Holds, Owns
  <2>3. QED
    BY <2>1, <2>2
<1>4. ASSUME NEW s \in Sectors PROVE Value'[s] = Value[s]
  <2>1. CASE \E c \in valid' \cup dirty' : sector'[c] = s
    <3>1. PICK c \in valid' \cup dirty' : sector'[c] = s
      BY <2>1
    <3>2. c \in valid \cup dirty /\ sector[c] = s /\ data'[c] = data[c]
      BY <1>1, <1>2, <3>1 DEF IndInv, TypeOK
    <3>3. Value[s] = data[c] /\ Value'[s] = data'[c]
      BY <3>1, <3>2 DEF MapInv
    <3>4. QED
      BY <3>2, <3>3
  <2>2. CASE \A c \in valid' \cup dirty' : sector'[c] # s
    <3>1. Value'[s] = disk[s]
      BY <1>2, <2>2 DEF MapInv
    <3>2. CASE b \in valid /\ sector[b] = s
      <4>1. Value[s] = data[b]
        BY <3>2 DEF MapInv
      <4>2. data[b] = disk[s]
        BY <1>1, <1>2, <3>2 DEF DiskInv, Current
      <4>3. QED
        BY <3>1, <4>1, <4>2
    <3>3. CASE ~(b \in valid /\ sector[b] = s)
      <4>1. ASSUME NEW c \in valid \cup dirty, c # b PROVE sector[c] # s
        <5>1. c \in valid' \cup dirty' /\ sector'[c] = sector[c]
          BY <1>1, <1>2, <4>1 DEF IndInv, TypeOK
        <5>2. QED
          BY <2>2, <5>1
      <4>3. \A c \in valid \cup dirty : sector[c] # s
        BY <1>2, <3>3, <4>1
      <4>2. QED
        BY <3>1, <4>3 DEF MapInv
    <3>4. QED
      BY <3>2, <3>3
  <2>3. QED
    BY <2>1, <2>2
<1>5. QED
  <2>1. Holder' = Holder /\ seen' = seen
    BY <1>2, <1>3, HolderKept
  <2>2. Value' = Value
    BY <1>4, SMT DEF MapInv
  <2>3. QED
    BY <2>1, <2>2

LEMMA bwriteStore ==
  ASSUME IndInv, MapInv, MapInv', NEW p \in Procs, NEW v \in Values, bwrite(p, v)
  PROVE  Store!Next
<1> PICK b : b = buf[p]
  OBVIOUS
<1>1. /\ pc[p] = "have" /\ b \in busy /\ b \in Bufs /\ sector[b] \in Sectors
      /\ data' = [data EXCEPT ![b] = v] /\ dirty' = dirty \cup {b}
      /\ want' = [want EXCEPT ![p] = NoSector] /\ pc' = [pc EXCEPT ![p] = "iderw"]
      /\ UNCHANGED <<sector, busy, valid, lru, driver, buf, chan, seen>>
      /\ b \in valid
  BY DEF bwrite, Runs, Goto, IndInv, TypeOK, OwnInv, SectorInv, FlagInv, Current, Owns
<1> PICK t \in Sectors : t = sector[b]
  BY <1>1
<1>2. Holder' = Holder
  <2>1. ASSUME NEW q \in Procs, NEW s \in Sectors PROVE Holds(q, s)' <=> Holds(q, s)
    BY <1>1 DEF Holds, IndInv, TypeOK
  <2>2. QED
    BY <2>1, HolderKept
<1>3. Holder[t] = p
  BY <1>1, Constants, SMT DEF MapInv, Holds
<1>4. Value'[t] = v
  BY <1>1 DEF MapInv, IndInv, TypeOK
<1>5. ASSUME NEW s \in Sectors, s # t PROVE Value'[s] = Value[s]
  <2>1. CASE \E c \in valid \cup dirty : sector[c] = s
    <3>1. PICK c \in valid \cup dirty : sector[c] = s
      BY <2>1
    <3>2. c # b /\ c \in Bufs
      BY <1>5, <3>1 DEF IndInv, TypeOK
    <3>3. Value[s] = data[c] /\ Value'[s] = data'[c] /\ data'[c] = data[c]
      BY <1>1, <3>1, <3>2, SMT DEF MapInv, IndInv, TypeOK
    <3>4. QED
      BY <3>3
  <2>2. CASE \A c \in valid \cup dirty : sector[c] # s
    BY <1>1, <1>5, <2>2, SMT DEF MapInv, driver
  <2>3. QED
    BY <2>1, <2>2
<1>6. Value' = [Value EXCEPT ![t] = v]
  BY <1>4, <1>5 DEF MapInv
<1>7. QED
  BY <1>1, <1>2, <1>3, <1>6 DEF Store!Next, Store!Write

LEMMA brelseStore ==
  ASSUME IndInv, MapInv, MapInv', NEW p \in Procs, brelse(p)
  PROVE  Store!Next
<1> PICK b : b = buf[p]
  OBVIOUS
<1>1. /\ pc[p] = "have" /\ b \in Bufs /\ sector[b] \in Sectors
      /\ buf' = [buf EXCEPT ![p] = NoBuf] /\ seen' = [seen EXCEPT ![p] = Zero]
      /\ want' = [want EXCEPT ![p] = NoSector] /\ pc' = [pc EXCEPT ![p] = "idle"]
      /\ UNCHANGED <<sector, valid, dirty, data, driver>>
  BY DEF brelse, Runs, Goto, IndInv, TypeOK, OwnInv, SectorInv, Owns
<1> PICK t \in Sectors : t = sector[b]
  BY <1>1
<1>2. Value' = Value
  BY <1>1, ValueKept DEF driver
<1>3. Holds(p, t) /\ \A s \in Sectors : ~Holds(p, s)' /\ (s # t => ~Holds(p, s))
  BY <1>1, Constants DEF Holds, IndInv, TypeOK
<1>4. ASSUME NEW q \in Procs, q # p, NEW s \in Sectors PROVE Holds(q, s)' <=> Holds(q, s)
  BY <1>1, <1>4 DEF Holds, IndInv, TypeOK
<1>5. \A q \in Procs : Holds(q, t) => q = p
  BY <1>3, OneHolds
<1>6. Holder[t] = p /\ Holder' = [Holder EXCEPT ![t] = Nobody]
  BY <1>3, <1>4, <1>5, HolderReleases, SMT
<1>7. QED
  BY <1>1, <1>2, <1>6 DEF Store!Next, Store!Release

LEMMA iderwStore ==
  ASSUME IndInv, MapInv, MapInv', NEW p \in Procs, iderw(p)
  PROVE  UNCHANGED <<Value, Holder, seen>>
<1>1. /\ pc[p] = "iderw" /\ buf[p] \in busy
      /\ pc' = [pc EXCEPT ![p] = "iowait"]
      /\ UNCHANGED <<sector, valid, dirty, data, want, buf, seen>>
  BY DEF iderw, Runs, Goto, flags, IndInv, OwnInv, Owns
<1>2. ASSUME NEW s \in Sectors, \A b \in valid \cup dirty : sector[b] # s
      PROVE  disk'[s] = disk[s]
  <2>1. CASE idequeue = <<>>
    <3>1. idestart(buf[p])
      BY <2>1 DEF iderw
    <3>2. QED
      BY <1>1, <1>2, <3>1 DEF idestart, IndInv, TypeOK
  <2>2. CASE idequeue # <<>>
    BY <2>2 DEF iderw
  <2>3. QED
    BY <2>1, <2>2
<1>3. Value' = Value
  BY <1>1, <1>2, ValueKept
<1>4. \A q \in Procs, s \in Sectors : Holds(q, s)' <=> Holds(q, s)
  BY <1>1 DEF Holds, IndInv, TypeOK
<1>5. QED
  BY <1>1, <1>3, <1>4, HolderKept

LEMMA IoWaitStore ==
  ASSUME IndInv, MapInv, MapInv', NEW p \in Procs, IoWait(p)
  PROVE  Store!Next \/ UNCHANGED <<Value, Holder, seen>>
<1> PICK b : b = buf[p]
  OBVIOUS
<1>1. /\ pc[p] = "iowait" /\ b \in Bufs /\ sector[b] \in Sectors
      /\ want[p] \in {sector[b], NoSector}
      /\ UNCHANGED <<sector, flags, data, lru, driver, want, buf>>
  BY DEF IoWait, Runs, IndInv, TypeOK, OwnInv, SectorInv, Owns
<1> PICK t \in Sectors : t = sector[b]
  BY <1>1
<1>2. Value' = Value
  BY <1>1, ValueKept DEF driver, flags
<1>3. CASE ~Current(b)
  <2>1. pc' = pc /\ seen' = seen
    BY <1>3 DEF IoWait, Current
  <2>2. \A q \in Procs, s \in Sectors : Holds(q, s)' <=> Holds(q, s)
    BY <1>1, <2>1 DEF Holds
  <2>3. QED
    BY <1>2, <2>1, <2>2, HolderKept
<1>4. CASE Current(b) /\ want[p] = NoSector
  <2>1. pc' = [pc EXCEPT ![p] = "have"] /\ seen' = seen
    BY <1>4 DEF IoWait, Goto, Current
  <2>2. \A q \in Procs, s \in Sectors : Holds(q, s)' <=> Holds(q, s)
    BY <1>1, <1>4, <2>1 DEF Holds, IndInv, TypeOK
  <2>3. QED
    BY <1>2, <2>1, <2>2, HolderKept
<1>5. CASE Current(b) /\ want[p] # NoSector
  <2>1. /\ pc' = [pc EXCEPT ![p] = "have"] /\ seen' = [seen EXCEPT ![p] = data[b]]
    BY <1>5 DEF IoWait, Goto, Current
  <2>2. /\ Holds(p, t)' /\ \A s \in Sectors : ~Holds(p, s) /\ (s # t => ~Holds(p, s)')
    BY <1>1, <1>5, <2>1, Constants DEF Holds, IndInv, TypeOK
  <2>3. ASSUME NEW q \in Procs, q # p, NEW s \in Sectors
        PROVE  Holds(q, s)' <=> Holds(q, s)
    BY <1>1, <2>1, <2>3 DEF Holds, IndInv, TypeOK
  <2>4. \A q \in Procs : ~Holds(q, t)
    <3>1. ASSUME NEW q \in Procs, Holds(q, t) PROVE FALSE
      <4>1. Owns(q) /\ Owns(p) /\ buf[q] \in Bufs /\ sector[buf[q]] = t
        BY <1>1, <3>1 DEF Holds, Owns, IndInv, OwnInv, TypeOK
      <4>2. buf[q] = b
        BY <1>1, <4>1, Constants DEF IndInv, SectorInv
      <4>3. q = p
        BY <4>1, <4>2 DEF IndInv, OwnInv
      <4>4. QED
        BY <2>2, <3>1, <4>3
    <3>2. QED
      BY <3>1
  <2>5. Holder' = [Holder EXCEPT ![t] = p]
    BY <2>2, <2>3, HolderTakes, SMT
  <2>6. Holder[t] = Nobody /\ Value[t] = data[b]
    <3>1. b \in valid \cup dirty
      BY <1>5 DEF Current
    <3>2. QED
      BY <2>4, <3>1 DEF MapInv
  <2>7. QED
    BY <1>2, <2>1, <2>5, <2>6 DEF Store!Next, Store!Take
<1>6. QED
  BY <1>3, <1>4, <1>5

LEMMA ideintrStore ==
  ASSUME DiskErrors = FALSE, IndInv, MapInv, MapInv', ideintr
  PROVE  UNCHANGED <<Value, Holder, seen>>
<1> PICK b \in busy : b = Head(idequeue)
  BY SMT DEF ideintr, IndInv, TypeOK, QueueInv
<1>1. /\ b = idequeue[1] /\ b \in Bufs /\ Len(idequeue) \in Nat /\ Len(idequeue) > 0
      /\ sector[b] \in Sectors
  BY SMT DEF ideintr, IndInv, TypeOK, QueueInv, SectorInv
<1>2. /\ data' = IF b \in dirty THEN data ELSE [data EXCEPT ![b] = disk[sector[b]]]
      /\ valid' = valid \cup {b} /\ dirty' = dirty \ {b}
      /\ UNCHANGED <<sector, pc, want, buf, seen>>
      /\ StartNext(Tail(idequeue))
  BY DEF ideintr
<1>3. b \in valid => b \in dirty
  <2>1. PICK q \in Procs : pc[q] = "iowait" /\ buf[q] = b
    BY <1>1, SMT DEF IndInv, QueueInv
  <2>2. QED
    BY <1>1, <2>1, SMT DEF IndInv, FlagInv, Queued, Current
<1>4. ASSUME NEW s \in Sectors, \A c \in dirty : sector[c] # s PROVE disk'[s] = disk[s]
  <2>1. CASE Tail(idequeue) = <<>>
    BY <1>2, <2>1 DEF StartNext
  <2>2. CASE Tail(idequeue) # <<>>
    <3>1. Head(Tail(idequeue)) \in busy
      BY <1>1, <2>2, SMT DEF IndInv, TypeOK
    <3>2. QED
      BY <1>2, <1>4, <2>2, <3>1, StartKeeps DEF StartNext
  <2>3. QED
    BY <2>1, <2>2
<1>5. ASSUME NEW s \in Sectors PROVE Value'[s] = Value[s]
  <2>1. CASE \E c \in valid \cup dirty : sector[c] = s
    <3>1. PICK c \in valid \cup dirty : sector[c] = s
      BY <2>1
    <3>2. c \in valid' \cup dirty' /\ data'[c] = data[c] /\ c \in Bufs
      BY <1>1, <1>2, <1>3, <3>1 DEF IndInv, TypeOK
    <3>3. Value[s] = data[c] /\ Value'[s] = data'[c]
      BY <1>2, <3>1, <3>2 DEF MapInv
    <3>4. QED
      BY <3>2, <3>3
  <2>2. CASE (\A c \in valid \cup dirty : sector[c] # s) /\ sector[b] = s
    <3>1. b \notin dirty /\ data'[b] = disk[s]
      BY <1>1, <1>2, <2>2 DEF IndInv, TypeOK
    <3>2. Value[s] = disk[s] /\ Value'[s] = data'[b]
      BY <1>2, <2>2, SMT DEF MapInv
    <3>3. QED
      BY <3>1, <3>2
  <2>3. CASE (\A c \in valid \cup dirty : sector[c] # s) /\ sector[b] # s
    <3>1. \A c \in valid' \cup dirty' : sector'[c] # s
      BY <1>2, <2>3
    <3>2. disk'[s] = disk[s]
      BY <1>4, <2>3
    <3>3. QED
      BY <2>3, <3>1, <3>2 DEF MapInv
  <2>4. QED
    BY <2>1, <2>2, <2>3
<1>6. \A q \in Procs, s \in Sectors : Holds(q, s)' <=> Holds(q, s)
  BY <1>2 DEF Holds
<1>7. QED
  BY <1>2, <1>5, <1>6, HolderKept DEF MapInv

\* Every other step touches neither the contents nor those who hold sectors.
LEMMA OtherStore ==
  ASSUME IndInv, MapInv, MapInv', UNCHANGED <<sector, valid, dirty, data, disk, seen>>,
         \A q \in Procs : \/ UNCHANGED <<pc[q], want[q], buf[q]>>
                          \/ ~Owns(q) /\ ~Owns(q)'
  PROVE  UNCHANGED <<Value, Holder, seen>>
<1>1. Value' = Value
  BY ValueKept
<1>2. ASSUME NEW q \in Procs, NEW s \in Sectors PROVE Holds(q, s)' <=> Holds(q, s)
  BY DEF Holds, Owns
<1>3. QED
  BY <1>1, <1>2, HolderKept

LEMMA StepStore ==
  ASSUME DiskErrors = FALSE, IndInv, IndInv', DiskInv, [Next]_vars
  PROVE  [Store!Next]_<<Value, Holder, seen>>
<1> MapInv /\ MapInv'
  BY MapIs, MapIsNext
<1>1. ASSUME NEW p \in Procs, NEW s \in Sectors, bread(p, s)
      PROVE  UNCHANGED <<Value, Holder, seen>>
  BY <1>1, OtherStore DEF bread, Runs, Goto, driver, flags, Owns, IndInv, TypeOK
<1>2. ASSUME NEW p \in Procs, bgetSleeps(p) PROVE UNCHANGED <<Value, Holder, seen>>
  BY <1>2, OtherStore DEF bgetSleeps, Runs, driver, flags, Owns, IndInv, TypeOK
<1>3. ASSUME Disk \/ UNCHANGED vars PROVE UNCHANGED <<Value, Holder, seen>>
  BY <1>3, OtherStore DEF Disk, vars, driver, flags
<1>4. ASSUME NEW p \in Procs, Continue(p) PROVE [Store!Next]_<<Value, Holder, seen>>
  BY <1>2, <1>4, bgetHitStore, bgetFreshStore, iderwStore, IoWaitStore DEF Continue
<1>5. QED
  BY <1>1, <1>3, <1>4, bwriteStore, brelseStore, ideintrStore DEF Next

\* Without read errors the cache, the queue and the interrupt handler implement
\* the store of module BlockStore: bread returns what was last written to the
\* sector, whichever buffers were evicted in between, and to one process at a
\* time.
THEOREM CacheIsStore ==
  ASSUME DiskErrors = FALSE
  PROVE  Spec => IsBlockStore
<1>1. Init => Store!Init
  <2> SUFFICES ASSUME Init PROVE Store!Init
    OBVIOUS
  <2>1. MapInv
    BY InitInd, MapIs
  <2>2. \A s \in Sectors : Value[s] = Zero /\ Holder[s] = Nobody
    BY <2>1, Constants DEF Init, MapInv, Holds
  <2>3. Value = [s \in Sectors |-> Zero] /\ Holder = [s \in Sectors |-> Nobody]
    BY <2>1, <2>2 DEF MapInv
  <2>4. QED
    BY <2>3 DEF Init, Store!Init
<1>2. IndInv /\ IndInv' /\ DiskInv /\ [Next]_vars => [Store!Next]_Store!storeVars
  BY StepStore DEF Store!storeVars
<1>3. IndInv /\ DiskInv /\ [Next]_vars => DiskInv'
  BY DiskStep
<1>4. Spec => []DiskInv
  BY <1>3, Inductive, InitInd, PTL DEF Spec
<1>5. QED
  BY <1>1, <1>2, <1>4, Inductive, PTL DEF Spec, IsBlockStore, Store!Spec

-----------------------------------------------------------------------------
\* A busy buffer has one owner.
LEMMA OwnersAre ==
  ASSUME IndInv
  PROVE  \A b \in Bufs : IF b \in busy THEN \E p \in Procs : Owners(b) = {p}
                                      ELSE Owners(b) = {}
<1>1. ASSUME NEW b \in Bufs, b \in busy PROVE \E p \in Procs : Owners(b) = {p}
  <2>1. PICK p \in Procs : Owns(p) /\ buf[p] = b
    BY <1>1 DEF IndInv, OwnInv
  <2>2. Owners(b) = {p}
    BY <2>1, SMT DEF Owners, Owns, IndInv, OwnInv
  <2>3. QED
    BY <2>2
<1>2. ASSUME NEW b \in Bufs, b \notin busy PROVE Owners(b) = {}
  BY <1>2, SMT DEF Owners, Owns, IndInv, OwnInv
<1>3. QED
  BY <1>1, <1>2

\* Of NBUF buffers, fewer are busy than there are processes when one of them
\* has none.
LEMMA BufferLeft ==
  ASSUME IndInv, Cardinality(Procs) <= NBUF,
         NEW p \in Procs, pc[p] = "bget"
  PROVE  Bufs \ busy # {}
<1> SUFFICES ASSUME busy = Bufs PROVE FALSE
  BY DEF IndInv, TypeOK
<1> DEFINE owner == [b \in Bufs |-> CHOOSE q \in Procs : Owns(q) /\ buf[q] = b]
<1>1. ASSUME NEW b \in Bufs
      PROVE  owner[b] \in Procs /\ Owns(owner[b]) /\ buf[owner[b]] = b
  BY DEF IndInv, OwnInv
<1>2. owner \in [Bufs -> Procs \ {p}]
  BY <1>1 DEF Owns
<1>3. \A b, c \in Bufs : owner[b] = owner[c] => b = c
  BY <1>1, SMT
<1> HIDE DEF owner
<1>4. IsFiniteSet(Procs \ {p}) /\ Cardinality(Procs \ {p}) = Cardinality(Procs) - 1
  BY BcacheConstants, FS_RemoveElement
<1>5. IsFiniteSet(Bufs) /\ Cardinality(Bufs) = NBUF /\ Cardinality(Procs) \in Nat
  BY BcacheConstants, Constants, FS_Interval, FS_CardinalityType, SMT DEF Bufs
<1>6. Cardinality(Procs \ {p}) < Cardinality(Bufs)
  BY <1>4, <1>5, Constants, SMT
<1>7. QED
  BY <1>2, <1>3, <1>4, <1>5, <1>6, FS_PigeonHole, SMT

\* bget keeps its promises across its sleep: one buffer for a sector, one owner
\* for a busy buffer, who asked for its sector, and, with as many buffers as
\* there are processes, always a buffer to reuse.
THEOREM BuffersExclusive == Spec => []OneBufferPerSector
<1>1. IndInv => OneBufferPerSector
  <2> SUFFICES ASSUME IndInv PROVE OneBufferPerSector
    OBVIOUS
  <2>1. \A b \in Bufs, p \in Procs :
          p \in Owners(b) => want[p] \in {sector[b], NoSector}
    BY DEF Owners, Owns, IndInv, OwnInv
  <2>2. QED
    BY <2>1, OwnersAre, BufferLeft DEF OneBufferPerSector, IndInv, SectorInv
<1>2. QED
  BY <1>1, Inductive, PTL
=============================================================================
