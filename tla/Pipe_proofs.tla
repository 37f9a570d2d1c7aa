---------------------------- MODULE Pipe_proofs -----------------------------
(***************************************************************************)
(* The pipe, for every PIPESIZE, every Word that is a multiple of it, and  *)
(* any readers and writers: who sleeps in it, when its page is freed, and  *)
(* that its ring implements the queue of module Fifo.                      *)
(*                                                                         *)
(* First the arithmetic of the ring: counters that wrap around keep their  *)
(* distance and their order, the test for a full pipe is exact, and the    *)
(* bytes between the counters lie in different slots.                      *)
(*                                                                         *)
(* SleepersJustified does not survive a step by itself: closing an end     *)
(* must not leave a sleeper behind on the other (CloseInv: the flags       *)
(* follow the references), and a read that returns without waiting must    *)
(* have found what it asked for (CallInv).                                 *)
(*                                                                         *)
(* Then the queue: what WriteSome copies is appended to the bytes between  *)
(* the counters, what ReadSome copies is their head, and no other step     *)
(* changes them.                                                           *)
(***************************************************************************)
EXTENDS Pipe, SequenceTheorems, TLAPS

USE ZenonT(30), SMT

\* How far the counter w is ahead of the counter r.
Gap(r, w) == (w + Word - r) % Word

\* What the proofs use of the sizes.
LEMMA Constants ==
  /\ Word \in Nat /\ PIPESIZE \in Nat /\ MaxRead \in Nat
  /\ Word > 0 /\ PIPESIZE > 0 /\ MaxRead > 0 /\ Word > PIPESIZE
BY PipeConstants, SMT

\* A number below the modulus is its own remainder.
LEMMA ModSmall ==
  ASSUME NEW W \in Nat, W > 0, NEW x \in 0..W - 1
  PROVE  x % W = x
BY SMT

\* Past the modulus, the remainder starts again at 0.
LEMMA ModOnce ==
  ASSUME NEW W \in Nat, W > 0, NEW x \in W..2 * W - 1
  PROVE  x % W = x - W
BY SMT

\* The remainder of a number below twice the modulus.
LEMMA Mod ==
  ASSUME NEW x \in Nat, x < 2 * Word
  PROVE  x % Word = IF x < Word THEN x ELSE x - Word
<1>1. CASE x < Word
  BY <1>1, Constants, ModSmall, SMT
<1>2. CASE x >= Word
  <2>1. x \in Word..2 * Word - 1
    BY <1>2, Constants, SMT
  <2>2. QED
    BY <1>2, <2>1, Constants, ModOnce, SMT
<1>3. QED
  BY <1>1, <1>2, Constants, SMT

\* The distance of two counters, with and without a wrap between them.
LEMMA GapIs ==
  ASSUME NEW r \in 0..Word - 1, NEW w \in 0..Word - 1
  PROVE  Gap(r, w) = IF w >= r THEN w - r ELSE w + Word - r
<1>1. w + Word - r \in Nat /\ w + Word - r < 2 * Word
  BY Constants, SMT
<1>2. (w + Word - r) % Word = IF w + Word - r < Word THEN w + Word - r ELSE w - r
  BY <1>1, Constants, Mod, SMT
<1>3. QED
  BY <1>2, Constants, SMT DEF Gap

\* The counter k steps on.
LEMMA Step ==
  ASSUME NEW n \in 0..Word - 1, NEW k \in 0..PIPESIZE
  PROVE  /\ (n + k) % Word = IF n + k < Word THEN n + k ELSE n + k - Word
         /\ (n + k) % Word \in 0..Word - 1
<1>1. n + k \in Nat /\ n + k < 2 * Word
  BY Constants, SMT
<1>2. (n + k) % Word = IF n + k < Word THEN n + k ELSE n + k - Word
  BY <1>1, Mod, Constants, SMT
<1>3. QED
  BY <1>1, <1>2, Constants, SMT

\* Writing k bytes that fit takes nwrite k further from nread.
LEMMA GapWrite ==
  ASSUME NEW r \in 0..Word - 1, NEW w \in 0..Word - 1, NEW k \in Nat,
         Gap(r, w) + k <= PIPESIZE
  PROVE  Gap(r, (w + k) % Word) = Gap(r, w) + k
<1>1. Gap(r, w) = IF w >= r THEN w - r ELSE w + Word - r
  BY GapIs
<1>2. k \in 0..PIPESIZE
  BY <1>1, Constants, SMT
<1>3. /\ (w + k) % Word = IF w + k < Word THEN w + k ELSE w + k - Word
      /\ (w + k) % Word \in 0..Word - 1
  BY <1>2, Step
<1>4. Gap(r, (w + k) % Word) = IF (w + k) % Word >= r THEN ((w + k) % Word) - r
                               ELSE ((w + k) % Word) + Word - r
  BY <1>3, GapIs
<1> HIDE DEF Gap
<1>5. QED
  BY <1>1, <1>2, <1>3, <1>4, Constants, SMT

\* Reading k of the bytes there are brings nread k closer to nwrite.
LEMMA GapRead ==
  ASSUME NEW r \in 0..Word - 1, NEW w \in 0..Word - 1, NEW k \in Nat,
         k <= Gap(r, w), Gap(r, w) <= PIPESIZE
  PROVE  Gap((r + k) % Word, w) = Gap(r, w) - k
<1>1. Gap(r, w) = IF w >= r THEN w - r ELSE w + Word - r
  BY GapIs
<1>2. k \in 0..PIPESIZE
  BY <1>1, Constants, SMT
<1>3. /\ (r + k) % Word = IF r + k < Word THEN r + k ELSE r + k - Word
      /\ (r + k) % Word \in 0..Word - 1
  BY <1>2, Step
<1>4. Gap((r + k) % Word, w) = IF w >= (r + k) % Word THEN w - ((r + k) % Word)
                               ELSE w + Word - ((r + k) % Word)
  BY <1>3, GapIs
<1>5. QED
  BY <1>1, <1>2, <1>3, <1>4, Constants, SMT

\* The test for a full pipe, j bytes on, finds it full exactly when it is.
LEMMA FullIff ==
  ASSUME NEW r \in 0..Word - 1, NEW w \in 0..Word - 1, NEW j \in Nat,
         Gap(r, w) + j <= PIPESIZE
  PROVE  (w + j) % Word = (r + PIPESIZE) % Word <=> Gap(r, w) + j = PIPESIZE
<1>1. Gap(r, w) = IF w >= r THEN w - r ELSE w + Word - r
  BY GapIs
<1>2. j \in 0..PIPESIZE /\ PIPESIZE \in 0..PIPESIZE
  BY <1>1, Constants, SMT
<1>3. (w + j) % Word = IF w + j < Word THEN w + j ELSE w + j - Word
  BY <1>2, Step
<1>4. (r + PIPESIZE) % Word =
        IF r + PIPESIZE < Word THEN r + PIPESIZE ELSE r + PIPESIZE - Word
  BY <1>2, Step
<1>5. QED
  BY <1>1, <1>2, <1>3, <1>4, Constants, SMT

\* A positive multiple of a number is no less than the number.
LEMMA NoMultiple ==
  ASSUME NEW P \in Nat, P > 0, NEW c \in Int, 0 < P * c
  PROVE  P <= P * c
<1>1. CASE c <= 0
  BY <1>1, SMT
<1>2. CASE c >= 1
  BY <1>2, SMT
<1>3. QED
  BY <1>1, <1>2, SMT

\* Division with remainder.
LEMMA ModDiv ==
  ASSUME NEW P \in Nat, P > 0, NEW x \in Nat
  PROVE  x \div P \in Nat /\ x % P \in 0..P - 1 /\ x = P * (x \div P) + (x % P)
BY SMT

\* Numbers less than a buffer apart, whole buffers aside, go to different slots.
LEMMA Apart ==
  ASSUME NEW u \in Nat, NEW v \in Nat, NEW d \in 1..PIPESIZE - 1,
         v = u + d \/ v = u + d - Word
  PROVE  u % PIPESIZE # v % PIPESIZE
<1> SUFFICES ASSUME u % PIPESIZE = v % PIPESIZE PROVE FALSE
  OBVIOUS
<1> DEFINE a == u \div PIPESIZE
           b == v \div PIPESIZE
           m == Word \div PIPESIZE
<1>1. /\ a \in Nat /\ u % PIPESIZE \in Nat /\ u = PIPESIZE * a + (u % PIPESIZE)
      /\ b \in Nat /\ v = PIPESIZE * b + (v % PIPESIZE)
  BY Constants, ModDiv, SMT
<1>2. m \in Nat /\ Word = PIPESIZE * m
  BY Constants, PipeConstants, ModDiv, SMT
<1> HIDE DEF a, b, m
<1>3. CASE v = u + d
  <2>1. b - a \in Int /\ d = PIPESIZE * (b - a)
    BY <1>1, <1>3, Constants, SMT
  <2>2. QED
    BY <2>1, Constants, NoMultiple, SMT
<1>4. CASE v = u + d - Word
  <2>1. b - a + m \in Int /\ d = PIPESIZE * (b - a + m)
    BY <1>1, <1>2, <1>4, Constants, SMT
  <2> DEFINE c == b - a + m
  <2>2. c \in Int /\ d = PIPESIZE * c
    BY <2>1
  <2> HIDE DEF c
  <2>3. QED
    BY <2>2, Constants, NoMultiple, SMT
<1>5. QED
  BY <1>3, <1>4

\* A slot is an index of data.
LEMMA SlotIn ==
  ASSUME NEW n \in 0..Word - 1, NEW j \in 1..PIPESIZE
  PROVE  Slot(n, j) \in 0..PIPESIZE - 1
<1>1. n + j - 1 \in Nat /\ n + j - 1 < 2 * Word
  BY Constants, SMT
<1>2. (n + j - 1) % Word \in Nat
  BY <1>1, Mod, Constants, SMT
<1>3. QED
  BY <1>2, ModDiv, Constants DEF Slot

\* Two of the PIPESIZE bytes from a counter value on never share a slot.
LEMMA SlotsDiffer ==
  ASSUME NEW n \in 0..Word - 1, NEW i \in 1..PIPESIZE, NEW j \in 1..PIPESIZE, i < j
  PROVE  Slot(n, i) # Slot(n, j)
<1> DEFINE u == (n + i - 1) % Word
           v == (n + j - 1) % Word
<1>1. /\ n + i - 1 \in Nat /\ n + i - 1 < 2 * Word
      /\ n + j - 1 \in Nat /\ n + j - 1 < 2 * Word
  BY Constants, SMT
<1>2. u = IF n + i - 1 < Word THEN n + i - 1 ELSE n + i - 1 - Word
  BY <1>1, Mod, Constants, SMT
<1>3. v = IF n + j - 1 < Word THEN n + j - 1 ELSE n + j - 1 - Word
  BY <1>1, Mod, Constants, SMT
<1> HIDE DEF u, v
<1>4. u \in Nat /\ v \in Nat /\ j - i \in 1..PIPESIZE - 1
  BY <1>2, <1>3, Constants, SMT
<1>5. v = u + (j - i) \/ v = u + (j - i) - Word
  BY <1>2, <1>3, Constants, SMT
<1>6. u % PIPESIZE # v % PIPESIZE
  BY <1>4, <1>5, Apart
<1>7. QED
  BY <1>6 DEF Slot, u, v

\* Counting on from a counter that has wrapped finds the same slots.
LEMMA SlotShift ==
  ASSUME NEW n \in 0..Word - 1, NEW i \in 0..PIPESIZE, NEW j \in 1..PIPESIZE,
         i + j <= PIPESIZE
  PROVE  Slot((n + i) % Word, j) = Slot(n, i + j)
<1>1. (n + i) % Word = IF n + i < Word THEN n + i ELSE n + i - Word
  BY Step
<1>2. (n + i) % Word \in Nat
  BY <1>1, Constants, SMT
<1>3. ((n + i) % Word) + j - 1 \in Nat /\ ((n + i) % Word) + j - 1 < 2 * Word
  BY <1>1, Constants, SMT
<1>4. n + (i + j) - 1 \in Nat /\ n + (i + j) - 1 < 2 * Word
  BY Constants, SMT
<1>5. (((n + i) % Word) + j - 1) % Word = (n + (i + j) - 1) % Word
  BY <1>1, <1>3, <1>4, Mod, Constants, SMT
<1>6. QED
  BY <1>5 DEF Slot

-----------------------------------------------------------------------------
\* What Min returns is the least element.
LEMMA LeastIs ==
  ASSUME NEW S \in SUBSET Nat, NEW m \in S, \A y \in S : m <= y
  PROVE  Min(S) = m
<1>1. Min(S) \in S /\ \A y \in S : Min(S) <= y
  BY DEF Min
<1>2. Min(S) \in Nat /\ m \in Nat /\ Min(S) <= m /\ m <= Min(S)
  BY <1>1
<1>3. QED
  BY <1>2, SMT

\* How many of its n bytes a writer copies before it returns or sleeps.
Copied(n) == Min({n} \cup {j \in 0..n : Full((nwrite + j) % Word)})

\* The loop of pipewrite copies all n bytes or as many as fit, no more.
LEMMA CopiedIs ==
  ASSUME TypeOK, NEW n \in Nat
  PROVE  /\ Copied(n) = IF n <= PIPESIZE - InPipe THEN n ELSE PIPESIZE - InPipe
         /\ InPipe = Gap(nread, nwrite) /\ InPipe \in 0..PIPESIZE
         /\ Copied(n) \in Nat /\ InPipe + Copied(n) <= PIPESIZE
<1> DEFINE S == {n} \cup {j \in 0..n : Full((nwrite + j) % Word)}
           m == IF n <= PIPESIZE - InPipe THEN n ELSE PIPESIZE - InPipe
<1>1. nread \in 0..Word - 1 /\ nwrite \in 0..Word - 1 /\ InPipe <= PIPESIZE
  BY DEF TypeOK
<1>2. InPipe = Gap(nread, nwrite)
  BY DEF InPipe, Gap
<1>3. InPipe \in 0..PIPESIZE
  BY <1>1, <1>2, GapIs, Constants, SMT
<1>4. \A j \in Nat : InPipe + j <= PIPESIZE =>
                       (Full((nwrite + j) % Word) <=> InPipe + j = PIPESIZE)
  BY <1>1, <1>2, FullIff DEF Full
<1> HIDE DEF InPipe, Full
<1>5. m \in S
  <2>1. CASE n <= PIPESIZE - InPipe
    BY <2>1
  <2>2. CASE n > PIPESIZE - InPipe
    <3>1. m = PIPESIZE - InPipe /\ m \in 0..n /\ m \in Nat /\ InPipe + m = PIPESIZE
      BY <1>3, <2>2, Constants, SMT
    <3>2. Full((nwrite + m) % Word)
      BY <1>4, <3>1, Constants, SMT
    <3>3. QED
      BY <3>1, <3>2
  <2>3. QED
    BY <1>3, <2>1, <2>2, Constants, SMT
<1>6. ASSUME NEW y \in S PROVE m <= y
  <2>1. y \in Nat /\ m \in Nat
    BY <1>3, Constants, SMT
  <2>2. CASE y = n
    BY <1>3, <2>2, Constants, SMT
  <2>3. CASE y # n /\ y < m
    <3>1. Full((nwrite + y) % Word) /\ y <= n
      BY <2>3, SMT
    <3>2. InPipe + y < PIPESIZE
      BY <1>3, <2>1, <2>3, Constants, SMT
    <3>3. QED
      BY <1>3, <1>4, <2>1, <3>1, <3>2, Constants, SMT
  <2>4. QED
    BY <2>1, <2>2, <2>3, SMT
<1>7. S \in SUBSET Nat
  BY SMT
<1>8. Min(S) = m
  BY <1>5, <1>6, <1>7, LeastIs
<1>9. m \in Nat /\ InPipe + m <= PIPESIZE
  BY <1>3, Constants, SMT
<1>10. QED
  BY <1>2, <1>3, <1>8, <1>9 DEF Copied

\* nwrite is nread and the number of bytes in the pipe, wrapped.
LEMMA WriteAt ==
  ASSUME TypeOK
  PROVE  (nread + InPipe) % Word = nwrite
<1>1. nread \in 0..Word - 1 /\ nwrite \in 0..Word - 1 /\ InPipe <= PIPESIZE
  BY DEF TypeOK
<1>2. InPipe = IF nwrite >= nread THEN nwrite - nread ELSE nwrite + Word - nread
  BY <1>1, GapIs DEF InPipe, Gap
<1> HIDE DEF InPipe
<1>3. InPipe \in 0..PIPESIZE
  BY <1>1, <1>2, Constants, SMT
<1>4. (nread + InPipe) % Word =
        IF nread + InPipe < Word THEN nread + InPipe ELSE nread + InPipe - Word
  BY <1>1, <1>3, Step
<1>5. QED
  BY <1>1, <1>2, <1>4, Constants, SMT

-----------------------------------------------------------------------------
\* The buffer after the first k bytes of s were copied into it.
Stored(s, k) ==
  [i \in 0..PIPESIZE - 1 |->
     LET at == {j \in 1..k : Slot(nwrite, j) = i}
     IN  IF at = {} THEN data[i] ELSE s[Max(at)]]

\* pipewrite's copies land in its own slots and leave the unread bytes alone.
LEMMA StoredIs ==
  ASSUME TypeOK, NEW s \in Seq(Bytes), NEW k \in 0..Len(s), InPipe + k <= PIPESIZE
  PROVE  /\ Stored(s, k) \in [0..PIPESIZE - 1 -> Bytes]
         /\ \A j \in 1..k : Stored(s, k)[Slot(nwrite, j)] = s[j]
         /\ \A j \in 1..InPipe : Stored(s, k)[Slot(nread, j)] = data[Slot(nread, j)]
<1>1. /\ nread \in 0..Word - 1 /\ nwrite \in 0..Word - 1
      /\ data \in [0..PIPESIZE - 1 -> Bytes]
  BY DEF TypeOK
<1>2. InPipe \in 0..PIPESIZE /\ k \in 0..PIPESIZE /\ k \in Nat
  <2>1. InPipe \in 0..PIPESIZE
    BY CopiedIs
  <2>2. Len(s) \in Nat
    BY LenProperties
  <2>3. QED
    BY <2>1, <2>2, Constants, SMT
<1>3. ASSUME NEW j \in 1..k
      PROVE  j \in 1..PIPESIZE /\ Slot(nwrite, j) \in 0..PIPESIZE - 1
  <2>1. j \in 1..PIPESIZE
    BY <1>2, Constants, SMT
  <2>2. QED
    BY <1>1, <2>1, SlotIn
<1>4. ASSUME NEW i \in 1..k, NEW j \in 1..k, Slot(nwrite, i) = Slot(nwrite, j)
      PROVE  i = j
  <2>1. i \in 1..PIPESIZE /\ j \in 1..PIPESIZE
    BY <1>3
  <2>2. ~(i < j) /\ ~(j < i)
    BY <1>1, <1>4, <2>1, SlotsDiffer
  <2>3. QED
    BY <2>1, <2>2, SMT
<1>5. ASSUME NEW j \in 1..k
      PROVE  Stored(s, k)[Slot(nwrite, j)] = s[j]
  <2>1. {i \in 1..k : Slot(nwrite, i) = Slot(nwrite, j)} = {j}
    BY <1>4
  <2>2. Max({j}) = j
    BY SMT DEF Max
  <2>3. QED
    BY <1>3, <2>1, <2>2 DEF Stored
<1>6. ASSUME NEW i \in 0..PIPESIZE - 1, \A j \in 1..k : Slot(nwrite, j) # i
      PROVE  Stored(s, k)[i] = data[i]
  BY <1>6 DEF Stored
<1>7. Stored(s, k) \in [0..PIPESIZE - 1 -> Bytes]
  <2>1. ASSUME NEW i \in 0..PIPESIZE - 1 PROVE Stored(s, k)[i] \in Bytes
    <3>1. CASE \A j \in 1..k : Slot(nwrite, j) # i
      BY <1>1, <1>6, <3>1
    <3>2. CASE \E j \in 1..k : Slot(nwrite, j) = i
      <4>1. PICK j \in 1..k : Slot(nwrite, j) = i
        BY <3>2
      <4>2. j \in 1..Len(s)
        BY <1>2, SMT
      <4>3. QED
        BY <1>5, <4>1, <4>2, SMT
    <3>3. QED
      BY <3>1, <3>2
  <2>2. QED
    BY <2>1 DEF Stored
<1>8. ASSUME NEW j \in 1..InPipe
      PROVE  Stored(s, k)[Slot(nread, j)] = data[Slot(nread, j)]
  <2>1. j \in 1..PIPESIZE
    BY <1>2, Constants, SMT
  <2>2. ASSUME NEW i \in 1..k PROVE Slot(nwrite, i) # Slot(nread, j)
    <3>1. InPipe + i \in 1..PIPESIZE /\ j < InPipe + i /\ InPipe \in 0..PIPESIZE
      BY <1>2, Constants, SMT
    <3>2. Slot((nread + InPipe) % Word, i) = Slot(nread, InPipe + i)
      <4>1. i \in 1..PIPESIZE /\ InPipe + i <= PIPESIZE
        BY <1>3, <3>1, SMT
      <4>2. QED
        BY <1>1, <3>1, <4>1, SlotShift
    <3>3. (nread + InPipe) % Word = nwrite
      BY <1>1, WriteAt
    <3>4. QED
      BY <1>1, <2>1, <3>1, <3>2, <3>3, SlotsDiffer
  <2>3. Slot(nread, j) \in 0..PIPESIZE - 1
    BY <1>1, <2>1, SlotIn
  <2>4. QED
    BY <1>6, <2>2, <2>3
<1>9. QED
  BY <1>5, <1>7, <1>8

\* The flags say which ends are open; an end's last reference alone closes it.
CloseInv ==
  /\ writeopen <=> \E w \in Writers : mode[w] # "closed"
  /\ readopen <=> \E r \in Readers : mode[r] # "closed"
  /\ \A w, v \in Writers : mode[w] = "closing" /\ v # w => mode[v] = "closed"
  /\ \A r, q \in Readers : mode[r] = "closing" /\ q # r => mode[q] = "closed"
  /\ freed <=> ~readopen /\ ~writeopen

\* A read that is under way asks for something, and only a write that is under
\* way has bytes left.
CallInv ==
  /\ \A r \in Readers : mode[r] = "busy" => want[r] \in 1..MaxRead
  /\ \A w \in Writers : mode[w] # "busy" => todo[w] = <<>>

IndInv == TypeOK /\ SleepInv /\ CloseInv /\ CallInv

-----------------------------------------------------------------------------
\* A process holds the read end or the write end, and each end is held.
LEMMA Ends == /\ Writers \subseteq Procs /\ Readers \subseteq Procs
              /\ \A p \in Procs : p \in Readers <=> p \notin Writers
              /\ Writers # {} /\ Readers # {} /\ Bytes # {}
BY PipeConstants DEF Procs

LEMMA InitInd == Init => IndInv
<1> SUFFICES ASSUME Init PROVE IndInv
  OBVIOUS
<1> USE Ends DEF Init
<1>1. InPipe = 0
  BY Constants, ModOnce, SMT DEF InPipe
<1>2. <<>> \in Seq(Bytes) /\ Len(<<>>) = 0
  BY SMT
<1>3. TypeOK
  <2>1. data \in [0..PIPESIZE - 1 -> Bytes]
    <3>1. (CHOOSE b \in Bytes : TRUE) \in Bytes
      OBVIOUS
    <3>2. QED
      BY <3>1
  <2>2. nread \in 0..Word - 1 /\ nwrite \in 0..Word - 1 /\ InPipe <= PIPESIZE
    BY <1>1, Constants, SMT
  <2>3. /\ todo \in [Writers -> Seq(Bytes)] /\ want \in [Readers -> 0..MaxRead]
        /\ got \in [Readers -> Seq(Bytes)] /\ \A r \in Readers : Len(got[r]) <= MaxRead
    BY <1>2, Constants, SMT
  <2>4. QED
    BY <2>1, <2>2, <2>3 DEF TypeOK, Modes
<1>4. SleepInv /\ CloseInv /\ CallInv
  BY DEF SleepInv, CloseInv, CallInv
<1>5. QED
  BY <1>3, <1>4 DEF IndInv

\* Starting a call and coming back from one closes nothing.
LEMMA CloseStable ==
  ASSUME CloseInv, UNCHANGED <<readopen, writeopen, freed>>,
         \A p \in Procs :
           mode[p] \in {"open", "busy"} <=> mode'[p] \in {"open", "busy"},
         \A p \in Procs : mode[p] \in {"closing", "closed"} => mode'[p] = mode[p],
         mode \in [Procs -> Modes], mode' \in [Procs -> Modes]
  PROVE  CloseInv'
BY Ends, SMT DEF CloseInv, Modes

LEMMA CallInd ==
  ASSUME IndInv, Call
  PROVE  IndInv'
<1>1. InPipe' = InPipe
  BY DEF Call, pipewrite, piperead, pipe, InPipe
<1>2. CASE \E w \in Writers, s \in Inputs : pipewrite(w, s)
  <2>1. PICK w \in Writers, s \in Inputs : pipewrite(w, s)
    BY <1>2
  <2>2. TypeOK'
    BY <1>1, <2>1, Ends, PipeConstants DEF IndInv, TypeOK, pipewrite, pipe, Modes
  <2>3. SleepInv'
    BY <1>1, <2>1 DEF IndInv, SleepInv, TypeOK, pipewrite, pipe
  <2>4. CloseInv'
    BY <2>1, <2>2, CloseStable DEF IndInv, TypeOK, pipewrite, pipe
  <2>5. CallInv'
    BY <2>1, Ends DEF IndInv, CallInv, TypeOK, pipewrite
  <2>6. QED
    BY <2>2, <2>3, <2>4, <2>5 DEF IndInv
<1>3. CASE \E r \in Readers, n \in 1..MaxRead : piperead(r, n)
  <2>1. PICK r \in Readers, n \in 1..MaxRead : piperead(r, n)
    BY <1>3
  <2>2. TypeOK'
    BY <1>1, <2>1, Ends, Constants, SMT DEF IndInv, TypeOK, piperead, pipe, Modes
  <2>3. SleepInv'
    BY <1>1, <2>1 DEF IndInv, SleepInv, TypeOK, piperead, pipe
  <2>4. CloseInv'
    BY <2>1, <2>2, CloseStable DEF IndInv, TypeOK, piperead, pipe
  <2>5. CallInv'
    BY <2>1, Ends DEF IndInv, CallInv, TypeOK, piperead
  <2>6. QED
    BY <2>2, <2>3, <2>4, <2>5 DEF IndInv
<1>4. QED
  BY <1>2, <1>3 DEF Call

LEMMA FilecloseInd ==
  ASSUME IndInv, NEW p \in Procs, fileclose(p)
  PROVE  IndInv'
<1>1. InPipe' = InPipe
  BY DEF fileclose, pipe, InPipe
<1>2. TypeOK'
  <2>1. mode' \in [Procs -> Modes]
    BY DEF IndInv, TypeOK, fileclose, Modes
  <2>2. QED
    BY <1>1, <2>1 DEF IndInv, TypeOK, fileclose, pipe
<1>3. SleepInv'
  BY <1>1 DEF IndInv, SleepInv, TypeOK, fileclose, pipe
<1>4. CloseInv'
  <2>1. CASE p \in Writers
    BY <2>1, Ends DEF IndInv, TypeOK, CloseInv, fileclose, LastRef, pipe, Modes
  <2>2. CASE p \in Readers
    BY <2>2, Ends DEF IndInv, TypeOK, CloseInv, fileclose, LastRef, pipe, Modes
  <2>3. QED
    BY <2>1, <2>2, Ends
<1>5. CallInv'
  BY Ends DEF IndInv, CallInv, TypeOK, fileclose
<1>6. QED
  BY <1>2, <1>3, <1>4, <1>5 DEF IndInv

LEMMA PipecloseInd ==
  ASSUME IndInv, NEW p \in Procs, pipeclose(p)
  PROVE  IndInv'
<1>1. InPipe' = InPipe
  BY DEF pipeclose, InPipe
<1>2. TypeOK'
  BY <1>1 DEF IndInv, TypeOK, pipeclose, LastEnd, Modes
<1>3. SleepInv'
  BY <1>1, Ends DEF IndInv, SleepInv, TypeOK, pipeclose
<1>4. CloseInv'
  <2>1. CASE p \in Writers
    BY <2>1, Ends, SMT DEF IndInv, TypeOK, CloseInv, pipeclose, LastEnd, Modes
  <2>2. CASE p \in Readers
    BY <2>2, Ends DEF IndInv, TypeOK, CloseInv, pipeclose, LastEnd, Modes
  <2>3. QED
    BY <2>1, <2>2, Ends
<1>5. CallInv'
  BY Ends DEF IndInv, CallInv, TypeOK, pipeclose
<1>6. QED
  BY <1>2, <1>3, <1>4, <1>5 DEF IndInv

LEMMA KillInd ==
  ASSUME IndInv, NEW p \in Procs, kill(p)
  PROVE  IndInv'
<1>1. InPipe' = InPipe
  BY DEF kill, pipe, InPipe
<1>2. TypeOK'
  BY <1>1 DEF IndInv, TypeOK, kill, pipe
<1>3. SleepInv'
  BY <1>1 DEF IndInv, SleepInv, kill, pipe
<1>4. CloseInv' /\ CallInv'
  BY DEF IndInv, CloseInv, CallInv, kill, pipe
<1>5. QED
  BY <1>2, <1>3, <1>4 DEF IndInv

\* What a writer does between two sleeps.
LEMMA WriteSomeIs ==
  ASSUME IndInv, NEW w \in Writers, WriteSome(w), NEW n, n = Len(todo[w])
  PROVE  /\ n \in Nat /\ todo[w] \in Seq(Bytes)
         /\ Copied(n) \in 0..n /\ InPipe + Copied(n) <= PIPESIZE
         /\ Copied(n) < n => InPipe + Copied(n) = PIPESIZE
         /\ data' = Stored(todo[w], Copied(n)) /\ data' \in [0..PIPESIZE - 1 -> Bytes]
         /\ nwrite' = (nwrite + Copied(n)) % Word /\ nwrite' \in 0..Word - 1
         /\ InPipe \in 0..PIPESIZE /\ InPipe' = InPipe + Copied(n)
<1>1. TypeOK /\ todo[w] \in Seq(Bytes) /\ n \in Nat
  BY SMT DEF IndInv, TypeOK
<1>2. /\ Copied(n) = IF n <= PIPESIZE - InPipe THEN n ELSE PIPESIZE - InPipe
      /\ InPipe = Gap(nread, nwrite) /\ InPipe \in 0..PIPESIZE
      /\ Copied(n) \in Nat /\ InPipe + Copied(n) <= PIPESIZE
  BY <1>1, CopiedIs
<1>3. Copied(n) \in 0..n /\ (Copied(n) < n => InPipe + Copied(n) = PIPESIZE)
  BY <1>1, <1>2, Constants, SMT
<1>4. /\ data' = Stored(todo[w], Copied(n))
      /\ nwrite' = (nwrite + Copied(n)) % Word /\ nread' = nread
  BY DEF WriteSome, Stored, Copied
<1>5. data' \in [0..PIPESIZE - 1 -> Bytes]
  BY <1>1, <1>2, <1>3, <1>4, StoredIs
<1>6. nwrite' \in 0..Word - 1
  <2>1. nwrite \in 0..Word - 1 /\ Copied(n) \in 0..PIPESIZE
    BY <1>1, <1>2, Constants, SMT DEF TypeOK
  <2>2. QED
    BY <1>4, <2>1, Step
<1>7. InPipe' = InPipe + Copied(n)
  <2>1. InPipe' = Gap(nread, (nwrite + Copied(n)) % Word)
    BY <1>4 DEF InPipe, Gap
  <2>2. nread \in 0..Word - 1 /\ nwrite \in 0..Word - 1
    BY <1>1 DEF TypeOK
  <2>3. QED
    BY <1>2, <2>1, <2>2, GapWrite
<1>8. QED
  BY <1>1, <1>2, <1>3, <1>4, <1>5, <1>6, <1>7

LEMMA WriteSomeInd ==
  ASSUME IndInv, NEW w \in Writers, WriteSome(w)
  PROVE  IndInv'
<1> DEFINE n == Len(todo[w])
           k == Copied(n)
<1>1. /\ n \in Nat /\ todo[w] \in Seq(Bytes) /\ k \in 0..n
      /\ InPipe + k <= PIPESIZE /\ (k < n => InPipe + k = PIPESIZE)
      /\ data' \in [0..PIPESIZE - 1 -> Bytes] /\ nwrite' \in 0..Word - 1
      /\ InPipe \in 0..PIPESIZE /\ InPipe' = InPipe + k
  BY WriteSomeIs
<1>2. /\ \/ /\ k = n
            /\ mode' = [mode EXCEPT ![w] = "open"]
            /\ todo' = [todo EXCEPT ![w] = <<>>]
            /\ asleep' = asleep \ Readers
         \/ /\ k < n /\ (~readopen \/ w \in killed)
            /\ mode' = [mode EXCEPT ![w] = "open"]
            /\ todo' = [todo EXCEPT ![w] = <<>>]
            /\ UNCHANGED asleep
         \/ /\ k < n /\ readopen /\ w \notin killed
            /\ todo' = [todo EXCEPT ![w] = SubSeq(@, k + 1, Len(@))]
            /\ asleep' = (asleep \ Readers) \cup {w}
            /\ UNCHANGED mode
      /\ mode[w] = "busy" /\ w \notin asleep
      /\ UNCHANGED <<nread, readopen, writeopen, freed, want, got, killed>>
  BY DEF WriteSome, WakeBeforeSleep, Copied, Awake
<1> HIDE DEF n, k
<1>3. todo' \in [Writers -> Seq(Bytes)]
  <2>1. SubSeq(todo[w], k + 1, Len(todo[w])) \in Seq(Bytes) /\ <<>> \in Seq(Bytes)
    BY <1>1, SMT DEF n
  <2>2. todo \in [Writers -> Seq(Bytes)]
    BY DEF IndInv, TypeOK
  <2>3. QED
    BY <1>2, <2>1, <2>2
<1>4. mode' \in [Procs -> Modes] /\ asleep' \subseteq Procs
  BY <1>2, Ends DEF IndInv, TypeOK, Modes
<1>5. InPipe' <= PIPESIZE
  BY <1>1
<1>6. TypeOK'
  BY <1>1, <1>2, <1>3, <1>4, <1>5 DEF IndInv, TypeOK
<1>7. SleepInv'
  <2> SUFFICES ASSUME NEW p \in asleep'
               PROVE  /\ mode'[p] = "busy" /\ p \notin killed'
                      /\ p \in Readers =>
                           writeopen' /\ (InPipe' = 0 \/ killed' \cap Writers # {})
                      /\ p \in Writers => InPipe' = PIPESIZE /\ readopen'
    BY DEF SleepInv
  <2>1. CASE p = w
    BY <1>1, <1>2, <2>1, Ends DEF IndInv, TypeOK
  <2>2. CASE p # w
    <3>1. p \in asleep /\ p \in Procs /\ mode'[p] = "busy" /\ p \notin killed
      BY <1>2, <2>2, SMT DEF IndInv, TypeOK, SleepInv
    <3>2. CASE p \in Writers
      <4>1. InPipe = PIPESIZE /\ readopen
        BY <3>1, <3>2 DEF IndInv, SleepInv
      <4>2. InPipe' = PIPESIZE
        BY <1>1, <4>1, Constants, SMT
      <4>3. QED
        BY <1>2, <3>1, <3>2, <4>1, <4>2, Ends
    <3>3. CASE p \in Readers
      <4>1. k < n /\ (~readopen \/ w \in killed)
        BY <1>2, <2>2, <3>3
      <4>2. readopen
        BY <3>1, <3>3 DEF IndInv, SleepInv, CloseInv
      <4>3. QED
        BY <1>2, <3>1, <3>3, <4>1, <4>2, Ends DEF IndInv, SleepInv
    <3>4. QED
      BY <3>1, <3>2, <3>3, Ends
  <2>3. QED
    BY <2>1, <2>2
<1>8. CloseInv'
  BY <1>2, <1>4, CloseStable DEF IndInv, TypeOK
<1>9. CallInv'
  BY <1>2, Ends DEF IndInv, CallInv, TypeOK
<1>10. QED
  BY <1>6, <1>7, <1>8, <1>9 DEF IndInv

LEMMA ReadWaitsInd ==
  ASSUME IndInv, NEW r \in Readers, ReadWaits(r)
  PROVE  IndInv'
<1>1. InPipe' = InPipe /\ InPipe = 0
  <2>1. nread \in 0..Word - 1 /\ nread = nwrite
    BY DEF IndInv, TypeOK, ReadWaits, MustWait
  <2>2. Gap(nread, nwrite) = 0
    BY <2>1, GapIs, Constants, SMT
  <2>3. QED
    BY <2>2 DEF InPipe, Gap, ReadWaits, pipe
<1>2. TypeOK'
  <2>1. mode' \in [Procs -> Modes] /\ asleep' \subseteq Procs
    <3>1. /\ mode \in [Procs -> Modes] /\ "open" \in Modes
          /\ asleep \subseteq Procs /\ r \in Procs
      BY Ends DEF IndInv, TypeOK, Modes
    <3>2. /\ mode' = mode \/ mode' = [mode EXCEPT ![r] = "open"]
          /\ asleep' = asleep \/ asleep' = asleep \cup {r}
      BY DEF ReadWaits
    <3>3. QED
      BY <3>1, <3>2
  <2>2. want' \in [Readers -> 0..MaxRead]
    BY Constants, SMT DEF IndInv, TypeOK, ReadWaits
  <2>3. UNCHANGED <<pipe, freed, todo, got, killed>>
    BY DEF ReadWaits
  <2>4. QED
    BY <1>1, <2>1, <2>2, <2>3 DEF IndInv, TypeOK, pipe
<1>3. SleepInv'
  BY <1>1, Ends, SMT DEF IndInv, SleepInv, TypeOK, ReadWaits, MustWait, Awake, pipe
<1>4. CloseInv'
  BY <1>2, CloseStable DEF IndInv, TypeOK, ReadWaits, Awake, pipe
<1>5. CallInv'
  BY Ends, SMT DEF IndInv, CallInv, TypeOK, ReadWaits
<1>6. QED
  BY <1>2, <1>3, <1>4, <1>5 DEF IndInv

\* How many bytes a reader takes.
Taken(r) == IF want[r] < InPipe THEN want[r] ELSE InPipe

\* What a reader does once it need not wait.
LEMMA ReadSomeIs ==
  ASSUME IndInv, NEW r \in Readers, ReadSome(r)
  PROVE  /\ InPipe \in 0..PIPESIZE /\ Taken(r) \in 0..InPipe /\ Taken(r) \in 0..MaxRead
         /\ Taken(r) = 0 => InPipe = 0
         /\ got' = [got EXCEPT ![r] = [j \in 1..Taken(r) |-> data[Slot(nread, j)]]]
         /\ nread' = (nread + Taken(r)) % Word /\ nread' \in 0..Word - 1
         /\ InPipe' = InPipe - Taken(r)
<1>1. TypeOK /\ nread \in 0..Word - 1 /\ nwrite \in 0..Word - 1
  BY DEF IndInv, TypeOK
<1>2. InPipe = Gap(nread, nwrite) /\ InPipe \in 0..PIPESIZE
  BY <1>1, CopiedIs
<1>3. want[r] \in 1..MaxRead
  BY DEF IndInv, CallInv, ReadSome, Awake
<1>4. Taken(r) \in 0..InPipe /\ Taken(r) \in 0..MaxRead /\ (Taken(r) = 0 => InPipe = 0)
  BY <1>2, <1>3, Constants, SMT DEF Taken
<1>5. /\ got' = [got EXCEPT ![r] = [j \in 1..Taken(r) |-> data[Slot(nread, j)]]]
      /\ nread' = (nread + Taken(r)) % Word /\ nwrite' = nwrite
  BY DEF ReadSome, Taken
<1> HIDE DEF Taken, InPipe
<1>6. nread' \in 0..Word - 1
  <2>1. Taken(r) \in 0..PIPESIZE
    BY <1>2, <1>4, Constants, SMT
  <2>2. QED
    BY <1>1, <1>5, <2>1, Step
<1>7. InPipe' = InPipe - Taken(r)
  <2>1. InPipe' = Gap((nread + Taken(r)) % Word, nwrite)
    BY <1>5 DEF InPipe, Gap
  <2>2. /\ Taken(r) \in Nat /\ Taken(r) <= Gap(nread, nwrite)
        /\ Gap(nread, nwrite) <= PIPESIZE
    BY <1>2, <1>4, Constants, SMT
  <2>3. QED
    BY <1>1, <1>2, <2>1, <2>2, GapRead
<1>8. QED
  BY <1>2, <1>4, <1>5, <1>6, <1>7

LEMMA ReadSomeInd ==
  ASSUME IndInv, NEW r \in Readers, ReadSome(r)
  PROVE  IndInv'
<1>1. /\ InPipe \in 0..PIPESIZE /\ Taken(r) \in 0..InPipe /\ Taken(r) \in 0..MaxRead
      /\ got' = [got EXCEPT ![r] = [j \in 1..Taken(r) |-> data[Slot(nread, j)]]]
      /\ nread' \in 0..Word - 1 /\ InPipe' = InPipe - Taken(r)
  BY ReadSomeIs
<1>2. /\ asleep' = asleep \ Writers
      /\ mode' = [mode EXCEPT ![r] = "open"] /\ mode[r] = "busy" /\ r \notin asleep
      /\ want' = [want EXCEPT ![r] = 0]
      /\ UNCHANGED <<data, nwrite, readopen, writeopen, freed, todo, killed>>
  BY DEF ReadSome, WakeWriters, Awake
<1>3. got' \in [Readers -> Seq(Bytes)] /\ \A q \in Readers : Len(got'[q]) <= MaxRead
  <2>1. ASSUME NEW j \in 1..Taken(r) PROVE data[Slot(nread, j)] \in Bytes
    <3>1. j \in 1..PIPESIZE
      BY <1>1, Constants, SMT
    <3>2. nread \in 0..Word - 1 /\ data \in [0..PIPESIZE - 1 -> Bytes]
      BY DEF IndInv, TypeOK
    <3>3. QED
      BY <3>1, <3>2, SlotIn
  <2>2. Taken(r) \in Nat
    BY <1>1, SMT
  <2>3. /\ [j \in 1..Taken(r) |-> data[Slot(nread, j)]] \in Seq(Bytes)
        /\ Len([j \in 1..Taken(r) |-> data[Slot(nread, j)]]) <= MaxRead
    BY <1>1, <2>1, <2>2, Constants, SMT
  <2>4. got \in [Readers -> Seq(Bytes)] /\ \A q \in Readers : Len(got[q]) <= MaxRead
    BY DEF IndInv, TypeOK
  <2>5. QED
    BY <1>1, <2>3, <2>4
<1>4. InPipe' <= PIPESIZE
  BY <1>1, Constants, SMT
<1>5. TypeOK'
  <2>1. mode' \in [Procs -> Modes] /\ asleep' \subseteq Procs
    BY <1>2, Ends DEF IndInv, TypeOK, Modes
  <2>2. want' \in [Readers -> 0..MaxRead]
    BY <1>2, Constants, SMT DEF IndInv, TypeOK
  <2>3. QED
    BY <1>1, <1>2, <1>3, <1>4, <2>1, <2>2 DEF IndInv, TypeOK
<1>6. SleepInv'
  <2> SUFFICES ASSUME NEW p \in asleep'
               PROVE  /\ mode'[p] = "busy" /\ p \notin killed'
                      /\ p \in Readers =>
                           writeopen' /\ (InPipe' = 0 \/ killed' \cap Writers # {})
                      /\ p \in Writers => InPipe' = PIPESIZE /\ readopen'
    BY DEF SleepInv
  <2>1. p \in asleep /\ p \notin Writers /\ p # r /\ mode'[p] = "busy" /\ p \notin killed'
    BY <1>2 DEF IndInv, SleepInv, TypeOK
  <2>2. p \in Readers => writeopen /\ (InPipe = 0 \/ killed \cap Writers # {})
    BY <2>1 DEF IndInv, SleepInv
  <2>3. InPipe = 0 => InPipe' = 0
    BY <1>1, SMT
  <2>4. QED
    BY <1>2, <2>1, <2>2, <2>3
<1>7. CloseInv'
  BY <1>2, <1>5, CloseStable, Ends DEF IndInv, TypeOK
<1>8. CallInv'
  BY <1>2, Ends DEF IndInv, CallInv, TypeOK
<1>9. QED
  BY <1>5, <1>6, <1>7, <1>8 DEF IndInv

-----------------------------------------------------------------------------
LEMMA NextInd == IndInv /\ [Next]_vars => IndInv'
<1> SUFFICES ASSUME IndInv, [Next]_vars PROVE IndInv'
  OBVIOUS
<1>1. CASE Call
  BY <1>1, CallInd
<1>2. ASSUME NEW p \in Procs, Run(p) PROVE IndInv'
  BY <1>2, WriteSomeInd, ReadWaitsInd, ReadSomeInd, PipecloseInd DEF Run
<1>3. ASSUME NEW p \in Procs, fileclose(p) PROVE IndInv'
  BY <1>3, FilecloseInd
<1>4. ASSUME NEW p \in Procs, kill(p) PROVE IndInv'
  BY <1>4, KillInd
<1>5. CASE UNCHANGED vars
  <2>1. InPipe' = InPipe /\ TypeOK'
    BY <1>5 DEF vars, pipe, InPipe, IndInv, TypeOK
  <2>2. SleepInv'
    BY <1>5, <2>1 DEF vars, pipe, IndInv, SleepInv
  <2>3. CloseInv' /\ CallInv'
    BY <1>5 DEF vars, pipe, IndInv, CloseInv, CallInv
  <2>4. QED
    BY <2>1, <2>2, <2>3 DEF IndInv
<1>6. QED
  BY <1>1, <1>2, <1>3, <1>4, <1>5 DEF Next

LEMMA Inductive == Spec => []IndInv
BY InitInd, NextInd, PTL DEF Spec

\* For every size of the buffer and of the counters and any number of readers
\* and writers: nobody sleeps in pipewrite or piperead without cause.
THEOREM NoWakeupLost == Spec => []SleepersJustified
<1>1. IndInv => SleepersJustified
  BY DEF IndInv, SleepersJustified
<1>2. QED
  BY <1>1, Inductive, PTL

\* For any number of readers and writers: the pipe's page is freed by the last
\* of the pipecloses and by no earlier one, in whatever order they come.
THEOREM FreedOnce == Spec => []FreedAtLastClose
<1>1. IndInv => FreedAtLastClose
  BY Ends DEF IndInv, TypeOK, CloseInv, FreedAtLastClose
<1>2. QED
  BY <1>1, Inductive, PTL

\* The n bytes of the buffer d from counter value r on.
Window(d, r, n) == [j \in 1..n |-> d[Slot(r, j)]]

\* A window of the buffer is a sequence of its bytes.
LEMMA WindowIs ==
  ASSUME NEW d \in [0..PIPESIZE - 1 -> Bytes], NEW r \in 0..Word - 1,
         NEW n \in 0..PIPESIZE
  PROVE  /\ Window(d, r, n) \in Seq(Bytes) /\ Len(Window(d, r, n)) = n
         /\ \A j \in 1..n : Window(d, r, n)[j] = d[Slot(r, j)]
<1>1. ASSUME NEW j \in 1..n PROVE d[Slot(r, j)] \in Bytes
  <2>1. j \in 1..PIPESIZE
    BY Constants, SMT
  <2>2. QED
    BY <2>1, SlotIn
<1>2. n \in Nat
  BY SMT
<1>3. QED
  BY <1>1, <1>2, SMT DEF Window

\* What is in the pipe, before and after a step, as windows.
LEMMA ContentsAre ==
  ASSUME IndInv, IndInv'
  PROVE  /\ data \in [0..PIPESIZE - 1 -> Bytes] /\ data' \in [0..PIPESIZE - 1 -> Bytes]
         /\ nread \in 0..Word - 1 /\ nread' \in 0..Word - 1
         /\ Contents = Window(data, nread, InPipe)
         /\ Contents' = Window(data', nread', InPipe')
BY DEF IndInv, TypeOK, Contents, Window

\* A writer's run of pipewrite's loop puts the head of its bytes into the queue.
LEMMA WriteIsPut ==
  ASSUME IndInv, IndInv', NEW w \in Writers, WriteSome(w)
  PROVE  F!Put(w)
<1> DEFINE n == Len(todo[w])
           k == Copied(n)
           s == SubSeq(todo[w], 1, k)
<1>1. /\ n \in Nat /\ todo[w] \in Seq(Bytes) /\ k \in 0..n
      /\ InPipe + k <= PIPESIZE /\ data' = Stored(todo[w], k)
      /\ InPipe \in 0..PIPESIZE /\ InPipe' = InPipe + k
      /\ k < n => InPipe + k = PIPESIZE
  BY WriteSomeIs
<1>2. /\ nread' = nread /\ UNCHANGED <<writeopen, got>>
      /\ todo' \in {[todo EXCEPT ![w] = SubSeq(todo[w], k + 1, n)],
                    [todo EXCEPT ![w] = <<>>]}
  BY DEF WriteSome, Copied
<1>3. writeopen
  BY Ends DEF WriteSome, Awake, IndInv, CloseInv
<1>4. /\ s \in Seq(Bytes) /\ Len(s) = k /\ \A j \in 1..k : s[j] = todo[w][j]
  <2>1. \A j \in 1..k : todo[w][j] \in Bytes
    BY <1>1, ElementOfSeq, SMT
  <2>2. QED
    BY <1>1, <2>1, SubSeqProperties, SMT
<1> HIDE DEF n, k, s
<1>6. /\ Contents \in Seq(Bytes) /\ Len(Contents) = InPipe
      /\ \A j \in 1..InPipe : Contents[j] = data[Slot(nread, j)]
  <2>1. InPipe \in 0..PIPESIZE
    BY <1>1
  <2>2. /\ Contents = Window(data, nread, InPipe)
        /\ data \in [0..PIPESIZE - 1 -> Bytes] /\ nread \in 0..Word - 1
    BY ContentsAre
  <2>3. QED
    BY <2>1, <2>2, WindowIs
<1>7. /\ Contents' \in Seq(Bytes) /\ Len(Contents') = InPipe + k
      /\ \A j \in 1..InPipe + k : Contents'[j] = data'[Slot(nread, j)]
  <2>1. InPipe + k \in 0..PIPESIZE
    BY <1>1, Constants, SMT
  <2>2. QED
    BY <1>1, <1>2, <2>1, ContentsAre, WindowIs, SMT
<1>8. /\ Contents \o s \in Seq(Bytes) /\ Len(Contents \o s) = InPipe + k
      /\ \A j \in 1..InPipe + k :
           (Contents \o s)[j] = IF j <= InPipe THEN Contents[j] ELSE s[j - InPipe]
  BY <1>4, <1>6, ConcatProperties
<1>9. ASSUME NEW j \in 1..InPipe + k PROVE Contents'[j] = (Contents \o s)[j]
  <2>1. CASE j <= InPipe
    <3>1. j \in 1..InPipe
      BY <1>1, <2>1, SMT
    <3>2. data'[Slot(nread, j)] = data[Slot(nread, j)]
      BY <1>1, <3>1, StoredIs DEF IndInv, n
    <3>3. QED
      BY <1>6, <1>7, <1>8, <2>1, <3>1, <3>2
  <2>2. CASE j > InPipe
    <3> DEFINE i == j - InPipe
    <3>1. i \in 1..k /\ i \in 1..PIPESIZE /\ InPipe + i = j /\ j <= PIPESIZE
      BY <1>1, <2>2, Constants, SMT
    <3>2. data'[Slot(nwrite, i)] = todo[w][i]
      BY <1>1, <3>1, StoredIs DEF IndInv, n
    <3>3. Slot(nwrite, i) = Slot(nread, j)
      <4>1. (nread + InPipe) % Word = nwrite /\ nread \in 0..Word - 1
        BY WriteAt DEF IndInv, TypeOK
      <4>2. Slot((nread + InPipe) % Word, i) = Slot(nread, InPipe + i)
        BY <1>1, <3>1, <4>1, SlotShift
      <4>3. QED
        BY <3>1, <4>1, <4>2
    <3> HIDE DEF i
    <3>4. Contents'[j] = todo[w][i]
      BY <1>7, <3>2, <3>3
    <3>5. ~(j <= InPipe)
      BY <1>1, <2>2, SMT
    <3>6. (Contents \o s)[j] = s[j - InPipe]
      BY <1>8, <3>5
    <3>7. QED
      BY <1>4, <3>1, <3>4, <3>6 DEF i
  <2>3. j <= InPipe \/ j > InPipe
    BY <1>1, SMT
  <2>4. QED
    BY <2>1, <2>2, <2>3
<1>10. Contents' = Contents \o s
  BY <1>7, <1>8, <1>9, SeqEqual
<1>11. QED
  BY <1>1, <1>2, <1>3, <1>6, <1>10 DEF F!Put, n, s

\* A reader's copying takes the head of the queue, or reports the end of file.
LEMMA ReadIsTake ==
  ASSUME IndInv, IndInv', NEW r \in Readers, ReadSome(r)
  PROVE  F!Take(r) \/ F!EndOfFile(r)
<1> DEFINE k == Taken(r)
           out == [j \in 1..k |-> data[Slot(nread, j)]]
<1>1. /\ InPipe \in 0..PIPESIZE /\ k \in 0..InPipe /\ (k = 0 => InPipe = 0)
      /\ got' = [got EXCEPT ![r] = out]
      /\ nread' = (nread + k) % Word /\ InPipe' = InPipe - k
  BY ReadSomeIs
<1>2. data' = data /\ UNCHANGED <<writeopen, todo>> /\ ~MustWait
  BY DEF ReadSome
<1>3. /\ Contents \in Seq(Bytes) /\ Len(Contents) = InPipe
      /\ \A j \in 1..InPipe : Contents[j] = data[Slot(nread, j)]
  <2>1. InPipe \in 0..PIPESIZE
    BY <1>1
  <2>2. /\ Contents = Window(data, nread, InPipe)
        /\ data \in [0..PIPESIZE - 1 -> Bytes] /\ nread \in 0..Word - 1
    BY ContentsAre
  <2>3. QED
    BY <2>1, <2>2, WindowIs
<1>4. /\ out \in Seq(Bytes) /\ Len(out) = k
      /\ \A j \in 1..k : out[j] = data[Slot(nread, j)]
  <2>1. k \in 0..PIPESIZE /\ out = Window(data, nread, k)
    BY <1>1, Constants, SMT DEF Window
  <2>2. QED
    BY <2>1, ContentsAre, WindowIs, SMT
<1> HIDE DEF k, out
<1>5. /\ Contents' \in Seq(Bytes) /\ Len(Contents') = InPipe - k
      /\ \A j \in 1..InPipe - k : Contents'[j] = data[Slot((nread + k) % Word, j)]
  <2>1. InPipe - k \in 0..PIPESIZE
    BY <1>1, Constants, SMT
  <2>2. /\ Contents' = Window(data, (nread + k) % Word, InPipe - k)
        /\ data \in [0..PIPESIZE - 1 -> Bytes] /\ (nread + k) % Word \in 0..Word - 1
    BY <1>1, <1>2, ContentsAre
  <2>3. QED
    BY <2>1, <2>2, WindowIs
<1>6. k \in Nat /\ InPipe \in Nat /\ k <= InPipe
  BY <1>1, SMT
<1>7. CASE k = 0
  <2>1. InPipe = 0 /\ Contents = <<>> /\ out = <<>>
    BY <1>1, <1>3, <1>4, <1>7, EmptySeq
  <2>2. Contents' = <<>>
    BY <1>5, <1>7, <2>1, EmptySeq, SMT
  <2>3. ~writeopen
    <3>1. (nread + 0) % Word = nwrite /\ nread \in 0..Word - 1
      BY <2>1, WriteAt DEF IndInv, TypeOK
    <3>2. nread = nwrite
      BY <3>1, Step, Constants, SMT
    <3>3. QED
      BY <1>2, <3>2 DEF MustWait
  <2>4. QED
    BY <1>1, <1>2, <2>1, <2>2, <2>3 DEF F!EndOfFile
<1>8. CASE k > 0
  <2>1. out = SubSeq(Contents, 1, k)
    <3>1. \A j \in 1..k : Contents[j] \in Bytes
      BY <1>3, <1>6, ElementOfSeq, SMT
    <3>2. /\ SubSeq(Contents, 1, k) \in Seq(Bytes) /\ Len(SubSeq(Contents, 1, k)) = k
          /\ \A j \in 1..k : SubSeq(Contents, 1, k)[j] = Contents[j]
      BY <1>3, <1>6, <3>1, SubSeqProperties, SMT
    <3>3. \A j \in 1..k : out[j] = SubSeq(Contents, 1, k)[j]
      BY <1>3, <1>4, <1>6, <3>2, SMT
    <3>4. QED
      BY <1>4, <3>2, <3>3, SeqEqual
  <2>2. Contents' = SubSeq(Contents, k + 1, InPipe)
    <3> DEFINE rest == SubSeq(Contents, k + 1, InPipe)
    <3>1. \A j \in k + 1..InPipe : Contents[j] \in Bytes
      BY <1>3, <1>6, ElementOfSeq, SMT
    <3>2. /\ rest \in Seq(Bytes) /\ Len(rest) = InPipe - k
          /\ \A j \in 1..InPipe - k : rest[j] = Contents[k + j]
      BY <1>3, <1>6, <3>1, SubSeqProperties, SMT
    <3> HIDE DEF rest
    <3>3. ASSUME NEW j \in 1..InPipe - k PROVE Contents'[j] = rest[j]
      <4>1. /\ k + j \in 1..InPipe /\ k + j <= PIPESIZE
            /\ k \in 0..PIPESIZE /\ j \in 1..PIPESIZE
        BY <1>1, Constants, SMT
      <4>2. Slot((nread + k) % Word, j) = Slot(nread, k + j)
        BY <4>1, ContentsAre, SlotShift
      <4>3. QED
        BY <1>3, <1>5, <3>2, <4>1, <4>2
    <3>4. Contents' = rest
      BY <1>5, <3>2, <3>3, SeqEqual
    <3>5. QED
      BY <3>4 DEF rest
  <2>3. k \in 1..Len(Contents)
    BY <1>3, <1>6, <1>8, SMT
  <2>4. QED
    BY <1>1, <1>2, <1>3, <2>1, <2>2, <2>3 DEF F!Take
<1>9. QED
  BY <1>6, <1>7, <1>8, SMT

\* A step that leaves pipe, todo and got alone is none of the queue.
LEMMA Stutters ==
  ASSUME UNCHANGED <<pipe, todo, got>>
  PROVE  UNCHANGED F!fifoVars
<1>1. UNCHANGED <<data, nread, nwrite, writeopen, todo, got>>
  BY DEF pipe
<1>2. InPipe' = InPipe
  BY <1>1 DEF InPipe
<1>3. Contents' = Contents
  BY <1>1, <1>2 DEF Contents
<1>4. QED
  BY <1>1, <1>3 DEF F!fifoVars

\* The last writer's pipeclose closes the queue; the last reader's is no step of it.
LEMMA CloseIsClose ==
  ASSUME NEW p \in Procs, pipeclose(p), IndInv
  PROVE  [F!Next]_(F!fifoVars)
<1>1. UNCHANGED <<data, nread, nwrite, todo, got>>
  BY DEF pipeclose
<1>2. InPipe' = InPipe
  BY <1>1 DEF InPipe
<1>3. Contents' = Contents
  BY <1>1, <1>2 DEF Contents
<1>4. CASE p \in Writers
  <2>1. \A w \in Writers : todo[w] = <<>>
    BY <1>4 DEF pipeclose, IndInv, CloseInv, CallInv
  <2>2. todo = [w \in Writers |-> <<>>]
    BY <2>1 DEF IndInv, TypeOK
  <2>3. QED
    BY <1>1, <1>3, <1>4, <2>2 DEF pipeclose, F!CloseWriteEnd, F!Next
<1>5. CASE p \notin Writers
  BY <1>1, <1>3, <1>5 DEF pipeclose, F!fifoVars
<1>6. QED
  BY <1>4, <1>5

\* Calling pipewrite starts a write.
LEMMA CallIsWrite ==
  ASSUME IndInv, NEW w \in Writers, NEW s \in Inputs, pipewrite(w, s)
  PROVE  F!Write(w)
<1>1. /\ UNCHANGED <<data, nread, nwrite, writeopen, got>>
      /\ mode[w] = "open" /\ todo' = [todo EXCEPT ![w] = s]
  BY DEF pipewrite, pipe
<1>2. InPipe' = InPipe
  BY <1>1 DEF InPipe
<1>3. Contents' = Contents
  BY <1>1, <1>2 DEF Contents
<1>4. writeopen /\ todo[w] = <<>>
  BY <1>1 DEF IndInv, CloseInv, CallInv
<1>5. todo'[w] = s /\ s \in Seq(Bytes)
  BY <1>1, PipeConstants DEF IndInv, TypeOK
<1>6. QED
  BY <1>1, <1>3, <1>4, <1>5 DEF F!Write

\* Every step of the pipe is a step of the queue or none.
LEMMA StepIsFifo == IndInv /\ IndInv' /\ [Next]_vars => [F!Next]_(F!fifoVars)
<1> SUFFICES ASSUME IndInv, IndInv', [Next]_vars PROVE [F!Next]_(F!fifoVars)
  OBVIOUS
<1>1. CASE Call
  <2>1. ASSUME NEW w \in Writers, NEW s \in Inputs, pipewrite(w, s) PROVE F!Next
    BY <2>1, CallIsWrite DEF F!Next
  <2>2. ASSUME NEW r \in Readers, NEW n \in 1..MaxRead, piperead(r, n)
        PROVE  UNCHANGED F!fifoVars
    BY <2>2, Stutters DEF piperead
  <2>3. QED
    BY <1>1, <2>1, <2>2 DEF Call
<1>2. ASSUME NEW w \in Writers, WriteSome(w) PROVE F!Next
  BY <1>2, WriteIsPut DEF F!Next
<1>3. ASSUME NEW r \in Readers, ReadSome(r) PROVE F!Next
  BY <1>3, ReadIsTake DEF F!Next
<1>4. ASSUME NEW r \in Readers, ReadWaits(r) PROVE UNCHANGED F!fifoVars
  BY <1>4, Stutters DEF ReadWaits
<1>5. ASSUME NEW p \in Procs, fileclose(p) \/ kill(p) PROVE UNCHANGED F!fifoVars
  BY <1>5, Stutters DEF fileclose, kill
<1>6. ASSUME NEW p \in Procs, Run(p) PROVE [F!Next]_(F!fifoVars)
  BY <1>2, <1>3, <1>4, <1>6, CloseIsClose DEF Run
<1>7. CASE UNCHANGED vars
  BY <1>7, Stutters DEF vars
<1>8. QED
  BY <1>1, <1>5, <1>6, <1>7 DEF Next

\* For every size of the buffer and of the counters and any number of readers
\* and writers: pipewrite, piperead and pipeclose implement a bounded first-in,
\* first-out queue with an end of file.
THEOREM PipeIsFifo == Spec => IsFifo
<1>1. Init => F!Init
  <2> SUFFICES ASSUME Init PROVE F!Init
    OBVIOUS
  <2>1. /\ nread = 0 /\ nwrite = 0 /\ writeopen = TRUE
        /\ todo = [w \in Writers |-> <<>>] /\ got = [r \in Readers |-> <<>>]
    BY DEF Init
  <2>2. InPipe = 0
    BY <2>1, ModOnce, Constants, SMT DEF InPipe
  <2>3. Contents = <<>>
    BY <2>2, SMT DEF Contents
  <2>4. QED
    BY <2>1, <2>3 DEF F!Init
<1>2. QED
  BY <1>1, Inductive, StepIsFifo, PTL DEF Spec, IsFifo, F!Spec
=============================================================================
