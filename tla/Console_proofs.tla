--------------------------- MODULE Console_proofs ---------------------------
(***************************************************************************)
(* Proofs about module Console: the ring stays in order, no reader sleeps  *)
(* while there is input, and the ring is the line editor and the queue of  *)
(* module Tty, for every size of the ring and every number of readers.     *)
(***************************************************************************)
EXTENDS Console, SequenceTheorems, TLAPS

USE ZenonT(30), SMT

Index == 0..COUNT - 1
Cell(i, k) == Plus(i, k - 1) % INPUT_BUF

\* What the proofs use of the sizes.
LEMMA Constants ==
  /\ COUNT \in Nat /\ INPUT_BUF \in Nat /\ INPUT_BUF > 0 /\ COUNT > INPUT_BUF
BY ConsoleConstants, SMT

\* A number below the modulus is its own remainder.
LEMMA Below ==
  ASSUME NEW M \in Nat, M > 0, NEW x \in 0..M - 1
  PROVE  x % M = x
BY SMT

\* Past the modulus, the remainder starts again at 0.
LEMMA Above ==
  ASSUME NEW M \in Nat, M > 0, NEW x \in M..2 * M - 1
  PROVE  x % M = x - M
BY SMT

\* An index wraps once.
LEMMA Wrap ==
  ASSUME NEW x \in Nat, x < 2 * COUNT
  PROVE  x % COUNT = IF x < COUNT THEN x ELSE x - COUNT
<1>1. CASE x < COUNT
  BY <1>1, Constants, Below, SMT
<1>2. CASE x >= COUNT
  <2>1. x \in COUNT..2 * COUNT - 1
    BY <1>2, Constants, SMT
  <2>2. QED
    BY <1>2, <2>1, Constants, Above, SMT
<1>3. QED
  BY <1>1, <1>2, Constants, SMT

\* How far an index is ahead of another.
LEMMA MinusIs ==
  ASSUME NEW i \in Index, NEW j \in Index
  PROVE  /\ Minus(i, j) = IF i >= j THEN i - j ELSE i - j + COUNT
         /\ Minus(i, j) \in Index
<1> DEFINE x == i - j + COUNT
<1>1. x \in Nat /\ x < 2 * COUNT
  BY Constants, SMT DEF Index
<1>2. Minus(i, j) = x % COUNT
  BY DEF Minus
<1> HIDE DEF x
<1>3. x % COUNT = IF x < COUNT THEN x ELSE x - COUNT
  BY <1>1, Wrap
<1>4. QED
  BY <1>1, <1>2, <1>3, Constants, SMT DEF Index, x

\* An index moved on by at most the size of the ring.
LEMMA PlusIs ==
  ASSUME NEW i \in Index, NEW k \in 0..INPUT_BUF
  PROVE  /\ Plus(i, k) = IF i + k < COUNT THEN i + k ELSE i + k - COUNT
         /\ Plus(i, k) \in Index
<1>1. i + k \in Nat /\ i + k < 2 * COUNT
  BY Constants, SMT DEF Index
<1>2. QED
  BY <1>1, Wrap, Constants, SMT DEF Plus, Index

\* The distance of the index in front grows with it.
LEMMA Ahead ==
  ASSUME NEW i \in Index, NEW j \in Index, NEW k \in 0..INPUT_BUF,
         Minus(i, j) + k <= INPUT_BUF
  PROVE  Minus(Plus(i, k), j) = Minus(i, j) + k
<1>1. Minus(i, j) = IF i >= j THEN i - j ELSE i - j + COUNT
  BY MinusIs
<1>2. /\ Plus(i, k) = IF i + k < COUNT THEN i + k ELSE i + k - COUNT
      /\ Plus(i, k) \in Index
  BY PlusIs
<1>3. Minus(Plus(i, k), j) = IF Plus(i, k) >= j THEN Plus(i, k) - j
                             ELSE Plus(i, k) - j + COUNT
  BY <1>2, MinusIs
<1>4. QED
  BY <1>1, <1>2, <1>3, Constants, SMT DEF Index

\* The distance shrinks as the index behind moves on.
LEMMA Behind ==
  ASSUME NEW i \in Index, NEW j \in Index, NEW k \in 0..INPUT_BUF,
         k <= Minus(i, j)
  PROVE  Minus(i, Plus(j, k)) = Minus(i, j) - k
<1>1. Minus(i, j) = IF i >= j THEN i - j ELSE i - j + COUNT
  BY MinusIs
<1>2. /\ Plus(j, k) = IF j + k < COUNT THEN j + k ELSE j + k - COUNT
      /\ Plus(j, k) \in Index
  BY PlusIs
<1>3. Minus(i, Plus(j, k)) = IF i >= Plus(j, k) THEN i - Plus(j, k)
                             ELSE i - Plus(j, k) + COUNT
  BY <1>2, MinusIs
<1>4. QED
  BY <1>1, <1>2, <1>3, Constants, SMT DEF Index

\* One step back.
LEMMA Back ==
  ASSUME NEW i \in Index, NEW j \in Index, i # j
  PROVE  Minus(i, 1) \in Index /\ Minus(Minus(i, 1), j) = Minus(i, j) - 1
<1>1. Minus(i, j) = IF i >= j THEN i - j ELSE i - j + COUNT
  BY MinusIs
<1>2. 1 \in Index
  BY Constants, SMT DEF Index
<1>3. /\ Minus(i, 1) = IF i >= 1 THEN i - 1 ELSE i - 1 + COUNT
      /\ Minus(i, 1) \in Index
  BY <1>2, MinusIs
<1>4. Minus(Minus(i, 1), j) = IF Minus(i, 1) >= j THEN Minus(i, 1) - j
                              ELSE Minus(i, 1) - j + COUNT
  BY <1>3, MinusIs
<1>5. QED
  BY <1>1, <1>3, <1>4, Constants, SMT DEF Index

\* An index is reached from another by their distance, which is 0 only for the same.
LEMMA Reached ==
  ASSUME NEW i \in Index, NEW j \in Index
  PROVE  /\ Minus(i, j) <= INPUT_BUF => Plus(j, Minus(i, j)) = i
         /\ Minus(i, j) = 0 <=> i = j
<1>1. Minus(i, j) = (IF i >= j THEN i - j ELSE i - j + COUNT) /\ Minus(i, j) \in Nat
  BY MinusIs, SMT DEF Index
<1>2. ASSUME Minus(i, j) <= INPUT_BUF PROVE Plus(j, Minus(i, j)) = i
  <2>1. Minus(i, j) \in 0..INPUT_BUF
    BY <1>1, <1>2, Constants, SMT
  <2>2. Plus(j, Minus(i, j)) = IF j + Minus(i, j) < COUNT THEN j + Minus(i, j)
                               ELSE j + Minus(i, j) - COUNT
    BY <2>1, PlusIs
  <2>3. QED
    BY <1>1, <2>2, Constants, SMT DEF Index
<1>3. Minus(i, j) = 0 <=> i = j
  BY <1>1, Constants, SMT DEF Index
<1>4. QED
  BY <1>2, <1>3

\* Of three indices in order, the distances add up.
LEMMA Adds ==
  ASSUME NEW i \in Index, NEW j \in Index, NEW k \in Index, Minus(j, i) <= Minus(k, i)
  PROVE  Minus(k, j) = Minus(k, i) - Minus(j, i)
<1>1. /\ Minus(j, i) = IF j >= i THEN j - i ELSE j - i + COUNT
      /\ Minus(k, i) = IF k >= i THEN k - i ELSE k - i + COUNT
      /\ Minus(k, j) = IF k >= j THEN k - j ELSE k - j + COUNT
  BY MinusIs
<1>2. QED
  BY <1>1, Constants, SMT DEF Index

\* Moving on twice.
LEMMA Twice ==
  ASSUME NEW i \in Index, NEW j \in Nat, NEW k \in Nat, j + k <= INPUT_BUF
  PROVE  Plus(Plus(i, j), k) = Plus(i, j + k)
<1>1. j \in 0..INPUT_BUF /\ k \in 0..INPUT_BUF /\ j + k \in 0..INPUT_BUF
  BY Constants, SMT
<1>2. /\ Plus(i, j) = IF i + j < COUNT THEN i + j ELSE i + j - COUNT
      /\ Plus(i, j) \in Index
  BY <1>1, PlusIs
<1>3. Plus(i, j + k) = IF i + (j + k) < COUNT THEN i + (j + k) ELSE i + (j + k) - COUNT
  BY <1>1, PlusIs
<1>4. Plus(Plus(i, j), k) = IF Plus(i, j) + k < COUNT THEN Plus(i, j) + k
                            ELSE Plus(i, j) + k - COUNT
  BY <1>1, <1>2, PlusIs
<1>5. QED
  BY <1>2, <1>3, <1>4, Constants, SMT DEF Index

-----------------------------------------------------------------------------
\* Division with remainder.
LEMMA Division ==
  ASSUME NEW M \in Nat, M > 0, NEW x \in Nat
  PROVE  x \div M \in Nat /\ x % M \in 0..M - 1 /\ x = M * (x \div M) + (x % M)
BY SMT

\* A positive multiple of a number is no less than the number.
LEMMA Multiple ==
  ASSUME NEW M \in Nat, M > 0, NEW c \in Int, 0 < M * c
  PROVE  M <= M * c
<1>1. CASE c <= 0
  BY <1>1, SMT
<1>2. CASE c >= 1
  BY <1>2, SMT
<1>3. QED
  BY <1>1, <1>2, SMT

\* A cell is a place in the ring.
LEMMA CellIn ==
  ASSUME NEW i \in Index, NEW k \in 1..INPUT_BUF
  PROVE  Cell(i, k) \in 0..INPUT_BUF - 1
<1>1. k - 1 \in 0..INPUT_BUF
  BY Constants, SMT
<1>2. Plus(i, k - 1) \in Nat
  BY <1>1, PlusIs, Constants, SMT DEF Index
<1>3. QED
  BY <1>2, Division, Constants DEF Cell

\* The next character goes to the cell after those in the ring.
LEMMA CellFirst ==
  ASSUME NEW i \in Index
  PROVE  Cell(i, 1) = i % INPUT_BUF
<1>1. 0 \in 0..INPUT_BUF /\ 1 - 1 = 0
  BY Constants, SMT
<1>2. Plus(i, 0) = IF i + 0 < COUNT THEN i + 0 ELSE i + 0 - COUNT
  BY <1>1, PlusIs
<1>3. QED
  BY <1>1, <1>2, Constants, SMT DEF Cell, Index

\* Counting on from an index that has moved finds the same cells.
LEMMA CellShift ==
  ASSUME NEW i \in Index, NEW d \in Nat, NEW k \in Nat \ {0}, d + k <= INPUT_BUF
  PROVE  Cell(Plus(i, d), k) = Cell(i, d + k)
<1>1. k - 1 \in Nat /\ d + (k - 1) <= INPUT_BUF /\ d + (k - 1) = d + k - 1
  BY Constants, SMT
<1>2. Plus(Plus(i, d), k - 1) = Plus(i, d + (k - 1))
  BY <1>1, Twice
<1>3. QED
  BY <1>1, <1>2, SMT DEF Cell

\* The cells of as many characters as the ring has are different, also where
\* the index wraps.
LEMMA CellsDiffer ==
  ASSUME NEW i \in Index, NEW j \in 1..INPUT_BUF, NEW k \in 1..INPUT_BUF, j < k
  PROVE  Cell(i, j) # Cell(i, k)
<1> DEFINE u == Plus(i, j - 1)
           v == Plus(i, k - 1)
           a == u \div INPUT_BUF
           b == v \div INPUT_BUF
           m == COUNT \div INPUT_BUF
           d == k - j
<1> SUFFICES ASSUME u % INPUT_BUF = v % INPUT_BUF PROVE FALSE
  BY DEF Cell
<1>1. j - 1 \in 0..INPUT_BUF /\ k - 1 \in 0..INPUT_BUF /\ d \in 1..INPUT_BUF - 1
  BY Constants, SMT
<1>2. /\ u = IF i + (j - 1) < COUNT THEN i + (j - 1) ELSE i + (j - 1) - COUNT
      /\ v = IF i + (k - 1) < COUNT THEN i + (k - 1) ELSE i + (k - 1) - COUNT
      /\ u \in Index /\ v \in Index
  BY <1>1, PlusIs
<1> HIDE DEF u, v
<1>3. u \in Nat /\ v \in Nat /\ (v = u + d \/ v = u + d - COUNT)
  BY <1>1, <1>2, Constants, SMT DEF Index
<1>4. /\ a \in Nat /\ u % INPUT_BUF \in Nat /\ u = INPUT_BUF * a + (u % INPUT_BUF)
      /\ b \in Nat /\ v = INPUT_BUF * b + (v % INPUT_BUF)
  BY <1>3, Constants, Division, SMT
<1>5. m \in Nat /\ COUNT = INPUT_BUF * m
  BY Constants, ConsoleConstants, Division, SMT
<1> HIDE DEF a, b, m, d
<1>6. CASE v = u + d
  <2>1. b - a \in Int /\ d = INPUT_BUF * (b - a)
    BY <1>1, <1>3, <1>4, <1>6, Constants, SMT
  <2>2. QED
    BY <1>1, <2>1, Constants, Multiple, SMT
<1>7. CASE v = u + d - COUNT
  <2> DEFINE c == b - a + m
  <2>1. c \in Int /\ d = INPUT_BUF * c
    BY <1>1, <1>3, <1>4, <1>5, <1>7, Constants, SMT
  <2> HIDE DEF c
  <2>2. QED
    BY <1>1, <2>1, Constants, Multiple, SMT
<1>8. QED
  BY <1>3, <1>6, <1>7

-----------------------------------------------------------------------------
Entered == Minus(w, r)
Typed == Minus(e, r)

\* The line that is edited has no end in it.
LineInv == \A k \in Entered + 1..Typed : At(r, k) \notin {Newline, Eof}

\* What is in the ring was typed.
TypedInv == \A k \in 1..Typed : At(r, k) \in Chars

\* A reader starts with nothing; one that goes on has got no newline and wants more.
ReadInv ==
  \A p \in Readers :
    /\ pc[p] = "user" => dst[p] = <<>>
    /\ pc[p] \in {"awake", "asleep"} =>
         n[p] > 0 /\ (dst[p] # <<>> => dst[p][Len(dst[p])] # Newline)

IndInv == RingSound /\ LineInv /\ TypedInv /\ ReadInv

\* The three indices, as distances from the first.
LEMMA RingFacts ==
  ASSUME RingSound
  PROVE  /\ r \in Index /\ w \in Index /\ e \in Index
         /\ Entered \in Nat /\ Typed \in Nat /\ Entered <= Typed /\ Typed <= INPUT_BUF
         /\ w = Plus(r, Entered) /\ e = Plus(r, Typed)
         /\ Minus(e, w) = Typed - Entered
         /\ Entered = 0 <=> r = w
         /\ Typed = Entered <=> e = w
<1>1. /\ r \in Index /\ w \in Index /\ e \in Index
      /\ Minus(w, r) <= Minus(e, r) /\ Minus(e, r) <= INPUT_BUF
  BY DEF RingSound, TypeOK, Index
<1>2. Minus(w, r) \in Nat /\ Minus(e, r) \in Nat /\ Minus(w, r) <= INPUT_BUF
  BY <1>1, MinusIs, Constants, SMT DEF Index
<1>3. w = Plus(r, Minus(w, r)) /\ e = Plus(r, Minus(e, r))
  BY <1>1, <1>2, Reached
<1>4. Minus(e, w) = Minus(e, r) - Minus(w, r)
  BY <1>1, Adds
<1>5. (Minus(w, r) = 0 <=> r = w) /\ (Minus(e, w) = 0 <=> e = w)
  BY <1>1, Reached
<1>6. QED
  BY <1>1, <1>2, <1>3, <1>4, <1>5 DEF Entered, Typed

\* The line is what follows the entered characters.
LEMMA LineAt ==
  ASSUME RingSound, NEW k \in 1..Typed - Entered
  PROVE  At(w, k) = At(r, Entered + k)
<1>1. Cell(Plus(r, Entered), k) = Cell(r, Entered + k)
  BY RingFacts, CellShift, Constants, SMT
<1>2. QED
  BY <1>1, RingFacts DEF At, Cell

\* What follows a character that is read.
LEMMA ReadAt ==
  ASSUME RingSound, NEW m \in 0..Entered, NEW k \in 1..Typed - m
  PROVE  At(Plus(r, m), k) = At(r, m + k)
<1>1. Cell(Plus(r, m), k) = Cell(r, m + k)
  BY RingFacts, CellShift, Constants, SMT
<1>2. QED
  BY <1>1 DEF At, Cell

\* A character typed comes after those in the ring and overwrites none of them.
LEMMA InputFacts ==
  ASSUME RingSound, NEW c \in Chars, Input(c)
  PROVE  /\ r' = r /\ Typed < INPUT_BUF /\ Typed' = Typed + 1
         /\ e' \in Index
         /\ \A k \in 1..Typed : At(r, k)' = At(r, k)
         /\ At(r, Typed)' = c
         /\ Enters(c) <=> (c \in {Newline, Eof} \/ Typed + 1 = INPUT_BUF)
<1>1. /\ r' = r /\ buf' = [buf EXCEPT ![e % INPUT_BUF] = c] /\ e' = Plus(e, 1)
      /\ Typed < INPUT_BUF
  BY DEF Input, Room, Typed
<1>2. 1 \in 0..INPUT_BUF /\ INPUT_BUF \in 0..INPUT_BUF /\ 0 \in 0..INPUT_BUF
  BY Constants, SMT
<1>3. e' \in Index /\ Minus(Plus(e, 1), r) = Minus(e, r) + 1
  BY <1>1, <1>2, RingFacts, PlusIs, Ahead, Constants, SMT DEF Typed
<1>4. Typed' = Typed + 1
  BY <1>1, <1>3 DEF Typed
<1>5. Cell(e, 1) = e % INPUT_BUF /\ Cell(e, 1) = Cell(r, Typed + 1)
  <2>1. Cell(Plus(r, Typed), 1) = Cell(r, Typed + 1)
    BY <1>1, RingFacts, CellShift, Constants, SMT
  <2>2. QED
    BY <2>1, RingFacts, CellFirst
<1>6. Typed + 1 \in 1..INPUT_BUF /\ Cell(r, Typed + 1) \in 0..INPUT_BUF - 1
  BY <1>1, RingFacts, CellIn, Constants, SMT
<1>7. DOMAIN buf = 0..INPUT_BUF - 1
  BY DEF RingSound, TypeOK
<1>8. \A k : At(r, k) = buf[Cell(r, k)] /\ At(r, k)' = buf'[Cell(r, k)]
  BY <1>1 DEF At, Cell, Plus
<1>9. At(r, Typed)' = c
  <2>1. buf'[Cell(r, Typed + 1)] = c
    BY <1>1, <1>5, <1>6, <1>7
  <2>2. QED
    BY <1>1, <2>1, <1>4 DEF At, Cell, Plus
<1>10. ASSUME NEW k \in 1..Typed PROVE At(r, k)' = At(r, k)
  <2>1. k \in 1..INPUT_BUF /\ k < Typed + 1
    BY <1>1, RingFacts, Constants, SMT
  <2>2. Cell(r, k) # Cell(r, Typed + 1)
    BY <2>1, <1>6, RingFacts, CellsDiffer
  <2>3. Cell(r, k) \in 0..INPUT_BUF - 1
    BY <2>1, RingFacts, CellIn
  <2>4. QED
    BY <1>1, <1>5, <1>7, <1>8, <2>2, <2>3
<1>11. Plus(e, 1) = Plus(r, INPUT_BUF) <=> Typed + 1 = INPUT_BUF
  <2>1. Plus(e, 1) = Plus(r, Typed + 1)
    BY <1>1, RingFacts, Twice, Constants, SMT
  <2>2. /\ Minus(Plus(r, Typed + 1), r) = Typed + 1
        /\ Minus(Plus(r, INPUT_BUF), r) = INPUT_BUF
    <3>1. Minus(r, r) = 0
      BY RingFacts, Reached
    <3>2. QED
      BY <1>2, <1>6, <3>1, RingFacts, Ahead, Constants, SMT
  <2>3. QED
    BY <2>1, <2>2
<1>12. QED
  BY <1>1, <1>3, <1>4, <1>9, <1>10, <1>11 DEF Enters

-----------------------------------------------------------------------------
LEMMA InitInv == Init => IndInv
<1> SUFFICES ASSUME Init PROVE IndInv
  OBVIOUS
<1>1. r \in Index /\ w = r /\ e = r
  BY Constants, SMT DEF Init, Index
<1>2. Minus(w, r) = 0 /\ Minus(e, r) = 0
  BY <1>1, Reached
<1>3. TypeOK
  BY Constants, SMT DEF Init, TypeOK
<1>4. RingSound
  BY <1>1, <1>2, <1>3, Constants, SMT DEF RingSound, Room
<1>5. LineInv /\ TypedInv
  BY <1>2, SMT DEF LineInv, TypedInv, Entered, Typed
<1>6. ReadInv
  BY DEF Init, ReadInv
<1>7. QED
  BY <1>4, <1>5, <1>6 DEF IndInv

LEMMA InputInv ==
  ASSUME IndInv, NEW c \in Chars, Input(c)
  PROVE  IndInv'
<1>1. RingSound /\ LineInv /\ TypedInv /\ ReadInv /\ TypeOK
  BY DEF IndInv, RingSound
<1>2. /\ r' = r /\ Typed < INPUT_BUF /\ Typed' = Typed + 1
      /\ e' \in Index
      /\ \A k \in 1..Typed : At(r, k)' = At(r, k)
      /\ At(r, Typed)' = c
      /\ Enters(c) <=> (c \in {Newline, Eof} \/ Typed + 1 = INPUT_BUF)
  BY <1>1, InputFacts
<1>3. /\ Entered \in Nat /\ Typed \in Nat /\ Entered <= Typed
      /\ r \in Index /\ w \in Index
  BY <1>1, RingFacts
<1>4. IF Enters(c) THEN w' = e' /\ pc' = Woken ELSE w' = w /\ pc' = pc
  BY DEF Input
<1>5. Entered' = IF Enters(c) THEN Typed' ELSE Entered
  BY <1>2, <1>4 DEF Entered, Typed
<1>6. TypeOK'
  <2>1. buf' \in [0..INPUT_BUF - 1 -> Chars \cup {"nul"}]
    BY <1>1 DEF Input, TypeOK
  <2>2. pc' \in [Readers -> {"user", "awake", "asleep", "done"}]
    BY <1>1, <1>4 DEF TypeOK, Woken
  <2>3. {r', w', e'} \subseteq 0..COUNT - 1
    BY <1>2, <1>3, <1>4 DEF Index
  <2>4. QED
    BY <1>1, <2>1, <2>2, <2>3 DEF Input, TypeOK
<1>7. RingSound'
  <2>1. Entered' <= Typed' /\ Typed' <= INPUT_BUF
    BY <1>2, <1>3, <1>5, Constants, SMT
  <2>2. ~Room' => w' = e'
    BY <1>2, <1>3, <1>4, Constants, SMT DEF Room, Typed
  <2>3. ASSUME NEW p \in Readers, pc'[p] = "asleep" PROVE r' = w'
    BY <1>1, <1>2, <1>4, <2>3 DEF Woken, RingSound, TypeOK
  <2>4. QED
    BY <1>6, <2>1, <2>2, <2>3 DEF RingSound, Entered, Typed
<1>8. LineInv'
  <2>1. ASSUME NEW k \in Entered' + 1..Typed' PROVE At(r, k)' \notin {Newline, Eof}
    <3>1. ~Enters(c) /\ Entered' = Entered
      BY <1>2, <1>3, <1>5, <2>1, SMT
    <3>2. CASE k = Typed'
      BY <1>2, <3>1, <3>2
    <3>3. CASE k # Typed'
      <4>1. k \in Entered + 1..Typed /\ k \in 1..Typed
        BY <1>2, <1>3, <3>1, <3>3, SMT
      <4>2. QED
        BY <1>1, <1>2, <4>1 DEF LineInv
    <3>4. QED
      BY <3>2, <3>3
  <2>2. QED
    BY <2>1 DEF LineInv
<1>9. TypedInv'
  <2>1. ASSUME NEW k \in 1..Typed' PROVE At(r, k)' \in Chars
    <3>1. CASE k = Typed'
      BY <1>2, <3>1
    <3>2. CASE k # Typed'
      <4>1. k \in 1..Typed
        BY <1>2, <1>3, <3>2, SMT
      <4>2. QED
        BY <1>1, <1>2, <4>1 DEF TypedInv
    <3>3. QED
      BY <3>1, <3>2
  <2>2. QED
    BY <2>1 DEF TypedInv
<1>10. ReadInv'
  BY <1>1, <1>4, SMT DEF Input, ReadInv, Woken, TypeOK
<1>11. QED
  BY <1>7, <1>8, <1>9, <1>10 DEF IndInv

\* Erasing moves e back, no further than the line.
LEMMA EraseInv ==
  ASSUME IndInv, e' \in Index, e # w,
         Typed' \in Nat, Entered <= Typed', Typed' < Typed,
         UNCHANGED <<buf, r, w, pc, n, dst, killed>>
  PROVE  IndInv'
<1>1. RingSound /\ LineInv /\ TypedInv /\ ReadInv /\ TypeOK
  BY DEF IndInv, RingSound
<1>2. Entered \in Nat /\ Typed \in Nat /\ Typed <= INPUT_BUF /\ Entered' = Entered
  BY <1>1, RingFacts DEF Entered
<1>3. TypeOK'
  BY <1>1 DEF TypeOK, Index
<1>4. RingSound'
  <2>1. Typed' <= INPUT_BUF /\ Entered' <= Typed' /\ Room'
    BY <1>2, Constants, SMT DEF Room, Typed
  <2>2. ASSUME NEW p \in Readers, pc'[p] = "asleep" PROVE r' = w'
    BY <1>1, <2>2 DEF RingSound
  <2>3. QED
    BY <1>3, <2>1, <2>2 DEF RingSound, Entered, Typed
<1>5. \A k : At(r, k)' = At(r, k)
  BY DEF At, Plus
<1>6. LineInv'
  <2>1. ASSUME NEW k \in Entered' + 1..Typed' PROVE At(r, k)' \notin {Newline, Eof}
    <3>1. k \in Entered + 1..Typed
      BY <1>2, SMT
    <3>2. QED
      BY <1>1, <1>5, <3>1 DEF LineInv
  <2>2. QED
    BY <2>1 DEF LineInv
<1>7. TypedInv'
  <2>1. ASSUME NEW k \in 1..Typed' PROVE At(r, k)' \in Chars
    <3>1. k \in 1..Typed
      BY <1>2, SMT
    <3>2. QED
      BY <1>1, <1>5, <3>1 DEF TypedInv
  <2>2. QED
    BY <2>1 DEF TypedInv
<1>8. ReadInv'
  BY <1>1 DEF ReadInv
<1>9. QED
  BY <1>4, <1>6, <1>7, <1>8 DEF IndInv

\* A backspace erases the last character of the line.
LEMMA BackspaceFacts ==
  ASSUME RingSound, Backspace
  PROVE  e' \in Index /\ Typed' = Typed - 1 /\ Entered < Typed
<1>1. e # w /\ e' = Minus(e, 1) /\ r' = r
  BY DEF Backspace
<1>2. e \in Index /\ r \in Index /\ Entered < Typed
  BY <1>1, RingFacts, SMT
<1>3. e # r
  <2>1. Typed # 0
    BY <1>2, RingFacts, SMT
  <2>2. QED
    BY <1>2, <2>1, Reached DEF Typed
<1>4. Minus(e, 1) \in Index /\ Minus(Minus(e, 1), r) = Minus(e, r) - 1
  BY <1>2, <1>3, Back
<1>5. QED
  BY <1>1, <1>2, <1>4 DEF Typed

\* Killing the line erases all of it, for it has no newline in it.
LEMMA KillLineFacts ==
  ASSUME IndInv, KillLine
  PROVE  e' = w /\ Typed' = Entered /\ Entered < Typed
<1>1. RingSound /\ LineInv
  BY DEF IndInv
<1>2. PICK k \in 0..Minus(e, w) : (k > 0 => At(w, k) = Newline) /\ e' = Plus(w, k)
  BY DEF KillLine
<1>3. Minus(e, w) = Typed - Entered /\ Entered < Typed /\ w \in Index /\ Entered \in Nat
      /\ Typed \in Nat
  BY <1>1, RingFacts, SMT DEF KillLine
<1>4. k = 0
  <2> SUFFICES ASSUME k > 0 PROVE FALSE
    BY <1>2, <1>3, SMT
  <2>1. k \in 1..Typed - Entered /\ Entered + k \in Entered + 1..Typed
    BY <1>2, <1>3, SMT
  <2>2. At(w, k) = At(r, Entered + k)
    BY <1>1, <2>1, LineAt
  <2>3. QED
    BY <1>1, <1>2, <2>1, <2>2 DEF LineInv
<1>5. Plus(w, 0) = w
  <2>1. Minus(w, w) = 0 /\ 0 <= INPUT_BUF
    BY <1>3, Reached, Constants, SMT
  <2>2. QED
    BY <1>3, <2>1, Reached
<1>6. e' = w /\ r' = r
  BY <1>2, <1>4, <1>5 DEF KillLine
<1>7. QED
  BY <1>3, <1>6 DEF Typed, Entered

LEMMA KeyboardInv == IndInv /\ Keyboard => IndInv'
<1> SUFFICES ASSUME IndInv, Keyboard PROVE IndInv'
  OBVIOUS
<1>1. RingSound
  BY DEF IndInv
<1>2. w \in Index /\ Entered \in Nat /\ Typed \in Nat
  BY <1>1, RingFacts
<1>3. CASE Backspace
  <2>1. e' \in Index /\ Typed' = Typed - 1 /\ Entered < Typed
    BY <1>1, <1>3, BackspaceFacts
  <2>2. Typed' \in Nat /\ Entered <= Typed' /\ Typed' < Typed
    BY <1>2, <2>1, SMT
  <2>3. e # w /\ UNCHANGED <<buf, r, w, pc, n, dst, killed>>
    BY <1>3 DEF Backspace
  <2>4. QED
    BY <2>1, <2>2, <2>3, EraseInv
<1>4. CASE KillLine
  <2>1. e' = w /\ Typed' = Entered /\ Entered < Typed
    BY <1>4, KillLineFacts
  <2>2. e' \in Index /\ Typed' \in Nat /\ Entered <= Typed' /\ Typed' < Typed
    BY <1>2, <2>1, SMT
  <2>3. e # w /\ UNCHANGED <<buf, r, w, pc, n, dst, killed>>
    BY <1>4 DEF KillLine
  <2>4. QED
    BY <2>2, <2>3, EraseInv
<1>5. CASE \E c \in Chars : Input(c)
  BY <1>5, InputInv
<1>6. QED
  BY <1>3, <1>4, <1>5 DEF Keyboard

-----------------------------------------------------------------------------
\* Of the first k characters, those that reach the reader and those that are used up.
Took(k) == IF k > 0 /\ At(r, k) = Eof THEN k - 1 ELSE k
Gone(p, k) == IF k > 0 /\ At(r, k) = Eof /\ SavesEof(p, k) THEN k - 1 ELSE k

\* The loop of consoleread that looks at k characters.
LoopStep(p, k) ==
  /\ pc[p] = "awake"
  /\ k = Entered \/ Last(p, k)
  /\ \A j \in 1..k - 1 : ~Last(p, j)
  /\ r' = Plus(r, Gone(p, k))
  /\ dst' = [dst EXCEPT ![p] = @ \o [i \in 1..Took(k) |-> At(r, i)]]
  /\ n' = [n EXCEPT ![p] = @ - Took(k)]
  /\ pc' = [pc EXCEPT ![p] =
              IF Last(p, k) THEN "done" ELSE IF killed[p] THEN "awake" ELSE "asleep"]
  /\ killed' = killed \/ killed' = [killed EXCEPT ![p] = TRUE]
  /\ UNCHANGED <<buf, w, e>>

LEMMA LoopIs ==
  ASSUME NEW p, Loop(p)
  PROVE  \E k \in 0..Entered : LoopStep(p, k)
BY DEF Loop, KilledLate, LoopStep, Entered, Took, Gone

\* Reading m characters leaves the rest of the ring in place.
LEMMA ReadShift ==
  ASSUME RingSound, NEW m \in 0..Entered, r' = Plus(r, m), UNCHANGED <<buf, w, e>>
  PROVE  /\ r' \in Index /\ Entered' = Entered - m /\ Typed' = Typed - m
         /\ \A j \in 1..Typed - m : At(r, j)' = At(r, m + j)
<1>1. m \in 0..INPUT_BUF /\ m <= Entered /\ m <= Typed
  BY RingFacts, Constants, SMT
<1>2. r' \in Index
  BY <1>1, RingFacts, PlusIs
<1>3. Minus(w, Plus(r, m)) = Entered - m /\ Minus(e, Plus(r, m)) = Typed - m
  BY <1>1, RingFacts, Behind DEF Entered, Typed
<1>4. Entered' = Entered - m /\ Typed' = Typed - m
  BY <1>3 DEF Entered, Typed
<1>5. ASSUME NEW j \in 1..Typed - m PROVE At(r, j)' = At(r, m + j)
  <2>1. At(Plus(r, m), j) = At(r, m + j)
    BY ReadAt
  <2>2. At(r, j)' = At(Plus(r, m), j)
    BY DEF At, Plus
  <2>3. QED
    BY <2>1, <2>2
<1>6. QED
  BY <1>2, <1>4, <1>5

\* A reader gets no more than it asked for, and no more than has been entered.
LEMMA LoopFacts ==
  ASSUME IndInv, NEW p \in Readers, NEW k \in 0..Entered, LoopStep(p, k)
  PROVE  /\ Took(k) \in Nat /\ Took(k) <= k /\ k <= n[p] /\ n[p] \in Nat
         /\ Gone(p, k) \in 0..Entered
         /\ ~Last(p, k) => k = Entered /\ Took(k) = k /\ Gone(p, k) = k /\ k < n[p]
         /\ ~Last(p, k) /\ k > 0 => At(r, k) # Newline
         /\ \A i \in 1..k : At(r, i) \in Chars
<1>1. RingSound /\ TypedInv /\ ReadInv /\ TypeOK
  BY DEF IndInv, RingSound
<1>2. Entered \in Nat /\ Typed \in Nat /\ Entered <= Typed
  BY <1>1, RingFacts
<1>3. n[p] \in Nat /\ n[p] > 0
  BY <1>1 DEF TypeOK, ReadInv, LoopStep
<1>4. Took(k) \in Nat /\ Took(k) <= k /\ Gone(p, k) \in 0..Entered
  BY <1>2, SMT DEF Took, Gone
<1>5. k <= n[p]
  <2> SUFFICES ASSUME n[p] < k PROVE FALSE
    BY <1>2, <1>3, SMT
  <2>1. n[p] \in 1..k - 1
    BY <1>2, <1>3, SMT
  <2>2. Last(p, n[p])
    BY <1>3 DEF Last
  <2>3. QED
    BY <2>1, <2>2 DEF LoopStep
<1>6. ASSUME ~Last(p, k)
      PROVE  /\ k = Entered /\ Took(k) = k /\ Gone(p, k) = k /\ k < n[p]
             /\ k > 0 => At(r, k) # Newline
  <2>1. k = Entered /\ (k > 0 => At(r, k) \notin {Newline, Eof} /\ k # n[p])
    BY <1>6 DEF LoopStep, Last
  <2>2. k < n[p]
    BY <1>2, <1>3, <1>5, <2>1, SMT
  <2>3. QED
    BY <2>1, <2>2 DEF Took, Gone
<1>7. ASSUME NEW i \in 1..k PROVE At(r, i) \in Chars
  <2>1. i \in 1..Typed
    BY <1>2, SMT
  <2>2. QED
    BY <1>1, <2>1 DEF TypedInv
<1>8. QED
  BY <1>3, <1>4, <1>5, <1>6, <1>7

LEMMA LoopInv ==
  ASSUME IndInv, NEW p \in Readers, NEW k \in 0..Entered, LoopStep(p, k)
  PROVE  IndInv'
<1> DEFINE m == Gone(p, k)
           got == [i \in 1..Took(k) |-> At(r, i)]
<1>1. RingSound /\ LineInv /\ TypedInv /\ ReadInv /\ TypeOK
  BY DEF IndInv, RingSound
<1>2. /\ Took(k) \in Nat /\ Took(k) <= k /\ k <= n[p] /\ n[p] \in Nat
      /\ m \in 0..Entered
      /\ ~Last(p, k) => k = Entered /\ Took(k) = k /\ m = k /\ k < n[p]
      /\ ~Last(p, k) /\ k > 0 => At(r, k) # Newline
      /\ \A i \in 1..k : At(r, i) \in Chars
  BY LoopFacts
<1>3. /\ Entered \in Nat /\ Typed \in Nat /\ Entered <= Typed /\ Typed <= INPUT_BUF
      /\ w \in Index /\ e \in Index /\ r \in Index
      /\ Entered = 0 <=> r = w
      /\ Typed = Entered <=> e = w
  BY <1>1, RingFacts
<1>4. /\ r' = Plus(r, m) /\ UNCHANGED <<buf, w, e>>
      /\ dst' = [dst EXCEPT ![p] = @ \o got]
      /\ n' = [n EXCEPT ![p] = @ - Took(k)]
      /\ pc' = [pc EXCEPT ![p] =
                  IF Last(p, k) THEN "done" ELSE IF killed[p] THEN "awake" ELSE "asleep"]
  BY DEF LoopStep
<1>5. /\ r' \in Index /\ Entered' = Entered - m /\ Typed' = Typed - m
      /\ \A j \in 1..Typed - m : At(r, j)' = At(r, m + j)
  BY <1>1, <1>2, <1>4, ReadShift
<1>6. got \in Seq(Chars) /\ Len(got) = Took(k)
  BY <1>2, SMT
<1> HIDE DEF m, got
<1>7. TypeOK'
  <2>1. n' \in [Readers -> Nat]
    BY <1>1, <1>2, <1>4, SMT DEF TypeOK
  <2>2. dst' \in [Readers -> Seq(Chars)]
    <3>1. dst[p] \in Seq(Chars)
      BY <1>1 DEF TypeOK
    <3>2. dst[p] \o got \in Seq(Chars)
      BY <1>6, <3>1, SMT
    <3>3. QED
      BY <1>1, <1>4, <3>2 DEF TypeOK
  <2>3. pc' \in [Readers -> {"user", "awake", "asleep", "done"}]
    BY <1>1, <1>4 DEF TypeOK
  <2>4. killed' \in [Readers -> BOOLEAN]
    BY <1>1 DEF TypeOK, LoopStep
  <2>5. QED
    BY <1>1, <1>4, <1>5, <2>1, <2>2, <2>3, <2>4 DEF TypeOK, Index
<1>8. RingSound'
  <2>1. Entered' <= Typed' /\ Typed' <= INPUT_BUF
    BY <1>2, <1>3, <1>5, Constants, SMT
  <2>2. ~Room' => w' = e'
    <3> SUFFICES ASSUME ~(Typed' < INPUT_BUF) PROVE w' = e'
      BY DEF Room, Typed
    <3>1. Typed = INPUT_BUF
      BY <1>2, <1>3, <1>5, Constants, SMT
    <3>2. ~Room
      BY <3>1, Constants, SMT DEF Room, Typed
    <3>3. QED
      BY <1>1, <1>4, <3>2 DEF RingSound
  <2>3. ASSUME NEW q \in Readers, pc'[q] = "asleep" PROVE r' = w'
    <3>1. Entered' = 0
      <4>1. CASE q = p
        <5>1. ~Last(p, k)
          BY <1>1, <1>4, <2>3, <4>1 DEF TypeOK
        <5>2. QED
          BY <1>2, <1>3, <1>5, <5>1, SMT
      <4>2. CASE q # p
        <5>1. pc[q] = "asleep"
          BY <1>1, <1>4, <2>3, <4>2 DEF TypeOK
        <5>2. Entered = 0
          BY <1>1, <1>3, <5>1 DEF RingSound
        <5>3. m = 0
          BY <1>2, <5>2, SMT
        <5>4. QED
          BY <1>5, <5>2, <5>3, SMT
      <4>3. QED
        BY <4>1, <4>2
    <3>2. r' \in Index /\ w' \in Index /\ Minus(w', r') = 0
      BY <1>3, <1>4, <1>5, <3>1 DEF Entered
    <3>3. QED
      BY <3>2, Reached
  <2>4. QED
    BY <1>7, <2>1, <2>2, <2>3 DEF RingSound, Entered, Typed
<1>9. LineInv'
  <2>1. ASSUME NEW j \in Entered' + 1..Typed' PROVE At(r, j)' \notin {Newline, Eof}
    <3>1. m + j \in Entered + 1..Typed /\ j \in 1..Typed - m
      BY <1>2, <1>3, <1>5, SMT
    <3>2. QED
      BY <1>1, <1>5, <3>1 DEF LineInv
  <2>2. QED
    BY <2>1 DEF LineInv
<1>10. TypedInv'
  <2>1. ASSUME NEW j \in 1..Typed' PROVE At(r, j)' \in Chars
    <3>1. m + j \in 1..Typed /\ j \in 1..Typed - m
      BY <1>2, <1>3, <1>5, SMT
    <3>2. QED
      BY <1>1, <1>5, <3>1 DEF TypedInv
  <2>2. QED
    BY <2>1 DEF TypedInv
<1>11. ReadInv'
  <2>0. ASSUME NEW q \in Readers, pc'[q] = "user" PROVE dst'[q] = <<>>
    <3>1. q # p /\ pc[q] = "user"
      BY <1>1, <1>4, <2>0 DEF TypeOK, LoopStep
    <3>2. QED
      BY <1>1, <1>4, <3>1 DEF TypeOK, ReadInv
  <2> SUFFICES ASSUME NEW q \in Readers, pc'[q] \in {"awake", "asleep"}
               PROVE  n'[q] > 0 /\ (dst'[q] # <<>> => dst'[q][Len(dst'[q])] # Newline)
    BY <2>0 DEF ReadInv
  <2>1. CASE q # p
    <3>1. pc[q] = pc'[q] /\ n'[q] = n[q] /\ dst'[q] = dst[q]
      BY <1>1, <1>4, <2>1 DEF TypeOK
    <3>2. QED
      BY <1>1, <3>1 DEF ReadInv
  <2>2. CASE q = p
    <3>1. ~Last(p, k)
      BY <1>1, <1>4, <2>2 DEF TypeOK
    <3>2. n'[p] = n[p] - k /\ dst'[p] = dst[p] \o got
      BY <1>1, <1>2, <1>4, <3>1 DEF TypeOK
    <3>3. n'[p] > 0
      BY <1>2, <3>1, <3>2, SMT
    <3>4. dst[p] \in Seq(Chars) /\ (dst[p] # <<>> => dst[p][Len(dst[p])] # Newline)
      BY <1>1 DEF TypeOK, ReadInv, LoopStep
    <3>5. CASE k = 0
      <4>1. Len(got) = 0
        BY <1>2, <1>6, <3>1, <3>5
      <4>2. dst[p] \o got = dst[p]
        BY <1>6, <3>4, <4>1, SMT
      <4>3. QED
        BY <2>2, <3>2, <3>3, <3>4, <4>2
    <3>6. CASE k > 0
      <4>1. Len(got) = k /\ got[k] = At(r, k) /\ At(r, k) # Newline
        BY <1>2, <1>6, <3>1, <3>6, SMT DEF got
      <4>2. Len(dst[p] \o got) = Len(dst[p]) + k /\ Len(dst[p]) \in Nat
        BY <1>6, <3>4, <4>1, SMT
      <4>3. (dst[p] \o got)[Len(dst[p]) + k] = got[k]
        BY <1>6, <3>4, <3>6, <4>1, <4>2, SMT
      <4>4. QED
        BY <2>2, <3>2, <3>3, <4>1, <4>2, <4>3
    <3>7. QED
      BY <1>2, <3>5, <3>6, SMT
  <2>3. QED
    BY <2>1, <2>2
<1>12. QED
  BY <1>8, <1>9, <1>10, <1>11 DEF IndInv

-----------------------------------------------------------------------------
\* What leaves the ring alone keeps what is in it.
LEMMA RingKept ==
  ASSUME IndInv, UNCHANGED ring, TypeOK', ReadInv',
         \A p \in Readers : pc'[p] = "asleep" => pc[p] = "asleep"
  PROVE  IndInv'
<1>1. RingSound /\ LineInv /\ TypedInv
  BY DEF IndInv
<1>2. UNCHANGED <<buf, r, w, e>>
  BY DEF ring
<1>3. Entered' = Entered /\ Typed' = Typed /\ Room' = Room
  BY <1>2 DEF Entered, Typed, Room
<1>4. \A k : At(r, k)' = At(r, k)
  BY <1>2 DEF At, Plus
<1>5. LineInv' /\ TypedInv'
  BY <1>1, <1>3, <1>4 DEF LineInv, TypedInv
<1>6. RingSound'
  BY <1>1, <1>2, <1>3 DEF RingSound, Entered, Typed
<1>7. QED
  BY <1>5, <1>6 DEF IndInv

LEMMA ReaderInv ==
  ASSUME IndInv, NEW p \in Readers,
         Reader(p) \/ kill(p) \/ Replaced(p) \/ \E k \in Sizes : consoleread(p, k)
  PROVE  IndInv'
<1>1. TypeOK /\ ReadInv
  BY DEF IndInv, RingSound
<1>2. CASE Loop(p)
  BY <1>2, LoopIs, LoopInv
<1>3. CASE Killed(p)
  <2>1. TypeOK' /\ ReadInv'
    BY <1>1, <1>3 DEF Killed, TypeOK, ReadInv, ring
  <2>2. UNCHANGED ring /\ \A q \in Readers : pc'[q] = "asleep" => pc[q] = "asleep"
    BY <1>1, <1>3 DEF Killed, TypeOK
  <2>3. QED
    BY <2>1, <2>2, RingKept
<1>4. CASE Return(p)
  <2>1. TypeOK'
    BY <1>1, <1>4, SMT DEF Return, TypeOK, ring
  <2>2. ReadInv'
    BY <1>1, <1>4 DEF Return, TypeOK, ReadInv
  <2>3. UNCHANGED ring /\ \A q \in Readers : pc'[q] = "asleep" => pc[q] = "asleep"
    BY <1>1, <1>4 DEF Return, TypeOK
  <2>4. QED
    BY <2>1, <2>2, <2>3, RingKept
<1>5. CASE kill(p)
  <2>1. TypeOK' /\ ReadInv'
    BY <1>1, <1>5 DEF kill, TypeOK, ReadInv, ring
  <2>2. UNCHANGED ring /\ \A q \in Readers : pc'[q] = "asleep" => pc[q] = "asleep"
    BY <1>1, <1>5 DEF kill, TypeOK
  <2>3. QED
    BY <2>1, <2>2, RingKept
<1>6. CASE Replaced(p)
  <2>1. TypeOK' /\ ReadInv'
    BY <1>1, <1>6 DEF Replaced, TypeOK, ReadInv, ring
  <2>2. UNCHANGED ring /\ \A q \in Readers : pc'[q] = "asleep" => pc[q] = "asleep"
    BY <1>1, <1>6 DEF Replaced, TypeOK
  <2>3. QED
    BY <2>1, <2>2, RingKept
<1>7. ASSUME NEW k \in Sizes, consoleread(p, k) PROVE IndInv'
  <2>1. k \in Nat /\ k > 0
    BY ConsoleConstants, SMT
  <2>2. TypeOK'
    BY <1>1, <1>7, <2>1 DEF consoleread, TypeOK, ring
  <2>3. ReadInv'
    BY <1>1, <1>7, <2>1 DEF consoleread, TypeOK, ReadInv
  <2>4. UNCHANGED ring /\ \A q \in Readers : pc'[q] = "asleep" => pc[q] = "asleep"
    BY <1>1, <1>7 DEF consoleread, TypeOK
  <2>5. QED
    BY <2>2, <2>3, <2>4, RingKept
<1>8. QED
  BY <1>2, <1>3, <1>4, <1>5, <1>6, <1>7 DEF Reader

LEMMA NextInv == IndInv /\ [Next]_vars => IndInv'
<1> SUFFICES ASSUME IndInv, [Next]_vars PROVE IndInv'
  OBVIOUS
<1>1. CASE Keyboard
  BY <1>1, KeyboardInv
<1>2. ASSUME NEW p \in Readers,
             Reader(p) \/ kill(p) \/ Replaced(p) \/ \E k \in Sizes : consoleread(p, k)
      PROVE  IndInv'
  BY <1>2, ReaderInv
<1>3. CASE UNCHANGED vars
  <2>1. TypeOK' /\ ReadInv'
    BY <1>3 DEF vars, IndInv, RingSound, TypeOK, ReadInv
  <2>2. UNCHANGED ring /\ \A q \in Readers : pc'[q] = "asleep" => pc[q] = "asleep"
    BY <1>3 DEF vars, ring
  <2>3. QED
    BY <2>1, <2>2, RingKept
<1>4. QED
  BY <1>1, <1>2, <1>3 DEF Next

\* However the interrupts and the readers interleave and the indices wrap, the
\* ring is in order and can be read when it is full, and no reader sleeps while
\* there is input (console.c: consoleintr, consoleread).
THEOREM RingStaysSound == Spec => []RingSound
<1>1. IndInv => RingSound
  BY DEF IndInv
<1>2. QED
  BY <1>1, InitInv, NextInv, PTL DEF Spec

-----------------------------------------------------------------------------
\* The queue and the line of module Tty, counted from the first character.
Queue == [k \in 1..Entered |-> At(r, k)]
Line == [k \in 1..Typed - Entered |-> At(r, Entered + k)]

MapInv ==
  /\ Between(r, w) = Queue /\ Between(w, e) = Line
  /\ Queue \in Seq(Chars) /\ Len(Queue) = Entered
  /\ Line \in Seq(Chars) /\ Len(Line) = Typed - Entered
  /\ \A k \in 1..Entered : Queue[k] = At(r, k)
  /\ \A k \in 1..Typed - Entered : Line[k] = At(r, Entered + k)

LEMMA Mapped == IndInv => MapInv
<1> SUFFICES ASSUME IndInv PROVE MapInv
  OBVIOUS
<1>1. RingSound /\ TypedInv
  BY DEF IndInv
<1>2. /\ Entered \in Nat /\ Typed \in Nat /\ Entered <= Typed
      /\ Minus(e, w) = Typed - Entered
  BY <1>1, RingFacts
<1>3. Between(r, w) = Queue
  BY DEF Between, Queue, Entered
<1>4. Between(w, e) = Line
  <2>1. \A k \in 1..Typed - Entered : At(w, k) = At(r, Entered + k)
    BY <1>1, LineAt
  <2>2. QED
    BY <1>2, <2>1 DEF Between, Line
<1>5. \A k \in 1..Entered : At(r, k) \in Chars
  BY <1>1, <1>2, SMT DEF TypedInv
<1>6. ASSUME NEW k \in 1..Typed - Entered PROVE At(r, Entered + k) \in Chars
  <2>1. Entered + k \in 1..Typed
    BY <1>2, SMT
  <2>2. QED
    BY <1>1, <2>1 DEF TypedInv
<1>7. Queue \in Seq(Chars) /\ Len(Queue) = Entered
  BY <1>2, <1>5, SMT DEF Queue
<1>8. Line \in Seq(Chars) /\ Len(Line) = Typed - Entered
  <2>1. Typed - Entered \in Nat
    BY <1>2, SMT
  <2>2. QED
    BY <1>6, <2>1, SMT DEF Line
<1>9. /\ \A k \in 1..Entered : Queue[k] = At(r, k)
      /\ \A k \in 1..Typed - Entered : Line[k] = At(r, Entered + k)
  BY DEF Queue, Line
<1>10. QED
  BY <1>3, <1>4, <1>7, <1>8, <1>9 DEF MapInv

LEMMA MappedNext == IndInv' => MapInv'
BY Mapped, PTL

\* How long the queue and the line are.
LEMMA Lengths ==
  /\ MapInv => /\ Queue \in Seq(Chars) /\ Len(Queue) = Entered
               /\ Line \in Seq(Chars) /\ Len(Line) = Typed - Entered
  /\ MapInv' => /\ Queue' \in Seq(Chars) /\ Len(Queue') = Entered'
                /\ Line' \in Seq(Chars) /\ Len(Line') = Typed' - Entered'
BY DEF MapInv

\* What is in the ring, from the first character on.
LEMMA Cells ==
  ASSUME IndInv
  PROVE  /\ Entered \in Nat /\ Typed \in Nat /\ Entered <= Typed /\ Typed <= INPUT_BUF
         /\ RingSound
BY RingFacts DEF IndInv

\* A typed character ends the line or makes it longer.
LEMMA TypeStep ==
  ASSUME IndInv, IndInv', NEW c \in Chars, Input(c)
  PROVE  TTY!Type(c)
<1>1. MapInv /\ MapInv'
  BY Mapped, MappedNext
<1>2. /\ r' = r /\ Typed < INPUT_BUF /\ Typed' = Typed + 1
      /\ \A k \in 1..Typed : At(r, k)' = At(r, k)
      /\ At(r, Typed)' = c
      /\ Enters(c) <=> (c \in {Newline, Eof} \/ Typed + 1 = INPUT_BUF)
  BY InputFacts, Cells
<1>3. Entered \in Nat /\ Typed \in Nat /\ Entered <= Typed
  BY Cells
<1>4. Entered' = IF Enters(c) THEN Typed' ELSE Entered
  BY <1>2 DEF Entered, Typed, Input
<1> DEFINE longer == Append(Line, c)
<1>5. /\ longer \in Seq(Chars) /\ Len(longer) = Typed - Entered + 1
      /\ \A k \in 1..Typed - Entered : longer[k] = At(r, Entered + k)
      /\ longer[Typed - Entered + 1] = c
  BY <1>1, AppendProperties, SMT DEF MapInv
<1> HIDE DEF longer
<1>6. /\ Line' = IF Enters(c) THEN <<>> ELSE longer
      /\ Queue' = IF Enters(c) THEN Queue \o longer ELSE Queue
  <2>1. CASE Enters(c)
    <3>1. Line' = <<>>
      <4>1. Len(Line') = 0 /\ Line' \in Seq(Chars)
        BY <1>1, <1>2, <1>3, <1>4, <2>1, Lengths, SMT
      <4>2. QED
        BY <4>1, SMT
    <3> DEFINE t == Queue \o longer
    <3>2. /\ t \in Seq(Chars) /\ Len(t) = Typed + 1
          /\ \A k \in 1..Typed + 1 : t[k] = IF k <= Entered THEN Queue[k] ELSE longer[k - Entered]
      <4>1. Queue \in Seq(Chars) /\ Len(Queue) = Entered
        BY <1>1 DEF MapInv
      <4>2. Len(Queue) + Len(longer) = Typed + 1
        BY <1>3, <1>5, <4>1, SMT
      <4>3. longer \in Seq(Chars)
        BY <1>5
      <4>4. /\ t \in Seq(Chars) /\ Len(t) = Len(Queue) + Len(longer)
            /\ \A k \in 1..Len(Queue) + Len(longer) :
                 t[k] = IF k <= Len(Queue) THEN Queue[k] ELSE longer[k - Len(Queue)]
        BY <4>1, <4>3, ConcatProperties
      <4>5. QED
        BY <4>1, <4>2, <4>4
    <3> HIDE DEF t
    <3>3. Queue' \in Seq(Chars) /\ Len(Queue') = Typed + 1
      BY <1>1, <1>2, <1>4, <2>1 DEF MapInv
    <3>4. ASSUME NEW k \in 1..Typed + 1 PROVE Queue'[k] = t[k]
      <4>1. Queue'[k] = At(r, k)'
        BY <1>1, <1>2, <1>4, <2>1 DEF MapInv
      <4>2. CASE k <= Entered
        <5>1. Queue[k] = At(r, k) /\ k \in 1..Typed
          BY <1>1, <1>3, <4>2, SMT DEF MapInv
        <5>2. QED
          BY <1>2, <3>2, <4>1, <4>2, <5>1
      <4>3. CASE k > Entered /\ k <= Typed
        <5>1. k - Entered \in 1..Typed - Entered /\ Entered + (k - Entered) = k /\ k \in 1..Typed
          BY <1>3, <4>3, SMT
        <5>2. longer[k - Entered] = At(r, k)
          BY <1>5, <5>1
        <5>3. QED
          BY <1>2, <1>3, <3>2, <4>1, <4>3, <5>1, <5>2, SMT
      <4>4. CASE k = Typed + 1
        <5>1. t[k] = longer[k - Entered] /\ k - Entered = Typed - Entered + 1
          BY <1>3, <3>2, <4>4, SMT
        <5>2. QED
          BY <1>2, <1>5, <4>1, <4>4, <5>1
      <4>5. QED
        BY <1>3, <4>2, <4>3, <4>4, SMT
    <3>5. Queue' = t
      BY <3>2, <3>3, <3>4, SeqEqual
    <3>6. QED
      BY <2>1, <3>1, <3>5 DEF t
  <2>2. CASE ~Enters(c)
    <3>1. Entered' = Entered
      BY <1>4, <2>2
    <3>2. Queue' = Queue
      <4>1. \A k \in 1..Entered : At(r, k)' = At(r, k)
        BY <1>2, <1>3, SMT
      <4>2. QED
        BY <3>1, <4>1 DEF Queue
    <3>3. Line' \in Seq(Chars) /\ Len(Line') = Len(longer)
      <4>1. Line' \in Seq(Chars) /\ Len(Line') = Typed' - Entered'
        BY <1>1, Lengths
      <4>2. Typed' - Entered' = Typed - Entered + 1
        BY <1>2, <1>3, <3>1, SMT
      <4>3. QED
        BY <1>5, <4>1, <4>2
    <3>4. ASSUME NEW k \in 1..Len(Line') PROVE Line'[k] = longer[k]
      <4>1. Line'[k] = At(r, Entered + k)' /\ k \in 1..Typed - Entered + 1
        BY <1>1, <1>2, <1>3, <1>5, <3>1, <3>3 DEF MapInv
      <4>2. PICK j : j = Entered + k
        OBVIOUS
      <4>3. Line'[k] = At(r, j)'
        BY <3>1, <4>1, <4>2 DEF At
      <4>4. CASE k = Typed - Entered + 1
        <5>1. j = Typed'
          BY <1>2, <1>3, <4>2, <4>4, SMT
        <5>2. Line'[k] = c
          BY <1>2, <4>3, <5>1 DEF At
        <5>3. QED
          BY <1>5, <4>4, <5>2
      <4>5. CASE k # Typed - Entered + 1
        <5>1. k \in 1..Typed - Entered /\ j \in 1..Typed
          BY <1>3, <4>1, <4>2, <4>5, SMT
        <5>2. QED
          BY <1>2, <1>5, <4>2, <4>3, <5>1
      <4>6. QED
        BY <4>4, <4>5
    <3>5. QED
      BY <1>5, <2>2, <3>2, <3>3, <3>4, SeqEqual
  <2>3. QED
    BY <2>1, <2>2
<1>7. Enters(c) <=> (c \in {Newline, Eof} \/ Len(Queue) + Len(longer) = INPUT_BUF)
  <2>1. Len(Queue) = Entered
    BY <1>1, Lengths
  <2>2. Len(Queue) + Len(longer) = Typed + 1
    BY <1>3, <1>5, <2>1, SMT
  <2>3. QED
    BY <1>2, <2>2
<1>8. Len(Queue) + Len(Line) < INPUT_BUF
  <2>1. Len(Queue) = Entered /\ Len(Line) = Typed - Entered
    BY <1>1, Lengths
  <2>2. QED
    BY <1>2, <1>3, <2>1, SMT
<1>9. dst' = dst
  BY DEF Input
<1>10. QED
  BY <1>1, <1>6, <1>7, <1>8, <1>9 DEF TTY!Type, MapInv, longer

\* A key that erases takes away the last character of the line, or all of it.
LEMMA EraseStep ==
  ASSUME IndInv, IndInv', Backspace \/ KillLine
  PROVE  TTY!Erase
<1>1. MapInv /\ MapInv'
  BY Mapped, MappedNext
<1>2. Entered \in Nat /\ Typed \in Nat /\ Entered <= Typed /\ RingSound
  BY Cells
<1>3. UNCHANGED <<buf, r, w, dst>>
  BY DEF Backspace, KillLine
<1>4. Entered' = Entered /\ \A k : At(r, k)' = At(r, k)
  BY <1>3 DEF Entered, At, Plus
<1>5. Queue' = Queue
  BY <1>4 DEF Queue
<1>6. Entered < Typed /\ Typed' = (IF Backspace THEN Typed - 1 ELSE Entered)
  BY <1>2, BackspaceFacts, KillLineFacts
<1>7. Line # <<>>
  BY <1>1, <1>2, <1>6, Lengths, SMT
<1>8. Line' \in {<<>>, SubSeq(Line, 1, Len(Line) - 1)}
  <2>1. CASE ~Backspace
    <3>1. Len(Line') = 0 /\ Line' \in Seq(Chars)
      BY <1>1, <1>2, <1>4, <1>6, <2>1, Lengths, SMT
    <3>2. QED
      BY <3>1, SMT
  <2>2. CASE Backspace
    <3> DEFINE t == SubSeq(Line, 1, Len(Line) - 1)
               len == Typed - Entered - 1
    <3>1. len \in Nat /\ Len(Line) - 1 = len
      BY <1>1, <1>2, <1>6, Lengths, SMT
    <3>2. \A k \in 1..len : Line[k] \in Chars /\ Line[k] = At(r, Entered + k)
      BY <1>1, <1>2, <3>1, SMT DEF MapInv
    <3> HIDE DEF len
    <3>3. t \in Seq(Chars) /\ Len(t) = len /\ \A k \in 1..len : t[k] = At(r, Entered + k)
      BY <3>1, <3>2, SMT
    <3>4. Line' \in Seq(Chars) /\ Len(Line') = len
      BY <1>1, <1>2, <1>4, <1>6, <2>2, Lengths, SMT DEF len
    <3>5. ASSUME NEW k \in 1..len PROVE Line'[k] = At(r, Entered + k)
      <4>1. Line'[k] = At(r, Entered + k)'
        <5>1. k \in 1..Typed' - Entered' /\ Entered' = Entered
          BY <1>2, <1>4, <1>6, <2>2, SMT DEF len
        <5>2. QED
          BY <1>1, <5>1 DEF MapInv
      <4>2. PICK j : j = Entered + k
        OBVIOUS
      <4>3. At(r, Entered + k)' = At(r, j)'
        BY <1>4, <4>2 DEF At
      <4>4. QED
        BY <1>4, <4>1, <4>2, <4>3
    <3> HIDE DEF t
    <3>6. Line' = t
      BY <3>3, <3>4, <3>5, SeqEqual
    <3>7. QED
      BY <3>6 DEF t
  <2>3. QED
    BY <2>1, <2>2
<1>9. QED
  BY <1>1, <1>3, <1>5, <1>7, <1>8 DEF TTY!Erase, MapInv

\* Reading takes characters off the front of the queue and leaves the line.
LEMMA Dequeued ==
  ASSUME IndInv, IndInv', NEW m \in 0..Entered, r' = Plus(r, m), UNCHANGED <<buf, w, e>>
  PROVE  /\ Line' = Line /\ Queue' = SubSeq(Queue, m + 1, Len(Queue))
         /\ m = 0 => Queue' = Queue
         /\ m = 1 => Queue' = Tail(Queue)
<1>1. MapInv /\ MapInv'
  BY Mapped, MappedNext
<1>2. Entered \in Nat /\ Typed \in Nat /\ Entered <= Typed /\ RingSound /\ m \in Nat
  BY Cells, SMT
<1>3. /\ Entered' = Entered - m /\ Typed' = Typed - m
      /\ \A j \in 1..Typed - m : At(r, j)' = At(r, m + j)
  BY <1>2, ReadShift
<1>4. Line' = Line
  <2>1. Len(Line') = Len(Line) /\ Line' \in Seq(Chars) /\ Line \in Seq(Chars)
    <3>1. Typed' - Entered' = Typed - Entered
      BY <1>2, <1>3, SMT
    <3>2. QED
      BY <1>1, <3>1 DEF MapInv
  <2>2. ASSUME NEW k \in 1..Len(Line') PROVE Line'[k] = Line[k]
    <3>1. k \in 1..Typed - Entered /\ k \in 1..Typed' - Entered'
      BY <1>1, <1>2, <1>3, <2>1 DEF MapInv
    <3>2. Line'[k] = At(r, Entered + k)' /\ Line[k] = At(r, Entered + k)
      BY <1>1, <3>1 DEF MapInv
    <3>3. PICK j : j = Entered - m + k
      OBVIOUS
    <3>4. At(r, Entered + k)' = At(r, j)'
      BY <1>3, <3>3 DEF At
    <3>5. j \in 1..Typed - m /\ m + j = Entered + k
      BY <1>2, <3>1, <3>3, SMT
    <3>6. QED
      BY <1>3, <3>2, <3>4, <3>5
  <2>3. QED
    BY <2>1, <2>2, SeqEqual
<1>5. /\ Queue \in Seq(Chars) /\ Len(Queue) = Entered
      /\ Queue' \in Seq(Chars) /\ Len(Queue') = Entered - m
  BY <1>1, <1>3 DEF MapInv
<1>6. ASSUME NEW k \in 1..Entered - m PROVE Queue'[k] = Queue[m + k]
  <2>1. k \in 1..Entered' /\ k \in 1..Typed - m /\ m + k \in 1..Entered
    BY <1>2, <1>3, SMT
  <2>2. Queue'[k] = At(r, k)' /\ Queue[m + k] = At(r, m + k)
    BY <1>1, <2>1 DEF MapInv
  <2>3. QED
    BY <1>3, <2>1, <2>2
<1>7. Queue' = SubSeq(Queue, m + 1, Len(Queue))
  <2> DEFINE t == SubSeq(Queue, m + 1, Len(Queue))
  <2>1. t \in Seq(Chars) /\ Len(t) = Entered - m /\ \A k \in 1..Entered - m : t[k] = Queue[m + k]
    BY <1>2, <1>5, SMT
  <2> HIDE DEF t
  <2>2. Queue' = t
    BY <1>5, <1>6, <2>1, SeqEqual
  <2>3. QED
    BY <2>2 DEF t
<1>8. ASSUME m = 0 PROVE Queue' = Queue
  <2>1. \A k \in 1..Len(Queue') : Queue'[k] = Queue[k]
    BY <1>2, <1>5, <1>6, <1>8, SMT
  <2>2. QED
    BY <1>2, <1>5, <1>8, <2>1, SeqEqual, SMT
<1>9. ASSUME m = 1 PROVE Queue' = Tail(Queue)
  <2>1. Queue # <<>>
    BY <1>2, <1>5, <1>9, SMT
  <2>2. /\ Tail(Queue) \in Seq(Chars) /\ Len(Tail(Queue)) = Entered - 1
        /\ \A k \in 1..Entered - 1 : Tail(Queue)[k] = Queue[k + 1]
    BY <1>5, <2>1, HeadTailProperties
  <2>3. \A k \in 1..Len(Queue') : Queue'[k] = Tail(Queue)[k]
    BY <1>2, <1>5, <1>6, <1>9, <2>2, SMT
  <2>4. QED
    BY <1>5, <1>9, <2>2, <2>3, SeqEqual
<1>10. QED
  BY <1>4, <1>7, <1>8, <1>9
\* The loop of consoleread reads characters, or the end of the file, or nothing.
LEMMA ReadStep ==
  ASSUME IndInv, IndInv', NEW p \in Readers, NEW k \in 0..Entered, LoopStep(p, k)
  PROVE  TTY!Next \/ UNCHANGED TTY!ttyVars
<1> DEFINE m == Gone(p, k)
           t == Took(k)
           got == [i \in 1..t |-> At(r, i)]
<1>1. MapInv /\ MapInv' /\ TypeOK /\ ReadInv
  BY Mapped, MappedNext DEF IndInv, RingSound
<1>2. Entered \in Nat /\ RingSound
  BY Cells
<1>3. t \in Nat /\ t <= k /\ m \in 0..Entered /\ \A i \in 1..k : At(r, i) \in Chars
  BY LoopFacts
<1>4. /\ pc[p] = "awake" /\ r' = Plus(r, m) /\ UNCHANGED <<buf, w, e>>
      /\ dst' = [dst EXCEPT ![p] = @ \o got]
      /\ \A j \in 1..k - 1 : ~Last(p, j)
  BY DEF LoopStep
<1>5. /\ Line' = Line /\ Queue' = SubSeq(Queue, m + 1, Len(Queue))
      /\ m = 0 => Queue' = Queue
      /\ m = 1 => Queue' = Tail(Queue)
  BY <1>3, <1>4, Dequeued
<1>6. /\ dst[p] \in Seq(Chars) /\ dst \in [Readers -> Seq(Chars)]
      /\ dst[p] # <<>> => dst[p][Len(dst[p])] # Newline
  BY <1>1, <1>4 DEF TypeOK, ReadInv
<1>7. /\ Queue \in Seq(Chars) /\ Len(Queue) = Entered
      /\ \A i \in 1..Entered : Queue[i] = At(r, i)
      /\ Between(r, w) = Queue /\ Between(w, e) = Line
      /\ Between(r, w)' = Queue' /\ Between(w, e)' = Line'
  BY <1>1 DEF MapInv
<1>8. ASSUME t = 0 PROVE dst' = dst
  <2>1. got = <<>>
    BY <1>8, SMT
  <2> HIDE DEF got
  <2>2. dst[p] \o got = dst[p]
    BY <1>6, <2>1, ConcatEmptySeq
  <2>3. QED
    BY <1>4, <1>6, <2>2
<1>9. CASE t > 0
  <2>1. m = t
    <3>1. CASE k > 0 /\ At(r, k) = Eof /\ ~SavesEof(p, k)
      <4>1. t = k - 1 /\ Len(dst[p]) + k <= 1 /\ Len(dst[p]) \in Nat
        BY <1>2, <1>6, <3>1, SMT DEF Took, SavesEof
      <4>2. QED
        BY <1>2, <1>9, <4>1, SMT
    <3>2. CASE ~(k > 0 /\ At(r, k) = Eof /\ ~SavesEof(p, k))
      BY <3>2 DEF Took, Gone
    <3>3. QED
      BY <3>1, <3>2
  <2>2. ASSUME NEW i \in 1..t PROVE Queue[i] # Eof /\ (Queue[i] = Newline => i = t)
    <3>1. i \in 1..Entered /\ Queue[i] = At(r, i)
      BY <1>2, <1>3, <1>7, SMT
    <3>2. CASE i < k
      <4>1. ~Last(p, i) /\ i > 0
        BY <1>2, <1>4, <3>1, <3>2, SMT
      <4>2. QED
        BY <3>1, <4>1 DEF Last
    <3>3. CASE i >= k
      <4>1. i = k /\ t = k /\ k > 0
        BY <1>2, <1>3, <3>3, SMT
      <4>2. At(r, k) # Eof
        BY <1>2, <4>1, SMT DEF Took
      <4>3. QED
        BY <3>1, <4>1, <4>2
    <3>4. QED
      BY <1>2, <3>1, <3>2, <3>3, SMT
  <2>3. got = SubSeq(Queue, 1, t)
    <3> DEFINE s == SubSeq(Queue, 1, t)
    <3>1. got \in Seq(Chars) /\ Len(got) = t /\ \A i \in 1..t : got[i] = At(r, i)
      BY <1>3, SMT
    <3>2. s \in Seq(Chars) /\ Len(s) = t /\ \A i \in 1..t : s[i] = Queue[i]
      BY <1>2, <1>3, <1>7, SMT
    <3>3. \A i \in 1..t : s[i] = got[i]
      BY <1>2, <1>3, <1>7, <3>1, <3>2, SMT
    <3> HIDE DEF s, got
    <3>4. got = s
      BY <3>1, <3>2, <3>3, SeqEqual
    <3>5. QED
      BY <3>4 DEF s
  <2> HIDE DEF t, m, got
  <2>4. t \in 1..Len(Queue)
    BY <1>2, <1>3, <1>7, <1>9, SMT
  <2>5. TTY!Read(p, t)
    BY <1>4, <1>5, <1>6, <1>7, <2>1, <2>2, <2>3 DEF TTY!Read
  <2>6. QED
    BY <1>7, <2>4, <2>5 DEF TTY!Next
<1>10. CASE t = 0 /\ m = 0
  BY <1>5, <1>7, <1>8, <1>10 DEF TTY!ttyVars
<1>11. CASE t = 0 /\ m # 0
  <2>1. k > 0 /\ At(r, k) = Eof /\ ~SavesEof(p, k)
    BY <1>2, <1>11 DEF Took, Gone
  <2>2. Len(dst[p]) + k <= 1 /\ Len(dst[p]) \in Nat
    BY <1>2, <1>6, <2>1, SMT DEF SavesEof
  <2>3. k = 1 /\ Len(dst[p]) = 0 /\ m = 1
    BY <1>2, <2>1, <2>2, SMT DEF Gone
  <2>4. dst[p] = <<>>
    BY <1>6, <2>3, SMT
  <2>5. Queue # <<>> /\ Head(Queue) = Eof
    BY <1>2, <1>7, <2>1, <2>3, SMT
  <2>6. TTY!ReadEof(p)
    BY <1>5, <1>7, <1>8, <1>11, <2>3, <2>4, <2>5 DEF TTY!ReadEof
  <2>7. QED
    BY <2>6 DEF TTY!Next
<1>12. QED
  BY <1>3, <1>9, <1>10, <1>11, SMT

LEMMA TtyStep ==
  ASSUME IndInv, IndInv', [Next]_vars
  PROVE  TTY!Next \/ UNCHANGED TTY!ttyVars
<1>1. ASSUME UNCHANGED <<ring, dst>> PROVE UNCHANGED TTY!ttyVars
  BY <1>1 DEF TTY!ttyVars, ring, Between, At, Plus, Minus
<1>2. CASE Keyboard
  <2>1. CASE Backspace \/ KillLine
    BY <2>1, EraseStep DEF TTY!Next
  <2>2. ASSUME NEW c \in Chars, Input(c) PROVE TTY!Next
    BY <2>2, TypeStep DEF TTY!Next
  <2>3. QED
    BY <1>2, <2>1, <2>2 DEF Keyboard
<1>3. ASSUME NEW p \in Readers, Reader(p) PROVE TTY!Next \/ UNCHANGED TTY!ttyVars
  <2>1. CASE Loop(p)
    BY <2>1, LoopIs, ReadStep
  <2>2. CASE Killed(p)
    BY <1>1, <2>2 DEF Killed
  <2>3. CASE Return(p)
    <3>1. UNCHANGED ring /\ dst' = [dst EXCEPT ![p] = <<>>]
      BY <2>3 DEF Return
    <3>2. Between(r, w)' = Between(r, w) /\ Between(w, e)' = Between(w, e)
      BY <3>1 DEF ring, Between, At, Plus, Minus
    <3>3. TTY!Return(p)
      BY <3>1, <3>2 DEF TTY!Return
    <3>4. QED
      BY <3>3 DEF TTY!Next
  <2>4. QED
    BY <1>3, <2>1, <2>2, <2>3 DEF Reader
<1>4. ASSUME NEW p \in Readers,
             kill(p) \/ Replaced(p) \/ \E k \in Sizes : consoleread(p, k)
      PROVE  UNCHANGED <<ring, dst>>
  BY <1>4 DEF kill, Replaced, consoleread
<1>5. CASE UNCHANGED vars
  BY <1>1, <1>5 DEF vars, ring
<1>6. QED
  BY <1>1, <1>2, <1>3, <1>4, <1>5 DEF Next

LEMMA TtyInit == Init => TTY!Init
<1> SUFFICES ASSUME Init PROVE TTY!Init
  OBVIOUS
<1>1. r \in Index /\ w = r /\ e = r /\ dst = [p \in Readers |-> <<>>]
  BY Constants, SMT DEF Init, Index
<1>2. Minus(w, r) = 0 /\ Minus(e, w) = 0
  BY <1>1, Reached
<1>3. Between(r, w) = <<>> /\ Between(w, e) = <<>>
  BY <1>2, SMT DEF Between
<1>4. QED
  BY <1>1, <1>3 DEF TTY!Init

\* The ring and its three indices implement a line editor in front of a queue:
\* whatever the interrupts and the readers do, no character that was entered is
\* overwritten, lost, read twice or out of order, no read goes past a newline,
\* and a ^D is one read of nothing (console.c: consoleintr, consoleread).
THEOREM RingIsTty == Spec => IsTty
<1>1. IndInv /\ IndInv' /\ [Next]_vars => [TTY!Next]_(TTY!ttyVars)
  BY TtyStep
<1>2. QED
  BY <1>1, InitInv, NextInv, TtyInit, PTL DEF Spec, IsTty, TTY!Spec
=============================================================================
