--------------------------- MODULE VmCalls_proofs ---------------------------
(***************************************************************************)
(* Proofs about module Vm, the loops of vm.c: allocuvm, deallocuvm and     *)
(* copyuvm one page at a time, setupkvm, and the ways they give up.        *)
(***************************************************************************)
EXTENDS VmPages_proofs

USE ZenonT(30), SMT

\* A free page is no directory.
LEMMA FreeIs ==
  ASSUME Types, OwnInv, freelist # {}
  PROVE  kalloc \in freelist /\ kalloc \in Pages /\ kalloc \notin DOMAIN space
<1>1. kalloc \in freelist /\ kalloc \in Pages
  BY KallocIn, TypesIs
<1>2. PICK t : Has(t, kalloc, freelist, lost, kstack, space)
  BY <1>1 DEF OwnInv, Single
<1>3. QED
  BY <1>1, <1>2, TagsDiffer DEF Has

\* Where the loops end.
LEMMA EndIs ==
  ASSUME Types, NEW p \in Procs
  PROVE  End(p) \in Nat /\ End(p) <= USERTOP \div PGSIZE
<1>1. newsz[p] \in Nat /\ sz[p] \in 0..USERTOP /\ sz[p] \in Nat
  BY Constants, SMT DEF Types, ProcsOK, CallsOK
<1>2. PGROUNDUP(sz[p]) \in Nat /\ PGROUNDUP(sz[p]) <= USERTOP \div PGSIZE
  BY <1>1, RoundUp, SMT
<1>3. newsz[p] \div PGSIZE \in Nat /\ USERTOP \div PGSIZE \in Nat
  BY <1>1, Division, Constants
<1>4. newsz[p] <= USERTOP => newsz[p] \div PGSIZE <= USERTOP \div PGSIZE
  BY <1>1, Monotone, Constants
<1>5. QED
  BY <1>2, <1>3, <1>4, SMT DEF End

LEMMA FillInv ==
  ASSUME IndInv, NEW p \in Procs, Fill(p)
  PROVE  IndInv'
<1> USE Parts, NilIs
<1> DEFINE d == dir[p]
<1>1. /\ pc[p] \in {"fork", "exec"} /\ d # Nil /\ a[p] < End(p)
      /\ UNCHANGED <<state, parent, pgdir, sz, kstack, pc, child, dir, newsz, lost>>
  BY DEF Fill, Building, TablesDone, proc
<1>2. /\ state[p] = "RUNNABLE" /\ Alive(p) /\ SizeOf(p)
      /\ 0 \in Mapped(pgdir[p]) /\ Mapped(d) = 0..a[p] - 1
      /\ d \in DOMAIN space /\ d \in Pages /\ pgdir[p] \in DOMAIN space /\ pgdir[p] # d
      /\ \A q \in Procs : Alive(q) => pgdir[q] # d
      /\ \A q \in Procs \ {p} : dir[q] # d
  BY <1>1 DEF SlotInv, SizeInv, SizeOf, SpaceInv, Alive, Types, SpaceOK
<1>3. a[p] \in Nat /\ End(p) \in Nat /\ a[p] \in 0..USERTOP \div PGSIZE - 1 /\ a[p] \notin Mapped(d)
  <2>1. End(p) \in Nat /\ End(p) <= USERTOP \div PGSIZE /\ a[p] \in Nat
    BY EndIs DEF Types, CallsOK
  <2>2. USERTOP \div PGSIZE \in Nat
    BY Division, Constants
  <2>3. QED
    BY <1>1, <1>2, <2>1, <2>2, SMT
<1>4. pc[p] = "fork" => a[p] \in Mapped(pgdir[p])
  <2> SUFFICES ASSUME pc[p] = "fork" PROVE a[p] \in Mapped(pgdir[p])
    OBVIOUS
  <2>1. End(p) = PGROUNDUP(sz[p]) /\ Mapped(pgdir[p]) \in {{}, 0..PGROUNDUP(sz[p]) - 1}
    BY <1>2 DEF End, SizeOf
  <2>2. QED
    BY <1>1, <1>2, <1>3, <2>1, SMT
<1>5. /\ freelist # {} /\ freelist' = freelist \ {kalloc}
      /\ space' = [space EXCEPT ![d].map = Put(@, a[p], kalloc)]
      /\ a' = [a EXCEPT ![p] = @ + 1] /\ panic' = panic
  BY <1>4 DEF Fill, Pop, mappages
<1>6. kalloc \in freelist /\ kalloc \in Pages
  BY <1>5, FreeIs
<1>7. /\ SpaceOK' /\ Bounded' /\ DOMAIN space' = DOMAIN space
      /\ Mapped(d)' = Mapped(d) \cup {a[p]}
      /\ \A c \in DOMAIN space \ {d} : Mapped(c)' = Mapped(c)
  <2> HIDE DEF d
  <2>1. PICK e : e = d
    OBVIOUS
  <2>2. /\ SpaceOK' /\ Bounded' /\ DOMAIN space' = DOMAIN space
        /\ Mapped(e)' = Mapped(e) \cup {a[p]}
        /\ \A c \in DOMAIN space \ {e} : Mapped(c)' = Mapped(c)
    BY <1>2, <1>3, <1>5, <1>6, <2>1, AddedUser DEF Types
  <2>3. d' = d
    BY <1>1 DEF d
  <2>4. QED
    BY <2>1, <2>2, <2>3 DEF Mapped
<1>8. \A q \in Procs : Alive(q)' <=> Alive(q)
  BY <1>1 DEF Alive
<1>9. Types'
  BY <1>1, <1>3, <1>5, <1>7, SMT DEF Types, ProcsOK, CallsOK
<1>10. OwnInv'
  BY <1>1, <1>2, <1>3, <1>5, <1>6, TakeUser DEF OwnInv, Types
<1>11. SpaceInv'
  BY <1>1, <1>7, <1>8, SpacesKept
<1>12. SlotInv'
  <2>1. \A q \in Procs \ {p} : a'[q] = a[q]
    BY <1>5 DEF Types, CallsOK
  <2>2. QED
    BY <1>1, <1>2, <2>1, SlotKept
<1>13. FamilyInv' /\ ThreadInv' /\ RankInv'
  BY <1>1, <1>8, ProcsKept, TypesIs
<1>14. SizeInv'
  <2> SUFFICES ASSUME NEW q \in Procs PROVE SizeOf(q)'
    BY DEF SizeInv
  <2>1. CASE q = p
    <3>1. a'[p] = a[p] + 1 /\ Mapped(pgdir[p])' = Mapped(pgdir[p]) /\ Mapped(dir[p])' = 0..a[p]
      BY <1>1, <1>2, <1>3, <1>5, <1>7, SMT DEF Types, CallsOK
    <3>2. End(p)' = End(p) /\ PGROUNDUP(sz[p])' = PGROUNDUP(sz[p])
      BY <1>1 DEF End, PGROUNDUP
    <3>3. QED
      BY <1>1, <1>2, <1>3, <1>8, <2>1, <3>1, <3>2, SMT DEF SizeOf
  <2>2. CASE q # p
    <3>1. a'[q] = a[q]
      BY <1>5, <2>2 DEF Types, CallsOK
    <3>2. QED
      BY <1>1, <1>2, <1>7, <1>8, <2>2, <3>1, SizeOther
  <2>3. QED
    BY <2>1, <2>2
<1>15. QED
  BY <1>5, <1>9, <1>10, <1>11, <1>12, <1>13, <1>14, Whole
\* A call that grows a process has its address space alone.
LEMMA GrowsAlone ==
  ASSUME IndInv, NEW p \in Procs, pc[p] = "grow"
  PROVE  /\ state[p] = "RUNNABLE" /\ Alive(p) /\ dir[p] = Nil
         /\ pgdir[p] \in DOMAIN space /\ pgdir[p] \in Pages
         /\ \A q \in Procs \ {p} : Alive(q) => pgdir[q] # pgdir[p]
         /\ \A q \in Procs : dir[q] # Nil => dir[q] # pgdir[p]
         /\ a[p] \in Nat /\ sz[p] \in Nat /\ newsz[p] \in Nat
         /\ PGROUNDUP(sz[p]) \in Nat /\ PGROUNDUP(newsz[p]) \in Nat
         /\ Mapped(pgdir[p]) = 0..a[p] - 1 /\ 0 \in Mapped(pgdir[p])
         /\ PGROUNDUP(sz[p]) <= a[p] /\ a[p] <= PGROUNDUP(newsz[p])
         /\ sz[p] <= newsz[p] /\ newsz[p] <= USERTOP
<1> USE Parts
<1>1. state[p] = "RUNNABLE" /\ Alive(p) /\ dir[p] = Nil /\ SizeOf(p)
  BY DEF SlotInv, SizeInv, Alive
<1>2. /\ pgdir[p] \in DOMAIN space /\ pgdir[p] \in Pages
      /\ \A q \in Procs \ {p} : Alive(q) => pgdir[q] # pgdir[p]
      /\ \A q \in Procs : dir[q] # Nil => dir[q] # pgdir[p]
  BY <1>1 DEF SpaceInv, ThreadInv, Types, SpaceOK
<1>3. a[p] \in Nat /\ sz[p] \in Nat /\ newsz[p] \in Nat
  BY CallIs
<1>4. PGROUNDUP(sz[p]) \in Nat /\ PGROUNDUP(newsz[p]) \in Nat
  BY <1>3, RoundUp
<1>5. QED
  BY <1>1, <1>2, <1>3, <1>4 DEF SizeOf

LEMMA GrowPageInv ==
  ASSUME IndInv, NEW p \in Procs, GrowPage(p)
  PROVE  IndInv'
<1> USE Parts, NilIs
<1> DEFINE d == pgdir[p]
<1>1. /\ pc[p] = "grow" /\ a[p] < PGROUNDUP(newsz[p])
      /\ UNCHANGED <<state, parent, pgdir, sz, kstack, pc, child, dir, newsz, lost>>
  BY DEF GrowPage, Growing, In, proc
<1>2. /\ state[p] = "RUNNABLE" /\ Alive(p) /\ dir[p] = Nil
      /\ d \in DOMAIN space /\ d \in Pages
      /\ \A q \in Procs \ {p} : Alive(q) => pgdir[q] # d
      /\ \A q \in Procs : dir[q] # Nil => dir[q] # d
      /\ a[p] \in Nat /\ sz[p] \in Nat /\ newsz[p] \in Nat
      /\ PGROUNDUP(sz[p]) \in Nat /\ PGROUNDUP(newsz[p]) \in Nat
      /\ Mapped(d) = 0..a[p] - 1 /\ 0 \in Mapped(d)
      /\ PGROUNDUP(sz[p]) <= a[p] /\ a[p] <= PGROUNDUP(newsz[p])
      /\ sz[p] <= newsz[p] /\ newsz[p] <= USERTOP
  BY <1>1, GrowsAlone
<1>3. a[p] \in 0..USERTOP \div PGSIZE - 1 /\ a[p] \notin Mapped(d)
  <2>1. PGROUNDUP(newsz[p]) <= USERTOP \div PGSIZE
    BY <1>2, RoundUp
  <2>2. USERTOP \div PGSIZE \in Nat
    BY Division, Constants
  <2>3. QED
    BY <1>1, <1>2, <2>1, <2>2, SMT
<1>5. /\ freelist # {} /\ freelist' = freelist \ {kalloc}
      /\ space' = [space EXCEPT ![d].map = Put(@, a[p], kalloc)]
      /\ a' = [a EXCEPT ![p] = @ + 1] /\ panic' = panic
  BY <1>3 DEF GrowPage, Pop, mappages
<1>6. kalloc \in freelist /\ kalloc \in Pages
  BY <1>5, FreeIs
<1>7. /\ SpaceOK' /\ Bounded' /\ DOMAIN space' = DOMAIN space
      /\ Mapped(d)' = Mapped(d) \cup {a[p]}
      /\ \A c \in DOMAIN space \ {d} : Mapped(c)' = Mapped(c)
  <2> HIDE DEF d
  <2>1. PICK e : e = d
    OBVIOUS
  <2>2. /\ SpaceOK' /\ Bounded' /\ DOMAIN space' = DOMAIN space
        /\ Mapped(e)' = Mapped(e) \cup {a[p]}
        /\ \A c \in DOMAIN space \ {e} : Mapped(c)' = Mapped(c)
    BY <1>2, <1>3, <1>5, <1>6, <2>1, AddedUser DEF Types
  <2>3. d' = d
    BY <1>1 DEF d
  <2>4. QED
    BY <2>1, <2>2, <2>3 DEF Mapped
<1>8. \A q \in Procs : Alive(q)' <=> Alive(q)
  BY <1>1 DEF Alive
<1>9. Types'
  BY <1>1, <1>3, <1>5, <1>7, SMT DEF Types, ProcsOK, CallsOK
<1>10. OwnInv'
  BY <1>1, <1>2, <1>3, <1>5, <1>6, TakeUser DEF OwnInv, Types
<1>11. SpaceInv'
  BY <1>1, <1>7, <1>8, SpacesKept
<1>12. SlotInv'
  <2>1. \A q \in Procs \ {p} : a'[q] = a[q]
    BY <1>5 DEF Types, CallsOK
  <2>2. QED
    BY <1>1, <1>2, <2>1, SlotKept
<1>13. FamilyInv' /\ ThreadInv' /\ RankInv'
  BY <1>1, <1>8, ProcsKept, TypesIs
<1>14. SizeInv'
  <2> SUFFICES ASSUME NEW q \in Procs PROVE SizeOf(q)'
    BY DEF SizeInv
  <2>1. CASE q = p
    <3>1. a'[p] = a[p] + 1 /\ Mapped(pgdir[p])' = 0..a[p]
      <4>1. a'[p] = a[p] + 1
        BY <1>5 DEF Types, CallsOK
      <4>2. (0..a[p] - 1) \cup {a[p]} = 0..a[p]
        BY <1>2, SMT
      <4>3. Mapped(pgdir[p])' = Mapped(d) \cup {a[p]}
        BY <1>7
      <4>4. QED
        BY <1>2, <4>1, <4>2, <4>3
    <3>2. PGROUNDUP(sz[p])' = PGROUNDUP(sz[p]) /\ PGROUNDUP(newsz[p])' = PGROUNDUP(newsz[p])
      BY <1>1 DEF PGROUNDUP
    <3>3. QED
      <4>1. /\ a'[p] - 1 = a[p] /\ 0 \in 0..a[p]
            /\ PGROUNDUP(sz[p]) <= a[p] + 1 /\ a[p] + 1 <= PGROUNDUP(newsz[p])
        BY <1>1, <1>2, <3>1, SMT
      <4>2. QED
        BY <1>1, <1>2, <2>1, <3>1, <3>2, <4>1 DEF SizeOf
  <2>2. CASE q # p
    <3>1. a'[q] = a[q]
      BY <1>5, <2>2 DEF Types, CallsOK
    <3>2. QED
      BY <1>1, <1>2, <1>7, <1>8, <2>2, <3>1, SizeOther
  <2>3. QED
    BY <2>1, <2>2
<1>15. QED
  BY <1>5, <1>9, <1>10, <1>11, <1>12, <1>13, <1>14, Whole

LEMMA GrowFailsInv ==
  ASSUME IndInv, NEW p \in Procs, GrowFails(p)
  PROVE  IndInv'
<1> USE Parts, NilIs
<1> DEFINE d == pgdir[p]
           I == Back(p)
<1>1. /\ pc[p] = "grow" /\ a[p] < PGROUNDUP(newsz[p]) /\ freelist = {}
      /\ freelist' = UserPages(d, I) /\ space' = Unmap(d, I) /\ Returns(p)
      /\ UNCHANGED <<state, parent, pgdir, sz, kstack, lost, panic>>
  BY DEF GrowFails, Growing, In, proc
<1>2. /\ state[p] = "RUNNABLE" /\ Alive(p) /\ dir[p] = Nil
      /\ d \in DOMAIN space /\ d \in Pages
      /\ \A q \in Procs \ {p} : Alive(q) => pgdir[q] # d
      /\ \A q \in Procs : dir[q] # Nil => dir[q] # d
      /\ a[p] \in Nat /\ sz[p] \in Nat /\ newsz[p] \in Nat
      /\ PGROUNDUP(sz[p]) \in Nat /\ PGROUNDUP(newsz[p]) \in Nat
      /\ Mapped(d) = 0..a[p] - 1 /\ 0 \in Mapped(d)
      /\ PGROUNDUP(sz[p]) <= a[p] /\ a[p] <= PGROUNDUP(newsz[p])
      /\ sz[p] <= newsz[p] /\ newsz[p] <= USERTOP
  BY <1>1, GrowsAlone
<1>3. I = PGROUNDUP(sz[p])..PGROUNDUP(newsz[p]) - 1
  <2>1. sz[p] # newsz[p]
    BY <1>1, <1>2, SMT
  <2>2. QED
    BY <1>2, <2>1, SMT DEF Back, Dealloc
<1>4. Mapped(d) \ I = 0..PGROUNDUP(sz[p]) - 1
  BY <1>2, <1>3, SMT
<1>5. UserPages(d, I) \subseteq Pages
  BY <1>2, SMT DEF UserPages, Mapped, Types, SpaceOK, Good
<1>6. /\ SpaceOK' /\ Bounded' /\ DOMAIN space' = DOMAIN space
      /\ Mapped(d)' = 0..PGROUNDUP(sz[p]) - 1
      /\ \A c \in DOMAIN space \ {d} : Mapped(c)' = Mapped(c)
  <2> HIDE DEF d, I
  <2>1. PICK e : e = d
    OBVIOUS
  <2>2. /\ SpaceOK' /\ Bounded' /\ DOMAIN space' = DOMAIN space
        /\ Mapped(e)' = Mapped(e) \ I
        /\ \A c \in DOMAIN space \ {e} : Mapped(c)' = Mapped(c)
    BY <1>1, <1>2, <2>1, Unmapped DEF Types
  <2>3. d' = d
    BY <1>1 DEF d
  <2>4. QED
    BY <1>4, <2>1, <2>2, <2>3 DEF Mapped
<1>7. \A q \in Procs : Alive(q)' <=> Alive(q)
  BY <1>1 DEF Alive
<1>8. dir' = dir
  <2>1. dir \in [Procs -> Pages \cup {Nil}] /\ dir' \in [Procs -> Pages \cup {Nil}]
    BY <1>1, ReturnsIs DEF Types, CallsOK
  <2>2. \A q \in Procs : dir'[q] = dir[q]
    BY <1>1, <1>2, ReturnsIs
  <2>3. QED
    BY <2>1, <2>2, SMT
<1>9. Types'
  BY <1>1, <1>5, <1>6, ReturnsIs DEF Types, ProcsOK
<1>10. OwnInv'
  <2>1. freelist' = freelist \cup UserPages(d, I)
    BY <1>1
  <2>2. QED
    BY <1>1, <1>2, <2>1, DropUser, SMT DEF OwnInv, Types
<1>11. SpaceInv'
  BY <1>1, <1>6, <1>7, <1>8, SpacesKept
<1>12. SlotInv'
  BY <1>1, <1>2, ReturnsIs, SlotKept
<1>13. FamilyInv' /\ ThreadInv' /\ RankInv'
  <2>1. \A q \in Procs : pc'[q] = "grow" => pc[q] = "grow"
    BY <1>1, ReturnsIs
  <2>2. QED
    BY <1>1, <1>7, <2>1, ProcsKept, TypesIs
<1>14. SizeInv'
  <2> SUFFICES ASSUME NEW q \in Procs PROVE SizeOf(q)'
    BY DEF SizeInv
  <2>1. CASE q = p
    <3>1. pc'[p] = "user" /\ PGROUNDUP(sz[p])' = PGROUNDUP(sz[p])
      BY <1>1, ReturnsIs DEF PGROUNDUP
    <3>2. QED
      BY <1>6, <2>1, <3>1 DEF SizeOf
  <2>2. CASE q # p
    <3>1. /\ pc'[q] = pc[q] /\ a'[q] = a[q] /\ newsz'[q] = newsz[q] /\ dir'[q] = dir[q]
          /\ sz'[q] = sz[q] /\ pgdir'[q] = pgdir[q]
      BY <1>1, <2>2, ReturnsIs
    <3>2. QED
      BY <1>2, <1>6, <1>7, <2>2, <3>1, SizeOther
  <2>3. QED
    BY <2>1, <2>2
<1>15. QED
  BY <1>1, <1>9, <1>10, <1>11, <1>12, <1>13, <1>14, Whole

LEMMA ShrinkInv ==
  ASSUME IndInv, ~resized', NEW p \in Procs, NEW n \in Deltas, Shrink(p, n)
  PROVE  IndInv'
<1> USE Parts, NilIs
<1> DEFINE d == pgdir[p]
           I == Dealloc(sz[p], sz[p] - n)
<1>1. /\ Runs(p) /\ ~Shares(p) /\ sz[p] - n >= 0
      /\ freelist' = freelist \cup UserPages(d, I) /\ space' = Unmap(d, I)
      /\ sz' = [sz EXCEPT ![p] = IF @ = n THEN @ ELSE @ - n]
      /\ UNCHANGED <<state, parent, pgdir, kstack, pc, child, dir, a, newsz, lost, panic>>
  BY DEF Shrink, call
<1>2. /\ state[p] = "RUNNABLE" /\ Alive(p) /\ dir[p] = Nil /\ pc[p] = "user"
      /\ d \in DOMAIN space /\ d \in Pages
      /\ sz[p] \in 0..USERTOP /\ PGROUNDUP(sz[p]) \in Nat
      /\ Mapped(d) = 0..PGROUNDUP(sz[p]) - 1
  BY <1>1, Running DEF Types, SpaceOK
<1>3. /\ \A q \in Procs \ {p} : Alive(q) => pgdir[q] # d
      /\ \A q \in Procs : dir[q] # Nil => dir[q] # d
  BY <1>1, <1>2 DEF Shares, SpaceInv
<1>4. n \in Nat /\ n > 0 /\ sz[p] - n \in 0..USERTOP /\ sz[p] - n \in Nat /\ sz[p] - n < sz[p]
  <2>1. n \in Nat /\ n > 0
    BY VmConstants, SMT
  <2>2. sz[p] \in 0..USERTOP /\ sz[p] - n >= 0 /\ USERTOP \in Nat
    BY <1>1, <1>2, Constants
  <2>3. QED
    BY <2>1, <2>2, SMT
<1>5. PGROUNDUP(sz[p] - n) \in Nat /\ PGROUNDUP(sz[p] - n) <= PGROUNDUP(sz[p])
  <2>1. sz[p] \in Nat /\ sz[p] - n \in Nat /\ sz[p] - n <= sz[p]
    BY <1>2, <1>4, SMT
  <2> DEFINE low == sz[p] - n
  <2> HIDE DEF low
  <2>2. low \in Nat /\ low <= sz[p]
    BY <2>1 DEF low
  <2>3. PGROUNDUP(low) \in Nat /\ PGROUNDUP(low) <= PGROUNDUP(sz[p])
    BY <2>1, <2>2, RoundUp
  <2>4. QED
    BY <2>3 DEF low
<1>6. Mapped(d) \ I = 0..PGROUNDUP(sz[p] - n) - 1
  <2>1. I = PGROUNDUP(sz[p] - n)..PGROUNDUP(sz[p]) - 1
    BY <1>2, <1>4, SMT DEF Dealloc
  <2>2. QED
    BY <1>2, <1>5, <2>1, SMT
<1>7. UserPages(d, I) \subseteq Pages
  BY <1>2, SMT DEF UserPages, Mapped, Types, SpaceOK, Good
<1>8. /\ SpaceOK' /\ Bounded' /\ DOMAIN space' = DOMAIN space
      /\ Mapped(d)' = 0..PGROUNDUP(sz[p] - n) - 1
      /\ \A c \in DOMAIN space \ {d} : Mapped(c)' = Mapped(c)
  <2> HIDE DEF d, I
  <2>1. PICK e : e = d
    OBVIOUS
  <2>2. /\ SpaceOK' /\ Bounded' /\ DOMAIN space' = DOMAIN space
        /\ Mapped(e)' = Mapped(e) \ I
        /\ \A c \in DOMAIN space \ {e} : Mapped(c)' = Mapped(c)
    BY <1>1, <1>2, <2>1, Unmapped DEF Types
  <2>3. d' = d
    BY <1>1 DEF d
  <2>4. QED
    BY <1>6, <2>1, <2>2, <2>3 DEF Mapped
<1>9. \A q \in Procs : Alive(q)' <=> Alive(q)
  BY <1>1 DEF Alive
<1>10. Types'
  <2>1. sz' \in [Procs -> 0..USERTOP]
    BY <1>1, <1>4 DEF Types, ProcsOK
  <2>2. QED
    BY <1>1, <1>7, <1>8, <2>1 DEF Types, ProcsOK, CallsOK
<1>11. OwnInv'
  BY <1>1, <1>2, DropUser DEF OwnInv, Types
<1>12. SpaceInv'
  BY <1>1, <1>8, <1>9, SpacesKept
<1>13. SlotInv'
  BY <1>1, SMT DEF SlotInv
<1>14. FamilyInv' /\ ThreadInv' /\ RankInv'
  BY <1>1, <1>9, ProcsKept, TypesIs
<1>15. SizeInv'
  <2> SUFFICES ASSUME NEW q \in Procs PROVE SizeOf(q)'
    BY DEF SizeInv
  <2>1. CASE q = p
    <3>1. CASE sz[p] = n
      <4>1. PGROUNDUP(sz[p] - n) = 0
        <5>1. PGROUNDUP(0 * PGSIZE) = 0
          BY WholePages
        <5>2. 0 * PGSIZE = 0 /\ sz[p] - n = 0
          BY <1>4, <3>1, Constants, SMT
        <5>3. QED
          BY <5>1, <5>2
      <4>2. Mapped(d)' = {}
        BY <1>8, <4>1, SMT
      <4>3. QED
        BY <1>1, <1>2, <2>1, <4>2 DEF SizeOf
    <3>2. CASE sz[p] # n
      <4>1. sz'[p] = sz[p] - n
        BY <1>1, <3>2 DEF Types, ProcsOK
      <4>2. PGROUNDUP(sz[p])' = PGROUNDUP(sz[p] - n)
        BY <4>1 DEF PGROUNDUP
      <4>3. QED
        BY <1>1, <1>2, <1>8, <2>1, <4>2 DEF SizeOf
    <3>3. QED
      BY <3>1, <3>2
  <2>2. CASE q # p
    <3>1. sz'[q] = sz[q]
      BY <1>1, <2>2 DEF Types, ProcsOK
    <3>2. QED
      BY <1>1, <1>3, <1>8, <1>9, <2>2, <3>1, SizeOther
  <2>3. QED
    BY <2>1, <2>2
<1>16. QED
  BY <1>1, <1>10, <1>11, <1>12, <1>13, <1>14, <1>15, Whole

LEMMA SetupInv ==
  ASSUME IndInv, NEW p \in Procs, setupkvm(p)
  PROVE  IndInv'
<1> USE Parts, NilIs
<1>1. /\ pc[p] \in {"fork", "exec"} /\ freelist # {} /\ freelist' = freelist \ {kalloc}
      /\ UNCHANGED <<state, parent, pgdir, sz, kstack, pc, child, a, newsz, lost, panic>>
  BY DEF setupkvm, Building, Pop, proc
<1>2. kalloc \in freelist /\ kalloc \in Pages /\ kalloc \notin DOMAIN space
  BY <1>1, FreeIs
<1>3. PICK g : g = kalloc
  OBVIOUS
<1>4. \A q \in Procs : Alive(q)' <=> Alive(q)
  BY <1>1 DEF Alive
<1>5. state[p] = "RUNNABLE" /\ SizeOf(p) /\ Alive(p) /\ pgdir[p] \in DOMAIN space
  BY <1>1 DEF SlotInv, SizeInv, SpaceInv, Alive
<1>6. FamilyInv' /\ ThreadInv' /\ RankInv'
  BY <1>1, <1>4, ProcsKept, TypesIs
<1>7. End(p)' = End(p) /\ PGROUNDUP(sz[p])' = PGROUNDUP(sz[p])
  BY <1>1 DEF End, PGROUNDUP
<1>8. CASE dir[p] = Nil
  <2>1. dir' = [dir EXCEPT ![p] = g] /\ space' = Put(space, g, Empty)
    BY <1>3, <1>8 DEF setupkvm
  <2>2. /\ SpaceOK' /\ Bounded' /\ DOMAIN space' = DOMAIN space \cup {g} /\ Mapped(g)' = {}
        /\ \A c \in DOMAIN space : Mapped(c)' = Mapped(c)
    BY <1>2, <1>3, <2>1, AddedDir DEF Types
  <2>3. Types'
    BY <1>1, <1>2, <1>3, <2>1, <2>2 DEF Types, ProcsOK, CallsOK
  <2>4. OwnInv'
    BY <1>1, <1>2, <1>3, <2>1, TakeDir DEF OwnInv, Types
  <2>5. dir'[p] = g /\ \A q \in Procs \ {p} : dir'[q] = dir[q]
    BY <2>1 DEF Types, CallsOK
  <2>6. SpaceInv'
    <3>1. \A q \in Procs : Alive(q) => pgdir[q] \in DOMAIN space
      BY DEF SpaceInv
    <3>2. \A q \in Procs : dir'[q] # Nil =>
            /\ dir'[q] \in DOMAIN space'
            /\ \A r \in Procs : Alive(r) => pgdir[r] # dir'[q]
            /\ \A r \in Procs \ {q} : dir'[r] # dir'[q]
      BY <1>2, <1>3, <2>2, <2>5, <3>1, SMT DEF SpaceInv
    <3>3. \A d \in DOMAIN space' : \/ \E q \in Procs : Alive(q) /\ pgdir[q] = d
                                   \/ \E q \in Procs : dir'[q] = d
      <4> SUFFICES ASSUME NEW d \in DOMAIN space' PROVE
                   \/ \E q \in Procs : Alive(q) /\ pgdir[q] = d
                   \/ \E q \in Procs : dir'[q] = d
        OBVIOUS
      <4>1. CASE d = g
        BY <2>5, <4>1
      <4>2. CASE d \in DOMAIN space
        <5>1. d # Nil
          BY <4>2 DEF Types, SpaceOK
        <5>2. QED
          BY <1>8, <2>5, <4>2, <5>1 DEF SpaceInv
      <4>3. QED
        BY <2>2, <4>1, <4>2
    <3>4. QED
      BY <1>1, <1>4, <2>2, <3>1, <3>2, <3>3 DEF SpaceInv
  <2>7. SlotInv'
    BY <1>1, <2>5, SMT DEF SlotInv
  <2>8. SizeInv'
    <3> SUFFICES ASSUME NEW q \in Procs PROVE SizeOf(q)'
      BY DEF SizeInv
    <3>1. CASE q = p
      <4>1. a[p] = 0 /\ Mapped(pgdir[p])' = Mapped(pgdir[p]) /\ Mapped(dir[p])' = {}
        BY <1>1, <1>5, <1>8, <2>2, <2>5 DEF SizeOf, Mapped
      <4>2. QED
        BY <1>1, <1>2, <1>3, <1>5, <1>7, <2>5, <3>1, <4>1, SMT DEF SizeOf
    <3>2. CASE q # p
      <4>1. (Alive(q) => pgdir[q] # g) /\ (dir[q] # Nil => dir[q] # g)
        BY <1>2, <1>3, SMT DEF SpaceInv
      <4>2. QED
        BY <1>1, <1>4, <2>2, <2>5, <3>2, <4>1, SizeOther
    <3>3. QED
      BY <3>1, <3>2
  <2>9. QED
    BY <1>1, <1>6, <2>3, <2>4, <2>6, <2>7, <2>8, Whole
<1>9. CASE dir[p] # Nil
  <2> DEFINE d == dir[p]
  <2>1. dir' = dir /\ space' = [space EXCEPT ![d].tabs = @ \cup {g}] /\ d \in DOMAIN space
    BY <1>3, <1>9 DEF setupkvm, SpaceInv
  <2>2. /\ SpaceOK' /\ Bounded' /\ DOMAIN space' = DOMAIN space
        /\ \A c \in DOMAIN space : Mapped(c)' = Mapped(c)
    BY <1>2, <1>3, <2>1, AddedTable DEF Types
  <2>3. Types'
    BY <1>1, <2>1, <2>2 DEF Types, ProcsOK, CallsOK
  <2>4. OwnInv'
    BY <1>1, <1>2, <1>3, <2>1, TakeTable DEF OwnInv, Types
  <2>5. SpaceInv'
    BY <1>1, <1>4, <2>1, <2>2, SpacesKept
  <2>6. SlotInv'
    BY <1>1, <2>1, SMT DEF SlotInv
  <2>7. SizeInv'
    <3> SUFFICES ASSUME NEW q \in Procs PROVE SizeOf(q)'
      BY DEF SizeInv
    <3>1. (Alive(q) => pgdir[q] # Nil)
      BY DEF SpaceInv, Types, SpaceOK
    <3>2. QED
      BY <1>1, <1>4, <2>1, <2>2, <3>1, SizeOther
  <2>8. QED
    BY <1>1, <1>6, <2>3, <2>4, <2>5, <2>6, <2>7, Whole
<1>10. QED
  BY <1>8, <1>9
\* What a call that builds an address space has.
LEMMA Builder ==
  ASSUME IndInv, NEW p \in Procs, pc[p] \in {"fork", "exec"}
  PROVE  /\ state[p] = "RUNNABLE" /\ Alive(p) /\ SizeOf(p)
         /\ pgdir[p] \in DOMAIN space /\ pgdir[p] # Nil
         /\ dir[p] # Nil => /\ dir[p] \in DOMAIN space
                            /\ \A q \in Procs : Alive(q) => pgdir[q] # dir[p]
                            /\ \A q \in Procs \ {p} : dir[q] # dir[p]
         /\ pc[p] = "fork" => /\ child[p] \in Procs /\ state[child[p]] = "EMBRYO"
                              /\ kstack[child[p]] \in Pages /\ child[p] # p
                              /\ ~Alive(child[p])
                              /\ \A q \in Procs \ {p} : pc[q] = "fork" => child[q] # child[p]
<1> USE Parts, NilIs
<1>1. state[p] = "RUNNABLE" /\ Alive(p) /\ SizeOf(p)
  BY DEF SlotInv, SizeInv, Alive
<1>2. /\ pgdir[p] \in DOMAIN space /\ pgdir[p] # Nil
      /\ dir[p] # Nil => /\ dir[p] \in DOMAIN space
                         /\ \A q \in Procs : Alive(q) => pgdir[q] # dir[p]
                         /\ \A q \in Procs \ {p} : dir[q] # dir[p]
  BY <1>1 DEF SpaceInv, Types, SpaceOK
<1>3. pc[p] = "fork" => /\ child[p] \in Procs /\ state[child[p]] = "EMBRYO"
                        /\ \A q \in Procs \ {p} : pc[q] = "fork" => child[q] # child[p]
  BY SMT DEF SlotInv
<1>4. pc[p] = "fork" => kstack[child[p]] # Nil
  BY <1>3 DEF SlotInv
<1>5. QED
  BY <1>1, <1>2, <1>3, <1>4 DEF Alive, Types, ProcsOK

\* The pages of a directory are pages.
LEMMA AllOfPages ==
  ASSUME Types, NEW d \in DOMAIN space
  PROVE  AllOf(d) \subseteq Pages
<1>1. SpaceOK
  BY DEF Types
<1>2. QED
  BY <1>1, SMT DEF AllOf, UserPages, Mapped, SpaceOK, Good

\* fork or exec gives up: the directory it built, the kernel stack and the slot go.
LEMMA GivesUp ==
  ASSUME IndInv, NEW p \in Procs, pc[p] \in {"fork", "exec"}, Undone(p), Returns(p),
         panic' = panic, NEW fl, NEW lo,
         \/ dir[p] = Nil /\ space' = space /\ fl = freelist /\ lo = lost
         \/ /\ dir[p] # Nil /\ space' = Without(dir[p])
            /\ \/ fl = freelist \cup AllOf(dir[p]) /\ lo = lost
               \/ fl = freelist /\ lo = lost \cup AllOf(dir[p]),
         freelist' = fl \cup Stacks(p), lost' = lo
  PROVE  IndInv'
<1> USE Parts, NilIs
<1>1. /\ state[p] = "RUNNABLE" /\ Alive(p) /\ SizeOf(p)
      /\ pgdir[p] \in DOMAIN space /\ pgdir[p] # Nil
      /\ dir[p] # Nil => /\ dir[p] \in DOMAIN space
                         /\ \A q \in Procs : Alive(q) => pgdir[q] # dir[p]
                         /\ \A q \in Procs \ {p} : dir[q] # dir[p]
      /\ pc[p] = "fork" => /\ child[p] \in Procs /\ state[child[p]] = "EMBRYO"
                           /\ kstack[child[p]] \in Pages /\ child[p] # p
                           /\ ~Alive(child[p])
                           /\ \A q \in Procs \ {p} : pc[q] = "fork" => child[q] # child[p]
  BY Builder
<1>2. UNCHANGED <<parent, pgdir, sz>>
  BY DEF Undone, proc
<1>3. /\ pc[p] = "fork" => /\ kstack' = [kstack EXCEPT ![child[p]] = Nil]
                           /\ state' = [state EXCEPT ![child[p]] = "UNUSED"]
                           /\ Stacks(p) = {kstack[child[p]]}
      /\ pc[p] # "fork" => kstack' = kstack /\ state' = state /\ Stacks(p) = {}
  BY DEF Undone, Stacks, proc
<1>4. \A q \in Procs : /\ Alive(q)' <=> Alive(q)
                       /\ state[q] = "RUNNABLE" => state'[q] = "RUNNABLE"
  BY <1>1, <1>3 DEF Alive, Types, ProcsOK
<1>5. /\ pc'[p] = "user" /\ dir'[p] = Nil /\ a'[p] = 0
      /\ pc' \in [Procs -> {"user", "fork", "exec", "grow"}] /\ CallsOK'
      /\ \A q \in Procs \ {p} : /\ pc'[q] = pc[q] /\ dir'[q] = dir[q] /\ child'[q] = child[q]
                                /\ a'[q] = a[q] /\ newsz'[q] = newsz[q]
  BY ReturnsIs
<1>6. /\ SpaceOK' /\ Bounded' /\ DOMAIN space' = DOMAIN space \ {dir[p]}
      /\ \A c \in DOMAIN space \ {dir[p]} : Mapped(c)' = Mapped(c)
  <2>1. CASE dir[p] = Nil
    <3>1. Nil \notin DOMAIN space
      BY DEF Types, SpaceOK
    <3>2. QED
      BY <2>1, <3>1, SpaceSame DEF Types
  <2>2. CASE dir[p] # Nil
    <3>1. PICK e : e = dir[p]
      OBVIOUS
    <3>2. /\ SpaceOK' /\ Bounded' /\ DOMAIN space' = DOMAIN space \ {e}
          /\ \A c \in DOMAIN space \ {e} : Mapped(c)' = Mapped(c)
      BY <1>1, <2>2, <3>1, Removed DEF Types
    <3>3. QED
      BY <3>1, <3>2
  <2>3. QED
    BY <2>1, <2>2
<1>7. fl \subseteq Pages /\ lo \subseteq Pages
  BY <1>1, AllOfPages DEF Types
<1>8. Types'
  <2>1. ProcsOK'
    BY <1>1, <1>2, <1>3, <1>5 DEF Types, ProcsOK
  <2>2. freelist' \subseteq Pages
    BY <1>1, <1>3, <1>7
  <2>3. QED
    BY <1>5, <1>6, <1>7, <2>1, <2>2 DEF Types
<1>9. OwnInv'
  <2>1. Single(fl, lo, kstack, space')
    <3>1. CASE dir[p] = Nil
      BY <3>1 DEF OwnInv
    <3>2. CASE dir[p] # Nil
      BY <1>1, <3>2, DropSpace, SMT DEF OwnInv, Types
    <3>3. QED
      BY <3>1, <3>2
  <2>2. CASE pc[p] = "fork"
    <3>1. PICK c \in Procs : c = child[p]
      BY <1>1, <2>2
    <3>2. kstack \in [Procs -> Pages \cup {Nil}] /\ kstack[c] \in Pages
      BY <1>1, <2>2, <3>1 DEF Types, ProcsOK
    <3>3. Single(fl \cup {kstack[c]}, lo, [kstack EXCEPT ![c] = Nil], space')
      BY <2>1, <3>2, DropStack
    <3>4. freelist' = fl \cup {kstack[c]} /\ kstack' = [kstack EXCEPT ![c] = Nil]
      BY <1>3, <2>2, <3>1
    <3>5. QED
      BY <3>3, <3>4 DEF OwnInv
  <2>3. CASE pc[p] # "fork"
    <3>1. freelist' = fl
      BY <1>3, <2>3
    <3>2. QED
      BY <1>3, <2>1, <2>3, <3>1 DEF OwnInv
  <2>4. QED
    BY <2>2, <2>3
<1>10. SpaceInv'
  <2>1. \A q \in Procs : Alive(q) => pgdir[q] \in DOMAIN space'
    BY <1>1, <1>6 DEF SpaceInv, Types, SpaceOK
  <2>2. \A q \in Procs : dir'[q] # Nil =>
          /\ dir'[q] \in DOMAIN space'
          /\ \A r \in Procs : Alive(r) => pgdir[r] # dir'[q]
          /\ \A r \in Procs \ {q} : dir'[r] # dir'[q]
    <3> SUFFICES ASSUME NEW q \in Procs, dir'[q] # Nil
                 PROVE  /\ dir'[q] \in DOMAIN space'
                        /\ \A r \in Procs : Alive(r) => pgdir[r] # dir'[q]
                        /\ \A r \in Procs \ {q} : dir'[r] # dir'[q]
      OBVIOUS
    <3>1. q # p /\ dir'[q] = dir[q]
      BY <1>5
    <3>2. /\ dir[q] \in DOMAIN space /\ dir[q] # dir[p]
          /\ \A r \in Procs : Alive(r) => pgdir[r] # dir[q]
          /\ \A r \in Procs \ {q} : dir[r] # dir[q]
      BY <1>1, <3>1 DEF SpaceInv
    <3>3. \A r \in Procs \ {q} : dir'[r] # dir'[q]
      BY <1>5, <3>1, <3>2
    <3>4. QED
      BY <1>6, <3>1, <3>2, <3>3
  <2>3. \A d \in DOMAIN space' : \/ \E q \in Procs : Alive(q) /\ pgdir[q] = d
                                 \/ \E q \in Procs : dir'[q] = d
    <3> SUFFICES ASSUME NEW d \in DOMAIN space'
                 PROVE  \/ \E q \in Procs : Alive(q) /\ pgdir[q] = d
                        \/ \E q \in Procs : dir'[q] = d
      OBVIOUS
    <3>1. d \in DOMAIN space /\ d # dir[p]
      BY <1>6
    <3>2. \A q \in Procs : dir[q] = d => q # p /\ dir'[q] = d
      BY <1>5, <3>1
    <3>3. QED
      BY <3>1, <3>2 DEF SpaceInv
  <2>4. QED
    BY <1>2, <1>4, <2>1, <2>2, <2>3 DEF SpaceInv
<1>11. SlotInv'
  <2> SUFFICES ASSUME NEW q \in Procs
               PROVE  /\ state'[q] = "UNUSED" <=> kstack'[q] = Nil
                      /\ pc'[q] # "user" => state'[q] = "RUNNABLE"
                      /\ pc'[q] = "user" => dir'[q] = Nil /\ a'[q] = 0
                      /\ pc'[q] = "grow" => dir'[q] = Nil
                      /\ pc'[q] = "fork" => child'[q] \in Procs /\ state'[child'[q]] = "EMBRYO"
                      /\ \A r \in Procs : q # r /\ pc'[q] = "fork" /\ pc'[r] = "fork" =>
                           child'[q] # child'[r]
    BY DEF SlotInv
  <2>1. state'[q] = "UNUSED" <=> kstack'[q] = Nil
    <3>1. state[q] = "UNUSED" <=> kstack[q] = Nil
      BY DEF SlotInv
    <3>2. state \in [Procs -> {"UNUSED", "EMBRYO", "RUNNABLE", "ZOMBIE"}]
          /\ kstack \in [Procs -> Pages \cup {Nil}]
      BY DEF Types, ProcsOK
    <3>3. CASE pc[p] = "fork" /\ child[p] = q
      BY <1>1, <1>3, <3>2, <3>3
    <3>4. CASE ~(pc[p] = "fork" /\ child[p] = q)
      <4>1. state'[q] = state[q] /\ kstack'[q] = kstack[q]
        BY <1>1, <1>3, <3>2, <3>4
      <4>2. QED
        BY <3>1, <4>1
    <3>5. QED
      BY <3>3, <3>4
  <2>2. ASSUME pc'[q] = "fork" PROVE child'[q] \in Procs /\ state'[child'[q]] = "EMBRYO"
    <3>1. q # p /\ pc[q] = "fork" /\ child'[q] = child[q]
      BY <1>5, <2>2
    <3>2. child[q] \in Procs /\ state[child[q]] = "EMBRYO"
      BY <3>1 DEF SlotInv
    <3>3. pc[p] = "fork" => child[q] # child[p]
      BY <1>1, <3>1
    <3>4. state'[child[q]] = state[child[q]]
      BY <1>1, <1>3, <3>2, <3>3 DEF Types, ProcsOK
    <3>5. QED
      BY <3>1, <3>2, <3>4
  <2>3. ASSUME pc'[q] # "user" PROVE q # p /\ pc[q] = pc'[q] /\ state'[q] = "RUNNABLE"
    BY <1>4, <1>5, <2>3, SMT DEF SlotInv
  <2>4. ASSUME NEW r \in Procs, q # r, pc'[q] = "fork", pc'[r] = "fork"
        PROVE  child'[q] # child'[r]
    <3>1. q # p /\ r # p
      BY <1>5, <2>4
    <3>2. QED
      BY <1>5, <2>4, <3>1, SMT DEF SlotInv
  <2>5. /\ pc'[q] = "user" => dir'[q] = Nil /\ a'[q] = 0
        /\ pc'[q] = "grow" => dir'[q] = Nil
    <3>1. CASE q = p
      BY <1>5, <3>1
    <3>2. CASE q # p
      BY <1>5, <3>2, SMT DEF SlotInv
    <3>3. QED
      BY <3>1, <3>2
  <2>6. QED
    BY <2>1, <2>2, <2>3, <2>4, <2>5
<1>12. FamilyInv' /\ ThreadInv' /\ RankInv'
  BY <1>2, <1>4, <1>5, ProcsKept, TypesIs
<1>13. SizeInv'
  <2> SUFFICES ASSUME NEW q \in Procs PROVE SizeOf(q)'
    BY DEF SizeInv
  <2>1. CASE q = p
    <3>1. Mapped(pgdir[p])' = Mapped(pgdir[p])
      BY <1>1, <1>2, <1>6
    <3>2. PGROUNDUP(sz[p])' = PGROUNDUP(sz[p])
      BY <1>2 DEF PGROUNDUP
    <3>3. QED
      BY <1>1, <1>5, <2>1, <3>1, <3>2 DEF SizeOf
  <2>2. CASE q # p
    <3>1. (Alive(q) => pgdir[q] # dir[p]) /\ (dir[q] # Nil => dir[q] # dir[p])
      BY <1>1, <2>2 DEF SpaceInv, Types, SpaceOK
    <3>2. QED
      BY <1>2, <1>4, <1>5, <1>6, <2>2, <3>1, SizeOther
  <2>3. QED
    BY <2>1, <2>2
<1>14. QED
  BY <1>8, <1>9, <1>10, <1>11, <1>12, <1>13, Whole

LEMMA SetupFailsInv ==
  ASSUME IndInv, NEW p \in Procs, SetupFails(p)
  PROVE  IndInv'
<1>1. pc[p] \in {"fork", "exec"} /\ Undone(p) /\ Returns(p) /\ panic' = panic
  BY DEF SetupFails, Building
<1>2. freelist' = freelist \cup Stacks(p)
  BY DEF SetupFails
<1>3. \/ dir[p] = Nil /\ space' = space /\ lost' = lost
      \/ dir[p] # Nil /\ space' = Without(dir[p]) /\ lost' = lost \cup AllOf(dir[p])
  BY DEF SetupFails
<1>4. QED
  BY <1>1, <1>2, <1>3, GivesUp

LEMMA FillFailsInv ==
  ASSUME IndInv, NEW p \in Procs, FillFails(p)
  PROVE  IndInv'
<1>1. /\ pc[p] \in {"fork", "exec"} /\ dir[p] # Nil /\ Undone(p) /\ Returns(p)
      /\ panic' = panic /\ lost' = lost /\ space' = Without(dir[p])
  BY DEF FillFails, Building, TablesDone
<1>2. freelist' = (freelist \cup AllOf(dir[p])) \cup Stacks(p)
  BY DEF FillFails
<1>3. QED
  BY <1>1, <1>2, GivesUp

=============================================================================
