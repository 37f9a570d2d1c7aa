----------------------------- MODULE Vm_proofs ------------------------------
(***************************************************************************)
(* Proofs about module Vm, the processes and the results: for any number   *)
(* of processes, pages and page tables, a physical page has one use at a   *)
(* time, sz tells what is mapped, and no panic of vm.c is reached, until a *)
(* process resizes, replaces or leaves an address space others have.       *)
(***************************************************************************)
EXTENDS VmCalls_proofs

USE ZenonT(30), SMT

\* A new process is younger than its parent and has no children.
LEMMA RankAdded ==
  ASSUME Types, FamilyInv, RankInv, NEW p \in Procs, NEW np \in Procs, np # p,
         state[np] # "RUNNABLE", parent' = [parent EXCEPT ![np] = p]
  PROVE  RankInv'
<1>1. PICK rank \in [Procs -> Nat] :
        /\ rank[initproc] = 0
        /\ \A q \in Procs : parent[q] # Nil => rank[parent[q]] < rank[q]
  BY DEF RankInv
<1> DEFINE rank2 == [rank EXCEPT ![np] = rank[p] + 1]
<1>2. rank2 \in [Procs -> Nat] /\ rank2[np] = rank[p] + 1
      /\ \A q \in Procs \ {np} : rank2[q] = rank[q]
  BY SMT
<1> HIDE DEF rank2
<1>3. initproc # np /\ initproc \in Procs
  BY NilIs DEF FamilyInv
<1>4. ASSUME NEW q \in Procs, parent'[q] # Nil PROVE rank2[parent'[q]] < rank2[q]
  <2>1. CASE q = np
    <3>1. parent'[q] = p /\ rank2[p] = rank[p] /\ rank[p] \in Nat
      BY <1>2, <2>1 DEF Types, ProcsOK
    <3>2. QED
      BY <1>2, <2>1, <3>1, SMT
  <2>2. CASE q # np
    <3>1. parent'[q] = parent[q] /\ parent[q] \in Procs /\ parent[q] # np
      BY <1>4, <2>2 DEF Types, ProcsOK, FamilyInv
    <3>2. rank[parent[q]] < rank[q]
      BY <1>1, <1>4, <3>1
    <3>3. QED
      BY <1>2, <2>2, <3>1, <3>2
  <2>3. QED
    BY <2>1, <2>2
<1>5. QED
  BY <1>1, <1>2, <1>3, <1>4 DEF RankInv

\* A slot that fork or clone makes a process of.
LEMMA FamilyAdded ==
  ASSUME Types, FamilyInv, NEW p \in Procs, NEW np \in Procs, np # p,
         state[p] = "RUNNABLE", state[np] # "RUNNABLE",
         parent' = [parent EXCEPT ![np] = p], state' = [state EXCEPT ![np] = "RUNNABLE"]
  PROVE  FamilyInv'
<1> USE NilIs
<1>1. initproc # np
  BY DEF FamilyInv
<1>2. state'[initproc] = "RUNNABLE" /\ parent'[initproc] = Nil
  BY <1>1 DEF FamilyInv, Types, ProcsOK
<1>3. ASSUME NEW q \in Procs
      PROVE  /\ parent'[q] # Nil => Alive(q)' /\ state'[parent'[q]] = "RUNNABLE"
             /\ Alive(q)' /\ q # initproc => parent'[q] # Nil
  <2>1. CASE q = np
    BY <2>1 DEF Types, ProcsOK, Alive
  <2>2. CASE q # np
    <3>1. parent'[q] = parent[q] /\ (Alive(q)' <=> Alive(q))
      BY <2>2 DEF Types, ProcsOK, Alive
    <3>2. parent[q] # Nil => parent[q] \in Procs /\ parent[q] # np
      BY DEF Types, ProcsOK, FamilyInv
    <3>3. QED
      BY <3>1, <3>2 DEF FamilyInv, Types, ProcsOK
  <2>3. QED
    BY <2>1, <2>2
<1>4. QED
  BY <1>2, <1>3 DEF FamilyInv

LEMMA ForkedInv ==
  ASSUME IndInv, NEW p \in Procs, Forked(p)
  PROVE  IndInv'
<1> USE Parts, NilIs
<1>1. pc[p] = "fork" /\ dir[p] # Nil /\ a[p] = End(p) /\ Returns(p)
      /\ UNCHANGED <<freelist, space, kstack, lost, panic>>
  BY DEF Forked, In, TablesDone
<1>2. PICK c \in Procs : c = child[p]
  BY <1>1 DEF SlotInv
<1>3. PICK d : d = dir[p]
  OBVIOUS
<1>4. /\ pgdir' = [pgdir EXCEPT ![c] = d] /\ sz' = [sz EXCEPT ![c] = sz[p]]
      /\ parent' = [parent EXCEPT ![c] = p] /\ state' = [state EXCEPT ![c] = "RUNNABLE"]
  BY <1>2, <1>3 DEF Forked
<1>5. /\ state[p] = "RUNNABLE" /\ Alive(p) /\ SizeOf(p)
      /\ pgdir[p] \in DOMAIN space /\ d \in DOMAIN space /\ d # Nil /\ d \in Pages
      /\ \A q \in Procs : Alive(q) => pgdir[q] # d
      /\ \A q \in Procs \ {p} : dir[q] # d
      /\ state[c] = "EMBRYO" /\ c # p /\ ~Alive(c)
      /\ \A q \in Procs \ {p} : pc[q] = "fork" => child[q] # c
  BY <1>1, <1>2, <1>3, Builder, SMT DEF Types, SpaceOK
<1>6. pc[c] = "user" /\ dir[c] = Nil /\ a[c] = 0 /\ c # initproc /\ kstack[c] # Nil
  BY <1>5 DEF SlotInv, FamilyInv
<1>7. /\ pc'[p] = "user" /\ dir'[p] = Nil /\ a'[p] = 0
      /\ pc' \in [Procs -> {"user", "fork", "exec", "grow"}] /\ CallsOK'
      /\ \A q \in Procs \ {p} : /\ pc'[q] = pc[q] /\ dir'[q] = dir[q] /\ child'[q] = child[q]
                                /\ a'[q] = a[q] /\ newsz'[q] = newsz[q]
  BY <1>1, ReturnsIs
<1>8. /\ state'[c] = "RUNNABLE" /\ pgdir'[c] = d /\ sz'[c] = sz[p] /\ parent'[c] = p
      /\ \A q \in Procs \ {c} : /\ state'[q] = state[q] /\ pgdir'[q] = pgdir[q]
                                /\ sz'[q] = sz[q] /\ parent'[q] = parent[q]
  BY <1>4 DEF Types, ProcsOK
<1>9. \A q \in Procs : Alive(q)' <=> Alive(q) \/ q = c
  BY <1>8 DEF Alive
<1>10. Types'
  BY <1>1, <1>4, <1>5, <1>7, SpaceSame DEF Types, ProcsOK
<1>11. OwnInv'
  BY <1>1 DEF OwnInv
<1>12. FamilyInv' /\ RankInv'
  BY <1>4, <1>5, FamilyAdded, RankAdded
<1>13. SpaceInv'
  <2>1. \A q \in Procs : Alive(q)' => pgdir'[q] \in DOMAIN space
    BY <1>5, <1>8, <1>9 DEF SpaceInv
  <2>2. \A q \in Procs : dir'[q] # Nil =>
          /\ dir'[q] \in DOMAIN space
          /\ \A r \in Procs : Alive(r)' => pgdir'[r] # dir'[q]
          /\ \A r \in Procs \ {q} : dir'[r] # dir'[q]
    BY <1>5, <1>7, <1>8, <1>9, SMT DEF SpaceInv
  <2>3. \A e \in DOMAIN space : \/ \E q \in Procs : Alive(q)' /\ pgdir'[q] = e
                                \/ \E q \in Procs : dir'[q] = e
    BY <1>3, <1>5, <1>7, <1>8, <1>9, SMT DEF SpaceInv
  <2>4. QED
    BY <1>1, <2>1, <2>2, <2>3 DEF SpaceInv
<1>14. SlotInv'
  BY <1>1, <1>5, <1>6, <1>7, <1>8, SMT DEF SlotInv
<1>15. ThreadInv'
  <2>1. \A q \in Procs \ {c} : Threaded(q) => Threaded(q)'
    <3> SUFFICES ASSUME NEW q \in Procs \ {c}, Threaded(q) PROVE Threaded(q)'
      OBVIOUS
    <3>1. parent[q] \in Procs /\ parent[q] # c
      BY <1>5 DEF Threaded, FamilyInv, Types, ProcsOK
    <3>2. QED
      BY <1>8, <3>1 DEF Threaded
  <2>2. \A x, y \in Procs : x # y /\ Alive(x)' /\ Alive(y)' /\ pgdir'[x] = pgdir'[y] =>
          Threaded(x)' \/ Threaded(y)'
    BY <1>5, <1>8, <1>9, <2>1, SMT DEF ThreadInv
  <2>3. \A x \in Procs \ {initproc} : Alive(x)' => pgdir'[x] # pgdir'[initproc]
    BY <1>5, <1>6, <1>8, <1>9, SMT DEF ThreadInv, FamilyInv, Alive
  <2>4. \A x \in Procs : pc'[x] = "grow" =>
          \A y \in Procs \ {x} : Alive(y)' => pgdir'[y] # pgdir'[x]
    <3> SUFFICES ASSUME NEW x \in Procs, pc'[x] = "grow"
                 PROVE  \A y \in Procs \ {x} : Alive(y)' => pgdir'[y] # pgdir'[x]
      OBVIOUS
    <3>1. x # p /\ x # c /\ pc[x] = "grow" /\ Alive(x)
      BY <1>5, <1>6, <1>7, SMT DEF SlotInv, Alive
    <3>2. QED
      BY <1>5, <1>8, <1>9, <3>1, SMT DEF ThreadInv
  <2>5. QED
    BY <2>2, <2>3, <2>4 DEF ThreadInv
<1>16. SizeInv'
  <2> SUFFICES ASSUME NEW q \in Procs PROVE SizeOf(q)'
    BY DEF SizeInv
  <2>1. \A e : Mapped(e)' = Mapped(e)
    BY <1>1, SpaceSame
  <2>2. CASE q = c
    <3>1. Mapped(d) = 0..PGROUNDUP(sz[p]) - 1
      BY <1>1, <1>3, <1>5 DEF SizeOf, End
    <3>2. PGROUNDUP(sz[c])' = PGROUNDUP(sz[p]) /\ Mapped(pgdir[c])' = Mapped(d)
      BY <1>1, <1>8 DEF PGROUNDUP, Mapped
    <3>3. QED
      BY <1>5, <1>6, <1>7, <2>2, <3>1, <3>2 DEF SizeOf
  <2>3. CASE q = p
    <3>1. PGROUNDUP(sz[p])' = PGROUNDUP(sz[p]) /\ Mapped(pgdir[p])' = Mapped(pgdir[p])
      BY <1>1, <1>5, <1>8 DEF PGROUNDUP, Mapped
    <3>2. QED
      BY <1>1, <1>5, <1>7, <2>3, <3>1 DEF SizeOf
  <2>4. CASE q # c /\ q # p
    <3>1. Alive(q) => pgdir[q] # Nil
      BY DEF SpaceInv, Types, SpaceOK
    <3>2. QED
      BY <1>7, <1>8, <1>9, <2>1, <2>4, <3>1, SizeOther
  <2>5. QED
    BY <2>2, <2>3, <2>4
<1>17. QED
  BY <1>1, <1>10, <1>11, <1>12, <1>13, <1>14, <1>15, <1>16, Whole
LEMMA CloneInv ==
  ASSUME IndInv, NEW p \in Procs, clone(p)
  PROVE  IndInv'
<1> USE Parts, NilIs
<1>1. Runs(p) /\ p # initproc
      /\ UNCHANGED <<space, pc, child, dir, a, newsz, lost, panic>>
  BY DEF clone, call
<1>2. PICK np \in Unused :
        /\ allocproc(np, "RUNNABLE")
        /\ pgdir' = [pgdir EXCEPT ![np] = pgdir[p]]
        /\ sz' = [sz EXCEPT ![np] = sz[p]]
        /\ parent' = [parent EXCEPT ![np] = p]
  BY DEF clone
<1>3. /\ freelist # {} /\ freelist' = freelist \ {kalloc}
      /\ kstack' = [kstack EXCEPT ![np] = kalloc] /\ state' = [state EXCEPT ![np] = "RUNNABLE"]
  BY <1>2 DEF allocproc, Pop
<1>4. kalloc \in freelist /\ kalloc \in Pages
  BY <1>3, FreeIs
<1>5. /\ state[p] = "RUNNABLE" /\ pc[p] = "user" /\ Alive(p)
      /\ pgdir[p] \in DOMAIN space /\ sz[p] \in 0..USERTOP
      /\ Mapped(pgdir[p]) = 0..PGROUNDUP(sz[p]) - 1
  BY <1>1, Running
<1>6. /\ np \in Procs /\ state[np] = "UNUSED" /\ kstack[np] = Nil /\ np # p /\ ~Alive(np)
      /\ pc[np] = "user" /\ dir[np] = Nil /\ np # initproc
  BY <1>5, SMT DEF Unused, SlotInv, FamilyInv, Alive
<1>7. /\ state'[np] = "RUNNABLE" /\ pgdir'[np] = pgdir[p] /\ sz'[np] = sz[p] /\ parent'[np] = p
      /\ kstack'[np] = kalloc
      /\ \A q \in Procs \ {np} : /\ state'[q] = state[q] /\ pgdir'[q] = pgdir[q]
                                 /\ sz'[q] = sz[q] /\ parent'[q] = parent[q]
                                 /\ kstack'[q] = kstack[q]
  BY <1>2, <1>3, <1>6 DEF Types, ProcsOK
<1>8. \A q \in Procs : Alive(q)' <=> Alive(q) \/ q = np
  BY <1>7 DEF Alive
<1>9. Types'
  BY <1>1, <1>2, <1>3, <1>4, <1>5, <1>6, SpaceSame DEF Types, ProcsOK, CallsOK, SpaceOK
<1>10. OwnInv'
  BY <1>1, <1>3, <1>4, <1>6, TakeStack DEF OwnInv, Types, ProcsOK
<1>11. FamilyInv' /\ RankInv'
  BY <1>2, <1>3, <1>5, <1>6, FamilyAdded, RankAdded
<1>12. SpaceInv'
  <2>1. \A q \in Procs : Alive(q)' => pgdir'[q] \in DOMAIN space
    BY <1>5, <1>7, <1>8 DEF SpaceInv
  <2>2. \A q \in Procs : dir[q] # Nil => \A r \in Procs : Alive(r)' => pgdir'[r] # dir[q]
    BY <1>5, <1>7, <1>8, SMT DEF SpaceInv
  <2>3. \A e \in DOMAIN space : \/ \E q \in Procs : Alive(q)' /\ pgdir'[q] = e
                                \/ \E q \in Procs : dir[q] = e
    BY <1>6, <1>7, <1>8, SMT DEF SpaceInv
  <2>4. QED
    BY <1>1, <2>1, <2>2, <2>3 DEF SpaceInv
<1>13. SlotInv'
  BY <1>1, <1>4, <1>6, <1>7, SMT DEF SlotInv
<1>14. ThreadInv'
  <2>1. \A q \in Procs \ {np} : Threaded(q) => Threaded(q)'
    <3> SUFFICES ASSUME NEW q \in Procs \ {np}, Threaded(q) PROVE Threaded(q)'
      OBVIOUS
    <3>1. parent[q] \in Procs /\ parent[q] # np
      BY <1>6 DEF Threaded, FamilyInv, Types, ProcsOK
    <3>2. QED
      BY <1>7, <3>1, SMT DEF Threaded
  <2>2. Threaded(np)'
    BY <1>6, <1>7 DEF Threaded
  <2>3. \A x, y \in Procs : x # y /\ Alive(x)' /\ Alive(y)' /\ pgdir'[x] = pgdir'[y] =>
          Threaded(x)' \/ Threaded(y)'
    BY <1>7, <1>8, <2>1, <2>2, SMT DEF ThreadInv
  <2>4. \A x \in Procs \ {initproc} : Alive(x)' => pgdir'[x] # pgdir'[initproc]
    BY <1>1, <1>5, <1>6, <1>7, <1>8, SMT DEF ThreadInv
  <2>5. \A x \in Procs : pc[x] = "grow" =>
          \A y \in Procs \ {x} : Alive(y)' => pgdir'[y] # pgdir'[x]
    <3> SUFFICES ASSUME NEW x \in Procs, pc[x] = "grow"
                 PROVE  \A y \in Procs \ {x} : Alive(y)' => pgdir'[y] # pgdir'[x]
      OBVIOUS
    <3>1. x # p /\ x # np
      BY <1>5, <1>6
    <3>2. QED
      BY <1>5, <1>7, <1>8, <3>1, SMT DEF ThreadInv
  <2>6. QED
    BY <1>1, <2>3, <2>4, <2>5 DEF ThreadInv
<1>15. SizeInv'
  <2> SUFFICES ASSUME NEW q \in Procs PROVE SizeOf(q)'
    BY DEF SizeInv
  <2>1. \A e : Mapped(e)' = Mapped(e)
    BY <1>1, SpaceSame
  <2>2. CASE q = np
    <3>1. PGROUNDUP(sz[np])' = PGROUNDUP(sz[p]) /\ Mapped(pgdir[np])' = Mapped(pgdir[p])
      BY <1>1, <1>7 DEF PGROUNDUP, Mapped
    <3>2. QED
      BY <1>1, <1>5, <1>6, <2>2, <3>1 DEF SizeOf
  <2>3. CASE q # np
    <3>1. Alive(q) => pgdir[q] # Nil
      BY DEF SpaceInv, Types, SpaceOK
    <3>2. QED
      BY <1>1, <1>7, <1>8, <2>1, <2>3, <3>1, SizeOther
  <2>4. QED
    BY <2>2, <2>3
<1>16. QED
  BY <1>1, <1>9, <1>10, <1>11, <1>12, <1>13, <1>14, <1>15, Whole

LEMMA ExitInv ==
  ASSUME IndInv, ~abandoned', NEW p \in Procs, exit(p)
  PROVE  IndInv'
<1> USE Parts, NilIs
<1>1. /\ state[p] = "RUNNABLE" /\ pc[p] = "user" /\ p # initproc
      /\ \A q \in Procs : parent[q] = p => pgdir[q] # pgdir[p]
      /\ state' = [state EXCEPT ![p] = "ZOMBIE"]
      /\ parent' = [q \in Procs |-> IF parent[q] = p THEN initproc ELSE parent[q]]
      /\ UNCHANGED <<freelist, space, pgdir, sz, kstack, pc, child, dir, a, newsz, lost, panic>>
  BY DEF exit, In, call
<1>2. /\ state'[p] = "ZOMBIE" /\ \A q \in Procs \ {p} : state'[q] = state[q]
      /\ \A q \in Procs : parent'[q] = IF parent[q] = p THEN initproc ELSE parent[q]
  BY <1>1 DEF Types, ProcsOK
<1>3. \A q \in Procs : Alive(q)' <=> Alive(q)
  BY <1>1, <1>2 DEF Alive
<1>4. Types'
  BY <1>1, SpaceSame DEF Types, ProcsOK, CallsOK
<1>5. OwnInv' /\ SpaceInv'
  BY <1>1, <1>3, SpacesKept DEF OwnInv
<1>6. SlotInv'
  BY <1>1, <1>2, SMT DEF SlotInv
<1>7. FamilyInv'
  BY <1>1, <1>2, <1>3, SMT DEF FamilyInv, Types, ProcsOK
<1>8. RankInv'
  <2>1. PICK rank \in [Procs -> Nat] :
          /\ rank[initproc] = 0
          /\ \A q \in Procs : parent[q] # Nil => rank[parent[q]] < rank[q]
    BY DEF RankInv
  <2>2. ASSUME NEW q \in Procs, parent'[q] # Nil PROVE rank[parent'[q]] < rank[q]
    <3>1. CASE parent[q] = p
      <4>1. rank[p] < rank[q] /\ rank[p] \in Nat /\ rank[q] \in Nat
        BY <2>1, <3>1
      <4>2. QED
        BY <1>2, <2>1, <3>1, <4>1, SMT
    <3>2. CASE parent[q] # p
      BY <1>2, <2>1, <2>2, <3>2
    <3>3. QED
      BY <3>1, <3>2
  <2>3. QED
    BY <2>1, <2>2 DEF RankInv
<1>9. ThreadInv'
  <2>1. \A q \in Procs : Threaded(q) => Threaded(q)'
    BY <1>1, <1>2 DEF Threaded
  <2>2. QED
    BY <1>1, <1>3, <2>1 DEF ThreadInv
<1>10. SizeInv'
  <2> SUFFICES ASSUME NEW q \in Procs PROVE SizeOf(q)'
    BY DEF SizeInv
  <2>1. (Alive(q) => pgdir[q] # Nil) /\ \A e : Mapped(e)' = Mapped(e)
    BY <1>1, SpaceSame DEF SpaceInv, Types, SpaceOK
  <2>2. QED
    BY <1>1, <1>3, <2>1, SizeOther
<1>11. QED
  BY <1>1, <1>4, <1>5, <1>6, <1>7, <1>8, <1>9, <1>10, Whole

LEMMA CommittedInv ==
  ASSUME IndInv, ~abandoned', NEW p \in Procs, Committed(p)
  PROVE  IndInv'
<1> USE Parts, NilIs
<1>1. pc[p] = "exec" /\ dir[p] # Nil /\ a[p] * PGSIZE = newsz[p] /\ Returns(p)
      /\ UNCHANGED <<state, parent, kstack, lost, panic>>
  BY DEF Committed, In, TablesDone
<1>2. PICK d, old : d = dir[p] /\ old = pgdir[p]
  OBVIOUS
<1>3. /\ pgdir' = [pgdir EXCEPT ![p] = d] /\ sz' = [sz EXCEPT ![p] = newsz[p]]
      /\ freelist' = freelist \cup AllOf(old) /\ space' = Without(old)
  BY <1>2 DEF Committed, freevm
<1>4. /\ state[p] = "RUNNABLE" /\ Alive(p) /\ SizeOf(p)
      /\ old \in DOMAIN space /\ d \in DOMAIN space /\ d # Nil /\ d \in Pages /\ d # old
      /\ \A q \in Procs : Alive(q) => pgdir[q] # d
      /\ \A q \in Procs \ {p} : dir[q] # d
  BY <1>1, <1>2, Builder, SMT DEF Types, SpaceOK
<1>5. /\ \A q \in Procs \ {p} : Alive(q) => pgdir[q] # old
      /\ \A q \in Procs : dir[q] # Nil => dir[q] # old
  <2>1. ~Shares(p)
    BY DEF Committed
  <2>2. QED
    BY <1>1, <1>2, <1>4, <2>1, SMT DEF Shares, SpaceInv
<1>6. newsz[p] \in 0..USERTOP /\ PGROUNDUP(newsz[p]) = a[p] /\ Mapped(d) = 0..a[p] - 1
  <2> DEFINE k == USERTOP \div PGSIZE
  <2>1. k \in Nat /\ PGSIZE * k <= USERTOP /\ PGSIZE * k \in Nat
    <3>1. k \in Nat /\ USERTOP % PGSIZE \in 0..PGSIZE - 1
          /\ USERTOP = PGSIZE * k + (USERTOP % PGSIZE)
      BY Division, Constants
    <3>2. PGSIZE * k \in Nat
      BY <3>1, Constants, SMT
    <3>3. QED
      BY <3>1, <3>2, Constants, SMT
  <2>2. a[p] \in Nat /\ a[p] <= k
    <3>1. a[p] \in Nat /\ a[p] <= End(p)
      BY <1>1, <1>4 DEF SizeOf, Types, CallsOK
    <3>2. QED
      BY <2>1, <3>1, EndIs, SMT
  <2> HIDE DEF k
  <2>3. PGSIZE * a[p] <= PGSIZE * k
    BY <2>1, <2>2, Constants, SMT
  <2>4. newsz[p] = PGSIZE * a[p] /\ PGSIZE * a[p] \in Nat
    BY <1>1, <2>2, Constants, SMT
  <2>5. newsz[p] \in 0..USERTOP
    BY <2>1, <2>3, <2>4, Constants, SMT
  <2>6. PGROUNDUP(newsz[p]) = a[p]
    BY <1>1, <2>2, WholePages
  <2>7. Mapped(d) = 0..a[p] - 1
    BY <1>1, <1>2, <1>4 DEF SizeOf
  <2>8. QED
    BY <2>5, <2>6, <2>7
<1>7. /\ pc'[p] = "user" /\ dir'[p] = Nil /\ a'[p] = 0
      /\ pc' \in [Procs -> {"user", "fork", "exec", "grow"}] /\ CallsOK'
      /\ \A q \in Procs \ {p} : /\ pc'[q] = pc[q] /\ dir'[q] = dir[q] /\ child'[q] = child[q]
                                /\ a'[q] = a[q] /\ newsz'[q] = newsz[q]
  BY <1>1, ReturnsIs
<1>8. /\ pgdir'[p] = d /\ sz'[p] = newsz[p]
      /\ \A q \in Procs \ {p} : pgdir'[q] = pgdir[q] /\ sz'[q] = sz[q]
  BY <1>3 DEF Types, ProcsOK
<1>9. /\ SpaceOK' /\ Bounded' /\ DOMAIN space' = DOMAIN space \ {old}
      /\ \A c \in DOMAIN space \ {old} : Mapped(c)' = Mapped(c)
  BY <1>3, <1>4, Removed DEF Types
<1>10. \A q \in Procs : Alive(q)' <=> Alive(q)
  BY <1>1 DEF Alive
<1>11. Types'
  BY <1>1, <1>3, <1>4, <1>6, <1>7, <1>9, AllOfPages DEF Types, ProcsOK
<1>12. OwnInv'
  BY <1>1, <1>3, <1>4, DropSpace DEF OwnInv, Types
<1>13. SpaceInv'
  <2>1. \A q \in Procs : Alive(q) => pgdir'[q] \in DOMAIN space'
    BY <1>4, <1>5, <1>8, <1>9, SMT DEF SpaceInv
  <2>2. \A q \in Procs : dir'[q] # Nil =>
          /\ dir'[q] \in DOMAIN space'
          /\ \A r \in Procs : Alive(r) => pgdir'[r] # dir'[q]
          /\ \A r \in Procs \ {q} : dir'[r] # dir'[q]
    BY <1>4, <1>5, <1>7, <1>8, <1>9, SMT DEF SpaceInv
  <2>3. \A e \in DOMAIN space' : \/ \E q \in Procs : Alive(q) /\ pgdir'[q] = e
                                 \/ \E q \in Procs : dir'[q] = e
    BY <1>2, <1>4, <1>7, <1>8, <1>9, SMT DEF SpaceInv
  <2>4. QED
    BY <1>10, <2>1, <2>2, <2>3 DEF SpaceInv
<1>14. SlotInv'
  BY <1>1, <1>7, SMT DEF SlotInv
<1>15. FamilyInv' /\ RankInv'
  BY <1>1, <1>10 DEF FamilyInv, RankInv
<1>16. ThreadInv'
  <2>1. \A q \in Procs \ {p} : Threaded(q) => Threaded(q)'
    <3> SUFFICES ASSUME NEW q \in Procs \ {p}, Threaded(q) PROVE Threaded(q)'
      OBVIOUS
    <3>1. parent[q] \in Procs /\ parent[q] # p
      BY <1>2, <1>5 DEF Threaded, FamilyInv, Types, ProcsOK
    <3>2. QED
      BY <1>1, <1>8, <3>1 DEF Threaded
  <2>2. \A x, y \in Procs : x # y /\ Alive(x) /\ Alive(y) /\ pgdir'[x] = pgdir'[y] =>
          Threaded(x)' \/ Threaded(y)'
    BY <1>4, <1>8, <2>1 DEF ThreadInv
  <2>3. \A x \in Procs \ {initproc} : Alive(x) => pgdir'[x] # pgdir'[initproc]
    BY <1>4, <1>8, SMT DEF ThreadInv, FamilyInv, Alive
  <2>4. \A x \in Procs : pc'[x] = "grow" =>
          \A y \in Procs \ {x} : Alive(y) => pgdir'[y] # pgdir'[x]
    <3> SUFFICES ASSUME NEW x \in Procs, pc'[x] = "grow"
                 PROVE  \A y \in Procs \ {x} : Alive(y) => pgdir'[y] # pgdir'[x]
      OBVIOUS
    <3>1. x # p /\ pc[x] = "grow" /\ Alive(x)
      BY <1>7, SMT DEF SlotInv, Alive
    <3>2. pgdir'[x] = pgdir[x] /\ pgdir[x] # d
      BY <1>4, <1>8, <3>1
    <3>3. ASSUME NEW y \in Procs \ {x}, Alive(y) PROVE pgdir'[y] # pgdir'[x]
      <4>1. CASE y = p
        BY <1>8, <3>2, <4>1
      <4>2. CASE y # p
        BY <1>8, <3>1, <3>2, <3>3, <4>2 DEF ThreadInv
      <4>3. QED
        BY <4>1, <4>2
    <3>4. QED
      BY <3>3
  <2>5. QED
    BY <1>10, <2>2, <2>3, <2>4 DEF ThreadInv
<1>17. SizeInv'
  <2> SUFFICES ASSUME NEW q \in Procs PROVE SizeOf(q)'
    BY DEF SizeInv
  <2>1. CASE q = p
    <3>1. PGROUNDUP(sz[p])' = a[p] /\ Mapped(pgdir[p])' = 0..a[p] - 1
      BY <1>4, <1>6, <1>8, <1>9 DEF PGROUNDUP, Mapped
    <3>2. QED
      BY <1>7, <2>1, <3>1 DEF SizeOf
  <2>2. CASE q # p
    BY <1>5, <1>7, <1>8, <1>9, <1>10, <2>2, SizeOther
  <2>3. QED
    BY <2>1, <2>2
<1>18. QED
  BY <1>1, <1>11, <1>12, <1>13, <1>14, <1>15, <1>16, <1>17, Whole

\* A set of natural numbers that is not empty has a least element.
LEMMA LeastIn ==
  ASSUME NEW S \in SUBSET Nat, S # {}
  PROVE  \E x \in S : \A y \in S : x <= y
<1>1. PICK x \in S : \A y \in S : ~(<<y, x>> \in OpToRel(<, Nat))
  BY WFMin, NatLessThanWellFounded
<1>2. \A y \in S : <<y, x>> \in Nat \X Nat /\ ~(<<y, x>>[1] < <<y, x>>[2])
  BY <1>1 DEF OpToRel
<1>3. ASSUME NEW y \in S PROVE x <= y
  <2>1. x \in Nat /\ y \in Nat
    OBVIOUS
  <2>2. ~(y < x)
    BY <1>2
  <2>3. QED
    BY <2>1, <2>2, SMT
<1>4. QED
  BY <1>3

\* A zombie that is not a thread of its parent has its address space alone: else
\* the eldest of those it shares with would have an elder parent among them.
LEMMA ThreadsGone ==
  ASSUME IndInv, NEW q \in Procs, state[q] = "ZOMBIE", ~Threaded(q),
         NEW r \in Procs, Alive(r), r # q
  PROVE  pgdir[r] # pgdir[q]
<1> USE Parts, NilIs
<1> SUFFICES ASSUME pgdir[r] = pgdir[q] PROVE FALSE
  OBVIOUS
<1>1. PICK rank \in [Procs -> Nat] :
        /\ rank[initproc] = 0
        /\ \A x \in Procs : parent[x] # Nil => rank[parent[x]] < rank[x]
  BY DEF RankInv
<1> DEFINE Sharing(x) == Alive(x) /\ x # q /\ pgdir[x] = pgdir[q]
           S == {n \in Nat : \E x \in Procs : Sharing(x) /\ rank[x] = n}
<1>2. rank[r] \in S
  OBVIOUS
<1>3. PICK m \in S : \A n \in S : m <= n
  BY <1>2, LeastIn
<1>4. PICK x \in Procs : Sharing(x) /\ rank[x] = m
  BY <1>3
<1>5. parent[x] # Nil /\ pgdir[parent[x]] = pgdir[x]
  BY <1>4 DEF ThreadInv, Threaded, Alive
<1>6. parent[x] \in Procs /\ Sharing(parent[x]) /\ rank[parent[x]] < rank[x]
  BY <1>1, <1>4, <1>5, SMT DEF FamilyInv, Alive, Types, ProcsOK
<1>7. rank[parent[x]] \in S /\ rank[x] \in Nat /\ rank[parent[x]] \in Nat
  BY <1>6
<1>8. m <= rank[parent[x]]
  BY <1>3, <1>7
<1>9. QED
  BY <1>4, <1>6, <1>7, <1>8, SMT

LEMMA WaitInv ==
  ASSUME IndInv, NEW p \in Procs, NEW q \in Procs, wait(p, q)
  PROVE  IndInv'
<1> USE Parts, NilIs
<1>1. /\ Runs(p) /\ parent[q] = p /\ state[q] = "ZOMBIE"
      /\ kstack' = [kstack EXCEPT ![q] = Nil] /\ state' = [state EXCEPT ![q] = "UNUSED"]
      /\ parent' = [parent EXCEPT ![q] = Nil]
      /\ UNCHANGED <<pgdir, sz, pc, child, dir, a, newsz, lost>>
  BY DEF wait, call
<1>2. /\ state[p] = "RUNNABLE" /\ Alive(p) /\ Alive(q) /\ q # p /\ q # initproc
      /\ pc[q] = "user" /\ dir[q] = Nil /\ kstack[q] \in Pages
      /\ pgdir[q] \in DOMAIN space /\ pgdir[p] \in DOMAIN space
  <2>1. state[p] = "RUNNABLE" /\ Alive(p) /\ pgdir[p] \in DOMAIN space
    BY <1>1, Running
  <2>2. Alive(q) /\ q # p /\ q # initproc
    BY <1>1, <2>1 DEF Alive, FamilyInv, Types, ProcsOK
  <2>3. pc[q] = "user" /\ dir[q] = Nil /\ kstack[q] \in Pages
    BY <1>1, <2>2, SMT DEF SlotInv, Alive, Types, ProcsOK
  <2>4. QED
    BY <2>1, <2>2, <2>3 DEF SpaceInv
<1>3. /\ state'[q] = "UNUSED" /\ kstack'[q] = Nil /\ parent'[q] = Nil
      /\ \A x \in Procs \ {q} : /\ state'[x] = state[x] /\ kstack'[x] = kstack[x]
                                /\ parent'[x] = parent[x] /\ parent[x] # q
  BY <1>1 DEF Types, ProcsOK, FamilyInv
<1>4. \A x \in Procs : Alive(x)' <=> Alive(x) /\ x # q
  BY <1>3 DEF Alive
<1>5. PICK d : d = IF IsThread(p, q) THEN Nil ELSE pgdir[q]
  OBVIOUS
<1>6. /\ \A x \in Procs \ {q} : Alive(x) => pgdir[x] # d
      /\ \A x \in Procs : dir[x] # Nil => dir[x] # d
  <2>1. CASE IsThread(p, q)
    BY <1>5, <2>1 DEF SpaceInv, Types, SpaceOK
  <2>2. CASE ~IsThread(p, q)
    <3>1. ~Threaded(q)
      BY <1>1, <2>2 DEF Threaded, IsThread
    <3>2. d = pgdir[q]
      BY <1>5, <2>2
    <3>3. ASSUME NEW x \in Procs \ {q}, Alive(x) PROVE pgdir[x] # d
      BY <1>1, <3>1, <3>2, <3>3, ThreadsGone
    <3>4. QED
      BY <1>2, <3>2, <3>3 DEF SpaceInv
  <2>3. QED
    BY <2>1, <2>2
<1>7. /\ \A e \in DOMAIN space \ {d} : (\E x \in Procs : Alive(x)' /\ pgdir[x] = e)
                                       \/ (\E x \in Procs : dir[x] = e)
  <2> SUFFICES ASSUME NEW e \in DOMAIN space \ {d}, NEW x \in Procs, Alive(x), pgdir[x] = e
               PROVE  \E y \in Procs : Alive(y)' /\ pgdir[y] = e
    BY DEF SpaceInv
  <2>1. CASE x = q
    BY <1>2, <1>4, <1>5, <2>1 DEF IsThread
  <2>2. CASE x # q
    BY <1>4, <2>2
  <2>3. QED
    BY <2>1, <2>2
<1>8. PICK fl : /\ freelist' = fl \cup {kstack[q]} /\ panic' = panic
                /\ \/ d = Nil /\ fl = freelist /\ space' = space
                   \/ d # Nil /\ d \in DOMAIN space /\ fl = freelist \cup AllOf(d) /\ space' = Without(d)
  <2>1. CASE IsThread(p, q)
    BY <1>5, <2>1 DEF wait
  <2>2. CASE ~IsThread(p, q)
    <3>1. /\ freelist' = freelist \cup {kstack[q]} \cup AllOf(pgdir[q])
          /\ space' = Without(pgdir[q]) /\ panic' = panic
      BY <1>2, <2>2 DEF wait
    <3>2. d = pgdir[q] /\ d # Nil
      BY <1>2, <1>5, <2>2 DEF Types, SpaceOK
    <3>3. freelist' = (freelist \cup AllOf(d)) \cup {kstack[q]}
      BY <3>1, <3>2
    <3>4. QED
      BY <1>2, <3>1, <3>2, <3>3
  <2>3. QED
    BY <2>1, <2>2
<1>9. /\ SpaceOK' /\ Bounded' /\ DOMAIN space' = DOMAIN space \ {d}
      /\ \A c \in DOMAIN space \ {d} : Mapped(c)' = Mapped(c)
  <2>1. CASE d = Nil
    <3>1. Nil \notin DOMAIN space /\ space' = space
      BY <1>8, <2>1 DEF Types, SpaceOK
    <3>2. QED
      BY <2>1, <3>1, SpaceSame DEF Types
  <2>2. CASE d # Nil
    BY <1>8, <2>2, Removed DEF Types
  <2>3. QED
    BY <2>1, <2>2
<1>10. Types'
  <2>1. fl \subseteq Pages
    BY <1>8, AllOfPages DEF Types
  <2>2. QED
    BY <1>1, <1>2, <1>8, <1>9, <2>1 DEF Types, ProcsOK, CallsOK
<1>11. OwnInv'
  <2>1. Single(fl, lost, kstack, space')
    <3>1. CASE d = Nil
      BY <1>8, <3>1 DEF OwnInv
    <3>2. CASE d # Nil
      BY <1>8, <3>2, DropSpace, SMT DEF OwnInv, Types
    <3>3. QED
      BY <3>1, <3>2
  <2>2. Single(fl \cup {kstack[q]}, lost, [kstack EXCEPT ![q] = Nil], space')
    BY <1>2, <2>1, DropStack DEF Types, ProcsOK
  <2>3. QED
    BY <1>1, <1>8, <2>2 DEF OwnInv
<1>12. SpaceInv'
  <2>1. \A x \in Procs : Alive(x)' => pgdir[x] \in DOMAIN space'
    BY <1>4, <1>6, <1>9 DEF SpaceInv
  <2>2. \A x \in Procs : dir[x] # Nil =>
          /\ dir[x] \in DOMAIN space'
          /\ \A y \in Procs : Alive(y)' => pgdir[y] # dir[x]
    BY <1>4, <1>6, <1>9 DEF SpaceInv
  <2>3. QED
    BY <1>1, <1>7, <1>9, <2>1, <2>2 DEF SpaceInv
<1>13. SlotInv'
  BY <1>1, <1>2, <1>3, SMT DEF SlotInv
<1>14. FamilyInv'
  BY <1>2, <1>3, <1>4, SMT DEF FamilyInv, Types, ProcsOK
<1>15. RankInv'
  <2>1. \A x \in Procs : parent'[x] # Nil => parent'[x] = parent[x]
    BY <1>3
  <2>2. QED
    BY <2>1 DEF RankInv
<1>16. ThreadInv'
  <2>1. \A x \in Procs \ {q} : Threaded(x) => Threaded(x)'
    BY <1>1, <1>3 DEF Threaded
  <2>2. \A x, y \in Procs : x # y /\ Alive(x)' /\ Alive(y)' /\ pgdir[x] = pgdir[y] =>
          Threaded(x)' \/ Threaded(y)'
    BY <1>4, <2>1 DEF ThreadInv
  <2>3. QED
    BY <1>1, <1>4, <2>2 DEF ThreadInv
<1>17. SizeInv'
  <2> SUFFICES ASSUME NEW x \in Procs PROVE SizeOf(x)'
    BY DEF SizeInv
  <2>1. CASE x = q
    BY <1>1, <1>2, <1>4, <2>1 DEF SizeOf
  <2>2. CASE x # q
    BY <1>1, <1>4, <1>6, <1>9, <2>2, SizeOther
  <2>3. QED
    BY <2>1, <2>2
<1>18. QED
  BY <1>8, <1>10, <1>11, <1>12, <1>13, <1>14, <1>15, <1>16, <1>17, Whole

LEMMA StutterInv ==
  ASSUME IndInv, UNCHANGED vars
  PROVE  IndInv'
<1> USE Parts
<1>1. UNCHANGED <<freelist, space, state, parent, pgdir, sz, kstack, pc, child, dir, a, newsz,
                  lost, panic>>
  BY DEF vars, proc, call
<1>2. \A q \in Procs : Alive(q)' <=> Alive(q)
  BY <1>1 DEF Alive
<1>3. Types'
  BY <1>1, SpaceSame DEF Types, ProcsOK, CallsOK
<1>4. OwnInv' /\ SpaceInv' /\ SlotInv'
  BY <1>1, <1>2, SpacesKept, SMT DEF OwnInv, SlotInv
<1>5. FamilyInv' /\ ThreadInv' /\ RankInv'
  BY <1>1, <1>2, ProcsKept, TypesIs
<1>6. SizeInv'
  <2> SUFFICES ASSUME NEW q \in Procs PROVE SizeOf(q)'
    BY DEF SizeInv
  <2>1. \A e : Mapped(e)' = Mapped(e)
    BY <1>1, SpaceSame
  <2>2. QED
    BY <1>1, <1>2, <2>1, SizeKept DEF SizeInv
<1>7. QED
  BY <1>1, <1>3, <1>4, <1>5, <1>6, Whole

-----------------------------------------------------------------------------
\* What has happened has happened.
LEMMA HistoriesKept ==
  ASSUME [Next]_vars
  PROVE  resized => resized'
<1>1. ASSUME NEW p \in Procs, Calls(p) PROVE resized => resized'
  <2>1. ASSUME NEW n \in Deltas, growproc(p, n) \/ Shrink(p, n) PROVE resized => resized'
    BY <2>1 DEF growproc, Shrink
  <2>2. ASSUME fork(p) \/ clone(p) \/ exit(p) \/ (\E n \in Images : exec(p, n))
               \/ (\E q \in Procs : wait(p, q))
        PROVE  UNCHANGED resized
    BY <2>2 DEF fork, clone, exit, exec, wait, histories
  <2>3. QED
    BY <1>1, <2>1, <2>2 DEF Calls
<1>2. ASSUME NEW p \in Procs, Steps(p) PROVE UNCHANGED resized
  BY <1>2 DEF Steps, setupkvm, SetupFails, Fill, FillFails, Forked, Committed, GrowPage,
              GrowFails, Grown, histories
<1>3. QED
  BY <1>1, <1>2 DEF Next, vars, histories

\* The invariant holds as long as address spaces are changed and left by those
\* who have them alone.
Undisturbed == ~abandoned /\ ~resized

LEMMA Inductive == Spec => [](Undisturbed => IndInv)
<1>1. ASSUME Undisturbed => IndInv, [Next]_vars, Undisturbed' PROVE IndInv'
  <2>1. ~resized /\ ~resized' /\ ~abandoned'
    BY <1>1, HistoriesKept DEF Undisturbed
  <2>2. ~abandoned
    BY <1>1, <2>1 DEF Next, vars, histories
  <2>3. IndInv
    BY <1>1, <2>1, <2>2 DEF Undisturbed
  <2>4. ASSUME NEW p \in Procs, Calls(p) PROVE IndInv'
    BY <2>1, <2>3, <2>4, ForkInv, CloneInv, ExitInv, ExecInv, GrowInv, ShrinkInv, WaitInv
       DEF Calls
  <2>5. ASSUME NEW p \in Procs, Steps(p) PROVE IndInv'
    BY <2>1, <2>3, <2>5, SetupInv, SetupFailsInv, FillInv, FillFailsInv, ForkedInv,
       CommittedInv, GrowPageInv, GrowFailsInv, GrownInv DEF Steps
  <2>6. QED
    BY <1>1, <2>3, <2>4, <2>5, StutterInv DEF Next
<1>2. QED
  BY <1>1, InitInv, PTL DEF Spec

\* For any number of processes, pages and page tables, as long as no address
\* space is resized while another process has it: whatever fork, clone, exec,
\* sbrk, exit and wait do and wherever kalloc fails in them, and until a process
\* leaves an address space to its threads, every physical page is free, lost by
\* a failed setupkvm, a kernel stack, or part of one address space, once; and
\* the address spaces are those of processes and of calls.
THEOREM PagesStayOwned == Spec => [](~resized => PagesOwnedOnce)
<1>1. ASSUME IndInv PROVE PagesOwnedOnce
  <2> USE <1>1, Parts
  <2>1. TypeOK
    BY TypesIs DEF TypeInv
  <2>2. \A g \in Pages : \E o \in Owners(g) : Owners(g) = {o}
    BY OneOwner DEF OwnInv, Types
  <2>3. DOMAIN space = {pgdir[p] : p \in {q \in Procs : Alive(q)}}
                       \cup ({dir[p] : p \in Procs} \ {Nil})
    <3>1. /\ \A p \in Procs : Alive(p) => pgdir[p] \in DOMAIN space
          /\ \A p \in Procs : dir[p] # Nil => dir[p] \in DOMAIN space
      BY DEF SpaceInv
    <3>2. \A d \in DOMAIN space : d # Nil /\ (\/ \E p \in Procs : Alive(p) /\ pgdir[p] = d
                                             \/ \E p \in Procs : dir[p] = d)
      BY NilIs DEF SpaceInv, Types, SpaceOK
    <3>3. QED
      BY <3>1, <3>2
  <2>4. QED
    BY <2>1, <2>2, <2>3 DEF PagesOwnedOnce
<1>2. (Undisturbed => IndInv) => (~resized => PagesOwnedOnce)
  BY <1>1 DEF Undisturbed, PagesOwnedOnce
<1>3. QED
  BY <1>2, Inductive, PTL

\* Until an address space that others have is resized, replaced or left, the
\* kernel does not panic in vm.c: mappages never meets a mapped page, copyuvm
\* never misses one, freevm never gets a directory that is free.
THEOREM VmNeverPanics == Spec => []NoVmPanic
<1>1. (Undisturbed => IndInv) => NoVmPanic
  BY DEF IndInv, FiniteInv, Undisturbed, NoVmPanic
<1>2. QED
  BY <1>1, Inductive, PTL

\* Until then proc->sz and the page table agree after every call, failed ones
\* included.
THEOREM SizeStaysMapped == Spec => []SizeIsMapped
<1>1. (Undisturbed => IndInv) => SizeIsMapped
  BY Parts DEF SizeInv, SizeOf, SizeIsMapped, Undisturbed
<1>2. QED
  BY <1>1, Inductive, PTL

=============================================================================
