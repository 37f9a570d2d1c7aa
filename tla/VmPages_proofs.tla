--------------------------- MODULE VmPages_proofs ---------------------------
(***************************************************************************)
(* Proofs about module Vm, the pages: what a physical page is used for,    *)
(* what taking a page from the free list and giving pages back does to     *)
(* that, the inductive invariant, and the calls that move no page: the     *)
(* entry of fork, exec and growproc, and growproc's return.                *)
(***************************************************************************)
EXTENDS Vm, NaturalsInduction, WellFoundedInduction, TLAPS

USE ZenonT(30), SMT

\* What the proofs use of the sizes.
LEMMA Constants ==
  /\ NPROC \in Nat /\ NPAGES \in Nat /\ NTABLES \in Nat /\ PGSIZE \in Nat /\ USERTOP \in Nat
  /\ NPROC > 0 /\ NPAGES > 0 /\ NTABLES > 0 /\ PGSIZE > 0
  /\ NPAGES >= NTABLES + 3 /\ USERTOP >= PGSIZE
BY VmConstants, SMT

\* Division with remainder.
LEMMA Division ==
  ASSUME NEW x \in Nat
  PROVE  /\ x \div PGSIZE \in Nat /\ x % PGSIZE \in 0..PGSIZE - 1
         /\ x = PGSIZE * (x \div PGSIZE) + (x % PGSIZE)
BY Constants, SMT

\* A number of pages is determined by any address in its last page.
LEMMA Quotient ==
  ASSUME NEW x \in Nat, NEW k \in Nat, PGSIZE * k <= x, x < PGSIZE * k + PGSIZE
  PROVE  x \div PGSIZE = k
<1> DEFINE q == x \div PGSIZE
           m == x % PGSIZE
<1>1. q \in Nat /\ m \in 0..PGSIZE - 1 /\ x = PGSIZE * q + m
  BY Division
<1> HIDE DEF q, m
<1>2. ASSUME q >= k + 1 PROVE FALSE
  <2>1. PGSIZE * q >= PGSIZE * (k + 1)
    BY <1>1, <1>2, Constants, SMT
  <2>2. PGSIZE * (k + 1) = PGSIZE * k + PGSIZE
    BY Constants, SMT
  <2>3. PGSIZE * q \in Int /\ PGSIZE * k \in Int
    BY <1>1, Constants, SMT
  <2>4. QED
    BY <1>1, <2>1, <2>2, <2>3, Constants, SMT
<1>3. ASSUME k >= q + 1 PROVE FALSE
  <2>1. PGSIZE * k >= PGSIZE * (q + 1)
    BY <1>1, <1>3, Constants, SMT
  <2>2. PGSIZE * (q + 1) = PGSIZE * q + PGSIZE
    BY <1>1, Constants, SMT
  <2>3. PGSIZE * q \in Int /\ PGSIZE * k \in Int
    BY <1>1, Constants, SMT
  <2>4. QED
    BY <1>1, <2>1, <2>2, <2>3, Constants, SMT
<1>4. QED
  BY <1>1, <1>2, <1>3, SMT DEF q

\* Division keeps the order.
LEMMA Monotone ==
  ASSUME NEW x \in Nat, NEW y \in Nat, x <= y
  PROVE  x \div PGSIZE <= y \div PGSIZE
<1> DEFINE q == x \div PGSIZE
           m == x % PGSIZE
           k == y \div PGSIZE
           n1 == y % PGSIZE
<1>1. q \in Nat /\ m \in 0..PGSIZE - 1 /\ x = PGSIZE * q + m
  BY Division
<1>2. k \in Nat /\ n1 \in 0..PGSIZE - 1 /\ y = PGSIZE * k + n1
  BY Division
<1> HIDE DEF q, m, k, n1
<1>3. ASSUME q >= k + 1 PROVE FALSE
  <2>1. PGSIZE * q >= PGSIZE * (k + 1)
    BY <1>1, <1>2, <1>3, Constants, SMT
  <2>2. PGSIZE * (k + 1) = PGSIZE * k + PGSIZE
    BY <1>2, Constants, SMT
  <2>3. PGSIZE * q \in Int /\ PGSIZE * k \in Int
    BY <1>1, <1>2, Constants, SMT
  <2>4. QED
    BY <1>1, <1>2, <2>1, <2>2, <2>3, Constants, SMT
<1>4. QED
  BY <1>1, <1>2, <1>3, SMT DEF q, k

\* PGROUNDUP keeps the order, stays below the end of user memory, and is exact
\* for whole pages.
LEMMA RoundUp ==
  ASSUME NEW s \in Nat
  PROVE  /\ PGROUNDUP(s) \in Nat
         /\ \A t \in Nat : s <= t => PGROUNDUP(s) <= PGROUNDUP(t)
         /\ s <= USERTOP => PGROUNDUP(s) <= USERTOP \div PGSIZE
<1>1. s + PGSIZE - 1 \in Nat
  BY Constants, SMT
<1>2. PGROUNDUP(s) \in Nat
  BY <1>1, Division DEF PGROUNDUP
<1>3. ASSUME NEW t \in Nat, s <= t PROVE PGROUNDUP(s) <= PGROUNDUP(t)
  <2>1. t + PGSIZE - 1 \in Nat /\ s + PGSIZE - 1 <= t + PGSIZE - 1
    BY <1>3, Constants, SMT
  <2>2. QED
    BY <1>1, <2>1, Monotone DEF PGROUNDUP
<1>4. PGROUNDUP(USERTOP) = USERTOP \div PGSIZE
  <2> DEFINE k == USERTOP \div PGSIZE
  <2>1. k \in Nat /\ USERTOP = PGSIZE * k
    BY Division, VmConstants, Constants, SMT
  <2> HIDE DEF k
  <2>2. PGSIZE * k \in Nat
    BY <2>1, Constants
  <2>3. USERTOP + PGSIZE - 1 \in Nat /\ PGSIZE * k <= USERTOP + PGSIZE - 1
        /\ USERTOP + PGSIZE - 1 < PGSIZE * k + PGSIZE
    BY <2>1, <2>2, Constants, SMT
  <2>4. (USERTOP + PGSIZE - 1) \div PGSIZE = k
    BY <2>1, <2>3, Quotient
  <2>5. QED
    BY <2>4 DEF PGROUNDUP, k
<1>5. QED
  BY <1>2, <1>3, <1>4, Constants

LEMMA WholePages ==
  ASSUME NEW k \in Nat
  PROVE  PGROUNDUP(k * PGSIZE) = k /\ (k * PGSIZE) \div PGSIZE = k /\ k * PGSIZE \in Nat
<1>1. PGSIZE * k \in Nat /\ PGSIZE * k = k * PGSIZE
  BY Constants, SMT
<1>2. k * PGSIZE + PGSIZE - 1 \in Nat /\ PGSIZE * k <= k * PGSIZE + PGSIZE - 1
      /\ k * PGSIZE + PGSIZE - 1 < PGSIZE * k + PGSIZE /\ k * PGSIZE < PGSIZE * k + PGSIZE
  BY <1>1, Constants, SMT
<1>3. QED
  BY <1>1, <1>2, Quotient, SMT DEF PGROUNDUP

-----------------------------------------------------------------------------
\* The owners of a page, as Owners names them.
FreeTag == <<"free">>
LostTag == <<"lost">>
DirTag == <<"dir">>
StackTag(p) == <<"stack", p>>
TableTag(d) == <<"table", d>>
UserTag(d, i) == <<"user", d, i>>

LEMMA TagsDiffer ==
  /\ FreeTag # LostTag /\ FreeTag # DirTag /\ LostTag # DirTag
  /\ \A p : StackTag(p) \notin {FreeTag, LostTag, DirTag}
  /\ \A d : TableTag(d) \notin {FreeTag, LostTag, DirTag}
  /\ \A d, i : UserTag(d, i) \notin {FreeTag, LostTag, DirTag}
  /\ \A p, d : StackTag(p) # TableTag(d)
  /\ \A p, d, i : StackTag(p) # UserTag(d, i)
  /\ \A c, d, i : TableTag(c) # UserTag(d, i)
  /\ \A p, q : StackTag(p) = StackTag(q) => p = q
  /\ \A c, d : TableTag(c) = TableTag(d) => c = d
  /\ \A c, d, i, j : UserTag(c, i) = UserTag(d, j) => c = d /\ i = j
BY DEF FreeTag, LostTag, DirTag, StackTag, TableTag, UserTag

\* Page g has the owner t and no other, given the free list, the lost pages, the
\* kernel stacks and the address spaces.
Has(t, g, fl, lo, ks, sp) ==
  /\ g \in fl <=> t = FreeTag
  /\ g \in lo <=> t = LostTag
  /\ g \in DOMAIN sp <=> t = DirTag
  /\ \A p \in Procs : ks[p] = g <=> t = StackTag(p)
  /\ \A d \in Pages : d \in DOMAIN sp /\ g \in sp[d].tabs <=> t = TableTag(d)
  /\ \A d \in Pages, i \in Nat :
       d \in DOMAIN sp /\ i \in DOMAIN sp[d].map /\ sp[d].map[i] = g <=> t = UserTag(d, i)
  /\ \/ t \in {FreeTag, LostTag, DirTag}
     \/ \E p \in Procs : t = StackTag(p)
     \/ \E d \in Pages : t = TableTag(d) \/ \E i \in Nat : t = UserTag(d, i)

\* Every page has one owner.
Single(fl, lo, ks, sp) == \A g \in Pages : \E t : Has(t, g, fl, lo, ks, sp)

\* What address spaces are made of.
Good(s) ==
  /\ s = [tabs |-> s.tabs, map |-> s.map]
  /\ s.tabs \subseteq Pages /\ DOMAIN s.map \subseteq Nat /\ s.map \in [DOMAIN s.map -> Pages]

SpaceOK ==
  /\ space = [d \in DOMAIN space |-> space[d]] /\ DOMAIN space \subseteq Pages
  /\ \A d \in DOMAIN space : Good(space[d])

LEMMA GoodIs ==
  ASSUME NEW T \in SUBSET Pages, NEW I \in SUBSET Nat, NEW m \in [I -> Pages]
  PROVE  Good([tabs |-> T, map |-> m])
BY DEF Good

\* allocproc: a page becomes a kernel stack.
LEMMA TakeStack ==
  ASSUME NEW fl, NEW lo, NEW sp, NEW ks \in [Procs -> Pages \cup {Nil}],
         NEW g \in Pages, NEW p \in Procs, ks[p] = Nil, g \in fl, Single(fl, lo, ks, sp)
  PROVE  Single(fl \ {g}, lo, [ks EXCEPT ![p] = g], sp)
<1> DEFINE ks2 == [ks EXCEPT ![p] = g]
<1> SUFFICES ASSUME NEW h \in Pages PROVE \E t : Has(t, h, fl \ {g}, lo, ks2, sp)
  BY DEF Single
<1>1. PICK t : Has(t, h, fl, lo, ks, sp)
  BY DEF Single
<1>2. /\ Nil \notin Pages
      /\ \A q \in Procs : ks2[q] = IF q = p THEN g ELSE ks[q]
  BY Constants, SMT DEF Nil, Pages
<1> HIDE DEF ks2
<1>3. CASE h = g
  <2>1. t = FreeTag
    BY <1>1, <1>3 DEF Has
  <2>2. Has(StackTag(p), h, fl \ {g}, lo, ks2, sp)
    BY <1>1, <1>2, <1>3, <2>1, TagsDiffer, SMT DEF Has
  <2>3. QED
    BY <2>2
<1>4. CASE h # g
  <2>1. t # StackTag(p)
    BY <1>1, <1>2 DEF Has
  <2>2. Has(t, h, fl \ {g}, lo, ks2, sp)
    BY <1>1, <1>2, <1>4, <2>1, TagsDiffer DEF Has
  <2>3. QED
    BY <2>2
<1>5. QED
  BY <1>3, <1>4

\* A kernel stack is given back.
LEMMA DropStack ==
  ASSUME NEW fl, NEW lo, NEW sp, NEW ks \in [Procs -> Pages \cup {Nil}],
         NEW p \in Procs, ks[p] \in Pages, Single(fl, lo, ks, sp)
  PROVE  Single(fl \cup {ks[p]}, lo, [ks EXCEPT ![p] = Nil], sp)
<1> DEFINE ks2 == [ks EXCEPT ![p] = Nil]
<1> SUFFICES ASSUME NEW h \in Pages PROVE \E t : Has(t, h, fl \cup {ks[p]}, lo, ks2, sp)
  BY DEF Single
<1>1. PICK t : Has(t, h, fl, lo, ks, sp)
  BY DEF Single
<1>2. /\ Nil \notin Pages
      /\ \A q \in Procs : ks2[q] = IF q = p THEN Nil ELSE ks[q]
  BY Constants, SMT DEF Nil, Pages
<1> HIDE DEF ks2
<1>3. CASE h = ks[p]
  <2>1. t = StackTag(p)
    BY <1>1, <1>3 DEF Has
  <2>2. Has(FreeTag, h, fl \cup {ks[p]}, lo, ks2, sp)
    BY <1>1, <1>2, <1>3, <2>1, TagsDiffer, SMT DEF Has
  <2>3. QED
    BY <2>2
<1>4. CASE h # ks[p]
  <2>1. t # StackTag(p)
    BY <1>1, <1>4 DEF Has
  <2>2. Has(t, h, fl \cup {ks[p]}, lo, ks2, sp)
    BY <1>1, <1>2, <1>4, <2>1, TagsDiffer, SMT DEF Has
  <2>3. QED
    BY <2>2
<1>5. QED
  BY <1>3, <1>4

\* setupkvm: a page becomes a directory, which maps nothing yet.
LEMMA TakeDir ==
  ASSUME SpaceOK, NEW fl, NEW lo, NEW ks, NEW g \in Pages, g \in fl, Single(fl, lo, ks, space)
  PROVE  Single(fl \ {g}, lo, ks, Put(space, g, Empty))
<1> DEFINE sp == Put(space, g, Empty)
<1> SUFFICES ASSUME NEW h \in Pages PROVE \E t : Has(t, h, fl \ {g}, lo, ks, sp)
  BY DEF Single
<1>1. PICK t : Has(t, h, fl, lo, ks, space)
  BY DEF Single
<1>2. g \notin DOMAIN space
  <2>1. PICK u : Has(u, g, fl, lo, ks, space)
    BY DEF Single
  <2>2. QED
    BY <2>1, TagsDiffer DEF Has
<1>3. /\ DOMAIN sp = DOMAIN space \cup {g}
      /\ sp[g].tabs = {} /\ DOMAIN sp[g].map = {}
      /\ \A d \in DOMAIN space : sp[d] = space[d]
  BY <1>2 DEF Put, Empty
<1> HIDE DEF sp
<1>4. CASE h = g
  <2>1. t = FreeTag
    BY <1>1, <1>4 DEF Has
  <2>2. Has(DirTag, h, fl \ {g}, lo, ks, sp)
    BY <1>1, <1>3, <1>4, <2>1, TagsDiffer, SMT DEF Has
  <2>3. QED
    BY <2>2
<1>5. CASE h # g
  <2>1. t # TableTag(g) /\ \A i \in Nat : t # UserTag(g, i)
    BY <1>1, <1>2 DEF Has
  <2>2. Has(t, h, fl \ {g}, lo, ks, sp)
    BY <1>1, <1>3, <1>5, <2>1, TagsDiffer, SMT DEF Has
  <2>3. QED
    BY <2>2
<1>6. QED
  BY <1>4, <1>5

\* setupkvm: a page becomes a page table.
LEMMA TakeTable ==
  ASSUME SpaceOK, NEW fl, NEW lo, NEW ks, NEW g \in Pages, NEW d \in DOMAIN space, g \in fl,
         Single(fl, lo, ks, space)
  PROVE  Single(fl \ {g}, lo, ks, [space EXCEPT ![d].tabs = @ \cup {g}])
<1> DEFINE sp == [space EXCEPT ![d].tabs = @ \cup {g}]
<1> SUFFICES ASSUME NEW h \in Pages PROVE \E t : Has(t, h, fl \ {g}, lo, ks, sp)
  BY DEF Single
<1>1. PICK t : Has(t, h, fl, lo, ks, space)
  BY DEF Single
<1>2. /\ DOMAIN sp = DOMAIN space /\ d \in Pages
      /\ sp[d].tabs = space[d].tabs \cup {g} /\ sp[d].map = space[d].map
      /\ \A c \in DOMAIN space \ {d} : sp[c] = space[c]
  BY SMT DEF SpaceOK, Good
<1> HIDE DEF sp
<1>3. CASE h = g
  <2>1. t = FreeTag
    BY <1>1, <1>3 DEF Has
  <2>2. Has(TableTag(d), h, fl \ {g}, lo, ks, sp)
    BY <1>1, <1>2, <1>3, <2>1, TagsDiffer, SMT DEF Has
  <2>3. QED
    BY <2>2
<1>4. CASE h # g
  <2>1. Has(t, h, fl \ {g}, lo, ks, sp)
    BY <1>1, <1>2, <1>4, TagsDiffer, SMT DEF Has
  <2>2. QED
    BY <2>1
<1>5. QED
  BY <1>3, <1>4

\* mappages: a page becomes page i of an address space.
LEMMA TakeUser ==
  ASSUME SpaceOK, NEW fl, NEW lo, NEW ks, NEW g \in Pages, NEW d \in DOMAIN space, g \in fl,
         NEW i \in Nat, i \notin Mapped(d), Single(fl, lo, ks, space)
  PROVE  Single(fl \ {g}, lo, ks, [space EXCEPT ![d].map = Put(@, i, g)])
<1> DEFINE sp == [space EXCEPT ![d].map = Put(@, i, g)]
<1> SUFFICES ASSUME NEW h \in Pages PROVE \E t : Has(t, h, fl \ {g}, lo, ks, sp)
  BY DEF Single
<1>1. PICK t : Has(t, h, fl, lo, ks, space)
  BY DEF Single
<1>2. /\ DOMAIN sp = DOMAIN space /\ d \in Pages
      /\ sp[d].tabs = space[d].tabs /\ sp[d].map = Put(space[d].map, i, g)
      /\ \A c \in DOMAIN space \ {d} : sp[c] = space[c]
  BY SMT DEF SpaceOK, Good
<1>3. /\ DOMAIN sp[d].map = DOMAIN space[d].map \cup {i} /\ sp[d].map[i] = g
      /\ \A j \in DOMAIN space[d].map : j # i /\ sp[d].map[j] = space[d].map[j]
  BY <1>2, SMT DEF Put, Mapped
<1> HIDE DEF sp
<1>4. t # UserTag(d, i)
  BY <1>1, <1>2 DEF Has, Mapped
<1>5. CASE h = g
  <2>1. t = FreeTag
    BY <1>1, <1>5 DEF Has
  <2>2. Has(UserTag(d, i), h, fl \ {g}, lo, ks, sp)
    BY <1>1, <1>2, <1>3, <1>5, <2>1, TagsDiffer, SMT DEF Has
  <2>3. QED
    BY <2>2
<1>6. CASE h # g
  <2>1. Has(t, h, fl \ {g}, lo, ks, sp)
    BY <1>1, <1>2, <1>3, <1>4, <1>6, TagsDiffer, SMT DEF Has
  <2>2. QED
    BY <2>1
<1>7. QED
  BY <1>5, <1>6

\* The pages of an address space are those it owns.
LEMMA AllOfIs ==
  ASSUME SpaceOK, NEW d \in DOMAIN space
  PROVE  /\ \A h : h \in AllOf(d) <=>
              \/ h = d \/ h \in space[d].tabs
              \/ \E i \in Nat : i \in DOMAIN space[d].map /\ space[d].map[i] = h
         /\ DOMAIN Without(d) = DOMAIN space \ {d}
         /\ \A c \in DOMAIN space \ {d} : Without(d)[c] = space[c]
         /\ d \in Pages
<1>1. DOMAIN space[d].map \subseteq Nat
  BY DEF SpaceOK, Good, Mapped
<1>2. QED
  BY <1>1 DEF SpaceOK, Good, AllOf, UserPages, Mapped, Without

\* freevm: an address space is given back; or it is lost, when setupkvm fails.
LEMMA DropSpace ==
  ASSUME SpaceOK, NEW fl, NEW lo, NEW ks, NEW d \in DOMAIN space, Single(fl, lo, ks, space),
         NEW fl2, NEW lo2, \/ fl2 = fl \cup AllOf(d) /\ lo2 = lo
                           \/ fl2 = fl /\ lo2 = lo \cup AllOf(d)
  PROVE  Single(fl2, lo2, ks, Without(d))
<1> DEFINE sp == Without(d)
<1> SUFFICES ASSUME NEW h \in Pages PROVE  \E t : Has(t, h, fl2, lo2, ks, sp)
  BY DEF Single
<1>1. PICK t : Has(t, h, fl, lo, ks, space)
  BY DEF Single
<1>2. /\ DOMAIN sp = DOMAIN space \ {d} /\ d \in Pages
      /\ \A c \in DOMAIN space \ {d} : sp[c] = space[c]
  BY AllOfIs
<1>3. h \in AllOf(d) <=> (h = d /\ t = DirTag) \/ t = TableTag(d) \/ \E i \in Nat : t = UserTag(d, i)
  <2>1. h \in AllOf(d) <=> \/ h = d \/ h \in space[d].tabs
              \/ \E i \in Nat : i \in DOMAIN space[d].map /\ space[d].map[i] = h
    BY AllOfIs
  <2>2. h = d => t = DirTag
    BY <1>1 DEF Has
  <2>3. h \in space[d].tabs <=> t = TableTag(d)
    BY <1>1, <1>2 DEF Has
  <2>4. \A i \in Nat : i \in DOMAIN space[d].map /\ space[d].map[i] = h <=> t = UserTag(d, i)
    BY <1>1, <1>2 DEF Has
  <2>5. QED
    BY <2>1, <2>2, <2>3, <2>4
<1> HIDE DEF sp
<1>4. CASE h \in AllOf(d)
  <2>1. /\ t \notin {FreeTag, LostTag} /\ (t = DirTag => h = d)
        /\ \A p \in Procs : t # StackTag(p)
        /\ \A c \in Pages \ {d} : t # TableTag(c) /\ \A i \in Nat : t # UserTag(c, i)
    BY <1>3, <1>4, TagsDiffer, SMT
  <2>2. /\ h \notin fl /\ h \notin lo /\ h \notin DOMAIN sp
        /\ \A p \in Procs : ks[p] # h
        /\ \A c \in Pages : c \in DOMAIN sp => h \notin sp[c].tabs
        /\ \A c \in Pages, i \in Nat : c \in DOMAIN sp /\ i \in DOMAIN sp[c].map => sp[c].map[i] # h
    BY <1>1, <1>2, <2>1, SMT DEF Has
  <2>3. CASE fl2 = fl \cup AllOf(d) /\ lo2 = lo
    <3>1. Has(FreeTag, h, fl2, lo2, ks, sp)
      BY <1>4, <2>2, <2>3, TagsDiffer DEF Has
    <3>2. QED
      BY <3>1
  <2>4. CASE fl2 = fl /\ lo2 = lo \cup AllOf(d)
    <3>1. Has(LostTag, h, fl2, lo2, ks, sp)
      BY <1>4, <2>2, <2>4, TagsDiffer DEF Has
    <3>2. QED
      BY <3>1
  <2>5. QED
    BY <2>3, <2>4
<1>5. CASE h \notin AllOf(d)
  <2>1. h # d /\ t # TableTag(d) /\ \A i \in Nat : t # UserTag(d, i)
    BY <1>3, <1>5, AllOfIs
  <2>2. (h \in fl2 <=> h \in fl) /\ (h \in lo2 <=> h \in lo)
    BY <1>5
  <2>3. Has(t, h, fl2, lo2, ks, sp)
    BY <1>1, <1>2, <2>1, <2>2, SMT DEF Has
  <2>4. QED
    BY <2>3
<1>6. QED
  BY <1>4, <1>5

\* deallocuvm: pages of an address space are given back.
LEMMA DropUser ==
  ASSUME SpaceOK, NEW fl, NEW lo, NEW ks, NEW d \in DOMAIN space, NEW I,
         Single(fl, lo, ks, space)
  PROVE  Single(fl \cup UserPages(d, I), lo, ks, Unmap(d, I))
<1> DEFINE sp == Unmap(d, I)
           fl2 == fl \cup UserPages(d, I)
<1> SUFFICES ASSUME NEW h \in Pages PROVE  \E t : Has(t, h, fl2, lo, ks, sp)
  BY DEF Single
<1>1. PICK t : Has(t, h, fl, lo, ks, space)
  BY DEF Single
<1>2. /\ DOMAIN sp = DOMAIN space /\ d \in Pages
      /\ \A c \in DOMAIN space \ {d} : sp[c] = space[c]
      /\ sp[d].tabs = space[d].tabs
      /\ DOMAIN sp[d].map = DOMAIN space[d].map \ I
      /\ \A i \in DOMAIN space[d].map \ I : sp[d].map[i] = space[d].map[i]
  BY SMT DEF SpaceOK, Good, Unmap
<1>3. h \in UserPages(d, I) <=> \E i \in Nat : i \in I /\ t = UserTag(d, i)
  <2>1. \A i \in Nat : i \in DOMAIN space[d].map /\ space[d].map[i] = h <=> t = UserTag(d, i)
    BY <1>1, <1>2 DEF Has
  <2>2. DOMAIN space[d].map \subseteq Nat
    BY DEF SpaceOK, Good, Mapped
  <2>3. QED
    BY <2>1, <2>2 DEF UserPages, Mapped
<1>4. h \in fl2 <=> h \in fl \/ h \in UserPages(d, I)
  OBVIOUS
<1> HIDE DEF sp, fl2
<1>5. CASE h \in UserPages(d, I)
  <2>1. PICK i \in Nat : i \in I /\ t = UserTag(d, i)
    BY <1>3, <1>5
  <2>2. Has(FreeTag, h, fl2, lo, ks, sp)
    BY <1>1, <1>2, <1>4, <1>5, <2>1, TagsDiffer, SMT DEF Has
  <2>3. QED
    BY <2>2
<1>6. CASE h \notin UserPages(d, I)
  <2>1. \A i \in Nat : i \in I => t # UserTag(d, i)
    BY <1>3, <1>6
  <2>2. Has(t, h, fl2, lo, ks, sp)
    BY <1>1, <1>2, <1>4, <1>6, <2>1, SMT DEF Has
  <2>3. QED
    BY <2>2
<1>7. QED
  BY <1>5, <1>6

\* The owners that Single tells of are those of Owners.
LEMMA OneOwner ==
  ASSUME SpaceOK, Single(freelist, lost, kstack, space), NEW g \in Pages
  PROVE  \E o \in Owners(g) : Owners(g) = {o}
<1>1. PICK t : Has(t, g, freelist, lost, kstack, space)
  BY DEF Single
<1>2. \A o : o \in Owners(g) <=>
        \/ o = FreeTag /\ g \in freelist
        \/ o = LostTag /\ g \in lost
        \/ o = DirTag /\ g \in DOMAIN space
        \/ \E p \in Procs : o = StackTag(p) /\ kstack[p] = g
        \/ \E d \in DOMAIN space : o = TableTag(d) /\ g \in space[d].tabs
        \/ \E d \in DOMAIN space : \E i \in Mapped(d) : o = UserTag(d, i) /\ space[d].map[i] = g
  BY SMT DEF Owners, FreeTag, LostTag, DirTag, StackTag, TableTag, UserTag
<1>3. \A d \in DOMAIN space : d \in Pages /\ Mapped(d) \subseteq Nat
  BY DEF SpaceOK, Good, Mapped
<1>4. t \in Owners(g)
  BY <1>1, <1>2, <1>3, SMT DEF Has, Mapped
<1>5. \A o \in Owners(g) : o = t
  BY <1>1, <1>2, <1>3, SMT DEF Has, Mapped
<1>6. QED
  BY <1>4, <1>5

-----------------------------------------------------------------------------
CallsOK ==
  /\ child \in [Procs -> Procs \cup {Nil}] /\ dir \in [Procs -> Pages \cup {Nil}]
  /\ a \in [Procs -> Nat] /\ newsz \in [Procs -> Nat]

TypeInv == TypeOK /\ SpaceOK /\ CallsOK

OwnInv == Single(freelist, lost, kstack, space)

\* A slot has a kernel stack unless it is unused; only a process that runs is in
\* a call; fork has a slot of its own for the child.
SlotInv ==
  \A p \in Procs :
    /\ state[p] = "UNUSED" <=> kstack[p] = Nil
    /\ pc[p] # "user" => state[p] = "RUNNABLE"
    /\ pc[p] = "user" => dir[p] = Nil /\ a[p] = 0
    /\ pc[p] = "grow" => dir[p] = Nil
    /\ pc[p] = "fork" => child[p] \in Procs /\ state[child[p]] = "EMBRYO"
    /\ \A q \in Procs : p # q /\ pc[p] = "fork" /\ pc[q] = "fork" => child[p] # child[q]

\* Processes and calls have address spaces, all of them; what is being built
\* belongs to one call alone.
SpaceInv ==
  /\ \A p \in Procs : Alive(p) => pgdir[p] \in DOMAIN space
  /\ \A p \in Procs : dir[p] # Nil =>
       /\ dir[p] \in DOMAIN space
       /\ \A q \in Procs : Alive(q) => pgdir[q] # dir[p]
       /\ \A q \in Procs \ {p} : dir[q] # dir[p]
  /\ \A d \in DOMAIN space :
       \/ \E p \in Procs : Alive(p) /\ pgdir[p] = d
       \/ \E p \in Procs : dir[p] = d

\* Only processes that run have children, and all but init have a parent.
FamilyInv ==
  /\ state[initproc] = "RUNNABLE" /\ parent[initproc] = Nil
  /\ \A p \in Procs :
       /\ parent[p] # Nil => Alive(p) /\ state[parent[p]] = "RUNNABLE"
       /\ Alive(p) /\ p # initproc => parent[p] # Nil

Threaded(p) == parent[p] # Nil /\ pgdir[parent[p]] = pgdir[p]

\* Of two processes on one address space at most one is not a thread of its
\* parent; init has no threads; a call that grows an address space has it alone.
ThreadInv ==
  /\ \A p, q \in Procs : p # q /\ Alive(p) /\ Alive(q) /\ pgdir[p] = pgdir[q] =>
       Threaded(p) \/ Threaded(q)
  /\ \A p \in Procs \ {initproc} : Alive(p) => pgdir[p] # pgdir[initproc]
  /\ \A p \in Procs : pc[p] = "grow" =>
       \A q \in Procs \ {p} : Alive(q) => pgdir[q] # pgdir[p]

\* Nobody is its own ancestor.
RankInv ==
  \E rank \in [Procs -> Nat] :
    /\ rank[initproc] = 0
    /\ \A p \in Procs : parent[p] # Nil => rank[parent[p]] < rank[p]

\* How far the calls have come, and what is mapped.
SizeOf(p) ==
  /\ Alive(p) /\ pc[p] # "grow" => Mapped(pgdir[p]) \in {{}, 0..PGROUNDUP(sz[p]) - 1}
  /\ pc[p] # "user" => 0 \in Mapped(pgdir[p])
  /\ pc[p] = "grow" =>
       /\ Mapped(pgdir[p]) = 0..a[p] - 1
       /\ PGROUNDUP(sz[p]) <= a[p] /\ a[p] <= PGROUNDUP(newsz[p])
       /\ sz[p] <= newsz[p] /\ newsz[p] <= USERTOP
  /\ pc[p] \in {"fork", "exec"} =>
       /\ a[p] <= End(p)
       /\ dir[p] = Nil => a[p] = 0
       /\ dir[p] # Nil => Mapped(dir[p]) = 0..a[p] - 1

SizeInv == \A p \in Procs : SizeOf(p)

FiniteInv == /\ TypeInv /\ SlotInv /\ SpaceInv /\ FamilyInv /\ ThreadInv /\ SizeInv
             /\ panic = "none"
IndInv == FiniteInv /\ OwnInv /\ RankInv

\* Every space maps user addresses.
Bounded == \A d \in DOMAIN space : Mapped(d) \subseteq 0..USERTOP \div PGSIZE - 1

\* What the operations on address spaces leave.
LEMMA AddedDir ==
  ASSUME SpaceOK, Bounded, NEW g \in Pages, g \notin DOMAIN space, space' = Put(space, g, Empty)
  PROVE  /\ SpaceOK' /\ Bounded' /\ DOMAIN space' = DOMAIN space \cup {g} /\ Mapped(g)' = {}
         /\ \A d \in DOMAIN space : Mapped(d)' = Mapped(d)
<1>1. /\ DOMAIN space' = DOMAIN space \cup {g} /\ space'[g] = Empty
      /\ \A d \in DOMAIN space : space'[d] = space[d]
      /\ space' = [d \in DOMAIN space' |-> space'[d]]
  BY DEF Put
<1>2. Mapped(g)' = {} /\ \A d \in DOMAIN space : Mapped(d)' = Mapped(d)
  BY <1>1, SMT DEF Mapped, Empty
<1>3. Good(Empty)
  <2>1. [i \in {} |-> Nil] \in [{} -> Pages]
    OBVIOUS
  <2>2. QED
    BY <2>1, GoodIs DEF Empty
<1>4. QED
  BY <1>1, <1>2, <1>3, SMT DEF Bounded, SpaceOK

\* One address space is replaced by s.
LEMMA Exchanged ==
  ASSUME SpaceOK, Bounded, NEW d \in DOMAIN space, NEW s, Good(s),
         DOMAIN s.map \subseteq 0..USERTOP \div PGSIZE - 1, space' = [space EXCEPT ![d] = s]
  PROVE  /\ SpaceOK' /\ Bounded' /\ DOMAIN space' = DOMAIN space
         /\ Mapped(d)' = DOMAIN s.map
         /\ \A c \in DOMAIN space \ {d} : Mapped(c)' = Mapped(c)
<1>1. /\ DOMAIN space' = DOMAIN space /\ space'[d] = s
      /\ \A c \in DOMAIN space \ {d} : space'[c] = space[c]
      /\ space' = [c \in DOMAIN space' |-> space'[c]]
  BY DEF SpaceOK
<1>2. Mapped(d)' = DOMAIN s.map /\ \A c \in DOMAIN space \ {d} : Mapped(c)' = Mapped(c)
  BY <1>1 DEF Mapped
<1>3. QED
  BY <1>1, <1>2, SMT DEF Bounded, SpaceOK

LEMMA AddedTable ==
  ASSUME SpaceOK, Bounded, NEW g \in Pages, NEW d \in DOMAIN space,
         space' = [space EXCEPT ![d].tabs = @ \cup {g}]
  PROVE  /\ SpaceOK' /\ Bounded' /\ DOMAIN space' = DOMAIN space
         /\ \A c \in DOMAIN space : Mapped(c)' = Mapped(c)
<1> DEFINE T == space[d].tabs \cup {g}
           s == [tabs |-> T, map |-> space[d].map]
<1>1. Good(space[d]) /\ Mapped(d) \subseteq 0..USERTOP \div PGSIZE - 1
  BY DEF SpaceOK, Bounded
<1>2. Good(s)
  <2>1. T \in SUBSET Pages /\ DOMAIN space[d].map \in SUBSET Nat
        /\ space[d].map \in [DOMAIN space[d].map -> Pages]
    BY <1>1 DEF Good
  <2>2. QED
    BY <2>1, GoodIs
<1>3. [space[d] EXCEPT !.tabs = T] = s
  <2>1. space[d] = [tabs |-> space[d].tabs, map |-> space[d].map]
    BY <1>1 DEF Good
  <2>2. QED
    BY <2>1, SMT
<1>4. space' = [space EXCEPT ![d] = s] /\ s.map = space[d].map
  BY <1>3
<1> HIDE DEF s
<1>5. QED
  BY <1>1, <1>2, <1>4, Exchanged DEF Mapped

LEMMA AddedUser ==
  ASSUME SpaceOK, Bounded, NEW g \in Pages, NEW d \in DOMAIN space,
         NEW i \in 0..USERTOP \div PGSIZE - 1,
         space' = [space EXCEPT ![d].map = Put(@, i, g)]
  PROVE  /\ SpaceOK' /\ Bounded' /\ DOMAIN space' = DOMAIN space
         /\ Mapped(d)' = Mapped(d) \cup {i}
         /\ \A c \in DOMAIN space \ {d} : Mapped(c)' = Mapped(c)
<1> DEFINE m == Put(space[d].map, i, g)
           s == [tabs |-> space[d].tabs, map |-> m]
<1>1. Good(space[d]) /\ Mapped(d) \subseteq 0..USERTOP \div PGSIZE - 1 /\ i \in Nat
  BY Division, Constants, SMT DEF SpaceOK, Bounded
<1>2. DOMAIN m = Mapped(d) \cup {i} /\ m \in [Mapped(d) \cup {i} -> Pages]
  BY <1>1 DEF Put, Good, Mapped
<1> HIDE DEF m
<1>3. Good(s)
  <2>1. space[d].tabs \in SUBSET Pages /\ Mapped(d) \cup {i} \in SUBSET Nat
    BY <1>1 DEF Good, Mapped
  <2>2. QED
    BY <1>2, <2>1, GoodIs
<1>4. [space[d] EXCEPT !.map = m] = s
  <2>1. space[d] = [tabs |-> space[d].tabs, map |-> space[d].map]
    BY <1>1 DEF Good
  <2>2. QED
    BY <2>1, SMT
<1>5. space' = [space EXCEPT ![d] = s] /\ s.map = m
  BY <1>4 DEF m
<1> HIDE DEF s
<1>6. QED
  BY <1>1, <1>2, <1>3, <1>5, Exchanged DEF Mapped

LEMMA Unmapped ==
  ASSUME SpaceOK, Bounded, NEW d \in DOMAIN space, NEW I, space' = Unmap(d, I)
  PROVE  /\ SpaceOK' /\ Bounded' /\ DOMAIN space' = DOMAIN space
         /\ Mapped(d)' = Mapped(d) \ I
         /\ \A c \in DOMAIN space \ {d} : Mapped(c)' = Mapped(c)
<1> DEFINE m == [i \in DOMAIN space[d].map \ I |-> space[d].map[i]]
           s == [tabs |-> space[d].tabs, map |-> m]
<1>1. Good(space[d]) /\ Mapped(d) \subseteq 0..USERTOP \div PGSIZE - 1
  BY DEF SpaceOK, Bounded
<1>2. DOMAIN m = Mapped(d) \ I /\ m \in [Mapped(d) \ I -> Pages]
  BY <1>1 DEF Good, Mapped
<1>3. space' = [space EXCEPT ![d].map = m]
  BY DEF Unmap
<1> HIDE DEF m
<1>4. Good(s)
  <2>1. space[d].tabs \in SUBSET Pages /\ Mapped(d) \ I \in SUBSET Nat
    BY <1>1 DEF Good, Mapped
  <2>2. QED
    BY <1>2, <2>1, GoodIs
<1>5. [space[d] EXCEPT !.map = m] = s
  <2>1. space[d] = [tabs |-> space[d].tabs, map |-> space[d].map]
    BY <1>1 DEF Good
  <2>2. QED
    BY <2>1, SMT
<1>6. space' = [space EXCEPT ![d] = s] /\ s.map = m
  BY <1>3, <1>5
<1> HIDE DEF s
<1>7. QED
  BY <1>1, <1>2, <1>4, <1>6, Exchanged

LEMMA Removed ==
  ASSUME SpaceOK, Bounded, NEW d \in DOMAIN space, space' = Without(d)
  PROVE  /\ SpaceOK' /\ Bounded' /\ DOMAIN space' = DOMAIN space \ {d}
         /\ \A c \in DOMAIN space \ {d} : Mapped(c)' = Mapped(c)
<1>1. /\ DOMAIN space' = DOMAIN space \ {d}
      /\ \A c \in DOMAIN space \ {d} : space'[c] = space[c]
      /\ space' = [c \in DOMAIN space' |-> space'[c]]
  BY DEF Without
<1>2. \A c \in DOMAIN space \ {d} : Mapped(c)' = Mapped(c)
  BY <1>1 DEF Mapped
<1>3. QED
  BY <1>1, <1>2 DEF Bounded, SpaceOK
-----------------------------------------------------------------------------
LEMMA KallocIn ==
  ASSUME TypeInv, freelist # {}
  PROVE  kalloc \in freelist /\ kalloc \in Pages
BY DEF kalloc, TypeInv, TypeOK

\* No page is page 0, and no process is process 0.
LEMMA NilIs == Nil \notin Pages /\ Nil \notin Procs /\ initproc \in Procs
BY Constants, SMT DEF Nil, Pages, Procs, initproc

LEMMA TypeParts ==
  ASSUME TypeInv
  PROVE  SpaceOK /\ Bounded
BY DEF TypeInv, TypeOK, Bounded

\* Steps that leave the processes and who they share with.
LEMMA ProcsKept ==
  ASSUME TypeInv, FamilyInv, ThreadInv, RankInv, UNCHANGED <<parent, pgdir>>,
         \A p \in Procs : /\ Alive(p)' <=> Alive(p)
                          /\ state[p] = "RUNNABLE" => state'[p] = "RUNNABLE",
         \A p \in Procs : pc'[p] = "grow" =>
           pc[p] = "grow" \/ (Alive(p) /\ ~Shares(p))
  PROVE  FamilyInv' /\ ThreadInv' /\ RankInv'
<1>1. RankInv'
  BY DEF RankInv
<1>2. FamilyInv'
  <2>1. \A p \in Procs : parent[p] # Nil => state'[parent[p]] = "RUNNABLE"
    BY SMT DEF FamilyInv, TypeInv, TypeOK
  <2>2. QED
    BY <2>1, NilIs DEF FamilyInv
<1>3. ThreadInv'
  <2>1. \A p \in Procs : pc'[p] = "grow" =>
          \A q \in Procs \ {p} : Alive(q) => pgdir[q] # pgdir[p]
    BY DEF ThreadInv, Shares
  <2>2. \A p, q \in Procs : p # q /\ Alive(p)' /\ Alive(q)' /\ pgdir[p] = pgdir[q] =>
          Threaded(p)' \/ Threaded(q)'
    BY SMT DEF ThreadInv, Threaded
  <2>3. QED
    BY <2>1, <2>2 DEF ThreadInv
<1>4. QED
  BY <1>1, <1>2, <1>3

\* Steps that leave the address spaces where they are.
LEMMA SpacesKept ==
  ASSUME SpaceInv, DOMAIN space' = DOMAIN space, UNCHANGED <<pgdir, dir>>,
         \A p \in Procs : Alive(p)' <=> Alive(p)
  PROVE  SpaceInv'
BY DEF SpaceInv

\* A process that a step does not touch, nor its address spaces.
LEMMA SizeKept ==
  ASSUME NEW p \in Procs, SizeOf(p), Alive(p)' => Alive(p), pc'[p] = pc[p],
         a'[p] = a[p], newsz'[p] = newsz[p], dir'[p] = dir[p],
         sz'[p] = sz[p], pgdir'[p] = pgdir[p],
         Alive(p) \/ pc[p] # "user" => Mapped(pgdir[p])' = Mapped(pgdir[p]),
         dir[p] # Nil => Mapped(dir[p])' = Mapped(dir[p])
  PROVE  SizeOf(p)'
<1>1. End(p)' = End(p) /\ PGROUNDUP(sz[p])' = PGROUNDUP(sz[p])
      /\ PGROUNDUP(newsz[p])' = PGROUNDUP(newsz[p])
  BY DEF End, PGROUNDUP
<1>2. QED
  BY <1>1 DEF SizeOf

LEMMA InitInv == Init => IndInv
<1> SUFFICES ASSUME Init PROVE IndInv
  OBVIOUS
<1> USE NilIs, Constants
<1>1. DOMAIN space = {2} /\ space[2] = [tabs |-> 3..2 + NTABLES, map |-> [i \in {0} |-> 3 + NTABLES]]
      /\ Mapped(2) = {0}
  BY DEF Init, Mapped
<1>2. SpaceOK /\ Bounded
  <2>1. 3..2 + NTABLES \in SUBSET Pages /\ {0} \in SUBSET Nat /\ 2 \in Pages
        /\ [i \in {0} |-> 3 + NTABLES] \in [{0} -> Pages]
    BY SMT DEF Pages
  <2>2. Good(space[2])
    BY <1>1, <2>1, GoodIs
  <2>3. USERTOP \div PGSIZE >= 1
    <3>1. PGSIZE \div PGSIZE = 1
      BY SMT
    <3>2. QED
      BY <3>1, Monotone
  <2>4. USERTOP \div PGSIZE \in Nat
    BY Division
  <2>5. Mapped(2) \subseteq 0..USERTOP \div PGSIZE - 1
    BY <1>1, <2>3, <2>4, SMT
  <2>6. QED
    BY <1>1, <2>1, <2>2, <2>5 DEF SpaceOK, Bounded, Init
<1>3. TypeInv
  <2>1. 4 + NTABLES..NPAGES \subseteq Pages /\ 1 \in Pages /\ 2 \in Pages
    BY SMT DEF Pages
  <2>2. \A d \in DOMAIN space : space[d].tabs \subseteq Pages
    BY <1>2 DEF SpaceOK, Good
  <2>3. QED
    BY <1>1, <1>2, <2>1, <2>2, SMT DEF Init, TypeInv, TypeOK, CallsOK, Bounded, SpaceOK
<1>4. OwnInv
  <2> SUFFICES ASSUME NEW g \in Pages PROVE \E t : Has(t, g, freelist, lost, kstack, space)
    BY DEF OwnInv, Single
  <2>1. /\ freelist = 4 + NTABLES..NPAGES /\ lost = {}
        /\ \A p \in Procs : kstack[p] = IF p = initproc THEN 1 ELSE Nil
        /\ space[2].tabs = 3..2 + NTABLES /\ DOMAIN space[2].map = {0}
        /\ space[2].map[0] = 3 + NTABLES
    BY <1>1 DEF Init
  <2>2. 2 \in Pages /\ 0 \in Nat /\ g \in 1..NPAGES /\ g \in Int
    BY SMT DEF Pages
  <2>3. CASE g = 1
    <3>1. Has(StackTag(initproc), g, freelist, lost, kstack, space)
      BY <1>1, <2>1, <2>3, TagsDiffer, SMT DEF Has, Nil
    <3>2. QED
      BY <3>1
  <2>4. CASE g = 2
    <3>1. Has(DirTag, g, freelist, lost, kstack, space)
      BY <1>1, <2>1, <2>4, TagsDiffer, SMT DEF Has, Nil
    <3>2. QED
      BY <3>1
  <2>5. CASE g \in 3..2 + NTABLES
    <3>1. Has(TableTag(2), g, freelist, lost, kstack, space)
      BY <1>1, <2>1, <2>2, <2>5, TagsDiffer, SMT DEF Has, Nil
    <3>2. QED
      BY <3>1
  <2>6. CASE g = 3 + NTABLES
    <3>1. Has(UserTag(2, 0), g, freelist, lost, kstack, space)
      BY <1>1, <2>1, <2>2, <2>6, TagsDiffer, SMT DEF Has, Nil
    <3>2. QED
      BY <3>1
  <2>7. CASE g \in freelist
    <3>1. Has(FreeTag, g, freelist, lost, kstack, space)
      BY <1>1, <2>1, <2>2, <2>7, TagsDiffer, SMT DEF Has, Nil
    <3>2. QED
      BY <3>1
  <2>8. QED
    BY <2>1, <2>2, <2>3, <2>4, <2>5, <2>6, <2>7, SMT
<1>5. SlotInv
  BY SMT DEF Init, SlotInv, Nil
<1>6. SpaceInv
  BY <1>1 DEF Init, SpaceInv, Alive
<1>7. FamilyInv /\ ThreadInv
  BY DEF Init, FamilyInv, ThreadInv, Alive
<1>8. RankInv
  <2>1. [p \in Procs |-> 0] \in [Procs -> Nat] /\ \A p \in Procs : parent[p] = Nil
    BY DEF Init
  <2>2. QED
    BY <2>1, NilIs DEF RankInv
<1>9. SizeInv
  <2>1. PGROUNDUP(PGSIZE) = 1
    BY WholePages, SMT
  <2>2. QED
    BY <1>1, <2>1, SMT DEF Init, SizeInv, SizeOf, Alive
<1>10. QED
  BY <1>3, <1>4, <1>5, <1>6, <1>7, <1>8, <1>9 DEF IndInv, FiniteInv, Init
-----------------------------------------------------------------------------
ProcsOK ==
  /\ state \in [Procs -> {"UNUSED", "EMBRYO", "RUNNABLE", "ZOMBIE"}]
  /\ parent \in [Procs -> Procs \cup {Nil}]
  /\ pgdir \in [Procs -> Pages \cup {Nil}] /\ kstack \in [Procs -> Pages \cup {Nil}]
  /\ sz \in [Procs -> 0..USERTOP]
  /\ pc \in [Procs -> {"user", "fork", "exec", "grow"}]

Types ==
  freelist \subseteq Pages /\ lost \subseteq Pages /\ SpaceOK /\ Bounded /\ ProcsOK /\ CallsOK

LEMMA TypesIs == TypeInv <=> Types
BY DEF TypeInv, Types, TypeOK, ProcsOK, SpaceOK, Good, Bounded

LEMMA TypesNext == TypeInv' <=> Types'
BY TypesIs, PTL

LEMMA SpaceSame ==
  ASSUME UNCHANGED space
  PROVE  /\ SpaceOK' = SpaceOK /\ Bounded' = Bounded
         /\ \A c : Mapped(c)' = Mapped(c)
BY SMT DEF SpaceOK, Good, Bounded, Mapped

\* The invariant, in the parts that the steps use.
LEMMA Parts ==
  IndInv => /\ Types /\ SlotInv /\ SpaceInv /\ FamilyInv /\ ThreadInv /\ SizeInv
            /\ OwnInv /\ RankInv /\ panic = "none"
BY TypesIs DEF IndInv, FiniteInv

LEMMA Whole ==
  ASSUME Types', SlotInv', SpaceInv', FamilyInv', ThreadInv', SizeInv', OwnInv', RankInv',
         panic' = "none"
  PROVE  IndInv'
BY TypesNext DEF IndInv, FiniteInv

\* What a process has, one variable at a time.
LEMMA CallIs ==
  ASSUME Types, NEW p \in Procs
  PROVE  a[p] \in Nat /\ newsz[p] \in Nat /\ sz[p] \in 0..USERTOP /\ sz[p] \in Nat
<1>1. a[p] \in Nat /\ newsz[p] \in Nat /\ sz[p] \in 0..USERTOP
  BY DEF Types, ProcsOK, CallsOK
<1>2. QED
  BY <1>1, SMT

\* A step of p that gives and takes no slot and starts no fork.
LEMMA SlotKept ==
  ASSUME SlotInv, NEW p \in Procs, UNCHANGED <<state, kstack>>,
         \A q \in Procs \ {p} : /\ pc'[q] = pc[q] /\ dir'[q] = dir[q]
                                 /\ child'[q] = child[q] /\ a'[q] = a[q],
         state[p] = "RUNNABLE",
         pc'[p] = "user" => dir'[p] = Nil /\ a'[p] = 0, pc'[p] = "grow" => dir'[p] = Nil,
         pc'[p] = "fork" => pc[p] = "fork" /\ child'[p] = child[p]
  PROVE  SlotInv'
<1>1. ASSUME NEW q \in Procs
      PROVE  /\ state[q] = "UNUSED" <=> kstack[q] = Nil
             /\ pc'[q] # "user" => state[q] = "RUNNABLE"
             /\ pc'[q] = "user" => dir'[q] = Nil /\ a'[q] = 0
             /\ pc'[q] = "grow" => dir'[q] = Nil
             /\ pc'[q] = "fork" => /\ pc[q] = "fork" /\ child'[q] = child[q]
                                   /\ child[q] \in Procs /\ state[child[q]] = "EMBRYO"
  <2>1. CASE q = p
    BY <2>1 DEF SlotInv
  <2>2. CASE q # p
    BY <2>2, SMT DEF SlotInv
  <2>3. QED
    BY <2>1, <2>2
<1>2. ASSUME NEW q \in Procs, NEW r \in Procs, q # r, pc'[q] = "fork", pc'[r] = "fork"
      PROVE  child'[q] # child'[r]
  BY <1>1, <1>2, SMT DEF SlotInv
<1>3. QED
  BY <1>1, <1>2, SMT DEF SlotInv

LEMMA ForkInv ==
  ASSUME IndInv, NEW p \in Procs, fork(p)
  PROVE  IndInv'
<1> USE Parts, NilIs
<1>1. PICK np \in Unused : allocproc(np, "EMBRYO") /\ child' = [child EXCEPT ![p] = np]
  BY DEF fork
<1>2. /\ np \in Procs /\ state[np] = "UNUSED" /\ kstack[np] = Nil /\ np # p
      /\ state[p] = "RUNNABLE" /\ pc[p] = "user" /\ dir[p] = Nil /\ a[p] = 0
      /\ pgdir[p] \in DOMAIN space /\ 0 \in Mapped(pgdir[p])
  BY <1>1 DEF Unused, SlotInv, fork, Runs
<1>3. /\ freelist # {} /\ freelist' = freelist \ {kalloc}
      /\ kstack' = [kstack EXCEPT ![np] = kalloc] /\ state' = [state EXCEPT ![np] = "EMBRYO"]
      /\ pc' = [pc EXCEPT ![p] = "fork"]
      /\ UNCHANGED <<space, parent, pgdir, sz, dir, a, newsz, lost, panic>>
  BY <1>1 DEF fork, allocproc, Pop
<1>4. kalloc \in freelist /\ kalloc \in Pages
  BY <1>3, KallocIn, TypesIs
<1>5. \A q \in Procs : Alive(q)' <=> Alive(q)
  BY <1>2, <1>3 DEF Types, ProcsOK, Alive
<1>6. Types'
  BY <1>1, <1>2, <1>3, <1>4, SpaceSame DEF Types, ProcsOK, CallsOK
<1>7. OwnInv'
  BY <1>2, <1>3, <1>4, TakeStack DEF OwnInv, Types, ProcsOK
<1>8. SlotInv'
  BY <1>1, <1>2, <1>3, <1>4, SMT DEF SlotInv, Types, ProcsOK, CallsOK
<1>9. SpaceInv'
  BY <1>3, <1>5, SpacesKept
<1>10. FamilyInv' /\ ThreadInv' /\ RankInv'
  <2>1. \A q \in Procs : state[q] = "RUNNABLE" => state'[q] = "RUNNABLE"
    BY <1>2, <1>3 DEF Types, ProcsOK
  <2>2. \A q \in Procs : pc'[q] = "grow" => pc[q] = "grow"
    BY <1>3 DEF Types, ProcsOK
  <2>3. QED
    BY <1>3, <1>5, <2>1, <2>2, ProcsKept, TypesIs
<1>11. SizeInv'
  <2> SUFFICES ASSUME NEW q \in Procs PROVE SizeOf(q)'
    BY DEF SizeInv
  <2>1. CASE q = p
    <3>1. PGROUNDUP(sz[p]) \in Nat
      BY RoundUp, CallIs
    <3>2. SizeOf(p) /\ pc'[p] = "fork"
      BY <1>3 DEF SizeInv, Types, ProcsOK
    <3>3. End(p)' = PGROUNDUP(sz[p]) /\ PGROUNDUP(sz[p])' = PGROUNDUP(sz[p])
      BY <1>3, <3>2 DEF End, PGROUNDUP
    <3>4. QED
      <4>1. Mapped(pgdir[p])' = Mapped(pgdir[p])
        BY <1>3 DEF Mapped
      <4>2. a'[p] = 0 /\ dir'[p] = Nil /\ 0 <= End(p)'
        BY <1>2, <1>3, <3>1, <3>3, SMT
      <4>3. QED
        BY <1>2, <1>3, <1>5, <2>1, <3>2, <3>3, <4>1, <4>2 DEF SizeOf
  <2>2. CASE q # p
    BY <1>3, <1>5, <2>2, SizeKept DEF SizeInv, Types, ProcsOK, Mapped
  <2>3. QED
    BY <2>1, <2>2
<1>12. QED
  BY <1>3, <1>6, <1>7, <1>8, <1>9, <1>10, <1>11, Whole
\* A process that a step on directory d does not touch.
LEMMA SizeOther ==
  ASSUME NEW d, NEW q \in Procs, SlotInv, SpaceInv, SizeInv,
         \A c \in DOMAIN space \ {d} : Mapped(c)' = Mapped(c),
         Alive(q) => pgdir[q] # d, dir[q] # Nil => dir[q] # d,
         Alive(q)' => Alive(q), pc'[q] = pc[q], a'[q] = a[q], newsz'[q] = newsz[q],
         dir'[q] = dir[q], sz'[q] = sz[q], pgdir'[q] = pgdir[q]
  PROVE  SizeOf(q)'
<1>1. SizeOf(q)
  BY DEF SizeInv
<1>2. pc[q] # "user" => Alive(q)
  BY DEF SlotInv, Alive
<1>3. Alive(q) => Mapped(pgdir[q])' = Mapped(pgdir[q])
  BY DEF SpaceInv
<1>4. dir[q] # Nil => Mapped(dir[q])' = Mapped(dir[q])
  BY DEF SpaceInv
<1>5. QED
  BY <1>1, <1>2, <1>3, <1>4, SizeKept

\* What a process that runs user code has.
LEMMA Running ==
  ASSUME IndInv, NEW p \in Procs, Runs(p)
  PROVE  /\ state[p] = "RUNNABLE" /\ pc[p] = "user" /\ dir[p] = Nil /\ a[p] = 0 /\ Alive(p)
         /\ pgdir[p] \in DOMAIN space /\ 0 \in Mapped(pgdir[p])
         /\ PGROUNDUP(sz[p]) \in Nat /\ sz[p] \in 0..USERTOP
         /\ Mapped(pgdir[p]) = 0..PGROUNDUP(sz[p]) - 1
<1> USE Parts
<1>1. /\ state[p] = "RUNNABLE" /\ pc[p] = "user" /\ dir[p] = Nil /\ a[p] = 0 /\ Alive(p)
      /\ pgdir[p] \in DOMAIN space /\ 0 \in Mapped(pgdir[p])
  BY DEF Runs, SlotInv, Alive
<1>2. sz[p] \in 0..USERTOP /\ PGROUNDUP(sz[p]) \in Nat
  BY RoundUp, Constants, SMT DEF Types, ProcsOK
<1>3. Mapped(pgdir[p]) \in {{}, 0..PGROUNDUP(sz[p]) - 1}
  BY <1>1 DEF SizeInv, SizeOf
<1>4. QED
  BY <1>1, <1>2, <1>3

LEMMA ExecInv ==
  ASSUME IndInv, NEW p \in Procs, NEW n \in Images, exec(p, n)
  PROVE  IndInv'
<1> USE Parts, NilIs
<1>1. Runs(p)
  BY DEF exec
<1>2. /\ pc' = [pc EXCEPT ![p] = "exec"]
      /\ newsz' = [newsz EXCEPT ![p] = (PGROUNDUP(n) + 1) * PGSIZE]
      /\ UNCHANGED <<freelist, space, state, parent, pgdir, sz, kstack, child, dir, a, lost, panic>>
  BY DEF exec, proc
<1>3. /\ state[p] = "RUNNABLE" /\ pc[p] = "user" /\ dir[p] = Nil /\ a[p] = 0 /\ Alive(p)
      /\ Mapped(pgdir[p]) = 0..PGROUNDUP(sz[p]) - 1 /\ 0 \in Mapped(pgdir[p])
  BY <1>1, Running
<1>4. (PGROUNDUP(n) + 1) * PGSIZE \in Nat
  <2>1. PGROUNDUP(n) + 1 \in Nat
    BY RoundUp, VmConstants, SMT
  <2>2. QED
    BY <2>1, WholePages
<1>5. \A q \in Procs : Alive(q)' <=> Alive(q)
  BY <1>2 DEF Alive
<1>6. Types'
  BY <1>2, <1>4, SpaceSame DEF Types, ProcsOK, CallsOK
<1>7. OwnInv' /\ SpaceInv'
  BY <1>2, <1>5, SpacesKept DEF OwnInv
<1>8. SlotInv'
  BY <1>2, <1>3, SMT DEF SlotInv, Types, ProcsOK
<1>9. FamilyInv' /\ ThreadInv' /\ RankInv'
  <2>1. \A q \in Procs : pc'[q] = "grow" => pc[q] = "grow"
    BY <1>2 DEF Types, ProcsOK
  <2>2. QED
    BY <1>2, <1>5, <2>1, ProcsKept, TypesIs
<1>10. SizeInv'
  <2> SUFFICES ASSUME NEW q \in Procs PROVE SizeOf(q)'
    BY DEF SizeInv
  <2>1. CASE q = p
    <3>1. pc'[p] = "exec" /\ newsz'[p] \in Nat /\ a'[p] = 0 /\ dir'[p] = Nil
      BY <1>2, <1>3, <1>4 DEF Types, ProcsOK, CallsOK
    <3>2. 0 <= End(p)'
      BY <3>1, Division, Constants, SMT DEF End
    <3>3. PGROUNDUP(sz[p])' = PGROUNDUP(sz[p]) /\ Mapped(pgdir[p])' = Mapped(pgdir[p])
      BY <1>2, SpaceSame DEF PGROUNDUP
    <3>4. QED
      BY <1>3, <2>1, <3>1, <3>2, <3>3 DEF SizeOf
  <2>2. CASE q # p
    <3>1. /\ pc'[q] = pc[q] /\ newsz'[q] = newsz[q]
          /\ \A c \in DOMAIN space \ {Nil} : Mapped(c)' = Mapped(c)
          /\ Alive(q) => pgdir[q] # Nil
      BY <1>2, <2>2, SpaceSame, SMT DEF Types, ProcsOK, CallsOK, SpaceInv, SpaceOK
    <3>2. QED
      BY <1>2, <1>5, <3>1, SizeOther
  <2>3. QED
    BY <2>1, <2>2
<1>11. QED
  BY <1>2, <1>6, <1>7, <1>8, <1>9, <1>10, Whole

LEMMA GrowInv ==
  ASSUME IndInv, ~resized', NEW p \in Procs, NEW n \in Deltas, growproc(p, n)
  PROVE  IndInv'
<1> USE Parts, NilIs
<1>1. Runs(p) /\ ~Shares(p) /\ sz[p] + n <= USERTOP
  BY DEF growproc
<1>2. /\ pc' = [pc EXCEPT ![p] = "grow"]
      /\ newsz' = [newsz EXCEPT ![p] = sz[p] + n]
      /\ a' = [a EXCEPT ![p] = PGROUNDUP(sz[p])]
      /\ UNCHANGED <<freelist, space, state, parent, pgdir, sz, kstack, child, dir, lost, panic>>
  BY DEF growproc, FirstNew, proc
<1>3. /\ state[p] = "RUNNABLE" /\ pc[p] = "user" /\ dir[p] = Nil /\ a[p] = 0 /\ Alive(p)
      /\ Mapped(pgdir[p]) = 0..PGROUNDUP(sz[p]) - 1 /\ 0 \in Mapped(pgdir[p])
      /\ PGROUNDUP(sz[p]) \in Nat /\ sz[p] \in 0..USERTOP
  BY <1>1, Running
<1>4. n \in Nat /\ sz[p] \in Nat /\ sz[p] + n \in Nat /\ sz[p] <= sz[p] + n
      /\ PGROUNDUP(sz[p]) <= PGROUNDUP(sz[p] + n)
  <2>1. n \in Nat
    BY VmConstants
  <2>2. sz[p] \in Nat /\ sz[p] + n \in Nat /\ sz[p] <= sz[p] + n
    BY <1>3, <2>1, SMT
  <2>3. QED
    BY <2>1, <2>2, RoundUp
<1>5. \A q \in Procs : Alive(q)' <=> Alive(q)
  BY <1>2 DEF Alive
<1>6. Types'
  BY <1>2, <1>3, <1>4, SpaceSame DEF Types, ProcsOK, CallsOK
<1>7. OwnInv' /\ SpaceInv'
  BY <1>2, <1>5, SpacesKept DEF OwnInv
<1>8. SlotInv'
  <2>1. /\ pc'[p] = "grow" /\ dir'[p] = Nil
        /\ \A q \in Procs \ {p} : pc'[q] = pc[q] /\ a'[q] = a[q]
    BY <1>2, <1>3 DEF Types, ProcsOK, CallsOK
  <2>2. QED
    BY <1>2, <1>3, <2>1, SlotKept
<1>9. FamilyInv' /\ ThreadInv' /\ RankInv'
  <2>1. \A q \in Procs : pc'[q] = "grow" =>
          pc[q] = "grow" \/ (Alive(q) /\ ~Shares(q))
    BY <1>1, <1>2, <1>3 DEF Types, ProcsOK
  <2>2. QED
    BY <1>2, <1>5, <2>1, ProcsKept, TypesIs
<1>10. SizeInv'
  <2> SUFFICES ASSUME NEW q \in Procs PROVE SizeOf(q)'
    BY DEF SizeInv
  <2>1. CASE q = p
    <3>1. /\ pc'[p] = "grow" /\ newsz'[p] = sz[p] + n /\ a'[p] = PGROUNDUP(sz[p])
      BY <1>2 DEF Types, ProcsOK, CallsOK
    <3>2. /\ PGROUNDUP(sz[p])' = PGROUNDUP(sz[p]) /\ PGROUNDUP(newsz[p])' = PGROUNDUP(sz[p] + n)
          /\ Mapped(pgdir[p])' = Mapped(pgdir[p])
      BY <1>2, <3>1, SpaceSame DEF PGROUNDUP
    <3>3. QED
      <4>1. PGROUNDUP(sz[p]) <= a'[p] /\ a'[p] <= PGROUNDUP(newsz[p])'
        BY <1>3, <1>4, <3>1, <3>2, SMT
      <4>2. QED
        BY <1>1, <1>2, <1>3, <1>4, <2>1, <3>1, <3>2, <4>1 DEF SizeOf
  <2>2. CASE q # p
    <3>1. /\ pc'[q] = pc[q] /\ newsz'[q] = newsz[q] /\ a'[q] = a[q]
          /\ \A c \in DOMAIN space \ {Nil} : Mapped(c)' = Mapped(c)
          /\ Alive(q) => pgdir[q] # Nil
      BY <1>2, <2>2, SpaceSame, SMT DEF Types, ProcsOK, CallsOK, SpaceInv, SpaceOK
    <3>2. QED
      BY <1>2, <1>5, <3>1, SizeOther
  <2>3. QED
    BY <2>1, <2>2
<1>11. QED
  BY <1>2, <1>6, <1>7, <1>8, <1>9, <1>10, Whole
\* A call returns.
LEMMA ReturnsIs ==
  ASSUME Types, NEW p \in Procs, Returns(p)
  PROVE  /\ pc'[p] = "user" /\ dir'[p] = Nil /\ child'[p] = Nil /\ a'[p] = 0 /\ newsz'[p] = 0
         /\ pc' \in [Procs -> {"user", "fork", "exec", "grow"}] /\ CallsOK'
         /\ \A q \in Procs \ {p} : /\ pc'[q] = pc[q] /\ dir'[q] = dir[q] /\ child'[q] = child[q]
                                   /\ a'[q] = a[q] /\ newsz'[q] = newsz[q]
BY DEF Types, ProcsOK, CallsOK, Returns

LEMMA GrownInv ==
  ASSUME IndInv, NEW p \in Procs, Grown(p)
  PROVE  IndInv'
<1> USE Parts, NilIs
<1>1. /\ pc[p] = "grow" /\ ~(a[p] < PGROUNDUP(newsz[p])) /\ Returns(p)
      /\ sz' = [sz EXCEPT ![p] = newsz[p]]
      /\ UNCHANGED <<freelist, space, state, parent, pgdir, kstack, lost, panic>>
  BY DEF Grown, Growing, In
<1>2. /\ state[p] = "RUNNABLE" /\ dir[p] = Nil /\ Alive(p)
      /\ Mapped(pgdir[p]) = 0..a[p] - 1
      /\ a[p] = PGROUNDUP(newsz[p]) /\ newsz[p] \in 0..USERTOP
  <2>1. a[p] \in Nat /\ newsz[p] \in Nat /\ SizeOf(p) /\ state[p] = "RUNNABLE" /\ dir[p] = Nil
    BY <1>1, CallIs DEF SizeInv, SlotInv
  <2>2. PGROUNDUP(newsz[p]) \in Nat
    BY <2>1, RoundUp
  <2>3. QED
    <3>1. Mapped(pgdir[p]) = 0..a[p] - 1 /\ a[p] <= PGROUNDUP(newsz[p]) /\ newsz[p] <= USERTOP
      BY <1>1, <2>1 DEF SizeOf
    <3>2. a[p] = PGROUNDUP(newsz[p]) /\ newsz[p] \in 0..USERTOP
      BY <1>1, <2>1, <2>2, <3>1, Constants, SMT
    <3>3. QED
      BY <2>1, <3>1, <3>2 DEF Alive
<1>3. \A q \in Procs : Alive(q)' <=> Alive(q)
  BY <1>1 DEF Alive
<1>4. dir' = dir
  <2>1. dir \in [Procs -> Pages \cup {Nil}] /\ dir' \in [Procs -> Pages \cup {Nil}]
    BY <1>1, ReturnsIs DEF Types, CallsOK
  <2>2. \A q \in Procs : dir'[q] = dir[q]
    BY <1>1, <1>2, ReturnsIs
  <2>3. QED
    BY <2>1, <2>2, SMT
<1>5. Types'
  BY <1>1, <1>2, ReturnsIs, SpaceSame DEF Types, ProcsOK
<1>6. OwnInv' /\ SpaceInv'
  BY <1>1, <1>3, <1>4, SpacesKept DEF OwnInv
<1>7. SlotInv'
  BY <1>1, <1>2, ReturnsIs, SlotKept
<1>8. FamilyInv' /\ ThreadInv' /\ RankInv'
  <2>1. \A q \in Procs : pc'[q] = "grow" => pc[q] = "grow"
    BY <1>1, ReturnsIs
  <2>2. QED
    BY <1>1, <1>3, <2>1, ProcsKept, TypesIs
<1>9. SizeInv'
  <2> SUFFICES ASSUME NEW q \in Procs PROVE SizeOf(q)'
    BY DEF SizeInv
  <2>1. CASE q = p
    <3>1. pc'[p] = "user" /\ sz'[p] = newsz[p]
      BY <1>1, ReturnsIs DEF Types, ProcsOK
    <3>2. PGROUNDUP(sz[p])' = PGROUNDUP(newsz[p]) /\ Mapped(pgdir[p])' = Mapped(pgdir[p])
      BY <1>1, <3>1, SpaceSame DEF PGROUNDUP
    <3>3. QED
      BY <1>2, <2>1, <3>1, <3>2 DEF SizeOf
  <2>2. CASE q # p
    <3>1. /\ sz'[q] = sz[q]
          /\ \A c \in DOMAIN space \ {Nil} : Mapped(c)' = Mapped(c)
          /\ Alive(q) => pgdir[q] # Nil
      BY <1>1, <2>2, SpaceSame DEF Types, ProcsOK, SpaceInv, SpaceOK
    <3>2. QED
      BY <1>1, <1>3, <2>2, <3>1, ReturnsIs, SizeOther
  <2>3. QED
    BY <2>1, <2>2
<1>10. QED
  BY <1>1, <1>5, <1>6, <1>7, <1>8, <1>9, Whole

=============================================================================
