--------------------------------- MODULE Vm ---------------------------------
(***************************************************************************)
(* Physical pages and address spaces: the page allocator (kalloc.c), the   *)
(* page tables (vm.c), exec, and the calls of the kernel with threads that *)
(* create, resize, share and destroy address spaces (4/xv6/change/proc.c). *)
(*                                                                         *)
(* Every kalloc is a step of its own: between two of them other processes  *)
(* run, and any of them may find the free list empty.  The pages that one  *)
(* deallocuvm or freevm gives back are given back in one step.  Addresses  *)
(* keep their offset in the page, so that PGROUNDUP rounds.                *)
(***************************************************************************)
EXTENDS Integers, FiniteSets

CONSTANTS NPROC,       \* slots of the process table
          NPAGES,      \* physical pages
          NTABLES,     \* page-table pages setupkvm needs beside the directory
          PGSIZE,      \* addresses in a page
          USERTOP,     \* end of user memory, as an address
          Images,      \* sizes of the programs exec can load
          Deltas       \* by how much sbrk grows and shrinks

ASSUME VmConstants ==
  /\ {NPROC, NPAGES, NTABLES, PGSIZE} \subseteq Nat \ {0}
  /\ NPAGES >= NTABLES + 3   \* enough for init
  /\ USERTOP \in Nat /\ USERTOP % PGSIZE = 0 /\ USERTOP >= PGSIZE
  /\ Images \subseteq Nat /\ Deltas \subseteq Nat \ {0}

Procs == 1..NPROC
Pages == 1..NPAGES
Nil == 0
initproc == 1

VARIABLES freelist,  \* the free pages: kalloc hands out one, as good as any
          space,     \* page directory |-> its page-table pages, its user pages
          state, parent, pgdir, sz, kstack,   \* struct proc
          pc,        \* per process: the call it is in, or "user"
          child,     \* per process: np in fork
          dir,       \* per process: the directory being built, or Nil
          a,         \* per process: the page number the loop has come to
          newsz,     \* per process: the size asked for
          lost,      \* the pages that nothing refers to any more
          panic,     \* the kernel's last words
          resized,   \* history: growproc was called for a shared address space
          abandoned  \* history: a process left one to its threads, by exit or exec

proc == <<state, parent, pgdir, sz, kstack>>
call == <<pc, child, dir, a, newsz>>
histories == <<resized, abandoned>>
vars == <<freelist, space, proc, call, lost, panic, histories>>

\* The number of pages that hold s addresses.
PGROUNDUP(s) == (s + PGSIZE - 1) \div PGSIZE

\* The function f with x mapped to v as well.
Put(f, x, v) == [y \in DOMAIN f \cup {x} |-> IF y = x THEN v ELSE f[y]]

Empty == [tabs |-> {}, map |-> [i \in {} |-> Nil]]
Mapped(d) == DOMAIN space[d].map
Alive(p) == state[p] \in {"RUNNABLE", "ZOMBIE"}
Unused == {p \in Procs : state[p] = "UNUSED"}

\* p executes user code: it is not a zombie and its text is still mapped.
Runs(p) == state[p] = "RUNNABLE" /\ pc[p] = "user" /\ panic = "none"
           /\ pgdir[p] \in DOMAIN space /\ 0 \in Mapped(pgdir[p])

Shares(p) == \E q \in Procs \ {p} : Alive(q) /\ pgdir[q] = pgdir[p]

In(p, c) == pc[p] = c /\ panic = "none"
Returns(p) == /\ pc' = [pc EXCEPT ![p] = "user"]
              /\ dir' = [dir EXCEPT ![p] = Nil]
              /\ child' = [child EXCEPT ![p] = Nil]
              /\ a' = [a EXCEPT ![p] = 0]
              /\ newsz' = [newsz EXCEPT ![p] = 0]

-----------------------------------------------------------------------------
\* kalloc takes a page off the free list; callers test that there is one.
kalloc == CHOOSE g \in freelist : TRUE

Pop == /\ freelist # {}
       /\ freelist' = freelist \ {kalloc}

\* mappages for one user page: its page table is there already, the I/O space
\* that setupkvm maps begins in the same one.
mappages(d, i) == [space EXCEPT ![d].map = Put(@, i, kalloc)]

\* The address space without the user pages of the set I, and those pages.
Unmap(d, I) ==
  [space EXCEPT ![d].map = [i \in DOMAIN @ \ I |-> @[i]]]
UserPages(d, I) == {space[d].map[i] : i \in Mapped(d) \cap I}

\* The page numbers deallocuvm(d, old, new) goes through.
Dealloc(old, new) == IF new >= old THEN {} ELSE PGROUNDUP(new)..PGROUNDUP(old) - 1

\* What freevm gives back: the user pages, the page tables, the directory.
AllOf(d) == {d} \cup space[d].tabs \cup UserPages(d, Mapped(d))

Without(d) == [e \in DOMAIN space \ {d} |-> space[e]]

freevm(d) == /\ freelist' = freelist \cup AllOf(d)
             /\ space' = Without(d)

\* userinit, after inituvm: init has a kernel stack, a directory and one page.
Init ==
  /\ freelist = 4 + NTABLES..NPAGES
  /\ space = [d \in {2} |-> [tabs |-> 3..2 + NTABLES, map |-> [i \in {0} |-> 3 + NTABLES]]]
  /\ state = [p \in Procs |-> IF p = initproc THEN "RUNNABLE" ELSE "UNUSED"]
  /\ parent = [p \in Procs |-> Nil]
  /\ pgdir = [p \in Procs |-> IF p = initproc THEN 2 ELSE Nil]
  /\ sz = [p \in Procs |-> IF p = initproc THEN PGSIZE ELSE 0]
  /\ kstack = [p \in Procs |-> IF p = initproc THEN 1 ELSE Nil]
  /\ pc = [p \in Procs |-> "user"]
  /\ child = [p \in Procs |-> Nil]
  /\ dir = [p \in Procs |-> Nil]
  /\ a = [p \in Procs |-> 0]
  /\ newsz = [p \in Procs |-> 0]
  /\ lost = {} /\ panic = "none"
  /\ resized = FALSE /\ abandoned = FALSE

-----------------------------------------------------------------------------
\* allocproc found slot np and a page for its kernel stack; it gives the slot
\* back, and nothing has changed, when there is no page.
allocproc(np, st) ==
  /\ \A q \in Unused : np <= q
  /\ Pop
  /\ kstack' = [kstack EXCEPT ![np] = kalloc]
  /\ state' = [state EXCEPT ![np] = st]

fork(p) ==
  /\ Runs(p) /\ Unused # {}
  /\ \E np \in Unused : allocproc(np, "EMBRYO") /\ child' = [child EXCEPT ![p] = np]
  /\ pc' = [pc EXCEPT ![p] = "fork"]
  /\ UNCHANGED <<space, parent, pgdir, sz, dir, a, newsz, lost, panic, histories>>

\* clone: the new thread has the caller's page directory, and a copy of sz.
clone(p) ==
  /\ Runs(p) /\ p # initproc /\ Unused # {}
  /\ \E np \in Unused :
       /\ allocproc(np, "RUNNABLE")
       /\ pgdir' = [pgdir EXCEPT ![np] = pgdir[p]]
       /\ sz' = [sz EXCEPT ![np] = sz[p]]
       /\ parent' = [parent EXCEPT ![np] = p]
  /\ UNCHANGED <<space, call, lost, panic, histories>>

\* exec has found the file and its header is good.
exec(p, n) ==
  /\ Runs(p)
  /\ pc' = [pc EXCEPT ![p] = "exec"]
  /\ newsz' = [newsz EXCEPT ![p] = (PGROUNDUP(n) + 1) * PGSIZE]
  /\ UNCHANGED <<freelist, space, proc, child, dir, a, lost, panic, histories>>

Building(p) == pc[p] \in {"fork", "exec"} /\ panic = "none"
TablesDone(p) == dir[p] # Nil /\ Cardinality(space[dir[p]].tabs) = NTABLES

\* setupkvm allocates the directory, then a page table whenever walkpgdir
\* meets an address that has none.
setupkvm(p) ==
  /\ Building(p) /\ ~TablesDone(p)
  /\ Pop
  /\ IF dir[p] = Nil
     THEN /\ dir' = [dir EXCEPT ![p] = kalloc]
          /\ space' = Put(space, kalloc, Empty)
     ELSE /\ space' = [space EXCEPT ![dir[p]].tabs = @ \cup {kalloc}]
          /\ UNCHANGED dir
  /\ UNCHANGED <<proc, pc, child, a, newsz, lost, panic, histories>>

\* fork gives the kernel stack and the slot back; exec has nothing to undo.
Undone(p) ==
  IF pc[p] = "fork"
  THEN /\ kstack' = [kstack EXCEPT ![child[p]] = Nil]
       /\ state' = [state EXCEPT ![child[p]] = "UNUSED"]
       /\ UNCHANGED <<parent, pgdir, sz>>
  ELSE UNCHANGED proc

Stacks(p) == IF pc[p] = "fork" THEN {kstack[child[p]]} ELSE {}

\* It runs out of pages and returns 0.  What it has allocated so far is not
\* freed, by it or by the caller, who was not told of it.
SetupFails(p) ==
  /\ Building(p) /\ ~TablesDone(p) /\ freelist = {}
  /\ IF dir[p] = Nil THEN UNCHANGED <<lost, space>>
     ELSE /\ lost' = lost \cup AllOf(dir[p])
          /\ space' = Without(dir[p])
  /\ freelist' = Stacks(p)
  /\ Undone(p) /\ Returns(p)
  /\ UNCHANGED <<panic, histories>>

-----------------------------------------------------------------------------
\* Where the loops of copyuvm, and of allocuvm in exec, end.
End(p) == IF pc[p] = "fork" THEN PGROUNDUP(sz[p])
          ELSE IF newsz[p] <= USERTOP THEN newsz[p] \div PGSIZE ELSE USERTOP \div PGSIZE

\* One more page.
Fill(p) ==
  /\ Building(p) /\ TablesDone(p)
  /\ a[p] < End(p)
  /\ IF pc[p] = "fork" /\ a[p] \notin Mapped(pgdir[p])
     THEN /\ panic' = "copyuvm: page not present"
          /\ UNCHANGED <<freelist, space, a>>
     ELSE /\ Pop
          /\ space' = mappages(dir[p], a[p])
          /\ a' = [a EXCEPT ![p] = @ + 1]
          /\ UNCHANGED panic
  /\ UNCHANGED <<proc, pc, child, dir, newsz, lost, histories>>

\* Out of memory in fork or exec; in exec also a file that cannot be read, a
\* size above USERTOP, too many arguments.  "bad:" frees what was built.
FillFails(p) ==
  /\ Building(p) /\ TablesDone(p)
  /\ pc[p] = "fork" => freelist = {} /\ a[p] < End(p)
                       /\ a[p] \in Mapped(pgdir[p])
  /\ freelist' = freelist \cup AllOf(dir[p]) \cup Stacks(p)
  /\ space' = Without(dir[p])
  /\ Undone(p) /\ Returns(p)
  /\ UNCHANGED <<lost, panic, histories>>

\* fork is through: the child gets the copy and runs.
Forked(p) ==
  /\ In(p, "fork") /\ TablesDone(p) /\ a[p] = End(p)
  /\ pgdir' = [pgdir EXCEPT ![child[p]] = dir[p]]
  /\ sz' = [sz EXCEPT ![child[p]] = sz[p]]
  /\ parent' = [parent EXCEPT ![child[p]] = p]
  /\ state' = [state EXCEPT ![child[p]] = "RUNNABLE"]
  /\ Returns(p)
  /\ UNCHANGED <<freelist, space, kstack, lost, panic, histories>>

\* "Commit to the user image": the old one is freed, whoever else is on it.
Committed(p) ==
  /\ In(p, "exec") /\ TablesDone(p)
  /\ a[p] * PGSIZE = newsz[p]
  /\ pgdir' = [pgdir EXCEPT ![p] = dir[p]]
  /\ sz' = [sz EXCEPT ![p] = newsz[p]]
  /\ freevm(pgdir[p])
  /\ Returns(p)
  /\ abandoned' = (abandoned \/ Shares(p))
  /\ UNCHANGED <<state, parent, kstack, lost, panic, resized>>

-----------------------------------------------------------------------------
\* Faulty variant: the page that holds oldsz is taken for a new one.
FirstNew_Down(old) == old \div PGSIZE

\* a = PGROUNDUP(oldsz)
FirstNew(old) == PGROUNDUP(old)

\* growproc(n).  Above USERTOP allocuvm returns 0 and nothing changes.
growproc(p, n) ==
  /\ Runs(p) /\ p # initproc
  /\ sz[p] + n <= USERTOP
  /\ pc' = [pc EXCEPT ![p] = "grow"]
  /\ newsz' = [newsz EXCEPT ![p] = sz[p] + n]
  /\ a' = [a EXCEPT ![p] = FirstNew(sz[p])]
  /\ resized' = (resized \/ Shares(p))
  /\ UNCHANGED <<freelist, space, proc, child, dir, lost, panic, abandoned>>

Growing(p) == In(p, "grow") /\ a[p] < PGROUNDUP(newsz[p])

GrowPage(p) ==
  /\ Growing(p)
  /\ Pop
  /\ IF a[p] \in Mapped(pgdir[p])
     THEN panic' = "remap" /\ UNCHANGED <<space, a>>
     ELSE /\ space' = mappages(pgdir[p], a[p])
          /\ a' = [a EXCEPT ![p] = @ + 1]
          /\ UNCHANGED panic
  /\ UNCHANGED <<proc, pc, child, dir, newsz, lost, histories>>

\* Faulty variant: the pages added so far stay mapped.
Back_Not(p) == {}

\* deallocuvm(pgdir, newsz, oldsz)
Back(p) == Dealloc(newsz[p], sz[p])

GrowFails(p) ==
  /\ Growing(p) /\ freelist = {}
  /\ freelist' = UserPages(pgdir[p], Back(p))
  /\ space' = Unmap(pgdir[p], Back(p))
  /\ Returns(p)
  /\ UNCHANGED <<proc, lost, panic, histories>>

Grown(p) ==
  /\ In(p, "grow") /\ ~Growing(p)
  /\ sz' = [sz EXCEPT ![p] = newsz[p]]
  /\ Returns(p)
  /\ UNCHANGED <<freelist, space, state, parent, pgdir, kstack, lost, panic, histories>>

\* growproc(-n).  Below zero the sum wraps round, deallocuvm returns
\* oldsz and nothing changes; at zero growproc takes the new size for an error
\* and leaves sz as it was.
Shrink(p, n) ==
  /\ Runs(p) /\ p # initproc
  /\ sz[p] - n >= 0
  /\ LET I == Dealloc(sz[p], sz[p] - n)
     IN  /\ freelist' = freelist \cup UserPages(pgdir[p], I)
         /\ space' = Unmap(pgdir[p], I)
  /\ sz' = [sz EXCEPT ![p] = IF @ = n THEN @ ELSE @ - n]
  /\ resized' = (resized \/ Shares(p))
  /\ UNCHANGED <<state, parent, pgdir, kstack, call, lost, panic, abandoned>>

-----------------------------------------------------------------------------
\* exit, called by the program, or by trap() when its text is gone.
exit(p) ==
  /\ state[p] = "RUNNABLE" /\ In(p, "user") /\ p # initproc
  /\ state' = [state EXCEPT ![p] = "ZOMBIE"]
  /\ parent' = [q \in Procs |-> IF parent[q] = p THEN initproc ELSE parent[q]]
  /\ abandoned' = (abandoned \/ \E q \in Procs : parent[q] = p /\ pgdir[q] = pgdir[p])
  /\ UNCHANGED <<freelist, space, pgdir, sz, kstack, call, lost, panic, resized>>

\* Faulty variant: the address space of a thread is freed with the thread.
IsThread_Never(p, q) == FALSE

\* "only free pgdir if zombie process is not a thread of the parent"
IsThread(p, q) == pgdir[q] = pgdir[p]

\* wait reaps a zombie child.
wait(p, q) ==
  /\ Runs(p) /\ parent[q] = p /\ state[q] = "ZOMBIE"
  /\ \/ /\ IsThread(p, q)
        /\ freelist' = freelist \cup {kstack[q]}
        /\ UNCHANGED <<space, panic>>
     \/ /\ ~IsThread(p, q) /\ pgdir[q] \in DOMAIN space
        /\ freelist' = freelist \cup {kstack[q]} \cup AllOf(pgdir[q])
        /\ space' = Without(pgdir[q])
        /\ UNCHANGED panic
     \/ /\ ~IsThread(p, q) /\ pgdir[q] \notin DOMAIN space
        /\ panic' = "freevm of a directory that is free"
        /\ UNCHANGED <<freelist, space>>
  /\ kstack' = [kstack EXCEPT ![q] = Nil]
  /\ state' = [state EXCEPT ![q] = "UNUSED"]
  /\ parent' = [parent EXCEPT ![q] = Nil]
  /\ UNCHANGED <<pgdir, sz, call, lost, histories>>

Calls(p) ==
  \/ fork(p) \/ clone(p) \/ exit(p)
  \/ \E n \in Images : exec(p, n)
  \/ \E n \in Deltas : growproc(p, n) \/ Shrink(p, n)
  \/ \E q \in Procs : wait(p, q)

Steps(p) ==
  \/ setupkvm(p) \/ SetupFails(p) \/ Fill(p) \/ FillFails(p)
  \/ Forked(p) \/ Committed(p)
  \/ GrowPage(p) \/ GrowFails(p) \/ Grown(p)

\* What threads do on an address space that was left to them, and what becomes of
\* its pages when they are freed under them, is not followed.
Next == ~abandoned /\ \E p \in Procs : Calls(p) \/ Steps(p)

Spec == Init /\ [][Next]_vars

-----------------------------------------------------------------------------
TypeOK ==
  /\ freelist \subseteq Pages /\ lost \subseteq Pages
  /\ DOMAIN space \subseteq Pages
  /\ \A d \in DOMAIN space : /\ space[d].tabs \subseteq Pages
                             /\ Mapped(d) \subseteq 0..USERTOP \div PGSIZE - 1
  /\ state \in [Procs -> {"UNUSED", "EMBRYO", "RUNNABLE", "ZOMBIE"}]
  /\ parent \in [Procs -> Procs \cup {Nil}]
  /\ pgdir \in [Procs -> Pages \cup {Nil}] /\ kstack \in [Procs -> Pages \cup {Nil}]
  /\ sz \in [Procs -> 0..USERTOP]
  /\ pc \in [Procs -> {"user", "fork", "exec", "grow"}]

\* Every reference the kernel holds to physical page g.
Owners(g) ==
  {<<"free">> : x \in {g} \cap freelist} \cup {<<"lost">> : x \in {g} \cap lost}
  \cup {<<"stack", p>> : p \in {q \in Procs : kstack[q] = g}}
  \cup {<<"dir">> : x \in {g} \cap DOMAIN space}
  \cup UNION {{<<"table", d>> : x \in {g} \cap space[d].tabs}
              \cup {<<"user", d, i>> : i \in {j \in Mapped(d) : space[d].map[j] = g}}
              : d \in DOMAIN space}

\* A page has one use at a time: it is free, or a kernel stack, or belongs to
\* one address space, and an address space exists exactly as long as a process
\* has it or a call builds it.  Nothing is freed twice or shared by accident,
\* and the only pages that are lost are those of a setupkvm that ran out.  This
\* is so until a process leaves its address space to its threads (by exit, or by
\* exec, which frees it under them), and whatever threads do to its size.
PagesOwnedOnce ==
  ~abandoned /\ panic = "none" =>
    /\ TypeOK
    /\ \A g \in Pages : LET O == Owners(g) IN \E o \in O : O = {o}
    /\ DOMAIN space = {pgdir[p] : p \in {q \in Procs : Alive(q)}}
                      \cup ({dir[p] : p \in Procs} \ {Nil})

\* As long as address spaces are resized by those who have them alone, and not
\* left to threads, no sequence of calls, and no failure inside one, makes the
\* kernel map a page twice, copy one that is not there, or free an address space
\* again.  (Threads have sizes of their own: one that grows after another maps
\* pages that are mapped.)
NoVmPanic == ~abandoned /\ ~resized => panic = "none"

\* In the same cases proc->sz tells what is mapped: after every call, failed ones
\* included, the user pages are those below it.  Or there are none: growproc(-sz)
\* unmaps all of them, takes the new size 0 for an error, returns -1 and leaves
\* sz as it was.
SizeIsMapped ==
  ~abandoned /\ ~resized =>
    \A p \in Procs :
      Alive(p) /\ pc[p] # "grow" /\ pgdir[p] \in DOMAIN space =>
        Mapped(pgdir[p]) \in {{}, 0..PGROUNDUP(sz[p]) - 1}

-----------------------------------------------------------------------------
\* What TLC tells states apart by: pages are interchangeable, so which page
\* serves which purpose is left out as long as each serves one.
Shape(d) == IF d \in DOMAIN space THEN <<Cardinality(space[d].tabs), Mapped(d)>> ELSE <<>>

PageView ==
  <<PagesOwnedOnce, Cardinality(freelist), Cardinality(lost), panic, histories,
    state, parent, sz, pc, child, a, newsz,
    [p \in Procs |->
       <<kstack[p] # Nil, dir[p] # Nil, Shape(dir[p]),
         IF Alive(p) THEN <<Shape(pgdir[p]), {q \in Procs : Alive(q) /\ pgdir[q] = pgdir[p]}>>
         ELSE <<>> >>]>>
=============================================================================
