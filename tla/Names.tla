------------------------------- MODULE Names --------------------------------
(***************************************************************************)
(* Directories, the inode cache and the file table (project 5: fs.c,       *)
(* sysfile.c, file.c) under processes whose system calls interleave.  A    *)
(* step goes from taking an inode's lock to giving it back, or to waiting  *)
(* for another one.  ilock's wait is the guard that the inode is not busy. *)
(* Contents are not here (module Extents); iput's truncation is one step.  *)
(***************************************************************************)
EXTENDS Naturals, Sequences, FiniteSets, FiniteSetsExt

CONSTANTS NINODES,   \* sb.ninodes
          NINODE,    \* slots of the inode cache
          NFILE, NOFILE, Procs,
          Elems,     \* the names in directories, besides ".."
          Requests   \* the system calls: op, path, link's new path, and whether
                     \* the path starts at the root

Inums == 1..NINODES
Files == 1..NFILE
ROOTINO == 1

ASSUME NamesConstants ==
  /\ {NINODES, NINODE, NFILE, NOFILE} \subseteq Nat \ {0}
  /\ \A r \in Requests :
       /\ r.op \in {"create", "mkdir", "open", "unlink", "chdir", "link"}
       /\ r.path \in Seq(Elems \cup {".."}) \ {<<>>} /\ r.new \in Seq(Elems \cup {".."})
       /\ r.rooted \in BOOLEAN
       /\ r.op \in {"create", "mkdir", "unlink"} => r.path[Len(r.path)] \in Elems
       /\ r.op = "link" => r.new # <<>> /\ r.new[Len(r.new)] \in Elems

VARIABLES ino,    \* per inode: type, links, entries; ref and lock of its cache slot
          cwd,
          ofile,  \* per process: how many descriptors it has on each struct file
          ftable, \* per struct file: its ref, and its inode or 0
          call,   \* per process: the system call it is in, and where
          panic

vars == <<ino, cwd, ofile, ftable, call, panic>>

NoEntries == [e \in Elems |-> 0]
Free == [type |-> "none", nlink |-> 0, entries |-> NoEntries, up |-> 0, ref |-> 0,
         busy |-> FALSE, lost |-> FALSE]   \* lost: the directory with its name was freed
User == [op |-> "none", at |-> "user", path |-> <<>>, new |-> <<>>, dp |-> 0, ip |-> 0,
         astray |-> FALSE]   \* astray: it went through ".." of a removed directory

Init ==
  /\ ino = [i \in Inums |->
              IF i = ROOTINO
              THEN [Free EXCEPT !.type = "T_DIR", !.nlink = 1, !.up = ROOTINO,
                                !.ref = Cardinality(Procs)]
              ELSE Free]
  /\ cwd = [p \in Procs |-> ROOTINO]
  /\ ofile = [p \in Procs |-> [f \in Files |-> 0]]
  /\ ftable = [f \in Files |-> [ref |-> 0, ip |-> 0]]
  /\ call = [p \in Procs |-> User]
  /\ panic = "none"

-----------------------------------------------------------------------------
\* The inode cache, as functions of the table of inodes and the panic.

Cache == [ino |-> ino, panic |-> panic]
Panics(s, why) == [s EXCEPT !.panic = IF @ = "none" THEN why ELSE @]

iget(s, i) ==
  IF s.ino[i].ref = 0 /\ Cardinality({j \in Inums : s.ino[j].ref > 0}) >= NINODE
  THEN Panics(s, "iget: no inodes")
  ELSE [s EXCEPT !.ino[i].ref = @ + 1]

\* Called when the inode is not busy (Unlocked).
ilock(s, i) ==
  IF s.ino[i].ref < 1 THEN Panics(s, "ilock")
  ELSE IF s.ino[i].type = "none" THEN Panics(s, "ilock: no type")
  ELSE [s EXCEPT !.ino[i].busy = TRUE]

iunlock(s, i) ==
  IF ~s.ino[i].busy \/ s.ino[i].ref < 1 THEN Panics(s, "iunlock")
  ELSE [s EXCEPT !.ino[i].busy = FALSE]

\* Faulty variant: an inode is freed while it is referenced.
Unused_Linked(x) == x.nlink = 0

Unused(x) == x.ref = 1 /\ x.nlink = 0

iput(s, i) ==
  LET x == s.ino[i]
  IN  IF ~Unused(x) THEN [s EXCEPT !.ino[i].ref = @ - 1]
      ELSE IF x.busy THEN Panics(s, "iput busy")
      ELSE [s EXCEPT !.ino =
              [j \in Inums |-> IF j = i THEN Free
                               ELSE IF \E e \in Elems : x.entries[e] = j
                               THEN [@[j] EXCEPT !.lost = TRUE] ELSE @[j]]]

iunlockput(s, i) == iput(iunlock(s, i), i)

Unlocked(i) == ~ino[i].busy

\* The inode number of a name, or 0.
dirlookup(dp, e) == IF e = ".." THEN ino[dp].up ELSE ino[dp].entries[e]

At(p, op, place) == panic = "none" /\ call[p].op \in op /\ call[p].at = place

\* Process p leaves the cache as s and goes on with c; a panic ends everything.
Step(p, s, c) ==
  /\ panic' = s.panic
  /\ IF s.panic = "none" THEN ino' = s.ino /\ call' = [call EXCEPT ![p] = c]
                         ELSE UNCHANGED <<ino, call>>

-----------------------------------------------------------------------------
\* namex: the call starts at the working directory, or at the root.
Start(p, r) ==
  LET i == IF r.rooted THEN ROOTINO ELSE cwd[p]
  IN  /\ panic = "none" /\ call[p] = User
      /\ Step(p, iget(Cache, i), [User EXCEPT !.op = r.op, !.at = "walk", !.path = r.path,
                                              !.new = r.new, !.dp = i])
      /\ UNCHANGED <<cwd, ofile, ftable>>

\* Calls that want the parent of what the path names.
ForParent(c) == c.op \in {"create", "mkdir", "unlink", "linkto"}

\* Where a walk that fails goes on: link has a count to take back.
Failed(c) ==
  IF c.op = "linkto" THEN [c EXCEPT !.at = "bad", !.path = <<>>, !.dp = 0] ELSE User

\* The next round of the loop; after the last one namei returns.
Down(c, next) ==
  IF Len(c.path) > 1 THEN [c EXCEPT !.dp = next, !.path = Tail(@)]
                     ELSE [c EXCEPT !.dp = 0, !.ip = next, !.path = <<>>, !.at = "inode"]

Removed(i) == \A j \in Inums, e \in Elems : ino[j].entries[e] # i

\* One round of namex's loop.
Walk(p) ==
  LET c == call[p]
      x == ino[c.dp]
      next == dirlookup(c.dp, Head(c.path))
      locked == ilock(Cache, c.dp)
      up == Head(c.path) = ".." /\ c.dp # ROOTINO /\ Removed(c.dp)
  IN  /\ panic = "none" /\ c.at = "walk" /\ Unlocked(c.dp)
      /\ IF x.type = "T_DIR" /\ ForParent(c) /\ Len(c.path) = 1
         THEN Step(p, iunlock(locked, c.dp), [c EXCEPT !.at = "dir"])
         ELSE IF x.type # "T_DIR" \/ next = 0
         THEN Step(p, iunlockput(locked, c.dp), Failed(c))
         ELSE Step(p, iunlockput(iget(locked, next), c.dp),
                   [Down(c, next) EXCEPT !.astray = up])
      /\ UNCHANGED <<cwd, ofile, ftable>>

-----------------------------------------------------------------------------
Fresh == {i \in Inums : ino[i].type = "none"}

\* ialloc takes the first free inode.
ialloc(s, kind) ==
  LET new == Min(Fresh)
  IN  IF Fresh = {} THEN Panics(s, "ialloc: no inodes")
      ELSE iget([s EXCEPT !.ino[new].type = kind], new)

\* The names of a new inode: ".." and dp->nlink++ of a directory, and its own.
Named(t, dp, e, new) ==
  LET dir == t[new].type = "T_DIR"
  IN  [t EXCEPT ![new].nlink = 1, ![new].up = IF dir THEN dp ELSE 0,
                ![dp].nlink = IF dir THEN @ + 1 ELSE @, ![dp].entries[e] = new]

\* create, with the parent locked: the name is there, or gets a new inode.
create(p) ==
  LET c == call[p]
      e == Head(c.path)
      there == dirlookup(c.dp, e)
      locked == ilock(Cache, c.dp)
      new == Min(Fresh)
      got == ilock(ialloc(locked, IF c.op = "mkdir" THEN "T_DIR" ELSE "T_FILE"), new)
      left == iunlockput([got EXCEPT !.ino = Named(@, c.dp, e, new)], c.dp)
  IN  /\ At(p, {"create", "mkdir"}, "dir") /\ Unlocked(c.dp)
      /\ IF there # 0
         THEN Step(p, iunlockput(iget(locked, there), c.dp),
                   [c EXCEPT !.at = "inode", !.path = <<>>, !.ip = there, !.dp = 0])
         ELSE IF Fresh = {} THEN Step(p, ialloc(locked, "T_FILE"), c)
         ELSE IF c.op = "mkdir" THEN Step(p, iunlockput(left, new), User)
         ELSE Step(p, left, [c EXCEPT !.at = "open", !.path = <<>>, !.ip = new, !.dp = 0])
      /\ UNCHANGED <<cwd, ofile, ftable>>

\* What was found is locked: O_CREATE wants a file, and open takes a directory
\* with O_RDONLY only.
LockFound(p, rdonly) ==
  LET c == call[p]
      file == ino[c.ip].type = "T_FILE"
      locked == ilock(Cache, c.ip)
  IN  /\ At(p, {"create", "mkdir", "open"}, "inode") /\ Unlocked(c.ip)
      /\ IF (c.op = "create" /\ file) \/ (c.op = "open" /\ (file \/ rdonly))
         THEN Step(p, locked, [c EXCEPT !.at = "open"])
         ELSE Step(p, iunlockput(locked, c.ip), User)
      /\ UNCHANGED <<cwd, ofile, ftable>>

FreeFiles == {f \in Files : ftable[f].ref = 0}
FreeFd(p) == MapThenSumSet(LAMBDA f : ofile[p][f], Files) < NOFILE

\* Faulty variant: the inode is only unlocked when open fails.
Abandoned_Kept(s, i) == iunlock(s, i)

Abandoned(s, i) == iunlockput(s, i)

\* filealloc and fdalloc; a file without a descriptor is closed again.
sys_open(p) ==
  LET c == call[p]
  IN  /\ At(p, {"create", "open"}, "open")
      /\ IF FreeFiles = {} \/ ~FreeFd(p)
         THEN Step(p, Abandoned(Cache, c.ip), User) /\ UNCHANGED <<ofile, ftable>>
         ELSE /\ Step(p, iunlock(Cache, c.ip), User)
              /\ ftable' = [ftable EXCEPT ![Min(FreeFiles)] = [ref |-> 1, ip |-> c.ip]]
              /\ ofile' = [ofile EXCEPT ![p][Min(FreeFiles)] = 1]
      /\ UNCHANGED cwd

sys_chdir(p) ==
  LET c == call[p]
      locked == ilock(Cache, c.ip)
  IN  /\ At(p, {"chdir"}, "inode") /\ Unlocked(c.ip)
      /\ IF ino[c.ip].type # "T_DIR"
         THEN Step(p, iunlockput(locked, c.ip), User) /\ UNCHANGED cwd
         ELSE /\ Step(p, iput(iunlock(locked, c.ip), cwd[p]), User)
              /\ cwd' = [cwd EXCEPT ![p] = c.ip]
      /\ UNCHANGED <<ofile, ftable>>

\* link counts the new name before it looks for the directory.
sys_link(p) ==
  LET c == call[p]
      locked == ilock(Cache, c.ip)
      counted == iunlock([locked EXCEPT !.ino[c.ip].nlink = @ + 1], c.ip)
  IN  /\ At(p, {"link"}, "inode") /\ Unlocked(c.ip)
      /\ IF ino[c.ip].type = "T_DIR"
         THEN Step(p, iunlockput(locked, c.ip), User)
         ELSE Step(p, iget(counted, cwd[p]),
                   [c EXCEPT !.op = "linkto", !.at = "walk", !.path = c.new, !.new = <<>>,
                             !.dp = cwd[p], !.astray = FALSE])
      /\ UNCHANGED <<cwd, ofile, ftable>>

dirlink(p) ==
  LET c == call[p]
      e == Head(c.path)
      locked == ilock(Cache, c.dp)
      linked == [locked EXCEPT !.ino[c.dp].entries[e] = c.ip]
  IN  /\ At(p, {"linkto"}, "dir") /\ Unlocked(c.dp)
      /\ IF dirlookup(c.dp, e) # 0
         THEN Step(p, iunlockput(locked, c.dp), Failed(c))
         ELSE Step(p, iput(iunlockput(linked, c.dp), c.ip), User)
      /\ UNCHANGED <<cwd, ofile, ftable>>

\* Faulty variant: the failed link is not uncounted.
Uncounted_Not(s, i) == s

Uncounted(s, i) == [s EXCEPT !.ino[i].nlink = @ - 1]

LinkBad(p) ==
  LET i == call[p].ip
  IN  /\ At(p, {"linkto"}, "bad") /\ Unlocked(i)
      /\ Step(p, iunlockput(Uncounted(ilock(Cache, i), i), i), User)
      /\ UNCHANGED <<cwd, ofile, ftable>>

\* unlink, with the parent locked, takes a reference to what it finds and
\* keeps the parent locked while it waits for that.
UnlinkLooksUp(p) ==
  LET c == call[p]
      there == dirlookup(c.dp, Head(c.path))
      locked == ilock(Cache, c.dp)
  IN  /\ At(p, {"unlink"}, "dir") /\ Unlocked(c.dp)
      /\ IF there = 0
         THEN Step(p, iunlockput(locked, c.dp), User)
         ELSE Step(p, iget(locked, there), [c EXCEPT !.at = "inode", !.ip = there])
      /\ UNCHANGED <<cwd, ofile, ftable>>

isdirempty(x) == x.entries = NoEntries

sys_unlink(p) ==
  LET c == call[p]
      x == ino[c.ip]
      dir == x.type = "T_DIR"
      locked == ilock(Cache, c.ip)
      erased == [locked EXCEPT !.ino[c.dp].entries[Head(c.path)] = 0,
                               !.ino[c.dp].nlink = IF dir THEN @ - 1 ELSE @]
      uncounted == [iunlockput(erased, c.dp) EXCEPT !.ino[c.ip].nlink = @ - 1]
  IN  /\ At(p, {"unlink"}, "inode") /\ Unlocked(c.ip)
      /\ IF x.nlink < 1 THEN Step(p, Panics(locked, "unlink: nlink < 1"), c)
         ELSE IF dir /\ ~isdirempty(x)
         THEN Step(p, iunlockput(iunlockput(locked, c.ip), c.dp), User)
         ELSE Step(p, iunlockput(uncounted, c.ip), User)
      /\ UNCHANGED <<cwd, ofile, ftable>>

filedup(f) == [ftable EXCEPT ![f].ref = @ + 1]

sys_dup(p, f) ==
  /\ panic = "none" /\ call[p] = User
  /\ ofile[p][f] > 0 /\ FreeFd(p)
  /\ ofile' = [ofile EXCEPT ![p][f] = @ + 1]
  /\ ftable' = filedup(f)
  /\ UNCHANGED <<ino, cwd, call, panic>>

sys_close(p, f) ==
  /\ panic = "none" /\ call[p] = User /\ ofile[p][f] > 0
  /\ ofile' = [ofile EXCEPT ![p][f] = @ - 1]
  /\ IF ftable[f].ref > 1
     THEN ftable' = [ftable EXCEPT ![f].ref = @ - 1] /\ UNCHANGED <<ino, call, panic>>
     ELSE /\ ftable' = [ftable EXCEPT ![f] = [ref |-> 0, ip |-> 0]]
          /\ Step(p, iput(Cache, ftable[f].ip), User)
  /\ UNCHANGED cwd

Halted == panic # "none" /\ UNCHANGED vars

Next ==
  \/ \E p \in Procs :
       \/ \E r \in Requests : Start(p, r)
       \/ Walk(p) \/ create(p) \/ sys_open(p) \/ sys_chdir(p)
       \/ \E rdonly \in BOOLEAN : LockFound(p, rdonly)
       \/ sys_link(p) \/ dirlink(p) \/ LinkBad(p) \/ UnlinkLooksUp(p) \/ sys_unlink(p)
       \/ \E f \in Files : sys_dup(p, f) \/ sys_close(p, f)
  \/ Halted

Spec == Init /\ [][Next]_vars

-----------------------------------------------------------------------------
\* The variables have their types.
TypeOK ==
  /\ \A i \in Inums :
       /\ ino[i].type \in {"none", "T_DIR", "T_FILE"} /\ {ino[i].nlink, ino[i].ref} \subseteq Nat
       /\ ino[i].entries \in [Elems -> 0..NINODES] /\ ino[i].up \in 0..NINODES
       /\ ino[i].busy \in BOOLEAN
  /\ cwd \in [Procs -> Inums] /\ ofile \in [Procs -> [Files -> 0..NOFILE]]
  /\ \A f \in Files : ftable[f].ref \in Nat /\ ftable[f].ip \in 0..NINODES
  /\ \A p \in Procs : call[p].dp \in 0..NINODES /\ call[p].ip \in 0..NINODES

Astray(i) == \E p \in Procs : call[p].astray /\ i \in {call[p].dp, call[p].ip}

\* ip->ref counts the references to an inode: working directories, open files
\* and calls in progress; f->ref counts descriptors.  An inode is allocated
\* exactly as long as it has a link or a reference, but for a reference that
\* ".." of a removed directory gave to its removed parent.
RefsExact ==
  panic = "none" =>
    /\ TypeOK
    /\ \A i \in Inums :
         /\ ino[i].ref = Cardinality({p \in Procs : cwd[p] = i})
                          + Cardinality({f \in Files : ftable[f].ip = i})
                          + Cardinality({p \in Procs : call[p].dp = i})
                          + Cardinality({p \in Procs : call[p].ip = i})
         /\ ino[i].type # "none" => ino[i].ref + ino[i].nlink > 0
         /\ ino[i].type = "none" => ino[i].nlink = 0 /\ (ino[i].ref = 0 \/ Astray(i))
    /\ \A f \in Files :
         ftable[f].ref = MapThenSumSet(LAMBDA p : ofile[p][f], Procs)

Links(i) == Cardinality({s \in Inums \X Elems : ino[s[1]].entries[s[2]] = i})
Counting(i) == Cardinality({p \in Procs : call[p].op = "linkto" /\ call[p].ip = i})
Subdirs(i) == Cardinality({e \in Elems : /\ ino[i].entries[e] # 0
                                         /\ ino[ino[i].entries[e]].type = "T_DIR"})

\* nlink is the number of names, ".." of subdirectories and links about to be
\* made included, so that no name (but "..") ever leads to a free inode; only a
\* file made in a directory that was removed meanwhile keeps a link it has no
\* name for.
LinksExact ==
  \A i \in Inums \ {ROOTINO} :
    ino[i].nlink = Links(i) + Counting(i) + Subdirs(i) + (IF ino[i].lost THEN 1 ELSE 0)

\* Of all the panics of the inode layer and of unlink, two are for a full table
\* (of inodes, of cache slots), and one other can happen: ".." of a removed
\* directory, still some process's working directory, names a parent that was
\* removed as well, and ilock finds no type there.  No inode that a name led to
\* is ever found free, put while busy, unlocked by another, or without links.
PanicsExplained ==
  \/ panic \in {"none", "ialloc: no inodes", "iget: no inodes"}
  \/ panic = "ilock: no type" /\ \E i \in Inums : ino[i].type = "none" /\ Astray(i)
=============================================================================
