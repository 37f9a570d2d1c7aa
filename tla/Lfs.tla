-------------------------------- MODULE Lfs ---------------------------------
(***************************************************************************)
(* The log-structured file system of project 6 (6/libfsi.c) behind its     *)
(* server, on a disk whose cache a crash loses.                            *)
(*                                                                         *)
(* The server does one request at a time and nothing reads between the     *)
(* writes of one, so a call first works out what it will write, and the    *)
(* writes and fsyncs then follow one by one, with a crash possible before  *)
(* each.  The image is the checkpoint region and a log of records, in      *)
(* places of 64 bytes: an inode or a chunk of the map is one place, a      *)
(* block one with its first 64 bytes (in a directory "." and "..") and one *)
(* that stands for the rest.  All files are in the root directory, and all *)
(* inodes in one chunk of the inode map.  A write to the disk takes place  *)
(* as a whole or not at all.                                               *)
(***************************************************************************)
EXTENDS Integers, Sequences, FiniteSets, FiniteSetsExt, SequencesExt

CONSTANTS Names, Values,
          NINODES,     \* inode numbers, 0 is the root directory
          NBLOCKS,     \* blocks of a file
          NENTRIES,    \* entries of a directory block, after "." and ".."
          MaxLog,      \* bound on the places of the log
          NoFile, Unwritten, Idle

Inums == 0..NINODES - 1
Blocks == 0..NBLOCKS - 1
root == 0

ASSUME LfsConstants ==
  {NINODES, NBLOCKS, NENTRIES, MaxLog} \subseteq Nat \ {0} /\ MaxLog >= 4

VARIABLES disk,    \* what a crash leaves: the log and the checkpoint region
          dirty,   \* the writes since the last fsync, in order
          todo,    \* the writes and fsyncs the call has still to do
          cr,      \* the checkpoint region in memory
          inodes,  \* the inode map in memory: positions, -1 if free
          call,    \* the request being served, or Idle
          overtaken,  \* history: the call whose region a crash left on the disk
                      \* without all that was written before it, or Idle
          recreated,  \* history: creat was called for a name that existed
          strayed     \* history: a search went on behind the directory's block,
                      \* and found there what it looked for

histories == <<overtaken, recreated, strayed>>
vars == <<disk, dirty, todo, cr, inodes, call, histories>>

\* An image whose region was overtaken, and a directory whose second block is
\* what follows the first in the log, are not followed.
Followed == overtaken = Idle /\ ~strayed

-----------------------------------------------------------------------------
\* Records of the log, and what a call does to the image.
DirBlock(ents) == [kind |-> "dir", ents |-> ents]
Inode(type, size, direct) ==
  [kind |-> "inode", type |-> type, size |-> size, direct |-> direct]
Chunk(map) == [kind |-> "chunk", inodes |-> map]
Data(v) == [kind |-> "data", value |-> v]
Hole == [kind |-> "hole"]
BlockHead == [kind |-> "head"]   \* of a block

Log(pos, rec) == [to |-> "log", pos |-> pos, rec |-> rec]
Region(c) == [to |-> "cr", cr |-> c]
Fsync == [to |-> "fsync"]

Entry(name, inum) == [name |-> name, inum |-> inum]
NoDirect == [b \in Blocks |-> -1]

Write1(d, w) == IF w.to = "cr" THEN [d EXCEPT !.cr = w.cr]
                ELSE IF w.rec.kind \in {"dir", "data"}
                THEN [d EXCEPT !.log[w.pos] = BlockHead, !.log[w.pos + 1] = w.rec]
                ELSE [d EXCEPT !.log[w.pos] = w.rec]

\* The image d after the writes of the sequence ws.
Written(d, ws) == FoldLeft(Write1, d, ws)

\* fsi_build: an empty root directory, its inode, the map; all of it synced.
Init ==
  /\ cr = [end |-> 5, chunk |-> 4]
  /\ inodes = [n \in Inums |-> IF n = root THEN 3 ELSE -1]
  /\ disk = [cr |-> cr,
             log |-> [i \in 1..MaxLog |->
                        CASE i = 1 -> BlockHead
                          [] i = 2 -> DirBlock([e \in 1..NENTRIES |-> Entry(Idle, -1)])
                          [] i = 3 -> Inode("dir", 1, [NoDirect EXCEPT ![0] = 1])
                          [] i = 4 -> Chunk(inodes)
                          [] OTHER -> Hole]]
  /\ dirty = <<>> /\ todo = <<>> /\ call = Idle
  /\ overtaken = Idle /\ recreated = FALSE /\ strayed = FALSE

-----------------------------------------------------------------------------
\* Between calls everything is on the disk, so that is what calls read.
get_inode(n) == disk.log[inodes[n]]
Entries(node) == disk.log[node.direct[0] + 1].ents

\* The inode number behind the first entry of that name, -1 if there is none.
Find(ents, name) ==
  LET at == {e \in DOMAIN ents : ents[e].name = name}
  IN  IF at = {} THEN -1 ELSE ents[Min(at)].inum

\* The directory has one block.  For the others, direct is -1, lseek fails and
\* read goes on where it was: the log behind the first block is searched.  What
\* a crash left there of a call it lost may have the name.  (The contents of
\* files are taken not to look like entries.)
Behind1st(name) ==
  \E pos \in get_inode(root).direct[0] + 2..MaxLog :
    /\ disk.log[pos].kind = "dir"
    /\ \E e \in 1..NENTRIES : disk.log[pos].ents[e].name = name

Strays(name) ==
  /\ \A e \in 1..NENTRIES : Entries(get_inode(root))[e].name # name
  /\ Behind1st(name)

fsi_lookup(name) == Find(Entries(get_inode(root)), name)

Begin(c, writes, map, newcr) ==
  /\ newcr.end <= MaxLog + 1
  /\ call' = c
  /\ todo' = writes
  /\ inodes' = map
  /\ cr' = newcr
  /\ recreated' = (recreated \/ (c.op = "creat" /\ fsi_lookup(c.name) > 0))
  /\ UNCHANGED <<disk, dirty, overtaken, strayed>>

\* A call that searches behind the block, and finds something.
Stray ==
  /\ strayed' = TRUE
  /\ UNCHANGED <<disk, dirty, todo, cr, inodes, call, overtaken, recreated>>

\* Faulty variant: the region is written before the log is on the disk.
Ordered_Not == <<>>

\* fsi_write syncs the log in front of the region.
Ordered == <<Fsync>>

\* fsi_write(n, v, b): the block, the inode, the chunk, and the region.
fsi_write(n, b, v) ==
  LET node == get_inode(n)
      end == cr.end
      size == IF node.direct[b] = -1 /\ node.size < b THEN b ELSE node.size
      map == [inodes EXCEPT ![n] = end + 2]
      newcr == [end |-> end + 4, chunk |-> end + 3]
  IN  /\ inodes[n] # -1 /\ node.type = "file"
      /\ \E name \in Names :
           /\ fsi_lookup(name) = n
           /\ Begin([op |-> "write", name |-> name, block |-> b, value |-> v],
                <<Log(end, Data(v)),
                  Log(end + 2, Inode(node.type, size, [node.direct EXCEPT ![b] = end])),
                  Log(end + 3, Chunk(map))>>
                \o Ordered \o <<Region(newcr), Fsync>>,
                map, newcr)

\* Faulty variant: the inode stays in the map.
Freed_Not(map, n) == map

\* inodes[cinum] = -1
Freed(map, n) == [map EXCEPT ![n] = -1]

\* What fsi_unlink writes: the block with the entry's inum set to -1, the root's
\* inode, the chunk, and the region.
Unlink(name) ==
  LET node == get_inode(root)
      ents == Entries(node)
      at == Min({e \in DOMAIN ents : ents[e].name = name})
      end == cr.end
      map == Freed([inodes EXCEPT ![root] = end + 2], ents[at].inum)
      newcr == [end |-> end + 4, chunk |-> end + 3]
  IN  [writes |-> <<Log(end, DirBlock([ents EXCEPT ![at].inum = -1])),
                    Log(end + 2, [node EXCEPT !.direct[0] = end]),
                    Log(end + 3, Chunk(map)),
                    Region(newcr), Fsync>>,
       map |-> map, cr |-> newcr]

\* It returns -1, and nothing changes, for a name that is not there.
fsi_unlink(name) ==
  IF Strays(name) THEN Stray
  ELSE /\ fsi_lookup(name) >= 0
       /\ LET u == Unlink(name)
          IN  Begin([op |-> "unlink", name |-> name], u.writes, u.map, u.cr)

\* Faulty variant: the end of the log is left in front of the chunk.
Behind_Chunk(pos) == pos

\* pos += IMAP_CHUNK_SIZE * sizeof(int)
Behind(pos) == pos + 1

\* fsi_creat(root, LFS_REGULAR_FILE, name): an existing file is unlinked first,
\* but the directory is the one read before that.  Then the block with the new
\* entry, the root's inode, the file's inode, the chunk, and the region.
fsi_creat(name) ==
  LET node == get_inode(root)
      ents == Entries(node)
      old == fsi_lookup(name)
      before == IF old > 0 THEN Unlink(name)
                ELSE [writes |-> <<>>, map |-> inodes, cr |-> cr]
      unused == {n \in Inums : before.map[n] = -1}
      slots == {e \in DOMAIN ents : ents[e].inum = -1}
      n == Min(unused)
      end == before.cr.end
      map == [before.map EXCEPT ![root] = end + 2, ![n] = end + 3]
      newcr == [end |-> Behind(end + 4), chunk |-> end + 4]
  IN  IF Strays(name) \/ (unused # {} /\ slots = {}) THEN Stray
      ELSE /\ unused # {}
           /\ Begin([op |-> "creat", name |-> name],
                before.writes \o
                <<Log(end, DirBlock([ents EXCEPT ![Min(slots)] = Entry(name, n)])),
                  Log(end + 2, [node EXCEPT !.direct[0] = end]),
                  Log(end + 3, Inode("file", 0, NoDirect)),
                  Log(end + 4, Chunk(map)),
                  Region(newcr), Fsync>>,
                map, newcr)

-----------------------------------------------------------------------------
\* The next write goes to the cache, an fsync empties it.
Io ==
  /\ todo # <<>>
  /\ todo' = Tail(todo)
  /\ IF Head(todo) = Fsync
     THEN disk' = Written(disk, dirty) /\ dirty' = <<>>
     ELSE dirty' = Append(dirty, Head(todo)) /\ UNCHANGED disk
  /\ UNCHANGED <<cr, inodes, call, histories>>

\* The handler returns to the server's loop.
Return ==
  /\ call # Idle /\ todo = <<>>
  /\ call' = Idle
  /\ UNCHANGED <<disk, dirty, todo, cr, inodes, histories>>

\* Whether the region is among the writes S of the cache, and not all that was
\* written before it.
Overtakes(S) ==
  \E k \in S : dirty[k].to = "cr" /\ ~(1..k \subseteq S)

\* fsi_init on image d: the region, and the map its chunk holds.
LoadedMap(d) == IF d.log[d.cr.chunk].kind = "chunk" THEN d.log[d.cr.chunk].inodes
                ELSE [n \in Inums |-> -1]

\* The machine stops, and any of the writes since the last fsync are on the
\* disk; the server is started again on that.
Crash ==
  \E S \in SUBSET (DOMAIN dirty) :
    LET d == Written(disk, [k \in 1..Cardinality(S) |-> dirty[SetToSortSeq(S, <)[k]]])
    IN  /\ disk' = d
        /\ cr' = d.cr /\ inodes' = LoadedMap(d)
        /\ dirty' = <<>> /\ todo' = <<>> /\ call' = Idle
        /\ overtaken' = IF Overtakes(S) THEN call.op ELSE overtaken
        /\ UNCHANGED <<recreated, strayed>>

\* Server_Init's loop gets one request after the other.
Request ==
  /\ call = Idle
  /\ \/ \E name \in Names : fsi_creat(name) \/ fsi_unlink(name)
     \/ \E n \in Inums, b \in Blocks, v \in Values : fsi_write(n, b, v)

Next == Followed /\ (Request \/ Io \/ Return \/ Crash)

Spec == Init /\ [][Next]_vars

-----------------------------------------------------------------------------
\* What fsi_init would find on the disk.
Node(n) == disk.log[LoadedMap(disk)[n]]
Is(pos, kind) == pos \in 1..disk.cr.end - 1 /\ disk.log[pos].kind = kind
IsBlock(pos, kind) == Is(pos, "head") /\ Is(pos + 1, kind)
Live == {n \in Inums : LoadedMap(disk)[n] # -1}
Linked == {e \in 1..NENTRIES : Entries(Node(root))[e].inum # -1}

\* Everything the region on the disk leads to is there, of the right kind, and
\* in front of the end of the log, where no later call writes.
Sound ==
  /\ disk.cr.end \in 5..MaxLog + 1 /\ Is(disk.cr.chunk, "chunk")
  /\ root \in Live /\ \A n \in Live : Is(LoadedMap(disk)[n], "inode")
  /\ IsBlock(Node(root).direct[0], "dir")
  /\ \A n \in Live \ {root}, b \in Blocks :
       Node(n).direct[b] # -1 => IsBlock(Node(n).direct[b], "data")

\* On a disk that reorders and loses any writes since the last fsync, a crash
\* during fsi_write leaves an image that can be mounted; creat and unlink, which
\* sync once, may leave a region that leads nowhere (overtaken), and unless they
\* do the image can be mounted too, and between calls the server's memory
\* agrees with it.
CheckpointSound ==
  /\ overtaken \in {Idle, "creat", "unlink"}
  /\ overtaken = Idle =>
       /\ Sound
       /\ call = Idle => cr = disk.cr /\ inodes = LoadedMap(disk) /\ dirty = <<>>
       /\ \A n \in Live \ {root} :
            Node(n).size = Max({0} \cup {b \in Blocks : Node(n).direct[b] # -1})

\* On the disk, names and inodes correspond one to one: no entry leads to a free
\* inode, no inode in use has lost its name, no name occurs twice.  Only creat
\* of a name that exists, and a crash that lets the region overtake the log,
\* end that.
NamesExact ==
  overtaken = Idle /\ ~recreated =>
    LET ents == Entries(Node(root))
    IN  /\ {ents[e].inum : e \in Linked} = Live \ {root}
        /\ \A e, f \in Linked :
             e # f => ents[e].inum # ents[f].inum /\ ents[e].name # ents[f].name
        /\ \A e \in Linked : Find(ents, ents[e].name) = ents[e].inum

Contents(n) ==
  [b \in Blocks |-> IF Node(n).direct[b] = -1 THEN Unwritten
                    ELSE disk.log[Node(n).direct[b] + 1].value]

\* The files as a crash at this moment would leave them.
Files ==
  IF ~Sound THEN Idle
  ELSE [name \in Names |-> LET n == Find(Entries(Node(root)), name)
                           IN  IF n \notin Live THEN NoFile ELSE Contents(n)]

FS == INSTANCE AtomicFs WITH fs <- Files, done <- call # Idle /\ todo = <<>>,
                             released <- \/ recreated \/ strayed
                                         \/ overtaken \in {"creat", "unlink"}

\* The calls are atomic and durable, crashes included, until creat is called for
\* a name that exists, a crash during creat or unlink lets the region overtake
\* the log, or a search finds what a crash left of a lost call behind the
\* directory's block.
IsAtomicFs == FS!Spec

Symmetry == Permutations(Names) \cup Permutations(Values)
=============================================================================
