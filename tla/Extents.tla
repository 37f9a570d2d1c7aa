------------------------------ MODULE Extents -------------------------------
(***************************************************************************)
(* The blocks of files, regular and extent-based (project 5, fs.c): balloc *)
(* and bfree, bmap and itrunc, the inode in memory and on disk, and the    *)
(* file operations that use them.  An operation holds its inode locked and *)
(* is one step.  Offsets count blocks; a block's contents are zero or the  *)
(* file and the place in it that they were written for.                    *)
(***************************************************************************)
EXTENDS Naturals, FiniteSets, FiniteSetsExt

CONSTANTS NDIRECT, NINDIRECT,
          NPAIRS,     \* NDIRECT / 2, free here because no file uses both layouts
          LenSize,    \* an extent's length is its word modulo LenSize (256)
          NBlocks,    \* data blocks on the disk
          MaxOffset,  \* bound on the offsets that writes reach
          SeekArgs,   \* the offsets given to lseek
          Files,      \* the inode numbers, each with its one name
          Types

ASSUME ExtentsConstants ==
  /\ {NDIRECT, NINDIRECT, NPAIRS, LenSize, NBlocks, MaxOffset} \subseteq Nat \ {0}
  /\ SeekArgs \subseteq 0..MaxOffset /\ MaxOffset <= NDIRECT + NINDIRECT
  /\ Types \subseteq {"T_FILE", "T_EXTENT"}

Blocks == 1..NBlocks
Zero == <<>>
NoType == "free"
Words == 0..Max({NDIRECT, 2 * NPAIRS - 1})
NoAddrs == [i \in Words |-> 0]
Free == [type |-> NoType, nlink |-> 0, size |-> 0, addrs |-> NoAddrs]

VARIABLES used,      \* the bitmap
          content,   \* per block: its data, or Zero
          slots,     \* per block: its words, if it is an indirect block
          dip,       \* the inodes on disk
          ip,        \* the inodes in memory, of the open files
          open,      \* the files that are open, once each
          off,       \* per file: f->off
          panic,
          end,       \* per file: the length that its writers have seen
          sought     \* the files that were ever seeked past their end

disk == <<used, content, slots>>
vars == <<disk, dip, ip, open, off, panic, end, sought>>

Init ==
  /\ used = {}
  /\ content = [b \in Blocks |-> Zero]
  /\ slots = [b \in Blocks |-> [j \in 0..NINDIRECT - 1 |-> 0]]
  /\ dip = [f \in Files |-> Free] /\ ip = dip
  /\ open = {} /\ off = [f \in Files |-> 0]
  /\ panic = "none"
  /\ end = [f \in Files |-> 0] /\ sought = {}

-----------------------------------------------------------------------------
Pairs == {2 * k : k \in 0..NPAIRS - 1}
Length(a, i) == a[i] % LenSize      \* addrs[i] & 0xFF
Start(a, i) == a[i] \div LenSize    \* addrs[i] >> 8

Within(a, i, bn) == bn >= a[i + 1] /\ bn < Length(a, i) + a[i + 1]

\* The extents that end where block bn goes, and the free pairs.
Neighbours(a, bn) == {i \in Pairs : bn = Length(a, i) + a[i + 1]}
Fill(a) == {i \in Pairs : a[i] = 0}

\* Faulty variant: a logical neighbour is extended wherever its blocks are.
Adjoins_Always(a, i, b) == TRUE

Adjoins(a, i, b) == b = Start(a, i) + Length(a, i)

\* The address that bmap finds, or 0.
Mapped(x, bn) ==
  LET a == x.addrs
  IN  IF x.type = "T_EXTENT"
      THEN LET found == {i \in Pairs : Within(a, i, bn)}
           IN  IF found = {} THEN 0 ELSE Start(a, Min(found)) + bn - a[Min(found) + 1]
      ELSE IF bn < NDIRECT THEN a[bn]
      ELSE IF a[NDIRECT] = 0 THEN 0 ELSE slots[a[NDIRECT]][bn - NDIRECT]

\* The first block that is not marked; 0 where the code panics.
balloc(marked) == IF Blocks \subseteq marked THEN 0 ELSE Min(Blocks \ marked)

\* Where the new block b goes as block bn: behind its neighbour, if it is so on
\* disk too, or into a pair of its own.  The same addrs, if there is no place.
Placed(a, bn, b) ==
  LET near == Neighbours(a, bn)
  IN  IF near # {} /\ Adjoins(a, Max(near), b) THEN [a EXCEPT ![Max(near)] = @ + 1]
      ELSE IF Fill(a) = {} THEN a
      ELSE [a EXCEPT ![Min(Fill(a))] = b * LenSize + 1, ![Min(Fill(a)) + 1] = bn]

\* What bmap returns and leaves behind; addr is 0 where it panics.
bmap(x, bn) ==
  LET a == x.addrs
      b == balloc(used)
      Result(addr, addrs, taken, words) ==
        [addr |-> addr, addrs |-> addrs, used |-> used \cup (taken \ {0}), slots |-> words]
      Indirect(table, addr) ==
        Result(addr, [a EXCEPT ![NDIRECT] = table], {table, addr},
               IF table = 0 THEN slots ELSE [slots EXCEPT ![table][bn - NDIRECT] = addr])
  IN  IF Mapped(x, bn) # 0 THEN Result(Mapped(x, bn), a, {}, slots)
      ELSE IF b = 0 THEN Result(0, a, {}, slots)
      ELSE IF x.type = "T_EXTENT"
      THEN Result(IF Placed(a, bn, b) = a THEN 0 ELSE b, Placed(a, bn, b), {b}, slots)
      ELSE IF bn < NDIRECT THEN Result(b, [a EXCEPT ![bn] = b], {b}, slots)
      ELSE IF a[NDIRECT] # 0 THEN Indirect(a[NDIRECT], b)
      ELSE Indirect(b, balloc(used \cup {b}))

\* The blocks that itrunc gives to bfree.
Extent(a, i) == {Start(a, i) + j : j \in {k \in 0..LenSize : k < Length(a, i)}}

\* Faulty variant: the loop of itrunc leaves out the last block of an extent.
Truncated_Short(x) ==
  UNION {{b \in Extent(x.addrs, i) : b + 1 \in Extent(x.addrs, i)} : i \in Pairs}

Truncated(x) ==
  LET a == x.addrs
      direct == {a[i] : i \in 0..NDIRECT} \ {0}
      listed == IF a[NDIRECT] = 0 THEN {}
               ELSE {slots[a[NDIRECT]][j] : j \in 0..NINDIRECT - 1} \ {0}
  IN  IF x.type = "T_EXTENT" THEN UNION {Extent(a, i) : i \in Pairs} ELSE direct \cup listed

\* Faulty variant: bfree leaves the contents.
Cleared_Not(gone) == content

\* bzero in bfree.
Cleared(gone) == [b \in Blocks |-> IF b \in gone THEN Zero ELSE content[b]]

\* itrunc of inode x, each block through bfree.
itrunc(x) ==
  LET gone == Truncated(x)
  IN  /\ used' = used \ gone
      /\ content' = Cleared(gone)
      /\ slots' = [b \in Blocks |-> IF b \in gone THEN [j \in 0..NINDIRECT - 1 |-> 0]
                                     ELSE slots[b]]
      /\ panic' = IF gone \subseteq used THEN "none" ELSE "freeing free block"

-----------------------------------------------------------------------------
\* open(O_CREATE) of a new name: ialloc, and the inode as create fills it in.
create(f, type) ==
  LET fresh == [Free EXCEPT !.type = type, !.nlink = 1]
  IN  /\ panic = "none" /\ f \notin open /\ dip[f].type = NoType
      /\ dip' = [dip EXCEPT ![f] = fresh] /\ ip' = [ip EXCEPT ![f] = fresh]
      /\ open' = open \cup {f} /\ off' = [off EXCEPT ![f] = 0]
      /\ end' = [end EXCEPT ![f] = 0]
      /\ UNCHANGED <<disk, panic, sought>>

\* open of a file that is not in the cache: ilock reads the inode.
sys_open(f) ==
  /\ panic = "none" /\ f \notin open /\ dip[f].nlink > 0
  /\ ip' = [ip EXCEPT ![f] = dip[f]]
  /\ open' = open \cup {f} /\ off' = [off EXCEPT ![f] = 0]
  /\ UNCHANGED <<disk, dip, panic, end, sought>>

\* The last iput of inode x: without links it is truncated and freed.
iput(f, x) ==
  /\ IF x.nlink = 0 THEN itrunc(x) /\ dip' = [dip EXCEPT ![f] = Free]
                    ELSE UNCHANGED <<disk, dip, panic>>
  /\ open' = open \ {f}
  /\ ip' = [ip EXCEPT ![f] = Free] /\ off' = [off EXCEPT ![f] = 0]

fileclose(f) ==
  /\ panic = "none" /\ f \in open
  /\ iput(f, ip[f])
  /\ UNCHANGED <<end, sought>>

\* unlink loads the inode if nobody has it, and writes it back.
sys_unlink(f) ==
  /\ panic = "none" /\ dip[f].nlink > 0
  /\ IF f \in open
     THEN /\ ip' = [ip EXCEPT ![f].nlink = 0]
          /\ dip' = [dip EXCEPT ![f] = ip'[f]]
          /\ UNCHANGED <<disk, open, off, panic>>
     ELSE iput(f, [dip[f] EXCEPT !.nlink = 0])
  /\ UNCHANGED <<end, sought>>

\* Faulty variant: writei always leaves the inode on disk for later.
Saved_Never(f, grown) == dip

\* iupdate, if the file grew.
Saved(f, grown) == IF grown THEN [dip EXCEPT ![f] = ip'[f]] ELSE dip

filewrite(f) ==
  LET x == ip[f]
      r == bmap(x, off[f])
      grown == off[f] + 1 > x.size
  IN  /\ panic = "none" /\ f \in open
      /\ off[f] < MaxOffset
      /\ used' = r.used
      /\ IF r.addr = 0
         THEN panic' = "bmap" /\ UNCHANGED <<content, slots, dip, ip, off, end>>
         ELSE /\ content' = [content EXCEPT ![r.addr] = <<f, off[f]>>]
              /\ slots' = r.slots
              /\ ip' = [ip EXCEPT ![f].addrs = r.addrs,
                                  ![f].size = IF grown THEN off[f] + 1 ELSE @]
              /\ dip' = Saved(f, grown)
              /\ off' = [off EXCEPT ![f] = @ + 1]
              /\ end' = [end EXCEPT ![f] = Max({@, off[f] + 1})]
              /\ UNCHANGED panic
      /\ UNCHANGED <<open, sought>>

\* readi maps, and so allocates, the block it reads.
fileread(f) ==
  LET r == bmap(ip[f], off[f])
  IN  /\ panic = "none" /\ f \in open /\ off[f] < ip[f].size
      /\ used' = r.used
      /\ IF r.addr = 0
         THEN panic' = "bmap" /\ UNCHANGED <<slots, ip, off>>
         ELSE /\ slots' = r.slots
              /\ ip' = [ip EXCEPT ![f].addrs = r.addrs]
              /\ off' = [off EXCEPT ![f] = @ + 1]
              /\ UNCHANGED panic
      /\ UNCHANGED <<content, dip, open, end, sought>>

\* The size grows in memory only.
filelseek(f, offset) ==
  /\ panic = "none" /\ f \in open
  /\ off' = [off EXCEPT ![f] = offset]
  /\ ip' = [ip EXCEPT ![f].size = Max({@, offset})]
  /\ sought' = IF offset > ip[f].size THEN sought \cup {f} ELSE sought
  /\ UNCHANGED <<disk, dip, open, panic, end>>

Next ==
  \E f \in Files :
    \/ \E type \in Types : create(f, type)
    \/ sys_open(f) \/ fileclose(f) \/ sys_unlink(f) \/ filewrite(f) \/ fileread(f)
    \/ \E offset \in SeekArgs : filelseek(f, offset)

Spec == Init /\ [][Next]_vars

-----------------------------------------------------------------------------
\* The inode that counts: the one in memory while the file is open.
Current(f) == IF f \in open THEN ip[f] ELSE dip[f]

Offsets == 0..MaxOffset
Places == 0..MaxOffset - 1
At(f, bn) == IF Current(f).type = NoType THEN 0 ELSE Mapped(Current(f), bn)
Table(f) == IF Current(f).type = "T_FILE" THEN Current(f).addrs[NDIRECT] ELSE 0
Owned(f) == ({At(f, bn) : bn \in Places} \cup {Table(f)}) \ {0}

\* The variables have their types, and closed files have nothing in memory.
TypeOK ==
  LET Inode == [type : Types \cup {NoType}, nlink : 0..1, size : Offsets,
                addrs : [Words -> 0..(NBlocks + 1) * LenSize]]
  IN  /\ used \subseteq Blocks /\ slots \in [Blocks -> [0..NINDIRECT - 1 -> 0..NBlocks]]
      /\ dip \in [Files -> Inode] /\ ip \in [Files -> Inode]
      /\ open \subseteq Files /\ off \in [Files -> Offsets]
      /\ \A f \in Files : (f \in open) <=> (ip[f].type # NoType)

\* No block is in two files or twice in one, all of them are marked in the
\* bitmap, and itrunc never frees a free one.
BlocksDisjoint ==
  /\ TypeOK
  /\ \A f, g \in Files : f # g => Owned(f) \cap Owned(g) = {}
  /\ \A f \in Files :
       Cardinality(Owned(f)) = Cardinality({bn \in Places : At(f, bn) # 0})
                               + Cardinality({Table(f)} \ {0})
  /\ \A f \in Files : Owned(f) \subseteq used
  /\ panic # "freeing free block"

\* Every marked block belongs to a file, through closing, evicting, reloading and
\* truncating, as long as no file was seeked past its end.
NoLeak == sought = {} /\ panic = "none" => used = UNION {Owned(f) : f \in Files}

\* What is written is read back, before and after the inode is reloaded; a file
\* that was seeked past its end may lose writes to zeros, but never shows the
\* contents of another.
ReadsBack ==
  \A f \in Files :
    IF f \notin sought
    THEN Current(f).type # NoType =>
           /\ Current(f).size = end[f]
           /\ \A bn \in 0..end[f] - 1 : At(f, bn) # 0 /\ content[At(f, bn)] = <<f, bn>>
    ELSE \A bn \in Places : At(f, bn) # 0 => content[At(f, bn)] \in {Zero, <<f, bn>>}
=============================================================================
